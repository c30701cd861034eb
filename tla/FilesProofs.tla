----------------------------- MODULE FilesProofs -----------------------------
(***************************************************************************)
(* What is kept in files and in the tracker stays so, for any requests,    *)
(* uploads, archives, deletes, tickets and pages.  The parts share no      *)
(* variable, so each has an inductive invariant of its own, stated before  *)
(* its lemmas; StoresProofs joins them.                                    *)
(***************************************************************************)
EXTENDS DraftChain, ManagedTapes, TrackerImport, TrackerDrill, FiniteSetTheorems,
        SequenceTheorems, WellFoundedInduction, TLAPS

-----------------------------------------------------------------------------
(* The agent drafts (DraftChain).                                            *)

VersionRec == [text : Text, decision : {"none", "accepted", "rejected"}]

RowRec == [chain : Chain, text : Text, version : 1 .. MaxVersions]

Deciding == {"write", "register", "terms", "accept", "reject"}

\* What an acceptance of a version of chain c has produced.
Produced(c, text) ==
    IF chainKind[c] = "document"
    THEN \E k \in DOMAIN docRows : docRows[k].chain = c /\ docRows[k].text = text
    ELSE \A t \in Text : terms[t] # "none"

ReqRecord(p) == p = [at |-> p.at, chain |-> p.chain, copy |-> p.copy, saw |-> p.saw, todo |-> p.todo]

\* What a request r at p knows of the chain it is at work on.
ReqOK(r, p) ==
    /\ ReqRecord(p)
    /\ p.at \in {"idle", "opened", "append", "read"} \union Deciding
    /\ p.at # "idle" => p.chain \in Chain /\ chainKind[p.chain] # "none"
    /\ p.at = "opened" => chain[p.chain] = <<>>
    /\ p.at = "read" => chain[p.chain] # <<>>
    /\ p.at \in {"append"} \union Deciding =>
         chainLock[p.chain] = <<r>> /\ p.copy = chain[p.chain] /\ chain[p.chain] # <<>>
    /\ p.at = "append" => Len(p.copy) < MaxVersions
    /\ p.at \in Deciding => Newest(p.copy).decision = "none" /\ Len(p.saw) = Len(p.copy)
    /\ p.at \in {"write", "register"} => chainKind[p.chain] = "document"
    /\ p.at = "register" => docFile[p.chain] = <<Newest(p.copy).text>>
    /\ p.at = "terms" => /\ chainKind[p.chain] # "document"
                         /\ \A t \in Text : terms[t] = "none" => t \in p.todo
    /\ p.at = "accept" => Produced(p.chain, Newest(p.copy).text)

ChainOK(c) ==
    /\ Len(chain[c]) <= MaxVersions
    /\ chainKind[c] = "none" => chain[c] = <<>>
    /\ \A i \in 1 .. Len(chain[c]) : chain[c][i].decision = "accepted" => Produced(c, chain[c][i].text)

LockOK(c) ==
    chainLock[c] = Unlocked \/ \E r \in DraftRequest :
        chainLock[c] = <<r>> /\ req[r].chain = c /\ req[r].at \in {"append"} \union Deciding

OpenedOnce ==
    \A r, s \in DraftRequest :
        req[r].at = "opened" /\ req[s].at = "opened" /\ req[r].chain = req[s].chain => r = s

\* The rows of a chain's document are of its versions, oldest first.
RowsOK ==
    /\ \A k \in 1 .. Len(docRows) :
         /\ docRows[k].version <= Len(chain[docRows[k].chain])
         /\ docRows[k].text = chain[docRows[k].chain][docRows[k].version].text
    /\ \A j, k \in 1 .. Len(docRows) :
         j < k /\ docRows[j].chain = docRows[k].chain => docRows[j].version < docRows[k].version

DraftTypes ==
    /\ chainKind \in [Chain -> Kinds \union {"none"}]
    /\ chain \in [Chain -> Seq(VersionRec)]
    /\ chainLock = [c \in Chain |-> chainLock[c]]
    /\ docFile \in [Chain -> {<<>>} \union {<<t>> : t \in Text}]
    /\ docRows \in Seq(RowRec)
    /\ terms \in [Text -> {"none", "candidate", "confirmed"}]
    /\ req = [r \in DraftRequest |-> req[r]]
    /\ draftCrashes \in Nat /\ draftCrashes <= MaxDraftCrashes

DraftInv ==
    /\ DraftTypes
    /\ \A r \in DraftRequest : ReqOK(r, req[r])
    /\ \A c \in Chain : ChainOK(c) /\ LockOK(c)
    /\ OpenedOnce /\ RowsOK

GrowStep ==
    \A c \in Chain : \A i \in DOMAIN chain[c] :
         /\ i \in DOMAIN chain'[c]
         /\ chain'[c][i].text = chain[c][i].text
         /\ chain[c][i].decision \in {"none", chain'[c][i].decision}

DecideStep ==
    \A c \in Chain : \A i \in DOMAIN chain[c] :
         chain'[c][i].decision # chain[c][i].decision =>
             \E r \in DraftRequest : req[r].chain = c /\ Len(req[r].saw) = i

\* What every step of a request r leaves to the others: their requests, the
\* chains they hold, what was opened, registered and promoted.
Apart(r) ==
    /\ req' = [s \in DraftRequest |-> req'[s]]
    /\ \A s \in DraftRequest : s # r => req'[s] = req[s]
    /\ \A c \in Chain : chainKind[c] # "none" => chainKind'[c] = chainKind[c]
    /\ \A c \in Chain : chainLock[c] # <<r>> /\ chainLock[c] # Unlocked =>
         chain'[c] = chain[c] /\ chainLock'[c] = chainLock[c] /\ docFile'[c] = docFile[c]
    /\ \A c \in Chain : chain[c] = <<>> => chain'[c] = <<>> \/ (req[r].at = "opened" /\ req[r].chain = c)
    /\ \A c \in Chain : chain[c] # <<>> => chain'[c] # <<>>
    /\ \A k \in DOMAIN docRows : k \in DOMAIN docRows' /\ docRows'[k] = docRows[k]
    /\ \A t \in Text : terms[t] # "none" => terms'[t] # "none"

\* A lock r had, or nobody had, is nobody's now or r's, at work on that chain.
LocksKept(r) ==
    \A c \in Chain : chainLock[c] = Unlocked \/ chainLock[c] = <<r>> =>
        \/ chainLock'[c] = Unlocked
        \/ chainLock'[c] = <<r>> /\ req'[r].chain = c /\ req'[r].at \in {"append"} \union Deciding

\* Fields of a request's record, changed.
Req(a, c, y, s, d) == [at |-> a, chain |-> c, copy |-> y, saw |-> s, todo |-> d]

TakesUp(p, a, y, d) == [p EXCEPT !.at = a, !.copy = y, !.todo = d]

\* A request that leaves lets go of its chain and of nothing else.
LetsGo(r) ==
    /\ chainLock' = [c \in Chain |-> chainLock'[c]]
    /\ \A c \in Chain : chainLock'[c] = IF chainLock[c] = <<r>> THEN Unlocked ELSE chainLock[c]
    /\ draftCrashes' \in Nat /\ draftCrashes' <= MaxDraftCrashes

\* No draft is there to begin with.
LEMMA DraftInitInv == DraftInit => DraftInv
<1> SUFFICES ASSUME DraftInit PROVE DraftInv
  OBVIOUS
<1>1. DraftTypes
  BY DraftBounds DEF DraftInit, DraftTypes, Kinds
<1>2. \A r \in DraftRequest : req[r].at = "idle" /\ ReqRecord(req[r])
  <2>1. PICK n : n = NoRequest
    OBVIOUS
  <2>2. n = [at |-> "idle", chain |-> 0, copy |-> <<>>, saw |-> <<>>, todo |-> {}]
    BY <2>1 DEF NoRequest
  <2>3. n.at = "idle" /\ ReqRecord(n)
    BY <2>2 DEF ReqRecord
  <2>4. QED
    BY <2>1, <2>3 DEF DraftInit
<1>3. \A r \in DraftRequest : ReqOK(r, req[r])
  BY <1>2 DEF ReqOK, Deciding
<1>4. \A c \in Chain : ChainOK(c) /\ LockOK(c)
  BY DraftBounds DEF DraftInit, ChainOK, LockOK
<1>5. OpenedOnce
  BY <1>2 DEF OpenedOnce
<1>6. RowsOK
  BY DEF DraftInit, RowsOK
<1>7. QED
  BY <1>1, <1>3, <1>4, <1>5, <1>6 DEF DraftInv

\* What is so of the drafts gives their types, and that an acceptance is
\* produced once.
LEMMA DraftInvGives == DraftInv => DraftTypeOK /\ AcceptedIsProducedOnce
<1> SUFFICES ASSUME DraftInv PROVE DraftTypeOK /\ AcceptedIsProducedOnce
  OBVIOUS
<1>1. /\ \A c \in Chain : DOMAIN chain[c] = 1 .. Len(chain[c]) /\ chain[c] \in Seq(VersionRec)
      /\ DOMAIN docRows = 1 .. Len(docRows) /\ docRows \in Seq(RowRec)
      /\ \A k \in 1 .. Len(docRows) : docRows[k] \in RowRec
  BY DEF DraftInv, DraftTypes
<1>2. DraftTypeOK
  <2>1. \A c \in Chain : \A i \in DOMAIN chain[c] :
         chain[c][i] \in [text : Text, decision : {"none", "accepted", "rejected"}]
    <3>1. \A c \in Chain : \A i \in DOMAIN chain[c] : chain[c][i] \in VersionRec
      BY <1>1
    <3>2. QED
      BY <3>1 DEF VersionRec
  <2>2. \A c \in Chain : chainLock[c] = Unlocked \/ \E r \in DraftRequest :
         /\ chainLock[c] = <<r>>
         /\ req[r].chain = c
         /\ req[r].at \in {"append", "write", "register", "terms", "accept", "reject"}
    BY DEF DraftInv, LockOK, Deciding
  <2>3. \A i \in DOMAIN docRows :
         docRows[i] \in [chain : Chain, text : Text, version : 1 .. MaxVersions]
    BY <1>1 DEF RowRec
  <2>4. /\ chainKind \in [Chain -> Kinds \union {"none"}]
        /\ \A c \in Chain : docFile[c] \in {<<>>} \union {<<t>> : t \in Text}
        /\ terms \in [Text -> {"none", "candidate", "confirmed"}]
    BY DEF DraftInv, DraftTypes
  <2>5. draftCrashes \in 0 .. MaxDraftCrashes
    BY DraftBounds DEF DraftInv, DraftTypes
  <2>6. QED
    BY <2>1, <2>2, <2>3, <2>4, <2>5 DEF DraftTypeOK
<1>3. \A c \in Chain : \A i \in DOMAIN chain[c] : chain[c][i].decision = "accepted" =>
         IF chainKind[c] = "document"
         THEN \E k \in DOMAIN docRows :
                docRows[k].chain = c /\ docRows[k].text = chain[c][i].text
         ELSE \A t \in Text : terms[t] # "none"
  BY <1>1 DEF DraftInv, ChainOK, Produced
<1>4. \A j, k \in DOMAIN docRows :
         docRows[j].chain = docRows[k].chain /\ docRows[j].version = docRows[k].version
             => j = k
  <2>1. SUFFICES ASSUME NEW j \in 1 .. Len(docRows), NEW k \in 1 .. Len(docRows), j < k,
                        docRows[j].chain = docRows[k].chain
                 PROVE  docRows[j].version # docRows[k].version
    BY <1>1
  <2>2. docRows[j].version < docRows[k].version
    BY <2>1 DEF DraftInv, RowsOK
  <2>3. docRows[j].version \in Int /\ docRows[k].version \in Int
    BY <1>1 DEF RowRec
  <2>4. QED
    BY <2>2, <2>3
<1>5. QED
  BY <1>2, <1>3, <1>4 DEF AcceptedIsProducedOnce

\* What was produced stays so while its chain and its outcome do.
LEMMA ProducedStays ==
  ASSUME NEW c \in Chain, NEW text, Produced(c, text), chainKind'[c] = chainKind[c],
         \A k \in DOMAIN docRows : k \in DOMAIN docRows' /\ docRows'[k] = docRows[k],
         \A t \in Text : terms[t] # "none" => terms'[t] # "none"
  PROVE  Produced(c, text)'
BY DEF Produced

\* A request that is not moved stays where it may be.
LEMMA OthersStay ==
  ASSUME DraftInv, NEW r \in DraftRequest, Apart(r), NEW s \in DraftRequest, s # r
  PROVE  ReqOK(s, req[s])'
<1>1. PICK p : p = req[s]
  OBVIOUS
<1>2. req'[s] = p /\ ReqOK(s, p)
  BY <1>1 DEF Apart, DraftInv
<1>3. p.at # "idle" => p.chain \in Chain /\ chainKind'[p.chain] = chainKind[p.chain] /\ chainKind'[p.chain] # "none"
  BY <1>2 DEF ReqOK, Apart
<1>4. p.at = "opened" => chain'[p.chain] = <<>>
  <2>1. SUFFICES ASSUME p.at = "opened" PROVE chain'[p.chain] = <<>>
    OBVIOUS
  <2>2. p.chain \in Chain /\ chain[p.chain] = <<>>
    BY <1>2, <2>1 DEF ReqOK
  <2>3. ~ (req[r].at = "opened" /\ req[r].chain = p.chain)
    BY <1>1, <2>1 DEF DraftInv, OpenedOnce
  <2>4. QED
    BY <2>2, <2>3 DEF Apart
<1>5. ASSUME p.at \in {"append"} \union Deciding
      PROVE  /\ chainLock'[p.chain] = <<s>> /\ p.copy = chain'[p.chain] /\ chain'[p.chain] # <<>>
             /\ docFile'[p.chain] = docFile[p.chain]
  <2>1. p.chain \in Chain /\ chainLock[p.chain] = <<s>> /\ p.copy = chain[p.chain] /\ chain[p.chain] # <<>>
    BY <1>2, <1>5 DEF ReqOK, Deciding
  <2>2. <<s>> # <<r>> /\ <<s>> # Unlocked
    BY DEF Unlocked
  <2>3. QED
    BY <2>1, <2>2 DEF Apart
<1>6. p.at = "terms" => \A t \in Text : terms'[t] = "none" => t \in p.todo
  BY <1>2 DEF ReqOK, Apart
<1>7. p.at = "accept" => Produced(p.chain, Newest(p.copy).text)'
  <2>1. SUFFICES ASSUME p.at = "accept" PROVE Produced(p.chain, Newest(p.copy).text)'
    OBVIOUS
  <2>2. Produced(p.chain, Newest(p.copy).text) /\ p.chain \in Chain /\ chainKind'[p.chain] = chainKind[p.chain]
    BY <1>2, <1>3, <2>1 DEF ReqOK
  <2>3. QED
    BY <2>2, ProducedStays DEF Apart
<1>8. ReqOK(s, p)'
  <2>1. /\ ReqRecord(p) /\ p.at \in {"idle", "opened", "append", "read"} \union Deciding
        /\ p.at = "append" => Len(p.copy) < MaxVersions
        /\ p.at \in Deciding => Newest(p.copy).decision = "none" /\ Len(p.saw) = Len(p.copy)
    BY <1>2 DEF ReqOK
  <2>2. p.at # "idle" => p.chain \in Chain /\ chainKind'[p.chain] # "none"
    BY <1>3
  <2>3. p.at \in {"append"} \union Deciding =>
         chainLock'[p.chain] = <<s>> /\ p.copy = chain'[p.chain] /\ chain'[p.chain] # <<>>
    BY <1>5
  <2>4. p.at \in {"write", "register"} => chainKind'[p.chain] = "document"
    BY <1>2, <1>3 DEF ReqOK
  <2>5. p.at = "register" => docFile'[p.chain] = <<Newest(p.copy).text>>
    BY <1>2, <1>5 DEF ReqOK, Deciding
  <2>6. p.at = "terms" => chainKind'[p.chain] # "document"
    BY <1>2, <1>3 DEF ReqOK
  <2>7. p.at = "read" => chain'[p.chain] # <<>>
    BY <1>2 DEF ReqOK, Apart
  <2>8. QED
    BY <1>4, <1>6, <1>7, <2>1, <2>2, <2>3, <2>4, <2>5, <2>6, <2>7, Zenon DEF ReqOK
<1>9. QED
  BY <1>2, <1>8

\* The chains' locks stay with those that hold them.
LEMMA LocksStay ==
  ASSUME DraftInv, NEW r \in DraftRequest, Apart(r), LocksKept(r)
  PROVE  \A c \in Chain : LockOK(c)'
<1>1. SUFFICES ASSUME NEW c \in Chain PROVE LockOK(c)'
  OBVIOUS
<1>2. CASE chainLock[c] = Unlocked \/ chainLock[c] = <<r>>
  BY <1>2 DEF LocksKept, LockOK
<1>3. CASE chainLock[c] # Unlocked /\ chainLock[c] # <<r>>
  <2>1. PICK s \in DraftRequest : chainLock[c] = <<s>> /\ req[s].chain = c /\ req[s].at \in {"append"} \union Deciding
    BY <1>3 DEF DraftInv, LockOK
  <2>2. s # r
    BY <1>3, <2>1
  <2>3. chainLock'[c] = <<s>> /\ req'[s] = req[s]
    BY <1>3, <2>1, <2>2 DEF Apart
  <2>4. QED
    BY <2>1, <2>3 DEF LockOK
<1>4. QED
  BY <1>2, <1>3

\* The locks of a request that holds none.
LEMMA HoldsNone ==
  ASSUME DraftInv, NEW r \in DraftRequest, req[r].at \notin {"append"} \union Deciding
  PROVE  \A c \in Chain : chainLock[c] # <<r>>
BY DEF DraftInv, LockOK, Unlocked

\* The locks of one that holds its chain's.
LEMMA HoldsOne ==
  ASSUME DraftInv, NEW r \in DraftRequest, req[r].at \in {"append"} \union Deciding
  PROVE  /\ req[r].chain \in Chain /\ chainLock[req[r].chain] = <<r>>
         /\ \A c \in Chain : chainLock[c] = <<r>> => c = req[r].chain
<1>1. ReqOK(r, req[r])
  BY DEF DraftInv
<1>2. req[r].chain \in Chain /\ chainLock[req[r].chain] = <<r>>
  BY <1>1 DEF ReqOK, Deciding
<1>3. \A c \in Chain : chainLock[c] = <<r>> => c = req[r].chain
  BY DEF DraftInv, LockOK, Unlocked
<1>4. QED
  BY <1>2, <1>3

\* A chain that a step leaves stays as it should be.
LEMMA ChainStays ==
  ASSUME DraftInv, NEW r, Apart(r), NEW c \in Chain, chain'[c] = chain[c]
  PROVE  ChainOK(c)'
<1>1. ChainOK(c)
  BY DEF DraftInv
<1>2. chainKind'[c] = "none" => chain'[c] = <<>>
  BY <1>1 DEF ChainOK, Apart
<1>3. ASSUME NEW i \in 1 .. Len(chain[c]), chain[c][i].decision = "accepted"
      PROVE  Produced(c, chain[c][i].text)'
  <2>1. chain[c] # <<>>
    BY <1>3
  <2>2. chainKind'[c] = chainKind[c]
    BY <1>1, <2>1 DEF ChainOK, Apart
  <2>3. PICK x : x = chain[c][i].text
    OBVIOUS
  <2>4. Produced(c, x)
    BY <1>1, <1>3, <2>3 DEF ChainOK
  <2>5. Produced(c, x)'
    BY <2>2, <2>4, ProducedStays DEF Apart
  <2>6. chain'[c][i].text = x
    BY <2>3
  <2>7. QED
    BY <2>5, <2>6 DEF Produced
<1>4. \A i \in 1 .. Len(chain'[c]) : chain'[c][i].decision = "accepted" => Produced(c, chain[c][i].text)'
  BY <1>3
<1>5. Len(chain'[c]) <= MaxVersions
  BY <1>1 DEF ChainOK
<1>6. QED
  BY <1>2, <1>4, <1>5 DEF ChainOK

\* Chains that are left alone stay what they are.
LEMMA ChainsUnmoved ==
  ASSUME DraftInv, chain' = chain
  PROVE  GrowStep /\ DecideStep
BY DEF GrowStep, DecideStep

\* A step of r that leaves the chains' versions.
LEMMA StepOfOne ==
  ASSUME DraftInv, NEW r \in DraftRequest, Apart(r), DraftTypes', ReqOK(r, req[r])', LocksKept(r),
         chain' = chain, RowsOK', req'[r].at # "opened"
  PROVE  DraftInv' /\ GrowStep /\ DecideStep
<1>1. \A s \in DraftRequest : ReqOK(s, req[s])'
  BY OthersStay
<1>2. \A c \in Chain : LockOK(c)'
  BY LocksStay
<1>3. \A c \in Chain : ChainOK(c)'
  BY ChainStays
<1>4. OpenedOnce'
  BY DEF DraftInv, OpenedOnce, Apart
<1>5. QED
  BY <1>1, <1>2, <1>3, <1>4, ChainsUnmoved DEF DraftInv

\* A request at rest.
LEMMA RestIsOK ==
  ASSUME NEW r, NEW p, p = NoRequest
  PROVE  ReqOK(r, p) /\ ReqOK(r, p)' /\ p.at = "idle"
<1>1. p = [at |-> "idle", chain |-> 0, copy |-> <<>>, saw |-> <<>>, todo |-> {}]
  BY DEF NoRequest
<1>2. ReqRecord(p) /\ p.at = "idle"
  BY <1>1 DEF ReqRecord
<1>3. QED
  BY <1>2 DEF ReqOK, Deciding

\* A request has the fields it began with.
LEMMA ReqFields ==
  ASSUME NEW a, NEW c, NEW y, NEW s, NEW d, NEW p, p = Req(a, c, y, s, d)
  PROVE  /\ \A x : [p EXCEPT !.at = x] = Req(x, c, y, s, d)
         /\ \A x : [p EXCEPT !.chain = x] = Req(a, x, y, s, d)
         /\ \A x : [p EXCEPT !.copy = x] = Req(a, c, x, s, d)
         /\ \A x : [p EXCEPT !.saw = x] = Req(a, c, y, x, d)
         /\ \A x : [p EXCEPT !.todo = x] = Req(a, c, y, s, x)
<1>1. ASSUME NEW x PROVE [p EXCEPT !.at = x] = Req(x, c, y, s, d)
  BY DEF Req
<1>2. ASSUME NEW x PROVE [p EXCEPT !.chain = x] = Req(a, x, y, s, d)
  BY DEF Req
<1>3. ASSUME NEW x PROVE [p EXCEPT !.copy = x] = Req(a, c, x, s, d)
  BY DEF Req
<1>4. ASSUME NEW x PROVE [p EXCEPT !.saw = x] = Req(a, c, y, x, d)
  BY DEF Req
<1>5. ASSUME NEW x PROVE [p EXCEPT !.todo = x] = Req(a, c, y, s, x)
  BY DEF Req
<1>6. QED
  BY <1>1, <1>2, <1>3, <1>4, <1>5

\* It is the record of them.
LEMMA ReqIs ==
  ASSUME NEW a, NEW c, NEW y, NEW s, NEW d, NEW p, p = Req(a, c, y, s, d)
  PROVE  ReqRecord(p) /\ p.at = a /\ p.chain = c /\ p.copy = y /\ p.saw = s /\ p.todo = d
<1>1. p.at = a /\ p.chain = c /\ p.copy = y /\ p.saw = s /\ p.todo = d
  BY DEF Req
<1>2. QED
  BY <1>1 DEF ReqRecord, Req

\* Requests as they begin on a chain.
LEMMA NewRequests ==
  /\ \A a, c : [NoRequest EXCEPT !.at = a, !.chain = c] = Req(a, c, <<>>, <<>>, {})
  /\ \A a, c, y : [NoRequest EXCEPT !.at = a, !.chain = c, !.copy = y] = Req(a, c, y, <<>>, {})
  /\ \A a, c, s : [NoRequest EXCEPT !.at = a, !.chain = c, !.saw = s] = Req(a, c, <<>>, s, {})
<1>1. PICK n : n = NoRequest
  OBVIOUS
<1>2. n = Req("idle", 0, <<>>, <<>>, {})
  BY <1>1 DEF NoRequest, Req
<1>3. ASSUME NEW a, NEW c PROVE [n EXCEPT !.at = a, !.chain = c] = Req(a, c, <<>>, <<>>, {})
  <2>1. PICK m : m = [n EXCEPT !.at = a]
    OBVIOUS
  <2>2. m = Req(a, 0, <<>>, <<>>, {})
    BY <1>2, <2>1, ReqFields
  <2>3. [n EXCEPT !.at = a, !.chain = c] = [m EXCEPT !.chain = c]
    BY <2>1
  <2>4. QED
    BY <2>2, <2>3, ReqFields
<1>4. ASSUME NEW a, NEW c, NEW y PROVE [n EXCEPT !.at = a, !.chain = c, !.copy = y] = Req(a, c, y, <<>>, {})
  <2>1. PICK m : m = [n EXCEPT !.at = a, !.chain = c]
    OBVIOUS
  <2>2. [n EXCEPT !.at = a, !.chain = c, !.copy = y] = [m EXCEPT !.copy = y]
    BY <2>1
  <2>3. m = Req(a, c, <<>>, <<>>, {})
    BY <1>3, <2>1
  <2>4. [m EXCEPT !.copy = y] = Req(a, c, y, <<>>, {})
    BY <2>3, ReqFields
  <2>5. QED
    BY <2>2, <2>4
<1>5. ASSUME NEW a, NEW c, NEW s PROVE [n EXCEPT !.at = a, !.chain = c, !.saw = s] = Req(a, c, <<>>, s, {})
  <2>1. PICK m : m = [n EXCEPT !.at = a, !.chain = c]
    OBVIOUS
  <2>2. [n EXCEPT !.at = a, !.chain = c, !.saw = s] = [m EXCEPT !.saw = s]
    BY <2>1
  <2>3. m = Req(a, c, <<>>, <<>>, {})
    BY <1>3, <2>1
  <2>4. [m EXCEPT !.saw = s] = Req(a, c, <<>>, s, {})
    BY <2>3, ReqFields
  <2>5. QED
    BY <2>2, <2>4
<1>6. QED
  BY <1>1, <1>3, <1>4, <1>5, Zenon

\* What a request is that takes up a decision.
LEMMA DecidesRequest ==
  ASSUME NEW p, ReqRecord(p)
  PROVE  \A a, y, d : TakesUp(p, a, y, d) = Req(a, p.chain, y, p.saw, d)
<1> SUFFICES ASSUME NEW a, NEW y, NEW d
             PROVE  [p EXCEPT !.at = a, !.copy = y, !.todo = d] = Req(a, p.chain, y, p.saw, d)
  BY DEF TakesUp
<1>1. p = Req(p.at, p.chain, p.copy, p.saw, p.todo)
  BY DEF ReqRecord, Req
<1>2. PICK a0, c, y0, s, d0 : p = Req(a0, c, y0, s, d0) /\ c = p.chain /\ s = p.saw
  BY <1>1
<1>3. PICK m : m = [p EXCEPT !.at = a]
  OBVIOUS
<1>4. m = Req(a, c, y0, s, d0)
  BY <1>2, <1>3, ReqFields
<1>5. PICK n : n = [m EXCEPT !.copy = y]
  OBVIOUS
<1>6. n = Req(a, c, y, s, d0)
  BY <1>4, <1>5, ReqFields
<1>7. [n EXCEPT !.todo = d] = Req(a, c, y, s, d)
  BY <1>6, ReqFields
<1>8. [p EXCEPT !.at = a, !.copy = y, !.todo = d] = [n EXCEPT !.todo = d]
  BY <1>3, <1>5
<1>9. QED
  BY <1>2, <1>7, <1>8

\* A chain that is opened has a kind and no version yet.
LEMMA OpenKeeps ==
  ASSUME DraftInv, NEW r \in DraftRequest, OpenChain(r)
  PROVE  DraftInv' /\ GrowStep /\ DecideStep
<1>1. PICK c \in Chain, k \in Kinds :
         /\ chainKind[c] = "none"
         /\ chainKind' = [chainKind EXCEPT ![c] = k]
         /\ req' = [req EXCEPT ![r] = [NoRequest EXCEPT !.at = "opened", !.chain = c]]
  BY DEF OpenChain
<1>2. /\ req[r].at = "idle" /\ UNCHANGED <<chain, chainLock, docFile, docRows, terms, draftCrashes>>
  BY DEF OpenChain, outcome
<1>3. PICK p : p = Req("opened", c, <<>>, <<>>, {})
  OBVIOUS
<1>4. /\ req' = [req EXCEPT ![r] = p] /\ req'[r] = p
      /\ req' = [s \in DraftRequest |-> req'[s]] /\ \A s \in DraftRequest : s # r => req'[s] = req[s]
  <2>1. req' = [req EXCEPT ![r] = p]
    BY <1>1, <1>3, NewRequests
  <2>2. QED
    BY <2>1 DEF DraftInv, DraftTypes
<1>5. k # "none" /\ chainKind \in [Chain -> Kinds \union {"none"}] /\ k \in Kinds \union {"none"}
  BY DEF Kinds, DraftInv, DraftTypes
<1>6. /\ chainKind' \in [Chain -> Kinds \union {"none"}] /\ chainKind'[c] = k
      /\ \A b \in Chain : b # c => chainKind'[b] = chainKind[b]
  BY <1>1, <1>5
<1>7. chain[c] = <<>>
  BY <1>1 DEF DraftInv, ChainOK
<1>8. Apart(r)
  BY <1>1, <1>2, <1>4, <1>6 DEF Apart
<1>9. ReqOK(r, p)'
  <2>1. ReqRecord(p) /\ p.at = "opened" /\ p.chain = c
    BY <1>3, ReqIs
  <2>2. QED
    BY <1>2, <1>5, <1>6, <1>7, <2>1 DEF ReqOK, Deciding
<1>10. LocksKept(r)
  BY <1>2, HoldsNone DEF LocksKept, Deciding
<1>11. DraftTypes'
  BY <1>2, <1>4, <1>6 DEF DraftInv, DraftTypes
<1>12. OpenedOnce'
  <2>1. \A s \in DraftRequest : s # r /\ req[s].at = "opened" => req[s].chain # c
    BY <1>1 DEF DraftInv, ReqOK
  <2>2. p.chain = c
    BY <1>3, ReqIs
  <2>3. QED
    BY <1>4, <2>1, <2>2 DEF DraftInv, OpenedOnce
<1>13. RowsOK'
  BY <1>2 DEF DraftInv, RowsOK
<1>14. \A b \in Chain : LockOK(b)' /\ ChainOK(b)'
  BY <1>2, <1>8, <1>10, LocksStay, ChainStays
<1>15. \A s \in DraftRequest : ReqOK(s, req[s])'
  BY <1>4, <1>8, <1>9, OthersStay
<1>16. QED
  BY <1>2, <1>11, <1>12, <1>13, <1>14, <1>15, ChainsUnmoved DEF DraftInv

\* The steps of a request that takes a chain's lock, or reads a chain without.
LEMMA TakesKeep ==
  ASSUME DraftInv, NEW r \in DraftRequest, NEW c \in Chain, HoldToAppend(r, c) \/ ReadDraft(r, c)
  PROVE  DraftInv' /\ GrowStep /\ DecideStep
<1>1. /\ req[r].at = "idle" /\ chain[c] # <<>>
      /\ UNCHANGED <<chainKind, chain, docFile, docRows, terms, draftCrashes>>
  BY DEF HoldToAppend, ReadDraft, chainVars, outcome
<1>2. chainKind[c] # "none" /\ chain[c] \in Seq(VersionRec)
  BY <1>1 DEF DraftInv, DraftTypes, ChainOK
<1>3. \A b \in Chain : chainLock[b] # <<r>>
  BY <1>1, HoldsNone DEF Deciding
<1>4. RowsOK'
  BY <1>1 DEF DraftInv, RowsOK
<1>5. CASE HoldToAppend(r, c)
  <2>1. PICK p : p = Req("append", c, chain[c], <<>>, {})
    OBVIOUS
  <2>2. /\ req' = [req EXCEPT ![r] = p] /\ chainLock[c] = Unlocked /\ Len(chain[c]) < MaxVersions
        /\ chainLock' = [chainLock EXCEPT ![c] = <<r>>]
    BY <1>5, <2>1, NewRequests DEF HoldToAppend
  <2>3. /\ req'[r] = p /\ req' = [s \in DraftRequest |-> req'[s]]
        /\ \A s \in DraftRequest : s # r => req'[s] = req[s]
        /\ chainLock' = [b \in Chain |-> chainLock'[b]] /\ chainLock'[c] = <<r>>
        /\ \A b \in Chain : b # c => chainLock'[b] = chainLock[b]
    BY <2>2 DEF DraftInv, DraftTypes
  <2>4. ReqRecord(p) /\ p.at = "append" /\ p.chain = c /\ p.copy = chain[c]
    BY <2>1, ReqIs
  <2>5. ReqOK(r, p)'
    BY <1>1, <1>2, <2>2, <2>3, <2>4 DEF ReqOK, Deciding
  <2>6. Apart(r)
    BY <1>1, <2>2, <2>3 DEF Apart
  <2>7. LocksKept(r)
    BY <1>3, <2>3, <2>4 DEF LocksKept
  <2>8. DraftTypes'
    BY <1>1, <2>3 DEF DraftInv, DraftTypes
  <2>9. QED
    BY <1>1, <1>4, <2>3, <2>4, <2>5, <2>6, <2>7, <2>8, StepOfOne
<1>6. CASE ReadDraft(r, c)
  <2>1. PICK p : p = Req("read", c, <<>>, chain[c], {})
    OBVIOUS
  <2>2. /\ req' = [req EXCEPT ![r] = p] /\ chainLock' = chainLock
    BY <1>6, <2>1, NewRequests DEF ReadDraft
  <2>3. /\ req'[r] = p /\ req' = [s \in DraftRequest |-> req'[s]]
        /\ \A s \in DraftRequest : s # r => req'[s] = req[s]
    BY <2>2 DEF DraftInv, DraftTypes
  <2>4. ReqRecord(p) /\ p.at = "read" /\ p.chain = c
    BY <2>1, ReqIs
  <2>5. ReqOK(r, p)'
    BY <1>1, <1>2, <2>4 DEF ReqOK, Deciding
  <2>6. Apart(r)
    BY <1>1, <2>2, <2>3 DEF Apart
  <2>7. LocksKept(r)
    BY <1>3, <2>2 DEF LocksKept
  <2>8. DraftTypes'
    BY <1>1, <2>2, <2>3 DEF DraftInv, DraftTypes
  <2>9. QED
    BY <1>1, <1>4, <2>3, <2>4, <2>5, <2>6, <2>7, <2>8, StepOfOne
<1>7. QED
  BY <1>5, <1>6

\* A request that takes a chain's lock to decide holds the chain as it read
\* it.
LEMMA DecideKeeps ==
  ASSUME DraftInv, NEW r \in DraftRequest, HoldToDecide(r)
  PROVE  DraftInv' /\ GrowStep /\ DecideStep
<1>1. PICK p, c : p = req[r] /\ c = p.chain
  OBVIOUS
<1>2. /\ p.at = "read" /\ chainLock[c] = Unlocked
      /\ UNCHANGED <<chainKind, chain, docFile, docRows, terms, draftCrashes>>
  BY <1>1 DEF HoldToDecide, chainVars, outcome
<1>3. ReqOK(r, p) /\ c \in Chain /\ ReqRecord(p) /\ chainKind[c] # "none"
  BY <1>1, <1>2 DEF DraftInv, ReqOK
<1>4. \A b \in Chain : chainLock[b] # <<r>>
  BY <1>1, <1>2, HoldsNone DEF Deciding
<1>5. RowsOK'
  BY <1>2 DEF DraftInv, RowsOK
<1>6. CASE Leaves(r) /\ UNCHANGED chainLock
  <2>1. PICK q : q = NoRequest
    OBVIOUS
  <2>2. /\ req' = [req EXCEPT ![r] = q] /\ req'[r] = q /\ req' = [s \in DraftRequest |-> req'[s]]
        /\ \A s \in DraftRequest : s # r => req'[s] = req[s]
    BY <1>6, <2>1 DEF Leaves, DraftInv, DraftTypes
  <2>3. ReqOK(r, q)' /\ q.at = "idle"
    BY <2>1, RestIsOK
  <2>4. Apart(r)
    BY <1>2, <1>6, <2>2 DEF Apart
  <2>5. LocksKept(r)
    BY <1>4, <1>6 DEF LocksKept
  <2>6. DraftTypes'
    BY <1>2, <1>6, <2>2 DEF DraftInv, DraftTypes
  <2>7. QED
    BY <1>2, <1>5, <2>2, <2>3, <2>4, <2>5, <2>6, StepOfOne
<1>7. CASE /\ Decidable(p.saw, chain[c])
           /\ \E at \in {"reject", IF chainKind[c] = "document" THEN "write" ELSE "terms"} :
                req' = [req EXCEPT ![r] = [req[r] EXCEPT !.at = at, !.copy = chain[c],
                                                   !.todo = {t \in Text : terms[t] = "none"}]]
           /\ chainLock' = [chainLock EXCEPT ![c] = <<r>>]
  <2>1. PICK at \in {"reject", IF chainKind[c] = "document" THEN "write" ELSE "terms"} :
                req' = [req EXCEPT ![r] = [p EXCEPT !.at = at, !.copy = chain[c],
                                                   !.todo = {t \in Text : terms[t] = "none"}]]
    BY <1>1, <1>7
  <2>2. PICK q : q = Req(at, c, chain[c], p.saw, {t \in Text : terms[t] = "none"})
    OBVIOUS
  <2>3. req' = [req EXCEPT ![r] = q]
    <3>1. PICK d, y : d = {t \in Text : terms[t] = "none"} /\ y = chain[c]
      OBVIOUS
    <3>2. ReqRecord(p)
      BY <1>3
    <3>3. TakesUp(p, at, y, d) = Req(at, p.chain, y, p.saw, d)
      BY ONLY <3>2, DecidesRequest, Zenon
    <3>4. q = Req(at, p.chain, y, p.saw, d)
      BY <1>1, <2>2, <3>1
    <3>5. req' = [req EXCEPT ![r] = TakesUp(p, at, y, d)]
      BY <2>1, <3>1 DEF TakesUp
    <3>6. QED
      BY ONLY <3>3, <3>4, <3>5
  <2>4. /\ req'[r] = q /\ req' = [s \in DraftRequest |-> req'[s]]
        /\ \A s \in DraftRequest : s # r => req'[s] = req[s]
        /\ chainLock' = [b \in Chain |-> chainLock'[b]] /\ chainLock'[c] = <<r>>
        /\ \A b \in Chain : b # c => chainLock'[b] = chainLock[b]
    BY <1>3, <1>7, <2>3 DEF DraftInv, DraftTypes
  <2>5. /\ ReqRecord(q) /\ q.at = at /\ q.chain = c /\ q.copy = chain[c] /\ q.saw = p.saw
        /\ q.todo = {t \in Text : terms[t] = "none"}
    BY <2>2, ReqIs
  <2>6. /\ at \in {"reject", "write", "terms"} /\ (at = "write" => chainKind[c] = "document")
        /\ (at = "terms" => chainKind[c] # "document")
    BY <2>1
  <2>7. Newest(chain[c]).decision = "none" /\ Len(p.saw) = Len(chain[c])
    BY <1>7 DEF Decidable
  <2>8. chain[c] # <<>>
    BY <1>1, <1>2, <1>3 DEF ReqOK
  <2>9. ReqOK(r, q)'
    BY <1>2, <1>3, <2>4, <2>5, <2>6, <2>7, <2>8 DEF ReqOK, Deciding
  <2>10. Apart(r)
    BY <1>2, <2>4 DEF Apart
  <2>11. LocksKept(r)
    BY <1>4, <2>4, <2>5, <2>6 DEF LocksKept, Deciding
  <2>12. DraftTypes'
    BY <1>2, <2>4 DEF DraftInv, DraftTypes
  <2>13. QED
    BY <1>2, <1>5, <2>4, <2>5, <2>6, <2>9, <2>10, <2>11, <2>12, StepOfOne
<1>8. QED
  BY <1>1, <1>6, <1>7 DEF HoldToDecide

\* A request that ends has nothing in hand.
LEMMA ReqLeaves ==
  ASSUME DraftInv, NEW r \in DraftRequest, Leaves(r)
  PROVE  /\ ReqOK(r, req[r])' /\ req'[r].at = "idle"
         /\ req' = [s \in DraftRequest |-> req'[s]]
         /\ \A s \in DraftRequest : s # r => req'[s] = req[s]
<1>1. PICK q : q = NoRequest
  OBVIOUS
<1>2. /\ req'[r] = q /\ req' = [s \in DraftRequest |-> req'[s]]
      /\ \A s \in DraftRequest : s # r => req'[s] = req[s]
  BY <1>1 DEF Leaves, DraftInv, DraftTypes
<1>3. ReqOK(r, q)' /\ q.at = "idle"
  BY <1>1, RestIsOK
<1>4. QED
  BY <1>2, <1>3

\* One that is refused, or has nothing to do, leaves the chains alone.
LEMMA LeaveKeeps ==
  ASSUME DraftInv, NEW r \in DraftRequest, Leaves(r), LetsGo(r),
         UNCHANGED <<chainKind, chain, docFile, docRows, terms>>
  PROVE  DraftInv' /\ GrowStep /\ DecideStep
<1>1. /\ ReqOK(r, req[r])' /\ req'[r].at = "idle"
      /\ req' = [s \in DraftRequest |-> req'[s]]
      /\ \A s \in DraftRequest : s # r => req'[s] = req[s]
  BY ReqLeaves
<1>2. Apart(r)
  BY <1>1 DEF Apart, LetsGo
<1>3. LocksKept(r)
  BY DEF LocksKept, LetsGo
<1>4. DraftTypes'
  BY <1>1 DEF LetsGo, DraftInv, DraftTypes
<1>5. RowsOK'
  BY DEF DraftInv, RowsOK
<1>6. QED
  BY <1>1, <1>2, <1>3, <1>4, <1>5, StepOfOne

\* The lock of the chain a request holds, let go.
LEMMA LetsGoOfIts ==
  ASSUME DraftInv, NEW r \in DraftRequest, req[r].at \in {"append"} \union Deciding,
         chainLock' = [chainLock EXCEPT ![req[r].chain] = Unlocked], UNCHANGED draftCrashes
  PROVE  LetsGo(r) /\ LocksKept(r)
<1>1. PICK c \in Chain : c = req[r].chain /\ chainLock[c] = <<r>>
  BY HoldsOne
<1>2. \A b \in Chain : chainLock[b] = <<r>> => b = c
  BY <1>1, HoldsOne
<1>3. /\ chainLock = [b \in Chain |-> chainLock[b]]
      /\ draftCrashes \in Nat /\ draftCrashes <= MaxDraftCrashes
  BY DEF DraftInv, DraftTypes
<1>4. /\ chainLock' = [b \in Chain |-> chainLock'[b]] /\ chainLock'[c] = Unlocked
      /\ \A b \in Chain : b # c => chainLock'[b] = chainLock[b]
  BY <1>1, <1>3
<1>5. QED
  BY <1>1, <1>2, <1>3, <1>4 DEF LetsGo, LocksKept

\* A request that moves on with what it holds.
LEMMA AtMoves ==
  ASSUME DraftInv, NEW r \in DraftRequest, NEW a, req' = [req EXCEPT ![r].at = a]
  PROVE  /\ req'[r] = Req(a, req[r].chain, req[r].copy, req[r].saw, req[r].todo)
         /\ req' = [s \in DraftRequest |-> req'[s]]
         /\ \A s \in DraftRequest : s # r => req'[s] = req[s]
<1>1. PICK p : p = req[r]
  OBVIOUS
<1>2. p = Req(p.at, p.chain, p.copy, p.saw, p.todo)
  BY <1>1 DEF DraftInv, ReqOK, ReqRecord, Req
<1>3. PICK a0, c, y, s, d : p = Req(a0, c, y, s, d) /\ c = p.chain /\ s = p.saw /\ y = p.copy /\ d = p.todo
  BY <1>2
<1>4. PICK q : q = [p EXCEPT !.at = a]
  OBVIOUS
<1>5. q = Req(a, c, y, s, d)
  <2>1. p = Req(a0, c, y, s, d)
    BY <1>3
  <2>2. [p EXCEPT !.at = a] = Req(a, c, y, s, d)
    BY ONLY <2>1, ReqFields
  <2>3. QED
    BY ONLY <1>4, <2>2
<1>6. /\ req'[r] = q /\ req' = [t \in DraftRequest |-> req'[t]]
      /\ \A t \in DraftRequest : t # r => req'[t] = req[t]
  BY <1>1, <1>4 DEF DraftInv, DraftTypes
<1>7. QED
  BY <1>1, <1>3, <1>5, <1>6

\* A request writes its chain and leaves: it only adds to the chain, or
\* decides the version it read.
LEMMA ChainGrows ==
  ASSUME DraftInv, NEW r \in DraftRequest, NEW c \in Chain, Apart(r), DraftTypes', LocksKept(r),
         ReqOK(r, req[r])', req'[r].at = "idle", docRows' = docRows, ChainOK(c)',
         \A b \in Chain : b # c => chain'[b] = chain[b],
         \A i \in 1 .. Len(chain[c]) :
             /\ i \in 1 .. Len(chain'[c]) /\ chain'[c][i].text = chain[c][i].text
             /\ chain[c][i].decision \in {"none", chain'[c][i].decision}
             /\ chain'[c][i].decision # chain[c][i].decision => req[r].chain = c /\ Len(req[r].saw) = i
  PROVE  DraftInv' /\ GrowStep /\ DecideStep
<1>1. \A s \in DraftRequest : ReqOK(s, req[s])'
  BY OthersStay
<1>2. \A b \in Chain : LockOK(b)'
  BY LocksStay
<1>3. \A b \in Chain : ChainOK(b)'
  BY ChainStays
<1>4. OpenedOnce'
  BY DEF DraftInv, OpenedOnce, Apart
<1>5. \A b \in Chain : DOMAIN chain[b] = 1 .. Len(chain[b]) /\ DOMAIN chain'[b] = 1 .. Len(chain'[b])
  BY DEF DraftInv, DraftTypes
<1>6. RowsOK'
  <2>1. \A k \in 1 .. Len(docRows) : docRows[k].chain \in Chain /\ docRows[k].version \in Nat \ {0}
    <3>1. docRows \in Seq(RowRec)
      BY DEF DraftInv, DraftTypes
    <3>2. \A k \in 1 .. Len(docRows) : docRows[k] \in RowRec
      BY ONLY <3>1
    <3>3. \A x \in RowRec : x.chain \in Chain /\ x.version \in Nat \ {0}
      BY ONLY DraftBounds DEF RowRec
    <3>4. QED
      BY ONLY <3>2, <3>3
  <2>2. ASSUME NEW k \in 1 .. Len(docRows)
        PROVE  /\ docRows[k].version <= Len(chain'[docRows[k].chain])
               /\ docRows[k].text = chain'[docRows[k].chain][docRows[k].version].text
    <3>1. PICK b \in Chain, v \in Nat \ {0} : b = docRows[k].chain /\ v = docRows[k].version
      BY <2>1
    <3>2. v <= Len(chain[b]) /\ docRows[k].text = chain[b][v].text
      BY <3>1 DEF DraftInv, RowsOK
    <3>3. Len(chain[b]) \in Nat /\ Len(chain'[b]) \in Nat
      BY DEF DraftInv, DraftTypes
    <3>4. CASE b = c
      <4>1. v \in 1 .. Len(chain[c])
        BY <3>2, <3>3, <3>4
      <4>2. v \in 1 .. Len(chain'[c]) /\ chain'[c][v].text = chain[c][v].text
        BY <4>1
      <4>3. QED
        BY <3>1, <3>2, <3>4, <4>2
    <3>5. CASE b # c
      BY <3>1, <3>2, <3>5
    <3>6. QED
      BY <3>4, <3>5
  <2>3. QED
    BY <2>2 DEF DraftInv, RowsOK
<1>7. GrowStep
  BY <1>5 DEF GrowStep
<1>8. DecideStep
  BY <1>5 DEF DecideStep
<1>9. QED
  BY <1>1, <1>2, <1>3, <1>4, <1>6, <1>7, <1>8 DEF DraftInv

\* The first version of a chain is its head.
LEMMA WriteFirstKeeps ==
  ASSUME DraftInv, NEW r \in DraftRequest, WriteFirst(r)
  PROVE  DraftInv' /\ GrowStep /\ DecideStep
<1>1. PICK p, c : p = req[r] /\ c = p.chain
  OBVIOUS
<1>2. PICK t \in Text : chain' = [chain EXCEPT ![c] = <<Version(t)>>]
  BY <1>1 DEF WriteFirst
<1>3. PICK v : v = Version(t)
  OBVIOUS
<1>4. v \in VersionRec /\ v.decision = "none"
  BY <1>3 DEF Version, VersionRec
<1>5. /\ p.at = "opened" /\ chainLock[c] = Unlocked /\ Leaves(r)
      /\ UNCHANGED <<chainKind, chainLock, docFile, docRows, terms, draftCrashes>>
  BY <1>1 DEF WriteFirst, Leaves, outcome
<1>6. ReqOK(r, p)
  BY <1>1 DEF DraftInv
<1>7. c \in Chain /\ chainKind[c] # "none" /\ chain[c] = <<>>
  BY <1>1, <1>5, <1>6 DEF ReqOK
<1>8. chain \in [Chain -> Seq(VersionRec)] /\ <<v>> \in Seq(VersionRec)
  BY <1>4 DEF DraftInv, DraftTypes
<1>9. /\ chain'[c] = <<v>> /\ \A b \in Chain : b # c => chain'[b] = chain[b]
      /\ chain' \in [Chain -> Seq(VersionRec)]
  BY <1>2, <1>3, <1>7, <1>8
<1>10. /\ ReqOK(r, req[r])' /\ req'[r].at = "idle"
       /\ req' = [s \in DraftRequest |-> req'[s]]
       /\ \A s \in DraftRequest : s # r => req'[s] = req[s]
  BY <1>5, ReqLeaves
<1>11. Apart(r)
  <2>1. chain'[c] # <<>>
    BY <1>9
  <2>2. \A b \in Chain : chainLock[b] # Unlocked => b # c
    BY <1>5
  <2>3. req[r].at = "opened" /\ req[r].chain = c
    BY <1>1, <1>5
  <2>4. QED
    BY <1>5, <1>9, <1>10, <2>1, <2>2, <2>3 DEF Apart
<1>12. LocksKept(r)
  <2>1. \A b \in Chain : chainLock[b] # <<r>>
    BY <1>1, <1>5, HoldsNone DEF Deciding
  <2>2. QED
    BY <1>5, <2>1 DEF LocksKept
<1>13. DraftTypes'
  BY <1>5, <1>9, <1>10 DEF DraftInv, DraftTypes
<1>14. ChainOK(c)'
  <2>1. Len(chain'[c]) = 1 /\ chain'[c][1] = v
    BY <1>9
  <2>2. 1 <= MaxVersions
    BY DraftBounds
  <2>3. \A i \in 1 .. Len(chain'[c]) : chain'[c][i].decision # "accepted"
    BY <1>4, <2>1
  <2>4. QED
    BY <1>5, <1>7, <2>1, <2>2, <2>3 DEF ChainOK
<1>15. Len(chain[c]) = 0
  BY <1>7
<1>16. \A i \in 1 .. Len(chain[c]) : FALSE
  BY <1>15
<1>17. docRows' = docRows
  BY <1>5
<1>18. QED
  BY ONLY DraftInv, r \in DraftRequest, <1>7, <1>9, <1>10, <1>11, <1>12, <1>13, <1>14, <1>16, <1>17, ChainGrows

\* What an acceptance already recorded has produced, it still has.
LEMMA AcceptedStay ==
  ASSUME DraftInv, NEW r, Apart(r), NEW c \in Chain, chain[c] # <<>>
  PROVE  \A i \in 1 .. Len(chain[c]) : \A x :
             chain[c][i].decision = "accepted" /\ x = chain[c][i].text => Produced(c, x)'
<1>1. SUFFICES ASSUME NEW i \in 1 .. Len(chain[c]), NEW x,
                      chain[c][i].decision = "accepted", x = chain[c][i].text
               PROVE  Produced(c, x)'
  OBVIOUS
<1>2. ChainOK(c)
  BY DEF DraftInv
<1>3. chainKind'[c] = chainKind[c]
  BY <1>2 DEF ChainOK, Apart
<1>4. Produced(c, x)
  BY <1>1, <1>2 DEF ChainOK
<1>5. QED
  BY <1>3, <1>4, ProducedStays DEF Apart

\* A version that is appended follows the head.
LEMMA AppendKeeps ==
  ASSUME DraftInv, NEW r \in DraftRequest, AppendVersion(r)
  PROVE  DraftInv' /\ GrowStep /\ DecideStep
<1>1. PICK p, c, y : p = req[r] /\ c = p.chain /\ y = p.copy
  OBVIOUS
<1>2. PICK t \in Text : chain' = [chain EXCEPT ![c] = Append(y, Version(t))]
  BY <1>1 DEF AppendVersion
<1>3. PICK v : v = Version(t)
  OBVIOUS
<1>4. v \in VersionRec /\ v.decision = "none"
  BY <1>3 DEF Version, VersionRec
<1>5. /\ p.at = "append" /\ Leaves(r) /\ chainLock' = [chainLock EXCEPT ![c] = Unlocked]
      /\ UNCHANGED <<chainKind, docFile, docRows, terms, draftCrashes>>
  BY <1>1 DEF AppendVersion, Leaves, outcome
<1>6. ReqOK(r, p)
  BY <1>1 DEF DraftInv
<1>7. /\ c \in Chain /\ chainKind[c] # "none" /\ y = chain[c] /\ chain[c] # <<>>
      /\ chainLock[c] = <<r>> /\ Len(y) < MaxVersions
  BY <1>1, <1>5, <1>6 DEF ReqOK, Deciding
<1>8. chain \in [Chain -> Seq(VersionRec)] /\ y \in Seq(VersionRec)
  BY <1>7 DEF DraftInv, DraftTypes
<1>9. PICK z : z = Append(y, v)
  OBVIOUS
<1>10. /\ z \in Seq(VersionRec) /\ Len(z) = Len(y) + 1 /\ z # <<>> /\ Len(y) \in Nat
       /\ \A i \in 1 .. Len(y) : z[i] = y[i]
       /\ z[Len(y) + 1] = v
  BY <1>4, <1>8, <1>9
<1>11. /\ chain'[c] = z /\ \A b \in Chain : b # c => chain'[b] = chain[b]
       /\ chain' \in [Chain -> Seq(VersionRec)]
  BY <1>2, <1>3, <1>7, <1>8, <1>9, <1>10
<1>12. /\ ReqOK(r, req[r])' /\ req'[r].at = "idle"
       /\ req' = [s \in DraftRequest |-> req'[s]]
       /\ \A s \in DraftRequest : s # r => req'[s] = req[s]
  BY <1>5, ReqLeaves
<1>13. LetsGo(r) /\ LocksKept(r)
  BY <1>1, <1>5, LetsGoOfIts
<1>14. Apart(r)
  <2>1. \A b \in Chain : chainLock[b] # <<r>> => b # c
    BY <1>7
  <2>2. \A b \in Chain : chainLock[b] # <<r>> => chainLock'[b] = chainLock[b]
    BY <1>13 DEF LetsGo
  <2>3. QED
    BY <1>5, <1>7, <1>10, <1>11, <1>12, <2>1, <2>2 DEF Apart
<1>15. DraftTypes'
  BY <1>5, <1>11, <1>12, <1>13 DEF LetsGo, DraftInv, DraftTypes
<1>16. ChainOK(c)'
  <2>1. Len(z) <= MaxVersions
    BY <1>7, <1>10, DraftBounds
  <2>2. ASSUME NEW i \in 1 .. Len(z), z[i].decision = "accepted" PROVE Produced(c, z[i].text)'
    <3>1. i \in 1 .. Len(y) /\ z[i] = y[i]
      BY <1>4, <1>10, <2>2
    <3>2. PICK x : x = z[i].text
      OBVIOUS
    <3>3. i \in 1 .. Len(chain[c]) /\ chain[c][i].decision = "accepted" /\ x = chain[c][i].text
      BY <1>7, <2>2, <3>1, <3>2
    <3>4. Produced(c, x)'
      BY <1>7, <1>14, <3>3, AcceptedStay
    <3>5. QED
      BY <3>2, <3>4
  <2>3. QED
    BY <1>5, <1>7, <1>11, <2>1, <2>2 DEF ChainOK
<1>17. \A i \in 1 .. Len(chain[c]) :
             /\ i \in 1 .. Len(chain'[c]) /\ chain'[c][i].text = chain[c][i].text
             /\ chain[c][i].decision \in {"none", chain'[c][i].decision}
             /\ chain'[c][i].decision # chain[c][i].decision => req[r].chain = c /\ Len(req[r].saw) = i
  BY <1>7, <1>10, <1>11
<1>18. docRows' = docRows
  BY <1>5
<1>19. QED
  BY ONLY DraftInv, r \in DraftRequest, <1>7, <1>11, <1>12, <1>13, <1>14, <1>15, <1>16, <1>17, <1>18, ChainGrows

\* A decision is recorded of the version that was read.
LEMMA RecordKeeps ==
  ASSUME DraftInv, NEW r \in DraftRequest, RecordDecision(r)
  PROVE  DraftInv' /\ GrowStep /\ DecideStep
<1>1. PICK p, c, y : p = req[r] /\ c = p.chain /\ y = p.copy
  OBVIOUS
<1>2. PICK d : d = IF p.at = "accept" THEN "accepted" ELSE "rejected"
  OBVIOUS
<1>3. d \in {"accepted", "rejected"} /\ (d = "accepted" => p.at = "accept")
  BY <1>2
<1>4. PICK n, v : n = Len(y) /\ v = y[n]
  OBVIOUS
<1>5. PICK w : w = [v EXCEPT !.decision = d]
  OBVIOUS
<1>6. PICK z : z = [y EXCEPT ![n] = w]
  OBVIOUS
<1>7. chain' = [chain EXCEPT ![c] = z]
  BY <1>1, <1>2, <1>4, <1>5, <1>6 DEF RecordDecision
<1>8. /\ p.at \in {"reject", "accept"} /\ Leaves(r) /\ chainLock' = [chainLock EXCEPT ![c] = Unlocked]
      /\ UNCHANGED <<chainKind, docFile, docRows, terms, draftCrashes>>
  BY <1>1 DEF RecordDecision, Leaves, outcome
<1>9. ReqOK(r, p)
  BY <1>1 DEF DraftInv
<1>10. /\ c \in Chain /\ chainKind[c] # "none" /\ y = chain[c] /\ chain[c] # <<>>
       /\ chainLock[c] = <<r>> /\ v.decision = "none" /\ Len(p.saw) = n
       /\ p.at = "accept" => Produced(c, v.text)
  BY <1>1, <1>4, <1>8, <1>9 DEF ReqOK, Deciding, Newest
<1>11. chain \in [Chain -> Seq(VersionRec)] /\ y \in Seq(VersionRec)
  BY <1>10 DEF DraftInv, DraftTypes
<1>12. n \in 1 .. Len(y) /\ v \in VersionRec /\ Len(y) \in Nat
  BY <1>4, <1>10, <1>11
<1>13. w \in VersionRec /\ w.text = v.text /\ w.decision = d
  BY <1>3, <1>5, <1>12 DEF VersionRec
<1>14. /\ z \in Seq(VersionRec) /\ Len(z) = Len(y) /\ z[n] = w
       /\ \A i \in 1 .. Len(y) : i # n => z[i] = y[i]
  <2>1. z \in Seq(VersionRec) /\ Len(z) = Len(y) /\ \A i \in 1 .. Len(y) : z[i] = IF i = n THEN w ELSE y[i]
    BY <1>6, <1>11, <1>12, <1>13, ExceptSeq
  <2>2. QED
    BY <1>12, <2>1
<1>15. /\ chain'[c] = z /\ \A b \in Chain : b # c => chain'[b] = chain[b]
       /\ chain' \in [Chain -> Seq(VersionRec)] /\ z # <<>>
  BY <1>7, <1>10, <1>11, <1>12, <1>14
<1>16. /\ ReqOK(r, req[r])' /\ req'[r].at = "idle"
       /\ req' = [s \in DraftRequest |-> req'[s]]
       /\ \A s \in DraftRequest : s # r => req'[s] = req[s]
  BY <1>8, ReqLeaves
<1>17. LetsGo(r) /\ LocksKept(r)
  <2>1. req[r].at \in {"append"} \union Deciding
    BY <1>1, <1>8 DEF Deciding
  <2>2. QED
    BY <1>1, <1>8, <2>1, LetsGoOfIts
<1>18. Apart(r)
  <2>1. \A b \in Chain : chainLock[b] # <<r>> => b # c
    BY <1>10
  <2>2. \A b \in Chain : chainLock[b] # <<r>> => chainLock'[b] = chainLock[b]
    BY <1>17 DEF LetsGo
  <2>3. QED
    BY <1>8, <1>10, <1>15, <1>16, <2>1, <2>2 DEF Apart
<1>19. DraftTypes'
  BY <1>8, <1>15, <1>16, <1>17 DEF LetsGo, DraftInv, DraftTypes
<1>20. ChainOK(c)'
  <2>1. Len(y) <= MaxVersions
    BY <1>10 DEF DraftInv, ChainOK
  <2>2. ASSUME NEW i \in 1 .. Len(z), z[i].decision = "accepted" PROVE Produced(c, z[i].text)'
    <3>1. PICK x : x = z[i].text
      OBVIOUS
    <3>2. CASE i = n
      <4>1. p.at = "accept" /\ x = v.text
        BY <1>3, <1>13, <1>14, <2>2, <3>1, <3>2
      <4>2. Produced(c, x) /\ chainKind'[c] = chainKind[c]
        BY <1>8, <1>10, <4>1
      <4>3. Produced(c, x)'
        BY <1>10, <1>18, <4>2, ProducedStays DEF Apart
      <4>4. QED
        BY <3>1, <4>3
    <3>3. CASE i # n
      <4>1. i \in 1 .. Len(chain[c]) /\ chain[c][i].decision = "accepted" /\ x = chain[c][i].text
        BY <1>10, <1>14, <2>2, <3>1, <3>3
      <4>2. Produced(c, x)'
        BY <1>10, <1>18, <4>1, AcceptedStay
      <4>3. QED
        BY <3>1, <4>2
    <3>4. QED
      BY <3>2, <3>3
  <2>3. QED
    BY <1>8, <1>10, <1>14, <1>15, <2>1, <2>2 DEF ChainOK
<1>21. \A i \in 1 .. Len(chain[c]) :
             /\ i \in 1 .. Len(chain'[c]) /\ chain'[c][i].text = chain[c][i].text
             /\ chain[c][i].decision \in {"none", chain'[c][i].decision}
             /\ chain'[c][i].decision # chain[c][i].decision => req[r].chain = c /\ Len(req[r].saw) = i
  <2>1. SUFFICES ASSUME NEW i \in 1 .. Len(y)
                 PROVE  /\ i \in 1 .. Len(z) /\ z[i].text = y[i].text
                        /\ y[i].decision \in {"none", z[i].decision}
                        /\ z[i].decision # y[i].decision => i = n
    BY <1>1, <1>10, <1>15
  <2>2. CASE i = n
    BY <1>4, <1>10, <1>13, <1>14, <2>2
  <2>3. CASE i # n
    BY <1>14, <2>3
  <2>4. QED
    BY <2>2, <2>3
<1>22. docRows' = docRows
  BY <1>8
<1>23. QED
  BY ONLY DraftInv, r \in DraftRequest, <1>10, <1>15, <1>16, <1>17, <1>18, <1>19, <1>20, <1>21, <1>22, ChainGrows

\* The document an accepted draft makes is written.
LEMMA WriteDocumentKeeps ==
  ASSUME DraftInv, NEW r \in DraftRequest, WriteDocument(r)
  PROVE  DraftInv' /\ GrowStep /\ DecideStep
<1>1. PICK p, c, y, x : p = req[r] /\ c = p.chain /\ y = p.copy /\ x = Newest(y).text
  OBVIOUS
<1>2. /\ p.at = "write" /\ docFile' = [docFile EXCEPT ![c] = <<x>>]
      /\ req' = [req EXCEPT ![r].at = "register"]
      /\ UNCHANGED <<chainKind, chain, chainLock, docRows, terms, draftCrashes>>
  BY <1>1 DEF WriteDocument, chainVars
<1>3. ReqOK(r, p)
  BY <1>1 DEF DraftInv
<1>4. /\ c \in Chain /\ chainKind[c] = "document" /\ y = chain[c] /\ chain[c] # <<>>
      /\ chainLock[c] = <<r>> /\ Newest(y).decision = "none" /\ Len(p.saw) = Len(y)
  BY <1>1, <1>2, <1>3 DEF ReqOK, Deciding
<1>5. x \in Text
  <2>1. chain[c] \in Seq(VersionRec)
    BY <1>4 DEF DraftInv, DraftTypes
  <2>2. y[Len(y)] \in VersionRec
    BY <1>4, <2>1
  <2>3. QED
    BY <1>1, <2>2 DEF Newest, VersionRec
<1>6. /\ docFile \in [Chain -> {<<>>} \union {<<t>> : t \in Text}]
      /\ <<x>> \in {<<>>} \union {<<t>> : t \in Text}
  BY <1>5 DEF DraftInv, DraftTypes
<1>7. /\ docFile'[c] = <<x>> /\ docFile' \in [Chain -> {<<>>} \union {<<t>> : t \in Text}]
      /\ \A b \in Chain : b # c => docFile'[b] = docFile[b]
  BY <1>2, <1>4, <1>6
<1>8. PICK q : q = Req("register", c, y, p.saw, p.todo)
  OBVIOUS
<1>9. /\ req'[r] = q /\ req' = [s \in DraftRequest |-> req'[s]]
      /\ \A s \in DraftRequest : s # r => req'[s] = req[s]
  <2>1. req' = [req EXCEPT ![r].at = "register"]
    BY <1>2
  <2>2. /\ req'[r] = Req("register", req[r].chain, req[r].copy, req[r].saw, req[r].todo)
        /\ req' = [s \in DraftRequest |-> req'[s]]
        /\ \A s \in DraftRequest : s # r => req'[s] = req[s]
    BY <2>1, AtMoves
  <2>3. QED
    BY <1>1, <1>8, <2>2
<1>10. ReqRecord(q) /\ q.at = "register" /\ q.chain = c /\ q.copy = y /\ q.saw = p.saw
  BY <1>8, ReqIs
<1>11. ReqOK(r, q)'
  BY <1>1, <1>2, <1>4, <1>7, <1>10 DEF ReqOK, Deciding
<1>12. Apart(r)
  BY <1>2, <1>4, <1>7, <1>9 DEF Apart
<1>13. LocksKept(r)
  <2>1. \A b \in Chain : chainLock[b] = <<r>> => b = c
    BY <1>1, <1>2, HoldsOne DEF Deciding
  <2>2. QED
    BY <1>2, <1>9, <1>10, <2>1 DEF LocksKept, Deciding
<1>14. DraftTypes'
  BY <1>2, <1>7, <1>9 DEF DraftInv, DraftTypes
<1>15. RowsOK'
  BY <1>2 DEF DraftInv, RowsOK
<1>16. chain' = chain /\ ReqOK(r, req[r])' /\ req'[r].at # "opened"
  BY <1>2, <1>9, <1>10, <1>11
<1>17. QED
  BY <1>12, <1>13, <1>14, <1>15, <1>16, StepOfOne

\* It is registered as its chain's.
LEMMA RegisterKeeps ==
  ASSUME DraftInv, NEW r \in DraftRequest, RegisterDocument(r)
  PROVE  DraftInv' /\ GrowStep /\ DecideStep
<1>1. PICK p, c, y, x : p = req[r] /\ c = p.chain /\ y = p.copy /\ x = docFile[c][1]
  OBVIOUS
<1>2. p.at = "register" /\ UNCHANGED <<chainKind, chain, docFile, terms, draftCrashes>>
  BY <1>1 DEF RegisterDocument, chainVars
<1>3. ReqOK(r, p)
  BY <1>1 DEF DraftInv
<1>4. /\ c \in Chain /\ chainKind[c] = "document" /\ y = chain[c] /\ chain[c] # <<>>
      /\ chainLock[c] = <<r>> /\ Newest(y).decision = "none" /\ Len(p.saw) = Len(y)
      /\ docFile[c] = <<Newest(y).text>>
  BY <1>1, <1>2, <1>3 DEF ReqOK, Deciding
<1>5. PICK n : n = Len(y)
  OBVIOUS
<1>6. chain[c] \in Seq(VersionRec)
  BY <1>4 DEF DraftInv, DraftTypes
<1>7. /\ n \in Nat /\ n >= 1 /\ n <= MaxVersions /\ y[n] \in VersionRec /\ x = y[n].text
      /\ x \in Text
  <2>1. n \in Nat /\ n >= 1 /\ y[n] \in VersionRec
    BY <1>4, <1>5, <1>6
  <2>2. n <= MaxVersions
    BY <1>4, <1>5 DEF DraftInv, ChainOK
  <2>3. x = y[n].text
    BY <1>1, <1>4, <1>5 DEF Newest
  <2>4. QED
    BY <2>1, <2>2, <2>3 DEF VersionRec
<1>8. req[r].at \in {"append"} \union Deciding
  BY <1>1, <1>2 DEF Deciding
<1>9. CASE /\ chainLock' = [chainLock EXCEPT ![c] = Unlocked]
           /\ Leaves(r) /\ UNCHANGED docRows
  <2>1. LetsGo(r)
    BY <1>1, <1>2, <1>8, <1>9, LetsGoOfIts
  <2>2. QED
    BY <1>2, <1>9, <2>1, LeaveKeeps
<1>10. CASE /\ docRows' = IF Registered(c, x) THEN docRows
                        ELSE Append(docRows, [chain |-> c, text |-> x, version |-> Len(y)])
            /\ req' = [req EXCEPT ![r].at = "accept"]
            /\ UNCHANGED chainLock
  <2>1. PICK q : q = Req("accept", c, y, p.saw, p.todo)
    OBVIOUS
  <2>2. /\ req'[r] = q /\ req' = [s \in DraftRequest |-> req'[s]]
        /\ \A s \in DraftRequest : s # r => req'[s] = req[s]
    BY <1>1, <1>10, <2>1, AtMoves
  <2>3. ReqRecord(q) /\ q.at = "accept" /\ q.chain = c /\ q.copy = y /\ q.saw = p.saw
    BY <2>1, ReqIs
  <2>4. PICK w : w = [chain |-> c, text |-> x, version |-> n]
    OBVIOUS
  <2>5. w \in RowRec /\ w.chain = c /\ w.text = x /\ w.version = n
    BY <1>4, <1>7, <2>4, DraftBounds DEF RowRec
  <2>6. docRows \in Seq(RowRec) /\ DOMAIN docRows = 1 .. Len(docRows) /\ Len(docRows) \in Nat
    BY DEF DraftInv, DraftTypes
  <2>7. /\ docRows' \in Seq(RowRec) /\ \A k \in DOMAIN docRows : k \in DOMAIN docRows' /\ docRows'[k] = docRows[k]
        /\ \E k \in DOMAIN docRows' : docRows'[k].chain = c /\ docRows'[k].text = x
    <3>1. CASE Registered(c, x)
      BY <1>10, <2>6, <3>1 DEF Registered, RowsOf
    <3>2. CASE ~ Registered(c, x)
      <4>1. docRows' = Append(docRows, w)
        BY <1>5, <1>10, <2>4, <3>2
      <4>2. /\ docRows' \in Seq(RowRec) /\ Len(docRows') = Len(docRows) + 1
            /\ \A k \in 1 .. Len(docRows) : docRows'[k] = docRows[k]
            /\ docRows'[Len(docRows) + 1] = w
            /\ DOMAIN docRows' = 1 .. Len(docRows) + 1
        BY <2>5, <2>6, <4>1
      <4>3. QED
        BY <2>5, <2>6, <4>2
    <3>3. QED
      BY <3>1, <3>2
  <2>8. ReqOK(r, q)'
    <3>1. Produced(c, x)'
      BY <1>2, <1>4, <2>7 DEF Produced
    <3>2. Newest(y).text = x
      BY <1>5, <1>7 DEF Newest
    <3>3. Produced(c, Newest(y).text)'
      BY <3>1, <3>2 DEF Produced
    <3>4. chainLock' = chainLock
      BY <1>10
    <3>5. QED
      BY <1>1, <1>2, <1>4, <2>3, <3>3, <3>4 DEF ReqOK, Deciding
  <2>9. Apart(r)
    BY <1>2, <1>10, <2>2, <2>7 DEF Apart
  <2>10. LocksKept(r)
    <3>1. \A b \in Chain : chainLock[b] = <<r>> => b = c
      BY <1>1, <1>8, HoldsOne
    <3>2. QED
      BY <1>10, <2>2, <2>3, <3>1 DEF LocksKept, Deciding
  <2>11. DraftTypes'
    BY <1>2, <1>10, <2>2, <2>7 DEF DraftInv, DraftTypes
  <2>12. RowsOK'
    <3>1. CASE Registered(c, x)
      BY <1>2, <1>10, <3>1 DEF DraftInv, RowsOK
    <3>2. CASE ~ Registered(c, x)
      <4>1. docRows' = Append(docRows, w)
        BY <1>5, <1>10, <2>4, <3>2
      <4>2. PICK m : m = Len(docRows)
        OBVIOUS
      <4>3. /\ Len(docRows') = m + 1 /\ m \in Nat
            /\ \A k \in 1 .. m : docRows'[k] = docRows[k]
            /\ docRows'[m + 1] = w
        BY <2>5, <2>6, <4>1, <4>2
      <4>4. \A k \in 1 .. m : /\ docRows[k].chain \in Chain /\ docRows[k].version \in Nat \ {0}
                              /\ docRows[k].version <= Len(chain[docRows[k].chain])
                              /\ docRows[k].text = chain[docRows[k].chain][docRows[k].version].text
        <5>1. \A k \in 1 .. m : docRows[k] \in RowRec
          BY ONLY <2>6, <4>2
        <5>2. \A z \in RowRec : z.chain \in Chain /\ z.version \in Nat \ {0}
          BY ONLY DraftBounds DEF RowRec
        <5>3. QED
          BY <4>2, <5>1, <5>2 DEF DraftInv, RowsOK
      <4>5. ASSUME NEW j \in 1 .. m, docRows[j].chain = c PROVE docRows[j].version < n
        <5>1. docRows[j].version \in Nat \ {0} /\ docRows[j].version <= n
          BY <1>4, <1>5, <4>4, <4>5
        <5>2. SUFFICES ASSUME docRows[j].version = n PROVE FALSE
          BY <1>7, <5>1
        <5>3. docRows[j].text = x
          BY <1>4, <1>7, <4>4, <4>5, <5>2
        <5>4. PICK k \in 1 .. m : docRows[k].chain = c /\ ~ (k <= j)
          BY <2>6, <3>2, <4>2, <4>5, <5>3 DEF Registered, RowsOf
        <5>5. docRows[j].version < docRows[k].version
          BY <4>2, <4>5, <5>4 DEF DraftInv, RowsOK
        <5>6. docRows[k].version \in Nat /\ docRows[k].version <= n
          BY <1>4, <1>5, <4>4, <5>4
        <5>7. QED
          BY <1>7, <5>2, <5>5, <5>6
      <4>6. \A k \in 1 .. m + 1 : /\ docRows'[k].version <= Len(chain'[docRows'[k].chain])
                                 /\ docRows'[k].text = chain'[docRows'[k].chain][docRows'[k].version].text
        <5>1. /\ w.version <= Len(chain[w.chain])
              /\ w.text = chain[w.chain][w.version].text
          BY <1>4, <1>5, <1>7, <2>5
        <5>2. chain' = chain
          BY <1>2
        <5>3. \A k \in 1 .. m + 1 : k = m + 1 \/ k \in 1 .. m
          BY <4>3
        <5>4. QED
          BY <4>3, <4>4, <5>1, <5>2, <5>3
      <4>7. \A j, k \in 1 .. m + 1 : j < k /\ docRows'[j].chain = docRows'[k].chain =>
                                       docRows'[j].version < docRows'[k].version
        <5>1. SUFFICES ASSUME NEW j \in 1 .. m + 1, NEW k \in 1 .. m + 1, j < k,
                              docRows'[j].chain = docRows'[k].chain
                       PROVE  docRows'[j].version < docRows'[k].version
          OBVIOUS
        <5>2. j \in 1 .. m /\ docRows'[j] = docRows[j]
          BY <4>3, <5>1
        <5>3. CASE k = m + 1
          BY <2>5, <4>3, <4>5, <5>1, <5>2, <5>3
        <5>4. CASE k \in 1 .. m
          BY <4>2, <4>3, <5>1, <5>2, <5>4 DEF DraftInv, RowsOK
        <5>5. QED
          BY <4>3, <5>3, <5>4
      <4>8. QED
        BY <4>3, <4>6, <4>7 DEF RowsOK
    <3>3. QED
      BY <3>1, <3>2
  <2>13. chain' = chain /\ ReqOK(r, req[r])' /\ req'[r].at # "opened"
    BY <1>2, <2>2, <2>3, <2>8
  <2>14. QED
    BY <2>9, <2>10, <2>11, <2>12, <2>13, StepOfOne
<1>11. QED
  BY <1>1, <1>9, <1>10 DEF RegisterDocument

\* A term an accepted draft makes is confirmed as its chain's.
LEMMA PromoteKeeps ==
  ASSUME DraftInv, NEW r \in DraftRequest, PromoteTerm(r)
  PROVE  DraftInv' /\ GrowStep /\ DecideStep
<1>1. PICK p, c : p = req[r] /\ c = p.chain
  OBVIOUS
<1>2. p.at = "terms" /\ UNCHANGED <<chainKind, chain, docFile, docRows, draftCrashes>>
  BY <1>1 DEF PromoteTerm, chainVars
<1>3. ReqOK(r, p)
  BY <1>1 DEF DraftInv
<1>4. /\ c \in Chain /\ chainKind[c] # "none" /\ chainKind[c] # "document" /\ p.copy = chain[c] /\ chain[c] # <<>>
      /\ chainLock[c] = <<r>> /\ Newest(p.copy).decision = "none" /\ Len(p.saw) = Len(p.copy)
      /\ \A t \in Text : terms[t] = "none" => t \in p.todo
  BY <1>1, <1>2, <1>3 DEF ReqOK, Deciding
<1>5. req[r].at \in {"append"} \union Deciding
  BY <1>1, <1>2 DEF Deciding
<1>6. \A b \in Chain : chainLock[b] = <<r>> => b = c
  BY <1>1, <1>5, HoldsOne
<1>7. RowsOK'
  BY <1>2 DEF DraftInv, RowsOK
<1>8. ASSUME NEW a, NEW d, req'[r] = Req(a, c, p.copy, p.saw, d), a \in {"terms", "accept"},
             req' = [s \in DraftRequest |-> req'[s]],
             \A s \in DraftRequest : s # r => req'[s] = req[s],
             chainLock' = chainLock, terms' \in [Text -> {"none", "candidate", "confirmed"}],
             \A t \in Text : terms[t] # "none" => terms'[t] # "none",
             a = "terms" => \A t \in Text : terms'[t] = "none" => t \in d,
             a = "accept" => \A t \in Text : terms'[t] # "none"
      PROVE  DraftInv' /\ GrowStep /\ DecideStep
  <2>1. PICK q : q = Req(a, c, p.copy, p.saw, d)
    OBVIOUS
  <2>2. ReqRecord(q) /\ q.at = a /\ q.chain = c /\ q.copy = p.copy /\ q.saw = p.saw /\ q.todo = d
    BY <2>1, ReqIs
  <2>3. req'[r] = q
    BY <1>8, <2>1
  <2>4. a = "accept" => Produced(c, Newest(p.copy).text)'
    BY <1>2, <1>4, <1>8 DEF Produced
  <2>5. ReqOK(r, q)'
    BY <1>2, <1>4, <1>8, <2>2, <2>4 DEF ReqOK, Deciding
  <2>6. Apart(r)
    BY <1>2, <1>8 DEF Apart
  <2>7. LocksKept(r)
    BY <1>6, <1>8, <2>2, <2>3 DEF LocksKept, Deciding
  <2>8. DraftTypes'
    BY <1>2, <1>8 DEF DraftInv, DraftTypes
  <2>9. chain' = chain /\ ReqOK(r, req[r])' /\ req'[r].at # "opened"
    BY <1>2, <1>8, <2>2, <2>3, <2>5
  <2>10. QED
    BY <1>7, <2>6, <2>7, <2>8, <2>9, StepOfOne
<1>9. terms \in [Text -> {"none", "candidate", "confirmed"}]
  BY DEF DraftInv, DraftTypes
<1>10. CASE p.todo = {} /\ req' = [req EXCEPT ![r].at = "accept"] /\ UNCHANGED <<terms, chainLock>>
  <2>1. /\ req'[r] = Req("accept", c, p.copy, p.saw, p.todo)
        /\ req' = [s \in DraftRequest |-> req'[s]]
        /\ \A s \in DraftRequest : s # r => req'[s] = req[s]
    BY <1>1, <1>10, AtMoves
  <2>2. \A t \in Text : terms'[t] # "none"
    BY <1>4, <1>10
  <2>3. QED
    BY <1>8, <1>9, <1>10, <2>1, <2>2
<1>11. ASSUME NEW t \in p.todo, terms[t] = "none",
              terms' = [terms EXCEPT ![t] = "candidate"],
              req' = [req EXCEPT ![r].todo = @ \ {t}], UNCHANGED chainLock
       PROVE  DraftInv' /\ GrowStep /\ DecideStep
  <2>1. /\ req'[r] = Req("terms", c, p.copy, p.saw, p.todo \ {t})
        /\ req' = [s \in DraftRequest |-> req'[s]]
        /\ \A s \in DraftRequest : s # r => req'[s] = req[s]
    <3>1. PICK d, q : d = p.todo \ {t} /\ q = [p EXCEPT !.todo = d]
      OBVIOUS
    <3>2. p = Req(p.at, p.chain, p.copy, p.saw, p.todo)
      BY <1>3 DEF ReqOK, ReqRecord, Req
    <3>3. PICK a0, y, s, d0 : p = Req(a0, c, y, s, d0) /\ a0 = p.at /\ y = p.copy /\ s = p.saw
      BY <1>1, <3>2
    <3>4. q = Req(a0, c, y, s, d)
      <4>1. p = Req(a0, c, y, s, d0)
        BY <3>3
      <4>2. [p EXCEPT !.todo = d] = Req(a0, c, y, s, d)
        BY ONLY <4>1, ReqFields
      <4>3. QED
        BY ONLY <3>1, <4>2
    <3>5. req' = [req EXCEPT ![r] = q]
      BY <1>1, <1>11, <3>1
    <3>6. /\ req'[r] = q /\ req' = [s1 \in DraftRequest |-> req'[s1]]
          /\ \A s1 \in DraftRequest : s1 # r => req'[s1] = req[s1]
      BY <3>5 DEF DraftInv, DraftTypes
    <3>7. QED
      BY <1>2, <3>1, <3>3, <3>4, <3>6
  <2>2. terms' \in [Text -> {"none", "candidate", "confirmed"}]
    BY <1>9, <1>11
  <2>3. \A u \in Text : u # t => terms'[u] = terms[u]
    BY <1>9, <1>11
  <2>4. t \in Text => terms'[t] = "candidate"
    BY <1>9, <1>11
  <2>5. /\ \A u \in Text : terms[u] # "none" => terms'[u] # "none"
        /\ \A u \in Text : terms'[u] = "none" => u \in p.todo \ {t}
    BY <1>4, <1>11, <2>3, <2>4
  <2>6. chainLock' = chainLock
    BY <1>11
  <2>7. PICK a, d : a = "terms" /\ d = p.todo \ {t}
    OBVIOUS
  <2>8. QED
    BY <1>8, <2>1, <2>2, <2>5, <2>6, <2>7
<1>12. CASE /\ chainLock' = [chainLock EXCEPT ![c] = Unlocked]
            /\ Leaves(r) /\ UNCHANGED terms
  <2>1. LetsGo(r)
    BY <1>1, <1>2, <1>5, <1>12, LetsGoOfIts
  <2>2. QED
    BY <1>2, <1>12, <2>1, LeaveKeeps
<1>13. QED
  BY <1>1, <1>10, <1>11, <1>12 DEF PromoteTerm

\* A server that dies takes the requests in hand with it and leaves the
\* files.
LEMMA DraftDies ==
  ASSUME DraftInv, NEW r \in DraftRequest, DraftProcessDies(r)
  PROVE  DraftInv' /\ GrowStep /\ DecideStep
<1>1. /\ Leaves(r) /\ UNCHANGED <<chainKind, chain, docFile, docRows, terms>>
      /\ draftCrashes < MaxDraftCrashes /\ draftCrashes' = draftCrashes + 1
      /\ chainLock' = [c \in Chain |-> IF chainLock[c] = <<r>> THEN Unlocked ELSE chainLock[c]]
  BY DEF DraftProcessDies, chainVars, outcome
<1>2. draftCrashes \in Nat /\ draftCrashes <= MaxDraftCrashes
  BY DEF DraftInv, DraftTypes
<1>3. draftCrashes' \in Nat /\ draftCrashes' <= MaxDraftCrashes
  BY <1>1, <1>2, DraftBounds
<1>4. LetsGo(r)
  BY <1>1, <1>3 DEF LetsGo
<1>5. QED
  BY <1>1, <1>4, LeaveKeeps

\* A term the owner adds beside a review undoes no acceptance.
LEMMA OwnerKeeps ==
  ASSUME DraftInv, NEW t \in Text, OwnerAddsTerm(t)
  PROVE  DraftInv' /\ GrowStep /\ DecideStep
<1>1. /\ UNCHANGED <<chainKind, chain, chainLock, docFile, docRows, req, draftCrashes>>
      /\ terms' = [terms EXCEPT ![t] = "confirmed"]
  BY DEF OwnerAddsTerm, chainVars
<1>2. terms \in [Text -> {"none", "candidate", "confirmed"}]
  BY DEF DraftInv, DraftTypes
<1>3. /\ terms' \in [Text -> {"none", "candidate", "confirmed"}]
      /\ \A u \in Text : terms'[u] = IF u = t THEN "confirmed" ELSE terms[u]
  BY <1>1, <1>2
<1>4. \A u \in Text : terms[u] # "none" => terms'[u] # "none"
  BY <1>3
<1>5. DraftTypes'
  BY <1>1, <1>3 DEF DraftInv, DraftTypes
<1>6. ASSUME NEW s \in DraftRequest PROVE ReqOK(s, req[s])'
  <2>1. PICK p : p = req[s] /\ ReqOK(s, p)
    BY DEF DraftInv
  <2>2. p.at = "accept" => Produced(p.chain, Newest(p.copy).text)'
    <3>1. SUFFICES ASSUME p.at = "accept" PROVE Produced(p.chain, Newest(p.copy).text)'
      OBVIOUS
    <3>2. Produced(p.chain, Newest(p.copy).text) /\ p.chain \in Chain
      BY <2>1, <3>1 DEF ReqOK
    <3>3. QED
      BY <1>1, <1>4, <3>2, ProducedStays
  <2>3. p.at = "terms" => \A u \in Text : terms'[u] = "none" => u \in p.todo
    BY <1>4, <2>1 DEF ReqOK
  <2>4. ReqOK(s, p)'
    BY <1>1, <2>1, <2>2, <2>3 DEF ReqOK
  <2>5. QED
    BY <1>1, <2>1, <2>4
<1>7. ASSUME NEW c \in Chain PROVE LockOK(c)' /\ ChainOK(c)'
  <2>1. LockOK(c)'
    BY <1>1 DEF DraftInv, LockOK
  <2>2. PICK r : Apart(r)
    <3>1. req' = [s \in DraftRequest |-> req'[s]]
      BY <1>1 DEF DraftInv, DraftTypes
    <3>2. \A r : Apart(r)
      BY <1>1, <1>4, <3>1 DEF Apart
    <3>3. QED
      BY <3>2
  <2>3. chain'[c] = chain[c]
    BY <1>1
  <2>4. QED
    BY <2>1, <2>2, <2>3, ChainStays
<1>8. OpenedOnce' /\ RowsOK'
  BY <1>1 DEF DraftInv, OpenedOnce, RowsOK
<1>9. QED
  BY <1>1, <1>5, <1>6, <1>7, <1>8, ChainsUnmoved DEF DraftInv

\* Every step keeps what is so of the drafts; chains only grow, and a review
\* decides what was read.
LEMMA DraftStays ==
  ASSUME DraftInv, [DraftNext]_draftVars
  PROVE  DraftInv' /\ GrowStep /\ DecideStep
<1>1. CASE UNCHANGED draftVars
  <2>1. UNCHANGED <<chainKind, chain, chainLock, docFile, docRows, terms, req, draftCrashes>>
    BY <1>1 DEF draftVars
  <2>2. DraftInv'
    BY <2>1 DEF DraftInv, DraftTypes, ReqOK, ChainOK, LockOK, OpenedOnce, RowsOK, Produced
  <2>3. QED
    BY <2>1, <2>2, ChainsUnmoved
<1>2. CASE DraftNext
  BY <1>2, OpenKeeps, WriteFirstKeeps, AppendKeeps, DecideKeeps, WriteDocumentKeeps, RegisterKeeps,
     PromoteKeeps, RecordKeeps, DraftDies, TakesKeep, OwnerKeeps DEF DraftNext
<1>3. QED
  BY <1>1, <1>2

-----------------------------------------------------------------------------
(* Tapes and archives (ManagedTapes).                                        *)

OneNameEach == \A u, v \in Uploader : Wants[u] = Wants[v] => u = v

OneDeleter == \A d, e \in Deleter : d = e

AuditHoldsBesideDelete == \A s \in TapeScenarios : "delete" \in s => "audit" \notin s

TapeRec == [id : Body, path : Path, body : Body]

DirRec == [exists : BOOLEAN, copies : SUBSET Body, sealed : BOOLEAN, damaged : BOOLEAN]

TapesTypes ==
    /\ tapeMay \subseteq {"archive", "race", "delete", "id", "audit", "crash"}
    /\ tapeFile \in [Path -> 0 .. MaxUploads]
    /\ tapeScratch \in [Scratch -> 0 .. MaxUploads]
    /\ tapeRows \subseteq TapeRec
    /\ tapeEver \subseteq 1 .. tapeUploads
    /\ tapeUploads \in Nat /\ tapeUploads <= MaxUploads
    /\ upl = [u \in Uploader |-> upl[u]]
    /\ del = [d \in Deleter |-> del[d]]
    /\ arc = [a \in Archiver |-> arc[a]]
    /\ arcDir \in [Dir -> DirRec]
    /\ arcRows \subseteq Dir

\* What an upload at p knows of its body and its target.
UploadOK(u, p) ==
    /\ p = [at |-> p.at, body |-> p.body, scratch |-> p.scratch, target |-> p.target]
    /\ p.at \in {"idle", "open", "copy", "record", "audit", "undo"}
    /\ p.at # "idle" => /\ p.body \in 1 .. tapeUploads /\ p.scratch \in Scratch
                        /\ p.target \in Path /\ p.target[1] = Wants[u]
    /\ p.at \in {"open", "copy"} =>
         tapeFile[p.target] = NoBody /\ p.body \notin tapeEver /\ \A q \in Path : tapeFile[q] # p.body
    /\ p.at = "copy" => tapeScratch[p.scratch] = p.body
    /\ p.at = "record" \/ (p.at = "undo" /\ "delete" \in tapeMay) =>
         tapeFile[p.target] = p.body /\ p.body \notin tapeEver

BodiesApart ==
    \A u, v \in Uploader : u # v /\ upl[u].at # "idle" /\ upl[v].at # "idle" => upl[u].body # upl[v].body

FilesOK ==
    /\ \A p \in Path : tapeFile[p] <= tapeUploads
    /\ \A p, q \in Path : tapeFile[p] # NoBody /\ tapeFile[p] = tapeFile[q] => p = q

TapeRowsOK ==
    /\ \A r \in tapeRows : r.body \in tapeEver /\ tapeFile[r.path] = r.body /\ r.id <= Cardinality(tapeEver)
    /\ \A r, q \in tapeRows : r.id = q.id \/ r.body = q.body => r = q
    /\ tapeSet = {r.path : r \in tapeRows}

\* What a deletion at p has checked and has left to do.
DeleteOK(p) ==
    /\ p = [at |-> p.at, batch |-> p.batch, path |-> p.path]
    /\ p.at \in {"idle", "check", "forget", "unlink"}
    /\ p.at # "idle" => "delete" \in tapeMay /\ p.batch \subseteq tapeRows
    /\ p.at \in {"forget", "unlink"} =>
         \E e \in arcRows : Verifies(e) /\ \A r \in p.batch : r.body \in arcDir[e].copies
    /\ p.at = "unlink" =>
         p.path \in Path /\ tapeFile[p.path] \in tapeEver /\ \A r \in tapeRows : r.path # p.path

ArchiveOK(p) ==
    /\ p = [at |-> p.at, dir |-> p.dir, todo |-> p.todo]
    /\ p.at \in {"idle", "mkdir", "copy", "add"}
    /\ p.at # "idle" => p.dir \in Dir /\ p.todo \subseteq Path
    /\ p.at \in {"copy", "add"} => arcDir[p.dir].exists /\ p.dir \notin arcRows
    /\ p.at = "add" => arcDir[p.dir].sealed

DirsApart ==
    \A a, b \in Archiver : a # b /\ arc[a].at \in {"copy", "add"} /\ arc[b].at \in {"copy", "add"}
                              => arc[a].dir # arc[b].dir

TapesInv ==
    /\ TapesTypes
    /\ "delete" \in tapeMay => "audit" \notin tapeMay
    /\ \A u \in Uploader : UploadOK(u, upl[u])
    /\ BodiesApart /\ FilesOK /\ TapeRowsOK
    /\ \A d \in Deleter : DeleteOK(del[d])
    /\ \A a \in Archiver : ArchiveOK(arc[a])
    /\ DirsApart
    /\ RecordedTapesAreKept /\ ArchivesStayWhole

\* What a step of uploader u with body b leaves alone.
Touches(u, b) ==
    /\ UNCHANGED <<tapeMay, del, arc, arcDir, arcRows>>
    /\ upl' = [v \in Uploader |-> upl'[v]]
    /\ \A v \in Uploader : v # u => upl'[v] = upl[v] /\ (upl[v].at # "idle" => upl[v].body # b)
    /\ upl'[u].at # "idle" => upl'[u].body = b
    /\ tapeUploads \in Nat /\ tapeUploads' \in Nat /\ tapeUploads <= tapeUploads'
    /\ \A q \in Path : tapeFile'[q] # tapeFile[q] => q[1] = Wants[u] /\ tapeFile'[q] \in {NoBody, b}
    /\ \A s \in Scratch : tapeScratch'[s] # tapeScratch[s] => tapeScratch[s] \in {NoBody, b}
    /\ tapeRows \subseteq tapeRows' /\ tapeEver \subseteq tapeEver' /\ tapeEver' \subseteq tapeEver \union {b}
    /\ \A r \in tapeRows : tapeFile'[r.path] = tapeFile[r.path]
    /\ "delete" \in tapeMay => \A q \in Path : tapeFile'[q] # tapeFile[q] => tapeFile[q] \notin tapeEver
    /\ \A r \in tapeRows' : r \in tapeRows \/ tapeFile[r.path] \notin tapeEver
    /\ \A e \in tapeEver' : e \in tapeEver \/ \E r \in tapeRows' : r.body = e /\ tapeFile'[r.path] = e

\* What a step of archiver a leaves alone.
Archives(a) ==
    /\ UNCHANGED <<tapeMay, tapeFile, tapeScratch, tapeRows, tapeSet, tapeEver, tapeUploads, upl, del>>
    /\ arc' = [x \in Archiver |-> arc'[x]]
    /\ \A x \in Archiver : x # a => arc'[x] = arc[x]
    /\ arcDir' \in [Dir -> DirRec]
    /\ arcRows \subseteq arcRows' /\ arcRows' \subseteq Dir
    /\ \A f \in arcRows : arcDir'[f] = arcDir[f]
    /\ \A f \in arcRows' : f \in arcRows \/ (arcDir'[f].exists /\ arcDir'[f].sealed)
    /\ \A x \in Archiver : x # a /\ arc[x].at \in {"copy", "add"} =>
         arcDir'[arc[x].dir] = arcDir[arc[x].dir] /\ arc[x].dir \notin arcRows'
    /\ arc'[a].at \in {"copy", "add"} =>
         \A x \in Archiver : x # a /\ arc[x].at \in {"copy", "add"} => arc[x].dir # arc'[a].dir

\* Nothing is kept to begin with.
LEMMA TapesInitInv == AuditHoldsBesideDelete /\ TapesInit => TapesInv
<1> SUFFICES ASSUME AuditHoldsBesideDelete, TapesInit PROVE TapesInv
  OBVIOUS
<1>1. TapesTypes
  <2>1. tapeFile \in [Path -> 0 .. MaxUploads] /\ tapeScratch \in [Scratch -> 0 .. MaxUploads]
    BY TapeBounds DEF TapesInit, NoBody
  <2>2. NoDir \in DirRec
    BY DEF NoDir, DirRec
  <2>3. arcDir \in [Dir -> DirRec]
    BY <2>2 DEF TapesInit
  <2>4. tapeMay \subseteq {"archive", "race", "delete", "id", "audit", "crash"}
    BY TapeBounds DEF TapesInit
  <2>5. QED
    BY <2>1, <2>3, <2>4, TapeBounds DEF TapesInit, TapesTypes
<1>2. "delete" \in tapeMay => "audit" \notin tapeMay
  BY DEF AuditHoldsBesideDelete, TapesInit
<1>3. \A u \in Uploader : upl[u].at = "idle" /\ UploadOK(u, upl[u])
  <2>1. PICK p : p = NoUpload
    OBVIOUS
  <2>2. p.at = "idle" /\ \A u : UploadOK(u, p)
    BY <2>1 DEF NoUpload, UploadOK
  <2>3. QED
    BY <2>1, <2>2 DEF TapesInit
<1>4. \A d \in Deleter : DeleteOK(del[d])
  <2>1. PICK p : p = NoDelete
    OBVIOUS
  <2>2. DeleteOK(p)
    BY <2>1 DEF NoDelete, DeleteOK
  <2>3. QED
    BY <2>1, <2>2 DEF TapesInit
<1>5. \A a \in Archiver : arc[a].at = "idle" /\ ArchiveOK(arc[a])
  <2>1. PICK p : p = NoArchive
    OBVIOUS
  <2>2. p.at = "idle" /\ ArchiveOK(p)
    BY <2>1 DEF NoArchive, ArchiveOK
  <2>3. QED
    BY <2>1, <2>2 DEF TapesInit
<1>6. BodiesApart /\ DirsApart
  BY <1>3, <1>5 DEF BodiesApart, DirsApart
<1>7. FilesOK
  BY DEF TapesInit, FilesOK, NoBody
<1>8. TapeRowsOK
  BY DEF TapesInit, TapeRowsOK
<1>9. RecordedTapesAreKept /\ ArchivesStayWhole
  BY DEF TapesInit, RecordedTapesAreKept, ArchivesStayWhole
<1>10. QED
  BY <1>1, <1>2, <1>3, <1>4, <1>5, <1>6, <1>7, <1>8, <1>9 DEF TapesInv

\* What is so of the tapes gives their types, that a row names its own bytes,
\* that a deletion leaves an archive that holds them, and that an archive
\* which reads whole is whole.
LEMMA TapesInvGives ==
  TapesInv => TapesTypeOK /\ RowsNameTheirTapes /\ RecordedTapesAreKept /\ ArchivesStayWhole
<1> SUFFICES ASSUME TapesInv
             PROVE  TapesTypeOK /\ RowsNameTheirTapes /\ RecordedTapesAreKept /\ ArchivesStayWhole
  OBVIOUS
<1>1. Body \union {NoBody} = 0 .. MaxUploads /\ 1 .. tapeUploads \subseteq Body
  BY TapeBounds DEF Body, NoBody, TapesInv, TapesTypes
<1>2. /\ tapeFile \in [Path -> Body \union {NoBody}] /\ tapeScratch \in [Scratch -> Body \union {NoBody}]
      /\ tapeEver \subseteq Body
  BY <1>1 DEF TapesInv, TapesTypes
<1>3. tapeRows \subseteq [id : Body, path : Path, body : Body]
  BY DEF TapesInv, TapesTypes, TapeRec
<1>4. tapeSet \subseteq Path
  <2>1. \A r \in tapeRows : r.path \in Path
    BY <1>3
  <2>2. QED
    BY <2>1 DEF TapesInv, TapeRowsOK
<1>5. tapeUploads \in 0 .. MaxUploads
  BY TapeBounds DEF TapesInv, TapesTypes
<1>6. arcDir \in [Dir -> [exists : BOOLEAN, copies : SUBSET Body, sealed : BOOLEAN, damaged : BOOLEAN]]
  BY DEF TapesInv, TapesTypes, DirRec
<1>7. /\ tapeMay \subseteq {"archive", "race", "delete", "id", "audit", "crash"}
      /\ arcRows \subseteq Dir
      /\ \A u \in Uploader : upl[u].at \in {"idle", "open", "copy", "record", "audit", "undo"}
      /\ \A d \in Deleter : del[d].at \in {"idle", "check", "forget", "unlink"}
      /\ \A a \in Archiver : arc[a].at \in {"idle", "mkdir", "copy", "add"}
  BY DEF TapesInv, TapesTypes, UploadOK, DeleteOK, ArchiveOK
<1>8. TapesTypeOK
  BY <1>2, <1>3, <1>4, <1>5, <1>6, <1>7 DEF TapesTypeOK
<1>9. QED
  BY <1>8 DEF TapesInv, TapeRowsOK, RowsNameTheirTapes

\* The others stay where they may be while one upload, and what is its, is
\* changed.
LEMMA OtherUploads ==
  ASSUME TapesInv, OneNameEach, NEW u \in Uploader, NEW b, b # NoBody, Touches(u, b),
         NEW v \in Uploader, v # u
  PROVE  UploadOK(v, upl[v])'
<1>1. PICK p : p = upl[v]
  OBVIOUS
<1>2. upl'[v] = p /\ UploadOK(v, p) /\ (p.at # "idle" => p.body # b)
  BY <1>1 DEF TapesInv, Touches
<1>3. p.at # "idle" => /\ p.body \in 1 .. tapeUploads' /\ p.scratch \in Scratch
                       /\ p.target \in Path /\ p.target[1] = Wants[v]
  BY <1>2 DEF UploadOK, Touches
<1>4. p.at # "idle" => tapeFile'[p.target] = tapeFile[p.target]
  <2>1. Wants[u] # Wants[v]
    BY DEF OneNameEach
  <2>2. QED
    BY <1>3, <2>1 DEF Touches
<1>5. p.at # "idle" /\ p.body \notin tapeEver => p.body \notin tapeEver'
  BY <1>2 DEF Touches
<1>6. p.at \in {"open", "copy"} => \A q \in Path : tapeFile'[q] # p.body
  <2>1. SUFFICES ASSUME p.at \in {"open", "copy"}, NEW q \in Path PROVE tapeFile'[q] # p.body
    OBVIOUS
  <2>2. tapeFile[q] # p.body /\ p.body # b /\ p.body # NoBody
    BY <1>2, <2>1 DEF UploadOK, NoBody
  <2>3. tapeFile'[q] = tapeFile[q] \/ tapeFile'[q] \in {NoBody, b}
    BY DEF Touches
  <2>4. QED
    BY <2>2, <2>3
<1>7. p.at = "copy" => tapeScratch'[p.scratch] = p.body
  <2>1. SUFFICES ASSUME p.at = "copy" PROVE tapeScratch'[p.scratch] = p.body
    OBVIOUS
  <2>2. tapeScratch[p.scratch] = p.body /\ p.scratch \in Scratch /\ p.body # b /\ p.body # NoBody
    BY <1>2, <2>1 DEF UploadOK, NoBody
  <2>3. QED
    BY <2>2 DEF Touches
<1>8. /\ p = [at |-> p.at, body |-> p.body, scratch |-> p.scratch, target |-> p.target]
      /\ p.at \in {"idle", "open", "copy", "record", "audit", "undo"}
  BY <1>2 DEF UploadOK
<1>9. p.at \in {"open", "copy"} => tapeFile'[p.target] = NoBody /\ p.body \notin tapeEver'
  BY <1>2, <1>4, <1>5 DEF UploadOK
<1>10. p.at = "record" \/ (p.at = "undo" /\ "delete" \in tapeMay') =>
          tapeFile'[p.target] = p.body /\ p.body \notin tapeEver'
  BY <1>2, <1>4, <1>5 DEF UploadOK, Touches
<1>11. UploadOK(v, p)'
  BY <1>3, <1>6, <1>7, <1>8, <1>9, <1>10 DEF UploadOK
<1>12. QED
  BY <1>2, <1>11

\* A step of one upload keeps what is so of the tapes, if it keeps what is so
\* of that one and takes nothing that is another's.
LEMMA UploadStep ==
  ASSUME TapesInv, OneNameEach, NEW u \in Uploader, NEW b, b # NoBody, Touches(u, b),
         TapesTypes', UploadOK(u, upl[u])', FilesOK', TapeRowsOK'
  PROVE  TapesInv'
<1>1. \A v \in Uploader : UploadOK(v, upl[v])'
  BY OtherUploads
<1>2. BodiesApart'
  BY DEF TapesInv, BodiesApart, Touches
<1>3. "delete" \in tapeMay' => "audit" \notin tapeMay'
  BY DEF TapesInv, Touches
<1>4. \A a \in Archiver : ArchiveOK(arc[a])'
  <2>1. UNCHANGED <<arc, arcDir, arcRows>>
    BY DEF Touches
  <2>2. QED
    BY <2>1 DEF TapesInv, ArchiveOK
<1>5. DirsApart' /\ ArchivesStayWhole'
  BY DEF TapesInv, DirsApart, ArchivesStayWhole, Touches
<1>6. ASSUME NEW d \in Deleter PROVE DeleteOK(del[d])'
  <2>1. PICK p : p = del[d] /\ DeleteOK(p)
    BY DEF TapesInv
  <2>2. UNCHANGED <<tapeMay, del, arcDir, arcRows>> /\ tapeRows \subseteq tapeRows' /\ tapeEver \subseteq tapeEver'
    BY DEF Touches
  <2>3. p.at \in {"forget", "unlink"} =>
         \E e \in arcRows' : Verifies(e)' /\ \A r \in p.batch : r.body \in arcDir'[e].copies
    BY <2>1, <2>2 DEF DeleteOK, Verifies
  <2>4. p.at = "unlink" =>
         p.path \in Path /\ tapeFile'[p.path] \in tapeEver' /\ \A r \in tapeRows' : r.path # p.path
    <3>1. SUFFICES ASSUME p.at = "unlink"
                   PROVE  p.path \in Path /\ tapeFile'[p.path] \in tapeEver' /\ \A r \in tapeRows' : r.path # p.path
      OBVIOUS
    <3>2. /\ "delete" \in tapeMay /\ p.path \in Path /\ tapeFile[p.path] \in tapeEver
          /\ \A r \in tapeRows : r.path # p.path
      BY <2>1, <3>1 DEF DeleteOK
    <3>3. tapeFile'[p.path] = tapeFile[p.path]
      BY <3>2 DEF Touches
    <3>4. \A r \in tapeRows' : r \in tapeRows \/ tapeFile[r.path] \notin tapeEver
      BY DEF Touches
    <3>5. QED
      BY <2>2, <3>2, <3>3, <3>4
  <2>5. DeleteOK(p)'
    BY <2>1, <2>2, <2>3, <2>4 DEF DeleteOK
  <2>6. QED
    BY <2>1, <2>2, <2>5
<1>7. RecordedTapesAreKept'
  <2>1. SUFFICES ASSUME NEW e \in tapeEver'
                 PROVE  (Named(e) \/ \E d \in arcRows : Verifies(d) /\ e \in arcDir[d].copies)'
    BY DEF RecordedTapesAreKept
  <2>2. UNCHANGED <<arcDir, arcRows>> /\ tapeRows \subseteq tapeRows' /\ \A r \in tapeRows : tapeFile'[r.path] = tapeFile[r.path]
    BY DEF Touches
  <2>3. CASE e \in tapeEver
    <3>1. CASE Named(e)
      BY <2>2, <3>1 DEF Named
    <3>2. CASE \E d \in arcRows : Verifies(d) /\ e \in arcDir[d].copies
      BY <2>2, <3>2 DEF Verifies
    <3>3. QED
      BY <2>3, <3>1, <3>2 DEF TapesInv, RecordedTapesAreKept
  <2>4. CASE e \notin tapeEver
    BY <2>4 DEF Touches, Named
  <2>5. QED
    BY <2>3, <2>4
<1>8. QED
  BY <1>1, <1>2, <1>3, <1>4, <1>5, <1>6, <1>7 DEF TapesInv

\* A set of numbers that is bounded and not empty has a greatest one.
LEMMA GreatestNumber ==
  ASSUME NEW b \in Nat, NEW S \in SUBSET (0 .. b), S # {}
  PROVE  \E i \in S : \A j \in S : j <= i
<1> DEFINE R == OpToRel(<, Nat)
           T == {b - j : j \in S}
<1>1. T \subseteq Nat /\ T # {}
  <2>1. \A j \in S : b - j \in Nat
    OBVIOUS
  <2>2. T # {}
    OBVIOUS
  <2>3. QED
    BY <2>1, <2>2
<1>2. PICK m \in T : \A y \in T : ~ (<<y, m>> \in R)
  <2> HIDE DEF T, R
  <2>1. QED
    BY <1>1, NatLessThanWellFounded, WFMin DEF R
<1>3. \A y \in T : ~ (y < m)
  BY <1>1, <1>2 DEF OpToRel
<1>4. PICK i \in S : m = b - i
  OBVIOUS
<1>5. ASSUME NEW j \in S PROVE j <= i
  <2>1. b - j \in T /\ ~ (b - j < b - i)
    BY <1>3, <1>4
  <2>2. i \in Int /\ j \in Int
    OBVIOUS
  <2>3. QED
    BY <2>1, <2>2
<1>6. QED
  BY <1>4, <1>5

\* So it is its Max.
LEMMA GreatestIsMax ==
  ASSUME NEW b \in Nat, NEW S \in SUBSET (0 .. b), S # {}
  PROVE  Max(S) \in S /\ \A j \in S : Max(S) >= j
<1>1. PICK i \in S : \A j \in S : j <= i
  BY GreatestNumber
<1>2. \A j \in S : i >= j
  BY <1>1
<1>3. QED
  BY <1>2 DEF Max

\* A set of numbers that is not empty has a least one.
LEMMA LeastIsMin ==
  ASSUME NEW S \in SUBSET Nat, S # {}
  PROVE  Min(S) \in S /\ \A j \in S : Min(S) <= j
<1> DEFINE R == OpToRel(<, Nat)
<1>1. PICK m \in S : \A y \in S : ~ (<<y, m>> \in R)
  <2> HIDE DEF R
  <2>1. QED
    BY NatLessThanWellFounded, WFMin DEF R
<1>2. \A y \in S : ~ (y < m)
  BY <1>1 DEF OpToRel
<1>3. \A y \in S : m <= y
  <2>1. SUFFICES ASSUME NEW y \in S PROVE m <= y
    OBVIOUS
  <2>2. m \in Nat /\ y \in Nat /\ ~ (y < m)
    BY <1>2
  <2>3. QED
    BY <2>2
<1>4. QED
  BY <1>3 DEF Min

\* An upload at rest has nothing in hand.
LEMMA UploadRests ==
  ASSUME TapesInv, NEW u \in Uploader, upl' = [upl EXCEPT ![u] = NoUpload]
  PROVE  /\ upl' = [v \in Uploader |-> upl'[v]] /\ \A v \in Uploader : v # u => upl'[v] = upl[v]
         /\ upl'[u].at = "idle" /\ UploadOK(u, upl[u])'
<1>1. PICK p : p = NoUpload
  OBVIOUS
<1>2. p.at = "idle" /\ UploadOK(u, p)'
  BY <1>1 DEF NoUpload, UploadOK
<1>3. /\ upl'[u] = p /\ upl' = [v \in Uploader |-> upl'[v]]
      /\ \A v \in Uploader : v # u => upl'[v] = upl[v]
  BY <1>1 DEF TapesInv, TapesTypes
<1>4. QED
  BY <1>2, <1>3

\* An upload that goes to another step keeps the rest of its record.
LEMMA UploadMoves ==
  ASSUME TapesInv, NEW u \in Uploader, NEW a, upl' = [upl EXCEPT ![u].at = a]
  PROVE  /\ upl' = [v \in Uploader |-> upl'[v]] /\ \A v \in Uploader : v # u => upl'[v] = upl[v]
         /\ upl'[u] = [at |-> a, body |-> upl[u].body, scratch |-> upl[u].scratch, target |-> upl[u].target]
<1>1. PICK p : p = upl[u]
  OBVIOUS
<1>2. PICK a0, b, s, t : p = [at |-> a0, body |-> b, scratch |-> s, target |-> t]
  <2>1. UploadOK(u, p)
    BY <1>1 DEF TapesInv
  <2>2. p = [at |-> p.at, body |-> p.body, scratch |-> p.scratch, target |-> p.target]
    BY <2>1 DEF UploadOK
  <2>3. QED
    BY <2>2
<1>3. [p EXCEPT !.at = a] = [at |-> a, body |-> p.body, scratch |-> p.scratch, target |-> p.target]
  BY ONLY <1>2
<1>4. /\ upl'[u] = [p EXCEPT !.at = a] /\ upl' = [v \in Uploader |-> upl'[v]]
      /\ \A v \in Uploader : v # u => upl'[v] = upl[v]
  BY <1>1 DEF TapesInv, TapesTypes
<1>5. QED
  BY <1>1, <1>3, <1>4

\* There is a free name as long as an upload may begin.
LEMMA FreeNames ==
  ASSUME TapesInv, NEW u \in Uploader, tapeUploads < MaxUploads
  PROVE  LET n == Min(Free(Wants[u])) IN
           n \in Body /\ <<Wants[u], n>> \in Path /\ tapeFile[<<Wants[u], n>>] = NoBody
<1>1. \A n \in Body : <<Wants[u], n>> \in Path
  BY DEF Path
<1>2. Free(Wants[u]) # {}
  <2>1. SUFFICES ASSUME Free(Wants[u]) = {} PROVE FALSE
    OBVIOUS
  <2>2. \A n \in Body : tapeFile[<<Wants[u], n>>] # NoBody
    BY <2>1 DEF Free
  <2>3. tapeUploads \in Nat /\ MaxUploads \in Nat
    BY TapeBounds DEF TapesInv, TapesTypes
  <2>4. PICK T, f : T = 1 .. tapeUploads /\ f = [n \in Body |-> tapeFile[<<Wants[u], n>>]]
    OBVIOUS
  <2>5. f \in [Body -> T]
    <3>1. \A n \in Body : tapeFile[<<Wants[u], n>>] \in 0 .. MaxUploads /\ tapeFile[<<Wants[u], n>>] <= tapeUploads
      BY <1>1 DEF TapesInv, TapesTypes, FilesOK
    <3>2. \A n \in Body : tapeFile[<<Wants[u], n>>] \in T
      BY <2>2, <2>3, <2>4, <3>1 DEF NoBody
    <3>3. QED
      BY <2>4, <3>2
  <2>6. /\ IsFiniteSet(T) /\ Cardinality(T) = tapeUploads
        /\ IsFiniteSet(Body) /\ Cardinality(Body) = MaxUploads
    <3>1. IsFiniteSet(1 .. tapeUploads) /\ Cardinality(1 .. tapeUploads) = IF 1 > tapeUploads THEN 0 ELSE tapeUploads - 1 + 1
      BY <2>3, FS_Interval
    <3>2. IsFiniteSet(1 .. MaxUploads) /\ Cardinality(1 .. MaxUploads) = IF 1 > MaxUploads THEN 0 ELSE MaxUploads - 1 + 1
      BY <2>3, FS_Interval
    <3>3. QED
      BY <2>3, <2>4, <3>1, <3>2 DEF Body
  <2>7. Cardinality(T) < Cardinality(Body)
    BY <2>3, <2>6
  <2>8. PICK x \in Body, y \in Body : x # y /\ f[x] = f[y]
    BY <2>5, <2>6, <2>7, FS_PigeonHole
  <2>9. tapeFile[<<Wants[u], x>>] = tapeFile[<<Wants[u], y>>] /\ tapeFile[<<Wants[u], x>>] # NoBody
    BY <2>2, <2>4, <2>8
  <2>10. <<Wants[u], x>> = <<Wants[u], y>>
    BY <1>1, <2>9 DEF TapesInv, FilesOK
  <2>11. QED
    BY <2>8, <2>10
<1>3. Free(Wants[u]) \subseteq Nat /\ Free(Wants[u]) \subseteq Body
  BY TapeBounds DEF Free, Body
<1>4. Min(Free(Wants[u])) \in Free(Wants[u])
  BY <1>2, <1>3, LeastIsMin
<1>5. QED
  BY <1>1, <1>3, <1>4 DEF Free

\* Choosing a body and a path touches nothing.
LEMMA ChooseKeeps ==
  ASSUME TapesInv, OneNameEach, NEW u \in Uploader, ChooseTarget(u)
  PROVE  TapesInv'
<1>1. PICK n : n = Min(Free(Wants[u]))
  OBVIOUS
<1>2. PICK b : b = tapeUploads + 1
  OBVIOUS
<1>3. /\ upl[u].at = "idle" /\ tapeUploads < MaxUploads /\ tapeUploads' = b
      /\ UNCHANGED <<tapeMay, tapeFile, tapeScratch, tapeRows, tapeSet, tapeEver, del, arc, arcDir, arcRows>>
  BY <1>2 DEF ChooseTarget, tapeFacts, arcVars
<1>4. PICK s \in UploadId \union {b} :
         upl' = [upl EXCEPT ![u] = [at |-> "open", body |-> b, scratch |-> s, target |-> <<Wants[u], n>>]]
  BY <1>1, <1>2 DEF ChooseTarget
<1>5. tapeUploads \in Nat /\ MaxUploads \in Nat /\ tapeUploads <= MaxUploads
  BY TapeBounds DEF TapesInv, TapesTypes
<1>6. b \in Nat /\ b <= MaxUploads /\ b # NoBody /\ b \in 1 .. b /\ b \in Body /\ s \in Scratch
  BY <1>2, <1>3, <1>4, <1>5 DEF NoBody, Body, Scratch
<1>7. n \in Body /\ <<Wants[u], n>> \in Path /\ tapeFile[<<Wants[u], n>>] = NoBody
  BY <1>1, <1>3, FreeNames
<1>8. PICK p : p = [at |-> "open", body |-> b, scratch |-> s, target |-> <<Wants[u], n>>]
  OBVIOUS
<1>9. /\ upl'[u] = p /\ upl' = [v \in Uploader |-> upl'[v]]
      /\ \A v \in Uploader : v # u => upl'[v] = upl[v]
  BY <1>4, <1>8 DEF TapesInv, TapesTypes
<1>10. /\ p = [at |-> p.at, body |-> p.body, scratch |-> p.scratch, target |-> p.target]
       /\ p.at = "open" /\ p.body = b /\ p.scratch = s /\ p.target = <<Wants[u], n>> /\ p.target[1] = Wants[u]
  BY <1>8
<1>11. \A e \in tapeEver : e # b
  BY <1>2, <1>5 DEF TapesInv, TapesTypes
<1>12. \A q \in Path : tapeFile[q] # b
  <2>1. \A q \in Path : tapeFile[q] <= tapeUploads
    BY DEF TapesInv, FilesOK
  <2>2. ~ (b <= tapeUploads)
    BY <1>2, <1>5
  <2>3. QED
    BY <2>1, <2>2
<1>13. UploadOK(u, p)'
  BY <1>3, <1>6, <1>7, <1>10, <1>11, <1>12 DEF UploadOK
<1>14. Touches(u, b)
  <2>1. \A v \in Uploader : upl[v].at # "idle" => upl[v].body # b
    <3>1. \A v \in Uploader : upl[v].at # "idle" => upl[v].body \in 1 .. tapeUploads
      BY DEF TapesInv, UploadOK
    <3>2. b \notin 1 .. tapeUploads
      BY <1>2, <1>5
    <3>3. QED
      BY <3>1, <3>2
  <2>2. tapeUploads \in Nat /\ tapeUploads' \in Nat /\ tapeUploads <= tapeUploads'
    BY <1>2, <1>3, <1>5
  <2>3. QED
    BY <1>3, <1>9, <1>10, <2>1, <2>2 DEF Touches
<1>15. TapesTypes'
  <2>1. tapeEver \subseteq 1 .. b
    BY <1>2, <1>5 DEF TapesInv, TapesTypes
  <2>2. QED
    BY <1>3, <1>6, <1>9, <2>1 DEF TapesInv, TapesTypes
<1>16. FilesOK' /\ TapeRowsOK'
  <2>1. \A q \in Path : tapeFile[q] <= b
    <3>1. \A q \in Path : tapeFile[q] <= tapeUploads /\ tapeFile[q] \in Nat
      BY <1>5 DEF TapesInv, TapesTypes, FilesOK
    <3>2. QED
      BY <1>2, <1>5, <3>1
  <2>2. QED
    BY <1>3, <2>1 DEF TapesInv, FilesOK, TapeRowsOK
<1>17. UploadOK(u, upl[u])'
  BY <1>9, <1>13
<1>18. QED
  BY <1>6, <1>14, <1>15, <1>16, <1>17, UploadStep

\* The scratch file that is opened is one nobody holds.
LEMMA OpenScratchKeeps ==
  ASSUME TapesInv, OneNameEach, NEW u \in Uploader, OpenScratch(u)
  PROVE  TapesInv'
<1>1. PICK p, b, s : p = upl[u] /\ b = p.body /\ s = p.scratch
  OBVIOUS
<1>2. /\ p.at = "open"
      /\ UNCHANGED <<tapeMay, tapeFile, tapeRows, tapeSet, tapeEver, tapeUploads, del, arc, arcDir, arcRows>>
  BY <1>1 DEF OpenScratch, tapeFacts, arcVars
<1>3. UploadOK(u, p)
  BY <1>1 DEF TapesInv
<1>4. b \in 1 .. tapeUploads /\ s \in Scratch /\ p.target \in Path /\ p.target[1] = Wants[u]
  BY <1>1, <1>2, <1>3 DEF UploadOK
<1>5. tapeUploads \in Nat /\ tapeUploads <= MaxUploads /\ MaxUploads \in Nat /\ b # NoBody /\ b \in 0 .. MaxUploads
  BY <1>4, TapeBounds DEF TapesInv, TapesTypes, NoBody
<1>6. \A v \in Uploader : v # u /\ upl[v].at # "idle" => upl[v].body # b
  BY <1>1, <1>2 DEF TapesInv, BodiesApart
<1>7. FilesOK' /\ TapeRowsOK'
  BY <1>2 DEF TapesInv, FilesOK, TapeRowsOK
<1>8. CASE SlotFree(s) /\ tapeScratch' = [tapeScratch EXCEPT ![s] = b] /\ upl' = [upl EXCEPT ![u].at = "copy"]
  <2>1. PICK q : q = [at |-> "copy", body |-> b, scratch |-> s, target |-> p.target]
    OBVIOUS
  <2>2. /\ upl'[u] = q /\ upl' = [v \in Uploader |-> upl'[v]]
        /\ \A v \in Uploader : v # u => upl'[v] = upl[v]
    BY <1>1, <1>8, <2>1, UploadMoves
  <2>3. /\ q = [at |-> q.at, body |-> q.body, scratch |-> q.scratch, target |-> q.target]
        /\ q.at = "copy" /\ q.body = b /\ q.scratch = s /\ q.target = p.target
    BY <2>1
  <2>4. /\ tapeScratch' \in [Scratch -> 0 .. MaxUploads] /\ tapeScratch'[s] = b
        /\ \A x \in Scratch : x # s => tapeScratch'[x] = tapeScratch[x]
    BY <1>4, <1>5, <1>8 DEF TapesInv, TapesTypes
  <2>5. UploadOK(u, q)'
    BY <1>1, <1>2, <1>3, <1>4, <2>3, <2>4 DEF UploadOK
  <2>6. Touches(u, b)
    BY <1>2, <1>5, <1>6, <1>8, <2>2, <2>3, <2>4 DEF Touches, SlotFree
  <2>7. TapesTypes'
    BY <1>2, <2>2, <2>4 DEF TapesInv, TapesTypes
  <2>8. UploadOK(u, upl[u])'
    BY <2>2, <2>5
  <2>9. QED
    BY <1>5, <1>7, <2>6, <2>7, <2>8, UploadStep
<1>9. CASE upl' = [upl EXCEPT ![u] = NoUpload] /\ UNCHANGED tapeScratch
  <2>1. /\ upl' = [v \in Uploader |-> upl'[v]] /\ \A v \in Uploader : v # u => upl'[v] = upl[v]
        /\ upl'[u].at = "idle" /\ UploadOK(u, upl[u])'
    BY <1>9, UploadRests
  <2>2. Touches(u, b)
    BY <1>2, <1>5, <1>6, <1>9, <2>1 DEF Touches
  <2>3. TapesTypes'
    BY <1>2, <1>9, <2>1 DEF TapesInv, TapesTypes
  <2>4. QED
    BY <1>5, <1>7, <2>1, <2>2, <2>3, UploadStep
<1>10. QED
  BY <1>1, <1>8, <1>9 DEF OpenScratch

\* The rename that moves the bytes finds the path free, or the upload is
\* refused.
LEMMA CopyKeeps ==
  ASSUME TapesInv, OneNameEach, NEW u \in Uploader, CopyBody(u)
  PROVE  TapesInv'
<1>1. PICK p, b, s, t : p = upl[u] /\ b = p.body /\ s = p.scratch /\ t = p.target
  OBVIOUS
<1>2. /\ p.at = "copy" /\ tapeScratch' = [tapeScratch EXCEPT ![s] = NoBody]
      /\ UNCHANGED <<tapeMay, tapeRows, tapeSet, tapeEver, tapeUploads, del, arc, arcDir, arcRows>>
  BY <1>1 DEF CopyBody, tapeFacts, arcVars
<1>3. UploadOK(u, p)
  BY <1>1 DEF TapesInv
<1>4. /\ b \in 1 .. tapeUploads /\ s \in Scratch /\ t \in Path /\ t[1] = Wants[u]
      /\ tapeFile[t] = NoBody /\ b \notin tapeEver /\ \A q \in Path : tapeFile[q] # b
      /\ tapeScratch[s] = b
  BY <1>1, <1>2, <1>3 DEF UploadOK
<1>5. /\ tapeUploads \in Nat /\ tapeUploads <= MaxUploads /\ MaxUploads \in Nat
      /\ b # NoBody /\ b \in 0 .. MaxUploads /\ NoBody \in 0 .. MaxUploads /\ b <= tapeUploads
  BY <1>4, TapeBounds DEF TapesInv, TapesTypes, NoBody
<1>6. \A v \in Uploader : v # u /\ upl[v].at # "idle" => upl[v].body # b
  BY <1>1, <1>2 DEF TapesInv, BodiesApart
<1>7. /\ tapeScratch' \in [Scratch -> 0 .. MaxUploads]
      /\ \A x \in Scratch : x # s => tapeScratch'[x] = tapeScratch[x]
  BY <1>2, <1>4, <1>5 DEF TapesInv, TapesTypes
<1>8. NoBody \notin tapeEver /\ tapeFile \in [Path -> 0 .. MaxUploads]
  BY <1>5 DEF TapesInv, TapesTypes, NoBody
<1>9. \A r \in tapeRows : r.path \in Path /\ tapeFile[r.path] \in tapeEver /\ r.path # t
  BY <1>4, <1>8 DEF TapesInv, TapesTypes, TapeRec, TapeRowsOK
<1>10. CASE tapeFile' = [tapeFile EXCEPT ![t] = tapeScratch[s]] /\ upl' = [upl EXCEPT ![u].at = "record"]
  <2>1. PICK q : q = [at |-> "record", body |-> b, scratch |-> s, target |-> t]
    OBVIOUS
  <2>2. /\ upl'[u] = q /\ upl' = [v \in Uploader |-> upl'[v]]
        /\ \A v \in Uploader : v # u => upl'[v] = upl[v]
    BY <1>1, <1>10, <2>1, UploadMoves
  <2>3. /\ q = [at |-> q.at, body |-> q.body, scratch |-> q.scratch, target |-> q.target]
        /\ q.at = "record" /\ q.body = b /\ q.scratch = s /\ q.target = t
    BY <2>1
  <2>4. /\ tapeFile' \in [Path -> 0 .. MaxUploads] /\ tapeFile'[t] = b
        /\ \A x \in Path : x # t => tapeFile'[x] = tapeFile[x]
    BY <1>4, <1>5, <1>8, <1>10
  <2>5. UploadOK(u, q)'
    BY <1>2, <1>4, <2>3, <2>4 DEF UploadOK
  <2>6. Touches(u, b)
    <3>1. \A x \in Path : tapeFile'[x] # tapeFile[x] => x = t /\ tapeFile[x] \notin tapeEver
      BY <1>4, <1>8, <2>4
    <3>2. \A r \in tapeRows : tapeFile'[r.path] = tapeFile[r.path]
      BY <1>9, <2>4
    <3>3. QED
      BY <1>2, <1>4, <1>5, <1>6, <1>7, <2>2, <2>3, <2>4, <3>1, <3>2 DEF Touches
  <2>7. TapesTypes'
    BY <1>2, <1>7, <2>2, <2>4 DEF TapesInv, TapesTypes
  <2>8. FilesOK'
    <3>1. \A x \in Path : tapeFile'[x] <= tapeUploads'
      BY <1>2, <1>5, <2>4 DEF TapesInv, FilesOK
    <3>2. ASSUME NEW x \in Path, NEW y \in Path, tapeFile'[x] # NoBody, tapeFile'[x] = tapeFile'[y]
          PROVE  x = y
      BY <1>4, <2>4, <3>2 DEF TapesInv, FilesOK
    <3>3. QED
      BY <3>1, <3>2 DEF FilesOK
  <2>9. TapeRowsOK'
    BY <1>2, <1>9, <2>4 DEF TapesInv, TapeRowsOK
  <2>10. UploadOK(u, upl[u])'
    BY <2>2, <2>5
  <2>11. QED
    BY <1>5, <2>6, <2>7, <2>8, <2>9, <2>10, UploadStep
<1>11. CASE upl' = [upl EXCEPT ![u] = NoUpload] /\ UNCHANGED tapeFile
  <2>1. /\ upl' = [v \in Uploader |-> upl'[v]] /\ \A v \in Uploader : v # u => upl'[v] = upl[v]
        /\ upl'[u].at = "idle" /\ UploadOK(u, upl[u])'
    BY <1>11, UploadRests
  <2>2. Touches(u, b)
    BY <1>2, <1>4, <1>5, <1>6, <1>7, <1>11, <2>1 DEF Touches
  <2>3. TapesTypes'
    BY <1>2, <1>7, <1>11, <2>1 DEF TapesInv, TapesTypes
  <2>4. FilesOK' /\ TapeRowsOK'
    BY <1>2, <1>11 DEF TapesInv, FilesOK, TapeRowsOK
  <2>5. QED
    BY <1>5, <2>1, <2>2, <2>3, <2>4, UploadStep
<1>12. QED
  BY <1>1, <1>10, <1>11 DEF CopyBody

\* The id a new row gets is no row's, and there are no more ids than recordings.
LEMMA NewTapeId ==
  ASSUME TapesInv
  PROVE  /\ NextId \in Nat /\ 1 <= NextId /\ NextId <= Cardinality(tapeEver) + 1
         /\ \A r \in tapeRows : r.id # NextId
         /\ IsFiniteSet(tapeEver) /\ Cardinality(tapeEver) \in Nat /\ Cardinality(tapeEver) <= MaxUploads
<1>1. tapeUploads \in Nat /\ MaxUploads \in Nat /\ tapeUploads <= MaxUploads /\ tapeEver \subseteq 1 .. tapeUploads
  BY TapeBounds DEF TapesInv, TapesTypes
<1>2. IsFiniteSet(tapeEver) /\ Cardinality(tapeEver) \in Nat /\ Cardinality(tapeEver) <= MaxUploads
  <2>1. IsFiniteSet(1 .. tapeUploads) /\ Cardinality(1 .. tapeUploads) = IF 1 > tapeUploads THEN 0 ELSE tapeUploads - 1 + 1
    BY <1>1, FS_Interval
  <2>2. IsFiniteSet(tapeEver) /\ Cardinality(tapeEver) <= Cardinality(1 .. tapeUploads)
    BY <1>1, <2>1, FS_Subset
  <2>3. Cardinality(tapeEver) \in Nat
    BY <2>2, FS_CardinalityType
  <2>4. QED
    BY <1>1, <2>1, <2>2, <2>3
<1>3. PICK n, S : n = Cardinality(tapeEver) /\ S = {r.id : r \in tapeRows}
  OBVIOUS
<1>4. \A r \in tapeRows : r.id \in 1 .. n
  <2>1. \A r \in tapeRows : r.id \in Body /\ r.id <= n
    BY <1>3 DEF TapesInv, TapesTypes, TapeRec, TapeRowsOK
  <2>2. QED
    BY <1>1, <1>2, <1>3, <2>1 DEF Body
<1>5. CASE tapeRows = {}
  BY <1>2, <1>5 DEF NextId
<1>6. CASE tapeRows # {}
  <2>1. S \in SUBSET (0 .. n) /\ S # {} /\ n \in Nat
    BY <1>2, <1>3, <1>4, <1>6
  <2>2. PICK m : m = Max(S)
    OBVIOUS
  <2>3. m \in S /\ \A j \in S : m >= j
    BY <2>1, <2>2, GreatestIsMax
  <2>4. NextId = m + 1
    BY <1>3, <1>6, <2>2 DEF NextId
  <2>5. m \in 0 .. n
    BY <2>1, <2>3
  <2>6. \A r \in tapeRows : r.id # m + 1
    <3>1. SUFFICES ASSUME NEW r \in tapeRows PROVE r.id # m + 1
      OBVIOUS
    <3>2. m >= r.id /\ r.id \in Int
      BY <1>3, <1>4, <2>3
    <3>3. QED
      BY <2>5, <3>2
  <2>7. QED
    BY <1>2, <1>3, <2>1, <2>4, <2>5, <2>6
<1>7. QED
  BY <1>5, <1>6

\* The row that is recorded names the bytes at the path.
LEMMA RecordTapeKeeps ==
  ASSUME TapesInv, OneNameEach, NEW u \in Uploader, RecordTape(u)
  PROVE  TapesInv'
<1>1. PICK p, b, s, t : p = upl[u] /\ b = p.body /\ s = p.scratch /\ t = p.target
  OBVIOUS
<1>2. /\ p.at = "record"
      /\ UNCHANGED <<tapeMay, tapeFile, tapeScratch, tapeUploads, del, arc, arcDir, arcRows>>
  BY <1>1 DEF RecordTape, arcVars
<1>3. UploadOK(u, p)
  BY <1>1 DEF TapesInv
<1>4. /\ b \in 1 .. tapeUploads /\ s \in Scratch /\ t \in Path /\ t[1] = Wants[u]
      /\ tapeFile[t] = b /\ b \notin tapeEver
  BY <1>1, <1>2, <1>3 DEF UploadOK
<1>5. /\ tapeUploads \in Nat /\ tapeUploads <= MaxUploads /\ MaxUploads \in Nat
      /\ b # NoBody /\ b \in Body
  BY <1>4, TapeBounds DEF TapesInv, TapesTypes, NoBody, Body
<1>6. \A v \in Uploader : v # u /\ upl[v].at # "idle" => upl[v].body # b
  BY <1>1, <1>2 DEF TapesInv, BodiesApart
<1>7. FilesOK'
  BY <1>2 DEF TapesInv, FilesOK
<1>8. CASE /\ tapeRows' = tapeRows \union {[id |-> NextId, path |-> t, body |-> b]}
           /\ tapeSet' = tapeSet \union {t} /\ tapeEver' = tapeEver \union {b}
           /\ upl' = [upl EXCEPT ![u].at = "audit"]
  <2>1. PICK q : q = [at |-> "audit", body |-> b, scratch |-> s, target |-> t]
    OBVIOUS
  <2>2. /\ upl'[u] = q /\ upl' = [v \in Uploader |-> upl'[v]]
        /\ \A v \in Uploader : v # u => upl'[v] = upl[v]
    BY <1>1, <1>8, <2>1, UploadMoves
  <2>3. /\ q = [at |-> q.at, body |-> q.body, scratch |-> q.scratch, target |-> q.target]
        /\ q.at = "audit" /\ q.body = b /\ q.scratch = s /\ q.target = t
    BY <2>1
  <2>4. UploadOK(u, q)'
    BY <1>2, <1>4, <2>3 DEF UploadOK
  <2>5. PICK i, c : i = NextId /\ c = Cardinality(tapeEver)
    OBVIOUS
  <2>6. /\ i \in Nat /\ 1 <= i /\ i <= c + 1 /\ c \in Nat /\ \A r \in tapeRows : r.id # i
        /\ IsFiniteSet(tapeEver) /\ c <= MaxUploads
    BY <2>5, NewTapeId
  <2>7. tapeEver' \subseteq 1 .. tapeUploads
    BY <1>4, <1>8 DEF TapesInv, TapesTypes
  <2>8. Cardinality(tapeEver') = c + 1 /\ c + 1 <= MaxUploads
    <3>1. Cardinality(tapeEver \union {b}) = c + 1 /\ IsFiniteSet(tapeEver \union {b})
      BY <1>4, <2>5, <2>6, FS_AddElement
    <3>2. IsFiniteSet(1 .. tapeUploads) /\ Cardinality(1 .. tapeUploads) = IF 1 > tapeUploads THEN 0 ELSE tapeUploads - 1 + 1
      BY <1>5, FS_Interval
    <3>3. tapeEver \union {b} \subseteq 1 .. tapeUploads
      BY <1>8, <2>7
    <3>4. Cardinality(tapeEver \union {b}) <= Cardinality(1 .. tapeUploads)
      BY <3>2, <3>3, FS_Subset
    <3>5. QED
      BY <1>5, <1>8, <2>6, <3>1, <3>2, <3>4
  <2>9. PICK w : w = [id |-> i, path |-> t, body |-> b]
    OBVIOUS
  <2>10. w \in TapeRec /\ w.id = i /\ w.path = t /\ w.body = b
    <3>1. i \in Body
      BY <1>5, <2>6, <2>8 DEF Body
    <3>2. QED
      BY <1>4, <1>5, <2>9, <3>1 DEF TapeRec
  <2>11. tapeRows' = tapeRows \union {w}
    BY <1>8, <2>5, <2>9
  <2>12. TapesTypes'
    BY <1>2, <2>2, <2>7, <2>10, <2>11 DEF TapesInv, TapesTypes
  <2>13. Touches(u, b)
    BY <1>2, <1>4, <1>5, <1>6, <1>8, <2>2, <2>3, <2>10, <2>11 DEF Touches
  <2>14. TapeRowsOK'
    <3>1. \A r \in tapeRows : r.body \in tapeEver /\ tapeFile[r.path] = r.body /\ r.id <= c /\ r.id \in Nat
      BY <2>5 DEF TapesInv, TapeRowsOK, TapesTypes, TapeRec, Body
    <3>2. \A r \in tapeRows' : r.body \in tapeEver' /\ tapeFile'[r.path] = r.body /\ r.id <= c + 1
      BY <1>2, <1>4, <1>8, <2>6, <2>10, <2>11, <3>1
    <3>3. ASSUME NEW r \in tapeRows', NEW q1 \in tapeRows', r.id = q1.id \/ r.body = q1.body PROVE r = q1
      <4>1. r \in tapeRows \/ r = w
        BY <2>11
      <4>2. q1 \in tapeRows \/ q1 = w
        BY <2>11
      <4>3. \A x \in tapeRows : x.id # w.id /\ x.body # w.body
        BY <1>4, <2>6, <2>10, <3>1
      <4>4. QED
        BY <3>3, <4>1, <4>2, <4>3 DEF TapesInv, TapeRowsOK
    <3>4. tapeSet' = {r.path : r \in tapeRows'}
      BY <1>8, <2>10, <2>11 DEF TapesInv, TapeRowsOK
    <3>5. QED
      BY <2>8, <3>2, <3>3, <3>4 DEF TapeRowsOK
  <2>15. UploadOK(u, upl[u])'
    BY <2>2, <2>4
  <2>16. QED
    BY <1>5, <1>7, <2>12, <2>13, <2>14, <2>15, UploadStep
<1>9. CASE upl' = [upl EXCEPT ![u].at = "undo"] /\ UNCHANGED <<tapeRows, tapeSet, tapeEver>>
  <2>1. PICK q : q = [at |-> "undo", body |-> b, scratch |-> s, target |-> t]
    OBVIOUS
  <2>2. /\ upl'[u] = q /\ upl' = [v \in Uploader |-> upl'[v]]
        /\ \A v \in Uploader : v # u => upl'[v] = upl[v]
    BY <1>1, <1>9, <2>1, UploadMoves
  <2>3. /\ q = [at |-> q.at, body |-> q.body, scratch |-> q.scratch, target |-> q.target]
        /\ q.at = "undo" /\ q.body = b /\ q.scratch = s /\ q.target = t
    BY <2>1
  <2>4. UploadOK(u, q)'
    BY <1>2, <1>4, <1>9, <2>3 DEF UploadOK
  <2>5. Touches(u, b)
    BY <1>2, <1>5, <1>6, <1>9, <2>2, <2>3 DEF Touches
  <2>6. TapesTypes'
    BY <1>2, <1>9, <2>2 DEF TapesInv, TapesTypes
  <2>7. TapeRowsOK'
    BY <1>2, <1>9 DEF TapesInv, TapeRowsOK
  <2>8. UploadOK(u, upl[u])'
    BY <2>2, <2>4
  <2>9. QED
    BY <1>5, <1>7, <2>5, <2>6, <2>7, <2>8, UploadStep
<1>10. QED
  BY <1>1, <1>8, <1>9 DEF RecordTape, tapeFacts

\* The audit's row is written, or the upload is to be undone.
LEMMA AuditTapeKeeps ==
  ASSUME TapesInv, OneNameEach, NEW u \in Uploader, AuditTape(u)
  PROVE  TapesInv'
<1>1. PICK p, b, s, t : p = upl[u] /\ b = p.body /\ s = p.scratch /\ t = p.target
  OBVIOUS
<1>2. /\ p.at = "audit"
      /\ UNCHANGED <<tapeMay, tapeFile, tapeScratch, tapeRows, tapeSet, tapeEver, tapeUploads, del, arc, arcDir, arcRows>>
  BY <1>1 DEF AuditTape, tapeFacts, arcVars
<1>3. UploadOK(u, p)
  BY <1>1 DEF TapesInv
<1>4. b \in 1 .. tapeUploads /\ s \in Scratch /\ t \in Path /\ t[1] = Wants[u]
  BY <1>1, <1>2, <1>3 DEF UploadOK
<1>5. tapeUploads \in Nat /\ b # NoBody
  BY <1>4 DEF TapesInv, TapesTypes, NoBody
<1>6. \A v \in Uploader : v # u /\ upl[v].at # "idle" => upl[v].body # b
  BY <1>1, <1>2 DEF TapesInv, BodiesApart
<1>7. FilesOK' /\ TapeRowsOK'
  BY <1>2 DEF TapesInv, FilesOK, TapeRowsOK
<1>8. ASSUME upl' = [v \in Uploader |-> upl'[v]], \A v \in Uploader : v # u => upl'[v] = upl[v],
             UploadOK(u, upl[u])', upl'[u].at # "idle" => upl'[u].body = b
      PROVE  TapesInv'
  <2>1. Touches(u, b)
    BY <1>2, <1>5, <1>6, <1>8 DEF Touches
  <2>2. TapesTypes'
    BY <1>2, <1>8 DEF TapesInv, TapesTypes
  <2>3. QED
    BY <1>5, <1>7, <1>8, <2>1, <2>2, UploadStep
<1>9. CASE upl' = [upl EXCEPT ![u] = NoUpload]
  BY <1>8, <1>9, UploadRests
<1>10. CASE "audit" \in tapeMay /\ upl' = [upl EXCEPT ![u].at = "undo"]
  <2>1. PICK q : q = [at |-> "undo", body |-> b, scratch |-> s, target |-> t]
    OBVIOUS
  <2>2. /\ upl'[u] = q /\ upl' = [v \in Uploader |-> upl'[v]]
        /\ \A v \in Uploader : v # u => upl'[v] = upl[v]
    BY <1>1, <1>10, <2>1, UploadMoves
  <2>3. /\ q = [at |-> q.at, body |-> q.body, scratch |-> q.scratch, target |-> q.target]
        /\ q.at = "undo" /\ q.body = b /\ q.scratch = s /\ q.target = t
    BY <2>1
  <2>4. "delete" \notin tapeMay'
    BY <1>2, <1>10 DEF TapesInv
  <2>5. UploadOK(u, q)'
    BY <1>2, <1>4, <2>3, <2>4 DEF UploadOK
  <2>6. QED
    BY <1>8, <2>2, <2>3, <2>5
<1>11. QED
  BY <1>1, <1>9, <1>10 DEF AuditTape

\* Undoing removes the row, and the bytes only where no row names them.
LEMMA UndoKeeps ==
  ASSUME TapesInv, OneNameEach, NEW u \in Uploader, UndoUpload(u)
  PROVE  TapesInv'
<1>1. PICK p, b, t : p = upl[u] /\ b = p.body /\ t = p.target
  OBVIOUS
<1>2. /\ p.at = "undo" /\ upl' = [upl EXCEPT ![u] = NoUpload]
      /\ UNCHANGED <<tapeMay, tapeScratch, tapeRows, tapeSet, tapeEver, tapeUploads, del, arc, arcDir, arcRows>>
  BY <1>1 DEF UndoUpload, tapeFacts, arcVars
<1>3. UploadOK(u, p)
  BY <1>1 DEF TapesInv
<1>4. /\ b \in 1 .. tapeUploads /\ t \in Path /\ t[1] = Wants[u]
      /\ "delete" \in tapeMay => tapeFile[t] = b /\ b \notin tapeEver
  BY <1>1, <1>2, <1>3 DEF UploadOK
<1>5. /\ tapeUploads \in Nat /\ b # NoBody /\ NoBody \in 0 .. MaxUploads
      /\ tapeFile \in [Path -> 0 .. MaxUploads] /\ NoBody <= tapeUploads
  BY <1>4, TapeBounds DEF TapesInv, TapesTypes, NoBody
<1>6. \A v \in Uploader : v # u /\ upl[v].at # "idle" => upl[v].body # b
  BY <1>1, <1>2 DEF TapesInv, BodiesApart
<1>7. /\ upl' = [v \in Uploader |-> upl'[v]] /\ \A v \in Uploader : v # u => upl'[v] = upl[v]
      /\ upl'[u].at = "idle" /\ UploadOK(u, upl[u])'
  BY <1>2, UploadRests
<1>8. CASE UNCHANGED tapeFile
  <2>1. Touches(u, b)
    BY <1>2, <1>5, <1>6, <1>7, <1>8 DEF Touches
  <2>2. TapesTypes'
    BY <1>2, <1>7, <1>8 DEF TapesInv, TapesTypes
  <2>3. FilesOK' /\ TapeRowsOK'
    BY <1>2, <1>8 DEF TapesInv, FilesOK, TapeRowsOK
  <2>4. QED
    BY <1>5, <1>7, <2>1, <2>2, <2>3, UploadStep
<1>9. CASE ~ RowNames(t) /\ tapeFile' = [tapeFile EXCEPT ![t] = NoBody]
  <2>1. /\ tapeFile' \in [Path -> 0 .. MaxUploads] /\ tapeFile'[t] = NoBody
        /\ \A x \in Path : x # t => tapeFile'[x] = tapeFile[x]
    BY <1>4, <1>5, <1>9
  <2>2. \A r \in tapeRows : r.path # t /\ r.path \in Path
    BY <1>9 DEF RowNames, TapesInv, TapesTypes, TapeRec
  <2>3. \A r \in tapeRows : tapeFile'[r.path] = tapeFile[r.path]
    BY <2>1, <2>2
  <2>4. Touches(u, b)
    BY <1>2, <1>4, <1>5, <1>6, <1>7, <2>1, <2>3 DEF Touches
  <2>5. TapesTypes'
    BY <1>2, <1>7, <2>1 DEF TapesInv, TapesTypes
  <2>6. FilesOK' /\ TapeRowsOK'
    <3>1. FilesOK'
      BY <1>2, <1>5, <2>1 DEF TapesInv, FilesOK
    <3>2. TapeRowsOK'
      BY <1>2, <2>3 DEF TapesInv, TapeRowsOK
    <3>3. QED
      BY <3>1, <3>2
  <2>7. QED
    BY <1>5, <1>7, <2>4, <2>5, <2>6, UploadStep
<1>10. QED
  BY <1>1, <1>8, <1>9 DEF UndoUpload

\* A step of a deletion that changes nothing but what it has left to do.
LEMMA DeleteMoves ==
  ASSUME TapesInv, OneDeleter, NEW d \in Deleter, NEW p, DeleteOK(p), del' = [del EXCEPT ![d] = p],
         UNCHANGED <<tapeMay, tapeFile, tapeScratch, tapeRows, tapeSet, tapeEver, tapeUploads, upl, arc, arcDir, arcRows>>
  PROVE  TapesInv'
<1>1. del'[d] = p /\ del' = [x \in Deleter |-> del'[x]]
  BY DEF TapesInv, TapesTypes
<1>2. \A x \in Deleter : del'[x] = p
  BY <1>1 DEF OneDeleter
<1>3. DeleteOK(p)'
  BY DEF DeleteOK, Verifies
<1>4. \A x \in Deleter : DeleteOK(del[x])'
  BY <1>2, <1>3
<1>5. TapesTypes'
  BY <1>1 DEF TapesInv, TapesTypes
<1>6. \A u \in Uploader : UploadOK(u, upl[u])'
  BY DEF TapesInv, UploadOK
<1>7. BodiesApart' /\ FilesOK' /\ TapeRowsOK' /\ DirsApart'
  BY DEF TapesInv, BodiesApart, FilesOK, TapeRowsOK, DirsApart
<1>8. \A a \in Archiver : ArchiveOK(arc[a])'
  BY DEF TapesInv, ArchiveOK
<1>9. RecordedTapesAreKept' /\ ArchivesStayWhole'
  BY DEF TapesInv, RecordedTapesAreKept, ArchivesStayWhole, Named, Verifies
<1>10. QED
  BY <1>4, <1>5, <1>6, <1>7, <1>8, <1>9 DEF TapesInv

\* A deletion at rest is as it should be.
LEMMA RestingDelete == ASSUME NEW p, p = NoDelete PROVE DeleteOK(p)
BY DEF NoDelete, DeleteOK

\* What a deletion reads is what is recorded.
LEMMA ReadBatchKeeps ==
  ASSUME TapesInv, OneDeleter, NEW d \in Deleter, ReadBatch(d)
  PROVE  TapesInv'
<1>1. PICK batch \in Batches : del' = [del EXCEPT ![d] = [NoDelete EXCEPT !.at = "check", !.batch = batch]]
  BY DEF ReadBatch
<1>2. /\ "delete" \in tapeMay
      /\ UNCHANGED <<tapeMay, tapeFile, tapeScratch, tapeRows, tapeSet, tapeEver, tapeUploads, upl, arc, arcDir, arcRows>>
  BY DEF ReadBatch, tapeFacts, arcVars
<1>3. batch \subseteq tapeRows
  BY DEF Batches
<1>4. PICK n : n = NoDelete
  OBVIOUS
<1>5. n = [at |-> "idle", batch |-> {}, path |-> <<>>]
  BY <1>4 DEF NoDelete
<1>6. PICK p : p = [n EXCEPT !.at = "check", !.batch = batch]
  OBVIOUS
<1>7. p = [at |-> "check", batch |-> batch, path |-> <<>>]
  BY ONLY <1>5, <1>6
<1>8. DeleteOK(p)
  BY <1>2, <1>3, <1>7 DEF DeleteOK
<1>9. del' = [del EXCEPT ![d] = p]
  BY <1>1, <1>4, <1>6
<1>10. QED
  BY <1>2, <1>8, <1>9, DeleteMoves

\* What it removes has a copy in an archive that reads whole.
LEMMA CheckBatchKeeps ==
  ASSUME TapesInv, OneDeleter, NEW d \in Deleter, CheckBatch(d)
  PROVE  TapesInv'
<1>1. PICK p : p = del[d]
  OBVIOUS
<1>2. /\ p.at = "check"
      /\ UNCHANGED <<tapeMay, tapeFile, tapeScratch, tapeRows, tapeSet, tapeEver, tapeUploads, upl, arc, arcDir, arcRows>>
  BY <1>1 DEF CheckBatch, tapeFacts, arcVars
<1>3. DeleteOK(p)
  BY <1>1 DEF TapesInv
<1>4. "delete" \in tapeMay /\ p.batch \subseteq tapeRows /\ p = [at |-> p.at, batch |-> p.batch, path |-> p.path]
  BY <1>2, <1>3 DEF DeleteOK
<1>5. CASE Licensed({r.path : r \in p.batch})
  <2>1. PICK q : q = [p EXCEPT !.at = "forget"]
    OBVIOUS
  <2>2. del' = [del EXCEPT ![d] = q]
    BY <1>1, <1>5, <2>1 DEF CheckBatch
  <2>3. q = [at |-> "forget", batch |-> p.batch, path |-> p.path]
    <3>1. PICK a, b, t : p = [at |-> a, batch |-> b, path |-> t]
      BY <1>4
    <3>2. QED
      BY ONLY <2>1, <3>1
  <2>4. PICK e \in arcRows : Verifies(e) /\ Covers(e, {r.path : r \in p.batch})
    BY <1>5 DEF Licensed
  <2>5. \A r \in p.batch : r.body \in arcDir[e].copies
    <3>1. SUFFICES ASSUME NEW r \in p.batch PROVE r.body \in arcDir[e].copies
      OBVIOUS
    <3>2. tapeFile[r.path] = NoBody \/ tapeFile[r.path] \in arcDir[e].copies
      BY <2>4 DEF Covers
    <3>3. r \in tapeRows /\ tapeFile[r.path] = r.body
      BY <1>4 DEF TapesInv, TapeRowsOK
    <3>4. r.body # NoBody
      BY <3>3 DEF TapesInv, TapesTypes, TapeRec, Body, NoBody
    <3>5. QED
      BY <3>2, <3>3, <3>4
  <2>6. DeleteOK(q)
    BY <1>4, <2>3, <2>4, <2>5 DEF DeleteOK
  <2>7. QED
    BY <1>2, <2>2, <2>6, DeleteMoves
<1>6. CASE ~ Licensed({r.path : r \in p.batch})
  <2>1. PICK q : q = NoDelete
    OBVIOUS
  <2>2. del' = [del EXCEPT ![d] = q]
    BY <1>1, <1>6, <2>1 DEF CheckBatch
  <2>3. QED
    BY <1>2, <2>1, <2>2, RestingDelete, DeleteMoves
<1>7. QED
  BY <1>5, <1>6

\* The row of a tape goes before its file: its body is in the archive that
\* licensed the deletion.
LEMMA ForgetTapeKeeps ==
  ASSUME TapesInv, OneDeleter, NEW d \in Deleter, ForgetTape(d)
  PROVE  TapesInv'
<1>1. PICK p : p = del[d]
  OBVIOUS
<1>2. /\ p.at = "forget"
      /\ UNCHANGED <<tapeMay, tapeFile, tapeScratch, tapeEver, tapeUploads, upl, arc, arcDir, arcRows>>
  BY <1>1 DEF ForgetTape, arcVars
<1>3. DeleteOK(p)
  BY <1>1 DEF TapesInv
<1>4. PICK e \in arcRows : Verifies(e) /\ \A r \in p.batch : r.body \in arcDir[e].copies
  BY <1>2, <1>3 DEF DeleteOK
<1>5. "delete" \in tapeMay /\ p.batch \subseteq tapeRows
  BY <1>2, <1>3 DEF DeleteOK
<1>6. PICK r \in p.batch :
        IF \E row \in tapeRows : row.id = r.id
        THEN \E row \in tapeRows :
               /\ row.id = r.id
               /\ tapeRows' = tapeRows \ {row}
               /\ tapeSet' = tapeSet \ {row.path}
               /\ del' = [del EXCEPT ![d] =
                    [at |-> "unlink", batch |-> @.batch \ {r}, path |-> row.path]]
        ELSE /\ del' = [del EXCEPT ![d] = NoDelete]
             /\ UNCHANGED <<tapeRows, tapeSet>>
  BY <1>1 DEF ForgetTape
<1>7. r \in tapeRows
  BY <1>5
<1>8. PICK q : q = [at |-> "unlink", batch |-> p.batch \ {r}, path |-> r.path]
  OBVIOUS
<1>9. tapeRows' = tapeRows \ {r} /\ tapeSet' = tapeSet \ {r.path} /\ del' = [del EXCEPT ![d] = q]
  <2>1. PICK row \in tapeRows :
               /\ row.id = r.id
               /\ tapeRows' = tapeRows \ {row}
               /\ tapeSet' = tapeSet \ {row.path}
               /\ del' = [del EXCEPT ![d] =
                    [at |-> "unlink", batch |-> del[d].batch \ {r}, path |-> row.path]]
    BY <1>6, <1>7
  <2>2. row = r
    BY <1>7, <2>1 DEF TapesInv, TapeRowsOK
  <2>3. QED
    BY <1>1, <1>8, <2>1, <2>2
<1>10. del'[d] = q /\ del' = [x \in Deleter |-> del'[x]] /\ \A x \in Deleter : del'[x] = q
  BY <1>9 DEF TapesInv, TapesTypes, OneDeleter
<1>11. /\ r.path \in Path /\ tapeFile[r.path] = r.body /\ r.body \in tapeEver
       /\ r.body # NoBody
  BY <1>7 DEF TapesInv, TapeRowsOK, TapesTypes, TapeRec, Body, NoBody
<1>12. \A x \in tapeRows : x # r => x.path # r.path
  <2>1. SUFFICES ASSUME NEW x \in tapeRows, x.path = r.path PROVE x = r
    OBVIOUS
  <2>2. x.body = tapeFile[x.path]
    BY DEF TapesInv, TapeRowsOK
  <2>3. x.body = r.body
    BY <1>11, <2>1, <2>2
  <2>4. QED
    BY <1>7, <2>3 DEF TapesInv, TapeRowsOK
<1>13. DeleteOK(q)'
  <2>1. /\ q = [at |-> q.at, batch |-> q.batch, path |-> q.path]
        /\ q.at = "unlink" /\ q.batch = p.batch \ {r} /\ q.path = r.path
    BY <1>8
  <2>2. q.batch \subseteq tapeRows'
    BY <1>5, <1>9, <2>1
  <2>3. \E f \in arcRows' : Verifies(f)' /\ \A x \in q.batch : x.body \in arcDir'[f].copies
    BY <1>2, <1>4, <2>1 DEF Verifies
  <2>4. q.path \in Path /\ tapeFile'[q.path] \in tapeEver' /\ \A x \in tapeRows' : x.path # q.path
    BY <1>2, <1>9, <1>11, <1>12, <2>1
  <2>5. QED
    BY <1>2, <1>5, <2>1, <2>2, <2>3, <2>4 DEF DeleteOK
<1>14. \A x \in Deleter : DeleteOK(del[x])'
  BY <1>10, <1>13
<1>15. TapesTypes'
  BY <1>2, <1>9, <1>10 DEF TapesInv, TapesTypes
<1>16. \A u \in Uploader : UploadOK(u, upl[u])'
  BY <1>2 DEF TapesInv, UploadOK
<1>17. BodiesApart' /\ FilesOK' /\ DirsApart'
  BY <1>2 DEF TapesInv, BodiesApart, FilesOK, DirsApart
<1>18. TapeRowsOK'
  <2>1. /\ \A x \in tapeRows : x.body \in tapeEver /\ tapeFile[x.path] = x.body /\ x.id <= Cardinality(tapeEver)
        /\ \A x, y \in tapeRows : x.id = y.id \/ x.body = y.body => x = y
        /\ tapeSet = {x.path : x \in tapeRows}
    BY DEF TapesInv, TapeRowsOK
  <2>2. tapeSet' = {x.path : x \in tapeRows'}
    BY <1>9, <1>12, <2>1
  <2>3. PICK c : c = Cardinality(tapeEver)
    OBVIOUS
  <2>4. \A x \in tapeRows' : x.body \in tapeEver' /\ tapeFile'[x.path] = x.body /\ x.id <= c
    BY <1>2, <1>9, <2>1, <2>3
  <2>5. c = Cardinality(tapeEver')
    BY <1>2, <2>3
  <2>6. \A x, y \in tapeRows' : x.id = y.id \/ x.body = y.body => x = y
    BY <1>9, <2>1
  <2>7. QED
    BY <2>2, <2>4, <2>5, <2>6 DEF TapeRowsOK
<1>19. \A a \in Archiver : ArchiveOK(arc[a])'
  BY <1>2 DEF TapesInv, ArchiveOK
<1>20. ArchivesStayWhole'
  BY <1>2 DEF TapesInv, ArchivesStayWhole
<1>21. RecordedTapesAreKept'
  <2>1. SUFFICES ASSUME NEW b \in tapeEver
                 PROVE  (Named(b) \/ \E f \in arcRows : Verifies(f) /\ b \in arcDir[f].copies)'
    BY <1>2 DEF RecordedTapesAreKept
  <2>2. CASE b = r.body
    BY <1>2, <1>4, <2>2 DEF Verifies
  <2>3. CASE b # r.body /\ Named(b)
    BY <1>2, <1>9, <2>3 DEF Named
  <2>4. CASE \E f \in arcRows : Verifies(f) /\ b \in arcDir[f].copies
    BY <1>2, <2>4 DEF Verifies
  <2>5. QED
    BY <2>2, <2>3, <2>4 DEF TapesInv, RecordedTapesAreKept
<1>22. "delete" \in tapeMay' => "audit" \notin tapeMay'
  BY <1>2 DEF TapesInv
<1>23. QED
  BY <1>14, <1>15, <1>16, <1>17, <1>18, <1>19, <1>20, <1>21, <1>22 DEF TapesInv

\* The file that goes is no row's any more, and no upload's target.
LEMMA UnlinkTapeKeeps ==
  ASSUME TapesInv, OneDeleter, NEW d \in Deleter, UnlinkTape(d)
  PROVE  TapesInv'
<1>1. PICK p : p = del[d]
  OBVIOUS
<1>2. /\ p.at = "unlink"
      /\ UNCHANGED <<tapeMay, tapeScratch, tapeRows, tapeSet, tapeEver, tapeUploads, upl, arc, arcDir, arcRows>>
  BY <1>1 DEF UnlinkTape, tapeFacts, arcVars
<1>3. DeleteOK(p)
  BY <1>1 DEF TapesInv
<1>4. PICK e \in arcRows : Verifies(e) /\ \A r \in p.batch : r.body \in arcDir[e].copies
  BY <1>2, <1>3 DEF DeleteOK
<1>5. /\ "delete" \in tapeMay /\ p.batch \subseteq tapeRows /\ p.path \in Path
      /\ tapeFile[p.path] \in tapeEver /\ \A r \in tapeRows : r.path # p.path
      /\ p = [at |-> p.at, batch |-> p.batch, path |-> p.path]
  BY <1>2, <1>3 DEF DeleteOK
<1>6. PICK n : n = NoDelete
  OBVIOUS
<1>7. DeleteOK(n) /\ n.at = "idle" /\ n = [at |-> n.at, batch |-> n.batch, path |-> n.path]
  BY <1>6, RestingDelete DEF NoDelete
<1>8. CASE del' = [del EXCEPT ![d] = n] /\ UNCHANGED tapeFile
  BY <1>2, <1>7, <1>8, DeleteMoves
<1>9. CASE /\ tapeFile' = [tapeFile EXCEPT ![p.path] = NoBody]
           /\ del' = [del EXCEPT ![d] = IF p.batch = {} THEN n
                                        ELSE [p EXCEPT !.at = "forget", !.path = <<>>]]
  <2>1. /\ tapeFile' \in [Path -> 0 .. MaxUploads] /\ tapeFile'[p.path] = NoBody
        /\ \A x \in Path : x # p.path => tapeFile'[x] = tapeFile[x]
    BY <1>5, <1>9, TapeBounds DEF TapesInv, TapesTypes, NoBody
  <2>2. PICK q : q = IF p.batch = {} THEN n ELSE [p EXCEPT !.at = "forget", !.path = <<>>]
    OBVIOUS
  <2>3. q = n \/ q = [at |-> "forget", batch |-> p.batch, path |-> <<>>]
    <3>1. PICK a, b, t : p = [at |-> a, batch |-> b, path |-> t]
      BY <1>5
    <3>2. QED
      BY ONLY <2>2, <3>1
  <2>4. DeleteOK(q)'
    <3>1. CASE q = n
      BY <1>7, <3>1 DEF DeleteOK
    <3>2. CASE q = [at |-> "forget", batch |-> p.batch, path |-> <<>>]
      <4>1. /\ q = [at |-> q.at, batch |-> q.batch, path |-> q.path]
            /\ q.at = "forget" /\ q.batch = p.batch
        BY <3>2
      <4>2. \E f \in arcRows' : Verifies(f)' /\ \A x \in q.batch : x.body \in arcDir'[f].copies
        BY <1>2, <1>4, <4>1 DEF Verifies
      <4>3. QED
        BY <1>2, <1>5, <4>1, <4>2 DEF DeleteOK
    <3>3. QED
      BY <2>3, <3>1, <3>2
  <2>5. del'[d] = q /\ del' = [x \in Deleter |-> del'[x]] /\ \A x \in Deleter : del'[x] = q
    BY <1>9, <2>2 DEF TapesInv, TapesTypes, OneDeleter
  <2>6. \A x \in Deleter : DeleteOK(del[x])'
    BY <2>4, <2>5
  <2>7. TapesTypes'
    BY <1>2, <2>1, <2>5 DEF TapesInv, TapesTypes
  <2>8. \A r \in tapeRows : r.path \in Path /\ tapeFile'[r.path] = tapeFile[r.path]
    <3>1. \A r \in tapeRows : r.path \in Path
      BY DEF TapesInv, TapesTypes, TapeRec
    <3>2. QED
      BY <1>5, <2>1, <3>1
  <2>9. ASSUME NEW u \in Uploader PROVE UploadOK(u, upl[u])'
    <3>1. PICK v : v = upl[u] /\ UploadOK(u, v)
      BY DEF TapesInv
    <3>2. /\ v = [at |-> v.at, body |-> v.body, scratch |-> v.scratch, target |-> v.target]
          /\ v.at \in {"idle", "open", "copy", "record", "audit", "undo"}
          /\ v.at # "idle" => /\ v.body \in 1 .. tapeUploads' /\ v.scratch \in Scratch
                              /\ v.target \in Path /\ v.target[1] = Wants[u]
      BY <1>2, <3>1 DEF UploadOK
    <3>3. v.at \in {"open", "copy"} =>
            tapeFile'[v.target] = NoBody /\ v.body \notin tapeEver' /\ \A q1 \in Path : tapeFile'[q1] # v.body
      <4>1. SUFFICES ASSUME v.at \in {"open", "copy"}
                     PROVE  /\ tapeFile'[v.target] = NoBody /\ v.body \notin tapeEver'
                            /\ \A q1 \in Path : tapeFile'[q1] # v.body
        OBVIOUS
      <4>2. /\ tapeFile[v.target] = NoBody /\ v.body \notin tapeEver /\ \A q1 \in Path : tapeFile[q1] # v.body
            /\ v.target \in Path /\ v.body # NoBody
        BY <3>1, <4>1 DEF UploadOK, NoBody
      <4>3. QED
        BY <1>2, <2>1, <4>2
    <3>4. v.at = "copy" => tapeScratch'[v.scratch] = v.body
      BY <1>2, <3>1 DEF UploadOK
    <3>5. v.at = "record" \/ (v.at = "undo" /\ "delete" \in tapeMay') =>
            tapeFile'[v.target] = v.body /\ v.body \notin tapeEver'
      <4>1. SUFFICES ASSUME v.at = "record" \/ (v.at = "undo" /\ "delete" \in tapeMay')
                     PROVE  tapeFile'[v.target] = v.body /\ v.body \notin tapeEver'
        OBVIOUS
      <4>2. tapeFile[v.target] = v.body /\ v.body \notin tapeEver /\ v.target \in Path
        BY <1>2, <3>1, <4>1 DEF UploadOK
      <4>3. v.target # p.path
        BY <1>5, <4>2
      <4>4. QED
        BY <1>2, <2>1, <4>2, <4>3
    <3>6. UploadOK(u, v)'
      BY <3>2, <3>3, <3>4, <3>5 DEF UploadOK
    <3>7. QED
      BY <1>2, <3>1, <3>6
  <2>10. BodiesApart' /\ DirsApart'
    BY <1>2 DEF TapesInv, BodiesApart, DirsApart
  <2>11. FilesOK'
    <3>1. tapeUploads \in Nat /\ NoBody <= tapeUploads
      BY DEF TapesInv, TapesTypes, NoBody
    <3>2. QED
      BY <1>2, <2>1, <3>1 DEF TapesInv, FilesOK
  <2>12. TapeRowsOK'
    BY <1>2, <2>8 DEF TapesInv, TapeRowsOK
  <2>13. \A a \in Archiver : ArchiveOK(arc[a])'
    BY <1>2 DEF TapesInv, ArchiveOK
  <2>14. ArchivesStayWhole'
    BY <1>2 DEF TapesInv, ArchivesStayWhole
  <2>15. RecordedTapesAreKept'
    <3>1. SUFFICES ASSUME NEW b \in tapeEver
                   PROVE  (Named(b) \/ \E f \in arcRows : Verifies(f) /\ b \in arcDir[f].copies)'
      BY <1>2 DEF RecordedTapesAreKept
    <3>2. CASE Named(b)
      BY <1>2, <2>8, <3>2 DEF Named
    <3>3. CASE \E f \in arcRows : Verifies(f) /\ b \in arcDir[f].copies
      BY <1>2, <3>3 DEF Verifies
    <3>4. QED
      BY <3>2, <3>3 DEF TapesInv, RecordedTapesAreKept
  <2>16. "delete" \in tapeMay' => "audit" \notin tapeMay'
    BY <1>2 DEF TapesInv
  <2>17. QED
    BY <2>6, <2>7, <2>9, <2>10, <2>11, <2>12, <2>13, <2>14, <2>15, <2>16 DEF TapesInv
<1>10. QED
  BY <1>1, <1>6, <1>8, <1>9 DEF UnlinkTape

\* A step of one archive keeps what is so of the tapes, if it keeps what is
\* so of that one and leaves the directories of the others.
LEMMA ArchiveStep ==
  ASSUME TapesInv, NEW a \in Archiver, Archives(a), ArchiveOK(arc[a])'
  PROVE  TapesInv'
<1>1. UNCHANGED <<tapeMay, tapeFile, tapeScratch, tapeRows, tapeSet, tapeEver, tapeUploads, upl, del>>
  BY DEF Archives
<1>2. TapesTypes'
  BY <1>1 DEF TapesInv, TapesTypes, Archives
<1>3. \A u \in Uploader : UploadOK(u, upl[u])'
  BY <1>1 DEF TapesInv, UploadOK
<1>4. BodiesApart' /\ FilesOK' /\ TapeRowsOK'
  BY <1>1 DEF TapesInv, BodiesApart, FilesOK, TapeRowsOK
<1>5. arcRows \subseteq arcRows' /\ \A f \in arcRows : arcDir'[f] = arcDir[f]
  BY DEF Archives
<1>6. ASSUME NEW d \in Deleter PROVE DeleteOK(del[d])'
  <2>1. PICK p : p = del[d] /\ DeleteOK(p)
    BY DEF TapesInv
  <2>2. p.at \in {"forget", "unlink"} =>
         \E e \in arcRows' : Verifies(e)' /\ \A r \in p.batch : r.body \in arcDir'[e].copies
    BY <1>5, <2>1 DEF DeleteOK, Verifies
  <2>3. DeleteOK(p)'
    BY <1>1, <2>1, <2>2 DEF DeleteOK
  <2>4. QED
    BY <1>1, <2>1, <2>3
<1>7. ASSUME NEW x \in Archiver PROVE ArchiveOK(arc[x])'
  <2>1. CASE x = a
    BY <2>1
  <2>2. CASE x # a
    <3>1. PICK p : p = arc[x] /\ ArchiveOK(p)
      BY DEF TapesInv
    <3>2. arc'[x] = p
      BY <2>2, <3>1 DEF Archives
    <3>3. p.at \in {"copy", "add"} => arcDir'[p.dir] = arcDir[p.dir] /\ p.dir \notin arcRows'
      BY <2>2, <3>1 DEF Archives
    <3>4. ArchiveOK(p)'
      BY <3>1, <3>3 DEF ArchiveOK
    <3>5. QED
      BY <3>2, <3>4
  <2>3. QED
    BY <2>1, <2>2
<1>8. DirsApart'
  <2>1. SUFFICES ASSUME NEW x \in Archiver, NEW y \in Archiver, x # y,
                        arc'[x].at \in {"copy", "add"}, arc'[y].at \in {"copy", "add"}
                 PROVE  arc'[x].dir # arc'[y].dir
    BY DEF DirsApart
  <2>2. CASE x = a
    BY <2>1, <2>2 DEF Archives
  <2>3. CASE y = a
    BY <2>1, <2>3 DEF Archives
  <2>4. CASE x # a /\ y # a
    BY <2>1, <2>4 DEF Archives, TapesInv, DirsApart
  <2>5. QED
    BY <2>2, <2>3, <2>4
<1>9. ArchivesStayWhole'
  BY DEF TapesInv, ArchivesStayWhole, Archives
<1>10. RecordedTapesAreKept'
  <2>1. SUFFICES ASSUME NEW b \in tapeEver
                 PROVE  (Named(b) \/ \E f \in arcRows : Verifies(f) /\ b \in arcDir[f].copies)'
    BY <1>1 DEF RecordedTapesAreKept
  <2>2. CASE Named(b)
    BY <1>1, <2>2 DEF Named
  <2>3. CASE \E f \in arcRows : Verifies(f) /\ b \in arcDir[f].copies
    BY <1>5, <2>3 DEF Verifies
  <2>4. QED
    BY <2>2, <2>3 DEF TapesInv, RecordedTapesAreKept
<1>11. "delete" \in tapeMay' => "audit" \notin tapeMay'
  BY <1>1 DEF TapesInv
<1>12. QED
  BY <1>2, <1>3, <1>4, <1>6, <1>7, <1>8, <1>9, <1>10, <1>11 DEF TapesInv

\* One archiver moves and the others stay.
LEMMA ArchiveMoves ==
  ASSUME TapesInv, NEW a \in Archiver, NEW p, arc' = [arc EXCEPT ![a] = p]
  PROVE  /\ arc'[a] = p /\ arc' = [x \in Archiver |-> arc'[x]]
         /\ \A x \in Archiver : x # a => arc'[x] = arc[x]
BY DEF TapesInv, TapesTypes

\* A step of an archiver that changes no directory and no row.
LEMMA ArchiverOnly ==
  ASSUME TapesInv, NEW a \in Archiver, NEW p, arc' = [arc EXCEPT ![a] = p], ArchiveOK(p),
         p.at \in {"copy", "add"} => p.dir = arc[a].dir /\ arc[a].at \in {"copy", "add"},
         UNCHANGED <<tapeMay, tapeFile, tapeScratch, tapeRows, tapeSet, tapeEver, tapeUploads, upl, del, arcDir, arcRows>>
  PROVE  TapesInv'
<1>1. /\ arc'[a] = p /\ arc' = [x \in Archiver |-> arc'[x]]
      /\ \A x \in Archiver : x # a => arc'[x] = arc[x]
  BY ArchiveMoves
<1>2. ArchiveOK(arc[a])'
  BY <1>1 DEF ArchiveOK
<1>3. arcDir \in [Dir -> DirRec] /\ arcRows \subseteq Dir
  BY DEF TapesInv, TapesTypes
<1>4. \A x \in Archiver : arc[x].at \in {"copy", "add"} => arc[x].dir \notin arcRows
  BY DEF TapesInv, ArchiveOK
<1>5. p.at \in {"copy", "add"} =>
        \A x \in Archiver : x # a /\ arc[x].at \in {"copy", "add"} => arc[x].dir # p.dir
  BY DEF TapesInv, DirsApart
<1>6. Archives(a)
  BY <1>1, <1>3, <1>4, <1>5 DEF Archives
<1>7. QED
  BY <1>2, <1>6, ArchiveStep

\* So is an archive at rest.
LEMMA RestingArchive == ASSUME NEW p, p = NoArchive PROVE ArchiveOK(p) /\ p.at = "idle"
BY DEF NoArchive, ArchiveOK

\* The directory an archive takes is one of the names it has.
LEMMA FreeDirIsFree == FreeDirs # {} => Min(FreeDirs) \in Dir
<1>1. FreeDirs \in SUBSET Nat
  BY TapeBounds DEF FreeDirs, Dir
<1>2. QED
  BY <1>1, LeastIsMin DEF FreeDirs

\* An archive that begins has a directory of its own.
LEMMA BeginArchiveKeeps ==
  ASSUME TapesInv, NEW a \in Archiver, BeginArchive(a)
  PROVE  TapesInv'
<1>1. PICK p : p = [at |-> "mkdir", dir |-> Min(FreeDirs), todo |-> tapeSet]
  OBVIOUS
<1>2. tapeSet \subseteq Path
  BY TapesInvGives DEF TapesTypeOK
<1>3. Min(FreeDirs) \in Dir
  BY FreeDirIsFree DEF BeginArchive
<1>4. ArchiveOK(p) /\ p.at = "mkdir"
  BY <1>1, <1>2, <1>3 DEF ArchiveOK
<1>5. /\ arc' = [arc EXCEPT ![a] = p]
      /\ UNCHANGED <<tapeMay, tapeFile, tapeScratch, tapeRows, tapeSet, tapeEver, tapeUploads, upl, del, arcDir, arcRows>>
  BY <1>1 DEF BeginArchive, tapeFacts
<1>6. QED
  BY <1>4, <1>5, ArchiverOnly

\* A directory that is made is new.
LEMMA MakeDirKeeps ==
  ASSUME TapesInv, NEW a \in Archiver, MakeDir(a)
  PROVE  TapesInv'
<1>1. PICK p, f : p = arc[a] /\ f = p.dir
  OBVIOUS
<1>2. /\ p.at = "mkdir"
      /\ UNCHANGED <<tapeMay, tapeFile, tapeScratch, tapeRows, tapeSet, tapeEver, tapeUploads, upl, del, arcRows>>
  BY <1>1 DEF MakeDir, tapeFacts
<1>3. ArchiveOK(p)
  BY <1>1 DEF TapesInv
<1>4. p = [at |-> p.at, dir |-> p.dir, todo |-> p.todo] /\ f \in Dir /\ p.todo \subseteq Path
  BY <1>1, <1>2, <1>3 DEF ArchiveOK
<1>5. PICK at, di, to : p = [at |-> at, dir |-> di, todo |-> to]
  BY <1>4
<1>6. CASE /\ ~ arcDir[f].exists
           /\ arcDir' = [arcDir EXCEPT ![f] = [NoDir EXCEPT !.exists = TRUE]]
           /\ arc' = [arc EXCEPT ![a] = [p EXCEPT !.at = "copy"]]
  <2>1. PICK q : q = [p EXCEPT !.at = "copy"]
    OBVIOUS
  <2>2. q = [at |-> "copy", dir |-> di, todo |-> to]
    BY ONLY <1>5, <2>1
  <2>3. q.at = "copy" /\ q.dir = f /\ q.todo = p.todo /\ q = [at |-> q.at, dir |-> q.dir, todo |-> q.todo]
    BY <1>1, <1>5, <2>2
  <2>4. PICK n : n = NoDir
    OBVIOUS
  <2>5. n = [exists |-> FALSE, copies |-> {}, sealed |-> FALSE, damaged |-> FALSE]
    BY <2>4 DEF NoDir
  <2>6. PICK g : g = [n EXCEPT !.exists = TRUE]
    OBVIOUS
  <2>7. g = [exists |-> TRUE, copies |-> {}, sealed |-> FALSE, damaged |-> FALSE]
    BY ONLY <2>5, <2>6
  <2>8. g \in DirRec /\ g.exists
    BY <2>7 DEF DirRec
  <2>9. arcDir' \in [Dir -> DirRec] /\ arcDir'[f] = g /\ \A x \in Dir : x # f => arcDir'[x] = arcDir[x]
    BY <1>4, <1>6, <2>4, <2>6, <2>8 DEF TapesInv, TapesTypes
  <2>10. f \notin arcRows
    BY <1>6 DEF TapesInv, ArchivesStayWhole
  <2>11. \A x \in Archiver : arc[x].at \in {"copy", "add"} =>
            arc[x].dir \in Dir /\ arc[x].dir # f /\ arc[x].dir \notin arcRows
    BY <1>6 DEF TapesInv, ArchiveOK
  <2>12. /\ arc'[a] = q /\ arc' = [x \in Archiver |-> arc'[x]]
         /\ \A x \in Archiver : x # a => arc'[x] = arc[x]
    BY <1>6, <2>1, ArchiveMoves
  <2>13. ArchiveOK(q)'
    BY <1>2, <1>4, <2>3, <2>8, <2>9, <2>10 DEF ArchiveOK
  <2>14. arcRows \subseteq Dir
    BY DEF TapesInv, TapesTypes
  <2>15. Archives(a)
    BY <1>2, <2>3, <2>9, <2>10, <2>11, <2>12, <2>14 DEF Archives
  <2>16. QED
    BY <2>12, <2>13, <2>15, ArchiveStep
<1>7. CASE /\ arc' = [arc EXCEPT ![a] = IF FreeDirs = {} THEN NoArchive
                                        ELSE [p EXCEPT !.dir = Min(FreeDirs)]]
           /\ UNCHANGED arcDir
  <2>1. PICK m, q, n : m = Min(FreeDirs) /\ n = NoArchive /\ q = IF FreeDirs = {} THEN n ELSE [p EXCEPT !.dir = m]
    OBVIOUS
  <2>2. arc' = [arc EXCEPT ![a] = q]
    BY <1>7, <2>1
  <2>3. CASE FreeDirs = {}
    BY <1>2, <1>7, <2>1, <2>2, <2>3, RestingArchive, ArchiverOnly
  <2>4. CASE FreeDirs # {}
    <3>1. m \in Dir
      BY <2>1, <2>4, FreeDirIsFree
    <3>2. q = [at |-> at, dir |-> m, todo |-> to]
      BY ONLY <1>5, <2>1, <2>4
    <3>3. ArchiveOK(q) /\ q.at = "mkdir"
      BY <1>2, <1>4, <1>5, <3>1, <3>2 DEF ArchiveOK
    <3>4. QED
      BY <1>2, <1>7, <2>2, <3>3, ArchiverOnly
  <2>5. QED
    BY <2>3, <2>4
<1>8. CASE arc' = [arc EXCEPT ![a] = NoArchive] /\ UNCHANGED arcDir
  <2>1. PICK n : n = NoArchive
    OBVIOUS
  <2>2. QED
    BY <1>2, <1>8, <2>1, RestingArchive, ArchiverOnly
<1>9. arc' = [arc EXCEPT ![a].at = "copy"] => arc' = [arc EXCEPT ![a] = [p EXCEPT !.at = "copy"]]
  BY <1>1
<1>10. QED
  BY <1>1, <1>6, <1>7, <1>8, <1>9 DEF MakeDir

\* An archiver writes its own directory, which nobody else holds and no row
\* names.
LEMMA OwnDirectory ==
  ASSUME TapesInv, NEW a \in Archiver, arc[a].at = "copy", NEW g \in DirRec, NEW q,
         arcDir' = [arcDir EXCEPT ![arc[a].dir] = g], arc' = [arc EXCEPT ![a] = q],
         q = [at |-> q.at, dir |-> q.dir, todo |-> q.todo], q.at \in {"idle", "copy", "add"},
         q.at # "idle" => q.dir = arc[a].dir /\ q.todo \subseteq Path /\ g.exists,
         q.at = "add" => g.sealed,
         UNCHANGED <<tapeMay, tapeFile, tapeScratch, tapeRows, tapeSet, tapeEver, tapeUploads, upl, del, arcRows>>
  PROVE  TapesInv'
<1>1. PICK f : f = arc[a].dir
  OBVIOUS
<1>2. f \in Dir /\ f \notin arcRows
  BY <1>1 DEF TapesInv, ArchiveOK
<1>3. arcDir' \in [Dir -> DirRec] /\ arcDir'[f] = g /\ \A x \in Dir : x # f => arcDir'[x] = arcDir[x]
  BY <1>1, <1>2 DEF TapesInv, TapesTypes
<1>4. arcRows \subseteq Dir
  BY DEF TapesInv, TapesTypes
<1>5. \A x \in Archiver : x # a /\ arc[x].at \in {"copy", "add"} =>
         arc[x].dir \in Dir /\ arc[x].dir # f /\ arc[x].dir \notin arcRows
  BY <1>1 DEF TapesInv, ArchiveOK, DirsApart
<1>6. /\ arc'[a] = q /\ arc' = [x \in Archiver |-> arc'[x]]
      /\ \A x \in Archiver : x # a => arc'[x] = arc[x]
  BY ArchiveMoves
<1>7. Archives(a)
  BY <1>1, <1>2, <1>3, <1>4, <1>5, <1>6 DEF Archives
<1>8. ArchiveOK(q)'
  BY <1>1, <1>2, <1>3 DEF ArchiveOK
<1>9. QED
  BY <1>6, <1>7, <1>8, ArchiveStep

\* What a directory is after one of its fields changed.
LEMMA SealedDir ==
  ASSUME NEW g0 \in DirRec, NEW g, g = [g0 EXCEPT !.sealed = TRUE]
  PROVE  g \in DirRec /\ g.sealed /\ g.exists = g0.exists
BY DEF DirRec

\* What a directory is once it is damaged.
LEMMA DamagedDir ==
  ASSUME NEW g0 \in DirRec, NEW g, g = [g0 EXCEPT !.damaged = TRUE]
  PROVE  g \in DirRec /\ g.sealed = g0.sealed /\ g.exists = g0.exists
BY DEF DirRec

\* What a directory is with one tape more.
LEMMA FilledDir ==
  ASSUME NEW g0 \in DirRec, NEW b \in Body, NEW g, g = [g0 EXCEPT !.copies = @ \union {b}]
  PROVE  g \in DirRec /\ g.exists = g0.exists
BY DEF DirRec

\* The directory an archiver copies into is there.
LEMMA OwnDirectoryIs ==
  ASSUME TapesInv, NEW a \in Archiver, arc[a].at = "copy"
  PROVE  \E di, to :
           /\ arc[a] = [at |-> "copy", dir |-> di, todo |-> to] /\ di \in Dir /\ to \subseteq Path
           /\ arcDir[di] \in DirRec /\ arcDir[di].exists
<1>1. PICK p : p = arc[a] /\ ArchiveOK(p)
  BY DEF TapesInv
<1>2. PICK di, to : p = [at |-> "copy", dir |-> di, todo |-> to] /\ di = p.dir /\ to = p.todo
  BY <1>1 DEF ArchiveOK
<1>3. di \in Dir /\ to \subseteq Path /\ arcDir[di].exists
  BY <1>1, <1>2 DEF ArchiveOK
<1>4. arcDir[di] \in DirRec
  BY <1>3 DEF TapesInv, TapesTypes
<1>5. QED
  BY <1>1, <1>2, <1>3, <1>4

\* A tape that is copied into it is one that was read.
LEMMA CopyTapeKeeps ==
  ASSUME TapesInv, NEW a \in Archiver, CopyTape(a)
  PROVE  TapesInv'
<1>1. /\ arc[a].at = "copy"
      /\ UNCHANGED <<tapeMay, tapeFile, tapeScratch, tapeRows, tapeSet, tapeEver, tapeUploads, upl, del, arcRows>>
  BY DEF CopyTape, tapeFacts
<1>2. PICK di, to :
        /\ arc[a] = [at |-> "copy", dir |-> di, todo |-> to] /\ di \in Dir /\ to \subseteq Path
        /\ arcDir[di] \in DirRec /\ arcDir[di].exists
  BY <1>1, OwnDirectoryIs
<1>3. arc[a].dir = di
  BY <1>2
<1>4. ASSUME NEW p \in to, tapeFile[p] # NoBody,
             arcDir' = [arcDir EXCEPT ![di].copies = @ \union {tapeFile[p]}],
             arc' = [arc EXCEPT ![a].todo = @ \ {p}]
      PROVE  TapesInv'
  <2>1. PICK b : b = tapeFile[p]
    OBVIOUS
  <2>2. b \in Body
    BY <1>2, <1>4, <2>1, TapeBounds DEF TapesInv, TapesTypes, Body, NoBody
  <2>3. PICK g0, g : g0 = arcDir[di] /\ g = [g0 EXCEPT !.copies = @ \union {b}]
    OBVIOUS
  <2>4. g0 \in DirRec /\ g0.exists
    BY <1>2, <2>3
  <2>5. g \in DirRec /\ g.exists
    BY <2>2, <2>3, <2>4, FilledDir
  <2>6. arc[a].todo = to
    BY <1>2
  <2>7. arcDir' = [arcDir EXCEPT ![arc[a].dir] = g]
    BY <1>3, <1>4, <2>1, <2>3
  <2>8. PICK q0, q : q0 = arc[a] /\ q = [q0 EXCEPT !.todo = to \ {p}]
    OBVIOUS
  <2>9. q = [at |-> "copy", dir |-> di, todo |-> to \ {p}]
    <3>1. q0 = [at |-> "copy", dir |-> di, todo |-> to]
      BY <1>2, <2>8
    <3>2. QED
      BY ONLY <2>8, <3>1
  <2>10. arc' = [arc EXCEPT ![a] = q]
    BY <1>4, <2>6, <2>8
  <2>11. /\ q = [at |-> q.at, dir |-> q.dir, todo |-> q.todo] /\ q.at = "copy"
         /\ q.dir = arc[a].dir /\ q.todo \subseteq Path
    BY <1>2, <1>3, <2>9
  <2>12. QED
    BY <1>1, <2>5, <2>7, <2>10, <2>11, OwnDirectory
<1>5. ASSUME arcDir' = [arcDir EXCEPT ![di] = NoDir], arc' = [arc EXCEPT ![a] = NoArchive]
      PROVE  TapesInv'
  <2>1. PICK g, q : g = NoDir /\ q = NoArchive
    OBVIOUS
  <2>2. g \in DirRec
    BY <2>1 DEF NoDir, DirRec
  <2>3. q.at = "idle" /\ q = [at |-> q.at, dir |-> q.dir, todo |-> q.todo]
    BY <2>1 DEF NoArchive
  <2>4. arcDir' = [arcDir EXCEPT ![arc[a].dir] = g] /\ arc' = [arc EXCEPT ![a] = q]
    BY <1>3, <1>5, <2>1
  <2>5. QED
    BY <1>1, <2>2, <2>3, <2>4, OwnDirectory
<1>6. arc[a].todo = to
  BY <1>2
<1>7. QED
  BY <1>3, <1>4, <1>5, <1>6 DEF CopyTape

\* A manifest is written once all that was to be copied is there.
LEMMA SealArchiveKeeps ==
  ASSUME TapesInv, NEW a \in Archiver, SealArchive(a)
  PROVE  TapesInv'
<1>1. /\ arc[a].at = "copy"
      /\ UNCHANGED <<tapeMay, tapeFile, tapeScratch, tapeRows, tapeSet, tapeEver, tapeUploads, upl, del, arcRows>>
  BY DEF SealArchive, tapeFacts
<1>2. PICK di, to :
        /\ arc[a] = [at |-> "copy", dir |-> di, todo |-> to] /\ di \in Dir /\ to \subseteq Path
        /\ arcDir[di] \in DirRec /\ arcDir[di].exists
  BY <1>1, OwnDirectoryIs
<1>3. arc[a].dir = di
  BY <1>2
<1>4. PICK g0, g : g0 = arcDir[di] /\ g = [g0 EXCEPT !.sealed = TRUE]
  OBVIOUS
<1>5. g0 \in DirRec /\ g0.exists
  BY <1>2, <1>4
<1>6. g \in DirRec /\ g.exists /\ g.sealed
  BY <1>4, <1>5, SealedDir
<1>7. PICK q0, q : q0 = arc[a] /\ q = [q0 EXCEPT !.at = "add"]
  OBVIOUS
<1>8. q = [at |-> "add", dir |-> di, todo |-> to]
  <2>1. q0 = [at |-> "copy", dir |-> di, todo |-> to]
    BY <1>2, <1>7
  <2>2. QED
    BY ONLY <1>7, <2>1
<1>9. arcDir' = [arcDir EXCEPT ![arc[a].dir] = g] /\ arc' = [arc EXCEPT ![a] = q]
  BY <1>3, <1>4, <1>7 DEF SealArchive
<1>10. /\ q = [at |-> q.at, dir |-> q.dir, todo |-> q.todo] /\ q.at = "add"
       /\ q.dir = arc[a].dir /\ q.todo \subseteq Path
  BY <1>2, <1>3, <1>8
<1>11. QED
  BY <1>1, <1>6, <1>9, <1>10, OwnDirectory

\* The archive that is recorded is one that was sealed.
LEMMA AddArchiveKeeps ==
  ASSUME TapesInv, NEW a \in Archiver, AddArchive(a)
  PROVE  TapesInv'
<1>1. /\ arc[a].at = "add"
      /\ UNCHANGED <<tapeMay, tapeFile, tapeScratch, tapeRows, tapeSet, tapeEver, tapeUploads, upl, del, arcDir>>
  BY DEF AddArchive, tapeFacts
<1>2. PICK f : f = arc[a].dir
  OBVIOUS
<1>3. f \in Dir /\ arcDir[f].exists /\ arcDir[f].sealed
  BY <1>1, <1>2 DEF TapesInv, ArchiveOK
<1>4. PICK q : q = NoArchive
  OBVIOUS
<1>5. ArchiveOK(q) /\ ArchiveOK(q)' /\ q.at = "idle"
  BY <1>4 DEF NoArchive, ArchiveOK
<1>6. arc' = [arc EXCEPT ![a] = q]
  BY <1>4 DEF AddArchive
<1>7. /\ arc'[a] = q /\ arc' = [x \in Archiver |-> arc'[x]]
      /\ \A x \in Archiver : x # a => arc'[x] = arc[x]
  BY <1>6, ArchiveMoves
<1>8. CASE arcRows' = arcRows \union {f}
  <2>1. arcRows \subseteq Dir /\ arcDir \in [Dir -> DirRec]
    BY DEF TapesInv, TapesTypes
  <2>2. \A x \in Archiver : x # a /\ arc[x].at \in {"copy", "add"} => arc[x].dir \notin arcRows'
    BY <1>1, <1>2, <1>8 DEF TapesInv, ArchiveOK, DirsApart
  <2>3. Archives(a)
    BY <1>1, <1>3, <1>5, <1>7, <1>8, <2>1, <2>2 DEF Archives
  <2>4. QED
    BY <1>5, <1>7, <2>3, ArchiveStep
<1>9. CASE UNCHANGED arcRows
  BY <1>1, <1>5, <1>6, <1>9, ArchiverOnly
<1>10. QED
  BY <1>2, <1>8, <1>9 DEF AddArchive

\* An archive is damaged while nothing leans on it.
LEMMA DamageArchiveKeeps ==
  ASSUME TapesInv, NEW f \in Dir, DamageArchive(f)
  PROVE  TapesInv'
<1>1. /\ f \in arcRows /\ \A b \in arcDir[f].copies : Named(b)
      /\ \A x \in Deleter : del[x].at \in {"idle", "check"}
      /\ arcDir' = [arcDir EXCEPT ![f].damaged = TRUE]
      /\ UNCHANGED <<tapeMay, tapeFile, tapeScratch, tapeRows, tapeSet, tapeEver, tapeUploads, upl, del, arc, arcRows>>
  BY DEF DamageArchive, tapeFacts
<1>2. PICK g0, g : g0 = arcDir[f] /\ g = [g0 EXCEPT !.damaged = TRUE]
  OBVIOUS
<1>3. g0 \in DirRec /\ g0.exists /\ g0.sealed
  BY <1>1, <1>2 DEF TapesInv, TapesTypes, ArchivesStayWhole
<1>6. g \in DirRec /\ g.exists /\ g.sealed
  BY <1>2, <1>3, DamagedDir
<1>7. arcDir' \in [Dir -> DirRec] /\ arcDir'[f] = g /\ \A x \in Dir : x # f => arcDir'[x] = arcDir[x]
  BY <1>1, <1>2, <1>6 DEF TapesInv, TapesTypes
<1>8. TapesTypes'
  BY <1>1, <1>7 DEF TapesInv, TapesTypes
<1>9. \A u \in Uploader : UploadOK(u, upl[u])'
  BY <1>1 DEF TapesInv, UploadOK
<1>10. BodiesApart' /\ FilesOK' /\ TapeRowsOK' /\ DirsApart'
  BY <1>1 DEF TapesInv, BodiesApart, FilesOK, TapeRowsOK, DirsApart
<1>11. ASSUME NEW d \in Deleter PROVE DeleteOK(del[d])'
  <2>1. PICK p : p = del[d] /\ DeleteOK(p) /\ p.at \in {"idle", "check"}
    BY <1>1 DEF TapesInv
  <2>2. DeleteOK(p)'
    BY <1>1, <2>1 DEF DeleteOK
  <2>3. QED
    BY <1>1, <2>1, <2>2
<1>12. ASSUME NEW x \in Archiver PROVE ArchiveOK(arc[x])'
  <2>1. PICK p : p = arc[x] /\ ArchiveOK(p)
    BY DEF TapesInv
  <2>2. p.at \in {"copy", "add"} => arcDir'[p.dir] = arcDir[p.dir]
    BY <1>1, <1>7, <2>1 DEF ArchiveOK
  <2>3. ArchiveOK(p)'
    BY <1>1, <2>1, <2>2 DEF ArchiveOK
  <2>4. QED
    BY <1>1, <2>1, <2>3
<1>13. ArchivesStayWhole'
  BY <1>1, <1>6, <1>7 DEF TapesInv, TapesTypes, ArchivesStayWhole
<1>14. RecordedTapesAreKept'
  <2>1. SUFFICES ASSUME NEW b \in tapeEver
                 PROVE  (Named(b) \/ \E d \in arcRows : Verifies(d) /\ b \in arcDir[d].copies)'
    BY <1>1 DEF RecordedTapesAreKept
  <2>2. Named(b) => Named(b)'
    BY <1>1 DEF Named
  <2>3. ASSUME NEW d \in arcRows, Verifies(d), b \in arcDir[d].copies
        PROVE  (Named(b) \/ \E x \in arcRows : Verifies(x) /\ b \in arcDir[x].copies)'
    <3>1. CASE d = f
      BY <1>1, <2>2, <2>3, <3>1
    <3>2. CASE d # f
      <4>1. arcDir'[d] = arcDir[d]
        BY <1>7, <3>2 DEF TapesInv, TapesTypes
      <4>2. QED
        BY <1>1, <2>3, <4>1 DEF Verifies
    <3>3. QED
      BY <3>1, <3>2
  <2>4. QED
    BY <2>2, <2>3 DEF TapesInv, RecordedTapesAreKept
<1>15. "delete" \in tapeMay' => "audit" \notin tapeMay'
  BY <1>1 DEF TapesInv
<1>16. QED
  BY <1>8, <1>9, <1>10, <1>11, <1>12, <1>13, <1>14, <1>15 DEF TapesInv

\* A crash leaves the files and the rows, and takes what was in hand.
LEMMA TapesCrashKeeps ==
  ASSUME TapesInv, TapesCrash
  PROVE  TapesInv'
<1>1. /\ tapeMay' = tapeMay \ {"crash"}
      /\ UNCHANGED <<tapeFile, tapeScratch, tapeRows, tapeSet, tapeEver, tapeUploads, arcDir, arcRows>>
  BY DEF TapesCrash, tapeFacts
<1>2. PICK n, q, z : n = NoUpload /\ q = NoDelete /\ z = NoArchive
  OBVIOUS
<1>3. /\ n.at = "idle" /\ \A u : UploadOK(u, n)'
      /\ DeleteOK(q)' /\ z.at = "idle" /\ ArchiveOK(z)'
  <2>1. n.at = "idle" /\ \A u : UploadOK(u, n)'
    BY <1>2 DEF NoUpload, UploadOK
  <2>2. DeleteOK(q)'
    BY <1>2 DEF NoDelete, DeleteOK
  <2>3. z.at = "idle" /\ ArchiveOK(z)'
    BY <1>2 DEF NoArchive, ArchiveOK
  <2>4. QED
    BY <2>1, <2>2, <2>3
<1>4. /\ upl' = [u \in Uploader |-> n] /\ del' = [d \in Deleter |-> q] /\ arc' = [a \in Archiver |-> z]
  BY <1>2 DEF TapesCrash
<1>5. TapesTypes'
  <2>1. tapeMay' \subseteq {"archive", "race", "delete", "id", "audit", "crash"}
    BY <1>1 DEF TapesInv, TapesTypes
  <2>2. upl' = [u \in Uploader |-> upl'[u]] /\ del' = [d \in Deleter |-> del'[d]] /\ arc' = [a \in Archiver |-> arc'[a]]
    BY <1>4
  <2>3. QED
    BY <1>1, <2>1, <2>2 DEF TapesInv, TapesTypes
<1>6. \A u \in Uploader : upl'[u].at = "idle" /\ UploadOK(u, upl[u])'
  BY <1>3, <1>4
<1>7. \A d \in Deleter : DeleteOK(del[d])'
  BY <1>3, <1>4
<1>8. \A a \in Archiver : arc'[a].at = "idle" /\ ArchiveOK(arc[a])'
  BY <1>3, <1>4
<1>9. BodiesApart' /\ DirsApart'
  BY <1>6, <1>8 DEF BodiesApart, DirsApart
<1>10. FilesOK' /\ TapeRowsOK'
  BY <1>1 DEF TapesInv, FilesOK, TapeRowsOK
<1>11. RecordedTapesAreKept' /\ ArchivesStayWhole'
  BY <1>1 DEF TapesInv, RecordedTapesAreKept, ArchivesStayWhole, Named, Verifies
<1>12. "delete" \in tapeMay' => "audit" \notin tapeMay'
  BY <1>1 DEF TapesInv
<1>13. QED
  BY <1>5, <1>6, <1>7, <1>8, <1>9, <1>10, <1>11, <1>12 DEF TapesInv

\* A step that changes none of it keeps it.
LEMMA TapesRest ==
  ASSUME TapesInv, UNCHANGED tapesVars
  PROVE  TapesInv'
<1>1. UNCHANGED <<tapeMay, tapeFile, tapeScratch, tapeRows, tapeSet, tapeEver, tapeUploads, upl, del, arc, arcDir, arcRows>>
  BY DEF tapesVars, tapeFacts, arcVars
<1>2. TapesTypes' /\ BodiesApart' /\ FilesOK' /\ TapeRowsOK' /\ DirsApart'
  BY <1>1 DEF TapesInv, TapesTypes, BodiesApart, FilesOK, TapeRowsOK, DirsApart
<1>3. \A u \in Uploader : UploadOK(u, upl[u])'
  BY <1>1 DEF TapesInv, UploadOK
<1>4. \A d \in Deleter : DeleteOK(del[d])'
  BY <1>1 DEF TapesInv, DeleteOK, Verifies
<1>5. \A a \in Archiver : ArchiveOK(arc[a])'
  BY <1>1 DEF TapesInv, ArchiveOK
<1>6. RecordedTapesAreKept' /\ ArchivesStayWhole'
  BY <1>1 DEF TapesInv, RecordedTapesAreKept, ArchivesStayWhole, Named, Verifies
<1>7. "delete" \in tapeMay' => "audit" \notin tapeMay'
  BY <1>1 DEF TapesInv
<1>8. QED
  BY <1>2, <1>3, <1>4, <1>5, <1>6, <1>7 DEF TapesInv

\* Every step of uploads, deletions and archives keeps what is so of the
\* tapes, if no two uploads want one name, one delete is served at a time,
\* and no audit fails beside it.
LEMMA TapesStay ==
  ASSUME TapesInv, OneNameEach, OneDeleter, [TapesNext]_tapesVars
  PROVE  TapesInv'
<1>1. CASE \E u \in Uploader :
             \/ ChooseTarget(u) \/ OpenScratch(u) \/ CopyBody(u)
             \/ RecordTape(u) \/ AuditTape(u) \/ UndoUpload(u)
  BY <1>1, ChooseKeeps, OpenScratchKeeps, CopyKeeps, RecordTapeKeeps, AuditTapeKeeps, UndoKeeps
<1>2. CASE \E d \in Deleter :
             \/ ReadBatch(d) \/ CheckBatch(d) \/ ForgetTape(d) \/ UnlinkTape(d)
  BY <1>2, ReadBatchKeeps, CheckBatchKeeps, ForgetTapeKeeps, UnlinkTapeKeeps
<1>3. CASE \E a \in Archiver :
             \/ BeginArchive(a) \/ MakeDir(a) \/ CopyTape(a) \/ SealArchive(a) \/ AddArchive(a)
  BY <1>3, BeginArchiveKeeps, MakeDirKeeps, CopyTapeKeeps, SealArchiveKeeps, AddArchiveKeeps
<1>4. CASE \E d \in Dir : DamageArchive(d)
  BY <1>4, DamageArchiveKeeps
<1>5. QED
  BY <1>1, <1>2, <1>3, <1>4, TapesCrashKeeps, TapesRest DEF TapesNext

-----------------------------------------------------------------------------
(* The tracker's import (TrackerImport).                                     *)

ImportFields == {"at", "repair", "existing", "remote", "index", "numbers", "labels", "deferred",
                 "todo", "pages", "failed", "undisturbed"}

TicketFields == {"copies", "comments", "closed", "names", "label"}

\* A ticket in the tracker: once, its comments once and never without it.
TicketOK(t, x) ==
    /\ DOMAIN x = TicketFields
    /\ x.copies = 1 \/ (x.copies = 0 /\ x.comments = 0)
    /\ x.comments = 0 \/ (x.comments = 1 /\ t \in Commented)
    /\ x.names \subseteq BlockedBy[t]

TicketsOK(i) == DOMAIN i = Tickets /\ \A t \in Tickets : TicketOK(t, i[t])

\* What the run has in hand.
RunTyped(r) ==
    /\ DOMAIN r = ImportFields
    /\ r.at \in {"idle", "labels", "create", "comment", "close", "reconcile", "state", "body", "pages"}
    /\ r.existing \subseteq Tickets /\ r.numbers \subseteq Tickets /\ r.todo \subseteq Tickets
    /\ r.deferred \subseteq Tickets \ r.existing

\* What is still to be created is not there, and only what was is repaired.
Phase(i, r) ==
    /\ r.at = "labels" => r.todo = Tickets /\ r.deferred = {} /\ r.failed = FALSE
    /\ r.at \in {"labels", "create"} => \A t \in r.todo \ r.existing : i[t].copies = 0
    /\ r.at \in {"comment", "close"} =>
         /\ r.todo # {} /\ Min(r.todo) \notin r.existing /\ i[Min(r.todo)].copies = 1
         /\ \A t \in r.todo \ r.existing : t # Min(r.todo) => i[t].copies = 0
    /\ r.at = "comment" => i[Min(r.todo)].comments = 0
    /\ r.at \in {"reconcile", "state", "body"} => r.repair /\ r.todo \subseteq r.existing
    /\ r.at \in {"state", "body"} => r.todo # {}
    /\ r.at \in {"reconcile", "state", "body", "pages"} => r.deferred = {}
    /\ r.at # "idle" => \A t \in r.existing : i[t].copies = 1

\* A ticket as the archive has it, but for the blockers it names.
Made(t, x) ==
    /\ x.copies = 1
    /\ x.comments = IF t \in Commented THEN 1 ELSE 0
    /\ x.closed = (t \in Closing)

AsArchived(t, x) == Made(t, x) /\ x.names = BlockedBy[t]

\* Tickets of a run nothing went wrong in and nobody disturbed.
OnTrack(i, r) ==
    /\ r.at # "idle" => \A t \in Tickets : t \in r.numbers <=> i[t].copies = 1
    /\ r.at \in {"labels", "create", "comment", "close"} =>
         \A t \in Tickets :
           /\ t \in r.existing => i[t] = r.remote[t]
           /\ t \notin r.existing /\ t \notin r.todo =>
                Made(t, i[t]) /\ (i[t].names = BlockedBy[t] \/ t \in r.deferred)
    /\ r.at \in {"comment", "close"} =>
         LET x == i[Min(r.todo)]
         IN  x.names = BlockedBy[Min(r.todo)] \cap (r.numbers \ {Min(r.todo)}) /\ x.closed = FALSE
    /\ r.at = "close" => i[Min(r.todo)].comments = IF Min(r.todo) \in Commented THEN 1 ELSE 0
    /\ r.at \in {"reconcile", "state", "body", "pages"} => r.numbers = Tickets
    /\ r.at \in {"reconcile", "state", "body"} =>
         \A t \in Tickets :
           /\ t \notin r.todo => AsArchived(t, i[t])
           /\ t \in r.todo /\ (t # Min(r.todo) \/ r.at = "reconcile") => i[t] = r.remote[t]
    /\ r.at \in {"state", "body"} =>
         LET x == i[Min(r.todo)]
         IN  /\ x.comments = IF Min(r.todo) \in Commented THEN 1 ELSE 0
             /\ x.names = r.remote[Min(r.todo)].names
    /\ r.at = "state" => i[Min(r.todo)].closed = r.remote[Min(r.todo)].closed
    /\ r.at = "body" => i[Min(r.todo)].closed = (Min(r.todo) \in Closing)
    /\ r.at \in {"pages", "idle"} /\ r.repair => \A t \in Tickets : AsArchived(t, i[t])

\* Its pages.
PagesOnTrack(p, r) ==
    /\ r.at \notin {"pages", "idle"} => r.pages = Pages
    /\ r.at # "idle" => \A d \in r.pages : d \notin r.index => p[d] = "absent"
    /\ r.at = "pages" /\ r.repair => \A d \in Pages \ r.pages : p[d] = "archive"
    /\ r.at = "idle" /\ r.repair => \A d \in Pages : p[d] = "archive"

CountsOK ==
    /\ imports \in Nat /\ faults \in Nat /\ edits \in Nat
    /\ imports <= MaxImports /\ faults <= MaxFaults /\ edits <= MaxEdits

Shape(i, r) == TicketsOK(i) /\ RunTyped(r) /\ Phase(i, r)

PassedOn(i, r) == Shape(i, r) /\ r.at # "labels"

Sound(i, p, r) ==
    /\ Shape(i, r) /\ DOMAIN p = Pages
    /\ r.failed \/ ~ r.undisturbed \/ (OnTrack(i, r) /\ PagesOnTrack(p, r))

ImportInv == Sound(issue, page, import) /\ CountsOK

\* Tickets j are tickets i but for t, which is x.
Altered(i, j, t, x) ==
    TicketsOK(j) /\ j[t] = x /\ \A u \in Tickets : u # t => j[u] = i[u]

\* What an update of the run leaves alone: what it read, and how it was asked.
SameRun(r, q) ==
    /\ DOMAIN q = ImportFields
    /\ q.repair = r.repair /\ q.existing = r.existing /\ q.remote = r.remote /\ q.index = r.index
    /\ q.undisturbed = r.undisturbed

\* What it makes of the rest.
Goes(r, q, at, todo, numbers, deferred, pages, failed) ==
    /\ SameRun(r, q) /\ q.at = at /\ q.todo = todo /\ q.numbers = numbers
    /\ q.deferred = deferred /\ q.pages = pages /\ q.failed = failed

\* What a call does to one ticket.
PostsOn(i, d, t) ==
    \E x : /\ Altered(i, d, t, x)
           /\ x.copies = i[t].copies /\ x.comments = i[t].comments + 1
           /\ x.closed = i[t].closed /\ x.names = i[t].names

ClosesOn(i, d, t, v) ==
    \E x : /\ Altered(i, d, t, x)
           /\ x.copies = i[t].copies /\ x.comments = i[t].comments
           /\ x.closed = v /\ x.names = i[t].names

NamesOn(i, d, t, v) ==
    \E x : /\ Altered(i, d, t, x)
           /\ x.copies = i[t].copies /\ x.comments = i[t].comments
           /\ x.closed = i[t].closed /\ x.names = v

LeftAlone ==
    /\ \A t \in import.existing : issue'[t] = issue[t]
    /\ \A p \in Pages : page[p] = "edited" => page'[p] = "edited"

LeavesWhatExists ==
    (import.at # "idle" /\ ~ import.repair /\ edits' = edits) =>
      /\ \A t \in import.existing : issue'[t] = issue[t]
      /\ \A p \in Pages : page[p] = "edited" => page'[p] = "edited"

\* A call that is about one ticket leaves every other.
CallsOn(t) == \E x, o, f : Call([issue EXCEPT ![t] = x], o, f)

\* The tracker begins empty, before a run.
LEMMA ImportInitInv == ImportInit => ImportInv
<1> SUFFICES ASSUME ImportInit PROVE ImportInv
  OBVIOUS
<1>1. issue = [t \in Tickets |-> NoIssue] /\ DOMAIN page = Pages
  BY DEF ImportInit
<1>2. TicketsOK(issue)
  BY <1>1 DEF TicketsOK, TicketOK, NoIssue, TicketFields
<1>3. /\ import.at = "idle" /\ import.existing = {} /\ import.numbers = {} /\ import.todo = {}
      /\ import.deferred = {} /\ import.failed = TRUE /\ DOMAIN import = ImportFields
  BY DEF ImportInit, ImportFields
<1>4. RunTyped(import) /\ Phase(issue, import)
  BY <1>3 DEF RunTyped, Phase
<1>5. CountsOK
  BY ImportBounds DEF ImportInit, CountsOK
<1>6. QED
  BY <1>1, <1>2, <1>3, <1>4, <1>5 DEF ImportInv, Sound, Shape

\* What is so of the import gives its types, that a ticket is imported once,
\* and that a clean repair restores the archive.
LEMMA ImportInvGives ==
  ImportInv => ImportTypeOK /\ ImportedOnce /\ CleanRepairRestores
<1> SUFFICES ASSUME ImportInv PROVE ImportTypeOK /\ ImportedOnce /\ CleanRepairRestores
  OBVIOUS
<1>1. ImportTypeOK
  BY DEF ImportInv, Sound, Shape, ImportTypeOK, RunTyped, TicketsOK, TicketOK, CountsOK
<1>2. ImportedOnce
  <2>1. SUFFICES ASSUME NEW t \in Tickets PROVE issue[t].copies <= 1 /\ issue[t].comments <= 1
    BY DEF ImportedOnce
  <2>2. /\ issue[t].copies = 1 \/ issue[t].copies = 0
        /\ issue[t].comments = 1 \/ issue[t].comments = 0
    BY DEF ImportInv, Sound, Shape, TicketsOK, TicketOK
  <2>3. QED
    BY <2>2
<1>3. CleanRepairRestores
  BY DEF ImportInv, Sound, CleanRepairRestores, OnTrack, PagesOnTrack, AsArchived, Made
<1>4. QED
  BY <1>1, <1>2, <1>3

\* Nothing but a start counts imports, but a fault faults, but work edits.
LEMMA CallEnds ==
  ASSUME NEW d, NEW o, NEW f, Call(d, o, f)
  PROVE  /\ UNCHANGED <<page, imports, edits>>
         /\ faults' = faults \/ (faults < MaxFaults /\ faults' = faults + 1)
         /\ \/ issue' = d /\ import' = o
            \/ (issue' = d \/ issue' = issue) /\ import' = [f EXCEPT !.failed = TRUE]
BY DEF Call, Answers

\* The counts keep within their bounds.
LEMMA CountsStay == ASSUME CountsOK, [ImportNext]_importVars PROVE CountsOK'
<1> USE ImportBounds DEF CountsOK
<1>1. CASE \E repair \in BOOLEAN : Start(repair)
  BY <1>1 DEF Start
<1>2. CASE Labels
  BY <1>2 DEF Labels
<1>3. CASE LinkDeferred
  <2>1. UNCHANGED <<imports, edits>> /\ (faults' = faults \/ (faults < MaxFaults /\ faults' = faults + 1))
    BY <1>3, CallEnds DEF LinkDeferred, ImportGoes
  <2>2. QED
    BY <2>1
<1>4. CASE Repaired \/ Finish \/ UNCHANGED importVars
  BY <1>4 DEF Repaired, Finish, ImportGoes, importVars
<1>5. CASE ImportDies \/ ImportWork
  BY <1>5 DEF ImportDies, ImportWork
<1>6. ASSUME NEW t \in Tickets, \/ Create(t) \/ PostComment(t) \/ Close(t)
                                \/ RepairComment(t) \/ RepairState(t) \/ RepairBody(t)
      PROVE CountsOK'
  <2>1. UNCHANGED <<imports, edits>> /\ (faults' = faults \/ (faults < MaxFaults /\ faults' = faults + 1))
    <3>1. CASE Create(t)
      BY <3>1, CallEnds DEF Create, ImportGoes
    <3>2. CASE PostComment(t)
      BY <3>2, CallEnds DEF PostComment, ImportGoes
    <3>3. CASE Close(t)
      BY <3>3, CallEnds DEF Close, ImportGoes
    <3>4. CASE RepairComment(t)
      BY <3>4, CallEnds DEF RepairComment, ImportGoes
    <3>5. CASE RepairState(t)
      BY <3>5, CallEnds DEF RepairState, ImportGoes
    <3>6. CASE RepairBody(t)
      BY <3>6, CallEnds DEF RepairBody, ImportGoes
    <3>7. QED
      BY <1>6, <3>1, <3>2, <3>3, <3>4, <3>5, <3>6
  <2>2. QED
    BY <2>1
<1>7. CASE \E p \in Pages : WritePage(p)
  BY <1>7 DEF WritePage
<1>8. QED
  BY <1>1, <1>2, <1>3, <1>4, <1>5, <1>6, <1>7 DEF ImportNext

\* A ticket that is replaced by one as it may be leaves tickets as they may
\* be.
LEMMA OneTicket ==
  ASSUME NEW i, NEW t \in Tickets, NEW x, TicketsOK(i), TicketOK(t, x)
  PROVE  Altered(i, [i EXCEPT ![t] = x], t, x)
BY DEF TicketsOK, Altered

\* Going to another step changes nothing else.
LEMMA RunGoesOn ==
  ASSUME NEW r, DOMAIN r = ImportFields, NEW w
  PROVE  Goes(r, [r EXCEPT !.at = w], w, r.todo, r.numbers, r.deferred, r.pages, r.failed)
BY Zenon DEF ImportFields, SameRun, Goes

\* Nor does taking another list to do.
LEMMA RunTakes ==
  ASSUME NEW r, DOMAIN r = ImportFields, NEW w, NEW v
  PROVE  Goes(r, [r EXCEPT !.at = w, !.todo = v], w, v, r.numbers, r.deferred, r.pages, r.failed)
BY Zenon DEF ImportFields, SameRun, Goes

\* Nor does a ticket's new number.
LEMMA RunNumbers ==
  ASSUME NEW r, DOMAIN r = ImportFields, NEW w, NEW v
  PROVE  Goes(r, [r EXCEPT !.at = w, !.numbers = v], w, r.todo, v, r.deferred, r.pages, r.failed)
BY Zenon DEF ImportFields, SameRun, Goes

\* Nor does deferring a ticket or its end.
LEMMA RunDefers ==
  ASSUME NEW r, DOMAIN r = ImportFields, NEW v
  PROVE  Goes(r, [r EXCEPT !.deferred = v], r.at, r.todo, r.numbers, v, r.pages, r.failed)
BY Zenon DEF ImportFields, SameRun, Goes

\* Nor does a page that is done with.
LEMMA RunWrites ==
  ASSUME NEW r, DOMAIN r = ImportFields, NEW v
  PROVE  Goes(r, [r EXCEPT !.pages = v], r.at, r.todo, r.numbers, r.deferred, v, r.failed)
BY Zenon DEF ImportFields, SameRun, Goes

\* Nor does a failure.
LEMMA RunFails ==
  ASSUME NEW r, DOMAIN r = ImportFields, NEW v
  PROVE  Goes(r, [r EXCEPT !.failed = v], r.at, r.todo, r.numbers, r.deferred, r.pages, v)
BY Zenon DEF ImportFields, SameRun, Goes

\* Passing over the ticket at hand leaves the others to do.
LEMMA PastIs ==
  ASSUME NEW r, DOMAIN r = ImportFields, NEW w
  PROVE  Goes(r, Past(r, w), w, r.todo \ {Min(r.todo)}, r.numbers, r.deferred, r.pages, r.failed)
<1>1. PICK v : v = r.todo \ {Min(r.todo)}
  OBVIOUS
<1>2. Past(r, w) = [r EXCEPT !.at = w, !.todo = v]
  BY <1>1 DEF Past
<1>3. Goes(r, [r EXCEPT !.at = w, !.todo = v], w, v, r.numbers, r.deferred, r.pages, r.failed)
  BY RunTakes
<1>4. QED
  BY ONLY <1>1, <1>2, <1>3

\* The ticket at hand is one of those to do.
LEMMA AtHand ==
  ASSUME NEW i, NEW r, Shape(i, r), r.todo # {}
  PROVE  Min(r.todo) \in r.todo /\ Min(r.todo) \in Tickets
BY LeastIsMin, ArchiveAssumption DEF Shape, RunTyped

\* A run that has failed need only be in shape.
LEMMA FailedIsSound ==
  ASSUME NEW i, NEW p, NEW f, PassedOn(i, f), DOMAIN p = Pages
  PROVE  Sound(i, p, [f EXCEPT !.failed = TRUE])
<1>1. PICK q : q = [f EXCEPT !.failed = TRUE]
  OBVIOUS
<1>2. DOMAIN f = ImportFields
  BY DEF PassedOn, Shape, RunTyped
<1>3. Goes(f, q, f.at, f.todo, f.numbers, f.deferred, f.pages, TRUE)
  BY <1>1, <1>2, RunFails
<1>4. RunTyped(q) /\ Phase(i, q)
  BY <1>3 DEF Goes, PassedOn, Shape, RunTyped, Phase, SameRun
<1>5. Sound(i, p, q)
  BY <1>3, <1>4 DEF Sound, PassedOn, Shape, Goes
<1>6. QED
  BY <1>1, <1>5

\* A call keeps the run sound if its success does, and what it may leave
\* behind is in shape.
LEMMA CallKeeps ==
  ASSUME NEW d, NEW o, NEW f, Call(d, o, f), Sound(d, page, o), PassedOn(d, f), PassedOn(issue, f)
  PROVE  Sound(issue, page, import)'
<1>1. /\ page' = page
      /\ \/ issue' = d /\ import' = o
         \/ (issue' = d \/ issue' = issue) /\ import' = [f EXCEPT !.failed = TRUE]
  BY CallEnds
<1>2. DOMAIN page = Pages
  BY DEF Sound
<1>3. Sound(d, page, [f EXCEPT !.failed = TRUE]) /\ Sound(issue, page, [f EXCEPT !.failed = TRUE])
  BY <1>2, FailedIsSound
<1>4. QED
  BY <1>1, <1>3

(* Creating what the tracker lacks. *)

\* Any of the ticket at hand goes: the run passes over it in shape.
LEMMA PassesOn ==
  ASSUME NEW i, NEW r, Shape(i, r), r.at \in {"create", "comment", "close"}, r.todo # {}
  PROVE  PassedOn(i, Past(r, "create"))
<1>1. PICK q : q = Past(r, "create")
  OBVIOUS
<1>2. DOMAIN r = ImportFields
  BY DEF Shape, RunTyped
<1>3. Goes(r, q, "create", r.todo \ {Min(r.todo)}, r.numbers, r.deferred, r.pages, r.failed)
  BY <1>1, <1>2, PastIs
<1>4. RunTyped(q)
  BY <1>3 DEF Shape, RunTyped, SameRun, Goes
<1>5. Phase(i, q)
  BY <1>3 DEF Shape, Phase, SameRun, Goes
<1>6. QED
  BY <1>1, <1>3, <1>4, <1>5 DEF PassedOn, Shape, Goes

\* What is passed over was there.
LEMMA SkipIsSound ==
  ASSUME NEW i, NEW p, NEW r, Sound(i, p, r), r.at = "create", r.todo # {}, Min(r.todo) \in r.existing
  PROVE  Sound(i, p, Past(r, "create"))
<1>1. PICK q : q = Past(r, "create")
  OBVIOUS
<1>2. Goes(r, q, "create", r.todo \ {Min(r.todo)}, r.numbers, r.deferred, r.pages, r.failed)
  BY <1>1, PastIs DEF Sound, Shape, RunTyped
<1>3. Shape(i, q)
  BY <1>1, PassesOn DEF Sound, PassedOn
<1>4. ASSUME ~ r.failed, r.undisturbed PROVE OnTrack(i, q) /\ PagesOnTrack(p, q)
  <2>1. OnTrack(i, r) /\ PagesOnTrack(p, r)
    BY <1>4 DEF Sound
  <2>2. OnTrack(i, q)
    BY <1>2, <2>1 DEF OnTrack, Goes, SameRun
  <2>3. PagesOnTrack(p, q)
    BY <1>2, <2>1 DEF PagesOnTrack, Goes, SameRun
  <2>4. QED
    BY <2>2, <2>3
<1>5. Sound(i, p, q)
  BY <1>2, <1>3, <1>4 DEF Sound, Goes, SameRun
<1>6. QED
  BY <1>1, <1>5

\* What the tracker lacks is made, once.
LEMMA CreateIsSound ==
  ASSUME NEW i, NEW p, NEW r, NEW t, NEW b,
         Sound(i, p, r), r.at = "create", r.todo # {}, t = Min(r.todo), t \notin r.existing,
         NEW x, x = [copies |-> i[t].copies + 1, comments |-> 0, closed |-> FALSE,
                     names |-> BlockedBy[t] \cap r.numbers, label |-> b]
  PROVE  /\ Sound([i EXCEPT ![t] = x], p, [r EXCEPT !.at = "comment", !.numbers = r.numbers \cup {t}])
         /\ PassedOn([i EXCEPT ![t] = x], Past(r, "create"))
<1>1. PICK j : j = [i EXCEPT ![t] = x]
  OBVIOUS
<1>2. PICK q : q = [r EXCEPT !.at = "comment", !.numbers = r.numbers \cup {t}]
  OBVIOUS
<1>3. TicketsOK(i) /\ RunTyped(r) /\ Phase(i, r) /\ DOMAIN r = ImportFields
  BY DEF Sound, Shape, RunTyped
<1>4. t \in r.todo /\ t \in Tickets
  BY AtHand DEF Sound
<1>5. i[t].copies = 0
  BY <1>3, <1>4 DEF Phase
<1>6. /\ DOMAIN x = TicketFields /\ x.copies = 1 /\ x.comments = 0 /\ x.closed = FALSE
      /\ x.names = BlockedBy[t] \cap r.numbers
  BY <1>5 DEF TicketFields
<1>7. TicketOK(t, x)
  BY <1>6 DEF TicketOK
<1>8. TicketsOK(j) /\ j[t] = x /\ \A u \in Tickets : u # t => j[u] = i[u]
  <2>1. Altered(i, [i EXCEPT ![t] = x], t, x)
    BY ONLY <1>3, <1>4, <1>7, OneTicket
  <2>2. QED
    BY ONLY <1>1, <2>1 DEF Altered
<1>9. Goes(r, q, "comment", r.todo, r.numbers \cup {t}, r.deferred, r.pages, r.failed)
  BY <1>2, <1>3, RunNumbers
<1>10. RunTyped(q)
  BY <1>3, <1>4, <1>9 DEF RunTyped, Goes, SameRun
<1>11. Phase(j, q)
  <2>1. r.existing \subseteq Tickets /\ r.todo \subseteq Tickets
    BY <1>3 DEF RunTyped
  <2>2. \A u \in r.todo \ r.existing : u # t => j[u].copies = 0
    BY <1>3, <1>8, <2>1 DEF Phase
  <2>3. \A u \in r.existing : j[u].copies = 1
    BY <1>3, <1>8, <2>1 DEF Phase
  <2>4. QED
    BY <1>6, <1>8, <1>9, <2>2, <2>3 DEF Phase, Goes, SameRun
<1>12. ASSUME ~ r.failed, r.undisturbed PROVE OnTrack(j, q) /\ PagesOnTrack(p, q)
  <2>1. OnTrack(i, r) /\ PagesOnTrack(p, r)
    BY <1>12 DEF Sound
  <2>2. /\ \A u \in Tickets : u \in q.numbers <=> j[u].copies = 1
        /\ \A u \in Tickets : /\ u \in r.existing => j[u] = r.remote[u]
                              /\ u \notin r.existing /\ u \notin r.todo =>
                                   Made(u, j[u]) /\ (j[u].names = BlockedBy[u] \/ u \in r.deferred)
    BY <1>4, <1>6, <1>8, <1>9, <2>1 DEF OnTrack, Goes
  <2>3. x.names = BlockedBy[t] \cap (q.numbers \ {t})
    <3>1. t \notin r.numbers
      BY <1>4, <1>5, <2>1 DEF OnTrack
    <3>2. QED
      BY <1>6, <1>9, <3>1 DEF Goes
  <2>4. OnTrack(j, q)
    BY <1>6, <1>8, <1>9, <2>2, <2>3 DEF OnTrack, Goes, SameRun
  <2>5. PagesOnTrack(p, q)
    BY <1>9, <2>1 DEF PagesOnTrack, Goes, SameRun
  <2>6. QED
    BY <2>4, <2>5
<1>13. Sound(j, p, q)
  <2>1. DOMAIN p = Pages
    BY DEF Sound
  <2>2. Shape(j, q)
    BY <1>8, <1>10, <1>11 DEF Shape
  <2>3. q.failed = r.failed /\ q.undisturbed = r.undisturbed
    BY <1>9 DEF Goes, SameRun
  <2>4. QED
    BY <1>12, <2>1, <2>2, <2>3 DEF Sound
<1>14. PassedOn(j, Past(r, "create"))
  <2>1. PICK s : s = Past(r, "create")
    OBVIOUS
  <2>2. Goes(r, s, "create", r.todo \ {t}, r.numbers, r.deferred, r.pages, r.failed)
    BY <1>3, <2>1, PastIs
  <2>3. RunTyped(s)
    BY <1>3, <2>2 DEF RunTyped, Goes, SameRun
  <2>4. Phase(j, s)
    BY <1>3, <1>8, <2>2 DEF Phase, Goes, SameRun, RunTyped
  <2>5. QED
    BY <1>8, <2>1, <2>2, <2>3, <2>4 DEF PassedOn, Shape, Goes
<1>15. QED
  BY <1>1, <1>2, <1>13, <1>14

\* The ticket at hand may change: the run passes over it in shape.
LEMMA PassesOnAltered ==
  ASSUME NEW i, NEW j, NEW r, NEW t, NEW x, Shape(i, r), r.at \in {"comment", "close"},
         t = Min(r.todo), Altered(i, j, t, x)
  PROVE  PassedOn(j, Past(r, "create"))
<1>1. TicketsOK(i) /\ RunTyped(r) /\ Phase(i, r) /\ DOMAIN r = ImportFields
  BY DEF Shape, RunTyped
<1>2. r.todo # {} /\ t \notin r.existing
  BY <1>1 DEF Phase
<1>3. t \in r.todo /\ t \in Tickets
  BY <1>2, AtHand
<1>4. TicketsOK(j) /\ \A u \in Tickets : u # t => j[u] = i[u]
  BY DEF Altered
<1>5. PICK s : s = Past(r, "create")
  OBVIOUS
<1>6. Goes(r, s, "create", r.todo \ {t}, r.numbers, r.deferred, r.pages, r.failed)
  BY <1>1, <1>5, PastIs
<1>7. RunTyped(s)
  BY <1>1, <1>6 DEF RunTyped, Goes, SameRun
<1>8. Phase(j, s)
  BY <1>1, <1>2, <1>4, <1>6 DEF Phase, Goes, SameRun, RunTyped
<1>9. QED
  BY <1>4, <1>5, <1>6, <1>7, <1>8 DEF PassedOn, Shape, Goes

\* Its comments are posted, or it has none.
LEMMA CommentIsSound ==
  ASSUME NEW i, NEW j, NEW p, NEW r, NEW t, NEW x, Sound(i, p, r), r.at = "comment",
         t = Min(r.todo), Altered(i, j, t, x),
         x.copies = i[t].copies, x.closed = i[t].closed, x.names = i[t].names,
         x.comments = IF t \in Commented THEN i[t].comments + 1 ELSE i[t].comments
  PROVE  Sound(j, p, [r EXCEPT !.at = "close"])
<1>1. TicketsOK(i) /\ RunTyped(r) /\ Phase(i, r) /\ DOMAIN r = ImportFields
  BY DEF Sound, Shape, RunTyped
<1>2. r.todo # {} /\ t \notin r.existing /\ i[t].copies = 1 /\ i[t].comments = 0
  BY <1>1 DEF Phase
<1>3. t \in r.todo /\ t \in Tickets
  BY <1>2, AtHand DEF Sound
<1>4. TicketsOK(j) /\ j[t] = x /\ \A u \in Tickets : u # t => j[u] = i[u]
  BY DEF Altered
<1>5. PICK q : q = [r EXCEPT !.at = "close"]
  OBVIOUS
<1>6. Goes(r, q, "close", r.todo, r.numbers, r.deferred, r.pages, r.failed)
  BY <1>1, <1>5, RunGoesOn
<1>7. RunTyped(q)
  BY <1>1, <1>6 DEF RunTyped, Goes, SameRun
<1>8. Phase(j, q)
  BY <1>1, <1>2, <1>3, <1>4, <1>6 DEF Phase, Goes, SameRun, RunTyped
<1>9. ASSUME ~ r.failed, r.undisturbed PROVE OnTrack(j, q) /\ PagesOnTrack(p, q)
  <2>1. OnTrack(i, r) /\ PagesOnTrack(p, r)
    BY <1>9 DEF Sound
  <2>2. x.comments = IF t \in Commented THEN 1 ELSE 0
    BY <1>2
  <2>3. /\ \A u \in Tickets : u \in q.numbers <=> j[u].copies = 1
        /\ \A u \in Tickets : /\ u \in r.existing => j[u] = r.remote[u]
                              /\ u \notin r.existing /\ u \notin r.todo =>
                                   Made(u, j[u]) /\ (j[u].names = BlockedBy[u] \/ u \in r.deferred)
    BY <1>2, <1>3, <1>4, <1>6, <2>1 DEF OnTrack, Goes
  <2>4. x.names = BlockedBy[t] \cap (r.numbers \ {t}) /\ x.closed = FALSE
    BY <2>1 DEF OnTrack
  <2>5. OnTrack(j, q)
    BY <1>4, <1>6, <2>2, <2>3, <2>4 DEF OnTrack, Goes, SameRun
  <2>6. PagesOnTrack(p, q)
    BY <1>6, <2>1 DEF PagesOnTrack, Goes, SameRun
  <2>7. QED
    BY <2>5, <2>6
<1>10. Sound(j, p, q)
  BY <1>4, <1>6, <1>7, <1>8, <1>9 DEF Sound, Shape, Goes, SameRun
<1>11. QED
  BY <1>5, <1>10

\* It is closed, or left open; deferred, if it waits for one yet to be created.
LEMMA CloseIsSound ==
  ASSUME NEW i, NEW j, NEW p, NEW r, NEW t, NEW x, NEW v, Sound(i, p, r), r.at = "close",
         t = Min(r.todo), Altered(i, j, t, x),
         x.copies = i[t].copies, x.comments = i[t].comments, x.names = i[t].names,
         t \in Closing => x.closed = TRUE, t \notin Closing => x.closed = i[t].closed,
         v = IF ~ BlockedBy[t] \subseteq r.numbers \ {t} THEN r.deferred \cup {t} ELSE r.deferred
  PROVE  Sound(j, p, [Past(r, "create") EXCEPT !.deferred = v])
<1>1. TicketsOK(i) /\ RunTyped(r) /\ Phase(i, r) /\ DOMAIN r = ImportFields
  BY DEF Sound, Shape, RunTyped
<1>2. r.todo # {} /\ t \notin r.existing /\ i[t].copies = 1
  BY <1>1 DEF Phase
<1>3. t \in r.todo /\ t \in Tickets
  BY <1>2, AtHand DEF Sound
<1>4. TicketsOK(j) /\ j[t] = x /\ \A u \in Tickets : u # t => j[u] = i[u]
  BY DEF Altered
<1>5. PICK s : s = Past(r, "create")
  OBVIOUS
<1>6. PICK q : q = [s EXCEPT !.deferred = v]
  OBVIOUS
<1>7. Goes(r, s, "create", r.todo \ {t}, r.numbers, r.deferred, r.pages, r.failed)
  BY <1>1, <1>5, PastIs
<1>8. Goes(s, q, "create", s.todo, s.numbers, v, s.pages, s.failed)
  <2>1. DOMAIN s = ImportFields /\ s.at = "create"
    BY <1>7 DEF Goes, SameRun
  <2>2. Goes(s, [s EXCEPT !.deferred = v], s.at, s.todo, s.numbers, v, s.pages, s.failed)
    BY <2>1, RunDefers
  <2>3. QED
    BY ONLY <1>6, <2>1, <2>2
<1>9. Goes(r, q, "create", r.todo \ {t}, r.numbers, v, r.pages, r.failed)
  BY ONLY <1>7, <1>8 DEF Goes, SameRun
<1>10. RunTyped(q)
  BY <1>1, <1>2, <1>3, <1>9 DEF RunTyped, Goes, SameRun
<1>11. Phase(j, q)
  BY <1>1, <1>2, <1>3, <1>4, <1>9 DEF Phase, Goes, SameRun, RunTyped
<1>12. ASSUME ~ r.failed, r.undisturbed PROVE OnTrack(j, q) /\ PagesOnTrack(p, q)
  <2>1. OnTrack(i, r) /\ PagesOnTrack(p, r)
    BY <1>12 DEF Sound
  <2>2. Made(t, x)
    <3>1. x.copies = 1 /\ x.comments = IF t \in Commented THEN 1 ELSE 0
      BY <1>2, <2>1 DEF OnTrack
    <3>2. i[t].closed = FALSE
      BY <2>1 DEF OnTrack
    <3>3. x.closed = (t \in Closing)
      <4>1. CASE t \in Closing
        <5>1. x.closed = TRUE
          BY <4>1
        <5>2. QED
          BY ONLY <4>1, <5>1, Zenon
      <4>2. CASE t \notin Closing
        <5>1. x.closed = FALSE
          BY <3>2, <4>2, Zenon
        <5>2. QED
          <6>1. (t \in Closing) = FALSE
            BY ONLY <4>2
          <6>2. QED
            BY ONLY <5>1, <6>1, Zenon
      <4>3. QED
        BY <4>1, <4>2
    <3>4. QED
      BY <3>1, <3>3 DEF Made
  <2>3. x.names = BlockedBy[t] \/ t \in v
    BY <2>1 DEF OnTrack
  <2>4. /\ \A u \in Tickets : u \in q.numbers <=> j[u].copies = 1
        /\ \A u \in Tickets : u \in r.existing => j[u] = r.remote[u]
    BY <1>2, <1>3, <1>4, <1>9, <2>1 DEF OnTrack, Goes
  <2>5. ASSUME NEW u \in Tickets, u \notin r.existing, u \notin r.todo \ {t}
        PROVE  Made(u, j[u]) /\ (j[u].names = BlockedBy[u] \/ u \in v)
    BY <1>4, <2>1, <2>2, <2>3, <2>5 DEF OnTrack
  <2>6. OnTrack(j, q)
    BY <1>9, <2>4, <2>5 DEF OnTrack, Goes, SameRun
  <2>7. PagesOnTrack(p, q)
    BY <1>9, <2>1 DEF PagesOnTrack, Goes, SameRun
  <2>8. QED
    BY <2>6, <2>7
<1>13. Sound(j, p, q)
  BY <1>4, <1>9, <1>10, <1>11, <1>12 DEF Sound, Shape, Goes, SameRun
<1>14. QED
  BY <1>5, <1>6, <1>13

(* The deferred links, and the repairs. *)

\* All that was to be created is there, if nothing went wrong.
LEMMA AllAreThere ==
  ASSUME NEW i, NEW r, Shape(i, r), OnTrack(i, r), r.at = "create", r.todo = {}
  PROVE  /\ r.numbers = Tickets
         /\ \A t \in Tickets : i[t].copies = 1
<1>1. \A t \in Tickets : i[t].copies = 1
  BY DEF Shape, Phase, OnTrack, Made
<1>2. QED
  BY <1>1 DEF Shape, RunTyped, OnTrack

\* A deferred ticket names its blockers, or has none that it can name.
LEMMA LinkIsSound ==
  ASSUME NEW i, NEW j, NEW p, NEW r, NEW t, NEW x, Sound(i, p, r), r.at = "create", r.todo = {},
         t \in r.deferred, Altered(i, j, t, x),
         x.copies = i[t].copies, x.comments = i[t].comments, x.closed = i[t].closed,
         x.names = IF BlockedBy[t] \cap r.numbers = {} THEN i[t].names ELSE BlockedBy[t] \cap r.numbers
  PROVE  Sound(j, p, [r EXCEPT !.deferred = r.deferred \ {t}])
<1>1. TicketsOK(i) /\ RunTyped(r) /\ Phase(i, r) /\ DOMAIN r = ImportFields
  BY DEF Sound, Shape, RunTyped
<1>2. t \in Tickets /\ t \notin r.existing
  BY <1>1 DEF RunTyped
<1>3. TicketsOK(j) /\ j[t] = x /\ \A u \in Tickets : u # t => j[u] = i[u]
  BY DEF Altered
<1>4. PICK q : q = [r EXCEPT !.deferred = r.deferred \ {t}]
  OBVIOUS
<1>5. Goes(r, q, "create", {}, r.numbers, r.deferred \ {t}, r.pages, r.failed)
  <2>1. PICK v : v = r.deferred \ {t}
    OBVIOUS
  <2>2. Goes(r, [r EXCEPT !.deferred = v], r.at, r.todo, r.numbers, v, r.pages, r.failed)
    BY <1>1, RunDefers
  <2>3. r.at = "create" /\ r.todo = {}
    OBVIOUS
  <2>4. QED
    BY ONLY <1>4, <2>1, <2>2, <2>3
<1>6. RunTyped(q)
  BY <1>1, <1>5 DEF RunTyped, Goes, SameRun
<1>7. Phase(j, q)
  BY <1>1, <1>2, <1>3, <1>5 DEF Phase, Goes, SameRun, RunTyped
<1>8. ASSUME ~ r.failed, r.undisturbed PROVE OnTrack(j, q) /\ PagesOnTrack(p, q)
  <2>1. OnTrack(i, r) /\ PagesOnTrack(p, r)
    BY <1>8 DEF Sound
  <2>2. r.numbers = Tickets /\ \A u \in Tickets : i[u].copies = 1
    BY <2>1, AllAreThere DEF Sound
  <2>3. Made(t, x)
    BY <1>2, <2>1, Zenon DEF OnTrack, Made
  <2>4. x.names = BlockedBy[t]
    <3>1. BlockedBy[t] \cap r.numbers = BlockedBy[t]
      BY <1>2, <2>2, ArchiveAssumption
    <3>2. i[t].names \subseteq BlockedBy[t]
      BY <1>1, <1>2 DEF TicketsOK, TicketOK
    <3>3. QED
      BY <3>1, <3>2
  <2>5. /\ \A u \in Tickets : u \in q.numbers <=> j[u].copies = 1
        /\ \A u \in Tickets : u \in r.existing => j[u] = r.remote[u]
    BY <1>2, <1>3, <1>5, <2>1, <2>2 DEF OnTrack, Goes
  <2>6. ASSUME NEW u \in Tickets, u \notin r.existing
        PROVE  Made(u, j[u]) /\ (j[u].names = BlockedBy[u] \/ u \in r.deferred \ {t})
    BY <1>3, <2>1, <2>3, <2>4, <2>6 DEF OnTrack
  <2>7. OnTrack(j, q)
    BY <1>5, <2>5, <2>6 DEF OnTrack, Goes, SameRun
  <2>8. PagesOnTrack(p, q)
    BY <1>5, <2>1 DEF PagesOnTrack, Goes, SameRun
  <2>9. QED
    BY <2>7, <2>8
<1>9. Sound(j, p, q)
  BY <1>3, <1>5, <1>6, <1>7, <1>8 DEF Sound, Shape, Goes, SameRun
<1>10. QED
  BY <1>4, <1>9

\* Once none is deferred the repairs begin, or the pages do.
LEMMA RepairsBegin ==
  ASSUME NEW i, NEW p, NEW r, Sound(i, p, r), r.at = "create", r.todo = {}, r.deferred = {}
  PROVE  Sound(i, p, [r EXCEPT !.at = IF r.repair THEN "reconcile" ELSE "pages", !.todo = r.existing])
<1>1. TicketsOK(i) /\ RunTyped(r) /\ Phase(i, r) /\ DOMAIN r = ImportFields /\ DOMAIN p = Pages
  BY DEF Sound, Shape, RunTyped
<1>2. PICK w : w = IF r.repair THEN "reconcile" ELSE "pages"
  OBVIOUS
<1>3. PICK q : q = [r EXCEPT !.at = w, !.todo = r.existing]
  OBVIOUS
<1>4. Goes(r, q, w, r.existing, r.numbers, r.deferred, r.pages, r.failed)
  BY <1>1, <1>3, RunTakes
<1>5. RunTyped(q)
  BY <1>1, <1>2, <1>4 DEF RunTyped, Goes, SameRun
<1>6. Phase(i, q)
  BY <1>1, <1>2, <1>4 DEF Phase, Goes, SameRun, RunTyped
<1>7. ASSUME ~ r.failed, r.undisturbed PROVE OnTrack(i, q) /\ PagesOnTrack(p, q)
  <2>1. OnTrack(i, r) /\ PagesOnTrack(p, r)
    BY <1>7 DEF Sound
  <2>2. r.numbers = Tickets /\ \A u \in Tickets : i[u].copies = 1
    BY <2>1, AllAreThere DEF Sound
  <2>3. \A u \in Tickets : u \notin r.existing => AsArchived(u, i[u])
    BY <2>1 DEF OnTrack, AsArchived
  <2>4. \A u \in Tickets : u \in r.existing => i[u] = r.remote[u]
    BY <2>1 DEF OnTrack
  <2>5. OnTrack(i, q)
    BY <1>2, <1>4, <2>2, <2>3, <2>4 DEF OnTrack, Goes, SameRun
  <2>6. PagesOnTrack(p, q)
    BY <1>2, <1>4, <2>1 DEF PagesOnTrack, Goes, SameRun
  <2>7. QED
    BY <2>5, <2>6
<1>8. Sound(i, p, q)
  BY <1>1, <1>4, <1>5, <1>6, <1>7 DEF Sound, Shape, Goes, SameRun
<1>9. QED
  BY ONLY <1>2, <1>3, <1>8

\* Whatever of a repair was done, the run may go on to the next in shape.
LEMMA RepairPassesOn ==
  ASSUME NEW i, NEW j, NEW r, NEW t, NEW x, Shape(i, r), r.at \in {"reconcile", "state", "body"},
         r.todo # {}, t = Min(r.todo), Altered(i, j, t, x), x.copies = i[t].copies
  PROVE  PassedOn(j, Past(r, "reconcile"))
<1>1. TicketsOK(i) /\ RunTyped(r) /\ Phase(i, r) /\ DOMAIN r = ImportFields
  BY DEF Shape, RunTyped
<1>2. t \in r.todo /\ t \in Tickets
  BY AtHand
<1>3. TicketsOK(j) /\ j[t] = x /\ \A u \in Tickets : u # t => j[u] = i[u]
  BY DEF Altered
<1>4. PICK s : s = Past(r, "reconcile")
  OBVIOUS
<1>5. Goes(r, s, "reconcile", r.todo \ {t}, r.numbers, r.deferred, r.pages, r.failed)
  BY <1>1, <1>4, PastIs
<1>6. RunTyped(s)
  BY <1>1, <1>5 DEF RunTyped, Goes, SameRun
<1>7. Phase(j, s)
  BY <1>1, <1>2, <1>3, <1>5 DEF Phase, Goes, SameRun, RunTyped
<1>8. QED
  BY <1>3, <1>4, <1>5, <1>6, <1>7 DEF PassedOn, Shape, Goes

\* A step of a repair that stays with its ticket is in shape.
LEMMA RepairStaysInShape ==
  ASSUME NEW i, NEW j, NEW r, NEW q, NEW t, NEW x, NEW w, Shape(i, r), r.at \in {"reconcile", "state"},
         r.todo # {}, t = Min(r.todo), Altered(i, j, t, x), x.copies = i[t].copies,
         w \in {"state", "body"}, Goes(r, q, w, r.todo, r.numbers, r.deferred, r.pages, r.failed)
  PROVE  Shape(j, q)
<1>1. TicketsOK(i) /\ RunTyped(r) /\ Phase(i, r)
  BY DEF Shape
<1>2. t \in r.todo /\ t \in Tickets
  BY AtHand
<1>3. TicketsOK(j) /\ j[t] = x /\ \A u \in Tickets : u # t => j[u] = i[u]
  BY DEF Altered
<1>4. RunTyped(q)
  BY <1>1 DEF RunTyped, Goes, SameRun
<1>5. Phase(j, q)
  BY <1>1, <1>2, <1>3 DEF Phase, Goes, SameRun, RunTyped
<1>6. QED
  BY <1>3, <1>4, <1>5 DEF Shape

\* Comments that are missing are posted.
LEMMA RepostIsSound ==
  ASSUME NEW i, NEW j, NEW p, NEW r, NEW t, NEW x, Sound(i, p, r), r.at = "reconcile",
         r.todo # {}, t = Min(r.todo), Altered(i, j, t, x),
         x.copies = i[t].copies, x.closed = i[t].closed, x.names = i[t].names,
         x.comments = IF t \in Commented /\ i[t].comments = 0 THEN i[t].comments + 1 ELSE i[t].comments
  PROVE  Sound(j, p, [r EXCEPT !.at = "state"])
<1>1. TicketsOK(i) /\ RunTyped(r) /\ Phase(i, r) /\ DOMAIN r = ImportFields
  BY DEF Sound, Shape, RunTyped
<1>2. t \in r.todo /\ t \in Tickets
  BY AtHand DEF Sound
<1>3. j[t] = x /\ \A u \in Tickets : u # t => j[u] = i[u]
  BY DEF Altered
<1>4. PICK q : q = [r EXCEPT !.at = "state"]
  OBVIOUS
<1>5. Goes(r, q, "state", r.todo, r.numbers, r.deferred, r.pages, r.failed)
  BY <1>1, <1>4, RunGoesOn
<1>6. Shape(j, q)
  BY <1>5, RepairStaysInShape DEF Sound
<1>7. ASSUME ~ r.failed, r.undisturbed PROVE OnTrack(j, q) /\ PagesOnTrack(p, q)
  <2>1. OnTrack(i, r) /\ PagesOnTrack(p, r)
    BY <1>7 DEF Sound
  <2>2. x.comments = IF t \in Commented THEN 1 ELSE 0
    BY <1>1, <1>2 DEF TicketsOK, TicketOK
  <2>3. r.numbers = Tickets /\ \A u \in Tickets : u \in r.numbers <=> j[u].copies = 1
    BY <1>2, <1>3, <2>1 DEF OnTrack
  <2>4. i[t] = r.remote[t]
    BY <1>2, <2>1 DEF OnTrack
  <2>5. /\ \A u \in Tickets : u \notin r.todo => AsArchived(u, j[u])
        /\ \A u \in Tickets : u \in r.todo /\ u # t => j[u] = r.remote[u]
    BY <1>2, <1>3, <2>1 DEF OnTrack
  <2>6. j[t].closed = r.remote[t].closed /\ j[t].names = r.remote[t].names
    BY <1>3, <2>4
  <2>7. OnTrack(j, q)
    BY <1>3, <1>5, <2>2, <2>3, <2>5, <2>6 DEF OnTrack, Goes, SameRun
  <2>8. PagesOnTrack(p, q)
    BY <1>5, <2>1 DEF PagesOnTrack, Goes, SameRun
  <2>9. QED
    BY <2>7, <2>8
<1>8. Sound(j, p, q)
  BY <1>5, <1>6, <1>7 DEF Sound, Goes, SameRun
<1>9. QED
  BY <1>4, <1>8

\* Its state is set, unless it was right when the run began.
LEMMA StateIsSound ==
  ASSUME NEW i, NEW j, NEW p, NEW r, NEW t, NEW x, Sound(i, p, r), r.at = "state",
         t = Min(r.todo), Altered(i, j, t, x),
         x.copies = i[t].copies, x.comments = i[t].comments, x.names = i[t].names,
         \/ x.closed = (t \in Closing)
         \/ x.closed = i[t].closed /\ r.remote[t].closed = (t \in Closing)
  PROVE  Sound(j, p, [r EXCEPT !.at = "body"])
<1>1. TicketsOK(i) /\ RunTyped(r) /\ Phase(i, r) /\ DOMAIN r = ImportFields /\ r.todo # {}
  BY DEF Sound, Shape, RunTyped, Phase
<1>2. t \in r.todo /\ t \in Tickets
  BY <1>1, AtHand DEF Sound
<1>3. j[t] = x /\ \A u \in Tickets : u # t => j[u] = i[u]
  BY DEF Altered
<1>4. PICK q : q = [r EXCEPT !.at = "body"]
  OBVIOUS
<1>5. Goes(r, q, "body", r.todo, r.numbers, r.deferred, r.pages, r.failed)
  BY <1>1, <1>4, RunGoesOn
<1>6. Shape(j, q)
  BY <1>1, <1>5, RepairStaysInShape DEF Sound
<1>7. ASSUME ~ r.failed, r.undisturbed PROVE OnTrack(j, q) /\ PagesOnTrack(p, q)
  <2>1. OnTrack(i, r) /\ PagesOnTrack(p, r)
    BY <1>7 DEF Sound
  <2>2. j[t].closed = (t \in Closing)
    <3>1. i[t].closed = r.remote[t].closed
      BY <2>1 DEF OnTrack
    <3>2. QED
      BY <1>3, <3>1, Zenon
  <2>3. r.numbers = Tickets /\ \A u \in Tickets : u \in r.numbers <=> j[u].copies = 1
    BY <1>2, <1>3, <2>1 DEF OnTrack
  <2>4. /\ j[t].comments = IF t \in Commented THEN 1 ELSE 0
        /\ j[t].names = r.remote[t].names
    BY <1>3, <2>1 DEF OnTrack
  <2>5. /\ \A u \in Tickets : u \notin r.todo => AsArchived(u, j[u])
        /\ \A u \in Tickets : u \in r.todo /\ u # t => j[u] = r.remote[u]
    BY <1>2, <1>3, <2>1 DEF OnTrack
  <2>6. OnTrack(j, q)
    BY <1>5, <2>2, <2>3, <2>4, <2>5 DEF OnTrack, Goes, SameRun
  <2>7. PagesOnTrack(p, q)
    BY <1>5, <2>1 DEF PagesOnTrack, Goes, SameRun
  <2>8. QED
    BY <2>6, <2>7
<1>8. Sound(j, p, q)
  BY <1>5, <1>6, <1>7 DEF Sound, Goes, SameRun
<1>9. QED
  BY <1>4, <1>8

\* It names its blockers, unless it did when the run began.
LEMMA BodyIsSound ==
  ASSUME NEW i, NEW j, NEW p, NEW r, NEW t, NEW x, Sound(i, p, r), r.at = "body",
         t = Min(r.todo), Altered(i, j, t, x),
         x.copies = i[t].copies, x.comments = i[t].comments, x.closed = i[t].closed,
         \/ x.names = BlockedBy[t] \cap r.numbers
         \/ x.names = i[t].names /\ BlockedBy[t] \cap r.numbers \in {{}, r.remote[t].names}
  PROVE  Sound(j, p, Past(r, "reconcile"))
<1>1. TicketsOK(i) /\ RunTyped(r) /\ Phase(i, r) /\ DOMAIN r = ImportFields /\ r.todo # {}
  BY DEF Sound, Shape, RunTyped, Phase
<1>2. t \in r.todo /\ t \in Tickets
  BY <1>1, AtHand DEF Sound
<1>3. j[t] = x /\ \A u \in Tickets : u # t => j[u] = i[u]
  BY DEF Altered
<1>4. PICK q : q = Past(r, "reconcile")
  OBVIOUS
<1>5. Goes(r, q, "reconcile", r.todo \ {t}, r.numbers, r.deferred, r.pages, r.failed)
  BY <1>1, <1>4, PastIs
<1>6. Shape(j, q)
  BY <1>1, <1>4, RepairPassesOn DEF Sound, PassedOn
<1>7. ASSUME ~ r.failed, r.undisturbed PROVE OnTrack(j, q) /\ PagesOnTrack(p, q)
  <2>1. OnTrack(i, r) /\ PagesOnTrack(p, r)
    BY <1>7 DEF Sound
  <2>2. r.numbers = Tickets /\ \A u \in Tickets : u \in r.numbers <=> j[u].copies = 1
    BY <1>2, <1>3, <2>1 DEF OnTrack
  <2>3. j[t].names = BlockedBy[t]
    <3>1. BlockedBy[t] \cap r.numbers = BlockedBy[t]
      BY <1>2, <2>2, ArchiveAssumption
    <3>2. i[t].names \subseteq BlockedBy[t] /\ i[t].names = r.remote[t].names
      BY <1>1, <1>2, <2>1 DEF TicketsOK, TicketOK, OnTrack
    <3>3. QED
      BY <1>3, <3>1, <3>2
  <2>4. AsArchived(t, j[t])
    <3>1. j[t].copies = 1 /\ j[t].comments = IF t \in Commented THEN 1 ELSE 0
      BY <1>2, <1>3, <2>1, <2>2 DEF OnTrack
    <3>2. j[t].closed = (t \in Closing)
      BY <1>3, <2>1, Zenon DEF OnTrack
    <3>3. QED
      BY <2>3, <3>1, <3>2 DEF AsArchived, Made
  <2>5. /\ \A u \in Tickets : u \notin r.todo => AsArchived(u, j[u])
        /\ \A u \in Tickets : u \in r.todo /\ u # t => j[u] = r.remote[u]
    BY <1>2, <1>3, <2>1 DEF OnTrack
  <2>6. OnTrack(j, q)
    BY <1>5, <2>2, <2>4, <2>5 DEF OnTrack, Goes, SameRun
  <2>7. PagesOnTrack(p, q)
    BY <1>5, <2>1 DEF PagesOnTrack, Goes, SameRun
  <2>8. QED
    BY <2>6, <2>7
<1>8. Sound(j, p, q)
  BY <1>5, <1>6, <1>7 DEF Sound, Goes, SameRun
<1>9. QED
  BY <1>4, <1>8

(* The actions. *)

\* An edit of one field of a ticket.
LEMMA TicketEdited ==
  ASSUME NEW x, DOMAIN x = TicketFields, NEW v
  PROVE  /\ LET y == [x EXCEPT !.comments = v]
            IN  /\ DOMAIN y = TicketFields /\ y.copies = x.copies /\ y.comments = v
                /\ y.closed = x.closed /\ y.names = x.names
         /\ LET y == [x EXCEPT !.closed = v]
            IN  /\ DOMAIN y = TicketFields /\ y.copies = x.copies /\ y.comments = x.comments
                /\ y.closed = v /\ y.names = x.names
         /\ LET y == [x EXCEPT !.names = v]
            IN  /\ DOMAIN y = TicketFields /\ y.copies = x.copies /\ y.comments = x.comments
                /\ y.closed = x.closed /\ y.names = v
BY Zenon DEF TicketFields

\* Tickets are themselves.
LEMMA SameTickets ==
  ASSUME NEW i, NEW t, TicketsOK(i)
  PROVE  Altered(i, i, t, i[t])
BY DEF Altered

\* Posting comments adds one post to a ticket and changes nothing else of it.
LEMMA Commenting ==
  ASSUME NEW i, NEW t \in Tickets, TicketsOK(i), i[t].copies = 1, i[t].comments = 0, t \in Commented
  PROVE  PostsOn(i, [i EXCEPT ![t].comments = @ + 1], t)
<1>1. DOMAIN i[t] = TicketFields /\ TicketOK(t, i[t]) /\ DOMAIN i = Tickets
  BY DEF TicketsOK, TicketOK
<1>2. PICK x : x = [i[t] EXCEPT !.comments = i[t].comments + 1]
  OBVIOUS
<1>3. /\ DOMAIN x = TicketFields /\ x.copies = i[t].copies /\ x.comments = i[t].comments + 1
      /\ x.closed = i[t].closed /\ x.names = i[t].names
  BY <1>1, <1>2, TicketEdited
<1>4. TicketOK(t, x)
  BY <1>1, <1>3 DEF TicketOK
<1>5. Altered(i, [i EXCEPT ![t] = x], t, x)
  BY <1>4, OneTicket
<1>6. [i EXCEPT ![t].comments = @ + 1] = [i EXCEPT ![t] = x]
  BY <1>1, <1>2
<1>7. QED
  BY <1>3, <1>5, <1>6 DEF PostsOn

\* Setting its state changes nothing else.
LEMMA Stating ==
  ASSUME NEW i, NEW t \in Tickets, TicketsOK(i), NEW v
  PROVE  ClosesOn(i, [i EXCEPT ![t].closed = v], t, v)
<1>1. DOMAIN i[t] = TicketFields /\ TicketOK(t, i[t]) /\ DOMAIN i = Tickets
  BY DEF TicketsOK, TicketOK
<1>2. PICK x : x = [i[t] EXCEPT !.closed = v]
  OBVIOUS
<1>3. /\ DOMAIN x = TicketFields /\ x.copies = i[t].copies /\ x.comments = i[t].comments
      /\ x.closed = v /\ x.names = i[t].names
  BY <1>1, <1>2, TicketEdited
<1>4. TicketOK(t, x)
  BY <1>1, <1>3 DEF TicketOK
<1>5. Altered(i, [i EXCEPT ![t] = x], t, x)
  BY <1>4, OneTicket
<1>6. [i EXCEPT ![t].closed = v] = [i EXCEPT ![t] = x]
  BY <1>1, <1>2
<1>7. QED
  BY <1>3, <1>5, <1>6 DEF ClosesOn

\* Nor does naming its blockers.
LEMMA Naming ==
  ASSUME NEW i, NEW t \in Tickets, TicketsOK(i), NEW v, v \subseteq BlockedBy[t]
  PROVE  NamesOn(i, [i EXCEPT ![t].names = v], t, v)
<1>1. DOMAIN i[t] = TicketFields /\ TicketOK(t, i[t]) /\ DOMAIN i = Tickets
  BY DEF TicketsOK, TicketOK
<1>2. PICK x : x = [i[t] EXCEPT !.names = v]
  OBVIOUS
<1>3. /\ DOMAIN x = TicketFields /\ x.copies = i[t].copies /\ x.comments = i[t].comments
      /\ x.closed = i[t].closed /\ x.names = v
  BY <1>1, <1>2, TicketEdited
<1>4. TicketOK(t, x)
  BY <1>1, <1>3 DEF TicketOK
<1>5. Altered(i, [i EXCEPT ![t] = x], t, x)
  BY <1>4, OneTicket
<1>6. [i EXCEPT ![t].names = v] = [i EXCEPT ![t] = x]
  BY <1>1, <1>2
<1>7. QED
  BY <1>3, <1>5, <1>6 DEF NamesOn

\* Creating what the tracker lacks, or passing over what it has.
LEMMA CreateKeeps ==
  ASSUME Sound(issue, page, import), NEW t \in Tickets, Create(t)
  PROVE  Sound(issue, page, import)'
<1>1. /\ import.at = "create" /\ import.todo # {} /\ t = Min(import.todo)
      /\ Shape(issue, import)
  BY DEF Create, At, Sound
<1>2. CASE t \in import.existing
  <2>1. import' = Past(import, "create") /\ issue' = issue /\ page' = page
    BY <1>2 DEF Create, ToCreate, ImportGoes
  <2>2. Sound(issue, page, Past(import, "create"))
    BY <1>1, <1>2, SkipIsSound
  <2>3. QED
    BY <2>1, <2>2
<1>3. CASE t \notin import.existing
  <2>1. PICK b : b = (t \in import.labels)
    OBVIOUS
  <2>2. PICK x : x = [copies |-> issue[t].copies + 1, comments |-> 0, closed |-> FALSE,
                      names |-> BlockedBy[t] \cap import.numbers, label |-> b]
    OBVIOUS
  <2>3. Call([issue EXCEPT ![t] = x],
             [import EXCEPT !.at = "comment", !.numbers = import.numbers \cup {t}],
             Past(import, "create"))
    <3>1. t \in DOMAIN issue /\ DOMAIN import = ImportFields
      BY <1>1 DEF Shape, TicketsOK, RunTyped
    <3>2. /\ [issue EXCEPT ![t] = [copies |-> @.copies + 1, comments |-> 0, closed |-> FALSE,
                  names |-> BlockerLine(t), label |-> t \in import.labels]] = [issue EXCEPT ![t] = x]
          /\ [import EXCEPT !.at = "comment", !.numbers = @ \union {t}]
             = [import EXCEPT !.at = "comment", !.numbers = import.numbers \cup {t}]
      BY <2>1, <2>2, <3>1 DEF BlockerLine, ImportFields
    <3>3. QED
      BY <1>3, <3>2 DEF Create, ToCreate
  <2>4. /\ Sound([issue EXCEPT ![t] = x], page,
                 [import EXCEPT !.at = "comment", !.numbers = import.numbers \cup {t}])
        /\ PassedOn([issue EXCEPT ![t] = x], Past(import, "create"))
    BY <1>1, <1>3, <2>2, CreateIsSound
  <2>5. PassedOn(issue, Past(import, "create"))
    BY <1>1, PassesOn
  <2>6. QED
    BY <2>3, <2>4, <2>5, CallKeeps
<1>4. QED
  BY <1>2, <1>3

\* Posting the comments of a ticket just created.
LEMMA PostCommentKeeps ==
  ASSUME Sound(issue, page, import), NEW t \in Tickets, PostComment(t)
  PROVE  Sound(issue, page, import)'
<1>1. /\ import.at = "comment" /\ import.todo # {} /\ t = Min(import.todo)
      /\ Shape(issue, import) /\ TicketsOK(issue)
  BY DEF PostComment, At, Sound, Shape
<1>2. CASE t \notin Commented
  <2>1. import' = [import EXCEPT !.at = "close"] /\ issue' = issue /\ page' = page
    BY <1>2 DEF PostComment, ImportGoes
  <2>2. Altered(issue, issue, t, issue[t])
    BY <1>1, SameTickets
  <2>3. Sound(issue, page, [import EXCEPT !.at = "close"])
    BY <1>1, <1>2, <2>2, CommentIsSound
  <2>4. QED
    BY <2>1, <2>3
<1>3. CASE t \in Commented
  <2>1. issue[t].copies = 1 /\ issue[t].comments = 0
    BY <1>1 DEF Shape, Phase
  <2>2. PICK d : d = [issue EXCEPT ![t].comments = @ + 1]
    OBVIOUS
  <2>3. PICK x : /\ Altered(issue, d, t, x)
                 /\ x.copies = issue[t].copies /\ x.comments = issue[t].comments + 1
                 /\ x.closed = issue[t].closed /\ x.names = issue[t].names
    <3>1. PostsOn(issue, [issue EXCEPT ![t].comments = @ + 1], t)
      BY <1>1, <1>3, <2>1, Commenting
    <3>2. QED
      BY ONLY <2>2, <3>1 DEF PostsOn
  <2>4. Call(d, [import EXCEPT !.at = "close"], Past(import, "create"))
    BY <1>3, <2>2 DEF PostComment
  <2>5. Sound(d, page, [import EXCEPT !.at = "close"])
    BY <1>1, <1>3, <2>3, CommentIsSound
  <2>6. PassedOn(d, Past(import, "create"))
    BY <1>1, <2>3, PassesOnAltered
  <2>7. PassedOn(issue, Past(import, "create"))
    BY <1>1, PassesOn
  <2>8. QED
    BY <2>4, <2>5, <2>6, <2>7, CallKeeps
<1>4. QED
  BY <1>2, <1>3

\* Closing it, and deferring it if it waits.
LEMMA CloseKeeps ==
  ASSUME Sound(issue, page, import), NEW t \in Tickets, Close(t)
  PROVE  Sound(issue, page, import)'
<1>1. /\ import.at = "close" /\ import.todo # {} /\ t = Min(import.todo)
      /\ Shape(issue, import) /\ TicketsOK(issue) /\ DOMAIN import = ImportFields
  BY DEF Close, At, Sound, Shape, RunTyped
<1>2. PICK v : v = IF ~ BlockedBy[t] \subseteq import.numbers \ {t}
                   THEN import.deferred \cup {t} ELSE import.deferred
  OBVIOUS
<1>3. PICK on : on = [Past(import, "create") EXCEPT !.deferred = v]
  OBVIOUS
<1>4. [Past(import, "create") EXCEPT !.deferred = IF Waits(t) THEN @ \union {t} ELSE @] = on
  <2>1. Past(import, "create").deferred = import.deferred
    BY <1>1, PastIs DEF Goes
  <2>2. PICK s : s = Past(import, "create")
    OBVIOUS
  <2>3. [s EXCEPT !.deferred = IF Waits(t) THEN @ \union {t} ELSE @] = [s EXCEPT !.deferred = v]
    BY ONLY <1>2, <2>1, <2>2 DEF Waits
  <2>4. QED
    BY ONLY <1>3, <2>2, <2>3
<1>5. CASE t \notin Closing
  <2>1. import' = on /\ issue' = issue /\ page' = page
    BY <1>4, <1>5 DEF Close, ImportGoes
  <2>2. Altered(issue, issue, t, issue[t])
    BY <1>1, SameTickets
  <2>3. Sound(issue, page, on)
    BY <1>1, <1>2, <1>3, <1>5, <2>2, CloseIsSound
  <2>4. QED
    BY <2>1, <2>3
<1>6. CASE t \in Closing
  <2>1. PICK d : d = [issue EXCEPT ![t].closed = TRUE]
    OBVIOUS
  <2>2. PICK x : /\ Altered(issue, d, t, x)
                 /\ x.copies = issue[t].copies /\ x.comments = issue[t].comments
                 /\ x.closed = TRUE /\ x.names = issue[t].names
    <3>1. ClosesOn(issue, [issue EXCEPT ![t].closed = TRUE], t, TRUE)
      BY <1>1, Stating
    <3>2. QED
      BY ONLY <2>1, <3>1 DEF ClosesOn
  <2>3. Call(d, on, Past(import, "create"))
    BY <1>4, <1>6, <2>1 DEF Close
  <2>4. Sound(d, page, on)
    BY <1>1, <1>2, <1>3, <1>6, <2>2, CloseIsSound
  <2>5. PassedOn(d, Past(import, "create"))
    BY <1>1, <2>2, PassesOnAltered
  <2>6. PassedOn(issue, Past(import, "create"))
    BY <1>1, PassesOn
  <2>7. QED
    BY <2>3, <2>4, <2>5, <2>6, CallKeeps
<1>7. QED
  BY <1>5, <1>6

\* Posting the comments a ticket lacks.
LEMMA RepairCommentKeeps ==
  ASSUME Sound(issue, page, import), NEW t \in Tickets, RepairComment(t)
  PROVE  Sound(issue, page, import)'
<1>1. /\ import.at = "reconcile" /\ import.todo # {} /\ t = Min(import.todo)
      /\ Shape(issue, import) /\ TicketsOK(issue)
  BY DEF RepairComment, At, Sound, Shape
<1>2. Altered(issue, issue, t, issue[t])
  BY <1>1, SameTickets
<1>3. CASE ~ Reposts(t)
  <2>1. import' = [import EXCEPT !.at = "state"] /\ issue' = issue /\ page' = page
    BY <1>3 DEF RepairComment, ImportGoes
  <2>2. Sound(issue, page, [import EXCEPT !.at = "state"])
    BY <1>1, <1>2, <1>3, RepostIsSound DEF Reposts
  <2>3. QED
    BY <2>1, <2>2
<1>4. CASE Reposts(t)
  <2>1. t \in Commented /\ issue[t].comments = 0
    BY <1>4 DEF Reposts
  <2>2. issue[t].copies = 1
    BY <1>1, AtHand DEF Shape, Phase
  <2>3. PICK d : d = [issue EXCEPT ![t].comments = @ + 1]
    OBVIOUS
  <2>4. PICK x : /\ Altered(issue, d, t, x)
                 /\ x.copies = issue[t].copies /\ x.comments = issue[t].comments + 1
                 /\ x.closed = issue[t].closed /\ x.names = issue[t].names
    <3>1. PostsOn(issue, [issue EXCEPT ![t].comments = @ + 1], t)
      BY <1>1, <2>1, <2>2, Commenting
    <3>2. QED
      BY ONLY <2>3, <3>1 DEF PostsOn
  <2>5. Call(d, [import EXCEPT !.at = "state"], Past(import, "reconcile"))
    BY <1>4, <2>3 DEF RepairComment
  <2>6. Sound(d, page, [import EXCEPT !.at = "state"])
    BY <1>1, <2>1, <2>4, RepostIsSound
  <2>7. PassedOn(d, Past(import, "reconcile")) /\ PassedOn(issue, Past(import, "reconcile"))
    BY <1>1, <1>2, <2>4, RepairPassesOn
  <2>8. QED
    BY <2>5, <2>6, <2>7, CallKeeps
<1>5. QED
  BY <1>3, <1>4

\* Setting the state it should have.
LEMMA RepairStateKeeps ==
  ASSUME Sound(issue, page, import), NEW t \in Tickets, RepairState(t)
  PROVE  Sound(issue, page, import)'
<1>1. /\ import.at = "state" /\ import.todo # {} /\ t = Min(import.todo)
      /\ Shape(issue, import) /\ TicketsOK(issue)
  BY DEF RepairState, At, Sound, Shape
<1>2. Altered(issue, issue, t, issue[t])
  BY <1>1, SameTickets
<1>3. CASE import.remote[t].closed = (t \in Closing)
  <2>1. import' = [import EXCEPT !.at = "body"] /\ issue' = issue /\ page' = page
    BY <1>3 DEF RepairState, ImportGoes
  <2>2. Sound(issue, page, [import EXCEPT !.at = "body"])
    BY <1>1, <1>2, <1>3, StateIsSound
  <2>3. QED
    BY <2>1, <2>2
<1>4. CASE import.remote[t].closed # (t \in Closing)
  <2>1. PICK b : b = (t \in Closing)
    OBVIOUS
  <2>2. PICK d : d = [issue EXCEPT ![t].closed = b]
    OBVIOUS
  <2>3. PICK x : /\ Altered(issue, d, t, x)
                 /\ x.copies = issue[t].copies /\ x.comments = issue[t].comments
                 /\ x.closed = b /\ x.names = issue[t].names
    <3>1. ClosesOn(issue, [issue EXCEPT ![t].closed = b], t, b)
      BY <1>1, Stating
    <3>2. QED
      BY ONLY <2>2, <3>1 DEF ClosesOn
  <2>4. Call(d, [import EXCEPT !.at = "body"], Past(import, "reconcile"))
    BY <1>4, <2>1, <2>2 DEF RepairState
  <2>5. Sound(d, page, [import EXCEPT !.at = "body"])
    BY <1>1, <2>1, <2>3, StateIsSound
  <2>6. PassedOn(d, Past(import, "reconcile")) /\ PassedOn(issue, Past(import, "reconcile"))
    BY <1>1, <1>2, <2>3, RepairPassesOn
  <2>7. QED
    BY <2>4, <2>5, <2>6, CallKeeps
<1>5. QED
  BY <1>3, <1>4

\* Writing the blockers it should name.
LEMMA RepairBodyKeeps ==
  ASSUME Sound(issue, page, import), NEW t \in Tickets, RepairBody(t)
  PROVE  Sound(issue, page, import)'
<1>1. /\ import.at = "body" /\ import.todo # {} /\ t = Min(import.todo)
      /\ Shape(issue, import) /\ TicketsOK(issue)
  BY DEF RepairBody, At, Sound, Shape
<1>2. Altered(issue, issue, t, issue[t])
  BY <1>1, SameTickets
<1>3. CASE BlockerLine(t) \in {{}, import.remote[t].names}
  <2>1. import' = Past(import, "reconcile") /\ issue' = issue /\ page' = page
    BY <1>3 DEF RepairBody, ImportGoes
  <2>2. Sound(issue, page, Past(import, "reconcile"))
    BY <1>1, <1>2, <1>3, BodyIsSound DEF BlockerLine
  <2>3. QED
    BY <2>1, <2>2
<1>4. CASE BlockerLine(t) \notin {{}, import.remote[t].names}
  <2>1. PICK v : v = BlockedBy[t] \cap import.numbers
    OBVIOUS
  <2>2. PICK d : d = [issue EXCEPT ![t].names = v]
    OBVIOUS
  <2>3. PICK x : /\ Altered(issue, d, t, x)
                 /\ x.copies = issue[t].copies /\ x.comments = issue[t].comments
                 /\ x.closed = issue[t].closed /\ x.names = v
    <3>1. NamesOn(issue, [issue EXCEPT ![t].names = v], t, v)
      BY <1>1, <2>1, Naming
    <3>2. QED
      BY ONLY <2>2, <3>1 DEF NamesOn
  <2>4. Call(d, Past(import, "reconcile"), Past(import, "reconcile"))
    BY <1>4, <2>1, <2>2 DEF RepairBody, BlockerLine
  <2>5. Sound(d, page, Past(import, "reconcile"))
    BY <1>1, <2>1, <2>3, BodyIsSound
  <2>6. PassedOn(d, Past(import, "reconcile")) /\ PassedOn(issue, Past(import, "reconcile"))
    BY <1>1, <1>2, <2>3, RepairPassesOn
  <2>7. QED
    BY <2>4, <2>5, <2>6, CallKeeps
<1>5. QED
  BY <1>3, <1>4

\* Linking what was deferred, and beginning the repairs.
LEMMA LinkDeferredKeeps ==
  ASSUME Sound(issue, page, import), LinkDeferred
  PROVE  Sound(issue, page, import)'
<1>1. /\ import.at = "create" /\ import.todo = {}
      /\ Shape(issue, import) /\ TicketsOK(issue) /\ DOMAIN import = ImportFields
      /\ import.deferred \subseteq Tickets
  BY DEF LinkDeferred, Sound, Shape, RunTyped
<1>2. CASE import.deferred = {}
  <2>1. /\ import' = [import EXCEPT !.at = IF import.repair THEN "reconcile" ELSE "pages",
                                    !.todo = import.existing]
        /\ issue' = issue /\ page' = page
    BY <1>2 DEF LinkDeferred, ImportGoes
  <2>2. Sound(issue, page, [import EXCEPT !.at = IF import.repair THEN "reconcile" ELSE "pages",
                                          !.todo = import.existing])
    BY <1>1, <1>2, RepairsBegin
  <2>3. QED
    BY ONLY <2>1, <2>2
<1>3. CASE import.deferred # {}
  <2>1. PICK t : t = Min(import.deferred)
    OBVIOUS
  <2>2. t \in import.deferred /\ t \in Tickets
    BY <1>1, <1>3, <2>1, LeastIsMin, ArchiveAssumption
  <2>3. PICK on : on = [import EXCEPT !.deferred = import.deferred \ {t}]
    OBVIOUS
  <2>4. [import EXCEPT !.deferred = @ \ {t}] = on
    BY <2>3
  <2>5. IF BlockerLine(t) = {} THEN ImportGoes(on)
        ELSE Call([issue EXCEPT ![t].names = BlockerLine(t)], on, on)
    BY <1>3, <2>1, <2>4 DEF LinkDeferred
  <2>6. CASE BlockerLine(t) = {}
    <3>1. import' = on /\ issue' = issue /\ page' = page
      BY <2>5, <2>6 DEF ImportGoes
    <3>2. Altered(issue, issue, t, issue[t])
      BY <1>1, SameTickets
    <3>3. Sound(issue, page, on)
      BY <1>1, <2>2, <2>3, <2>6, <3>2, LinkIsSound DEF BlockerLine
    <3>4. QED
      BY <3>1, <3>3
  <2>7. CASE BlockerLine(t) # {}
    <3>1. PICK v : v = BlockedBy[t] \cap import.numbers
      OBVIOUS
    <3>2. PICK d : d = [issue EXCEPT ![t].names = v]
      OBVIOUS
    <3>3. PICK x : /\ Altered(issue, d, t, x)
                   /\ x.copies = issue[t].copies /\ x.comments = issue[t].comments
                   /\ x.closed = issue[t].closed /\ x.names = v
      <4>1. NamesOn(issue, [issue EXCEPT ![t].names = v], t, v)
        BY <1>1, <2>2, <3>1, Naming
      <4>2. QED
        BY ONLY <3>2, <4>1 DEF NamesOn
    <3>4. Call(d, on, on)
      BY <2>5, <2>7, <3>1, <3>2 DEF BlockerLine
    <3>5. Sound(d, page, on)
      BY <1>1, <2>2, <2>3, <2>7, <3>1, <3>3, LinkIsSound DEF BlockerLine
    <3>6. on.at # "labels"
      <4>1. on.at = import.at
        BY <1>1, <2>3 DEF ImportFields
      <4>2. QED
        BY <1>1, <4>1
    <3>7. PassedOn(d, on)
      BY <3>5, <3>6 DEF Sound, PassedOn
    <3>8. PassedOn(issue, on)
      <4>1. Goes(import, on, import.at, import.todo, import.numbers, import.deferred \ {t},
                 import.pages, import.failed)
        <5>1. PICK w : w = import.deferred \ {t}
          OBVIOUS
        <5>2. Goes(import, [import EXCEPT !.deferred = w], import.at, import.todo, import.numbers, w,
                   import.pages, import.failed)
          BY <1>1, RunDefers
        <5>3. QED
          BY ONLY <2>3, <5>1, <5>2
      <4>2. RunTyped(on)
        BY <1>1, <4>1 DEF Shape, RunTyped, Goes, SameRun
      <4>3. Phase(issue, on)
        BY <1>1, <4>1 DEF Shape, Phase, Goes, SameRun
      <4>4. QED
        BY <1>1, <3>6, <4>2, <4>3 DEF PassedOn, Shape
    <3>9. QED
      BY <3>4, <3>5, <3>7, <3>8, CallKeeps
  <2>8. QED
    BY <2>6, <2>7
<1>4. QED
  BY <1>2, <1>3

\* The end of the repairs.
LEMMA RepairedKeeps ==
  ASSUME Sound(issue, page, import), Repaired
  PROVE  Sound(issue, page, import)'
<1>1. /\ import.at = "reconcile" /\ import.todo = {} /\ DOMAIN import = ImportFields
      /\ TicketsOK(issue) /\ RunTyped(import) /\ Phase(issue, import) /\ DOMAIN page = Pages
      /\ import' = [import EXCEPT !.at = "pages"] /\ issue' = issue /\ page' = page
  BY DEF Repaired, ImportGoes, Sound, Shape, RunTyped
<1>2. PICK q : q = [import EXCEPT !.at = "pages"]
  OBVIOUS
<1>3. Goes(import, q, "pages", import.todo, import.numbers, import.deferred, import.pages, import.failed)
  BY <1>1, <1>2, RunGoesOn
<1>4. RunTyped(q) /\ Phase(issue, q)
  BY <1>1, <1>3 DEF RunTyped, Phase, Goes, SameRun
<1>5. ASSUME ~ import.failed, import.undisturbed PROVE OnTrack(issue, q) /\ PagesOnTrack(page, q)
  <2>1. OnTrack(issue, import) /\ PagesOnTrack(page, import)
    BY <1>5 DEF Sound
  <2>2. OnTrack(issue, q)
    BY <1>1, <1>3, <2>1 DEF OnTrack, Goes, SameRun
  <2>3. PagesOnTrack(page, q)
    BY <1>1, <1>3, <2>1 DEF PagesOnTrack, Goes, SameRun
  <2>4. QED
    BY <2>2, <2>3
<1>6. Sound(issue, page, q)
  BY <1>1, <1>3, <1>4, <1>5 DEF Sound, Shape, Goes, SameRun
<1>7. QED
  BY ONLY <1>1, <1>2, <1>6

\* The end of the run.
LEMMA FinishKeeps ==
  ASSUME Sound(issue, page, import), Finish
  PROVE  Sound(issue, page, import)'
<1>1. /\ import.at = "pages" /\ import.pages = {} /\ DOMAIN import = ImportFields
      /\ TicketsOK(issue) /\ RunTyped(import) /\ Phase(issue, import) /\ DOMAIN page = Pages
      /\ import' = [import EXCEPT !.at = "idle"] /\ issue' = issue /\ page' = page
  BY DEF Finish, ImportGoes, Sound, Shape, RunTyped
<1>2. PICK q : q = [import EXCEPT !.at = "idle"]
  OBVIOUS
<1>3. Goes(import, q, "idle", import.todo, import.numbers, import.deferred, import.pages, import.failed)
  BY <1>1, <1>2, RunGoesOn
<1>4. RunTyped(q) /\ Phase(issue, q)
  BY <1>1, <1>3 DEF RunTyped, Phase, Goes, SameRun
<1>5. ASSUME ~ import.failed, import.undisturbed PROVE OnTrack(issue, q) /\ PagesOnTrack(page, q)
  <2>1. OnTrack(issue, import) /\ PagesOnTrack(page, import)
    BY <1>5 DEF Sound
  <2>2. OnTrack(issue, q)
    BY <1>1, <1>3, <2>1 DEF OnTrack, Goes, SameRun
  <2>3. PagesOnTrack(page, q)
    BY <1>1, <1>3, <2>1 DEF PagesOnTrack, Goes, SameRun
  <2>4. QED
    BY <2>2, <2>3
<1>6. Sound(issue, page, q)
  BY <1>1, <1>3, <1>4, <1>5 DEF Sound, Shape, Goes, SameRun
<1>7. QED
  BY ONLY <1>1, <1>2, <1>6

\* The labels, before anything is created.
LEMMA LabelsKeep ==
  ASSUME Sound(issue, page, import), Labels
  PROVE  Sound(issue, page, import)'
<1>1. /\ import.at = "labels" /\ DOMAIN import = ImportFields /\ import.failed = FALSE
      /\ TicketsOK(issue) /\ RunTyped(import) /\ Phase(issue, import) /\ DOMAIN page = Pages
      /\ issue' = issue /\ page' = page
  BY DEF Labels, Sound, Shape, RunTyped, Phase
<1>2. PICK l, f : import' = [import EXCEPT !.at = "create", !.labels = l, !.failed = f]
  BY DEF Labels
<1>3. PICK q : q = [import EXCEPT !.at = "create", !.labels = l, !.failed = f]
  OBVIOUS
<1>4. Goes(import, q, "create", import.todo, import.numbers, import.deferred, import.pages, f)
  BY <1>1, <1>3, Zenon DEF ImportFields, SameRun, Goes
<1>5. RunTyped(q) /\ Phase(issue, q)
  BY <1>1, <1>4 DEF RunTyped, Phase, Goes, SameRun
<1>6. ASSUME import.undisturbed PROVE OnTrack(issue, q) /\ PagesOnTrack(page, q)
  <2>1. OnTrack(issue, import) /\ PagesOnTrack(page, import)
    BY <1>1, <1>6 DEF Sound
  <2>2. OnTrack(issue, q)
    BY <1>1, <1>4, <2>1 DEF OnTrack, Goes, SameRun
  <2>3. PagesOnTrack(page, q)
    BY <1>1, <1>4, <2>1 DEF PagesOnTrack, Goes, SameRun
  <2>4. QED
    BY <2>2, <2>3
<1>7. Sound(issue, page, q)
  BY <1>1, <1>4, <1>5, <1>6 DEF Sound, Shape, Goes, SameRun
<1>8. QED
  BY ONLY <1>1, <1>2, <1>3, <1>7

\* The start of a run takes the tracker as it is.
LEMMA StartKeeps ==
  ASSUME Sound(issue, page, import), NEW repair, Start(repair)
  PROVE  Sound(issue, page, import)'
<1>1. TicketsOK(issue) /\ DOMAIN page = Pages /\ issue' = issue /\ page' = page
  BY DEF Start, Sound, Shape
<1>2. PICK there : there = {t \in Tickets : issue[t].copies > 0}
  OBVIOUS
<1>3. PICK q : q = [at |-> "labels", repair |-> repair, existing |-> there,
                    remote |-> issue, index |-> {p \in Pages : page[p] # "absent"},
                    numbers |-> there, labels |-> {}, deferred |-> {},
                    todo |-> Tickets, pages |-> Pages, failed |-> FALSE, undisturbed |-> TRUE]
  OBVIOUS
<1>4. import' = q
  BY <1>2, <1>3 DEF Start
<1>5. /\ DOMAIN q = ImportFields /\ q.at = "labels" /\ q.existing = there /\ q.remote = issue
      /\ q.index = {p \in Pages : page[p] # "absent"} /\ q.numbers = there /\ q.deferred = {}
      /\ q.todo = Tickets /\ q.pages = Pages /\ q.failed = FALSE /\ q.undisturbed = TRUE
  BY <1>3 DEF ImportFields
<1>6. there \subseteq Tickets /\ \A t \in Tickets : /\ t \in there <=> issue[t].copies = 1
                                                    /\ t \notin there => issue[t].copies = 0
  BY <1>1, <1>2 DEF TicketsOK, TicketOK
<1>7. RunTyped(q) /\ Phase(issue, q)
  BY <1>5, <1>6 DEF RunTyped, Phase
<1>8. OnTrack(issue, q)
  BY <1>5, <1>6 DEF OnTrack
<1>9. PagesOnTrack(page, q)
  BY <1>5 DEF PagesOnTrack
<1>10. Sound(issue, page, q)
  BY <1>1, <1>7, <1>8, <1>9 DEF Sound, Shape
<1>11. QED
  BY ONLY <1>1, <1>4, <1>10

\* A run that dies has failed.
LEMMA ImportDiesKeeps ==
  ASSUME Sound(issue, page, import), ImportDies
  PROVE  Sound(issue, page, import)'
<1>1. /\ TicketsOK(issue) /\ RunTyped(import) /\ DOMAIN page = Pages /\ DOMAIN import = ImportFields
      /\ issue' = issue /\ page' = page /\ import' = [import EXCEPT !.at = "idle", !.failed = TRUE]
  BY DEF ImportDies, Sound, Shape, RunTyped
<1>2. PICK q : q = [import EXCEPT !.at = "idle", !.failed = TRUE]
  OBVIOUS
<1>3. Goes(import, q, "idle", import.todo, import.numbers, import.deferred, import.pages, TRUE)
  BY <1>1, <1>2, Zenon DEF ImportFields, SameRun, Goes
<1>4. RunTyped(q) /\ Phase(issue, q)
  BY <1>1, <1>3 DEF RunTyped, Phase, Goes, SameRun
<1>5. Sound(issue, page, q)
  BY <1>1, <1>3, <1>4 DEF Sound, Shape, Goes
<1>6. QED
  BY ONLY <1>1, <1>2, <1>5

\* People's work on a ticket: the run is in shape, and knows itself disturbed.
LEMMA DisturbedIsSound ==
  ASSUME NEW i, NEW j, NEW p, NEW g, NEW r, Sound(i, p, r), DOMAIN g = Pages, TicketsOK(j),
         \A t \in Tickets : j[t].copies = i[t].copies /\ j[t].comments = i[t].comments
  PROVE  Sound(j, g, [r EXCEPT !.undisturbed = FALSE])
<1>1. RunTyped(r) /\ Phase(i, r) /\ DOMAIN r = ImportFields
  BY DEF Sound, Shape, RunTyped
<1>2. PICK q : q = [r EXCEPT !.undisturbed = FALSE]
  OBVIOUS
<1>3. /\ DOMAIN q = ImportFields /\ q.repair = r.repair /\ q.existing = r.existing
      /\ q.at = r.at /\ q.todo = r.todo /\ q.numbers = r.numbers
      /\ q.deferred = r.deferred /\ q.failed = r.failed /\ q.undisturbed = FALSE
  BY <1>1, <1>2, Zenon DEF ImportFields
<1>4. RunTyped(q)
  BY <1>1, <1>3 DEF RunTyped
<1>5. Phase(j, q)
  <2>1. r.existing \subseteq Tickets /\ r.todo \subseteq Tickets
    BY <1>1 DEF RunTyped
  <2>2. r.todo # {} => Min(r.todo) \in Tickets
    BY AtHand DEF Sound
  <2>3. QED
    BY <1>1, <1>3, <2>1, <2>2 DEF Phase
<1>6. Sound(j, g, q)
  BY <1>3, <1>4, <1>5 DEF Sound, Shape
<1>7. QED
  BY <1>2, <1>6

\* People's work on tickets and pages.
LEMMA ImportWorkKeeps ==
  ASSUME Sound(issue, page, import), ImportWork
  PROVE  Sound(issue, page, import)'
<1>1. TicketsOK(issue) /\ DOMAIN page = Pages /\ import' = [import EXCEPT !.undisturbed = FALSE]
  BY DEF ImportWork, Sound, Shape
<1> DEFINE Kept ==
      /\ DOMAIN page' = Pages /\ TicketsOK(issue')
      /\ \A u \in Tickets : issue'[u].copies = issue[u].copies /\ issue'[u].comments = issue[u].comments
<1>2. Kept
  <2>1. CASE \E p \in Pages : page' = [page EXCEPT ![p] = "edited"] /\ issue' = issue
    BY <1>1, <2>1
  <2>2. ASSUME NEW t \in Tickets, issue' = [issue EXCEPT ![t].closed = ~ @], page' = page
        PROVE  Kept
    <3>1. PICK v : v = ~ issue[t].closed
      OBVIOUS
    <3>2. issue' = [issue EXCEPT ![t].closed = v]
      BY <2>2, <3>1
    <3>3. ClosesOn(issue, issue', t, v)
      <4>1. ClosesOn(issue, [issue EXCEPT ![t].closed = v], t, v)
        BY <1>1, Stating
      <4>2. QED
        BY ONLY <3>2, <4>1
    <3>4. QED
      BY <1>1, <2>2, <3>3 DEF ClosesOn, Altered
  <2>3. ASSUME NEW t \in Tickets, issue' = [issue EXCEPT ![t].names = {}], page' = page
        PROVE  Kept
    <3>1. PICK v : v = {}
      OBVIOUS
    <3>2. issue' = [issue EXCEPT ![t].names = v]
      BY <2>3, <3>1
    <3>3. NamesOn(issue, issue', t, v)
      <4>1. NamesOn(issue, [issue EXCEPT ![t].names = v], t, v)
        BY <1>1, <3>1, Naming
      <4>2. QED
        BY ONLY <3>2, <4>1
    <3>4. QED
      BY <1>1, <2>3, <3>3 DEF NamesOn, Altered
  <2>4. QED
    BY <2>1, <2>2, <2>3 DEF ImportWork
<1>3. Sound(issue', page', [import EXCEPT !.undisturbed = FALSE])
  BY <1>2, DisturbedIsSound
<1>4. QED
  BY ONLY <1>1, <1>3

\* Writing a page, or leaving it.
LEMMA WritePageKeeps ==
  ASSUME Sound(issue, page, import), NEW p \in Pages, WritePage(p)
  PROVE  Sound(issue, page, import)'
<1>1. /\ import.at = "pages" /\ p \in import.pages /\ DOMAIN import = ImportFields /\ issue' = issue
      /\ TicketsOK(issue) /\ RunTyped(import) /\ Phase(issue, import) /\ DOMAIN page = Pages
  BY DEF WritePage, Sound, Shape, RunTyped
<1>2. PICK on : on = [import EXCEPT !.pages = @ \ {p}]
  OBVIOUS
<1>3. Goes(import, on, "pages", import.todo, import.numbers, import.deferred, import.pages \ {p}, import.failed)
  <2>1. PICK v : v = import.pages \ {p}
    OBVIOUS
  <2>2. on = [import EXCEPT !.pages = v]
    BY <1>2, <2>1
  <2>3. Goes(import, [import EXCEPT !.pages = v], import.at, import.todo, import.numbers,
             import.deferred, v, import.failed)
    BY <1>1, RunWrites
  <2>4. QED
    BY ONLY <1>1, <2>1, <2>2, <2>3
<1>4. PICK refused : refused = (p \notin import.index /\ page[p] # "absent")
  OBVIOUS
<1>5. \/ Writes(p) /\ page' = [page EXCEPT ![p] = "archive"] /\ import' = on
      \/ page' \in {page, [page EXCEPT ![p] = "archive"]} /\ import' = [on EXCEPT !.failed = TRUE]
      \/ ~ Writes(p) /\ import' = [on EXCEPT !.failed = @ \/ refused] /\ page' = page
  BY <1>2, <1>4 DEF WritePage
<1>6. DOMAIN page' = Pages
  BY <1>1, <1>5
<1>7. PassedOn(issue, on)
  <2>1. RunTyped(on) /\ Phase(issue, on)
    BY <1>1, <1>3 DEF RunTyped, Phase, Goes, SameRun
  <2>2. QED
    BY <1>1, <1>3, <2>1 DEF PassedOn, Shape, Goes
<1>8. ASSUME ~ import.failed, import.undisturbed
      PROVE  /\ OnTrack(issue, on)
             /\ page[p] = "archive" => PagesOnTrack(page, on)
             /\ PagesOnTrack([page EXCEPT ![p] = "archive"], on)
             /\ ~ import.repair => PagesOnTrack(page, on)
  <2>1. OnTrack(issue, import) /\ PagesOnTrack(page, import)
    BY <1>8 DEF Sound
  <2>2. OnTrack(issue, on)
    BY <1>1, <1>3, <2>1 DEF OnTrack, Goes, SameRun
  <2>3. QED
    BY <1>1, <1>3, <2>1, <2>2 DEF PagesOnTrack, Goes, SameRun
<1>9. CASE Writes(p) /\ page' = [page EXCEPT ![p] = "archive"] /\ import' = on
  BY <1>1, <1>3, <1>6, <1>7, <1>8, <1>9 DEF Sound, PassedOn, Goes, SameRun
<1>10. CASE page' \in {page, [page EXCEPT ![p] = "archive"]} /\ import' = [on EXCEPT !.failed = TRUE]
  BY <1>1, <1>6, <1>7, <1>10, FailedIsSound
<1>11. CASE ~ Writes(p) /\ import' = [on EXCEPT !.failed = @ \/ refused] /\ page' = page
  <2>1. PICK v : v = (on.failed \/ refused)
    OBVIOUS
  <2>2. PICK q : q = [on EXCEPT !.failed = v]
    OBVIOUS
  <2>3. import' = q
    BY <1>11, <2>1, <2>2
  <2>4. Goes(on, q, on.at, on.todo, on.numbers, on.deferred, on.pages, v)
    BY <1>3, <2>2, RunFails DEF Goes, SameRun
  <2>5. Shape(issue, q)
    BY <1>7, <2>4 DEF PassedOn, Shape, RunTyped, Phase, Goes, SameRun
  <2>6. ASSUME ~ v, q.undisturbed PROVE OnTrack(issue, q) /\ PagesOnTrack(page, q)
    <3>1. ~ import.failed /\ import.undisturbed /\ ~ refused
      BY <1>3, <2>1, <2>4, <2>6 DEF Goes, SameRun
    <3>2. PagesOnTrack(page, import)
      BY <3>1 DEF Sound
    <3>3. page[p] = "archive" \/ ~ import.repair
      BY <1>1, <1>4, <1>11, <3>1, <3>2 DEF Writes, PagesOnTrack
    <3>4. OnTrack(issue, on) /\ PagesOnTrack(page, on)
      BY <1>8, <3>1, <3>3
    <3>5. QED
      BY <2>4, <3>4 DEF OnTrack, PagesOnTrack, Goes, SameRun
  <2>7. Sound(issue, page, q)
    BY <1>1, <2>4, <2>5, <2>6 DEF Sound, Goes
  <2>8. QED
    BY ONLY <1>1, <1>11, <2>3, <2>7
<1>12. QED
  BY <1>5, <1>9, <1>10, <1>11

\* Every step of the runs and of people keeps what is so of the import.
LEMMA ImportStays == ASSUME ImportInv, [ImportNext]_importVars PROVE ImportInv'
<1>1. Sound(issue, page, import) /\ CountsOK
  BY DEF ImportInv
<1>2. CountsOK'
  BY <1>1, CountsStay
<1>3. CASE UNCHANGED importVars
  BY <1>1, <1>2, <1>3 DEF importVars, ImportInv
<1>4. CASE ImportNext
  BY <1>1, <1>2, <1>4, StartKeeps, LabelsKeep, LinkDeferredKeeps, RepairedKeeps, FinishKeeps,
     ImportDiesKeeps, ImportWorkKeeps, CreateKeeps, PostCommentKeeps, CloseKeeps,
     RepairCommentKeeps, RepairStateKeeps, RepairBodyKeeps, WritePageKeeps DEF ImportNext, ImportInv
<1>5. QED
  BY <1>3, <1>4

(* What a run without the flag leaves alone. *)

\* A call that is about one ticket leaves every other.
LEMMA CallLeaves ==
  ASSUME NEW t, CallsOn(t)
  PROVE  page' = page /\ \A u \in DOMAIN issue : u # t => issue'[u] = issue[u]
<1>1. PICK x, o, f : Call([issue EXCEPT ![t] = x], o, f)
  BY DEF CallsOn
<1>2. PICK d : d = [issue EXCEPT ![t] = x]
  OBVIOUS
<1>3. page' = page /\ (issue' = d \/ issue' = issue)
  BY <1>1, <1>2, CallEnds
<1>4. QED
  BY <1>2, <1>3

\* A step of a run without the flag leaves what was there when it began.
LEMMA ApplyLeaves == ASSUME ImportInv, [ImportNext]_importVars PROVE LeavesWhatExists
<1>1. SUFFICES ASSUME import.at # "idle", ~ import.repair, edits' = edits
               PROVE  LeftAlone
  BY DEF LeavesWhatExists, LeftAlone
<1>2. /\ DOMAIN issue = Tickets /\ import.existing \subseteq Tickets /\ DOMAIN page = Pages
      /\ Shape(issue, import) /\ import.deferred \subseteq Tickets \ import.existing
      /\ import.at \notin {"reconcile", "state", "body"}
      /\ import.at \in {"comment", "close"} => Min(import.todo) \notin import.existing
      /\ edits \in Nat
  BY <1>1 DEF ImportInv, Sound, Shape, TicketsOK, RunTyped, Phase, CountsOK
<1>3. issue' = issue /\ page' = page => LeftAlone
  BY DEF LeftAlone
<1>4. ASSUME NEW t \in Tickets, Create(t) PROVE LeftAlone
  <2>1. CASE t \in import.existing
    BY <1>3, <1>4, <2>1 DEF Create, ToCreate, ImportGoes
  <2>2. CASE t \notin import.existing
    <3>1. CallsOn(t)
      BY <1>4, <2>2 DEF Create, ToCreate, CallsOn
    <3>2. QED
      BY <1>2, <2>2, <3>1, CallLeaves DEF LeftAlone
  <2>3. QED
    BY <2>1, <2>2
<1>5. ASSUME NEW t \in Tickets, PostComment(t) \/ Close(t) PROVE LeftAlone
  <2>1. t \notin import.existing
    BY <1>2, <1>5 DEF PostComment, Close, At
  <2>2. (issue' = issue /\ page' = page) \/ CallsOn(t)
    BY <1>5 DEF PostComment, Close, ImportGoes, CallsOn
  <2>3. QED
    BY <1>2, <1>3, <2>1, <2>2, CallLeaves DEF LeftAlone
<1>6. CASE LinkDeferred
  <2>1. CASE import.deferred = {}
    BY <1>3, <1>6, <2>1 DEF LinkDeferred, ImportGoes
  <2>2. CASE import.deferred # {}
    <3>1. PICK t : t = Min(import.deferred)
      OBVIOUS
    <3>2. t \notin import.existing
      BY <1>2, <2>2, <3>1, LeastIsMin, ArchiveAssumption
    <3>3. (issue' = issue /\ page' = page) \/ CallsOn(t)
      BY <1>6, <2>2, <3>1 DEF LinkDeferred, ImportGoes, CallsOn
    <3>4. QED
      BY <1>2, <1>3, <3>2, <3>3, CallLeaves DEF LeftAlone
  <2>3. QED
    BY <2>1, <2>2
<1>7. ASSUME NEW t \in Tickets, RepairComment(t) \/ RepairState(t) \/ RepairBody(t) PROVE FALSE
  BY <1>2, <1>7 DEF RepairComment, RepairState, RepairBody, At
<1>8. ASSUME NEW p \in Pages, WritePage(p) PROVE LeftAlone
  <2>1. issue' = issue
    BY <1>8 DEF WritePage
  <2>2. page' = page \/ (page[p] = "absent" /\ page' = [page EXCEPT ![p] = "archive"])
    BY <1>1, <1>8 DEF WritePage, Writes
  <2>3. QED
    BY <1>2, <2>1, <2>2 DEF LeftAlone
<1>9. CASE ImportWork
  BY <1>1, <1>2, <1>9 DEF ImportWork
<1>10. QED
  <2>1. CASE UNCHANGED importVars
    BY <1>3, <2>1 DEF importVars
  <2>2. CASE \E repair \in BOOLEAN : Start(repair)
    BY <1>3, <2>2 DEF Start
  <2>3. CASE Labels \/ Repaired \/ Finish \/ ImportDies
    BY <1>3, <2>3 DEF Labels, Repaired, Finish, ImportDies, ImportGoes
  <2>4. QED
    BY <1>4, <1>5, <1>6, <1>7, <1>8, <1>9, <2>1, <2>2, <2>3 DEF ImportNext

-----------------------------------------------------------------------------
(* Sums over the tickets of a tracker (TrackerDrill).  A sum is a recursive  *)
(* function on the subsets of a set; a smallest counterexample stands in for *)
(* an induction.                                                             *)

\* A set of subsets of a finite set has one of which no smaller one is in it.
LEMMA SmallestSubset ==
  ASSUME NEW S, IsFiniteSet(S), NEW B, B \subseteq SUBSET S, B # {}
  PROVE  \E T \in B : \A U \in SUBSET T : U # T => U \notin B
<1>1. B \subseteq FiniteSubsetsOf(S)
  BY FS_Subset DEF FiniteSubsetsOf
<1>2. PICK R : R = StrictSubsetOrdering(S)
  OBVIOUS
<1>3. IsWellFoundedOn(R, FiniteSubsetsOf(S))
  BY <1>2, FS_StrictSubsetOrderingWellFounded
<1>4. PICK T \in B : \A U \in B : ~ (<<U, T>> \in R)
  BY <1>1, <1>3, WFMin
<1>5. ASSUME NEW U \in SUBSET T, U # T, U \in B PROVE FALSE
  <2>1. <<U, T>> \in StrictSubsetOrdering(S)
    BY <1>1, <1>5 DEF StrictSubsetOrdering, FiniteSubsetsOf
  <2>2. QED
    BY <1>2, <1>4, <1>5, <2>1
<1>6. QED
  BY <1>4, <1>5

\* The element a sum over a set adds first, and the sums over the subsets of S.
First(T) == CHOOSE x \in T : TRUE
IsSum(c, S, f) ==
    f = [T \in SUBSET S |-> IF T = {} THEN 0
                            ELSE c.issues[First(T)].comments + f[T \ {First(T)}]]
SumOn(c, S) == CHOOSE f : IsSum(c, S, f)

\* What the audit adds up is such a sum.
LEMMA CommentsAreSums == ASSUME NEW c, NEW S PROVE Comments(c, S) = SumOn(c, S)[S]
BY DEF Comments, MapThenSumSet, MapThenFoldSet, IsSum, SumOn, First

\* The first element of a set is one, and without it the set is smaller.
LEMMA FirstIsIn == ASSUME NEW T, T # {} PROVE First(T) \in T
BY DEF First

\* Nothing adds up to 0.
LEMMA SumOfNone ==
  ASSUME NEW c, NEW S, NEW f, IsSum(c, S, f)
  PROVE  f[{}] = 0
BY DEF IsSum

\* More than nothing adds up to the first one's and the sum of the others.
LEMMA SumOfMore ==
  ASSUME NEW c, NEW S, NEW f, IsSum(c, S, f), NEW T \in SUBSET S, T # {}
  PROVE  f[T] = c.issues[First(T)].comments + f[T \ {First(T)}]
BY DEF IsSum

\* Two of them agree on what both are about.
LEMMA SumsAgree ==
  ASSUME NEW c, NEW S, NEW V, NEW f, NEW g, IsSum(c, S, f), IsSum(c, V, g), IsFiniteSet(V), V \subseteq S
  PROVE  \A U \in SUBSET V : f[U] = g[U]
<1> DEFINE B == {U \in SUBSET V : f[U] # g[U]}
<1>1. SUFFICES ASSUME B # {} PROVE FALSE
  OBVIOUS
<1>2. B \subseteq SUBSET V
  OBVIOUS
<1>3. PICK T \in B : \A U \in SUBSET T : U # T => U \notin B
  <2> HIDE DEF B
  <2> QED BY <1>1, <1>2, SmallestSubset
<1>4. T # {}
  BY <1>3, SumOfNone
<1>5. PICK x : x = First(T) /\ x \in T
  BY <1>4, FirstIsIn
<1>6. T \ {x} \in SUBSET T /\ T \ {x} # T /\ T \ {x} \in SUBSET V
  BY <1>3, <1>5
<1>7. f[T \ {x}] = g[T \ {x}]
  BY <1>3, <1>6
<1>s. T \in SUBSET V /\ T \in SUBSET S
  BY <1>2, <1>3
<1>8. f[T] = c.issues[x].comments + f[T \ {x}]
  BY <1>4, <1>5, <1>s, SumOfMore
<1>9. g[T] = c.issues[x].comments + g[T \ {x}]
  BY <1>4, <1>5, <1>s, SumOfMore
<1>10. QED
  BY <1>3, <1>7, <1>8, <1>9

\* There is one for every finite set.
LEMMA SumExists ==
  ASSUME NEW c, NEW S, IsFiniteSet(S)
  PROVE  IsSum(c, S, SumOn(c, S))
<1> DEFINE B == {U \in SUBSET S : ~ IsSum(c, U, SumOn(c, U))}
<1>1. SUFFICES ASSUME B # {} PROVE FALSE
  OBVIOUS
<1>2. B \subseteq SUBSET S
  OBVIOUS
<1>3. PICK T \in B : \A U \in SUBSET T : U # T => U \notin B
  <2> HIDE DEF B
  <2> QED BY <1>1, <1>2, SmallestSubset
<1>4. \A U \in SUBSET T : U # T => IsSum(c, U, SumOn(c, U)) /\ IsFiniteSet(U)
  BY <1>3, FS_Subset
<1> DEFINE F == [U \in SUBSET T |->
                   IF U = {} THEN 0
                   ELSE c.issues[First(U)].comments + SumOn(c, U \ {First(U)})[U \ {First(U)}]]
<1>5. ASSUME NEW U \in SUBSET T, U # T PROVE F[U] = SumOn(c, U)[U]
  <2>1. IsSum(c, U, SumOn(c, U))
    BY <1>4, <1>5
  <2>2. CASE U = {}
    BY <2>1, <2>2, SumOfNone
  <2>3. CASE U # {}
    <3>1. PICK x : x = First(U) /\ x \in U
      BY <2>3, FirstIsIn
    <3>2. F[U] = c.issues[x].comments + SumOn(c, U \ {x})[U \ {x}]
      BY <2>3, <3>1
    <3>3. SumOn(c, U)[U] = c.issues[x].comments + SumOn(c, U)[U \ {x}]
      BY <2>1, <2>3, <3>1, SumOfMore
    <3>4. U \ {x} \in SUBSET T /\ U \ {x} # T /\ U \ {x} \subseteq U
      BY <1>5, <3>1
    <3>5. IsSum(c, U \ {x}, SumOn(c, U \ {x})) /\ IsFiniteSet(U \ {x})
      BY <1>4, <3>4
    <3>6. SumOn(c, U)[U \ {x}] = SumOn(c, U \ {x})[U \ {x}]
      BY <2>1, <3>4, <3>5, SumsAgree
    <3>7. QED
      BY <3>2, <3>3, <3>6
  <2>4. QED
    BY <2>2, <2>3
<1>6. ASSUME NEW U \in SUBSET T, U # {}
      PROVE  SumOn(c, U \ {First(U)})[U \ {First(U)}] = F[U \ {First(U)}]
  <2>1. First(U) \in U
    BY <1>6, FirstIsIn
  <2>2. U \ {First(U)} \in SUBSET T /\ U \ {First(U)} # T
    BY <1>6, <2>1
  <2>3. QED
    BY <1>5, <2>2
<1>7. F = [U \in SUBSET T |-> IF U = {} THEN 0
                              ELSE c.issues[First(U)].comments + F[U \ {First(U)}]]
  BY <1>6
<1>8. IsSum(c, T, F)
  <2> HIDE DEF F
  <2> QED BY <1>7 DEF IsSum
<1>9. IsSum(c, T, SumOn(c, T))
  <2> HIDE DEF F
  <2> QED BY <1>8 DEF SumOn
<1>10. QED
  BY <1>3, <1>9

\* So a sum is the first element's and the sum over the others.
LEMMA SumUnfolds ==
  ASSUME NEW c, NEW S, IsFiniteSet(S)
  PROVE  /\ Comments(c, {}) = 0
         /\ S # {} => /\ First(S) \in S
                      /\ Comments(c, S) = c.issues[First(S)].comments + Comments(c, S \ {First(S)})
<1>1. Comments(c, {}) = 0
  <2>1. IsSum(c, {}, SumOn(c, {}))
    BY FS_EmptySet, SumExists
  <2>2. QED
    BY <2>1, CommentsAreSums, SumOfNone
<1>2. ASSUME S # {}
      PROVE  Comments(c, S) = c.issues[First(S)].comments + Comments(c, S \ {First(S)})
  <2>1. PICK V : V = S \ {First(S)}
    OBVIOUS
  <2>2. IsFiniteSet(V) /\ V \subseteq S
    BY <2>1, FS_Subset
  <2>3. IsSum(c, S, SumOn(c, S)) /\ IsSum(c, V, SumOn(c, V))
    BY <2>2, SumExists
  <2>4. SumOn(c, S)[S] = c.issues[First(S)].comments + SumOn(c, S)[V]
    BY <1>2, <2>1, <2>3, SumOfMore
  <2>5. SumOn(c, S)[V] = SumOn(c, V)[V]
    BY <2>2, <2>3, SumsAgree
  <2>6. QED
    BY <2>1, <2>4, <2>5, CommentsAreSums
<1>3. QED
  BY <1>1, <1>2, FirstIsIn

\* Sums of counts none of which is smaller are no smaller, and equal only if
\* every count is.
LEMMA SumsCompare ==
  ASSUME NEW d, NEW s, NEW S, IsFiniteSet(S),
         \A n \in S : /\ d.issues[n].comments \in Int /\ s.issues[n].comments \in Int
                      /\ d.issues[n].comments <= s.issues[n].comments
  PROVE  /\ Comments(d, S) \in Int /\ Comments(s, S) \in Int
         /\ Comments(d, S) <= Comments(s, S)
         /\ Comments(d, S) = Comments(s, S) => \A n \in S : d.issues[n].comments = s.issues[n].comments
<1> DEFINE Good(U) ==
      /\ Comments(d, U) \in Int /\ Comments(s, U) \in Int /\ Comments(d, U) <= Comments(s, U)
      /\ Comments(d, U) = Comments(s, U) => \A n \in U : d.issues[n].comments = s.issues[n].comments
<1> DEFINE B == {U \in SUBSET S : ~ Good(U)}
<1>1. SUFFICES ASSUME B # {} PROVE FALSE
  OBVIOUS
<1>2. B \subseteq SUBSET S
  OBVIOUS
<1>3. PICK T \in B : \A U \in SUBSET T : U # T => U \notin B
  <2> HIDE DEF B
  <2> QED BY <1>1, <1>2, SmallestSubset
<1>4. T \in SUBSET S /\ ~ Good(T) /\ IsFiniteSet(T)
  BY <1>3, FS_Subset
<1>5. CASE T = {}
  <2>1. Comments(d, {}) = 0 /\ Comments(s, {}) = 0
    BY FS_EmptySet, SumUnfolds
  <2>2. Good({})
    BY <2>1
  <2>3. QED
    <3> HIDE DEF Good, B
    <3> QED BY <1>4, <1>5, <2>2
<1>6. CASE T # {}
  <2>1. PICK x : x = First(T) /\ x \in T
    BY <1>6, FirstIsIn
  <2>2. PICK U : U = T \ {x}
    OBVIOUS
  <2>3. Good(U)
    BY <1>3, <1>4, <2>1, <2>2
  <2>4. /\ Comments(d, T) = d.issues[x].comments + Comments(d, U)
        /\ Comments(s, T) = s.issues[x].comments + Comments(s, U)
    <3> HIDE DEF Good, B
    <3> QED BY <1>4, <1>6, <2>1, <2>2, SumUnfolds
  <2>5. /\ d.issues[x].comments \in Int /\ s.issues[x].comments \in Int
        /\ d.issues[x].comments <= s.issues[x].comments
    BY <1>4, <2>1
  <2>6. PICK a, b, p, q : /\ a = d.issues[x].comments /\ b = s.issues[x].comments
                          /\ p = Comments(d, U) /\ q = Comments(s, U)
    OBVIOUS
  <2>7. a \in Int /\ b \in Int /\ p \in Int /\ q \in Int /\ a <= b /\ p <= q
    BY <2>3, <2>5, <2>6
  <2>8. a + p \in Int /\ b + q \in Int /\ a + p <= b + q /\ (a + p = b + q => a = b /\ p = q)
    BY <2>7
  <2>9. a + p = b + q => \A n \in T : d.issues[n].comments = s.issues[n].comments
    BY <2>1, <2>2, <2>3, <2>6, <2>8
  <2>10. QED
    BY <1>4, <2>4, <2>6, <2>8, <2>9
<1>7. QED
  BY <1>5, <1>6

-----------------------------------------------------------------------------
(* The tracker's drill (TrackerDrill).                                       *)

\* A tracker's contents, those of a scratch directory, and the drill's own state.
ContentFields == {"issues", "pages", "labels", "users"}
DrillTicketFields == {"text", "comments", "assets"}

DrillTicketOK(x) == DOMAIN x = DrillTicketFields /\ x.comments \in Int

ContentsOK(c) ==
    /\ DOMAIN c = ContentFields
    /\ DOMAIN c.issues \subseteq Numbers /\ \A n \in DOMAIN c.issues : DrillTicketOK(c.issues[n])
    /\ c.pages \subseteq PageNames /\ c.labels \subseteq PageNames /\ c.users \in Int

ScratchFields == {"payload", "marker", "foreign", "audit", "auditSource", "drillRecord"}

DrillFields == {"at", "keep", "named", "problem", "restored", "source", "exit"}

DrillOK(d) == DOMAIN d = DrillFields /\ d.exit \in {"none", "pass", "fail", "refused"}

\* A directory with what is not the drill's has no mark of the drill.
ScratchOK(s) == DOMAIN s = ScratchFields /\ (s.foreign => ~ s.marker)

DrillInv ==
    /\ ContentsOK(source) /\ ContentsOK(dump) /\ ContentsOK(copy)
    /\ DrillOK(drill) /\ ScratchOK(scratch)

\* What was in the directory before the drill is there after each of its steps.
ForeignStays == scratch.foreign => scratch'.foreign

\* An empty scratch directory is one a drill may begin with.
LEMMA EmptyIs ==
  /\ ScratchOK(Empty) /\ ~ Empty.foreign /\ ScratchOK([Empty EXCEPT !.foreign = TRUE])
  /\ ScratchOK([Empty EXCEPT !.payload = TRUE]) /\ ScratchOK([Empty EXCEPT !.payload = TRUE, !.marker = TRUE])
BY DEF Empty, ScratchOK, ScratchFields

\* What the tracker holds to begin with is contents.
LEMMA WholeIs == ContentsOK(Whole)
BY DEF Whole, ContentsOK, ContentFields, DrillTicketOK, DrillTicketFields

\* The drill begins idle, over contents.
LEMMA DrillInitInv == DrillInit => DrillInv
<1> SUFFICES ASSUME DrillInit PROVE DrillInv
  OBVIOUS
<1>1. ContentsOK(source) /\ ContentsOK(dump) /\ ContentsOK(copy)
  BY WholeIs DEF DrillInit
<1>2. ScratchOK(scratch)
  BY EmptyIs DEF DrillInit
<1>3. DrillOK(drill)
  BY DEF DrillInit, DrillOK, DrillFields
<1>4. QED
  BY <1>1, <1>2, <1>3 DEF DrillInv

\* What is so of the drill gives its types.
LEMMA DrillInvGives == DrillInv => DrillTypeOK
BY DEF DrillInv, DrillTypeOK, ContentsOK, DrillOK

\* One field of a tracker's contents.
LEMMA ContentsEdited ==
  ASSUME NEW c, ContentsOK(c)
  PROVE  /\ \A v : /\ DOMAIN v \subseteq Numbers /\ \A n \in DOMAIN v : DrillTicketOK(v[n])
                  => ContentsOK([c EXCEPT !.issues = v])
         /\ \A v : v \subseteq PageNames => ContentsOK([c EXCEPT !.pages = v])
         /\ \A v : v \subseteq PageNames => ContentsOK([c EXCEPT !.labels = v])
         /\ \A v \in Int : ContentsOK([c EXCEPT !.users = v])
BY DEF ContentsOK, ContentFields

\* An edit of contents is contents.
LEMMA EditsAreContents ==
  ASSUME NEW c, ContentsOK(c), NEW e \in Edits(c)
  PROVE  ContentsOK(e)
<1>1. /\ DOMAIN c.issues \subseteq Numbers /\ c.pages \subseteq PageNames /\ c.labels \subseteq PageNames
      /\ DOMAIN c = ContentFields /\ \A n \in DOMAIN c.issues : DrillTicketOK(c.issues[n])
  BY DEF ContentsOK
<1>2. CASE e \in TicketsLost(c)
  <2>1. PICK n : e = [c EXCEPT !.issues = [m \in DOMAIN @ \ {n} |-> @[m]]]
    BY <1>2 DEF TicketsLost
  <2>2. PICK v : v = [m \in DOMAIN c.issues \ {n} |-> c.issues[m]]
    OBVIOUS
  <2>3. /\ e = [c EXCEPT !.issues = v] /\ DOMAIN v \subseteq Numbers
        /\ \A m \in DOMAIN v : DrillTicketOK(v[m])
    BY <1>1, <2>1, <2>2
  <2>4. ContentsOK([c EXCEPT !.issues = v])
    BY <2>3, ContentsEdited
  <2>5. QED
    BY <2>3, <2>4
<1>3. CASE e \in TicketsEdited(c)
  <2>1. PICK n \in DOMAIN c.issues, t \in Ticket : e = [c EXCEPT !.issues[n] = t]
    BY <1>3 DEF TicketsEdited, Variants
  <2>2. PICK v : v = [c.issues EXCEPT ![n] = t]
    OBVIOUS
  <2>a. DrillTicketOK(t)
    BY DEF Ticket, DrillTicketOK, DrillTicketFields
  <2>3. /\ e = [c EXCEPT !.issues = v] /\ DOMAIN v \subseteq Numbers
        /\ \A m \in DOMAIN v : DrillTicketOK(v[m])
    BY <1>1, <2>1, <2>2, <2>a
  <2>4. ContentsOK([c EXCEPT !.issues = v])
    BY <2>3, ContentsEdited
  <2>5. QED
    BY <2>3, <2>4
<1>4. CASE e \in PagesFlipped(c)
  <2>1. PICK x \in PageNames : e = [c EXCEPT !.pages = Flip(@, x)]
    BY <1>4 DEF PagesFlipped
  <2>2. PICK v : v = Flip(c.pages, x)
    OBVIOUS
  <2>3. e = [c EXCEPT !.pages = v] /\ v \subseteq PageNames
    BY <1>1, <2>1, <2>2 DEF Flip
  <2>4. QED
    BY <2>3, ContentsEdited
<1>5. CASE e \in LabelsFlipped(c)
  <2>1. PICK x \in PageNames : e = [c EXCEPT !.labels = Flip(@, x)]
    BY <1>5 DEF LabelsFlipped
  <2>2. PICK v : v = Flip(c.labels, x)
    OBVIOUS
  <2>3. e = [c EXCEPT !.labels = v] /\ v \subseteq PageNames
    BY <1>1, <2>1, <2>2 DEF Flip
  <2>4. QED
    BY <2>3, ContentsEdited
<1>6. CASE \E u \in {0, 1, 2} : e = [c EXCEPT !.users = u]
  BY <1>6, ContentsEdited
<1>7. QED
  BY <1>2, <1>3, <1>4, <1>5, <1>6 DEF Edits

\* So is what a restored instance makes of a dump.
LEMMA ServedIsContents ==
  ASSUME NEW c, ContentsOK(c), NEW e \in Served(c)
  PROVE  ContentsOK(e)
<1>1. /\ DOMAIN c.issues \subseteq Numbers /\ DOMAIN c = ContentFields
      /\ \A n \in DOMAIN c.issues : DrillTicketOK(c.issues[n])
  BY DEF ContentsOK
<1>2. CASE e \in Moved(c)
  <2>1. PICK m, n : /\ e = [c EXCEPT !.issues[m].comments = @ - 1, !.issues[n].comments = @ + 1]
                    /\ m # n /\ m \in DOMAIN c.issues /\ n \in DOMAIN c.issues
    BY <1>2 DEF Moved
  <2>2. PICK x, y : /\ x = [c.issues[m] EXCEPT !.comments = @ - 1]
                    /\ y = [c.issues[n] EXCEPT !.comments = @ + 1]
    OBVIOUS
  <2>3. DrillTicketOK(x) /\ DrillTicketOK(y)
    <3>1. DrillTicketOK(c.issues[m]) /\ DrillTicketOK(c.issues[n])
      BY <1>1, <2>1
    <3>2. QED
      BY <2>2, <3>1 DEF DrillTicketOK, DrillTicketFields
  <2>4. PICK v : v = [c.issues EXCEPT ![m] = x, ![n] = y]
    OBVIOUS
  <2>5. e = [c EXCEPT !.issues = v]
    BY <1>1, <2>1, <2>2, <2>4 DEF ContentFields
  <2>6. DOMAIN v \subseteq Numbers /\ \A k \in DOMAIN v : DrillTicketOK(v[k])
    BY <1>1, <2>3, <2>4
  <2>7. QED
    BY <2>5, <2>6, ContentsEdited
<1>3. QED
  BY <1>2, EditsAreContents DEF Served

\* Every step of the drill and of the tracker's work keeps it.
LEMMA DrillStays == ASSUME DrillInv, [DrillNext]_drillVars PROVE DrillInv'
<1>1. /\ ContentsOK(source) /\ ContentsOK(dump) /\ ContentsOK(copy)
      /\ DrillOK(drill) /\ ScratchOK(scratch)
  BY DEF DrillInv
<1>2. ContentsOK(source') /\ ContentsOK(dump') /\ ContentsOK(copy')
  <2>1. CASE UNCHANGED <<source, dump, copy>>
    BY <1>1, <2>1
  <2>2. CASE Begin
    BY <1>1, <2>2, WholeIs DEF Begin
  <2>3. CASE DumpRows
    BY <1>1, <2>3 DEF DumpRows
  <2>4. CASE DumpRepositories
    <3>1. ContentsOK([dump EXCEPT !.pages = source.pages])
      BY <1>1, ContentsEdited DEF ContentsOK
    <3>2. QED
      BY <1>1, <2>4, <3>1 DEF DumpRepositories
  <2>5. CASE StartInstance
    BY <1>1, <2>5, ServedIsContents DEF StartInstance
  <2>6. CASE DrillWork
    BY <1>1, <2>6, EditsAreContents DEF DrillWork
  <2>7. QED
    BY <2>1, <2>2, <2>3, <2>4, <2>5, <2>6
       DEF DrillNext, Extract, AuditCopy, AuditSource, Conclude, drillVars
<1>3. DrillOK(drill')
  <2>1. CASE UNCHANGED drill
    BY <1>1, <2>1
  <2>2. CASE Begin
    <3>1. PICK w, k, n, x : /\ drill' = [at |-> w, keep |-> k, named |-> n, problem |-> FALSE,
                                      restored |-> "not run", source |-> "not run", exit |-> x]
                            /\ x \in {"none", "refused"}
      <4>1. PICK k \in BOOLEAN, n \in BOOLEAN, take \in BOOLEAN, versions \in BOOLEAN :
              drill' = [at |-> IF ~ versions THEN "idle" ELSE IF take THEN "rows" ELSE "extract",
                        keep |-> k, named |-> n, problem |-> FALSE,
                        restored |-> "not run", source |-> "not run",
                        exit |-> IF versions THEN "none" ELSE "refused"]
        BY <2>2, Zenon DEF Begin
      <4>2. PICK w, x : /\ w = IF ~ versions THEN "idle" ELSE IF take THEN "rows" ELSE "extract"
                        /\ x = IF versions THEN "none" ELSE "refused"
        OBVIOUS
      <4>3. x \in {"none", "refused"}
        BY <4>2
      <4>4. QED
        BY <4>1, <4>2, <4>3, Zenon
    <3>2. DOMAIN drill' = DrillFields /\ drill'.exit = x
      BY <3>1 DEF DrillFields
    <3>3. QED
      BY <3>1, <3>2 DEF DrillOK
  <2>3. ASSUME \E w : drill' = [drill EXCEPT !.at = w] PROVE DrillOK(drill')
    BY <1>1, <2>3 DEF DrillOK, DrillFields
  <2>4. CASE DrillDies \/ drill' = Refused \/ drill' = [drill EXCEPT !.at = "stop", !.problem = TRUE]
    BY <1>1, <2>4 DEF DrillDies, Refused, DrillOK, DrillFields
  <2>5. ASSUME \E w, v : drill' = [drill EXCEPT !.at = w, !.restored = v] PROVE DrillOK(drill')
    BY <1>1, <2>5 DEF DrillOK, DrillFields
  <2>6. ASSUME \E w, v : drill' = [drill EXCEPT !.at = w, !.source = v] PROVE DrillOK(drill')
    BY <1>1, <2>6 DEF DrillOK, DrillFields
  <2>7. CASE Conclude
    BY <1>1, <2>7 DEF Conclude, DrillGoes, DrillOK, DrillFields
  <2>8. CASE AuditCopy
    <3>1. \/ drill' = Refused \/ drill' = [drill EXCEPT !.at = "stop", !.problem = TRUE]
          \/ \E w, v : drill' = [drill EXCEPT !.at = w, !.restored = v]
      BY <2>8 DEF AuditCopy, DrillGoes
    <3>2. QED
      BY <2>4, <2>5, <3>1
  <2>9. CASE AuditSource
    <3>1. \/ drill' = [drill EXCEPT !.at = "stop", !.problem = TRUE]
          \/ \E w, v : drill' = [drill EXCEPT !.at = w, !.source = v]
      BY <2>9 DEF AuditSource, DrillGoes
    <3>2. QED
      BY <2>4, <2>6, <3>1
  <2>10. CASE DumpRows \/ DumpRepositories \/ Extract \/ StartInstance
    BY <2>3, <2>4, <2>10 DEF DumpRows, DumpRepositories, Extract, StartInstance, DrillGoes
  <2>11. QED
    BY <2>1, <2>2, <2>7, <2>8, <2>9, <2>10 DEF DrillNext, DrillWork, drillVars
<1>4. ScratchOK(scratch')
  <2>1. CASE UNCHANGED scratch
    BY <1>1, <2>1
  <2>2. CASE Extract
    BY <1>1, <2>2, EmptyIs DEF Extract
  <2>3. ASSUME \E v : \/ scratch' = [scratch EXCEPT !.audit = v]
                      \/ scratch' = [scratch EXCEPT !.auditSource = v]
                      \/ scratch' = [scratch EXCEPT !.payload = v, !.drillRecord = TRUE]
        PROVE  ScratchOK(scratch')
    BY <1>1, <2>3 DEF ScratchOK, ScratchFields
  <2>4. QED
    BY <2>1, <2>2, <2>3 DEF DrillNext, Begin, DumpRows, DumpRepositories, StartInstance,
       AuditCopy, AuditSource, Conclude, DrillWork, drillVars
<1>5. QED
  BY <1>2, <1>3, <1>4 DEF DrillInv

\* No step of the drill removes what was in the directory before it.
LEMMA DrillLeaves == ASSUME DrillInv, [DrillNext]_drillVars PROVE ForeignStays
<1>1. ScratchOK(scratch)
  BY DEF DrillInv
<1>2. SUFFICES ASSUME scratch.foreign PROVE scratch'.foreign
  BY DEF ForeignStays
<1>3. CASE UNCHANGED scratch
  BY <1>2, <1>3
<1>4. CASE Extract
  BY <1>1, <1>2, <1>4 DEF Extract, MayWipe, ScratchOK
<1>5. ASSUME \E v : \/ scratch' = [scratch EXCEPT !.audit = v]
                    \/ scratch' = [scratch EXCEPT !.auditSource = v]
                    \/ scratch' = [scratch EXCEPT !.payload = v, !.drillRecord = TRUE]
      PROVE  scratch'.foreign
  BY <1>1, <1>2, <1>5 DEF ScratchOK, ScratchFields
<1>6. QED
  BY <1>3, <1>4, <1>5 DEF DrillNext, Begin, DumpRows, DumpRepositories, StartInstance,
     AuditCopy, AuditSource, Conclude, DrillWork, drillVars

-----------------------------------------------------------------------------
(* A drill that passes proved the restore.                                   *)

\* What a verdict of match says of contents that were compared.
LEMMA MatchMeansSame ==
  ASSUME NEW d, NEW s, ContentsOK(d), ContentsOK(s), Verdict(d, s) = "match"
  PROVE  /\ DOMAIN s.issues = DOMAIN d.issues
         /\ \A n \in DOMAIN d.issues : s.issues[n].comments = d.issues[n].comments
         /\ s.pages = d.pages /\ s.labels = d.labels /\ s.users = d.users
         /\ \A n \in Sampled(d) : s.issues[n] = d.issues[n]
<1>1. ~ Lost(d, s) /\ ~ Drifted(d, s)
  BY DEF Verdict
<1>2. DOMAIN d.issues = DOMAIN s.issues
  BY <1>1, Zenon DEF Lost, Drifted
<1>3. PICK S : S = DOMAIN d.issues /\ S = DOMAIN s.issues /\ S \intersect S = S
  BY <1>2
<1>4. IsFiniteSet(S) /\ S = DOMAIN d.issues \intersect DOMAIN s.issues
  BY <1>3, DrillAssumption, FS_Subset DEF ContentsOK
<1>5. \A n \in S : d.issues[n].comments \in Int /\ s.issues[n].comments \in Int
  BY <1>3 DEF ContentsOK, DrillTicketOK
<1>6. \A n \in S : d.issues[n].comments <= s.issues[n].comments
  <2>1. ~ LostComments(d, s, S)
    BY <1>1, <1>4 DEF Lost
  <2>2. QED
    BY <1>5, <2>1 DEF LostComments
<1>7. /\ Comments(d, S) \in Int /\ Comments(s, S) \in Int /\ Comments(d, S) <= Comments(s, S)
      /\ Comments(d, S) = Comments(s, S) => \A n \in S : d.issues[n].comments = s.issues[n].comments
  BY <1>4, <1>5, <1>6, SumsCompare
<1>8. ~ (Comments(s, S) > Comments(d, S))
  <2>1. ~ (Comments(s, DOMAIN d.issues \intersect DOMAIN s.issues) > Comments(d, DOMAIN d.issues))
    BY <1>1, Zenon DEF Drifted
  <2>2. QED
    BY <1>3, <1>4, <2>1
<1>9. \A n \in S : s.issues[n].comments = d.issues[n].comments
  BY <1>7, <1>8
<1>10. s.pages = d.pages /\ s.labels = d.labels
  <2>1. s.pages \subseteq d.pages /\ d.pages \subseteq s.pages /\ s.labels \subseteq d.labels /\ d.labels \subseteq s.labels
    BY <1>1, Zenon DEF Lost, Drifted
  <2>2. QED
    BY <2>1
<1>11. s.users = d.users
  <2>1. ~ (d.users > s.users) /\ ~ (s.users > d.users)
    BY <1>1, Zenon DEF Lost, Drifted
  <2>2. d.users \in Int /\ s.users \in Int
    BY DEF ContentsOK
  <2>3. QED
    BY <2>1, <2>2
<1>12. \A n \in Sampled(d) : s.issues[n] = d.issues[n]
  BY <1>1, Zenon DEF Drifted
<1>13. QED
  BY <1>3, <1>9, <1>10, <1>11, <1>12

Early == {"rows", "repositories", "extract", "start", "ready"}

\* A drill d says match of the copy only where v, the verdict, is that; and it
\* ends in a pass only so, with its record in the scratch directory s.
Says(d, v, s) ==
    /\ d.at \in Early => d.restored = "not run"
    /\ d.restored = "match" => v = "match"
    /\ d.keep \in BOOLEAN
    /\ d.exit = "pass" => d.at = "idle" /\ d.restored = "match" /\ s.drillRecord /\ s.payload = d.keep

PassInv == DrillInv /\ Says(drill, Verdict(dump, copy), scratch)

\* No drill has passed yet.
LEMMA PassInitInv == DrillInit => PassInv
<1> SUFFICES ASSUME DrillInit PROVE PassInv
  OBVIOUS
<1>1. /\ drill.at = "idle" /\ drill.restored = "not run" /\ drill.exit = "none" /\ drill.keep = FALSE
  BY DEF DrillInit
<1>2. QED
  BY <1>1, DrillInitInv DEF PassInv, Says, Early

\* Every step of the drill and of the tracker's work keeps it.
LEMMA PassStays == ASSUME PassInv, [DrillNext]_drillVars PROVE PassInv'
<1>1. DrillInv /\ DrillOK(drill) /\ ScratchOK(scratch) /\ Says(drill, Verdict(dump, copy), scratch)
  BY DEF PassInv, DrillInv
<1>2. DrillInv'
  BY <1>1, DrillStays
<1>v. PICK v, w : v = Verdict(dump, copy) /\ w = Verdict(dump', copy')
  OBVIOUS
<1>s. Says(drill, v, scratch)
  BY <1>1, <1>v
<1>g. SUFFICES Says(drill', w, scratch')
  BY <1>2, <1>v DEF PassInv
<1>3. ASSUME UNCHANGED <<dump, copy, drill, scratch>> PROVE Says(drill', w, scratch')
  BY <1>s, <1>v, <1>3
<1>4. CASE Begin
  <2>1. PICK a, k, n, x : /\ drill' = [at |-> a, keep |-> k, named |-> n, problem |-> FALSE,
                                    restored |-> "not run", source |-> "not run", exit |-> x]
                          /\ k \in BOOLEAN /\ x \in {"none", "refused"}
    <3>1. PICK k \in BOOLEAN, n \in BOOLEAN, take \in BOOLEAN, versions \in BOOLEAN :
            drill' = [at |-> IF ~ versions THEN "idle" ELSE IF take THEN "rows" ELSE "extract",
                      keep |-> k, named |-> n, problem |-> FALSE,
                      restored |-> "not run", source |-> "not run",
                      exit |-> IF versions THEN "none" ELSE "refused"]
      BY <1>4, Zenon DEF Begin
    <3>2. PICK a, x : /\ a = IF ~ versions THEN "idle" ELSE IF take THEN "rows" ELSE "extract"
                      /\ x = IF versions THEN "none" ELSE "refused"
      OBVIOUS
    <3>3. x \in {"none", "refused"}
      BY <3>2
    <3>4. QED
      BY <3>1, <3>2, <3>3, Zenon
  <2>2. drill'.restored = "not run" /\ drill'.keep = k /\ drill'.exit = x
    BY <2>1
  <2>3. QED
    BY <2>1, <2>2 DEF Says
<1>5. ASSUME drill.at \in Early, DrillDies \/ \E a \in Early : drill' = [drill EXCEPT !.at = a]
      PROVE  Says(drill', w, scratch')
  <2>1. drill.restored = "not run" /\ drill.keep \in BOOLEAN /\ drill.exit # "pass"
    BY <1>s, <1>5 DEF Says, Early
  <2>2. drill'.restored = "not run" /\ drill'.keep \in BOOLEAN /\ drill'.exit # "pass"
    BY <1>1, <1>5, <2>1 DEF DrillDies, DrillOK, DrillFields
  <2>3. QED
    BY <2>2 DEF Says
<1>6. CASE DumpRows \/ DumpRepositories \/ Extract
  BY <1>5, <1>6 DEF DumpRows, DumpRepositories, Extract, DrillGoes, Early
<1>7. CASE StartInstance
  BY <1>5, <1>7 DEF StartInstance, DrillGoes, Early
<1>8. CASE AuditCopy
  <2>0. w = v /\ DOMAIN drill = DrillFields
    BY <1>1, <1>v, <1>8 DEF AuditCopy, DrillOK
  <2>1. drill.at = "ready" /\ drill.restored = "not run" /\ drill.keep \in BOOLEAN /\ drill.exit # "pass"
    BY <1>s, <1>8 DEF AuditCopy, Says, Early
  <2>2. CASE drill' = Refused \/ drill' = [drill EXCEPT !.at = "stop", !.problem = TRUE]
    <3>1. drill'.restored = "not run" /\ drill'.keep \in BOOLEAN /\ drill'.exit # "pass"
      BY <1>1, <2>1, <2>2 DEF Refused, DrillOK, DrillFields
    <3>2. QED
      BY <3>1 DEF Says
  <2>3. CASE \E a \in {"audit source", "stop"} : /\ drill' = [drill EXCEPT !.at = a, !.restored = scratch'.audit]
                                                 /\ scratch' = [scratch EXCEPT !.audit = v]
    <3>1. scratch'.audit = v
      BY <1>1, <2>3 DEF ScratchOK, ScratchFields
    <3>2. /\ drill'.restored = v /\ drill'.keep = drill.keep /\ drill'.exit = drill.exit
          /\ drill'.at \notin Early
      BY <1>1, <2>3, <3>1 DEF DrillOK, DrillFields, Early
    <3>3. QED
      BY <2>0, <2>1, <3>2 DEF Says
  <2>4. QED
    BY <1>v, <1>8, <2>2, <2>3 DEF AuditCopy, DrillGoes
<1>9. CASE AuditSource
  <2>0. w = v /\ DOMAIN drill = DrillFields
    BY <1>1, <1>v, <1>9 DEF AuditSource, DrillOK
  <2>1. drill.at = "audit source" /\ drill.exit # "pass" /\ drill.keep \in BOOLEAN
        /\ (drill.restored = "match" => v = "match")
    BY <1>s, <1>9 DEF AuditSource, Says
  <2>2. /\ drill'.at = "stop" /\ drill'.exit = drill.exit /\ drill'.keep = drill.keep
        /\ drill'.restored = drill.restored
    BY <1>1, <1>9 DEF AuditSource, DrillGoes, DrillOK, DrillFields
  <2>3. QED
    BY <2>0, <2>1, <2>2 DEF Says, Early
<1>10. CASE Conclude
  <2>0. w = v /\ DOMAIN drill = DrillFields
    BY <1>1, <1>v, <1>10 DEF Conclude, DrillOK
  <2>1. drill.keep \in BOOLEAN /\ (drill.restored = "match" => v = "match")
    BY <1>s, <1>10 DEF Conclude, Says
  <2>2. /\ drill'.at = "idle" /\ drill'.keep = drill.keep /\ drill'.restored = drill.restored
        /\ drill'.exit = "pass" => Passed
    BY <1>1, <1>10 DEF Conclude, DrillGoes, DrillOK, DrillFields
  <2>3. scratch'.drillRecord /\ scratch'.payload = ~ (Passed /\ ~ drill.keep)
    BY <1>1, <1>10 DEF Conclude, ScratchOK, ScratchFields
  <2>4. QED
    BY <2>0, <2>1, <2>2, <2>3 DEF Says, Early, Passed
<1>11. CASE DrillWork
  BY <1>3, <1>11 DEF DrillWork
<1>12. QED
  BY <1>3, <1>4, <1>6, <1>7, <1>8, <1>9, <1>10, <1>11 DEF DrillNext, drillVars

\* A pass means restored.
LEMMA PassInvGives == PassInv => DrillInv /\ PassMeansRestored
<1> SUFFICES ASSUME PassInv, drill.exit = "pass" PROVE PassMeansRestored
  BY DEF PassInv, PassMeansRestored
<1>1. ContentsOK(dump) /\ ContentsOK(copy) /\ Says(drill, Verdict(dump, copy), scratch)
  BY DEF PassInv, DrillInv
<1>2. Verdict(dump, copy) = "match" /\ scratch.drillRecord /\ scratch.payload = drill.keep
  BY <1>1 DEF Says
<1>3. QED
  BY <1>1, <1>2, MatchMeansSame DEF PassMeansRestored
=============================================================================
