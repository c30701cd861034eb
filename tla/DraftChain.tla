----------------------------- MODULE DraftChain -----------------------------
(***************************************************************************)
(* The drafts an agent writes about a meeting and the decisions a human    *)
(* takes on them (service/agent_drafts.py, agent_review.py): one file per  *)
(* chain of versions, shared by the console and the MCP server, and the    *)
(* document or the glossary terms an acceptance produces.                  *)
(*                                                                         *)
(* A request runs in a process of its own.  Everything a request does      *)
(* between taking a chain's lock and letting it go is several steps, and   *)
(* the process can die at each.  Left out: the audit rows, the check of a  *)
(* value's shape (it refuses before anything is written), and chains       *)
(* damaged by hand.                                                        *)
(***************************************************************************)
EXTENDS Naturals, Sequences, FiniteSets

CONSTANTS
    DraftRequest,   \* requests being served, by the console or by the MCP server
    Text,           \* what a harness writes: a document's body, a glossary's terms
    MaxChains,      \* bound: chains ever opened
    MaxVersions,    \* bound: versions of one chain
    MaxDraftCrashes \* bound: processes that die

ASSUME DraftBounds ==
    MaxChains \in Nat /\ MaxVersions \in Nat \ {0} /\ MaxDraftCrashes \in Nat

Chain    == 1 .. MaxChains
Kinds    == {"document", "glossary"}
Unlocked == <<>>

VARIABLES
    chainKind,      \* chainKind[c]: what chain c's directory is for, or "none"
    chain,          \* chain[c]: the versions in its draft.json; <<>> before it is written
    chainLock,      \* chainLock[c]: <<the request that holds draft.lock>>, or Unlocked
    docFile,        \* docFile[c]: <<the bytes of the chain's document>>, or <<>>
    docRows,        \* the artifact rows registered for accepted documents, in order
    terms,          \* terms[t]: the status of term t in the registry, or "none"
    req,            \* what each request is in the middle of
    draftCrashes

chainVars == <<chainKind, chain>>
outcome   == <<docFile, docRows, terms>>
draftVars == <<chainKind, chain, chainLock, docFile, docRows, terms, req, draftCrashes>>

NoRequest == [at |-> "idle", chain |-> 0, copy |-> <<>>, saw |-> <<>>, todo |-> {}]

Version(text) == [text |-> text, decision |-> "none"]
Newest(s)     == s[Len(s)]

DraftInit ==
    /\ chainKind = [c \in Chain |-> "none"]
    /\ chain = [c \in Chain |-> <<>>]
    /\ chainLock = [c \in Chain |-> Unlocked]
    /\ docFile = [c \in Chain |-> <<>>]
    /\ docRows = <<>>
    /\ terms = [t \in Text |-> "none"]
    /\ req = [r \in DraftRequest |-> NoRequest]
    /\ draftCrashes = 0

-----------------------------------------------------------------------------
(* Writing (MeetingAgent.write). *)

\* The directory, made exclusively, is the claim on a chain's id.
OpenChain(r) ==
    /\ req[r].at = "idle"
    /\ \E c \in Chain, k \in Kinds :
         /\ chainKind[c] = "none"
         /\ \A b \in Chain : b < c => chainKind[b] # "none"
         /\ chainKind' = [chainKind EXCEPT ![c] = k]
         /\ req' = [req EXCEPT ![r] = [NoRequest EXCEPT !.at = "opened", !.chain = c]]
    /\ UNCHANGED <<chain, chainLock, outcome, draftCrashes>>

WriteFirst(r) ==
    /\ req[r].at = "opened"
    /\ chainLock[req[r].chain] = Unlocked
    /\ \E t \in Text : chain' = [chain EXCEPT ![req[r].chain] = <<Version(t)>>]
    /\ req' = [req EXCEPT ![r] = NoRequest]
    /\ UNCHANGED <<chainKind, chainLock, outcome, draftCrashes>>

\* append_version reads the chain under its lock ...
HoldToAppend_Unlocked(r, c) ==
    /\ req[r].at = "idle"
    /\ chain[c] # <<>>
    /\ Len(chain[c]) < MaxVersions
    /\ req' = [req EXCEPT ![r] =
                 [NoRequest EXCEPT !.at = "append", !.chain = c, !.copy = chain[c]]]
    /\ UNCHANGED <<chainVars, chainLock, outcome, draftCrashes>>
HoldToAppend(r, c) ==
    /\ req[r].at = "idle"
    /\ chain[c] # <<>>
    /\ Len(chain[c]) < MaxVersions
    /\ chainLock[c] = Unlocked
    /\ chainLock' = [chainLock EXCEPT ![c] = <<r>>]
    /\ req' = [req EXCEPT ![r] =
                 [NoRequest EXCEPT !.at = "append", !.chain = c, !.copy = chain[c]]]
    /\ UNCHANGED <<chainVars, outcome, draftCrashes>>

\* ... and writes back the chain it read, one version longer.
AppendVersion(r) ==
    /\ req[r].at = "append"
    /\ \E t \in Text :
         chain' = [chain EXCEPT ![req[r].chain] = Append(req[r].copy, Version(t))]
    /\ chainLock' = [chainLock EXCEPT ![req[r].chain] = Unlocked]
    /\ req' = [req EXCEPT ![r] = NoRequest]
    /\ UNCHANGED <<chainKind, outcome, draftCrashes>>

-----------------------------------------------------------------------------
(* Deciding (MeetingAgent.promote and reject, record_review). *)

\* A human reads a chain; a harness may write to it before they decide.
ReadDraft(r, c) ==
    /\ req[r].at = "idle"
    /\ chain[c] # <<>>
    /\ req' = [req EXCEPT ![r] =
                 [NoRequest EXCEPT !.at = "read", !.chain = c, !.saw = chain[c]]]
    /\ UNCHANGED <<chainVars, chainLock, outcome, draftCrashes>>

Decidable_Newest(saw, stored) == Newest(stored).decision = "none"
\* The version that was read is still the newest, and nobody decided it.
Decidable(saw, stored) == Len(saw) = Len(stored) /\ Newest(stored).decision = "none"

Leaves(r) == req' = [req EXCEPT ![r] = NoRequest]

\* Under the lock the stored chain is what counts; a refusal lets go of it.
HoldToDecide(r) ==
    LET c == req[r].chain IN
    /\ req[r].at = "read"
    /\ chainLock[c] = Unlocked
    /\ \/ /\ ~ Decidable(req[r].saw, chain[c])
          /\ Leaves(r)
          /\ UNCHANGED chainLock
       \/ /\ Decidable(req[r].saw, chain[c])
          /\ \E at \in {"reject", IF chainKind[c] = "document" THEN "write" ELSE "terms"} :
               req' = [req EXCEPT ![r] = [@ EXCEPT !.at = at, !.copy = chain[c],
                                                   !.todo = {t \in Text : terms[t] = "none"}]]
          /\ chainLock' = [chainLock EXCEPT ![c] = <<r>>]
    /\ UNCHANGED <<chainVars, outcome, draftCrashes>>

\* _promote_minutes and _promote_transcript_check: the file is written over the
\* one an earlier version left ...
WriteDocument(r) ==
    /\ req[r].at = "write"
    /\ docFile' = [docFile EXCEPT ![req[r].chain] = <<Newest(req[r].copy).text>>]
    /\ req' = [req EXCEPT ![r].at = "register"]
    /\ UNCHANGED <<chainVars, chainLock, docRows, terms, draftCrashes>>

\* The rows of a chain's document, by their places in the table.
RowsOf(c) == {k \in DOMAIN docRows : docRows[k].chain = c}

Registered_Never(c, text) == FALSE
\* The newest row for the file already describes these bytes.
Registered(c, text) ==
    \E k \in RowsOf(c) : docRows[k].text = text /\ \A j \in RowsOf(c) : j <= k

\* ... and registered unless its newest row says the same.  The registry may
\* refuse the write: the acceptance raises, the file stays as written.
RegisterDocument(r) ==
    LET c    == req[r].chain
        text == docFile[c][1] IN
    /\ req[r].at = "register"
    /\ \/ /\ docRows' = IF Registered(c, text) THEN docRows
                        ELSE Append(docRows, [chain |-> c, text |-> text,
                                              version |-> Len(req[r].copy)])
          /\ req' = [req EXCEPT ![r].at = "accept"]
          /\ UNCHANGED chainLock
       \/ /\ chainLock' = [chainLock EXCEPT ![c] = Unlocked]
          /\ Leaves(r)
          /\ UNCHANGED docRows
    /\ UNCHANGED <<chainVars, docFile, terms, draftCrashes>>

\* _promote_glossary: one transaction per term the registry did not have when
\* the promotion began.  A term the owner added meanwhile is refused, and with
\* it the acceptance.
PromoteTerm(r) ==
    /\ req[r].at = "terms"
    /\ \/ /\ req[r].todo = {}
          /\ req' = [req EXCEPT ![r].at = "accept"]
          /\ UNCHANGED <<terms, chainLock>>
       \/ \E t \in req[r].todo :
            IF terms[t] = "none"
            THEN /\ terms' = [terms EXCEPT ![t] = "candidate"]
                 /\ req' = [req EXCEPT ![r].todo = @ \ {t}]
                 /\ UNCHANGED chainLock
            ELSE /\ chainLock' = [chainLock EXCEPT ![req[r].chain] = Unlocked]
                 /\ Leaves(r)
                 /\ UNCHANGED terms
    /\ UNCHANGED <<chainVars, docFile, docRows, draftCrashes>>

\* The decision is written into the chain's newest version, and the lock goes.
RecordDecision(r) ==
    LET copy == req[r].copy IN
    /\ req[r].at \in {"reject", "accept"}
    /\ chain' = [chain EXCEPT ![req[r].chain] =
                   [copy EXCEPT ![Len(copy)].decision =
                      IF req[r].at = "accept" THEN "accepted" ELSE "rejected"]]
    /\ chainLock' = [chainLock EXCEPT ![req[r].chain] = Unlocked]
    /\ Leaves(r)
    /\ UNCHANGED <<chainKind, outcome, draftCrashes>>

-----------------------------------------------------------------------------

\* The owner adds a term at the console.
OwnerAddsTerm(t) ==
    /\ terms[t] = "none"
    /\ terms' = [terms EXCEPT ![t] = "confirmed"]
    /\ UNCHANGED <<chainVars, chainLock, docFile, docRows, req, draftCrashes>>

\* The process of a request dies: its lock is released, its files stay.
DraftProcessDies(r) ==
    /\ draftCrashes < MaxDraftCrashes
    /\ req[r].at # "idle"
    /\ draftCrashes' = draftCrashes + 1
    /\ chainLock' = [c \in Chain |-> IF chainLock[c] = <<r>> THEN Unlocked ELSE chainLock[c]]
    /\ Leaves(r)
    /\ UNCHANGED <<chainVars, outcome>>

DraftNext ==
    \/ \E r \in DraftRequest :
         \/ OpenChain(r) \/ WriteFirst(r) \/ AppendVersion(r)
         \/ HoldToDecide(r) \/ WriteDocument(r) \/ RegisterDocument(r)
         \/ PromoteTerm(r) \/ RecordDecision(r) \/ DraftProcessDies(r)
         \/ \E c \in Chain : HoldToAppend(r, c) \/ ReadDraft(r, c)
    \/ \E t \in Text : OwnerAddsTerm(t)

DraftSpec == DraftInit /\ [][DraftNext]_draftVars

-----------------------------------------------------------------------------
(* Properties. *)

\* Every variable keeps its type, and a lock is held by a request at work on
\* that chain.
DraftTypeOK ==
    /\ chainKind \in [Chain -> Kinds \union {"none"}]
    /\ \A c \in Chain : \A i \in DOMAIN chain[c] :
         chain[c][i] \in [text : Text, decision : {"none", "accepted", "rejected"}]
    /\ \A c \in Chain : chainLock[c] = Unlocked \/ \E r \in DraftRequest :
         /\ chainLock[c] = <<r>>
         /\ req[r].chain = c
         /\ req[r].at \in {"append", "write", "register", "terms", "accept", "reject"}
    /\ \A c \in Chain : docFile[c] \in {<<>>} \union {<<t>> : t \in Text}
    /\ \A i \in DOMAIN docRows :
         docRows[i] \in [chain : Chain, text : Text, version : 1 .. MaxVersions]
    /\ terms \in [Text -> {"none", "candidate", "confirmed"}]
    /\ draftCrashes \in 0 .. MaxDraftCrashes

\* No writer drops another's version or overwrites a decision: a chain only
\* grows, and what it says of a version is said once ("one chain, one writer at
\* a time", agent_drafts._held).
ChainsOnlyGrow ==
    [][\A c \in Chain : \A i \in DOMAIN chain[c] :
         /\ i \in DOMAIN chain'[c]
         /\ chain'[c][i].text = chain[c][i].text
         /\ chain[c][i].decision \in {"none", chain'[c][i].decision}]_draftVars

\* A decision lands on the version its human read, never on one a harness wrote
\* meanwhile (StaleVersion).
DecidesWhatWasRead ==
    [][\A c \in Chain : \A i \in DOMAIN chain[c] :
         chain'[c][i].decision # chain[c][i].decision =>
             \E r \in DraftRequest : req[r].chain = c /\ Len(req[r].saw) = i]_draftVars

\* An accepted version has produced what its kind produces, and produced it
\* once: a crash between the work and its record, and the acceptance repeated,
\* register nothing twice (agent_review: "still safe to repeat").
AcceptedIsProducedOnce ==
    /\ \A c \in Chain : \A i \in DOMAIN chain[c] : chain[c][i].decision = "accepted" =>
         IF chainKind[c] = "document"
         THEN \E k \in DOMAIN docRows :
                docRows[k].chain = c /\ docRows[k].text = chain[c][i].text
         ELSE \A t \in Text : terms[t] # "none"
    /\ \A j, k \in DOMAIN docRows :
         docRows[j].chain = docRows[k].chain /\ docRows[j].version = docRows[k].version
             => j = k

\* While nobody decides a chain, the newest row for its document describes the
\* bytes in the file ("what it publishes always describes the file it names",
\* agent_review._register_file).
NewestRowIsTheFile ==
    \A c \in Chain :
        chainLock[c] = Unlocked => \A k \in RowsOf(c) :
            (\A j \in RowsOf(c) : j <= k) => docFile[c] = <<docRows[k].text>>
=============================================================================
