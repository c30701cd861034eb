--------------------------- MODULE RegistryProofs ---------------------------
(***************************************************************************)
(* What the rows of the registry say stays so, for any openers, builds,    *)
(* surfaces, scripts, browsers, terms and requests.  The parts share no    *)
(* variable, so each has an inductive invariant of its own, stated before  *)
(* its lemmas; StoresProofs joins them.                                    *)
(***************************************************************************)
EXTENDS RegistryOpening, MachineTokens, ConsoleAuth, Registration, GlossaryTerms,
        RunRequest, FiniteSetTheorems, SequenceTheorems, WellFoundedInduction, TLAPS

-----------------------------------------------------------------------------
(* The registry as it is opened (RegistryOpening).                           *)

\* What 0009 does to one row.
EndedRow(runs, r) ==
    IF Active(r) /\ r # Keeper(runs, r.meeting) THEN [r EXCEPT !.status = "interrupted"] ELSE r

RunRows == [id : Nat, meeting : MeetingRow, owned : BOOLEAN, status : {"queued", "running", "done", "interrupted"}]

\* What o's transaction works on, beside the registry r it was read from: at
\* most one version row, of a revision o carries and no older than any of r's,
\* and every run that executes for an owner executing still.
DraftOK(d, r, o) ==
    /\ AsAnEraLeftIt(d)
    /\ d.rows = {} => d.ladder = NoLadder
    /\ d.rows # {} => \E n \in Carried(o) : d.rows = {n}
    /\ \A n \in r.rows : \E k \in d.rows : k >= n
    /\ \A a \in r.runs, b \in d.runs : Owned(a) /\ a.id = b.id => Owned(b)

\* The revision a transaction runs next.
Next1(d) == IF d.rows = {} THEN Baseline ELSE Max(d.rows) + 1

\* What is so of a registry that a process has open.
WholeReg(r) ==
    /\ r.ladder \in {NoLadder, LadderVersion}
    /\ \E n \in r.rows :
         /\ r.rows = {n} /\ r.schema >= n
         /\ n >= OneActiveRevision => r.index \in {"own", "wider"} /\ OneActiveHolds(r.runs)

\* A process o at p beside the registry r and the lock's holder w: it holds the
\* lock exactly in its transaction, which began from r and has kept DraftOK.
OpenerOK(p, o, r, w) ==
    /\ p = [at |-> p.at, draft |-> p.draft] /\ p.at \in States(o)
    /\ p.at \in {"read", "upgrade"} <=> w = o
    /\ p.at = "read" => p.draft = r
    /\ p.at = "upgrade" => DraftOK(p.draft, r, o)

OpeningInv ==
    /\ AsAnEraLeftIt(registry)
    /\ writer \in Opener \union {Nobody} /\ opens \in 0 .. MaxOpens
    /\ opener = [o \in Opener |-> opener[o]]
    /\ \A o \in Opener : OpenerOK(opener[o], o, registry, writer)
    /\ (\E o \in Opener : opener[o].at = "open") => WholeReg(registry)

ForwardStep ==
    /\ \A n \in registry.rows : \E k \in registry'.rows : k >= n
    /\ \A r \in registry.runs :
         Owned(r) => \A s \in registry'.runs : s.id = r.id => s.status # "interrupted"

RefusedStep ==
    \A o \in Opener :
        opener[o].at \in {"lock", "read", "upgrade"} /\ opener'[o].at \in {"closed", "refused"}
            => registry' = registry

\* What a step of o does beside the others: it holds the lock or nobody does,
\* or it changes neither the registry nor the lock.
StepOf(o, q) ==
    /\ opener' = [opener EXCEPT ![o] = q]
    /\ OpenerOK(q, o, registry', writer')
    /\ \/ UNCHANGED <<registry, writer>>
       \/ writer \in {o, Nobody} /\ writer' \in {o, Nobody}

\* A set of numbers that is bounded and not empty has a greatest one.
LEMMA GreatestOne ==
  ASSUME NEW b \in Nat, NEW S \in SUBSET (0 .. b), S # {}
  PROVE  \E i \in S : \A j \in S : j <= i
<1> DEFINE R == OpToRel(<, Nat)
           T == {b - j : j \in S}
<1>1. T \subseteq Nat /\ T # {}
  <2>1. \A j \in S : b - j \in Nat
    OBVIOUS
  <2>2. T # {}
    OBVIOUS
  <2>3. QED
    BY <2>1, <2>2
<1>2. PICK m \in T : \A y \in T : ~ (<<y, m>> \in R)
  <2> HIDE DEF T, R
  <2>1. QED
    BY <1>1, NatLessThanWellFounded, WFMin DEF R
<1>3. \A y \in T : ~ (y < m)
  BY <1>1, <1>2 DEF OpToRel
<1>4. PICK i \in S : m = b - i
  OBVIOUS
<1>5. ASSUME NEW j \in S PROVE j <= i
  <2>1. b - j \in T /\ ~ (b - j < b - i)
    BY <1>3, <1>4
  <2>2. i \in Int /\ j \in Int
    OBVIOUS
  <2>3. QED
    BY <2>1, <2>2
<1>6. QED
  BY <1>4, <1>5

\* So it is its Max.
LEMMA MaxIsGreatest ==
  ASSUME NEW b \in Nat, NEW S \in SUBSET (0 .. b), S # {}
  PROVE  Max(S) \in S /\ \A j \in S : Max(S) >= j
<1>1. PICK i \in S : \A j \in S : j <= i
  BY GreatestOne
<1>2. \A j \in S : i >= j
  BY <1>1
<1>3. QED
  BY <1>2 DEF Max

\* A row that is ended stays a row that some build wrote.
LEMMA EndedRowKeeps ==
  ASSUME NEW runs, NEW r \in RunRows
  PROVE  LET e == EndedRow(runs, r) IN
           /\ e \in RunRows /\ e.id = r.id /\ e.meeting = r.meeting
           /\ Active(e) => e = r /\ r = Keeper(runs, r.meeting)
           /\ Owned(e) => e = r
BY DEF EndedRow, RunRows, Active, Owned

\* The run of a meeting that executes for an owner is the one that is kept.
LEMMA OwnedIsKept ==
  ASSUME NEW runs, RowsAsWritten(runs), NEW r \in runs, Owned(r)
  PROVE  EndedRow(runs, r) = r
<1> DEFINE A == {x \in runs : Active(x) /\ x.meeting = r.meeting}
<1>0. /\ runs \subseteq RunRows
      /\ \A s, t \in runs : (Owned(s) /\ Owned(t) /\ s.meeting = t.meeting) => s = t
  BY DEF RowsAsWritten, RunRows
<1>1. r \in A
  BY DEF Owned, Active
<1>2. \A s \in A : Prefers(r, s)
  <2>1. SUFFICES ASSUME NEW s \in A PROVE Prefers(r, s)
    OBVIOUS
  <2>2. CASE Owned(s)
    <3>1. s = r /\ r.id \in Nat
      BY <1>0, <2>2 DEF RunRows
    <3>2. QED
      BY <3>1 DEF Prefers
  <2>3. CASE ~ Owned(s)
    BY <2>3 DEF Prefers
  <2>4. QED
    BY <2>2, <2>3
<1>3. Keeper(runs, r.meeting) \in A /\ \A s \in A : Prefers(Keeper(runs, r.meeting), s)
  BY <1>1, <1>2 DEF Keeper
<1> DEFINE k == Keeper(runs, r.meeting)
<1>4. Owned(k)
  <2>1. Prefers(k, r)
    BY <1>1, <1>3
  <2>2. (Owned(k) /\ ~Owned(r)) \/ Owned(k) = Owned(r)
    BY <2>1 DEF Prefers
  <2>3. QED
    BY <2>2 DEF Owned
<1>5. k = r
  BY <1>0, <1>3, <1>4
<1>6. QED
  BY <1>5 DEF EndedRow

\* The revision that ends all but one active row of each meeting leaves rows
\* that some build wrote, one active of each meeting.
LEMMA EndLosersKeeps ==
  ASSUME NEW runs, RowsAsWritten(runs)
  PROVE  /\ RowsAsWritten(EndLosers(runs)) /\ OneActiveHolds(EndLosers(runs))
         /\ \A r \in runs : Owned(r) => r \in EndLosers(runs)
<1> DEFINE f == [r \in runs |-> EndedRow(runs, r)]
           E == EndLosers(runs)
<1>0. /\ IsFiniteSet(runs) /\ Cardinality(runs) <= MaxRunRows /\ runs \subseteq RunRows
      /\ \A r \in runs : 1 <= r.id /\ r.id <= Cardinality(runs)
      /\ \A r, s \in runs : r.id = s.id \/ (Owned(r) /\ Owned(s) /\ r.meeting = s.meeting) => r = s
  BY DEF RowsAsWritten, RunRows
<1>1. E = {EndedRow(runs, r) : r \in runs}
  BY DEF EndLosers, EndedRow
<1> HIDE DEF E
<1>2. \A r \in runs : LET e == EndedRow(runs, r) IN
        /\ e \in RunRows /\ e.id = r.id /\ e.meeting = r.meeting
        /\ Active(e) => e = r /\ r = Keeper(runs, r.meeting)
        /\ Owned(e) => e = r
  BY <1>0, EndedRowKeeps
<1>3. f \in [runs -> E] /\ \A e \in E : \E r \in runs : f[r] = e
  BY <1>1
<1>4. \A r, s \in runs : f[r] = f[s] => r = s
  <2>1. SUFFICES ASSUME NEW r \in runs, NEW s \in runs, f[r] = f[s] PROVE r = s
    OBVIOUS
  <2>2. EndedRow(runs, r).id = r.id /\ EndedRow(runs, s).id = s.id /\ EndedRow(runs, r) = EndedRow(runs, s)
    BY <1>2, <2>1
  <2>3. r.id = s.id
    BY <2>2
  <2>4. QED
    BY <1>0, <2>3
<1>5. f \in Bijection(runs, E)
  <2> HIDE DEF f
  <2>1. f \in Surjection(runs, E)
    BY <1>3 DEF Surjection
  <2>2. f \in Injection(runs, E)
    BY <1>3, <1>4 DEF Injection, IsInjective
  <2>3. QED
    BY <2>1, <2>2 DEF Bijection
<1>6. IsFiniteSet(E) /\ Cardinality(E) = Cardinality(runs)
  BY <1>0, <1>5, FS_Bijection DEF ExistsBijection
<1>7. E \subseteq RunRows
  BY <1>1, <1>2
<1>8. \A e \in E : 1 <= e.id /\ e.id <= Cardinality(E)
  <2>1. SUFFICES ASSUME NEW r \in runs PROVE 1 <= EndedRow(runs, r).id /\ EndedRow(runs, r).id <= Cardinality(E)
    BY <1>1
  <2>2. EndedRow(runs, r).id = r.id
    BY <1>2
  <2>3. QED
    BY <1>0, <1>6, <2>2
<1>9. \A d, e \in E : d.id = e.id \/ (Owned(d) /\ Owned(e) /\ d.meeting = e.meeting) => d = e
  <2>1. SUFFICES ASSUME NEW r \in runs, NEW s \in runs,
                        \/ EndedRow(runs, r).id = EndedRow(runs, s).id
                        \/ /\ Owned(EndedRow(runs, r)) /\ Owned(EndedRow(runs, s))
                           /\ EndedRow(runs, r).meeting = EndedRow(runs, s).meeting
                 PROVE  EndedRow(runs, r) = EndedRow(runs, s)
    BY <1>1
  <2>2. CASE EndedRow(runs, r).id = EndedRow(runs, s).id
    <3>1. r.id = s.id
      BY <1>2, <2>2
    <3>2. QED
      BY <1>0, <3>1
  <2>3. CASE /\ Owned(EndedRow(runs, r)) /\ Owned(EndedRow(runs, s))
             /\ EndedRow(runs, r).meeting = EndedRow(runs, s).meeting
    <3>1. EndedRow(runs, r) = r /\ EndedRow(runs, s) = s
      BY <1>2, <2>3
    <3>2. QED
      BY <1>0, <2>3, <3>1
  <2>4. QED
    BY <2>1, <2>2, <2>3
<1>10. OneActiveHolds(E)
  <2>1. SUFFICES ASSUME NEW r \in runs, NEW s \in runs,
                        Active(EndedRow(runs, r)), Active(EndedRow(runs, s)),
                        EndedRow(runs, r).meeting = EndedRow(runs, s).meeting
                 PROVE  EndedRow(runs, r) = EndedRow(runs, s)
    BY <1>1 DEF OneActiveHolds
  <2>2. /\ EndedRow(runs, r) = r /\ r = Keeper(runs, r.meeting)
        /\ EndedRow(runs, s) = s /\ s = Keeper(runs, s.meeting)
    BY <1>2, <2>1
  <2>3. QED
    BY <2>1, <2>2
<1>11. \A r \in runs : Owned(r) => r \in E
  BY <1>1, OwnedIsKept
<1>12. RowsAsWritten(E)
  BY <1>0, <1>6, <1>7, <1>8, <1>9 DEF RowsAsWritten, RunRows
<1>13. QED
  BY <1>10, <1>11, <1>12 DEF E

\* The fields of a registry as some era left it.
LEMMA EraFields ==
  ASSUME NEW r, AsAnEraLeftIt(r)
  PROVE  /\ r = [mode |-> r.mode, rows |-> r.rows, ladder |-> r.ladder, schema |-> r.schema,
                 index |-> r.index, runs |-> r.runs]
         /\ r.mode \in {"delete", "wal"} /\ r.rows \subseteq Nat /\ r.ladder \in Int /\ r.schema \in Nat
         /\ r.index \in {"none", "own", "wider", "other"}
BY DEF AsAnEraLeftIt

\* Which fields make a registry as some era left it.
LEMMA EraFrom ==
  ASSUME NEW m \in {"delete", "wal"}, NEW stamps, stamps \subseteq Nat, NEW l \in Int, NEW s \in Nat,
         NEW i \in {"none", "own", "wider", "other"}, NEW runs, RowsAsWritten(runs),
         \A n \in stamps : s >= n,
         stamps = {} /\ l = Baseline => s >= Baseline,
         (\E n \in stamps : n >= OneActiveRevision) => i \in {"own", "wider"} /\ OneActiveHolds(runs)
  PROVE  AsAnEraLeftIt([mode |-> m, rows |-> stamps, ladder |-> l, schema |-> s, index |-> i, runs |-> runs])
BY DEF AsAnEraLeftIt

\* The revisions a build carries are numbers.
LEMMA CarriedIsNat ==
  ASSUME NEW o \in Opener
  PROVE  HeadOf[o] \in Nat /\ HeadOf[o] >= Baseline /\ Carried(o) \subseteq Nat /\ Baseline \in Carried(o)
         /\ Carried(o) \subseteq 0 .. HeadOf[o] /\ \A n \in Carried(o) : n >= Baseline /\ n <= HeadOf[o]
BY OpeningAssumption DEF Carried, Baseline

\* A registry that is not refused is placed at a revision its tables have.
LEMMA PlacedKeeps ==
  ASSUME NEW o \in Opener, NEW r, AsAnEraLeftIt(r), ~ MustRefuse(o, r)
  PROVE  DraftOK(PlacedDraft(r), r, o)
<1>0. /\ HeadOf[o] \in Nat /\ HeadOf[o] >= Baseline /\ Carried(o) \subseteq Nat /\ Baseline \in Carried(o)
      /\ Carried(o) \subseteq 0 .. HeadOf[o] /\ \A n \in Carried(o) : n >= Baseline /\ n <= HeadOf[o]
  BY CarriedIsNat
<1>1. /\ r = [mode |-> r.mode, rows |-> r.rows, ladder |-> r.ladder, schema |-> r.schema,
              index |-> r.index, runs |-> r.runs]
      /\ r.mode \in {"delete", "wal"} /\ r.rows \subseteq Nat /\ r.ladder \in Int /\ r.schema \in Nat
      /\ r.index \in {"none", "own", "wider", "other"}
  BY EraFields
<1>2. /\ RowsAsWritten(r.runs) /\ \A n \in r.rows : r.schema >= n
      /\ r.rows = {} /\ r.ladder = Baseline => r.schema >= Baseline
      /\ (\E n \in r.rows : n >= OneActiveRevision) => r.index \in {"own", "wider"} /\ OneActiveHolds(r.runs)
  BY DEF AsAnEraLeftIt
<1>3. r.rows \subseteq Carried(o) /\ (r.rows = {} => r.ladder = NoLadder \/ r.ladder = Baseline)
  BY DEF MustRefuse, LadderPlaces
<1>4. PICK stamps : stamps = IF r.rows = {} /\ LadderPlaces(r.ladder) THEN {Baseline} ELSE Reduced(r.rows)
  OBVIOUS
<1>5. PlacedDraft(r) = [mode |-> r.mode, rows |-> stamps, ladder |-> r.ladder, schema |-> r.schema,
                        index |-> r.index, runs |-> r.runs]
  <2>1. PlacedDraft(r) = [r EXCEPT !.rows = stamps]
    BY <1>4 DEF PlacedDraft
  <2>2. QED
    BY <1>1, <2>1
<1>6. /\ stamps \subseteq Carried(o) /\ (stamps = {} => r.rows = {} /\ r.ladder = NoLadder)
      /\ stamps # {} => (\E n \in Carried(o) : stamps = {n})
      /\ \A n \in r.rows : \E k \in stamps : k >= n
      /\ stamps \subseteq r.rows \/ (r.rows = {} /\ r.ladder = Baseline /\ stamps = {Baseline})
  <2>1. CASE r.rows = {}
    BY <1>0, <1>3, <1>4, <2>1 DEF LadderPlaces, Reduced
  <2>2. CASE r.rows # {}
    <3>1. Max(r.rows) \in r.rows /\ \A j \in r.rows : Max(r.rows) >= j
      <4>1. r.rows \in SUBSET (0 .. HeadOf[o])
        BY <1>0, <1>3
      <4>2. QED
        BY <1>0, <2>2, <4>1, MaxIsGreatest
    <3>2. stamps = {Max(r.rows)}
      BY <1>4, <2>2 DEF Reduced
    <3>3. QED
      BY <1>3, <2>2, <3>1, <3>2
  <2>3. QED
    BY <2>1, <2>2
<1>7. AsAnEraLeftIt(PlacedDraft(r))
  <2>1. stamps \subseteq Nat /\ \A n \in stamps : r.schema >= n
    BY <1>0, <1>2, <1>6
  <2>2. stamps = {} /\ r.ladder = Baseline => r.schema >= Baseline
    BY <1>2, <1>6
  <2>3. (\E n \in stamps : n >= OneActiveRevision) => \E n \in r.rows : n >= OneActiveRevision
    BY <1>6 DEF OneActiveRevision, Baseline
  <2>4. (\E n \in stamps : n >= OneActiveRevision) => r.index \in {"own", "wider"} /\ OneActiveHolds(r.runs)
    BY <1>2, <2>3
  <2>5. AsAnEraLeftIt([mode |-> r.mode, rows |-> stamps, ladder |-> r.ladder, schema |-> r.schema,
                       index |-> r.index, runs |-> r.runs])
    <3>1. RowsAsWritten(r.runs)
      BY <1>2
    <3>2. QED
      BY ONLY <1>1, <2>1, <2>2, <2>4, <3>1, EraFrom
  <2>6. QED
    BY <1>5, <2>5
<1>8. PlacedDraft(r).rows = stamps /\ PlacedDraft(r).ladder = r.ladder /\ PlacedDraft(r).runs = r.runs
  BY <1>5
<1>9. \A a \in r.runs, b \in r.runs : Owned(a) /\ a.id = b.id => Owned(b)
  BY <1>2 DEF RowsAsWritten
<1>10. QED
  BY <1>6, <1>7, <1>8, <1>9 DEF DraftOK

\* The revision after a stamp is the next number.
LEMMA NextIsOneMore ==
  ASSUME NEW o \in Opener, NEW d, NEW r, DraftOK(d, r, o)
  PROVE  /\ d.rows = {} => Next1(d) = Baseline
         /\ \A n \in Nat : d.rows = {n} => Next1(d) = n + 1
<1>1. ASSUME NEW n \in Nat, d.rows = {n} PROVE Max(d.rows) = n
  <2>1. {n} \in SUBSET (0 .. n) /\ {n} # {}
    OBVIOUS
  <2>2. Max({n}) \in {n}
    BY <2>1, MaxIsGreatest
  <2>3. QED
    BY <1>1, <2>2
<1>2. QED
  BY <1>1 DEF Next1

\* One revision takes the tables, the stamp and the index one on, together.
LEMMA RevisedKeeps ==
  ASSUME NEW o \in Opener, NEW d, NEW r, DraftOK(d, r, o), AsAnEraLeftIt(r), Next1(d) <= HeadOf[o],
         Next1(d) = OneActiveRevision => ~ RefusesTheIndex(d)
  PROVE  DraftOK(Revised(d, Next1(d)), r, o)
<1>0. /\ HeadOf[o] \in Nat /\ HeadOf[o] >= Baseline /\ Carried(o) \subseteq Nat /\ Baseline \in Carried(o)
      /\ Carried(o) \subseteq 0 .. HeadOf[o] /\ \A n \in Carried(o) : n >= Baseline /\ n <= HeadOf[o]
  BY CarriedIsNat
<1>1. /\ d = [mode |-> d.mode, rows |-> d.rows, ladder |-> d.ladder, schema |-> d.schema,
              index |-> d.index, runs |-> d.runs]
      /\ d.mode \in {"delete", "wal"} /\ d.rows \subseteq Nat /\ d.ladder \in Int /\ d.schema \in Nat
      /\ d.index \in {"none", "own", "wider", "other"}
  BY EraFields DEF DraftOK
<1>2. /\ RowsAsWritten(d.runs) /\ \A k \in d.rows : d.schema >= k
      /\ (\E k \in d.rows : k >= OneActiveRevision) => d.index \in {"own", "wider"} /\ OneActiveHolds(d.runs)
  BY DEF AsAnEraLeftIt, DraftOK
<1>3. /\ d.rows # {} => \E n \in Carried(o) : d.rows = {n}
      /\ \A n \in r.rows : \E k \in d.rows : k >= n
      /\ \A a \in r.runs, b \in d.runs : Owned(a) /\ a.id = b.id => Owned(b)
  BY DEF DraftOK
<1>4. PICK n : n = Next1(d)
  OBVIOUS
<1>5. /\ n \in Carried(o) /\ n \in Nat /\ n >= Baseline
      /\ \A k \in d.rows : n = k + 1 /\ k >= Baseline
  <2>1. CASE d.rows = {}
    BY <1>0, <1>4, <2>1, NextIsOneMore
  <2>2. CASE d.rows # {}
    <3>1. PICK k \in Carried(o) : d.rows = {k}
      BY <1>3, <2>2
    <3>2. k \in Nat /\ k >= Baseline
      BY <1>0, <3>1
    <3>3. n = k + 1
      BY <1>4, <3>1, <3>2, NextIsOneMore
    <3>4. n \in Carried(o)
      BY <1>0, <1>4, <3>2, <3>3 DEF Carried, Baseline
    <3>5. QED
      BY <3>1, <3>2, <3>3, <3>4 DEF Baseline
  <2>3. QED
    BY <2>1, <2>2
<1>6. PICK s : s = Raised(d.schema, n)
  OBVIOUS
<1>7. s \in Nat /\ s >= n
  BY <1>1, <1>5, <1>6 DEF Raised
<1>8. CASE n # OneActiveRevision
  <2>1. Revised(d, n) = [mode |-> d.mode, rows |-> {n}, ladder |-> d.ladder, schema |-> s,
                         index |-> d.index, runs |-> d.runs]
    BY <1>1, <1>6, <1>8 DEF Revised
  <2>2. (\E k \in {n} : k >= OneActiveRevision) => \E k \in d.rows : k >= OneActiveRevision
    <3>1. SUFFICES ASSUME n >= OneActiveRevision PROVE \E k \in d.rows : k >= OneActiveRevision
      OBVIOUS
    <3>2. n >= 10
      BY <1>5, <1>8, <3>1 DEF OneActiveRevision
    <3>3. d.rows # {}
      <4>1. SUFFICES ASSUME d.rows = {} PROVE FALSE
        OBVIOUS
      <4>2. n = Baseline
        BY <1>4, <4>1, NextIsOneMore
      <4>3. QED
        BY <3>2, <4>2 DEF Baseline
    <3>4. PICK k \in d.rows : TRUE
      BY <3>3
    <3>5. k \in Nat /\ n = k + 1
      BY <1>1, <1>5
    <3>6. QED
      BY <3>2, <3>5 DEF OneActiveRevision
  <2>3. {n} \subseteq Nat /\ \A k \in {n} : s >= k
    BY <1>5, <1>7
  <2>4. AsAnEraLeftIt(Revised(d, n))
    <3>1. (\E k \in {n} : k >= OneActiveRevision) => d.index \in {"own", "wider"} /\ OneActiveHolds(d.runs)
      BY <1>2, <2>2
    <3>2. {n} = {} /\ d.ladder = Baseline => s >= Baseline
      OBVIOUS
    <3>3. AsAnEraLeftIt([mode |-> d.mode, rows |-> {n}, ladder |-> d.ladder, schema |-> s,
                         index |-> d.index, runs |-> d.runs])
      <4>1. RowsAsWritten(d.runs)
        BY <1>2
      <4>2. QED
        BY ONLY <1>1, <1>7, <2>3, <3>1, <3>2, <4>1, EraFrom
    <3>4. QED
      BY <2>1, <3>3
  <2>5. \A m \in r.rows : \E k \in {n} : k >= m
    <3>1. r.rows \subseteq Nat
      BY EraFields
    <3>2. QED
      BY <1>1, <1>3, <1>5, <3>1
  <2>6. Revised(d, n).rows = {n} /\ Revised(d, n).runs = d.runs
    BY <2>1
  <2>7. QED
    BY <1>3, <1>4, <1>5, <2>4, <2>5, <2>6 DEF DraftOK
<1>9. CASE n = OneActiveRevision
  <2>1. PICK i : i = IF d.index = "none" THEN "own" ELSE d.index
    OBVIOUS
  <2>2. i \in {"own", "wider"} /\ i \in {"none", "own", "wider", "other"}
    BY <1>1, <1>4, <1>9, <2>1 DEF RefusesTheIndex
  <2>3. Revised(d, n) = [mode |-> d.mode, rows |-> {n}, ladder |-> d.ladder, schema |-> s,
                         index |-> i, runs |-> EndLosers(d.runs)]
    BY <1>1, <1>6, <1>9, <2>1 DEF Revised
  <2>4. /\ RowsAsWritten(EndLosers(d.runs)) /\ OneActiveHolds(EndLosers(d.runs))
        /\ \A x \in d.runs : Owned(x) => x \in EndLosers(d.runs)
    BY <1>2, EndLosersKeeps
  <2>5. {n} \subseteq Nat /\ \A k \in {n} : s >= k
    BY <1>5, <1>7
  <2>6. AsAnEraLeftIt(Revised(d, n))
    <3>1. (\E k \in {n} : k >= OneActiveRevision) => i \in {"own", "wider"} /\ OneActiveHolds(EndLosers(d.runs))
      BY <2>2, <2>4
    <3>2. {n} = {} /\ d.ladder = Baseline => s >= Baseline
      OBVIOUS
    <3>3. AsAnEraLeftIt([mode |-> d.mode, rows |-> {n}, ladder |-> d.ladder, schema |-> s,
                         index |-> i, runs |-> EndLosers(d.runs)])
      <4>1. RowsAsWritten(EndLosers(d.runs))
        BY <2>4
      <4>2. QED
        BY ONLY <1>1, <1>7, <2>2, <2>5, <3>1, <3>2, <4>1, EraFrom
    <3>4. QED
      BY <2>3, <3>3
  <2>7. \A m \in r.rows : \E k \in {n} : k >= m
    <3>1. r.rows \subseteq Nat
      BY EraFields
    <3>2. QED
      BY <1>1, <1>3, <1>5, <3>1
  <2>8. Revised(d, n).rows = {n} /\ Revised(d, n).runs = EndLosers(d.runs)
    BY <2>3
  <2>9. \A a \in r.runs, b \in EndLosers(d.runs) : Owned(a) /\ a.id = b.id => Owned(b)
    <3>1. SUFFICES ASSUME NEW a \in r.runs, NEW x \in d.runs, Owned(a), a.id = EndedRow(d.runs, x).id
                   PROVE  Owned(EndedRow(d.runs, x))
      BY DEF EndLosers, EndedRow
    <3>2. x \in RunRows
      BY <1>2 DEF RowsAsWritten, RunRows
    <3>3. a.id = x.id
      BY <3>1, <3>2, EndedRowKeeps
    <3>4. Owned(x)
      BY <1>3, <3>1, <3>3
    <3>5. EndedRow(d.runs, x) = x
      BY <1>2, <3>4, OwnedIsKept
    <3>6. QED
      BY <3>4, <3>5
  <2>10. QED
    BY <1>4, <1>5, <2>6, <2>7, <2>8, <2>9 DEF DraftOK
<1>10. QED
  BY <1>8, <1>9

\* A registry as an era left it is one that may be opened.
LEMMA OpeningInitInv == OpeningInit => OpeningInv
<1> SUFFICES ASSUME OpeningInit PROVE OpeningInv
  OBVIOUS
<1>1. AsAnEraLeftIt(registry) /\ opens \in 0 .. MaxOpens /\ writer = Nobody
  BY OpeningAssumption DEF OpeningInit
<1>2. /\ opener = [o \in Opener |-> opener[o]]
      /\ \A o \in Opener : opener[o] = [at |-> "closed", draft |-> NoDraft]
  BY DEF OpeningInit
<1>3. \A o \in Opener : OpenerOK(opener[o], o, registry, writer)
  BY <1>1, <1>2, OpeningAssumption DEF OpenerOK, States
<1>4. QED
  BY <1>1, <1>2, <1>3 DEF OpeningInv

\* What is so of the registry gives its types, and that an opened one is
\* whole.
LEMMA OpeningInvGives == OpeningInv => OpeningTypeOK /\ OpenedMeansWhole
<1> SUFFICES ASSUME OpeningInv PROVE OpeningTypeOK /\ OpenedMeansWhole
  OBVIOUS
<1>1. OpenedMeansWhole
  BY DEF OpeningInv, OpenedMeansWhole, WholeReg
<1>2. /\ registry.mode \in {"delete", "wal"} /\ registry.schema \in Nat
      /\ registry.index \in {"none", "own", "wider", "other"}
  BY EraFields DEF OpeningInv
<1>3. \A r \in registry.runs : r.meeting \in MeetingRow /\ r.id \in 1 .. MaxRunRows
  <2>1. RowsAsWritten(registry.runs)
    BY DEF OpeningInv, AsAnEraLeftIt
  <2>2. SUFFICES ASSUME NEW r \in registry.runs PROVE r.meeting \in MeetingRow /\ r.id \in 1 .. MaxRunRows
    OBVIOUS
  <2>3. /\ r \in RunRows /\ 1 <= r.id /\ r.id <= Cardinality(registry.runs)
        /\ IsFiniteSet(registry.runs) /\ Cardinality(registry.runs) <= MaxRunRows
    BY <2>1 DEF RowsAsWritten, RunRows
  <2>4. Cardinality(registry.runs) \in Nat
    BY <2>3, FS_CardinalityType
  <2>5. QED
    BY <2>3, <2>4, OpeningAssumption DEF RunRows
<1>4. QED
  BY <1>1, <1>2, <1>3 DEF OpeningInv, OpeningTypeOK, OpenerOK

\* An opener that is not moved stays where it may be.
LEMMA OthersKeep ==
  ASSUME OpeningInv, NEW o \in Opener, NEW q, StepOf(o, q)
  PROVE  /\ writer' \in Opener \union {Nobody}
         /\ opener' = [x \in Opener |-> opener'[x]]
         /\ \A x \in Opener : OpenerOK(opener'[x], x, registry', writer')
         /\ \A x \in Opener : x # o => opener'[x] = opener[x]
         /\ opener'[o] = q
<1>0. /\ opener = [x \in Opener |-> opener[x]] /\ writer \in Opener \union {Nobody}
      /\ \A x \in Opener : OpenerOK(opener[x], x, registry, writer)
  BY DEF OpeningInv
<1>1. /\ opener' = [x \in Opener |-> opener'[x]] /\ opener'[o] = q
      /\ \A x \in Opener : x # o => opener'[x] = opener[x]
  BY <1>0 DEF StepOf
<1>2. writer' \in Opener \union {Nobody}
  BY <1>0 DEF StepOf
<1>3. ASSUME NEW x \in Opener, x # o PROVE OpenerOK(opener'[x], x, registry', writer')
  <2>1. opener'[x] = opener[x] /\ OpenerOK(opener[x], x, registry, writer)
    BY <1>0, <1>1, <1>3
  <2>2. CASE UNCHANGED <<registry, writer>>
    BY <2>1, <2>2
  <2>3. CASE writer \in {o, Nobody} /\ writer' \in {o, Nobody}
    <3>1. writer # x /\ writer' # x
      BY <1>3, <2>3, OpeningAssumption
    <3>2. QED
      BY <2>1, <3>1 DEF OpenerOK
  <2>4. QED
    BY <2>2, <2>3 DEF StepOf
<1>4. QED
  BY <1>1, <1>2, <1>3 DEF StepOf

\* The step of one opener keeps what is so of all, if it keeps what is so of
\* the registry and of that one.
LEMMA OneMoves ==
  ASSUME OpeningInv, NEW o \in Opener, NEW q, StepOf(o, q), opens' \in 0 .. MaxOpens,
         AsAnEraLeftIt(registry'), WholeReg(registry) \/ q.at = "open" => WholeReg(registry')
  PROVE  OpeningInv'
<1>1. /\ writer' \in Opener \union {Nobody}
      /\ opener' = [x \in Opener |-> opener'[x]]
      /\ \A x \in Opener : OpenerOK(opener'[x], x, registry', writer')
      /\ \A x \in Opener : x # o => opener'[x] = opener[x]
      /\ opener'[o] = q
  BY OthersKeep
<1>2. (\E x \in Opener : opener'[x].at = "open") => WholeReg(registry')
  <2>1. SUFFICES ASSUME NEW x \in Opener, opener'[x].at = "open" PROVE WholeReg(registry')
    OBVIOUS
  <2>2. CASE x = o
    BY <1>1, <2>1, <2>2
  <2>3. CASE x # o
    BY <1>1, <2>1, <2>3 DEF OpeningInv
  <2>4. QED
    BY <2>2, <2>3
<1>3. QED
  BY <1>1, <1>2 DEF OpeningInv

\* A step that leaves the version rows and the runs takes nothing back.
LEMMA QuietStep ==
  ASSUME OpeningInv, registry'.rows = registry.rows, registry'.runs = registry.runs
  PROVE  ForwardStep
<1>1. registry.rows \subseteq Nat
  BY EraFields DEF OpeningInv
<1>2. \A r, s \in registry.runs : r.id = s.id => r = s
  BY DEF OpeningInv, AsAnEraLeftIt, RowsAsWritten
<1>3. \A n \in registry.rows : \E k \in registry'.rows : k >= n
  BY <1>1
<1>4. \A r \in registry.runs :
         Owned(r) => \A s \in registry'.runs : s.id = r.id => s.status # "interrupted"
  BY <1>2 DEF Owned
<1>5. QED
  BY <1>3, <1>4 DEF ForwardStep

\* Only the opener that moves can be one that a step closes or refuses, and
\* then the registry is as it was.
LEMMA OthersNotRefused ==
  ASSUME OpeningInv, NEW o \in Opener, NEW q, StepOf(o, q),
         registry' = registry \/ q.at \notin {"closed", "refused"}
  PROVE  RefusedStep
<1>1. /\ \A x \in Opener : x # o => opener'[x] = opener[x]
      /\ opener'[o] = q
  BY OthersKeep
<1>2. QED
  BY <1>1 DEF RefusedStep

\* An opener's record with its step changed, and with both its fields.
LEMMA TwoFields ==
  ASSUME NEW p, p = [at |-> p.at, draft |-> p.draft]
  PROVE  /\ \A a, f : [p EXCEPT !.at = a, !.draft = f] = [at |-> a, draft |-> f]
         /\ \A a : [p EXCEPT !.at = a] = [at |-> a, draft |-> p.draft]
<1>1. ASSUME NEW x, x = [at |-> x.at, draft |-> x.draft], NEW a
      PROVE  [x EXCEPT !.at = a] = [at |-> a, draft |-> x.draft]
  BY <1>1
<1>2. ASSUME NEW x, x = [at |-> x.at, draft |-> x.draft], NEW d
      PROVE  [x EXCEPT !.draft = d] = [at |-> x.at, draft |-> d]
  BY <1>2
<1>3. ASSUME NEW a, NEW d PROVE [p EXCEPT !.at = a, !.draft = d] = [at |-> a, draft |-> d]
  <2>1. PICK x : x = [p EXCEPT !.at = a]
    OBVIOUS
  <2>2. x = [at |-> a, draft |-> p.draft]
    BY <1>1, <2>1
  <2>3. x = [at |-> x.at, draft |-> x.draft] /\ x.at = a
    BY <2>2
  <2>4. [x EXCEPT !.draft = d] = [at |-> a, draft |-> d]
    BY <1>2, <2>3
  <2>5. [p EXCEPT !.at = a, !.draft = d] = [x EXCEPT !.draft = d]
    BY <2>1
  <2>6. QED
    BY <2>4, <2>5
<1>4. QED
  BY <1>1, <1>3

\* Deciding the journal mode changes nothing else of the registry.
LEMMA OpeningDecides ==
  ASSUME OpeningInv, NEW o \in Opener, DecideMode(o)
  PROVE  OpeningInv' /\ ForwardStep /\ RefusedStep
<1>0. PICK q : q = [at |-> "lock", draft |-> NoDraft]
  OBVIOUS
<1>1. /\ opener[o].at \in {"closed", "refused"} /\ opens < MaxOpens /\ opens' = opens + 1
      /\ writer' = writer /\ opener' = [opener EXCEPT ![o] = q]
      /\ registry' = registry \/ (registry' = [registry EXCEPT !.mode = "wal"] /\ writer = Nobody)
  <2>1. PICK converted \in BOOLEAN :
          /\ converted => registry.mode # "wal" /\ writer = Nobody
          /\ registry' = IF converted THEN [registry EXCEPT !.mode = "wal"] ELSE registry
          /\ Moves(o, q)
    BY <1>0 DEF DecideMode
  <2>2. registry' = registry \/ (registry' = [registry EXCEPT !.mode = "wal"] /\ writer = Nobody)
    BY <2>1, Zenon
  <2>3. opener' = [opener EXCEPT ![o] = q]
    BY <2>1 DEF Moves
  <2>4. QED
    BY <2>2, <2>3 DEF DecideMode
<1>2. /\ registry = [mode |-> registry.mode, rows |-> registry.rows, ladder |-> registry.ladder,
                     schema |-> registry.schema, index |-> registry.index, runs |-> registry.runs]
      /\ registry.rows \subseteq Nat /\ registry.ladder \in Int /\ registry.schema \in Nat
      /\ registry.index \in {"none", "own", "wider", "other"} /\ AsAnEraLeftIt(registry)
  BY EraFields DEF OpeningInv
<1>3. /\ registry'.rows = registry.rows /\ registry'.runs = registry.runs /\ registry'.ladder = registry.ladder
      /\ registry'.schema = registry.schema /\ registry'.index = registry.index
  BY <1>1, <1>2
<1>4. AsAnEraLeftIt(registry')
  <2>1. CASE registry' = registry
    BY <1>2, <2>1
  <2>2. CASE registry' = [registry EXCEPT !.mode = "wal"]
    <3>1. registry' = [mode |-> "wal", rows |-> registry.rows, ladder |-> registry.ladder,
                       schema |-> registry.schema, index |-> registry.index, runs |-> registry.runs]
      BY <1>2, <2>2
    <3>2. /\ RowsAsWritten(registry.runs) /\ \A n \in registry.rows : registry.schema >= n
          /\ registry.rows = {} /\ registry.ladder = Baseline => registry.schema >= Baseline
          /\ (\E n \in registry.rows : n >= OneActiveRevision) =>
               registry.index \in {"own", "wider"} /\ OneActiveHolds(registry.runs)
      BY <1>2 DEF AsAnEraLeftIt
    <3>3. "wal" \in {"delete", "wal"}
      OBVIOUS
    <3>4. AsAnEraLeftIt([mode |-> "wal", rows |-> registry.rows, ladder |-> registry.ladder,
                         schema |-> registry.schema, index |-> registry.index, runs |-> registry.runs])
      BY ONLY <1>2, <3>2, <3>3, EraFrom
    <3>5. QED
      BY <3>1, <3>4
  <2>3. QED
    BY <1>1, <2>1, <2>2
<1>5. StepOf(o, q)
  <2>1. writer # o /\ writer \in Opener \union {Nobody}
    BY <1>1 DEF OpeningInv, OpenerOK
  <2>2. OpenerOK(q, o, registry', writer')
    BY <1>0, <1>1, <2>1 DEF OpenerOK, States
  <2>3. QED
    BY <1>1, <2>2 DEF StepOf
<1>6. WholeReg(registry) => WholeReg(registry')
  BY <1>3 DEF WholeReg
<1>7. opens' \in 0 .. MaxOpens
  BY <1>1, OpeningAssumption DEF OpeningInv
<1>8. q.at = "lock"
  BY <1>0
<1>9. OpeningInv'
  BY <1>4, <1>5, <1>6, <1>7, <1>8, OneMoves
<1>10. QED
  BY <1>3, <1>5, <1>8, <1>9, QuietStep, OthersNotRefused

\* A step of o that leaves the registry, and what it makes of o.
LEMMA RegistryStays ==
  ASSUME OpeningInv, NEW o \in Opener, NEW q, StepOf(o, q), registry' = registry, opens' = opens,
         q.at # "open"
  PROVE  OpeningInv' /\ ForwardStep /\ RefusedStep
<1>1. AsAnEraLeftIt(registry') /\ opens' \in 0 .. MaxOpens
  BY DEF OpeningInv
<1>2. WholeReg(registry) => WholeReg(registry')
  OBVIOUS
<1>3. OpeningInv'
  BY <1>1, <1>2, OneMoves
<1>4. QED
  BY <1>3, QuietStep, OthersNotRefused

\* An opener that gives up or dies leaves the registry as it was.
LEMMA AbandonKeeps ==
  ASSUME OpeningInv, NEW o \in Opener, NEW at \in {"closed", "refused"},
         opener[o].at \in {"read", "upgrade"}, Abandon(o, at)
  PROVE  OpeningInv' /\ ForwardStep /\ RefusedStep
<1>0. PICK q : q = [at |-> at, draft |-> NoDraft]
  OBVIOUS
<1>1. /\ OpenerOK(opener[o], o, registry, writer) /\ writer = o
      /\ opener[o] = [at |-> opener[o].at, draft |-> opener[o].draft]
  BY DEF OpeningInv, OpenerOK
<1>2. registry' = registry /\ writer' = Nobody /\ opens' = opens /\ opener' = [opener EXCEPT ![o] = q]
  <2>1. opener' = [opener EXCEPT ![o] = [opener[o] EXCEPT !.at = at, !.draft = NoDraft]]
    BY DEF Abandon, Moves
  <2>a. PICK p : p = opener[o]
    OBVIOUS
  <2>2. [opener[o] EXCEPT !.at = at, !.draft = NoDraft] = q
    <3>0. p = [at |-> p.at, draft |-> p.draft]
      BY <1>1, <2>a
    <3>1. \A a, f : [p EXCEPT !.at = a, !.draft = f] = [at |-> a, draft |-> f]
      BY <3>0, TwoFields, Zenon
    <3>2. [p EXCEPT !.at = at, !.draft = NoDraft] = q
      BY <1>0, <3>1
    <3>3. QED
      BY <2>a, <3>2
  <2>3. QED
    BY <2>1, <2>2 DEF Abandon, RolledBack
<1>3. StepOf(o, q)
  BY <1>0, <1>1, <1>2, OpeningAssumption DEF StepOf, OpenerOK, States
<1>4. QED
  BY <1>0, <1>2, <1>3, RegistryStays

\* Taking and leaving the registry's lock changes no table.
LEMMA LockStepsKeep ==
  ASSUME OpeningInv, NEW o \in Opener, TakeWriteLock(o) \/ FindsItLocked(o) \/ CloseRegistry(o)
  PROVE  OpeningInv' /\ ForwardStep /\ RefusedStep
<1>0. /\ OpenerOK(opener[o], o, registry, writer)
      /\ opener[o] = [at |-> opener[o].at, draft |-> opener[o].draft]
      /\ writer \in Opener \union {Nobody}
  BY DEF OpeningInv, OpenerOK
<1>1. CASE TakeWriteLock(o)
  <2>0. PICK q : q = [at |-> "read", draft |-> registry]
    OBVIOUS
  <2>1. /\ registry' = registry /\ writer = Nobody /\ writer' = o /\ opens' = opens
        /\ opener' = [opener EXCEPT ![o] = q]
    <3>1. opener' = [opener EXCEPT ![o] = [opener[o] EXCEPT !.at = "read", !.draft = registry]]
      BY <1>1 DEF TakeWriteLock, Moves
    <3>a. PICK p : p = opener[o]
      OBVIOUS
    <3>2. [opener[o] EXCEPT !.at = "read", !.draft = registry] = q
      <4>0. p = [at |-> p.at, draft |-> p.draft]
        BY <1>0, <3>a
      <4>1. \A a, f : [p EXCEPT !.at = a, !.draft = f] = [at |-> a, draft |-> f]
        BY <4>0, TwoFields, Zenon
      <4>2. [p EXCEPT !.at = "read", !.draft = registry] = q
        BY <2>0, <4>1
      <4>3. QED
        BY <3>a, <4>2
    <3>3. QED
      BY <1>1, <3>1, <3>2 DEF TakeWriteLock, LockIsFree
  <2>2. StepOf(o, q)
    BY <2>0, <2>1 DEF StepOf, OpenerOK, States
  <2>3. QED
    BY <2>0, <2>1, <2>2, RegistryStays
<1>2. CASE FindsItLocked(o)
  <2>0. PICK q : q = [at |-> "refused", draft |-> opener[o].draft]
    OBVIOUS
  <2>1. /\ registry' = registry /\ writer' = writer /\ opens' = opens
        /\ opener' = [opener EXCEPT ![o] = q] /\ opener[o].at = "lock"
    <3>1. opener' = [opener EXCEPT ![o] = [opener[o] EXCEPT !.at = "refused"]]
      BY <1>2 DEF FindsItLocked, Moves
    <3>2. [opener[o] EXCEPT !.at = "refused"] = q
      BY <1>0, <2>0, TwoFields, Zenon
    <3>3. QED
      BY <1>2, <3>1, <3>2 DEF FindsItLocked
  <2>2. StepOf(o, q)
    BY <1>0, <2>0, <2>1 DEF StepOf, OpenerOK, States
  <2>3. QED
    BY <2>0, <2>1, <2>2, RegistryStays
<1>3. CASE CloseRegistry(o)
  <2>0. PICK q : q = [at |-> "closed", draft |-> opener[o].draft]
    OBVIOUS
  <2>1. /\ registry' = registry /\ writer' = writer /\ opens' = opens
        /\ opener' = [opener EXCEPT ![o] = q] /\ opener[o].at = "open"
    <3>1. opener' = [opener EXCEPT ![o] = [opener[o] EXCEPT !.at = "closed"]]
      BY <1>3 DEF CloseRegistry, Moves
    <3>2. [opener[o] EXCEPT !.at = "closed"] = q
      BY <1>0, <2>0, TwoFields, Zenon
    <3>3. QED
      BY <1>3, <3>1, <3>2 DEF CloseRegistry
  <2>2. StepOf(o, q)
    BY <1>0, <2>0, <2>1 DEF StepOf, OpenerOK, States
  <2>3. QED
    BY <2>0, <2>1, <2>2, RegistryStays
<1>4. QED
  BY <1>1, <1>2, <1>3

\* What is done in a transaction changes no file until it is committed.
LEMMA DraftStepsKeep ==
  ASSUME OpeningInv, NEW o \in Opener, ReadVersions(o) \/ UpgradeOne(o) \/ DiesOpening(o)
  PROVE  OpeningInv' /\ ForwardStep /\ RefusedStep
<1>0. /\ OpenerOK(opener[o], o, registry, writer) /\ AsAnEraLeftIt(registry)
      /\ opener[o] = [at |-> opener[o].at, draft |-> opener[o].draft]
      /\ writer \in Opener \union {Nobody}
  BY DEF OpeningInv, OpenerOK
<1>1. CASE opener[o].at \in {"read", "upgrade"} /\ (Abandon(o, "refused") \/ Abandon(o, "closed"))
  BY <1>1, AbandonKeeps
<1>2. CASE ReadVersions(o) /\ ~ MustRefuse(o, opener[o].draft)
  <2>0. PICK q : q = [at |-> "upgrade", draft |-> PlacedDraft(registry)]
    OBVIOUS
  <2>1. /\ registry' = registry /\ writer' = writer /\ opens' = opens /\ opener[o].at = "read"
        /\ opener[o].draft = registry
    BY <1>0, <1>2 DEF ReadVersions, Abandon, OpenerOK
  <2>2. opener' = [opener EXCEPT ![o] = q]
    BY <1>0, <1>2, <2>0, <2>1 DEF ReadVersions, Moves
  <2>3. DraftOK(PlacedDraft(registry), registry, o)
    BY <1>0, <1>2, <2>1, PlacedKeeps
  <2>4. StepOf(o, q)
    BY <1>0, <2>0, <2>1, <2>2, <2>3 DEF StepOf, OpenerOK, States
  <2>5. QED
    BY <2>0, <2>1, <2>4, RegistryStays
<1>3. CASE /\ UpgradeOne(o)
           /\ ~ (Pending(o) = OneActiveRevision /\ RefusesTheIndex(opener[o].draft))
  <2>0. PICK d : d = opener[o].draft
    OBVIOUS
  <2>a. PICK q : q = [at |-> "upgrade", draft |-> Revised(d, Next1(d))]
    OBVIOUS
  <2>1. /\ registry' = registry /\ writer' = writer /\ opens' = opens /\ opener[o].at = "upgrade"
        /\ Pending(o) = Next1(d) /\ Next1(d) <= HeadOf[o]
    BY <1>3, <2>0 DEF UpgradeOne, Pending, Next1
  <2>2. opener' = [opener EXCEPT ![o] = q]
    BY <1>0, <1>3, <2>0, <2>a, <2>1 DEF UpgradeOne, Moves
  <2>3. DraftOK(d, registry, o) /\ (Next1(d) = OneActiveRevision => ~ RefusesTheIndex(d))
    BY <1>0, <1>3, <2>0, <2>1 DEF OpenerOK
  <2>4. DraftOK(Revised(d, Next1(d)), registry, o)
    BY <1>0, <2>1, <2>3, RevisedKeeps
  <2>5. StepOf(o, q)
    BY <1>0, <2>a, <2>1, <2>2, <2>4 DEF StepOf, OpenerOK, States
  <2>6. QED
    BY <2>a, <2>1, <2>5, RegistryStays
<1>4. QED
  BY <1>1, <1>2, <1>3 DEF ReadVersions, UpgradeOne, DiesOpening

\* A transaction that is committed is the whole registry.
LEMMA CommitKeeps ==
  ASSUME OpeningInv, NEW o \in Opener, CommitOpen(o)
  PROVE  OpeningInv' /\ ForwardStep /\ RefusedStep
<1>0. /\ OpenerOK(opener[o], o, registry, writer) /\ AsAnEraLeftIt(registry)
      /\ opener[o] = [at |-> opener[o].at, draft |-> opener[o].draft]
  BY DEF OpeningInv, OpenerOK
<1>1. PICK d : d = opener[o].draft
  OBVIOUS
<1>2. PICK l : l = Levelled(d.ladder)
  OBVIOUS
<1>a. PICK q : q = [at |-> "open", draft |-> NoDraft]
  OBVIOUS
<1>3. /\ opener[o].at = "upgrade" /\ writer = o /\ writer' = Nobody /\ opens' = opens
      /\ DraftOK(d, registry, o) /\ Pending(o) = Next1(d) /\ Next1(d) > HeadOf[o]
      /\ registry' = [[d EXCEPT !.ladder = l] EXCEPT !.mode = registry.mode]
  BY <1>0, <1>1, <1>2 DEF CommitOpen, OpenerOK, Pending, Next1
<1>4. opener' = [opener EXCEPT ![o] = q]
  <2>1. opener' = [opener EXCEPT ![o] = [opener[o] EXCEPT !.at = "open", !.draft = NoDraft]]
    BY DEF CommitOpen, Moves
  <2>a. PICK p : p = opener[o]
    OBVIOUS
  <2>2. [opener[o] EXCEPT !.at = "open", !.draft = NoDraft] = q
    <3>0. p = [at |-> p.at, draft |-> p.draft]
      BY <1>0, <2>a
    <3>1. \A a, f : [p EXCEPT !.at = a, !.draft = f] = [at |-> a, draft |-> f]
      BY <3>0, TwoFields, Zenon
    <3>2. [p EXCEPT !.at = "open", !.draft = NoDraft] = q
      BY <1>a, <3>1
    <3>3. QED
      BY <2>a, <3>2
  <2>3. QED
    BY <2>1, <2>2
<1>5. /\ HeadOf[o] \in Nat /\ HeadOf[o] >= Baseline /\ Carried(o) \subseteq Nat
  BY CarriedIsNat
<1>6. PICK n \in Carried(o) : d.rows = {n}
  <2>1. d.rows # {}
    <3>1. SUFFICES ASSUME d.rows = {} PROVE FALSE
      OBVIOUS
    <3>2. Next1(d) = Baseline
      BY <1>3, <3>1, NextIsOneMore
    <3>3. QED
      BY <1>3, <1>5, <3>2 DEF Baseline
  <2>2. QED
    BY <1>3, <2>1 DEF DraftOK
<1>7. /\ d = [mode |-> d.mode, rows |-> d.rows, ladder |-> d.ladder, schema |-> d.schema,
              index |-> d.index, runs |-> d.runs]
      /\ d.rows \subseteq Nat /\ d.ladder \in Int /\ d.schema \in Nat
      /\ d.index \in {"none", "own", "wider", "other"}
  BY <1>3, EraFields DEF DraftOK
<1>8. /\ RowsAsWritten(d.runs) /\ \A k \in d.rows : d.schema >= k
      /\ (\E k \in d.rows : k >= OneActiveRevision) => d.index \in {"own", "wider"} /\ OneActiveHolds(d.runs)
  BY <1>3 DEF AsAnEraLeftIt, DraftOK
<1>9. registry' = [mode |-> registry.mode, rows |-> d.rows, ladder |-> l, schema |-> d.schema,
                   index |-> d.index, runs |-> d.runs]
  BY <1>3, <1>7
<1>10. l \in {NoLadder, LadderVersion} /\ l \in Int /\ registry.mode \in {"delete", "wal"}
  BY <1>0, <1>2, EraFields DEF Levelled, NoLadder, LadderVersion
<1>11. AsAnEraLeftIt(registry')
  <2>1. d.rows = {} /\ l = Baseline => d.schema >= Baseline
    BY <1>6
  <2>2. AsAnEraLeftIt([mode |-> registry.mode, rows |-> d.rows, ladder |-> l, schema |-> d.schema,
                       index |-> d.index, runs |-> d.runs])
    BY ONLY <1>7, <1>8, <1>10, <2>1, EraFrom
  <2>3. QED
    BY <1>9, <2>2
<1>b. PICK r : r = registry'
  OBVIOUS
<1>12. WholeReg(registry')
  <2>1. r.rows = d.rows /\ r.ladder = l /\ r.schema = d.schema /\ r.index = d.index /\ r.runs = d.runs
    BY <1>9, <1>b
  <2>2. WholeReg(r)
    BY <1>6, <1>8, <1>10, <2>1 DEF WholeReg
  <2>3. QED
    BY <1>b, <2>2
<1>13. StepOf(o, q)
  BY <1>a, <1>3, <1>4, OpeningAssumption DEF StepOf, OpenerOK, States
<1>14. OpeningInv'
  <2>1. opens' \in 0 .. MaxOpens
    BY <1>3 DEF OpeningInv
  <2>2. QED
    BY <1>11, <1>12, <1>13, <2>1, OneMoves
<1>15. ForwardStep
  <2>1. registry'.rows = d.rows /\ registry'.runs = d.runs
    BY <1>9
  <2>2. /\ \A m \in registry.rows : \E k \in d.rows : k >= m
        /\ \A a \in registry.runs, b \in d.runs : Owned(a) /\ a.id = b.id => Owned(b)
    BY <1>3 DEF DraftOK
  <2>3. \A a \in registry.runs : Owned(a) => \A s \in d.runs : s.id = a.id => s.status # "interrupted"
    BY <2>2 DEF Owned
  <2>4. QED
    BY <2>1, <2>2, <2>3 DEF ForwardStep
<1>16. QED
  BY <1>a, <1>13, <1>14, <1>15, OthersNotRefused

\* An open registry is written with the tables its build knows.
LEMMA HeadWritesKeep ==
  ASSUME OpeningInv, NEW o \in Opener, NEW runs, HeadWrites(o, runs), RowsAsWritten(runs),
         registry.index # "none" /\ OneActiveHolds(registry.runs) => OneActiveHolds(runs),
         \A r \in registry.runs : Owned(r) => \A s \in runs : s.id = r.id => s.status # "interrupted"
  PROVE  OpeningInv' /\ ForwardStep /\ RefusedStep
<1>0. /\ opener[o].at = "open" /\ writer = Nobody /\ registry' = [registry EXCEPT !.runs = runs]
      /\ UNCHANGED <<writer, opener, opens>>
  BY DEF HeadWrites
<1>1. /\ registry = [mode |-> registry.mode, rows |-> registry.rows, ladder |-> registry.ladder,
                     schema |-> registry.schema, index |-> registry.index, runs |-> registry.runs]
      /\ registry.mode \in {"delete", "wal"}
      /\ registry.rows \subseteq Nat /\ registry.ladder \in Int /\ registry.schema \in Nat
      /\ registry.index \in {"none", "own", "wider", "other"} /\ AsAnEraLeftIt(registry)
  BY EraFields DEF OpeningInv
<1>2. registry' = [mode |-> registry.mode, rows |-> registry.rows, ladder |-> registry.ladder,
                   schema |-> registry.schema, index |-> registry.index, runs |-> runs]
  BY <1>0, <1>1
<1>3. /\ \A n \in registry.rows : registry.schema >= n
      /\ registry.rows = {} /\ registry.ladder = Baseline => registry.schema >= Baseline
      /\ (\E n \in registry.rows : n >= OneActiveRevision) =>
           registry.index \in {"own", "wider"} /\ OneActiveHolds(runs)
  <2>1. (\E n \in registry.rows : n >= OneActiveRevision) =>
           registry.index \in {"own", "wider"} /\ OneActiveHolds(registry.runs)
    BY <1>1 DEF AsAnEraLeftIt
  <2>2. QED
    BY <1>1, <2>1 DEF AsAnEraLeftIt
<1>4. AsAnEraLeftIt(registry')
  <2>1. AsAnEraLeftIt([mode |-> registry.mode, rows |-> registry.rows, ladder |-> registry.ladder,
                       schema |-> registry.schema, index |-> registry.index, runs |-> runs])
    BY <1>1, <1>3, EraFrom
  <2>2. QED
    BY <1>2, <2>1
<1>5. /\ registry'.rows = registry.rows /\ registry'.ladder = registry.ladder
      /\ registry'.schema = registry.schema /\ registry'.index = registry.index /\ registry'.runs = runs
  BY <1>2
<1>6. WholeReg(registry')
  <2>1. WholeReg(registry)
    BY <1>0 DEF OpeningInv
  <2>2. QED
    BY <1>3, <1>5, <2>1 DEF WholeReg
<1>7. \A x \in Opener : OpenerOK(opener'[x], x, registry', writer')
  <2>1. SUFFICES ASSUME NEW x \in Opener PROVE OpenerOK(opener[x], x, registry', Nobody)
    BY <1>0
  <2>2. OpenerOK(opener[x], x, registry, Nobody) /\ x # Nobody
    BY <1>0, OpeningAssumption DEF OpeningInv
  <2>3. QED
    BY <2>2 DEF OpenerOK
<1>8. OpeningInv'
  BY <1>0, <1>4, <1>6, <1>7 DEF OpeningInv
<1>9. ForwardStep
  <2>1. \A n \in registry.rows : \E k \in registry'.rows : k >= n
    BY <1>1, <1>5
  <2>2. QED
    BY <1>5, <2>1 DEF ForwardStep
<1>10. RefusedStep
  BY <1>0 DEF RefusedStep
<1>11. QED
  BY <1>8, <1>9, <1>10

\* A run's row that is added leaves rows that some build wrote.
LEMMA AddedRow ==
  ASSUME NEW runs, RowsAsWritten(runs), NEW m \in MeetingRow, Cardinality(runs) < MaxRunRows
  PROVE  LET oneRun == [id |-> Cardinality(runs) + 1, meeting |-> m, status |-> "queued", owned |-> FALSE]
         IN  RowsAsWritten(runs \union {oneRun}) /\ ~ Owned(oneRun) /\ \A r \in runs : r.id # oneRun.id
<1>0. PICK oneRun : oneRun = [id |-> Cardinality(runs) + 1, meeting |-> m, status |-> "queued", owned |-> FALSE]
  OBVIOUS
<1>1. /\ IsFiniteSet(runs) /\ runs \subseteq RunRows
      /\ \A r \in runs : 1 <= r.id /\ r.id <= Cardinality(runs)
      /\ \A r, s \in runs : r.id = s.id \/ (Owned(r) /\ Owned(s) /\ r.meeting = s.meeting) => r = s
  BY DEF RowsAsWritten, RunRows
<1>2. PICK c : c = Cardinality(runs)
  OBVIOUS
<1>3. c \in Nat /\ \A r \in runs : r.id \in Nat
  BY <1>1, <1>2, FS_CardinalityType DEF RunRows
<1>4. oneRun \in RunRows /\ oneRun.id = c + 1 /\ ~ Owned(oneRun) /\ oneRun.meeting = m
  BY <1>0, <1>2, <1>3 DEF RunRows, Owned
<1>5. \A r \in runs : r.id # oneRun.id
  BY <1>1, <1>2, <1>3, <1>4
<1>6. oneRun \notin runs
  BY <1>5
<1>7. IsFiniteSet(runs \union {oneRun}) /\ Cardinality(runs \union {oneRun}) = c + 1
  BY <1>1, <1>2, <1>6, FS_AddElement
<1>8. RowsAsWritten(runs \union {oneRun})
  <2>1. runs \union {oneRun} \subseteq RunRows
    BY <1>1, <1>4
  <2>2. \A r \in runs \union {oneRun} : 1 <= r.id /\ r.id <= c + 1
    BY <1>1, <1>2, <1>3, <1>4
  <2>3. \A r, s \in runs \union {oneRun} :
           r.id = s.id \/ (Owned(r) /\ Owned(s) /\ r.meeting = s.meeting) => r = s
    BY <1>1, <1>4, <1>5
  <2>4. c + 1 <= MaxRunRows
    BY <1>2, <1>3, OpeningAssumption
  <2>5. QED
    BY <1>7, <2>1, <2>2, <2>3, <2>4 DEF RowsAsWritten, RunRows
<1>9. QED
  BY <1>0, <1>4, <1>5, <1>8

\* So does one that is changed.
LEMMA ReplacedRow ==
  ASSUME NEW runs, RowsAsWritten(runs), NEW r \in runs, NEW s \in RunRows,
         s.id = r.id, s.meeting = r.meeting, Active(s) => Active(r),
         Owned(s) => \A x \in runs : ~ Owned(x)
  PROVE  /\ RowsAsWritten((runs \ {r}) \union {s})
         /\ OneActiveHolds(runs) => OneActiveHolds((runs \ {r}) \union {s})
<1>1. /\ IsFiniteSet(runs) /\ runs \subseteq RunRows /\ Cardinality(runs) <= MaxRunRows
      /\ \A x \in runs : 1 <= x.id /\ x.id <= Cardinality(runs)
      /\ \A x, y \in runs : x.id = y.id \/ (Owned(x) /\ Owned(y) /\ x.meeting = y.meeting) => x = y
  BY DEF RowsAsWritten, RunRows
<1>2. PICK R : R = runs \ {r}
  OBVIOUS
<1>3. \A x \in R : x \in runs /\ x # r /\ x.id # s.id
  BY <1>1, <1>2
<1>4. s \notin R
  BY <1>3
<1>5. IsFiniteSet(R) /\ Cardinality(R) = Cardinality(runs) - 1
  BY <1>1, <1>2, FS_RemoveElement
<1>6. Cardinality(runs) \in Nat /\ Cardinality(R) \in Nat
  BY <1>1, <1>5, FS_CardinalityType
<1>7. IsFiniteSet(R \union {s}) /\ Cardinality(R \union {s}) = Cardinality(runs)
  <2>1. IsFiniteSet(R \union {s}) /\ Cardinality(R \union {s}) = Cardinality(R) + 1
    BY <1>4, <1>5, FS_AddElement
  <2>2. QED
    BY <1>5, <1>6, <2>1
<1>8. R \union {s} \subseteq RunRows
  BY <1>1, <1>3
<1>9. \A x \in R \union {s} : 1 <= x.id /\ x.id <= Cardinality(R \union {s})
  BY <1>1, <1>3, <1>7
<1>10. \A x, y \in R \union {s} :
         x.id = y.id \/ (Owned(x) /\ Owned(y) /\ x.meeting = y.meeting) => x = y
  BY <1>1, <1>3
<1>11. RowsAsWritten(R \union {s})
  BY <1>1, <1>7, <1>8, <1>9, <1>10 DEF RowsAsWritten, RunRows
<1>12. OneActiveHolds(runs) => OneActiveHolds(R \union {s})
  <2>1. SUFFICES ASSUME OneActiveHolds(runs) PROVE OneActiveHolds(R \union {s})
    OBVIOUS
  <2>2. \A x, y \in runs : Active(x) /\ Active(y) /\ x.meeting = y.meeting => x = y
    BY <2>1 DEF OneActiveHolds
  <2>3. \A x \in R : Active(x) /\ Active(s) => x.meeting # s.meeting
    BY <1>3, <2>2
  <2>4. QED
    BY <1>3, <2>2, <2>3 DEF OneActiveHolds
<1>13. QED
  BY <1>2, <1>11, <1>12

\* The rows of runs that an opened registry is given are such rows.
LEMMA RunWritesKeep ==
  ASSUME OpeningInv, NEW o \in Opener,
         (\E m \in MeetingRow : SubmitRun(o, m)) \/ ClaimRow(o) \/ EndRow(o)
  PROVE  OpeningInv' /\ ForwardStep /\ RefusedStep
<1>0. RowsAsWritten(registry.runs)
  BY DEF OpeningInv, AsAnEraLeftIt
<1>1. /\ registry.runs \subseteq RunRows
      /\ \A x, y \in registry.runs : x.id = y.id => x = y
  BY <1>0 DEF RowsAsWritten, RunRows
<1>2. ASSUME NEW m \in MeetingRow, SubmitRun(o, m)
      PROVE  OpeningInv' /\ ForwardStep /\ RefusedStep
  <2>1. PICK oneRun : oneRun = [id |-> Cardinality(registry.runs) + 1, meeting |-> m,
                          status |-> "queued", owned |-> FALSE]
    OBVIOUS
  <2>2. /\ Cardinality(registry.runs) < MaxRunRows
        /\ registry.index # "none" => OneActiveHolds(registry.runs \union {oneRun})
        /\ HeadWrites(o, registry.runs \union {oneRun})
    BY <1>2, <2>1 DEF SubmitRun
  <2>3. RowsAsWritten(registry.runs \union {oneRun}) /\ \A r \in registry.runs : r.id # oneRun.id
    BY <1>0, <2>1, <2>2, AddedRow
  <2>4. \A r \in registry.runs : Owned(r) =>
           \A s \in registry.runs \union {oneRun} : s.id = r.id => s.status # "interrupted"
    BY <1>1, <2>3 DEF Owned
  <2>5. QED
    BY <2>2, <2>3, <2>4, HeadWritesKeep
<1>3. ASSUME ClaimRow(o) PROVE OpeningInv' /\ ForwardStep /\ RefusedStep
  <2>1. PICK r \in registry.runs :
          /\ r.status = "queued"
          /\ HeadWrites(o, (registry.runs \ {r}) \union
                         {[r EXCEPT !.status = "running", !.owned = HeadOf[o] > Baseline]})
    BY <1>3 DEF ClaimRow
  <2>2. \A x \in registry.runs : ~ Owned(x)
    BY <1>3 DEF ClaimRow, Owned
  <2>3. PICK s : s = [r EXCEPT !.status = "running", !.owned = HeadOf[o] > Baseline]
    OBVIOUS
  <2>4. s \in RunRows /\ s.id = r.id /\ s.meeting = r.meeting /\ Active(r)
    <3>1. r \in RunRows /\ (HeadOf[o] > Baseline) \in BOOLEAN
      BY <1>1
    <3>2. QED
      BY <2>1, <2>3, <3>1 DEF RunRows, Active
  <2>5. /\ RowsAsWritten((registry.runs \ {r}) \union {s})
        /\ OneActiveHolds(registry.runs) => OneActiveHolds((registry.runs \ {r}) \union {s})
    BY <1>0, <2>2, <2>4, ReplacedRow
  <2>6. QED
    BY <2>1, <2>2, <2>3, <2>5, HeadWritesKeep
<1>4. ASSUME EndRow(o) PROVE OpeningInv' /\ ForwardStep /\ RefusedStep
  <2>1. PICK r \in registry.runs :
          /\ r.status = "running"
          /\ HeadWrites(o, (registry.runs \ {r}) \union {[r EXCEPT !.status = "done"]})
    BY <1>4 DEF EndRow
  <2>3. PICK s : s = [r EXCEPT !.status = "done"]
    OBVIOUS
  <2>4. /\ s \in RunRows /\ s.id = r.id /\ s.meeting = r.meeting /\ Active(r) /\ s.status = "done"
    BY <1>1, <2>1, <2>3 DEF RunRows, Active
  <2>5. /\ RowsAsWritten((registry.runs \ {r}) \union {s})
        /\ OneActiveHolds(registry.runs) => OneActiveHolds((registry.runs \ {r}) \union {s})
    BY <1>0, <2>4, ReplacedRow DEF Owned
  <2>6. \A x \in registry.runs : Owned(x) =>
           \A y \in (registry.runs \ {r}) \union {s} : y.id = x.id => y.status # "interrupted"
    BY <1>1, <2>4 DEF Owned
  <2>7. QED
    BY <2>1, <2>3, <2>5, <2>6, HeadWritesKeep
<1>5. QED
  BY <1>2, <1>3, <1>4

\* Every step of an opener keeps what is so of the registry; its revision
\* only grows, and a build that refuses it changes nothing.
LEMMA OpeningStays ==
  ASSUME OpeningInv, [OpeningNext]_openingVars
  PROVE  OpeningInv' /\ ForwardStep /\ RefusedStep
<1>1. CASE OpeningNext
  <2>1. PICK o \in Opener :
          \/ DecideMode(o) \/ TakeWriteLock(o) \/ FindsItLocked(o)
          \/ ReadVersions(o) \/ UpgradeOne(o) \/ CommitOpen(o)
          \/ DiesOpening(o) \/ CloseRegistry(o)
          \/ \E m \in MeetingRow : SubmitRun(o, m)
          \/ ClaimRow(o) \/ EndRow(o)
    BY <1>1 DEF OpeningNext
  <2>2. QED
    BY <2>1, OpeningDecides, LockStepsKeep, DraftStepsKeep, CommitKeeps, RunWritesKeep
<1>2. CASE UNCHANGED openingVars
  <2>1. OpeningInv'
    BY <1>2 DEF openingVars, OpeningInv
  <2>2. ForwardStep
    BY <1>2, QuietStep DEF openingVars
  <2>3. RefusedStep
    BY <1>2 DEF openingVars, RefusedStep
  <2>4. QED
    BY <2>1, <2>2, <2>3
<1>3. QED
  BY <1>1, <1>2

-----------------------------------------------------------------------------
(* The machine tokens (MachineTokens).                                       *)

\* The stamp of a token is at most one interval behind its last call.
StampNear(x) ==
    /\ stamp[x] \in Int /\ lastCall[x] \in Int
    /\ stamp[x] <= tokenNow /\ lastCall[x] <= tokenNow
    /\ lastCall[x] # Never => stamp[x] # Never /\ lastCall[x] - stamp[x] < TouchInterval

TokensInv == TokensTypeOK /\ \A x \in Script : StampNear(x) /\ token[x] <= minted

\* No token is there to begin with.
LEMMA TokensInitInv == TokensInit => TokensInv
BY MachineTokensAssumption DEF TokensInit, TokensInv, TokensTypeOK, StampNear, Never, NoRow, NothingShown

\* An id has a token at most when as many were minted.
LEMMA NextIdFits ==
  ASSUME token \in [Script -> Nat], minted \in Nat, \A x \in Script : token[x] <= minted
  PROVE  NextTokenId \in Nat /\ NextTokenId <= minted + 1 /\ NextTokenId > 0
<1> DEFINE S == Ids \cup {NoRow}
<1>1. S \in SUBSET (0 .. minted) /\ S # {}
  BY DEF Ids, NoRow
<1>2. \E i \in S : \A j \in S : j <= i
  <2> DEFINE R == OpToRel(<, Nat)
             T == {minted - j : j \in S}
  <2>1. T \subseteq Nat /\ T # {}
    BY <1>1
  <2>2. PICK m \in T : \A y \in T : ~ (<<y, m>> \in R)
    <3> HIDE DEF T, R
    <3>1. QED
      BY <2>1, NatLessThanWellFounded, WFMin DEF R
  <2>3. \A y \in T : ~ (y < m)
    BY <2>1, <2>2 DEF OpToRel
  <2>4. PICK i \in S : m = minted - i
    OBVIOUS
  <2>5. ASSUME NEW j \in S PROVE j <= i
    <3>1. minted - j \in T /\ ~ (minted - j < minted - i)
      BY <2>3, <2>4
    <3>2. i \in Int /\ j \in Int
      BY <1>1
    <3>3. QED
      BY <3>1, <3>2
  <2>6. QED
    BY <2>4, <2>5
<1>3. \E i \in S : \A j \in Ids : j <= i
  BY <1>2
<1> DEFINE i == CHOOSE i \in Ids \cup {NoRow} : \A j \in Ids : j <= i
<1>4. i \in S
  BY <1>3
<1>5. NextTokenId = 1 + i
  BY DEF NextTokenId
<1> HIDE DEF i, S
<1>6. QED
  BY <1>1, <1>4, <1>5

\* Every step of a script, a page or the clock keeps what is so of the
\* tokens.
LEMMA TokensStay == ASSUME TokensInv, [TokensNext]_tokenVars PROVE TokensInv'
<1> USE MachineTokensAssumption DEF TokensInv, StampNear
<1>0. /\ token \in [Script -> Nat] /\ stamp \in [Script -> Int] /\ lastCall \in [Script -> Int]
      /\ shown \in [Page -> {NothingShown} \cup [id : Nat, label : Script]]
      /\ revoking \in [Page -> Script \cup {NoRow}]
      /\ minted \in Nat /\ minted <= MaxMints /\ tokenNow \in Nat /\ tokenNow <= MaxTokenNow
      /\ tokenLocks \in Nat /\ tokenLocks <= MaxTokenLocks
  BY DEF TokensTypeOK
<1>a. Never = -1 /\ NoRow = 0
  BY DEF Never, NoRow
\* It is enough that the parts keep their ranges.
<1>1. ASSUME token' \in [Script -> Nat], stamp' \in [Script -> Int], lastCall' \in [Script -> Int],
             shown' \in [Page -> {NothingShown} \cup [id : Nat, label : Script]],
             revoking' \in [Page -> Script \cup {NoRow}],
             minted' \in Nat, minted' <= MaxMints, tokenNow' \in Nat, tokenNow' <= MaxTokenNow,
             tokenLocks' \in Nat, tokenLocks' <= MaxTokenLocks
      PROVE  TokensTypeOK'
  BY <1>1 DEF TokensTypeOK
<1>2. ASSUME NEW x \in Script, Mints(x) PROVE TokensInv'
  <2>1. NextTokenId \in Nat /\ NextTokenId <= minted + 1
    BY <1>0, NextIdFits
  <2>2. TokensTypeOK'
    BY <1>0, <1>1, <1>2, <1>a, <2>1 DEF Mints
  <2>3. \A y \in Script : StampNear(y)'
    BY <1>0, <1>2, <1>a DEF Mints
  <2>4. \A y \in Script : token'[y] <= minted'
    BY <1>0, <1>2, <2>1 DEF Mints
  <2>5. QED
    BY <2>2, <2>3, <2>4
<1>3. ASSUME NEW x \in Script, Calls(x) PROVE TokensInv'
  <2>1. /\ UNCHANGED <<token, shown, revoking, minted, tokenNow>>
        /\ tokenLocks' \in {tokenLocks, tokenLocks + 1} /\ tokenLocks' <= MaxTokenLocks
    BY <1>0, <1>3 DEF Calls, RecordLocked
  <2>2. CASE UNCHANGED <<stamp, lastCall>>
    BY <1>0, <1>1, <2>1, <2>2
  <2>3. CASE /\ stamp' = [stamp EXCEPT ![x] = IF UseIsDue(x) THEN tokenNow ELSE stamp[x]]
             /\ lastCall' = [lastCall EXCEPT ![x] = tokenNow]
    <3>1. TokensTypeOK'
      BY <1>0, <1>1, <2>1, <2>3
    <3>2. \A y \in Script : StampNear(y)'
      BY <1>0, <1>a, <2>1, <2>3 DEF UseIsDue
    <3>3. QED
      BY <2>1, <3>1, <3>2
  <2>4. QED
    BY <1>3, <2>2, <2>3 DEF Calls
<1>4. ASSUME NEW p \in Page, (\E x \in Script : Shows(p, x)) \/ ReadsLabel(p) PROVE TokensInv'
  <2>1. UNCHANGED <<token, stamp, lastCall, minted, tokenNow, tokenLocks>>
    BY <1>4 DEF Shows, ReadsLabel
  <2>2. /\ shown' \in [Page -> {NothingShown} \cup [id : Nat, label : Script]]
        /\ revoking' \in [Page -> Script \cup {NoRow}]
    BY <1>0, <1>4 DEF Shows, ReadsLabel
  <2>3. QED
    BY <1>0, <1>1, <2>1, <2>2
<1>5. ASSUME NEW p \in Page, Revokes(p) PROVE TokensInv'
  <2>1. UNCHANGED <<stamp, lastCall, minted, tokenNow, tokenLocks>>
    BY <1>5 DEF Revokes
  <2>2. \A x \in Script : token'[x] \in {NoRow, token[x]}
    BY <1>5 DEF Revokes
  <2>3. /\ token' \in [Script -> Nat]
        /\ shown' \in [Page -> {NothingShown} \cup [id : Nat, label : Script]]
        /\ revoking' \in [Page -> Script \cup {NoRow}]
    BY <1>0, <1>5, <1>a DEF Revokes
  <2>4. QED
    BY <1>0, <1>1, <1>a, <2>1, <2>2, <2>3
<1>6. CASE TimePasses
  BY <1>0, <1>1, <1>6 DEF TimePasses
<1>7. CASE UNCHANGED tokenVars
  BY <1>7 DEF tokenVars, TokensTypeOK
<1>8. QED
  BY <1>2, <1>3, <1>4, <1>5, <1>6, <1>7 DEF TokensNext

\* What is so of the tokens gives their types, and that a stamp follows its
\* token's use.
LEMMA TokensInvGives == TokensInv => TokensTypeOK /\ StampFollowsUse
BY DEF TokensInv, StampNear, StampFollowsUse

-----------------------------------------------------------------------------
(* The console's sessions (ConsoleAuth).                                     *)

\* Only sessions that were opened have a row or are owed a touch.
AuthInv ==
    /\ AuthTypeOK /\ IdleClockFollowsUse
    /\ \A s \in Session : s > opened => idle[s] = Ended

\* The action formulas of the two promises about steps.
ClaimsStep == credential # NoPassword /\ credential' # credential => rescue'.at # rescue.at

EndedStep == \A s \in 1..opened : idle[s] = Ended => idle'[s] = Ended

\* The console begins with no session and a form nobody has claimed.
LEMMA AuthInitInv == AuthInit => AuthInv
BY ConsoleAuthAssumption
DEF AuthInit, AuthInv, AuthTypeOK, IdleClockFollowsUse, HasRow, Session, NoSession, Ended

\* A step of a browser, a form or the clock keeps what is so of the sessions;
\* a setup is claimed once, and a session that has ended stays ended.
LEMMA AuthStays == ASSUME AuthInv, [AuthNext]_authVars PROVE AuthInv' /\ ClaimsStep /\ EndedStep
<1> USE ConsoleAuthAssumption DEF AuthInv
<1>0. /\ credential \in Form \cup {NewPassword, NoPassword}
      /\ form \in [Form -> {"idle", "hashing", "won", "refused"}]
      /\ rescue \in [at : {"idle", "asking", "ending", "done"}, replacing : BOOLEAN]
      /\ idle \in [Session -> Int] /\ absolute \in [Session -> Int]
      /\ opened \in Nat /\ opened <= MaxSessions
      /\ cookie \in [Browser -> Session \cup {NoSession}]
      /\ gate \in [Browser -> Session \cup {NoSession}]
      /\ lastUse \in [Session -> Int] /\ now \in Nat /\ now <= MaxNow
      /\ locks \in Nat /\ locks <= MaxLocks
      /\ IdleTimeout \in Nat /\ AbsoluteLifetime \in Nat /\ MaxNow \in Nat
      /\ MaxSessions \in Nat /\ MaxLocks \in Nat
  BY DEF AuthTypeOK
<1>a. /\ Ended = -1 /\ NoSession = 0
      /\ \A s \in Session : s \in Nat /\ s # NoSession /\ 1 <= s /\ s <= MaxSessions
  BY DEF Ended, NoSession, Session
<1>b. \A s \in Session : idle[s] # Ended => 2 * idle[s] >= 2 * lastUse[s] + IdleTimeout
  BY <1>a DEF IdleClockFollowsUse, HasRow
\* What a step that touches no session has to keep.
<1>1. ASSUME UNCHANGED SessionVars, now' \in Nat, now' <= MaxNow, locks' \in Nat, locks' <= MaxLocks,
             credential' \in Form \cup {NewPassword, NoPassword},
             form' \in [Form -> {"idle", "hashing", "won", "refused"}],
             rescue' \in [at : {"idle", "asking", "ending", "done"}, replacing : BOOLEAN]
      PROVE  AuthInv' /\ EndedStep
  BY <1>0, <1>1 DEF SessionVars, AuthTypeOK, IdleClockFollowsUse, HasRow, EndedStep, Session
\* What a step that leaves the credential has to keep.
<1>2. ASSUME UNCHANGED <<credential, form, rescue, now>>, locks' \in Nat, locks' <= MaxLocks,
             idle' \in [Session -> Int], absolute' \in [Session -> Int],
             opened' \in Nat, opened' <= MaxSessions,
             cookie' \in [Browser -> Session \cup {NoSession}],
             gate' \in [Browser -> Session \cup {NoSession}],
             lastUse' \in [Session -> Int],
             \A s \in Session : idle'[s] # Ended => 2 * idle'[s] >= 2 * lastUse'[s] + IdleTimeout,
             \A s \in Session : s > opened' => idle'[s] = Ended,
             EndedStep
      PROVE  AuthInv' /\ ClaimsStep /\ EndedStep
  <2>1. AuthTypeOK'
    BY <1>0, <1>2 DEF AuthTypeOK
  <2>2. QED
    BY <1>2, <2>1 DEF IdleClockFollowsUse, HasRow, ClaimsStep
\* Rows that end, and the cookies that go with them.
<1>3. ASSUME NEW R \in SUBSET Session,
             idle' = [s \in Session |-> IF s \in R THEN Ended ELSE idle[s]],
             absolute' = [s \in Session |-> IF s \in R THEN Ended ELSE absolute[s]],
             UNCHANGED <<credential, form, rescue, now, opened, lastUse>>,
             locks' \in Nat, locks' <= MaxLocks,
             cookie' \in [Browser -> Session \cup {NoSession}],
             gate' \in [Browser -> Session \cup {NoSession}]
      PROVE  AuthInv' /\ ClaimsStep /\ EndedStep
  <2>1. idle' \in [Session -> Int] /\ absolute' \in [Session -> Int]
    BY <1>0, <1>3, <1>a
  <2>2. \A s \in Session : idle'[s] # Ended => 2 * idle'[s] >= 2 * lastUse'[s] + IdleTimeout
    BY <1>0, <1>3, <1>b
  <2>3. \A s \in Session : s > opened' => idle'[s] = Ended
    BY <1>0, <1>3
  <2>4. EndedStep
    BY <1>0, <1>3, <1>a DEF EndedStep, Session
  <2>5. QED
    BY <1>0, <1>2, <1>3, <2>1, <2>2, <2>3, <2>4
<1>4. \A b \in Browser : cookie[b] \in Session \cup {NoSession} /\ gate[b] \in Session \cup {NoSession}
  BY <1>0
<1>5. CASE \E f \in Form : FormArrives(f) \/ FormClaims(f)
  <2>1. /\ UNCHANGED <<rescue, SessionVars, now, locks>>
        /\ form' \in [Form -> {"idle", "hashing", "won", "refused"}]
        /\ credential' \in Form \cup {NewPassword, NoPassword}
        /\ credential' = credential \/ credential = NoPassword
    BY <1>0, <1>5 DEF FormArrives, FormClaims, Claims
  <2>2. ClaimsStep
    BY <2>1 DEF ClaimsStep
  <2>3. QED
    BY <1>0, <1>1, <2>1, <2>2
<1>6. CASE RescueStarts \/ RescueSets
  <2>1. /\ UNCHANGED <<form, SessionVars, now, locks>>
        /\ credential' \in Form \cup {NewPassword, NoPassword}
        /\ rescue' \in [at : {"idle", "asking", "ending", "done"}, replacing : BOOLEAN]
        /\ rescue'.at # rescue.at
    <3>1. CASE RescueStarts
      <4>1. rescue' = [at |-> "asking", replacing |-> credential # NoPassword] /\ rescue.at = "idle"
        BY <3>1 DEF RescueStarts
      <4>2. (credential # NoPassword) \in BOOLEAN
        OBVIOUS
      <4>3. rescue' \in [at : {"idle", "asking", "ending", "done"}, replacing : BOOLEAN]
        BY <4>1, <4>2, Zenon
      <4>4. rescue'.at = "asking"
        BY <4>1
      <4>5. QED
        BY <1>0, <3>1, <4>1, <4>3, <4>4 DEF RescueStarts
    <3>2. CASE RescueSets
      BY <1>0, <3>2 DEF RescueSets
    <3>3. QED
      BY <1>6, <3>1, <3>2
  <2>2. QED
    BY <1>0, <1>1, <2>1 DEF ClaimsStep
<1>7. CASE RescueEnds
  <2>1. /\ UNCHANGED <<credential, form, opened, cookie, gate, lastUse, now>>
        /\ rescue' \in [at : {"idle", "asking", "ending", "done"}, replacing : BOOLEAN]
        /\ locks' \in Nat /\ locks' <= MaxLocks
    BY <1>0, <1>7 DEF RescueEnds, MeetsALock
  <2>2. ClaimsStep
    BY <2>1 DEF ClaimsStep
  <2>3. CASE UNCHANGED RowVars
    <3>1. UNCHANGED SessionVars
      BY <2>1, <2>3 DEF RowVars, SessionVars
    <3>2. QED
      BY <1>0, <1>1, <2>1, <2>2, <3>1
  <2>4. CASE EndsAll
    <3>1. /\ idle' \in [Session -> Int] /\ absolute' \in [Session -> Int]
          /\ \A s \in Session : idle'[s] = Ended
      BY <1>a, <2>4 DEF EndsAll
    <3>2. AuthTypeOK'
      BY <1>0, <2>1, <3>1 DEF AuthTypeOK
    <3>3. EndedStep
      BY <1>0, <3>1 DEF EndedStep, Session
    <3>4. QED
      BY <2>2, <3>1, <3>2, <3>3 DEF IdleClockFollowsUse, HasRow
  <2>5. QED
    BY <1>7, <2>3, <2>4 DEF RescueEnds
<1>8. ASSUME NEW b \in Browser, SignsIn(b) PROVE AuthInv' /\ ClaimsStep /\ EndedStep
  <2>1. /\ UNCHANGED <<credential, form, rescue, now, gate>>
        /\ opened' = opened + 1 /\ opened < MaxSessions /\ opened' \in Session
        /\ cookie' \in [Browser -> Session \cup {NoSession}]
        /\ lastUse' = [lastUse EXCEPT ![opened'] = now]
    BY <1>0, <1>8 DEF SignsIn, CredentialVars, Session
  <2>2. PICK swept \in {{}, Expired} :
          /\ locks' \in {locks, locks + 1} /\ locks' <= MaxLocks
          /\ idle' = [r \in Session |-> IF r = opened' THEN now + IdleTimeout
                                        ELSE IF r \in swept THEN Ended ELSE idle[r]]
          /\ absolute' = [r \in Session |-> IF r = opened' THEN now + AbsoluteLifetime
                                            ELSE IF r \in swept THEN Ended ELSE absolute[r]]
    BY <1>0, <1>8 DEF SignsIn, MeetsALock
  <2>3. idle' \in [Session -> Int] /\ absolute' \in [Session -> Int] /\ lastUse' \in [Session -> Int]
    BY <1>0, <1>a, <2>1, <2>2
  <2>4. ASSUME NEW s \in Session, idle'[s] # Ended PROVE 2 * idle'[s] >= 2 * lastUse'[s] + IdleTimeout
    <3>1. CASE s = opened'
      BY <1>0, <2>1, <2>2, <3>1
    <3>2. CASE s # opened'
      BY <1>0, <1>b, <2>1, <2>2, <2>4, <3>2
    <3>3. QED
      BY <3>1, <3>2
  <2>5. \A s \in Session : s > opened' => idle'[s] = Ended
    BY <1>0, <1>a, <2>1, <2>2
  <2>6. EndedStep
    BY <1>0, <1>a, <2>1, <2>2 DEF EndedStep, Session
  <2>7. QED
    BY <1>0, <1>2, <2>1, <2>2, <2>3, <2>4, <2>5, <2>6
<1>9. ASSUME NEW b \in Browser, RequestPasses(b) PROVE AuthInv' /\ ClaimsStep /\ EndedStep
  <2>1. /\ UNCHANGED <<credential, form, rescue, now, idle, absolute, opened, cookie, locks>>
        /\ cookie[b] \in Session
        /\ \/ gate' = [gate EXCEPT ![b] = cookie[b]] /\ UNCHANGED lastUse
           \/ /\ UNCHANGED gate /\ lastUse' = [lastUse EXCEPT ![cookie[b]] = now]
              /\ 2 * now + IdleTimeout <= 2 * idle[cookie[b]]
    BY <1>0, <1>4, <1>9 DEF RequestPasses, CredentialVars, RowVars, TouchIsDue
  <2>2. gate' \in [Browser -> Session \cup {NoSession}] /\ lastUse' \in [Session -> Int]
    BY <1>0, <2>1
  <2>3. \A s \in Session : idle'[s] # Ended => 2 * idle'[s] >= 2 * lastUse'[s] + IdleTimeout
    BY <1>0, <1>b, <2>1
  <2>4. EndedStep
    BY <2>1 DEF EndedStep
  <2>5. QED
    BY <1>0, <1>2, <2>1, <2>2, <2>3, <2>4
<1>10. ASSUME NEW b \in Browser, RequestTouches(b) PROVE AuthInv' /\ ClaimsStep /\ EndedStep
  <2>1. /\ UNCHANGED <<credential, form, rescue, now, absolute, opened, cookie>>
        /\ gate' = [gate EXCEPT ![b] = NoSession] /\ gate[b] \in Session
        /\ locks' \in {locks, locks + 1} /\ locks' <= MaxLocks
        /\ \/ /\ idle' = [idle EXCEPT ![gate[b]] = IF idle[gate[b]] # Ended THEN now + IdleTimeout ELSE idle[gate[b]]]
              /\ lastUse' = [lastUse EXCEPT ![gate[b]] = now]
           \/ UNCHANGED <<idle, lastUse>>
    BY <1>0, <1>4, <1>10 DEF RequestTouches, CredentialVars, MeetsALock, Touched, HasRow
  <2>2. /\ gate' \in [Browser -> Session \cup {NoSession}]
        /\ lastUse' \in [Session -> Int] /\ idle' \in [Session -> Int]
    BY <1>0, <2>1
  <2>3. ASSUME NEW s \in Session
        PROVE  /\ idle'[s] # Ended => 2 * idle'[s] >= 2 * lastUse'[s] + IdleTimeout
               /\ idle[s] = Ended => idle'[s] = Ended
    BY <1>0, <1>b, <2>1
  <2>4. EndedStep
    BY <1>0, <2>3 DEF EndedStep, Session
  <2>5. \A s \in Session : s > opened' => idle'[s] = Ended
    BY <2>1, <2>3
  <2>6. QED
    BY <1>0, <1>2, <2>1, <2>2, <2>3, <2>4, <2>5
<1>11. ASSUME NEW b \in Browser, RequestIsRefused(b) \/ SignsOut(b) \/ RevokesAll(b)
       PROVE  AuthInv' /\ ClaimsStep /\ EndedStep
  <2>1. /\ UNCHANGED <<credential, form, rescue, now, opened, lastUse, gate>>
        /\ cookie' = [cookie EXCEPT ![b] = NoSession]
        /\ locks' \in {locks, locks + 1} /\ locks' <= MaxLocks
    BY <1>0, <1>11 DEF RequestIsRefused, SignsOut, RevokesAll, CredentialVars, MeetsALock
  <2>2. \E R \in SUBSET Session :
          /\ idle' = [s \in Session |-> IF s \in R THEN Ended ELSE idle[s]]
          /\ absolute' = [s \in Session |-> IF s \in R THEN Ended ELSE absolute[s]]
    <3>1. CASE UNCHANGED RowVars
      <4>1. /\ idle' = [s \in Session |-> IF s \in {} THEN Ended ELSE idle[s]]
            /\ absolute' = [s \in Session |-> IF s \in {} THEN Ended ELSE absolute[s]]
        BY <1>0, <3>1 DEF RowVars
      <4>2. {} \in SUBSET Session
        OBVIOUS
      <4>3. QED
        BY <4>1, <4>2, Zenon
    <3>2. CASE SignsOut(b)
      <4>1. cookie[b] \in Session
        BY <1>4, <3>2 DEF SignsOut
      <4>2. /\ idle' = [s \in Session |-> IF s \in {cookie[b]} THEN Ended ELSE idle[s]]
            /\ absolute' = [s \in Session |-> IF s \in {cookie[b]} THEN Ended ELSE absolute[s]]
        BY <1>0, <3>2, <4>1 DEF SignsOut
      <4>3. QED
        BY <4>1, <4>2
    <3>3. CASE EndsAll
      <4>1. /\ idle' = [s \in Session |-> IF s \in Session THEN Ended ELSE idle[s]]
            /\ absolute' = [s \in Session |-> IF s \in Session THEN Ended ELSE absolute[s]]
        BY <3>3 DEF EndsAll
      <4>2. QED
        BY <4>1
    <3>4. CASE /\ idle' = [s \in Session |-> IF s \in Expired THEN Ended ELSE idle[s]]
               /\ absolute' = [s \in Session |-> IF s \in Expired THEN Ended ELSE absolute[s]]
      <4>1. Expired \in SUBSET Session
        BY DEF Expired
      <4>2. QED
        BY <3>4, <4>1
    <3>5. QED
      BY <1>11, <3>1, <3>2, <3>3, <3>4 DEF RequestIsRefused, RevokesAll
  <2>3. cookie' \in [Browser -> Session \cup {NoSession}] /\ gate' \in [Browser -> Session \cup {NoSession}]
    BY <1>0, <2>1
  <2>4. QED
    BY <1>0, <1>3, <2>1, <2>2, <2>3
<1>12. CASE ClockTicks
  BY <1>0, <1>1, <1>12 DEF ClockTicks, CredentialVars, ClaimsStep
<1>13. CASE UNCHANGED authVars
  BY <1>0, <1>1, <1>13 DEF authVars, SessionVars, ClaimsStep
<1>14. QED
  BY <1>5, <1>6, <1>7, <1>8, <1>9, <1>10, <1>11, <1>12, <1>13 DEF AuthNext

-----------------------------------------------------------------------------
(* What every surface registers (Registration).                              *)

Creates == {"project.create", "meeting.create"}

OwedRows == [call : Nat, action : Creates, outcome : {"ok", "failed"}]

\* What a row of the record says its call did is what the call's end says.
SaysSo(r) == \E e \in ended : e.call = r.call /\ IF r.outcome = "ok" THEN r.action \in e.landed ELSE e.refused

\* Every create of a call that ended is accounted for, its process alive.
IsAccounted(e) ==
    e.call \notin cutOff =>
         /\ \A action \in e.landed : Accounted(Owed(e.call, action, "ok"))
         /\ e.refused => \E action \in Creates : Accounted(Owed(e.call, action, "failed"))

\* Nobody has registered or created a meeting of this folder.
NoMeetingOf(f) == \A m \in meetings : m.folder # f

CallerRecord(g) == g = [at |-> g.at, call |-> g.call, folder |-> g.folder, slug |-> g.slug, owes |-> g.owes]

CallerShape(g) ==
    /\ CallerRecord(g)
    /\ g.call \in Nat
    /\ g.at # "idle" => g.call > 0 /\ g.folder \in Folder
    /\ g.owes \in Seq(OwedRows) /\ Len(g.owes) <= 2
    /\ g.at = "rows" <=> Len(g.owes) > 0
    /\ \A i \in 1 .. Len(g.owes) : g.owes[i].call = g.call

\* What a caller is at.
CallerOK(c) ==
    /\ CallerShape(caller[c]) /\ caller[c].call <= begun
    /\ \A i \in 1 .. Len(caller[c].owes) :
         SaysSo(caller[c].owes[i])
    /\ caller[c].at = "insert" => reserved = c /\ NoMeetingOf(caller[c].folder)
    /\ caller[c].at = "new meeting" => Slug(NameOf[caller[c].folder], 1) \in ProjectSlugs

RegistrationInv ==
    /\ RegistrationTypeOK
    /\ DOMAIN caller = Surface /\ caller = [c \in Surface |-> caller[c]]
    /\ \A c \in Surface : CallerOK(c)
    /\ \A r \in rows : SaysSo(r)
    /\ \A e \in ended : e.landed \subseteq Creates /\ IsAccounted(e)

RegistersStep ==
    \A m \in meetings' \ meetings :
         /\ m.registered => \A n \in meetings : n.folder # m.folder
         /\ \E p \in projects' : p.slug = m.project

\* A create of its own transaction: refused by a uniqueness conflict, or landed;
\* either way the one row of it is owed.
CreateEnded(c, g, row, e) ==
    /\ caller[c].at \in {"new project", "new meeting"} /\ reserved = NotReserved
    /\ caller' = [caller EXCEPT ![c] = g] /\ CallerRecord(g) /\ g.at = "rows"
    /\ g.call = caller[c].call /\ g.folder = caller[c].folder /\ g.owes = <<row>>
    /\ row \in OwedRows /\ row.call = caller[c].call /\ row = Owed(row.call, row.action, row.outcome)
    /\ ended' = ended \union {e} /\ e.call = caller[c].call
    /\ row.outcome = "ok" => e.landed = {row.action} /\ e.refused = FALSE
    /\ row.outcome = "failed" => e.landed = {} /\ e.refused = TRUE
    /\ projects \subseteq projects'
    /\ UNCHANGED <<rows, stated, reserved, begun, refusals, cutOff>>

\* A caller's record keeps its fields when some of them change.
LEMMA FieldsKept ==
  ASSUME NEW h, CallerRecord(h)
  PROVE  /\ \A a : CallerRecord([h EXCEPT !.at = a]) /\ CallerRecord([h EXCEPT !.slug = a])
                 /\ CallerRecord([h EXCEPT !.owes = a]) /\ CallerRecord([h EXCEPT !.call = a])
                 /\ CallerRecord([h EXCEPT !.folder = a])
         /\ \A a, b : CallerRecord([h EXCEPT !.at = a, !.owes = b])
         /\ \A a, b : CallerRecord([h EXCEPT !.at = a, !.slug = b])
         /\ \A a, b, d : CallerRecord([h EXCEPT !.at = a, !.call = b, !.folder = d])
<1>1. ASSUME NEW k, CallerRecord(k), NEW a
      PROVE  /\ CallerRecord([k EXCEPT !.at = a]) /\ CallerRecord([k EXCEPT !.slug = a])
             /\ CallerRecord([k EXCEPT !.owes = a]) /\ CallerRecord([k EXCEPT !.call = a])
             /\ CallerRecord([k EXCEPT !.folder = a])
  <2>1. CallerRecord([k EXCEPT !.at = a])
    BY <1>1 DEF CallerRecord
  <2>2. CallerRecord([k EXCEPT !.slug = a])
    BY <1>1 DEF CallerRecord
  <2>3. CallerRecord([k EXCEPT !.owes = a])
    BY <1>1 DEF CallerRecord
  <2>4. CallerRecord([k EXCEPT !.call = a])
    BY <1>1 DEF CallerRecord
  <2>5. CallerRecord([k EXCEPT !.folder = a])
    BY <1>1 DEF CallerRecord
  <2>6. QED
    BY <2>1, <2>2, <2>3, <2>4, <2>5
<1>2. ASSUME NEW a, NEW b
      PROVE  CallerRecord([h EXCEPT !.at = a, !.owes = b]) /\ CallerRecord([h EXCEPT !.at = a, !.slug = b])
  <2> DEFINE k == [h EXCEPT !.at = a]
  <2>1. CallerRecord(k)
    BY <1>1
  <2>2. /\ [h EXCEPT !.at = a, !.owes = b] = [k EXCEPT !.owes = b]
        /\ [h EXCEPT !.at = a, !.slug = b] = [k EXCEPT !.slug = b]
    OBVIOUS
  <2> HIDE DEF k
  <2>3. CallerRecord([k EXCEPT !.owes = b]) /\ CallerRecord([k EXCEPT !.slug = b])
    BY <1>1, <2>1
  <2>4. QED
    BY <2>2, <2>3
<1>3. ASSUME NEW a, NEW b, NEW d PROVE CallerRecord([h EXCEPT !.at = a, !.call = b, !.folder = d])
  <2> DEFINE k == [h EXCEPT !.at = a]
             l == [k EXCEPT !.call = b]
  <2>1. CallerRecord(k)
    BY <1>1
  <2>2. [h EXCEPT !.at = a, !.call = b, !.folder = d] = [l EXCEPT !.folder = d]
    OBVIOUS
  <2> HIDE DEF k
  <2>3. CallerRecord(l)
    BY <1>1, <2>1
  <2> HIDE DEF l
  <2>4. CallerRecord([l EXCEPT !.folder = d])
    BY <1>1, <2>3
  <2>5. QED
    BY <2>2, <2>4
<1>4. QED
  BY <1>1, <1>2, <1>3

\* Nothing has been asked of the registry to begin with.
LEMMA RegistrationInitInv == RegistrationInit => RegistrationInv
<1> SUFFICES ASSUME RegistrationInit PROVE RegistrationInv
  OBVIOUS
<1>1. ASSUME NEW c \in Surface PROVE CallerOK(c)
  <2>1. caller[c] = Idle /\ begun = 0
    BY DEF RegistrationInit
  <2>2. /\ Idle.at = "idle" /\ Idle.call = 0 /\ Idle.owes = <<>> /\ CallerRecord(Idle)
    BY DEF Idle, CallerRecord
  <2>3. <<>> \in Seq(OwedRows) /\ Len(<<>>) = 0
    OBVIOUS
  <2> HIDE DEF Idle
  <2>4. QED
    BY <2>1, <2>2, <2>3 DEF CallerOK, CallerShape
<1>2. QED
  BY <1>1, RegistrationBounds DEF RegistrationInit, RegistrationInv, RegistrationTypeOK

\* What a step of one caller has to keep.
LEMMA OneCallerSteps ==
  ASSUME RegistrationInv, NEW c \in Surface, NEW g, caller' = [caller EXCEPT ![c] = g],
         RegistrationTypeOK', begun <= begun', CallerOK(c)',
         projects \subseteq projects', rows \subseteq rows', stated \subseteq stated',
         ended \subseteq ended', cutOff \subseteq cutOff',
         \A d \in Surface : d # c /\ caller[d].at = "insert" => reserved' = reserved /\ meetings' = meetings,
         \A r \in rows' : r \in rows \/ SaysSo(r)',
         \A e \in ended' : e \in ended \/ (e.landed \subseteq Creates /\ IsAccounted(e)'),
         \/ caller[c].call \in cutOff'
         \/ \A i \in 1 .. Len(caller[c].owes) :
              \/ caller[c].owes[i] \in rows' \union stated'
              \/ \E j \in 1 .. Len(caller'[c].owes) : caller'[c].owes[j] = caller[c].owes[i]
  PROVE  RegistrationInv'
<1> USE DEF RegistrationInv
<1>0. begun \in Nat /\ begun' \in Nat /\ \A d \in Surface : CallerOK(d)
  BY RegistrationBounds DEF RegistrationTypeOK
<1>1. DOMAIN caller' = Surface /\ caller' = [d \in Surface |-> caller'[d]]
  OBVIOUS
<1>2. \A d \in Surface : d # c => caller'[d] = caller[d]
  OBVIOUS
<1>3. \A r : SaysSo(r) => SaysSo(r)'
  BY DEF SaysSo
<1>9. ProjectSlugs \subseteq ProjectSlugs'
  BY DEF ProjectSlugs
<1>4. ASSUME NEW d \in Surface PROVE CallerOK(d)'
  <2>1. CASE d = c
    BY <2>1
  <2>2. CASE d # c
    <3>1. caller'[d] = caller[d] /\ CallerOK(d)
      BY <1>0, <1>2, <2>2
    <3>a. /\ CallerShape(caller[d]) /\ caller[d].call <= begun
          /\ \A i \in 1 .. Len(caller[d].owes) : SaysSo(caller[d].owes[i])
      BY <3>1 DEF CallerOK
    <3>b. caller[d].call \in Nat
      BY <3>a DEF CallerShape
    <3>2. CallerShape(caller'[d]) /\ caller'[d].call <= begun'
      <4>1. caller[d].call <= begun'
        BY <1>0, <3>a, <3>b
      <4>2. QED
        BY <3>1, <3>a, <4>1
    <3>3. \A i \in 1 .. Len(caller'[d].owes) : SaysSo(caller[d].owes[i])'
      BY <1>3, <3>1, <3>a
    <3>4. caller'[d].at = "insert" => reserved' = d /\ NoMeetingOf(caller[d].folder)'
      <4>1. SUFFICES ASSUME caller[d].at = "insert" PROVE reserved' = d /\ NoMeetingOf(caller[d].folder)'
        BY <3>1
      <4>2. reserved = d /\ NoMeetingOf(caller[d].folder) /\ reserved' = reserved /\ meetings' = meetings
        BY <2>2, <3>1, <4>1 DEF CallerOK
      <4>3. QED
        BY <3>1, <4>2 DEF NoMeetingOf
    <3>5. caller'[d].at = "new meeting" => Slug(NameOf[caller'[d].folder], 1) \in ProjectSlugs'
      <4>1. SUFFICES ASSUME caller[d].at = "new meeting"
                     PROVE  Slug(NameOf[caller[d].folder], 1) \in ProjectSlugs'
        BY <3>1
      <4>2. Slug(NameOf[caller[d].folder], 1) \in ProjectSlugs
        BY <3>1, <4>1 DEF CallerOK
      <4>3. QED
        BY <1>9, <3>1, <4>2
    <3>6. QED
      BY <3>1, <3>2, <3>3, <3>4, <3>5 DEF CallerOK
  <2>3. QED
    BY <2>1, <2>2
<1>5. \A r \in rows' : SaysSo(r)'
  BY <1>3
<1>6. ASSUME NEW r, Accounted(r), r.call \notin cutOff' PROVE Accounted(r)'
  <2>1. CASE r \in rows \union stated
    BY <2>1 DEF Accounted
  <2>2. ASSUME NEW d \in Surface, NEW i \in 1 .. 2, i \in DOMAIN caller[d].owes, caller[d].owes[i] = r
        PROVE  Accounted(r)'
    <3>0. /\ caller[d].owes \in Seq(OwedRows) /\ Len(caller[d].owes) <= 2 /\ i \in 1 .. Len(caller[d].owes)
          /\ caller[d].owes[i].call = caller[d].call
      <4>1. CallerShape(caller[d])
        BY <1>0 DEF CallerOK
      <4>2. caller[d].owes \in Seq(OwedRows) /\ Len(caller[d].owes) <= 2
        BY <4>1 DEF CallerShape
      <4>3. i \in 1 .. Len(caller[d].owes)
        BY <2>2, <4>2
      <4>4. QED
        BY <4>1, <4>2, <4>3 DEF CallerShape
    <3>1. CASE d # c
      BY <1>2, <2>2, <3>1 DEF Accounted
    <3>2. CASE d = c
      <4>1. caller[c].call \notin cutOff'
        BY <1>6, <2>2, <3>0, <3>2
      <4>2. CASE r \in rows' \union stated'
        BY <4>2 DEF Accounted
      <4>3. CASE r \notin rows' \union stated'
        <5>1. PICK j \in 1 .. Len(caller'[c].owes) : caller'[c].owes[j] = r
          BY <2>2, <3>0, <3>2, <4>1, <4>3
        <5>2. caller'[c].owes \in Seq(OwedRows) /\ Len(caller'[c].owes) <= 2
          BY DEF CallerOK, CallerShape
        <5>3. j \in 1 .. 2 /\ j \in DOMAIN caller'[c].owes
          BY <5>1, <5>2
        <5>4. QED
          BY <5>1, <5>3 DEF Accounted
      <4>4. QED
        BY <4>2, <4>3
    <3>3. QED
      BY <3>1, <3>2
  <2>3. QED
    BY <1>6, <2>1, <2>2 DEF Accounted
<1>7. ASSUME NEW e \in ended PROVE IsAccounted(e)'
  <2>1. SUFFICES ASSUME e.call \notin cutOff'
                 PROVE  /\ \A action \in e.landed : Accounted(Owed(e.call, action, "ok"))'
                        /\ e.refused => \E action \in Creates : Accounted(Owed(e.call, action, "failed"))'
    BY DEF IsAccounted
  <2>2. /\ \A action \in e.landed : Accounted(Owed(e.call, action, "ok"))
        /\ e.refused => \E action \in Creates : Accounted(Owed(e.call, action, "failed"))
    BY <2>1 DEF IsAccounted
  <2>3. \A action, said : Owed(e.call, action, said).call = e.call
    BY DEF Owed
  <2>4. QED
    BY <1>6, <2>1, <2>2, <2>3
<1>8. QED
  BY <1>1, <1>4, <1>5, <1>7

\* A caller between two calls.
LEMMA IdleFacts ==
  /\ Idle.at = "idle" /\ Idle.call = 0 /\ Idle.owes = <<>> /\ CallerRecord(Idle)
  /\ <<>> \in Seq(OwedRows) /\ Len(<<>>) = 0
BY DEF Idle, CallerRecord

\* A caller that is put back to idle is as it should be.
LEMMA BackToIdle ==
  ASSUME NEW c \in Surface, caller'[c] = Idle, begun' \in Nat
  PROVE  CallerOK(c)'
<1> HIDE DEF Idle
<1>1. QED
  BY IdleFacts DEF CallerOK, CallerShape

\* The rows that are owed, by a call whose end says so.
LEMMA RowsOwed ==
  ASSUME NEW c \in Surface, NEW g, caller'[c] = g, CallerRecord(g),
         g.call \in Nat, g.call <= begun', g.call > 0, g.folder \in Folder, g.at = "rows",
         g.owes \in Seq(OwedRows), Len(g.owes) \in {1, 2},
         \A i \in 1 .. Len(g.owes) : g.owes[i].call = g.call /\ SaysSo(g.owes[i])'
  PROVE  CallerOK(c)'
<1>1. Len(g.owes) <= 2 /\ Len(g.owes) > 0
  <2>1. \A n \in {1, 2} : n <= 2 /\ n > 0
    OBVIOUS
  <2>2. QED
    BY <2>1, Zenon
<1>2. \A i \in 1 .. Len(g.owes) : g.owes[i].call = g.call
  OBVIOUS
<1>3. g.at # "idle" => g.call > 0 /\ g.folder \in Folder
  OBVIOUS
<1>4. CallerShape(g)
  BY <1>1, <1>2, <1>3, Zenon DEF CallerShape
<1>5. QED
  BY <1>4 DEF CallerOK

\* The empty list of rows that are owed.
LEMMA EmptyOwes ==
  /\ <<>> \in Seq(OwedRows) /\ Len(<<>>) = 0 /\ Len(<<>>) <= 2 /\ ~ (Len(<<>>) > 0)
  /\ \A i : i \notin 1 .. Len(<<>>)
<1>1. <<>> \in Seq(OwedRows) /\ Len(<<>>) = 0
  OBVIOUS
<1>2. \A i : i \notin 1 .. 0
  OBVIOUS
<1>3. QED
  BY <1>1, <1>2

\* A caller between the steps of a call that owes no row yet.
LEMMA NothingOwed ==
  ASSUME NEW c \in Surface, NEW g, caller'[c] = g, CallerRecord(g),
         g.call \in Nat, g.call <= begun', g.call > 0, g.folder \in Folder,
         g.owes = <<>>, g.at # "rows",
         g.at = "insert" => reserved' = c /\ \A m \in meetings' : m.folder # g.folder,
         g.at = "new meeting" => Slug(NameOf[g.folder], 1) \in ProjectSlugs'
  PROVE  CallerOK(c)'
<1>1. /\ g.owes \in Seq(OwedRows) /\ Len(g.owes) = 0 /\ Len(g.owes) <= 2 /\ ~ (Len(g.owes) > 0)
      /\ \A i : i \notin 1 .. Len(g.owes)
  BY EmptyOwes, Zenon
<1>2. CallerShape(g)
  <2>1. \A i \in 1 .. Len(g.owes) : g.owes[i].call = g.call
    BY <1>1, Zenon
  <2>2. (g.at = "rows" <=> Len(g.owes) > 0) /\ Len(g.owes) <= 2
    BY <1>1, Zenon
  <2>3. QED
    BY <1>1, <2>1, <2>2 DEF CallerShape
<1>3. CallerShape(caller'[c]) /\ caller'[c].call <= begun'
  BY <1>2
<1>4. \A i \in 1 .. Len(caller'[c].owes) : SaysSo(caller[c].owes[i])'
  BY <1>1, Zenon
<1>5. caller'[c].at = "insert" => reserved' = c /\ NoMeetingOf(caller[c].folder)'
  BY DEF NoMeetingOf
<1>6. caller'[c].at = "new meeting" => Slug(NameOf[caller'[c].folder], 1) \in ProjectSlugs'
  OBVIOUS
<1>7. QED
  BY <1>3, <1>4, <1>5, <1>6 DEF CallerOK

\* What is known of a caller and of what it owes.
LEMMA CallerFacts ==
  ASSUME RegistrationInv, NEW c \in Surface
  PROVE  /\ CallerOK(c) /\ CallerShape(caller[c]) /\ CallerRecord(caller[c])
         /\ caller[c].call \in Nat /\ caller[c].call <= begun
         /\ begun \in Nat /\ begun <= MaxCalls /\ refusals \in Nat /\ refusals <= MaxRefusals
         /\ caller[c].owes \in Seq(OwedRows) /\ Len(caller[c].owes) <= 2
         /\ caller[c].at # "idle" => caller[c].call > 0 /\ caller[c].folder \in Folder
         /\ caller[c].at # "rows" => caller[c].owes = <<>> /\ Len(caller[c].owes) = 0
<1>1. CallerOK(c) /\ CallerShape(caller[c]) /\ caller[c].call <= begun
  BY DEF RegistrationInv, CallerOK
<1>2. /\ CallerRecord(caller[c]) /\ caller[c].call \in Nat
      /\ caller[c].at # "idle" => caller[c].call > 0 /\ caller[c].folder \in Folder
      /\ caller[c].owes \in Seq(OwedRows) /\ Len(caller[c].owes) <= 2
      /\ caller[c].at = "rows" <=> Len(caller[c].owes) > 0
  BY <1>1 DEF CallerShape
<1>3. caller[c].at # "rows" => Len(caller[c].owes) = 0
  <2>1. Len(caller[c].owes) \in Nat
    BY <1>2
  <2>2. QED
    BY <1>2, <2>1
<1>4. caller[c].at # "rows" => caller[c].owes = <<>>
  BY <1>2, <1>3
<1>5. begun \in Nat /\ begun <= MaxCalls /\ refusals \in Nat /\ refusals <= MaxRefusals
  BY RegistrationBounds DEF RegistrationInv, RegistrationTypeOK
<1>6. QED
  BY <1>1, <1>2, <1>3, <1>4, <1>5

\* A call that begins is one more that the audit will answer for.
LEMMA CallsBegin == ASSUME RegistrationInv, NEW c \in Surface, RegistrationCalls(c)
                    PROVE  RegistrationInv' /\ RegistersStep
<1>1. /\ UNCHANGED <<projects, meetings, rows, stated, ended, reserved, refusals, cutOff>>
      /\ caller[c].at = "idle" /\ begun' = begun + 1 /\ begun < MaxCalls
  BY DEF RegistrationCalls
<1>2. PICK f \in Folder, at \in {"register", "project", "meeting"} :
         caller' = [caller EXCEPT ![c] = [Idle EXCEPT !.at = at, !.call = begun + 1, !.folder = f]]
  BY DEF RegistrationCalls, Puts
<1> DEFINE g == [Idle EXCEPT !.at = at, !.call = begun + 1, !.folder = f]
<1>3. /\ CallerRecord(g) /\ g.at = at /\ g.call = begun + 1 /\ g.folder = f /\ g.owes = <<>>
  <2>1. g.at = at /\ g.call = begun + 1 /\ g.folder = f /\ g.owes = <<>>
    BY DEF Idle
  <2>2. CallerRecord(g)
    BY IdleFacts, FieldsKept, Zenon
  <2>3. QED
    BY <2>1, <2>2
<1>a. caller' = [caller EXCEPT ![c] = g]
  BY <1>2
<1> HIDE DEF g
<1>4. DOMAIN caller = Surface
  BY DEF RegistrationInv
<1>5. caller'[c] = g
  BY <1>a, <1>4
<1>6. /\ begun \in Nat /\ begun' \in Nat /\ begun' <= MaxCalls /\ begun' > 0
      /\ caller[c].at # "rows" => Len(caller[c].owes) = 0
  BY <1>1, CallerFacts, RegistrationBounds
<1>7. CallerOK(c)'
  <2>1. g.at # "rows" /\ g.at # "insert" /\ g.at # "new meeting"
    BY <1>3
  <2>2. g.call \in Nat /\ g.call <= begun' /\ g.call > 0 /\ g.folder \in Folder
    BY <1>1, <1>3, <1>6
  <2>3. QED
    BY <1>3, <1>5, <2>1, <2>2, NothingOwed
<1>8. RegistrationTypeOK'
  BY <1>1, <1>6, RegistrationBounds DEF RegistrationInv, RegistrationTypeOK
<1>9. RegistrationInv'
  <2>1. begun <= begun' /\ Len(caller[c].owes) = 0
    BY <1>1, <1>6
  <2>2. \A i \in 1 .. Len(caller[c].owes) : FALSE
    BY <2>1
  <2>3. QED
    BY <1>1, <1>a, <2>1, <2>2, <1>7, <1>8, OneCallerSteps
<1>10. QED
  BY <1>1, <1>9 DEF RegistersStep

\* Only the caller that holds the write lock is between its lookup and its insert.
LEMMA OnlyTheHolder ==
  ASSUME RegistrationInv
  PROVE  \A d \in Surface : caller[d].at = "insert" => reserved = d
BY DEF RegistrationInv, CallerOK

\* A call that ends with nothing landed and nothing refused owes nothing.
LEMMA EndsQuietly ==
  ASSUME NEW n, ended' = ended \union {[call |-> n, landed |-> {}, refused |-> FALSE]}
  PROVE  \A e \in ended' : e \in ended \/ (e.landed \subseteq Creates /\ IsAccounted(e)')
<1>1. ASSUME NEW e, e = [call |-> n, landed |-> {}, refused |-> FALSE]
      PROVE  e.landed \subseteq Creates /\ IsAccounted(e)'
  <2>1. e.landed = {} /\ e.refused = FALSE
    BY <1>1
  <2>2. QED
    BY <2>1 DEF IsAccounted
<1>2. QED
  BY <1>1

\* Looking a folder up changes nothing that is recorded.
LEMMA LooksUp == ASSUME RegistrationInv, NEW c \in Surface, LookUp(c) PROVE RegistrationInv' /\ RegistersStep
<1>1. /\ UNCHANGED <<projects, meetings, rows, stated, begun, refusals, cutOff>>
      /\ caller[c].at = "register" /\ reserved = NotReserved /\ caller[c].at # "rows" /\ caller[c].at # "idle"
  BY DEF LookUp, MayReserve
<1>2. DOMAIN caller = Surface
  BY DEF RegistrationInv
<1>3. /\ CallerRecord(caller[c]) /\ caller[c].call \in Nat /\ caller[c].call <= begun
      /\ caller[c].call > 0 /\ caller[c].folder \in Folder
      /\ caller[c].owes = <<>> /\ Len(caller[c].owes) = 0
      /\ begun \in Nat /\ begun <= begun'
  BY <1>1, CallerFacts
<1>4. \A i \in 1 .. Len(caller[c].owes) : FALSE
  BY <1>3
<1>5. \A d \in Surface : caller[d].at # "insert"
  BY <1>1, OnlyTheHolder, RegistrationBounds
<1>6. CASE /\ caller' = [caller EXCEPT ![c] = Idle] /\ UNCHANGED reserved
           /\ ended' = ended \union {[call |-> caller[c].call, landed |-> {}, refused |-> FALSE]}
  <2>1. caller'[c] = Idle /\ begun' \in Nat
    BY <1>1, <1>2, <1>3, <1>6
  <2>2. CallerOK(c)'
    BY <2>1, BackToIdle
  <2>3. RegistrationTypeOK'
    BY <1>1, <1>6 DEF RegistrationInv, RegistrationTypeOK
  <2>4. \A e \in ended' : e \in ended \/ (e.landed \subseteq Creates /\ IsAccounted(e)')
    BY <1>6, EndsQuietly
  <2>5. ended \subseteq ended'
    BY <1>6
  <2>6. RegistrationInv'
    BY <1>1, <1>3, <1>4, <1>5, <1>6, <2>2, <2>3, <2>4, <2>5, OneCallerSteps
  <2>7. QED
    BY <1>1, <2>6 DEF RegistersStep
<1>7. CASE /\ RegisteredFor(caller[c].folder) = {} /\ reserved' = c /\ UNCHANGED ended
           /\ caller' = [caller EXCEPT ![c] = [caller[c] EXCEPT !.at = "insert"]]
  <2> DEFINE g == [caller[c] EXCEPT !.at = "insert"]
  <2>1. CallerRecord(g)
    BY <1>3, FieldsKept
  <2>2. g.at = "insert" /\ g.call = caller[c].call /\ g.folder = caller[c].folder /\ g.owes = <<>>
    BY <1>3 DEF CallerRecord
  <2>3. caller' = [caller EXCEPT ![c] = g] /\ caller'[c] = g
    BY <1>2, <1>7
  <2> HIDE DEF g
  <2>4. \A m \in meetings' : m.folder # g.folder
    <3>1. \A m \in meetings : m.folder # caller[c].folder
      BY <1>7 DEF RegisteredFor, Exactly
    <3>2. QED
      BY <1>1, <2>2, <3>1
  <2>5. CallerOK(c)'
    <3>1. g.at # "rows" /\ g.at # "new meeting"
      BY <2>2
    <3>2. g.call \in Nat /\ g.call <= begun' /\ g.call > 0 /\ g.folder \in Folder
      BY <1>1, <1>3, <2>2
    <3>3. QED
      BY <1>7, <2>1, <2>2, <2>3, <2>4, <3>1, <3>2, NothingOwed
  <2>6. RegistrationTypeOK'
    BY <1>1, <1>7 DEF RegistrationInv, RegistrationTypeOK
  <2>7. RegistrationInv'
    BY <1>1, <1>3, <1>4, <1>5, <1>7, <2>3, <2>5, <2>6, OneCallerSteps
  <2>8. QED
    BY <1>1, <2>7 DEF RegistersStep
<1>8. QED
  BY <1>6, <1>7 DEF LookUp, Puts, Ends

\* A folder that is registered is accounted for by the call that registers
\* it.
LEMMA RegistrationLands == ASSUME RegistrationInv, NEW c \in Surface, Registers(c)
                           PROVE  RegistrationInv' /\ RegistersStep
<1>1. PICK f, project, n, slug, landed, made, owes :
        /\ caller[c].at = "insert"
        /\ f = caller[c].folder /\ project = Slug(NameOf[f], 1) /\ n = caller[c].call
        /\ owes = OwedFor(n, project \notin ProjectSlugs)
        /\ meetings' = meetings \union
             {[project |-> project, slug |-> slug, folder |-> f, exact |-> TRUE, call |-> n, registered |-> TRUE]}
        /\ projects' = projects \union made
        /\ made = IF project \notin ProjectSlugs THEN {[slug |-> project, call |-> n]} ELSE {}
        /\ reserved' = NotReserved
        /\ caller' = [caller EXCEPT ![c] = [caller[c] EXCEPT !.at = "rows", !.owes = owes]]
        /\ landed = {"meeting.create"} \union (IF project \notin ProjectSlugs THEN {"project.create"} ELSE {})
        /\ ended' = ended \union {[call |-> n, landed |-> landed, refused |-> FALSE]}
        /\ UNCHANGED <<rows, stated, begun, refusals, cutOff>>
  BY DEF Registers, Puts, Ends
<1> USE DEF RegistrationInv
<1>2. DOMAIN caller = Surface /\ caller[c].at # "rows" /\ caller[c].at # "idle"
  BY <1>1
<1>3. /\ CallerRecord(caller[c]) /\ n \in Nat /\ n <= begun /\ n > 0 /\ f \in Folder
      /\ caller[c].owes = <<>> /\ Len(caller[c].owes) = 0
      /\ begun \in Nat /\ begun <= MaxCalls /\ begun' = begun /\ begun <= begun'
  <2>1. /\ CallerRecord(caller[c]) /\ caller[c].call \in Nat /\ caller[c].call <= begun
        /\ caller[c].call > 0 /\ caller[c].folder \in Folder
        /\ caller[c].owes = <<>> /\ Len(caller[c].owes) = 0
        /\ begun \in Nat /\ begun <= MaxCalls
    BY <1>2, CallerFacts
  <2>2. begun' = begun /\ begun <= begun'
    BY <1>1, <2>1
  <2>3. QED
    BY <1>1, <2>1, <2>2
<1>4. \A i \in 1 .. Len(caller[c].owes) : FALSE
  BY <1>3
<1>5. reserved = c /\ NoMeetingOf(f)
  <2>1. reserved = c /\ NoMeetingOf(caller[c].folder)
    BY <1>1 DEF CallerOK
  <2>2. QED
    BY <1>1, <2>1
<1>6. \A d \in Surface : d # c => caller[d].at # "insert"
  BY <1>5, OnlyTheHolder
<1> DEFINE e == [call |-> n, landed |-> landed, refused |-> FALSE]
<1>7. e \in ended' /\ e.call = n /\ e.landed = landed /\ e.refused = FALSE
  BY <1>1
<1> HIDE DEF e
\* The rows it owes are those of the creates that landed.
<1>8. /\ owes \in Seq(OwedRows) /\ Len(owes) \in {1, 2}
      /\ \A i \in 1 .. Len(owes) : \E a \in landed : owes[i] = Owed(n, a, "ok")
      /\ \A a \in landed : \E i \in 1 .. Len(owes) : owes[i] = Owed(n, a, "ok")
      /\ landed \subseteq Creates
  <2>1. /\ Owed(n, "project.create", "ok") \in OwedRows /\ Owed(n, "meeting.create", "ok") \in OwedRows
    BY <1>3 DEF Owed, OwedRows, Creates
  <2>2. CASE project \notin ProjectSlugs
    <3>1. owes = <<Owed(n, "project.create", "ok"), Owed(n, "meeting.create", "ok")>>
      BY <1>1, <2>2 DEF OwedFor, OwedFor_Both
    <3>2. landed = {"meeting.create", "project.create"}
      BY <1>1, <2>2
    <3>3. /\ owes \in Seq(OwedRows) /\ Len(owes) = 2
          /\ owes[1] = Owed(n, "project.create", "ok") /\ owes[2] = Owed(n, "meeting.create", "ok")
      BY <2>1, <3>1
    <3>4. \A i \in 1 .. 2 : \E a \in landed : owes[i] = Owed(n, a, "ok")
      BY <3>2, <3>3
    <3>5. \A a \in landed : \E i \in 1 .. 2 : owes[i] = Owed(n, a, "ok")
      BY <3>2, <3>3
    <3>6. QED
      BY <3>2, <3>3, <3>4, <3>5 DEF Creates
  <2>3. CASE project \in ProjectSlugs
    <3>1. owes = <<Owed(n, "meeting.create", "ok")>>
      BY <1>1, <2>3 DEF OwedFor
    <3>2. landed = {"meeting.create"}
      BY <1>1, <2>3
    <3>3. owes \in Seq(OwedRows) /\ Len(owes) = 1 /\ owes[1] = Owed(n, "meeting.create", "ok")
      BY <2>1, <3>1
    <3>4. QED
      BY <3>2, <3>3 DEF Creates
  <2>4. QED
    BY <2>2, <2>3
<1>9. caller' = [caller EXCEPT ![c] = [caller[c] EXCEPT !.at = "rows", !.owes = owes]]
  BY <1>1
<1>10. \A i \in 1 .. Len(owes) : owes[i].call = n /\ SaysSo(owes[i])'
  <2>1. ASSUME NEW a \in landed PROVE Owed(n, a, "ok").call = n /\ SaysSo(Owed(n, a, "ok"))'
    <3>1. Owed(n, a, "ok").call = n /\ Owed(n, a, "ok").action = a /\ Owed(n, a, "ok").outcome = "ok"
      BY DEF Owed
    <3>2. QED
      BY <1>7, <2>1, <3>1 DEF SaysSo
  <2>2. ASSUME NEW i \in 1 .. Len(owes) PROVE owes[i].call = n /\ SaysSo(owes[i])'
    <3>1. PICK a \in landed : owes[i] = Owed(n, a, "ok")
      BY <1>8
    <3>2. QED
      BY <2>1, <3>1
  <2>3. QED
    BY <2>2
<1>11. CallerOK(c)' /\ caller'[c].owes = owes
  <2>0. PICK g : g = [caller[c] EXCEPT !.at = "rows", !.owes = owes]
    OBVIOUS
  <2>1. caller'[c] = g
    BY <1>2, <1>9, <2>0
  <2>2. g.at = "rows" /\ g.call = caller[c].call /\ g.folder = caller[c].folder /\ g.owes = owes
    BY <1>3, <2>0 DEF CallerRecord
  <2>3. CallerRecord(g)
    BY <1>3, <2>0, FieldsKept
  <2>4. /\ g.call \in Nat /\ g.call <= begun' /\ g.call > 0 /\ g.folder \in Folder /\ g.call = n
    BY <1>1, <1>3, <2>2
  <2>5. \A i \in 1 .. Len(g.owes) : g.owes[i].call = g.call /\ SaysSo(g.owes[i])'
    BY <1>10, <2>2, <2>4
  <2>6. g.owes \in Seq(OwedRows) /\ Len(g.owes) \in {1, 2}
    BY <1>8, <2>2
  <2>7. CallerOK(c)'
    BY <2>1, <2>2, <2>3, <2>4, <2>5, <2>6, RowsOwed
  <2>8. QED
    BY <2>1, <2>2, <2>7
<1>12. IsAccounted(e)'
  <2>1. SUFFICES ASSUME NEW a \in landed PROVE Accounted(Owed(n, a, "ok"))'
    BY <1>7 DEF IsAccounted
  <2>2. PICK i \in 1 .. Len(owes) : owes[i] = Owed(n, a, "ok")
    BY <1>8
  <2>3. i \in 1 .. 2 /\ i \in DOMAIN owes
    BY <1>8
  <2>4. QED
    BY <1>11, <2>2, <2>3 DEF Accounted
<1>13. \A x \in ended' : x \in ended \/ (x.landed \subseteq Creates /\ IsAccounted(x)')
  BY <1>1, <1>7, <1>8, <1>12 DEF e
<1> DEFINE m == [project |-> project, slug |-> slug, folder |-> f, exact |-> TRUE, call |-> n, registered |-> TRUE]
<1>a. m.folder = f /\ m.exact = TRUE /\ m.project = project
  OBVIOUS
<1>b. meetings' = meetings \union {m}
  BY <1>1
<1>c. \A p \in made : p.call = n /\ p.slug = project
  BY <1>1
<1>d. \E p \in projects' : p.slug = project
  <2>1. CASE project \in ProjectSlugs
    BY <1>1, <2>1 DEF ProjectSlugs
  <2>2. CASE project \notin ProjectSlugs
    <3>1. made = {[slug |-> project, call |-> n]}
      BY <1>1, <2>2
    <3>2. [slug |-> project, call |-> n] \in projects'
      BY <1>1, <3>1
    <3>3. QED
      BY <3>2
  <2>3. QED
    BY <2>1, <2>2
<1> HIDE DEF m
<1>14. RegistrationTypeOK'
  <2>1. \A p \in projects' : p.call \in 1 .. MaxCalls
    <3>1. n \in 1 .. MaxCalls
      BY <1>3, RegistrationBounds
    <3>2. QED
      BY <1>1, <1>c, <3>1 DEF RegistrationTypeOK
  <2>2. \A x \in meetings' : x.folder \in Folder /\ x.exact \in BOOLEAN
    BY <1>3, <1>a, <1>b DEF RegistrationTypeOK
  <2>3. /\ UNCHANGED <<rows, stated, begun, refusals>> /\ reserved' = NotReserved
    BY <1>1
  <2>4. QED
    BY <2>1, <2>2, <2>3 DEF RegistrationTypeOK
<1>15. projects \subseteq projects' /\ ended \subseteq ended'
  BY <1>1
<1>16. RegistrationInv'
  BY <1>1, <1>3, <1>4, <1>6, <1>9, <1>11, <1>13, <1>14, <1>15, OneCallerSteps
<1>17. RegistersStep
  BY <1>5, <1>a, <1>b, <1>d DEF RegistersStep, NoMeetingOf
<1>18. QED
  BY <1>16, <1>17

\* A call that was refused and whose loss is stated, or whose row is still owed.
LEMMA EndsRefused ==
  ASSUME NEW n, ended' = ended \union {[call |-> n, landed |-> {}, refused |-> TRUE]},
         NEW action \in Creates, Accounted(Owed(n, action, "failed"))'
  PROVE  \A e \in ended' : e \in ended \/ (e.landed \subseteq Creates /\ IsAccounted(e)')
<1>1. ASSUME NEW e, e = [call |-> n, landed |-> {}, refused |-> TRUE]
      PROVE  e.landed \subseteq Creates /\ IsAccounted(e)'
  <2>1. e.landed = {} /\ e.refused = TRUE /\ e.call = n
    BY <1>1
  <2>2. QED
    BY <2>1 DEF IsAccounted
<1>2. QED
  BY <1>1

\* A call the registry refuses owes rows that say so.
LEMMA RefusedByRegistry == ASSUME RegistrationInv, NEW c \in Surface, RegistryRefuses(c)
                           PROVE  RegistrationInv' /\ RegistersStep
<1> USE DEF RegistrationInv
<1>1. PICK action, n :
        /\ n = caller[c].call /\ action \in InFlight(c)
        /\ caller[c].at \in {"register", "insert", "new project", "new meeting"}
        /\ refusals < MaxRefusals /\ refusals' = refusals + 1
        /\ stated' = stated \union {Owed(n, action, "failed")}
        /\ ended' = ended \union {[call |-> n, landed |-> {}, refused |-> TRUE]}
        /\ reserved' = IF reserved = c THEN NotReserved ELSE reserved
        /\ caller' = [caller EXCEPT ![c] = Idle]
        /\ UNCHANGED <<projects, meetings, rows, begun, cutOff>>
  BY DEF RegistryRefuses, Puts, Ends
<1>2. DOMAIN caller = Surface /\ caller[c].at # "rows"
  BY <1>1
<1>3. begun \in Nat /\ begun <= begun' /\ refusals \in Nat /\ Len(caller[c].owes) = 0
  <2>1. begun \in Nat /\ refusals \in Nat /\ Len(caller[c].owes) = 0
    BY <1>2, CallerFacts
  <2>2. begun' = begun
    BY <1>1
  <2>3. QED
    BY <2>1, <2>2
<1>4. \A i \in 1 .. Len(caller[c].owes) : FALSE
  BY <1>3
<1>5. action \in Creates
  <2>1. caller[c].at \in {"register", "new project"} => action \in {"project.create"}
    BY <1>1 DEF InFlight
  <2>2. caller[c].at = "new meeting" => action \in {"meeting.create"}
    BY <1>1 DEF InFlight
  <2>3. caller[c].at = "insert" => action \in {"meeting.create", "project.create"}
    BY <1>1 DEF InFlight
  <2>4. QED
    BY <1>1, <2>1, <2>2, <2>3 DEF Creates
<1>6. caller'[c] = Idle /\ begun' \in Nat
  BY <1>1, <1>2, <1>3
<1>7. CallerOK(c)'
  BY <1>6, BackToIdle
<1>8. Accounted(Owed(n, action, "failed"))'
  BY <1>1 DEF Accounted
<1>9. \A e \in ended' : e \in ended \/ (e.landed \subseteq Creates /\ IsAccounted(e)')
  BY <1>1, <1>5, <1>8, EndsRefused
<1>10. RegistrationTypeOK'
  <2>1. Owed(n, action, "failed").action = action /\ Owed(n, action, "failed").outcome = "failed"
    BY DEF Owed
  <2>2. \A r \in rows' \union stated' :
          r.action \in {"project.create", "meeting.create"} /\ r.outcome \in {"ok", "failed"}
    BY <1>1, <1>5, <2>1 DEF RegistrationTypeOK, Creates
  <2>3. refusals' \in 0 .. MaxRefusals /\ reserved' \in Surface \union {NotReserved}
    <3>1. refusals < MaxRefusals /\ refusals' = refusals + 1
      BY <1>1
    <3>2. refusals' \in 0 .. MaxRefusals
      BY <1>3, <3>1, RegistrationBounds
    <3>3. reserved' \in {NotReserved, reserved}
      BY <1>1
    <3>4. QED
      BY <3>2, <3>3 DEF RegistrationTypeOK
  <2>4. UNCHANGED <<projects, meetings, begun>>
    BY <1>1
  <2>5. QED
    BY <2>2, <2>3, <2>4 DEF RegistrationTypeOK
<1>11. \A d \in Surface : d # c /\ caller[d].at = "insert" => reserved' = reserved /\ meetings' = meetings
  BY <1>1, OnlyTheHolder
<1>12. RegistrationInv'
  <2>1. ended \subseteq ended' /\ stated \subseteq stated'
    BY <1>1
  <2>2. QED
    BY <1>1, <1>3, <1>4, <1>7, <1>9, <1>10, <1>11, <2>1, OneCallerSteps
<1>13. QED
  BY <1>1, <1>12 DEF RegistersStep

\* Calls that do not begin leave their count alone.
LEMMA SameBegun == ASSUME begun \in Nat, begun' = begun PROVE begun <= begun'
OBVIOUS

\* A caller that has read the free slug it will insert under.
LEMMA ChoosesSlug ==
  ASSUME RegistrationInv, NEW c \in Surface, NEW slug, NEW at \in {"new project", "new meeting"},
         caller[c].at \in {"project", "meeting"},
         caller' = [caller EXCEPT ![c] = [caller[c] EXCEPT !.at = at, !.slug = slug]],
         at = "new meeting" => Slug(NameOf[caller[c].folder], 1) \in ProjectSlugs,
         UNCHANGED <<projects, meetings, rows, stated, ended, reserved, begun, refusals, cutOff>>
  PROVE  RegistrationInv' /\ RegistersStep
<1> USE DEF RegistrationInv
<1>1. DOMAIN caller = Surface /\ caller[c].at # "rows" /\ caller[c].at # "idle"
  OBVIOUS
<1>2. /\ CallerRecord(caller[c]) /\ caller[c].call \in Nat /\ caller[c].call <= begun
      /\ caller[c].call > 0 /\ caller[c].folder \in Folder
      /\ caller[c].owes = <<>> /\ Len(caller[c].owes) = 0 /\ begun \in Nat
  BY <1>1, CallerFacts
<1>3. begun <= begun' /\ \A i \in 1 .. Len(caller[c].owes) : FALSE
  <2>1. begun' = begun
    OBVIOUS
  <2>2. begun <= begun'
    BY <1>2, <2>1, SameBegun, Zenon
  <2>3. \A i \in 1 .. Len(caller[c].owes) : FALSE
    BY <1>2, EmptyOwes, Zenon
  <2>4. QED
    BY <2>2, <2>3
<1>4. PICK g : g = [caller[c] EXCEPT !.at = at, !.slug = slug]
  OBVIOUS
<1>5. CallerRecord(g)
  BY <1>2, <1>4, FieldsKept
<1>6. g.at = at /\ g.call = caller[c].call /\ g.folder = caller[c].folder /\ g.owes = <<>>
  BY <1>2, <1>4 DEF CallerRecord
<1>7. caller'[c] = g /\ caller' = [caller EXCEPT ![c] = g]
  BY <1>1, <1>4
<1>8. CallerOK(c)'
  <2>1. g.at # "rows" /\ g.at # "insert"
    BY <1>6
  <2>2. g.call \in Nat /\ g.call <= begun' /\ g.call > 0 /\ g.folder \in Folder
    BY <1>2, <1>6
  <2>3. g.at = "new meeting" => Slug(NameOf[g.folder], 1) \in ProjectSlugs'
    BY <1>6 DEF ProjectSlugs
  <2>4. QED
    BY <1>5, <1>6, <1>7, <2>1, <2>2, <2>3, NothingOwed
<1>9. RegistrationTypeOK'
  BY DEF RegistrationTypeOK
<1>10. RegistrationInv'
  BY <1>3, <1>7, <1>8, <1>9, OneCallerSteps
<1>11. QED
  BY <1>10 DEF RegistersStep

\* A name is chosen for the project that no project has.
LEMMA SlugsAreChosen ==
  ASSUME RegistrationInv, NEW c \in Surface, ChoosesProjectSlug(c) \/ ChoosesMeetingSlug(c)
  PROVE  RegistrationInv' /\ RegistersStep
<1>1. CASE ChoosesProjectSlug(c)
  <2>1. PICK slug : caller' = [caller EXCEPT ![c] = [caller[c] EXCEPT !.at = "new project", !.slug = slug]]
    BY <1>1 DEF ChoosesProjectSlug, Puts
  <2>2. /\ caller[c].at = "project"
        /\ UNCHANGED <<projects, meetings, rows, stated, ended, reserved, begun, refusals, cutOff>>
    BY <1>1 DEF ChoosesProjectSlug
  <2>3. QED
    BY <2>1, <2>2, ChoosesSlug
<1>2. CASE ChoosesMeetingSlug(c)
  <2>1. /\ caller[c].at = "meeting" /\ caller[c].at # "rows"
        /\ UNCHANGED <<projects, meetings, rows, stated, reserved, begun, refusals, cutOff>>
    BY <1>2 DEF ChoosesMeetingSlug
  <2>2. CASE Slug(NameOf[caller[c].folder], 1) \in ProjectSlugs
    <3>1. PICK slug : caller' = [caller EXCEPT ![c] = [caller[c] EXCEPT !.at = "new meeting", !.slug = slug]]
      BY <1>2, <2>2 DEF ChoosesMeetingSlug, Puts
    <3>2. UNCHANGED ended
      BY <1>2, <2>2 DEF ChoosesMeetingSlug
    <3>3. QED
      BY <2>1, <2>2, <3>1, <3>2, ChoosesSlug
  <2>3. CASE Slug(NameOf[caller[c].folder], 1) \notin ProjectSlugs
    <3>1. PICK n : /\ caller' = [caller EXCEPT ![c] = Idle]
                   /\ ended' = ended \union {[call |-> n, landed |-> {}, refused |-> FALSE]}
      BY <1>2, <2>3 DEF ChoosesMeetingSlug, Puts, Ends
    <3>2. begun \in Nat /\ begun <= begun' /\ begun' \in Nat /\ Len(caller[c].owes) = 0 /\ caller'[c] = Idle
      BY <2>1, <3>1, CallerFacts DEF RegistrationInv
    <3>3. CallerOK(c)'
      BY <3>2, BackToIdle
    <3>4. RegistrationTypeOK'
      BY <2>1 DEF RegistrationInv, RegistrationTypeOK
    <3>5. ended \subseteq ended' /\ \A i \in 1 .. Len(caller[c].owes) : FALSE
      BY <3>1, <3>2
    <3>6. \A e \in ended' : e \in ended \/ (e.landed \subseteq Creates /\ IsAccounted(e)')
      BY <3>1, EndsQuietly
    <3>7. RegistrationInv'
      BY <2>1, <3>1, <3>2, <3>3, <3>4, <3>5, <3>6, OneCallerSteps
    <3>8. QED
      BY <2>1, <3>7 DEF RegistersStep
  <2>4. QED
    BY <2>2, <2>3
<1>3. QED
  BY <1>1, <1>2

\* It is as it should be when the end of its call says so.
LEMMA OneRowOwed ==
  ASSUME NEW c \in Surface, NEW g, caller'[c] = g, CallerRecord(g),
         g.call \in Nat, g.call <= begun', g.call > 0, g.folder \in Folder, g.at = "rows",
         NEW row \in OwedRows, row.call = g.call, g.owes = <<row>>, SaysSo(row)'
  PROVE  CallerOK(c)' /\ Accounted(row)'
<1>1. <<row>> \in Seq(OwedRows) /\ Len(<<row>>) = 1 /\ <<row>>[1] = row
  OBVIOUS
<1>2. g.owes \in Seq(OwedRows) /\ Len(g.owes) = 1 /\ g.owes[1] = row
  BY <1>1, Zenon
<1>3. \A i \in 1 .. Len(g.owes) : g.owes[i].call = g.call /\ SaysSo(g.owes[i])'
  BY <1>2
<1>4. CallerOK(c)'
  BY <1>2, <1>3, RowsOwed
<1>5. 1 \in 1 .. 2 /\ 1 \in DOMAIN g.owes
  BY <1>2
<1>6. QED
  BY <1>2, <1>4, <1>5 DEF Accounted

\* The end of a create, however it ends, is what the audit says of it.
LEMMA CreateEnds ==
  ASSUME RegistrationInv, NEW c \in Surface, NEW g, NEW row, NEW e, CreateEnded(c, g, row, e), RegistrationTypeOK'
  PROVE  RegistrationInv'
<1> USE DEF CreateEnded
<1>1. DOMAIN caller = Surface /\ caller[c].at # "rows" /\ caller[c].at # "idle"
  BY DEF RegistrationInv
<1>2. /\ caller[c].call \in Nat /\ caller[c].call <= begun
      /\ caller[c].call > 0 /\ caller[c].folder \in Folder
      /\ caller[c].owes = <<>> /\ begun \in Nat
  BY <1>1, CallerFacts
<1>3. begun <= begun' /\ \A i \in 1 .. Len(caller[c].owes) : FALSE
  <2>1. begun' = begun
    OBVIOUS
  <2>2. begun <= begun'
    BY <1>2, <2>1, SameBegun, Zenon
  <2>3. \A i \in 1 .. Len(caller[c].owes) : FALSE
    BY <1>2, EmptyOwes, Zenon
  <2>4. QED
    BY <2>2, <2>3
<1>4. caller'[c] = g
  BY <1>1
<1>5. row.action \in Creates /\ row.outcome \in {"ok", "failed"}
  BY DEF OwedRows
<1>6. SaysSo(row)'
  <2>1. IF row.outcome = "ok" THEN row.action \in e.landed ELSE e.refused
    BY <1>5
  <2>2. e \in ended' /\ e.call = row.call
    OBVIOUS
  <2>3. QED
    BY <2>1, <2>2 DEF SaysSo
<1>7. CallerOK(c)' /\ Accounted(row)'
  <2>1. g.call \in Nat /\ g.call <= begun' /\ g.call > 0 /\ g.folder \in Folder /\ row.call = g.call
    BY <1>2
  <2>2. QED
    BY <1>4, <1>6, <2>1, OneRowOwed
<1>8. e.landed \subseteq Creates /\ IsAccounted(e)'
  <2>1. CASE row.outcome = "ok"
    <3>1. e.landed = {row.action} /\ e.refused = FALSE
      BY <2>1
    <3>2. \A a \in e.landed : Owed(e.call, a, "ok") = row
      BY <2>1, <3>1
    <3>3. QED
      BY <1>5, <1>7, <3>1, <3>2 DEF IsAccounted
  <2>2. CASE row.outcome = "failed"
    <3>1. e.landed = {} /\ e.refused = TRUE
      BY <2>2
    <3>2. Owed(e.call, row.action, "failed") = row
      BY <2>2
    <3>3. QED
      BY <1>5, <1>7, <3>1, <3>2 DEF IsAccounted
  <2>3. QED
    BY <1>5, <2>1, <2>2
<1>9. \A d \in Surface : d # c /\ caller[d].at = "insert" => reserved' = reserved /\ meetings' = meetings
  BY OnlyTheHolder, RegistrationBounds
<1>10. \A x \in ended' : x \in ended \/ (x.landed \subseteq Creates /\ IsAccounted(x)')
  BY <1>8
<1>11. ended \subseteq ended'
  OBVIOUS
<1>12. QED
  BY <1>3, <1>7, <1>9, <1>10, <1>11, OneCallerSteps

\* The row of a project comes with the name that was chosen for it.
LEMMA ProjectIsInserted == ASSUME RegistrationInv, NEW c \in Surface, InsertsProject(c)
                           PROVE  RegistrationInv' /\ RegistersStep
<1>1. /\ caller[c].at = "new project" /\ caller[c].at # "idle" /\ reserved = NotReserved
      /\ UNCHANGED <<meetings, rows, stated, reserved, begun, refusals, cutOff>>
  BY DEF InsertsProject
<1>2. caller[c].call \in 1 .. MaxCalls
  <2>1. caller[c].call \in Nat /\ caller[c].call > 0 /\ caller[c].call <= begun /\ begun \in Nat /\ begun <= MaxCalls
    BY <1>1, CallerFacts
  <2>2. QED
    BY <2>1, RegistrationBounds
<1>3. CASE caller[c].slug \in ProjectSlugs
  <2>1. /\ caller' = [caller EXCEPT ![c] = [caller[c] EXCEPT !.at = "rows",
                                            !.owes = <<Owed(caller[c].call, "project.create", "failed")>>]]
        /\ ended' = ended \union {[call |-> caller[c].call, landed |-> {}, refused |-> TRUE]}
        /\ UNCHANGED projects
    BY <1>3 DEF InsertsProject, RefusedCall, Puts, Ends
  <2>2. RegistrationTypeOK'
    BY <1>1, <2>1 DEF RegistrationInv, RegistrationTypeOK
  <2>3. PICK e : /\ ended' = ended \union {e} /\ e.call = caller[c].call
                 /\ e.landed = {} /\ e.refused = TRUE
    <3>1. PICK e : e = [call |-> caller[c].call, landed |-> {}, refused |-> TRUE]
      OBVIOUS
    <3>2. e.call = caller[c].call /\ e.landed = {} /\ e.refused = TRUE
      BY <3>1
    <3>3. ended' = ended \union {e}
      BY <2>1, <3>1
    <3>4. QED
      BY <3>2, <3>3
  <2>4. RegistrationInv'
    <3>1. PICK row : row = Owed(caller[c].call, "project.create", "failed")
      OBVIOUS
    <3>2. /\ row \in OwedRows /\ row.call = caller[c].call /\ row.action = "project.create" /\ row.outcome = "failed"
          /\ row = Owed(row.call, row.action, row.outcome)
      BY <1>1, <3>1, CallerFacts DEF Owed, OwedRows, Creates
    <3>0. PICK g : g = [caller[c] EXCEPT !.at = "rows", !.owes = <<row>>]
      OBVIOUS
    <3>3. /\ CallerRecord(g) /\ g.at = "rows" /\ g.call = caller[c].call
          /\ g.folder = caller[c].folder /\ g.owes = <<row>>
      <4>1. CallerRecord(caller[c])
        BY CallerFacts
      <4>2. CallerRecord(g)
        BY <3>0, <4>1, FieldsKept
      <4>3. g.at = "rows" /\ g.call = caller[c].call /\ g.folder = caller[c].folder /\ g.owes = <<row>>
        BY <3>0, <4>1 DEF CallerRecord
      <4>4. QED
        BY <4>2, <4>3
    <3>4. caller' = [caller EXCEPT ![c] = g]
      BY <2>1, <3>0, <3>1
    <3>5. /\ row.outcome = "ok" => e.landed = {row.action} /\ e.refused = FALSE
          /\ row.outcome = "failed" => e.landed = {} /\ e.refused = TRUE
      BY <2>3, <3>2
    <3>6. caller[c].at \in {"new project", "new meeting"} /\ projects \subseteq projects'
      BY <1>1, <2>1
    <3>7. CreateEnded(c, g, row, e)
      BY <1>1, <2>2, <2>3, <3>2, <3>3, <3>4, <3>5, <3>6 DEF CreateEnded
    <3>8. QED
      BY <2>2, <3>7, CreateEnds
  <2>5. QED
    BY <1>1, <2>4 DEF RegistersStep
<1>4. CASE caller[c].slug \notin ProjectSlugs
  <2>1. /\ caller' = [caller EXCEPT ![c] = [caller[c] EXCEPT !.at = "rows",
                                            !.owes = <<Owed(caller[c].call, "project.create", "ok")>>]]
        /\ ended' = ended \union {[call |-> caller[c].call, landed |-> {"project.create"}, refused |-> FALSE]}
        /\ projects' = projects \union {[slug |-> caller[c].slug, call |-> caller[c].call]}
    BY <1>4 DEF InsertsProject, Puts, Ends
  <2>2. RegistrationTypeOK'
    <3>1. \A p \in projects' : p.call \in 1 .. MaxCalls
      BY <1>2, <2>1 DEF RegistrationInv, RegistrationTypeOK
    <3>2. QED
      BY <1>1, <3>1 DEF RegistrationInv, RegistrationTypeOK
  <2>3. PICK e : /\ ended' = ended \union {e} /\ e.call = caller[c].call
                 /\ e.landed = {"project.create"} /\ e.refused = FALSE
    <3>1. PICK e : e = [call |-> caller[c].call, landed |-> {"project.create"}, refused |-> FALSE]
      OBVIOUS
    <3>2. e.call = caller[c].call /\ e.landed = {"project.create"} /\ e.refused = FALSE
      BY <3>1
    <3>3. ended' = ended \union {e}
      BY <2>1, <3>1
    <3>4. QED
      BY <3>2, <3>3
  <2>4. RegistrationInv'
    <3>1. PICK row : row = Owed(caller[c].call, "project.create", "ok")
      OBVIOUS
    <3>2. /\ row \in OwedRows /\ row.call = caller[c].call /\ row.action = "project.create" /\ row.outcome = "ok"
          /\ row = Owed(row.call, row.action, row.outcome)
      BY <1>1, <3>1, CallerFacts DEF Owed, OwedRows, Creates
    <3>0. PICK g : g = [caller[c] EXCEPT !.at = "rows", !.owes = <<row>>]
      OBVIOUS
    <3>3. /\ CallerRecord(g) /\ g.at = "rows" /\ g.call = caller[c].call
          /\ g.folder = caller[c].folder /\ g.owes = <<row>>
      <4>1. CallerRecord(caller[c])
        BY CallerFacts
      <4>2. CallerRecord(g)
        BY <3>0, <4>1, FieldsKept
      <4>3. g.at = "rows" /\ g.call = caller[c].call /\ g.folder = caller[c].folder /\ g.owes = <<row>>
        BY <3>0, <4>1 DEF CallerRecord
      <4>4. QED
        BY <4>2, <4>3
    <3>4. caller' = [caller EXCEPT ![c] = g]
      BY <2>1, <3>0, <3>1
    <3>5. /\ row.outcome = "ok" => e.landed = {row.action} /\ e.refused = FALSE
          /\ row.outcome = "failed" => e.landed = {} /\ e.refused = TRUE
      BY <2>3, <3>2
    <3>6. caller[c].at \in {"new project", "new meeting"} /\ projects \subseteq projects'
      BY <1>1, <2>1
    <3>7. CreateEnded(c, g, row, e)
      BY <1>1, <2>2, <2>3, <3>2, <3>3, <3>4, <3>5, <3>6 DEF CreateEnded
    <3>8. QED
      BY <2>2, <3>7, CreateEnds
  <2>5. QED
    BY <1>1, <2>4 DEF RegistersStep
<1>5. QED
  BY <1>3, <1>4

\* The row of a meeting comes with its project's.
LEMMA MeetingIsInserted == ASSUME RegistrationInv, NEW c \in Surface, InsertsMeeting(c)
                           PROVE  RegistrationInv' /\ RegistersStep
<1>0. PICK project : project = Slug(NameOf[caller[c].folder], 1)
  OBVIOUS
<1>1. /\ caller[c].at = "new meeting" /\ caller[c].at # "idle" /\ reserved = NotReserved
      /\ UNCHANGED <<projects, rows, stated, reserved, begun, refusals, cutOff>>
  BY DEF InsertsMeeting
<1>2. caller[c].folder \in Folder /\ project \in ProjectSlugs
  BY <1>0, <1>1, CallerFacts DEF CallerOK
<1>3. CASE caller[c].slug \in MeetingSlugs(project)
  <2>1. /\ caller' = [caller EXCEPT ![c] = [caller[c] EXCEPT !.at = "rows",
                                            !.owes = <<Owed(caller[c].call, "meeting.create", "failed")>>]]
        /\ ended' = ended \union {[call |-> caller[c].call, landed |-> {}, refused |-> TRUE]}
        /\ UNCHANGED meetings
    BY <1>0, <1>3 DEF InsertsMeeting, RefusedCall, Puts, Ends
  <2>2. RegistrationTypeOK'
    BY <1>1, <2>1 DEF RegistrationInv, RegistrationTypeOK
  <2>3. PICK e : /\ ended' = ended \union {e} /\ e.call = caller[c].call
                 /\ e.landed = {} /\ e.refused = TRUE
    <3>1. PICK e : e = [call |-> caller[c].call, landed |-> {}, refused |-> TRUE]
      OBVIOUS
    <3>2. e.call = caller[c].call /\ e.landed = {} /\ e.refused = TRUE
      BY <3>1
    <3>3. ended' = ended \union {e}
      BY <2>1, <3>1
    <3>4. QED
      BY <3>2, <3>3
  <2>4. RegistrationInv'
    <3>1. PICK row : row = Owed(caller[c].call, "meeting.create", "failed")
      OBVIOUS
    <3>2. /\ row \in OwedRows /\ row.call = caller[c].call /\ row.action = "meeting.create" /\ row.outcome = "failed"
          /\ row = Owed(row.call, row.action, row.outcome)
      BY <1>1, <3>1, CallerFacts DEF Owed, OwedRows, Creates
    <3>0. PICK g : g = [caller[c] EXCEPT !.at = "rows", !.owes = <<row>>]
      OBVIOUS
    <3>3. /\ CallerRecord(g) /\ g.at = "rows" /\ g.call = caller[c].call
          /\ g.folder = caller[c].folder /\ g.owes = <<row>>
      <4>1. CallerRecord(caller[c])
        BY CallerFacts
      <4>2. CallerRecord(g)
        BY <3>0, <4>1, FieldsKept
      <4>3. g.at = "rows" /\ g.call = caller[c].call /\ g.folder = caller[c].folder /\ g.owes = <<row>>
        BY <3>0, <4>1 DEF CallerRecord
      <4>4. QED
        BY <4>2, <4>3
    <3>4. caller' = [caller EXCEPT ![c] = g]
      BY <2>1, <3>0, <3>1
    <3>5. /\ row.outcome = "ok" => e.landed = {row.action} /\ e.refused = FALSE
          /\ row.outcome = "failed" => e.landed = {} /\ e.refused = TRUE
      BY <2>3, <3>2
    <3>6. caller[c].at \in {"new project", "new meeting"} /\ projects \subseteq projects'
      BY <1>1, <2>1
    <3>7. CreateEnded(c, g, row, e)
      BY <1>1, <2>2, <2>3, <3>2, <3>3, <3>4, <3>5, <3>6 DEF CreateEnded
    <3>8. QED
      BY <2>2, <3>7, CreateEnds
  <2>5. QED
    BY <2>1, <2>4 DEF RegistersStep
<1>4. CASE caller[c].slug \notin MeetingSlugs(project)
  <2>1. /\ caller' = [caller EXCEPT ![c] = [caller[c] EXCEPT !.at = "rows",
                                            !.owes = <<Owed(caller[c].call, "meeting.create", "ok")>>]]
        /\ ended' = ended \union {[call |-> caller[c].call, landed |-> {"meeting.create"}, refused |-> FALSE]}
        /\ \E exact \in BOOLEAN : meetings' = meetings \union
                       {[project |-> project, slug |-> caller[c].slug, exact |-> exact,
                         folder |-> caller[c].folder, call |-> caller[c].call,
                         registered |-> FALSE]}
    BY <1>0, <1>4 DEF InsertsMeeting, Puts, Ends
  <2>2. PICK m : /\ meetings' = meetings \union {m} /\ m.folder = caller[c].folder /\ m.exact \in BOOLEAN
                 /\ m.project = project /\ m.registered = FALSE
    <3>1. PICK exact \in BOOLEAN : meetings' = meetings \union
                       {[project |-> project, slug |-> caller[c].slug, exact |-> exact,
                         folder |-> caller[c].folder, call |-> caller[c].call,
                         registered |-> FALSE]}
      BY <2>1
    <3>2. PICK m : m = [project |-> project, slug |-> caller[c].slug, exact |-> exact,
                        folder |-> caller[c].folder, call |-> caller[c].call, registered |-> FALSE]
      OBVIOUS
    <3>3. m.folder = caller[c].folder /\ m.exact \in BOOLEAN /\ m.project = project /\ m.registered = FALSE
      BY <3>2
    <3>4. meetings' = meetings \union {m}
      BY <3>1, <3>2
    <3>5. QED
      BY <3>3, <3>4
  <2>3. RegistrationTypeOK'
    <3>1. \A x \in meetings' : x.folder \in Folder /\ x.exact \in BOOLEAN
      BY <1>2, <2>2 DEF RegistrationInv, RegistrationTypeOK
    <3>2. QED
      BY <1>1, <3>1 DEF RegistrationInv, RegistrationTypeOK
  <2>4. PICK e : /\ ended' = ended \union {e} /\ e.call = caller[c].call
                 /\ e.landed = {"meeting.create"} /\ e.refused = FALSE
    <3>1. PICK e : e = [call |-> caller[c].call, landed |-> {"meeting.create"}, refused |-> FALSE]
      OBVIOUS
    <3>2. e.call = caller[c].call /\ e.landed = {"meeting.create"} /\ e.refused = FALSE
      BY <3>1
    <3>3. ended' = ended \union {e}
      BY <2>1, <3>1
    <3>4. QED
      BY <3>2, <3>3
  <2>5. RegistrationInv'
    <3>1. PICK row : row = Owed(caller[c].call, "meeting.create", "ok")
      OBVIOUS
    <3>2. /\ row \in OwedRows /\ row.call = caller[c].call /\ row.action = "meeting.create" /\ row.outcome = "ok"
          /\ row = Owed(row.call, row.action, row.outcome)
      BY <1>1, <3>1, CallerFacts DEF Owed, OwedRows, Creates
    <3>0. PICK g : g = [caller[c] EXCEPT !.at = "rows", !.owes = <<row>>]
      OBVIOUS
    <3>3. /\ CallerRecord(g) /\ g.at = "rows" /\ g.call = caller[c].call
          /\ g.folder = caller[c].folder /\ g.owes = <<row>>
      <4>1. CallerRecord(caller[c])
        BY CallerFacts
      <4>2. CallerRecord(g)
        BY <3>0, <4>1, FieldsKept
      <4>3. g.at = "rows" /\ g.call = caller[c].call /\ g.folder = caller[c].folder /\ g.owes = <<row>>
        BY <3>0, <4>1 DEF CallerRecord
      <4>4. QED
        BY <4>2, <4>3
    <3>4. caller' = [caller EXCEPT ![c] = g]
      BY <2>1, <3>0, <3>1
    <3>5. /\ row.outcome = "ok" => e.landed = {row.action} /\ e.refused = FALSE
          /\ row.outcome = "failed" => e.landed = {} /\ e.refused = TRUE
      BY <2>4, <3>2
    <3>6. caller[c].at \in {"new project", "new meeting"} /\ projects \subseteq projects'
      BY <1>1, <2>1
    <3>7. CreateEnded(c, g, row, e)
      BY <1>1, <2>3, <2>4, <3>2, <3>3, <3>4, <3>5, <3>6 DEF CreateEnded
    <3>8. QED
      BY <2>3, <3>7, CreateEnds
  <2>6. \E p \in projects' : p.slug = project
    BY <1>1, <1>2 DEF ProjectSlugs
  <2>7. QED
    BY <2>2, <2>5, <2>6 DEF RegistersStep
<1>5. QED
  BY <1>3, <1>4

\* The first row a caller owes is settled, and the others are still owed.
LEMMA RowIsSettled ==
  ASSUME RegistrationInv, NEW c \in Surface, caller[c].at = "rows",
         caller' = [caller EXCEPT ![c] = SettledRow(c)], begun' = begun, ended' = ended
  PROVE  /\ CallerOK(c)'
         /\ \A i \in 1 .. Len(caller[c].owes) :
              i = 1 \/ \E j \in 1 .. Len(caller'[c].owes) : caller'[c].owes[j] = caller[c].owes[i]
         /\ caller[c].owes[1] \in OwedRows /\ SaysSo(caller[c].owes[1])
         /\ Head(caller[c].owes) = caller[c].owes[1]
<1>1. DOMAIN caller = Surface /\ CallerOK(c) /\ CallerShape(caller[c]) /\ begun \in Nat
  BY CallerFacts DEF RegistrationInv
<1>2. PICK h : h = caller[c]
  OBVIOUS
<1>3. /\ CallerRecord(h) /\ h.call \in Nat /\ h.at = "rows" /\ h.call > 0 /\ h.folder \in Folder
      /\ h.owes \in Seq(OwedRows) /\ Len(h.owes) <= 2 /\ Len(h.owes) > 0
      /\ \A i \in 1 .. Len(h.owes) : h.owes[i].call = h.call
  BY <1>1, <1>2 DEF CallerShape
<1>4. h.call <= begun /\ \A i \in 1 .. Len(h.owes) : SaysSo(h.owes[i])
  BY <1>1, <1>2 DEF CallerOK
<1>5. Len(h.owes) \in {1, 2} /\ 1 \in 1 .. Len(h.owes) /\ h.owes[1] \in OwedRows /\ Head(h.owes) = h.owes[1]
  <2>1. Len(h.owes) \in Nat /\ Len(h.owes) <= 2 /\ Len(h.owes) > 0
    BY <1>3
  <2>2. Len(h.owes) \in {1, 2} /\ 1 \in 1 .. Len(h.owes)
    <3>1. \A n \in Nat : n <= 2 /\ n > 0 => n \in {1, 2} /\ 1 \in 1 .. n
      OBVIOUS
    <3>2. QED
      BY <2>1, <3>1, Zenon
  <2>3. h.owes \in Seq(OwedRows) /\ h.owes # <<>>
    BY <1>3
  <2>4. h.owes[1] \in OwedRows
    BY <2>2, <2>3
  <2>5. Head(h.owes) = h.owes[1]
    BY <2>3
  <2>6. QED
    BY <2>2, <2>4, <2>5
<1>6. \A r : SaysSo(r) => SaysSo(r)'
  BY DEF SaysSo
<1>7. CASE Len(h.owes) = 1
  <2>1. caller'[c] = Idle
    BY <1>1, <1>2, <1>7 DEF SettledRow
  <2>2. begun' \in Nat
    BY <1>1
  <2>3. CallerOK(c)'
    BY <2>1, <2>2, BackToIdle
  <2>4. \A i \in 1 .. Len(h.owes) : i = 1
    BY <1>7
  <2>5. QED
    BY <1>2, <1>4, <1>5, <2>3, <2>4
<1>8. CASE Len(h.owes) = 2
  <2>1. PICK g : g = [h EXCEPT !.owes = Tail(h.owes)]
    OBVIOUS
  <2>2. caller'[c] = g
    BY <1>1, <1>2, <1>8, <2>1 DEF SettledRow
  <2>3. CallerRecord(g)
    BY <1>3, <2>1, FieldsKept
  <2>4. g.at = "rows" /\ g.call = h.call /\ g.folder = h.folder /\ g.owes = Tail(h.owes)
    BY <1>3, <2>1 DEF CallerRecord
  <2>5. g.owes \in Seq(OwedRows) /\ Len(g.owes) = 1 /\ g.owes[1] = h.owes[2]
    BY <1>3, <1>8, <2>4
  <2>6. 2 \in 1 .. Len(h.owes) /\ \A i \in 1 .. Len(h.owes) : i = 1 \/ i = 2
    BY <1>8
  <2>7. \A i \in 1 .. Len(g.owes) : g.owes[i].call = g.call /\ SaysSo(g.owes[i])'
    <3>1. SaysSo(h.owes[2])' /\ h.owes[2].call = h.call
      BY <1>3, <1>4, <1>6, <2>6
    <3>2. \A i \in 1 .. Len(g.owes) : g.owes[i] = h.owes[2]
      BY <2>5
    <3>3. QED
      BY <2>4, <3>1, <3>2 DEF SaysSo
  <2>8. g.call <= begun'
    BY <1>1, <1>3, <1>4, <2>4
  <2>9. CallerOK(c)'
    BY <1>3, <2>2, <2>3, <2>4, <2>5, <2>7, <2>8, RowsOwed
  <2>10. \A i \in 1 .. Len(h.owes) :
           i = 1 \/ \E j \in 1 .. Len(caller'[c].owes) : caller'[c].owes[j] = h.owes[i]
    <3>1. 1 \in 1 .. Len(caller'[c].owes) /\ caller'[c].owes[1] = h.owes[2]
      BY <2>2, <2>5
    <3>2. QED
      BY <2>6, <3>1
  <2>11. QED
    BY <1>2, <1>4, <1>5, <2>9, <2>10
<1>9. QED
  BY <1>5, <1>7, <1>8

\* The audit's rows are written as the calls they are owed for have ended.
LEMMA RowsAreSettled ==
  ASSUME RegistrationInv, NEW c \in Surface, AppendsRow(c) \/ LosesRow(c)
  PROVE  RegistrationInv' /\ RegistersStep
<1>1. /\ caller[c].at = "rows" /\ caller' = [caller EXCEPT ![c] = SettledRow(c)]
      /\ UNCHANGED <<projects, meetings, ended, reserved, begun, cutOff>>
      /\ \/ rows' = rows \union {Head(caller[c].owes)} /\ UNCHANGED <<stated, refusals>>
         \/ /\ stated' = stated \union {Head(caller[c].owes)} /\ UNCHANGED rows
            /\ refusals < MaxRefusals /\ refusals' = refusals + 1
  BY DEF AppendsRow, LosesRow, Puts, Stated
<1>2. /\ CallerOK(c)'
      /\ \A i \in 1 .. Len(caller[c].owes) :
              i = 1 \/ \E j \in 1 .. Len(caller'[c].owes) : caller'[c].owes[j] = caller[c].owes[i]
      /\ caller[c].owes[1] \in OwedRows /\ SaysSo(caller[c].owes[1])
      /\ Head(caller[c].owes) = caller[c].owes[1]
  BY <1>1, RowIsSettled
<1>3. PICK row : row = caller[c].owes[1]
  OBVIOUS
<1>4. /\ row \in OwedRows /\ SaysSo(row)
      /\ row.action \in {"project.create", "meeting.create"} /\ row.outcome \in {"ok", "failed"}
  BY <1>2, <1>3 DEF OwedRows, Creates
<1>5. /\ rows' \union stated' = rows \union stated \union {row}
      /\ rows \subseteq rows' /\ stated \subseteq stated' /\ rows' \subseteq rows \union {row}
  BY <1>1, <1>2, <1>3
<1>6. RegistrationTypeOK'
  <2>1. \A r \in rows' \union stated' :
          r.action \in {"project.create", "meeting.create"} /\ r.outcome \in {"ok", "failed"}
    BY <1>4, <1>5 DEF RegistrationInv, RegistrationTypeOK
  <2>2. refusals' \in 0 .. MaxRefusals
    <3>1. refusals \in Nat /\ refusals <= MaxRefusals
      BY CallerFacts
    <3>2. refusals' = refusals \/ (refusals < MaxRefusals /\ refusals' = refusals + 1)
      BY <1>1
    <3>3. QED
      BY <3>1, <3>2, RegistrationBounds
  <2>3. UNCHANGED <<projects, meetings, reserved, begun>>
    BY <1>1
  <2>4. QED
    BY <2>1, <2>2, <2>3 DEF RegistrationInv, RegistrationTypeOK
<1>7. \A r \in rows' : r \in rows \/ SaysSo(r)'
  <2>1. SaysSo(row)'
    BY <1>1, <1>4 DEF SaysSo
  <2>2. QED
    BY <1>5, <2>1
<1>8. \A i \in 1 .. Len(caller[c].owes) :
              \/ caller[c].owes[i] \in rows' \union stated'
              \/ \E j \in 1 .. Len(caller'[c].owes) : caller'[c].owes[j] = caller[c].owes[i]
  BY <1>2, <1>3, <1>5
<1>9. begun <= begun' /\ SettledRow(c) = SettledRow(c)
  BY <1>1, CallerFacts, SameBegun
<1>10. RegistrationInv'
  BY <1>1, <1>2, <1>5, <1>6, <1>7, <1>8, <1>9, OneCallerSteps
<1>11. QED
  BY <1>1, <1>10 DEF RegistersStep

\* A caller that dies leaves what it landed, and owes no row.
LEMMA CallerDies == ASSUME RegistrationInv, NEW c \in Surface, DiesCalling(c)
                    PROVE  RegistrationInv' /\ RegistersStep
<1>1. /\ cutOff' = cutOff \union {caller[c].call} /\ caller' = [caller EXCEPT ![c] = Idle]
      /\ reserved' = IF reserved = c THEN NotReserved ELSE reserved
      /\ UNCHANGED <<projects, meetings, rows, stated, ended, begun, refusals>>
  BY DEF DiesCalling, Puts
<1>2. caller'[c] = Idle /\ begun' \in Nat /\ begun <= begun'
  <2>1. begun \in Nat /\ DOMAIN caller = Surface /\ begun' = begun
    BY <1>1, CallerFacts DEF RegistrationInv
  <2>2. QED
    BY <1>1, <2>1, SameBegun
<1>3. CallerOK(c)'
  BY <1>2, BackToIdle
<1>4. RegistrationTypeOK'
  BY <1>1 DEF RegistrationInv, RegistrationTypeOK
<1>5. \A d \in Surface : d # c /\ caller[d].at = "insert" => reserved' = reserved /\ meetings' = meetings
  BY <1>1, OnlyTheHolder
<1>6. RegistrationInv'
  BY <1>1, <1>2, <1>3, <1>4, <1>5, OneCallerSteps
<1>7. QED
  BY <1>1, <1>6 DEF RegistersStep

\* Every step of the surfaces keeps the record the account of what they did,
\* and registers a folder at most once.
LEMMA RegistrationStays ==
  ASSUME RegistrationInv, [RegistrationNext]_registrationVars PROVE RegistrationInv' /\ RegistersStep
<1>1. ASSUME NEW c \in Surface,
             \/ RegistrationCalls(c) \/ LookUp(c) \/ Registers(c) \/ RegistryRefuses(c)
             \/ ChoosesProjectSlug(c) \/ InsertsProject(c)
             \/ ChoosesMeetingSlug(c) \/ InsertsMeeting(c)
             \/ AppendsRow(c) \/ LosesRow(c) \/ DiesCalling(c)
      PROVE  RegistrationInv' /\ RegistersStep
  BY <1>1, CallsBegin, LooksUp, RegistrationLands, RefusedByRegistry, SlugsAreChosen, ProjectIsInserted,
     MeetingIsInserted, RowsAreSettled, CallerDies
<1>2. CASE UNCHANGED registrationVars
  <2>1. RegistrationInv'
    <3> USE <1>2 DEF registrationVars
    <3>1. RegistrationTypeOK'
      BY DEF RegistrationInv, RegistrationTypeOK
    <3>2. \A r : SaysSo(r) <=> SaysSo(r)'
      BY DEF SaysSo
    <3>3. \A r : Accounted(r) <=> Accounted(r)'
      BY DEF Accounted
    <3>4. \A e : IsAccounted(e) <=> IsAccounted(e)'
      BY <3>3 DEF IsAccounted
    <3>5. \A d \in Surface : CallerOK(d)'
      BY <3>2 DEF RegistrationInv, CallerOK, NoMeetingOf, ProjectSlugs
    <3>6. QED
      BY <3>1, <3>2, <3>4, <3>5 DEF RegistrationInv
  <2>2. QED
    BY <1>2, <2>1 DEF RegistersStep, registrationVars
<1>3. QED
  BY <1>1, <1>2 DEF RegistrationNext

\* What is so of the registrations gives their types, and that the record is
\* the account.
LEMMA RegistrationInvGives == RegistrationInv => RegistrationTypeOK /\ RecordIsTheAccount
BY DEF RegistrationInv, RecordIsTheAccount, SaysSo, IsAccounted, Creates

-----------------------------------------------------------------------------
(* The glossary (GlossaryTerms).                                             *)

\* A term's row, and an editor with the row it read.
TermRowOK(r) ==
    /\ r = [spelling |-> r.spelling, status |-> r.status, marker |-> r.marker]
    /\ r.status \in {"absent", "candidate", "confirmed", "retired"}
    /\ r.marker \in Markers
    /\ r.status # "absent" => r.spelling \in Spelling

\* The status a restore owes a term that held another before its retire.
StatusOwed(held) == IF held = "none" THEN "candidate" ELSE held

EditorRow(p, kept) ==
    p.edit # "none" =>
        /\ p.edit \in ConsoleEdits \union ServiceEdits
        /\ p.of \in Term /\ kept[p.of].status # "absent"
        /\ TermRowOK(p.read) /\ p.read.status # "absent"

\* One term per spelling, and what a retired term's row says of the status it
\* was retired from.
GlossaryInv ==
    /\ term = [t \in Term |-> term[t]] /\ heldBefore = [t \in Term |-> heldBefore[t]]
    /\ \A t \in Term : TermRowOK(term[t])
    /\ \A s, t \in Rows : term[s].spelling = term[t].spelling => s = t
    /\ editor = [e \in Editor |-> editor[e]] /\ \A e \in Editor : EditorRow(editor[e], term)
    /\ file \in [Spelling -> {"nobody", "app", "user"}]
    /\ runFile \subseteq Spelling
    /\ run = [at |-> run.at, path |-> run.path, terms |-> run.terms, decoded |-> run.decoded]
    /\ run.terms \subseteq Spelling
    /\ RestoreReturnsTheStatus
    /\ \A t \in Term : term[t].status # "retired" => heldBefore[t] = "none"

ResolvedStep == run'.at = "decode" /\ run.at # "decode" => run'.terms \intersect Unconfirmed = {}

\* The glossary begins without terms.
LEMMA GlossaryInitInv == GlossaryInit => GlossaryInv
<1> SUFFICES ASSUME GlossaryInit PROVE GlossaryInv
  OBVIOUS
<1>1. PICK r : r = Unwritten
  OBVIOUS
<1>a. r = [spelling |-> "", status |-> "absent", marker |-> "none"]
  BY <1>1 DEF Unwritten
<1>b. TermRowOK(r) /\ r.status = "absent"
  BY <1>a DEF TermRowOK, Markers
<1>2. \A t \in Term : TermRowOK(term[t]) /\ term[t].status = "absent"
  BY <1>1, <1>b DEF GlossaryInit
<1>3. \A e \in Editor : editor[e].edit = "none"
  BY DEF GlossaryInit, AtRest
<1>4. run = [at |-> run.at, path |-> run.path, terms |-> run.terms, decoded |-> run.decoded] /\ run.terms = {}
  BY DEF GlossaryInit, NoRun
<1>5. Rows = {}
  BY <1>2 DEF Rows
<1>6. RestoreReturnsTheStatus
  BY <1>5 DEF RestoreReturnsTheStatus
<1>7. term = [t \in Term |-> term[t]] /\ heldBefore = [t \in Term |-> heldBefore[t]] /\ editor = [e \in Editor |-> editor[e]]
  BY DEF GlossaryInit
<1>8. /\ file \in [Spelling -> {"nobody", "app", "user"}] /\ runFile \subseteq Spelling
      /\ \A t \in Term : heldBefore[t] = "none"
  BY DEF GlossaryInit
<1>9. QED
  BY <1>2, <1>3, <1>4, <1>5, <1>6, <1>7, <1>8 DEF GlossaryInv, EditorRow

\* What is so of the glossary gives its types, and that restoring a term
\* returns the status it had.
LEMMA GlossaryInvGives == GlossaryInv => GlossaryTypeOK /\ RestoreReturnsTheStatus
BY DEF GlossaryInv, GlossaryTypeOK, TermRowOK, Rows

\* A restore gives the status the marker names.
LEMMA RestoredStatus ==
  ASSUME NEW r, TermRowOK(r)
  PROVE  Restored(r).status = IF r.marker = "none" THEN "candidate" ELSE r.marker
<1>1. PICK s : s = IF r.marker = "none" THEN "candidate" ELSE r.marker
  OBVIOUS
<1>2. Restored(r) = [r EXCEPT !.status = s, !.marker = "none"]
  BY <1>1 DEF Restored
<1>3. PICK y : y = [r EXCEPT !.status = s]
  OBVIOUS
<1>4. y = [spelling |-> r.spelling, status |-> s, marker |-> r.marker]
  BY <1>3 DEF TermRowOK
<1>5. Restored(r) = [y EXCEPT !.marker = "none"]
  BY <1>2, <1>3
<1>6. Restored(r).status = s
  BY <1>4, <1>5
<1>7. QED
  BY <1>1, <1>6

\* What an edit makes of the row it read: only a retire makes it retired, and no
\* other edit changes the marker without the status.
LEMMA EditedRow ==
  ASSUME NEW r, TermRowOK(r), r.status # "absent",
         NEW edit \in {"confirmed", "candidate", "retire", "restore"}
  PROVE  LET m == Edited(r, edit) IN
           /\ TermRowOK(m) /\ m.spelling = r.spelling /\ m.status # "absent"
           /\ edit = "retire" /\ r.status # "retired" => Restored(m).status = r.status
           /\ edit = "retire" /\ r.status = "retired" => m = r
           /\ edit # "retire" => m.status # "retired" /\ (m.status = r.status => m.marker = r.marker)
<1>0. r = [spelling |-> r.spelling, status |-> r.status, marker |-> r.marker]
  BY DEF TermRowOK
<1>1. ASSUME NEW x, x = [spelling |-> x.spelling, status |-> x.status, marker |-> x.marker], NEW s, NEW k
      PROVE  /\ [x EXCEPT !.status = s] = [spelling |-> x.spelling, status |-> s, marker |-> x.marker]
             /\ [x EXCEPT !.marker = k] = [spelling |-> x.spelling, status |-> x.status, marker |-> k]
  <2>1. [x EXCEPT !.status = s] = [spelling |-> x.spelling, status |-> s, marker |-> x.marker]
    BY <1>1
  <2>2. [x EXCEPT !.marker = k] = [spelling |-> x.spelling, status |-> x.status, marker |-> k]
    BY <1>1
  <2>3. QED
    BY <2>1, <2>2
<1>2. ASSUME NEW x, x = [spelling |-> x.spelling, status |-> x.status, marker |-> x.marker], NEW s, NEW k
      PROVE  /\ [x EXCEPT !.marker = k, !.status = s] = [spelling |-> x.spelling, status |-> s, marker |-> k]
             /\ [x EXCEPT !.status = s, !.marker = k] = [spelling |-> x.spelling, status |-> s, marker |-> k]
  <2>1. PICK y : y = [x EXCEPT !.marker = k]
    OBVIOUS
  <2>2. y = [spelling |-> x.spelling, status |-> x.status, marker |-> k]
    BY <1>1, <1>2, <2>1
  <2>3. y = [spelling |-> y.spelling, status |-> y.status, marker |-> y.marker] /\ y.spelling = x.spelling /\ y.marker = k
    BY <2>2
  <2>4. [y EXCEPT !.status = s] = [spelling |-> x.spelling, status |-> s, marker |-> k]
    BY <1>1, <2>3
  <2>5. [x EXCEPT !.marker = k, !.status = s] = [y EXCEPT !.status = s]
    BY <2>1
  <2>6. PICK z : z = [x EXCEPT !.status = s]
    OBVIOUS
  <2>7. z = [spelling |-> x.spelling, status |-> s, marker |-> x.marker]
    BY <1>1, <1>2, <2>6
  <2>8. z = [spelling |-> z.spelling, status |-> z.status, marker |-> z.marker] /\ z.spelling = x.spelling /\ z.status = s
    BY <2>7
  <2>9. [z EXCEPT !.marker = k] = [spelling |-> x.spelling, status |-> s, marker |-> k]
    BY <1>1, <2>8
  <2>10. [x EXCEPT !.status = s, !.marker = k] = [z EXCEPT !.marker = k]
    BY <2>6
  <2>11. QED
    BY <2>4, <2>5, <2>9, <2>10
<1>3. PICK m : m = Edited(r, edit)
  OBVIOUS
<1>4. CASE edit \in {"confirmed", "candidate"}
  <2>1. m = [r EXCEPT !.status = edit]
    BY <1>3, <1>4 DEF Edited
  <2>2. m = [spelling |-> r.spelling, status |-> edit, marker |-> r.marker]
    BY <1>0, <1>1, <2>1
  <2>3. QED
    BY <1>3, <1>4, <2>2 DEF TermRowOK
<1>5. CASE edit = "retire" /\ r.status # "retired"
  <2>1. m = [r EXCEPT !.marker = r.status, !.status = "retired"]
    BY <1>3, <1>5 DEF Edited, Retired
  <2>2. m = [spelling |-> r.spelling, status |-> "retired", marker |-> r.status]
    BY <1>0, <1>2, <2>1
  <2>3. TermRowOK(m)
    BY <1>5, <2>2 DEF TermRowOK, Markers
  <2>4. Restored(m) = [m EXCEPT !.status = m.marker, !.marker = "none"]
    BY <2>2 DEF Restored, TermRowOK, Markers
  <2>5. Restored(m).status = r.status
    <3>1. m = [spelling |-> m.spelling, status |-> m.status, marker |-> m.marker] /\ m.marker = r.status
      BY <2>2
    <3>2. Restored(m) = [spelling |-> m.spelling, status |-> m.marker, marker |-> "none"]
      BY <1>2, <2>4, <3>1
    <3>3. QED
      BY <3>1, <3>2
  <2>6. QED
    BY <1>3, <1>5, <2>2, <2>3, <2>5 DEF TermRowOK
<1>6. CASE \/ edit = "retire" /\ r.status = "retired"
           \/ edit = "restore" /\ r.status # "retired"
  <2>1. m = r
    BY <1>3, <1>6 DEF Edited, Retired
  <2>2. QED
    BY <1>3, <1>6, <2>1
<1>7. CASE edit = "restore" /\ r.status = "retired"
  <2>1. PICK s : s = IF r.marker = "none" THEN "candidate" ELSE r.marker
    OBVIOUS
  <2>2. m = [r EXCEPT !.status = s, !.marker = "none"]
    BY <1>3, <1>7, <2>1 DEF Edited, Restored
  <2>3. m = [spelling |-> r.spelling, status |-> s, marker |-> "none"]
    BY <1>0, <1>2, <2>2
  <2>4. s \in {"candidate", "confirmed"}
    BY <2>1 DEF TermRowOK, Markers
  <2>5. QED
    BY <1>3, <1>7, <2>3, <2>4 DEF TermRowOK, Markers
<1>8. QED
  BY <1>3, <1>4, <1>5, <1>6, <1>7

\* What an update writes.
LEMMA MergedRow ==
  ASSUME NEW cur, NEW saw, NEW made, TermRowOK(cur), TermRowOK(saw), TermRowOK(made),
         cur.status # "absent", made.status # "absent", made.spelling = saw.spelling
  PROVE  /\ TermRowOK(Merged(cur, saw, made)) /\ Merged(cur, saw, made).status # "absent"
         /\ Merged(cur, saw, made).spelling = cur.spelling
         /\ Merged(cur, saw, made).status = IF made.status = saw.status THEN cur.status ELSE made.status
         /\ Merged(cur, saw, made).marker = IF made.marker = saw.marker THEN cur.marker ELSE made.marker
         /\ cur = saw => Merged(cur, saw, made) = made
<1>0. DOMAIN cur = {"spelling", "status", "marker"}
  BY DEF TermRowOK
<1>1. PICK row : row = Merged(cur, saw, made)
  OBVIOUS
<1>2. /\ row = [c \in {"spelling", "status", "marker"} |-> IF made[c] = saw[c] THEN cur[c] ELSE made[c]]
  BY <1>0, <1>1 DEF Merged
<1>3. /\ row.spelling = cur.spelling
      /\ row.status = IF made.status = saw.status THEN cur.status ELSE made.status
      /\ row.marker = IF made.marker = saw.marker THEN cur.marker ELSE made.marker
  BY <1>2
<1>4. row = [spelling |-> row.spelling, status |-> row.status, marker |-> row.marker]
  BY <1>2
<1>5. TermRowOK(row) /\ row.status # "absent"
  BY <1>3, <1>4 DEF TermRowOK
<1>6. ASSUME cur = saw PROVE row = made
  <2>1. row.spelling = made.spelling /\ row.status = made.status /\ row.marker = made.marker
    BY <1>3, <1>6
  <2>2. made = [spelling |-> made.spelling, status |-> made.status, marker |-> made.marker]
    BY DEF TermRowOK
  <2>3. QED
    BY <1>4, <2>1, <2>2
<1>7. QED
  BY <1>1, <1>3, <1>5, <1>6

\* A step that leaves the registry's terms and the edits of them.
LEMMA TermsStand ==
  ASSUME GlossaryInv, UNCHANGED <<term, heldBefore, rewritten, editor>>,
         file' \in [Spelling -> {"nobody", "app", "user"}], runFile' \subseteq Spelling,
         run' = [at |-> run'.at, path |-> run'.path, terms |-> run'.terms, decoded |-> run'.decoded],
         run'.terms \subseteq Spelling
  PROVE  GlossaryInv'
BY DEF GlossaryInv, RestoreReturnsTheStatus, Rows

\* A step that changes one term's row, and with it what a restore makes of it.
LEMMA OneRow ==
  ASSUME GlossaryInv, NEW t \in Term, NEW row, term' = [term EXCEPT ![t] = row],
         TermRowOK(row), row.status # "absent",
         \A s \in Rows : term[s].spelling = row.spelling => s = t,
         heldBefore' = [x \in Term |-> heldBefore'[x]],
         \A s \in Term : s # t => heldBefore'[s] = heldBefore[s] /\ (s \in rewritten => s \in rewritten'),
         t \notin rewritten' => (row.status = "retired" => Restored(row).status = StatusOwed(heldBefore'[t])),
         row.status # "retired" => heldBefore'[t] = "none",
         editor' = [e \in Editor |-> editor'[e]], \A e \in Editor : EditorRow(editor'[e], term),
         UNCHANGED <<file, runFile, run>>
  PROVE  GlossaryInv'
<1>1. term' = [s \in Term |-> term'[s]] /\ term'[t] = row /\ \A s \in Term : s # t => term'[s] = term[s]
  BY DEF GlossaryInv
<1>2. \A s \in Term : TermRowOK(term'[s])
  BY <1>1 DEF GlossaryInv
<1>3. \A s \in Rows' : s # t => s \in Rows
  BY <1>1 DEF Rows
<1>4. \A s, u \in Rows' : term'[s].spelling = term'[u].spelling => s = u
  <2>1. SUFFICES ASSUME NEW s \in Rows', NEW u \in Rows', term'[s].spelling = term'[u].spelling PROVE s = u
    OBVIOUS
  <2>2. s \in Term /\ u \in Term
    BY DEF Rows
  <2>3. CASE s # t /\ u # t
    BY <1>1, <1>3, <2>1, <2>2, <2>3 DEF GlossaryInv
  <2>4. CASE s = t \/ u = t
    BY <1>1, <1>3, <2>1, <2>2, <2>4
  <2>5. QED
    BY <2>3, <2>4
<1>5. \A e \in Editor : EditorRow(editor'[e], term')
  BY <1>1 DEF EditorRow
<1>6. RestoreReturnsTheStatus'
  <2>1. SUFFICES ASSUME NEW s \in Rows', s \notin rewritten', term'[s].status = "retired"
                 PROVE  Restored(term'[s]).status = StatusOwed(heldBefore'[s])
    BY DEF RestoreReturnsTheStatus, StatusOwed
  <2>2. CASE s = t
    BY <1>1, <2>1, <2>2
  <2>3. CASE s # t
    <3>1. s \in Rows /\ s \in Term
      BY <1>3, <2>3 DEF Rows
    <3>2. s \notin rewritten /\ term'[s] = term[s] /\ heldBefore'[s] = heldBefore[s]
      BY <1>1, <2>1, <2>3, <3>1
    <3>3. Restored(term[s]).status = StatusOwed(heldBefore[s])
      BY <2>1, <3>1, <3>2 DEF GlossaryInv, RestoreReturnsTheStatus, StatusOwed
    <3>4. QED
      BY <3>2, <3>3
  <2>4. QED
    BY <2>2, <2>3
<1>7. /\ file' \in [Spelling -> {"nobody", "app", "user"}] /\ runFile' \subseteq Spelling
      /\ run' = [at |-> run'.at, path |-> run'.path, terms |-> run'.terms, decoded |-> run'.decoded]
      /\ run'.terms \subseteq Spelling
  BY DEF GlossaryInv
<1>8. \A s \in Term : term'[s].status # "retired" => heldBefore'[s] = "none"
  BY <1>1 DEF GlossaryInv
<1>9. QED
  BY <1>1, <1>2, <1>4, <1>5, <1>6, <1>7, <1>8 DEF GlossaryInv

\* A term that is added held no status before: as retired, it is owed the
\* candidate's, unless its notes say otherwise.
LEMMA AddKeeps ==
  ASSUME GlossaryInv, NEW t \in Term, NEW x \in Spelling,
         NEW status \in {"candidate", "confirmed", "retired"}, NEW m \in Markers, AddTerm(t, x, status, m)
  PROVE  GlossaryInv'
<1>1. PICK row : row = [spelling |-> x, status |-> status, marker |-> m]
  OBVIOUS
<1>2. /\ term[t].status = "absent" /\ SpellingFree(x) /\ term' = [term EXCEPT ![t] = row]
      /\ rewritten' = IF m = "none" THEN rewritten ELSE rewritten \union {t}
      /\ UNCHANGED <<heldBefore, file, runFile, editor, run>>
  BY <1>1 DEF AddTerm
<1>3. TermRowOK(row) /\ row.status # "absent" /\ row.spelling = x /\ row.marker = m
  BY <1>1 DEF TermRowOK
<1>4. \A s \in Rows : term[s].spelling = row.spelling => s = t
  BY <1>2, <1>3 DEF SpellingFree
<1>5. /\ heldBefore' = [y \in Term |-> heldBefore'[y]]
      /\ \A s \in Term : s # t => heldBefore'[s] = heldBefore[s] /\ (s \in rewritten => s \in rewritten')
      /\ editor' = [e \in Editor |-> editor'[e]] /\ \A e \in Editor : EditorRow(editor'[e], term)
      /\ UNCHANGED <<file, runFile, run>>
  BY <1>2 DEF GlossaryInv
<1>6. heldBefore'[t] = "none"
  <2>1. term[t].status # "retired" => heldBefore[t] = "none"
    BY DEF GlossaryInv
  <2>2. QED
    BY <1>2, <2>1
<1>7. ASSUME t \notin rewritten' PROVE Restored(row).status = StatusOwed(heldBefore'[t])
  <2>1. m = "none"
    BY <1>2, <1>7
  <2>2. QED
    BY <1>3, <1>6, <2>1, RestoredStatus DEF StatusOwed
<1>8. QED
  BY <1>2, <1>3, <1>4, <1>5, <1>6, <1>7, OneRow

\* An editor that reads a term has a row as it was.
LEMMA ReadsKeeps == ASSUME GlossaryInv, NEW e \in Editor, ReadsTerm(e) PROVE GlossaryInv'
<1>1. /\ UNCHANGED <<term, heldBefore, rewritten, file, runFile, run>>
      /\ \E t \in Rows, edit \in ConsoleEdits \union ServiceEdits :
           editor' = [editor EXCEPT ![e] = [edit |-> edit, of |-> t, read |-> term[t]]]
  BY DEF ReadsTerm
<1>2. PICK t \in Rows, edit \in ConsoleEdits \union ServiceEdits :
        editor' = [editor EXCEPT ![e] = [edit |-> edit, of |-> t, read |-> term[t]]]
  BY <1>1
<1>3. editor' = [x \in Editor |-> editor'[x]] /\ \A x \in Editor : EditorRow(editor'[x], term)
  <2>1. PICK p : p = [edit |-> edit, of |-> t, read |-> term[t]]
    OBVIOUS
  <2>2. t \in Term /\ term[t].status # "absent" /\ TermRowOK(term[t])
    BY DEF Rows, GlossaryInv
  <2>3. EditorRow(p, term)
    BY <2>1, <2>2 DEF EditorRow
  <2>4. editor' = [editor EXCEPT ![e] = p]
    BY <1>2, <2>1
  <2>5. QED
    BY <2>3, <2>4 DEF GlossaryInv
<1>4. QED
  BY <1>1, <1>3 DEF GlossaryInv, RestoreReturnsTheStatus, Rows

\* What an editor writes over what it read keeps status and memory apart.
LEMMA WritesKeeps == ASSUME GlossaryInv, NEW e \in Editor, WritesTerm(e) PROVE GlossaryInv'
<1>1. PICK t, saw, edit : t = editor[e].of /\ saw = editor[e].read /\ edit = editor[e].edit
  OBVIOUS
<1>2. PICK row \in Written(term[t], saw, edit) :
        /\ edit \notin {"none", "rename"} /\ term' = [term EXCEPT ![t] = row]
        /\ heldBefore' = [heldBefore EXCEPT ![t] =
                IF row.status # "retired" THEN "none"
                ELSE IF term[t].status # "retired" THEN term[t].status ELSE heldBefore[t]]
        /\ rewritten' = IF edit = "notes" \/ (edit = "retire" /\ saw # term[t]) THEN rewritten \union {t}
                        ELSE IF term[t].status # "retired" THEN rewritten \ {t} ELSE rewritten
        /\ editor' = [editor EXCEPT ![e] = AtRest]
        /\ UNCHANGED <<file, runFile, run>>
  BY <1>1 DEF WritesTerm
<1>3. /\ edit \in {"confirmed", "candidate", "notes", "retire", "restore"}
      /\ t \in Term /\ term[t].status # "absent" /\ TermRowOK(saw) /\ saw.status # "absent" /\ TermRowOK(term[t])
  BY <1>1, <1>2 DEF GlossaryInv, EditorRow, ConsoleEdits, ServiceEdits
<1>4. PICK made : made = Edited(saw, edit)
  OBVIOUS
<1>5. ASSUME edit # "notes"
      PROVE  /\ row = Merged(term[t], saw, made)
             /\ TermRowOK(made) /\ made.spelling = saw.spelling /\ made.status # "absent"
             /\ edit = "retire" /\ saw.status # "retired" => Restored(made).status = saw.status
             /\ edit = "retire" /\ saw.status = "retired" => made = saw
             /\ edit # "retire" => made.status # "retired" /\ (made.status = saw.status => made.marker = saw.marker)
  <2>1. row = Merged(term[t], saw, made)
    BY <1>2, <1>4, <1>5 DEF Written
  <2>2. edit \in {"confirmed", "candidate", "retire", "restore"}
    BY <1>3, <1>5
  <2>3. QED
    BY <1>3, <1>4, <2>1, <2>2, EditedRow
<1>6. TermRowOK(row) /\ row.status # "absent" /\ row.spelling = term[t].spelling
  <2>1. CASE edit = "notes"
    <3>1. PICK m \in Markers : row = [term[t] EXCEPT !.marker = m]
      BY <1>2, <2>1 DEF Written
    <3>2. row = [spelling |-> term[t].spelling, status |-> term[t].status, marker |-> m]
      BY <1>3, <3>1 DEF TermRowOK
    <3>3. QED
      BY <1>3, <3>2 DEF TermRowOK
  <2>2. CASE edit # "notes"
    BY <1>3, <1>5, <2>2, MergedRow
  <2>3. QED
    BY <2>1, <2>2
<1>7. t \in Rows
  BY <1>3 DEF Rows
<1>8. \A s \in Rows : term[s].spelling = row.spelling => s = t
  BY <1>6, <1>7 DEF GlossaryInv
<1>9. /\ heldBefore' = [x \in Term |-> heldBefore'[x]]
      /\ heldBefore'[t] = IF row.status # "retired" THEN "none"
             ELSE IF term[t].status # "retired" THEN term[t].status ELSE heldBefore[t]
      /\ \A s \in Term : s # t => heldBefore'[s] = heldBefore[s]
  <2>1. PICK held : held = IF row.status # "retired" THEN "none"
             ELSE IF term[t].status # "retired" THEN term[t].status ELSE heldBefore[t]
    OBVIOUS
  <2>2. heldBefore' = [heldBefore EXCEPT ![t] = held] /\ heldBefore = [x \in Term |-> heldBefore[x]]
    BY <1>2, <2>1 DEF GlossaryInv
  <2>3. /\ heldBefore' = [x \in Term |-> heldBefore'[x]] /\ heldBefore'[t] = held
        /\ \A s \in Term : s # t => heldBefore'[s] = heldBefore[s]
    BY <1>3, <2>2
  <2>4. QED
    BY <2>1, <2>3
<1>10. \A s \in Term : s # t => (s \in rewritten => s \in rewritten')
  BY <1>2
<1>11. ASSUME t \notin rewritten', row.status = "retired"
       PROVE  Restored(row).status = StatusOwed(heldBefore'[t])
  <2>1. edit # "notes" /\ (edit = "retire" => saw = term[t])
    BY <1>2, <1>11
  <2>2. /\ row.status = IF made.status = saw.status THEN term[t].status ELSE made.status
        /\ row.marker = IF made.marker = saw.marker THEN term[t].marker ELSE made.marker
        /\ term[t] = saw => row = made
    BY <1>3, <1>5, <2>1, MergedRow
  <2>3. CASE edit = "retire" /\ term[t].status # "retired"
    <3>1. Restored(row).status = term[t].status
      BY <1>5, <2>1, <2>2, <2>3
    <3>2. heldBefore'[t] = term[t].status /\ term[t].status # "none"
      BY <1>3, <1>9, <1>11, <2>3 DEF TermRowOK
    <3>3. QED
      BY <3>1, <3>2 DEF StatusOwed
  <2>4. CASE edit # "retire" \/ term[t].status = "retired"
    <3>1. row.marker = term[t].marker /\ term[t].status = "retired"
      BY <1>5, <1>11, <2>1, <2>2, <2>4
    <3>2. Restored(row).status = Restored(term[t]).status
      BY <1>3, <1>6, <3>1, RestoredStatus
    <3>3. t \notin rewritten
      BY <1>2, <1>11, <2>1, <3>1
    <3>4. Restored(term[t]).status = StatusOwed(heldBefore[t])
      BY <1>7, <3>1, <3>3 DEF GlossaryInv, RestoreReturnsTheStatus, StatusOwed
    <3>5. heldBefore'[t] = heldBefore[t]
      BY <1>9, <1>11, <3>1
    <3>6. QED
      BY <3>2, <3>4, <3>5
  <2>5. QED
    BY <2>3, <2>4
<1>12. editor' = [x \in Editor |-> editor'[x]] /\ \A x \in Editor : EditorRow(editor'[x], term)
  <2>1. AtRest.edit = "none"
    BY DEF AtRest
  <2>2. QED
    BY <1>2, <2>1 DEF GlossaryInv, EditorRow
<1>13. QED
  BY <1>2, <1>3, <1>6, <1>8, <1>9, <1>10, <1>11, <1>12, OneRow

\* A renaming takes a spelling that is free.
LEMMA RenamesKeeps == ASSUME GlossaryInv, NEW e \in Editor, RenamesTerm(e) PROVE GlossaryInv'
<1>1. PICK t : t = editor[e].of
  OBVIOUS
<1>2. /\ editor[e].edit = "rename" /\ editor' = [editor EXCEPT ![e] = AtRest]
      /\ UNCHANGED <<heldBefore, rewritten, file, runFile, run>>
      /\ (\E x \in Spelling : SpellingFree(x) /\ term' = [term EXCEPT ![t].spelling = x]) \/ term' = term
  BY <1>1 DEF RenamesTerm
<1>3. t \in Term /\ term[t].status # "absent" /\ TermRowOK(term[t])
  BY <1>1, <1>2 DEF GlossaryInv, EditorRow
<1>4. editor' = [x \in Editor |-> editor'[x]] /\ \A x \in Editor : EditorRow(editor'[x], term)
  <2>1. AtRest.edit = "none"
    BY DEF AtRest
  <2>2. QED
    BY <1>2, <2>1 DEF GlossaryInv, EditorRow
<1>5. CASE term' = term
  BY <1>2, <1>4, <1>5 DEF GlossaryInv, RestoreReturnsTheStatus, Rows
<1>6. ASSUME NEW x \in Spelling, SpellingFree(x), term' = [term EXCEPT ![t].spelling = x] PROVE GlossaryInv'
  <2>1. PICK row : row = [term[t] EXCEPT !.spelling = x]
    OBVIOUS
  <2>2. row = [spelling |-> x, status |-> term[t].status, marker |-> term[t].marker]
    BY <1>3, <2>1 DEF TermRowOK
  <2>3. TermRowOK(row) /\ row.status # "absent" /\ row.status = term[t].status /\ row.spelling = x
    BY <1>3, <2>2 DEF TermRowOK
  <2>4. term' = [term EXCEPT ![t] = row]
    BY <1>6, <2>1
  <2>5. \A s \in Rows : term[s].spelling = row.spelling => s = t
    BY <1>6, <2>3 DEF SpellingFree
  <2>6. t \notin rewritten' => (row.status = "retired" => Restored(row).status = StatusOwed(heldBefore'[t]))
    <3>1. SUFFICES ASSUME t \notin rewritten, term[t].status = "retired"
                   PROVE  Restored(row).status = StatusOwed(heldBefore[t])
      BY <1>2, <2>3
    <3>2. t \in Rows
      BY <1>3 DEF Rows
    <3>3. Restored(term[t]).status = StatusOwed(heldBefore[t])
      BY <3>1, <3>2 DEF GlossaryInv, RestoreReturnsTheStatus, StatusOwed
    <3>4. row.marker = term[t].marker
      BY <2>2
    <3>5. QED
      BY <1>3, <2>3, <3>3, <3>4, RestoredStatus
  <2>7. /\ heldBefore' = [y \in Term |-> heldBefore'[y]]
        /\ \A s \in Term : s # t => heldBefore'[s] = heldBefore[s] /\ (s \in rewritten => s \in rewritten')
        /\ UNCHANGED <<file, runFile, run>>
    BY <1>2 DEF GlossaryInv
  <2>8. row.status # "retired" => heldBefore'[t] = "none"
    BY <1>2, <1>3, <2>3 DEF GlossaryInv
  <2>9. QED
    BY <1>3, <1>4, <2>3, <2>4, <2>5, <2>6, <2>7, <2>8, OneRow
<1>7. QED
  BY <1>2, <1>5, <1>6

\* Every step of the editors, of the file and of a run keeps what is so of
\* the glossary, and a run resolves only what was confirmed.
LEMMA GlossaryStays ==
  ASSUME GlossaryInv, [GlossaryNext]_glossaryVars
  PROVE  GlossaryInv' /\ ResolvedStep
<1>0. /\ run = [at |-> run.at, path |-> run.path, terms |-> run.terms, decoded |-> run.decoded]
      /\ run.terms \subseteq Spelling /\ runFile \subseteq Spelling
      /\ file \in [Spelling -> {"nobody", "app", "user"}]
  BY DEF GlossaryInv
<1>1. Confirmed \subseteq Spelling /\ Confirmed \intersect Unconfirmed = {}
  BY DEF GlossaryInv, Confirmed, Unconfirmed, TermRowOK, Rows
<1>2. ASSUME NEW t \in Term, NEW x \in Spelling,
             \/ \E status \in {"candidate", "confirmed", "retired"}, m \in Markers : AddTerm(t, x, status, m)
             \/ ProposesTerm(t, x)
      PROVE  GlossaryInv' /\ ResolvedStep
  <2>1. PICK status \in {"candidate", "confirmed", "retired"}, m \in Markers : AddTerm(t, x, status, m)
    BY <1>2 DEF ProposesTerm, Markers
  <2>2. run' = run
    BY <2>1 DEF AddTerm
  <2>3. QED
    BY <2>1, <2>2, AddKeeps DEF ResolvedStep
<1>3. ASSUME NEW e \in Editor, ReadsTerm(e) \/ WritesTerm(e) \/ RenamesTerm(e)
      PROVE  GlossaryInv' /\ ResolvedStep
  <2>1. run' = run
    BY <1>3 DEF ReadsTerm, WritesTerm, RenamesTerm
  <2>2. QED
    BY <1>3, <2>1, ReadsKeeps, WritesKeeps, RenamesKeeps DEF ResolvedStep
<1>4. ASSUME NEW x \in Spelling, EditsFile(x) PROVE GlossaryInv' /\ ResolvedStep
  <2>1. UNCHANGED <<term, heldBefore, rewritten, runFile, editor, run>>
    BY <1>4 DEF EditsFile
  <2>2. file' \in [Spelling -> {"nobody", "app", "user"}]
    BY <1>0, <1>4 DEF EditsFile
  <2>3. GlossaryInv'
    BY <1>0, <2>1, <2>2, TermsStand
  <2>4. QED
    BY <2>1, <2>3 DEF ResolvedStep
<1>5. CASE ResolvesSnapshot
  <2>1. UNCHANGED <<term, heldBefore, rewritten, runFile, editor>>
    BY <1>5 DEF ResolvesSnapshot
  <2>2. file' \in [Spelling -> {"nobody", "app", "user"}]
    BY <1>0, <1>5 DEF ResolvesSnapshot
  <2>3. \/ run' = [at |-> "blocked", path |-> "none", terms |-> {}, decoded |-> {}]
        \/ run' = [at |-> "decode", path |-> "glossary.txt", terms |-> Confirmed, decoded |-> {}]
    <3>1. PICK n : n = NoRun
      OBVIOUS
    <3>2. n = [at |-> "none", path |-> "none", terms |-> {}, decoded |-> {}]
      BY <3>1 DEF NoRun
    <3>3. CASE run' = [n EXCEPT !.at = "blocked"]
      BY <3>2, <3>3
    <3>4. CASE run' = [n EXCEPT !.at = "decode", !.path = "glossary.txt", !.terms = Confirmed]
      BY <3>2, <3>4
    <3>5. QED
      BY <1>5, <3>1, <3>3, <3>4 DEF ResolvesSnapshot
  <2>4. /\ run' = [at |-> run'.at, path |-> run'.path, terms |-> run'.terms, decoded |-> run'.decoded]
        /\ run'.terms \subseteq Spelling
        /\ run'.at = "decode" => run'.terms = Confirmed
    BY <1>1, <2>3
  <2>5. GlossaryInv'
    BY <1>0, <2>1, <2>2, <2>4, TermsStand
  <2>6. QED
    BY <1>1, <2>4, <2>5 DEF ResolvedStep
<1>6. CASE ResolvesFile
  <2>1. PICK heard, path : /\ heard = Filtered(Spelled(file))
                           /\ path = IF heard = Spelled(file) THEN "glossary.txt" ELSE "run file"
    OBVIOUS
  <2>2. /\ UNCHANGED <<term, heldBefore, rewritten, file, editor>>
        /\ run' = [run EXCEPT !.at = "decode", !.path = path, !.terms = heard]
        /\ runFile' = IF path = "run file" THEN heard ELSE runFile
    BY <1>6, <2>1 DEF ResolvesFile
  <2>3. heard \subseteq Spelling /\ heard \intersect Unconfirmed = {}
    BY <2>1 DEF Filtered, Spelled
  <2>4. run' = [at |-> "decode", path |-> path, terms |-> heard, decoded |-> run.decoded]
    <3>1. PICK a, p, s, d : run = [at |-> a, path |-> p, terms |-> s, decoded |-> d] /\ d = run.decoded
      BY <1>0
    <3>2. run' = [[at |-> a, path |-> p, terms |-> s, decoded |-> d] EXCEPT
                    !.at = "decode", !.path = path, !.terms = heard]
      BY <2>2, <3>1
    <3>3. QED
      BY <3>1, <3>2
  <2>5. /\ run' = [at |-> run'.at, path |-> run'.path, terms |-> run'.terms, decoded |-> run'.decoded]
        /\ run'.terms = heard
    BY <2>4
  <2>6. GlossaryInv'
    BY <1>0, <2>2, <2>3, <2>5, TermsStand
  <2>7. QED
    BY <2>3, <2>5, <2>6 DEF ResolvedStep
<1>7. CASE Decodes
  <2>1. UNCHANGED <<term, heldBefore, rewritten, file, runFile, editor>>
    BY <1>7 DEF Decodes
  <2>2. PICK d : run' = [run EXCEPT !.at = "none", !.decoded = d]
    BY <1>7 DEF Decodes
  <2>3. run' = [at |-> "none", path |-> run.path, terms |-> run.terms, decoded |-> d]
    <3>1. PICK a, p, s, x : run = [at |-> a, path |-> p, terms |-> s, decoded |-> x] /\ p = run.path /\ s = run.terms
      BY <1>0
    <3>2. run' = [[at |-> a, path |-> p, terms |-> s, decoded |-> x] EXCEPT !.at = "none", !.decoded = d]
      BY <2>2, <3>1
    <3>3. QED
      BY <3>1, <3>2
  <2>4. /\ run' = [at |-> run'.at, path |-> run'.path, terms |-> run'.terms, decoded |-> run'.decoded]
        /\ run'.terms = run.terms /\ run'.at = "none"
    BY <2>3
  <2>5. GlossaryInv'
    BY <1>0, <2>1, <2>4, TermsStand
  <2>6. QED
    BY <2>4, <2>5 DEF ResolvedStep
<1>8. CASE UNCHANGED glossaryVars
  <2>1. UNCHANGED <<term, heldBefore, rewritten, file, runFile, editor, run>>
    BY <1>8 DEF glossaryVars
  <2>2. GlossaryInv'
    BY <1>0, <2>1, TermsStand
  <2>3. QED
    BY <2>1, <2>2 DEF ResolvedStep
<1>9. QED
  BY <1>2, <1>3, <1>4, <1>5, <1>6, <1>7, <1>8 DEF GlossaryNext

-----------------------------------------------------------------------------
(* Runs and their options (RunRequest).                                      *)

\* The fields of a run's options, and of its row.
OptionFields == {"backend", "model", "knobs", "profile", "diarize", "scope"}

OptionsOK(o) == DOMAIN o = OptionFields /\ DOMAIN o.knobs = Knobs

RowFields == {"by", "ask", "env", "models", "resumes", "options", "status", "ran", "written"}

\* What is so of row r among rows s.
RowOK(s, r) ==
    /\ r = [f \in RowFields |-> r[f]]
    /\ OptionsOK(r.options)
    /\ \A k \in Knobs : InPrecedence(r, k)
    /\ KeepsWhatWasNamed(r)
    /\ r.ran # Unset => r.ran = r.options
    /\ r.resumes # 0 => /\ r.resumes \in DOMAIN s /\ ~r.options.scope
                        /\ r.options = [s[r.resumes].options EXCEPT !.scope = FALSE]

SeqLike(s) == s \in Seq({s[i] : i \in DOMAIN s})

RowsInOrder(s) == SeqLike(s) /\ \A i \in DOMAIN s : RowOK(s, s[i])

NoPreset(e) == \A k \in Knobs : e[k] \notin Profiles

\* What a step leaves of the environment, the checkpoints and the back ends.
NodeOK ==
    /\ environ = [s \in {"node", "client"} |-> environ[s]]
    /\ NoPreset(environ["node"]) /\ NoPreset(environ["client"])
    /\ present \in Installs /\ \A m \in models : m[2] \in {"as is", "quantized"}

\* ... and of the rows and the manager's copies.
RunsOK ==
    /\ RowsInOrder(runRows)
    /\ DOMAIN pending \subseteq DOMAIN runRows
    /\ \A i \in DOMAIN pending : pending[i] = runRows[i].options
    /\ submitting = 0 \/ submitting \in DOMAIN runRows

RequestInv == NodeOK /\ RunsOK

AppendedTo(s, r, t) ==
    /\ SeqLike(t) /\ Len(t) = Len(s) + 1 /\ DOMAIN t = 1 .. (Len(s) + 1)
    /\ t[Len(s) + 1] = r /\ \A i \in DOMAIN s : i \in DOMAIN t /\ t[i] = s[i]

\* A row whose provenance and options stay.
RowMoves(r, q) ==
    /\ q = [f \in RowFields |-> q[f]]
    /\ q.by = r.by /\ q.ask = r.ask /\ q.env = r.env /\ q.models = r.models
    /\ q.resumes = r.resumes /\ q.options = r.options
    /\ q.ran = r.ran \/ q.ran = r.options

\* What a request becomes: what was named stands, the rest is filled.
FilledRight(o, auto, p, env, r) ==
    /\ OptionsOK(r)
    /\ o.backend # "auto" => r.backend = o.backend
    /\ o.model # Unset => r.model = o.model
    /\ auto /\ o.model = Unset => r.model = ChosenModel
    /\ p # Unset => r.profile = p
    /\ \A k \in Knobs : LET v == r.knobs[k] IN
         /\ o.knobs[k] # Unset => v = o.knobs[k]
         /\ o.knobs[k] = Unset /\ env[k] \notin {Unset, Junk} => v = env[k]
         /\ v \in {o.knobs[k], env[k], r.profile, KnobDefault(k)}

\* What a surface builds of what was asked, before anything is filled.
BuiltRight(s, q, o) ==
    /\ OptionsOK(o) /\ o.backend = q.backend /\ o.model = q.model
    /\ s \in {"run", "stage"} => \A k \in Knobs : o.knobs[k] = Parsed(q, k)
    /\ s \in {"api", "console"} => \A k \in Knobs : o.knobs[k] = q.knobs[k]
    /\ s = "mcp" => \A k \in Knobs : o.knobs[k] = KnobDefault(k)

\* A set of numbers that is not empty has a least one.
LEMMA MinIsLeast ==
  ASSUME NEW S \in SUBSET Nat, S # {}
  PROVE  Min(S) \in S /\ \A j \in S : Min(S) <= j
<1> DEFINE R == OpToRel(<, Nat)
<1>1. PICK m \in S : \A y \in S : ~ (<<y, m>> \in R)
  <2> HIDE DEF R
  <2>1. QED
    BY NatLessThanWellFounded, WFMin DEF R
<1>2. \A y \in S : ~ (y < m)
  BY <1>1 DEF OpToRel
<1>3. \A y \in S : m <= y
  <2>1. SUFFICES ASSUME NEW y \in S PROVE m <= y
    OBVIOUS
  <2>2. m \in Nat /\ y \in Nat /\ ~ (y < m)
    BY <1>2
  <2>3. QED
    BY <2>2
<1>4. QED
  BY <1>3 DEF Min

\* The domain of a sequence, whatever set its entries are of.
LEMMA SeqLikeIs ==
  ASSUME NEW s, SeqLike(s)
  PROVE  Len(s) \in Nat /\ DOMAIN s = 1 .. Len(s)
BY DEF SeqLike

\* Appending a row adds one at the end.
LEMMA RowAppended ==
  ASSUME NEW s, SeqLike(s), NEW r
  PROVE  AppendedTo(s, r, Append(s, r))
<1>0. PICK t : t = Append(s, r)
  OBVIOUS
<1>1. PICK S : S = {s[i] : i \in DOMAIN s} \cup {r}
  OBVIOUS
<1>2. s \in Seq(S) /\ r \in S
  <2>1. \A i \in 1 .. Len(s) : s[i] \in S
    BY <1>1 DEF SeqLike
  <2>2. QED
    BY <1>1, <2>1 DEF SeqLike
<1>3. t \in Seq(S) /\ Len(t) = Len(s) + 1
  BY <1>0, <1>2
<1>4. t[Len(s) + 1] = r /\ \A i \in 1 .. Len(s) : t[i] = s[i]
  BY <1>0, <1>2
<1>5. DOMAIN t = 1 .. (Len(s) + 1) /\ DOMAIN s = 1 .. Len(s) /\ Len(s) \in Nat
  BY <1>2, <1>3
<1>6. SeqLike(t)
  <2>1. PICK T : T = {t[i] : i \in DOMAIN t}
    OBVIOUS
  <2>2. \A i \in 1 .. Len(t) : t[i] \in T
    BY <1>3, <2>1
  <2>3. t \in Seq(T)
    BY <1>3, <2>2
  <2>4. QED
    BY <2>1, <2>3 DEF SeqLike
<1>7. AppendedTo(s, r, t)
  BY <1>4, <1>5, <1>6, <1>3 DEF AppendedTo
<1>8. QED
  BY <1>0, <1>7

\* A sequence of rows whose entries change one by one is one.
LEMMA RowsMapped ==
  ASSUME NEW s, SeqLike(s), NEW t, t = [i \in DOMAIN s |-> t[i]]
  PROVE  SeqLike(t) /\ DOMAIN t = DOMAIN s
<1>1. PICK n : n = Len(s) /\ n \in Nat /\ DOMAIN s = 1 .. n
  BY SeqLikeIs
<1>2. PICK T : T = {t[i] : i \in 1 .. n}
  OBVIOUS
<1>3. t \in [1 .. n -> T]
  BY <1>1, <1>2
<1>4. t \in Seq(T)
  BY <1>1, <1>3
<1>5. DOMAIN t = 1 .. n
  BY <1>1
<1>6. QED
  BY <1>1, <1>2, <1>4, <1>5 DEF SeqLike

\* A row that moves on asks for what it asked for.
LEMMA MovedRow ==
  ASSUME NEW s, NEW r, RowOK(s, r), NEW q, RowMoves(r, q)
  PROVE  RowOK(s, q)
<1>1. \A k \in Knobs : InPrecedence(q, k)
  <2>1. SUFFICES ASSUME NEW k \in Knobs PROVE InPrecedence(q, k)
    OBVIOUS
  <2>2. q.by = r.by /\ q.ask = r.ask /\ q.env = r.env /\ q.options = r.options /\ InPrecedence(r, k)
    BY DEF RowOK, RowMoves
  <2>3. Typed(q, k) = Typed(r, k)
    BY ONLY <2>2 DEF Typed
  <2>4. QED
    BY ONLY <2>2, <2>3 DEF InPrecedence
<1>2. KeepsWhatWasNamed(q)
  BY DEF RowOK, RowMoves, KeepsWhatWasNamed
<1>3. QED
  BY <1>1, <1>2 DEF RowOK, RowMoves

\* Moving rows on keeps them in order.
LEMMA RowsMove ==
  ASSUME NEW s, RowsInOrder(s), NEW t, t = [i \in DOMAIN s |-> t[i]],
         \A i \in DOMAIN s : RowMoves(s[i], t[i])
  PROVE  RowsInOrder(t) /\ DOMAIN t = DOMAIN s /\ \A i \in DOMAIN s : t[i].options = s[i].options
<1>1. SeqLike(t) /\ DOMAIN t = DOMAIN s
  BY RowsMapped DEF RowsInOrder
<1>2. ASSUME NEW i \in DOMAIN s PROVE RowOK(t, t[i])
  <2>1. PICK r, q : r = s[i] /\ q = t[i]
    OBVIOUS
  <2>2. RowOK(s, q)
    BY <2>1, MovedRow DEF RowsInOrder
  <2>3. q.resumes # 0 => /\ q.resumes \in DOMAIN t /\ ~q.options.scope
                         /\ q.options = [t[q.resumes].options EXCEPT !.scope = FALSE]
    <3>1. SUFFICES ASSUME q.resumes # 0
                   PROVE  /\ q.resumes \in DOMAIN t /\ ~q.options.scope
                          /\ q.options = [t[q.resumes].options EXCEPT !.scope = FALSE]
      OBVIOUS
    <3>2. /\ q.resumes \in DOMAIN s /\ ~q.options.scope
          /\ q.options = [s[q.resumes].options EXCEPT !.scope = FALSE]
      BY <2>2, <3>1 DEF RowOK
    <3>3. t[q.resumes].options = s[q.resumes].options
      BY <3>2 DEF RowMoves
    <3>4. QED
      BY <1>1, <3>2, <3>3
  <2>4. RowOK(t, q)
    BY <2>2, <2>3 DEF RowOK
  <2>5. QED
    BY <2>1, <2>4
<1>3. QED
  BY <1>1, <1>2 DEF RowsInOrder, RowMoves

\* So does adding a row that is as it should be.
LEMMA RowAdded ==
  ASSUME NEW s, RowsInOrder(s), NEW r, RowOK(s, r), NEW t, t = Append(s, r)
  PROVE  /\ RowsInOrder(t) /\ DOMAIN s \subseteq DOMAIN t /\ \A i \in DOMAIN s : t[i].options = s[i].options
         /\ Len(s) + 1 \in DOMAIN t
<1>1. /\ SeqLike(t) /\ DOMAIN t = 1 .. (Len(s) + 1) /\ DOMAIN s = 1 .. Len(s) /\ Len(s) \in Nat
      /\ t[Len(s) + 1] = r /\ \A i \in DOMAIN s : i \in DOMAIN t /\ t[i] = s[i]
  <2>1. SeqLike(s)
    BY DEF RowsInOrder
  <2>2. Len(s) \in Nat /\ DOMAIN s = 1 .. Len(s)
    BY <2>1, SeqLikeIs
  <2>3. /\ SeqLike(t) /\ DOMAIN t = 1 .. (Len(s) + 1)
        /\ t[Len(s) + 1] = r /\ \A i \in DOMAIN s : i \in DOMAIN t /\ t[i] = s[i]
    <3>1. AppendedTo(s, r, t)
      BY <2>1, RowAppended
    <3>2. QED
      BY <3>1 DEF AppendedTo
  <2>4. QED
    BY <2>2, <2>3
<1>2. ASSUME NEW q, RowOK(s, q) PROVE RowOK(t, q)
  <2>1. q.resumes # 0 => q.resumes \in DOMAIN t /\ t[q.resumes] = s[q.resumes]
    BY <1>1, <1>2 DEF RowOK
  <2>2. q.resumes # 0 => q.options = [t[q.resumes].options EXCEPT !.scope = FALSE]
    BY <1>2, <2>1 DEF RowOK
  <2>3. QED
    BY <1>2, <2>1, <2>2 DEF RowOK
<1>3. \A i \in DOMAIN t : i \in DOMAIN s \/ i = Len(s) + 1
  BY <1>1
<1>4. \A i \in DOMAIN t : RowOK(t, t[i])
  BY <1>1, <1>2, <1>3 DEF RowsInOrder
<1>5. QED
  BY <1>1, <1>4 DEF RowsInOrder

\* A profile fills the knobs that nobody named, the rest stay.
LEMMA ResolveIs ==
  ASSUME NEW o, OptionsOK(o), NEW p, NEW env
  PROVE  /\ OptionsOK(Resolve(o, p, env))
         /\ Resolve(o, p, env).backend = o.backend /\ Resolve(o, p, env).model = o.model
         /\ Resolve(o, p, env).profile = IF p = Unset THEN o.profile ELSE p
         /\ \A k \in Knobs : LET v == Resolve(o, p, env).knobs[k] IN
              /\ o.knobs[k] # Unset => v = o.knobs[k]
              /\ o.knobs[k] = Unset /\ env[k] \notin {Unset, Junk} => v = env[k]
              /\ v \in {o.knobs[k], env[k], Resolve(o, p, env).profile, KnobDefault(k)}
<1> DEFINE chosen == IF p = Unset THEN o.profile ELSE p
           layer(k) == IF o.knobs[k] # Unset THEN o.knobs[k]
                       ELSE IF env[k] \notin {Unset, Junk} THEN env[k]
                       ELSE IF k \in ProfileSets(chosen) THEN chosen
                       ELSE KnobDefault(k)
           filled == [k \in Knobs |-> layer(k)]
           r == [o EXCEPT !.profile = chosen, !.knobs = filled]
<1>1. Resolve(o, p, env) = r
  BY DEF Resolve
<1>2. \A k \in Knobs : /\ o.knobs[k] # Unset => layer(k) = o.knobs[k]
                       /\ o.knobs[k] = Unset /\ env[k] \notin {Unset, Junk} => layer(k) = env[k]
                       /\ layer(k) \in {o.knobs[k], env[k], chosen, KnobDefault(k)}
  OBVIOUS
<1>3. DOMAIN filled = Knobs /\ \A k \in Knobs : filled[k] = layer(k)
  OBVIOUS
<1> HIDE DEF chosen, layer, filled
<1>4. DOMAIN o = OptionFields
  BY DEF OptionsOK
<1>5. r.profile = chosen /\ r.knobs = filled /\ r.backend = o.backend /\ r.model = o.model /\ DOMAIN r = DOMAIN o
  BY <1>4 DEF OptionFields
<1> HIDE DEF r
<1>6. OptionsOK(r)
  BY <1>3, <1>4, <1>5 DEF OptionsOK
<1>7. \A k \in Knobs : /\ o.knobs[k] # Unset => r.knobs[k] = o.knobs[k]
                       /\ o.knobs[k] = Unset /\ env[k] \notin {Unset, Junk} => r.knobs[k] = env[k]
                       /\ r.knobs[k] \in {o.knobs[k], env[k], r.profile, KnobDefault(k)}
  BY <1>2, <1>3, <1>5
<1>8. r.profile = IF p = Unset THEN o.profile ELSE p
  BY <1>5 DEF chosen
<1>9. QED
  BY <1>1, <1>5, <1>6, <1>7, <1>8

\* A request with its profile filled in takes each knob from who named it
\* first.
LEMMA FilledIs ==
  ASSUME NEW o, OptionsOK(o), NEW auto, NEW p, NEW env
  PROVE  FilledRight(o, auto, p, env, Filled(o, auto, p, env))
<1> DEFINE answers == IF o.backend = "auto" THEN ChosenBackend ELSE o.backend
           backed == [o EXCEPT !.backend = IF @ = "auto" THEN ChosenBackend ELSE @]
           chosen == [backed EXCEPT
                      !.model   = IF @ = Unset THEN ChosenModel ELSE @,
                      !.diarize = IF @ = Unset /\ Facts.channels > 2 THEN TRUE ELSE @]
           plain == Resolve(backed, p, env)
           named == IF p = Unset THEN ChosenProfile ELSE p
           full == Resolve(chosen, named, env)
<1>1. Filled(o, auto, p, env) = IF ~auto THEN plain ELSE full
  BY DEF Filled
<1>2. DOMAIN o = OptionFields
  BY DEF OptionsOK
<1>3. /\ backed.backend = answers /\ backed.model = o.model /\ backed.knobs = o.knobs
      /\ DOMAIN backed = DOMAIN o
  BY <1>2 DEF OptionFields
<1> HIDE DEF backed
<1>4. /\ chosen.backend = backed.backend /\ chosen.knobs = backed.knobs /\ DOMAIN chosen = DOMAIN backed
      /\ chosen.model = IF backed.model = Unset THEN ChosenModel ELSE backed.model
  <2>1. "model" \in DOMAIN backed /\ "diarize" \in DOMAIN backed /\ "backend" \in DOMAIN backed /\ "knobs" \in DOMAIN backed
    BY <1>2, <1>3 DEF OptionFields
  <2>2. PICK m, d : /\ m = (IF backed.model = Unset THEN ChosenModel ELSE backed.model)
                    /\ d = (IF backed.diarize = Unset /\ Facts.channels > 2 THEN TRUE ELSE backed.diarize)
    OBVIOUS
  <2>3. PICK one : one = [backed EXCEPT !.model = m]
    OBVIOUS
  <2>4. chosen = [one EXCEPT !.diarize = d]
    <3>1. one.diarize = backed.diarize
      BY <2>1, <2>3
    <3>2. QED
      BY <2>2, <2>3, <3>1
  <2>5. one.backend = backed.backend /\ one.knobs = backed.knobs /\ one.model = m /\ DOMAIN one = DOMAIN backed
    BY <2>1, <2>3
  <2> HIDE DEF chosen
  <2>6. chosen.backend = one.backend /\ chosen.knobs = one.knobs /\ chosen.model = one.model /\ DOMAIN chosen = DOMAIN one
    BY <2>1, <2>4, <2>5
  <2>7. QED
    BY <2>2, <2>5, <2>6
<1> HIDE DEF chosen
<1>5. OptionsOK(backed) /\ OptionsOK(chosen)
  BY <1>2, <1>3, <1>4 DEF OptionsOK
<1>6. /\ OptionsOK(plain) /\ plain.backend = backed.backend /\ plain.model = backed.model
      /\ plain.profile = IF p = Unset THEN backed.profile ELSE p
      /\ \A k \in Knobs : /\ backed.knobs[k] # Unset => plain.knobs[k] = backed.knobs[k]
                          /\ backed.knobs[k] = Unset /\ env[k] \notin {Unset, Junk} => plain.knobs[k] = env[k]
                          /\ plain.knobs[k] \in {backed.knobs[k], env[k], plain.profile, KnobDefault(k)}
  BY <1>5, ResolveIs
<1>7. /\ OptionsOK(full) /\ full.backend = chosen.backend /\ full.model = chosen.model
      /\ full.profile = IF named = Unset THEN chosen.profile ELSE named
      /\ \A k \in Knobs : /\ chosen.knobs[k] # Unset => full.knobs[k] = chosen.knobs[k]
                          /\ chosen.knobs[k] = Unset /\ env[k] \notin {Unset, Junk} => full.knobs[k] = env[k]
                          /\ full.knobs[k] \in {chosen.knobs[k], env[k], full.profile, KnobDefault(k)}
  <2> HIDE DEF named
  <2>1. QED
    BY <1>5, ResolveIs
<1> HIDE DEF plain, full
<1>8. CASE ~auto
  <2>1. PICK r : r = plain
    OBVIOUS
  <2>2. FilledRight(o, auto, p, env, r)
    BY <1>3, <1>6, <1>8, <2>1 DEF FilledRight
  <2>3. QED
    BY <1>1, <1>8, <2>1, <2>2
<1>9. CASE auto
  <2>1. PICK r : r = full
    OBVIOUS
  <2>2. FilledRight(o, auto, p, env, r)
    BY <1>3, <1>4, <1>7, <1>9, <2>1 DEF FilledRight
  <2>3. QED
    BY <1>1, <1>9, <2>1, <2>2
<1>10. QED
  BY <1>8, <1>9

\* The options that are built name what the request named.
LEMMA BuiltIs ==
  ASSUME NEW s \in {"run", "stage", "api", "console", "mcp"}, NEW q \in Asks
  PROVE  BuiltRight(s, q, Built(s, q))
<1>1. ASSUME NEW knobs PROVE LET b == BuiltWith(q, knobs) IN
        /\ DOMAIN b = OptionFields /\ b.backend = q.backend /\ b.model = q.model /\ b.knobs = knobs
  BY DEF BuiltWith, OptionFields
<1>2. ASSUME NEW b, DOMAIN b = OptionFields, NEW x, NEW y
      PROVE  /\ LET c == [b EXCEPT !.diarize = x] IN
                  c.backend = b.backend /\ c.model = b.model /\ c.knobs = b.knobs /\ DOMAIN c = OptionFields
             /\ LET c == [b EXCEPT !.scope = x] IN
                  c.backend = b.backend /\ c.model = b.model /\ c.knobs = b.knobs /\ DOMAIN c = OptionFields
             /\ LET c == [b EXCEPT !.scope = x, !.profile = y] IN
                  c.backend = b.backend /\ c.model = b.model /\ c.knobs = b.knobs /\ DOMAIN c = OptionFields
  BY <1>2 DEF OptionFields
<1>3. DOMAIN q.knobs = Knobs
  BY RequestAssumption
<1> DEFINE parsed == [k \in Knobs |-> Parsed(q, k)]
           plain == [k \in Knobs |-> KnobDefault(k)]
<1>4. /\ DOMAIN parsed = Knobs /\ \A k \in Knobs : parsed[k] = Parsed(q, k)
      /\ DOMAIN plain = Knobs /\ \A k \in Knobs : plain[k] = KnobDefault(k)
  OBVIOUS
<1> HIDE DEF parsed, plain
<1>5. CASE s = "stage"
  <2>1. PICK b : b = BuiltWith(q, parsed)
    OBVIOUS
  <2>2. PICK o : o = [b EXCEPT !.diarize = q.diarize]
    OBVIOUS
  <2>3. DOMAIN b = OptionFields /\ b.backend = q.backend /\ b.model = q.model /\ b.knobs = parsed
    BY <1>1, <2>1
  <2>4. o.backend = b.backend /\ o.model = b.model /\ o.knobs = b.knobs /\ DOMAIN o = OptionFields
    BY <1>2, <2>2, <2>3
  <2>5. BuiltRight(s, q, o)
    BY <1>4, <1>5, <2>3, <2>4 DEF BuiltRight, OptionsOK
  <2>6. Built(s, q) = o
    BY <1>5, <2>1, <2>2 DEF Built, StageBuilds, parsed
  <2>7. QED
    BY <2>5, <2>6
<1>6. CASE s = "run"
  <2>1. PICK o : o = BuiltWith(q, parsed)
    OBVIOUS
  <2>2. DOMAIN o = OptionFields /\ o.backend = q.backend /\ o.model = q.model /\ o.knobs = parsed
    BY <1>1, <2>1
  <2>3. BuiltRight(s, q, o)
    BY <1>4, <1>6, <2>2 DEF BuiltRight, OptionsOK
  <2>4. Built(s, q) = o
    BY <1>6, <2>1 DEF Built, NodeBody, parsed
  <2>5. QED
    BY <2>3, <2>4
<1>7. CASE s = "api"
  <2>1. PICK o : o = BuiltWith(q, q.knobs)
    OBVIOUS
  <2>2. DOMAIN o = OptionFields /\ o.backend = q.backend /\ o.model = q.model /\ o.knobs = q.knobs
    BY <1>1, <2>1
  <2>3. BuiltRight(s, q, o)
    BY <1>3, <1>7, <2>2 DEF BuiltRight, OptionsOK
  <2>4. Built(s, q) = o
    BY <1>7, <2>1 DEF Built, ApiBuilds
  <2>5. QED
    BY <2>3, <2>4
<1>8. CASE s = "console"
  <2>1. PICK b : b = BuiltWith(q, q.knobs)
    OBVIOUS
  <2>2. PICK o : o = [b EXCEPT !.scope = FALSE]
    OBVIOUS
  <2>3. DOMAIN b = OptionFields /\ b.backend = q.backend /\ b.model = q.model /\ b.knobs = q.knobs
    BY <1>1, <2>1
  <2>4. o.backend = b.backend /\ o.model = b.model /\ o.knobs = b.knobs /\ DOMAIN o = OptionFields
    BY <1>2, <2>2, <2>3
  <2>5. BuiltRight(s, q, o)
    BY <1>3, <1>8, <2>3, <2>4 DEF BuiltRight, OptionsOK
  <2>6. Built(s, q) = o
    BY <1>8, <2>1, <2>2 DEF Built, ConsoleBuilds
  <2>7. QED
    BY <2>5, <2>6
<1>9. CASE s = "mcp"
  <2>1. PICK b : b = BuiltWith(q, plain)
    OBVIOUS
  <2>2. PICK o : o = [b EXCEPT !.scope = FALSE, !.profile = "custom"]
    OBVIOUS
  <2>3. DOMAIN b = OptionFields /\ b.backend = q.backend /\ b.model = q.model /\ b.knobs = plain
    BY <1>1, <2>1
  <2>4. o.backend = b.backend /\ o.model = b.model /\ o.knobs = b.knobs /\ DOMAIN o = OptionFields
    BY <1>2, <2>2, <2>3
  <2>5. BuiltRight(s, q, o)
    BY <1>4, <1>9, <2>3, <2>4 DEF BuiltRight, OptionsOK
  <2>6. Built(s, q) = o
    BY <1>9, <2>1, <2>2 DEF Built, AdapterBuilds, plain
  <2>7. QED
    BY <2>5, <2>6
<1>10. QED
  BY <1>5, <1>6, <1>7, <1>8, <1>9

\* A model --auto chose is on disk, and the largest there that is affordable.
LEMMA ChosenModelIsAffordable ==
  ASSUME ChosenModel \in Sizes
  PROVE  Affordable(ChosenModel, Sizes)
<1> DEFINE fit  == {i \in 1 .. Fitting : OnDisk(i)}
           here == {i \in 1 .. Len(Ladder) : OnDisk(i)}
<1>1. /\ Len(Ladder) \in Nat /\ Fitting \in Nat /\ Fitting <= Len(Ladder) /\ 1 <= Len(Ladder)
      /\ DOMAIN Ladder = 1 .. Len(Ladder)
  BY RequestBounds
<1>2. CASE fit # {}
  <2>1. fit \in SUBSET (0 .. Fitting)
    BY <1>1
  <2>2. \E i \in fit : \A j \in fit : j <= i
    BY <1>1, <1>2, <2>1, GreatestOne
  <2>3. PICK m : m = CHOOSE i \in fit : \A j \in fit : j <= i
    OBVIOUS
  <2>4. m \in fit /\ \A j \in fit : j <= m
    <3> HIDE DEF fit
    <3>1. QED
      BY <2>2, <2>3
  <2>5. ChosenModel = Ladder[m]
    BY <1>2, <2>3 DEF ChosenModel
  <2>6. m \in DOMAIN Ladder /\ m <= Fitting
    BY <1>1, <2>4
  <2>7. \A n \in 1 .. Fitting : Ladder[n] \in Sizes => n <= m
    BY <2>4 DEF OnDisk
  <2>8. QED
    BY <2>5, <2>6, <2>7 DEF Affordable
<1>3. CASE fit = {} /\ here # {}
  <2>1. here \in SUBSET Nat
    BY <1>1
  <2>2. \E i \in here : \A j \in here : i <= j
    BY <1>3, <2>1, MinIsLeast
  <2>3. PICK m : m = CHOOSE i \in here : \A j \in here : i <= j
    OBVIOUS
  <2>4. m \in here
    <3> HIDE DEF here
    <3>1. QED
      BY <2>2, <2>3
  <2>5. ChosenModel = Ladder[m]
    BY <1>3, <2>3 DEF ChosenModel
  <2>6. m \in DOMAIN Ladder
    BY <1>1, <2>4
  <2>7. \A n \in 1 .. Fitting : Ladder[n] \notin Sizes
    BY <1>3 DEF OnDisk
  <2>8. QED
    BY <2>5, <2>6, <2>7 DEF Affordable
<1>4. CASE fit = {} /\ here = {}
  <2>1. PICK m : m = IF Fitting = 0 THEN 1 ELSE Fitting
    OBVIOUS
  <2>2. ChosenModel = Ladder[m]
    BY <1>4, <2>1 DEF ChosenModel
  <2>3. m \in 1 .. Len(Ladder)
    BY <1>1, <2>1
  <2>4. ~OnDisk(m)
    BY <1>4, <2>3
  <2>5. QED
    BY <2>2, <2>4 DEF OnDisk
<1>5. QED
  BY <1>2, <1>3, <1>4

\* The row of a run that was asked for is what its request and the layers make.
LEMMA AskedRow ==
  ASSUME RequestInv, NEW s \in {"run", "stage", "api", "console", "mcp"}, NEW q \in Asks,
         Refusal(Built(s, q), q.auto) = "none"
  PROVE  LET r == RowOf(Asked(s, q), Options(s, q)) IN
           RowOK(runRows, r) /\ r.options = Options(s, q) /\ r.ran = Unset
<1>1. PICK o, p, c, e, x :
        /\ o = Built(s, q) /\ p = ProfileOf(s, q) /\ c = (IF s = "stage" THEN "client" ELSE "node")
        /\ e = environ[c] /\ x = Filled(o, q.auto, p, e)
  OBVIOUS
<1>2. x = Options(s, q)
  BY <1>1 DEF Options
<1>3. BuiltRight(s, q, o)
  BY <1>1, BuiltIs
<1>4. OptionsOK(o)
  BY <1>3 DEF BuiltRight
<1>5. FilledRight(o, q.auto, p, e, x)
  BY <1>1, <1>4, FilledIs
<1>6. PICK r : r = RowOf(Asked(s, q), x)
  OBVIOUS
<1>7. /\ r = [f \in RowFields |-> r[f]] /\ r.by = s /\ r.ask = q /\ r.env = environ /\ r.models = models
      /\ r.resumes = 0 /\ r.options = x /\ r.ran = Unset
  BY <1>6 DEF RowOf, Asked, RowFields
<1>8. NoPreset(environ["node"]) /\ NoPreset(environ["client"]) /\ NoPreset(e)
  BY <1>1 DEF RequestInv, NodeOK
<1>9. ASSUME NEW k \in Knobs PROVE InPrecedence(r, k)
  <2>1. PICK v, t, client, node, ok :
          /\ v = x.knobs[k] /\ t = Typed(r, k) /\ ok = o.knobs[k]
          /\ client = environ["client"][k] /\ node = environ["node"][k]
    OBVIOUS
  <2>2. t = IF s = "mcp" THEN Unset ELSE q.knobs[k]
    BY <1>7, <2>1 DEF Typed
  <2>3. /\ s \in {"run", "stage"} => ok = IF q.knobs[k] = Unset THEN client ELSE q.knobs[k]
        /\ s \in {"api", "console"} => ok = q.knobs[k]
        /\ s = "mcp" => ok = KnobDefault(k)
    BY <1>3, <2>1 DEF BuiltRight, Parsed
  <2>4. /\ ok # Unset => v = ok
        /\ ok = Unset /\ e[k] \notin {Unset, Junk} => v = e[k]
        /\ v \in {ok, e[k], x.profile, KnobDefault(k)}
    BY <1>5, <2>1 DEF FilledRight
  <2>5. s # "stage" => e[k] = node
    BY <1>1, <2>1
  <2>6. k # "chunk_seconds" => KnobDefault(k) = Unset
    BY DEF KnobDefault
  <2>7. t # Unset => v = t
    BY <2>2, <2>3, <2>4
  <2>8. t = Unset /\ s \in {"run", "stage"} /\ client # Unset => v = client
    BY <2>2, <2>3, <2>4
  <2>9. ((s \in {"api", "console"} \/ (s = "mcp" /\ k # "chunk_seconds") \/ (s = "run" /\ client = Unset))
           /\ t = Unset /\ node \notin {Unset, Junk}) => v = node
    BY <2>2, <2>3, <2>4, <2>5, <2>6
  <2>10. v \in Profiles => v = x.profile
    <3>1. KnobDefault(k) \notin Profiles /\ q.knobs[k] \notin Profiles
      BY RequestAssumption DEF KnobDefault, Profiles
    <3>2. client \notin Profiles /\ e[k] \notin Profiles
      BY <1>8, <2>1 DEF NoPreset
    <3>3. ok \notin Profiles
      BY <2>3, <3>1, <3>2
    <3>4. QED
      BY <2>4, <3>1, <3>2, <3>3
  <2>11. QED
    BY <1>7, <2>1, <2>7, <2>8, <2>9, <2>10 DEF InPrecedence
<1>10. KeepsWhatWasNamed(r)
  <2>1. q.model # Unset => x.model = q.model
    BY <1>3, <1>5 DEF BuiltRight, FilledRight
  <2>2. q.backend # "auto" => x.backend = q.backend
    BY <1>3, <1>5 DEF BuiltRight, FilledRight
  <2>3. q.profile \notin {Unset, "custom"} => x.profile = q.profile
    <3>1. q.profile \notin {Unset, "custom"} => p = q.profile
      BY <1>1 DEF ProfileOf
    <3>2. QED
      BY <1>5, <3>1 DEF FilledRight
  <2>4. q.auto /\ q.model = Unset => Affordable(x.model, Sizes)
    <3>1. SUFFICES ASSUME q.auto, q.model = Unset PROVE Affordable(x.model, Sizes)
      OBVIOUS
    <3>2. o.model = Unset /\ x.model = ChosenModel
      BY <1>3, <1>5, <3>1 DEF BuiltRight, FilledRight
    <3>3. ChosenModel \in Sizes
      BY <1>1, <3>1, <3>2 DEF Refusal
    <3>4. QED
      BY <3>2, <3>3, ChosenModelIsAffordable
  <2>5. Sizes = {y[1] : y \in r.models}
    BY <1>7 DEF Sizes
  <2>6. QED
    BY <1>7, <2>1, <2>2, <2>3, <2>4, <2>5 DEF KeepsWhatWasNamed
<1>11. OptionsOK(r.options)
  BY <1>5, <1>7 DEF FilledRight
<1>12. RowOK(runRows, r)
  BY <1>7, <1>9, <1>10, <1>11 DEF RowOK
<1>13. QED
  BY <1>2, <1>6, <1>7, <1>12

\* The node is the same while nobody touches it.
LEMMA NodeSame == ASSUME NodeOK, UNCHANGED nodeFacts PROVE NodeOK'
BY DEF NodeOK, nodeFacts, NoPreset

\* No run is asked for to begin with.
LEMMA RequestInitInv == RequestInit => RequestInv
<1> SUFFICES ASSUME RequestInit PROVE RequestInv
  OBVIOUS
<1>1. NodeOK
  <2>1. PICK w \in Worlds : /\ environ = [node |-> w.node, client |-> w.client]
                            /\ models = w.models /\ present = w.present
    BY DEF RequestInit
  <2>2. environ = [s \in {"node", "client"} |-> environ[s]] /\ environ["node"] = w.node /\ environ["client"] = w.client
    BY <2>1
  <2>3. NoPreset(w.node) /\ NoPreset(w.client)
    <3>1. \A k \in Knobs : {w.node[k], w.client[k]} \cap Profiles = {}
      BY RequestAssumption
    <3>2. QED
      BY <3>1 DEF NoPreset
  <2>4. w.present \in Installs /\ \A m \in w.models : m[2] \in {"as is", "quantized"}
    <3>1. w.models \in Fetches \cup {x.models : x \in Worlds}
      OBVIOUS
    <3>2. QED
      BY <3>1, RequestAssumption
  <2>5. QED
    BY <2>1, <2>2, <2>3, <2>4 DEF NodeOK
<1>2. RunsOK
  <2>1. RowsInOrder(<<>>)
    BY DEF RowsInOrder, SeqLike
  <2>2. QED
    BY <2>1 DEF RequestInit, RunsOK
<1>3. QED
  BY <1>1, <1>2 DEF RequestInv

\* What is so of the rows gives their types, and that each is run as it was
\* asked.
LEMMA RequestInvGives == RequestInv => RequestTypeOK /\ RequestsHold
<1> SUFFICES ASSUME RequestInv PROVE RequestTypeOK /\ RequestsHold
  OBVIOUS
<1>1. Len(runRows) \in Nat /\ DOMAIN runRows = 1 .. Len(runRows)
  BY SeqLikeIs DEF RequestInv, RunsOK, RowsInOrder
<1>2. \A i \in DOMAIN runRows : RowOK(runRows, runRows[i])
  BY DEF RequestInv, RunsOK, RowsInOrder
<1>3. submitting \in 0 .. Len(runRows)
  BY <1>1 DEF RequestInv, RunsOK
<1>4. DOMAIN environ = {"node", "client"} /\ DOMAIN pending \subseteq DOMAIN runRows
  BY DEF RequestInv, NodeOK, RunsOK
<1>5. RequestTypeOK
  BY <1>2, <1>3, <1>4 DEF RequestInv, NodeOK, RequestTypeOK, RowOK, OptionsOK
<1>6. RunsAsSubmitted
  BY <1>2 DEF RowOK, RunsAsSubmitted
<1>7. PrecedenceHolds /\ AutoKeepsWhatWasNamed
  BY <1>2 DEF RowOK, PrecedenceHolds, AutoKeepsWhatWasNamed
<1>8. ResumeKeepsThePlan
  BY <1>2 DEF RowOK, ResumeKeepsThePlan
<1>9. QED
  BY <1>5, <1>6, <1>7, <1>8 DEF RequestsHold

\* One row more, of the run whose submission the manager has yet to remember.
LEMMA EnqueueKeeps ==
  ASSUME RunsOK, NEW record, NEW o, Enqueue(record, o), RowOK(runRows, RowOf(record, o)), UNCHANGED pending
  PROVE  RunsOK'
<1>1. PICK r : r = RowOf(record, o)
  OBVIOUS
<1>2. runRows' = Append(runRows, r) /\ submitting' = Len(runRows) + 1
  BY <1>1 DEF Enqueue
<1>3. /\ RowsInOrder(runRows') /\ DOMAIN runRows \subseteq DOMAIN runRows'
      /\ \A i \in DOMAIN runRows : runRows'[i].options = runRows[i].options
      /\ Len(runRows) + 1 \in DOMAIN runRows'
  BY <1>1, <1>2, RowAdded DEF RunsOK
<1>4. QED
  BY <1>2, <1>3 DEF RunsOK

\* Reading a request changes no row.
LEMMA SubmitKeeps ==
  ASSUME RequestInv, NEW s \in {"run", "api", "console", "mcp"}, NEW q \in Asks, Submit(s, q)
  PROVE  RequestInv'
<1>1. NodeOK /\ RunsOK
  BY DEF RequestInv
<1>2. UNCHANGED nodeFacts /\ UNCHANGED pending
  BY DEF Submit
<1>3. CASE UNCHANGED <<runRows, submitting>>
  BY <1>1, <1>2, <1>3, NodeSame DEF RequestInv, RunsOK
<1>4. CASE Refusal(Built(s, q), q.auto) = "none" /\ Enqueue(Asked(s, q), Options(s, q))
  <2>1. RowOK(runRows, RowOf(Asked(s, q), Options(s, q)))
    BY <1>4, AskedRow
  <2>2. RunsOK'
    BY <1>1, <1>2, <1>4, <2>1, EnqueueKeeps
  <2>3. QED
    BY <1>1, <1>2, <2>2, NodeSame DEF RequestInv
<1>5. QED
  BY <1>3, <1>4 DEF Submit

\* A stage that is run by hand is a row with what its environment fills.
LEMMA StageRunKeeps ==
  ASSUME RequestInv, NEW q \in Asks, StageRun(q)
  PROVE  RequestInv'
<1>1. NodeOK /\ RunsOK
  BY DEF RequestInv
<1>2. /\ UNCHANGED nodeFacts /\ UNCHANGED <<pending, submitting>>
      /\ Refusal(Built("stage", q), q.auto) = "none"
  BY DEF StageRun
<1>3. PICK r, x : r = RowOf(Asked("stage", q), Options("stage", q)) /\ x = Options("stage", q)
  OBVIOUS
<1>4. RowOK(runRows, r) /\ r.options = x /\ r.ran = Unset
  BY <1>2, <1>3, AskedRow
<1>5. PICK t : t = [r EXCEPT !.status = "over", !.ran = x]
  OBVIOUS
<1>6. DOMAIN r = RowFields
  BY <1>4 DEF RowOK
<1>7. RowMoves(r, t)
  <2>1. /\ t.by = r.by /\ t.ask = r.ask /\ t.env = r.env /\ t.models = r.models
        /\ t.resumes = r.resumes /\ t.options = r.options /\ t.ran = x
    BY <1>5, <1>6 DEF RowFields
  <2>2. t = [f \in RowFields |-> t[f]]
    BY <1>5, <1>6
  <2>3. QED
    BY <1>4, <2>1, <2>2 DEF RowMoves
<1>8. RowOK(runRows, t)
  <2>1. RowsInOrder(runRows)
    BY <1>1 DEF RunsOK
  <2>2. QED
    BY <1>4, <1>7, MovedRow
<1>9. runRows' = Append(runRows, t)
  BY <1>3, <1>5 DEF StageRun
<1>10. /\ RowsInOrder(runRows') /\ DOMAIN runRows \subseteq DOMAIN runRows'
       /\ \A i \in DOMAIN runRows : runRows'[i].options = runRows[i].options
  BY <1>1, <1>8, <1>9, RowAdded DEF RunsOK
<1>11. RunsOK'
  BY <1>1, <1>2, <1>10 DEF RunsOK
<1>12. QED
  BY <1>1, <1>2, <1>11, NodeSame DEF RequestInv

\* Remembering options for a row that waits leaves the rows.
LEMMA RememberKeeps ==
  ASSUME RequestInv, Remember
  PROVE  RequestInv'
<1>1. NodeOK /\ RunsOK
  BY DEF RequestInv
<1>2. /\ UNCHANGED nodeFacts /\ UNCHANGED runRows /\ submitting' = 0 /\ submitting # 0
      /\ pending' = [i \in DOMAIN pending \cup {submitting} |->
                       IF i = submitting THEN runRows[i].options ELSE pending[i]]
  BY DEF Remember
<1>3. submitting \in DOMAIN runRows
  BY <1>1, <1>2 DEF RunsOK
<1>4. RunsOK'
  BY <1>1, <1>2, <1>3 DEF RunsOK
<1>5. QED
  BY <1>1, <1>2, <1>4, NodeSame DEF RequestInv

\* So does forgetting them.
LEMMA PruneKeeps ==
  ASSUME RequestInv, PrunePending
  PROVE  RequestInv'
<1>1. NodeOK /\ RunsOK
  BY DEF RequestInv
<1>2. UNCHANGED nodeFacts /\ UNCHANGED <<runRows, submitting>> /\ DOMAIN pending' = {}
  BY DEF PrunePending
<1>3. RunsOK'
  BY <1>1, <1>2 DEF RunsOK
<1>4. QED
  BY <1>1, <1>2, <1>3, NodeSame DEF RequestInv

\* One row changes, but for its provenance and options.
LEMMA RowChanges ==
  ASSUME RunsOK, NEW i \in DOMAIN runRows, NEW q, RowMoves(runRows[i], q),
         runRows' = [runRows EXCEPT ![i] = q]
  PROVE  /\ RowsInOrder(runRows') /\ DOMAIN runRows' = DOMAIN runRows
         /\ \A j \in DOMAIN runRows : runRows'[j].options = runRows[j].options
<1>1. RowsInOrder(runRows)
  BY DEF RunsOK
<1>2. runRows' = [j \in DOMAIN runRows |-> runRows'[j]]
  OBVIOUS
<1>3. \A j \in DOMAIN runRows : RowMoves(runRows[j], runRows'[j])
  <2>1. SUFFICES ASSUME NEW j \in DOMAIN runRows PROVE RowMoves(runRows[j], runRows'[j])
    OBVIOUS
  <2>2. CASE j = i
    BY <2>2
  <2>3. CASE j # i
    <3>1. PICK r : r = runRows[j]
      OBVIOUS
    <3>2. RowMoves(r, r)
      BY <1>1, <3>1 DEF RowsInOrder, RowOK, RowMoves
    <3>3. QED
      BY <2>3, <3>1, <3>2
  <2>4. QED
    BY <2>2, <2>3
<1>4. QED
  BY <1>1, <1>2, <1>3, RowsMove

\* A row whose status, or written, or ran changes.
LEMMA RowStatus ==
  ASSUME RunsOK, NEW i \in DOMAIN runRows
  PROVE  /\ \A x : RowMoves(runRows[i], [runRows[i] EXCEPT !.status = x])
         /\ \A x : RowMoves(runRows[i], [runRows[i] EXCEPT !.written = x])
         /\ \A x : RowMoves(runRows[i], [runRows[i] EXCEPT !.status = x, !.ran = runRows[i].options])
<1>1. PICK r : r = runRows[i]
  OBVIOUS
<1>2. r = [f \in RowFields |-> r[f]] /\ DOMAIN r = RowFields
  BY <1>1 DEF RunsOK, RowsInOrder, RowOK
<1>3. ASSUME NEW x PROVE RowMoves(r, [r EXCEPT !.status = x])
  <2>1. PICK q : q = [r EXCEPT !.status = x]
    OBVIOUS
  <2>2. /\ q.by = r.by /\ q.ask = r.ask /\ q.env = r.env /\ q.models = r.models
        /\ q.resumes = r.resumes /\ q.options = r.options /\ q.ran = r.ran
    BY <1>2, <2>1 DEF RowFields
  <2>3. q = [f \in RowFields |-> q[f]]
    BY <1>2, <2>1
  <2>4. QED
    BY <2>1, <2>2, <2>3 DEF RowMoves
<1>4. ASSUME NEW x PROVE RowMoves(r, [r EXCEPT !.written = x])
  <2>1. PICK q : q = [r EXCEPT !.written = x]
    OBVIOUS
  <2>2. /\ q.by = r.by /\ q.ask = r.ask /\ q.env = r.env /\ q.models = r.models
        /\ q.resumes = r.resumes /\ q.options = r.options /\ q.ran = r.ran
    BY <1>2, <2>1 DEF RowFields
  <2>3. q = [f \in RowFields |-> q[f]]
    BY <1>2, <2>1
  <2>4. QED
    BY <2>1, <2>2, <2>3 DEF RowMoves
<1>5. ASSUME NEW x PROVE RowMoves(r, [r EXCEPT !.status = x, !.ran = r.options])
  <2>1. PICK q, o : o = r.options /\ q = [r EXCEPT !.status = x, !.ran = o]
    OBVIOUS
  <2>2. /\ q.by = r.by /\ q.ask = r.ask /\ q.env = r.env /\ q.models = r.models
        /\ q.resumes = r.resumes /\ q.options = r.options /\ q.ran = o
    BY <1>2, <2>1 DEF RowFields
  <2>3. q = [f \in RowFields |-> q[f]]
    BY <1>2, <2>1
  <2>4. QED
    BY <2>1, <2>2, <2>3 DEF RowMoves
<1>6. QED
  BY <1>1, <1>3, <1>4, <1>5

\* The claim runs the copy or the row, which are one.
LEMMA ClaimsRunKeeps ==
  ASSUME RequestInv, NEW i \in DOMAIN runRows, ClaimsRun(i)
  PROVE  RequestInv'
<1>1. NodeOK /\ RunsOK
  BY DEF RequestInv
<1>2. /\ UNCHANGED <<environ, present, submitting>>
      /\ runRows' = [runRows EXCEPT ![i].status = "running",
                            ![i].ran = IF i \in DOMAIN pending THEN pending[i] ELSE FromRow(i)]
      /\ pending' = [j \in DOMAIN pending \ {i} |-> pending[j]]
      /\ models' = Fetched(runRows'[i].ran)
  BY DEF ClaimsRun
<1>3. PICK o, q : o = runRows[i].options /\ q = [runRows[i] EXCEPT !.status = "running", !.ran = o]
  OBVIOUS
<1>4. o = IF i \in DOMAIN pending THEN pending[i] ELSE FromRow(i)
  BY <1>1, <1>3 DEF RunsOK, FromRow
<1>5. runRows' = [runRows EXCEPT ![i].status = "running", ![i].ran = o]
  BY <1>2, <1>4
<1>6. runRows' = [runRows EXCEPT ![i] = q]
  <2>1. DOMAIN runRows[i] = RowFields
    BY <1>1 DEF RunsOK, RowsInOrder, RowOK
  <2>2. QED
    BY <1>3, <1>5, <2>1 DEF RowFields
<1>7. RowMoves(runRows[i], q)
  BY <1>1, <1>3, RowStatus
<1>8. /\ RowsInOrder(runRows') /\ DOMAIN runRows' = DOMAIN runRows
      /\ \A j \in DOMAIN runRows : runRows'[j].options = runRows[j].options
  BY <1>1, <1>6, <1>7, RowChanges
<1>9. RunsOK'
  BY <1>1, <1>2, <1>8 DEF RunsOK
<1>10. \A m \in models' : m[2] \in {"as is", "quantized"}
  <2>1. PICK x : x = runRows'[i].ran.model
    OBVIOUS
  <2>2. models' = models \/ models' = models \union {<<x, "as is">>}
    BY <1>2, <2>1 DEF Fetched
  <2>3. <<x, "as is">>[2] = "as is"
    OBVIOUS
  <2>4. QED
    BY <1>1, <2>2, <2>3 DEF NodeOK
<1>11. NodeOK'
  BY <1>1, <1>2, <1>10 DEF NodeOK, NoPreset
<1>12. QED
  BY <1>9, <1>11 DEF RequestInv

\* A row that ends, or writes what it ran with, keeps its options.
LEMMA RowEndsKeeps ==
  ASSUME RequestInv, NEW i \in DOMAIN runRows, NEW x,
         \/ runRows' = [runRows EXCEPT ![i].status = x]
         \/ runRows' = [runRows EXCEPT ![i].written = x],
         UNCHANGED <<environ, models, present, pending, submitting>>
  PROVE  RequestInv'
<1>1. NodeOK /\ RunsOK
  BY DEF RequestInv
<1>2. PICK q : /\ runRows' = [runRows EXCEPT ![i] = q]
               /\ RowMoves(runRows[i], q)
  <2>1. CASE runRows' = [runRows EXCEPT ![i].status = x]
    BY <1>1, <2>1, RowStatus
  <2>2. CASE runRows' = [runRows EXCEPT ![i].written = x]
    BY <1>1, <2>2, RowStatus
  <2>3. QED
    BY <2>1, <2>2
<1>3. /\ RowsInOrder(runRows') /\ DOMAIN runRows' = DOMAIN runRows
      /\ \A j \in DOMAIN runRows : runRows'[j].options = runRows[j].options
  BY <1>1, <1>2, RowChanges
<1>4. RunsOK'
  BY <1>1, <1>3 DEF RunsOK
<1>5. NodeOK'
  BY <1>1 DEF NodeOK, NoPreset
<1>6. QED
  BY <1>4, <1>5 DEF RequestInv

\* A resumed run's row is its predecessor's but for the scope.
LEMMA ResumeKeeps ==
  ASSUME RequestInv, NEW i \in DOMAIN runRows, Resume(i)
  PROVE  RequestInv'
<1>1. NodeOK /\ RunsOK
  BY DEF RequestInv
<1>2. /\ UNCHANGED nodeFacts /\ UNCHANGED pending
      /\ Enqueue([Provenance(i) EXCEPT !.resumes = i], [FromRow(i) EXCEPT !.scope = FALSE])
  BY DEF Resume
<1>3. PICK p, record, was, o :
        /\ p = runRows[i] /\ record = [Provenance(i) EXCEPT !.resumes = i]
        /\ was = p.options /\ o = [was EXCEPT !.scope = FALSE]
  OBVIOUS
<1>4. RowOK(runRows, p) /\ i \in Nat /\ i # 0
  <2>1. DOMAIN runRows = 1 .. Len(runRows) /\ Len(runRows) \in Nat
    BY <1>1, SeqLikeIs DEF RunsOK, RowsInOrder
  <2>2. QED
    BY <1>1, <1>3, <2>1 DEF RunsOK, RowsInOrder
<1>5. record.by = p.by /\ record.ask = p.ask /\ record.env = p.env /\ record.models = p.models /\ record.resumes = i
  <2>1. PICK pr : pr = Provenance(i)
    OBVIOUS
  <2>2. /\ DOMAIN pr = {"by", "ask", "env", "models", "resumes"}
        /\ pr.by = p.by /\ pr.ask = p.ask /\ pr.env = p.env /\ pr.models = p.models
    BY <1>3, <2>1 DEF Provenance
  <2>3. record = [pr EXCEPT !.resumes = i]
    BY <1>3, <2>1
  <2>4. QED
    BY <2>2, <2>3
<1>6. DOMAIN was = OptionFields /\ DOMAIN was.knobs = Knobs
  BY <1>3, <1>4 DEF RowOK, OptionsOK
<1>7. /\ o.backend = was.backend /\ o.model = was.model /\ o.profile = was.profile /\ o.knobs = was.knobs
      /\ o.scope = FALSE /\ DOMAIN o = OptionFields
  BY <1>3, <1>6 DEF OptionFields
<1>8. PICK r : r = RowOf(record, o)
  OBVIOUS
<1>9. /\ r = [f \in RowFields |-> r[f]] /\ r.by = p.by /\ r.ask = p.ask /\ r.env = p.env /\ r.models = p.models
      /\ r.resumes = i /\ r.options = o /\ r.ran = Unset
  BY <1>5, <1>8 DEF RowOf, RowFields
<1>10. \A k \in Knobs : InPrecedence(r, k)
  <2>1. SUFFICES ASSUME NEW k \in Knobs PROVE InPrecedence(r, k)
    OBVIOUS
  <2>2. InPrecedence(p, k)
    BY <1>4 DEF RowOK
  <2>3. Typed(r, k) = Typed(p, k)
    BY ONLY <1>9 DEF Typed
  <2>4. r.options.knobs = p.options.knobs /\ r.options.profile = p.options.profile
    BY <1>3, <1>7, <1>9
  <2>5. QED
    BY ONLY <1>9, <2>2, <2>3, <2>4 DEF InPrecedence
<1>11. KeepsWhatWasNamed(r)
  <2>1. KeepsWhatWasNamed(p)
    BY <1>4 DEF RowOK
  <2>2. /\ r.options.model = p.options.model /\ r.options.backend = p.options.backend
        /\ r.options.profile = p.options.profile
    BY <1>3, <1>7, <1>9
  <2>3. QED
    BY ONLY <1>9, <2>1, <2>2 DEF KeepsWhatWasNamed
<1>12. r.resumes \in DOMAIN runRows /\ ~r.options.scope /\ r.options = [runRows[r.resumes].options EXCEPT !.scope = FALSE]
  BY <1>3, <1>7, <1>9
<1>13. OptionsOK(r.options)
  BY <1>6, <1>7, <1>9 DEF OptionsOK
<1>14. RowOK(runRows, r)
  BY <1>9, <1>10, <1>11, <1>12, <1>13 DEF RowOK
<1>15. Enqueue(record, o)
  BY <1>2, <1>3 DEF FromRow
<1>16. RunsOK'
  BY <1>1, <1>2, <1>8, <1>14, <1>15, EnqueueKeeps
<1>17. QED
  BY <1>1, <1>2, <1>16, NodeSame DEF RequestInv

\* A node that starts again remembers nothing, and the rows say it all.
LEMMA StartsAgainKeeps ==
  ASSUME RequestInv, StartsAgain
  PROVE  RequestInv'
<1>1. NodeOK /\ RunsOK
  BY DEF RequestInv
<1>2. PICK e \in Environs : environ' = [environ EXCEPT !["node"] = e]
  BY DEF StartsAgain
<1>3. /\ UNCHANGED <<models, present>> /\ DOMAIN pending' = {} /\ submitting' = 0
      /\ runRows' = [i \in DOMAIN runRows |->
                   IF runRows[i].status = "running" THEN [runRows[i] EXCEPT !.status = "interrupted"] ELSE runRows[i]]
  BY DEF StartsAgain
<1>4. NoPreset(e)
  BY RequestAssumption DEF NoPreset
<1>5. /\ environ' = [s \in {"node", "client"} |-> environ'[s]]
      /\ environ'["node"] = e /\ environ'["client"] = environ["client"]
  BY <1>1, <1>2 DEF NodeOK
<1>6. NodeOK'
  <2>1. NoPreset(environ'["node"]) /\ NoPreset(environ'["client"])
    BY <1>1, <1>4, <1>5 DEF NodeOK
  <2>2. present' \in Installs /\ \A m \in models' : m[2] \in {"as is", "quantized"}
    BY <1>1, <1>3 DEF NodeOK
  <2>3. QED
    BY <1>5, <2>1, <2>2 DEF NodeOK, NoPreset
<1>7. \A i \in DOMAIN runRows : RowMoves(runRows[i], runRows'[i])
  <2>1. SUFFICES ASSUME NEW i \in DOMAIN runRows PROVE RowMoves(runRows[i], runRows'[i])
    OBVIOUS
  <2>2. RowMoves(runRows[i], [runRows[i] EXCEPT !.status = "interrupted"])
    BY <1>1, RowStatus
  <2>3. PICK r : r = runRows[i]
    OBVIOUS
  <2>4. RowMoves(r, r)
    BY <1>1, <2>3 DEF RunsOK, RowsInOrder, RowOK, RowMoves
  <2>5. CASE runRows[i].status = "running"
    BY <1>3, <2>2, <2>5
  <2>6. CASE runRows[i].status # "running"
    BY <1>3, <2>3, <2>4, <2>6
  <2>7. QED
    BY <2>5, <2>6
<1>8. runRows' = [i \in DOMAIN runRows |-> runRows'[i]]
  BY <1>3
<1>9. RowsInOrder(runRows') /\ DOMAIN runRows' = DOMAIN runRows
  BY <1>1, <1>7, <1>8, RowsMove DEF RunsOK
<1>10. RunsOK'
  BY <1>3, <1>9 DEF RunsOK
<1>11. QED
  BY <1>6, <1>10 DEF RequestInv

\* What is installed, fetched or named in an environment changes no row.
LEMMA ChangesKeeps ==
  ASSUME RequestInv, Changes
  PROVE  RequestInv'
<1>1. NodeOK /\ RunsOK
  BY DEF RequestInv
<1>2. UNCHANGED <<environ, runRows, pending, submitting>>
  BY DEF Changes
<1>3. RunsOK'
  BY <1>1, <1>2 DEF RunsOK
<1>4. present' \in Installs /\ \A m \in models' : m[2] \in {"as is", "quantized"}
  BY <1>1, RequestAssumption DEF Changes, NodeOK
<1>5. NodeOK'
  BY <1>1, <1>2, <1>4 DEF NodeOK, NoPreset
<1>6. QED
  BY <1>3, <1>5 DEF RequestInv

\* Every step of the surfaces, the drain and the node keeps what is so of the
\* rows.
LEMMA RequestStays ==
  ASSUME RequestInv, [RequestNext]_requestVars
  PROVE  RequestInv'
<1>1. CASE \E s \in {"run", "api", "console", "mcp"}, q \in Asks : Submit(s, q)
  BY <1>1, SubmitKeeps
<1>2. CASE \E q \in Asks : StageRun(q)
  BY <1>2, StageRunKeeps
<1>3. CASE Remember \/ PrunePending \/ StartsAgain \/ Changes
  BY <1>3, RememberKeeps, PruneKeeps, StartsAgainKeeps, ChangesKeeps
<1>4. ASSUME NEW i \in DOMAIN runRows,
             \/ ClaimsRun(i) \/ Quarantines(i) \/ Resume(i)
             \/ \E how \in {"over", "stopped"} : RunEnds(i, how)
             \/ \E b \in {"an earlier release", "a newer build"} : OtherBuild(i, b)
      PROVE  RequestInv'
  <2>1. CASE ClaimsRun(i)
    BY <2>1, ClaimsRunKeeps
  <2>2. CASE Resume(i)
    BY <2>2, ResumeKeeps
  <2>3. CASE Quarantines(i)
    BY <2>3, RowEndsKeeps DEF Quarantines, nodeFacts
  <2>4. CASE \E how \in {"over", "stopped"} : RunEnds(i, how)
    BY <2>4, RowEndsKeeps DEF RunEnds, nodeFacts
  <2>5. CASE \E b \in {"an earlier release", "a newer build"} : OtherBuild(i, b)
    BY <2>5, RowEndsKeeps DEF OtherBuild, nodeFacts
  <2>6. QED
    BY <1>4, <2>1, <2>2, <2>3, <2>4, <2>5
<1>5. CASE UNCHANGED requestVars
  <2>1. UNCHANGED <<environ, models, present, runRows, pending, submitting>>
    BY <1>5 DEF requestVars
  <2>2. QED
    BY <2>1 DEF RequestInv, NodeOK, RunsOK, NoPreset
<1>6. QED
  BY <1>1, <1>2, <1>3, <1>4, <1>5 DEF RequestNext
=============================================================================
