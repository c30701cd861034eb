--------------------------- MODULE RegistryOpening ---------------------------
(* Several processes open one registry file (service/store.py,                *)
(* service/migrations): each decides the file's journal mode, takes SQLite's  *)
(* write lock before its first read, places the registry in the chain of      *)
(* revisions its build carries, runs the ones missing and commits once.       *)
(* Older and newer builds share the file, a process may die or be refused at  *)
(* any step, and the processes already open go on submitting and claiming     *)
(* runs.  A transaction works on a `draft`; the registry itself changes when  *)
(* it commits.                                                                *)
EXTENDS Integers, FiniteSets, FiniteSetsExt

CONSTANTS
    Opener,         \* the processes
    HeadOf,         \* HeadOf[o]: the newest revision o's build carries
    Registries,     \* the registries a behaviour may begin from
    MeetingRow,     \* the meetings runs are of
    MaxRunRows,     \* bound: the runs ever inserted
    MaxOpens,       \* bound: the opens begun
    Nobody,         \* no process
    NoDraft         \* no transaction

Baseline == 6                       \* the released baseline, and its revision
LadderVersion == 8                  \* the ladder's last number
NoLadder == -1                      \* no ladder table
OneActiveRevision == 9

Active(run) == run.status \in {"queued", "running"}
Owned(run) == run.status = "running" /\ run.owned

\* What the registry's one rule over runs holds for, where an index states it.
OneActiveHolds(runs) ==
    \A r, s \in runs : Active(r) /\ Active(s) /\ r.meeting = s.meeting => r = s

\* The run rows as any build writes them: one row each under an id of its own,
\* at most one of a meeting's executing for an owner.
RowsAsWritten(runs) ==
    /\ IsFiniteSet(runs) /\ Cardinality(runs) <= MaxRunRows
    /\ runs \subseteq [id : Nat, meeting : MeetingRow, owned : BOOLEAN,
                       status : {"queued", "running", "done", "interrupted"}]
    /\ \A r \in runs : 1 <= r.id /\ r.id <= Cardinality(runs)
    /\ \A r, s \in runs : r.id = s.id \/ (Owned(r) /\ Owned(s) /\ r.meeting = s.meeting) => r = s

\* A registry as some era left it: a version row, or a released ladder row,
\* says no more than the schema that is there, and from 0009 on the index
\* stands over runs it holds for.
AsAnEraLeftIt(r) ==
    /\ r \in [mode : {"delete", "wal"}, rows : SUBSET Nat, ladder : Int, schema : Nat,
              index : {"none", "own", "wider", "other"}, runs : {r.runs}]
    /\ RowsAsWritten(r.runs)
    /\ \A n \in r.rows : r.schema >= n
    /\ r.rows = {} /\ r.ladder = Baseline => r.schema >= Baseline
    /\ (\E n \in r.rows : n >= OneActiveRevision) =>
         r.index \in {"own", "wider"} /\ OneActiveHolds(r.runs)

ASSUME OpeningAssumption ==
    /\ HeadOf \in [Opener -> Nat]
    /\ \A o \in Opener : HeadOf[o] >= Baseline
    /\ MaxRunRows \in Nat /\ MaxOpens \in Nat
    /\ Nobody \notin Opener /\ \A r \in Registries : AsAnEraLeftIt(r)

VARIABLES
    registry,       \* what is committed
    writer,         \* who holds the write lock
    opener,         \* each process: where it is, and its draft
    opens

openingVars == <<registry, writer, opener, opens>>

Carried(o) == Baseline .. HeadOf[o]

States(o) == {"closed", "lock", "read", "upgrade", "open", "refused"}

OpeningInit ==
    /\ registry \in Registries
    /\ writer = Nobody
    /\ opener = [o \in Opener |-> [at |-> "closed", draft |-> NoDraft]]
    /\ opens = 0

Moves(o, change) == opener' = [opener EXCEPT ![o] = change]

-----------------------------------------------------------------------------
(* Opening. *)

\* The journal mode, once per open: the file's log, or a conversion that
\* succeeds, or one that is refused -- at once behind a writer, after the
\* busy timeout behind a reader, for ever on a filesystem that cannot host it.
DecideMode(o) ==
    /\ opener[o].at \in {"closed", "refused"} /\ opens < MaxOpens
    /\ opens' = opens + 1
    /\ \E converted \in BOOLEAN :
         /\ converted => registry.mode # "wal" /\ writer = Nobody
         /\ registry' = IF converted THEN [registry EXCEPT !.mode = "wal"] ELSE registry
         /\ Moves(o, [at |-> "lock", draft |-> NoDraft])
    /\ UNCHANGED writer

LockIsFree_Deferred == TRUE
LockIsFree == writer = Nobody

\* BEGIN IMMEDIATE, before the first read.
TakeWriteLock(o) ==
    /\ opener[o].at = "lock" /\ LockIsFree
    /\ writer' = o
    /\ Moves(o, [opener[o] EXCEPT !.at = "read", !.draft = registry])
    /\ UNCHANGED <<registry, opens>>

\* RegistryLocked: the lock was held past the busy timeout.
FindsItLocked(o) ==
    /\ opener[o].at = "lock" /\ writer # Nobody
    /\ Moves(o, [opener[o] EXCEPT !.at = "refused"])
    /\ UNCHANGED <<registry, writer, opens>>

\* What a refusal, an exception or a death leaves of the transaction.
RolledBack_Kept(o) == [opener[o].draft EXCEPT !.mode = registry.mode]
RolledBack(o) == registry

\* The transaction ends with nothing committed.
Abandon(o, at) ==
    /\ registry' = RolledBack(o)
    /\ writer' = Nobody
    /\ Moves(o, [opener[o] EXCEPT !.at = at, !.draft = NoDraft])
    /\ UNCHANGED opens

\* The ladder row places a registry only at a released baseline.
LadderPlaces(ladder) == ladder = Baseline

\* Rows several openers once raced into the version table: the newest stays.
Reduced(rows) == IF rows = {} THEN {} ELSE {Max(rows)}

\* The version state a migration starts from, Baseline's stamp included.
PlacedDraft(draft) ==
    [draft EXCEPT !.rows = IF draft.rows = {} /\ LadderPlaces(draft.ladder)
                           THEN {Baseline} ELSE Reduced(draft.rows)]

\* A revision this build does not carry, or a ladder row that is no release.
MustRefuse(o, draft) ==
    \/ ~ draft.rows \subseteq Carried(o)
    \/ draft.rows = {} /\ draft.ladder # NoLadder /\ ~ LadderPlaces(draft.ladder)

ReadVersions(o) ==
    /\ opener[o].at = "read"
    /\ \/ MustRefuse(o, opener[o].draft) /\ Abandon(o, "refused")
       \/ /\ ~ MustRefuse(o, opener[o].draft)
          /\ Moves(o, [opener[o] EXCEPT !.at = "upgrade", !.draft = PlacedDraft(@)])
          /\ UNCHANGED <<registry, writer, opens>>

-----------------------------------------------------------------------------
(* The revisions. *)

Pending(o) ==
    IF opener[o].draft.rows = {} THEN Baseline ELSE Max(opener[o].draft.rows) + 1

\* The one run of a meeting's active runs 0009 keeps: a running one that names
\* an owner, else the newest.
Prefers_Newest(r, s) == r.id >= s.id
Prefers(r, s) == \/ Owned(r) /\ ~ Owned(s)
                 \/ Owned(r) = Owned(s) /\ r.id >= s.id
Keeper(runs, m) ==
    CHOOSE r \in {x \in runs : Active(x) /\ x.meeting = m} :
        \A s \in {x \in runs : Active(x) /\ x.meeting = m} : Prefers(r, s)

EndLosers(runs) ==
    {IF Active(r) /\ r # Keeper(runs, r.meeting) THEN [r EXCEPT !.status = "interrupted"] ELSE r :
        r \in runs}

\* The index by 0009's name: absent, its own, its own over more states, or
\* another rule's.
RefusesTheIndex(draft) == draft.index = "other"

\* A revision creates only what is not there, so a replay leaves what it finds.
Raised(schema, n) == IF schema < n THEN n ELSE schema

\* One revision, 0009's reconciliation and index among them.
Revised(draft, n) ==
    LET raised == [draft EXCEPT !.rows = {n}, !.schema = Raised(@, n)]
    IN  IF n # OneActiveRevision THEN raised
        ELSE [raised EXCEPT !.runs = EndLosers(@),
                            !.index = IF @ = "none" THEN "own" ELSE @]

UpgradeOne(o) ==
    /\ opener[o].at = "upgrade" /\ Pending(o) <= HeadOf[o]
    /\ IF Pending(o) = OneActiveRevision /\ RefusesTheIndex(opener[o].draft)
       THEN Abandon(o, "refused")
       ELSE /\ Moves(o, [opener[o] EXCEPT !.draft = Revised(@, Pending(o))])
            /\ UNCHANGED <<registry, writer, opens>>

\* The ladder's row is levelled above the number a released build carries.
Levelled_Kept(ladder) == ladder
Levelled(ladder) == IF ladder = NoLadder THEN NoLadder ELSE LadderVersion

CommitOpen(o) ==
    /\ opener[o].at = "upgrade" /\ Pending(o) > HeadOf[o]
    /\ registry' = [opener[o].draft EXCEPT !.ladder = Levelled(@), !.mode = registry.mode]
    /\ writer' = Nobody
    /\ Moves(o, [opener[o] EXCEPT !.at = "open", !.draft = NoDraft])
    /\ UNCHANGED opens

\* A process dies, or its migration raises, at any step of the transaction.
DiesOpening(o) == opener[o].at \in {"read", "upgrade"} /\ Abandon(o, "closed")

\* A process that has the registry open closes it, or is refused and gives up.
CloseRegistry(o) ==
    /\ opener[o].at = "open"
    /\ Moves(o, [opener[o] EXCEPT !.at = "closed"])
    /\ UNCHANGED <<registry, writer, opens>>

-----------------------------------------------------------------------------
(* The processes at work: one write each, which waits for the lock.  A        *)
(* submission's check is behind it: two submissions may both have passed it.  *)

HeadWrites(o, runs) ==
    /\ opener[o].at = "open" /\ writer = Nobody
    /\ registry' = [registry EXCEPT !.runs = runs]
    /\ UNCHANGED <<writer, opener, opens>>

SubmitRun(o, m) ==
    LET run == [id |-> Cardinality(registry.runs) + 1, meeting |-> m,
                status |-> "queued", owned |-> FALSE]
    IN  /\ Cardinality(registry.runs) < MaxRunRows
        /\ registry.index # "none" => OneActiveHolds(registry.runs \union {run})
        /\ HeadWrites(o, registry.runs \union {run})

ClaimRow(o) ==
    /\ ~ \E r \in registry.runs : r.status = "running"
    /\ \E r \in registry.runs :
         /\ r.status = "queued"
         /\ HeadWrites(o, (registry.runs \ {r}) \union
                        {[r EXCEPT !.status = "running", !.owned = HeadOf[o] > Baseline]})

EndRow(o) ==
    \E r \in registry.runs :
        /\ r.status = "running"
        /\ HeadWrites(o, (registry.runs \ {r}) \union {[r EXCEPT !.status = "done"]})

OpeningNext ==
    \E o \in Opener :
        \/ DecideMode(o) \/ TakeWriteLock(o) \/ FindsItLocked(o)
        \/ ReadVersions(o) \/ UpgradeOne(o) \/ CommitOpen(o)
        \/ DiesOpening(o) \/ CloseRegistry(o)
        \/ \E m \in MeetingRow : SubmitRun(o, m)
        \/ ClaimRow(o) \/ EndRow(o)

OpeningSpec == OpeningInit /\ [][OpeningNext]_openingVars

-----------------------------------------------------------------------------
(* Properties. *)

\* Every variable keeps its type.
OpeningTypeOK ==
    /\ registry.mode \in {"delete", "wal"} /\ registry.schema \in Nat
    /\ registry.index \in {"none", "own", "wider", "other"}
    /\ \A r \in registry.runs : r.meeting \in MeetingRow /\ r.id \in 1 .. MaxRunRows
    /\ writer \in Opener \union {Nobody}
    /\ \A o \in Opener : opener[o].at \in States(o)
    /\ opens \in 0 .. MaxOpens

\* Once a process of any build has opened the registry, whatever opens were
\* refused, died or ran beside it: the one version row says the schema that is
\* there, a ladder row is above what a released build opens, and from 0009 on
\* the index stands over runs it holds for (_migrate, revision 0009).
OpenedMeansWhole ==
    (\E o \in Opener : opener[o].at = "open") =>
        /\ registry.ladder \in {NoLadder, LadderVersion}
        /\ \E n \in registry.rows :
             /\ registry.rows = {n} /\ registry.schema >= n
             /\ n >= OneActiveRevision =>
                  registry.index \in {"own", "wider"} /\ OneActiveHolds(registry.runs)

\* No open takes the registry back to an older revision, and none ends a run
\* that is running and names its owner while the meeting's only such run
\* (what the migration must not do is interrupt a run that is executing).
OpensOnlyForward ==
    [][/\ \A n \in registry.rows : \E k \in registry'.rows : k >= n
       /\ \A r \in registry.runs :
            Owned(r) => \A s \in registry'.runs : s.id = r.id => s.status # "interrupted"]_openingVars

\* An open that ends without the registry open leaves the file as it found it
\* but for its journal mode ("one that fails rolls back to exactly the registry
\* the other left").
RefusedChangesNothing ==
    [][\A o \in Opener :
         opener[o].at \in {"lock", "read", "upgrade"} /\ opener'[o].at \in {"closed", "refused"}
            => registry' = registry]_openingVars
=============================================================================
