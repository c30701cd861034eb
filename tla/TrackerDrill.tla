------------------------------ MODULE TrackerDrill ------------------------------
(***************************************************************************)
(* The restore drill of the tracker's backup: take a dump where the        *)
(* instance runs, restore it in a scratch directory, audit the copy        *)
(* against the dump and the dump against its source                        *)
(* (scripts/restore_tracker_dump.py, scripts/audit_tracker_backup.py).     *)
(*                                                                         *)
(* A tracker's contents are its tickets (a text, counts of comments and of *)
(* attachments), its wiki pages, its labels and a count of accounts.  What *)
(* a restore may lose or add is one change or two to them.                 *)
(***************************************************************************)
EXTENDS Integers, FiniteSets, FiniteSetsExt

CONSTANTS
    Numbers,        \* issue numbers
    Sample,         \* --sample: how many of the lowest and the highest are sampled
    PageNames,          \* names of pages and labels
    MaxDrills, MaxWork      \* bounds: drills, changes to the source

ASSUME DrillAssumption == Sample \in Nat /\ IsFiniteSet(Numbers)

VARIABLES
    source,         \* the tracker's contents
    dump,           \* the dump in hand: what its rows and its repositories hold
    inner,          \* is the dump's temp file in the container
    scratch,        \* the scratch directory
    copy,           \* what the restored instance serves
    drill,          \* the drill under way, or how the last one ended
    drills, works

drillVars == <<source, dump, inner, scratch, copy, drill, drills, works>>

Ticket == [text : {0, 1}, comments : 0 .. 2, assets : 0 .. 1]

Whole == [issues |-> [n \in Numbers |-> [text |-> 0, comments |-> 1, assets |-> 1]],
          pages |-> PageNames, labels |-> PageNames, users |-> 1]

\* A ticket edited, a comment more or less, an attachment less.
Variants(t) ==
    {u \in Ticket : \/ u = [t EXCEPT !.text = 1 - @]
                    \/ u = [t EXCEPT !.comments = @ + 1]
                    \/ u = [t EXCEPT !.comments = @ - 1]
                    \/ u = [t EXCEPT !.assets = @ - 1]}

Flip(S, x) == IF x \in S THEN S \ {x} ELSE S \union {x}

\* One change: a ticket gone or edited, a page, a label or an account more or less.
TicketsLost(c)   == {[c EXCEPT !.issues = [m \in DOMAIN @ \ {n} |-> @[m]]] : n \in DOMAIN c.issues}
TicketsEdited(c) == UNION {{[c EXCEPT !.issues[n] = t] : t \in Variants(c.issues[n])} : n \in DOMAIN c.issues}
PagesFlipped(c)  == {[c EXCEPT !.pages = Flip(@, x)] : x \in PageNames}
LabelsFlipped(c) == {[c EXCEPT !.labels = Flip(@, x)] : x \in PageNames}

Edits(c) ==
    TicketsLost(c) \union TicketsEdited(c) \union PagesFlipped(c) \union LabelsFlipped(c)
      \union {[c EXCEPT !.users = u] : u \in {0, 1, 2} \ {c.users}}

Empty == [payload |-> FALSE, marker |-> FALSE, foreign |-> FALSE,
          audit |-> "none", auditSource |-> "none", drillRecord |-> FALSE]

DrillInit ==
    /\ source = Whole
    /\ dump = Whole /\ copy = Whole
    /\ inner = FALSE
    /\ scratch \in {Empty, [Empty EXCEPT !.foreign = TRUE]}
    /\ drill = [at |-> "idle", keep |-> FALSE, named |-> FALSE, problem |-> FALSE,
                restored |-> "not run", source |-> "not run", exit |-> "none"]
    /\ drills = 0 /\ works = 0

-----------------------------------------------------------------------------
(* The audit (compare): what the dump holds and the other does not is lost,    *)
(* what the other has beyond it, or differently, is drift.                     *)

Sampled(c) ==
    {n \in DOMAIN c.issues :
       \/ Cardinality({m \in DOMAIN c.issues : m < n}) < Sample
       \/ Cardinality({m \in DOMAIN c.issues : m > n}) < Sample}

Comments(c, ns) == MapThenSumSet(LAMBDA n : c.issues[n].comments, ns)

LostComments_Total(d, s, shared) == Comments(d, shared) > Comments(s, shared)
LostComments(d, s, shared) ==
    \E n \in shared : d.issues[n].comments > s.issues[n].comments

Lost(d, s) ==
    LET shared == DOMAIN d.issues \intersect DOMAIN s.issues
    IN  \/ DOMAIN d.issues # shared
        \/ LostComments(d, s, shared)
        \/ ~ d.pages \subseteq s.pages
        \/ d.users > s.users
        \/ ~ d.labels \subseteq s.labels
        \/ \E n \in Sampled(d) :
             d.issues[n].assets > (IF n \in shared THEN s.issues[n].assets ELSE 0)

Drifted(d, s) ==
    LET shared == DOMAIN d.issues \intersect DOMAIN s.issues
    IN  \/ DOMAIN s.issues # shared
        \/ Comments(s, shared) > Comments(d, DOMAIN d.issues)
        \/ ~ s.pages \subseteq d.pages
        \/ s.users > d.users
        \/ ~ s.labels \subseteq d.labels
        \/ \E n \in Sampled(d) : n \notin shared \/ d.issues[n] # s.issues[n]

Verdict(d, s) ==
    IF Lost(d, s) THEN "fail" ELSE IF Drifted(d, s) THEN "drift" ELSE "match"

-----------------------------------------------------------------------------
(* The drill, step by step.  Die: one of the script's refusals (exit 2).       *)

DrillGoes(d) == drill' = d
DrillDies == drill' = [drill EXCEPT !.at = "idle", !.exit = "refused"]

\* The versions must be known and the same (check_versions), or nothing starts.
Begin ==
    /\ drill.at = "idle" /\ drills < MaxDrills
    /\ drills' = drills + 1
    /\ \E keep \in BOOLEAN, named \in BOOLEAN, take \in BOOLEAN, versions \in BOOLEAN :
         drill' = [at |-> IF ~ versions THEN "idle" ELSE IF take THEN "rows" ELSE "extract",
                   keep |-> keep, named |-> named, problem |-> FALSE,
                   restored |-> "not run", source |-> "not run",
                   exit |-> IF versions THEN "none" ELSE "refused"]
    /\ copy' = Whole
    /\ UNCHANGED <<source, dump, inner, scratch, works>>

\* gitea dump reads its database, then its repositories (the wiki), of an
\* instance that goes on serving; the temp file goes whatever happened, if the
\* daemon still answers.
DumpRows ==
    /\ drill.at = "rows"
    /\ \/ /\ dump' = source /\ inner' = TRUE
          /\ DrillGoes([drill EXCEPT !.at = "repositories"])
       \/ dump' = dump /\ inner' = inner /\ DrillDies
    /\ UNCHANGED <<source, scratch, copy, drills, works>>

DumpRepositories ==
    /\ drill.at = "repositories"
    /\ inner' \in BOOLEAN
    /\ \/ /\ dump' = [dump EXCEPT !.pages = source.pages]
          /\ DrillGoes([drill EXCEPT !.at = "extract"])
       \/ dump' = dump /\ DrillDies
    /\ UNCHANGED <<source, scratch, copy, drills, works>>

\* extract: a directory this drill did not mark is left alone; its own is
\* wiped first.  An archive that is no dump leaves its members and no mark.
MayWipe_Always == TRUE
MayWipe ==
    \/ scratch.marker
    \/ ~ (scratch.payload \/ scratch.foreign)

Extract ==
    /\ drill.at = "extract"
    /\ \/ ~ MayWipe /\ DrillDies /\ UNCHANGED scratch
       \/ MayWipe /\ DrillDies /\ scratch' = [Empty EXCEPT !.payload = TRUE]
       \/ /\ MayWipe
          /\ scratch' = [Empty EXCEPT !.payload = TRUE, !.marker = TRUE]
          /\ DrillGoes([drill EXCEPT !.at = "start"])
    /\ UNCHANGED <<source, dump, inner, copy, drills, works>>

\* verify_database, start_instance: the instance serves the dump's database and
\* what it makes of the rest.
Moved(d) ==
    {[d EXCEPT !.issues[p[1]].comments = @ - 1, !.issues[p[2]].comments = @ + 1] :
        p \in {q \in Numbers \X Numbers :
                 /\ q[1] # q[2] /\ {q[1], q[2]} \subseteq DOMAIN d.issues
                 /\ d.issues[q[1]].comments > 0}}

Served(d) == {d} \union Edits(d) \union Moved(d)

StartInstance ==
    /\ drill.at = "start"
    /\ \/ DOMAIN dump.issues = {} /\ DrillDies /\ UNCHANGED copy
       \/ /\ DOMAIN dump.issues # {}
          /\ copy' \in Served(dump)
          /\ DrillGoes([drill EXCEPT !.at = "ready"])
    /\ UNCHANGED <<source, dump, inner, scratch, drills, works>>

\* wait_for_instance and verify_paths, or a refusal; then the audit of the copy.
Refused == [drill EXCEPT !.at = "stop", !.problem = TRUE, !.exit = "refused"]

AuditCopy ==
    /\ drill.at = "ready"
    /\ \/ DrillGoes(Refused) /\ UNCHANGED scratch
       \/ /\ DrillGoes([drill EXCEPT !.at = "stop", !.problem = TRUE]) /\ UNCHANGED scratch
       \/ /\ scratch' = [scratch EXCEPT !.audit = Verdict(dump, copy)]
          /\ DrillGoes([drill EXCEPT !.at = IF drill.named THEN "audit source" ELSE "stop",
                                !.restored = scratch'.audit])
    /\ UNCHANGED <<source, dump, inner, copy, drills, works>>

AuditSource ==
    /\ drill.at = "audit source"
    /\ \/ DrillGoes([drill EXCEPT !.at = "stop", !.problem = TRUE]) /\ UNCHANGED scratch
       \/ /\ scratch' = [scratch EXCEPT !.auditSource = Verdict(dump, source)]
          /\ DrillGoes([drill EXCEPT !.at = "stop", !.source = scratch'.auditSource])
    /\ UNCHANGED <<source, dump, inner, copy, drills, works>>

\* The instance is stopped whatever happened; a pass takes the payload with it.
Passed == drill.restored = "match" /\ ~ drill.problem

Conclude ==
    /\ drill.at = "stop"
    /\ scratch' = [scratch EXCEPT !.payload = ~ (Passed /\ ~ drill.keep), !.drillRecord = TRUE]
    /\ DrillGoes([drill EXCEPT !.at = "idle",
                          !.exit = IF Passed THEN "pass"
                                   ELSE IF drill.exit = "refused" THEN "refused" ELSE "fail"])
    /\ UNCHANGED <<source, dump, inner, copy, drills, works>>

\* The tracker is worked on.
DrillWork ==
    /\ works < MaxWork
    /\ works' = works + 1
    /\ source' \in Edits(source)
    /\ UNCHANGED <<dump, inner, scratch, copy, drill, drills>>

DrillNext ==
    \/ Begin \/ DumpRows \/ DumpRepositories \/ Extract \/ StartInstance
    \/ AuditCopy \/ AuditSource \/ Conclude \/ DrillWork

DrillSpec == DrillInit /\ [][DrillNext]_drillVars

-----------------------------------------------------------------------------
(* Properties. *)

DrillTypeOK ==
    /\ \A c \in {source, dump, copy} :
         DOMAIN c.issues \subseteq Numbers /\ c.pages \union c.labels \subseteq PageNames
    /\ drill.exit \in {"none", "pass", "fail", "refused"}

\* A drill that passes proved the restore: what is served has every ticket of
\* the dump with as many comments, every page, label and account and nothing
\* more, and the sampled tickets field by field; sums that even out (a comment
\* lost here, one more there) do not pass for it, nor does the record of an
\* earlier drill.
PassMeansRestored ==
    (drill.at = "idle" /\ drill.exit = "pass") =>
      /\ DOMAIN copy.issues = DOMAIN dump.issues
      /\ \A n \in DOMAIN dump.issues : copy.issues[n].comments = dump.issues[n].comments
      /\ copy.pages = dump.pages /\ copy.labels = dump.labels /\ copy.users = dump.users
      /\ \A n \in Sampled(dump) : copy.issues[n] = dump.issues[n]
      /\ scratch.drillRecord /\ scratch.payload = drill.keep

\* A drill deletes nothing it did not write.
ForeignFilesStay == [][scratch.foreign => scratch'.foreign]_drillVars

\* "a FAIL verdict, which is something the dump holds and the compared instance
\* does not" is a drill that did not pass.
FailVerdictFails ==
    (drill.at = "idle" /\ "fail" \in {drill.restored, drill.source}) => drill.exit # "pass"

\* The drill refuses "a scratch directory this drill did not write" and no other.
RefusesOnlyForeign ==
    drill.at = "extract" => (MayWipe \/ scratch.foreign)
=============================================================================
