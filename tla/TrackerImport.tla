----------------------------- MODULE TrackerImport -----------------------------
(***************************************************************************)
(* The import of the local tracker's archive into Gitea                    *)
(* (scripts/migrate_tracker.py --apply, with or without                    *)
(* --repair-from-archive): one run after another, each call to the server  *)
(* answered, refused, or carried out with its answer lost, a run that dies *)
(* anywhere, and people who work on the tracker meanwhile.                 *)
(*                                                                         *)
(* A ticket's labels are one label, its text is left out; of its body what *)
(* matters is the blockers its "Blocked by:" line names.                   *)
(***************************************************************************)
EXTENDS Integers, FiniteSets, FiniteSetsExt

CONSTANTS
    Tickets,        \* 1 .. n, in the order of their files
    Commented,      \* the tickets whose file has a Comments section
    Closing,        \* the tickets whose status closes them
    BlockedBy,      \* BlockedBy[t]: the tickets its Blocked-by line refers to
    Pages,          \* the wiki documents
    MaxImports, MaxFaults, MaxEdits         \* bounds

\* The archive's tickets are numbered, and wait for one another.
ASSUME ArchiveAssumption ==
    /\ Tickets \subseteq Nat /\ Commented \subseteq Tickets /\ Closing \subseteq Tickets
    /\ \A t \in Tickets : BlockedBy[t] \subseteq Tickets

ASSUME ImportBounds == MaxImports \in Nat /\ MaxFaults \in Nat /\ MaxEdits \in Nat

VARIABLES
    issue,          \* issue[t]: what the tracker has of a ticket
    page,           \* page[p]: "absent", "archive", "edited"
    import,         \* the run under way, or the last one's outcome
    imports, faults, edits

importVars == <<issue, page, import, imports, faults, edits>>

NoIssue == [copies |-> 0, comments |-> 0, closed |-> FALSE, names |-> {}, label |-> FALSE]

ImportInit ==
    /\ issue = [t \in Tickets |-> NoIssue]
    /\ page = [p \in Pages |-> "absent"]
    /\ import = [at |-> "idle", repair |-> FALSE, existing |-> {}, remote |-> issue,
                 index |-> {}, numbers |-> {}, labels |-> {}, deferred |-> {},
                 todo |-> {}, pages |-> {}, failed |-> TRUE, undisturbed |-> TRUE]
    /\ imports = 0 /\ faults = 0 /\ edits = 0

\* A call (Gitea.request): carried out or not, reported done or not; a refusal and
\* a lost answer are one failure to the caller.
Answers == {[done |-> TRUE, ok |-> TRUE], [done |-> TRUE, ok |-> FALSE],
            [done |-> FALSE, ok |-> FALSE]}

Call(done, ok, failed) ==
    \E a \in Answers :
      /\ ~ a.ok => faults < MaxFaults
      /\ faults' = IF a.ok THEN faults ELSE faults + 1
      /\ issue' = IF a.done THEN done ELSE issue
      /\ import' = IF a.ok THEN ok ELSE [failed EXCEPT !.failed = TRUE]
      /\ UNCHANGED <<page, imports, edits>>

\* A step of the run that calls nothing.
ImportGoes(run) == import' = run /\ UNCHANGED <<issue, page, imports, faults, edits>>

-----------------------------------------------------------------------------
(* Starting: what the tracker has, read once (existing_issues, wiki_index),    *)
(* and the labels.                                                             *)

Start(repair) ==
    /\ import.at = "idle" /\ imports < MaxImports
    /\ LET there == {t \in Tickets : issue[t].copies > 0}
       IN  import' = [at |-> "labels", repair |-> repair, existing |-> there,
                      remote |-> issue, index |-> {p \in Pages : page[p] # "absent"},
                      numbers |-> there, labels |-> {}, deferred |-> {},
                      todo |-> Tickets, pages |-> Pages, failed |-> FALSE,
                      undisturbed |-> TRUE]
    /\ imports' = imports + 1
    /\ UNCHANGED <<issue, page, faults, edits>>

\* ensure_label: what could not be made is a failure, and is left off.
Labels ==
    /\ import.at = "labels"
    /\ \E lost \in SUBSET Tickets :
         /\ lost # {} => faults < MaxFaults
         /\ faults' = IF lost = {} THEN faults ELSE faults + 1
         /\ import' = [import EXCEPT !.at = "create", !.labels = Tickets \ lost,
                                     !.failed = lost # {}]
    /\ UNCHANGED <<issue, page, imports, edits>>

-----------------------------------------------------------------------------
(* What the archive has and the tracker lacks, ticket after ticket.            *)

\* The blockers a Blocked-by line can name: those with a number.
BlockerLine(t) == BlockedBy[t] \intersect import.numbers

At(t, where) == import.at = where /\ import.todo # {} /\ t = Min(import.todo)

Past(run, where) == [run EXCEPT !.at = where, !.todo = @ \ {Min(@)}]

ToCreate_All(t) == TRUE
ToCreate(t) == t \notin import.existing

Create(t) ==
    /\ At(t, "create")
    /\ IF ~ ToCreate(t) THEN ImportGoes(Past(import, "create"))
       ELSE Call([issue EXCEPT ![t] = [copies |-> @.copies + 1, comments |-> 0,
                    closed |-> FALSE, names |-> BlockerLine(t), label |-> t \in import.labels]],
                 [import EXCEPT !.at = "comment", !.numbers = @ \union {t}],
                 Past(import, "create"))

\* A failed comment takes the ticket's closing and its deferral with it.
PostComment(t) ==
    /\ At(t, "comment")
    /\ IF t \notin Commented THEN ImportGoes([import EXCEPT !.at = "close"])
       ELSE Call([issue EXCEPT ![t].comments = @ + 1], [import EXCEPT !.at = "close"],
                 Past(import, "create"))

Waits_Never(t) == FALSE
\* Judged before the ticket has its own number.
Waits(t) == ~ BlockedBy[t] \subseteq import.numbers \ {t}

\* A ticket created before one that blocks it is linked once all are created.
Close(t) ==
    LET on == [Past(import, "create") EXCEPT
                 !.deferred = IF Waits(t) THEN @ \union {t} ELSE @]
    IN  /\ At(t, "close")
        /\ IF t \notin Closing THEN ImportGoes(on)
           ELSE Call([issue EXCEPT ![t].closed = TRUE], on, Past(import, "create"))

\* The deferred links, then the repairs, or the pages.
LinkDeferred ==
    /\ import.at = "create" /\ import.todo = {}
    /\ IF import.deferred = {}
       THEN ImportGoes([import EXCEPT !.at = IF import.repair THEN "reconcile" ELSE "pages",
                                !.todo = import.existing])
       ELSE LET t  == Min(import.deferred)
                on == [import EXCEPT !.deferred = @ \ {t}]
            IN  IF BlockerLine(t) = {} THEN ImportGoes(on)
                ELSE Call([issue EXCEPT ![t].names = BlockerLine(t)], on, on)

-----------------------------------------------------------------------------
(* The repair of what was there when the run began (reconcile_issue): the      *)
(* comment is looked for now, the state and the body as they were read then.   *)

Reposts(t) == t \in Commented /\ issue[t].comments = 0

RepairComment(t) ==
    /\ At(t, "reconcile")
    /\ LET on == [import EXCEPT !.at = "state"]
       IN  IF ~ Reposts(t) THEN ImportGoes(on)
           ELSE Call([issue EXCEPT ![t].comments = @ + 1], on, Past(import, "reconcile"))

RepairState(t) ==
    /\ At(t, "state")
    /\ LET on == [import EXCEPT !.at = "body"]
       IN  IF import.remote[t].closed = (t \in Closing) THEN ImportGoes(on)
           ELSE Call([issue EXCEPT ![t].closed = t \in Closing], on, Past(import, "reconcile"))

RepairBody(t) ==
    /\ At(t, "body")
    /\ LET on == Past(import, "reconcile")
       IN  IF BlockerLine(t) \in {{}, import.remote[t].names} THEN ImportGoes(on)
           ELSE Call([issue EXCEPT ![t].names = BlockerLine(t)], on, on)

Repaired ==
    /\ import.at = "reconcile" /\ import.todo = {}
    /\ ImportGoes([import EXCEPT !.at = "pages"])

-----------------------------------------------------------------------------
(* The wiki, page after page; then the manifest, and the outcome.              *)

Writes_Existing(p) == p \notin import.index => page[p] = "absent"
\* A page nobody had is made (the server refuses a second of one title); one
\* that was there is overwritten by a repair alone.
Writes(p) ==
    IF p \notin import.index THEN page[p] = "absent"
    ELSE import.repair /\ page[p] # "archive"

WritePage(p) ==
    /\ import.at = "pages" /\ p \in import.pages
    /\ LET on     == [import EXCEPT !.pages = @ \ {p}]
           refused == p \notin import.index /\ page[p] # "absent"
       IN  \/ /\ Writes(p)
              /\ page' = [page EXCEPT ![p] = "archive"]
              /\ import' = on /\ faults' = faults
           \/ /\ Writes(p) /\ faults < MaxFaults
              /\ page' \in {page, [page EXCEPT ![p] = "archive"]}
              /\ import' = [on EXCEPT !.failed = TRUE] /\ faults' = faults + 1
           \/ /\ ~ Writes(p)
              /\ import' = [on EXCEPT !.failed = @ \/ refused]
              /\ UNCHANGED <<page, faults>>
    /\ UNCHANGED <<issue, imports, edits>>

Finish ==
    /\ import.at = "pages" /\ import.pages = {}
    /\ ImportGoes([import EXCEPT !.at = "idle"])

\* The run is killed, or an error nothing catches ends it.
ImportDies ==
    /\ import.at # "idle" /\ faults < MaxFaults
    /\ import' = [import EXCEPT !.at = "idle", !.failed = TRUE]
    /\ faults' = faults + 1
    /\ UNCHANGED <<issue, page, imports, edits>>

\* People work on the tracker: a ticket's state, its body, a page.
ImportWork ==
    /\ edits < MaxEdits
    /\ edits' = edits + 1
    /\ \/ \E t \in Tickets :
            /\ issue[t].copies > 0
            /\ \/ issue' = [issue EXCEPT ![t].closed = ~ @]
               \/ issue' = [issue EXCEPT ![t].names = {}]
            /\ page' = page
       \/ \E p \in Pages : page' = [page EXCEPT ![p] = "edited"] /\ issue' = issue
    /\ import' = [import EXCEPT !.undisturbed = FALSE]
    /\ UNCHANGED <<imports, faults>>

ImportNext ==
    \/ \E repair \in BOOLEAN : Start(repair)
    \/ Labels \/ LinkDeferred \/ Repaired \/ Finish \/ ImportDies \/ ImportWork
    \/ \E t \in Tickets : \/ Create(t) \/ PostComment(t) \/ Close(t)
                          \/ RepairComment(t) \/ RepairState(t) \/ RepairBody(t)
    \/ \E p \in Pages : WritePage(p)

ImportSpec == ImportInit /\ [][ImportNext]_importVars

-----------------------------------------------------------------------------
(* Properties. *)

ImportTypeOK ==
    /\ import.at \in {"idle", "labels", "create", "comment", "close", "reconcile", "state",
                      "body", "pages"}
    /\ \A t \in Tickets : issue[t].names \subseteq BlockedBy[t]
    /\ imports <= MaxImports /\ faults <= MaxFaults /\ edits <= MaxEdits

\* Whatever answers were lost and wherever a run died, a ticket is imported once
\* and its comments are posted once.
ImportedOnce == \A t \in Tickets : issue[t].copies <= 1 /\ issue[t].comments <= 1

\* A repair that ends without a failure while nobody else worked on the tracker
\* leaves nothing for another run to mend: each ticket there, its comments
\* posted, its state and all its blockers as in the archive, each page as in the
\* archive, however many runs were cut short before it.
CleanRepairRestores ==
    (import.at = "idle" /\ import.repair /\ ~ import.failed /\ import.undisturbed) =>
      /\ \A t \in Tickets :
           /\ issue[t].copies = 1
           /\ issue[t].comments = IF t \in Commented THEN 1 ELSE 0
           /\ issue[t].closed = (t \in Closing)
           /\ issue[t].names = BlockedBy[t]
      /\ \A p \in Pages : page[p] = "archive"

\* "With the flag, an issue that exists is brought back in line with the
\* archive": its labels too.
RepairRestoresLabels ==
    (import.at = "idle" /\ import.repair /\ ~ import.failed /\ import.undisturbed) =>
      \A t \in Tickets : issue[t].label

\* Without the flag a run leaves alone what was in the tracker when it began,
\* and what people made of it since.
ApplyLeavesWhatExists ==
    [][(import.at # "idle" /\ ~ import.repair /\ edits' = edits) =>
         /\ \A t \in import.existing : issue'[t] = issue[t]
         /\ \A p \in Pages : page[p] = "edited" => page'[p] = "edited"]_importVars
=============================================================================
