----------------------------- MODULE Registration -----------------------------
(* Projects and meetings as several surfaces create them (service/store.py),  *)
(* and the audit record of those calls (service/audit.py).  A registration of *)
(* a workspace folder is one transaction under the write lock from its first  *)
(* read; the plain creates read a free slug and insert in a deferred one.     *)
(* The rows a call owes the record are written after it, each in a unit of    *)
(* work of its own that the registry may refuse, and a process may die        *)
(* between any two steps.                                                     *)
EXTENDS Naturals, Sequences, FiniteSets

CONSTANTS
    Surface,        \* the callers: the console's and the command line's threads
    Folder,         \* the workspace folders
    NameOf,         \* NameOf[f]: the slug a folder's name makes
    MaxCalls,       \* bound: the calls begun
    MaxRefusals,    \* bound: the writes the device or the lock's wait refuses
    NotReserved        \* no caller holds the write lock

ASSUME RegistrationBounds ==
    MaxCalls \in Nat /\ MaxRefusals \in Nat /\ NotReserved \notin Surface

VARIABLES
    projects,       \* the project rows: slug, and the call that created them
    meetings,       \* the meeting rows: project, slug, folder, spelling, call
    rows,           \* the audit record: the call, its verb, its outcome
    stated,         \* the rows the node's log says were lost
    ended,          \* each call that ended: which creates landed, was it refused
    cutOff,         \* the calls whose process died
    reserved,       \* who holds SQLite's write lock
    caller,         \* each caller: its call, where it is, what it is creating
    begun, refusals

registrationVars ==
    <<projects, meetings, rows, stated, ended, cutOff, reserved, caller, begun, refusals>>

\* A slug: a base, and the suffix a collision adds (1: none).
Slug(base, n) == <<base, n>>
Taken(slugs, base) == {n \in 1 .. MaxCalls + 1 : Slug(base, n) \in slugs}
UniqueSlug(slugs, base) ==
    Slug(base, CHOOSE n \in 1 .. MaxCalls + 1 :
                   n \notin Taken(slugs, base) /\ \A k \in 1 .. n - 1 : k \in Taken(slugs, base))

ProjectSlugs == {p.slug : p \in projects}
MeetingSlugs(project) == {m.slug : m \in {x \in meetings : x.project = project}}

Idle == [at |-> "idle", call |-> 0, folder |-> CHOOSE f \in Folder : TRUE,
         slug |-> <<>>, owes |-> <<>>]

RegistrationInit ==
    /\ projects = {} /\ meetings = {} /\ rows = {} /\ stated = {} /\ ended = {} /\ cutOff = {}
    /\ reserved = NotReserved
    /\ caller = [c \in Surface |-> Idle]
    /\ begun = 0 /\ refusals = 0

Puts(c, change) == caller' = [caller EXCEPT ![c] = change]
Ends(call, landed, refused) ==
    ended' = ended \union {[call |-> call, landed |-> landed, refused |-> refused]}
Owed(call, action, outcome) == [call |-> call, action |-> action, outcome |-> outcome]

-----------------------------------------------------------------------------
(* A registration: meeting_for_workspace.                                     *)

\* A surface calls the service: a registration, a project's or a meeting's create.
RegistrationCalls(c) ==
    /\ caller[c].at = "idle" /\ begun < MaxCalls
    /\ begun' = begun + 1
    /\ \E f \in Folder, at \in {"register", "project", "meeting"} :
         Puts(c, [Idle EXCEPT !.at = at, !.call = begun + 1, !.folder = f])
    /\ UNCHANGED <<projects, meetings, rows, stated, ended, reserved, refusals, cutOff>>

\* The meetings of a folder: the ones stored under its exact spelling, else any.
Exactly(f) == {m \in meetings : m.folder = f /\ m.exact}
RegisteredFor(f) == IF Exactly(f) # {} THEN Exactly(f) ELSE {m \in meetings : m.folder = f}

MayReserve_Deferred == TRUE
MayReserve == reserved = NotReserved

\* BEGIN IMMEDIATE, then the lookup: a folder that is registered answers.
LookUp(c) ==
    /\ caller[c].at = "register" /\ MayReserve
    /\ IF RegisteredFor(caller[c].folder) # {}
       THEN Puts(c, Idle) /\ Ends(caller[c].call, {}, FALSE) /\ UNCHANGED reserved
       ELSE Puts(c, [caller[c] EXCEPT !.at = "insert"]) /\ reserved' = c /\ UNCHANGED ended
    /\ UNCHANGED <<projects, meetings, rows, stated, begun, refusals, cutOff>>

\* The rows a registration owes, for the creates that landed.
OwedFor_Both(call, newProject) ==
    <<Owed(call, "project.create", "ok"), Owed(call, "meeting.create", "ok")>>
OwedFor(call, newProject) ==
    IF newProject THEN OwedFor_Both(call, newProject)
    ELSE <<Owed(call, "meeting.create", "ok")>>

\* Both creates in the one transaction: the project by the folder's own slug,
\* created if absent; the meeting by it too, and by a computed slug where the
\* folder's own belongs to another folder's meeting.
Registers(c) ==
    LET f == caller[c].folder
        project == Slug(NameOf[f], 1)
        newProject == project \notin ProjectSlugs
        pinned == Slug(NameOf[f], 1)
        slug == IF pinned \notin MeetingSlugs(project) THEN pinned
                ELSE UniqueSlug(MeetingSlugs(project), NameOf[f])
    IN  /\ caller[c].at = "insert"
        /\ projects' = projects \union
             (IF newProject THEN {[slug |-> project, call |-> caller[c].call]} ELSE {})
        /\ meetings' = meetings \union
             {[project |-> project, slug |-> slug, folder |-> f, exact |-> TRUE,
               call |-> caller[c].call, registered |-> TRUE]}
        /\ reserved' = NotReserved
        /\ Puts(c, [caller[c] EXCEPT !.at = "rows", !.owes = OwedFor(caller[c].call, newProject)])
        /\ Ends(caller[c].call,
                {"meeting.create"} \union (IF newProject THEN {"project.create"} ELSE {}), FALSE)
        /\ UNCHANGED <<rows, stated, begun, refusals, cutOff>>

\* The create a refusal is recorded under: the project's until one is in hand.
InFlight(c) ==
    CASE caller[c].at \in {"register", "new project"} -> {"project.create"}
      [] caller[c].at = "new meeting" -> {"meeting.create"}
      [] caller[c].at = "insert" -> {"meeting.create"} \union
                  {a \in {"project.create"} : Slug(NameOf[caller[c].folder], 1) \notin ProjectSlugs}

\* The write lock's wait or the device refuses the transaction: nothing was
\* registered, and the row of it is stated lost without a second attempt.
RegistryRefuses(c) ==
    /\ caller[c].at \in {"register", "insert", "new project", "new meeting"}
    /\ refusals < MaxRefusals /\ refusals' = refusals + 1
    /\ \E action \in InFlight(c) :
         stated' = stated \union {Owed(caller[c].call, action, "failed")}
    /\ Ends(caller[c].call, {}, TRUE)
    /\ reserved' = IF reserved = c THEN NotReserved ELSE reserved
    /\ Puts(c, Idle)
    /\ UNCHANGED <<projects, meetings, rows, begun, cutOff>>

-----------------------------------------------------------------------------
(* The plain creates: a free slug is read, and inserted a step later.         *)

ChoosesProjectSlug(c) ==
    /\ caller[c].at = "project"
    /\ Puts(c, [caller[c] EXCEPT !.at = "new project",
                !.slug = UniqueSlug(ProjectSlugs, NameOf[caller[c].folder])])
    /\ UNCHANGED <<projects, meetings, rows, stated, ended, reserved, begun, refusals, cutOff>>

\* A uniqueness conflict is the service's own refusal, which owes a failed row.
RefusedCall(c, action) ==
    /\ Puts(c, [caller[c] EXCEPT !.at = "rows", !.owes = <<Owed(caller[c].call, action, "failed")>>])
    /\ Ends(caller[c].call, {}, TRUE)

InsertsProject(c) ==
    /\ caller[c].at = "new project" /\ reserved = NotReserved
    /\ IF caller[c].slug \in ProjectSlugs
       THEN RefusedCall(c, "project.create") /\ UNCHANGED projects
       ELSE /\ projects' = projects \union {[slug |-> caller[c].slug, call |-> caller[c].call]}
            /\ Puts(c, [caller[c] EXCEPT !.at = "rows",
                        !.owes = <<Owed(caller[c].call, "project.create", "ok")>>])
            /\ Ends(caller[c].call, {"project.create"}, FALSE)
    /\ UNCHANGED <<meetings, rows, stated, reserved, begun, refusals, cutOff>>

\* A meeting of an existing project, over a folder as its user spelled it; an
\* unknown project is a key miss, which nothing records.
ChoosesMeetingSlug(c) ==
    LET project == Slug(NameOf[caller[c].folder], 1)
    IN  /\ caller[c].at = "meeting"
        /\ IF project \in ProjectSlugs
           THEN /\ Puts(c, [caller[c] EXCEPT !.at = "new meeting",
                            !.slug = UniqueSlug(MeetingSlugs(project), NameOf[caller[c].folder])])
                /\ UNCHANGED ended
           ELSE Puts(c, Idle) /\ Ends(caller[c].call, {}, FALSE)
        /\ UNCHANGED <<projects, meetings, rows, stated, reserved, begun, refusals, cutOff>>

InsertsMeeting(c) ==
    LET project == Slug(NameOf[caller[c].folder], 1)
    IN  /\ caller[c].at = "new meeting" /\ reserved = NotReserved
        /\ IF caller[c].slug \in MeetingSlugs(project)
           THEN RefusedCall(c, "meeting.create") /\ UNCHANGED meetings
           ELSE /\ \E exact \in BOOLEAN :
                     meetings' = meetings \union
                       {[project |-> project, slug |-> caller[c].slug, exact |-> exact,
                         folder |-> caller[c].folder, call |-> caller[c].call,
                         registered |-> FALSE]}
                /\ Puts(c, [caller[c] EXCEPT !.at = "rows",
                            !.owes = <<Owed(caller[c].call, "meeting.create", "ok")>>])
                /\ Ends(caller[c].call, {"meeting.create"}, FALSE)
        /\ UNCHANGED <<projects, rows, stated, reserved, begun, refusals, cutOff>>

-----------------------------------------------------------------------------
(* The audit record: record_audit, in a unit of work of its own.              *)

SettledRow(c) ==
    IF Len(caller[c].owes) = 1 THEN Idle ELSE [caller[c] EXCEPT !.owes = Tail(@)]

AppendsRow(c) ==
    /\ caller[c].at = "rows" /\ reserved = NotReserved
    /\ rows' = rows \union {Head(caller[c].owes)}
    /\ Puts(c, SettledRow(c))
    /\ UNCHANGED <<projects, meetings, stated, ended, reserved, begun, refusals, cutOff>>

\* A row the registry will not take is stated, and the call keeps its outcome.
Stated(row) == {row}
LosesRow(c) ==
    /\ caller[c].at = "rows" /\ refusals < MaxRefusals
    /\ refusals' = refusals + 1
    /\ stated' = stated \union Stated(Head(caller[c].owes))
    /\ Puts(c, SettledRow(c))
    /\ UNCHANGED <<projects, meetings, rows, ended, reserved, begun, cutOff>>

\* A process dies between two steps of a call: its transaction rolls back, and
\* the rows it still owed are neither written nor stated.
DiesCalling(c) ==
    /\ caller[c].at # "idle"
    /\ cutOff' = cutOff \union {caller[c].call}
    /\ reserved' = IF reserved = c THEN NotReserved ELSE reserved
    /\ Puts(c, Idle)
    /\ UNCHANGED <<projects, meetings, rows, stated, ended, begun, refusals>>

RegistrationNext ==
    \E c \in Surface :
        \/ RegistrationCalls(c) \/ LookUp(c) \/ Registers(c) \/ RegistryRefuses(c)
        \/ ChoosesProjectSlug(c) \/ InsertsProject(c)
        \/ ChoosesMeetingSlug(c) \/ InsertsMeeting(c)
        \/ AppendsRow(c) \/ LosesRow(c) \/ DiesCalling(c)

RegistrationSpec == RegistrationInit /\ [][RegistrationNext]_registrationVars

-----------------------------------------------------------------------------
(* Properties. *)

\* Every variable keeps its type.
RegistrationTypeOK ==
    /\ \A p \in projects : p.call \in 1 .. MaxCalls
    /\ \A m \in meetings : m.folder \in Folder /\ m.exact \in BOOLEAN
    /\ \A r \in rows \union stated :
         r.action \in {"project.create", "meeting.create"} /\ r.outcome \in {"ok", "failed"}
    /\ reserved \in Surface \union {NotReserved}
    /\ begun \in 0 .. MaxCalls /\ refusals \in 0 .. MaxRefusals

\* A registration adds a meeting only for a folder that had none, whichever
\* surfaces register or create beside it, and its project lands with it
\* ("exactly one meeting for the workspace, whichever side the lock falls to").
RegistersOnce ==
    [][\A m \in meetings' \ meetings :
         /\ m.registered => \A n \in meetings : n.folder # m.folder
         /\ \E p \in projects' : p.slug = m.project]_registrationVars

\* The record is the account of the calls: a row says what its call did, and a
\* call that ended owes no row that is neither written, nor stated lost, nor
\* still its caller's to write (recorded, record_audit, record_refusal).
Accounted(row) ==
    row \in rows \union stated
    \/ \E c \in Surface, i \in 1 .. 2 : i \in DOMAIN caller[c].owes /\ caller[c].owes[i] = row
RecordIsTheAccount ==
    /\ \A r \in rows : \E e \in ended :
         e.call = r.call /\ IF r.outcome = "ok" THEN r.action \in e.landed ELSE e.refused
    /\ \A e \in ended : e.call \notin cutOff =>
         /\ \A action \in e.landed : Accounted(Owed(e.call, action, "ok"))
         /\ e.refused => \E action \in {"project.create", "meeting.create"} :
                            Accounted(Owed(e.call, action, "failed"))
=============================================================================
