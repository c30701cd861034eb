------------------------------- MODULE RunQueue -------------------------------
(***************************************************************************)
(* The node's run queue: service/runs.py (RunManager) over the registry's  *)
(* run rows (service/store.py).  Several processes -- the console, an      *)
(* agent's MCP server -- share one registry; each has one drain thread     *)
(* that reaps dead owners' runs, claims the oldest queued run and executes *)
(* it, one heartbeat, and request threads (Client) that start, resume and  *)
(* cancel runs.                                                            *)
(*                                                                         *)
(* Every registry transaction is one action, so a thread of any process    *)
(* may run, or its process may die, between two of them.  In-process work  *)
(* between two transactions is folded into the transaction before it.      *)
(***************************************************************************)
EXTENDS Naturals, FiniteSets

CONSTANTS
    Meeting,        \* the meetings of the registry, each with a workspace
    Process,        \* the processes that build a RunManager over the registry
    Client,         \* their request threads
    Home,           \* Home[c]: the process c is a thread of
    Machine,        \* Machine[p]: whose process table p lives in and can probe
    HostName,       \* HostName[p]: the node name p writes in an owner string
    Build,          \* Build[p]: p's version; a newer build's options row is
                    \* one an older build refuses to read
    None,           \* an empty column
    MaxRuns,        \* bound: rows ever inserted
    MaxPid,         \* bound: process ids
    PidReuse,       \* TRUE: the system may hand out a dead process's id again
    MaxClock,       \* bound: the clock stops here
    StaleAfter,     \* HEARTBEAT_STALE_S, in ticks of the clock
    MaxErrors,      \* bound: registry or disk errors raised to a drain thread
    TapesMayGo      \* TRUE: the user may forget a meeting's last tape

ASSUME BoundsAssumption ==
    /\ MaxRuns \in Nat /\ MaxPid \in Nat /\ MaxClock \in Nat
    /\ StaleAfter \in Nat /\ MaxErrors \in Nat
    /\ {PidReuse, TapesMayGo} \subseteq BOOLEAN
ASSUME PlacementAssumption ==
    /\ \A c \in Client : Home[c] \in Process
    /\ \A p \in Process : Build[p] \in Nat \ {0}
ASSUME NoneAssumption ==
    /\ None \notin Meeting
    /\ None \notin [host : {HostName[p] : p \in Process}, pid : Nat]

Run == 1 .. MaxRuns

VARIABLES
    \* the registry
    status, meeting, owner, beat, cancelRequested, format,
    meetingStatus, hasTapes,
    announced,      \* the runs whose run.finished was handed to the webhooks
    \* each process: its id, its drain thread, its run's cancel signal
    pid, pidsUsed, ready, pc, cur, seen, outcome, signal,
    \* each request thread
    cpc, carg,
    \* the world
    now, errors

rows     == <<status, meeting, owner, beat, cancelRequested, format>>
meetings == <<meetingStatus, hasTapes>>
life     == <<pid, pidsUsed>>
drain    == <<ready, pc, cur, seen, outcome, signal>>
clients  == <<cpc, carg>>
world    == <<now, errors>>
vars     == <<rows, meetings, announced, life, drain, clients, world>>

-----------------------------------------------------------------------------
(* Vocabulary of service/lifecycle.py and service/models.py. *)

ActiveStatuses   == {"queued", "running"}
TerminalStatuses == {"done", "failed", "stopped", "interrupted"}
RunStatuses      == ActiveStatuses \union TerminalStatuses
MeetingStatuses  == {"new", "ready", "running", "recorded", "failed",
                     "interrupted"}

Active  == {r \in Run : status[r] \in ActiveStatuses}
Running == {r \in Run : status[r] = "running"}
Queued  == {r \in Run : status[r] = "queued"}
Created == {r \in Run : status[r] # "absent"}

InFlight(m) == \E r \in Active : meeting[r] = m

\* How a pipeline run can end, the run status and the meeting status each end
\* writes, and the run.finished that follows one of them ("rescued" is the
\* handler of last resort around the execution; it notifies nobody).
Outcomes == {"done", "failed", "stopped", "unrunnable", "rescued"}

RunStatusOf(end) ==
    CASE end = "done"    -> "done"
      [] end = "stopped" -> "stopped"
      [] OTHER           -> "failed"

MeetingStatusOf_RunWord(end) == RunStatusOf(end)
MeetingStatusOf(end) ==
    CASE end = "done"    -> "recorded"
      [] end = "stopped" -> "ready"
      [] OTHER           -> "failed"

NoticeOf(end, r) == IF end = "done" THEN {r} ELSE {}

-----------------------------------------------------------------------------
(* Who is alive. *)

Up(p)       == pid[p] # 0
Identity(p) == [host |-> HostName[p], pid |-> pid[p]]
Pids(p)     == {pid[q] : q \in {q \in Process : Up(q) /\ Machine[q] = Machine[p]}}
Identities  == [host : {HostName[p] : p \in Process}, pid : 0 .. MaxPid]

\* kill(pid, 0) on p's machine, read asymmetrically: a live id holds the run
\* whatever the host text, a missing one proves death only on the same host.
LocalOwnerState_HostFirst(p, o) ==
    IF o = None THEN "unknown"
    ELSE IF o.host = HostName[p] /\ o.pid \in Pids(p) THEN "alive" ELSE "gone"
LocalOwnerState(p, o) ==
    IF o = None THEN "unknown"
    ELSE IF o.pid \in Pids(p) THEN "alive"
    ELSE IF o.host = HostName[p] THEN "gone" ELSE "unknown"

Stale(b) == IF now >= b THEN now - b > StaleAfter ELSE b - now > StaleAfter

IsDead(p, o, b) ==
    \/ LocalOwnerState(p, o) = "gone"
    \/ LocalOwnerState(p, o) = "unknown" /\ Stale(b)

\* Rows of a newer build are refused by an older one (MalformedRunOptions).
Refused(p, rs) == {r \in rs : format[r] > Build[p]}

\* The oldest of some rows, and the id the next row gets.
Oldest(rs) == {r \in rs : \A s \in rs : r <= s}
NextRow == Oldest({r \in Run : status[r] = "absent"})

-----------------------------------------------------------------------------
(* The registry's statements. *)

SetStatus(r, s) == status' = [status EXCEPT ![r] = s]

\* The partial unique index of revision 0009: no second active row.
IndexAdmits_NoIndex(m) == TRUE
IndexAdmits(m) == ~ InFlight(m)

\* claim_run's one statement: still queued, and nothing runs on the node.
ClaimAdmits_AnyStatus(r) == status[r] # "absent" /\ Running = {}
ClaimAdmits_NoNodeRule(r) == status[r] = "queued"
ClaimAdmits(r) == status[r] = "queued" /\ Running = {}

\* interrupt_run's compare: the row is the one the reaper judged.
StillAsSeen_StatusOnly(r, o) == status[r] = "running"
StillAsSeen(r, o) ==
    /\ status[r] = "running"
    /\ owner[r] = o.owner
    /\ beat[r] = o.beat

\* stop_run and fail_unreadable_run move a row only out of these states.
StopAdmits_Active(r) == status[r] \in ActiveStatuses
StopAdmits(r) == status[r] = "queued"
FailAdmits(r) == status[r] \in ActiveStatuses

-----------------------------------------------------------------------------
(* Threads. *)

Executing == {"load", "begin", "work", "end", "endMeeting"}  \* RunManager._live
Reaping   == {"interrupt", "readMeeting", "markMeeting"}
Quarantining == {"quarantineRunning", "quarantineQueued", "quarantineMeeting"}
DrainLabels == {"off", "dead", "scan", "judge", "head", "claim"}
               \union Executing \union Reaping \union Quarantining
ClientLabels == {"idle", "insert", "stopQueued", "request", "readMeeting",
                 "markReady"}

NoArg == [run |-> 0, meeting |-> None]
Nothing == [owner |-> None, beat |-> 0]

Goto(p, l) == pc' = [pc EXCEPT ![p] = l]

\* The drain thread is back at the top of its loop: what it knew is gone, the
\* ended run's signal (_cancels.pop) included.
Forget_KeepsSignal(p) ==
    /\ cur' = [cur EXCEPT ![p] = 0]
    /\ seen' = [seen EXCEPT ![p] = Nothing]
    /\ outcome' = [outcome EXCEPT ![p] = "none"]
    /\ UNCHANGED signal
Forget(p) ==
    /\ cur' = [cur EXCEPT ![p] = 0]
    /\ seen' = [seen EXCEPT ![p] = Nothing]
    /\ outcome' = [outcome EXCEPT ![p] = "none"]
    /\ signal' = [signal EXCEPT ![p] = FALSE]

Rest(p) ==
    /\ Goto(p, "scan")
    /\ Forget(p)
    /\ ready' = [ready EXCEPT ![p] = TRUE]

Reply(c) ==
    /\ cpc' = [cpc EXCEPT ![c] = "idle"]
    /\ carg' = [carg EXCEPT ![c] = NoArg]

\* Setting a run's cancel signal reaches only the process executing it, and
\* only between _signal_for and the end of the run.
SignalOf(p, r) ==
    IF pc[p] \in Executing \ {"load"} /\ cur[p] = r
    THEN [signal EXCEPT ![p] = TRUE] ELSE signal

Init ==
    /\ status = [r \in Run |-> "absent"]
    /\ meeting = [r \in Run |-> None]
    /\ owner = [r \in Run |-> None]
    /\ beat = [r \in Run |-> 0]
    /\ cancelRequested = [r \in Run |-> FALSE]
    /\ format = [r \in Run |-> 0]
    /\ meetingStatus = [m \in Meeting |-> "ready"]
    /\ hasTapes = [m \in Meeting |-> TRUE]
    /\ announced = {}
    /\ pid = [p \in Process |-> 0]
    /\ pidsUsed = 0
    /\ ready = [p \in Process |-> FALSE]
    /\ pc = [p \in Process |-> "off"]
    /\ cur = [p \in Process |-> 0]
    /\ seen = [p \in Process |-> Nothing]
    /\ outcome = [p \in Process |-> "none"]
    /\ signal = [p \in Process |-> FALSE]
    /\ cpc = [c \in Client |-> "idle"]
    /\ carg = [c \in Client |-> NoArg]
    /\ now = 0
    /\ errors = 0

-----------------------------------------------------------------------------
(* Processes. *)

NewPids(p) ==
    IF PidReuse THEN 1 .. MaxPid \ Pids(p)
    ELSE {pidsUsed + 1} \intersect 1 .. MaxPid

\* A process starts and builds its RunManager; until the constructor's
\* reconcile is over (ready) nothing is served and nothing is drained.
Boot(p) ==
    /\ ~ Up(p)
    /\ \E n \in NewPids(p) :
         /\ pid' = [pid EXCEPT ![p] = n]
         /\ pidsUsed' = IF PidReuse THEN pidsUsed ELSE n
    /\ Goto(p, "scan")
    /\ Forget(p)
    /\ ready' = [ready EXCEPT ![p] = FALSE]
    /\ UNCHANGED <<rows, meetings, announced, clients, world>>

\* A process ends, killed or not: its threads are daemons, so a clean exit
\* stops them between two statements just as a crash does.
Crash(p) ==
    /\ Up(p)
    /\ \/ PidReuse \/ pidsUsed < MaxPid      \* bound: somebody is left, or can
       \/ \E q \in Process \ {p} : Up(q)     \* come back
    /\ pid' = [pid EXCEPT ![p] = 0]
    /\ Goto(p, "off")
    /\ Forget(p)
    /\ ready' = [ready EXCEPT ![p] = FALSE]
    /\ cpc' = [c \in Client |-> IF Home[c] = p THEN "idle" ELSE cpc[c]]
    /\ carg' = [c \in Client |-> IF Home[c] = p THEN NoArg ELSE carg[c]]
    /\ UNCHANGED <<rows, meetings, announced, pidsUsed, world>>

Tick ==
    /\ now < MaxClock
    /\ now' = now + 1
    /\ UNCHANGED <<rows, meetings, announced, life, drain, clients, errors>>

ForgetTapes(m) ==
    /\ TapesMayGo
    /\ hasTapes[m]
    /\ hasTapes' = [hasTapes EXCEPT ![m] = FALSE]
    /\ UNCHANGED <<rows, meetingStatus, announced, life, drain, clients, world>>

-----------------------------------------------------------------------------
(* The drain thread: reap, read the head of the queue, claim. *)

\* _running_runs.  The claim admits one running row, so there is at most one
\* row to judge; the row is remembered as it was read.
ReadRunning(p) ==
    /\ pc[p] = "scan"
    /\ \/ /\ Running = {}
          /\ IF ready[p]
             THEN Goto(p, "head") /\ UNCHANGED <<ready, cur, seen, outcome, signal>>
             ELSE Rest(p)
       \/ \E r \in Refused(p, Running) :
             /\ Goto(p, "quarantineRunning")
             /\ cur' = [cur EXCEPT ![p] = r]
             /\ UNCHANGED <<ready, seen, outcome, signal>>
       \/ \E r \in Running :
             /\ Refused(p, Running) = {}
             /\ Goto(p, "judge")
             /\ cur' = [cur EXCEPT ![p] = r]
             /\ seen' = [seen EXCEPT ![p] = [owner |-> owner[r], beat |-> beat[r]]]
             /\ UNCHANGED <<ready, outcome, signal>>
    /\ UNCHANGED <<rows, meetings, announced, life, clients, world>>

\* _is_dead, on the remembered row; a run a live owner holds is waited for.
JudgeOwner(p) ==
    /\ pc[p] = "judge"
    /\ IF IsDead(p, seen[p].owner, seen[p].beat)
       THEN Goto(p, "interrupt") /\ UNCHANGED <<ready, cur, seen, outcome, signal>>
       ELSE Rest(p)
    /\ UNCHANGED <<rows, meetings, announced, life, clients, world>>

\* interrupt_run: the reap itself, or a stale observation that is dropped.
InterruptRun(p) ==
    /\ pc[p] = "interrupt"
    /\ IF StillAsSeen(cur[p], seen[p])
       THEN /\ SetStatus(cur[p], "interrupted")
            /\ Goto(p, "readMeeting")
            /\ UNCHANGED <<ready, cur, seen, outcome, signal>>
       ELSE Rest(p) /\ UNCHANGED status
    /\ UNCHANGED <<meeting, owner, beat, cancelRequested, format,
                   meetings, announced, life, clients, world>>

\* The reaped run's meeting follows it if it reads "running" -- a read and
\* then a write of its own.
ReadReapedMeeting(p) ==
    /\ pc[p] = "readMeeting"
    /\ IF meetingStatus[meeting[cur[p]]] = "running"
       THEN Goto(p, "markMeeting") /\ UNCHANGED <<ready, cur, seen, outcome, signal>>
       ELSE Rest(p)
    /\ UNCHANGED <<rows, meetings, announced, life, clients, world>>

MarkReapedMeeting(p) ==
    /\ pc[p] = "markMeeting"
    /\ meetingStatus' = [meetingStatus EXCEPT ![meeting[cur[p]]] = "interrupted"]
    /\ Rest(p)
    /\ UNCHANGED <<rows, hasTapes, announced, life, clients, world>>

\* A refused row nothing was done about: the read that met it answers
\* "nothing", and the pass goes on from there.
NothingRead(p, whose) ==
    IF whose = "running" /\ ready[p]
    THEN Goto(p, "head") /\ Forget(p) /\ UNCHANGED ready
    ELSE Rest(p)

\* _refuse_run: a row this build cannot read is failed by id, its options
\* cleared, unless it moved meanwhile.
QuarantineRun(p) ==
    /\ pc[p] \in {"quarantineRunning", "quarantineQueued"}
    /\ \/ /\ FailAdmits(cur[p])
          /\ SetStatus(cur[p], "failed")
          /\ format' = [format EXCEPT ![cur[p]] = 0]
          /\ Goto(p, "quarantineMeeting")
          /\ UNCHANGED <<ready, cur, seen, outcome, signal>>
       \/ /\ ~ FailAdmits(cur[p])
          /\ NothingRead(p, IF pc[p] = "quarantineRunning" THEN "running"
                                                           ELSE "queued")
          /\ UNCHANGED <<status, format>>
    /\ UNCHANGED <<meeting, owner, beat, cancelRequested,
                   meetings, announced, life, clients, world>>

QuarantineMeeting(p) ==
    /\ pc[p] = "quarantineMeeting"
    /\ meetingStatus' = [meetingStatus EXCEPT ![meeting[cur[p]]] = "failed"]
    /\ Goto(p, "scan")
    /\ Forget(p)
    /\ UNCHANGED <<ready, rows, hasTapes, announced, life, clients, world>>

Head_Newest == {r \in Queued : \A s \in Queued : r >= s}
Head == Oldest(Queued)

\* oldest_queued_run: nothing waits, or a row is refused, or the head is tried.
ReadHead(p) ==
    /\ pc[p] = "head"
    /\ \/ Queued = {} /\ Rest(p)
       \/ \E r \in Oldest(Refused(p, Queued)) :
             /\ Goto(p, "quarantineQueued")
             /\ cur' = [cur EXCEPT ![p] = r]
             /\ UNCHANGED <<ready, seen, outcome, signal>>
       \/ \E r \in Head :
             /\ Refused(p, Queued) = {}
             /\ Goto(p, "claim")
             /\ cur' = [cur EXCEPT ![p] = r]
             /\ UNCHANGED <<ready, seen, outcome, signal>>
    /\ UNCHANGED <<rows, meetings, announced, life, clients, world>>

\* claim_run: won, or lost to another process, a cancel or a running run.
ClaimRun(p) ==
    /\ pc[p] = "claim"
    /\ IF ClaimAdmits(cur[p])
       THEN /\ SetStatus(cur[p], "running")
            /\ owner' = [owner EXCEPT ![cur[p]] = Identity(p)]
            /\ beat' = [beat EXCEPT ![cur[p]] = now]
            /\ Goto(p, "load")
            /\ UNCHANGED <<ready, cur, seen, outcome, signal>>
       ELSE Rest(p) /\ UNCHANGED <<status, owner, beat>>
    /\ UNCHANGED <<meeting, cancelRequested, format,
                   meetings, announced, life, clients, world>>

-----------------------------------------------------------------------------
(* The drain thread: executing the run it claimed. *)

\* The run stops executing with outcome end, which its terminal write records.
EndWith(p, end) ==
    /\ Goto(p, "end")
    /\ outcome' = [outcome EXCEPT ![p] = end]
    /\ UNCHANGED <<ready, cur, seen, signal>>

\* _signal_for opens the run's own signal, clear; then the meeting, the options
\* and the tape set are read, as they are now.
LoadRun(p) ==
    /\ pc[p] = "load"
    /\ IF hasTapes[meeting[cur[p]]]
       THEN Goto(p, "begin") /\ UNCHANGED <<ready, cur, seen, outcome, signal>>
       ELSE EndWith(p, "unrunnable")
    /\ UNCHANGED <<rows, meetings, announced, life, clients, world>>

\* begin_scope, and the meeting to "running".
BeginRun(p) ==
    /\ pc[p] = "begin"
    /\ meetingStatus' = [meetingStatus EXCEPT ![meeting[cur[p]]] = "running"]
    /\ Goto(p, "work")
    /\ UNCHANGED <<ready, cur, seen, outcome, signal,
                   rows, hasTapes, announced, life, clients, world>>

\* RunChannel: a report under a set signal raises RunCancelled.  (A report
\* under a clear signal appends an event, which no state here records.)
ReportCancelled(p) ==
    /\ pc[p] = "work"
    /\ signal[p]
    /\ EndWith(p, "stopped")
    /\ UNCHANGED <<rows, meetings, announced, life, clients, world>>

\* The pipeline raises.  Downstream of a cancel that is a stop.
PipelineRaises(p) ==
    /\ pc[p] = "work"
    /\ EndWith(p, IF signal[p] THEN "stopped" ELSE "failed")
    /\ UNCHANGED <<rows, meetings, announced, life, clients, world>>

\* The pipeline returns: its documents are published and registered.
PipelineReturns(p) ==
    /\ pc[p] = "work"
    /\ EndWith(p, "done")
    /\ UNCHANGED <<rows, meetings, announced, life, clients, world>>

\* update_run: the owner's terminal write, which compares nothing.
EndRun_NotifiesFirst(p) ==
    /\ pc[p] = "end"
    /\ SetStatus(cur[p], RunStatusOf(outcome[p]))
    /\ announced' = announced \union NoticeOf(outcome[p], cur[p])
    /\ Goto(p, "endMeeting")
    /\ UNCHANGED <<ready, cur, seen, outcome, signal,
                   meeting, owner, beat, cancelRequested, format,
                   meetings, life, clients, world>>
EndRun(p) ==
    /\ pc[p] = "end"
    /\ SetStatus(cur[p], RunStatusOf(outcome[p]))
    /\ Goto(p, "endMeeting")
    /\ UNCHANGED <<ready, cur, seen, outcome, signal,
                   meeting, owner, beat, cancelRequested, format,
                   meetings, announced, life, clients, world>>

\* Then the meeting's own write, the notification, and the end of the thread's
\* interest in the run.
EndMeeting(p) ==
    /\ pc[p] = "endMeeting"
    /\ meetingStatus' =
         [meetingStatus EXCEPT ![meeting[cur[p]]] = MeetingStatusOf(outcome[p])]
    /\ announced' = announced \union NoticeOf(outcome[p], cur[p])
    /\ Rest(p)
    /\ UNCHANGED <<rows, hasTapes, life, clients, world>>

\* The heartbeat thread: refresh the run, then honour a request to stop it.
Beat_Deaf(p) ==
    /\ pc[p] \in Executing
    /\ status[cur[p]] = "running"
    /\ beat' = [beat EXCEPT ![cur[p]] = now]
    /\ UNCHANGED <<status, meeting, owner, cancelRequested, format,
                   drain, meetings, announced, life, clients, world>>
Beat(p) ==
    /\ pc[p] \in Executing
    /\ status[cur[p]] = "running"
    /\ beat' = [beat EXCEPT ![cur[p]] = now]
    /\ signal' = IF cancelRequested[cur[p]] THEN SignalOf(p, cur[p]) ELSE signal
    /\ UNCHANGED <<status, meeting, owner, cancelRequested, format,
                   ready, pc, cur, seen, outcome,
                   meetings, announced, life, clients, world>>

-----------------------------------------------------------------------------
(* A registry or disk error (a locked database, a full disk) in the drain    *)
(* thread, by where it strikes.                                              *)

Error == errors < MaxErrors /\ errors' = errors + 1

\* Around an execution: the handler of last resort fails the run, and an error
\* inside that handler is swallowed.
ExecutionError(p) ==
    /\ pc[p] \in {"load", "begin", "end", "endMeeting"}
    /\ Error
    /\ IF outcome[p] = "rescued" THEN Rest(p) ELSE EndWith(p, "rescued")
    /\ UNCHANGED <<rows, meetings, announced, life, clients, now>>

\* At the claim: reported, tried again on the next pass.
ClaimError(p) ==
    /\ pc[p] = "claim"
    /\ Error
    /\ Rest(p)
    /\ UNCHANGED <<rows, meetings, announced, life, clients, now>>

\* In the reads of the queue or in the reap: nothing catches it, the thread
\* ends.  (In the constructor it ends the process: Crash.)
DrainError(p) ==
    /\ pc[p] \in {"scan", "head"} \union Reaping
    /\ ready[p]
    /\ Error
    /\ Goto(p, "dead")
    /\ Forget(p)
    /\ UNCHANGED <<ready, rows, meetings, announced, life, clients, now>>

\* In the quarantine: swallowed there, and the row is taken nowhere -- or, past
\* its own write, nowhere further.  (Which read met the row is not kept.)
QuarantineError(p) ==
    /\ pc[p] \in Quarantining
    /\ Error
    /\ \E whose \in {"running", "queued"} :
         /\ pc[p] = "quarantineRunning" => whose = "running"
         /\ pc[p] = "quarantineQueued" => whose = "queued"
         /\ NothingRead(p, whose)
    /\ UNCHANGED <<rows, meetings, announced, life, clients, now>>

-----------------------------------------------------------------------------
(* Request threads. *)

Serving(c) == Up(Home[c]) /\ ready[Home[c]]

Ask(c, label, arg) ==
    /\ cpc' = [cpc EXCEPT ![c] = label]
    /\ carg' = [carg EXCEPT ![c] = arg]

\* start: the guards.  (A guard that refuses changes nothing.)
AskStart(c, m) ==
    /\ cpc[c] = "idle"
    /\ Serving(c)
    /\ hasTapes[m]
    /\ ~ InFlight(m)
    /\ Ask(c, "insert", [run |-> 0, meeting |-> m])
    /\ UNCHANGED <<rows, meetings, announced, life, drain, world>>

\* resume: a run that is over and whose options are there for this build to
\* read (a quarantined row has lost them), and then start.
AskResume(c, r) ==
    /\ status[r] \in TerminalStatuses
    /\ format[r] # 0
    /\ r \notin Refused(Home[c], Run)
    /\ AskStart(c, meeting[r])

\* create_run, refused by the index when the guard's read went stale; then
\* _ensure_scheduler wakes the drain, or starts it again if it has ended.
InsertRun(c) ==
    /\ cpc[c] = "insert"
    /\ LET m == carg[c].meeting
           p == Home[c]
       IN  \/ \E r \in NextRow :
                /\ IndexAdmits(m)
                /\ SetStatus(r, "queued")
                /\ meeting' = [meeting EXCEPT ![r] = m]
                /\ format' = [format EXCEPT ![r] = Build[p]]
                /\ IF pc[p] = "dead" THEN Goto(p, "scan") ELSE UNCHANGED pc
           \/ /\ ~ IndexAdmits(m) \/ NextRow = {}     \* refused, or the bound
              /\ UNCHANGED <<status, meeting, format, pc>>
    /\ Reply(c)
    /\ UNCHANGED <<owner, beat, cancelRequested, ready, cur, seen, outcome,
                   signal, meetings, announced, life, world>>

\* cancel: get_run chooses between stopping a queued run and asking a running
\* one to stop.
AskCancel(c, r) ==
    /\ cpc[c] = "idle"
    /\ Serving(c)
    /\ r \notin Refused(Home[c], Run)
    /\ status[r] \in ActiveStatuses
    /\ Ask(c, IF status[r] = "queued" THEN "stopQueued" ELSE "request",
           [run |-> r, meeting |-> None])
    /\ UNCHANGED <<rows, meetings, announced, life, drain, world>>

\* stop_run.  Losing to a claim turns the stop into a request.
StopQueuedRun(c) ==
    /\ cpc[c] = "stopQueued"
    /\ LET r == carg[c].run IN
       IF StopAdmits(r)
       THEN /\ SetStatus(r, "stopped")
            /\ cpc' = [cpc EXCEPT ![c] = "readMeeting"]
       ELSE /\ UNCHANGED status
            /\ cpc' = [cpc EXCEPT ![c] = "request"]
    /\ UNCHANGED <<meeting, owner, beat, cancelRequested, format, carg,
                   meetings, announced, life, drain, world>>

\* A cancel before the run started puts a meeting that reads "running" back to
\* "ready": again a read and a write.
ReadStoppedMeeting(c) ==
    /\ cpc[c] = "readMeeting"
    /\ IF meetingStatus[meeting[carg[c].run]] = "running"
       THEN cpc' = [cpc EXCEPT ![c] = "markReady"] /\ UNCHANGED carg
       ELSE Reply(c)
    /\ UNCHANGED <<rows, meetings, announced, life, drain, world>>

MarkStoppedMeeting(c) ==
    /\ cpc[c] = "markReady"
    /\ meetingStatus' =
         [meetingStatus EXCEPT ![meeting[carg[c].run]] = "ready"]
    /\ Reply(c)
    /\ UNCHANGED <<rows, hasTapes, announced, life, drain, world>>

\* request_cancel, and the local run's signal straight away.
RequestCancel(c) ==
    /\ cpc[c] = "request"
    /\ LET r == carg[c].run IN
       IF status[r] = "running"
       THEN /\ cancelRequested' = [cancelRequested EXCEPT ![r] = TRUE]
            /\ signal' = SignalOf(Home[c], r)
       ELSE UNCHANGED <<cancelRequested, signal>>
    /\ Reply(c)
    /\ UNCHANGED <<status, meeting, owner, beat, format, ready, pc, cur,
                   seen, outcome, meetings, announced, life, world>>

-----------------------------------------------------------------------------

DrainStep(p) ==
    \/ ReadRunning(p)
    \/ JudgeOwner(p)
    \/ InterruptRun(p)
    \/ ReadReapedMeeting(p)
    \/ MarkReapedMeeting(p)
    \/ QuarantineRun(p)
    \/ QuarantineMeeting(p)
    \/ ReadHead(p)
    \/ ClaimRun(p)
    \/ LoadRun(p)
    \/ BeginRun(p)
    \/ EndRun(p)
    \/ EndMeeting(p)

PipelineStep(p) ==
    \/ ReportCancelled(p)
    \/ PipelineRaises(p)
    \/ PipelineReturns(p)

ErrorStep(p) ==
    \/ ExecutionError(p)
    \/ ClaimError(p)
    \/ DrainError(p)
    \/ QuarantineError(p)

ClientStep(c) ==
    \/ \E m \in Meeting : AskStart(c, m)
    \/ \E r \in Run : AskResume(c, r)
    \/ InsertRun(c)
    \/ \E r \in Run : AskCancel(c, r)
    \/ StopQueuedRun(c)
    \/ ReadStoppedMeeting(c)
    \/ MarkStoppedMeeting(c)
    \/ RequestCancel(c)

Next ==
    \/ \E p \in Process :
         \/ Boot(p)
         \/ Crash(p)
         \/ DrainStep(p)
         \/ PipelineStep(p)
         \/ ErrorStep(p)
         \/ Beat(p)
    \/ \E c \in Client : ClientStep(c)
    \/ \E m \in Meeting : ForgetTapes(m)
    \/ Tick

Spec == Init /\ [][Next]_vars

\* What the drain thread is sure to do sooner or later.  A pipeline keeps
\* reporting, and ends by itself unless its run was asked to stop: then only
\* one of its reports is counted on to end it.
DrainGoesOn(p) ==
    \/ DrainStep(p)
    \/ ReportCancelled(p)
    \/ PipelineReturns(p) /\ ~ cancelRequested[cur[p]]

\* What the code schedules: a drain thread that has something to do does it,
\* the heartbeat beats, a request once received is carried out, and a process
\* that ended is started again.
Fairness ==
    /\ \A p \in Process :
         /\ WF_vars(DrainGoesOn(p))
         /\ WF_vars(Beat(p))
         /\ WF_vars(Boot(p))
    /\ \A c \in Client : WF_vars(cpc[c] # "idle" /\ ClientStep(c))

FairSpec == Spec /\ Fairness

-----------------------------------------------------------------------------
(* Properties. *)

\* Every variable keeps its type; in particular only the six run states and
\* the meeting states of service/models.py are ever written.
TypeOK ==
    /\ status \in [Run -> RunStatuses \union {"absent"}]
    /\ meeting \in [Run -> Meeting \union {None}]
    /\ owner \in [Run -> Identities \union {None}]
    /\ beat \in [Run -> 0 .. MaxClock]
    /\ cancelRequested \in [Run -> BOOLEAN]
    /\ format \in [Run -> Nat]
    /\ meetingStatus \in [Meeting -> MeetingStatuses]
    /\ hasTapes \in [Meeting -> BOOLEAN]
    /\ announced \subseteq Run
    /\ pid \in [Process -> 0 .. MaxPid]
    /\ pidsUsed \in 0 .. MaxPid
    /\ ready \in [Process -> BOOLEAN]
    /\ pc \in [Process -> DrainLabels]
    /\ cur \in [Process -> 0 .. MaxRuns]
    /\ seen \in [Process -> [owner : Identities \union {None}, beat : 0 .. MaxClock]]
    /\ outcome \in [Process -> Outcomes \union {"none"}]
    /\ signal \in [Process -> BOOLEAN]
    /\ cpc \in [Client -> ClientLabels]
    /\ carg \in [Client -> [run : 0 .. MaxRuns, meeting : Meeting \union {None}]]
    /\ now \in 0 .. MaxClock
    /\ errors \in 0 .. MaxErrors

\* However submissions race past start's read of the active run, a meeting
\* never has two runs in flight (store.create_run, revision 0009).
OneActivePerMeeting ==
    \A r, s \in Active : meeting[r] = meeting[s] => r = s

\* However many processes drain the queue, one row at a time is running
\* (store.claim_run).
OneRunningRow == \A r, s \in Running : r = s

\* The process is executing cur[p] and has not written its end yet.
InPipeline(p) == pc[p] \in {"load", "begin", "work", "end"}

\* Processes that can probe each other never execute two pipelines at once,
\* through any crash, restart, stall or rename of the host (RunManager._is_dead:
\* a stalled owner must not admit a second pipeline).
OnePipeline == \A p, q \in Process : InPipeline(p) /\ InPipeline(q) => p = q

\* A process executes only a run it claimed that is still its own to end: the
\* row reads running under its name, or a peer took it for dead.
ExecutesWhatItHolds ==
    \A p \in Process : InPipeline(p) =>
        /\ owner[cur[p]] = Identity(p)
        /\ status[cur[p]] \in {"running", "interrupted"}

\* A run that was executed ends stopped only if somebody asked for that run to
\* stop: one run's signal never leaks into the next (_signal_for).
StoppedWasAsked ==
    \A r \in Run : status[r] = "stopped" /\ owner[r] # None => cancelRequested[r]

\* A run that was announced as finished is done and stays done, whatever error
\* strikes around the end of a run and whatever a peer then makes of its row
\* (_run_pipeline emits last, after both writes).
FinishedMeansDone ==
    \A r \in Run : r \in announced => status[r] = "done"

\* A run that ended done, failed or stopped never changes again, whatever a
\* reaper, a claimant or a cancel decided from an older read of it: a run
\* cancelled while it waited is never picked up (manager.cancel), a finished
\* one never reaped (interrupt_run).
EndedRunsStayEnded ==
    [][\A r \in Run : status[r] \in {"done", "failed", "stopped"}
                         => status'[r] = status[r]]_vars

\* The node starts runs in the order they were enqueued, whichever process
\* claims them and however old its read of the queue is.
FirstComeFirstServed ==
    [][\A r \in Run : status[r] = "queued" /\ status'[r] = "running"
                         => \A s \in Queued : r <= s]_vars

Interrupted(r) == status[r] = "running" /\ status'[r] = "interrupted"

\* On one machine a reap never takes a run from a process that is executing it.
ReapsOnlyOrphans ==
    [][\A r \in Run : Interrupted(r) =>
         \A p \in Process : ~ (pc[p] \in Executing /\ cur[p] = r)]_vars

\* On any number of machines a reap that lands is backed by evidence that
\* still holds when it lands: the owner is gone, or its last beat is stale.  A
\* beat between the reaper's read and its write saves the run (interrupt_run).
ReapsOnlyTheSilent ==
    [][\A r \in Run : Interrupted(r) =>
         \/ Stale(beat[r])
         \/ \A p \in Process : Up(p) => Identity(p) # owner[r]]_vars

Waits(r) ==
    \/ status[r] = "queued"
    \/ status[r] = "running" /\ cancelRequested[r]

\* No run waits for ever, to be executed or to be stopped: no crash, restart or
\* lost claim strands a queued run (_drain), and a run asked to stop ends even
\* if its pipeline would go on for ever, wherever the request was made (cancel,
\* the heartbeat, RunChannel).
NoRunWaitsForEver == \A r \in Run : Waits(r) ~> ~ Waits(r)

-----------------------------------------------------------------------------
(* What a comment says of the program and the code does not do. *)

\* "A run that has not ended is the run that can fail" (lifecycle.py, FAIL): no
\* ended run is turned into a failed one.
OnlyInFlightRunsFail ==
    [][\A r \in Run : status[r] # "failed" /\ status'[r] = "failed"
                         => status[r] \in ActiveStatuses]_vars

\* "running has a live pipeline run" (models.py, MEETING_STATUSES), and a
\* meeting left running follows its run (reconcile): after a reconcile that
\* left nothing running, a meeting that still reads running has a run in flight.
RunningMeetingHasRun ==
    (\A p \in Process : ready[p] /\ pc[p] = "head") =>
        \A m \in Meeting : meetingStatus[m] = "running" => InFlight(m)

Lifecycle == INSTANCE RunLifecycle WITH status <- status, meeting <- meeting

\* The run rows follow the declared lifecycle (RunLifecycle, from
\* service/lifecycle.py): every registry statement that changes a row is one
\* declared move of one run, legal where it happens, and everything else --
\* every process start, crash, read, beat and meeting write -- stutters.
FollowsLifecycle == Lifecycle!Spec
=============================================================================
