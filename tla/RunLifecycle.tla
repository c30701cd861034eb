----------------------------- MODULE RunLifecycle -----------------------------
(***************************************************************************)
(* The life of a pipeline run as service/lifecycle.py declares it: the six *)
(* states, the moves between them, and the three rules the registry        *)
(* promises for every writer together -- one active run per meeting, one   *)
(* running run on the node, and first come first served.                   *)
(*                                                                         *)
(* This is the abstract specification.  RunQueue is the machinery          *)
(* (processes, threads, transactions) that has to implement it.            *)
(***************************************************************************)
EXTENDS Naturals

CONSTANTS
    Meeting,        \* the meetings of the registry
    None,           \* the column of a row nobody wrote yet
    MaxRuns         \* bound: how many runs are ever enqueued

Run == 1 .. MaxRuns     \* row ids, handed out in order and never reused

VARIABLES
    status,         \* status[r]: where run r is
    meeting         \* meeting[r]: the meeting r records

vars == <<status, meeting>>

ActiveStatuses   == {"queued", "running"}
TerminalStatuses == {"done", "failed", "stopped", "interrupted"}
RunStatuses      == ActiveStatuses \union TerminalStatuses

\* The meeting already has a run in flight.
InFlight(m) == \E r \in Run : status[r] \in ActiveStatuses /\ meeting[r] = m

Init ==
    /\ status = [r \in Run |-> "absent"]
    /\ meeting = [r \in Run |-> None]

-----------------------------------------------------------------------------
(* The declared moves. *)

Move(r, from, to) ==
    /\ status[r] \in from
    /\ status' = [status EXCEPT ![r] = to]
    /\ UNCHANGED meeting

\* A surface creates the run, behind every run created before it.
Enqueue(r, m) ==
    /\ status[r] = "absent"
    /\ \A s \in Run : s < r => status[s] # "absent"
    /\ ~ InFlight(m)
    /\ status' = [status EXCEPT ![r] = "queued"]
    /\ meeting' = [meeting EXCEPT ![r] = m]

\* The queue starts the head of the FIFO when nothing is running.
Claim(r) ==
    /\ \A s \in Run : status[s] # "running"
    /\ \A s \in Run : s < r => status[s] # "queued"
    /\ Move(r, {"queued"}, "running")

Finish(r)      == Move(r, {"running"}, "done")
Fail(r)        == Move(r, ActiveStatuses, "failed")
StopQueued(r)  == Move(r, {"queued"}, "stopped")
StopRunning(r) == Move(r, {"running"}, "stopped")
Interrupt(r)   == Move(r, {"running"}, "interrupted")

\* The owner of a run that a peer took for dead was alive: its own terminal
\* write is unconditional, and what it says is the last word on the run.
OwnerEnds(r) ==
    \E end \in {"done", "failed", "stopped"} : Move(r, {"interrupted"}, end)

Next ==
    \E r \in Run :
        \/ \E m \in Meeting : Enqueue(r, m)
        \/ Claim(r)
        \/ Finish(r)
        \/ Fail(r)
        \/ StopQueued(r)
        \/ StopRunning(r)
        \/ Interrupt(r)
        \/ OwnerEnds(r)

Spec == Init /\ [][Next]_vars
=============================================================================
