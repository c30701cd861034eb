----------------------------- MODULE DrainThread -----------------------------
(***************************************************************************)
(* Inside one RunManager (service/runs.py): the drain thread and the       *)
(* threads that start it, stop it and wait for a run.  RunQueue treats the *)
(* drain as always there; this module is about how it comes and goes.      *)
(*                                                                         *)
(* A pass of the loop and _ensure_scheduler each hold the condition        *)
(* self._wake throughout, so each is one action.  A thread that returned   *)
(* from _drain has released the condition but is_alive() still says yes    *)
(* until the interpreter is done with it: that window is the label         *)
(* "returned".                                                             *)
(***************************************************************************)
EXTENDS Naturals, FiniteSets

CONSTANTS
    Caller,         \* threads that call start, shutdown and wait
    MaxRuns,        \* bound: runs ever enqueued
    MaxShutdowns    \* bound: calls of shutdown

ASSUME DrainBounds == MaxRuns \in Nat /\ MaxShutdowns \in Nat

Run    == 1 .. MaxRuns
Thread == 1 .. MaxShutdowns + 1     \* a thread is replaced only after a shutdown
NoThread == 0

VARIABLES
    stopping,       \* self._stopping
    scheduler,      \* self._scheduler: a thread, or NoThread
    at,             \* at[t]: where thread t is
    holds,          \* holds[t]: the run thread t is executing, or 0
    row,            \* row[r]: what the registry says of run r
    live,           \* self._live
    logged,         \* the runs whose last effect (their log record) happened
    cpc, carg,      \* what each caller is in the middle of
    shutdowns       \* how many shutdowns were called

managerVars == <<stopping, scheduler, at, holds, row, live, logged, cpc, carg, shutdowns>>

drainVars  == <<at, holds, row, live, logged>>
callerVars == <<cpc, carg>>

Executing == {"claim", "claimed", "working", "ended", "logged"}
Labels    == {"unborn", "loop", "returned", "gone"} \union Executing

IsAlive(t) == at[t] \notin {"unborn", "gone"}
Queued     == {r \in Run : row[r] = "queued"}

\* A manager is built draining (its constructor reaches _ensure_scheduler) or
\* with start_queue=False: stopped, and without a thread.
DrainInit ==
    /\ \/ /\ stopping = FALSE
          /\ scheduler = 1
          /\ at = [t \in Thread |-> IF t = 1 THEN "loop" ELSE "unborn"]
       \/ /\ stopping = TRUE
          /\ scheduler = NoThread
          /\ at = [t \in Thread |-> "unborn"]
    /\ holds = [t \in Thread |-> 0]
    /\ row = [r \in Run |-> "absent"]
    /\ live = {}
    /\ logged = {}
    /\ cpc = [c \in Caller |-> "idle"]
    /\ carg = [c \in Caller |-> 0]
    /\ shutdowns = 0

-----------------------------------------------------------------------------
(* The drain thread. *)

GoesTo(t, l) == at' = [at EXCEPT ![t] = l]

Pass_StopsWhenDrained(t) ==     \* a queue that wants to be empty before it stops
    /\ at[t] = "loop"
    /\ \/ /\ stopping
          /\ Queued = {}
          /\ GoesTo(t, "returned")
          /\ UNCHANGED holds
       \/ /\ ~ stopping
          /\ \A r \in Run : row[r] # "running"
          /\ \E r \in Queued :
               /\ \A s \in Queued : r <= s
               /\ holds' = [holds EXCEPT ![t] = r]
          /\ GoesTo(t, "claim")
    /\ UNCHANGED <<stopping, scheduler, row, live, logged, callerVars, shutdowns>>

\* One pass of _drain under the condition: return when asked to stop, else
\* take the head of the queue when nothing runs, else wait for the next pass.
Pass(t) ==
    /\ at[t] = "loop"
    /\ \/ /\ stopping
          /\ GoesTo(t, "returned")
          /\ UNCHANGED holds
       \/ /\ ~ stopping
          /\ \A r \in Run : row[r] # "running"
          /\ \E r \in Queued :
               /\ \A s \in Queued : r <= s
               /\ holds' = [holds EXCEPT ![t] = r]
          /\ GoesTo(t, "claim")
    /\ UNCHANGED <<stopping, scheduler, row, live, logged, callerVars, shutdowns>>

\* The interpreter lets go of a thread whose function returned.
ThreadEnds(t) ==
    /\ at[t] = "returned"
    /\ GoesTo(t, "gone")
    /\ UNCHANGED <<stopping, scheduler, holds, row, live, logged, callerVars, shutdowns>>

\* claim_run, and then -- under self._lock -- the run enters the live set.
Claim(t) ==
    /\ at[t] = "claim"
    /\ IF row[holds[t]] = "queued" /\ \A r \in Run : row[r] # "running"
       THEN /\ row' = [row EXCEPT ![holds[t]] = "running"]
            /\ GoesTo(t, "claimed")
            /\ UNCHANGED holds
       ELSE /\ GoesTo(t, "loop")
            /\ holds' = [holds EXCEPT ![t] = 0]
            /\ UNCHANGED row
    /\ UNCHANGED <<stopping, scheduler, live, logged, callerVars, shutdowns>>

EnterLive(t) ==
    /\ at[t] = "claimed"
    /\ live' = live \union {holds[t]}
    /\ GoesTo(t, "working")
    /\ UNCHANGED <<stopping, scheduler, holds, row, logged, callerVars, shutdowns>>

\* The pipeline comes to its end and the row says so.
EndRow(t) ==
    /\ at[t] = "working"
    /\ row' = [row EXCEPT ![holds[t]] = "ended"]
    /\ GoesTo(t, "ended")
    /\ UNCHANGED <<stopping, scheduler, holds, live, logged, callerVars, shutdowns>>

\* The effects that follow the row: meeting, log record, notification.
Effects(t) ==
    /\ at[t] = "ended"
    /\ logged' = logged \union {holds[t]}
    /\ GoesTo(t, "logged")
    /\ UNCHANGED <<stopping, scheduler, holds, row, live, callerVars, shutdowns>>

LeaveLive_StaysLive(t) ==
    /\ at[t] = "logged"
    /\ GoesTo(t, "loop")
    /\ holds' = [holds EXCEPT ![t] = 0]
    /\ UNCHANGED <<stopping, scheduler, row, live, logged, callerVars, shutdowns>>
LeaveLive(t) ==
    /\ at[t] = "logged"
    /\ live' = live \ {holds[t]}
    /\ GoesTo(t, "loop")
    /\ holds' = [holds EXCEPT ![t] = 0]
    /\ UNCHANGED <<stopping, scheduler, row, logged, callerVars, shutdowns>>

-----------------------------------------------------------------------------
(* The callers. *)

\* start: the row is inserted, then the scheduler is started or woken.
Start(c) ==
    /\ cpc[c] = "idle"
    /\ \E r \in Run :
         /\ row[r] = "absent"
         /\ \A s \in Run : s < r => row[s] # "absent"
         /\ row' = [row EXCEPT ![r] = "queued"]
    /\ cpc' = [cpc EXCEPT ![c] = "ensure"]
    /\ UNCHANGED <<stopping, scheduler, at, holds, live, logged, carg, shutdowns>>

EnsureScheduler_StaysStopped(c) ==
    /\ cpc[c] = "ensure"
    /\ IF scheduler # NoThread /\ IsAlive(scheduler)
       THEN UNCHANGED <<scheduler, at>>
       ELSE \E t \in Thread :
              /\ at[t] = "unborn"
              /\ \A u \in Thread : u < t => at[u] # "unborn"
              /\ GoesTo(t, "loop")
              /\ scheduler' = t
    /\ cpc' = [cpc EXCEPT ![c] = "idle"]
    /\ UNCHANGED <<stopping, holds, row, live, logged, carg, shutdowns>>

EnsureScheduler(c) ==
    /\ cpc[c] = "ensure"
    /\ stopping' = FALSE
    /\ IF scheduler # NoThread /\ IsAlive(scheduler)
       THEN UNCHANGED <<scheduler, at>>
       ELSE \E t \in Thread :
              /\ at[t] = "unborn"
              /\ \A u \in Thread : u < t => at[u] # "unborn"
              /\ GoesTo(t, "loop")
              /\ scheduler' = t
    /\ cpc' = [cpc EXCEPT ![c] = "idle"]
    /\ UNCHANGED <<holds, row, live, logged, carg, shutdowns>>

\* shutdown asks, joins for a bounded time (so the join may end either way),
\* and forgets the thread only if it is still the one asked and it has ended.
AskStop(c) ==
    /\ cpc[c] = "idle"
    /\ shutdowns < MaxShutdowns
    /\ shutdowns' = shutdowns + 1
    /\ stopping' = TRUE
    /\ IF scheduler = NoThread
       THEN UNCHANGED callerVars
       ELSE /\ cpc' = [cpc EXCEPT ![c] = "join"]
            /\ carg' = [carg EXCEPT ![c] = scheduler]
    /\ UNCHANGED <<scheduler, drainVars>>

MayForget_Always(t) == TRUE
MayForget(t) == scheduler = t /\ ~ IsAlive(t)

ForgetScheduler(c) ==
    /\ cpc[c] = "join"
    /\ scheduler' = IF MayForget(carg[c]) THEN NoThread ELSE scheduler
    /\ cpc' = [cpc EXCEPT ![c] = "idle"]
    /\ carg' = [carg EXCEPT ![c] = 0]
    /\ UNCHANGED <<stopping, drainVars, shutdowns>>

\* wait: the row first, the live set second; only a run that is over in both
\* is returned.  (Its timeout returns the state as it is, promising nothing.)
ReadState(c) ==
    /\ cpc[c] = "idle"
    /\ \E r \in Run :
         /\ row[r] = "ended"
         /\ carg' = [carg EXCEPT ![c] = r]
    /\ cpc' = [cpc EXCEPT ![c] = "readLive"]
    /\ UNCHANGED <<stopping, scheduler, drainVars, shutdowns>>

OverIn_Row(r) == row[r] = "ended"
OverIn(r) == r \notin live

ReadLive(c) ==
    /\ cpc[c] = "readLive"
    /\ IF OverIn(carg[c])
       THEN cpc' = [cpc EXCEPT ![c] = "returned"] /\ UNCHANGED carg
       ELSE /\ cpc' = [cpc EXCEPT ![c] = "idle"]
            /\ carg' = [carg EXCEPT ![c] = 0]
    /\ UNCHANGED <<stopping, scheduler, drainVars, shutdowns>>

LeaveWait(c) ==
    /\ cpc[c] = "returned"
    /\ cpc' = [cpc EXCEPT ![c] = "idle"]
    /\ carg' = [carg EXCEPT ![c] = 0]
    /\ UNCHANGED <<stopping, scheduler, drainVars, shutdowns>>

-----------------------------------------------------------------------------

ThreadStep(t) ==
    \/ Pass(t)
    \/ ThreadEnds(t)
    \/ Claim(t)
    \/ EnterLive(t)
    \/ EndRow(t)
    \/ Effects(t)
    \/ LeaveLive(t)

DrainNext ==
    \/ \E t \in Thread : ThreadStep(t)
    \/ \E c \in Caller :
         \/ Start(c)
         \/ EnsureScheduler(c)
         \/ AskStop(c)
         \/ ForgetScheduler(c)
         \/ ReadState(c)
         \/ ReadLive(c)
         \/ LeaveWait(c)

\* A thread that can run runs -- the loop's wait times out every second, so a
\* pass never depends on a notification -- and a call of start goes on.
DrainFairness ==
    /\ \A t \in Thread : WF_managerVars(ThreadStep(t))
    /\ \A c \in Caller : WF_managerVars(EnsureScheduler(c))

DrainSpec == DrainInit /\ [][DrainNext]_managerVars /\ DrainFairness

-----------------------------------------------------------------------------
(* Properties. *)

\* Every variable keeps its type, and the live set -- what the heartbeat beats
\* for and wait reads -- is exactly the runs in execution (self._live).
DrainTypeOK ==
    /\ stopping \in BOOLEAN
    /\ scheduler \in Thread \union {NoThread}
    /\ at \in [Thread -> Labels]
    /\ holds \in [Thread -> 0 .. MaxRuns]
    /\ row \in [Run -> {"absent", "queued", "running", "ended"}]
    /\ live = {holds[t] : t \in {u \in Thread : at[u] \in {"working", "ended", "logged"}}}
    /\ logged \subseteq Run
    /\ cpc \in [Caller -> {"idle", "ensure", "join", "readLive", "returned"}]
    /\ carg \in [Caller -> Nat]
    /\ shutdowns \in 0 .. MaxShutdowns

\* However start and shutdown interleave, a manager never has two drain
\* threads at work, so one manager never executes two runs (_ensure_scheduler,
\* shutdown).
OneDrainThread ==
    \A t, u \in Thread :
        at[t] \in Executing \union {"loop"} /\ at[u] \in Executing \union {"loop"}
            => t = u

\* A waiter that is told a run is over finds every effect of it done: the row
\* turns terminal before them, the live set lets go after them (wait).
WaitSeesTheEffects ==
    \A c \in Caller : cpc[c] = "returned" => carg[c] \in logged

\* A shutdown nothing revokes ends the drain thread, whatever it was doing.
ShutdownEndsTheDrain ==
    (<>[]stopping) => <>(\A t \in Thread : ~ IsAlive(t))

\* No start finds a drain thread between its last pass and its end.
PromptThreads ==
    [](\A c \in Caller :
         cpc[c] = "ensure" /\ scheduler # NoThread => at[scheduler] # "returned")

\* A run is drained once its start came to _ensure_scheduler, unless a later
\* shutdown stops the queue again: "a queue that has not started, never a queue
\* that will not start" (_ensure_scheduler).
StartedQueueDrains ==
    \A r \in Run, k \in 0 .. MaxShutdowns :
        (row[r] = "queued" /\ shutdowns = k /\ \E c \in Caller : cpc[c] = "ensure")
            ~> (row[r] # "queued" \/ shutdowns # k)

\* It is drained, whatever shutdowns came before, as long as every drain thread
\* that was told to stop is gone when the next start looks at it.
QueuedRunsDrain == PromptThreads => StartedQueueDrains
=============================================================================
