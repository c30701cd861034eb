------------------------------ MODULE ChunkPool ------------------------------
(* The pool that decodes a run's chunks (pipeline/transcription.py            *)
(* _run_pending) and the runner its children are launched through             *)
(* (core/process.py CancellableProcessRunner).  Workers check for a cancel,   *)
(* launch a child, track it and wait; the run's cancel signal is acted on by  *)
(* the worker, an interruption of the collecting thread by sweeping the       *)
(* children that are tracked, twice.                                          *)
EXTENDS Naturals, FiniteSets

CONSTANTS Chunks,      \* the pending tasks are 1..Chunks, submitted in order
          Workers,
          Stubborn,    \* the chunks whose child does not exit when asked to
          SlowLaunch   \* whether a launched child may be untracked for a whole wait

ASSUME ChunkPoolAssumption ==
    Chunks \in Nat /\ Workers \in Nat \ {0} /\ Stubborn \subseteq 1..Chunks /\ SlowLaunch \in BOOLEAN

Task == 1..Chunks

VARIABLES task,      \* each future: queued, checked, launched, waiting, or how it ended
          child,     \* its process: none, alive, asked (to exit), dead
          broke,     \* the children that exited with an error
          tracked,   \* the runner's _procs
          swept,     \* the children terminate_all took from it
          collector, \* the thread in as_completed
          collected,
          runCancel, poolCancel
poolVars == <<task, child, broke, tracked, swept, collector, collected, runCancel, poolCancel>>

PoolInit ==
    /\ task = [t \in Task |-> "queued"] /\ child = [t \in Task |-> "none"]
    /\ broke = {} /\ tracked = {} /\ swept = {}
    /\ collector = "collecting" /\ collected = {}
    /\ runCancel = FALSE /\ poolCancel = FALSE

Over == {"done", "failed", "stopped", "cancelled"}
Ended(t) == task[t] \in Over
Busy == {t \in Task : task[t] \in {"checked", "launched", "waiting"}}
Cancelled == runCancel \/ poolCancel
Move(t, s) == task' = [task EXCEPT ![t] = s]
CollectorVars == <<swept, collector, collected>>
Signals == <<runCancel, poolCancel>>
-----------------------------------------------------------------------------
(* A worker thread.                                                          *)
\* _run_chunk_checked, on the oldest queued future.
Takes(t) ==
    /\ task[t] = "queued" /\ Cardinality(Busy) < Workers
    /\ \A u \in Task : u < t => task[u] # "queued"
    /\ Move(t, IF Cancelled THEN "stopped" ELSE "checked")
    /\ UNCHANGED <<child, broke, tracked, CollectorVars, Signals>>

\* CancellableProcessRunner.run refuses a launch after a cancellation.
Launches(t) ==
    /\ task[t] = "checked"
    /\ IF Cancelled
       THEN Move(t, "stopped") /\ UNCHANGED child
       ELSE Move(t, "launched") /\ child' = [child EXCEPT ![t] = "alive"]
    /\ UNCHANGED <<broke, tracked, CollectorVars, Signals>>

\* The child runs before the runner has it in its list.
Tracks(t) ==
    /\ task[t] = "launched"
    /\ Move(t, "waiting") /\ tracked' = tracked \cup {t}
    /\ UNCHANGED <<child, broke, CollectorVars, Signals>>

ChildIsToStop_PoolOnly == poolCancel
ChildIsToStop == runCancel

\* _wait looks at the run's signal between its slices: the child is asked to
\* exit where its handle is, and is not tracked any more.
NoticesTheCancel(t) ==
    /\ task[t] = "waiting" /\ ChildIsToStop
    /\ child' = [child EXCEPT ![t] = IF @ = "alive" THEN "asked" ELSE @]
    /\ Move(t, "stopped") /\ tracked' = tracked \ {t}
    /\ UNCHANGED <<broke, CollectorVars, Signals>>

\* communicate returns: the chunk's segments, or a backend's error.
Reaps(t) ==
    /\ task[t] = "waiting" /\ child[t] = "dead"
    /\ Move(t, IF t \in broke THEN "failed" ELSE "done") /\ tracked' = tracked \ {t}
    /\ UNCHANGED <<child, broke, CollectorVars, Signals>>

Decodes(t) ==
    /\ child[t] = "alive" \/ (child[t] = "asked" /\ t \in Stubborn)
    /\ child' = [child EXCEPT ![t] = "dead"]
    /\ broke' \in {broke, broke \cup {t}}
    /\ UNCHANGED <<task, tracked, CollectorVars, Signals>>

ChildDies(t) ==
    /\ child[t] = "asked" /\ t \notin Stubborn
    /\ child' = [child EXCEPT ![t] = "dead"] /\ broke' = broke \cup {t}
    /\ UNCHANGED <<task, tracked, CollectorVars, Signals>>
-----------------------------------------------------------------------------
(* The collecting thread.                                                    *)
Asks(S) == child' = [t \in Task |-> IF t \in S /\ child[t] = "alive" THEN "asked" ELSE child[t]]
Kills(S) == /\ child' = [t \in Task |-> IF t \in S /\ child[t] # "none" THEN "dead" ELSE child[t]]
            /\ broke' = broke \cup {t \in S : child[t] \in {"alive", "asked"}}
At(c) == collector = c
Then(c) == collector' = c

Collects(t) ==
    /\ At("collecting") /\ Ended(t) /\ t \notin collected
    /\ collected' = collected \cup {t}
    /\ Then(IF task[t] = "done" THEN "collecting"
            ELSE IF task[t] = "failed" THEN "erring" ELSE "cancelling")
    /\ UNCHANGED <<task, child, broke, tracked, swept, Signals>>

Interrupts ==
    /\ At("collecting") /\ Then("cancelling")
    /\ UNCHANGED <<task, child, broke, tracked, swept, collected, Signals>>

\* runner.cancel, and every future that has not started.
CancelsTheRest ==
    /\ At("cancelling") /\ Then("sweeping")
    /\ poolCancel' = TRUE
    /\ task' = [t \in Task |-> IF task[t] = "queued" THEN "cancelled" ELSE task[t]]
    /\ UNCHANGED <<child, broke, tracked, swept, collected, runCancel>>

\* terminate_all: the tracked children are asked to exit ...
Sweeps ==
    /\ At("sweeping") /\ Then("grace")
    /\ swept' = tracked /\ Asks(tracked)
    /\ UNCHANGED <<task, broke, tracked, collected, Signals>>

\* ... and those still there when the grace ends are killed.
GraceEnds ==
    /\ At("grace") /\ Then("joining")
    /\ IF \A t \in swept : child[t] = "dead" THEN UNCHANGED <<child, broke>> ELSE Kills(swept)
    /\ UNCHANGED <<task, tracked, swept, collected, Signals>>

\* wait(futures, timeout=_CANCEL_GRACE_S)
WaitEnds ==
    /\ At("joining") /\ Then("sweeping again")
    /\ SlowLaunch \/ \A t \in Task : task[t] # "launched"
    /\ UNCHANGED <<task, child, broke, tracked, swept, collected, Signals>>

SecondSweep_None == {}
\* terminate_all(grace=0.0): asked, and killed at once.
SecondSweep == tracked

SweepsAgain ==
    /\ At("sweeping again") /\ Then("raised")
    /\ swept' = SecondSweep /\ Kills(SecondSweep)
    /\ UNCHANGED <<task, tracked, collected, Signals>>

\* pool.shutdown(wait=True), after the last chunk or after a failed one.
AllEnded_Collected == \A t \in collected : Ended(t)
AllEnded == \A t \in Task : Ended(t)
RaisesTheError ==
    /\ At("erring") /\ AllEnded /\ Then("failed")
    /\ UNCHANGED <<task, child, broke, tracked, swept, collected, Signals>>

Returns ==
    /\ At("collecting") /\ collected = Task /\ Then("returned")
    /\ UNCHANGED <<task, child, broke, tracked, swept, collected, Signals>>

CancelIsAsked ==
    /\ ~runCancel /\ runCancel' = TRUE
    /\ UNCHANGED <<task, child, broke, tracked, CollectorVars, poolCancel>>

Worker(t) == Takes(t) \/ Launches(t) \/ Tracks(t) \/ NoticesTheCancel(t) \/ Reaps(t)
Collector == \/ \E t \in Task : Collects(t)
             \/ CancelsTheRest \/ Sweeps \/ GraceEnds \/ WaitEnds \/ SweepsAgain
             \/ RaisesTheError \/ Returns
Finished == /\ collector \in {"raised", "failed", "returned"} /\ AllEnded
            /\ \A t \in Task : child[t] \in {"none", "dead"}
            /\ UNCHANGED poolVars
PoolNext == \/ \E t \in Task : Worker(t) \/ Decodes(t) \/ ChildDies(t)
            \/ Collector \/ Interrupts \/ CancelIsAsked \/ Finished

(* Threads run, and a child that is asked to exit and heeds it exits.  A      *)
(* decode may hang, and nobody has to press Ctrl-C or ask the run to stop.    *)
PoolFairness ==
    /\ \A t \in Task : WF_poolVars(Worker(t)) /\ WF_poolVars(ChildDies(t))
    /\ WF_poolVars(Collector)
PoolSpec == PoolInit /\ [][PoolNext]_poolVars /\ PoolFairness
-----------------------------------------------------------------------------
PoolTypeOK ==
    /\ task \in [Task -> Over \cup {"queued", "checked", "launched", "waiting"}]
    /\ child \in [Task -> {"none", "alive", "asked", "dead"}]
    /\ broke \subseteq Task /\ tracked \subseteq Task /\ swept \subseteq Task
    /\ collector \in {"collecting", "erring", "cancelling", "sweeping", "grace", "joining",
                      "sweeping again", "raised", "failed", "returned"}
    /\ collected \subseteq Task /\ runCancel \in BOOLEAN /\ poolCancel \in BOOLEAN

(* "Terminate only this pool's in-flight children, then re-raise": once the   *)
(* interruption has been raised no child decodes on unasked, whenever it was  *)
(* launched, unless its worker has yet to look at the run's signal.           *)
NoChildOutlivesTheCancel ==
    collector = "raised" =>
        \A t \in Task : child[t] = "alive" => runCancel /\ task[t] \in {"launched", "waiting"}

(* A failed chunk: "finish the already submitted work so its cache is         *)
(* complete, then propagate" - the error is raised over no work in flight.    *)
ErrorsWaitForTheRest ==
    collector = "failed" => \A t \in Task : Ended(t) /\ child[t] # "alive"

(* A cancel, the run's or Ctrl-C, is honoured: the pool raises or returns,    *)
(* and no child that exits when asked is left.                                *)
CancelIsHonoured ==
    Cancelled ~> /\ collector \in {"raised", "failed", "returned"}
                 /\ \A t \in Task \ Stubborn : child[t] \in {"none", "dead"}
=============================================================================
