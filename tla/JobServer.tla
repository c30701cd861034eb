------------------------------ MODULE JobServer ------------------------------
(* The machine-local jobserver the test recipes throttle through              *)
(* (scripts/jobserver.py): a named pipe whose bytes are tokens, the detached  *)
(* keeper that holds it open, seeds it and tops it up when tokens leak, and   *)
(* `init`, which finds or makes both under a file lock.  Workers are pytest   *)
(* processes: one token per running test, read from the pipe and written      *)
(* back (the pytest plugin is external).                                      *)
EXTENDS Naturals, FiniteSets

CONSTANTS Tester,        \* slots for worker processes
          Tokens,        \* --tokens
          EmptyProbes,   \* --empty-probes
          MaxInits,      \* how often `init` runs
          MaxKeepers,    \* how many keepers those may start
          MaxKills,      \* processes killed: workers, keepers
          MaxSurplus     \* workers that may leave inside a top-up's window

ASSUME JobServerAssumption ==
    /\ IsFiniteSet(Tester) /\ Tokens \in Nat \ {0} /\ EmptyProbes \in Nat \ {0}
    /\ MaxInits \in Nat /\ MaxKeepers \in Nat /\ MaxKills \in Nat /\ MaxSurplus \in Nat

PoolKeeper == 1..MaxKeepers
Inode == 1..MaxInits
Nil == 0

VARIABLES path,      \* the inode the pipe's path names
          made,      \* inodes made so far
          pool,      \* the bytes in each inode's pipe
          tester,    \* [phase, at]: at is the inode the worker has open
          poolKeeper, \* [phase, at, empty, missing]
          pidFile,   \* the keeper the file beside the pipe names
          init,      \* where the one `init` that has the lock is
          inits, spawned, kills,
          early,     \* workers that opened the pipe while `init` was replacing it
          slowKeepers, \* keepers that took longer than `init` waits
          surplus    \* workers that left between the two reads of a top-up
initVars == <<init, inits, spawned>>
marks    == <<early, slowKeepers, surplus>>
jobVars  == <<path, made, pool, tester, poolKeeper, pidFile, initVars, kills, marks>>

JobInit ==
    /\ path = Nil /\ made = 0 /\ pool = [i \in Inode |-> 0]
    /\ tester = [w \in Tester |-> [phase |-> "idle", at |-> Nil]]
    /\ poolKeeper = [k \in PoolKeeper |-> [phase |-> "none", at |-> Nil, empty |-> 0, missing |-> 0]]
    /\ pidFile = Nil /\ init = "idle" /\ inits = 0 /\ spawned = 0 /\ kills = 0
    /\ early = {} /\ slowKeepers = {} /\ surplus = 0

Alive(k) == poolKeeper[k].phase \notin {"none", "dead"}
KeeperPid == IF pidFile # Nil /\ Alive(pidFile) THEN pidFile ELSE Nil
WorkersAt(i) == {w \in Tester : tester[w].at = i}
KeepersAt(i) == {k \in PoolKeeper : Alive(k) /\ poolKeeper[k].at = i}
\* What /proc shows of the pipe the path names now, the asking process left out.
Holders(k) == IF path = Nil THEN 0
              ELSE Cardinality(WorkersAt(path)) + Cardinality(KeepersAt(path) \ {k})

\* The last descriptor closed frees the pipe, tokens and all.
Left(i, ws, ks) == IF ws = {} /\ ks = {} THEN [pool EXCEPT ![i] = 0] ELSE pool
-----------------------------------------------------------------------------
(* A worker: opens the pipe it was handed, takes a token for a test, writes   *)
(* it back, closes; killed, it keeps what it holds.                           *)
Opens(w) ==
    /\ tester[w].phase = "idle" /\ path # Nil
    /\ tester' = [tester EXCEPT ![w] = [phase |-> "waiting", at |-> path]]
    /\ early' = IF init = "replacing" THEN early \cup {w} ELSE early
    /\ UNCHANGED <<path, made, pool, poolKeeper, pidFile, initVars, kills, slowKeepers, surplus>>

TakesToken(w) ==
    /\ tester[w].phase = "waiting" /\ pool[tester[w].at] > 0
    /\ pool' = [pool EXCEPT ![tester[w].at] = @ - 1]
    /\ tester' = [tester EXCEPT ![w].phase = "testing"]
    /\ UNCHANGED <<path, made, poolKeeper, pidFile, initVars, kills, marks>>

GivesBack(w) ==
    /\ tester[w].phase = "testing"
    /\ pool' = [pool EXCEPT ![tester[w].at] = @ + 1]
    /\ tester' = [tester EXCEPT ![w].phase = "between"]
    /\ UNCHANGED <<path, made, poolKeeper, pidFile, initVars, kills, marks>>

\* A keeper that saw the pipe empty before w's token came back counts the
\* processes without w.
Slips(w) == IF tester[w].phase = "testing" THEN 0
            ELSE Cardinality({k \in KeepersAt(tester[w].at) : poolKeeper[k].phase = "sized"})
Gone(w) == /\ tester' = [tester EXCEPT ![w] = [phase |-> "idle", at |-> Nil]]
           /\ early' = early \ {w}
           /\ surplus + Slips(w) <= MaxSurplus
           /\ surplus' = surplus + Slips(w)
           /\ pool' = Left(tester[w].at, WorkersAt(tester[w].at) \ {w}, KeepersAt(tester[w].at))

\* The next test, or the end of the run.
Again(w) ==
    /\ tester[w].phase = "between"
    /\ \/ tester' = [tester EXCEPT ![w].phase = "waiting"] /\ UNCHANGED <<pool, early, surplus>>
       \/ Gone(w)
    /\ UNCHANGED <<path, made, poolKeeper, pidFile, initVars, kills, slowKeepers>>

WorkerKilled(w) ==
    /\ tester[w].phase # "idle" /\ kills < MaxKills
    /\ kills' = kills + 1 /\ Gone(w)
    /\ UNCHANGED <<path, made, poolKeeper, pidFile, initVars, slowKeepers>>
-----------------------------------------------------------------------------
(* The keeper: open, top_up, write the pid, then probe for ever.             *)
Keeps(k, phase) == poolKeeper' = [poolKeeper EXCEPT ![k].phase = phase]

KeeperOpens(k) ==
    /\ poolKeeper[k].phase = "spawned"
    /\ poolKeeper' = IF path = Nil THEN [poolKeeper EXCEPT ![k].phase = "dead"]
                     ELSE [poolKeeper EXCEPT ![k].phase = "seeding", ![k].at = path]
    /\ UNCHANGED <<path, made, pool, tester, pidFile, initVars, kills, marks>>

LeakWatched_Late(k) == poolKeeper[k].empty > EmptyProbes
LeakWatched(k) == poolKeeper[k].empty >= EmptyProbes

\* Back in the loop, or on to the pid when this was the first top-up.
AfterTopUp(k) == [poolKeeper[k] EXCEPT !.phase = IF poolKeeper[k].empty = 0 THEN "seeded" ELSE "probing",
                                   !.empty = 0, !.missing = 0]

\* top_up, in its three reads and writes: the pipe, then /proc, then the bytes.
SizesPipe(k) ==
    /\ poolKeeper[k].phase = "seeding" \/ (poolKeeper[k].phase = "probing" /\ LeakWatched(k))
    /\ poolKeeper' = [poolKeeper EXCEPT ![k] = IF pool[poolKeeper[k].at] > 0 THEN AfterTopUp(k)
                                           ELSE [@ EXCEPT !.phase = "sized"]]
    /\ UNCHANGED <<path, made, pool, tester, pidFile, initVars, kills, marks>>

Missing_CountsItself(k) == IF Holders(Nil) < Tokens THEN Tokens - Holders(Nil) ELSE 0
Missing_All(k) == Tokens
Missing(k) == IF Holders(k) < Tokens THEN Tokens - Holders(k) ELSE 0

CountsHolders(k) ==
    /\ poolKeeper[k].phase = "sized"
    /\ poolKeeper' = [poolKeeper EXCEPT ![k].phase = "counted", ![k].missing = Missing(k)]
    /\ UNCHANGED <<path, made, pool, tester, pidFile, initVars, kills, marks>>

Writes(k) ==
    /\ poolKeeper[k].phase = "counted"
    /\ pool' = [pool EXCEPT ![poolKeeper[k].at] = @ + poolKeeper[k].missing]
    /\ poolKeeper' = [poolKeeper EXCEPT ![k] = AfterTopUp(k)]
    /\ UNCHANGED <<path, made, tester, pidFile, initVars, kills, marks>>

WritesPid(k) ==
    /\ poolKeeper[k].phase = "seeded"
    /\ pidFile' = k /\ Keeps(k, "probing")
    /\ UNCHANGED <<path, made, pool, tester, initVars, kills, marks>>

Probes(k) ==
    /\ poolKeeper[k].phase = "probing" /\ ~LeakWatched(k)
    /\ poolKeeper' = IF pool[poolKeeper[k].at] > 0 THEN [poolKeeper EXCEPT ![k].phase = "readable"]
                     ELSE [poolKeeper EXCEPT ![k].empty = @ + 1]
    /\ UNCHANGED <<path, made, pool, tester, pidFile, initVars, kills, marks>>

\* Non-blocking: another reader may have taken the byte since the select.
ProbeReads(k) ==
    /\ poolKeeper[k].phase = "readable"
    /\ IF pool[poolKeeper[k].at] > 0
       THEN /\ pool' = [pool EXCEPT ![poolKeeper[k].at] = @ - 1]
            /\ Keeps(k, "holding")
       ELSE poolKeeper' = [poolKeeper EXCEPT ![k].phase = "probing", ![k].empty = 0] /\ UNCHANGED pool
    /\ UNCHANGED <<path, made, tester, pidFile, initVars, kills, marks>>

PutsBack(k) == [pool EXCEPT ![poolKeeper[k].at] = @ + 1]
ProbeWrites(k) ==
    /\ poolKeeper[k].phase = "holding"
    /\ pool' = PutsBack(k)
    /\ poolKeeper' = [poolKeeper EXCEPT ![k].phase = "probing", ![k].empty = 0]
    /\ UNCHANGED <<path, made, tester, pidFile, initVars, kills, marks>>

KeeperKilled(k) ==
    /\ Alive(k) /\ kills < MaxKills
    /\ kills' = kills + 1
    /\ poolKeeper' = [poolKeeper EXCEPT ![k] = [phase |-> "dead", at |-> Nil, empty |-> 0, missing |-> 0]]
    /\ pool' = IF poolKeeper[k].at = Nil THEN pool
               ELSE Left(poolKeeper[k].at, WorkersAt(poolKeeper[k].at), KeepersAt(poolKeeper[k].at) \ {k})
    /\ UNCHANGED <<path, made, tester, pidFile, initVars, marks>>
-----------------------------------------------------------------------------
(* init, under its lock.                                                     *)
Replaces_Any == TRUE
Replaces == Holders(Nil) = 0

StartsKeeper(next) ==
    /\ spawned < MaxKeepers
    /\ spawned' = spawned + 1
    /\ poolKeeper' = [poolKeeper EXCEPT ![spawned + 1].phase = "spawned"]
    /\ init' = next

InitLooks ==
    /\ init = "idle" /\ inits < MaxInits
    /\ inits' = inits + 1
    /\ \/ path # Nil /\ KeeperPid # Nil /\ UNCHANGED <<init, spawned, poolKeeper>>
       \/ path # Nil /\ KeeperPid = Nil /\ ~Replaces /\ StartsKeeper("attaching")
       \/ /\ path = Nil \/ (KeeperPid = Nil /\ Replaces)
          /\ init' = "replacing" /\ UNCHANGED <<spawned, poolKeeper>>
    /\ UNCHANGED <<path, made, pool, tester, pidFile, kills, marks>>

\* The path, if there is one, goes with the old pid; then a new pipe.
InitMakes ==
    /\ init = "replacing"
    /\ made' = made + 1 /\ path' = made + 1 /\ pidFile' = Nil
    /\ StartsKeeper("making")
    /\ UNCHANGED <<pool, tester, inits, kills, marks>>

InitFindsItsKeeper ==
    /\ init \in {"attaching", "making"} /\ KeeperPid # Nil
    /\ init' = "idle"
    /\ UNCHANGED <<path, made, pool, tester, poolKeeper, pidFile, inits, spawned, kills, marks>>

\* KEEPER_START_TIMEOUT_SECONDS: the pipe it made is taken down again; the
\* keeper is not, and may yet open the pipe, or have.
InitGivesUp ==
    /\ init \in {"attaching", "making"} /\ KeeperPid = Nil
    /\ path' = IF init = "making" THEN Nil ELSE path
    /\ init' = "idle"
    /\ slowKeepers' = slowKeepers \cup {spawned}
    /\ early' = IF init = "making" THEN early \cup WorkersAt(path) ELSE early
    /\ UNCHANGED <<made, pool, tester, poolKeeper, pidFile, inits, spawned, kills, surplus>>

Tests(w) == TakesToken(w) \/ GivesBack(w) \/ Again(w)
KeeperRuns(k) == \/ KeeperOpens(k) \/ SizesPipe(k) \/ CountsHolders(k) \/ Writes(k) \/ WritesPid(k)
                 \/ Probes(k) \/ ProbeReads(k) \/ ProbeWrites(k)
JobNext == \/ \E w \in Tester : Opens(w) \/ Tests(w) \/ WorkerKilled(w)
           \/ \E k \in PoolKeeper : KeeperRuns(k) \/ KeeperKilled(k)
           \/ InitLooks \/ InitMakes \/ InitFindsItsKeeper \/ InitGivesUp

(* A process runs; a parked reader is woken by a byte that stays, and one     *)
(* that keeps coming back (a read is granted to each reader in turn).         *)
JobFairness == /\ \A k \in PoolKeeper : WF_jobVars(KeeperRuns(k))
               /\ \A w \in Tester : SF_jobVars(TakesToken(w)) /\ WF_jobVars(GivesBack(w) \/ Again(w))
JobSpec == JobInit /\ [][JobNext]_jobVars /\ JobFairness
-----------------------------------------------------------------------------
JobTypeOK ==
    /\ path \in {Nil} \cup Inode /\ made \in 0..MaxInits /\ pool \in [Inode -> Nat]
    /\ tester \in [Tester -> [phase : {"idle", "waiting", "testing", "between"},
                              at : {Nil} \cup Inode]]
    /\ poolKeeper \in [PoolKeeper -> [phase : {"none", "spawned", "seeding", "sized", "counted", "seeded",
                                       "probing", "readable", "holding", "dead"},
                              at : {Nil} \cup Inode, empty : 0..EmptyProbes, missing : 0..Tokens]]
    /\ pidFile \in {Nil} \cup PoolKeeper /\ init \in {"idle", "replacing", "attaching", "making"}
    /\ inits \in 0..MaxInits /\ spawned \in 0..MaxKeepers /\ kills \in 0..MaxKills
    /\ early \subseteq Tester /\ slowKeepers \subseteq PoolKeeper /\ surplus \in 0..MaxSurplus

(* What every test of one pipe may run on at once: the bytes in it, the ones  *)
(* tests hold and the one a probe holds.                                      *)
InUse(i) == Cardinality({w \in WorkersAt(i) : tester[w].phase = "testing"})
            + Cardinality({k \in KeepersAt(i) : poolKeeper[k].phase = "holding"})

(* "The top-up writes only what the pool is missing": whoever attaches and    *)
(* whatever leaks, a pipe never carries more tokens than it was given, but    *)
(* for those that came back while a top-up was between its two reads, and     *)
(* for a second keeper that an `init` which gave up has left behind.          *)
NeverInflated ==
    slowKeepers = {} => \A i \in Inode : pool[i] + InUse(i) <= Tokens + surplus

(* "A pipe is never unlinked while anyone still holds it": a worker's pipe is *)
(* the one the path names, unless the worker opened it while `init`, having   *)
(* found no holder, was replacing it.                                         *)
NobodyIsParkedForEver ==
    \A w \in Tester : tester[w].at # Nil => tester[w].at = path \/ w \in early

(* A pipe with a keeper comes back: a worker that waits beside a live keeper  *)
(* gets a token, however many died with theirs, as long as the processes that *)
(* hold the pipe are fewer than its tokens.                                   *)
KeptBy(k, w) == poolKeeper[k].phase # "dead" /\ poolKeeper[k].at # Nil /\ poolKeeper[k].at = tester[w].at
Crowded(w) == Cardinality(WorkersAt(tester[w].at)) + Cardinality(KeepersAt(tester[w].at)) > Tokens
WaitersAreServed ==
    \A w \in Tester, k \in PoolKeeper :
        []<>(~(tester[w].phase = "waiting" /\ KeptBy(k, w) /\ path = tester[w].at) \/ Crowded(w))

(* "A pipe it has watched empty for several consecutive probes is topped up": *)
(* the same with no condition on how many wait.                               *)
EmptyPipesAreToppedUp ==
    \A w \in Tester, k \in PoolKeeper :
        []<>~(tester[w].phase = "waiting" /\ KeptBy(k, w) /\ path = tester[w].at)
=============================================================================
