----------------------------- MODULE HelloCheck -----------------------------
(* The hello-world check (service/agent_flow.py run_hello_check): one tape,   *)
(* spoken into a scratch workspace that every check wipes and re-uses, taken  *)
(* through ingest and transcription, and read back.  Clicks come from request *)
(* threads of one node, which _CHECK_LOCK serialises, or from two nodes that  *)
(* share the state directory, which nothing does.                             *)
EXTENDS Naturals, FiniteSets

CONSTANTS Checker,      \* request threads that run the check
          NodeOf,       \* the process of each
          NoChecker,
          CheckEvents,  \* what may be missing or fail: see Missed
          MaxCheckEvents, MaxClicks

ASSUME HelloCheckAssumption ==
    /\ IsFiniteSet(Checker) /\ NoChecker \notin Checker /\ DOMAIN NodeOf = Checker
    /\ MaxCheckEvents \in Nat /\ MaxClicks \in Nat

VARIABLES checker,   \* where each checker is; its lock is held in between
          checkSpace,   \* the workspace: whose tape, whose audio, whose transcript
          crossed,   \* checkers that ran while another node used the workspace
          clicks, missed
checkVars == <<checker, checkSpace, crossed, clicks, missed>>

Blank == [tape |-> NoChecker, audio |-> NoChecker, words |-> NoChecker]
CheckInit == /\ checker = [c \in Checker |-> "idle"] /\ checkSpace = Blank
             /\ crossed = {} /\ clicks = 0 /\ missed = 0

Missed(e) == e \in CheckEvents /\ missed < MaxCheckEvents /\ missed' = missed + 1
CheckIs(c, phase) == checker' = [checker EXCEPT ![c] = phase]
Busy(c) == checker[c] \notin {"idle", "finding", "ok"}

LockFree_Always(c) == TRUE
LockFree(c) == \A d \in Checker : NodeOf[d] = NodeOf[c] => ~Busy(d)

Elsewhere(c) == {d \in Checker : Busy(d) /\ NodeOf[d] # NodeOf[c]}

Wipes(c) ==
    /\ ~Busy(c) /\ LockFree(c) /\ clicks < MaxClicks /\ clicks' = clicks + 1
    /\ CheckIs(c, "wiped") /\ checkSpace' = Blank
    /\ crossed' = (crossed \ {c}) \cup Elsewhere(c) \cup {d \in {c} : Elsewhere(c) # {}}
    /\ UNCHANGED missed

\* No voice, no backend, no checkpoint on disk: each is a finding, and the
\* check never fetches anything.
Speaks(c) ==
    /\ checker[c] = "wiped"
    /\ \/ checkSpace' = [checkSpace EXCEPT !.tape = c] /\ CheckIs(c, "spoken") /\ UNCHANGED missed
       \/ Missed("novoice") /\ CheckIs(c, "finding") /\ UNCHANGED checkSpace
    /\ UNCHANGED <<crossed, clicks>>

Looks(c) ==
    /\ checker[c] = "spoken"
    /\ \/ CheckIs(c, "ready") /\ UNCHANGED missed
       \/ (Missed("nobackend") \/ Missed("nomodel")) /\ CheckIs(c, "finding")
    /\ UNCHANGED <<checkSpace, crossed, clicks>>

Ingests(c) ==
    /\ checker[c] = "ready"
    /\ IF checkSpace.tape = NoChecker THEN CheckIs(c, "finding") /\ UNCHANGED checkSpace
       ELSE CheckIs(c, "ingested") /\ checkSpace' = [checkSpace EXCEPT !.audio = checkSpace.tape]
    /\ UNCHANGED <<crossed, clicks, missed>>

Transcribes(c) ==
    /\ checker[c] = "ingested"
    /\ IF checkSpace.audio = NoChecker THEN CheckIs(c, "finding") /\ UNCHANGED checkSpace
       ELSE CheckIs(c, "transcribed") /\ checkSpace' = [checkSpace EXCEPT !.words = checkSpace.audio]
    /\ UNCHANGED <<crossed, clicks, missed>>

Shown(c) == checkSpace.words
Reads(c) ==
    /\ checker[c] = "transcribed"
    /\ CheckIs(c, IF Shown(c) = NoChecker THEN "finding" ELSE "ok")
    /\ UNCHANGED <<checkSpace, crossed, clicks, missed>>

\* The node is killed, or its request dropped, in the middle of a check.
CheckerDies(c) ==
    /\ Busy(c) /\ Missed("kill")
    /\ checker' = [d \in Checker |-> IF NodeOf[d] = NodeOf[c] THEN "idle" ELSE checker[d]]
    /\ UNCHANGED <<checkSpace, crossed, clicks>>

CheckWorks(c) == Speaks(c) \/ Looks(c) \/ Ingests(c) \/ Transcribes(c) \/ Reads(c)
CheckNext == \E c \in Checker : Wipes(c) \/ CheckWorks(c) \/ CheckerDies(c)
CheckSpec == CheckInit /\ [][CheckNext]_checkVars
-----------------------------------------------------------------------------
CheckTypeOK ==
    /\ checker \in [Checker -> {"idle", "wiped", "spoken", "ready", "ingested", "transcribed",
                                "finding", "ok"}]
    /\ checkSpace \in [{"tape", "audio", "words"} -> Checker \cup {NoChecker}]
    /\ crossed \subseteq Checker /\ clicks \in 0..MaxClicks /\ missed \in 0..MaxCheckEvents

(* A check that says the chain worked shows the transcript of its own tape,   *)
(* whatever other clicks do in the one workspace, unless another node's check *)
(* ran at the same time (run_hello_check under _CHECK_LOCK).                  *)
CheckShowsItsOwnTape ==
    [][\A c \in Checker : checker[c] = "transcribed" /\ checker'[c] = "ok"
          => Shown(c) = c \/ c \in crossed]_checkVars
=============================================================================
