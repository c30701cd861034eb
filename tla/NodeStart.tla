----------------------------- MODULE NodeStart ------------------------------
(* Commands that need a node (cli/cli.py ensure_node): each asks for the      *)
(* recorded node, starts one as a detached process when nothing answers, and  *)
(* polls until one answers, its own child has been gone for a grace, or a     *)
(* deadline passes.  Nodes started at once race for one port; the loser       *)
(* exits, and the winner records its address a moment after its bind.         *)
EXTENDS Naturals, FiniteSets

CONSTANTS Command,
          Stranger,     \* another program that may hold the port
          NoNode,
          Deadline,     \* _NODE_START_TIMEOUT, in polls
          Grace,        \* _NODE_RACE_GRACE, in polls
          Startup,      \* the most a node needs to bind, and again to answer
          StartEvents, MaxStartEvents, MaxNow

ASSUME NodeStartAssumption ==
    /\ IsFiniteSet(Command) /\ Stranger \notin Command /\ NoNode \notin Command \cup {Stranger}
    /\ Deadline \in Nat /\ Grace \in Nat /\ Startup \in Nat
    /\ MaxStartEvents \in Nat /\ MaxNow \in Nat

\* A command's child node bears the command's name.
VARIABLES cmd,       \* [phase, deadline, stoppedAt]; stoppedAt is NotYet or a time
          polled,    \* commands that polled since the clock last moved
          node,      \* [phase, since] of each child
          port,      \* who listens on it
          recordOf,  \* the node the address record names
          unwritable,\* the state directory cannot be written
          given,     \* the node each command was given
          now, befell
startVars == <<cmd, polled, node, port, recordOf, unwritable, given, now, befell>>

NotYet == MaxNow + 1
StartInit ==
    /\ cmd = [c \in Command |-> [phase |-> "idle", deadline |-> 0, stoppedAt |-> NotYet]]
    /\ polled = {} /\ node = [c \in Command |-> [phase |-> "none", since |-> 0]]
    /\ port \in {NoNode, Stranger} /\ recordOf = NoNode /\ unwritable \in BOOLEAN
    /\ given = [c \in Command |-> NoNode]
    /\ now = 0 /\ befell = 0

Strikes(e) == e \in StartEvents /\ befell < MaxStartEvents /\ befell' = befell + 1
Becomes(n, phase) == node' = [node EXCEPT ![n] = [phase |-> phase, since |-> now]]
Goes(c, phase) == cmd' = [cmd EXCEPT ![c].phase = phase]
ChildAlive(n) == node[n].phase \in {"starting", "bound", "recorded"}
\* node.ask: the recorded address, and one request that it answers.
Answering == recordOf # NoNode /\ node[recordOf].phase = "recorded"
-----------------------------------------------------------------------------
(* The node: bind or give up, then record and answer.                        *)
Binds(n) ==
    /\ node[n].phase = "starting"
    /\ IF port = NoNode THEN port' = n /\ Becomes(n, "bound")
                        ELSE UNCHANGED port /\ Becomes(n, "gone")
    /\ UNCHANGED <<cmd, polled, recordOf, unwritable, given, now, befell>>

\* A state directory that cannot be written costs the record, not the node.
Records(n) ==
    /\ node[n].phase = "bound"
    /\ Becomes(n, "recorded")
    /\ recordOf' = IF unwritable THEN recordOf ELSE n
    /\ UNCHANGED <<cmd, polled, port, unwritable, given, now, befell>>

\* Killed: the record it wrote stays.
ChildKilled(n) ==
    /\ ChildAlive(n) /\ Strikes("dies")
    /\ Becomes(n, "gone") /\ port' = IF port = n THEN NoNode ELSE port
    /\ UNCHANGED <<cmd, polled, recordOf, unwritable, given, now>>
-----------------------------------------------------------------------------
(* ensure_node.                                                              *)
Attach(c) == given' = [given EXCEPT ![c] = recordOf] /\ Goes(c, "attached")

AsksForNode(c) ==
    /\ cmd[c].phase = "idle" /\ now + Deadline < MaxNow
    /\ IF Answering THEN Attach(c) ELSE Goes(c, "starting") /\ UNCHANGED given
    /\ UNCHANGED <<polled, node, port, recordOf, unwritable, now, befell>>

StartsNode(c) ==
    /\ cmd[c].phase = "starting"
    /\ \/ /\ Becomes(c, "starting")
          /\ cmd' = [cmd EXCEPT ![c] = [phase |-> "polling", deadline |-> now + Deadline,
                                        stoppedAt |-> NotYet]]
          /\ UNCHANGED befell
       \/ Strikes("nospawn") /\ Goes(c, "none") /\ UNCHANGED node
    /\ UNCHANGED <<polled, port, recordOf, unwritable, given, now>>

\* The child that exited is given its grace from the poll that noticed it.
StoppedAt(c) == IF ChildAlive(c) THEN NotYet
                ELSE IF cmd[c].stoppedAt = NotYet THEN now ELSE cmd[c].stoppedAt
GraceOver_AtOnce(c) == StoppedAt(c) # NotYet
GraceOver(c) == StoppedAt(c) # NotYet /\ now >= StoppedAt(c) + Grace
GivesUp_OnGrace(c) == GraceOver(c)
GivesUp(c) == GraceOver(c) \/ now >= cmd[c].deadline

\* A node that did start is left running, and said so.
Verdict_Same(c) == "none"
Verdict(c) == IF ChildAlive(c) THEN "unfindable" ELSE "none"

Polls(c) ==
    /\ cmd[c].phase = "polling" /\ c \notin polled
    /\ polled' = polled \cup {c}
    /\ IF Answering THEN Attach(c)
       ELSE /\ cmd' = [cmd EXCEPT ![c].stoppedAt = StoppedAt(c),
                                  ![c].phase = IF GivesUp(c) THEN Verdict(c) ELSE "polling"]
            /\ UNCHANGED given
    /\ UNCHANGED <<node, port, recordOf, unwritable, now, befell>>

(* The run's submission, in _node_step: a node that is gone, or whose answer  *)
(* is lost, ends the command on that sentence.                                *)
Submits(c) ==
    /\ cmd[c].phase = "attached"
    /\ \/ node[given[c]].phase = "recorded" /\ Goes(c, "running") /\ UNCHANGED befell
       \/ node[given[c]].phase = "recorded" /\ Strikes("lost") /\ Goes(c, "gone")
       \/ node[given[c]].phase = "gone" /\ Goes(c, "gone") /\ UNCHANGED befell
    /\ UNCHANGED <<polled, node, port, recordOf, unwritable, given, now>>

\* The clock waits for every command's poll, and for no node longer than Startup.
Tick ==
    /\ now < MaxNow /\ now' = now + 1 /\ polled' = {}
    /\ \A c \in Command : cmd[c].phase = "polling" => c \in polled
    /\ \A c \in Command : cmd[c].phase # "starting"
    /\ \A n \in Command : node[n].phase \in {"starting", "bound"} =>
           \/ now < node[n].since + Startup
           \/ "slow" \in StartEvents
    /\ UNCHANGED <<cmd, node, port, recordOf, unwritable, given, befell>>

Ensures(c) == StartsNode(c) \/ Polls(c) \/ Submits(c)
StartNext == \/ \E c \in Command : AsksForNode(c) \/ Ensures(c)
             \/ \E n \in Command : Binds(n) \/ Records(n) \/ ChildKilled(n)
             \/ Tick
StartSpec == StartInit /\ [][StartNext]_startVars
-----------------------------------------------------------------------------
StartTypeOK ==
    /\ cmd \in [Command -> [phase : {"idle", "starting", "polling", "attached", "running",
                                     "gone", "none", "unfindable"},
                            deadline : 0..(MaxNow + Deadline), stoppedAt : 0..NotYet]]
    /\ polled \subseteq Command
    /\ node \in [Command -> [phase : {"none", "starting", "bound", "recorded", "gone"},
                             since : 0..MaxNow]]
    /\ port \in Command \cup {NoNode, Stranger} /\ recordOf \in Command \cup {NoNode}
    /\ unwritable \in BOOLEAN /\ given \in [Command -> Command \cup {NoNode}]
    /\ now \in 0..MaxNow /\ befell \in 0..MaxStartEvents

(* The race two commands run: when a node has the port and is on its way to   *)
(* answering, no command that lost the race says there is none -- the grace   *)
(* covers the time from a bind to a record -- unless that node's record       *)
(* cannot be written, or it or the command's own child was killed.            *)
TheWinnerIsFound ==
    \A c \in Command : cmd[c].phase = "none" /\ node[c].phase = "gone" /\ Startup < Grace
                       /\ "slow" \notin StartEvents /\ befell = 0 /\ ~unwritable
        => port \notin Command

(* A node a command started and that serves can be found by its record, or    *)
(* the command has said that it is left running, or is still looking: the one *)
(* sentence about no node is never said over a live child.                    *)
NoNodeIsLost ==
    \A c \in Command : node[c].phase = "recorded"
        => recordOf = c \/ cmd[c].phase \in {"polling", "unfindable"}

(* Every command that needs a node gets one or says why not in the time it    *)
(* allows itself, also when its own child lives on without answering.         *)
EnsuringEndsInTime == \A c \in Command : cmd[c].phase = "polling" => now <= cmd[c].deadline
=============================================================================
