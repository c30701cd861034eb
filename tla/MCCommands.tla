------------------------------ MODULE MCCommands ------------------------------
(* The processes around a node, for TLC: commands that find or start one and  *)
(* follow a run's stream, consoles that publish themselves on the tailnet,    *)
(* tests that share the machine.  They share no variable, so a behaviour of   *)
(* all of them is one behaviour of each; `part` says which of them this       *)
(* behaviour is of, and the others stay as they begin.                        *)
EXTENDS RunStream, NodeStart, ServeMapping, JobServer

VARIABLE part

commandVars == <<part, streamVars, startVars, mappingVars, jobVars>>

CommandsInit ==
    /\ part \in {"stream", "start", "mapping", "jobs"}
    /\ StreamInit /\ StartInit /\ MappingInit /\ JobInit
    /\ part # "start" => port = NoNode /\ ~unwritable
    /\ part # "mapping" => rule = NoOwner

StreamStep  == /\ part = "stream" /\ StreamNext
               /\ UNCHANGED <<part, startVars, mappingVars, jobVars>>
StartStep   == /\ part = "start" /\ StartNext
               /\ UNCHANGED <<part, streamVars, mappingVars, jobVars>>
MappingStep == /\ part = "mapping" /\ MappingNext
               /\ UNCHANGED <<part, streamVars, startVars, jobVars>>
JobsStep    == /\ part = "jobs" /\ JobNext
               /\ UNCHANGED <<part, streamVars, startVars, mappingVars>>

CommandsNext == StreamStep \/ StartStep \/ MappingStep \/ JobsStep

\* The fairness of each part, in the behaviours that are of it.
CommandsFairness ==
    /\ \A c \in Follower : WF_streamVars(part = "stream" /\ Follows(c))
    /\ \A c \in Console : /\ WF_mappingVars(part = "mapping" /\ SetsUpOrStops(c))
                          /\ WF_mappingVars(part = "mapping" /\ Registers(c))
    /\ \A k \in PoolKeeper : WF_jobVars(part = "jobs" /\ KeeperRuns(k))
    /\ \A w \in Tester : /\ SF_jobVars(part = "jobs" /\ TakesToken(w))
                         /\ WF_jobVars(part = "jobs" /\ (GivesBack(w) \/ Again(w)))

CommandsSpec == CommandsInit /\ [][CommandsNext]_commandVars /\ CommandsFairness

-----------------------------------------------------------------------------
(* The properties of the parts that are checked together. *)

\* Every variable of every part keeps its type.
CommandsTypeOK == StreamTypeOK /\ StartTypeOK /\ MappingTypeOK /\ JobTypeOK

\* Whoever follows a run reads all of its stream (RunStream); whoever starts a
\* node finds it or is told of it, in time (NodeStart).
CommandsHold ==
    /\ StreamHolds
    /\ TheWinnerIsFound /\ NoNodeIsLost /\ EnsuringEndsInTime

\* A console leaves no mapping behind (ServeMapping); the jobserver's pipe
\* carries no token too many and parks nobody on a pipe that was replaced
\* (JobServer).
ChildrenHold ==
    /\ NoMappingWithoutItsConsole
    /\ NeverInflated /\ NobodyIsParkedForEver

\* What is owed to whoever waits: a verdict for a follower, the end of a
\* mapping with its console, a token for a test that waits beside a keeper.
CommandsAnswer ==
    /\ FollowersAreAnswered
    /\ EndingEndsTheRule
    /\ WaitersAreServed
=============================================================================
