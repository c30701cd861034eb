-------------------------------- MODULE MCNode --------------------------------
(* The threads of one node, for TLC: the drain thread and its callers, the    *)
(* emitter of webhooks, the pool of a transcribe stage, and the servers and   *)
(* the tray around the node's files.  They share no variable, so a step of    *)
(* one changes nothing another reads, and a behaviour of the node is one      *)
(* behaviour of each; `part` says which of them this behaviour is of, and the *)
(* others stay as they begin.                                                 *)
EXTENDS WebhookDelivery, DrainThread, LocalNode, ChunkPool, TLC

CONSTANTS e1, e2, a, b,         \* two events, two endpoints
          c1, c2,               \* two callers of the manager
          s1, t1                \* a served node and the tray's

MCEvent    == {e1, e2}
MCEndpoint == {a, b}
MCUnsigned == {b}
TwoCallers == {c1, c2}
\* The served node is told the tray's own port, or another.
TwoPlans   == {(s1 :> 1) @@ (t1 :> 1), (s1 :> 2) @@ (t1 :> 1)}

VARIABLE part

webhookVars == vars
allVars == <<part, webhookVars, managerVars, nodeVars, poolVars>>

\* The constructor with start_queue=False, for the behaviours of other parts.
QuietDrain == stopping /\ scheduler = NoThread

NodePartsInit ==
    /\ part \in {"webhooks", "drain", "node", "pool"}
    /\ Init /\ NodeInit /\ PoolInit
    /\ DrainInit
    /\ part # "drain" => QuietDrain

WebhooksStep == part = "webhooks" /\ Next /\ UNCHANGED <<part, managerVars, nodeVars, poolVars>>
DrainStep    == part = "drain" /\ DrainNext /\ UNCHANGED <<part, webhookVars, nodeVars, poolVars>>
LocalStep    == part = "node" /\ NodeNext /\ UNCHANGED <<part, webhookVars, managerVars, poolVars>>
PoolStep     == part = "pool" /\ PoolNext /\ UNCHANGED <<part, webhookVars, managerVars, nodeVars>>

NodePartsNext == WebhooksStep \/ DrainStep \/ LocalStep \/ PoolStep

\* The fairness of each part, in the behaviours that are of it.
NodePartsFairness ==
    /\ WF_vars(part = "webhooks" /\ ((\E p \in Endpoint : PutJob(p)) \/ EmitReturns))
    /\ WF_vars(part = "webhooks" /\ Work)
    /\ WF_vars(part = "webhooks" /\ FlushReturns)
    /\ \A t \in Thread : WF_managerVars(part = "drain" /\ ThreadStep(t))
    /\ \A c \in Caller : WF_managerVars(part = "drain" /\ EnsureScheduler(c))
    /\ \A n \in Server : WF_nodeVars(part = "node" /\ Works(n))
    /\ \A k \in Keeper : WF_nodeVars(part = "node" /\ Refreshes(k))
    /\ WF_nodeVars(part = "node" /\ TrayRestarts)
    /\ \A t \in Task : WF_poolVars(part = "pool" /\ Worker(t)) /\ WF_poolVars(part = "pool" /\ ChildDies(t))
    /\ WF_poolVars(part = "pool" /\ Collector)

NodePartsSpec == NodePartsInit /\ [][NodePartsNext]_allVars /\ NodePartsFairness

\* Every variable of every part keeps its type.
NodePartsTypeOK == TypeOK /\ DrainTypeOK /\ NodeTypeOK /\ PoolTypeOK

-----------------------------------------------------------------------------
(* Parts of the properties that are checked together. *)

\* At most one drain thread works, and a wait that returned saw every effect
\* of the run it waited for (DrainThread); a cancelled pool leaves no child, and
\* tells of its error when all have ended (ChunkPool).
ThreadsHold ==
    /\ OneDrainThread /\ WaitSeesTheEffects
    /\ NoChildOutlivesTheCancel /\ ErrorsWaitForTheRest

\* The files a node is found by are true of the processes (LocalNode).
NodeFilesHold == RecordNamesALiveServer /\ NoSessionWithoutAFile

\* What the node owes whoever waits on it: an answer to a flush, the end of a
\* drain that was asked to stop, the start of a run that waits, a session the
\* tray can open, a node for the tray, the end of a cancelled pool.
NodeAnswers ==
    /\ FlushAnswers
    /\ ShutdownEndsTheDrain /\ QueuedRunsDrain
    /\ KeeperRestoresTheSession /\ TrayFindsANode
    /\ CancelIsHonoured
=============================================================================
