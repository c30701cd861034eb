------------------------------ MODULE LocalNode ------------------------------
(* The node a machine's clients find (core/node.py, web/app.py NodeServer and *)
(* LocalSessionKeeper, tray/service.py): server processes that share one      *)
(* state directory, in it one address record and one local-session file, and  *)
(* one registry whose session rows the file's token names.  A server records  *)
(* itself after its bind, publishes a session, keeps it live on a timer, and  *)
(* takes both files down when it stops; the tray joins the recorded node that *)
(* answers or starts one of its own.                                          *)
EXTENDS Naturals, FiniteSets

CONSTANTS Server,       \* the processes that may run a node
          Tray,         \* the one of them that the tray embeds
          NoServer,
          PortPlans,    \* the ways the processes may be told their ports
          Supervised,   \* those started by `serve --supervise`
          NodeEvents,   \* the events the environment may cause (see Happens)
          MaxNodeEvents,\* and how many of them
          MaxTokens     \* how many sessions the nodes may open

ASSUME LocalNodeAssumption ==
    /\ IsFiniteSet(Server) /\ Tray \in Server /\ NoServer \notin Server
    /\ Supervised \subseteq Server \ {Tray}
    /\ MaxNodeEvents \in Nat /\ MaxTokens \in Nat

Token == 1..MaxTokens
NoToken == 0
\* A server that faults under supervision is replaced in the same process, and
\* the keeper thread of the first one runs on beside its successor's.
Keeper == Server \X {1, 2}

VARIABLES portOf,    \* the port each process was told to listen on
          server,    \* where each server is in NodeServer's startup and shutdown
          exiting,   \* uvicorn's should_exit
          gen,       \* which server object the process runs, 1 or 2
          record,    \* the pid in the address record
          sessionFile, \* the token in the local-session file
          rows,      \* the local sessions that are live in the registry
          issued, published, \* tokens opened; tokens ever written to the file
          keeper, held,      \* each keeper thread, and the token it is publishing
          joined, owns,      \* the tray's controller: _joined; _server or _thread
          killed,    \* processes that died without a shutdown
          stranded,  \* rows a locked registry or a dead thread left unpublished
          events
nodeVars == <<portOf, server, exiting, gen, record, sessionFile, rows, issued, published,
              keeper, held, joined, owns, killed, stranded, events>>

NodeInit ==
    /\ portOf \in PortPlans
    /\ server = [n \in Server |-> "off"]
    /\ exiting = [n \in Server |-> FALSE]
    /\ gen = [n \in Server |-> 1]
    /\ record = NoServer /\ sessionFile = NoToken
    /\ rows = {} /\ issued = 0 /\ published = {}
    /\ keeper = [k \in Keeper |-> "none"]
    /\ held = [k \in Keeper |-> NoToken]
    /\ joined = NoServer /\ owns = FALSE
    /\ killed = {} /\ stranded = {} /\ events = 0

Happens(e) == e \in NodeEvents /\ events < MaxNodeEvents /\ events' = events + 1

Listening(n) == server[n] \in {"bound", "recorded", "serving", "stopping", "dropping"}
Running(n) == server[n] # "off"
Mine(n) == <<n, gen[n]>>
Go(n, s) == server' = [server EXCEPT ![n] = s]
Set(k, s, t) == /\ keeper' = [keeper EXCEPT ![k] = s]
                /\ held' = [held EXCEPT ![k] = t]
FileIsLive == sessionFile \in rows
-----------------------------------------------------------------------------
(* Startup: bind, then record, then publish a session.                       *)
TrayVars == <<joined, owns>>
FileVars == <<record, sessionFile, rows, issued, published>>
KeeperVars == <<keeper, held>>
Rest == <<killed, stranded>>

Launch(n) == Go(n, "starting") /\ exiting' = [exiting EXCEPT ![n] = FALSE]

\* `clear-record serve`, of a process that is not running.
Serve(n) ==
    /\ n # Tray /\ ~Running(n) /\ n \notin killed /\ Happens("serve")
    /\ Launch(n) /\ gen' = [gen EXCEPT ![n] = 1]
    /\ UNCHANGED <<portOf, FileVars, KeeperVars, TrayVars, Rest>>

PortTaken(n) == \E m \in Server : Listening(m) /\ portOf[m] = portOf[n]

Bind(n) ==
    /\ server[n] = "starting" /\ ~PortTaken(n)
    /\ Go(n, "bound")
    /\ UNCHANGED <<exiting, gen, portOf, FileVars, KeeperVars, TrayVars, Rest, events>>

\* node.record replaces whatever the file named; an unwritable directory costs
\* the record and not the node.
RecordsItself(n) ==
    /\ server[n] = "bound"
    /\ \/ record' = n /\ UNCHANGED events
       \/ record' = record /\ Happens("disk")
    /\ Go(n, "recorded")
    /\ UNCHANGED <<exiting, gen, portOf, sessionFile, rows, issued, published, KeeperVars,
                   TrayVars, Rest>>

(* refresh_local_session, on the server's own thread at startup and on the    *)
(* keeper's afterwards: nothing when the published token is live, and else a  *)
(* new row, then the file.                                                    *)
Publishing(n, k) == \/ server[n] = "recorded" /\ k = Mine(n) /\ keeper[k] \in {"none", "opened"}
                    \/ keeper[k] \in {"waiting", "opened", "late"} /\ k[1] = n
AtStartup(n, k) == server[n] = "recorded" /\ k = Mine(n)
Done(n, k, started) ==
    IF AtStartup(n, k)
    THEN Go(n, "serving") /\ Set(k, IF started THEN "waiting" ELSE "none", NoToken)
    ELSE UNCHANGED server /\ Set(k, IF keeper[k] = "late" THEN "none" ELSE "waiting", NoToken)

NeedsPublishing_FileOnly == sessionFile = NoToken
NeedsPublishing == ~FileIsLive

KeepsTheSession(n, k) ==
    /\ Publishing(n, k) /\ AtStartup(n, k) /\ keeper[k] = "none" /\ ~NeedsPublishing
    /\ Done(n, k, TRUE)
    /\ UNCHANGED <<exiting, gen, portOf, FileVars, TrayVars, Rest, events>>

OpensTheSession(n, k) ==
    /\ Publishing(n, k) /\ keeper[k] \in {"none", "waiting"} /\ NeedsPublishing
    /\ server[n] \notin {"stopping"}
    /\ \/ /\ issued < MaxTokens
          /\ issued' = issued + 1 /\ rows' = rows \cup {issued + 1}
          /\ Set(k, "opened", issued + 1)
          /\ UNCHANGED <<server, events>>
       \/ \* a locked registry: the startup gives up, the keeper tries again
          /\ Happens("lock") /\ Done(n, k, FALSE)
          /\ UNCHANGED <<rows, issued>>
    /\ UNCHANGED <<exiting, gen, portOf, record, sessionFile, published, TrayVars, Rest>>

WritesTheFile(n, k) ==
    /\ Publishing(n, k) /\ keeper[k] \in {"opened", "late"}
    /\ sessionFile' = held[k] /\ published' = published \cup {held[k]}
    /\ Done(n, k, TRUE)
    /\ UNCHANGED <<exiting, gen, portOf, record, rows, issued, TrayVars, Rest, events>>

EndsItsRow_Keeps(t) == UNCHANGED <<rows, stranded>>
EndsItsRow(t) == rows' = rows \ {t} /\ UNCHANGED stranded

\* publish_local_session's OSError: the row goes with the file that never came.
CannotWrite(n, k) ==
    /\ Publishing(n, k) /\ keeper[k] \in {"opened", "late"} /\ Happens("disk")
    /\ \/ EndsItsRow(held[k])
       \/ "lock" \in NodeEvents /\ stranded' = stranded \cup {held[k]} /\ UNCHANGED rows
    /\ Done(n, k, FALSE)
    /\ UNCHANGED <<exiting, gen, portOf, record, sessionFile, issued, published, TrayVars, killed>>
-----------------------------------------------------------------------------
(* Shutdown: the keeper, the session file, the sockets, the record.          *)
AskToStop(n) ==
    /\ server[n] = "serving" /\ ~exiting[n] /\ Happens("stop")
    /\ exiting' = [exiting EXCEPT ![n] = TRUE]
    /\ UNCHANGED <<server, gen, portOf, FileVars, KeeperVars, TrayVars, Rest>>

LeavesTheLoop(n) ==
    /\ server[n] = "serving" /\ exiting[n]
    /\ Go(n, "stopping")
    /\ UNCHANGED <<exiting, gen, portOf, FileVars, KeeperVars, TrayVars, Rest, events>>

\* LocalSessionKeeper.stop: the thread is joined, for five seconds at most;
\* without a keeper there is nothing to stop and the file is not looked at.
\* A thread that is late finishes its write when it can, and ends.
KeeperStops(n) ==
    /\ server[n] = "stopping"
    /\ \/ keeper[Mine(n)] = "waiting" /\ Set(Mine(n), "none", NoToken)
       \/ keeper[Mine(n)] = "none" /\ UNCHANGED KeeperVars
       \/ /\ keeper[Mine(n)] = "opened" /\ "slow" \in NodeEvents
          /\ Set(Mine(n), "late", held[Mine(n)])
    /\ Go(n, IF keeper[Mine(n)] # "none" /\ record = n THEN "dropping" ELSE "closing")
    /\ UNCHANGED <<exiting, gen, portOf, FileVars, TrayVars, Rest, events>>

DropsTheFile(n) ==
    /\ server[n] = "dropping"
    /\ sessionFile' = NoToken
    /\ Go(n, "closing")
    /\ UNCHANGED <<exiting, gen, portOf, record, rows, issued, published, KeeperVars, TrayVars,
                   Rest, events>>

\* node.forget: the record is unlinked only if the pid in it is this process's.
Forgets_Another(n) == record # n
Forgets(n) == record = n

Closes(n) ==
    /\ server[n] = "closing"
    /\ Go(n, IF Forgets(n) THEN "forgetting" ELSE "ended")
    /\ UNCHANGED <<exiting, gen, portOf, FileVars, KeeperVars, TrayVars, Rest, events>>

Unlinks(n) ==
    /\ server[n] = "forgetting"
    /\ record' = NoServer
    /\ Go(n, "ended")
    /\ UNCHANGED <<exiting, gen, portOf, sessionFile, rows, issued, published, KeeperVars,
                   TrayVars, Rest, events>>

ThreadsDie(n) == /\ keeper' = [k \in Keeper |-> IF k[1] = n THEN "none" ELSE keeper[k]]
                 /\ held' = [k \in Keeper |-> IF k[1] = n THEN NoToken ELSE held[k]]
                 /\ stranded' = stranded \cup {held[k] : k \in {j \in Keeper : j[1] = n}}

\* The process ends with its server; the tray's outlives it, thread and all.
Exits(n) ==
    /\ server[n] = "ended"
    /\ Go(n, "off")
    /\ IF n = Tray THEN UNCHANGED <<KeeperVars, stranded>> ELSE ThreadsDie(n)
    /\ UNCHANGED <<exiting, gen, portOf, FileVars, TrayVars, killed, events>>

\* A port another server holds is not a fault to retry: it ends the process,
\* before anything is recorded - unless by a first server, that faulted and
\* was never shut down.
LosesThePort(n) ==
    /\ server[n] = "starting" /\ PortTaken(n)
    /\ Go(n, "off")
    /\ IF n = Tray THEN UNCHANGED <<KeeperVars, stranded>> ELSE ThreadsDie(n)
    /\ killed' = IF gen[n] = 2 THEN killed \cup {n} ELSE killed
    /\ UNCHANGED <<exiting, gen, portOf, FileVars, TrayVars, events>>

\* serve --supervise: a server that raised is started again in its process,
\* with no shutdown of the first one.
Faults(n) ==
    /\ n \in Supervised /\ server[n] = "serving" /\ ~exiting[n] /\ gen[n] = 1
    /\ Happens("fault")
    /\ Go(n, "starting") /\ gen' = [gen EXCEPT ![n] = 2]
    /\ UNCHANGED <<exiting, portOf, FileVars, KeeperVars, TrayVars, Rest>>

\* The process is killed: the record and the file stay behind.
Dies(n) ==
    /\ Running(n) /\ Happens("kill")
    /\ Go(n, "off") /\ ThreadsDie(n) /\ killed' = killed \cup {n}
    /\ IF n = Tray THEN joined' = NoServer /\ owns' = FALSE ELSE UNCHANGED TrayVars
    /\ UNCHANGED <<exiting, gen, portOf, FileVars>>

\* revoke_all, or the idle clock: no local session is live any more.
SessionsEnd ==
    /\ rows # {} /\ Happens("revoke")
    /\ rows' = {}
    /\ UNCHANGED <<server, exiting, gen, portOf, record, sessionFile, issued, published,
                   KeeperVars, TrayVars, Rest>>
-----------------------------------------------------------------------------
(* The tray's ServiceController.                                             *)
Answers(n) == n # NoServer /\ server[n] \in {"recorded", "serving", "bound"}
\* What answers where the tray looks: its own socket, the node it joined, or
\* whoever listens on the port it was given.
Healthy == IF Listening(Tray) THEN Answers(Tray)
           ELSE IF joined # NoServer THEN Answers(joined)
           ELSE \E m \in Server : Answers(m) /\ portOf[m] = portOf[Tray]
TrayState == IF joined = NoServer /\ ~owns THEN "stopped"
             ELSE IF Healthy THEN "running" ELSE "unreachable"
Supervises == joined = NoServer /\ owns

\* ServiceController.start: join the recorded node that answers, or start one.
\* (A late keeper of its last server is taken to have ended by then.)
Starts ==
    /\ ~Running(Tray) /\ keeper[Mine(Tray)] = "none"
    /\ IF Answers(record) THEN joined' = record /\ UNCHANGED <<server, exiting, owns>>
                          ELSE joined' = NoServer /\ owns' = TRUE /\ Launch(Tray)
TrayStarts ==
    /\ TrayState = "stopped" /\ Tray \notin killed /\ Happens("tray")
    /\ Starts
    /\ UNCHANGED <<gen, portOf, FileVars, KeeperVars, Rest>>

RestartOffered_OwnOnly == Supervises
RestartOffered == TrayState = "unreachable" \/ Supervises

\* restart_or_start, pressed while nothing answers: stop the node this tray
\* started (at once, if its thread has died) and start again.
TrayRestarts ==
    /\ TrayState = "unreachable" /\ RestartOffered
    /\ Starts
    /\ UNCHANGED <<gen, portOf, FileVars, KeeperVars, Rest, events>>

\* The tray's quit: a node it joined is only left; its own is asked to stop.
TrayStops ==
    /\ TrayState # "stopped" /\ Happens("tray")
    /\ IF joined # NoServer
       THEN joined' = NoServer /\ UNCHANGED <<exiting, owns>>
       ELSE /\ exiting' = [exiting EXCEPT ![Tray] = TRUE]
            /\ owns' = Running(Tray) /\ UNCHANGED joined
    /\ UNCHANGED <<server, gen, portOf, FileVars, KeeperVars, Rest>>

Works(n) == \/ Bind(n) \/ LosesThePort(n) \/ RecordsItself(n) \/ LeavesTheLoop(n)
            \/ KeeperStops(n) \/ DropsTheFile(n) \/ Closes(n) \/ Unlinks(n) \/ Exits(n)
Refreshes(k) == \/ KeepsTheSession(k[1], k) \/ OpensTheSession(k[1], k)
                \/ WritesTheFile(k[1], k) \/ CannotWrite(k[1], k)

NodeNext == \/ \E n \in Server : Works(n) \/ Serve(n) \/ AskToStop(n) \/ Faults(n) \/ Dies(n)
            \/ \E k \in Keeper : Refreshes(k)
            \/ SessionsEnd \/ TrayStarts \/ TrayRestarts \/ TrayStops

(* A server's own steps and a keeper's timer are threads that run; the tray's *)
(* menu item is pressed by someone who sees that nothing answers.             *)
NodeFairness ==
    /\ \A n \in Server : WF_nodeVars(Works(n))
    /\ \A k \in Keeper : WF_nodeVars(Refreshes(k))
    /\ WF_nodeVars(TrayRestarts)
NodeSpec == NodeInit /\ [][NodeNext]_nodeVars /\ NodeFairness
-----------------------------------------------------------------------------
NodeTypeOK ==
    /\ portOf \in PortPlans
    /\ server \in [Server -> {"off", "starting", "bound", "recorded", "serving",
                              "stopping", "dropping", "closing", "forgetting", "ended"}]
    /\ exiting \in [Server -> BOOLEAN] /\ gen \in [Server -> {1, 2}]
    /\ record \in Server \cup {NoServer} /\ sessionFile \in Token \cup {NoToken}
    /\ rows \subseteq Token /\ issued \in 0..MaxTokens /\ published \subseteq Token
    /\ keeper \in [Keeper -> {"none", "waiting", "opened", "late"}]
    /\ held \in [Keeper -> Token \cup {NoToken}]
    /\ joined \in Server \cup {NoServer} /\ owns \in BOOLEAN
    /\ killed \subseteq Server /\ stranded \subseteq Token \cup {NoToken}
    /\ events \in 0..MaxNodeEvents

(* A record never outlives a clean stop: the process it names is running, or  *)
(* was killed before it could take the record down (node.forget, which leaves *)
(* another node's record alone).                                              *)
RecordNamesALiveServer ==
    record # NoServer => Running(record) \/ record \in killed

(* A publish that cannot write leaves no row behind (publish_local_session):  *)
(* a live local session was published, or a thread has it in held, or the     *)
(* locked registry would not take it back, or its thread died holding it.     *)
NoSessionWithoutAFile ==
    rows \subseteq published \cup {held[k] : k \in Keeper} \cup stranded

(* node.forget: "another node's is left alone".                               *)
ForgetLeavesAnotherNodes ==
    [][\A n \in Server : Unlinks(n) => record \in {n, NoServer}]_nodeVars

(* The keeper's promise: while a node keeps its session, whatever revokes the *)
(* sessions or takes the file away, the file names a live session again.      *)
KeeperRestoresTheSession ==
    \A n \in Server :
        <>[](server[n] = "serving" /\ ~exiting[n] /\ keeper[Mine(n)] # "none")
            => <>[](FileIsLive \/ issued = MaxTokens)

(* The tray recovers: a node that does not answer, joined or its own, is not  *)
(* where a tray stays while its Restart item is pressed.                      *)
TrayFindsANode == []<>(TrayState # "unreachable")
=============================================================================
