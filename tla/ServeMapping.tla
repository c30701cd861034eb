---------------------------- MODULE ServeMapping ----------------------------
(* `clear-record web --tailscale` (web/__init__.py _run, web/tailscale.py):   *)
(* consoles on one machine that publish themselves through a foreground       *)
(* `tailscale serve` child each.  The rule for a tailnet port lives as long   *)
(* as the process that registered it; tailscaled refuses a second one.  A     *)
(* console stops its child on every way out it can run code on: the finally   *)
(* around the server, the signal handlers it installs, atexit.                *)
EXTENDS Naturals, FiniteSets

CONSTANTS Console,
          Operator,        \* the operator's own --bg rule
          NoOwner,
          MappingEvents,   \* what may happen: see Occurs
          MaxMappingEvents

ASSUME ServeMappingAssumption ==
    /\ IsFiniteSet(Console) /\ Operator \notin Console
    /\ NoOwner \notin Console \cup {Operator} /\ MaxMappingEvents \in Nat

VARIABLES console,   \* where each console is in _run
          asked,     \* consoles that were told to end while they served
          mapping,   \* ServeSession: "none", "started" or "reused"
          serveChild,     \* the serve child of each console
          stubborn,  \* children that do not leave on SIGTERM
          rule,      \* whose rule serves the tailnet port
          unguarded, \* consoles that ended without stopping their child
          told,      \* what each console said of its address
          happened
mappingVars == <<console, asked, mapping, serveChild, stubborn, rule, unguarded, told, happened>>

MappingInit ==
    /\ console = [c \in Console |-> "off"] /\ asked = {}
    /\ mapping = [c \in Console |-> "none"]
    /\ serveChild = [c \in Console |-> "none"] /\ stubborn = {}
    /\ rule \in {NoOwner, Operator}
    /\ unguarded = {} /\ told = [c \in Console |-> "nothing"] /\ happened = 0

Occurs(e) == e \in MappingEvents /\ happened < MaxMappingEvents /\ happened' = happened + 1
To(c, phase) == console' = [console EXCEPT ![c] = phase]
Living(c) == serveChild[c] \in {"starting", "publishing"}
-----------------------------------------------------------------------------
(* The tailnet daemon and the operator.                                      *)
\* A rule ends with the session of the process that registered it.
RuleWithout(c) == IF rule = c THEN NoOwner ELSE rule
ChildEnds(c) == /\ serveChild' = [serveChild EXCEPT ![c] = "exited"]
                /\ stubborn' = stubborn \ {c} /\ rule' = RuleWithout(c)

\* A busy port is refused, and the child exits.
Registers(c) ==
    /\ serveChild[c] = "starting"
    /\ IF rule = NoOwner
       THEN rule' = c /\ serveChild' = [serveChild EXCEPT ![c] = "publishing"] /\ UNCHANGED stubborn
       ELSE ChildEnds(c)
    /\ UNCHANGED <<console, asked, mapping, unguarded, told, happened>>

\* No HTTPS certificates, or the daemon restarts under it.
ChildFails(c) ==
    /\ Living(c) /\ Occurs("daemon") /\ ChildEnds(c)
    /\ UNCHANGED <<console, asked, mapping, unguarded, told>>

OperatorServes ==
    /\ Occurs("operator")
    /\ \/ rule = NoOwner /\ rule' = Operator
       \/ rule = Operator /\ rule' = NoOwner
    /\ UNCHANGED <<console, asked, mapping, serveChild, stubborn, unguarded, told>>
-----------------------------------------------------------------------------
(* Setting up: the name, the snapshot, the child, its grace, the guards.     *)
\* A bind Serve could not reach, or a machine with no tailnet name, ends it.
StartsUp(c) ==
    /\ console[c] = "off" /\ c \notin unguarded /\ told[c] = "nothing"
    /\ \/ To(c, "named") /\ UNCHANGED happened
       \/ To(c, "ended") /\ Occurs("noname")
    /\ UNCHANGED <<asked, mapping, serveChild, stubborn, rule, unguarded, told>>

\* serve status --json: a config that cannot be read is one with no ports.
Reuses(c) == rule # NoOwner
Snapshots(c) ==
    /\ console[c] = "named"
    /\ \/ /\ Reuses(c)
          /\ mapping' = [mapping EXCEPT ![c] = "reused"] /\ To(c, "ready")
          /\ told' = [told EXCEPT ![c] = "untouched"]
          /\ UNCHANGED happened
       \/ /\ \/ ~Reuses(c) /\ UNCHANGED happened
             \/ Reuses(c) /\ Occurs("daemon")
          /\ To(c, "spawning") /\ UNCHANGED <<mapping, told>>
    /\ UNCHANGED <<asked, serveChild, stubborn, rule, unguarded>>

Spawns(c) ==
    /\ console[c] = "spawning"
    /\ serveChild' = [serveChild EXCEPT ![c] = "starting"]
    /\ \/ UNCHANGED <<stubborn, happened>>
       \/ stubborn' = stubborn \cup {c} /\ Occurs("stubborn")
    /\ To(c, "waiting")
    /\ UNCHANGED <<asked, mapping, rule, unguarded, told>>

\* process.wait(SERVE_STARTUP_GRACE_S): a child that is still there publishes,
\* one that exited was refused, and the console starts without it.
TakesItForServing(c) == Living(c)
Waited(c) ==
    /\ console[c] = "waiting"
    /\ serveChild[c] = "starting" => "slow" \in MappingEvents
    /\ IF TakesItForServing(c)
       THEN /\ mapping' = [mapping EXCEPT ![c] = "started"]
            /\ told' = [told EXCEPT ![c] = "shared"]
       ELSE told' = [told EXCEPT ![c] = "unreachable"] /\ UNCHANGED mapping
    /\ To(c, "ready")
    /\ UNCHANGED <<asked, serveChild, stubborn, rule, unguarded, happened>>

\* Ctrl-C before the server runs: the terminal sends it to the child as well.
Interrupted(c) ==
    /\ console[c] \in {"named", "spawning", "waiting", "ready"} /\ Occurs("end")
    /\ To(c, "ended")
    /\ IF Living(c) THEN ChildEnds(c) ELSE UNCHANGED <<serveChild, stubborn, rule>>
    /\ UNCHANGED <<asked, mapping, unguarded, told>>

\* atexit and the handlers of SIGTERM and SIGHUP, and then the server.
Guards(c) ==
    /\ console[c] = "ready"
    /\ To(c, "serving")
    /\ UNCHANGED <<asked, mapping, serveChild, stubborn, rule, unguarded, told, happened>>
-----------------------------------------------------------------------------
(* The ways out.                                                             *)
\* Ctrl-C, an exception, uvicorn's end of the loop: the finally runs.
Unwinds(c) ==
    /\ console[c] = "serving" /\ Occurs("end")
    /\ To(c, "restored") /\ asked' = asked \cup {c}
    /\ UNCHANGED <<mapping, serveChild, stubborn, rule, unguarded, told>>

\* ServeSession.stop, from the finally or the handler: SIGTERM, the grace, and
\* SIGKILL for a child that stayed.  It has nothing to do for a reused rule.
Outlasts_Yes(c) == c \in stubborn
Outlasts(c) == FALSE
Stops(c) ==
    /\ console[c] = "restored" \/ console[c] = "signalled"
    /\ IF mapping[c] = "started" /\ Living(c) /\ ~Outlasts(c)
       THEN ChildEnds(c) ELSE UNCHANGED <<serveChild, stubborn, rule>>
    /\ mapping' = [mapping EXCEPT ![c] = "none"]
    /\ To(c, "ended")
    /\ UNCHANGED <<asked, unguarded, told, happened>>

\* A signal that ends the process: with the handlers in, they stop the child
\* first; before they are in, and once the finally has put the previous ones
\* back, the default action runs none of it.
Guarded_Not(c) == FALSE
Guarded(c) == console[c] = "serving" /\ mapping[c] # "none"
Signal(c) ==
    /\ console[c] \notin {"off", "ended", "signalled"} /\ Occurs("signal")
    /\ asked' = IF console[c] = "serving" THEN asked \cup {c} ELSE asked
    /\ IF Guarded(c) THEN To(c, "signalled") /\ UNCHANGED unguarded
       ELSE /\ To(c, "ended")
            /\ unguarded' = IF console[c] = "serving" THEN unguarded ELSE unguarded \cup {c}
    /\ UNCHANGED <<mapping, serveChild, stubborn, rule, told>>

Leaves(c) == /\ unguarded' = IF Living(c) THEN unguarded \cup {c} ELSE unguarded
             /\ UNCHANGED <<serveChild, stubborn, rule>>

\* A second signal while the handler's stop runs: the session is taken, so the
\* nested stop has nothing to do, and the default action ends the console.  The
\* child may have had its SIGTERM by then; nobody is left to send its SIGKILL.
SignalledAgain(c) ==
    /\ console[c] = "signalled" /\ Occurs("signal")
    /\ To(c, "ended")
    /\ \/ Living(c) /\ c \notin stubborn /\ ChildEnds(c) /\ UNCHANGED unguarded
       \/ Leaves(c)
    /\ UNCHANGED <<asked, mapping, told>>

\* An exception between the child's start and the guards: the wait for it, the
\* note of its address or the import of the web stack raises.
Raises(c) ==
    /\ console[c] \in {"waiting", "ready"} /\ Occurs("error")
    /\ To(c, "ended") /\ Leaves(c)
    /\ UNCHANGED <<asked, mapping, told>>

Killed(c) ==
    /\ console[c] \notin {"off", "ended"} /\ Occurs("kill")
    /\ To(c, "ended") /\ unguarded' = unguarded \cup {c}
    /\ UNCHANGED <<asked, mapping, serveChild, stubborn, rule, told>>

SetsUpOrStops(c) == Snapshots(c) \/ Spawns(c) \/ Waited(c) \/ Guards(c) \/ Stops(c)
MappingNext ==
    \/ \E c \in Console : \/ StartsUp(c) \/ SetsUpOrStops(c) \/ Unwinds(c) \/ Interrupted(c)
                          \/ Signal(c) \/ SignalledAgain(c) \/ Raises(c) \/ Killed(c)
    \/ \E c \in Console : Registers(c) \/ ChildFails(c)
    \/ OperatorServes

MappingFairness == \A c \in Console : WF_mappingVars(SetsUpOrStops(c)) /\ WF_mappingVars(Registers(c))
MappingSpec == MappingInit /\ [][MappingNext]_mappingVars /\ MappingFairness
-----------------------------------------------------------------------------
MappingTypeOK ==
    /\ console \in [Console -> {"off", "named", "spawning", "waiting", "ready", "serving",
                                "restored", "signalled", "ended"}]
    /\ asked \subseteq Console /\ unguarded \subseteq Console
    /\ mapping \in [Console -> {"none", "started", "reused"}]
    /\ serveChild \in [Console -> {"none", "starting", "publishing", "exited"}]
    /\ stubborn \subseteq Console /\ rule \in Console \cup {NoOwner, Operator}
    /\ told \in [Console -> {"nothing", "untouched", "shared", "unreachable"}]
    /\ happened \in 0..MaxMappingEvents

(* "The mapping lives exactly as long as the console does": a console that    *)
(* ended, by its own end or by a signal its handlers saw, leaves no rule and  *)
(* no child that could still register one.  The exceptions (unguarded): a     *)
(* console that was killed outright, one signalled while its handlers are not *)
(* in, one signalled again while the handler's stop runs, and one that raised *)
(* between the child's start and the guards.                                  *)
NoMappingWithoutItsConsole ==
    \A c \in Console : console[c] = "ended" /\ c \notin unguarded => rule # c /\ ~Living(c)

(* Every console that is told to end ends, and its rule with it, whatever its *)
(* child does with SIGTERM.                                                   *)
EndingEndsTheRule == \A c \in Console : [](c \in asked => <>(rule # c \/ c \in unguarded))
=============================================================================
