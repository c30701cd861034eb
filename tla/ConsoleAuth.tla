----------------------------- MODULE ConsoleAuth -----------------------------
(* The console's credential and sessions (service/auth.py, their rows in        *)
(* service/store.py, and the request gate of web/app.py).  A first-run form   *)
(* claims the credential once, the node's rescue command replaces it and ends *)
(* the sessions, and a request moves its session's idle clock lazily.         *)
EXTENDS Integers, FiniteSets

CONSTANTS Browser,
          Form,          \* first-run forms, each named for the password it sets
          NewPassword,   \* what the rescue command sets
          NoPassword,
          IdleTimeout, AbsoluteLifetime, \* in clock ticks
          MaxNow, MaxSessions, MaxLocks

ASSUME ConsoleAuthAssumption ==
    /\ NoPassword \notin Form \cup {NewPassword} /\ NewPassword \notin Form
    /\ {IdleTimeout, AbsoluteLifetime, MaxNow, MaxSessions, MaxLocks} \subseteq Nat

Session == 1..MaxSessions
NoSession == 0
Ended == -1    \* the deadline of a session that has no row

VARIABLES credential,
          form,       \* where each first-run form is
          rescue,     \* the rescue command: where it is, and whether it replaces
          idle, absolute, \* each session row's two deadlines
          opened,     \* how many sessions have been opened
          cookie,     \* the session each browser presents
          gate,       \* the touch each browser's request still owes
          lastUse,    \* each session's last accepted request whose touch was not lost
          now, locks
authVars == <<credential, form, rescue, idle, absolute, opened, cookie, gate,
              lastUse, now, locks>>

CredentialVars == <<credential, form, rescue>>
RowVars == <<idle, absolute>>
SessionVars == <<idle, absolute, opened, cookie, gate, lastUse>>

AuthInit ==
    /\ credential = NoPassword
    /\ form = [f \in Form |-> "idle"]
    /\ rescue = [at |-> "idle", replacing |-> FALSE]
    /\ idle = [s \in Session |-> Ended] /\ absolute = [s \in Session |-> Ended]
    /\ opened = 0
    /\ cookie = [b \in Browser |-> NoSession] /\ gate = [b \in Browser |-> NoSession]
    /\ lastUse = [s \in Session |-> Ended]
    /\ now = 0 /\ locks = 0

\* A write that meets the lock another surface holds on the registry.
MeetsALock == locks < MaxLocks /\ locks' = locks + 1
HasRow(s) == s # NoSession /\ idle[s] # Ended
Live(s) == HasRow(s) /\ now < idle[s] /\ now < absolute[s]
-----------------------------------------------------------------------------
(* The credential.                                                           *)
\* The form's body has arrived; the KDF runs before the write.
FormArrives(f) ==
    /\ form[f] = "idle"
    /\ form' = [form EXCEPT ![f] = "hashing"]
    /\ UNCHANGED <<credential, rescue, SessionVars, now, locks>>

Claims_Always(f) == TRUE
\* claim_credential: one insert-only statement, and its rowcount is the answer.
Claims(f) == credential = NoPassword

FormClaims(f) ==
    /\ form[f] = "hashing"
    /\ IF Claims(f)
       THEN credential' = f /\ form' = [form EXCEPT ![f] = "won"]
       ELSE credential' = credential /\ form' = [form EXCEPT ![f] = "refused"]
    /\ UNCHANGED <<rescue, SessionVars, now, locks>>

(* `clear-record password`: it reads whether it replaces, sets, and then ends *)
(* every session in a transaction of its own, which a lock may refuse.        *)
RescueStarts ==
    /\ rescue.at = "idle"
    /\ rescue' = [at |-> "asking", replacing |-> credential # NoPassword]
    /\ UNCHANGED <<credential, form, SessionVars, now, locks>>

RescueSets ==
    /\ rescue.at = "asking"
    /\ credential' = NewPassword
    /\ rescue' = [rescue EXCEPT !.at = IF rescue.replacing THEN "ending" ELSE "done"]
    /\ UNCHANGED <<form, SessionVars, now, locks>>

EndsAll == /\ idle' = [s \in Session |-> Ended]
           /\ absolute' = [s \in Session |-> Ended]

RescueEnds ==
    /\ rescue.at = "ending"
    /\ \/ EndsAll /\ UNCHANGED locks
       \/ MeetsALock /\ UNCHANGED RowVars
    /\ rescue' = [rescue EXCEPT !.at = "done"]
    /\ UNCHANGED <<credential, form, opened, cookie, gate, lastUse, now>>
-----------------------------------------------------------------------------
(* Sessions.                                                                 *)
Expired == {s \in Session : HasRow(s) /\ ~Live(s)}

\* _open_session, for a password that matched: the row, and the prune.
SignsIn(b) ==
    /\ cookie[b] = NoSession /\ gate[b] = NoSession
    /\ credential # NoPassword /\ opened < MaxSessions
    /\ LET s == opened + 1 IN
       \E swept \in {{}, Expired} :
          /\ (swept # Expired) => MeetsALock
          /\ (swept = Expired) => UNCHANGED locks
          /\ idle' = [r \in Session |-> IF r = s THEN now + IdleTimeout
                                        ELSE IF r \in swept THEN Ended ELSE idle[r]]
          /\ absolute' = [r \in Session |-> IF r = s THEN now + AbsoluteLifetime
                                            ELSE IF r \in swept THEN Ended ELSE absolute[r]]
          /\ opened' = s /\ cookie' = [cookie EXCEPT ![b] = s]
          /\ lastUse' = [lastUse EXCEPT ![s] = now]
    /\ UNCHANGED <<CredentialVars, gate, now>>

\* ConsoleAuth.session, for a request that is gated: less than half the window left.
TouchIsDue_WhenOver(s) == now >= idle[s]
TouchIsDue(s) == 2 * now + IdleTimeout > 2 * idle[s]

RequestPasses(b) ==
    /\ gate[b] = NoSession /\ cookie[b] # NoSession /\ Live(cookie[b])
    /\ IF TouchIsDue(cookie[b])
       THEN gate' = [gate EXCEPT ![b] = cookie[b]] /\ UNCHANGED lastUse
       ELSE UNCHANGED gate /\ lastUse' = [lastUse EXCEPT ![cookie[b]] = now]
    /\ UNCHANGED <<CredentialVars, RowVars, opened, cookie, now, locks>>

\* A stale row is pruned as it is read; the refusal clears the dead cookie.
RequestIsRefused(b) ==
    /\ gate[b] = NoSession /\ cookie[b] # NoSession /\ ~Live(cookie[b])
    /\ cookie' = [cookie EXCEPT ![b] = NoSession]
    /\ \/ /\ idle' = [s \in Session |-> IF s \in Expired THEN Ended ELSE idle[s]]
          /\ absolute' = [s \in Session |-> IF s \in Expired THEN Ended ELSE absolute[s]]
          /\ UNCHANGED locks
       \/ Expired # {} /\ MeetsALock /\ UNCHANGED RowVars
    /\ UNCHANGED <<CredentialVars, opened, gate, lastUse, now>>

\* touch_session is an UPDATE of the row with this digest, if there still is one.
Touched_Upsert(s) == TRUE
Touched(s) == HasRow(s)

RequestTouches(b) ==
    /\ gate[b] # NoSession
    /\ gate' = [gate EXCEPT ![b] = NoSession]
    /\ \/ /\ idle' = [idle EXCEPT ![gate[b]] = IF Touched(gate[b]) THEN now + IdleTimeout ELSE @]
          /\ lastUse' = [lastUse EXCEPT ![gate[b]] = now]
          /\ UNCHANGED locks
       \/ MeetsALock /\ UNCHANGED <<idle, lastUse>>
    /\ UNCHANGED <<CredentialVars, absolute, opened, cookie, now>>

SignsOut(b) ==
    /\ gate[b] = NoSession /\ cookie[b] # NoSession /\ Live(cookie[b])
    /\ idle' = [idle EXCEPT ![cookie[b]] = Ended]
    /\ absolute' = [absolute EXCEPT ![cookie[b]] = Ended]
    /\ cookie' = [cookie EXCEPT ![b] = NoSession]
    /\ UNCHANGED <<CredentialVars, opened, gate, lastUse, now, locks>>

RevokesAll(b) ==
    /\ gate[b] = NoSession /\ cookie[b] # NoSession /\ Live(cookie[b])
    /\ EndsAll /\ cookie' = [cookie EXCEPT ![b] = NoSession]
    /\ UNCHANGED <<CredentialVars, opened, gate, lastUse, now, locks>>
-----------------------------------------------------------------------------
\* A request is answered within a tick: the busy timeout is seconds, a tick hours.
ClockTicks ==
    /\ now < MaxNow /\ \A b \in Browser : gate[b] = NoSession
    /\ now' = now + 1
    /\ UNCHANGED <<CredentialVars, SessionVars, locks>>

AuthNext ==
    \/ \E f \in Form : FormArrives(f) \/ FormClaims(f)
    \/ RescueStarts \/ RescueSets \/ RescueEnds
    \/ \E b \in Browser : \/ SignsIn(b) \/ RequestPasses(b) \/ RequestTouches(b)
                          \/ RequestIsRefused(b) \/ SignsOut(b) \/ RevokesAll(b)
    \/ ClockTicks
AuthSpec == AuthInit /\ [][AuthNext]_authVars
-----------------------------------------------------------------------------
AuthTypeOK ==
    /\ credential \in Form \cup {NewPassword, NoPassword}
    /\ form \in [Form -> {"idle", "hashing", "won", "refused"}]
    /\ rescue \in [at : {"idle", "asking", "ending", "done"}, replacing : BOOLEAN]
    /\ idle \in [Session -> Int] /\ absolute \in [Session -> Int]
    /\ opened \in 0..MaxSessions
    /\ cookie \in [Browser -> Session \cup {NoSession}]
    /\ gate \in [Browser -> Session \cup {NoSession}]
    /\ lastUse \in [Session -> Int] /\ now \in 0..MaxNow /\ locks \in 0..MaxLocks

(* The credential the first form claimed stands (claim_password: a form whose *)
(* body arrives late loses, and replaces nothing) until the rescue sets one,  *)
(* and one form at most is told that it won.                                  *)
ClaimedOnce ==
    [][credential # NoPassword /\ credential' # credential => rescue'.at # rescue.at]_authVars

(* A session that was ended - signed out, swept, revoked with all the others  *)
(* - has no row again, though a request that read the row before may still    *)
(* owe it a touch (touch_session).                                            *)
EndedSessionsStayEnded ==
    [][\A s \in 1..opened : idle[s] = Ended => idle'[s] = Ended]_authVars

(* The lazy idle clock follows use: a session used at some moment is live for *)
(* half an idle window more, its absolute end and the writes a lock lost      *)
(* apart, whichever of its requests did not write (ConsoleAuth.session).      *)
IdleClockFollowsUse ==
    \A s \in Session : HasRow(s) => 2 * idle[s] >= 2 * lastUse[s] + IdleTimeout
=============================================================================
