---------------------------- MODULE MachineTokens ----------------------------
(* The machine tokens of scripts (service/auth.py, service/store.py, and the  *)
(* Settings block of web/app.py): minted under a label, looked up by each     *)
(* request, their use recorded lazily, and revoked from a page that may be    *)
(* stale.                                                                     *)
EXTENDS Integers, FiniteSets

CONSTANTS Script,        \* the labels, one script each
          Page,          \* Settings pages, each showing one token's row
          TouchInterval, MaxTokenNow, MaxMints, MaxTokenLocks

ASSUME MachineTokensAssumption ==
    /\ IsFiniteSet(Script)
    /\ TouchInterval \in Nat \ {0}
    /\ {MaxTokenNow, MaxMints, MaxTokenLocks} \subseteq Nat

Never == -1
NoRow == 0
NothingShown == [id |-> NoRow, label |-> NoRow]

VARIABLES token,      \* the row id of each label's token, NoRow without one
          stamp,      \* last_used_at
          lastCall,   \* the token's last call, but for those a lock kept unrecorded
          shown,      \* the row each page offers to revoke
          revoking,   \* the label a revoke read for the id it was given
          minted, tokenNow, tokenLocks
tokenVars == <<token, stamp, lastCall, shown, revoking, minted, tokenNow, tokenLocks>>

TokensInit ==
    /\ token = [x \in Script |-> NoRow] /\ stamp = [x \in Script |-> Never]
    /\ lastCall = [x \in Script |-> Never]
    /\ shown = [p \in Page |-> NothingShown] /\ revoking = [p \in Page |-> NoRow]
    /\ minted = 0 /\ tokenNow = 0 /\ tokenLocks = 0

Ids == {token[x] : x \in Script}
\* INTEGER PRIMARY KEY: one more than the largest id in the table.
NextTokenId == 1 + (CHOOSE i \in Ids \cup {NoRow} : \A j \in Ids : j <= i)
RecordLocked == tokenLocks < MaxTokenLocks /\ tokenLocks' = tokenLocks + 1

Mints(x) ==
    /\ token[x] = NoRow /\ minted < MaxMints
    /\ token' = [token EXCEPT ![x] = NextTokenId] /\ minted' = minted + 1
    /\ stamp' = [stamp EXCEPT ![x] = Never] /\ lastCall' = [lastCall EXCEPT ![x] = Never]
    /\ UNCHANGED <<shown, revoking, tokenNow, tokenLocks>>

UseIsDue_FirstOnly(x) == stamp[x] = Never
\* _use_is_worth_recording
UseIsDue(x) == stamp[x] = Never \/ stamp[x] <= tokenNow - TouchInterval

\* authenticate_token: a due use is written, or the lock costs the timestamp.
Calls(x) ==
    /\ token[x] # NoRow
    /\ \/ UseIsDue(x) /\ RecordLocked /\ UNCHANGED <<stamp, lastCall>>
       \/ /\ stamp' = [stamp EXCEPT ![x] = IF UseIsDue(x) THEN tokenNow ELSE @]
          /\ lastCall' = [lastCall EXCEPT ![x] = tokenNow] /\ UNCHANGED tokenLocks
    /\ UNCHANGED <<token, shown, revoking, minted, tokenNow>>

\* tokens_context: a row's revoke button posts its id, under its label.
Shows(p, x) ==
    /\ token[x] # NoRow /\ shown[p] = NothingShown
    /\ shown' = [shown EXCEPT ![p] = [id |-> token[x], label |-> x]]
    /\ UNCHANGED <<token, stamp, lastCall, revoking, minted, tokenNow, tokenLocks>>

\* The revoke route reads the label of the row that has this id now; a page
\* whose id names no row revokes nothing.
ReadsLabel(p) ==
    /\ shown[p].id # NoRow /\ revoking[p] = NoRow
    /\ \/ \E x \in Script : /\ token[x] = shown[p].id
                             /\ revoking' = [revoking EXCEPT ![p] = x] /\ UNCHANGED shown
       \/ /\ \A x \in Script : token[x] # shown[p].id
          /\ shown' = [shown EXCEPT ![p] = NothingShown] /\ UNCHANGED revoking
    /\ UNCHANGED <<token, stamp, lastCall, minted, tokenNow, tokenLocks>>

RevokedBy(p, x) == x = revoking[p]
\* revoke_machine_token: the row its label names, if there still is one.
Revokes(p) ==
    /\ revoking[p] # NoRow
    /\ token' = [x \in Script |-> IF RevokedBy(p, x) THEN NoRow ELSE token[x]]
    /\ revoking' = [revoking EXCEPT ![p] = NoRow]
    /\ shown' = [shown EXCEPT ![p] = NothingShown]
    /\ UNCHANGED <<stamp, lastCall, minted, tokenNow, tokenLocks>>

TimePasses ==
    /\ tokenNow < MaxTokenNow /\ tokenNow' = tokenNow + 1
    /\ UNCHANGED <<token, stamp, lastCall, shown, revoking, minted, tokenLocks>>

TokensNext ==
    \/ \E x \in Script : Mints(x) \/ Calls(x)
    \/ \E p \in Page : (\E x \in Script : Shows(p, x)) \/ ReadsLabel(p) \/ Revokes(p)
    \/ TimePasses
TokensSpec == TokensInit /\ [][TokensNext]_tokenVars
-----------------------------------------------------------------------------
TokensTypeOK ==
    /\ token \in [Script -> Nat] /\ stamp \in [Script -> Int]
    /\ lastCall \in [Script -> Int]
    /\ shown \in [Page -> {NothingShown} \cup [id : Nat, label : Script]]
    /\ revoking \in [Page -> Script \cup {NoRow}]
    /\ minted \in 0..MaxMints /\ tokenNow \in 0..MaxTokenNow
    /\ tokenLocks \in 0..MaxTokenLocks

(* A token's recorded use is less than one interval older than its last call, *)
(* which is how the list answers "is this script still calling?", whichever   *)
(* of its calls did not write (ConsoleAuth.authenticate_token).               *)
StampFollowsUse ==
    \A x \in Script : token[x] # NoRow /\ lastCall[x] # Never
                         => lastCall[x] - stamp[x] < TouchInterval

(* "An id naming no token (a stale page, a second click) revokes nothing": a  *)
(* page never revokes a token other than the one it showed.                   *)
RevokesWhatThePageShowed ==
    [][\A p \in Page : revoking[p] # NoRow /\ revoking'[p] = NoRow
                            => revoking[p] = shown[p].label]_tokenVars
=============================================================================
