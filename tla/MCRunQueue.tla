------------------------------ MODULE MCRunQueue ------------------------------
(* Instances of RunQueue for TLC. *)
EXTENDS RunQueue, TLC

CONSTANTS m1, m2, p1, p2, c1, c2, hostA, hostB

OneMeeting  == {m1}
TwoMeetings == {m1, m2}

TwoProcesses == {p1, p2}
OneProcess   == {p1}
OneClient    == {c1}
TwoClients   == {c1, c2}

ClientOfP1   == c1 :> p1
ClientOfP2   == c1 :> p2
ClientEach   == c1 :> p1 @@ c2 :> p2    \* a request thread in each process
ClientsOfOne == c1 :> p1 @@ c2 :> p1    \* two request threads of one process

SameMachine   == p1 :> hostA @@ p2 :> hostA
OtherMachines == p1 :> hostA @@ p2 :> hostB

SameBuild  == p1 :> 1 @@ p2 :> 1
OlderBuild == p1 :> 1 @@ p2 :> 2        \* p1 is the older build

MeetingSymmetry == Permutations(TwoMeetings)
ClientSymmetry  == Permutations(TwoClients)     \* sound for ClientsOfOne
=============================================================================
