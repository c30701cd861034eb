-------------------------- MODULE RunQueueImplements --------------------------
(***************************************************************************)
(* RunQueue implements RunLifecycle, for every number of meetings,         *)
(* processes, request threads and rows, every placement and every crash,   *)
(* as long as one build runs and no registry or disk error strikes.  Both  *)
(* premises are needed: an error between a run's end and its meeting's     *)
(* fails an ended run, and an older build fails the running row of a newer *)
(* one, whose owner then writes its own end over it.                       *)
(*                                                                         *)
(* The second half is what a reap may take: the row of an owner that is    *)
(* gone, where every process can be probed (OneMachine) and no id is       *)
(* handed out twice (FreshPids), and elsewhere that of a silent one.       *)
(***************************************************************************)
EXTENDS RunQueueProofs

OneBuild == \A p, q \in Process : Build[p] = Build[q]
NoErrors == MaxErrors = 0

-----------------------------------------------------------------------------
(* The strengthening. *)

\* With one build no row is refused, so nothing is ever quarantined.
RowsReadable == \A r \in Run, p \in Process : format[r] <= Build[p]
NothingQuarantined == \A p \in Process : pc[p] \notin Quarantining

\* A row, and a request to insert one, names a meeting.
MeetingsNamed ==
    /\ \A r \in Created : meeting[r] \in Meeting
    /\ \A c \in Client : cpc[c] = "insert" => carg[c].meeting \in Meeting

\* A run is executed by the process that claimed it and by no other.
ClaimedByOne ==
    \A p, q \in Process : InPipeline(p) /\ InPipeline(q) /\ cur[p] = cur[q] => p = q

HoldInv ==
    /\ RowsReadable
    /\ NothingQuarantined
    /\ MeetingsNamed
    /\ RowsInOrder
    /\ ClaimsTheHead
    /\ ExecutesWhatItHolds
    /\ ClaimedByOne

\* The empty registry.
LEMMA HoldInit == Init => HoldInv
BY BoundsAssumption, PlacementAssumption DEF Init, HoldInv, RowsReadable,
   NothingQuarantined, MeetingsNamed, RowsInOrder, ClaimsTheHead, ExecutesWhatItHolds,
   ClaimedByOne, InPipeline, Quarantining, Created, Run

-----------------------------------------------------------------------------
(* What a step does to a row and to its owner.  *)

RowKept == UNCHANGED <<status, meeting, owner>>
RowInserted ==
    \E r \in NextRow, c \in Client :
        /\ cpc[c] = "insert"
        /\ IndexAdmits(carg[c].meeting)
        /\ SetStatus(r, "queued")
        /\ meeting' = [meeting EXCEPT ![r] = carg[c].meeting]
        /\ UNCHANGED <<owner, cur>>
        /\ \A p \in Process : InPipeline(p)' => InPipeline(p)
RowClaimed ==
    \E p \in Process :
        /\ pc[p] = "claim"
        /\ ClaimAdmits(cur[p])
        /\ SetStatus(cur[p], "running")
        /\ owner' = [owner EXCEPT ![cur[p]] = Identity(p)]
        /\ UNCHANGED <<meeting, cur, pid>>
        /\ \A q \in Process \ {p} : InPipeline(q)' => InPipeline(q)
RowEnded ==
    \E p \in Process, end \in {"done", "failed", "stopped"} :
        /\ pc[p] = "end"
        /\ SetStatus(cur[p], end)
        /\ ~ InPipeline(p)'
        /\ UNCHANGED <<meeting, owner>>
RowReaped ==
    \E r \in Run : status[r] = "running" /\ SetStatus(r, "interrupted")
                     /\ UNCHANGED <<meeting, owner>>
RowStopped ==
    \E r \in Run : status[r] = "queued" /\ SetStatus(r, "stopped")
                     /\ UNCHANGED <<meeting, owner>>

RowSteps == RowKept \/ RowInserted \/ RowClaimed \/ RowEnded \/ RowReaped \/ RowStopped

\* The steps of a drain thread.
LEMMA DrainStepsOfRows ==
  ASSUME TypeInv, HoldInv, NEW p \in Process, DrainStep(p) PROVE RowSteps
<1> USE DEF TypeInv, DrainOK, BusyHasRow, BusyLabels, DrainLabels, Executing, Reaping,
            Quarantining, Created, rows
<1>1. CASE ReadRunning(p) \/ JudgeOwner(p) \/ ReadReapedMeeting(p)
           \/ MarkReapedMeeting(p) \/ QuarantineMeeting(p) \/ ReadHead(p)
           \/ LoadRun(p) \/ BeginRun(p) \/ EndMeeting(p)
  BY <1>1 DEF ReadRunning, JudgeOwner, ReadReapedMeeting, MarkReapedMeeting,
     QuarantineMeeting, ReadHead, LoadRun, BeginRun, EndMeeting, RowSteps, RowKept
<1>2. CASE InterruptRun(p)
  <2>1. cur[p] \in Run
    BY <1>2 DEF InterruptRun
  <2>2. CASE StillAsSeen(cur[p], seen[p])
    BY <1>2, <2>1, <2>2 DEF InterruptRun, StillAsSeen, RowSteps, RowReaped
  <2>3. CASE ~ StillAsSeen(cur[p], seen[p])
    BY <1>2, <2>3 DEF InterruptRun, RowSteps, RowKept
  <2>4. QED
    BY <2>2, <2>3
<1>3. CASE QuarantineRun(p)
  BY <1>3 DEF QuarantineRun, HoldInv, NothingQuarantined
<1>4. CASE ClaimRun(p)
  <2>1. CASE ClaimAdmits(cur[p])
    BY <1>4, <2>1 DEF ClaimRun, RowSteps, RowClaimed, Goto, InPipeline, life
  <2>2. CASE ~ ClaimAdmits(cur[p])
    BY <1>4, <2>2 DEF ClaimRun, RowSteps, RowKept
  <2>3. QED
    BY <2>1, <2>2
<1>5. CASE EndRun(p)
  <2>1. RunStatusOf(outcome[p]) \in {"done", "failed", "stopped"}
    BY DEF RunStatusOf
  <2>2. ~ InPipeline(p)'
    BY <1>5 DEF EndRun, Goto, InPipeline
  <2>3. QED
    BY <1>5, <2>1, <2>2 DEF EndRun, RowSteps, RowEnded
<1>6. QED
  BY <1>1, <1>2, <1>3, <1>4, <1>5 DEF DrainStep

\* The steps of a request thread.
LEMMA ClientStepsOfRows ==
  ASSUME TypeInv, HoldInv, NEW c \in Client, ClientStep(c) PROVE RowSteps
<1>1. CASE InsertRun(c)
  <2>1. CASE UNCHANGED <<status, meeting>>
    BY <1>1, <2>1 DEF InsertRun, RowSteps, RowKept
  <2>2. CASE ~ UNCHANGED <<status, meeting>>
    <3>1. PICK r \in NextRow :
             /\ IndexAdmits(carg[c].meeting)
             /\ SetStatus(r, "queued")
             /\ meeting' = [meeting EXCEPT ![r] = carg[c].meeting]
             /\ IF pc[Home[c]] = "dead" THEN Goto(Home[c], "scan") ELSE UNCHANGED pc
      BY <1>1, <2>2 DEF InsertRun
    <3>2. \A p \in Process : InPipeline(p)' => InPipeline(p)
      BY <3>1 DEF Goto, InPipeline, TypeInv, DrainOK
    <3>3. QED
      BY <1>1, <3>1, <3>2 DEF InsertRun, RowSteps, RowInserted
  <2>3. QED
    BY <2>1, <2>2
<1>2. CASE StopQueuedRun(c)
  <2>1. CASE carg[c].run \in Run
    BY <1>2, <2>1 DEF StopQueuedRun, StopAdmits, RowSteps, RowKept, RowStopped
  <2>2. CASE carg[c].run \notin Run
    BY <1>2, <2>2 DEF StopQueuedRun, SetStatus, RowSteps, RowKept, TypeInv, RowsOK
  <2>3. QED
    BY <2>1, <2>2
<1>3. CASE ~ InsertRun(c) /\ ~ StopQueuedRun(c)
  BY <1>3 DEF ClientStep, AskStart, AskResume, AskCancel, ReadStoppedMeeting,
     MarkStoppedMeeting, RequestCancel, RowSteps, RowKept, rows
<1>4. QED
  BY <1>1, <1>2, <1>3

\* Without errors and quarantines a row is inserted by a request, claimed and
\* ended by its owner, reaped while it runs, or stopped while it waits.
LEMMA StepsOfOwnedRows == ASSUME TypeInv, HoldInv, [Next]_vars PROVE RowSteps
<1> USE DEF RowSteps, RowKept, rows
<1>1. ASSUME NEW p \in Process,
             Boot(p) \/ Crash(p) \/ Beat(p) \/ PipelineStep(p) \/ ErrorStep(p)
      PROVE  RowKept
  BY <1>1 DEF Boot, Crash, Beat, PipelineStep, ErrorStep, ReportCancelled, PipelineRaises,
     PipelineReturns, ExecutionError, ClaimError, DrainError, QuarantineError
<1>2. ASSUME NEW m \in Meeting, ForgetTapes(m) PROVE RowKept
  BY <1>2 DEF ForgetTapes
<1>3. CASE Tick \/ UNCHANGED vars
  BY <1>3 DEF Tick, vars
<1>4. QED
  BY <1>1, <1>2, <1>3, DrainStepsOfRows, ClientStepsOfRows DEF Next

-----------------------------------------------------------------------------
(* Every step keeps the strengthening. *)

\* A thread executes what it executed, or what it has just claimed.
LEMMA WaysToExecute ==
  ASSUME NoErrors, TypeInv, HoldInv, [Next]_vars, NEW p \in Process, InPipeline(p)'
  PROVE  \/ InPipeline(p) /\ cur'[p] = cur[p] /\ pid'[p] = pid[p]
         \/ ClaimRun(p) /\ ClaimAdmits(cur[p])
<1> DEFINE Same == InPipeline(p) /\ cur'[p] = cur[p] /\ pid'[p] = pid[p]
<1> USE DEF TypeInv, DrainOK, LifeOK, Goto, InPipeline
<1>1. CASE UNCHANGED <<pc, cur, pid>>
  BY <1>1
<1>2. ASSUME NEW q \in Process, Boot(q) \/ Crash(q) PROVE Same
  BY <1>2 DEF Boot, Crash, Forget
<1>3. ASSUME NEW q \in Process, ErrorStep(q) PROVE Same
  BY <1>3, BoundsAssumption DEF NoErrors, WorldOK, ErrorStep, ExecutionError,
     ClaimError, DrainError, QuarantineError, Error
<1>4. ASSUME NEW q \in Process, DrainStep(q), ~ (ClaimRun(p) /\ ClaimAdmits(cur[p]))
      PROVE  Same
  <2>1. CASE ReadRunning(q) \/ ReadHead(q)
    BY <2>1 DEF ReadRunning, ReadHead, Rest, Forget, life
  <2>2. CASE QuarantineRun(q) \/ QuarantineMeeting(q)
    BY <2>2 DEF QuarantineRun, QuarantineMeeting, HoldInv, NothingQuarantined, Quarantining
  <2>3. CASE \/ JudgeOwner(q) \/ InterruptRun(q) \/ ReadReapedMeeting(q)
             \/ MarkReapedMeeting(q) \/ LoadRun(q) \/ BeginRun(q) \/ EndRun(q)
             \/ EndMeeting(q)
    BY <2>3 DEF JudgeOwner, InterruptRun, ReadReapedMeeting, MarkReapedMeeting,
       LoadRun, BeginRun, EndRun, EndMeeting, EndWith, Rest, Forget, life
  <2>4. CASE ClaimRun(q)
    BY <1>4, <2>4 DEF ClaimRun, Rest, Forget, life
  <2>5. QED
    BY <1>4, <2>1, <2>2, <2>3, <2>4 DEF DrainStep
<1>5. ASSUME NEW q \in Process, PipelineStep(q) \/ Beat(q) PROVE Same
  BY <1>5 DEF PipelineStep, ReportCancelled, PipelineRaises, PipelineReturns, EndWith,
     Beat, life
<1>6. ASSUME NEW c \in Client, ClientStep(c) PROVE Same
  <2>1. CASE InsertRun(c)
    BY <2>1 DEF InsertRun, life
  <2>2. QED
    BY <1>1, <1>6, <2>1 DEF ClientStep, AskStart, AskResume, AskCancel, StopQueuedRun,
       ReadStoppedMeeting, MarkStoppedMeeting, RequestCancel, drain, life
<1>7. ASSUME NEW m \in Meeting, ForgetTapes(m) PROVE UNCHANGED <<pc, cur, pid>>
  BY <1>7 DEF ForgetTapes, drain, life
<1>8. CASE Tick \/ UNCHANGED vars
  BY <1>1, <1>8 DEF Tick, vars, drain, life
<1>9. QED
  BY <1>1, <1>2, <1>3, <1>4, <1>5, <1>6, <1>7, <1>8 DEF Next

\* What a process executes stays its own: nobody but it ends a run in flight,
\* and a row in flight is not claimed.
LEMMA HoldingStays ==
  ASSUME NoErrors, TypeInv, HoldInv, [Next]_vars
  PROVE  ExecutesWhatItHolds' /\ ClaimedByOne'
<1> USE DEF HoldInv, TypeInv
<1>1. RowSteps
  BY StepsOfOwnedRows
<1>2. ASSUME NEW p \in Process, InPipeline(p) PROVE cur[p] \in Run
  BY <1>2 DEF InPipeline, BusyHasRow, BusyLabels, DrainLabels, Executing, Created
<1>3. ASSUME NEW p \in Process, ClaimRun(p), ClaimAdmits(cur[p])
      PROVE  /\ cur[p] \in Run /\ status[cur[p]] = "queued"
             /\ status' = [status EXCEPT ![cur[p]] = "running"]
             /\ owner' = [owner EXCEPT ![cur[p]] = Identity(p)]
             /\ UNCHANGED <<cur, pid>>
  BY <1>3 DEF ClaimRun, ClaimAdmits, SetStatus, life, BusyHasRow, BusyLabels,
     DrainLabels, Created
<1>4. ClaimedByOne'
  <2> SUFFICES ASSUME NEW p \in Process, NEW q \in Process,
                      InPipeline(p)', InPipeline(q)', cur'[p] = cur'[q]
               PROVE  p = q
    BY DEF ClaimedByOne
  <2>1. CASE InPipeline(p) /\ cur'[p] = cur[p] /\ InPipeline(q) /\ cur'[q] = cur[q]
    BY <2>1 DEF ClaimedByOne
  <2>2. CASE ClaimRun(p) /\ ClaimAdmits(cur[p])
    BY <1>3, <2>2, WaysToExecute DEF ExecutesWhatItHolds, ClaimRun, Goto, DrainOK
  <2>3. CASE ClaimRun(q) /\ ClaimAdmits(cur[q])
    BY <1>3, <2>3, WaysToExecute DEF ExecutesWhatItHolds, ClaimRun, Goto, DrainOK
  <2>4. QED
    BY <2>1, <2>2, <2>3, WaysToExecute
<1>5. ExecutesWhatItHolds'
  <2> SUFFICES ASSUME NEW p \in Process, InPipeline(p)'
               PROVE  /\ owner'[cur'[p]] = Identity(p)'
                      /\ status'[cur'[p]] \in {"running", "interrupted"}
    BY DEF ExecutesWhatItHolds
  <2>1. CASE ClaimRun(p) /\ ClaimAdmits(cur[p])
    <3>1. Identity(p)' = Identity(p) /\ cur'[p] = cur[p]
      BY <1>3, <2>1 DEF Identity
    <3> HIDE DEF TypeInv
    <3>2. /\ cur[p] \in Run /\ status' = [status EXCEPT ![cur[p]] = "running"]
          /\ owner' = [owner EXCEPT ![cur[p]] = Identity(p)]
          /\ DOMAIN status = Run /\ DOMAIN owner = Run
      BY <1>3, <2>1 DEF TypeInv, RowsOK
    <3>3. QED
      BY <3>1, <3>2
  <2>2. CASE InPipeline(p) /\ cur'[p] = cur[p] /\ pid'[p] = pid[p]
    <3> DEFINE r == cur[p]
    <3>1. /\ r \in Run /\ owner[r] = Identity(p) /\ Identity(p)' = Identity(p)
          /\ status[r] \in {"running", "interrupted"}
      BY <1>2, <2>2 DEF ExecutesWhatItHolds, Identity
    <3> HIDE DEF r
    <3>2. CASE RowKept
      BY <2>2, <3>1, <3>2 DEF RowKept, r
    <3>3. CASE RowInserted
      BY <2>2, <3>1, <3>3, NextRowIsLowest DEF RowInserted, SetStatus, RowsOK, r
    <3>4. CASE RowClaimed
      BY <2>2, <3>1, <3>4 DEF RowClaimed, ClaimAdmits, SetStatus, RowsOK, r
    <3>5. CASE RowEnded
      <4>1. PICK q \in Process, end \in {"done", "failed", "stopped"} :
               /\ pc[q] = "end" /\ SetStatus(cur[q], end) /\ ~ InPipeline(q)'
               /\ UNCHANGED <<meeting, owner>>
        BY <3>5 DEF RowEnded
      <4>2. cur[q] # r
        BY <2>2, <4>1 DEF ClaimedByOne, InPipeline, r
      <4>3. QED
        BY <2>2, <3>1, <4>1, <4>2 DEF SetStatus, RowsOK, r
    <3>6. CASE RowReaped
      BY <2>2, <3>1, <3>6 DEF RowReaped, SetStatus, RowsOK, r
    <3>7. CASE RowStopped
      BY <2>2, <3>1, <3>7 DEF RowStopped, SetStatus, RowsOK, r
    <3>8. QED
      BY <1>1, <3>2, <3>3, <3>4, <3>5, <3>6, <3>7 DEF RowSteps
  <2>3. QED
    BY <2>1, <2>2, WaysToExecute
<1>6. QED
  BY <1>4, <1>5

\* A row is written by the one build, which reads it.
LEMMA RowsStayReadable ==
  ASSUME OneBuild, TypeInv, HoldInv, [Next]_vars PROVE RowsReadable'
<1> USE DEF TypeInv, RowsOK, HoldInv, RowsReadable
<1>1. CASE UNCHANGED format
  BY <1>1
<1>2. ASSUME NEW p \in Process, QuarantineRun(p) PROVE RowsReadable'
  BY <1>2 DEF QuarantineRun, NothingQuarantined, Quarantining
<1>3. ASSUME NEW c \in Client, InsertRun(c), ~ UNCHANGED format PROVE RowsReadable'
  <2>1. PICK r \in NextRow : format' = [format EXCEPT ![r] = Build[Home[c]]]
    BY <1>3 DEF InsertRun
  <2>2. \A p \in Process : Build[Home[c]] = Build[p] /\ Build[p] \in Nat
    BY PlacementAssumption DEF OneBuild
  <2>3. QED
    BY <2>1, <2>2
<1>4. ASSUME NEW p \in Process, ~ QuarantineRun(p),
             \/ Boot(p) \/ Crash(p) \/ Beat(p) \/ PipelineStep(p) \/ ErrorStep(p)
             \/ DrainStep(p)
      PROVE  UNCHANGED format
  BY <1>4 DEF Boot, Crash, Beat, PipelineStep, ErrorStep, ReportCancelled, PipelineRaises,
     PipelineReturns, ExecutionError, ClaimError, DrainError, QuarantineError, DrainStep,
     ReadRunning, JudgeOwner, InterruptRun, ReadReapedMeeting, MarkReapedMeeting,
     QuarantineMeeting, ReadHead, ClaimRun, LoadRun, BeginRun, EndRun, EndMeeting, rows
<1>5. ASSUME NEW c \in Client, ~ InsertRun(c), ClientStep(c) PROVE UNCHANGED format
  BY <1>5 DEF ClientStep, AskStart, AskResume, AskCancel, StopQueuedRun,
     ReadStoppedMeeting, MarkStoppedMeeting, RequestCancel, rows
<1>6. ASSUME NEW m \in Meeting, ForgetTapes(m) PROVE UNCHANGED format
  BY <1>6 DEF ForgetTapes, rows
<1>7. CASE Tick \/ UNCHANGED vars
  BY <1>1, <1>7 DEF Tick, vars, rows
<1>8. QED
  BY <1>1, <1>2, <1>3, <1>4, <1>5, <1>6, <1>7 DEF Next

\* A thread that reads no row it would refuse quarantines none.
LEMMA NothingIsQuarantined ==
  ASSUME TypeInv, HoldInv, [Next]_vars PROVE NothingQuarantined'
<1> DEFINE Clear == \A p \in Process : pc'[p] \notin Quarantining
<1> USE DEF TypeInv, DrainOK, HoldInv, NothingQuarantined, Quarantining, Goto
<1>1. CASE UNCHANGED pc
  BY <1>1
<1>2. ASSUME NEW q \in Process, Boot(q) \/ Crash(q) PROVE Clear
  BY <1>2 DEF Boot, Crash
<1>3. ASSUME NEW q \in Process, ReadRunning(q) PROVE Clear
  <2>1. Refused(q, Running) = {}
    BY BoundsAssumption, PlacementAssumption DEF Refused, Running, RowsReadable, RowsOK
  <2>2. QED
    BY <1>3, <2>1 DEF ReadRunning, Rest
<1>4. ASSUME NEW q \in Process, ReadHead(q) PROVE Clear
  <2>1. Refused(q, Queued) = {}
    BY BoundsAssumption, PlacementAssumption DEF Refused, Queued, RowsReadable, RowsOK
  <2>2. QED
    BY <1>4, <2>1 DEF ReadHead, Rest, Oldest
<1>5. ASSUME NEW q \in Process,
             DrainStep(q) /\ ~ ReadRunning(q) /\ ~ ReadHead(q)
      PROVE  Clear
  <2>1. CASE QuarantineRun(q) \/ QuarantineMeeting(q)
    BY <2>1 DEF QuarantineRun, QuarantineMeeting
  <2>2. CASE \/ JudgeOwner(q) \/ InterruptRun(q) \/ ReadReapedMeeting(q)
             \/ MarkReapedMeeting(q) \/ ClaimRun(q) \/ LoadRun(q) \/ BeginRun(q)
             \/ EndRun(q) \/ EndMeeting(q)
    BY <2>2 DEF JudgeOwner, InterruptRun, ReadReapedMeeting, MarkReapedMeeting, ClaimRun,
       LoadRun, BeginRun, EndRun, EndMeeting, EndWith, Rest
  <2>3. QED
    BY <1>5, <2>1, <2>2 DEF DrainStep
<1>6. ASSUME NEW q \in Process, PipelineStep(q) \/ ErrorStep(q) \/ Beat(q) PROVE Clear
  BY <1>6 DEF PipelineStep, ErrorStep, Beat, ReportCancelled, PipelineRaises,
     PipelineReturns, EndWith, ExecutionError, ClaimError, DrainError, QuarantineError, Rest
<1>7. ASSUME NEW c \in Client, ClientStep(c) PROVE Clear
  <2>1. CASE InsertRun(c)
    BY <2>1 DEF InsertRun
  <2>2. QED
    BY <1>1, <1>7, <2>1 DEF ClientStep, AskStart, AskResume, AskCancel, StopQueuedRun,
       ReadStoppedMeeting, MarkStoppedMeeting, RequestCancel, drain
<1>8. ASSUME NEW m \in Meeting, ForgetTapes(m) PROVE UNCHANGED pc
  BY <1>8 DEF ForgetTapes, drain
<1>9. CASE Tick \/ UNCHANGED vars
  BY <1>1, <1>9 DEF Tick, vars, drain
<1>10. QED
  BY <1>1, <1>2, <1>3, <1>4, <1>5, <1>6, <1>7, <1>8, <1>9 DEF Next

\* The meeting of a request is an existing one, or that of an existing row.
LEMMA MeetingsStayNamed ==
  ASSUME TypeInv, HoldInv, [Next]_vars PROVE MeetingsNamed'
<1> USE DEF TypeInv, ClientsOK, HoldInv, MeetingsNamed
<1>1. \A r \in Created' : meeting'[r] \in Meeting
  <2> USE DEF RowsOK, Created
  <2>1. RowSteps
    BY StepsOfOwnedRows
  <2>2. CASE RowKept
    BY <2>2 DEF RowKept
  <2>3. CASE RowInserted
    BY <2>3, NextRowIsLowest DEF RowInserted, SetStatus
  <2>4. CASE RowClaimed
    BY <2>4 DEF RowClaimed, ClaimAdmits, SetStatus
  <2>5. CASE RowEnded
    <3>1. PICK q \in Process, end \in {"done", "failed", "stopped"} :
             pc[q] = "end" /\ SetStatus(cur[q], end) /\ UNCHANGED meeting
      BY <2>5 DEF RowEnded
    <3>2. cur[q] \in Created
      BY <3>1 DEF BusyHasRow, BusyLabels, DrainLabels, Executing
    <3>3. QED
      BY <3>1, <3>2 DEF SetStatus
  <2>6. CASE RowReaped \/ RowStopped
    BY <2>6 DEF RowReaped, RowStopped, SetStatus
  <2>7. QED
    BY <2>1, <2>2, <2>3, <2>4, <2>5, <2>6 DEF RowSteps
<1> DEFINE Asks == \A c \in Client : cpc'[c] = "insert" => carg'[c].meeting \in Meeting
<1>2. CASE UNCHANGED <<cpc, carg>>
  BY <1>1, <1>2
<1>3. ASSUME NEW p \in Process, Crash(p) PROVE Asks
  BY <1>3 DEF Crash
<1>4. ASSUME NEW c \in Client, NEW m \in Meeting, AskStart(c, m) PROVE Asks
  BY <1>4 DEF AskStart, Ask
<1>5. ASSUME NEW c \in Client, ClientStep(c) PROVE Asks
  <2>1. ASSUME NEW r \in Run, AskResume(c, r) PROVE Asks
    <3>1. r \in Created
      BY <2>1 DEF AskResume, Created, TerminalStatuses
    <3>2. QED
      BY <1>4, <2>1, <3>1 DEF AskResume
  <2>2. ASSUME NEW r \in Run, AskCancel(c, r) PROVE Asks
    BY <2>2 DEF AskCancel, Ask
  <2>3. CASE InsertRun(c) \/ StopQueuedRun(c) \/ ReadStoppedMeeting(c)
             \/ MarkStoppedMeeting(c) \/ RequestCancel(c)
    BY <2>3 DEF InsertRun, StopQueuedRun, ReadStoppedMeeting, MarkStoppedMeeting,
       RequestCancel, Reply
  <2>4. QED
    BY <1>4, <1>5, <2>1, <2>2, <2>3 DEF ClientStep
<1>6. ASSUME NEW p \in Process,
             Boot(p) \/ DrainStep(p) \/ PipelineStep(p) \/ ErrorStep(p) \/ Beat(p)
      PROVE  UNCHANGED <<cpc, carg>>
  BY <1>6 DEF Boot, DrainStep, ReadRunning, JudgeOwner, InterruptRun, ReadReapedMeeting,
     MarkReapedMeeting, QuarantineRun, QuarantineMeeting, ReadHead, ClaimRun, LoadRun,
     BeginRun, EndRun, EndMeeting, PipelineStep, ErrorStep, Beat, ReportCancelled,
     PipelineRaises, PipelineReturns, ExecutionError, ClaimError, DrainError,
     QuarantineError, clients
<1>7. ASSUME NEW m \in Meeting, ForgetTapes(m) PROVE UNCHANGED <<cpc, carg>>
  BY <1>7 DEF ForgetTapes, clients
<1>8. CASE Tick \/ UNCHANGED vars
  BY <1>1, <1>8 DEF Tick, vars, clients
<1>9. Asks \/ UNCHANGED <<cpc, carg>>
  BY <1>3, <1>5, <1>6, <1>7, <1>8 DEF Next, Tick, vars, clients
<1>10. QED
  BY <1>1, <1>2, <1>9

\* The strengthening is an invariant.
LEMMA HoldInvariant == NoErrors /\ OneBuild => (Spec => []HoldInv)
<1> SUFFICES ASSUME NoErrors, OneBuild PROVE Spec => []HoldInv
  OBVIOUS
<1>1. ASSUME TypeInv, HoldInv, [Next]_vars PROVE HoldInv'
  <2>1. RowsInOrder' /\ ClaimsTheHead'
    BY <1>1, RowsStayInOrder, ClaimsStayTheHead DEF HoldInv
  <2>2. QED
    BY <1>1, <2>1, HoldingStays, RowsStayReadable, NothingIsQuarantined,
       MeetingsStayNamed DEF HoldInv
<1>2. QED
  BY <1>1, HoldInit, TypeInvariant, PTL DEF Spec

-----------------------------------------------------------------------------
(* The theorems. *)

\* A process executes only a run it claimed that is still its own to end
\* (RunManager._execute_run): its row reads running under its name, or a peer
\* took it for dead.
THEOREM HoldsWhatItExecutes == NoErrors /\ OneBuild => (Spec => []ExecutesWhatItHolds)
<1> SUFFICES ASSUME NoErrors, OneBuild PROVE Spec => []ExecutesWhatItHolds
  OBVIOUS
<1>1. HoldInv => ExecutesWhatItHolds
  BY DEF HoldInv
<1>2. QED
  BY <1>1, HoldInvariant, PTL

\* An owner writes its end over a row in flight.
LEMMA EndsWhatIsInFlight ==
  ASSUME TypeInv, HoldInv, NEW p \in Process, pc[p] = "end"
  PROVE  cur[p] \in Run /\ status[cur[p]] \in {"running", "interrupted"}
BY DEF TypeInv, HoldInv, ExecutesWhatItHolds, InPipeline, BusyHasRow, BusyLabels,
   DrainLabels, Executing, Created

\* So an ended row is in nobody's reach.
LEMMA EndedRowsStay ==
  ASSUME TypeInv, HoldInv, [Next]_vars, NEW r \in Run,
         status[r] \in {"done", "failed", "stopped"}
  PROVE  status'[r] = status[r]
<1>1. RowSteps
  BY StepsOfOwnedRows
<1>2. CASE RowEnded
  BY <1>2, EndsWhatIsInFlight DEF RowEnded, SetStatus, TypeInv, RowsOK
<1>3. CASE RowInserted
  BY <1>3, NextRowIsLowest DEF RowInserted, SetStatus, TypeInv, RowsOK
<1>4. QED
  BY <1>1, <1>2, <1>3 DEF RowSteps, RowKept, RowClaimed, ClaimAdmits, RowReaped,
     RowStopped, SetStatus, TypeInv, RowsOK

\* A run that ended done, failed or stopped never changes again, however old
\* the read a reaper, a claimant or a cancel acts on (claim_run,
\* interrupt_run, stop_run compare; update_run is the owner's alone).
THEOREM EndedStay == NoErrors /\ OneBuild => (Spec => EndedRunsStayEnded)
<1> SUFFICES ASSUME NoErrors, OneBuild PROVE Spec => EndedRunsStayEnded
  OBVIOUS
<1>1. ASSUME TypeInv, HoldInv, [Next]_vars
      PROVE  [\A r \in Run : status[r] \in {"done", "failed", "stopped"}
                                => status'[r] = status[r]]_vars
  BY <1>1, EndedRowsStay
<1>2. QED
  BY <1>1, HoldInvariant, TypeInvariant, PTL DEF Spec, EndedRunsStayEnded

\* The run rows follow the lifecycle that service/lifecycle.py declares: every
\* statement that changes a row is one declared move of one run, legal where it
\* happens, and everything else stutters.
THEOREM Implements == NoErrors /\ OneBuild => (Spec => FollowsLifecycle)
<1> SUFFICES ASSUME NoErrors, OneBuild PROVE Spec => FollowsLifecycle
  OBVIOUS
<1> USE DEF Lifecycle!Run, Run, Lifecycle!ActiveStatuses, ActiveStatuses
<1>1. Init => Lifecycle!Init
  BY DEF Init, Lifecycle!Init
<1>2. ASSUME TypeInv, HoldInv, [Next]_vars
      PROVE  [Lifecycle!Next]_(Lifecycle!vars)
  <2> USE DEF Lifecycle!Move, SetStatus
  <2>1. RowSteps
    BY <1>2, StepsOfOwnedRows
  <2>2. CASE RowKept
    BY <2>2 DEF RowKept, Lifecycle!vars
  <2>3. CASE RowInserted
    <3>1. PICK r \in NextRow, c \in Client :
             /\ cpc[c] = "insert" /\ IndexAdmits(carg[c].meeting)
             /\ SetStatus(r, "queued")
             /\ meeting' = [meeting EXCEPT ![r] = carg[c].meeting]
      BY <2>3 DEF RowInserted
    <3>2. carg[c].meeting \in Meeting /\ ~ Lifecycle!InFlight(carg[c].meeting)
      BY <1>2, <3>1 DEF HoldInv, MeetingsNamed, IndexAdmits, InFlight, Active,
         Lifecycle!InFlight
    <3>3. Lifecycle!Enqueue(r, carg[c].meeting)
      BY <3>1, <3>2, NextRowIsLowest DEF Lifecycle!Enqueue
    <3>4. r \in Run
      BY NextRowIsLowest
    <3>5. QED
      BY <3>2, <3>3, <3>4 DEF Lifecycle!Next
  <2>4. CASE RowClaimed
    <3>1. PICK p \in Process :
             /\ pc[p] = "claim" /\ ClaimAdmits(cur[p]) /\ SetStatus(cur[p], "running")
             /\ UNCHANGED meeting
      BY <2>4 DEF RowClaimed
    <3>2. /\ cur[p] \in Run /\ status[cur[p]] = "queued" /\ Running = {}
          /\ \A s \in Queued : cur[p] <= s
      BY <1>2, <3>1 DEF HoldInv, ClaimsTheHead, ClaimAdmits, TypeInv, BusyHasRow,
         BusyLabels, DrainLabels, Created
    <3>3. \A s \in Run : s < cur[p] => status[s] # "queued"
      BY <3>2, BoundsAssumption DEF Queued
    <3>4. Lifecycle!Claim(cur[p])
      BY <3>1, <3>2, <3>3 DEF Lifecycle!Claim, Running
    <3>5. QED
      BY <3>2, <3>4 DEF Lifecycle!Next
  <2>5. CASE RowEnded
    <3>1. PICK p \in Process, end \in {"done", "failed", "stopped"} :
             pc[p] = "end" /\ SetStatus(cur[p], end) /\ UNCHANGED meeting
      BY <2>5 DEF RowEnded
    <3>2. cur[p] \in Run /\ status[cur[p]] \in {"running", "interrupted"}
      BY <1>2, <3>1, EndsWhatIsInFlight
    <3>3. CASE status[cur[p]] = "interrupted"
      BY <3>1, <3>2, <3>3 DEF Lifecycle!OwnerEnds, Lifecycle!Next
    <3>4. CASE status[cur[p]] = "running"
      BY <3>1, <3>2, <3>4 DEF Lifecycle!Finish, Lifecycle!Fail, Lifecycle!StopRunning,
         Lifecycle!Next
    <3>5. QED
      BY <3>2, <3>3, <3>4
  <2>6. CASE RowReaped
    BY <2>6 DEF RowReaped, Lifecycle!Interrupt, Lifecycle!Next
  <2>7. CASE RowStopped
    BY <2>7 DEF RowStopped, Lifecycle!StopQueued, Lifecycle!Next
  <2>8. QED
    BY <2>1, <2>2, <2>3, <2>4, <2>5, <2>6, <2>7 DEF RowSteps
<1>3. QED
  BY <1>1, <1>2, HoldInvariant, TypeInvariant, PTL DEF Spec, FollowsLifecycle,
     Lifecycle!Spec

-----------------------------------------------------------------------------
(* One machine: every process can probe every other, whatever the host names *)
(* say.                                                                      *)

OneMachine == \A p, q \in Process : Machine[p] = Machine[q]

\* What a reaper read of a row is still its owner: a row that was claimed is
\* never queued again, and its owner column never changes.
RemembersTheOwner ==
    \A p \in Process : pc[p] \in {"judge", "interrupt"} =>
        /\ status[cur[p]] \notin {"absent", "queued"}
        /\ owner[cur[p]] = seen[p].owner

\* A drain thread is a thread of a living process.
ThreadsLive == \A p \in Process : pc[p] # "off" => Up(p)

\* A run is running while its pipeline is, and has ended when its meeting is
\* written.
RunningWhileHeld ==
    \A p \in Process :
        /\ InPipeline(p) => status[cur[p]] = "running"
        /\ pc[p] = "endMeeting" => status[cur[p]] \in {"done", "failed", "stopped"}

\* A run that a reaper took for dead, and that still runs, runs nowhere.
ReapersAreRight ==
    \A p, q \in Process :
        pc[p] = "interrupt" /\ status[cur[p]] = "running" /\ InPipeline(q)
            => cur[q] # cur[p]

ReapInv == RemembersTheOwner /\ ThreadsLive /\ RunningWhileHeld /\ ReapersAreRight

\* Nothing runs yet.
LEMMA ReapInit == Init => ReapInv
BY DEF Init, ReapInv, RemembersTheOwner, ThreadsLive, RunningWhileHeld, ReapersAreRight,
   InPipeline, Executing

\* A thread judges or reaps the row it judged, or one it has just read.
LEMMA WaysToReap ==
  ASSUME TypeInv, [Next]_vars, NEW p \in Process, pc'[p] \in {"judge", "interrupt"}
  PROVE  \/ /\ pc[p] \in {"judge", "interrupt"}
            /\ cur'[p] = cur[p] /\ seen'[p] = seen[p]
            /\ \/ pc'[p] = pc[p]
               \/ JudgeOwner(p) /\ IsDead(p, seen[p].owner, seen[p].beat)
         \/ /\ pc'[p] = "judge" /\ cur'[p] \in Running /\ UNCHANGED rows
            /\ seen'[p] = [owner |-> owner[cur'[p]], beat |-> beat[cur'[p]]]
<1> DEFINE Same == pc'[p] = pc[p] /\ cur'[p] = cur[p] /\ seen'[p] = seen[p]
<1> USE DEF TypeInv, DrainOK, Goto
<1>1. CASE UNCHANGED <<pc, cur, seen>>
  BY <1>1
<1>2. ASSUME NEW q \in Process, Boot(q) \/ Crash(q) PROVE Same
  BY <1>2 DEF Boot, Crash, Forget
<1>3. ASSUME NEW q \in Process, ErrorStep(q) PROVE Same
  BY <1>3 DEF ErrorStep, ExecutionError, ClaimError, DrainError, QuarantineError,
     NothingRead, EndWith, Rest, Forget
<1>4. ASSUME NEW q \in Process, DrainStep(q), q # p \/ ~ (ReadRunning(p) \/ JudgeOwner(p))
      PROVE  Same
  <2>1. CASE ReadRunning(q) \/ ReadHead(q)
    BY <1>4, <2>1 DEF ReadRunning, ReadHead, Rest, Forget
  <2>2. CASE QuarantineRun(q) \/ QuarantineMeeting(q)
    BY <2>2 DEF QuarantineRun, QuarantineMeeting, NothingRead, Rest, Forget
  <2>3. CASE \/ JudgeOwner(q) \/ InterruptRun(q) \/ ReadReapedMeeting(q)
             \/ MarkReapedMeeting(q) \/ ClaimRun(q) \/ LoadRun(q) \/ BeginRun(q)
             \/ EndRun(q) \/ EndMeeting(q)
    BY <1>4, <2>3 DEF JudgeOwner, InterruptRun, ReadReapedMeeting, MarkReapedMeeting,
       ClaimRun, LoadRun, BeginRun, EndRun, EndMeeting, EndWith, Rest, Forget
  <2>4. QED
    BY <1>4, <2>1, <2>2, <2>3 DEF DrainStep
<1>5. CASE JudgeOwner(p)
  BY <1>5 DEF JudgeOwner, Rest
<1>6. CASE ReadRunning(p)
  <2>1. CASE \E r \in Running :
               /\ Refused(p, Running) = {}
               /\ Goto(p, "judge")
               /\ cur' = [cur EXCEPT ![p] = r]
               /\ seen' = [seen EXCEPT ![p] = [owner |-> owner[r], beat |-> beat[r]]]
    <3>1. PICK r \in Running :
             /\ pc' = [pc EXCEPT ![p] = "judge"]
             /\ cur' = [cur EXCEPT ![p] = r]
             /\ seen' = [seen EXCEPT ![p] = [owner |-> owner[r], beat |-> beat[r]]]
      BY <2>1
    <3>2. cur'[p] = r /\ pc'[p] = "judge"
          /\ seen'[p] = [owner |-> owner[r], beat |-> beat[r]]
      BY <3>1
    <3>3. QED
      BY <1>6, <3>2 DEF ReadRunning
  <2>2. CASE pc'[p] \notin {"judge", "interrupt"}
    BY <2>2
  <2>3. QED
    BY <1>6, <2>1, <2>2 DEF ReadRunning, Rest
<1>7. ASSUME NEW q \in Process, PipelineStep(q) \/ Beat(q) PROVE Same
  BY <1>7 DEF PipelineStep, ReportCancelled, PipelineRaises, PipelineReturns, EndWith, Beat
<1>8. ASSUME NEW c \in Client, ClientStep(c) PROVE Same
  <2>1. CASE InsertRun(c)
    BY <2>1 DEF InsertRun
  <2>2. QED
    BY <1>1, <1>8, <2>1 DEF ClientStep, AskStart, AskResume, AskCancel, StopQueuedRun,
       ReadStoppedMeeting, MarkStoppedMeeting, RequestCancel, drain
<1>9. ASSUME NEW m \in Meeting, ForgetTapes(m) PROVE UNCHANGED <<pc, cur, seen>>
  BY <1>9 DEF ForgetTapes, drain
<1>10. CASE Tick \/ UNCHANGED vars
  BY <1>1, <1>10 DEF Tick, vars, drain
<1>11. QED
  BY <1>1, <1>2, <1>3, <1>4, <1>5, <1>6, <1>7, <1>8, <1>9, <1>10 DEF Next

\* A claimed row stays claimed, by the same owner.
LEMMA ClaimedRowsKeepTheirOwner ==
  ASSUME TypeInv, HoldInv, [Next]_vars, NEW r \in Run, status[r] \notin {"absent", "queued"}
  PROVE  /\ status'[r] \notin {"absent", "queued"} /\ owner'[r] = owner[r]
         /\ status'[r] = "running" => status[r] = "running"
<1>1. RowSteps
  BY StepsOfOwnedRows
<1>2. QED
  BY <1>1, NextRowIsLowest DEF RowSteps, RowKept, RowInserted, RowClaimed, RowEnded,
     RowReaped, RowStopped, ClaimAdmits, SetStatus, TypeInv, RowsOK

\* So what a reaper remembers stays true of the row.
LEMMA OwnersAreRemembered ==
  ASSUME TypeInv, HoldInv, RemembersTheOwner, [Next]_vars PROVE RemembersTheOwner'
<1> SUFFICES ASSUME NEW p \in Process, pc'[p] \in {"judge", "interrupt"}
    PROVE  /\ status'[cur'[p]] \notin {"absent", "queued"}
           /\ owner'[cur'[p]] = seen'[p].owner
  BY DEF RemembersTheOwner
<1>1. CASE pc[p] \in {"judge", "interrupt"} /\ cur'[p] = cur[p] /\ seen'[p] = seen[p]
  <2>1. cur[p] \in Run
    BY <1>1 DEF TypeInv, BusyHasRow, BusyLabels, DrainLabels, Reaping, Created
  <2>2. QED
    BY <1>1, <2>1, ClaimedRowsKeepTheirOwner DEF RemembersTheOwner
<1>2. CASE /\ cur'[p] \in Running /\ UNCHANGED rows
           /\ seen'[p] = [owner |-> owner[cur'[p]], beat |-> beat[cur'[p]]]
  BY <1>2 DEF Running, rows
<1>3. QED
  BY <1>1, <1>2, WaysToReap

\* A reap that lands is the reaper's, on the row as it saw it.
LEMMA WaysToInterrupt ==
  ASSUME TypeInv, [Next]_vars, NEW r \in Run, Interrupted(r)
  PROVE  \E p \in Process : InterruptRun(p) /\ cur[p] = r /\ StillAsSeen(r, seen[p])
<1> USE DEF TypeInv, RowsOK, Interrupted
<1>1. CASE UNCHANGED status
  BY <1>1
<1>2. ASSUME NEW p \in Process, DrainStep(p), ~ InterruptRun(p) PROVE FALSE
  <2>1. CASE QuarantineRun(p)
    BY <2>1 DEF QuarantineRun, SetStatus
  <2>2. CASE ClaimRun(p)
    BY <2>2 DEF ClaimRun, SetStatus
  <2>3. CASE EndRun(p)
    BY <2>3 DEF EndRun, RunStatusOf, SetStatus
  <2>4. QED
    BY <1>1, <1>2, <2>1, <2>2, <2>3 DEF DrainStep, ReadRunning, JudgeOwner, ReadReapedMeeting,
       MarkReapedMeeting, QuarantineMeeting, ReadHead, LoadRun, BeginRun, EndMeeting, rows
<1>3. ASSUME NEW p \in Process, InterruptRun(p)
      PROVE  cur[p] = r /\ StillAsSeen(r, seen[p])
  BY <1>3 DEF InterruptRun, SetStatus
<1>4. ASSUME NEW p \in Process,
             Boot(p) \/ Crash(p) \/ Beat(p) \/ PipelineStep(p) \/ ErrorStep(p)
      PROVE  UNCHANGED status
  BY <1>4 DEF Boot, Crash, Beat, PipelineStep, ErrorStep, ReportCancelled, PipelineRaises,
     PipelineReturns, ExecutionError, ClaimError, DrainError, QuarantineError, rows
<1>5. ASSUME NEW c \in Client, ClientStep(c) PROVE FALSE
  <2>1. CASE InsertRun(c) \/ StopQueuedRun(c)
    BY <2>1 DEF InsertRun, StopQueuedRun, SetStatus
  <2>2. QED
    BY <1>1, <1>5, <2>1 DEF ClientStep, AskStart, AskResume, AskCancel, ReadStoppedMeeting,
       MarkStoppedMeeting, RequestCancel, rows
<1>6. ASSUME NEW m \in Meeting, ForgetTapes(m) PROVE UNCHANGED status
  BY <1>6 DEF ForgetTapes, rows
<1>7. CASE Tick \/ UNCHANGED vars
  BY <1>1, <1>7 DEF Tick, vars, rows
<1>8. QED
  BY <1>1, <1>2, <1>3, <1>4, <1>5, <1>6, <1>7 DEF Next


\* A thread that is not off was not off, in the same process, or was just started.
LEMMA WaysToLive ==
  ASSUME TypeInv, [Next]_vars, NEW p \in Process, pc'[p] # "off"
  PROVE  (pc[p] # "off" /\ pid'[p] = pid[p]) \/ Up(p)'
<1> DEFINE Same == pc[p] # "off" /\ pid'[p] = pid[p]
<1> USE DEF TypeInv, LifeOK, DrainOK, Goto
<1>1. CASE UNCHANGED <<pc, pid>>
  BY <1>1
<1>2. ASSUME NEW q \in Process, Boot(q) PROVE Same \/ Up(p)'
  BY <1>2 DEF Boot, Up, NewPids
<1>3. ASSUME NEW q \in Process, Crash(q) PROVE Same
  BY <1>3 DEF Crash
<1>4. ASSUME NEW q \in Process, DrainStep(q) PROVE Same
  <2>1. CASE ReadRunning(q) \/ ReadHead(q)
    BY <2>1 DEF ReadRunning, ReadHead, Rest, life
  <2>2. CASE QuarantineRun(q) \/ QuarantineMeeting(q)
    BY <2>2 DEF QuarantineRun, QuarantineMeeting, NothingRead, Rest, life
  <2>3. CASE \/ JudgeOwner(q) \/ InterruptRun(q) \/ ReadReapedMeeting(q)
             \/ MarkReapedMeeting(q) \/ ClaimRun(q) \/ LoadRun(q) \/ BeginRun(q)
             \/ EndRun(q) \/ EndMeeting(q)
    BY <2>3 DEF JudgeOwner, InterruptRun, ReadReapedMeeting, MarkReapedMeeting, ClaimRun,
       LoadRun, BeginRun, EndRun, EndMeeting, EndWith, Rest, life
  <2>4. QED
    BY <1>4, <2>1, <2>2, <2>3 DEF DrainStep
<1>5. ASSUME NEW q \in Process, PipelineStep(q) \/ ErrorStep(q) \/ Beat(q) PROVE Same
  BY <1>5 DEF PipelineStep, ErrorStep, Beat, ReportCancelled, PipelineRaises,
     PipelineReturns, EndWith, ExecutionError, ClaimError, DrainError, QuarantineError,
     NothingRead, Rest, life, Executing, Reaping, Quarantining
<1>6. ASSUME NEW c \in Client, ClientStep(c) PROVE Same
  <2>1. CASE InsertRun(c)
    BY <2>1 DEF InsertRun, life
  <2>2. QED
    BY <1>1, <1>6, <2>1 DEF ClientStep, AskStart, AskResume, AskCancel, StopQueuedRun,
       ReadStoppedMeeting, MarkStoppedMeeting, RequestCancel, drain, life
<1>7. ASSUME NEW m \in Meeting, ForgetTapes(m) PROVE UNCHANGED <<pc, pid>>
  BY <1>7 DEF ForgetTapes, drain, life
<1>8. CASE Tick \/ UNCHANGED vars
  BY <1>1, <1>8 DEF Tick, vars, drain, life
<1>9. QED
  BY <1>1, <1>2, <1>3, <1>4, <1>5, <1>6, <1>7, <1>8 DEF Next

\* A process that ends stops its thread with it.
LEMMA ThreadsStayLive == ASSUME TypeInv, ThreadsLive, [Next]_vars PROVE ThreadsLive'
BY WaysToLive DEF ThreadsLive, Up

\* A thread that writes its meeting's end has written its run's.
LEMMA WaysToTheMeeting ==
  ASSUME NoErrors, TypeInv, [Next]_vars, NEW p \in Process, pc'[p] = "endMeeting"
  PROVE  cur'[p] = cur[p] /\ (pc[p] = "endMeeting" \/ EndRun(p))
<1> DEFINE Same == pc[p] = "endMeeting" /\ cur'[p] = cur[p]
<1> USE DEF TypeInv, DrainOK, Goto, Executing
<1>1. CASE pc[p] \in Executing /\ cur'[p] = cur[p]
  <2> SUFFICES ASSUME pc[p] # "endMeeting" PROVE EndRun(p)
    BY <1>1
  <2>1. pc'[p] # pc[p]
    OBVIOUS
  <2>2. ASSUME NEW q \in Process, DrainStep(q) PROVE EndRun(p)
    <3>1. CASE q = p
      BY <1>1, <2>1, <2>2, <3>1 DEF DrainStep, ReadRunning, JudgeOwner, InterruptRun,
         ReadReapedMeeting, MarkReapedMeeting, QuarantineRun, QuarantineMeeting, ReadHead,
         ClaimRun, LoadRun, BeginRun, EndMeeting, EndWith, Rest
    <3>2. CASE q # p
      BY <2>1, <2>2, <3>2 DEF DrainStep, ReadRunning, JudgeOwner, InterruptRun,
         ReadReapedMeeting, MarkReapedMeeting, QuarantineRun, QuarantineMeeting, ReadHead,
         ClaimRun, LoadRun, BeginRun, EndRun, EndMeeting, EndWith, NothingRead, Rest
    <3>3. QED
      BY <3>1, <3>2
  <2>3. ASSUME NEW q \in Process, Boot(q) \/ Crash(q) PROVE FALSE
    BY <2>1, <2>3 DEF Boot, Crash
  <2>4. ASSUME NEW q \in Process, PipelineStep(q) \/ Beat(q) \/ ErrorStep(q) PROVE FALSE
    BY <2>1, <2>4, BoundsAssumption DEF PipelineStep, Beat, ErrorStep, ReportCancelled,
       PipelineRaises, PipelineReturns, EndWith, ExecutionError, ClaimError, DrainError,
       QuarantineError, Error, NoErrors, WorldOK
  <2>5. ASSUME NEW c \in Client, ClientStep(c) PROVE FALSE
    BY <2>1, <2>5 DEF ClientStep, AskStart, AskResume, InsertRun, AskCancel, StopQueuedRun,
       ReadStoppedMeeting, MarkStoppedMeeting, RequestCancel, drain
  <2>6. ASSUME NEW m \in Meeting, ForgetTapes(m) PROVE FALSE
    BY <2>1, <2>6 DEF ForgetTapes, drain
  <2>7. ~ Tick /\ ~ UNCHANGED vars
    BY <2>1 DEF Tick, vars, drain
  <2>8. QED
    BY <2>2, <2>3, <2>4, <2>5, <2>6, <2>7 DEF Next
<1>2. CASE ClaimRun(p)
  BY <1>2 DEF ClaimRun, Rest
<1>3. QED
  BY <1>1, <1>2, WaysToHold

\* The judge sees every executor of the machine alive, and a run is reaped only
\* after the judge.
LEMMA ReapersStayRight ==
  ASSUME NoErrors, OneMachine, TypeInv, HoldInv, ReapInv, [Next]_vars
  PROVE  ReapersAreRight'
<1> SUFFICES ASSUME NEW p \in Process, NEW q \in Process, pc'[p] = "interrupt",
                    status'[cur'[p]] = "running", InPipeline(q)', cur'[q] = cur'[p]
             PROVE  FALSE
  BY DEF ReapersAreRight
<1>1. /\ pc[p] \in {"judge", "interrupt"}
      /\ cur'[p] = cur[p] /\ seen'[p] = seen[p]
      /\ pc'[p] = pc[p] \/ (JudgeOwner(p) /\ IsDead(p, seen[p].owner, seen[p].beat))
  BY WaysToReap
<1> DEFINE r == cur[p]
<1>2. r \in Run
  BY <1>1 DEF TypeInv, BusyHasRow, BusyLabels, DrainLabels, Reaping, Created
<1>3. status[r] = "running" /\ owner[r] = seen[p].owner
  BY <1>1, <1>2, ClaimedRowsKeepTheirOwner DEF ReapInv, RemembersTheOwner
<1>4. InPipeline(q) /\ cur[q] = r
  BY <1>1, <1>3, WaysToExecute DEF ClaimRun, ClaimAdmits, Goto, TypeInv, DrainOK, InPipeline
<1>5. CASE pc'[p] = pc[p]
  BY <1>3, <1>4, <1>5 DEF ReapInv, ReapersAreRight
<1>6. CASE IsDead(p, seen[p].owner, seen[p].beat)
  <2>1. owner[r] = Identity(q)
    BY <1>4 DEF HoldInv, ExecutesWhatItHolds
  <2>2. Up(q) /\ Machine[q] = Machine[p]
    BY <1>4 DEF ReapInv, ThreadsLive, InPipeline, OneMachine
  <2>3. Identity(q).pid \in Pids(p)
    BY <2>2 DEF Identity, Pids
  <2>4. Identity(q) # None
    BY NoneAssumption DEF Identity, TypeInv, LifeOK
  <2>5. LocalOwnerState(p, seen[p].owner) = "alive"
    BY <1>3, <2>1, <2>3, <2>4 DEF LocalOwnerState
  <2>6. QED
    BY <1>6, <2>5 DEF IsDead
<1>7. QED
  BY <1>1, <1>5, <1>6

\* So an executed run is running until its executor ends it.
LEMMA HeldRunsStayRunning ==
  ASSUME NoErrors, TypeInv, HoldInv, ReapInv, [Next]_vars PROVE RunningWhileHeld'
<1> USE DEF ReapInv, RunningWhileHeld
<1>1. RowSteps
  BY StepsOfOwnedRows
<1>2. ASSUME NEW p \in Process, InPipeline(p)' PROVE status'[cur'[p]] = "running"
  <2>1. CASE ClaimRun(p) /\ ClaimAdmits(cur[p])
    <3>1. cur[p] \in Run
      BY <2>1 DEF ClaimRun, TypeInv, BusyHasRow, BusyLabels, DrainLabels, Created
    <3>2. QED
      BY <2>1, <3>1 DEF ClaimRun, SetStatus, TypeInv, RowsOK
  <2>2. CASE InPipeline(p) /\ cur'[p] = cur[p]
    <3>1. cur[p] \in Run /\ status[cur[p]] = "running" /\ status'[cur[p]] \in {"running", "interrupted"}
      BY <1>2, <2>2, HoldingStays DEF ExecutesWhatItHolds, InPipeline, TypeInv, BusyHasRow,
         BusyLabels, DrainLabels, Executing, Created
    <3>2. ~ Interrupted(cur[p])
      BY <2>2, <3>1, WaysToInterrupt DEF InterruptRun, ReapersAreRight
    <3>3. QED
      BY <2>2, <3>1, <3>2 DEF Interrupted
  <2>3. QED
    BY <1>2, <2>1, <2>2, WaysToExecute
<1>3. ASSUME NEW p \in Process, pc'[p] = "endMeeting"
      PROVE  status'[cur'[p]] \in {"done", "failed", "stopped"}
  <2>1. cur[p] \in Run
    BY <1>3, WaysToTheMeeting DEF EndRun, TypeInv, BusyHasRow, BusyLabels, DrainLabels,
       Executing, Created
  <2>2. CASE EndRun(p)
    BY <1>3, <2>1, <2>2, WaysToTheMeeting DEF EndRun, SetStatus, RunStatusOf, TypeInv, RowsOK
  <2>3. CASE pc[p] = "endMeeting"
    <3>1. status[cur[p]] \in {"done", "failed", "stopped"}
      BY <2>3
    <3>2. status'[cur[p]] = status[cur[p]]
      BY <2>1, <3>1, EndedRowsStay
    <3>3. QED
      BY <1>3, <3>1, <3>2, WaysToTheMeeting
  <2>4. QED
    BY <1>3, <2>2, <2>3, WaysToTheMeeting
<1>4. QED
  BY <1>2, <1>3

\* The strengthening is an invariant.
LEMMA ReapInvariant ==
  NoErrors /\ OneBuild /\ OneMachine => (Spec => []ReapInv)
<1> SUFFICES ASSUME NoErrors, OneBuild, OneMachine PROVE Spec => []ReapInv
  OBVIOUS
<1>1. ASSUME TypeInv, HoldInv, ReapInv, [Next]_vars PROVE ReapInv'
  BY <1>1, OwnersAreRemembered, ThreadsStayLive, HeldRunsStayRunning, ReapersStayRight
     DEF ReapInv
<1>2. QED
  BY <1>1, ReapInit, HoldInvariant, TypeInvariant, PTL DEF Spec

\* Processes that can probe each other never execute two pipelines at once,
\* through any crash, restart, stall or rename of the host, even when process
\* ids are handed out again (RunManager._is_dead): the row of a run in a
\* pipeline stays running, and one row runs.
THEOREM OneAtATime == NoErrors /\ OneBuild /\ OneMachine => (Spec => []OnePipeline)
<1> SUFFICES ASSUME NoErrors, OneBuild, OneMachine PROVE Spec => []OnePipeline
  OBVIOUS
<1>1. TypeInv /\ HoldInv /\ ReapInv /\ OneRunningRow => OnePipeline
  <2> SUFFICES ASSUME TypeInv, HoldInv, ReapInv, OneRunningRow, NEW p \in Process,
                      NEW q \in Process, InPipeline(p), InPipeline(q)
               PROVE  p = q
    BY DEF OnePipeline
  <2>1. cur[p] \in Running /\ cur[q] \in Running
    BY DEF ReapInv, RunningWhileHeld, InPipeline, TypeInv, BusyHasRow, BusyLabels,
       DrainLabels, Executing, Created, Running
  <2>2. QED
    BY <2>1 DEF OneRunningRow, HoldInv, ClaimedByOne
<1>2. QED
  BY <1>1, TypeInvariant, HoldInvariant, ReapInvariant, NodeRunsOne, PTL

\* On one machine a reap never takes a run from a process that is executing it,
\* even while it writes the run's end.
THEOREM ReapsOrphans == NoErrors /\ OneBuild /\ OneMachine => (Spec => ReapsOnlyOrphans)
<1> SUFFICES ASSUME NoErrors, OneBuild, OneMachine PROVE Spec => ReapsOnlyOrphans
  OBVIOUS
<1>1. ASSUME TypeInv, HoldInv, ReapInv, [Next]_vars
      PROVE  [\A r \in Run : Interrupted(r) =>
                 \A p \in Process : ~ (pc[p] \in Executing /\ cur[p] = r)]_vars
  <2> SUFFICES ASSUME NEW r \in Run, Interrupted(r), NEW q \in Process,
                      pc[q] \in Executing, cur[q] = r
               PROVE  FALSE
    OBVIOUS
  <2>1. PICK p \in Process : InterruptRun(p) /\ cur[p] = r
    BY <1>1, WaysToInterrupt
  <2>2. status[r] = "running" /\ pc[p] = "interrupt"
    BY <2>1 DEF Interrupted, InterruptRun
  <2>3. InPipeline(q)
    BY <1>1, <2>2 DEF ReapInv, RunningWhileHeld, Executing, InPipeline
  <2>4. QED
    BY <1>1, <2>1, <2>2, <2>3 DEF ReapInv, ReapersAreRight
<1>2. QED
  BY <1>1, TypeInvariant, HoldInvariant, ReapInvariant, PTL DEF Spec, ReapsOnlyOrphans

-----------------------------------------------------------------------------
(* Any number of machines, as long as an id is not handed out twice and two  *)
(* machines never share a host name.                                         *)

FreshPids == PidReuse = FALSE
HostNamesAreUnique ==
    \A p, q \in Process : HostName[p] = HostName[q] => Machine[p] = Machine[q]

\* Ids are handed out in order: whoever owns a row, or was read as an owner,
\* has an id that was used.
PidsInOrder ==
    /\ \A p \in Process : pid[p] <= pidsUsed
    /\ \A r \in Run : owner[r] = None \/ owner[r].pid <= pidsUsed
    /\ \A p \in Process : seen[p].owner = None \/ seen[p].owner.pid <= pidsUsed

\* No beat, written or remembered, is of the future.
BeatsInOrder ==
    /\ \A r \in Run : beat[r] <= now
    /\ \A p \in Process : seen[p].beat <= now

\* What the judge found of the row it remembers is still true: the beat is old,
\* or the owner is no process that lives.
EvidenceHolds ==
    \A p \in Process : pc[p] = "interrupt" =>
        \/ Stale(seen[p].beat)
        \/ \A q \in Process : Up(q) => Identity(q) # seen[p].owner

EvidenceInv == PidsInOrder /\ BeatsInOrder /\ EvidenceHolds

\* Where an owner, a beat, an id and the time come from.
LEMMA WaysToRecord ==
  ASSUME FreshPids, TypeInv, [Next]_vars
  PROVE  /\ \A p \in Process : \/ pid'[p] \in {pid[p], 0}
                               \/ pidsUsed' = pidsUsed + 1 /\ pid'[p] = pidsUsed'
         /\ pidsUsed' \in {pidsUsed, pidsUsed + 1}
         /\ now' \in {now, now + 1}
         /\ \A r \in Run : /\ beat'[r] \in {beat[r], now}
                           /\ \/ owner'[r] = owner[r]
                              \/ \E p \in Process : owner'[r] = Identity(p)
         /\ \A p \in Process :
               \/ seen'[p] \in {seen[p], Nothing}
               \/ \E r \in Run : seen'[p] = [owner |-> owner[r], beat |-> beat[r]]
<1> DEFINE SameLife == UNCHANGED <<pid, pidsUsed>>
           SameRows == UNCHANGED <<owner, beat>>
           Sees == \A p \in Process :
                     \/ seen'[p] \in {seen[p], Nothing}
                     \/ \E r \in Run : seen'[p] = [owner |-> owner[r], beat |-> beat[r]]
           Done == SameLife /\ SameRows /\ UNCHANGED now /\ Sees
<1> SUFFICES \/ Done
             \/ /\ UNCHANGED <<seen, pid, pidsUsed>>
                /\ now' \in {now, now + 1}
                /\ \A r \in Run : /\ beat'[r] \in {beat[r], now}
                                  /\ \/ owner'[r] = owner[r]
                                     \/ \E p \in Process : owner'[r] = Identity(p)
             \/ /\ \A p \in Process : seen'[p] \in {seen[p], Nothing}
                /\ SameRows /\ UNCHANGED now
                /\ \A p \in Process : \/ pid'[p] \in {pid[p], 0}
                                      \/ pidsUsed' = pidsUsed + 1 /\ pid'[p] = pidsUsed'
                /\ pidsUsed' \in {pidsUsed, pidsUsed + 1}
  OBVIOUS
<1> USE DEF TypeInv, DrainOK, LifeOK, RowsOK
<1>1. CASE UNCHANGED vars
  BY <1>1 DEF vars, rows, life, drain, world
<1>2. CASE Tick
  BY <1>2 DEF Tick, rows, life, drain
<1>3. ASSUME NEW m \in Meeting, ForgetTapes(m) PROVE Done
  BY <1>3 DEF ForgetTapes, rows, life, drain, world
<1>4. ASSUME NEW c \in Client, ClientStep(c) PROVE Done
  BY <1>4 DEF ClientStep, AskStart, AskResume, InsertRun, AskCancel, StopQueuedRun,
     ReadStoppedMeeting, MarkStoppedMeeting, RequestCancel, drain, rows, life, world
<1>5. ASSUME NEW p \in Process, PipelineStep(p) PROVE Done
  BY <1>5 DEF PipelineStep, ReportCancelled, PipelineRaises, PipelineReturns, EndWith,
     rows, life, world
<1>6. ASSUME NEW p \in Process, ErrorStep(p) PROVE Done
  BY <1>6 DEF ErrorStep, ExecutionError, ClaimError, DrainError, QuarantineError,
     NothingRead, EndWith, Rest, Forget, rows, life
<1>7. ASSUME NEW p \in Process, DrainStep(p), ~ ReadRunning(p), ~ ClaimRun(p) PROVE Done
  BY <1>7 DEF DrainStep, JudgeOwner, InterruptRun, ReadReapedMeeting, MarkReapedMeeting,
     QuarantineRun, QuarantineMeeting, ReadHead, LoadRun, BeginRun, EndRun, EndMeeting,
     NothingRead, EndWith, Rest, Forget, rows, life, world
<1>8. ASSUME NEW p \in Process, ReadRunning(p) PROVE Done
  BY <1>8 DEF ReadRunning, Running, Rest, Forget, rows, life, world
<1>9. ASSUME NEW p \in Process, Beat(p)
      PROVE  UNCHANGED <<seen, pid, pidsUsed, now, owner>>
             /\ \A r \in Run : beat'[r] \in {beat[r], now}
  BY <1>9 DEF Beat, life, world
<1>10. ASSUME NEW p \in Process, ClaimRun(p)
       PROVE  \/ Done
              \/ /\ UNCHANGED <<seen, pid, pidsUsed, now>>
                 /\ \A r \in Run : /\ beat'[r] \in {beat[r], now}
                                   /\ owner'[r] \in {owner[r], Identity(p)}
  BY <1>10 DEF ClaimRun, Rest, Forget, life, world
<1>11. ASSUME NEW p \in Process, Boot(p) \/ Crash(p)
       PROVE  /\ \A q \in Process : seen'[q] \in {seen[q], Nothing}
              /\ SameRows /\ UNCHANGED now
              /\ \A q \in Process : \/ pid'[q] \in {pid[q], 0}
                                    \/ pidsUsed' = pidsUsed + 1 /\ pid'[q] = pidsUsed'
              /\ pidsUsed' \in {pidsUsed, pidsUsed + 1}
  BY <1>11 DEF Boot, Crash, NewPids, FreshPids, Forget, rows, world
<1>12. QED
  BY <1>1, <1>2, <1>3, <1>4, <1>5, <1>6, <1>7, <1>8, <1>9, <1>10, <1>11 DEF Next

\* Ids, beats and the clock are numbers.
LEMMA RecordsAreNumbers ==
  ASSUME TypeInv
  PROVE  /\ pidsUsed \in Nat /\ now \in Nat
         /\ \A p \in Process : pid[p] \in Nat /\ seen[p].beat \in Nat
         /\ \A p \in Process : seen[p].owner = None \/ seen[p].owner.pid \in Nat
         /\ \A r \in Run : beat[r] \in Nat /\ (owner[r] = None \/ owner[r].pid \in Nat)
<1>1. MaxPid \in Nat /\ MaxClock \in Nat
  BY BoundsAssumption
<1>2. \A n \in 0 .. MaxPid : n \in Nat
  BY <1>1
<1>3. \A n \in 0 .. MaxClock : n \in Nat
  BY <1>1
<1>4. pidsUsed \in Nat /\ \A p \in Process : pid[p] \in Nat
  BY <1>2 DEF TypeInv, LifeOK
<1>5. now \in Nat /\ \A r \in Run : beat[r] \in Nat
  BY <1>3 DEF TypeInv, WorldOK, RowsOK
<1>6. \A o \in Identities : o.pid \in Nat
  BY <1>2 DEF Identities
<1>7. \A r \in Run : owner[r] = None \/ owner[r].pid \in Nat
  BY <1>6 DEF TypeInv, RowsOK
<1>8. \A o \in Observations : o.beat \in Nat /\ (o.owner = None \/ o.owner.pid \in Nat)
  BY <1>3, <1>6 DEF Observations
<1>9. QED
  BY <1>4, <1>5, <1>7, <1>8 DEF TypeInv, DrainOK

\* Ids and beats stay in order.
LEMMA RecordsStayInOrder ==
  ASSUME FreshPids, TypeInv, PidsInOrder, BeatsInOrder, [Next]_vars
  PROVE  PidsInOrder' /\ BeatsInOrder'
<1>1. pidsUsed \in Nat /\ now \in Nat
  BY RecordsAreNumbers
<1>2. pidsUsed' \in {pidsUsed, pidsUsed + 1} /\ now' \in {now, now + 1}
  BY WaysToRecord
<1>3. ASSUME NEW p \in Process PROVE pid'[p] <= pidsUsed'
  <2>1. pid[p] \in Nat /\ pid[p] <= pidsUsed
    BY RecordsAreNumbers DEF PidsInOrder
  <2>2. pid'[p] \in {pid[p], 0} \/ pid'[p] = pidsUsed'
    BY WaysToRecord
  <2>3. QED
    BY <1>1, <1>2, <2>1, <2>2
<1>4. ASSUME NEW r \in Run PROVE owner'[r] = None \/ owner'[r].pid <= pidsUsed'
  <2>1. owner[r] = None \/ (owner[r].pid \in Nat /\ owner[r].pid <= pidsUsed)
    BY RecordsAreNumbers DEF PidsInOrder
  <2>2. \A p \in Process : Identity(p).pid \in Nat /\ Identity(p).pid <= pidsUsed
    BY RecordsAreNumbers DEF PidsInOrder, Identity
  <2>3. owner'[r] = owner[r] \/ \E p \in Process : owner'[r] = Identity(p)
    BY WaysToRecord
  <2>4. QED
    BY <1>1, <1>2, <2>1, <2>2, <2>3
<1>5. ASSUME NEW p \in Process
      PROVE  seen'[p].owner = None \/ seen'[p].owner.pid <= pidsUsed'
  <2>1. \/ seen[p].owner = None
        \/ seen[p].owner.pid \in Nat /\ seen[p].owner.pid <= pidsUsed
    BY RecordsAreNumbers DEF PidsInOrder
  <2>2. \A r \in Run : owner[r] = None \/ (owner[r].pid \in Nat /\ owner[r].pid <= pidsUsed)
    BY RecordsAreNumbers DEF PidsInOrder
  <2>3. \/ seen'[p] \in {seen[p], Nothing}
        \/ \E r \in Run : seen'[p] = [owner |-> owner[r], beat |-> beat[r]]
    BY WaysToRecord
  <2>4. \/ seen'[p] = seen[p]
        \/ seen'[p].owner = None
        \/ \E r \in Run : seen'[p].owner = owner[r]
    <3>1. Nothing.owner = None
      BY DEF Nothing
    <3>2. \A r \in Run : [owner |-> owner[r], beat |-> beat[r]].owner = owner[r]
      OBVIOUS
    <3>3. QED
      BY <2>3, <3>1, <3>2
  <2>5. QED
    BY <1>1, <1>2, <2>1, <2>2, <2>4
<1>6. ASSUME NEW r \in Run PROVE beat'[r] <= now'
  <2>1. beat[r] \in Nat /\ beat[r] <= now /\ beat'[r] \in {beat[r], now}
    BY RecordsAreNumbers, WaysToRecord DEF BeatsInOrder
  <2>2. QED
    BY <1>1, <1>2, <2>1
<1>7. ASSUME NEW p \in Process PROVE seen'[p].beat <= now'
  <2>1. seen[p].beat \in Nat /\ seen[p].beat <= now
    BY RecordsAreNumbers DEF BeatsInOrder
  <2>2. \A r \in Run : beat[r] \in Nat /\ beat[r] <= now
    BY RecordsAreNumbers DEF BeatsInOrder
  <2>3. seen'[p] = seen[p] \/ seen'[p].beat = 0 \/ \E r \in Run : seen'[p].beat = beat[r]
    <3>1. \/ seen'[p] \in {seen[p], Nothing}
          \/ \E r \in Run : seen'[p] = [owner |-> owner[r], beat |-> beat[r]]
      BY WaysToRecord
    <3>2. Nothing.beat = 0
      BY DEF Nothing
    <3>3. \A r \in Run : [owner |-> owner[r], beat |-> beat[r]].beat = beat[r]
      OBVIOUS
    <3>4. QED
      BY <3>1, <3>2, <3>3
  <2>4. QED
    BY <1>1, <1>2, <2>1, <2>2, <2>3
<1>8. QED
  BY <1>3, <1>4, <1>5, <1>6, <1>7 DEF PidsInOrder, BeatsInOrder

\* A beat that is old stays old.
LEMMA StaleStaysStale ==
  ASSUME NEW b \in Nat, now \in Nat, now' \in {now, now + 1}, b <= now, Stale(b)
  PROVE  Stale(b)'
<1>1. now - b > StaleAfter
  BY DEF Stale
<1>2. CASE now' = now
  BY <1>1, <1>2 DEF Stale
<1>3. CASE now' = now + 1
  <2>1. ASSUME NEW n \in Nat, n >= b, n - b > StaleAfter
        PROVE  n + 1 >= b /\ (n + 1) - b > StaleAfter
    BY <2>1, BoundsAssumption
  <2>2. now' >= b /\ now' - b > StaleAfter
    BY <1>1, <1>3, <2>1
  <2>3. QED
    BY <2>2 DEF Stale
<1>4. QED
  BY <1>2, <1>3

\* The evidence of a reap is not undone while the reaper waits: a process that
\* starts has an id nobody had.
LEMMA EvidenceStays ==
  ASSUME FreshPids, HostNamesAreUnique, TypeInv, EvidenceInv, [Next]_vars
  PROVE  EvidenceHolds'
<1> SUFFICES ASSUME NEW p \in Process, pc'[p] = "interrupt", ~ Stale(seen[p].beat)',
                    NEW q \in Process, Up(q)', Identity(q)' = seen'[p].owner
             PROVE  FALSE
  <2>1. ASSUME NEW p \in Process, pc'[p] = "interrupt" PROVE seen'[p] = seen[p]
    BY <2>1, WaysToReap
  <2>2. QED
    BY <2>1 DEF EvidenceHolds
<1>1. /\ seen'[p] = seen[p]
      /\ \/ pc[p] = "interrupt"
         \/ JudgeOwner(p) /\ IsDead(p, seen[p].owner, seen[p].beat)
  BY WaysToReap
<1>2. pidsUsed \in Nat /\ now \in Nat /\ seen[p].beat \in Nat /\ pid[q] \in Nat
  BY RecordsAreNumbers
<1>3. ~ Stale(seen[p].beat)
  <2>1. now' \in {now, now + 1} /\ seen[p].beat <= now
    BY WaysToRecord DEF EvidenceInv, BeatsInOrder
  <2>2. PICK b \in Nat : b = seen[p].beat
    BY <1>2
  <2>3. b <= now /\ now \in Nat /\ now' \in {now, now + 1}
    BY <1>2, <2>1, <2>2
  <2>4. QED
    BY <1>1, <2>2, <2>3, StaleStaysStale
<1>4. seen[p].owner # None
  <2>1. Identity(q)' = [host |-> HostName[q], pid |-> pid'[q]] /\ pid'[q] \in Nat
    BY <1>2, WaysToRecord DEF Identity
  <2>2. QED
    BY <1>1, <2>1, NoneAssumption
<1>5. seen[p].owner.pid \in Nat /\ seen[p].owner.pid <= pidsUsed
  BY <1>4, RecordsAreNumbers DEF EvidenceInv, PidsInOrder
<1>6. pid'[q] = pid[q] /\ Up(q)
  BY <1>1, <1>2, <1>5, WaysToRecord DEF Identity, Up
<1>7. Identity(q) = seen[p].owner
  BY <1>1, <1>6 DEF Identity
<1>8. CASE pc[p] = "interrupt"
  BY <1>3, <1>6, <1>7, <1>8 DEF EvidenceInv, EvidenceHolds
<1>9. CASE IsDead(p, seen[p].owner, seen[p].beat)
  <2>1. LocalOwnerState(p, seen[p].owner) = "gone"
    BY <1>3, <1>9 DEF IsDead
  <2>2. seen[p].owner.host = HostName[p] /\ seen[p].owner.pid \notin Pids(p)
    BY <2>1, <1>4 DEF LocalOwnerState
  <2>3. HostName[q] = HostName[p] /\ pid[q] \notin Pids(p)
    BY <2>2, <1>7 DEF Identity
  <2>4. QED
    BY <2>3, <1>6 DEF HostNamesAreUnique, Pids
<1>10. QED
  BY <1>1, <1>8, <1>9

\* On any number of machines a reap that lands is backed by evidence that still
\* holds when it lands: the owner is gone, or its last beat is stale.  A beat
\* between the reaper's read and its write saves the run (interrupt_run).  No
\* premise on builds or on errors: they may strike anywhere.
THEOREM ReapsTheSilent ==
  FreshPids /\ HostNamesAreUnique => (Spec => ReapsOnlyTheSilent)
<1> SUFFICES ASSUME FreshPids, HostNamesAreUnique PROVE Spec => ReapsOnlyTheSilent
  OBVIOUS
<1>1. Init => EvidenceInv
  BY BoundsAssumption DEF Init, EvidenceInv, PidsInOrder, BeatsInOrder, EvidenceHolds, Nothing
<1>2. ASSUME TypeInv, EvidenceInv, [Next]_vars PROVE EvidenceInv'
  BY <1>2, RecordsStayInOrder, EvidenceStays DEF EvidenceInv
<1>3. ASSUME TypeInv, EvidenceInv, [Next]_vars
      PROVE  [\A r \in Run : Interrupted(r) =>
                 \/ Stale(beat[r])
                 \/ \A p \in Process : Up(p) => Identity(p) # owner[r]]_vars
  <2> SUFFICES ASSUME NEW r \in Run, Interrupted(r)
               PROVE  \/ Stale(beat[r])
                      \/ \A p \in Process : Up(p) => Identity(p) # owner[r]
    OBVIOUS
  <2>1. PICK p \in Process : InterruptRun(p) /\ cur[p] = r /\ StillAsSeen(r, seen[p])
    BY <1>3, WaysToInterrupt
  <2>2. QED
    BY <1>3, <2>1 DEF InterruptRun, StillAsSeen, EvidenceInv, EvidenceHolds
<1>4. QED
  BY <1>1, <1>2, <1>3, TypeInvariant, PTL DEF Spec, ReapsOnlyTheSilent
=============================================================================
