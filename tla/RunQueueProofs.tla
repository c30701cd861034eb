---------------------------- MODULE RunQueueProofs ----------------------------
(***************************************************************************)
(* What holds of RunQueue for every number of meetings, processes, request *)
(* threads and rows, every placement of the processes, every order of their*)
(* steps, every crash and every error.                                     *)
(***************************************************************************)
EXTENDS RunQueue, TLAPS

-----------------------------------------------------------------------------
(* The type invariant, by the parts a step can disturb. *)

Observations == [owner : Identities \union {None}, beat : 0 .. MaxClock]
Arguments    == [run : 0 .. MaxRuns, meeting : Meeting \union {None}]

RowsOK ==
    /\ status \in [Run -> RunStatuses \union {"absent"}]
    /\ meeting \in [Run -> Meeting \union {None}]
    /\ owner \in [Run -> Identities \union {None}]
    /\ beat \in [Run -> 0 .. MaxClock]
    /\ cancelRequested \in [Run -> BOOLEAN]
    /\ format \in [Run -> Nat]

MeetingsOK ==
    /\ meetingStatus \in [Meeting -> MeetingStatuses]
    /\ hasTapes \in [Meeting -> BOOLEAN]
    /\ announced \subseteq Run

LifeOK ==
    /\ pid \in [Process -> 0 .. MaxPid]
    /\ pidsUsed \in 0 .. MaxPid

DrainOK ==
    /\ ready \in [Process -> BOOLEAN]
    /\ pc \in [Process -> DrainLabels]
    /\ cur \in [Process -> 0 .. MaxRuns]
    /\ seen \in [Process -> Observations]
    /\ outcome \in [Process -> Outcomes \union {"none"}]
    /\ signal \in [Process -> BOOLEAN]

ClientsOK ==
    /\ cpc \in [Client -> ClientLabels]
    /\ carg \in [Client -> Arguments]

WorldOK ==
    /\ now \in 0 .. MaxClock
    /\ errors \in 0 .. MaxErrors

BusyLabels == DrainLabels \ {"off", "dead", "scan", "head"}

\* A thread with something to do holds a row that was inserted.  This is what
\* the types rest on: every table is indexed by cur[p] without a test.
BusyHasRow == \A p \in Process : pc[p] \in BusyLabels => cur[p] \in Created

TypeInv ==
    /\ RowsOK
    /\ MeetingsOK
    /\ LifeOK
    /\ DrainOK
    /\ ClientsOK
    /\ WorldOK
    /\ BusyHasRow

\* The parts are TypeOK, and the rows in hand.
LEMMA TypeInvTypes == TypeInv <=> TypeOK /\ BusyHasRow
BY DEF TypeInv, TypeOK, RowsOK, MeetingsOK, LifeOK, DrainOK, ClientsOK,
   WorldOK, Observations, Arguments

\* The type invariant holds in the empty registry.
LEMMA TypeInit == Init => TypeInv
BY BoundsAssumption DEF Init, TypeInv, RowsOK, MeetingsOK, LifeOK, DrainOK,
   ClientsOK, WorldOK, BusyHasRow, BusyLabels, RunStatuses, ActiveStatuses,
   TerminalStatuses, MeetingStatuses, NoArg, Nothing, DrainLabels,
   ClientLabels, Run, Outcomes, Observations, Arguments

-----------------------------------------------------------------------------
(* Steps on the rows. *)

\* Everything a step can do to the rows' statuses and meetings.
RowsStep ==
    \/ UNCHANGED <<status, meeting>>
    \/ \E r \in NextRow, c \in Client :
          /\ IndexAdmits(carg[c].meeting)
          /\ SetStatus(r, "queued")
          /\ meeting' = [meeting EXCEPT ![r] = carg[c].meeting]
    \/ \E p \in Process :
          /\ pc[p] = "claim"
          /\ ClaimAdmits(cur[p])
          /\ SetStatus(cur[p], "running")
          /\ UNCHANGED meeting
    \/ \E r \in Created, end \in TerminalStatuses :
          /\ SetStatus(r, end)
          /\ UNCHANGED meeting

\* No other step touches a status or a meeting column: a row is inserted, is
\* claimed, or is ended.
LEMMA StepsOfRows == ASSUME TypeInv, [Next]_vars PROVE RowsStep
<1> USE DEF vars, rows, meetings, life, drain, clients, world
<1>1. CASE UNCHANGED vars
  BY <1>1 DEF RowsStep
<1>2. ASSUME NEW p \in Process, Boot(p) \/ Crash(p) \/ Beat(p)
      PROVE RowsStep
  BY <1>2 DEF Boot, Crash, Beat, RowsStep
<1>3. ASSUME NEW p \in Process, DrainStep(p) PROVE RowsStep
  <2> USE DEF TypeInv, BusyHasRow, BusyLabels, DrainLabels, Executing, Reaping,
              Quarantining
  <2>1. CASE ReadRunning(p) \/ JudgeOwner(p) \/ ReadReapedMeeting(p)
             \/ MarkReapedMeeting(p) \/ QuarantineMeeting(p) \/ ReadHead(p)
             \/ LoadRun(p) \/ BeginRun(p) \/ EndMeeting(p)
    BY <2>1 DEF ReadRunning, JudgeOwner, ReadReapedMeeting, MarkReapedMeeting,
       QuarantineMeeting, ReadHead, LoadRun, BeginRun, EndMeeting, RowsStep
  <2>2. CASE InterruptRun(p)
    <3>1. cur[p] \in Created
      BY <2>2 DEF InterruptRun
    <3>2. QED
      BY <2>2, <3>1 DEF InterruptRun, RowsStep, TerminalStatuses
  <2>3. CASE QuarantineRun(p)
    <3>1. cur[p] \in Created
      BY <2>3 DEF QuarantineRun, NothingRead
    <3>2. QED
      BY <2>3, <3>1 DEF QuarantineRun, NothingRead, RowsStep, TerminalStatuses
  <2>4. CASE ClaimRun(p)
    BY <2>4 DEF ClaimRun, RowsStep
  <2>5. CASE EndRun(p)
    <3>1. cur[p] \in Created
      BY <2>5 DEF EndRun
    <3>2. QED
      BY <2>5, <3>1 DEF EndRun, RowsStep, TerminalStatuses, RunStatusOf
  <2>6. QED
    BY <1>3, <2>1, <2>2, <2>3, <2>4, <2>5 DEF DrainStep
<1>4. ASSUME NEW p \in Process, PipelineStep(p) \/ ErrorStep(p)
      PROVE RowsStep
  BY <1>4 DEF PipelineStep, ErrorStep, ReportCancelled, PipelineRaises,
     PipelineReturns, ExecutionError, ClaimError, DrainError,
     QuarantineError, NothingRead, RowsStep
<1>5. ASSUME NEW c \in Client, ClientStep(c) PROVE RowsStep
  <2>1. CASE InsertRun(c)
    BY <2>1 DEF InsertRun, RowsStep
  <2>2. CASE StopQueuedRun(c)
    <3>1. CASE carg[c].run \in Created
      BY <2>2, <3>1 DEF StopQueuedRun, RowsStep, TerminalStatuses
    <3>2. CASE carg[c].run \in Run \ Created
      BY <2>2, <3>2 DEF StopQueuedRun, StopAdmits, Created, RowsStep
    <3>3. CASE carg[c].run \notin Run
      BY <2>2, <3>3 DEF StopQueuedRun, SetStatus, RowsStep, TypeInv, RowsOK
    <3>4. QED
      BY <3>1, <3>2, <3>3 DEF Created
  <2>3. CASE ~ InsertRun(c) /\ ~ StopQueuedRun(c)
    BY <1>5, <2>3 DEF ClientStep, AskStart, AskResume, AskCancel, ReadStoppedMeeting,
       MarkStoppedMeeting, RequestCancel, RowsStep
  <2>4. QED
    BY <2>1, <2>2, <2>3
<1>6. ASSUME NEW m \in Meeting, ForgetTapes(m) PROVE RowsStep
  BY <1>6 DEF ForgetTapes, RowsStep
<1>7. CASE Tick
  BY <1>7 DEF Tick, RowsStep
<1>8. QED
  BY <1>1, <1>2, <1>3, <1>4, <1>5, <1>6, <1>7 DEF Next

-----------------------------------------------------------------------------
(* Every step keeps the types. *)

\* The registry's run rows.
LEMMA RowsStayTyped == ASSUME TypeInv, [Next]_vars PROVE RowsOK'
<1> USE DEF TypeInv, RowsOK
<1>1. CASE UNCHANGED rows
  BY <1>1 DEF rows
<1>2. ASSUME NEW p \in Process, Beat(p) PROVE RowsOK'
  BY <1>2 DEF Beat, WorldOK
<1>3. ASSUME NEW p \in Process, DrainStep(p) PROVE RowsOK'
  <2>1. CASE InterruptRun(p)
    BY <2>1 DEF InterruptRun, SetStatus, RunStatuses, TerminalStatuses
  <2>2. CASE QuarantineRun(p)
    BY <2>2 DEF QuarantineRun, NothingRead, SetStatus, RunStatuses,
       TerminalStatuses
  <2>3. CASE ClaimRun(p)
    <3>1. Identity(p) \in Identities
      BY DEF Identity, Identities, LifeOK
    <3>2. QED
      BY <2>3, <3>1 DEF ClaimRun, SetStatus, RunStatuses, ActiveStatuses,
         WorldOK
  <2>4. CASE EndRun(p)
    BY <2>4 DEF EndRun, SetStatus, RunStatusOf, RunStatuses, TerminalStatuses
  <2>5. QED
    BY <1>1, <1>3, <2>1, <2>2, <2>3, <2>4 DEF DrainStep, ReadRunning,
       JudgeOwner, ReadReapedMeeting, MarkReapedMeeting, QuarantineMeeting,
       ReadHead, LoadRun, BeginRun, EndMeeting
<1>4. ASSUME NEW c \in Client, ClientStep(c) PROVE RowsOK'
  <2>1. CASE InsertRun(c)
    <3>1. Build[Home[c]] \in Nat
      BY PlacementAssumption
    <3>2. /\ carg[c].run \in 0 .. MaxRuns
          /\ carg[c].meeting \in Meeting \union {None}
      BY DEF ClientsOK, Arguments
    <3>3. NextRow \subseteq Run
      BY DEF NextRow, Oldest
    <3>4. UNCHANGED <<owner, beat, cancelRequested>>
      BY <2>1 DEF InsertRun
    <3>5. CASE UNCHANGED <<status, meeting, format>>
      BY <3>4, <3>5
    <3>6. CASE ~ UNCHANGED <<status, meeting, format>>
      <4>1. PICK r \in Run :
               /\ status' = [status EXCEPT ![r] = "queued"]
               /\ meeting' = [meeting EXCEPT ![r] = carg[c].meeting]
               /\ format' = [format EXCEPT ![r] = Build[Home[c]]]
        BY <2>1, <3>3, <3>6 DEF InsertRun, SetStatus
      <4>2. QED
        BY <3>1, <3>2, <3>4, <4>1 DEF RunStatuses, ActiveStatuses
    <3>7. QED
      BY <3>5, <3>6
  <2>2. CASE StopQueuedRun(c)
    BY <2>2 DEF StopQueuedRun, SetStatus, RunStatuses, TerminalStatuses
  <2>3. CASE RequestCancel(c)
    BY <2>3 DEF RequestCancel
  <2>4. QED
    BY <1>1, <1>4, <2>1, <2>2, <2>3 DEF ClientStep, AskStart, AskResume, AskCancel,
       ReadStoppedMeeting, MarkStoppedMeeting
<1>5. ASSUME NEW p \in Process,
             Boot(p) \/ Crash(p) \/ PipelineStep(p) \/ ErrorStep(p)
      PROVE  UNCHANGED rows
  BY <1>5 DEF Boot, Crash, PipelineStep, ErrorStep, ReportCancelled,
     PipelineRaises, PipelineReturns, ExecutionError, ClaimError, DrainError,
     QuarantineError, NothingRead
<1>6. ASSUME NEW m \in Meeting, ForgetTapes(m) PROVE UNCHANGED rows
  BY <1>6 DEF ForgetTapes
<1>7. CASE Tick
  BY <1>1, <1>7 DEF Tick
<1>8. CASE UNCHANGED vars
  BY <1>1, <1>8 DEF vars
<1>9. QED
  BY <1>1, <1>2, <1>3, <1>4, <1>5, <1>6, <1>7, <1>8 DEF Next

\* The registry's meetings, and what was announced.
LEMMA MeetingsStayTyped == ASSUME TypeInv, [Next]_vars PROVE MeetingsOK'
<1> USE DEF TypeInv, MeetingsOK
<1>1. CASE UNCHANGED <<meetings, announced>>
  BY <1>1 DEF meetings
<1>2. ASSUME NEW p \in Process, DrainStep(p) PROVE MeetingsOK'
  <2> USE DEF DrainOK, BusyHasRow, Created, BusyLabels, DrainLabels, Executing,
              Reaping, Quarantining, MeetingStatuses
  <2>1. CASE MarkReapedMeeting(p)
    BY <2>1 DEF MarkReapedMeeting
  <2>2. CASE QuarantineMeeting(p)
    BY <2>2 DEF QuarantineMeeting
  <2>3. CASE BeginRun(p)
    BY <2>3 DEF BeginRun
  <2>4. CASE EndMeeting(p)
    <3>1. cur[p] \in Run
      BY <2>4 DEF EndMeeting
    <3>2. NoticeOf(outcome[p], cur[p]) \subseteq Run
      BY <3>1 DEF NoticeOf
    <3>3. QED
      BY <2>4, <3>2 DEF EndMeeting, MeetingStatusOf
  <2>5. QED
    BY <1>1, <1>2, <2>1, <2>2, <2>3, <2>4 DEF DrainStep, ReadRunning,
       JudgeOwner, ReadReapedMeeting, InterruptRun, QuarantineRun,
       NothingRead, ReadHead, ClaimRun, LoadRun, EndRun
<1>3. ASSUME NEW c \in Client, ClientStep(c) PROVE MeetingsOK'
  <2>1. CASE MarkStoppedMeeting(c)
    BY <2>1 DEF MarkStoppedMeeting, MeetingStatuses
  <2>2. QED
    BY <1>1, <1>3, <2>1 DEF ClientStep, AskStart, AskResume, InsertRun, AskCancel,
       StopQueuedRun, ReadStoppedMeeting, RequestCancel
<1>4. ASSUME NEW m \in Meeting, ForgetTapes(m) PROVE MeetingsOK'
  BY <1>4 DEF ForgetTapes
<1>5. ASSUME NEW p \in Process,
             Boot(p) \/ Crash(p) \/ Beat(p) \/ PipelineStep(p) \/ ErrorStep(p)
      PROVE  UNCHANGED <<meetings, announced>>
  BY <1>5 DEF Boot, Crash, Beat, PipelineStep, ErrorStep, ReportCancelled,
     PipelineRaises, PipelineReturns, ExecutionError, ClaimError, DrainError,
     QuarantineError, NothingRead
<1>6. CASE Tick
  BY <1>1, <1>6 DEF Tick
<1>7. CASE UNCHANGED vars
  BY <1>1, <1>7 DEF vars
<1>8. QED
  BY <1>1, <1>2, <1>3, <1>4, <1>5, <1>6, <1>7 DEF Next

\* The process ids.
LEMMA LifeStaysTyped == ASSUME TypeInv, [Next]_vars PROVE LifeOK'
<1> USE DEF TypeInv, LifeOK
<1>1. CASE UNCHANGED life
  BY <1>1 DEF life
<1>2. ASSUME NEW p \in Process, Boot(p) PROVE LifeOK'
  BY <1>2, BoundsAssumption DEF Boot, NewPids
<1>3. ASSUME NEW p \in Process, Crash(p) PROVE LifeOK'
  BY <1>3, BoundsAssumption DEF Crash
<1>4. ASSUME NEW p \in Process,
             DrainStep(p) \/ Beat(p) \/ PipelineStep(p) \/ ErrorStep(p)
      PROVE  UNCHANGED life
  <2>1. CASE DrainStep(p)
    BY <2>1 DEF DrainStep, ReadRunning, JudgeOwner, InterruptRun,
       ReadReapedMeeting, MarkReapedMeeting, QuarantineRun, NothingRead,
       QuarantineMeeting,
       ReadHead, ClaimRun, LoadRun, BeginRun, EndRun, EndMeeting
  <2>2. CASE Beat(p) \/ PipelineStep(p) \/ ErrorStep(p)
    BY <2>2 DEF Beat, PipelineStep, ErrorStep, ReportCancelled, PipelineRaises,
       PipelineReturns, ExecutionError, ClaimError, DrainError,
     QuarantineError, NothingRead
  <2>3. QED
    BY <1>4, <2>1, <2>2
<1>5. ASSUME NEW c \in Client, ClientStep(c) PROVE UNCHANGED life
  BY <1>5 DEF ClientStep, AskStart, AskResume, InsertRun, AskCancel, StopQueuedRun,
     ReadStoppedMeeting, MarkStoppedMeeting, RequestCancel
<1>6. ASSUME NEW m \in Meeting, ForgetTapes(m) PROVE UNCHANGED life
  BY <1>6 DEF ForgetTapes
<1>7. CASE Tick
  BY <1>1, <1>7 DEF Tick
<1>8. CASE UNCHANGED vars
  BY <1>1, <1>8 DEF vars
<1>9. QED
  BY <1>1, <1>2, <1>3, <1>4, <1>5, <1>6, <1>7, <1>8 DEF Next

\* A thread that forgets keeps its types.
LEMMA ForgetTyped ==
  ASSUME TypeInv, NEW p \in Process, Forget(p)
  PROVE  /\ cur' \in [Process -> 0 .. MaxRuns]
         /\ seen' \in [Process -> Observations]
         /\ outcome' \in [Process -> Outcomes \union {"none"}]
         /\ signal' \in [Process -> BOOLEAN]
<1>1. Nothing \in Observations
  BY BoundsAssumption DEF Nothing, Observations
<1>2. QED
  BY <1>1, BoundsAssumption DEF TypeInv, DrainOK, Forget

\* A thread back at the top of its loop keeps its types.
LEMMA RestTyped ==
  ASSUME TypeInv, NEW p \in Process, Rest(p) PROVE DrainOK'
BY ForgetTyped DEF TypeInv, Rest, Goto, DrainOK, DrainLabels

\* The drain threads: a step between two registry calls.
LEMMA DrainStepTyped ==
  ASSUME TypeInv, NEW p \in Process, DrainStep(p)
  PROVE  DrainOK'
<1> USE DEF TypeInv, DrainOK, DrainLabels, Executing, Reaping, Quarantining,
            Goto
<1>1. CASE Rest(p)
  BY <1>1, RestTyped
<1>2. CASE ReadRunning(p)
  <2>1. CASE Running = {} /\ ready[p]
    BY <1>2, <2>1 DEF ReadRunning, Refused
  <2>2. CASE \E r \in Refused(p, Running) :
             /\ Goto(p, "quarantineRunning")
             /\ cur' = [cur EXCEPT ![p] = r]
             /\ UNCHANGED <<ready, seen, outcome, signal>>
    BY <2>2, BoundsAssumption DEF Refused, Running, Run
  <2>3. CASE \E r \in Running :
             /\ Goto(p, "judge")
             /\ cur' = [cur EXCEPT ![p] = r]
             /\ seen' = [seen EXCEPT
                           ![p] = [owner |-> owner[r], beat |-> beat[r]]]
             /\ UNCHANGED <<ready, outcome, signal>>
    BY <2>3, BoundsAssumption DEF Running, Run, RowsOK, Observations
  <2>4. QED
    BY <1>1, <1>2, <2>1, <2>2, <2>3 DEF ReadRunning
<1>3. CASE /\ ~ Rest(p)
           /\ \/ JudgeOwner(p) \/ InterruptRun(p) \/ ReadReapedMeeting(p)
              \/ MarkReapedMeeting(p) \/ ClaimRun(p) \/ LoadRun(p)
              \/ BeginRun(p) \/ EndRun(p) \/ EndMeeting(p)
  BY <1>3 DEF JudgeOwner, InterruptRun, ReadReapedMeeting, MarkReapedMeeting,
     ClaimRun, LoadRun, BeginRun, EndRun, EndMeeting, EndWith, Outcomes
<1>4. CASE ~ Rest(p) /\ QuarantineRun(p)
  BY <1>4, ForgetTyped DEF QuarantineRun, NothingRead
<1>5. CASE QuarantineMeeting(p)
  BY <1>5, ForgetTyped DEF QuarantineMeeting
<1>6. CASE ~ Rest(p) /\ ReadHead(p)
  BY <1>6, BoundsAssumption DEF ReadHead, Refused, Queued, Run, Head, Oldest
<1>7. QED
  BY <1>1, <1>2, <1>3, <1>4, <1>5, <1>6 DEF DrainStep

\* The drain threads: any step.
LEMMA DrainStaysTyped == ASSUME TypeInv, [Next]_vars PROVE DrainOK'
<1> USE DEF TypeInv, DrainOK, DrainLabels, Executing, Reaping, Quarantining,
            Goto
<1>1. CASE UNCHANGED drain
  BY <1>1 DEF drain
<1>2. ASSUME NEW p \in Process, Boot(p) \/ Crash(p) PROVE DrainOK'
  BY <1>2, ForgetTyped DEF Boot, Crash
<1>3. ASSUME NEW p \in Process, DrainStep(p) PROVE DrainOK'
  BY <1>3, DrainStepTyped
<1>4. ASSUME NEW p \in Process, PipelineStep(p) PROVE DrainOK'
  BY <1>4 DEF PipelineStep, ReportCancelled, PipelineRaises, PipelineReturns,
     EndWith, Outcomes
<1>5. ASSUME NEW p \in Process, ErrorStep(p) PROVE DrainOK'
  <2>1. CASE Rest(p)
    BY <2>1, RestTyped
  <2>2. CASE ~ Rest(p)
    BY <1>5, <2>2, ForgetTyped DEF ErrorStep, ExecutionError, ClaimError,
       DrainError,
     QuarantineError, NothingRead, EndWith, Outcomes
  <2>3. QED
    BY <2>1, <2>2
<1>6. ASSUME NEW p \in Process, Beat(p) PROVE DrainOK'
  BY <1>6 DEF Beat, SignalOf
<1>7. ASSUME NEW c \in Client, ClientStep(c) PROVE DrainOK'
  <2>1. CASE InsertRun(c)
    BY <2>1, PlacementAssumption DEF InsertRun
  <2>2. CASE RequestCancel(c)
    BY <2>2, PlacementAssumption DEF RequestCancel, SignalOf
  <2>3. QED
    BY <1>1, <1>7, <2>1, <2>2 DEF ClientStep, AskStart, AskResume, AskCancel,
       StopQueuedRun, ReadStoppedMeeting, MarkStoppedMeeting
<1>8. ASSUME NEW m \in Meeting, ForgetTapes(m) PROVE UNCHANGED drain
  BY <1>8 DEF ForgetTapes
<1>9. CASE Tick
  BY <1>1, <1>9 DEF Tick
<1>10. CASE UNCHANGED vars
  BY <1>1, <1>10 DEF vars
<1>11. QED
  BY <1>1, <1>2, <1>3, <1>4, <1>5, <1>6, <1>7, <1>8, <1>9, <1>10 DEF Next

\* The request threads.
LEMMA ClientsStayTyped == ASSUME TypeInv, [Next]_vars PROVE ClientsOK'
<1> USE DEF TypeInv, ClientsOK, ClientLabels
<1>1. CASE UNCHANGED clients
  BY <1>1 DEF clients
<1>2. ASSUME NEW p \in Process, Crash(p) PROVE ClientsOK'
  BY <1>2, BoundsAssumption DEF Crash, NoArg, Arguments
<1>3. ASSUME NEW c \in Client, ClientStep(c) PROVE ClientsOK'
  <2>1. CASE Reply(c)
    BY <2>1, BoundsAssumption DEF Reply, NoArg, Arguments
  <2>2. ASSUME NEW m \in Meeting \union {None}, AskStart(c, m)
        PROVE  ClientsOK'
    <3>1. [run |-> 0, meeting |-> m] \in Arguments
      BY BoundsAssumption DEF Arguments
    <3>2. QED
      BY <2>2, <3>1 DEF AskStart, Ask
  <2>3. ASSUME NEW r \in Run, AskCancel(c, r) PROVE ClientsOK'
    <3>1. [run |-> r, meeting |-> None] \in Arguments
      BY BoundsAssumption DEF Run, Arguments
    <3>2. QED
      BY <2>3, <3>1 DEF AskCancel, Ask
  <2>4. CASE StopQueuedRun(c)
    BY <2>4 DEF StopQueuedRun
  <2>5. CASE ~ Reply(c) /\ ReadStoppedMeeting(c)
    BY <2>5 DEF ReadStoppedMeeting
  <2>6. ASSUME NEW r \in Run, AskResume(c, r) PROVE ClientsOK'
    <3>1. meeting[r] \in Meeting \union {None}
      BY DEF RowsOK
    <3>2. QED
      BY <2>2, <2>6, <3>1 DEF AskResume
  <2>7. QED
    BY <1>3, <2>1, <2>2, <2>3, <2>4, <2>5, <2>6 DEF ClientStep, InsertRun,
       MarkStoppedMeeting, RequestCancel
<1>4. ASSUME NEW p \in Process, DrainStep(p) PROVE UNCHANGED clients
  BY <1>4 DEF DrainStep, ReadRunning, JudgeOwner, InterruptRun,
     ReadReapedMeeting, MarkReapedMeeting, QuarantineRun, NothingRead,
     QuarantineMeeting, ReadHead, ClaimRun, LoadRun, BeginRun, EndRun, EndMeeting
<1>5. ASSUME NEW p \in Process,
             Boot(p) \/ Beat(p) \/ PipelineStep(p) \/ ErrorStep(p)
      PROVE  UNCHANGED clients
  BY <1>5 DEF Boot, Beat, PipelineStep, ErrorStep, ReportCancelled,
     PipelineRaises, PipelineReturns, ExecutionError, ClaimError, DrainError,
     QuarantineError, NothingRead
<1>6. ASSUME NEW m \in Meeting, ForgetTapes(m) PROVE UNCHANGED clients
  BY <1>6 DEF ForgetTapes
<1>7. CASE Tick
  BY <1>1, <1>7 DEF Tick
<1>8. CASE UNCHANGED vars
  BY <1>1, <1>8 DEF vars
<1>9. QED
  BY <1>1, <1>2, <1>3, <1>4, <1>5, <1>6, <1>7, <1>8 DEF Next

\* The clock and the errors.
LEMMA WorldStaysTyped == ASSUME TypeInv, [Next]_vars PROVE WorldOK'
<1> USE DEF TypeInv, WorldOK
<1>1. CASE UNCHANGED world
  BY <1>1 DEF world
<1>2. CASE Tick
  BY <1>2, BoundsAssumption DEF Tick
<1>3. ASSUME NEW p \in Process, ErrorStep(p) PROVE WorldOK'
  BY <1>3, BoundsAssumption DEF ErrorStep, ExecutionError, ClaimError,
     DrainError,
     QuarantineError, NothingRead, Error
<1>4. ASSUME NEW p \in Process, DrainStep(p) PROVE UNCHANGED world
  BY <1>4 DEF DrainStep, ReadRunning, JudgeOwner, InterruptRun,
     ReadReapedMeeting, MarkReapedMeeting, QuarantineRun, NothingRead,
     QuarantineMeeting, ReadHead, ClaimRun, LoadRun, BeginRun, EndRun, EndMeeting
<1>5. ASSUME NEW p \in Process,
             Boot(p) \/ Crash(p) \/ Beat(p) \/ PipelineStep(p)
      PROVE  UNCHANGED world
  BY <1>5 DEF Boot, Crash, Beat, PipelineStep, ReportCancelled, PipelineRaises,
     PipelineReturns
<1>6. ASSUME NEW c \in Client, ClientStep(c) PROVE UNCHANGED world
  BY <1>6 DEF ClientStep, AskStart, AskResume, InsertRun, AskCancel, StopQueuedRun,
     ReadStoppedMeeting, MarkStoppedMeeting, RequestCancel
<1>7. ASSUME NEW m \in Meeting, ForgetTapes(m) PROVE UNCHANGED world
  BY <1>7 DEF ForgetTapes
<1>8. CASE UNCHANGED vars
  BY <1>1, <1>8 DEF vars
<1>9. QED
  BY <1>1, <1>2, <1>3, <1>4, <1>5, <1>6, <1>7, <1>8 DEF Next

\* Rows are never deleted.
LEMMA RowsAreKept ==
  ASSUME TypeInv, [Next]_vars PROVE Created \subseteq Created'
<1>1. ASSUME NEW r, NEW s \in RunStatuses, SetStatus(r, s)
      PROVE  Created \subseteq Created'
  BY <1>1 DEF SetStatus, Created, RunStatuses, ActiveStatuses,
     TerminalStatuses, TypeInv, RowsOK
<1>2. CASE UNCHANGED status
  BY <1>2 DEF Created
<1>3. QED
  BY <1>1, <1>2, StepsOfRows DEF RowsStep, RunStatuses, ActiveStatuses

\* So a row in hand stays a row.
LEMMA BusyKeepsRow == ASSUME TypeInv, [Next]_vars PROVE BusyHasRow'
<1> DEFINE Held ==
      \A p \in Process : pc'[p] \in BusyLabels => cur'[p] \in Created
<1> USE DEF TypeInv, DrainOK, BusyHasRow, BusyLabels, DrainLabels, Executing,
            Reaping, Quarantining, Goto
<1>1. ASSUME UNCHANGED <<pc, cur>> PROVE Held
  BY <1>1
<1>2. ASSUME NEW p \in Process, Boot(p) \/ Crash(p) PROVE Held
  BY <1>2 DEF Boot, Crash, Forget
<1>3. ASSUME NEW p \in Process, Rest(p) PROVE Held
  BY <1>3 DEF Rest, Forget
<1>4. ASSUME NEW p \in Process, DrainStep(p) PROVE Held
  <2>1. CASE ReadRunning(p)
    BY <1>3, <2>1 DEF ReadRunning, Refused, Running, Created
  <2>2. CASE ReadHead(p)
    BY <1>3, <2>2 DEF ReadHead, Refused, Queued, Head, Oldest, Created
  <2>3. CASE QuarantineRun(p)
    BY <1>3, <2>3 DEF QuarantineRun, NothingRead, Forget
  <2>4. CASE QuarantineMeeting(p)
    BY <2>4 DEF QuarantineMeeting, Forget
  <2>5. CASE \/ JudgeOwner(p) \/ InterruptRun(p) \/ ReadReapedMeeting(p)
             \/ MarkReapedMeeting(p) \/ ClaimRun(p) \/ LoadRun(p)
             \/ BeginRun(p) \/ EndRun(p) \/ EndMeeting(p)
    BY <1>3, <2>5 DEF JudgeOwner, InterruptRun, ReadReapedMeeting,
       MarkReapedMeeting, ClaimRun, LoadRun, BeginRun, EndRun, EndMeeting,
       EndWith
  <2>6. QED
    BY <1>4, <2>1, <2>2, <2>3, <2>4, <2>5 DEF DrainStep
<1>5. ASSUME NEW p \in Process, PipelineStep(p) \/ ErrorStep(p) PROVE Held
  BY <1>3, <1>5 DEF PipelineStep, ErrorStep, ReportCancelled, PipelineRaises,
     PipelineReturns, EndWith, ExecutionError, ClaimError, DrainError,
     QuarantineError, NothingRead, Forget
<1>6. ASSUME NEW p \in Process, Beat(p) PROVE UNCHANGED <<pc, cur>>
  BY <1>6 DEF Beat
<1>7. ASSUME NEW c \in Client, ClientStep(c) PROVE Held
  <2>1. CASE InsertRun(c)
    BY <2>1 DEF InsertRun
  <2>2. QED
    BY <1>1, <1>7, <2>1 DEF ClientStep, AskStart, AskResume, AskCancel, StopQueuedRun,
       ReadStoppedMeeting, MarkStoppedMeeting, RequestCancel, drain
<1>8. ASSUME NEW m \in Meeting, ForgetTapes(m) PROVE UNCHANGED <<pc, cur>>
  BY <1>8 DEF ForgetTapes, drain
<1>9. ASSUME Tick \/ UNCHANGED vars PROVE Held
  BY <1>1, <1>9 DEF Tick, vars, drain
<1>10. Held
  BY <1>1, <1>2, <1>4, <1>5, <1>6, <1>7, <1>8, <1>9 DEF Next
<1>11. Created \subseteq Created'
  BY RowsAreKept
<1>12. QED
  BY <1>10, <1>11

-----------------------------------------------------------------------------
(* The theorems. *)

\* The strengthened type invariant is an invariant.
LEMMA TypeInvariant == Spec => []TypeInv
<1>1. ASSUME TypeInv, [Next]_vars PROVE TypeInv'
  BY <1>1, RowsStayTyped, MeetingsStayTyped, LifeStaysTyped, DrainStaysTyped,
     ClientsStayTyped, WorldStaysTyped, BusyKeepsRow DEF TypeInv
<1>2. QED
  BY <1>1, TypeInit, PTL DEF Spec

\* Whatever is written to a row, a meeting or a thread's state is one of the
\* states the code declares for it; no table is ever read outside its domain.
THEOREM TypeCorrect == Spec => []TypeOK
BY TypeInvariant, TypeInvTypes, PTL

\* However many processes drain the queue, at most one row is running
\* (store.claim_run): the claim is one statement, and no other statement
\* starts a run.
THEOREM NodeRunsOne == Spec => []OneRunningRow
<1>1. Init => OneRunningRow
  BY DEF Init, OneRunningRow, Running
<1>2. ASSUME TypeInv, OneRunningRow, [Next]_vars PROVE OneRunningRow'
  <2>1. RowsStep
    BY <1>2, StepsOfRows
  <2>2. QED
    BY <1>2, <2>1 DEF TypeInv, RowsOK, RowsStep, SetStatus, TerminalStatuses,
       ClaimAdmits, OneRunningRow, Running
<1>3. QED
  BY <1>1, <1>2, TypeInvariant, PTL DEF Spec

\* However many submissions race past start's guard, a meeting has at most one
\* run in flight (the index of revision 0009): the insert is refused on the
\* state it finds, and no other step makes an ended run active again.
THEOREM MeetingRunsOne == Spec => []OneActivePerMeeting
<1>1. Init => OneActivePerMeeting
  BY DEF Init, OneActivePerMeeting, Active, ActiveStatuses
<1>2. ASSUME TypeInv, OneActivePerMeeting, [Next]_vars
      PROVE OneActivePerMeeting'
  <2>1. RowsStep
    BY <1>2, StepsOfRows
  <2>2. QED
    BY <1>2, <2>1 DEF TypeInv, RowsOK, RowsStep, SetStatus, TerminalStatuses,
       NextRow, Oldest, ClaimAdmits, IndexAdmits, InFlight,
       OneActivePerMeeting, Active, ActiveStatuses
<1>3. QED
  BY <1>1, <1>2, TypeInvariant, PTL DEF Spec

-----------------------------------------------------------------------------
(* The queue is first in, first out, although a claim is decided on a read   *)
(* that any number of inserts, cancels and claims may have followed.  That   *)
(* read never goes wrong: rows behind the head may come and go, but none is  *)
(* ever inserted in front of it.                                             *)

\* Rows are numbered in the order they are inserted.
RowsInOrder ==
    \A r, s \in Run : r < s /\ status[r] = "absent" => status[s] = "absent"

\* What a thread about to claim believes of its row is still true, unless the
\* row has left the queue meanwhile.
ClaimsTheHead ==
    \A p \in Process : pc[p] = "claim" =>
        /\ status[cur[p]] # "absent"
        /\ status[cur[p]] = "queued" => \A s \in Queued : cur[p] <= s

\* A thread reaches its claim only by reading the head of the queue.
LEMMA WaysToClaim ==
  ASSUME TypeInv, [Next]_vars, NEW p \in Process, pc'[p] = "claim"
  PROVE  \/ pc[p] = "claim" /\ cur'[p] = cur[p]
         \/ cur'[p] \in Head /\ UNCHANGED status
<1> USE DEF TypeInv, DrainOK, Goto
<1>1. CASE UNCHANGED <<pc, cur>>
  BY <1>1
<1>2. ASSUME NEW q \in Process,
             Boot(q) \/ Crash(q) \/ Beat(q) \/ PipelineStep(q) \/ ErrorStep(q)
      PROVE  pc[p] = "claim" /\ cur'[p] = cur[p]
  BY <1>2 DEF Boot, Crash, Forget, Rest, Beat, PipelineStep, ErrorStep,
     ReportCancelled, PipelineRaises, PipelineReturns, EndWith, ExecutionError,
     ClaimError, DrainError,
     QuarantineError, NothingRead
<1>3. ASSUME NEW q \in Process, DrainStep(q), ~ ReadHead(q)
      PROVE  pc[p] = "claim" /\ cur'[p] = cur[p]
  <2>1. CASE ReadRunning(q)
    BY <2>1 DEF ReadRunning, Rest, Forget
  <2>2. CASE QuarantineRun(q) \/ QuarantineMeeting(q)
    BY <2>2 DEF QuarantineRun, NothingRead, QuarantineMeeting, Rest, Forget
  <2>3. CASE \/ JudgeOwner(q) \/ InterruptRun(q) \/ ReadReapedMeeting(q)
             \/ MarkReapedMeeting(q) \/ ClaimRun(q) \/ LoadRun(q)
             \/ BeginRun(q) \/ EndRun(q) \/ EndMeeting(q)
    BY <2>3 DEF JudgeOwner, InterruptRun, ReadReapedMeeting, MarkReapedMeeting,
       ClaimRun, LoadRun, BeginRun, EndRun, EndMeeting, EndWith, Rest, Forget
  <2>4. QED
    BY <1>3, <2>1, <2>2, <2>3 DEF DrainStep
<1>4. ASSUME NEW q \in Process, ReadHead(q)
      PROVE  \/ pc[p] = "claim" /\ cur'[p] = cur[p]
             \/ cur'[p] \in Head /\ UNCHANGED status
  BY <1>4 DEF ReadHead, Rest, Forget, rows
<1>5. ASSUME NEW c \in Client, ClientStep(c)
      PROVE  pc[p] = "claim" /\ cur'[p] = cur[p]
  <2>1. CASE InsertRun(c)
    BY <2>1 DEF InsertRun
  <2>2. QED
    BY <1>1, <1>5, <2>1 DEF ClientStep, AskStart, AskResume, AskCancel, StopQueuedRun,
       ReadStoppedMeeting, MarkStoppedMeeting, RequestCancel, drain
<1>6. ASSUME NEW m \in Meeting, ForgetTapes(m) PROVE UNCHANGED <<pc, cur>>
  BY <1>6 DEF ForgetTapes, drain
<1>7. CASE Tick \/ UNCHANGED vars
  BY <1>1, <1>7 DEF Tick, vars, drain
<1>8. QED
  BY <1>1, <1>2, <1>3, <1>4, <1>5, <1>6, <1>7 DEF Next

\* The next row is the lowest free one.
LEMMA NextRowIsLowest ==
  ASSUME NEW r \in NextRow
  PROVE  /\ r \in Run /\ status[r] = "absent"
         /\ \A s \in Run : s < r => status[s] # "absent"
BY BoundsAssumption DEF NextRow, Oldest, Run

\* Only inserting a row fills a number, and it fills the lowest.
LEMMA RowsStayInOrder ==
  ASSUME TypeInv, RowsInOrder, [Next]_vars PROVE RowsInOrder'
<1> USE DEF TypeInv, RowsOK, RowsInOrder
<1>1. ASSUME NEW r \in NextRow, SetStatus(r, "queued") PROVE RowsInOrder'
  BY <1>1, NextRowIsLowest, BoundsAssumption DEF SetStatus, Run
<1>2. ASSUME NEW p \in Process, ClaimAdmits(cur[p]),
             SetStatus(cur[p], "running")
      PROVE  RowsInOrder'
  BY <1>2 DEF SetStatus, ClaimAdmits
<1>3. ASSUME NEW r \in Created, NEW end \in TerminalStatuses, SetStatus(r, end)
      PROVE  RowsInOrder'
  BY <1>3 DEF SetStatus, TerminalStatuses, Created
<1>4. QED
  BY <1>1, <1>2, <1>3, StepsOfRows DEF RowsStep

\* No step of another thread falsifies what a claimant believes.
LEMMA ClaimsStayTheHead ==
  ASSUME TypeInv, RowsInOrder, ClaimsTheHead, [Next]_vars PROVE ClaimsTheHead'
<1> SUFFICES ASSUME NEW p \in Process, pc'[p] = "claim"
    PROVE  /\ status'[cur'[p]] # "absent"
           /\ status'[cur'[p]] = "queued" => \A s \in Queued' : cur'[p] <= s
  BY DEF ClaimsTheHead
<1> USE DEF TypeInv, RowsOK
<1>1. CASE cur'[p] \in Head /\ UNCHANGED status
  BY <1>1 DEF Head, Oldest, Queued
<1>2. CASE pc[p] = "claim" /\ cur'[p] = cur[p]
  <2>1. cur[p] \in Run /\ RowsStep
    BY <1>2, StepsOfRows DEF BusyHasRow, Created, BusyLabels, DrainLabels
  <2>2. /\ status[cur[p]] # "absent"
        /\ status[cur[p]] = "queued" => \A s \in Queued : cur[p] <= s
    BY <1>2 DEF ClaimsTheHead
  <2> DEFINE r == cur[p]
             Claims == /\ status'[r] # "absent"
                       /\ status'[r] = "queued" => \A s \in Queued' : r <= s
  <2>3. ASSUME NEW n \in NextRow, SetStatus(n, "queued") PROVE Claims
    <3>1. n \in Run /\ status[n] = "absent" /\ status[r] # "absent"
      BY <2>2, NextRowIsLowest
    <3>2. r <= n
      BY <2>1, <3>1, BoundsAssumption DEF RowsInOrder, Run
    <3>3. QED
      BY <2>1, <2>2, <2>3, <3>1, <3>2 DEF SetStatus, Queued
  <2>4. ASSUME NEW q \in Process, ClaimAdmits(cur[q]),
               SetStatus(cur[q], "running")
        PROVE  Claims
    BY <2>1, <2>2, <2>4 DEF SetStatus, Queued, ClaimAdmits
  <2>5. ASSUME NEW s \in Created, NEW end \in TerminalStatuses,
               SetStatus(s, end)
        PROVE  Claims
    BY <2>1, <2>2, <2>5 DEF SetStatus, Queued, TerminalStatuses
  <2>6. ASSUME UNCHANGED status PROVE Claims
    BY <2>2, <2>6 DEF Queued
  <2>7. Claims
    BY <2>1, <2>3, <2>4, <2>5, <2>6 DEF RowsStep
  <2>8. QED
    BY <1>2, <2>7
<1>3. QED
  BY <1>1, <1>2, WaysToClaim

\* Whichever process claims, and however long ago it read the queue, the run it
\* starts is the oldest that waits (oldest_queued_run, claim_run).
THEOREM QueueIsFair == Spec => FirstComeFirstServed
<1>1. Init => RowsInOrder /\ ClaimsTheHead
  BY DEF Init, RowsInOrder, ClaimsTheHead
<1>2. ASSUME TypeInv, RowsInOrder, ClaimsTheHead, [Next]_vars
      PROVE  RowsInOrder' /\ ClaimsTheHead'
  BY <1>2, RowsStayInOrder, ClaimsStayTheHead
<1>3. ASSUME TypeInv, ClaimsTheHead, [Next]_vars
      PROVE  [\A r \in Run : status[r] = "queued" /\ status'[r] = "running"
                         => \A s \in Queued : r <= s]_vars
  <2>1. RowsStep
    BY <1>3, StepsOfRows
  <2>2. SUFFICES ASSUME NEW r \in Run,
                        status[r] = "queued", status'[r] = "running"
        PROVE  \A s \in Queued : r <= s
    OBVIOUS
  <2>3. PICK p \in Process : pc[p] = "claim" /\ SetStatus(cur[p], "running")
    BY <1>3, <2>1, <2>2 DEF RowsStep, SetStatus, TerminalStatuses, TypeInv,
       RowsOK
  <2>4. cur[p] = r
    BY <1>3, <2>2, <2>3 DEF SetStatus, TypeInv, RowsOK
  <2>5. QED
    BY <1>3, <2>2, <2>3, <2>4 DEF ClaimsTheHead
<1>4. QED
  BY <1>1, <1>2, <1>3, TypeInvariant, PTL DEF Spec, FirstComeFirstServed

-----------------------------------------------------------------------------
(* The strengthening. *)

\* What a thread executes was claimed, and is executed by no other.
Executed ==
    /\ \A p \in Process : pc[p] \in Executing => status[cur[p]] \notin {"absent", "queued"}
    /\ \A p, q \in Process :
          pc[p] \in Executing /\ pc[q] \in Executing /\ cur[p] = cur[q] => p = q

\* A finish on its way to be announced is in the row; one that was announced
\* is in the row, and in no thread's hands.
FinishedStays ==
    /\ \A p \in Process :
          pc[p] = "endMeeting" /\ outcome[p] = "done" => status[cur[p]] = "done"
    /\ \A r \in announced :
          status[r] = "done" /\ \A p \in Process : pc[p] \in Executing => cur[p] # r

\* A row nobody claimed has no owner.
OwnedIsClaimed ==
    \A r \in Run : status[r] \in {"absent", "queued"} => owner[r] = None

\* A signal that is set, and a stop on its way into the row, were asked for.
SignalsWereAsked ==
    \A p \in Process :
        /\ signal[p] => pc[p] \in Executing \ {"load"} /\ cancelRequested[cur[p]]
        /\ outcome[p] = "stopped" =>
              pc[p] \in {"end", "endMeeting"} /\ cancelRequested[cur[p]]

EndsInv ==
    Executed /\ FinishedStays /\ OwnedIsClaimed /\ SignalsWereAsked /\ StoppedWasAsked

\* The empty registry.
LEMMA EndsInit == Init => EndsInv
BY DEF Init, EndsInv, Executed, FinishedStays, OwnedIsClaimed, SignalsWereAsked,
   StoppedWasAsked, Executing

-----------------------------------------------------------------------------
(* What a step does to the rows' statuses and owners. *)

Kept     == UNCHANGED <<status, owner>>
Inserted == \E r \in NextRow : SetStatus(r, "queued") /\ UNCHANGED owner
Claimed  == \E p \in Process :
               /\ ClaimRun(p) /\ cur[p] \in Run /\ status[cur[p]] = "queued"
               /\ SetStatus(cur[p], "running")
               /\ owner' = [owner EXCEPT ![cur[p]] = Identity(p)]
OwnerEnded == \E p \in Process : EndRun(p) /\ cur[p] \in Run
PeerEnded  == \E r \in Run, end \in {"failed", "interrupted"} :
                 status[r] \in ActiveStatuses /\ SetStatus(r, end) /\ UNCHANGED owner
Withdrawn  == \E r \in Run :
                 status[r] = "queued" /\ SetStatus(r, "stopped") /\ UNCHANGED owner

StatusSteps == Kept \/ Inserted \/ Claimed \/ OwnerEnded \/ PeerEnded \/ Withdrawn

\* There are no other steps.
LEMMA StepsOfStatuses == ASSUME TypeInv, [Next]_vars PROVE StatusSteps
<1> USE DEF StatusSteps, Kept, rows
<1>1. ASSUME NEW p \in Process, DrainStep(p) PROVE StatusSteps
  <2> USE DEF TypeInv, BusyHasRow, BusyLabels, DrainLabels, Executing, Reaping,
              Quarantining, Created
  <2>1. CASE ReadRunning(p) \/ JudgeOwner(p) \/ ReadReapedMeeting(p)
             \/ MarkReapedMeeting(p) \/ QuarantineMeeting(p) \/ ReadHead(p)
             \/ LoadRun(p) \/ BeginRun(p) \/ EndMeeting(p)
    BY <2>1 DEF ReadRunning, JudgeOwner, ReadReapedMeeting, MarkReapedMeeting,
       QuarantineMeeting, ReadHead, LoadRun, BeginRun, EndMeeting
  <2>2. CASE InterruptRun(p)
    <3>1. cur[p] \in Run
      BY <2>2 DEF InterruptRun
    <3>2. QED
      BY <2>2, <3>1 DEF InterruptRun, StillAsSeen, PeerEnded, ActiveStatuses
  <2>3. CASE QuarantineRun(p)
    <3>1. cur[p] \in Run
      BY <2>3 DEF QuarantineRun
    <3>2. QED
      BY <2>3, <3>1 DEF QuarantineRun, FailAdmits, PeerEnded
  <2>4. CASE ClaimRun(p)
    <3>1. cur[p] \in Run
      BY <2>4 DEF ClaimRun
    <3>2. QED
      BY <2>4, <3>1 DEF ClaimRun, ClaimAdmits, Claimed
  <2>5. CASE EndRun(p)
    BY <2>5 DEF EndRun, OwnerEnded
  <2>6. QED
    BY <1>1, <2>1, <2>2, <2>3, <2>4, <2>5 DEF DrainStep
<1>2. ASSUME NEW p \in Process,
             Boot(p) \/ Crash(p) \/ Beat(p) \/ PipelineStep(p) \/ ErrorStep(p)
      PROVE  Kept
  BY <1>2 DEF Boot, Crash, Beat, PipelineStep, ErrorStep, ReportCancelled, PipelineRaises,
     PipelineReturns, ExecutionError, ClaimError, DrainError, QuarantineError
<1>3. ASSUME NEW c \in Client, ClientStep(c) PROVE StatusSteps
  <2>1. CASE InsertRun(c)
    BY <2>1 DEF InsertRun, Inserted
  <2>2. CASE StopQueuedRun(c)
    BY <2>2 DEF StopQueuedRun, StopAdmits, SetStatus, Withdrawn, TypeInv, RowsOK
  <2>3. CASE ~ InsertRun(c) /\ ~ StopQueuedRun(c)
    BY <1>3, <2>3 DEF ClientStep, AskStart, AskResume, AskCancel, ReadStoppedMeeting,
       MarkStoppedMeeting, RequestCancel
  <2>4. QED
    BY <2>1, <2>2, <2>3
<1>4. ASSUME NEW m \in Meeting, ForgetTapes(m) PROVE Kept
  BY <1>4 DEF ForgetTapes
<1>5. CASE Tick \/ UNCHANGED vars
  BY <1>5 DEF Tick, vars
<1>6. QED
  BY <1>1, <1>2, <1>3, <1>4, <1>5 DEF Next

\* A thread executes what it executed, or what it has just claimed.
LEMMA WaysToHold ==
  ASSUME TypeInv, [Next]_vars, NEW p \in Process, pc'[p] \in Executing
  PROVE  \/ pc[p] \in Executing /\ cur'[p] = cur[p]
         \/ ClaimRun(p) /\ ClaimAdmits(cur[p])
<1> DEFINE Same == pc[p] \in Executing /\ cur'[p] = cur[p]
<1> USE DEF TypeInv, DrainOK, Goto, Executing
<1>1. CASE UNCHANGED <<pc, cur>>
  BY <1>1
<1>2. ASSUME NEW q \in Process, Boot(q) \/ Crash(q) PROVE Same
  BY <1>2 DEF Boot, Crash, Forget
<1>3. ASSUME NEW q \in Process, ErrorStep(q) PROVE Same
  BY <1>3 DEF ErrorStep, ExecutionError, ClaimError, DrainError, QuarantineError,
     NothingRead, EndWith, Rest, Forget, Reaping
<1>4. ASSUME NEW q \in Process, DrainStep(q), ~ (ClaimRun(p) /\ ClaimAdmits(cur[p]))
      PROVE  Same
  <2>1. CASE ReadRunning(q) \/ ReadHead(q)
    BY <2>1 DEF ReadRunning, ReadHead, Rest, Forget
  <2>2. CASE QuarantineRun(q) \/ QuarantineMeeting(q)
    BY <2>2 DEF QuarantineRun, QuarantineMeeting, NothingRead, Rest, Forget
  <2>3. CASE \/ JudgeOwner(q) \/ InterruptRun(q) \/ ReadReapedMeeting(q)
             \/ MarkReapedMeeting(q) \/ LoadRun(q) \/ BeginRun(q) \/ EndRun(q)
             \/ EndMeeting(q)
    BY <2>3 DEF JudgeOwner, InterruptRun, ReadReapedMeeting, MarkReapedMeeting,
       LoadRun, BeginRun, EndRun, EndMeeting, EndWith, Rest, Forget
  <2>4. CASE ClaimRun(q)
    BY <1>4, <2>4 DEF ClaimRun, Rest, Forget
  <2>5. QED
    BY <1>4, <2>1, <2>2, <2>3, <2>4 DEF DrainStep
<1>5. ASSUME NEW q \in Process, PipelineStep(q) \/ Beat(q) PROVE Same
  BY <1>5 DEF PipelineStep, ReportCancelled, PipelineRaises, PipelineReturns, EndWith, Beat
<1>6. ASSUME NEW c \in Client, ClientStep(c) PROVE Same
  <2>1. CASE InsertRun(c)
    BY <2>1 DEF InsertRun
  <2>2. QED
    BY <1>1, <1>6, <2>1 DEF ClientStep, AskStart, AskResume, AskCancel, StopQueuedRun,
       ReadStoppedMeeting, MarkStoppedMeeting, RequestCancel, drain
<1>7. ASSUME NEW m \in Meeting, ForgetTapes(m) PROVE UNCHANGED <<pc, cur>>
  BY <1>7 DEF ForgetTapes, drain
<1>8. CASE Tick \/ UNCHANGED vars
  BY <1>1, <1>8 DEF Tick, vars, drain
<1>9. QED
  BY <1>1, <1>2, <1>3, <1>4, <1>5, <1>6, <1>7, <1>8 DEF Next

-----------------------------------------------------------------------------
(* One run, one thread. *)

\* A row that was claimed never waits again.
LEMMA ClaimedStays ==
  ASSUME TypeInv, StatusSteps, NEW r \in Run, status[r] \notin {"absent", "queued"}
  PROVE  status'[r] \notin {"absent", "queued"}
BY DEF TypeInv, RowsOK, StatusSteps, Kept, Inserted, Claimed, OwnerEnded, PeerEnded,
   Withdrawn, EndRun, SetStatus, NextRow, Oldest, RunStatusOf

\* A claim is won on a queued row, which no thread executes.
LEMMA ExecutedStays == ASSUME TypeInv, Executed, [Next]_vars PROVE Executed'
<1>1. StatusSteps
  BY StepsOfStatuses
<1>2. ASSUME NEW p \in Process, pc'[p] \in Executing
      PROVE  status'[cur'[p]] \notin {"absent", "queued"}
  <2>1. CASE pc[p] \in Executing /\ cur'[p] = cur[p]
    <3>1. cur[p] \in Run
      BY <2>1 DEF TypeInv, BusyHasRow, BusyLabels, DrainLabels, Executing, Created
    <3>2. QED
      BY <1>1, <2>1, <3>1, ClaimedStays DEF Executed
  <2>2. CASE ClaimRun(p) /\ ClaimAdmits(cur[p])
    <3>1. cur[p] \in Run
      BY <2>2 DEF TypeInv, BusyHasRow, BusyLabels, DrainLabels, ClaimRun, Created
    <3>2. QED
      BY <2>2, <3>1 DEF ClaimRun, SetStatus, TypeInv, RowsOK
  <2>3. QED
    BY <1>2, <2>1, <2>2, WaysToHold
<1>3. ASSUME NEW p \in Process, NEW q \in Process,
             pc'[p] \in Executing, pc'[q] \in Executing, cur'[p] = cur'[q]
      PROVE  p = q
  <2>1. ASSUME NEW a \in Process, NEW b \in Process, pc'[b] \in Executing,
               cur'[a] = cur'[b], ClaimRun(a), ClaimAdmits(cur[a])
        PROVE  a = b
    <3>1. cur'[a] = cur[a] /\ status[cur[a]] = "queued"
      BY <2>1 DEF ClaimRun, ClaimAdmits
    <3>2. CASE pc[b] \in Executing /\ cur'[b] = cur[b]
      BY <2>1, <3>1, <3>2 DEF Executed
    <3>3. CASE ClaimRun(b) /\ ClaimAdmits(cur[b])
      BY <2>1, <3>3 DEF ClaimRun, Goto, Executing, TypeInv, DrainOK
    <3>4. QED
      BY <2>1, <3>2, <3>3, WaysToHold
  <2>2. CASE /\ pc[p] \in Executing /\ cur'[p] = cur[p]
             /\ pc[q] \in Executing /\ cur'[q] = cur[q]
    BY <1>3, <2>2 DEF Executed
  <2>3. QED
    BY <1>3, <2>1, <2>2, WaysToHold
<1>4. QED
  BY <1>2, <1>3 DEF Executed

-----------------------------------------------------------------------------
(* A finish stays. *)

\* Only the thread that executes a done run can still write its row.
LEMMA DoneStays ==
  ASSUME TypeInv, StatusSteps, NEW r \in Run, status[r] = "done",
         \A p \in Process : pc[p] = "end" => cur[p] # r
  PROVE  status'[r] = "done"
BY DEF TypeInv, RowsOK, StatusSteps, Kept, Inserted, Claimed, OwnerEnded, PeerEnded,
   Withdrawn, EndRun, SetStatus, NextRow, Oldest, ActiveStatuses

\* How a thread comes to write its meeting, and what is announced.
LEMMA WaysToEndMeeting ==
  ASSUME TypeInv, [Next]_vars, NEW p \in Process, pc'[p] = "endMeeting"
  PROVE  \/ EndRun(p)
         \/ pc[p] = "endMeeting" /\ cur'[p] = cur[p] /\ outcome'[p] = outcome[p]
<1> DEFINE Same == pc[p] = "endMeeting" /\ cur'[p] = cur[p] /\ outcome'[p] = outcome[p]
<1> USE DEF TypeInv, DrainOK, Goto
<1>1. CASE UNCHANGED <<pc, cur, outcome>>
  BY <1>1
<1>2. ASSUME NEW q \in Process, Boot(q) \/ Crash(q) PROVE Same
  BY <1>2 DEF Boot, Crash, Forget
<1>3. ASSUME NEW q \in Process, ErrorStep(q) PROVE Same
  BY <1>3 DEF ErrorStep, ExecutionError, ClaimError, DrainError, QuarantineError,
     NothingRead, EndWith, Rest, Forget, Reaping
<1>4. ASSUME NEW q \in Process, DrainStep(q), ~ EndRun(p) PROVE Same
  <2>1. CASE ReadRunning(q) \/ ReadHead(q)
    BY <2>1 DEF ReadRunning, ReadHead, Rest, Forget
  <2>2. CASE QuarantineRun(q) \/ QuarantineMeeting(q)
    BY <2>2 DEF QuarantineRun, QuarantineMeeting, NothingRead, Rest, Forget
  <2>3. CASE \/ JudgeOwner(q) \/ InterruptRun(q) \/ ReadReapedMeeting(q)
             \/ MarkReapedMeeting(q) \/ ClaimRun(q) \/ LoadRun(q) \/ BeginRun(q)
             \/ EndMeeting(q)
    BY <2>3 DEF JudgeOwner, InterruptRun, ReadReapedMeeting, MarkReapedMeeting,
       ClaimRun, LoadRun, BeginRun, EndMeeting, EndWith, Rest, Forget
  <2>4. CASE EndRun(q)
    BY <1>4, <2>4 DEF EndRun
  <2>5. QED
    BY <1>4, <2>1, <2>2, <2>3, <2>4 DEF DrainStep
<1>5. ASSUME NEW q \in Process, PipelineStep(q) \/ Beat(q) PROVE Same
  BY <1>5 DEF PipelineStep, ReportCancelled, PipelineRaises, PipelineReturns, EndWith, Beat
<1>6. ASSUME NEW c \in Client, ClientStep(c) PROVE Same
  <2>1. CASE InsertRun(c)
    BY <2>1 DEF InsertRun
  <2>2. QED
    BY <1>1, <1>6, <2>1 DEF ClientStep, AskStart, AskResume, AskCancel, StopQueuedRun,
       ReadStoppedMeeting, MarkStoppedMeeting, RequestCancel, drain
<1>7. ASSUME NEW m \in Meeting, ForgetTapes(m) PROVE UNCHANGED <<pc, cur, outcome>>
  BY <1>7 DEF ForgetTapes, drain
<1>8. CASE Tick \/ UNCHANGED vars
  BY <1>1, <1>8 DEF Tick, vars, drain
<1>9. QED
  BY <1>1, <1>2, <1>3, <1>4, <1>5, <1>6, <1>7, <1>8 DEF Next

\* Only a finished execution is announced, at its last step.
LEMMA WaysToAnnounce ==
  ASSUME [Next]_vars, NEW r \in announced', r \notin announced
  PROVE  \E p \in Process : EndMeeting(p) /\ outcome[p] = "done" /\ r = cur[p]
<1>1. ASSUME NEW p \in Process, EndMeeting(p)
      PROVE  outcome[p] = "done" /\ r = cur[p]
  BY <1>1 DEF EndMeeting, NoticeOf
<1>2. ASSUME NEW p \in Process, ~ EndMeeting(p),
             \/ Boot(p) \/ Crash(p) \/ DrainStep(p) \/ PipelineStep(p) \/ ErrorStep(p)
             \/ Beat(p)
      PROVE  announced' = announced
  BY <1>2 DEF Boot, Crash, Beat, PipelineStep, ReportCancelled, PipelineRaises,
     PipelineReturns, ErrorStep, ExecutionError, ClaimError, DrainError, QuarantineError,
     DrainStep, ReadRunning, JudgeOwner, InterruptRun, ReadReapedMeeting,
     MarkReapedMeeting, QuarantineRun, QuarantineMeeting, ReadHead, ClaimRun, LoadRun,
     BeginRun, EndRun
<1>3. ASSUME NEW c \in Client, ClientStep(c) PROVE announced' = announced
  BY <1>3 DEF ClientStep, AskStart, AskResume, InsertRun, AskCancel, StopQueuedRun,
     ReadStoppedMeeting, MarkStoppedMeeting, RequestCancel
<1>4. ASSUME NEW m \in Meeting, ForgetTapes(m) PROVE announced' = announced
  BY <1>4 DEF ForgetTapes
<1>5. CASE Tick \/ UNCHANGED vars
  BY <1>5 DEF Tick, vars
<1>6. QED
  BY <1>1, <1>2, <1>3, <1>4, <1>5 DEF Next

\* A finished run's row is out of every writer's reach.
LEMMA FinishesStay ==
  ASSUME TypeInv, Executed, FinishedStays, [Next]_vars PROVE FinishedStays'
<1> USE DEF Executing
<1>1. StatusSteps
  BY StepsOfStatuses
<1>2. ASSUME NEW p \in Process, pc'[p] = "endMeeting", outcome'[p] = "done"
      PROVE  status'[cur'[p]] = "done"
  <2>1. CASE EndRun(p)
    <3>1. cur[p] \in Run
      BY <2>1 DEF EndRun, TypeInv, BusyHasRow, BusyLabels, DrainLabels, Created
    <3>2. QED
      BY <1>2, <2>1, <3>1 DEF EndRun, SetStatus, RunStatusOf, TypeInv, RowsOK
  <2>2. CASE pc[p] = "endMeeting" /\ cur'[p] = cur[p] /\ outcome'[p] = outcome[p]
    <3>1. cur[p] \in Run
      BY <2>2 DEF TypeInv, BusyHasRow, BusyLabels, DrainLabels, Created
    <3>2. status[cur[p]] = "done"
      BY <1>2, <2>2 DEF FinishedStays
    <3>3. \A q \in Process : pc[q] = "end" => cur[q] # cur[p]
      BY <2>2 DEF Executed
    <3>4. QED
      BY <1>1, <2>2, <3>1, <3>2, <3>3, DoneStays
  <2>3. QED
    BY <1>2, <2>1, <2>2, WaysToEndMeeting
<1>3. ASSUME NEW r \in announced'
      PROVE  status'[r] = "done" /\ \A p \in Process : pc'[p] \in Executing => cur'[p] # r
  <2>1. CASE r \in announced
    <3>1. r \in Run /\ status[r] = "done"
      BY <2>1 DEF FinishedStays, TypeInv, MeetingsOK
    <3>2. \A p \in Process : pc[p] \in Executing => cur[p] # r
      BY <2>1 DEF FinishedStays
    <3>3. status'[r] = "done"
      BY <1>1, <3>1, <3>2, DoneStays
    <3>4. ASSUME NEW p \in Process, pc'[p] \in Executing, cur'[p] = r PROVE FALSE
      BY <3>1, <3>2, <3>4, WaysToHold DEF ClaimRun, ClaimAdmits
    <3>5. QED
      BY <3>3, <3>4
  <2>2. CASE r \notin announced
    <3>1. PICK p \in Process : EndMeeting(p) /\ outcome[p] = "done" /\ r = cur[p]
      BY <1>3, <2>2, WaysToAnnounce
    <3>2. status'[r] = "done" /\ status[r] = "done"
      BY <3>1 DEF EndMeeting, FinishedStays, rows
    <3>3. pc'[p] = "scan"
      BY <3>1 DEF EndMeeting, Rest, Goto, TypeInv, DrainOK
    <3>4. ASSUME NEW q \in Process, pc'[q] \in Executing, cur'[q] = r PROVE FALSE
      <4>1. pc[p] = "endMeeting"
        BY <3>1 DEF EndMeeting
      <4>2. CASE pc[q] \in Executing /\ cur'[q] = cur[q]
        BY <3>1, <3>3, <3>4, <4>1, <4>2 DEF Executed
      <4>3. CASE ClaimRun(q) /\ ClaimAdmits(cur[q])
        BY <3>2, <3>4, <4>3 DEF ClaimRun, ClaimAdmits
      <4>4. QED
        BY <3>4, <4>2, <4>3, WaysToHold
    <3>5. QED
      BY <3>2, <3>4
  <2>3. QED
    BY <2>1, <2>2
<1>4. QED
  BY <1>2, <1>3 DEF FinishedStays

-----------------------------------------------------------------------------
(* A stop was asked for. *)

\* A row gets its owner when it is claimed.
LEMMA OwnersStay == ASSUME TypeInv, OwnedIsClaimed, [Next]_vars PROVE OwnedIsClaimed'
<1>1. StatusSteps
  BY StepsOfStatuses
<1>2. QED
  BY <1>1 DEF OwnedIsClaimed, TypeInv, RowsOK, StatusSteps, Kept, Inserted, Claimed,
     OwnerEnded, PeerEnded, Withdrawn, EndRun, SetStatus, NextRow, Oldest, RunStatusOf

\* A request to stop is never taken back.
LEMMA RequestsStay ==
  ASSUME TypeInv, [Next]_vars, NEW r \in Run, cancelRequested[r]
  PROVE  cancelRequested'[r]
<1>1. ASSUME NEW p \in Process,
             \/ Boot(p) \/ Crash(p) \/ DrainStep(p) \/ PipelineStep(p) \/ ErrorStep(p)
             \/ Beat(p)
      PROVE  cancelRequested' = cancelRequested
  BY <1>1 DEF Boot, Crash, Beat, PipelineStep, ReportCancelled, PipelineRaises,
     PipelineReturns, ErrorStep, ExecutionError, ClaimError, DrainError, QuarantineError,
     DrainStep, ReadRunning, JudgeOwner, InterruptRun, ReadReapedMeeting,
     MarkReapedMeeting, QuarantineRun, QuarantineMeeting, ReadHead, ClaimRun, LoadRun,
     BeginRun, EndRun, EndMeeting, rows
<1>2. ASSUME NEW c \in Client, RequestCancel(c) PROVE cancelRequested'[r]
  BY <1>2 DEF RequestCancel, TypeInv, RowsOK
<1>3. ASSUME NEW c \in Client, ClientStep(c), ~ RequestCancel(c)
      PROVE  cancelRequested' = cancelRequested
  BY <1>3 DEF ClientStep, AskStart, AskResume, InsertRun, AskCancel, StopQueuedRun,
     ReadStoppedMeeting, MarkStoppedMeeting, rows
<1>4. ASSUME NEW m \in Meeting, ForgetTapes(m) PROVE cancelRequested' = cancelRequested
  BY <1>4 DEF ForgetTapes, rows
<1>5. CASE Tick \/ UNCHANGED vars
  BY <1>5 DEF Tick, vars, rows
<1>6. QED
  BY <1>1, <1>2, <1>3, <1>4, <1>5 DEF Next

\* Where a signal, and a stop on its way into the row, come from.
Signalled(p) ==
    signal'[p] =>
        /\ pc'[p] \in Executing \ {"load"}
        /\ cur'[p] = cur[p]
        /\ pc[p] \in Executing \ {"load"}
        /\ signal[p] \/ cancelRequested'[cur[p]]
Stopping(p) ==
    outcome'[p] = "stopped" =>
        /\ pc'[p] \in {"end", "endMeeting"}
        /\ cur'[p] = cur[p]
        /\ outcome[p] = "stopped" \/ signal[p]

\* Signals and stops come from a request for the run in hand.
LEMMA WaysToStop ==
  ASSUME TypeInv, SignalsWereAsked, [Next]_vars, NEW p \in Process
  PROVE  Signalled(p) /\ Stopping(p)
<1> USE DEF TypeInv, DrainOK, Goto, Signalled, Stopping, SignalsWereAsked, Executing
<1>1. CASE UNCHANGED <<pc, cur, outcome, signal>>
  BY <1>1
<1>2. ASSUME NEW q \in Process, Boot(q) \/ Crash(q) PROVE Signalled(p) /\ Stopping(p)
  BY <1>2 DEF Boot, Crash, Forget
<1>3. ASSUME NEW q \in Process, ErrorStep(q) PROVE Signalled(p) /\ Stopping(p)
  <2>1. CASE ExecutionError(q)
    BY <2>1 DEF ExecutionError, EndWith, Rest, Forget
  <2>2. CASE ClaimError(q) \/ DrainError(q)
    BY <2>2 DEF ClaimError, DrainError, Rest, Forget
  <2>3. CASE QuarantineError(q)
    BY <2>3 DEF QuarantineError, NothingRead, Rest, Forget
  <2>4. QED
    BY <1>3, <2>1, <2>2, <2>3 DEF ErrorStep
<1>4. ASSUME NEW q \in Process, DrainStep(q) PROVE Signalled(p) /\ Stopping(p)
  <2>1. CASE ReadRunning(q) \/ ReadHead(q)
    BY <2>1 DEF ReadRunning, ReadHead, Rest, Forget
  <2>2. CASE QuarantineRun(q) \/ QuarantineMeeting(q)
    BY <2>2 DEF QuarantineRun, QuarantineMeeting, NothingRead, Rest, Forget, Quarantining
  <2>3. CASE JudgeOwner(q) \/ InterruptRun(q) \/ ReadReapedMeeting(q) \/ MarkReapedMeeting(q)
    BY <2>3 DEF JudgeOwner, InterruptRun, ReadReapedMeeting, MarkReapedMeeting, Rest, Forget
  <2>4. CASE ClaimRun(q) \/ LoadRun(q) \/ BeginRun(q)
    BY <2>4 DEF ClaimRun, LoadRun, BeginRun, EndWith, Rest, Forget
  <2>5. CASE EndRun(q) \/ EndMeeting(q)
    BY <2>5 DEF EndRun, EndMeeting, Rest, Forget
  <2>6. QED
    BY <1>4, <2>1, <2>2, <2>3, <2>4, <2>5 DEF DrainStep
<1>5. ASSUME NEW q \in Process, PipelineStep(q) PROVE Signalled(p) /\ Stopping(p)
  BY <1>5 DEF PipelineStep, ReportCancelled, PipelineRaises, PipelineReturns, EndWith
<1>6. ASSUME NEW q \in Process, Beat(q) PROVE Signalled(p) /\ Stopping(p)
  BY <1>6 DEF Beat, SignalOf
<1>7. ASSUME NEW c \in Client, ClientStep(c) PROVE Signalled(p) /\ Stopping(p)
  <2>1. CASE InsertRun(c)
    BY <2>1 DEF InsertRun
  <2>2. CASE RequestCancel(c)
    <3>1. CASE signal' = signal
      BY <2>2, <3>1 DEF RequestCancel
    <3>2. CASE signal' # signal
      <4>1. /\ cancelRequested' = [cancelRequested EXCEPT ![carg[c].run] = TRUE]
            /\ signal' = SignalOf(Home[c], carg[c].run)
            /\ UNCHANGED <<pc, cur, outcome>>
        BY <2>2, <3>2 DEF RequestCancel
      <4>2. carg[c].run = cur[Home[c]] /\ pc[Home[c]] \in Executing \ {"load"}
        BY <3>2, <4>1 DEF SignalOf
      <4>3. Home[c] \in Process
        BY PlacementAssumption
      <4>4. cur[Home[c]] \in Run
        BY <4>2, <4>3 DEF BusyHasRow, BusyLabels, DrainLabels, Created
      <4>5. QED
        BY <4>1, <4>2, <4>3, <4>4 DEF SignalOf, RowsOK
    <3>3. QED
      BY <3>1, <3>2
  <2>3. QED
    BY <1>1, <1>7, <2>1, <2>2 DEF ClientStep, AskStart, AskResume, AskCancel,
       StopQueuedRun, ReadStoppedMeeting, MarkStoppedMeeting, drain
<1>8. ASSUME NEW m \in Meeting, ForgetTapes(m) PROVE UNCHANGED <<pc, cur, outcome, signal>>
  BY <1>8 DEF ForgetTapes, drain
<1>9. CASE Tick \/ UNCHANGED vars
  BY <1>1, <1>9 DEF Tick, vars, drain
<1>10. QED
  BY <1>1, <1>2, <1>3, <1>4, <1>5, <1>6, <1>7, <1>8, <1>9 DEF Next

\* A signal dies with the execution it was raised for.
LEMMA SignalsStay == ASSUME TypeInv, SignalsWereAsked, [Next]_vars PROVE SignalsWereAsked'
<1> SUFFICES ASSUME NEW p \in Process
             PROVE  /\ signal'[p] => /\ pc'[p] \in Executing \ {"load"}
                                     /\ cancelRequested'[cur'[p]]
                    /\ outcome'[p] = "stopped" =>
                          /\ pc'[p] \in {"end", "endMeeting"}
                          /\ cancelRequested'[cur'[p]]
  BY DEF SignalsWereAsked, Executing
<1>1. Signalled(p) /\ Stopping(p)
  BY WaysToStop
<1>2. ASSUME cancelRequested[cur[p]], cur[p] \in Run PROVE cancelRequested'[cur[p]]
  BY <1>2, RequestsStay
<1>3. pc[p] \in Executing => cur[p] \in Run
  BY DEF TypeInv, BusyHasRow, BusyLabels, DrainLabels, Executing, Created
<1>4. signal[p] \/ outcome[p] = "stopped" =>
        pc[p] \in Executing /\ cancelRequested[cur[p]]
  BY DEF SignalsWereAsked, Executing
<1>5. QED
  BY <1>1, <1>2, <1>3, <1>4 DEF Signalled, Stopping

\* The owner's end is the only way a claimed row comes to read stopped.
LEMMA StopsStayAsked ==
  ASSUME TypeInv, OwnedIsClaimed, SignalsWereAsked, StoppedWasAsked, [Next]_vars
  PROVE  StoppedWasAsked'
<1> SUFFICES ASSUME NEW r \in Run, status'[r] = "stopped", owner'[r] # None
             PROVE  cancelRequested'[r]
  BY DEF StoppedWasAsked
<1>1. StatusSteps
  BY StepsOfStatuses
<1>2. ASSUME status[r] = "stopped", owner[r] # None PROVE cancelRequested'[r]
  BY <1>2, RequestsStay DEF StoppedWasAsked
<1>3. ASSUME NEW p \in Process, EndRun(p), cur[p] = r PROVE cancelRequested'[r]
  <2>1. outcome[p] = "stopped"
    BY <1>3 DEF EndRun, SetStatus, RunStatusOf, TypeInv, RowsOK
  <2>2. QED
    BY <1>3, <2>1, RequestsStay DEF SignalsWereAsked
<1>4. CASE Kept \/ Inserted \/ Claimed \/ PeerEnded
  BY <1>2, <1>4 DEF Kept, Inserted, Claimed, PeerEnded, SetStatus, NextRow, Oldest,
     TypeInv, RowsOK
<1>5. CASE OwnerEnded
  BY <1>2, <1>3, <1>5 DEF OwnerEnded, EndRun, SetStatus, TypeInv, RowsOK
<1>6. CASE Withdrawn
  BY <1>2, <1>6 DEF Withdrawn, SetStatus, OwnedIsClaimed, TypeInv, RowsOK
<1>7. QED
  BY <1>1, <1>4, <1>5, <1>6 DEF StatusSteps

-----------------------------------------------------------------------------

\* The strengthening is an invariant.
LEMMA EndsInvariant == Spec => []EndsInv
<1>1. ASSUME TypeInv, EndsInv, [Next]_vars PROVE EndsInv'
  BY <1>1, ExecutedStays, FinishesStay, OwnersStay, SignalsStay, StopsStayAsked DEF EndsInv
<1>2. QED
  BY <1>1, EndsInit, TypeInvariant, PTL DEF Spec

\* A run whose run.finished went out is done, whatever crashes, errors, reaps
\* and quarantines follow: its row was written before the notice, by the only
\* thread that ever executes it, and that thread is through with it.
THEOREM FinishedIsDone == Spec => []FinishedMeansDone
<1>1. EndsInv => FinishedMeansDone
  BY DEF EndsInv, FinishedStays, FinishedMeansDone
<1>2. QED
  BY <1>1, EndsInvariant, PTL

\* An executed run that reads stopped was asked to stop: the signal that stops
\* a pipeline is raised only for the run in hand and dies with its execution.
THEOREM StopsWereAsked == Spec => []StoppedWasAsked
<1>1. EndsInv => StoppedWasAsked
  BY DEF EndsInv
<1>2. QED
  BY <1>1, EndsInvariant, PTL
=============================================================================
