------------------------------ MODULE NodeProofs ------------------------------
(***************************************************************************)
(* What holds of a node, part by part: of WebhookDelivery for any events,  *)
(* endpoints and number of attempts; of DrainThread for any number of      *)
(* callers, runs and shutdowns; of ChunkPool for any number of chunks and  *)
(* workers; of LocalNode for any servers, ports and tokens.  Then what     *)
(* holds of MCNode, which runs them side by side: every step of it is a    *)
(* step of one part.                                                       *)
(***************************************************************************)
EXTENDS MCNode, TLAPS

-----------------------------------------------------------------------------
(* The emitter (WebhookDelivery). *)

\* The types hold at the start.
LEMMA TypeInit == Init => TypeOK
<1> SUFFICES ASSUME Init PROVE TypeOK
  OBVIOUS
<1>1. sent \in [Jobs -> Nat] /\ received \subseteq Jobs /\ attempt \in 1 .. MaxAttempts
  BY WebhookAssumption DEF Init
<1>2. queue \in Seq(Jobs \union {Stop}) /\ log \in Seq(Outcomes) /\ accepted \in Seq(Jobs)
  BY DEF Init
<1>3. QED
  BY <1>1, <1>2 DEF Init, TypeOK

-----------------------------------------------------------------------------
(* The inductive invariant. *)

\* The worker works on a job of its own, and records what became of that job.
HandInv ==
    /\ step # "get" => hand \in Jobs /\ thread = "running"
    /\ step = "record" => outcome \in Outcomes /\ outcome.job = hand

\* Nobody emits once the emitter is closed; the sentinel ends the queue until the
\* worker has taken it, and then the queue is empty.
QueueInv ==
    /\ closed => emitting = None
    /\ closed /\ thread # "ended" => queue # <<>> /\ queue[Len(queue)] = Stop
    /\ thread = "ended" => closed /\ queue = <<>>

\* pending counts the jobs that wait and the one the worker has not counted down.
InWork == IF step = "get" THEN 0 ELSE 1
CountInv == pending = Waiting + InWork

\* Jobs are accepted once each, for events whose emit was called; a flush never
\* waits for an emit that is still going on.
EventInv ==
    /\ \A i \in 1 .. Len(accepted) : accepted[i].event \in emitted
    /\ \A i, k \in 1 .. Len(accepted) : accepted[i] = accepted[k] => i = k
    /\ emitting # None =>
         /\ emitting.event \in emitted
         /\ \A i \in 1 .. Len(accepted) :
              accepted[i].event = emitting.event => accepted[i].endpoint \notin emitting.left
    /\ flushing # None =>
         \A j \in flushing :
           /\ \E i \in 1 .. Len(accepted) : accepted[i] = j
           /\ emitting # None => j.event # emitting.event

\* Idle means that nothing waits, but for what a running emit has just queued.
IdleInv ==
    idle => \A i \in (Len(log) + 1) .. Len(accepted) :
              emitting # None /\ accepted[i].event = emitting.event

\* Every step keeps the types, and the worker's hand.
LEMMA TypeStep ==
    TypeOK /\ HandInv /\ QueueInv /\ CountInv /\ [Next]_vars => TypeOK' /\ HandInv'
<1> SUFFICES ASSUME TypeOK, HandInv, QueueInv, CountInv, [Next]_vars
             PROVE  TypeOK' /\ HandInv'
  OBVIOUS
<1> USE WebhookAssumption, StopAssumption
    DEF TypeOK, HandInv, emitter, worker, callers, history
<1>1. ASSUME NEW e \in Event, NEW matching \in SUBSET Endpoint \ {{}}, Emit(e, matching)
      PROVE TypeOK' /\ HandInv'
  <2>1. emitting' \in Emits \union {None}
    BY <1>1 DEF Emit, Emit_Closed, Emits
  <2>2. QED
    BY <1>1, <2>1 DEF Emit, Emit_Closed
<1>2. ASSUME NEW p \in Endpoint, PutJob(p) PROVE TypeOK' /\ HandInv'
  <2>1. emitting.event \in Event /\ emitting.left \subseteq Endpoint
    BY <1>2 DEF PutJob, LockFree, Emits
  <2>2. [event |-> emitting.event, endpoint |-> p] \in Jobs
    BY <2>1 DEF Jobs
  <2>3. queue' \in Seq(Jobs \union {Stop}) /\ accepted' \in Seq(Jobs)
    BY <1>2, <2>2 DEF PutJob
  <2>4. emitting' \in Emits
    BY <1>2, <2>1 DEF PutJob, LockFree, Emits
  <2>5. pending' \in Nat
    BY <1>2 DEF PutJob
  <2>6. QED
    BY <1>2, <2>3, <2>4, <2>5 DEF PutJob
<1>3. CASE EmitReturns
  BY <1>3 DEF EmitReturns
<1>4. CASE Flush
  <2>1. flushing' \in SUBSET Jobs
    BY <1>4 DEF Flush
  <2>2. QED
    BY <1>4, <2>1 DEF Flush
<1>5. CASE FlushReturns
  BY <1>5 DEF FlushReturns
<1>6. CASE Close
  BY <1>6 DEF Close
<1>7. CASE Get
  <2>1. queue' \in Seq(Jobs \union {Stop}) /\ Head(queue) \in Jobs \union {Stop}
    BY <1>7 DEF Get
  <2>2. QED
    BY <1>7, <2>1 DEF Get
<1>8. CASE RefuseUnsigned
  <2>1. [job |-> hand, status |-> "failed", attempts |-> 0] \in Outcomes
    BY <1>8 DEF RefuseUnsigned, Settles, Outcomes
  <2>2. QED
    BY <1>8, <2>1 DEF RefuseUnsigned, Settles
<1>9. CASE PostAnswered
  <2>1. [job |-> hand, status |-> "delivered", attempts |-> attempt] \in Outcomes
    BY <1>9 DEF PostAnswered, Sends, Settles, Outcomes
  <2>2. QED
    BY <1>9, <2>1 DEF PostAnswered, Sends, Settles
<1>10. CASE PostFails
  <2>1. [job |-> hand, status |-> "failed", attempts |-> attempt] \in Outcomes
    BY <1>10 DEF PostFails, Sends, Settles, Outcomes
  <2>2. QED
    BY <1>10, <2>1 DEF PostFails, Sends, Settles
<1>11. CASE DeliverRaises
  <2>1. [job |-> hand, status |-> "failed", attempts |-> 0] \in Outcomes
    BY <1>11 DEF DeliverRaises, Settles, Outcomes
  <2>2. sent' \in [Jobs -> Nat]
    <3>1. hand \in Jobs /\ sent \in [Jobs -> Nat]
      BY <1>11 DEF DeliverRaises
    <3>2. sent' = sent \/ sent' = [sent EXCEPT ![hand] = sent[hand] + 1]
      BY <1>11 DEF DeliverRaises
    <3>3. [sent EXCEPT ![hand] = sent[hand] + 1] \in [Jobs -> Nat]
      BY <3>1
    <3>4. QED
      BY <3>1, <3>2, <3>3
  <2>3. QED
    BY <1>11, <2>1, <2>2 DEF DeliverRaises, Settles
<1>12. CASE Record
  <2>1. log' \in Seq(Outcomes)
    BY <1>12 DEF Record
  <2>2. QED
    BY <1>12, <2>1 DEF Record
<1>13. CASE CountDown
  <2>1. pending' \in Nat
    BY <1>13 DEF CountDown, CountInv, QueueInv, Waiting, InWork
  <2>2. QED
    BY <1>13, <2>1 DEF CountDown
<1>14. CASE UNCHANGED vars
  BY <1>14 DEF vars
<1>15. QED
  BY <1>1, <1>2, <1>3, <1>4, <1>5, <1>6, <1>7, <1>8, <1>9, <1>10, <1>11, <1>12,
     <1>13, <1>14 DEF Next, Work

-----------------------------------------------------------------------------

Inv == /\ TypeOK /\ HandInv /\ QueueInv /\ CountInv
       /\ NothingLostOrReordered /\ EventInv /\ IdleInv

\* The sentinel is not counted among the jobs that wait, and only it is not.
LEMMA WaitingIsNat == ASSUME TypeOK, QueueInv PROVE Waiting \in Nat /\ Len(queue) \in Nat
<1>1. Len(queue) \in Nat /\ (queue # <<>> => Len(queue) >= 1)
  BY DEF TypeOK
<1>2. closed /\ thread # "ended" => Len(queue) >= 1
  BY <1>1 DEF QueueInv
<1>3. CASE closed /\ thread # "ended"
  BY <1>1, <1>2, <1>3 DEF Waiting
<1>4. CASE ~ (closed /\ thread # "ended")
  BY <1>1, <1>4 DEF Waiting
<1>5. QED
  BY <1>1, <1>3, <1>4

\* A queue with a job at its head has the oldest accepted job there that the
\* worker has not taken; a sentinel at its head is alone in it.
LEMMA HeadOfQueue ==
    ASSUME Inv, step = "get", thread = "running", queue # <<>>
    PROVE  /\ Head(queue) = Stop => closed /\ Len(queue) = 1 /\ Waiting = 0
           /\ Head(queue) # Stop =>
                /\ Waiting >= 1
                /\ Len(accepted) > Len(log)
                /\ Head(queue) = accepted[Len(log) + 1]
<1> USE DEF Inv, TypeOK, QueueInv
<1>1. Held = 0 /\ Head(queue) = queue[1] /\ Len(queue) >= 1
  BY DEF Held
<1>2. CASE Waiting >= 1
  <2>1. queue[1] = accepted[Len(log) + 1] /\ Len(accepted) >= Len(log) + 1
    BY <1>1, <1>2 DEF NothingLostOrReordered, Waiting
  <2>2. accepted[Len(log) + 1] \in Jobs
    BY <2>1
  <2>3. QED
    BY <1>1, <1>2, <2>1, <2>2, StopAssumption
<1>3. CASE Waiting = 0
  BY <1>1, <1>3 DEF Waiting
<1>4. QED
  BY <1>1, <1>2, <1>3, WaitingIsNat

\* What does not touch the queue, the closing flag and the thread leaves the
\* number of waiting jobs alone.
LEMMA SameQueue ==
    ASSUME QueueInv, UNCHANGED <<queue, closed, thread>>, closed => emitting' = None
    PROVE  QueueInv' /\ Waiting' = Waiting
BY DEF QueueInv, Waiting

\* Every step keeps the count of the jobs and the shape of the queue.
LEMMA CountStep == Inv /\ [Next]_vars => QueueInv' /\ CountInv'
<1> SUFFICES ASSUME Inv, [Next]_vars PROVE QueueInv' /\ CountInv'
  OBVIOUS
<1> USE DEF emitter, worker, callers, history, LockFree
<1>a. /\ QueueInv /\ pending = Waiting + InWork
      /\ queue \in Seq(Jobs \union {Stop}) /\ Len(queue) \in Nat
      /\ pending \in Nat /\ closed \in BOOLEAN
      /\ Waiting \in Nat /\ InWork \in {0, 1}
  BY WaitingIsNat DEF Inv, TypeOK, CountInv, InWork
<1>1. ASSUME NEW e \in Event, NEW matching \in SUBSET Endpoint \ {{}}, Emit(e, matching)
      PROVE QueueInv' /\ CountInv'
  <2>1. /\ ~ closed /\ queue' = queue /\ closed' = closed /\ pending' = pending
        /\ step' = step
    BY <1>1 DEF Emit, Emit_Closed
  <2>2. thread' # "ended" /\ thread # "ended"
    BY <1>1, <1>a DEF Emit, Emit_Closed, QueueInv
  <2>3. QED
    BY <1>a, <2>1, <2>2 DEF QueueInv, CountInv, Waiting, InWork
<1>2. ASSUME NEW p \in Endpoint, PutJob(p) PROVE QueueInv' /\ CountInv'
  <2>1. /\ ~ closed /\ thread # "ended" /\ closed' = closed /\ thread' = thread
        /\ step' = step /\ pending' = pending + 1
    BY <1>2, <1>a DEF PutJob, QueueInv
  <2>2. Len(queue') = Len(queue) + 1
    BY <1>2, <1>a DEF PutJob
  <2>3. QED
    BY <1>a, <2>1, <2>2 DEF QueueInv, CountInv, Waiting, InWork
<1>3. CASE EmitReturns
  <2>1. /\ UNCHANGED <<queue, closed, thread, pending, step>>
        /\ closed => emitting' = None
    BY <1>3 DEF EmitReturns
  <2>2. QED
    BY <1>a, <2>1, SameQueue DEF CountInv, InWork
<1>4. CASE Flush \/ FlushReturns
  <2>1. UNCHANGED <<queue, closed, thread, pending, step, emitting>>
    BY <1>4 DEF Flush, FlushReturns
  <2>2. QED
    BY <1>a, <2>1, SameQueue DEF CountInv, InWork, QueueInv
<1>5. CASE Close
  <2>1. /\ emitting' = None /\ closed' /\ ~ closed /\ thread # "ended"
        /\ thread' = thread /\ step' = step /\ pending' = pending
    BY <1>5, <1>a DEF Close, QueueInv
  <2>2. Len(queue') = Len(queue) + 1 /\ queue'[Len(queue')] = Stop /\ queue' # <<>>
    BY <1>5, <1>a DEF Close
  <2>3. QED
    BY <1>a, <2>1, <2>2 DEF QueueInv, CountInv, Waiting, InWork
<1>6. CASE Get
  <2>1. /\ step = "get" /\ thread = "running" /\ queue # <<>>
        /\ closed' = closed /\ emitting' = emitting /\ pending' = pending
        /\ queue' = Tail(queue)
    BY <1>6 DEF Get
  <2>2. CASE Head(queue) = Stop
    <3>1. closed /\ Len(queue) = 1 /\ Waiting = 0
      BY <2>1, <2>2, HeadOfQueue
    <3>2. queue' = <<>> /\ thread' = "ended" /\ step' = step
      BY <1>6, <1>a, <2>1, <2>2, <3>1 DEF Get
    <3>3. QED
      BY <1>a, <2>1, <3>1, <3>2 DEF QueueInv, CountInv, Waiting, InWork
  <2>3. CASE Head(queue) # Stop
    <3>1. Waiting >= 1
      BY <2>1, <2>3, HeadOfQueue
    <3>2. Len(queue') = Len(queue) - 1
          /\ \A i \in 1 .. Len(queue') : queue'[i] = queue[i + 1]
      BY <1>a, <2>1
    <3>3. thread' = thread /\ step' = "post"
      BY <1>6, <2>3 DEF Get
    <3>4. ASSUME closed
          PROVE  Len(queue) >= 2 /\ queue'[Len(queue')] = Stop /\ queue' # <<>>
      <4>1. Waiting = Len(queue) - 1 /\ Len(queue) >= 2
        BY <1>a, <2>1, <3>1, <3>4 DEF Waiting
      <4>2. queue[Len(queue)] = Stop
        BY <1>a, <2>1, <3>4 DEF QueueInv
      <4>3. QED
        BY <1>a, <3>2, <4>1, <4>2
    <3>5. Waiting' = Waiting - 1
      BY <1>a, <2>1, <3>2, <3>3 DEF Waiting
    <3>6. CountInv'
      BY <1>a, <2>1, <3>3, <3>5 DEF CountInv, InWork
    <3>7. QueueInv'
      BY <1>a, <2>1, <3>3, <3>4 DEF QueueInv
    <3>8. QED
      BY <3>6, <3>7
  <2>4. QED
    BY <2>2, <2>3
<1>7. CASE RefuseUnsigned \/ PostAnswered \/ PostFails \/ DeliverRaises \/ Record
  <2>1. /\ UNCHANGED <<queue, closed, thread, pending, emitting>>
        /\ step # "get" /\ step' # "get"
    BY <1>7 DEF RefuseUnsigned, PostAnswered, PostFails, DeliverRaises, Sends, Settles,
       Record
  <2>2. QED
    BY <1>a, <2>1, SameQueue DEF CountInv, InWork, QueueInv
<1>8. CASE CountDown
  <2>1. /\ UNCHANGED <<queue, closed, thread, emitting>>
        /\ step # "get" /\ step' = "get" /\ pending' = pending - 1
    BY <1>8 DEF CountDown
  <2>2. QED
    BY <1>a, <2>1, SameQueue DEF CountInv, InWork, QueueInv
<1>9. CASE UNCHANGED vars
  BY <1>a, <1>9, SameQueue DEF vars, CountInv, InWork, QueueInv
<1>10. QED
  BY <1>1, <1>2, <1>3, <1>4, <1>5, <1>6, <1>7, <1>8, <1>9 DEF Next, Work

\* What moves no job keeps the jobs in their order.
LEMMA SameJobs ==
    ASSUME Inv, UNCHANGED <<queue, log, accepted, Held, Waiting>>,
           Held = 1 => hand' = hand,
           thread' = "ended" => thread = "ended"
    PROVE  NothingLostOrReordered'
BY DEF Inv, NothingLostOrReordered

\* Every step keeps the accepted jobs in their order.
LEMMA OrderStep == Inv /\ [Next]_vars => NothingLostOrReordered'
<1> SUFFICES ASSUME Inv, [Next]_vars PROVE NothingLostOrReordered'
  OBVIOUS
<1> USE DEF emitter, worker, callers, history, LockFree
<1>a. /\ QueueInv /\ NothingLostOrReordered
      /\ queue \in Seq(Jobs \union {Stop}) /\ Len(queue) \in Nat
      /\ accepted \in Seq(Jobs) /\ Len(accepted) \in Nat
      /\ log \in Seq(Outcomes) /\ Len(log) \in Nat
      /\ Waiting \in Nat /\ Held \in {0, 1}
  BY WaitingIsNat DEF Inv, TypeOK, Held
<1>1. ASSUME NEW e \in Event, NEW matching \in SUBSET Endpoint \ {{}}, Emit(e, matching)
      PROVE NothingLostOrReordered'
  <2>1. /\ ~ closed /\ UNCHANGED <<queue, closed, step, log, accepted, hand>>
        /\ thread' # "ended"
    BY <1>1, <1>a DEF Emit, Emit_Closed, QueueInv
  <2>2. Waiting' = Waiting /\ Held' = Held
    BY <2>1 DEF Waiting, Held
  <2>3. QED
    BY <2>1, <2>2, SameJobs
<1>2. ASSUME NEW p \in Endpoint, PutJob(p) PROVE NothingLostOrReordered'
  <2>1. /\ ~ closed /\ UNCHANGED <<closed, thread, step, hand, log>>
        /\ thread # "ended"
    BY <1>2, <1>a DEF PutJob, QueueInv
  <2>2. PICK job \in Jobs : queue' = Append(queue, job) /\ accepted' = Append(accepted, job)
    <3>1. emitting.event \in Event
      BY <1>2 DEF PutJob, Inv, TypeOK, Emits
    <3>2. QED
      BY <1>2, <3>1 DEF PutJob, Jobs
  <2>3. Held' = Held /\ Waiting = Len(queue) /\ Waiting' = Len(queue')
    BY <2>1 DEF Held, Waiting
  <2>4. /\ Len(queue') = Len(queue) + 1 /\ Len(accepted') = Len(accepted) + 1
        /\ \A i \in 1 .. Len(queue) : queue'[i] = queue[i]
        /\ \A i \in 1 .. Len(accepted) : accepted'[i] = accepted[i]
        /\ queue'[Len(queue) + 1] = job /\ accepted'[Len(accepted) + 1] = job
    BY <1>a, <2>2
  <2>5. Len(accepted') = Len(log') + Held' + Waiting'
    <3>1. Len(accepted) = Len(log) + Held + Waiting
      BY <1>a DEF NothingLostOrReordered
    <3>2. Len(log') = Len(log)
      BY <2>1
    <3>3. QED
      BY <1>a, <2>3, <2>4, <3>1, <3>2
  <2>6. \A i \in 1 .. Len(log') : log'[i].job = accepted'[i]
    BY <1>a, <2>1, <2>3, <2>4 DEF NothingLostOrReordered
  <2>7. Held' = 1 => hand' = accepted'[Len(log') + 1]
    BY <1>a, <2>1, <2>3, <2>4 DEF NothingLostOrReordered
  <2>8. \A i \in 1 .. Waiting' : queue'[i] = accepted'[Len(log') + Held' + i]
    <3>1. TAKE i \in 1 .. Waiting'
    <3>2. CASE i \in 1 .. Waiting
      <4>1. queue[i] = accepted[Len(log) + Held + i]
        BY <3>2, <1>a DEF NothingLostOrReordered
      <4>2. Len(log) + Held + i \in 1 .. Len(accepted)
        BY <3>2, <1>a DEF NothingLostOrReordered
      <4>3. QED
        BY <3>2, <4>1, <4>2, <2>1, <2>3, <2>4
    <3>3. CASE i = Waiting + 1
      <4>1. Len(log) + Held + i = Len(accepted) + 1
        BY <3>3, <1>a DEF NothingLostOrReordered
      <4>2. QED
        BY <3>3, <4>1, <2>1, <2>3, <2>4
    <3>4. QED
      BY <1>a, <2>3, <2>4, <3>2, <3>3
  <2>9. QED
    BY <2>1, <2>5, <2>6, <2>7, <2>8 DEF NothingLostOrReordered
<1>3. CASE EmitReturns
  <2>1. UNCHANGED <<queue, closed, thread, step, log, accepted, hand>>
    BY <1>3 DEF EmitReturns
  <2>2. QED
    BY <2>1, SameJobs DEF Waiting, Held
<1>4. CASE Flush \/ FlushReturns
  <2>1. UNCHANGED <<queue, closed, thread, step, log, accepted, hand>>
    BY <1>4 DEF Flush, FlushReturns
  <2>2. QED
    BY <2>1, SameJobs DEF Waiting, Held
<1>5. CASE Close
  <2>1. /\ ~ closed /\ closed' /\ UNCHANGED <<thread, step, log, accepted, hand>>
        /\ thread # "ended"
    BY <1>5, <1>a DEF Close, QueueInv
  <2>2. Len(queue') = Len(queue) + 1 /\ \A i \in 1 .. Len(queue) : queue'[i] = queue[i]
    BY <1>5, <1>a DEF Close
  <2>3. Held' = Held /\ Waiting = Len(queue) /\ Waiting' = Len(queue)
    BY <1>a, <2>1, <2>2 DEF Held, Waiting
  <2>4. QED
    BY <1>a, <2>1, <2>2, <2>3 DEF NothingLostOrReordered
<1>6. CASE Get
  <2>1. /\ step = "get" /\ thread = "running" /\ queue # <<>> /\ Held = 0
        /\ queue' = Tail(queue) /\ UNCHANGED <<closed, log, accepted>>
    BY <1>6 DEF Get, Held
  <2>2. CASE Head(queue) = Stop
    <3>1. Len(queue) = 1 /\ Waiting = 0
      BY <2>1, <2>2, HeadOfQueue
    <3>2. queue' = <<>> /\ thread' = "ended" /\ step' = "get"
      BY <1>6, <1>a, <2>1, <2>2, <3>1 DEF Get
    <3>3. Waiting' = 0 /\ Held' = 0
      BY <3>2 DEF Waiting, Held
    <3>4. Len(accepted) = Len(log)
      BY <1>a, <2>1, <3>1 DEF NothingLostOrReordered
    <3>5. QED
      BY <1>a, <2>1, <3>3, <3>4 DEF NothingLostOrReordered
  <2>3. CASE Head(queue) # Stop
    <3>1. Waiting >= 1 /\ Head(queue) = accepted[Len(log) + 1]
      BY <2>1, <2>3, HeadOfQueue
    <3>2. /\ Len(queue') = Len(queue) - 1
          /\ \A i \in 1 .. Len(queue') : queue'[i] = queue[i + 1]
      BY <1>a, <2>1
    <3>3. thread' = thread /\ step' = "post" /\ hand' = Head(queue)
      BY <1>6, <2>3 DEF Get
    <3>4. Waiting' = Waiting - 1 /\ Waiting' \in Nat /\ Waiting' <= Len(queue') /\ Held' = 1
      BY <1>a, <2>1, <3>1, <3>2, <3>3 DEF Waiting, Held
    <3>5. Len(accepted) = Len(log) + Waiting
          /\ \A i \in 1 .. Waiting : queue[i] = accepted[Len(log) + i]
      BY <1>a, <2>1 DEF NothingLostOrReordered
    <3>6. \A i \in 1 .. Waiting' : queue'[i] = accepted[Len(log) + 1 + i]
      <4>1. SUFFICES ASSUME NEW i \in 1 .. Waiting'
                     PROVE  queue'[i] = accepted[Len(log) + 1 + i]
        OBVIOUS
      <4>2. queue'[i] = queue[i + 1]
        BY <1>a, <3>2, <3>4
      <4>3. queue[i + 1] = accepted[Len(log) + (i + 1)]
        BY <1>a, <3>4, <3>5
      <4>4. QED
        BY <1>a, <4>2, <4>3
    <3>7. Len(accepted') = Len(log') + Held' + Waiting'
      BY <1>a, <2>1, <3>4, <3>5
    <3>8. \A i \in 1 .. Len(log') : log'[i].job = accepted'[i]
      BY <1>a, <2>1 DEF NothingLostOrReordered
    <3>9. hand' = accepted'[Len(log') + 1]
      BY <2>1, <3>1, <3>3
    <3>10. thread' # "ended"
      BY <2>1, <3>3
    <3>11. QED
      BY <2>1, <3>4, <3>6, <3>7, <3>8, <3>9, <3>10 DEF NothingLostOrReordered
  <2>4. QED
    BY <2>2, <2>3
<1>7. CASE RefuseUnsigned \/ PostAnswered \/ PostFails \/ DeliverRaises
  <2>1. /\ UNCHANGED <<queue, closed, thread, log, accepted, hand>>
        /\ step = "post" /\ step' \in {"post", "record"}
    BY <1>7 DEF RefuseUnsigned, PostAnswered, PostFails, DeliverRaises, Sends, Settles
  <2>2. QED
    BY <2>1, SameJobs DEF Waiting, Held
<1>8. CASE Record
  <2>1. /\ UNCHANGED <<queue, closed, thread, accepted>>
        /\ Held = 1 /\ Held' = 0 /\ log' = Append(log, outcome)
    BY <1>8 DEF Record, Held
  <2>2. outcome \in Outcomes /\ outcome.job = hand /\ thread = "running"
    BY <1>8 DEF Record, Inv, HandInv
  <2>3. /\ Len(log') = Len(log) + 1
        /\ \A i \in 1 .. Len(log) : log'[i] = log[i]
        /\ log'[Len(log) + 1].job = accepted[Len(log) + 1]
    BY <1>a, <2>1, <2>2 DEF NothingLostOrReordered
  <2>4. Waiting' = Waiting
    BY <2>1 DEF Waiting
  <2>5. \A i \in 1 .. Len(log') : log'[i].job = accepted[i]
    <3>1. TAKE i \in 1 .. Len(log')
    <3>2. CASE i \in 1 .. Len(log)
      BY <1>a, <2>3, <3>2 DEF NothingLostOrReordered
    <3>3. CASE i = Len(log) + 1
      BY <2>3, <3>3
    <3>4. QED
      BY <1>a, <2>3, <3>2, <3>3
  <2>6. Len(accepted') = Len(log') + Held' + Waiting'
    BY <1>a, <2>1, <2>3, <2>4 DEF NothingLostOrReordered
  <2>7. \A i \in 1 .. Waiting' : queue'[i] = accepted'[Len(log') + Held' + i]
    <3>1. Len(log') + Held' = Len(log) + Held
      BY <1>a, <2>1, <2>3
    <3>2. \A i \in 1 .. Waiting : queue[i] = accepted[Len(log) + Held + i]
      BY <1>a DEF NothingLostOrReordered
    <3>3. QED
      BY <2>1, <2>4, <3>1, <3>2
  <2>8. /\ \A i \in 1 .. Len(log') : log'[i].job = accepted'[i]
        /\ Held' # 1 /\ thread' # "ended"
    BY <2>1, <2>2, <2>5
  <2>9. QED
    BY ONLY <2>6, <2>7, <2>8 DEF NothingLostOrReordered
<1>9. CASE CountDown
  <2>1. /\ UNCHANGED <<queue, closed, thread, log, accepted>>
        /\ step = "count" /\ step' = "get"
    BY <1>9 DEF CountDown
  <2>2. QED
    BY <2>1, SameJobs DEF Waiting, Held
<1>10. CASE UNCHANGED vars
  BY <1>10, SameJobs DEF vars, Waiting, Held
<1>11. QED
  BY <1>1, <1>2, <1>3, <1>4, <1>5, <1>6, <1>7, <1>8, <1>9, <1>10 DEF Next, Work

-----------------------------------------------------------------------------
(* What flush waits for. *)

\* Every step keeps the jobs apart, and what a flush waits for.
LEMMA EventStep == Inv /\ [Next]_vars => EventInv'
<1> SUFFICES ASSUME Inv, [Next]_vars PROVE EventInv'
  OBVIOUS
<1> USE DEF emitter, worker, callers, history, LockFree
<1>a. /\ EventInv /\ accepted \in Seq(Jobs) /\ Len(accepted) \in Nat
      /\ emitting \in Emits \union {None} /\ None \notin Event
      /\ \A i \in 1 .. Len(accepted) : accepted[i] \in Jobs
  BY StopAssumption DEF Inv, TypeOK
<1>1. ASSUME NEW e \in Event, NEW matching \in SUBSET Endpoint \ {{}}, Emit(e, matching)
      PROVE EventInv'
  <2>1. /\ UNCHANGED <<accepted, flushing>> /\ e \notin emitted
        /\ emitted' = emitted \union {e} /\ emitting = None
        /\ emitting' \in {None, [event |-> e, left |-> matching]}
    BY <1>1 DEF Emit, Emit_Closed
  <2>2. emitting' # None => emitting'.event = e
    BY <2>1
  <2>3. \A i \in 1 .. Len(accepted) : accepted[i].event # e
    BY <1>a, <2>1 DEF EventInv
  <2>4. QED
    BY <1>a, <2>1, <2>2, <2>3 DEF EventInv
<1>2. ASSUME NEW p \in Endpoint, PutJob(p) PROVE EventInv'
  <2>1. /\ UNCHANGED <<flushing, emitted>> /\ emitting # None
        /\ emitting.event \in Event /\ emitting.left \subseteq Endpoint
        /\ emitting' = [emitting EXCEPT !.left = @ \ {p}] /\ p \in emitting.left
    BY <1>2, <1>a DEF PutJob, Emits
  <2>2. emitting'.event = emitting.event /\ emitting'.left = emitting.left \ {p}
    BY <1>a, <2>1 DEF Emits
  <2>3. PICK job : /\ job = [event |-> emitting.event, endpoint |-> p]
                   /\ accepted' = Append(accepted, job)
    BY <1>2 DEF PutJob
  <2>4. /\ Len(accepted') = Len(accepted) + 1 /\ accepted'[Len(accepted) + 1] = job
        /\ \A i \in 1 .. Len(accepted) : accepted'[i] = accepted[i]
    BY <1>a, <2>3
  <2>5. \A i \in 1 .. Len(accepted) : accepted[i] # job
    BY <1>a, <2>1, <2>3 DEF EventInv
  <2>6. \A i \in 1 .. Len(accepted') : accepted'[i].event \in emitted
    <3>1. TAKE i \in 1 .. Len(accepted')
    <3>2. CASE i \in 1 .. Len(accepted)
      BY <2>4, <3>2, <1>a DEF EventInv
    <3>3. CASE i = Len(accepted) + 1
      BY <1>a, <2>1, <2>3, <2>4, <3>3 DEF EventInv
    <3>4. QED
      BY <1>a, <2>4, <3>2, <3>3
  <2>7. \A i, k \in 1 .. Len(accepted') : accepted'[i] = accepted'[k] => i = k
    BY <1>a, <2>4, <2>5 DEF EventInv
  <2>8. \A i \in 1 .. Len(accepted') :
          accepted'[i].event = emitting.event => accepted'[i].endpoint \notin emitting.left \ {p}
    <3>1. TAKE i \in 1 .. Len(accepted')
    <3>2. CASE i \in 1 .. Len(accepted)
      BY <2>1, <2>4, <3>2, <1>a DEF EventInv
    <3>3. CASE i = Len(accepted) + 1
      BY <2>3, <2>4, <3>3
    <3>4. QED
      BY <1>a, <2>4, <3>2, <3>3
  <2>9. flushing' # None => \A j \in flushing' :
          /\ \E i \in 1 .. Len(accepted') : accepted'[i] = j
          /\ j.event # emitting.event
    BY <1>a, <2>1, <2>4 DEF EventInv
  <2>10. emitting.event \in emitted
    BY <1>a, <2>1 DEF EventInv
  <2>11. QED
    BY <2>1, <2>2, <2>6, <2>7, <2>8, <2>9, <2>10 DEF EventInv
<1>3. CASE EmitReturns
  <2>1. UNCHANGED <<accepted, emitted, flushing>> /\ emitting' = None
    BY <1>3 DEF EmitReturns
  <2>2. QED
    BY <1>a, <2>1 DEF EventInv
<1>4. CASE Flush
  <2>1. UNCHANGED <<accepted, emitted, emitting>>
    BY <1>4 DEF Flush
  <2>2. \A j \in flushing' :
          /\ \E i \in 1 .. Len(accepted) : accepted[i] = j
          /\ emitting # None => j.event # emitting.event
    BY <1>4, <1>a DEF Flush
  <2>3. QED
    BY <1>a, <2>1, <2>2 DEF EventInv
<1>5. CASE FlushReturns
  BY <1>5, <1>a DEF FlushReturns, EventInv
<1>6. CASE Close \/ Work
  <2>1. UNCHANGED <<accepted, emitted, emitting, flushing>>
    BY <1>6 DEF Close, Work, Get, RefuseUnsigned, PostAnswered, PostFails, DeliverRaises,
       Sends, Record, CountDown
  <2>2. QED
    BY <1>a, <2>1 DEF EventInv
<1>7. CASE UNCHANGED vars
  BY <1>7, <1>a DEF vars, EventInv
<1>8. QED
  BY <1>1, <1>2, <1>3, <1>4, <1>5, <1>6, <1>7 DEF Next

\* Every step keeps what the idle flag means.
LEMMA IdleStep == Inv /\ [Next]_vars => IdleInv'
<1> SUFFICES ASSUME Inv, [Next]_vars PROVE IdleInv'
  OBVIOUS
<1> USE DEF emitter, worker, callers, history, LockFree
<1>a. /\ IdleInv /\ accepted \in Seq(Jobs) /\ Len(accepted) \in Nat
      /\ log \in Seq(Outcomes) /\ Len(log) \in Nat /\ Waiting \in Nat
      /\ Len(accepted) = Len(log) + Held + Waiting
  BY WaitingIsNat DEF Inv, TypeOK, NothingLostOrReordered
<1>1. ASSUME NEW e \in Event, NEW matching \in SUBSET Endpoint \ {{}}, Emit(e, matching)
      PROVE IdleInv'
  <2>1. UNCHANGED <<accepted, log, idle>> /\ emitting = None
    BY <1>1 DEF Emit, Emit_Closed
  <2>2. QED
    BY <1>a, <2>1 DEF IdleInv
<1>2. ASSUME NEW p \in Endpoint, PutJob(p) PROVE IdleInv'
  <2>1. /\ UNCHANGED <<log, idle>> /\ emitting # None
        /\ emitting \in Emits /\ emitting' = [emitting EXCEPT !.left = @ \ {p}]
    BY <1>2 DEF PutJob, Inv, TypeOK
  <2>2. emitting'.event = emitting.event /\ emitting' \in Emits /\ emitting' # None
    <3>1. emitting' \in Emits /\ emitting'.event = emitting.event
      BY <2>1 DEF Emits
    <3>2. QED
      BY <3>1, StopAssumption DEF Emits
  <2>3. PICK job : /\ job.event = emitting.event
                   /\ accepted' = Append(accepted, job)
    BY <1>2 DEF PutJob
  <2>4. /\ Len(accepted') = Len(accepted) + 1 /\ accepted'[Len(accepted) + 1] = job
        /\ \A i \in 1 .. Len(accepted) : accepted'[i] = accepted[i]
    BY <1>a, <2>3
  <2>5. QED
    BY <1>a, <2>1, <2>2, <2>3, <2>4 DEF IdleInv
<1>3. CASE EmitReturns
  BY <1>3 DEF EmitReturns, IdleInv
<1>4. CASE Record
  <2>1. /\ UNCHANGED <<accepted, idle, emitting>> /\ Len(log') = Len(log) + 1
    BY <1>4, <1>a DEF Record, Inv, HandInv
  <2>2. QED
    BY <1>a, <2>1 DEF IdleInv
<1>5. CASE CountDown
  <2>1. /\ UNCHANGED <<accepted, log, emitting>> /\ pending' = pending - 1
        /\ idle' = (idle \/ pending' = 0) /\ Held = 0 /\ InWork = 1
    BY <1>5 DEF CountDown, Held, InWork
  <2>2. pending' = 0 => Len(accepted) = Len(log)
    BY <1>a, <2>1 DEF Inv, CountInv
  <2>3. CASE idle
    BY <1>a, <2>1, <2>3 DEF IdleInv
  <2>4. CASE pending' = 0
    <3>1. Len(accepted') = Len(log') /\ Len(log') \in Nat
      BY <1>a, <2>1, <2>2, <2>4
    <3>2. (Len(log') + 1) .. Len(accepted') = {}
      BY <3>1
    <3>3. QED
      BY <3>2 DEF IdleInv
  <2>5. QED
    BY <2>1, <2>3, <2>4 DEF IdleInv
<1>6. CASE Flush \/ FlushReturns \/ Close \/ Get \/ RefuseUnsigned \/ PostAnswered
           \/ PostFails \/ DeliverRaises
  <2>1. UNCHANGED <<accepted, log, idle, emitting>>
    BY <1>6 DEF Flush, FlushReturns, Close, Get, RefuseUnsigned, PostAnswered, PostFails,
       DeliverRaises, Sends
  <2>2. QED
    BY <1>a, <2>1 DEF IdleInv
<1>7. CASE UNCHANGED vars
  BY <1>7, <1>a DEF vars, IdleInv
<1>8. QED
  BY <1>1, <1>2, <1>3, <1>4, <1>5, <1>6, <1>7 DEF Next, Work

\* The whole invariant holds at the start, and always.
LEMMA InvInit == Init => Inv
<1> SUFFICES ASSUME Init PROVE Inv
  OBVIOUS
<1>1. Waiting = 0 /\ Held = 0 /\ InWork = 0
  BY DEF Init, Waiting, Held, InWork
<1>2. HandInv /\ QueueInv /\ CountInv
  BY <1>1 DEF Init, HandInv, QueueInv, CountInv
<1>3. NothingLostOrReordered
  BY <1>1 DEF Init, NothingLostOrReordered
<1>4. EventInv /\ IdleInv
  BY DEF Init, EventInv, IdleInv
<1>5. QED
  BY <1>2, <1>3, <1>4, TypeInit DEF Inv

\* Every step keeps the invariant.
LEMMA InvStays == Inv /\ [Next]_vars => Inv'
BY TypeStep, CountStep, OrderStep, EventStep, IdleStep DEF Inv

\* The invariant holds in every reachable state.
LEMMA InvAlways == Spec => []Inv
<1>1. Init => Inv
  BY InvInit
<1>2. Inv /\ [Next]_vars => Inv'
  BY InvStays
<1>3. QED
  BY <1>1, <1>2, PTL DEF Spec

\* Every variable keeps its type.
THEOREM TypeCorrect == Spec => []TypeOK
<1>1. Inv => TypeOK
  BY DEF Inv
<1>2. QED
  BY <1>1, InvAlways, PTL

\* No accepted job is lost, repeated or overtaken between emit and the delivery
\* history, and a worker that ended left none behind.
THEOREM NothingLost == Spec => []NothingLostOrReordered
<1>1. Inv => NothingLostOrReordered
  BY DEF Inv
<1>2. QED
  BY <1>1, InvAlways, PTL

\* A flush that answers answers the truth, although it reads the idle flag without
\* the lock an emit holds.
THEOREM FlushIsTruthful == Spec => FlushTellsTheTruth
<1>1. ASSUME Inv, [Next]_vars PROVE [FlushReturns => flushing \subseteq Settled]_vars
  <2> SUFFICES ASSUME FlushReturns, NEW j \in flushing PROVE j \in Settled
    OBVIOUS
  <2>1. idle /\ flushing # None
    BY DEF FlushReturns
  <2>2. PICK i \in 1 .. Len(accepted) : accepted[i] = j
    BY <1>1, <2>1 DEF Inv, EventInv
  <2>3. emitting # None => j.event # emitting.event
    BY <1>1, <2>1 DEF Inv, EventInv
  <2>4. Len(log) \in Nat /\ Len(accepted) \in Nat /\ DOMAIN log = 1 .. Len(log)
    BY <1>1 DEF Inv, TypeOK
  <2>5. i \in 1 .. Len(log)
    BY <1>1, <2>1, <2>2, <2>3, <2>4 DEF Inv, IdleInv
  <2>6. log[i].job = j
    BY <1>1, <2>2, <2>5 DEF Inv, NothingLostOrReordered
  <2>7. QED
    BY <2>4, <2>5, <2>6 DEF Settled
<1>2. QED
  BY <1>1, InvAlways, PTL DEF Spec, FlushTellsTheTruth

-----------------------------------------------------------------------------
(* What a recorded outcome says of the receiver. *)

\* A job nobody has taken was never posted, the job in hand as often as the
\* attempt says, and the outcome about to be recorded is so.
SentInv ==
    /\ \A i \in (Len(log) + Held + 1) .. Len(accepted) : sent[accepted[i]] = 0
    /\ \A j \in Jobs : (\A i \in 1 .. Len(accepted) : accepted[i] # j) => sent[j] = 0
    /\ step = "post" => sent[hand] = attempt - 1
    /\ step = "record" =>
         /\ outcome.status = "delivered" => hand \in received
         /\ outcome.attempts > 0 => sent[hand] = outcome.attempts

\* What posts nothing and moves no job keeps the truth of the outcomes.
LEMMA SameSent ==
    ASSUME Inv, SentInv, OutcomeIsTrue,
           UNCHANGED <<log, accepted, sent, received, step, hand, attempt, outcome>>
    PROVE  SentInv' /\ OutcomeIsTrue'
<1>1. Held' = Held
  BY DEF Held
<1>2. SentInv'
  BY <1>1 DEF SentInv
<1>3. OutcomeIsTrue'
  BY DEF OutcomeIsTrue
<1>4. QED
  BY <1>2, <1>3

\* The job in hand is neither recorded nor waiting.
LEMMA HandIsApart ==
    ASSUME Inv, step = "post"
    PROVE  /\ hand \in Jobs /\ Held = 1 /\ Len(log) \in Nat /\ Len(accepted) \in Nat
           /\ hand = accepted[Len(log) + 1] /\ Len(log) + 1 \in 1 .. Len(accepted)
           /\ \A i \in 1 .. Len(log) : log[i].job # hand
           /\ \A i \in (Len(log) + 2) .. Len(accepted) : accepted[i] # hand
<1>1. hand \in Jobs /\ Held = 1 /\ Len(log) \in Nat /\ Len(accepted) \in Nat
  BY DEF Inv, HandInv, Held, TypeOK
<1>2. Waiting \in Nat
  BY WaitingIsNat DEF Inv
<1>3. hand = accepted[Len(log) + 1] /\ Len(log) + 1 \in 1 .. Len(accepted)
  BY <1>1, <1>2 DEF Inv, NothingLostOrReordered
<1>4. \A i \in 1 .. Len(accepted) : accepted[i] = hand => i = Len(log) + 1
  BY <1>3 DEF Inv, EventInv
<1>5. \A i \in 1 .. Len(log) : log[i].job = accepted[i]
  BY DEF Inv, NothingLostOrReordered
<1>6. QED
  BY <1>1, <1>3, <1>4, <1>5

\* A post of the job in hand, or none, keeps the truth of everything else.
LEMMA PostKeepsTheRest ==
    ASSUME Inv, SentInv, OutcomeIsTrue, step = "post", step' \in {"post", "record"},
           UNCHANGED <<log, accepted, hand>>,
           \/ sent' = sent
           \/ hand.endpoint \notin Unsigned /\ sent' = [sent EXCEPT ![hand] = @ + 1],
           received \subseteq received'
    PROVE  /\ OutcomeIsTrue'
           /\ \A i \in (Len(log) + Held' + 1) .. Len(accepted) : sent'[accepted[i]] = 0
           /\ \A j \in Jobs : (\A i \in 1 .. Len(accepted) : accepted[i] # j) => sent'[j] = 0
<1>1. /\ hand \in Jobs /\ Held = 1 /\ Held' = 1 /\ Len(log) \in Nat /\ Len(accepted) \in Nat
      /\ hand = accepted[Len(log) + 1] /\ Len(log) + 1 \in 1 .. Len(accepted)
      /\ \A i \in 1 .. Len(log) : log[i].job # hand
      /\ \A i \in (Len(log) + 2) .. Len(accepted) : accepted[i] # hand
  BY HandIsApart DEF Held
<1>2. /\ sent \in [Jobs -> Nat] /\ DOMAIN log = 1 .. Len(log)
      /\ \A i \in 1 .. Len(log) : log[i].job \in Jobs
      /\ \A i \in 1 .. Len(accepted) : accepted[i] \in Jobs
  <2>1. /\ sent \in [Jobs -> Nat] /\ log \in Seq(Outcomes) /\ accepted \in Seq(Jobs)
    BY DEF Inv, TypeOK
  <2>2. DOMAIN log = 1 .. Len(log) /\ \A i \in 1 .. Len(log) : log[i] \in Outcomes
    BY <2>1
  <2>3. \A o \in Outcomes : o.job \in Jobs
    BY DEF Outcomes
  <2>4. QED
    BY <2>1, <2>2, <2>3
<1>3. \A j \in Jobs \ {hand} : sent'[j] = sent[j]
  BY <1>1, <1>2
<1>4. \A i \in 1 .. Len(log) :
        /\ log[i].status = "delivered" => log[i].job \in received'
        /\ log[i].attempts > 0 => sent'[log[i].job] = log[i].attempts
  BY <1>1, <1>2, <1>3 DEF OutcomeIsTrue
<1>5. sent'[hand] <= IF hand.endpoint \in Unsigned THEN 0 ELSE MaxAttempts
  <2>1. sent[hand] = attempt - 1 /\ attempt \in 1 .. MaxAttempts /\ MaxAttempts \in Nat
    BY WebhookAssumption DEF SentInv, Inv, TypeOK
  <2>2. CASE sent' = sent
    BY <1>1, <2>2 DEF OutcomeIsTrue
  <2>3. CASE hand.endpoint \notin Unsigned /\ sent' = [sent EXCEPT ![hand] = @ + 1]
    BY <1>1, <1>2, <2>1, <2>3
  <2>4. QED
    BY <2>2, <2>3
<1>6. \A j \in Jobs : sent'[j] <= IF j.endpoint \in Unsigned THEN 0 ELSE MaxAttempts
  BY <1>3, <1>5 DEF OutcomeIsTrue
<1>7. OutcomeIsTrue'
  BY <1>2, <1>4, <1>6 DEF OutcomeIsTrue
<1>8. \A i \in (Len(log) + Held' + 1) .. Len(accepted) : sent'[accepted[i]] = 0
  <2>1. TAKE i \in (Len(log) + Held' + 1) .. Len(accepted)
  <2>2. i \in (Len(log) + 2) .. Len(accepted) /\ i \in 1 .. Len(accepted)
    BY <1>1
  <2>3. accepted[i] \in Jobs \ {hand} /\ sent[accepted[i]] = 0
    BY <1>1, <1>2, <2>2 DEF SentInv
  <2>4. QED
    BY <1>3, <2>3
<1>9. \A j \in Jobs : (\A i \in 1 .. Len(accepted) : accepted[i] # j) => sent'[j] = 0
  BY <1>1, <1>3 DEF SentInv
<1>10. QED
  BY <1>7, <1>8, <1>9

\* Every step keeps the truth of the outcomes.
LEMMA SentStep == Inv /\ SentInv /\ OutcomeIsTrue /\ [Next]_vars => SentInv' /\ OutcomeIsTrue'
<1> SUFFICES ASSUME Inv, SentInv, OutcomeIsTrue, [Next]_vars
             PROVE  SentInv' /\ OutcomeIsTrue'
  OBVIOUS
<1> USE DEF emitter, worker, callers, history, LockFree
<1>a. /\ accepted \in Seq(Jobs) /\ Len(accepted) \in Nat
      /\ log \in Seq(Outcomes) /\ Len(log) \in Nat /\ Held \in {0, 1}
      /\ sent \in [Jobs -> Nat] /\ attempt \in 1 .. MaxAttempts /\ MaxAttempts \in Nat
  BY WebhookAssumption DEF Inv, TypeOK, Held
<1>1. ASSUME NEW e \in Event, NEW matching \in SUBSET Endpoint \ {{}}, Emit(e, matching)
      PROVE SentInv' /\ OutcomeIsTrue'
  BY <1>1, SameSent DEF Emit, Emit_Closed
<1>2. ASSUME NEW p \in Endpoint, PutJob(p) PROVE SentInv' /\ OutcomeIsTrue'
  <2>1. UNCHANGED <<log, sent, received, step, hand, attempt, outcome>>
    BY <1>2 DEF PutJob
  <2>2. PICK job \in Jobs :
          /\ accepted' = Append(accepted, job)
          /\ job.event = emitting.event /\ job.endpoint = p
    <3>1. emitting.event \in Event
      BY <1>2 DEF PutJob, Inv, TypeOK, Emits
    <3>2. [event |-> emitting.event, endpoint |-> p] \in Jobs
      BY <3>1 DEF Jobs
    <3>3. QED
      BY <1>2, <3>2 DEF PutJob
  <2>3. \A i \in 1 .. Len(accepted) : accepted[i] # job
    BY <1>2, <2>2 DEF PutJob, Inv, EventInv
  <2>4. sent[job] = 0
    BY <2>3 DEF SentInv
  <2>5. /\ Len(accepted') = Len(accepted) + 1 /\ accepted'[Len(accepted) + 1] = job
        /\ \A i \in 1 .. Len(accepted) : accepted'[i] = accepted[i]
    BY <1>a, <2>2
  <2>6. Held' = Held /\ OutcomeIsTrue'
    BY <2>1 DEF Held, OutcomeIsTrue
  <2>7. \A i \in (Len(log) + Held + 1) .. Len(accepted') : sent[accepted'[i]] = 0
    <3>1. TAKE i \in (Len(log) + Held + 1) .. Len(accepted')
    <3>2. CASE i \in 1 .. Len(accepted)
      BY <1>a, <2>5, <3>2 DEF SentInv
    <3>3. CASE i = Len(accepted) + 1
      BY <2>4, <2>5, <3>3
    <3>4. QED
      BY <1>a, <2>5, <3>2, <3>3
  <2>8. \A j \in Jobs : (\A i \in 1 .. Len(accepted') : accepted'[i] # j) => sent[j] = 0
    BY <1>a, <2>5 DEF SentInv
  <2>9. QED
    BY <2>1, <2>6, <2>7, <2>8 DEF SentInv
<1>3. CASE EmitReturns \/ Flush \/ FlushReturns \/ Close
  BY <1>3, SameSent DEF EmitReturns, Flush, FlushReturns, Close
<1>4. CASE Get
  <2>1. /\ UNCHANGED <<log, accepted, sent, received, outcome>> /\ step = "get"
        /\ thread = "running" /\ queue # <<>> /\ Held = 0
    BY <1>4 DEF Get, Held
  <2>2. CASE Head(queue) = Stop
    BY <1>4, <2>1, <2>2, SameSent DEF Get
  <2>3. CASE Head(queue) # Stop
    <3>1. Len(accepted) > Len(log) /\ Head(queue) = accepted[Len(log) + 1]
      BY <2>1, <2>3, HeadOfQueue
    <3>2. step' = "post" /\ hand' = Head(queue) /\ attempt' = 1
      BY <1>4, <2>3 DEF Get
    <3>3. sent[accepted[Len(log) + 1]] = 0
      <4>1. Len(log) + 1 \in (Len(log) + Held + 1) .. Len(accepted)
        BY <1>a, <2>1, <3>1
      <4>2. QED
        BY <4>1 DEF SentInv
    <3>4. Held' = 1
      BY <3>2 DEF Held
    <3>5. \A i \in (Len(log) + 1 + 1) .. Len(accepted) : sent[accepted[i]] = 0
      <4>1. \A i \in (Len(log) + Held + 1) .. Len(accepted) : sent[accepted[i]] = 0
        BY <1>a DEF SentInv
      <4>2. (Len(log) + 1 + 1) .. Len(accepted) \subseteq (Len(log) + Held + 1) .. Len(accepted)
        BY <1>a, <2>1
      <4>3. QED
        BY <4>1, <4>2
    <3>6. SentInv'
      BY <1>a, <2>1, <3>1, <3>2, <3>3, <3>4, <3>5 DEF SentInv
    <3>7. QED
      BY <2>1, <3>6 DEF OutcomeIsTrue
  <2>4. QED
    BY <2>2, <2>3
<1>5. CASE RefuseUnsigned \/ PostAnswered \/ PostFails \/ DeliverRaises
  <2>1. /\ step = "post" /\ step' \in {"post", "record"}
        /\ UNCHANGED <<log, accepted, hand>> /\ received \subseteq received'
        /\ \/ sent' = sent
           \/ hand.endpoint \notin Unsigned /\ sent' = [sent EXCEPT ![hand] = @ + 1]
    BY <1>5 DEF RefuseUnsigned, PostAnswered, PostFails, DeliverRaises, Sends, Settles
  <2>2. /\ OutcomeIsTrue'
        /\ \A i \in (Len(log) + Held' + 1) .. Len(accepted) : sent'[accepted[i]] = 0
        /\ \A j \in Jobs : (\A i \in 1 .. Len(accepted) : accepted[i] # j) => sent'[j] = 0
    BY <2>1, PostKeepsTheRest
  <2>3. hand \in Jobs /\ sent[hand] = attempt - 1
    BY <2>1, HandIsApart DEF SentInv
  <2>4. /\ step' = "post" => sent'[hand] = attempt' - 1
        /\ step' = "record" =>
             /\ outcome'.status = "delivered" => hand \in received'
             /\ outcome'.attempts > 0 => sent'[hand] = outcome'.attempts
    <3>1. CASE RefuseUnsigned \/ DeliverRaises
      BY <3>1 DEF RefuseUnsigned, DeliverRaises, Settles
    <3>2. CASE PostAnswered
      BY <1>a, <2>3, <3>2 DEF PostAnswered, Sends, Settles
    <3>3. CASE PostFails
      <4>1. sent'[hand] = attempt
        BY <1>a, <2>3, <3>3 DEF PostFails, Sends
      <4>2. QED
        BY <1>a, <4>1, <3>3 DEF PostFails, Sends, Settles
    <3>4. QED
      BY <1>5, <3>1, <3>2, <3>3
  <2>5. QED
    BY <2>1, <2>2, <2>4 DEF SentInv
<1>6. CASE Record
  <2>1. /\ UNCHANGED <<accepted, sent, received>> /\ log' = Append(log, outcome)
        /\ step = "record" /\ step' = "count"
        /\ outcome \in Outcomes /\ outcome.job = hand /\ Held = 1 /\ Held' = 0
    BY <1>6 DEF Record, Inv, HandInv, Held
  <2>2. /\ Len(log') = Len(log) + 1 /\ log'[Len(log) + 1] = outcome
        /\ DOMAIN log' = 1 .. (Len(log) + 1) /\ DOMAIN log = 1 .. Len(log)
        /\ \A i \in 1 .. Len(log) : log'[i] = log[i]
    BY <1>a, <2>1
  <2>3. SentInv'
    BY <1>a, <2>1, <2>2 DEF SentInv
  <2>4. \A i \in DOMAIN log' :
          /\ log'[i].status = "delivered" => log'[i].job \in received
          /\ log'[i].attempts > 0 => sent[log'[i].job] = log'[i].attempts
    <3>1. TAKE i \in DOMAIN log'
    <3>2. CASE i \in 1 .. Len(log)
      BY <2>2, <3>2 DEF OutcomeIsTrue
    <3>3. CASE i = Len(log) + 1
      BY <2>1, <2>2, <3>3 DEF SentInv
    <3>4. QED
      BY <1>a, <2>2, <3>2, <3>3
  <2>5. OutcomeIsTrue'
    BY <2>1, <2>4 DEF OutcomeIsTrue
  <2>6. QED
    BY <2>3, <2>5
<1>7. CASE CountDown
  <2>1. /\ UNCHANGED <<log, accepted, sent, received>>
        /\ step = "count" /\ step' = "get" /\ Held' = Held
    BY <1>7 DEF CountDown, Held
  <2>2. QED
    BY <2>1 DEF SentInv, OutcomeIsTrue
<1>8. CASE UNCHANGED vars
  BY <1>8, SameSent DEF vars
<1>9. QED
  BY <1>1, <1>2, <1>3, <1>4, <1>5, <1>6, <1>7, <1>8 DEF Next, Work

\* A recorded outcome is true of the receiver, no job is posted more often than
\* max_attempts, and nothing goes to an endpoint that lacks its secret.
THEOREM OutcomesAreTrue == Spec => []OutcomeIsTrue
<1>1. Init => SentInv /\ OutcomeIsTrue
  <2> SUFFICES ASSUME Init PROVE SentInv /\ OutcomeIsTrue
    OBVIOUS
  <2>1. \A j \in Jobs : sent[j] = 0
    BY DEF Init
  <2>2. SentInv
    <3>1. Held = 0 /\ Len(log) = 0 /\ Len(accepted) = 0 /\ step = "get"
      BY DEF Init, Held
    <3>2. (Len(log) + Held + 1) .. Len(accepted) = {}
      BY <3>1
    <3>3. QED
      BY <2>1, <3>1, <3>2 DEF SentInv
  <2>3. OutcomeIsTrue
    BY <2>1, WebhookAssumption DEF Init, OutcomeIsTrue
  <2>4. QED
    BY <2>2, <2>3
<1>2. Inv /\ SentInv /\ OutcomeIsTrue /\ [Next]_vars => SentInv' /\ OutcomeIsTrue'
  BY SentStep
<1>3. QED
  BY <1>1, <1>2, InvAlways, PTL DEF Spec

-----------------------------------------------------------------------------
(* DrainThread: the strengthening.                                           *)

AtWork == Executing \union {"loop"}
InLive == {"working", "ended", "logged"}

\* The parts of DrainTypeOK that speak of one variable.
TypesOK ==
    /\ stopping \in BOOLEAN
    /\ scheduler \in Thread \union {NoThread}
    /\ at \in [Thread -> Labels]
    /\ holds \in [Thread -> 0 .. MaxRuns]
    /\ row \in [Run -> {"absent", "queued", "running", "ended"}]
    /\ logged \subseteq Run
    /\ cpc \in [Caller -> {"idle", "ensure", "join", "readLive", "returned"}]
    /\ carg \in [Caller -> Nat]
    /\ shutdowns \in 0 .. MaxShutdowns

\* A thread in the middle of an execution has a run in hand.
HoldsARun == \A t \in Thread : at[t] \in Executing => holds[t] \in Run

\* The live set is what the threads past their claim hold.
LiveIsHeld == live = {holds[t] : t \in {u \in Thread : at[u] \in InLive}}

\* A thread at work is the manager's own: no other is started before it has
\* ended, and it is not forgotten before.
WorkerIsScheduler == \A t \in Thread : at[t] \in AtWork => scheduler = t

\* A run whose row is over has left the live set with its effects done.
EndedIsLogged ==
    /\ \A r \in Run : row[r] = "ended" => r \in live \/ r \in logged
    /\ \A t \in Thread : at[t] = "logged" => holds[t] \in logged

\* What a waiter read of the row is still so when it reads the live set.
WaiterReadTheEnd ==
    \A c \in Caller : cpc[c] = "readLive" => carg[c] \in Run /\ row[carg[c]] = "ended"

DrainInv ==
    /\ TypesOK /\ HoldsARun /\ LiveIsHeld /\ WorkerIsScheduler
    /\ EndedIsLogged /\ WaiterReadTheEnd /\ WaitSeesTheEffects

\* The parts of the invariant are the properties.
LEMMA InvGives == DrainInv => DrainTypeOK /\ OneDrainThread /\ WaitSeesTheEffects
BY DEF DrainInv, TypesOK, LiveIsHeld, InLive, WorkerIsScheduler, AtWork, DrainTypeOK,
   OneDrainThread

\* A manager just built, draining or not.
LEMMA DrainInitInv == DrainInit => DrainInv
<1> SUFFICES ASSUME DrainInit PROVE DrainInv
  OBVIOUS
<1>1. 1 \in Thread
  BY DrainBounds DEF Thread
<1>2. TypesOK
  <2>1. scheduler \in Thread \union {NoThread} /\ stopping \in BOOLEAN
    BY <1>1 DEF DrainInit
  <2>2. at \in [Thread -> Labels]
    BY DEF DrainInit, Labels
  <2>3. /\ holds \in [Thread -> 0 .. MaxRuns] /\ carg \in [Caller -> Nat]
        /\ shutdowns \in 0 .. MaxShutdowns
    BY DrainBounds DEF DrainInit
  <2>4. /\ row \in [Run -> {"absent", "queued", "running", "ended"}]
        /\ cpc \in [Caller -> {"idle", "ensure", "join", "readLive", "returned"}]
        /\ logged \subseteq Run
    BY DEF DrainInit
  <2>5. QED
    BY <2>1, <2>2, <2>3, <2>4 DEF TypesOK
<1>3. LiveIsHeld
  BY DEF DrainInit, LiveIsHeld, InLive
<1>4. HoldsARun /\ WorkerIsScheduler /\ EndedIsLogged /\ WaiterReadTheEnd
      /\ WaitSeesTheEffects
  BY DEF DrainInit, HoldsARun, WorkerIsScheduler, EndedIsLogged, WaiterReadTheEnd,
     WaitSeesTheEffects, AtWork, Executing
<1>5. QED
  BY <1>2, <1>3, <1>4 DEF DrainInv

-----------------------------------------------------------------------------
(* Every step keeps the invariant. *)

\* The types of the variables, and the run in hand.
LEMMA TypesStay ==
  ASSUME DrainInv, [DrainNext]_managerVars PROVE TypesOK' /\ HoldsARun'
<1> USE DrainBounds DEF DrainInv, TypesOK, HoldsARun, GoesTo, Executing, Labels
<1>1. ASSUME NEW t \in Thread, ThreadStep(t) PROVE TypesOK' /\ HoldsARun'
  <2>1. CASE Pass(t)
    <3>1. UNCHANGED <<stopping, scheduler, row, logged, cpc, carg, shutdowns>>
      BY <2>1 DEF Pass, callerVars
    <3>2. CASE at' = [at EXCEPT ![t] = "returned"] /\ UNCHANGED holds
      BY <3>1, <3>2
    <3>3. CASE /\ at' = [at EXCEPT ![t] = "claim"]
               /\ \E r \in Queued : holds' = [holds EXCEPT ![t] = r]
      <4>1. PICK r \in Run : holds' = [holds EXCEPT ![t] = r]
        BY <3>3 DEF Queued
      <4>2. r \in 0 .. MaxRuns
        BY DEF Run
      <4>3. QED
        BY <3>1, <3>3, <4>1, <4>2
    <3>4. QED
      BY <2>1, <3>2, <3>3 DEF Pass
  <2>2. CASE ThreadEnds(t) \/ Claim(t) \/ EnterLive(t)
    BY <2>2 DEF ThreadEnds, Claim, EnterLive, callerVars
  <2>3. CASE EndRow(t) \/ Effects(t) \/ LeaveLive(t)
    BY <2>3 DEF EndRow, Effects, LeaveLive, callerVars
  <2>4. QED
    BY <1>1, <2>1, <2>2, <2>3 DEF ThreadStep
<1>2. ASSUME NEW c \in Caller, Start(c) \/ EnsureScheduler(c)
      PROVE  TypesOK' /\ HoldsARun'
  BY <1>2 DEF Start, EnsureScheduler, NoThread
<1>3. ASSUME NEW c \in Caller, AskStop(c) \/ ForgetScheduler(c)
      PROVE  TypesOK' /\ HoldsARun'
  <2>1. CASE AskStop(c)
    <3>1. shutdowns' \in 0 .. MaxShutdowns /\ stopping' = TRUE /\ UNCHANGED scheduler
      BY <2>1 DEF AskStop
    <3>2. /\ cpc' \in [Caller -> {"idle", "ensure", "join", "readLive", "returned"}]
          /\ carg' \in [Caller -> Nat]
      <4>1. CASE scheduler = NoThread
        BY <2>1, <4>1 DEF AskStop, callerVars
      <4>2. CASE scheduler \in Thread
        <5>1. scheduler \in Nat /\ scheduler # NoThread
          BY <4>2 DEF Thread, NoThread
        <5>2. QED
          BY <2>1, <5>1 DEF AskStop
      <4>3. QED
        BY <4>1, <4>2
    <3>3. QED
      BY <2>1, <3>1, <3>2 DEF AskStop, drainVars
  <2>2. CASE ForgetScheduler(c)
    BY <2>2 DEF ForgetScheduler, drainVars
  <2>3. QED
    BY <1>3, <2>1, <2>2
<1>4. ASSUME NEW c \in Caller, ReadState(c) \/ ReadLive(c) \/ LeaveWait(c)
      PROVE  TypesOK' /\ HoldsARun'
  <2>1. Run \subseteq Nat
    BY DEF Run
  <2>2. /\ cpc' \in [Caller -> {"idle", "ensure", "join", "readLive", "returned"}]
        /\ carg' \in [Caller -> Nat]
    BY <1>4, <2>1 DEF ReadState, ReadLive, LeaveWait
  <2>3. QED
    BY <1>4, <2>2 DEF ReadState, ReadLive, LeaveWait, drainVars
<1>5. CASE UNCHANGED managerVars
  BY <1>5 DEF managerVars
<1>6. QED
  BY <1>1, <1>2, <1>3, <1>4, <1>5 DEF DrainNext

\* The live set and the manager's own thread.
LEMMA LiveStays == ASSUME DrainInv, [DrainNext]_managerVars PROVE LiveIsHeld'
<1> USE DEF DrainInv, TypesOK, LiveIsHeld, InLive, GoesTo
<1>1. ASSUME NEW t \in Thread, ThreadStep(t) PROVE LiveIsHeld'
  <2>1. CASE Pass(t) \/ ThreadEnds(t) \/ Claim(t)
    BY <2>1 DEF Pass, ThreadEnds, Claim
  <2>2. CASE EnterLive(t)
    BY <2>2 DEF EnterLive
  <2>3. CASE EndRow(t) \/ Effects(t)
    BY <2>3 DEF EndRow, Effects
  <2>4. CASE LeaveLive(t)
    <3>1. \A u \in Thread : at[u] \in InLive => u = t
      BY <2>4 DEF LeaveLive, WorkerIsScheduler, AtWork, Executing
    <3>2. live = {holds[t]}
      BY <2>4, <3>1 DEF LeaveLive
    <3>3. live' = {}
      BY <2>4, <3>2 DEF LeaveLive
    <3>4. \A u \in Thread : at'[u] \notin InLive
      BY <2>4, <3>1 DEF LeaveLive
    <3>5. QED
      BY <3>3, <3>4
  <2>5. QED
    BY <1>1, <2>1, <2>2, <2>3, <2>4 DEF ThreadStep
<1>2. ASSUME NEW c \in Caller, EnsureScheduler(c) PROVE LiveIsHeld'
  BY <1>2 DEF EnsureScheduler
<1>3. ASSUME NEW c \in Caller,
             \/ Start(c) \/ AskStop(c) \/ ForgetScheduler(c) \/ ReadState(c)
             \/ ReadLive(c) \/ LeaveWait(c)
      PROVE  UNCHANGED <<at, holds, live>>
  BY <1>3 DEF Start, AskStop, ForgetScheduler, ReadState, ReadLive, LeaveWait, drainVars
<1>4. CASE UNCHANGED managerVars
  BY <1>4 DEF managerVars
<1>5. QED
  BY <1>1, <1>2, <1>3, <1>4 DEF DrainNext

\* A thread is started only when no other is at work, and forgotten only when gone.
LEMMA WorkersStay == ASSUME DrainInv, [DrainNext]_managerVars PROVE WorkerIsScheduler'
<1> USE DEF DrainInv, TypesOK, WorkerIsScheduler, AtWork, Executing, GoesTo
<1>1. ASSUME NEW t \in Thread, ThreadStep(t) PROVE WorkerIsScheduler'
  BY <1>1 DEF ThreadStep, Pass, ThreadEnds, Claim, EnterLive, EndRow, Effects, LeaveLive
<1>2. ASSUME NEW c \in Caller, EnsureScheduler(c) PROVE WorkerIsScheduler'
  <2>1. CASE UNCHANGED <<scheduler, at>>
    BY <2>1
  <2>2. CASE ~ UNCHANGED <<scheduler, at>>
    <3>1. scheduler = NoThread \/ ~ IsAlive(scheduler)
      BY <1>2, <2>2 DEF EnsureScheduler
    <3>2. \A u \in Thread : at[u] \notin AtWork
      BY <3>1 DEF IsAlive, NoThread, Thread
    <3>3. PICK t \in Thread : at' = [at EXCEPT ![t] = "loop"] /\ scheduler' = t
      BY <1>2, <2>2 DEF EnsureScheduler
    <3>4. QED
      BY <3>2, <3>3
  <2>3. QED
    BY <2>1, <2>2
<1>3. ASSUME NEW c \in Caller, ForgetScheduler(c) PROVE WorkerIsScheduler'
  BY <1>3 DEF ForgetScheduler, MayForget, IsAlive, drainVars
<1>4. ASSUME NEW c \in Caller,
             Start(c) \/ AskStop(c) \/ ReadState(c) \/ ReadLive(c) \/ LeaveWait(c)
      PROVE  UNCHANGED <<scheduler, at>>
  BY <1>4 DEF Start, AskStop, ReadState, ReadLive, LeaveWait, drainVars
<1>5. CASE UNCHANGED managerVars
  BY <1>5 DEF managerVars
<1>6. QED
  BY <1>1, <1>2, <1>3, <1>4, <1>5 DEF DrainNext

\* A run that is over for the registry is in the live set until its effects
\* are done.
LEMMA EndsStayLogged == ASSUME DrainInv, [DrainNext]_managerVars PROVE EndedIsLogged'
<1> USE DEF DrainInv, TypesOK, EndedIsLogged, GoesTo
<1>1. ASSUME NEW t \in Thread, ThreadStep(t) PROVE EndedIsLogged'
  <2>1. CASE Pass(t) \/ ThreadEnds(t) \/ Claim(t)
    BY <2>1 DEF Pass, ThreadEnds, Claim
  <2>2. CASE EnterLive(t)
    BY <2>2 DEF EnterLive
  <2>3. CASE EndRow(t)
    <3>1. holds[t] \in live
      BY <2>3 DEF EndRow, LiveIsHeld, InLive
    <3>2. QED
      BY <2>3, <3>1 DEF EndRow
  <2>4. CASE Effects(t)
    BY <2>4 DEF Effects
  <2>5. CASE LeaveLive(t)
    BY <2>5 DEF LeaveLive
  <2>6. QED
    BY <1>1, <2>1, <2>2, <2>3, <2>4, <2>5 DEF ThreadStep
<1>2. ASSUME NEW c \in Caller, Start(c) PROVE EndedIsLogged'
  BY <1>2 DEF Start
<1>3. ASSUME NEW c \in Caller, EnsureScheduler(c) PROVE EndedIsLogged'
  BY <1>3 DEF EnsureScheduler
<1>4. ASSUME NEW c \in Caller,
             AskStop(c) \/ ForgetScheduler(c) \/ ReadState(c) \/ ReadLive(c) \/ LeaveWait(c)
      PROVE  UNCHANGED drainVars
  BY <1>4 DEF AskStop, ForgetScheduler, ReadState, ReadLive, LeaveWait
<1>5. CASE UNCHANGED drainVars
  BY <1>5 DEF drainVars
<1>6. CASE UNCHANGED managerVars
  BY <1>5, <1>6 DEF managerVars, drainVars
<1>7. QED
  BY <1>1, <1>2, <1>3, <1>4, <1>5, <1>6 DEF DrainNext

\* A row that is over stays over, and effects are not undone.
LEMMA WaitersStay ==
  ASSUME DrainInv, [DrainNext]_managerVars PROVE WaiterReadTheEnd' /\ WaitSeesTheEffects'
<1> USE DEF DrainInv, TypesOK, WaiterReadTheEnd, WaitSeesTheEffects, GoesTo
<1>1. ASSUME NEW t \in Thread, ThreadStep(t)
      PROVE  WaiterReadTheEnd' /\ WaitSeesTheEffects'
  BY <1>1 DEF ThreadStep, Pass, ThreadEnds, Claim, EnterLive, EndRow, Effects, LeaveLive,
     callerVars
<1>2. ASSUME NEW c \in Caller, Start(c) \/ EnsureScheduler(c)
      PROVE  WaiterReadTheEnd' /\ WaitSeesTheEffects'
  BY <1>2 DEF Start, EnsureScheduler
<1>3. ASSUME NEW c \in Caller, AskStop(c) \/ ForgetScheduler(c) \/ LeaveWait(c)
      PROVE  WaiterReadTheEnd' /\ WaitSeesTheEffects'
  BY <1>3 DEF AskStop, ForgetScheduler, LeaveWait, drainVars, callerVars
<1>4. ASSUME NEW c \in Caller, ReadState(c)
      PROVE  WaiterReadTheEnd' /\ WaitSeesTheEffects'
  BY <1>4 DEF ReadState, drainVars
<1>5. ASSUME NEW c \in Caller, ReadLive(c)
      PROVE  WaiterReadTheEnd' /\ WaitSeesTheEffects'
  <2>1. cpc[c] = "readLive" /\ OverIn(carg[c]) => carg[c] \in logged
    BY DEF OverIn, EndedIsLogged
  <2>2. QED
    BY <1>5, <2>1 DEF ReadLive, drainVars
<1>6. CASE UNCHANGED managerVars
  BY <1>6 DEF managerVars
<1>7. QED
  BY <1>1, <1>2, <1>3, <1>4, <1>5, <1>6 DEF DrainNext

-----------------------------------------------------------------------------

\* The strengthening is an invariant.
LEMMA DrainInvStays == ASSUME DrainInv, [DrainNext]_managerVars PROVE DrainInv'
BY TypesStay, LiveStays, WorkersStay, EndsStayLogged, WaitersStay DEF DrainInv

\* So it is an invariant.
LEMMA DrainInvariant == DrainSpec => []DrainInv
<1>1. ASSUME DrainInv, [DrainNext]_managerVars PROVE DrainInv'
  BY <1>1, DrainInvStays
<1>2. QED
  BY <1>1, DrainInitInv, PTL DEF DrainSpec

\* The live set the heartbeat and wait read is exactly the runs in execution,
\* and every variable keeps its type.
THEOREM DrainTypeCorrect == DrainSpec => []DrainTypeOK
BY DrainInvariant, InvGives, PTL

\* However start and shutdown interleave, a manager has one drain thread at
\* work at most: it replaces a thread only after that has ended.
THEOREM OneThreadDrains == DrainSpec => []OneDrainThread
BY DrainInvariant, InvGives, PTL

\* A waiter that is told a run is over finds its effects done, although it
\* reads the row and the live set one after the other.
THEOREM WaitIsTruthful == DrainSpec => []WaitSeesTheEffects
BY DrainInvariant, InvGives, PTL

-----------------------------------------------------------------------------
(* ChunkPool. *)

\* A child is there from its launch, and a task that ended has asked its own to
\* exit, or seen it dead.
ChildFollowsTask ==
    \A t \in Task :
        /\ task[t] \in {"queued", "checked", "cancelled"} => child[t] = "none"
        /\ Ended(t) => child[t] # "alive"

\* The runner tracks the children that a worker waits for.
TrackedAreWaiting == \A t \in Task : t \in tracked <=> task[t] = "waiting"

\* Past runner.cancel nothing is queued, and the pool's signal is set; past the
\* wait for the futures no launch is halfway, and past the second sweep no
\* child runs unasked.
CancelGoesOn ==
    /\ collector \in {"sweeping", "grace", "joining", "sweeping again", "raised"} => poolCancel
    /\ collector \in {"sweeping again", "raised"} => \A t \in Task : task[t] # "launched"
    /\ collector = "raised" => \A t \in Task : child[t] # "alive"

FailureWaits == collector = "failed" => AllEnded

PoolInv == PoolTypeOK /\ ChildFollowsTask /\ TrackedAreWaiting /\ CancelGoesOn /\ FailureWaits

\* Nothing is launched in a pool that begins.
LEMMA PoolInitInv == PoolInit => PoolInv
BY DEF PoolInit, PoolInv, PoolTypeOK, ChildFollowsTask, TrackedAreWaiting, CancelGoesOn,
   FailureWaits, Over, Ended

\* What the properties say of the pool.
LEMMA PoolInvGives ==
  PoolInv => PoolTypeOK /\ NoChildOutlivesTheCancel /\ ErrorsWaitForTheRest
BY DEF PoolInv, ChildFollowsTask, CancelGoesOn, FailureWaits, AllEnded, Ended,
   NoChildOutlivesTheCancel, ErrorsWaitForTheRest

\* A step of a worker, of a child or of the collector keeps the types.
LEMMA PoolTypesStay == ASSUME PoolTypeOK, [PoolNext]_poolVars PROVE PoolTypeOK'
<1> USE DEF PoolTypeOK, Move, Then, At, CollectorVars, Signals, Over
<1>1. ASSUME NEW t \in Task, Worker(t) PROVE PoolTypeOK'
  BY <1>1 DEF Worker, Takes, Launches, Tracks, NoticesTheCancel, Reaps
<1>2. ASSUME NEW t \in Task, Decodes(t) \/ ChildDies(t) PROVE PoolTypeOK'
  BY <1>2 DEF Decodes, ChildDies
<1>3. CASE Collector
  <2>1. CASE Sweeps \/ GraceEnds \/ SweepsAgain
    BY <2>1 DEF Sweeps, GraceEnds, SweepsAgain, SecondSweep, Asks, Kills
  <2>2. CASE CancelsTheRest \/ WaitEnds \/ RaisesTheError \/ Returns
    BY <2>2 DEF CancelsTheRest, WaitEnds, RaisesTheError, Returns
  <2>3. ASSUME NEW t \in Task, Collects(t) PROVE PoolTypeOK'
    BY <2>3 DEF Collects
  <2>4. QED
    BY <1>3, <2>1, <2>2, <2>3 DEF Collector
<1>4. CASE Interrupts \/ CancelIsAsked \/ Finished \/ UNCHANGED poolVars
  BY <1>4 DEF Interrupts, CancelIsAsked, Finished, poolVars
<1>5. QED
  BY <1>1, <1>2, <1>3, <1>4 DEF PoolNext

\* The invariant is inductive, if no launch takes longer than the whole wait.
LEMMA PoolInvStays ==
  ASSUME ~ SlowLaunch, PoolInv, [PoolNext]_poolVars PROVE PoolInv'
<1> DEFINE Others == ChildFollowsTask /\ TrackedAreWaiting /\ CancelGoesOn /\ FailureWaits
<1> SUFFICES Others'
  BY PoolTypesStay DEF PoolInv
<1> USE DEF PoolInv, PoolTypeOK, ChildFollowsTask, TrackedAreWaiting, CancelGoesOn,
        FailureWaits, AllEnded, Ended, Over, Move, Then, At, CollectorVars, Signals
<1>1. ASSUME NEW t \in Task, Worker(t) PROVE Others'
  <2>1. CASE Takes(t)
    BY <2>1 DEF Takes
  <2>2. CASE Launches(t)
    BY <2>2 DEF Launches, Cancelled
  <2>3. CASE Tracks(t)
    BY <2>3 DEF Tracks
  <2>4. CASE NoticesTheCancel(t)
    BY <2>4 DEF NoticesTheCancel
  <2>5. CASE Reaps(t)
    BY <2>5 DEF Reaps
  <2>6. QED
    BY <1>1, <2>1, <2>2, <2>3, <2>4, <2>5 DEF Worker
<1>2. ASSUME NEW t \in Task, Decodes(t) \/ ChildDies(t) PROVE Others'
  BY <1>2 DEF Decodes, ChildDies
<1>3. CASE Collector
  <2>1. CASE Sweeps
    BY <2>1 DEF Sweeps, Asks
  <2>2. CASE SweepsAgain
    BY <2>2 DEF SweepsAgain, SecondSweep, Kills
  <2>3. CASE CancelsTheRest
    BY <2>3 DEF CancelsTheRest
  <2>4. CASE WaitEnds \/ RaisesTheError \/ Returns
    BY <2>4 DEF WaitEnds, RaisesTheError, Returns
  <2>5. ASSUME NEW t \in Task, Collects(t) PROVE Others'
    BY <2>5 DEF Collects
  <2>6. CASE GraceEnds
    BY <2>6 DEF GraceEnds, Kills
  <2>7. QED
    BY <1>3, <2>1, <2>2, <2>3, <2>4, <2>5, <2>6 DEF Collector
<1>4. CASE Interrupts \/ CancelIsAsked \/ Finished \/ UNCHANGED poolVars
  BY <1>4 DEF Interrupts, CancelIsAsked, Finished, poolVars
<1>5. QED
  BY <1>1, <1>2, <1>3, <1>4 DEF PoolNext

-----------------------------------------------------------------------------
(* LocalNode. *)

\* The process the record names has recorded itself and not taken it down: it is
\* between the two, or was killed, or is starting again after a fault.
RecordedRunsOrDied ==
    record # NoServer =>
        \/ record \in killed
        \/ server[record] \in {"recorded", "serving", "stopping", "dropping", "closing",
                               "forgetting"}
        \/ server[record] \in {"starting", "bound"} /\ gen[record] = 2

\* A thread holds a token exactly while it publishes.
HoldsWhilePublishing ==
    \A k \in Keeper :
        /\ keeper[k] \in {"none", "waiting"} => held[k] = NoToken
        /\ keeper[k] \in {"opened", "late"} => held[k] \in Token

LocalInv == NodeTypeOK /\ RecordedRunsOrDied /\ HoldsWhilePublishing /\ NoSessionWithoutAFile

\* No node runs and no file is there.
LEMMA LocalInitInv == NodeInit => LocalInv
<1> USE DEF NodeInit
<1>1. NodeInit => NodeTypeOK
  <2>1. 0 \in 0..MaxTokens /\ 0 \in 0..MaxNodeEvents
    BY LocalNodeAssumption
  <2>2. QED
    BY <2>1 DEF NodeTypeOK
<1>2. NodeInit => RecordedRunsOrDied /\ NoSessionWithoutAFile
  BY DEF RecordedRunsOrDied, NoSessionWithoutAFile
<1>3. NodeInit => HoldsWhilePublishing
  BY DEF HoldsWhilePublishing
<1>4. QED
  BY <1>1, <1>2, <1>3 DEF LocalInv

\* What the properties say of the node's files.
LEMMA LocalInvGives == LocalInv => NodeTypeOK /\ RecordNamesALiveServer /\ NoSessionWithoutAFile
BY DEF LocalInv, RecordedRunsOrDied, RecordNamesALiveServer, Running

\* A thread's own key.
LEMMA MineIsAKeeper == ASSUME NodeTypeOK, NEW n \in Server PROVE Mine(n) \in Keeper
BY DEF NodeTypeOK, Mine, Keeper

\* The parts of the type invariant.
ServersOK ==
    /\ server \in [Server -> {"off", "starting", "bound", "recorded", "serving",
                              "stopping", "dropping", "closing", "forgetting", "ended"}]
    /\ exiting \in [Server -> BOOLEAN] /\ gen \in [Server -> {1, 2}]
FilesOK ==
    /\ record \in Server \cup {NoServer} /\ sessionFile \in Token \cup {NoToken}
    /\ rows \subseteq Token /\ issued \in 0..MaxTokens /\ published \subseteq Token
KeepersOK ==
    /\ keeper \in [Keeper -> {"none", "waiting", "opened", "late"}]
    /\ held \in [Keeper -> Token \cup {NoToken}]
OthersOK ==
    /\ portOf \in PortPlans
    /\ joined \in Server \cup {NoServer} /\ owns \in BOOLEAN
    /\ killed \subseteq Server /\ stranded \subseteq Token \cup {NoToken}

\* The events that the bound counts stay under it.
LEMMA EventsStayCounted ==
  ASSUME NodeTypeOK, [NodeNext]_nodeVars PROVE (events \in 0..MaxNodeEvents)'
<1>1. \/ UNCHANGED events
      \/ events < MaxNodeEvents /\ events' = events + 1
  BY DEF NodeNext, Works, Refreshes, Bind, LosesThePort, RecordsItself, LeavesTheLoop, KeeperStops,
     DropsTheFile, Closes, Unlinks, Exits, Serve, AskToStop, Faults, Dies, KeepsTheSession,
     OpensTheSession, WritesTheFile, CannotWrite, SessionsEnd, TrayStarts, TrayRestarts,
     TrayStops, Happens, nodeVars
<1>2. QED
  BY <1>1, LocalNodeAssumption DEF NodeTypeOK

\* Every server stays where a server can be.
LEMMA ServersStay == ASSUME NodeTypeOK, [NodeNext]_nodeVars PROVE ServersOK'
<1> USE LocalNodeAssumption DEF NodeTypeOK, ServersOK, Keeper, Go, Launch
<1>1. ASSUME NEW n \in Server, Works(n) PROVE ServersOK'
  <2>1. CASE Bind(n) \/ RecordsItself(n) \/ LeavesTheLoop(n)
    BY <2>1 DEF Bind, RecordsItself, LeavesTheLoop
  <2>2. CASE DropsTheFile(n) \/ Closes(n) \/ Unlinks(n)
    BY <2>2 DEF DropsTheFile, Closes, Unlinks
  <2>3. CASE KeeperStops(n)
    BY <2>3 DEF KeeperStops
  <2>4. CASE LosesThePort(n) \/ Exits(n)
    BY <2>4 DEF LosesThePort, Exits, ThreadsDie
  <2>5. QED
    BY <1>1, <2>1, <2>2, <2>3, <2>4 DEF Works
<1>2. ASSUME NEW n \in Server, Serve(n) \/ AskToStop(n) \/ Faults(n) PROVE ServersOK'
  BY <1>2 DEF Serve, AskToStop, Faults
<1>3. ASSUME NEW n \in Server, Dies(n) PROVE ServersOK'
  BY <1>3 DEF Dies, ThreadsDie
<1>4. ASSUME NEW k \in Keeper, Refreshes(k) PROVE ServersOK'
  <2>1. CASE KeepsTheSession(k[1], k)
    BY <2>1 DEF KeepsTheSession, Done
  <2>2. CASE OpensTheSession(k[1], k)
    BY <2>2 DEF OpensTheSession, Done
  <2>3. CASE WritesTheFile(k[1], k)
    BY <2>3 DEF WritesTheFile, Done
  <2>4. CASE CannotWrite(k[1], k)
    BY <2>4 DEF CannotWrite, Done, EndsItsRow
  <2>5. QED
    BY <1>4, <2>1, <2>2, <2>3, <2>4 DEF Refreshes
<1>5. CASE TrayStarts \/ TrayRestarts \/ TrayStops
  BY <1>5 DEF TrayStarts, TrayRestarts, TrayStops, Starts, Answers
<1>6. CASE SessionsEnd \/ UNCHANGED nodeVars
  BY <1>6 DEF SessionsEnd, nodeVars
<1>7. QED
  BY <1>1, <1>2, <1>3, <1>4, <1>5, <1>6 DEF NodeNext

\* The files name servers and tokens that exist.
LEMMA FilesStay ==
  ASSUME NodeTypeOK, HoldsWhilePublishing, [NodeNext]_nodeVars
  PROVE  FilesOK'
<1> USE LocalNodeAssumption DEF NodeTypeOK, FilesOK, FileVars, Token, NoToken
<1>1. ASSUME NEW n \in Server, Works(n) PROVE FilesOK'
  <2>1. CASE Bind(n) \/ RecordsItself(n) \/ LeavesTheLoop(n)
    BY <2>1 DEF Bind, RecordsItself, LeavesTheLoop
  <2>2. CASE DropsTheFile(n) \/ Closes(n) \/ Unlinks(n)
    BY <2>2 DEF DropsTheFile, Closes, Unlinks
  <2>3. CASE KeeperStops(n)
    BY <2>3 DEF KeeperStops
  <2>4. CASE LosesThePort(n) \/ Exits(n)
    BY <2>4 DEF LosesThePort, Exits, ThreadsDie
  <2>5. QED
    BY <1>1, <2>1, <2>2, <2>3, <2>4 DEF Works
<1>2. ASSUME NEW n \in Server, Serve(n) \/ AskToStop(n) \/ Faults(n) PROVE FilesOK'
  BY <1>2 DEF Serve, AskToStop, Faults
<1>3. ASSUME NEW n \in Server, Dies(n) PROVE FilesOK'
  BY <1>3 DEF Dies, ThreadsDie
<1>4. ASSUME NEW k \in Keeper, Refreshes(k) PROVE FilesOK'
  <2>1. CASE KeepsTheSession(k[1], k)
    BY <2>1 DEF KeepsTheSession, Done
  <2>2. CASE OpensTheSession(k[1], k)
    <3>1. issued < MaxTokens => issued + 1 \in Token /\ issued + 1 \in 0..MaxTokens
      OBVIOUS
    <3>2. QED
      BY <2>2, <3>1 DEF OpensTheSession
  <2>3. CASE WritesTheFile(k[1], k)
    BY <2>3 DEF WritesTheFile, HoldsWhilePublishing
  <2>4. CASE CannotWrite(k[1], k)
    BY <2>4 DEF CannotWrite, Done, EndsItsRow
  <2>5. QED
    BY <1>4, <2>1, <2>2, <2>3, <2>4 DEF Refreshes
<1>5. CASE TrayStarts \/ TrayRestarts \/ TrayStops
  BY <1>5 DEF TrayStarts, TrayRestarts, TrayStops, Starts, Answers
<1>6. CASE SessionsEnd \/ UNCHANGED nodeVars
  BY <1>6 DEF SessionsEnd, nodeVars
<1>7. QED
  BY <1>1, <1>2, <1>3, <1>4, <1>5, <1>6 DEF NodeNext

\* A keeper stays where a keeper can be.
LEMMA KeepersStay == ASSUME NodeTypeOK, [NodeNext]_nodeVars PROVE KeepersOK'
<1> USE LocalNodeAssumption, MineIsAKeeper DEF NodeTypeOK, KeepersOK, KeeperVars, Set, Token, NoToken
<1>1. ASSUME NEW n \in Server, Works(n) PROVE KeepersOK'
  <2>1. CASE Bind(n) \/ RecordsItself(n) \/ LeavesTheLoop(n)
    BY <2>1 DEF Bind, RecordsItself, LeavesTheLoop
  <2>2. CASE DropsTheFile(n) \/ Closes(n) \/ Unlinks(n)
    BY <2>2 DEF DropsTheFile, Closes, Unlinks
  <2>3. CASE KeeperStops(n)
    BY <2>3 DEF KeeperStops
  <2>4. CASE LosesThePort(n) \/ Exits(n)
    BY <2>4 DEF LosesThePort, Exits, ThreadsDie
  <2>5. QED
    BY <1>1, <2>1, <2>2, <2>3, <2>4 DEF Works
<1>2. ASSUME NEW n \in Server, Serve(n) \/ AskToStop(n) \/ Faults(n) PROVE KeepersOK'
  BY <1>2 DEF Serve, AskToStop, Faults
<1>3. ASSUME NEW n \in Server, Dies(n) PROVE KeepersOK'
  BY <1>3 DEF Dies, ThreadsDie
<1>4. ASSUME NEW k \in Keeper, Refreshes(k) PROVE KeepersOK'
  <2>1. CASE KeepsTheSession(k[1], k)
    BY <2>1 DEF KeepsTheSession, Done
  <2>2. CASE OpensTheSession(k[1], k)
    BY <2>2 DEF OpensTheSession, Done
  <2>3. CASE WritesTheFile(k[1], k)
    BY <2>3 DEF WritesTheFile, Done
  <2>4. CASE CannotWrite(k[1], k)
    BY <2>4 DEF CannotWrite, Done, EndsItsRow
  <2>5. QED
    BY <1>4, <2>1, <2>2, <2>3, <2>4 DEF Refreshes
<1>5. CASE TrayStarts \/ TrayRestarts \/ TrayStops
  BY <1>5 DEF TrayStarts, TrayRestarts, TrayStops, Starts, Answers
<1>6. CASE SessionsEnd \/ UNCHANGED nodeVars
  BY <1>6 DEF SessionsEnd, nodeVars
<1>7. QED
  BY <1>1, <1>2, <1>3, <1>4, <1>5, <1>6 DEF NodeNext

\* The tray joins a server, and what is left behind was there.
LEMMA OthersStay == ASSUME NodeTypeOK, [NodeNext]_nodeVars PROVE OthersOK'
<1> USE LocalNodeAssumption DEF NodeTypeOK, OthersOK, TrayVars, Rest, Keeper, Token, NoToken
<1>0. ASSUME NEW n \in Server
      PROVE  {held[k] : k \in {j \in Keeper : j[1] = n}} \subseteq Token \cup {NoToken}
  BY DEF KeepersOK
<1>1. ASSUME NEW n \in Server, Works(n) PROVE OthersOK'
  <2>1. CASE Bind(n) \/ RecordsItself(n) \/ LeavesTheLoop(n)
    BY <2>1 DEF Bind, RecordsItself, LeavesTheLoop
  <2>2. CASE DropsTheFile(n) \/ Closes(n) \/ Unlinks(n)
    BY <2>2 DEF DropsTheFile, Closes, Unlinks
  <2>3. CASE KeeperStops(n)
    BY <2>3 DEF KeeperStops
  <2>4. CASE LosesThePort(n) \/ Exits(n)
    BY <1>0, <2>4 DEF LosesThePort, Exits, ThreadsDie
  <2>5. QED
    BY <1>1, <2>1, <2>2, <2>3, <2>4 DEF Works
<1>2. ASSUME NEW n \in Server, Serve(n) \/ AskToStop(n) \/ Faults(n) PROVE OthersOK'
  BY <1>2 DEF Serve, AskToStop, Faults
<1>3. ASSUME NEW n \in Server, Dies(n) PROVE OthersOK'
  BY <1>0, <1>3 DEF Dies, ThreadsDie
<1>4. ASSUME NEW k \in Keeper, Refreshes(k) PROVE OthersOK'
  <2>1. CASE KeepsTheSession(k[1], k)
    BY <2>1 DEF KeepsTheSession, Done
  <2>2. CASE OpensTheSession(k[1], k)
    BY <2>2 DEF OpensTheSession, Done
  <2>3. CASE WritesTheFile(k[1], k)
    BY <2>3 DEF WritesTheFile, Done
  <2>4. CASE CannotWrite(k[1], k)
    BY <2>4 DEF CannotWrite, Done, EndsItsRow
  <2>5. QED
    BY <1>4, <2>1, <2>2, <2>3, <2>4 DEF Refreshes
<1>5. CASE TrayStarts \/ TrayRestarts \/ TrayStops
  BY <1>5 DEF TrayStarts, TrayRestarts, TrayStops, Starts, Running
<1>6. CASE SessionsEnd \/ UNCHANGED nodeVars
  BY <1>6 DEF SessionsEnd, nodeVars
<1>7. QED
  BY <1>1, <1>2, <1>3, <1>4, <1>5, <1>6 DEF NodeNext

\* Every step keeps the types.
LEMMA NodeTypesStay ==
  ASSUME NodeTypeOK, HoldsWhilePublishing, [NodeNext]_nodeVars PROVE NodeTypeOK'
BY EventsStayCounted, ServersStay, FilesStay, KeepersStay, OthersStay
   DEF NodeTypeOK, ServersOK, FilesOK, KeepersOK, OthersOK

\* Each record is taken down by the process that wrote it, or outlives a kill.
LEMMA RecordsStayTrue ==
  ASSUME LocalInv, [NodeNext]_nodeVars PROVE RecordedRunsOrDied'
<1> USE LocalNodeAssumption DEF LocalInv, NodeTypeOK, RecordedRunsOrDied, Go, Launch, FileVars,
        TrayVars, Rest
<1>1. ASSUME NEW n \in Server, Works(n) PROVE RecordedRunsOrDied'
  <2>1. CASE Bind(n) \/ RecordsItself(n) \/ LeavesTheLoop(n) \/ DropsTheFile(n)
    BY <2>1 DEF Bind, RecordsItself, LeavesTheLoop, DropsTheFile
  <2>2. CASE KeeperStops(n)
    BY <2>2 DEF KeeperStops
  <2>3. CASE Closes(n) \/ Unlinks(n)
    BY <2>3 DEF Closes, Unlinks, Forgets
  <2>4. CASE LosesThePort(n) \/ Exits(n)
    BY <2>4 DEF LosesThePort, Exits
  <2>5. QED
    BY <1>1, <2>1, <2>2, <2>3, <2>4 DEF Works
<1>2. ASSUME NEW n \in Server, Serve(n) \/ AskToStop(n) PROVE RecordedRunsOrDied'
  BY <1>2 DEF Serve, AskToStop, Running
<1>3. ASSUME NEW n \in Server, Faults(n) PROVE RecordedRunsOrDied'
  BY <1>3 DEF Faults
<1>4. ASSUME NEW n \in Server, Dies(n) PROVE RecordedRunsOrDied'
  BY <1>4 DEF Dies
<1>5. ASSUME NEW k \in Keeper, Refreshes(k) PROVE RecordedRunsOrDied'
  <2>1. UNCHANGED <<record, killed, gen>>
        /\ \/ UNCHANGED server
           \/ server[k[1]] = "recorded" /\ server' = [server EXCEPT ![k[1]] = "serving"]
    BY <1>5 DEF Refreshes, KeepsTheSession, OpensTheSession, WritesTheFile, CannotWrite, Done,
       AtStartup
  <2>2. QED
    BY <2>1
<1>6. CASE TrayStarts \/ TrayRestarts \/ TrayStops
  BY <1>6 DEF TrayStarts, TrayRestarts, TrayStops, Starts, Running
<1>7. CASE SessionsEnd \/ UNCHANGED nodeVars
  BY <1>7 DEF SessionsEnd, nodeVars
<1>8. QED
  BY <1>1, <1>2, <1>3, <1>4, <1>5, <1>6, <1>7 DEF NodeNext

\* Each live session was published, is being published, or was left behind.
LEMMA SessionsStayKnown ==
  ASSUME LocalInv, [NodeNext]_nodeVars PROVE HoldsWhilePublishing' /\ NoSessionWithoutAFile'
<1> DEFINE Known == HoldsWhilePublishing /\ NoSessionWithoutAFile
<1> SUFFICES Known'
  OBVIOUS
<1> USE MineIsAKeeper DEF LocalInv, NodeTypeOK, HoldsWhilePublishing, NoSessionWithoutAFile, Set,
        FileVars, KeeperVars, Rest, Token, NoToken
<1>1. CASE UNCHANGED <<rows, published, KeeperVars, stranded>>
  BY <1>1
<1>2. ASSUME NEW n \in Server, Works(n) PROVE Known'
  <2>1. CASE Bind(n) \/ RecordsItself(n) \/ LeavesTheLoop(n) \/ DropsTheFile(n)
             \/ Closes(n) \/ Unlinks(n)
    BY <1>1, <2>1 DEF Bind, RecordsItself, LeavesTheLoop, DropsTheFile, Closes, Unlinks
  <2>2. CASE KeeperStops(n)
    BY <2>2 DEF KeeperStops
  <2>3. CASE LosesThePort(n) \/ Exits(n)
    <3>1. CASE n = Tray
      BY <1>1, <2>3, <3>1 DEF LosesThePort, Exits
    <3>2. CASE ThreadsDie(n) /\ UNCHANGED <<rows, published>>
      BY <3>2 DEF ThreadsDie
    <3>3. QED
      BY <2>3, <3>1, <3>2 DEF LosesThePort, Exits
  <2>4. QED
    BY <1>2, <2>1, <2>2, <2>3 DEF Works
<1>3. ASSUME NEW n \in Server, Serve(n) \/ AskToStop(n) \/ Faults(n) PROVE Known'
  BY <1>1, <1>3 DEF Serve, AskToStop, Faults
<1>4. ASSUME NEW n \in Server, Dies(n) PROVE Known'
  BY <1>4 DEF Dies, ThreadsDie
<1>5. ASSUME NEW k \in Keeper, Refreshes(k) PROVE Known'
  <2>1. CASE KeepsTheSession(k[1], k)
    BY <2>1 DEF KeepsTheSession, Done
  <2>2. CASE OpensTheSession(k[1], k)
    <3>1. CASE /\ issued < MaxTokens /\ rows' = rows \cup {issued + 1}
               /\ Set(k, "opened", issued + 1) /\ UNCHANGED <<published, stranded>>
      <4>1. issued + 1 \in Token
        BY <3>1, LocalNodeAssumption
      <4>2. QED
        BY <2>2, <3>1, <4>1 DEF OpensTheSession
    <3>2. CASE Done(k[1], k, FALSE) /\ UNCHANGED <<rows, published, stranded>>
      BY <2>2, <3>2 DEF OpensTheSession, Done
    <3>3. QED
      BY <2>2, <3>1, <3>2 DEF OpensTheSession
  <2>3. CASE WritesTheFile(k[1], k)
    BY <2>3 DEF WritesTheFile, Done
  <2>4. CASE CannotWrite(k[1], k)
    <3>1. Done(k[1], k, FALSE) /\ UNCHANGED published
          /\ \/ rows' = rows \ {held[k]} /\ UNCHANGED stranded
             \/ stranded' = stranded \cup {held[k]} /\ UNCHANGED rows
      BY <2>4 DEF CannotWrite, EndsItsRow
    <3>2. held'[k] = NoToken /\ \A j \in Keeper : j # k => held'[j] = held[j]
      BY <3>1 DEF Done
    <3>3. HoldsWhilePublishing'
      BY <3>1 DEF Done
    <3>4. NoSessionWithoutAFile'
      <4>1. ASSUME NEW t \in rows', t \notin published', t \notin stranded'
            PROVE  \E j \in Keeper : held'[j] = t
        <5>1. t \in rows /\ t \notin published /\ t \notin stranded /\ t # held[k]
          BY <3>1, <4>1
        <5>2. PICK j \in Keeper : held[j] = t
          BY <5>1
        <5>3. QED
          BY <3>2, <5>1, <5>2
      <4>2. QED
        BY <4>1
    <3>5. QED
      BY <3>3, <3>4
  <2>5. QED
    BY <1>5, <2>1, <2>2, <2>3, <2>4 DEF Refreshes
<1>6. CASE TrayStarts \/ TrayRestarts \/ TrayStops
  BY <1>1, <1>6 DEF TrayStarts, TrayRestarts, TrayStops
<1>7. CASE SessionsEnd \/ UNCHANGED nodeVars
  BY <1>1, <1>7 DEF SessionsEnd, nodeVars
<1>8. QED
  BY <1>2, <1>3, <1>4, <1>5, <1>6, <1>7 DEF NodeNext

\* The invariant is inductive.
LEMMA LocalInvStays == ASSUME LocalInv, [NodeNext]_nodeVars PROVE LocalInv'
BY NodeTypesStay, RecordsStayTrue, SessionsStayKnown DEF LocalInv

-----------------------------------------------------------------------------
(* The node. *)

\* A step of the node is a step of one part, and leaves the others.
LEMMA PartsStep ==
  ASSUME [NodePartsNext]_allVars
  PROVE  /\ [Next]_vars /\ [DrainNext]_managerVars
         /\ [NodeNext]_nodeVars /\ [PoolNext]_poolVars
BY DEF NodePartsNext, WebhooksStep, DrainStep, LocalStep, PoolStep, allVars, webhookVars

\* Every variable of every part keeps its type, and the parts' invariants hold.
NodeInv == Inv /\ DrainInv /\ LocalInv /\ PoolTypeOK

\* The invariant of the node.
LEMMA NodeInvariant == NodePartsSpec => []NodeInv
<1>1. NodePartsInit => NodeInv
  BY InvInit, DrainInitInv, LocalInitInv, PoolInitInv DEF NodePartsInit, NodeInv, PoolInv
<1>2. NodeInv /\ [NodePartsNext]_allVars => NodeInv'
  <2> SUFFICES ASSUME NodeInv, [NodePartsNext]_allVars PROVE NodeInv'
    OBVIOUS
  <2>1. Inv' /\ DrainInv'
    BY PartsStep, InvStays, DrainInvStays DEF NodeInv
  <2>2. LocalInv' /\ PoolTypeOK'
    BY PartsStep, LocalInvStays, PoolTypesStay DEF NodeInv
  <2>3. QED
    BY <2>1, <2>2 DEF NodeInv
<1>3. QED
  BY <1>1, <1>2, PTL DEF NodePartsSpec

\* The pool's invariant needs its premise.
LEMMA PoolInvariant == ~ SlowLaunch => (NodePartsSpec => []PoolInv)
<1> SUFFICES ASSUME ~ SlowLaunch PROVE NodePartsSpec => []PoolInv
  OBVIOUS
<1>1. NodePartsInit => PoolInv
  BY PoolInitInv DEF NodePartsInit
<1>2. PoolInv /\ [NodePartsNext]_allVars => PoolInv'
  BY PartsStep, PoolInvStays
<1>3. QED
  BY <1>1, <1>2, PTL DEF NodePartsSpec

\* Every variable of the node keeps its type; in particular the live set of the
\* manager is exactly what its threads execute, and a queue's count never
\* drops below zero.
THEOREM NodeTypesCorrect == NodePartsSpec => []NodePartsTypeOK
<1>1. NodeInv => NodePartsTypeOK
  BY InvGives, LocalInvGives DEF NodeInv, Inv, NodePartsTypeOK
<1>2. QED
  BY <1>1, NodeInvariant, PTL

\* However start, shutdown and wait interleave, one drain thread works and a
\* wait that returned saw every effect of its run; and however a cancel, an
\* interruption and the workers of a pool interleave, an interruption leaves no
\* child decoding and an error is told when all have ended - as long as no
\* launch takes longer than the whole wait for the futures.
THEOREM ThreadsAreHeld == ~ SlowLaunch => (NodePartsSpec => []ThreadsHold)
<1> SUFFICES ASSUME ~ SlowLaunch PROVE NodePartsSpec => []ThreadsHold
  OBVIOUS
<1>1. NodeInv /\ PoolInv => ThreadsHold
  BY InvGives, PoolInvGives DEF NodeInv, ThreadsHold
<1>2. QED
  BY <1>1, NodeInvariant, PoolInvariant, PTL

\* The record names a process that runs, or that was killed; and a live session
\* was published, is being published, or was left behind by a locked registry
\* or a dead thread.
THEOREM NodeFilesAreTrue == NodePartsSpec => []NodeFilesHold
<1>1. NodeInv => NodeFilesHold
  BY LocalInvGives DEF NodeInv, NodeFilesHold
<1>2. QED
  BY <1>1, NodeInvariant, PTL
===============================================================================
