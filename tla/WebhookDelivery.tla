--------------------------- MODULE WebhookDelivery ---------------------------
(***************************************************************************)
(* The webhook emitter of one process (service/webhooks.py,                *)
(* WebhookEmitter): the threads that call emit, flush and close, the       *)
(* worker that posts one job after another with bounded retries, and the   *)
(* receivers, whose answers may be lost after they acted on the event.     *)
(*                                                                         *)
(* The emitter's lock (_condition) guards the count of pending jobs and    *)
(* the closing flag; the queue and the idle flag are thread-safe objects   *)
(* of their own, which the worker and flush use without that lock.         *)
(* Payloads, signatures and the back-off's delays are left out.            *)
(***************************************************************************)
EXTENDS Naturals, Sequences, FiniteSets

CONSTANTS
    Event,          \* the events the process emits, each once
    Endpoint,       \* the configured receivers
    Unsigned,       \* endpoints that name a secret the environment lacks
    MaxAttempts,    \* max_attempts
    None,           \* nobody, nothing
    Stop            \* the sentinel close puts on the queue

ASSUME WebhookAssumption ==
    /\ Unsigned \subseteq Endpoint
    /\ MaxAttempts \in Nat \ {0}

Jobs     == [event : Event, endpoint : Endpoint]
Outcomes == [job : Jobs, status : {"delivered", "failed"}, attempts : 0 .. MaxAttempts]
Emits    == [event : Event, left : SUBSET Endpoint]

ASSUME StopAssumption ==
    /\ None \notin Jobs \union Event \union Emits
    /\ Stop \notin Jobs

VARIABLES
    queue,          \* _queue: jobs, and the sentinel
    pending,        \* _pending
    idle,           \* _idle
    closed,         \* _closed
    thread,         \* _thread: "none", "running", "ended", or "unstarted"
                    \* when the system had no thread to give
    step,           \* the worker: "get", "post", "record" or "count"
    hand,           \* the job the worker holds
    attempt,        \* which attempt of it comes next
    outcome,        \* the delivery about to be recorded
    emitting,       \* the emit that holds the lock: its event and what is left
    emitted,        \* events whose emit was called
    flushing,       \* None, or what was accepted when flush was called
    log,            \* the deliveries recorded, oldest first
    accepted,       \* history: the jobs in the order they were queued
    sent,           \* history: sent[j], how many posts of job j went out
    received        \* history: jobs a receiver acted on

emitter == <<queue, pending, idle, closed, thread>>
worker  == <<step, hand, attempt, outcome>>
callers == <<emitting, emitted, flushing>>
history == <<accepted, sent, received>>
vars    == <<emitter, worker, callers, log, history>>

LockFree == emitting = None

Init ==
    /\ queue = <<>> /\ pending = 0 /\ idle = TRUE /\ closed = FALSE
    /\ thread = "none"
    /\ step = "get" /\ hand = None /\ attempt = 1 /\ outcome = None
    /\ emitting = None /\ emitted = {} /\ flushing = None
    /\ log = <<>>
    /\ accepted = <<>> /\ sent = [j \in Jobs |-> 0] /\ received = {}

-----------------------------------------------------------------------------
(* The callers. *)

\* emit takes the lock, and starts the worker with the first job there is.  A
\* thread that cannot be started raises, and emit answers None -- but the
\* emitter holds the thread by then and never tries another.
Emit_Closed(e, matching) ==
    /\ LockFree
    /\ e \notin emitted
    /\ emitted' = emitted \union {e}
    /\ IF thread = "none"
       THEN \/ thread' = "running" /\ emitting' = [event |-> e, left |-> matching]
            \/ thread' = "unstarted" /\ UNCHANGED emitting
       ELSE UNCHANGED thread /\ emitting' = [event |-> e, left |-> matching]
    /\ UNCHANGED <<queue, pending, idle, closed, worker, flushing, log, history>>
Emit(e, matching) == ~ closed /\ Emit_Closed(e, matching)

\* One put per matching endpoint, and one count.
PutJob(p) ==
    /\ ~ LockFree
    /\ p \in emitting.left
    /\ LET job == [event |-> emitting.event, endpoint |-> p]
       IN  queue' = Append(queue, job) /\ accepted' = Append(accepted, job)
    /\ pending' = pending + 1
    /\ emitting' = [emitting EXCEPT !.left = @ \ {p}]
    /\ UNCHANGED <<idle, closed, thread, worker, emitted, flushing, log, sent,
                   received>>

\* idle is cleared once everything is queued, and the lock is released.
EmitReturns_StaysIdle ==
    /\ ~ LockFree
    /\ emitting.left = {}
    /\ emitting' = None
    /\ UNCHANGED <<emitter, worker, emitted, flushing, log, history>>
EmitReturns ==
    /\ ~ LockFree
    /\ emitting.left = {}
    /\ idle' = FALSE
    /\ emitting' = None
    /\ UNCHANGED <<queue, pending, closed, thread, worker, emitted, flushing, log,
                   history>>

\* flush waits for idle.  What is half-way through an emit is not its concern.
Flush ==
    /\ flushing = None
    /\ flushing' = {accepted[i] : i \in {n \in DOMAIN accepted :
                      LockFree \/ accepted[n].event # emitting.event}}
    /\ UNCHANGED <<emitter, worker, emitting, emitted, log, history>>

FlushReturns ==
    /\ flushing # None
    /\ idle
    /\ flushing' = None
    /\ UNCHANGED <<emitter, worker, emitting, emitted, log, history>>

\* close queues the sentinel behind everything accepted; joining the worker is
\* no step of its own.
Close ==
    /\ LockFree
    /\ ~ closed
    /\ closed' = TRUE
    /\ queue' = Append(queue, Stop)
    /\ UNCHANGED <<pending, idle, thread, worker, callers, log, history>>

-----------------------------------------------------------------------------
(* The worker. *)

Get ==
    /\ thread = "running" /\ step = "get" /\ queue # <<>>
    /\ queue' = Tail(queue)
    /\ IF Head(queue) = Stop
       THEN thread' = "ended" /\ UNCHANGED worker
       ELSE /\ step' = "post" /\ hand' = Head(queue) /\ attempt' = 1
            /\ UNCHANGED <<thread, outcome>>
    /\ UNCHANGED <<pending, idle, closed, callers, log, history>>

Settles(status, attempts) ==
    /\ step' = "record"
    /\ outcome' = [job |-> hand, status |-> status, attempts |-> attempts]

\* No secret where one is named: nothing is sent.
RefuseUnsigned ==
    /\ step = "post"
    /\ hand.endpoint \in Unsigned
    /\ Settles("failed", 0)
    /\ UNCHANGED <<emitter, hand, attempt, callers, log, history>>

\* One post.  The receiver may act on the event while its answer is lost or is
\* an error of the connection; then it is as good as refused and tried again.
Sends ==
    /\ step = "post"
    /\ sent' = [sent EXCEPT ![hand] = @ + 1]
    /\ UNCHANGED <<emitter, hand, callers, log, accepted>>

PostAnswered_AnyStatus ==
    /\ Sends
    /\ hand.endpoint \notin Unsigned
    /\ received' \in {received, received \union {hand}}
    /\ Settles("delivered", attempt)
    /\ UNCHANGED attempt
PostAnswered ==
    /\ Sends
    /\ hand.endpoint \notin Unsigned
    /\ received' = received \union {hand}
    /\ Settles("delivered", attempt)
    /\ UNCHANGED attempt

PostFails_OnceMore ==
    /\ Sends
    /\ hand.endpoint \notin Unsigned
    /\ received' \in {received, received \union {hand}}
    /\ IF attempt <= MaxAttempts
       THEN attempt' = attempt + 1 /\ UNCHANGED <<step, outcome>>
       ELSE Settles("failed", attempt) /\ UNCHANGED attempt
PostFails ==
    /\ Sends
    /\ hand.endpoint \notin Unsigned
    /\ received' \in {received, received \union {hand}}
    /\ IF attempt < MaxAttempts
       THEN attempt' = attempt + 1 /\ UNCHANGED <<step, outcome>>
       ELSE Settles("failed", attempt) /\ UNCHANGED attempt

\* Anything else that raises -- a payload that does not serialise, an error answer
\* that cannot be closed -- is recorded as a failure without attempts, and the
\* worker goes on.
DeliverRaises_EndsWorker ==
    /\ step = "post"
    /\ thread' = "ended"
    /\ UNCHANGED <<queue, pending, idle, closed, worker, callers, log, history>>
DeliverRaises ==
    /\ step = "post"
    /\ \/ UNCHANGED sent
       \/ hand.endpoint \notin Unsigned /\ sent' = [sent EXCEPT ![hand] = @ + 1]
    /\ Settles("failed", 0)
    /\ UNCHANGED <<emitter, hand, attempt, callers, log, accepted, received>>

Record ==
    /\ step = "record"
    /\ LockFree
    /\ log' = Append(log, outcome)
    /\ step' = "count" /\ outcome' = None
    /\ UNCHANGED <<emitter, hand, attempt, callers, history>>

\* The job is done: counted down, and idle is raised with the last one.
CountDown ==
    /\ step = "count"
    /\ LockFree
    /\ pending' = pending - 1
    /\ idle' = (idle \/ pending' = 0)
    /\ step' = "get" /\ hand' = None
    /\ UNCHANGED <<queue, closed, thread, attempt, outcome, callers, log, history>>

Work ==
    \/ Get
    \/ RefuseUnsigned
    \/ PostAnswered
    \/ PostFails
    \/ DeliverRaises
    \/ Record
    \/ CountDown

Next ==
    \/ \E e \in Event, matching \in SUBSET Endpoint \ {{}} : Emit(e, matching)
    \/ \E p \in Endpoint : PutJob(p)
    \/ EmitReturns
    \/ Flush
    \/ FlushReturns
    \/ Close
    \/ Work

\* A thread inside emit goes on; so does the worker, whose posts end by their
\* timeout; and a waiting flush is woken by idle.
Fairness ==
    /\ WF_vars((\E p \in Endpoint : PutJob(p)) \/ EmitReturns)
    /\ WF_vars(Work)
    /\ WF_vars(FlushReturns)

Spec == Init /\ [][Next]_vars
LiveSpec == Spec /\ Fairness

-----------------------------------------------------------------------------
(* Properties. *)

\* Every variable keeps its type.
TypeOK ==
    /\ queue \in Seq(Jobs \union {Stop})
    /\ pending \in Nat
    /\ idle \in BOOLEAN /\ closed \in BOOLEAN
    /\ thread \in {"none", "running", "ended", "unstarted"}
    /\ step \in {"get", "post", "record", "count"}
    /\ hand \in Jobs \union {None}
    /\ attempt \in 1 .. MaxAttempts
    /\ outcome \in Outcomes \union {None}
    /\ emitting \in Emits \union {None}
    /\ emitted \subseteq Event
    /\ flushing \in (SUBSET Jobs) \union {None}
    /\ log \in Seq(Outcomes)
    /\ accepted \in Seq(Jobs)
    /\ sent \in [Jobs -> Nat]
    /\ received \subseteq Jobs

Settled == {log[i].job : i \in DOMAIN log}

\* Whether the worker holds a job it has not recorded, and how many jobs wait in
\* the queue: the sentinel, once it is there, is the last entry.
Held    == IF step \in {"post", "record"} THEN 1 ELSE 0
Waiting == IF closed /\ thread # "ended" THEN Len(queue) - 1 ELSE Len(queue)

\* The jobs recorded, in hand and queued are the accepted ones, each once and in
\* the order of their emits; a worker that ended left none of them behind
\* (emit, close, _work).
NothingLostOrReordered ==
    /\ Len(accepted) = Len(log) + Held + Waiting
    /\ \A i \in 1 .. Len(log) : log[i].job = accepted[i]
    /\ Held = 1 => hand = accepted[Len(log) + 1]
    /\ \A i \in 1 .. Waiting : queue[i] = accepted[Len(log) + Held + i]
    /\ thread = "ended" => Len(log) = Len(accepted)

\* flush answers only when everything accepted before it was called has been
\* recorded (flush, "every queued delivery has finished").
FlushTellsTheTruth ==
    [][FlushReturns => flushing \subseteq Settled]_vars

\* What the history says of a delivery is so: delivered was answered by the
\* receiver, failed took every attempt or none, no job is posted more often than
\* max_attempts, and an endpoint that lacks its secret is never posted to
\* (_deliver, "refusing to send unsigned").
OutcomeIsTrue ==
    /\ \A i \in DOMAIN log :
         /\ log[i].status = "delivered" => log[i].job \in received
         /\ log[i].attempts > 0 => sent[log[i].job] = log[i].attempts
    /\ \A j \in Jobs : sent[j] <= IF j.endpoint \in Unsigned THEN 0 ELSE MaxAttempts

\* Every flush is answered once the emits stop, unless the worker's thread could
\* never be started.
FlushAnswers == [](thread # "unstarted") => (flushing # None ~> flushing = None)
=============================================================================
