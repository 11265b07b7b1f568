------------------------------ MODULE BusWorker ------------------------------
(***************************************************************************)
(* The agent bus and its single worker: submission (src/app/admission.rs,  *)
(* src/bus/memory.rs), the worker loop and the task state machine          *)
(* (src/bus/worker.rs), the durable half of a transition (SqliteTask-      *)
(* Lifecycle in src/runtime/mod.rs) and the bounded event sink             *)
(* (src/bus/event.rs).  The cancellation handle is module Cancellation.    *)
(*                                                                         *)
(* Submitters, cancelling callers, the deadline clock, the event consumer  *)
(* and the worker interleave at every await.  A worker step between two    *)
(* awaits is one action; pc names the await it has reached.                *)
(*                                                                         *)
(* The worker drives two kinds of dispatcher.  A legacy one is raced in    *)
(* both stages.  A prepared one (the leased ACP dispatcher) is awaited in  *)
(* deliver and raced in execute, and commits the terminal transition       *)
(* itself before the worker emits it.  Faults lists which of the failures  *)
(* outside the worker may happen:                                          *)
(*    "store"     a lifecycle transition or claim_queue reports an error   *)
(*    "queue"     the queue lease is lost before the send                  *)
(*    "unleased"  a prepared deliver is refused before it owns a lease     *)
(*    "refused"   a deliver or execute stage reports an error              *)
(*    "recovery"  execute_prepared ends as RecoveryNeeded                  *)
(*    "finalize"  cancel_prepared or the finalization is refused           *)
(***************************************************************************)
EXTENDS Cancellation, Integers

CONSTANTS
    Submitted,      \* tasks that are submitted; other ids are only ever cancelled
    Priority,       \* [Task -> Nat]: AgentTask::priority, larger is more urgent
    Prepared,       \* tasks whose dispatcher supports prepared execution
    Rejected,       \* tasks a cycle limit, the registry or a missing dispatcher rejects
    HasDeadline,    \* tasks submitted with a deadline
    Capacity,       \* task channel capacity
    EventCapacity,  \* event buffer capacity
    MaxAttempts,    \* RetryPolicy::max_attempts
    Durable,        \* a TaskLifecycle is installed
    MaxCalls,       \* model bound: cancel and cancel_all calls
    Faults          \* failures outside the worker, see above

ASSUME WorkerAssumption ==
    /\ Submitted \subseteq Task
    /\ Priority \in [Task -> Nat]
    /\ Prepared \subseteq Task /\ (Prepared = {} \/ Durable)
    /\ Rejected \subseteq Task /\ HasDeadline \subseteq Task
    /\ Capacity \in Nat \ {0} /\ EventCapacity \in Nat \ {0} /\ MaxAttempts \in Nat /\ MaxCalls \in Nat
    /\ Durable \in BOOLEAN
    /\ Faults \subseteq {"store", "queue", "unleased", "refused", "recovery", "finalize"}

VARIABLES
    sub,        \* each submission: where its submit call is
    chan,       \* the task channel
    closed,     \* every sender has been dropped
    calls,      \* cancel and cancel_all calls made so far
    expired,    \* tasks whose deadline has passed
    buffered,   \* events in the sink's buffer
    log,        \* events the sink accepted, per task, in arrival order
    store,      \* durable task_events, per task
    version,    \* tasks.version
    admission,  \* task_admissions.state
    heap,       \* the worker's PriorityQueue, in arrival order
    drained,    \* run's local `closed`
    budget,     \* admit_ready's remaining reads
    pc,         \* where the worker is
    cur,        \* the task in process
    seq,        \* process's next sequence number
    attempt,    \* process's attempt number
    verdict,    \* the terminal status about to be written
    qlease,     \* claim_queue returned a lease
    stopped,    \* why the worker fail-stopped
    sent,       \* history: tasks in the order they entered the channel
    popped,     \* history: tasks in the order process took them
    armed,      \* history: tasks that carried a reason when process took them
    abandoned   \* history: tasks left as recovery_needed

busVars == <<sub, chan, closed, calls, expired, buffered, log, store, version, admission>>
workerVars == <<heap, drained, budget, pc, cur, seq, attempt, verdict, qlease, stopped>>
history == <<sent, popped, armed, abandoned>>
vars == <<cancelVars, busVars, workerVars, history>>

Terminal == {"Completed", "Failed", "TimedOut", "Cancelled"}
Status == {"Queued", "Dispatched", "Running"} \cup Terminal
MaxSeq == 2 * (MaxAttempts + 1) + 2
Event == [seq : 1 .. MaxSeq, status : Status, attempt : 0 .. MaxAttempts + 1]

Process == {"gate", "claim", "cp1", "dispatch", "send", "deliver", "closeDelivery", "cp2",
            "run", "execute", "backoff", "cancelPrepared", "finalize", "announce", "terminate"}
Ended == {"done", "failed"}

\* One type invariant for the bus and the worker.
TypeOK ==
    /\ CancelTypeOK
    /\ sub \in [Task -> {"idle", "reserved", "admitted", "sent", "done"}]
    /\ chan \in BoundedSeq(Task, Capacity)
    /\ closed \in BOOLEAN
    /\ calls \in 0 .. MaxCalls
    /\ expired \subseteq HasDeadline
    /\ buffered \in 0 .. EventCapacity
    /\ \A t \in Task : log[t] \in Seq(Event) /\ store[t] \in Seq(Event)
    /\ version \in [Task -> 0 .. MaxSeq]
    /\ admission \in [Task -> {"absent", "enqueued", "dispatching", "running", "terminal"}]
    /\ heap \in BoundedSeq(Task, Capacity)
    /\ drained \in BOOLEAN
    /\ budget \in 0 .. Capacity
    /\ pc \in {"top", "admit", "pop", "recv"} \cup Process \cup Ended
    /\ cur \in Task \cup {None}
    /\ seq \in 2 .. MaxSeq
    /\ attempt \in 1 .. MaxAttempts + 1
    /\ verdict \in Terminal
    /\ qlease \in BOOLEAN
    /\ stopped \in {"no", "stream", "lifecycle", "delivery", "finalize"}
    /\ armed \subseteq Task /\ abandoned \subseteq Task

BusInit ==
    /\ sub = [t \in Task |-> "idle"]
    /\ chan = <<>>
    /\ closed = FALSE
    /\ calls = 0
    /\ expired = {}
    /\ buffered = 0
    /\ log = [t \in Task |-> <<>>]
    /\ store = [t \in Task |-> <<>>]
    /\ version = [t \in Task |-> 0]
    /\ admission = [t \in Task |-> "absent"]
    /\ heap = <<>>
    /\ drained = FALSE
    /\ budget = 0
    /\ pc = "top"
    /\ cur = None
    /\ seq = 2
    /\ attempt = 1
    /\ verdict = "Failed"
    /\ qlease = FALSE
    /\ stopped = "no"
    /\ sent = <<>>
    /\ popped = <<>>
    /\ armed = {}
    /\ abandoned = {}

Init == CancelInit /\ BusInit

-----------------------------------------------------------------------------
\* Submission: PersistingBus::submit_inner, one step per await.

Queued == [seq |-> 1, status |-> "Queued", attempt |-> 0]

ReceiverAlive == pc \notin Ended

Permits == Cardinality({t \in Task : sub[t] \in {"reserved", "admitted"}})

\* A slot is reserved before anything is written; a full or closed channel
\* refuses the submission and leaves no trace.
Reserve(t) ==
    /\ t \in Submitted /\ sub[t] = "idle" /\ ~closed /\ ReceiverAlive
    /\ Len(chan) + Permits < Capacity
    /\ sub' = [sub EXCEPT ![t] = "reserved"]
    /\ UNCHANGED <<chan, closed, calls, expired, buffered, log, store, version, admission>>
    /\ UNCHANGED <<cancelVars, workerVars, history>>

\* admit_task writes the task, its first event and its admission in one
\* transaction.  An error drops the permit instead.
Admit(t) ==
    /\ sub[t] = "reserved"
    /\ \/ /\ sub' = [sub EXCEPT ![t] = "admitted"]
          /\ IF Durable
             THEN /\ store' = [store EXCEPT ![t] = <<Queued>>]
                  /\ admission' = [admission EXCEPT ![t] = "enqueued"]
             ELSE UNCHANGED <<store, admission>>
       \/ /\ "store" \in Faults
          /\ sub' = [sub EXCEPT ![t] = "idle"]
          /\ UNCHANGED <<store, admission>>
    /\ UNCHANGED <<chan, closed, calls, expired, buffered, log, version>>
    /\ UNCHANGED <<cancelVars, workerVars, history>>

\* permit.send: into the channel, or nowhere once the worker has stopped.
Send(t) ==
    /\ sub[t] = "admitted"
    /\ sub' = [sub EXCEPT ![t] = "sent"]
    /\ chan' = IF ReceiverAlive THEN Append(chan, t) ELSE chan
    /\ sent' = IF ReceiverAlive THEN Append(sent, t) ELSE sent
    /\ UNCHANGED <<closed, calls, expired, buffered, log, store, version, admission>>
    /\ UNCHANGED <<cancelVars, workerVars, popped, armed, abandoned>>

\* The Queued event follows the send.  A full buffer loses it: the caller gets
\* an error for a task that is queued.
EmitQueued(t) ==
    /\ sub[t] = "sent"
    /\ sub' = [sub EXCEPT ![t] = "done"]
    /\ IF buffered < EventCapacity
       THEN log' = [log EXCEPT ![t] = Append(@, Queued)] /\ buffered' = buffered + 1
       ELSE UNCHANGED <<log, buffered>>
    /\ UNCHANGED <<chan, closed, calls, expired, store, version, admission>>
    /\ UNCHANGED <<cancelVars, workerVars, history>>

\* The last bus handle is dropped; a permit borrows its sender.
CloseBus ==
    /\ ~closed /\ Permits = 0
    /\ closed' = TRUE
    /\ UNCHANGED <<sub, chan, calls, expired, buffered, log, store, version, admission>>
    /\ UNCHANGED <<cancelVars, workerVars, history>>

Expire(t) ==
    /\ t \in HasDeadline \ expired
    /\ expired' = expired \cup {t}
    /\ UNCHANGED <<sub, chan, closed, calls, buffered, log, store, version, admission>>
    /\ UNCHANGED <<cancelVars, workerVars, history>>

\* The broadcaster takes an event out of the sink's buffer.
Consume ==
    /\ buffered > 0
    /\ buffered' = buffered - 1
    /\ UNCHANGED <<sub, chan, closed, calls, expired, log, store, version, admission>>
    /\ UNCHANGED <<cancelVars, workerVars, history>>

Caller ==
    /\ calls < MaxCalls
    /\ calls' = calls + 1
    /\ \/ \E t \in Task, r \in Reason : Cancel(t, r)
       \/ \E r \in Reason : CancelAll(r)
    /\ UNCHANGED <<sub, chan, closed, expired, buffered, log, store, version, admission>>
    /\ UNCHANGED <<workerVars, history>>

Wake == Bump /\ UNCHANGED <<busVars, workerVars, history>>


-----------------------------------------------------------------------------
\* Writing an event.

queueVars == <<heap, drained, budget>>
taskVars == <<cur, seq, attempt, verdict, qlease>>

\* A fail-stop drops the receiver and the heap with the worker.
FailStop(why) ==
    /\ pc' = "failed"
    /\ stopped' = why
    /\ heap' = <<>>
    /\ chan' = <<>>

Goto(label) == pc' = label /\ UNCHANGED <<stopped, heap, chan>>

\* lifecycle_transition: the admission states a status may leave, and the one
\* it enters.
FromStates(status) ==
    CASE status = "Dispatched" -> {"enqueued"}
      [] status = "Running"    -> {"dispatching"}
      [] status = "Completed"  -> {"running"}
      [] OTHER                 -> {"enqueued", "dispatching", "running"}

ToState(status) ==
    CASE status = "Dispatched" -> "dispatching"
      [] status = "Running"    -> "running"
      [] OTHER                 -> "terminal"

\* transition's two conditional updates; when either matches no row the event
\* is Stale.
Advances(ev) == version[cur] = ev.seq - 2 /\ admission[cur] \in FromStates(ev.status)

Replays(ev) == ev \in Range(store[cur])

Record(ev) ==
    /\ store' = [store EXCEPT ![cur] = Append(@, ev)]
    /\ version' = [version EXCEPT ![cur] = @ + 1]
    /\ admission' = [admission EXCEPT ![cur] = ToState(ev.status)]

\* Mutant: the stream is written before the durable transition is known.
EmitStreamFirst(ev, next) ==
    /\ buffered < EventCapacity
    /\ log' = [log EXCEPT ![cur] = Append(@, ev)]
    /\ buffered' = buffered + 1
    /\ \/ Durable /\ "store" \in Faults /\ FailStop("lifecycle") /\ UNCHANGED <<store, version, admission>>
       \/ (Durable => Replays(ev) \/ Advances(ev)) /\ Goto(next)
          /\ IF Durable /\ ~Replays(ev) THEN Record(ev) ELSE UNCHANGED <<store, version, admission>>

\* Worker::emit: the durable transition first, then the event stream.  Either
\* failure is a fail-stop; the second leaves a durable event nobody streamed.
Emit(ev, next) ==
    \/ /\ Durable
       /\ "store" \in Faults \/ ~(Replays(ev) \/ Advances(ev))
       /\ FailStop("lifecycle")
       /\ UNCHANGED <<buffered, log, store, version, admission>>
    \/ /\ Durable => Replays(ev) \/ Advances(ev)
       /\ IF Durable /\ ~Replays(ev) THEN Record(ev) ELSE UNCHANGED <<store, version, admission>>
       /\ IF buffered < EventCapacity
          THEN /\ log' = [log EXCEPT ![cur] = Append(@, ev)]
               /\ buffered' = buffered + 1
               /\ Goto(next)
          ELSE FailStop("stream") /\ UNCHANGED <<buffered, log>>

-----------------------------------------------------------------------------
\* Worker::run.

Top ==
    /\ pc = "top"
    /\ budget' = Capacity - Len(heap)
    /\ pc' = IF drained THEN "pop" ELSE "admit"
    /\ UNCHANGED <<heap, drained, stopped, taskVars, cancelVars, busVars, history>>

\* Mutant: a closed channel counts as drained although reads were left over.
TryRecvClosedIsDrained ==
    /\ pc = "admit"
    /\ IF budget > 0 /\ chan # <<>>
       THEN /\ heap' = Append(heap, Head(chan))
            /\ chan' = Tail(chan)
            /\ budget' = budget - 1
            /\ UNCHANGED <<drained, pc>>
       ELSE /\ drained' = closed
            /\ pc' = "pop"
            /\ UNCHANGED <<heap, chan, budget>>
    /\ UNCHANGED <<sub, closed, calls, expired, buffered, log, store, version, admission>>
    /\ UNCHANGED <<stopped, taskVars, cancelVars, history>>

\* One try_recv of admit_ready; submitters may refill the channel in between.
TryRecv ==
    /\ pc = "admit"
    /\ IF budget > 0 /\ chan # <<>>
       THEN /\ heap' = Append(heap, Head(chan))
            /\ chan' = Tail(chan)
            /\ budget' = budget - 1
            /\ UNCHANGED <<drained, pc>>
       ELSE /\ drained' = (budget > 0 /\ closed)
            /\ pc' = "pop"
            /\ UNCHANGED <<heap, chan, budget>>
    /\ UNCHANGED <<sub, closed, calls, expired, buffered, log, store, version, admission>>
    /\ UNCHANGED <<stopped, taskVars, cancelVars, history>>

\* Mutant: the latest arrival among equals.
MostUrgentLatest ==
    CHOOSE i \in DOMAIN heap : \A j \in DOMAIN heap :
        \/ Priority[heap[i]] > Priority[heap[j]]
        \/ Priority[heap[i]] = Priority[heap[j]] /\ i >= j

\* QueuedTask's order: the most urgent task, the earliest arrival among equals.
MostUrgent ==
    CHOOSE i \in DOMAIN heap : \A j \in DOMAIN heap :
        \/ Priority[heap[i]] > Priority[heap[j]]
        \/ Priority[heap[i]] = Priority[heap[j]] /\ i <= j

\* PriorityQueue::pop, and process takes ownership of the task's cancellation.
Pop ==
    /\ pc = "pop" /\ heap # <<>>
    /\ LET t == heap[MostUrgent]
       IN  /\ cur' = t
           /\ popped' = Append(popped, t)
           /\ armed' = IF ReasonFor(t) # None THEN armed \cup {t} ELSE armed
           /\ Activate(t)
    /\ heap' = RemoveAt(heap, MostUrgent)
    /\ seq' = 2 /\ attempt' = 1 /\ qlease' = FALSE
    /\ pc' = "gate"
    /\ UNCHANGED <<drained, budget, verdict, stopped, busVars, sent, abandoned>>

PopEmpty ==
    /\ pc = "pop" /\ heap = <<>>
    /\ pc' = IF drained THEN "done" ELSE "recv"
    /\ UNCHANGED <<queueVars, stopped, taskVars, cancelVars, busVars, history>>

\* recv().await: a task, or the end of a closed channel.
Recv ==
    /\ pc = "recv" /\ (chan # <<>> \/ closed)
    /\ IF chan # <<>>
       THEN heap' = <<Head(chan)>> /\ chan' = Tail(chan) /\ pc' = "top"
       ELSE pc' = "done" /\ UNCHANGED <<heap, chan>>
    /\ UNCHANGED <<drained, budget, stopped, taskVars, cancelVars, history>>
    /\ UNCHANGED <<sub, closed, calls, expired, buffered, log, store, version, admission>>

-----------------------------------------------------------------------------
\* Worker::process: the checkpoints.

Frame == UNCHANGED <<drained, budget, sub, closed, calls, expired, sent, popped, armed>>
Silent == UNCHANGED <<buffered, log, store, version, admission>>

CancelledNow == ReasonFor(cur) # None
ExpiredNow == cur \in expired

\* Where a checkpoint sends the task: cancellation outranks the deadline.
Checkpoint(stop, go) ==
    /\ verdict' = IF CancelledNow THEN "Cancelled" ELSE IF ExpiredNow THEN "TimedOut" ELSE verdict
    /\ Goto(IF CancelledNow \/ ExpiredNow THEN stop ELSE go)

\* CP-0: cancel, deadline, then the cycle limits, the target and the dispatcher.
Gate ==
    /\ pc = "gate"
    /\ IF cur \in Rejected /\ ~CancelledNow /\ ~ExpiredNow
       THEN verdict' = "Failed" /\ Goto("terminate")
       ELSE Checkpoint("terminate", "claim")
    /\ Frame /\ Silent /\ UNCHANGED <<cur, seq, attempt, qlease, cancelVars, abandoned>>

\* claim_queue, then one subscription for the whole task.
ClaimQueue ==
    /\ pc = "claim"
    /\ \/ /\ qlease' \in (IF Durable THEN BOOLEAN ELSE {FALSE})
          /\ Subscribe
          /\ Goto("cp1")
          /\ UNCHANGED verdict
       \/ /\ Durable /\ "store" \in Faults
          /\ verdict' = "Failed"
          /\ Goto("terminate")
          /\ UNCHANGED <<qlease, cancelVars>>
    /\ Frame /\ Silent /\ UNCHANGED <<cur, seq, attempt, abandoned>>

CP1 ==
    /\ pc = "cp1"
    /\ Checkpoint("terminate", "dispatch")
    /\ Frame /\ Silent /\ UNCHANGED <<cur, seq, attempt, qlease, cancelVars, abandoned>>

\* The delivery attempt is recorded before it is made.
EmitDispatched ==
    /\ pc = "dispatch"
    /\ Emit([seq |-> seq, status |-> "Dispatched", attempt |-> attempt], "send")
    /\ seq' = seq + 1
    /\ Frame /\ UNCHANGED <<cur, attempt, verdict, qlease, cancelVars, abandoned>>

\* mark_queue_send_started and renew_queue_lease, when there is a queue lease.
StartSend ==
    /\ pc = "send"
    /\ \/ Goto("deliver") /\ UNCHANGED verdict
       \/ qlease /\ "queue" \in Faults /\ verdict' = "Failed" /\ Goto("terminate")
    /\ Frame /\ Silent /\ UNCHANGED <<cur, seq, attempt, qlease, cancelVars, abandoned>>

\* CP-2: a prepared task has a child and a lease by now, so it is cancelled
\* through its dispatcher.
CP2 ==
    /\ pc = "cp2"
    /\ Checkpoint(IF cur \in Prepared THEN "cancelPrepared" ELSE "terminate", "run")
    /\ Frame /\ Silent /\ UNCHANGED <<cur, seq, attempt, qlease, cancelVars, abandoned>>

EmitRunning ==
    /\ pc = "run"
    /\ Emit([seq |-> seq, status |-> "Running", attempt |-> 0], "execute")
    /\ seq' = seq + 1
    /\ Frame /\ UNCHANGED <<cur, attempt, verdict, qlease, cancelVars, abandoned>>

-----------------------------------------------------------------------------
\* The raced stages.  The select is biased: a stage result first, then a
\* cancellation, then the deadline.

Raced == pc \in {"execute", "backoff"} \/ (pc = "deliver" /\ cur \notin Prepared)

Preempted(status) ==
    /\ verdict' = status
    /\ Goto(IF pc = "execute" /\ cur \in Prepared THEN "cancelPrepared" ELSE "terminate")

\* Mutant: a bump meant for another task ends the wait for good.
RaceWakeOnce ==
    /\ Raced /\ rx = "unseen"
    /\ rx' = "none"
    /\ IF CancelledNow THEN Preempted("Cancelled") ELSE Goto(pc) /\ UNCHANGED verdict
    /\ Frame /\ Silent /\ UNCHANGED <<cur, seq, attempt, qlease, abandoned>>
    /\ UNCHANGED <<global, active, owned, pending, retired, bumping>>

\* wait_for_cancellation wakes on any version bump and re-reads the reason.
RaceWake ==
    /\ Raced /\ rx = "unseen"
    /\ rx' = "seen"
    /\ IF CancelledNow THEN Preempted("Cancelled") ELSE Goto(pc) /\ UNCHANGED verdict
    /\ Frame /\ Silent /\ UNCHANGED <<cur, seq, attempt, qlease, abandoned>>
    /\ UNCHANGED <<global, active, owned, pending, retired, bumping>>

\* Mutant: the deadline is only looked at when a bump has woken the race.
RaceDeadlineWoken ==
    /\ Raced /\ ExpiredNow /\ rx = "unseen" /\ ~CancelledNow
    /\ Preempted("TimedOut")
    /\ Frame /\ Silent /\ UNCHANGED <<cur, seq, attempt, qlease, cancelVars, abandoned>>

RaceDeadline ==
    /\ Raced /\ ExpiredNow /\ ~(rx = "unseen" /\ CancelledNow)
    /\ Preempted("TimedOut")
    /\ Frame /\ Silent /\ UNCHANGED <<cur, seq, attempt, qlease, cancelVars, abandoned>>

\* refused: a transient error is retried while attempts remain and the deadline
\* has not passed; otherwise it is the task's failure.
Refused ==
    \/ /\ attempt < MaxAttempts /\ ~ExpiredNow
       /\ Goto("backoff")
       /\ UNCHANGED verdict
    \/ verdict' = "Failed" /\ Goto("terminate")

\* Mutant: the retry keeps the attempt number.
BackoffDoneSameAttempt ==
    /\ pc = "backoff"
    /\ Goto("cp1")
    /\ Frame /\ Silent /\ UNCHANGED <<cur, seq, attempt, verdict, qlease, cancelVars, abandoned>>

BackoffDone ==
    /\ pc = "backoff"
    /\ attempt' = attempt + 1
    /\ Goto("cp1")
    /\ Frame /\ Silent /\ UNCHANGED <<cur, seq, verdict, qlease, cancelVars, abandoned>>

LegacyDeliver ==
    /\ pc = "deliver" /\ cur \notin Prepared
    /\ \/ Goto("cp2") /\ UNCHANGED verdict
       \/ "refused" \in Faults /\ Refused
    /\ Frame /\ Silent /\ UNCHANGED <<cur, seq, attempt, qlease, cancelVars, abandoned>>

LegacyExecute ==
    /\ pc = "execute" /\ cur \notin Prepared
    /\ \/ verdict' \in {"Completed", "Failed"} /\ Goto("terminate")
       \/ "refused" \in Faults /\ Refused
    /\ Frame /\ Silent /\ UNCHANGED <<cur, seq, attempt, qlease, cancelVars, abandoned>>

\* A prepared deliver is awaited to its end.  An error after the lease was
\* acquired leaves a pending entry to close; one before it (a busy resource, one
\* that needs recovery, an overlapping workspace) leaves none, and the
\* finalization of the failure is refused at once.
PreparedDeliver ==
    /\ pc = "deliver" /\ cur \in Prepared
    /\ \/ Goto("cp2") /\ UNCHANGED verdict
       \/ /\ "refused" \in Faults
          /\ verdict' = CASE CancelledNow -> "Cancelled"
                          [] ~CancelledNow /\ ExpiredNow -> "TimedOut"
                          [] OTHER -> "Failed"
          /\ Goto("closeDelivery")
       \/ "unleased" \in Faults /\ FailStop("delivery") /\ UNCHANGED verdict
    /\ Frame /\ Silent /\ UNCHANGED <<cur, seq, attempt, qlease, cancelVars, abandoned>>

\* RecoveryNeeded leaves the task without a terminal event and the loop goes on.
PreparedExecute ==
    /\ pc = "execute" /\ cur \in Prepared
    /\ \/ verdict' \in {"Completed", "Failed"} /\ Goto("finalize") /\ UNCHANGED <<cur, rx, abandoned>>
       \/ /\ "refused" \in Faults
          /\ verdict' = "Failed" /\ Goto("terminate") /\ UNCHANGED <<cur, rx, abandoned>>
       \/ /\ "recovery" \in Faults
          /\ abandoned' = abandoned \cup {cur}
          /\ cur' = None
          /\ rx' = "none"
          /\ Goto("top")
          /\ UNCHANGED verdict
    /\ Frame /\ Silent /\ UNCHANGED <<seq, attempt, qlease>>
    /\ UNCHANGED <<global, active, owned, pending, retired, bumping>>

-----------------------------------------------------------------------------
\* Terminal transitions.

TerminalEvent == [seq |-> seq, status |-> verdict, attempt |-> 0]

\* terminate: the record is retired even when the write failed.
Terminate ==
    /\ pc = "terminate"
    /\ Emit(TerminalEvent, "top")
    /\ Retire(cur)
    /\ cur' = None
    /\ Frame /\ UNCHANGED <<seq, attempt, verdict, qlease, abandoned>>

\* finalize_delivery_failure commits the terminal event with the lease's
\* closure; the worker then emits it (a replay) and retires the task.
CloseDelivery ==
    /\ pc = "closeDelivery"
    /\ \/ Advances(TerminalEvent) /\ Record(TerminalEvent) /\ Goto("terminate")
       \/ /\ "finalize" \in Faults \/ ~Advances(TerminalEvent)
          /\ FailStop("delivery")
          /\ UNCHANGED <<store, version, admission>>
    /\ Frame /\ UNCHANGED <<buffered, log, taskVars, cancelVars, abandoned>>

CancelPrepared ==
    /\ pc = "cancelPrepared"
    /\ \/ Goto("finalize")
       \/ "finalize" \in Faults /\ FailStop("finalize")
    /\ Frame /\ Silent /\ UNCHANGED <<taskVars, cancelVars, abandoned>>

\* finalize_capability, up to the dispatcher's answer.
Finalize ==
    /\ pc = "finalize"
    /\ \/ Advances(TerminalEvent) /\ Record(TerminalEvent) /\ Goto("announce")
       \/ /\ "finalize" \in Faults \/ ~Advances(TerminalEvent)
          /\ FailStop("finalize")
          /\ UNCHANGED <<store, version, admission>>
    /\ Frame /\ UNCHANGED <<buffered, log, taskVars, cancelVars, abandoned>>

\* The committed event reaches the stream, and only then the task is retired.
Announce ==
    /\ pc = "announce"
    /\ Emit(TerminalEvent, "top")
    /\ IF pc' = "top" THEN Retire(cur) /\ cur' = None ELSE UNCHANGED <<cancelVars, cur>>
    /\ Frame /\ UNCHANGED <<seq, attempt, verdict, qlease, abandoned>>

-----------------------------------------------------------------------------
\* Steps the worker takes by itself, and stage results it has to wait for.

WorkerStep ==
    \/ Top \/ TryRecv \/ Pop \/ PopEmpty \/ Recv
    \/ Gate \/ ClaimQueue \/ CP1 \/ EmitDispatched \/ StartSend \/ CP2 \/ EmitRunning
    \/ PreparedDeliver \/ RaceWake \/ RaceDeadline \/ BackoffDone
    \/ CloseDelivery \/ CancelPrepared \/ Finalize \/ Announce \/ Terminate

StageResult == LegacyDeliver \/ LegacyExecute \/ PreparedExecute

Environment ==
    \/ \E t \in Task : Reserve(t) \/ Admit(t) \/ Send(t) \/ EmitQueued(t) \/ Expire(t)
    \/ CloseBus \/ Consume \/ Caller \/ Wake

\* A worker that has returned takes no further step.
Terminated == pc \in Ended /\ UNCHANGED vars

Next == WorkerStep \/ StageResult \/ Environment \/ Terminated

Spec == Init /\ [][Next]_vars

-----------------------------------------------------------------------------
\* Properties.

\* The worker's own events of a task, in arrival order.
WorkerEvents(t) == SelectSeq(log[t], LAMBDA e : e.status # "Queued")

\* The seq grammar of src/bus/worker.rs, over retries, races and checkpoints:
\* contiguous from 2, Running only directly after its Dispatched, attempts that
\* count up from 1, and nothing after a terminal event.
SeqGrammar ==
    \A t \in Task :
        LET w == WorkerEvents(t)
            dispatches == SelectSeq(w, LAMBDA e : e.status = "Dispatched")
        IN  /\ \A i \in DOMAIN w :
                  /\ w[i].seq = i + 1
                  /\ w[i].status \in Terminal => i = Len(w)
                  /\ w[i].status = "Running" => i > 1 /\ w[i - 1].status = "Dispatched"
            /\ \A k \in DOMAIN dispatches : dispatches[k].attempt = k
            /\ Len(dispatches) <= (IF MaxAttempts = 0 THEN 1 ELSE MaxAttempts)

\* Everything the worker streams is durable first, and while it runs the stream
\* is behind the store by at most the event being announced.
StreamFollowsStore ==
    Durable =>
    \A t \in Task :
        /\ Range(log[t]) \subseteq Range(store[t])
        /\ stopped = "no" /\ ~(t = cur /\ pc \in {"announce", "terminate"})
              => Range(store[t]) \subseteq Range(log[t]) \cup {Queued}

\* The durable row, its version and its admission advance together: the version
\* counts the events after Queued, and a terminal admission has its event.
StoreCoherent ==
    \A t \in Task : store[t] # <<>> =>
        /\ version[t] = Len(store[t]) - 1
        /\ \A i \in DOMAIN store[t] : store[t][i].seq = i
        /\ admission[t] = "terminal" <=> Last(store[t]).status \in Terminal

\* Drain-then-terminate: when run returns Ok, every task that entered the
\* channel has its terminal event or was left for recovery; none is dropped.
DrainedOnExit ==
    pc = "done" =>
        \A t \in Range(sent) :
            t \in abandoned \/ \E e \in Range(log[t]) : e.status \in Terminal

\* Among tasks of one priority, the worker takes them in the order in which they
\* entered the channel, however admission steps split them between the channel
\* and the heap.
FifoWithinPriority ==
    \A p \in Range(Priority) :
        LET OfPriority(t) == Priority[t] = p
        IN  IsPrefix(SelectSeq(popped, OfPriority), SelectSeq(sent, OfPriority))

\* A task that carried a cancellation when the worker took it over, whether it
\* was recorded for the task or for all, is never handed to a dispatcher.
ArmedNeverDispatched ==
    \A t \in armed : \A e \in Range(log[t]) \cup Range(store[t]) :
        e.status \notin {"Dispatched", "Running", "Completed"}

\* A cancellation or an expired deadline always ends the task in process, even
\* when its stage never answers: no wake-up is lost between the record, the bump,
\* the subscription and the races.
SignalEndsTask ==
    \A t \in Submitted :
        (cur = t /\ pc \in Process /\ (ReasonFor(t) # None \/ t \in expired))
            ~> (cur # t \/ pc = "failed")

\* "Only event-write failures live here" (WorkerError): a delivery that was not
\* accepted is a Failed event and leaves the worker running.
OnlyEventWritesStopWorker == stopped \in {"no", "stream", "lifecycle"}
=============================================================================
