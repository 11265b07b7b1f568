----------------------------- MODULE WorkQueue -----------------------------
(***************************************************************************)
(* The durable agent work queue of ReliabilityStore                        *)
(* (src/src/storage/reliability.rs) for one target endpoint, the workflow  *)
(* envelopes that fill it, and the claims the bus worker makes through     *)
(* SqliteTaskLifecycle (src/src/runtime/mod.rs).                           *)
(*                                                                         *)
(* Every action is one SQLite transaction that commits; a transaction that *)
(* fails a guard rolls back and changes nothing.  The execution lease of   *)
(* the endpoint's resource is reduced to what the queue's SQL reads of it. *)
(* The lease contexts, claims and reap proofs the callers hold are never   *)
(* taken back, so each may be presented late: `grants` only grows.         *)
(***************************************************************************)
EXTENDS Integers, FiniteSets

CONSTANTS
    Key,          \* idempotency keys of one sender; a key names a queue row
    Event,        \* external event ids of one transport
    Task,
    None,
    Capacity,     \* the capacity argument of the reservation
    MaxFence,     \* bound on the grants of the resource
    MaxRevision,  \* bound on the revision of a row
    MaxAdmission, \* bound on the revision of an admission
    MaxSequence   \* bound on next_sequence

ASSUME WorkQueueAssumption ==
    /\ Capacity \in Nat /\ MaxFence \in Nat
    /\ MaxRevision \in Nat /\ MaxAdmission \in Nat /\ MaxSequence \in Nat

VARIABLES
    queue,     \* agent_work_queue, one row per key
    next,      \* agent_queue_counters.next_sequence
    lease,     \* the execution_leases row of the resource
    grants,    \* every [task, fence] handed to a caller
    envelope,  \* workflow_envelopes, one row per event
    admission, \* task_admissions
    attempt,   \* deliveries: the attempt number inserted with an envelope
    lastSent   \* history: the fence under which a row last started sending

vars == <<queue, next, lease, grants, envelope, admission, attempt, lastSent>>

RowState == {"queued", "claimed", "running", "paused", "recovery_needed"}

\* owner_token and owner_fence are written together; fence 0 stands for NULL.
Row ==
    [state : RowState, task : Task, sequence : Nat, revision : Nat,
     send_started : BOOLEAN, fence : Nat]

\* What a replay is compared with, as far as the queue depends on it.
Envelope == [key : Key, task : Task]

AdmissionRow == [state : {"enqueued", "ready", "terminal", "recovery_needed"}, revision : Nat]

Grant == [task : Task, fence : Nat]

ASSUME NoneAssumption == None \notin Task \cup Row \cup Envelope \cup AdmissionRow

ASSUME FiniteAssumption == IsFiniteSet(Key)

Init ==
    /\ queue = [k \in Key |-> None]
    /\ next = 1
    /\ lease = [task |-> None, fence |-> 0, state |-> "released", live |-> FALSE]
    /\ grants = {}
    /\ envelope = [e \in Event |-> None]
    /\ admission = [t \in Task |-> None]
    /\ attempt = [e \in Event |-> 0]
    /\ lastSent = [k \in Key |-> 0]

Rows == {k \in Key : queue[k] # None}
InState(S) == {k \in Rows : queue[k].state \in S}
TaskRows(t, S) == {k \in InState(S) : queue[k].task = t}

\* ORDER BY sequence LIMIT 1
Oldest(S) == {k \in S : \A j \in S : queue[k].sequence <= queue[j].sequence}

\* state='active' AND expires_at>now for this task, owner and fence.
LiveLease(t, f) ==
    /\ lease.state = "active" /\ lease.live
    /\ lease.task = t /\ lease.fence = f

\* An UPDATE that bumps the revision of row k.
Update(k, row) ==
    /\ queue[k].revision < MaxRevision
    /\ queue' = [queue EXCEPT ![k] = [row EXCEPT !.revision = @ + 1]]

\* An UPDATE that moves every row of S to a state.
SetState(S, s) ==
    /\ \A k \in S : queue[k].revision < MaxRevision
    /\ queue' = [k \in Key |->
          IF k \in S THEN [queue[k] EXCEPT !.state = s, !.revision = @ + 1] ELSE queue[k]]

AdmissionVars == <<envelope, admission, attempt>>

-----------------------------------------------------------------------------
(* The lease row, as far as the queue's SQL reads it. *)

Acquire(t) ==
    /\ lease.state = "released"
    /\ admission[t] # None
    /\ lease.fence < MaxFence
    /\ lease' = [task |-> t, fence |-> lease.fence + 1, state |-> "active", live |-> TRUE]
    /\ grants' = grants \cup {[task |-> t, fence |-> lease.fence + 1]}
    /\ UNCHANGED <<queue, next, AdmissionVars, lastSent>>

\* expires_at passes without a renewal.
Lapse ==
    /\ lease.state = "active" /\ lease.live
    /\ lease' = [lease EXCEPT !.live = FALSE]
    /\ UNCHANGED <<queue, next, grants, AdmissionVars, lastSent>>

\* The holder releases its lease; release does not look at the expiry.
Release ==
    /\ lease.state = "active"
    /\ lease' = [lease EXCEPT !.state = "released", !.live = FALSE]
    /\ UNCHANGED <<queue, next, grants, AdmissionVars, lastSent>>

-----------------------------------------------------------------------------
(* Admission. *)

\* The rows the capacity check counts.
ActiveRows == InState({"queued", "claimed", "running", "paused"})

\* The capacity check, the counter bump and the INSERT of a queued row.
Reserve(k, t) ==
    /\ queue[k] = None
    /\ Cardinality(ActiveRows) < Capacity
    /\ next < MaxSequence
    /\ next' = next + 1
    /\ queue' = [queue EXCEPT ![k] =
         [state |-> "queued", task |-> t, sequence |-> next, revision |-> 0,
          send_started |-> FALSE, fence |-> 0]]

\* Neither the event nor the sender's key has an envelope yet.  A known one
\* is answered from the stored row and changes nothing.
Unknown(e, k) ==
    /\ envelope[e] = None
    /\ \A d \in Event : envelope[d] # None => envelope[d].key # k

\* The attempt number of a follow-up; the dispatch was attempt 1.
FollowUpAttempt(revision) == revision + 2

\* A dispatch creates the task and its admission.
AdmitDispatch(e, t) ==
    /\ admission[t] = None
    /\ admission' = [admission EXCEPT ![t] = [state |-> "enqueued", revision |-> 0]]
    /\ attempt' = [attempt EXCEPT ![e] = 1]

\* Every other kind needs an open admission at the revision the router read.
AdmitFollowUp(e, t, revision) ==
    /\ admission[t] # None
    /\ admission[t].revision = revision
    /\ admission[t].state \notin {"terminal", "recovery_needed"}
    /\ revision < MaxAdmission
    /\ admission' = [admission EXCEPT ![t].revision = @ + 1]
    /\ attempt' = [attempt EXCEPT ![e] = FollowUpAttempt(revision)]

\* admit_workflow_tx: the envelope, the admission and the delivery.
AdmitFacts(e, k, t) ==
    /\ Unknown(e, k)
    /\ envelope' = [envelope EXCEPT ![e] = [key |-> k, task |-> t]]
    /\ \/ AdmitDispatch(e, t)
       \/ \E revision \in 0..MaxAdmission : AdmitFollowUp(e, t, revision)

\* admit_queued_workflow: the facts and the queue row, or neither.
AdmitQueued(e, k, t) ==
    /\ AdmitFacts(e, k, t)
    /\ Reserve(k, t)
    /\ UNCHANGED <<lease, grants, lastSent>>

\* claim_admission, release_admission and the closing of a task.
AdmissionMoves(t) ==
    /\ admission[t] # None
    /\ admission[t].state \in {"enqueued", "ready"}
    /\ admission[t].revision < MaxAdmission
    /\ \E s \in {"enqueued", "ready", "terminal", "recovery_needed"} \ {admission[t].state} :
          /\ s \in {"terminal", "recovery_needed"} => admission[t].state = "enqueued"
          /\ admission' = [admission EXCEPT ![t] = [state |-> s, revision |-> @.revision + 1]]
    /\ UNCHANGED <<queue, next, lease, grants, envelope, attempt, lastSent>>

-----------------------------------------------------------------------------
(* Claims and sends. *)

Claimed(k, f) == [queue[k] EXCEPT !.state = "claimed", !.fence = f]

\* SqliteTaskLifecycle::claim_queue: the task's oldest queued row, under the
\* live lease of the task, which it renews.
ClaimQueue(t) ==
    /\ LiveLease(t, lease.fence)
    /\ \E k \in Oldest({j \in TaskRows(t, {"queued"}) : ~queue[j].send_started}) :
          Update(k, Claimed(k, lease.fence))
    /\ UNCHANGED <<next, lease, grants, AdmissionVars, lastSent>>

\* Mutant: the oldest row is claimed whoever's task holds the lease.
ClaimNextAnyTask(g) ==
    /\ LiveLease(g.task, g.fence)
    /\ \E k \in Oldest(InState({"queued"})) : Update(k, Claimed(k, g.fence))
    /\ UNCHANGED <<next, lease, grants, AdmissionVars, lastSent>>

\* claim_next: the endpoint's oldest queued row, if it is the lease's task.
ClaimNext(g) ==
    /\ LiveLease(g.task, g.fence)
    /\ \E k \in Oldest(InState({"queued"})) :
          queue[k].task = g.task /\ Update(k, Claimed(k, g.fence))
    /\ UNCHANGED <<next, lease, grants, AdmissionVars, lastSent>>

SendStarted(k) ==
    /\ Update(k, [queue[k] EXCEPT !.state = "running", !.send_started = TRUE])
    /\ lastSent' = [lastSent EXCEPT ![k] = queue[k].fence]

\* SqliteTaskLifecycle::mark_queue_send_started updates by task and grant, and
\* commits only when that is exactly one row.
MarkQueueSendStarted(g) ==
    /\ LiveLease(g.task, g.fence)
    /\ \E k \in Key :
          /\ {k} = {j \in TaskRows(g.task, {"claimed"}) :
                      ~queue[j].send_started /\ queue[j].fence = g.fence}
          /\ SendStarted(k)
    /\ UNCHANGED <<next, lease, grants, AdmissionVars>>

\* mark_send_started names the row and the revision its claim returned.
MarkSendStarted(k, g) ==
    /\ LiveLease(g.task, g.fence)
    /\ k \in TaskRows(g.task, {"claimed"})
    /\ ~queue[k].send_started /\ queue[k].fence = g.fence
    /\ SendStarted(k)
    /\ UNCHANGED <<next, lease, grants, AdmissionVars>>

-----------------------------------------------------------------------------
(* Pause and resume. *)

\* pause_queue: the holder of the claim gives back a row it has not sent.
PauseQueue(k, g) ==
    /\ k \in InState({"queued", "claimed", "running"})
    /\ ~queue[k].send_started
    /\ queue[k].fence = g.fence
    /\ Update(k, [queue[k] EXCEPT !.state = "paused"])
    /\ UNCHANGED <<next, lease, grants, AdmissionVars, lastSent>>

\* Mutant: the proof of the reap is taken without looking at the lease.
ReapedRowPaused(k, g) == "paused"

\* The state pause_task_after_reap gives a claimed or running row.
ReapedRow(k, g) ==
    IF LiveLease(g.task, g.fence) THEN "recovery_needed" ELSE "paused"

\* pause_task_after_reap(g): the oldest open row of the task.
PauseTaskAfterReap(g) ==
    /\ \E k \in Oldest(TaskRows(g.task, {"queued", "claimed", "running"})) :
          IF queue[k].state = "queued"
          THEN ~queue[k].send_started /\ Update(k, [queue[k] EXCEPT !.state = "paused"])
          ELSE /\ queue[k].fence = g.fence
               /\ lease.task = g.task /\ lease.fence = g.fence
               /\ Update(k, [queue[k] EXCEPT !.state = ReapedRow(k, g)])
    /\ UNCHANGED <<next, lease, grants, AdmissionVars, lastSent>>

\* mark_pause_recovery_needed(t): no reap proof; every sent row of the task.
MarkPauseRecoveryNeeded(t) ==
    /\ LET S == {k \in TaskRows(t, {"claimed", "running"}) : queue[k].send_started}
       IN  S # {} /\ SetState(S, "recovery_needed")
    /\ UNCHANGED <<next, lease, grants, AdmissionVars, lastSent>>

\* pause_task_queued(t): every queued row of the task that has no owner.
PauseTaskQueued(t) ==
    /\ LET S == {k \in TaskRows(t, {"queued"}) : ~queue[k].send_started /\ queue[k].fence = 0}
       IN  S # {} /\ SetState(S, "paused")
    /\ UNCHANGED <<next, lease, grants, AdmissionVars, lastSent>>

\* The rows of S go to the end of the queue in their order, unowned and unsent.
Requeue(S) ==
    /\ next + Cardinality(S) <= MaxSequence
    /\ \A k \in S : queue[k].revision < MaxRevision
    /\ next' = next + Cardinality(S)
    /\ queue' = [k \in Key |->
          IF k \in S
          THEN [queue[k] EXCEPT !.state = "queued", !.revision = @ + 1, !.fence = 0,
                  !.send_started = FALSE,
                  !.sequence = next + Cardinality({j \in S : queue[j].sequence < queue[k].sequence})]
          ELSE queue[k]]

\* resume_task: every paused row of the task.
ResumeTask(t) ==
    /\ TaskRows(t, {"paused"}) # {}
    /\ Requeue(TaskRows(t, {"paused"}))
    /\ UNCHANGED <<lease, grants, AdmissionVars, lastSent>>

\* resume_queue: one paused row, by the grant it was claimed under.
ResumeQueue(k, g) ==
    /\ k \in InState({"paused"})
    /\ queue[k].fence \in {0, g.fence}
    /\ Requeue({k})
    /\ UNCHANGED <<lease, grants, AdmissionVars, lastSent>>

-----------------------------------------------------------------------------
(* Startup recovery. *)

\* Mutant: every orphaned row is requeued.
RecoveredSent(row) == [row EXCEPT !.state = "queued", !.fence = 0]

\* An unsent row is queued again without an owner, a sent one needs recovery.
Recovered(row) ==
    IF row.send_started
    THEN [row EXCEPT !.state = "recovery_needed"]
    ELSE [row EXCEPT !.state = "queued", !.fence = 0]

\* recover_queue: a claimed or running row whose lease is not live.
\* recover_orphaned_queues calls it row by row at startup.
RecoverQueue(k) ==
    /\ k \in InState({"claimed", "running"})
    /\ ~LiveLease(queue[k].task, queue[k].fence)
    /\ Update(k, Recovered(queue[k]))
    /\ UNCHANGED <<next, lease, grants, AdmissionVars, lastSent>>

-----------------------------------------------------------------------------
Next ==
    \/ Lapse
    \/ Release
    \/ \E t \in Task :
          \/ Acquire(t)
          \/ AdmissionMoves(t)
          \/ ClaimQueue(t)
          \/ MarkPauseRecoveryNeeded(t)
          \/ PauseTaskQueued(t)
          \/ ResumeTask(t)
    \/ \E e \in Event, k \in Key, t \in Task : AdmitQueued(e, k, t)
    \/ \E g \in grants :
          \/ ClaimNext(g)
          \/ MarkQueueSendStarted(g)
          \/ PauseTaskAfterReap(g)
          \/ \E k \in Key : MarkSendStarted(k, g) \/ PauseQueue(k, g) \/ ResumeQueue(k, g)
    \/ \E k \in Key : RecoverQueue(k)

Spec == Init /\ [][Next]_vars

-----------------------------------------------------------------------------
\* Every table keeps to its schema: states, counters and the lease columns.
TypeOK ==
    /\ queue \in [Key -> Row \cup {None}]
    /\ next \in Nat \ {0}
    /\ lease \in [task : Task \cup {None}, fence : Nat,
                  state : {"active", "released"}, live : BOOLEAN]
    /\ grants \subseteq Grant
    /\ envelope \in [Event -> Envelope \cup {None}]
    /\ admission \in [Task -> AdmissionRow \cup {None}]
    /\ attempt \in [Event -> Nat]
    /\ lastSent \in [Key -> Nat]

\* The bounded queue stays bounded: however rows are claimed, paused, resumed
\* and recovered, the endpoint never has more open rows than the capacity the
\* reservation was made against.
CapacityHeld ==
    Cardinality(InState({"queued", "claimed", "running", "paused"})) <= Capacity

\* UNIQUE(target_endpoint_id, sequence) never refuses a reservation or a
\* resume: all sequences given out are distinct and below the counter.
SequencesDistinct ==
    /\ \A k \in Rows : queue[k].sequence < next
    /\ \A j, k \in Rows : queue[j].sequence = queue[k].sequence => j = k

\* A workflow envelope is stored with its queue row and its delivery or not at
\* all, so a replay of the envelope always finds the row it answers with.
AdmissionAtomic ==
    /\ \A e \in Event : envelope[e] # None =>
          /\ attempt[e] > 0
          /\ queue[envelope[e].key] # None
          /\ queue[envelope[e].key].task = envelope[e].task
    /\ \A k \in Rows : \E e \in Event : envelope[e] # None /\ envelope[e].key = k

\* UNIQUE(task_id, attempt) never refuses a follow-up: the attempt derived from
\* the admission's revision is new, whatever else has moved the admission.
AttemptsDistinct ==
    \A d, e \in Event :
        /\ d # e /\ envelope[d] # None /\ envelope[e] # None
        /\ envelope[d].task = envelope[e].task
        => attempt[d] # attempt[e]

\* A claimed or running row names a lease that was granted to its own task.
RowBoundToGrant ==
    \A k \in InState({"claimed", "running"}) :
        [task |-> queue[k].task, fence |-> queue[k].fence] \in grants

\* The tables of the queue agree: rows, envelopes, attempts and grants.
QueueSound ==
    CapacityHeld /\ SequencesDistinct /\ AdmissionAtomic /\ AttemptsDistinct /\ RowBoundToGrant

\* A row is sent again only under a lease granted after the one it was sent
\* under before: no sequence of pause, resume and claim lets one grant send a
\* row twice.
ResendNeedsNewGrant ==
    [][\A k \in Rows :
          ~queue[k].send_started /\ queue'[k].send_started => queue'[k].fence > lastSent[k]]_vars

\* A row whose send has started goes back to the queue only from a pause;
\* startup recovery leaves it for the operator.
SentRequeuedOnlyByResume ==
    [][\A k \in Rows :
          queue[k].send_started /\ queue'[k].state = "queued" => queue[k].state = "paused"]_vars
=============================================================================
