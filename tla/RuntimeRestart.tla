--------------------------- MODULE RuntimeRestart ---------------------------
(***************************************************************************)
(* The life of bridge processes over one database: taking the maintenance  *)
(* lock, owning a runtime_instances row, classifying the admissions that   *)
(* earlier processes left, re-enqueueing the eligible ones, serving,       *)
(* stopping or crashing (src/src/app/runtime.rs, storage/reliability.rs,   *)
(* storage/owner_lifecycle.rs, offline_recovery.rs, app/retry.rs,          *)
(* gateway.rs, app/gateway_handoff.rs).                                    *)
(*                                                                         *)
(* A process is named by the instance token it generates.  The database    *)
(* (inst, adm, open) survives a crash; the memory of the process that      *)
(* holds the lock (eligible, flight, chan, at, worker) does not.  An       *)
(* admission is several transactions and channel operations: flight says   *)
(* how far the one of a task has come, so that a crash, a caller that goes *)
(* away or a failing write may fall between any two of them.  An admission *)
(* that such a fault ends with its row enqueued is "lost" to the process.  *)
(***************************************************************************)
EXTENDS Integers, Sequences, FiniteSets

CONSTANTS
    Token,          \* instance tokens; a start uses a fresh one, so they bound the starts
    Task,           \* tasks that may be admitted
    Kind,           \* how a task arrives: "ordinary", "retry" or "gateway"
    None,
    QueueCapacity,  \* config.bridge.queue_capacity
    Crashes         \* bound on the crashes of a behaviour

ASSUME KindAssumption == Kind \in [Task -> {"ordinary", "retry", "gateway"}]
ASSUME CapacityAssumption == QueueCapacity \in Nat \ {0} /\ Crashes \in Nat
ASSUME NoneAssumption == None \notin Token \cup Task

VARIABLES
    lock,      \* the process that holds the flock on the database, or None
    phase,     \* how far each process has come
    inst,      \* runtime_instances.state
    adm,       \* task_admissions
    open,      \* the lease, continuation and delivery rows of a task, taken together
    eligible,  \* AdmissionRecovery.eligible still to be handed over
    flight,    \* the admission in progress of each task
    chan,      \* the task channel
    at,        \* tasks the worker has taken out of the channel
    worker,    \* the worker of the process that holds the lock
    by,        \* the process whose worker dispatched the task
    failedOn,  \* the tasks at which a startup gave up in its recovery loop
    crashes

memory == <<eligible, flight, chan, at, worker>>
vars == <<lock, phase, inst, adm, open, memory, by, failedOn, crashes>>

\* Processes between begin_runtime_with_evidence and the end of shutdown.
Owned == {"classify", "assemble", "serve", "held", "stopping", "draining"}
Unstopped == {k \in Token : inst[k] \in {"active", "stopping"}}
NoFlight == [step |-> "none", rev |-> 0]

\* No admission of the task is in progress.
Over(t) == flight[t].step \in {"none", "lost"}

\* The admission of the task ends although its row stays enqueued.
Lose(t) == flight' = [flight EXCEPT ![t].step = "lost"]

Init ==
    /\ lock = None
    /\ phase = [k \in Token |-> "new"]
    /\ inst = [k \in Token |-> "absent"]
    /\ adm = [t \in Task |-> [state |-> "absent", rev |-> 0, owner |-> None]]
    /\ open = [t \in Task |-> "closed"]
    /\ eligible = {} /\ chan = <<>> /\ at = {} /\ worker = "none"
    /\ flight = [t \in Task |-> NoFlight]
    /\ by = [t \in Task |-> None]
    /\ failedOn = {}
    /\ crashes = 0

-----------------------------------------------------------------------------
(* Startup: AppRuntime::start_config_inner and AppRuntime::build.          *)

\* The memory of the process is gone and its lock is released.
Gone(k) ==
    /\ phase' = [phase EXCEPT ![k] = "dead"]
    /\ lock' = IF lock = k THEN None ELSE lock
    /\ eligible' = {} /\ chan' = <<>> /\ at' = {} /\ worker' = "none"
    /\ flight' = [t \in Task |-> NoFlight]

\* acquire_runtime_lock: flock(LOCK_EX | LOCK_NB), refused while another holds it.
Start(k) ==
    /\ phase[k] = "new"
    /\ lock = None
    /\ lock' = k
    /\ phase' = [phase EXCEPT ![k] = "begin"]
    /\ UNCHANGED <<inst, adm, open, memory, by, failedOn, crashes>>

\* The partial unique index on runtime_instances admits one active row.
CanBegin(rows) == \A j \in Token : rows[j] # "active"

\* begin_runtime_with_evidence; a clock it does not accept also returns false.
Begin(k) ==
    /\ phase[k] = "begin"
    /\ \/ /\ CanBegin(inst)
          /\ inst' = [inst EXCEPT ![k] = "active"]
          /\ phase' = [phase EXCEPT ![k] = "classify"]
       \/ /\ phase' = [phase EXCEPT ![k] = "stale"]
          /\ UNCHANGED inst
    /\ UNCHANGED <<lock, adm, open, memory, by, failedOn, crashes>>

\* No admission, lease, continuation or queue row that recovery would have to keep.
NoWork ==
    \A t \in Task : adm[t].state \in {"absent", "terminal"} /\ open[t] = "closed"

\* owner_fingerprint_liveness.  A pid missing from /proc is the only proof of
\* staleness; the pid of a dead process may be in use again, or unreadable.
Liveness(j) ==
    IF phase[j] = "dead" THEN {"Live", "Stale", "Unknown"} ELSE {"Live", "Unknown"}

\* recover_proven_stale_in_transaction, for the rows of the startup loop.  `past`
\* says that the row's heartbeat lies before the startup time.
StaleRecovered(verdict, past) ==
    {j \in DOMAIN verdict :
        /\ verdict[j] = "Stale"
        /\ Cardinality(DOMAIN verdict) = 1
        /\ past
        /\ NoWork}

\* The block under `if !owns_runtime`.  A process that does not own its row is
\* refused by the classification that follows, and leaves.
RecoverStale(k) ==
    /\ phase[k] = "stale"
    /\ \E verdict \in [Unstopped -> {"Live", "Stale", "Unknown"}], past \in BOOLEAN :
         LET stopped == StaleRecovered(verdict, past)
             rows == [j \in Token |-> IF j \in stopped THEN "stopped" ELSE inst[j]]
             begins == /\ stopped # {}
                       /\ stopped = Unstopped
                       /\ CanBegin(rows)
         IN /\ \A j \in Unstopped : verdict[j] \in Liveness(j)
            /\ inst' = IF begins THEN [rows EXCEPT ![k] = "active"] ELSE rows
            /\ IF begins
               THEN /\ phase' = [phase EXCEPT ![k] = "classify"]
                    /\ UNCHANGED <<lock, memory>>
               ELSE Gone(k)
    /\ UNCHANGED <<adm, open, by, failedOn, crashes>>

\* The two sides of classify_admissions: what may be handed to the new worker ...
Eligible ==
    {t \in Task : \/ adm[t].state = "ready"
                  \/ /\ adm[t].state = "enqueued"
                     /\ adm[t].owner # None
                     /\ inst[adm[t].owner] = "stopped"}

\* ... and the admissions that block the start.
AdmissionBlocked ==
    \/ \E t \in Task \ Eligible : adm[t].state \notin {"absent", "terminal"}
    \/ Cardinality(Eligible) > QueueCapacity

\* Mutant: it looks at the admissions only.
BlockedByAdmissions == AdmissionBlocked

\* RecoveryDiagnostic::classify over from_runtime_facts, for a process that owns
\* its row: deliveries, continuations and leases that are not closed block too.
RecoveryBlocked ==
    AdmissionBlocked \/ \E t \in Task : open[t] # "closed"

\* Startup failed: stop_runtime for the row it owns.
StartupError(k) ==
    /\ Gone(k)
    /\ inst' = [inst EXCEPT ![k] = "stopped"]

\* Classification.  A Matrix identity that cannot be restored leaves a runtime
\* without a worker ("held"): it has a heartbeat and health, nothing else.
Classify(k) ==
    /\ phase[k] = "classify"
    /\ \/ /\ RecoveryBlocked
          /\ StartupError(k)
       \/ /\ ~RecoveryBlocked
          /\ phase' = [phase EXCEPT ![k] = "assemble"]
          /\ eligible' = {[task |-> t, rev |-> adm[t].rev] : t \in Eligible}
          /\ UNCHANGED <<lock, inst, flight, chan, at, worker>>
       \/ /\ ~RecoveryBlocked
          /\ phase' = [phase EXCEPT ![k] = "held"]
          /\ UNCHANGED <<lock, inst, memory>>
    /\ UNCHANGED <<adm, open, by, failedOn, crashes>>

-----------------------------------------------------------------------------
(* The compare-and-swap updates of task_admissions.                        *)

InState(t, states, rev) == adm[t].state \in states /\ adm[t].rev = rev

Write(t, state, owner) ==
    adm' = [adm EXCEPT ![t] = [state |-> state, rev |-> @.rev + 1, owner |-> owner]]

\* claim_admission, and reclaim_stopped_admission when the row is already enqueued.
CanClaim(t, rev) == InState(t, {"ready"}, rev)
CanReclaim(t, rev) ==
    /\ InState(t, {"enqueued"}, rev)
    /\ adm[t].owner # None
    /\ inst[adm[t].owner] = "stopped"

ClaimAdmission(k, t) == Write(t, "enqueued", k)

ReclaimStoppedAdmission(k, t) == Write(t, "enqueued", k)

\* GatewayStore::enqueue_ready: only the runtime that admitted the row.
CanEnqueueReady(k, t, rev) == InState(t, {"ready"}, rev) /\ adm[t].owner = k

CanRelease(t, rev) == InState(t, {"enqueued"}, rev)

\* Mutant: the failed enqueue is not undone.
ForgetRelease(t) == UNCHANGED adm

\* release_admission, and GatewayStore::restore_ready for a gateway task.
ReleaseAdmission(t) == Write(t, "ready", adm[t].owner)

\* The row is claimed; the task is next put into the channel.
Claimed(t, rev) ==
    flight' = [flight EXCEPT ![t] = [step |-> "claimed", rev |-> rev + 1]]

\* One entry of the recovery loop, up to the claim.  A gateway task goes through
\* GatewayHandoff::handoff, whose error ends the startup; the row of another task
\* that could not be claimed is skipped.
RecoverClaim(k, e) ==
    /\ phase[k] = "assemble"
    /\ e \in eligible
    /\ \A t \in Task : Over(t)
    /\ IF Kind[e.task] = "gateway" /\ ~CanEnqueueReady(k, e.task, e.rev)
       THEN /\ StartupError(k)
            /\ failedOn' = failedOn \cup {e.task}
            /\ UNCHANGED adm
       ELSE /\ eligible' = eligible \ {e}
            /\ IF adm[e.task].state = "ready"
               THEN IF CanClaim(e.task, e.rev)
                    THEN ClaimAdmission(k, e.task) /\ Claimed(e.task, e.rev)
                    ELSE UNCHANGED <<adm, flight>>
               ELSE IF CanReclaim(e.task, e.rev)
                    THEN ReclaimStoppedAdmission(k, e.task) /\ Claimed(e.task, e.rev)
                    ELSE UNCHANGED <<adm, flight>>
            /\ UNCHANGED <<lock, phase, inst, chan, at, worker, failedOn>>
    /\ UNCHANGED <<open, by, crashes>>

\* All services are assembled and the worker is spawned, or one of them failed, or a
\* query of the recovery loop did.
Serve(k) ==
    /\ phase[k] = "assemble"
    /\ \A t \in Task : Over(t)
    /\ \/ /\ eligible = {}
          /\ phase' = [phase EXCEPT ![k] = "serve"]
          /\ worker' = "up"
          /\ UNCHANGED <<lock, inst, eligible, flight, chan, at>>
       \/ StartupError(k)
    /\ UNCHANGED <<adm, open, by, failedOn, crashes>>

-----------------------------------------------------------------------------
(* Admission by a serving process.  Ingress keeps running until shutdown   *)
(* has joined it, so tasks arrive in phase "stopping" too.                 *)

Admitting(k) == lock = k /\ phase[k] \in {"serve", "stopping"} /\ worker # "none"

Admit(t, state, owner, step) ==
    /\ adm[t].state = "absent"
    /\ adm' = [adm EXCEPT ![t] = [state |-> state, rev |-> 0, owner |-> owner]]
    /\ flight' = [flight EXCEPT ![t] = [step |-> step, rev |-> 0]]
    /\ UNCHANGED <<lock, phase, inst, open, eligible, chan, at, worker, by, failedOn, crashes>>

\* Channel slots in use, reserved ones included.
Slots == Len(chan) + Cardinality({t \in Task : flight[t].step = "permit"})

\* PersistingBus::submit_inner: a permit, then admit_task writes the row enqueued.
Submit(k, t) ==
    /\ Admitting(k) /\ Kind[t] = "ordinary"
    /\ worker = "up" /\ Slots < QueueCapacity
    /\ Admit(t, "enqueued", k, "permit")

\* DurableRetryAdmission::admit: admit_retry commits a ready row without an owner.
AdmitRetry(k, t) ==
    /\ Admitting(k) /\ Kind[t] = "retry"
    /\ Admit(t, "ready", None, "admitted")

\* GatewayStore::admit_task_ready: fenced by the active row of this runtime.
AdmitGateway(k, t) ==
    /\ Admitting(k) /\ Kind[t] = "gateway"
    /\ inst[k] = "active"
    /\ Admit(t, "ready", k, "admitted")

\* claim_admission at revision 0, or enqueue_ready at the revision just read.  When it
\* fails the row stays ready.
Claim(k, t) ==
    /\ Admitting(k) /\ flight[t].step = "admitted"
    /\ \/ /\ IF Kind[t] = "gateway" THEN CanEnqueueReady(k, t, 0) ELSE CanClaim(t, 0)
          /\ ClaimAdmission(k, t)
          /\ Claimed(t, 0)
       \/ /\ flight' = [flight EXCEPT ![t] = NoFlight]
          /\ UNCHANGED adm
    /\ UNCHANGED <<lock, phase, inst, open, eligible, chan, at, worker, by, failedOn, crashes>>

\* permit.send, or enqueue_persisted: try_send fails when the channel is full or its
\* receiver is gone, and validate_target when the target is no longer enabled.
\* Before the worker is spawned its receiver already exists.
Enqueue(k, t) ==
    /\ lock = k
    /\ \/ /\ flight[t].step = "permit"
          /\ chan' = IF worker = "up" THEN Append(chan, t) ELSE chan
          /\ flight' = [flight EXCEPT ![t] = NoFlight]
       \/ /\ flight[t].step = "claimed"
          /\ Slots < QueueCapacity /\ (worker = "up" \/ phase[k] = "assemble")
          /\ chan' = Append(chan, t)
          /\ flight' = [flight EXCEPT ![t] = NoFlight]
       \/ /\ flight[t].step = "claimed"
          /\ flight' = [flight EXCEPT ![t].step = "failed"]
          /\ UNCHANGED chan
    /\ UNCHANGED <<lock, phase, inst, adm, open, eligible, at, worker, by, failedOn, crashes>>

\* The claim is taken back at the revision it produced.  The three callers ignore
\* the result, so a write that fails leaves the row enqueued.
Release(k, t) ==
    /\ lock = k
    /\ flight[t].step = "failed"
    /\ \/ /\ IF CanRelease(t, flight[t].rev) THEN ReleaseAdmission(t) ELSE UNCHANGED adm
          /\ flight' = [flight EXCEPT ![t] = NoFlight]
       \/ Lose(t) /\ UNCHANGED adm
    /\ UNCHANGED <<lock, phase, inst, open, eligible, chan, at, worker, by, failedOn, crashes>>

\* The A2A request whose handler runs submit_inner goes away after admit_task has
\* committed: the permit returns to the channel and nothing is sent.
DropSubmit(k, t) ==
    /\ Admitting(k) /\ Kind[t] = "ordinary"
    /\ flight[t].step = "permit"
    /\ Lose(t)
    /\ UNCHANGED <<lock, phase, inst, adm, open, eligible, chan, at, worker, by, failedOn, crashes>>

-----------------------------------------------------------------------------
(* The worker, reduced to its effect on the admission rows.                *)

\* Worker::run takes a task from the channel.
Take(k) ==
    /\ lock = k /\ worker = "up" /\ chan # <<>>
    /\ at' = at \cup {Head(chan)}
    /\ chan' = Tail(chan)
    /\ UNCHANGED <<lock, phase, inst, adm, open, eligible, flight, worker, by, failedOn, crashes>>

\* SqliteTaskLifecycle::transition to Dispatched.
Dispatch(k, t) ==
    /\ lock = k /\ worker = "up" /\ t \in at
    /\ adm[t].state \in {"ready", "enqueued"}
    /\ Write(t, "dispatching", adm[t].owner)
    /\ by' = [by EXCEPT ![t] = k]
    /\ UNCHANGED <<lock, phase, inst, open, memory, failedOn, crashes>>

\* The delivery is prepared, the lease taken and Running recorded.
Run(k, t) ==
    /\ lock = k /\ worker = "up" /\ t \in at
    /\ adm[t].state = "dispatching"
    /\ Write(t, "running", adm[t].owner)
    /\ open' = [open EXCEPT ![t] = "open"]
    /\ UNCHANGED <<lock, phase, inst, memory, by, failedOn, crashes>>

\* A terminal event: finalize_terminal closes the other rows with it, while finish
\* with recovery_needed leaves the lease for recovery.
Finish(k, t) ==
    /\ lock = k /\ worker = "up" /\ t \in at
    /\ Write(t, "terminal", adm[t].owner)
    /\ at' = at \ {t}
    /\ \/ open' = [open EXCEPT ![t] = "closed"]
       \/ open[t] = "open" /\ open' = [open EXCEPT ![t] = "recovery"]
    /\ UNCHANGED <<lock, phase, inst, eligible, flight, chan, worker, by, failedOn, crashes>>

\* The worker stops on an error; its receiver and everything queued go with it.
WorkerFails(k) ==
    /\ lock = k /\ worker = "up"
    /\ worker' = "failed"
    /\ chan' = <<>> /\ at' = {}
    /\ UNCHANGED <<lock, phase, inst, adm, open, eligible, flight, by, failedOn, crashes>>

-----------------------------------------------------------------------------
(* AppRuntime::shutdown, the end of a process and the offline command.     *)

\* stopping_runtime, then the owners are stopped one after another.
BeginStop(k) ==
    /\ phase[k] \in {"serve", "held"}
    /\ phase' = [phase EXCEPT ![k] = "stopping"]
    /\ inst' = [inst EXCEPT ![k] = IF @ = "active" THEN "stopping" ELSE @]
    /\ UNCHANGED <<lock, adm, open, memory, by, failedOn, crashes>>

\* MatrixSyncHandle::shutdown_bounded aborts the sync owner, and with it the
\* gateway admission it is in the middle of.
AbortSync(k, t) ==
    /\ phase[k] = "stopping"
    /\ Kind[t] = "gateway" /\ ~Over(t)
    /\ IF flight[t].step = "admitted"
       THEN flight' = [flight EXCEPT ![t] = NoFlight]
       ELSE Lose(t)
    /\ UNCHANGED <<lock, phase, inst, adm, open, eligible, chan, at, worker, by, failedOn, crashes>>

\* Sync, ingress and the A2A server are joined and the bus is dropped.
DropBus(k) ==
    /\ phase[k] = "stopping"
    /\ \A t \in Task : Over(t)
    /\ phase' = [phase EXCEPT ![k] = "draining"]
    /\ UNCHANGED <<lock, inst, adm, open, memory, by, failedOn, crashes>>

\* The worker ends once the channel is closed and empty ...
WorkerDrained(k) ==
    /\ phase[k] = "draining" /\ worker = "up"
    /\ chan = <<>> /\ at = {}
    /\ worker' = "done"
    /\ UNCHANGED <<lock, phase, inst, adm, open, eligible, flight, chan, at, by, failedOn, crashes>>

\* Mutant: shutdown waits for the worker without a timeout.
WaitForWorker(k) == FALSE

\* ... or is aborted after shutdown_timeout.
WorkerTimeout(k) ==
    /\ phase[k] = "draining" /\ worker = "up"
    /\ worker' = "aborted"
    /\ chan' = <<>> /\ at' = {}
    /\ UNCHANGED <<lock, phase, inst, adm, open, eligible, flight, by, failedOn, crashes>>

\* finish_runtime_stop (finalize_owner or stop_runtime); the lock is dropped last.
FinishStop(k) ==
    /\ phase[k] = "draining" /\ worker # "up"
    /\ Gone(k)
    /\ inst' = [inst EXCEPT ![k] = "stopped"]
    /\ UNCHANGED <<adm, open, by, failedOn, crashes>>

Crash(k) ==
    /\ phase[k] \notin {"new", "dead"}
    /\ crashes < Crashes
    /\ crashes' = crashes + 1
    /\ Gone(k)
    /\ UNCHANGED <<inst, adm, open, by, failedOn>>

\* `recover-runtime`: recover_stale_runtime under cli_exclusion's lock.
OfflineRecover(k) ==
    /\ lock = None
    /\ Unstopped = {k} /\ NoWork
    /\ inst' = [inst EXCEPT ![k] = "stopped"]
    /\ UNCHANGED <<lock, phase, adm, open, memory, by, failedOn, crashes>>

\* Every start has been used up and the last process is gone.
Exhausted ==
    /\ \A k \in Token : phase[k] = "dead"
    /\ UNCHANGED vars

Startup(k) ==
    \/ Begin(k) \/ RecoverStale(k) \/ Classify(k) \/ Serve(k)
    \/ \E e \in eligible : RecoverClaim(k, e)

Admission(k) ==
    \E t \in Task : Claim(k, t) \/ Enqueue(k, t) \/ Release(k, t)

Work(k) ==
    \/ Take(k) \/ WorkerFails(k)
    \/ \E t \in Task : Dispatch(k, t) \/ Run(k, t) \/ Finish(k, t)

Shutdown(k) ==
    DropBus(k) \/ WorkerDrained(k) \/ WorkerTimeout(k) \/ FinishStop(k)

Next ==
    \/ \E k \in Token :
         \/ Start(k) \/ Startup(k) \/ Admission(k) \/ Work(k)
         \/ BeginStop(k) \/ Shutdown(k) \/ Crash(k) \/ OfflineRecover(k)
         \/ \E t \in Task :
              \/ Submit(k, t) \/ AdmitRetry(k, t) \/ AdmitGateway(k, t)
              \/ DropSubmit(k, t) \/ AbortSync(k, t)
    \/ Exhausted

Spec == Init /\ [][Next]_vars

NoneStopping == \A k \in Token : phase[k] \notin {"stopping", "draining"}

\* During a shutdown the scheduler keeps polling it and the admissions in progress;
\* nothing is assumed of the agent, so a worker may never finish a task.
ShutdownFair ==
    \A k \in Token :
        WF_vars(~NoneStopping /\ Admission(k)) /\ WF_vars(~NoneStopping /\ Shutdown(k))

-----------------------------------------------------------------------------
AdmissionState == {"absent", "ready", "enqueued", "dispatching", "running", "terminal"}

\* The columns and the in-memory state have the values the schema and the types allow.
TypeOK ==
    /\ lock \in Token \cup {None}
    /\ phase \in [Token -> Owned \cup {"new", "begin", "stale", "dead"}]
    /\ inst \in [Token -> {"absent", "active", "stopping", "stopped"}]
    /\ adm \in [Task -> [state : AdmissionState, rev : Nat, owner : Token \cup {None}]]
    /\ open \in [Task -> {"closed", "open", "recovery"}]
    /\ eligible \subseteq [task : Task, rev : Nat]
    /\ flight \in [Task -> [step : {"none", "permit", "admitted", "claimed", "failed", "lost"}, rev : Nat]]
    /\ chan \in Seq(Task) /\ Len(chan) <= QueueCapacity
    /\ at \subseteq Task
    /\ worker \in {"none", "up", "failed", "aborted", "done"}
    /\ by \in [Task -> Token \cup {None}]
    /\ failedOn \subseteq Task
    /\ crashes \in 0 .. Crashes

\* At most one process is between begin_runtime_with_evidence and the end of its
\* shutdown.  The active index alone does not give this: a stopping row is no
\* obstacle to begin_runtime, the flock is.
OneRuntime ==
    \A j, k \in Token : phase[j] \in Owned /\ phase[k] \in Owned => j = k

\* Neither the startup recovery of stale owners nor `recover-runtime` stops the row
\* of a process that is still running.
LiveRuntimeKeepsRow ==
    \A k \in Token : phase[k] \in Owned => inst[k] \in {"active", "stopping"}

\* A task in the channel is enqueued for exactly the process whose channel it is,
\* once, whether it was submitted, retried, handed off or recovered at startup.
QueueMatchesRows ==
    /\ \A i \in 1 .. Len(chan) : adm[chan[i]].state = "enqueued" /\ adm[chan[i]].owner = lock
    /\ \A i, j \in 1 .. Len(chan) : chan[i] = chan[j] => i = j

\* No admission is forgotten: as long as a process has a worker, each enqueued row is
\* its own, and is in the channel, at the worker, in the hands of the admission that
\* will put it there or take the claim back, or was lost in this process by a request
\* that went away or a release that could not be written.  So what an earlier process
\* lost has been taken up by this one, and what this one loses names it and is
\* eligible for the next start once it has stopped.
EnqueuedIsAccountedFor ==
    \A k \in Token : phase[k] \in Owned /\ worker = "up" =>
        \A t \in Task : adm[t].state = "enqueued" =>
            /\ adm[t].owner = k
            /\ \/ t \in at
               \/ flight[t].step \in {"permit", "claimed", "failed", "lost"}
               \/ \E i \in 1 .. Len(chan) : chan[i] = t

\* Channel and admission rows agree, in both directions.
ChannelAgreesWithRows == QueueMatchesRows /\ EnqueuedIsAccountedFor

\* A runtime that has passed classification never sits on top of work that another
\* process dispatched and did not close.
NoOrphanedWork ==
    \A k \in Token : phase[k] \in Owned \ {"classify"} =>
        \A t \in Task :
            adm[t].state \in {"dispatching", "running"} \/ open[t] # "closed" => by[t] = k

\* The runtime that serves is alone: no other process runs, nobody stops its row, and
\* no work of an earlier process is open beneath it.
RuntimeAlone == OneRuntime /\ LiveRuntimeKeepsRow /\ NoOrphanedWork

\* Startup recovery hands every admission it has classified as eligible to the bus:
\* no startup fails in the recovery loop (GatewayHandoff is documented as the
\* handoff of both live ingress and startup recovery).
EligibleHandedOff == failedOn = {}
=============================================================================
