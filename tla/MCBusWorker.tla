----------------------------- MODULE MCBusWorker -----------------------------
(* One task at a time before the worker, with cancellations and a deadline, a   *)
(* behaviour being in one of two settings.  "legacy": a raced dispatcher that   *)
(* refuses and is retried, nothing durable.  "prepared": a durable task with a  *)
(* prepared dispatcher and every failure outside the worker.                    *)
EXTENDS BusWorker

CONSTANTS t1

VARIABLE setting

Flat == [t \in Task |-> 0]

Prep == INSTANCE BusWorker WITH
    Prepared <- {t1}, EventCapacity <- 2, MaxAttempts <- 1, MaxCalls <- 1, Durable <- TRUE,
    Faults <- {"store", "queue", "unleased", "refused", "recovery", "finalize"}

SettingsInit == setting \in {"legacy", "prepared"} /\ Init

SettingsNext ==
    /\ UNCHANGED setting
    /\ \/ setting = "legacy" /\ Next
       \/ setting = "prepared" /\ Prep!Next

\* The worker's own step, and the wake-up of one that waits in a race.
Step ==
    \/ setting = "legacy" /\ WorkerStep
    \/ setting = "prepared" /\ Prep!WorkerStep
WakeUp ==
    \/ setting = "legacy" /\ Wake
    \/ setting = "prepared" /\ Prep!Wake

\* A stage may never answer, so it gets no fairness.  The worker's own steps
\* and a caller that is between its record and its bump do go on.
SettingsSpec ==
    /\ SettingsInit /\ [][SettingsNext]_<<setting, vars>>
    /\ WF_vars(Step) /\ WF_vars(WakeUp)

\* The setting of the configuration alone.
RefusalSpec == setting = "legacy" /\ Init /\ [][SettingsNext]_<<setting, vars>>

\* SeqGrammar of a raced dispatcher that is retried: contiguous sequence numbers, a
\* Running directly after its Dispatched, nothing after a terminal event.
RetriedGrammar == setting = "legacy" => SeqGrammar

\* StreamFollowsStore and StoreCoherent of a durable task: what the worker streams is
\* durable first, and row, version and admission advance together.
DurableStream == setting = "prepared" => Prep!StreamFollowsStore /\ Prep!StoreCoherent

\* ShutdownTerminates of a raced dispatcher: once the bus is closed and the deadlines
\* have passed the worker stops by itself, although no stage has to answer.
RacedShutdown == (setting = "legacy" /\ closed /\ Submitted \subseteq expired) ~> pc \in Ended
=============================================================================
