---------------------------- MODULE MCWorkerClose ----------------------------
(* The end of a worker's work.  A behaviour is of one setting: a worker with     *)
(* three tasks, one of them urgent, and a channel of two that closes; the        *)
(* cancellation handle on its own, with four ids, tables of two and callers that *)
(* disagree about the reason; or the rows a dead runtime left and the commands   *)
(* that close them.  The others are left alone.                                  *)
EXTENDS BusWorker, OfflineTools

CONSTANTS t1, t2, t3, t4, r1, r2

VARIABLE setting

T2Urgent == [t \in Task |-> IF t = t2 THEN 1 ELSE 0]

Tables == INSTANCE Cancellation WITH
    Task <- {t1, t2, t3, t4}, Reason <- {r1, r2},
    MAX_PENDING_CANCELLATIONS <- 2, MAX_RETIRED_TASKS <- 2

\* Tasks of the earlier release on two resources; the first and the third share
\* one.
MCResourceOf == [t \in OffTask |-> IF t = "t2" THEN "r2" ELSE "r1"]

SettingsInit ==
    /\ BusInit /\ OffInit
    /\ \/ setting = "close" /\ CancelInit
       \/ setting = "tables" /\ Tables!CancelInit
       \/ setting = "dead" /\ CancelInit
    /\ setting # "dead" => db.inst[Old] = "stopped" /\ \A t \in OffTask : db.row[t] = NoRow

SettingsNext ==
    /\ UNCHANGED setting
    /\ \/ setting = "close" /\ Next /\ UNCHANGED offVars
       \/ /\ setting = "tables" /\ Tables!CancelNext
          /\ UNCHANGED <<busVars, workerVars, history, offVars>>
       \/ setting = "dead" /\ OffNext /\ UNCHANGED vars
       \* A command that is refused, or finds its work done, changes nothing.
       \/ setting = "dead" /\ up = Nobody /\ UNCHANGED <<vars, offVars>>

SettingsSpec == SettingsInit /\ [][SettingsNext]_<<setting, vars, offVars>>

\* FirstReasonWins of the handle on its own: a retained reason is never replaced, and
\* it is forgotten only by retirement or by displacement from a full table.
TablesKeepReason == [][setting = "tables" => Tables!ReasonKept]_cancelVars
=============================================================================
