----------------------------- MODULE MCOffline -----------------------------
(* The commands an operator runs on the state directory and on the owners of  *)
(* an old release.  All of them hold the maintenance lock, so a behaviour is  *)
(* of one family of commands; the other one is left alone.                    *)
EXTENDS StateBackup, OwnerRepair

VARIABLE family

offlineVars == <<family, vars, repairVars>>

OfflineInit ==
    /\ family \in {"directory", "owners"}
    /\ Init /\ RepairInit
    /\ family # "owners" => odb = SingleDb /\ alive = {}

OfflineNext ==
    /\ UNCHANGED family
    /\ \/ family = "directory" /\ Next /\ UNCHANGED repairVars
       \/ family = "owners" /\ RepairNext /\ UNCHANGED vars

OfflineSpec == OfflineInit /\ [][OfflineNext]_offlineVars /\ CleanupFair
=============================================================================
