---------------------------- MODULE OfflineTools ----------------------------
(***************************************************************************)
(* The operator commands that close work a dead runtime left behind, over  *)
(* the database the runtime writes:                                        *)
(*   recover-preacceptance            offline_preacceptance.rs             *)
(*   recover-selected-preacceptance   readonly_tuple.rs, selected_*.rs     *)
(*   reconcile-orphaned-preacceptance orphaned_preacceptance.rs            *)
(*   reconcile-delivery               offline_delivery.rs                  *)
(*   cleanup of an acknowledged task  terminal_acknowledged_cleanup.rs     *)
(*   abandonment of an unknown turn   historical_unknown_abandonment.rs    *)
(*   recover-runtime                  offline_recovery.rs                  *)
(* and the read-only diagnosis of lease_owner_diagnostics.rs.  A command   *)
(* holds the maintenance lock, as a runtime does, and writes in one        *)
(* BEGIN IMMEDIATE transaction, so a command is one action; a command      *)
(* whose reread after COMMIT fails reports an error for work that is done. *)
(***************************************************************************)
EXTENDS Naturals, FiniteSets, FiniteSetsExt

CONSTANTS
    Nobody,
    OffTask,    \* tasks, one delivery attempt each
    Token,      \* runtime instance tokens of this release
    Old,        \* the runtime instance of an earlier release
    ResourceOf, \* task -> execution resource
    Legacy,     \* tasks that may stem from the earlier release
    Decision,   \* decision ids of audited commands
    MaxFaults,  \* bound: crashes and failed rereads
    OffFences   \* bound: leases granted for one resource

ASSUME OffBounds == MaxFaults \in Nat /\ OffFences \in Nat

VARIABLES
    db,      \* the committed database
    up,      \* token of the running runtime, or Nobody
    work,    \* [task, pc]: what its serial worker does
    report,  \* what the last command that committed said
    faults

offVars == <<db, up, work, report, faults>>

Tokens == Token \cup {Old}
Resource == {ResourceOf[t] : t \in OffTask}
TerminalStatus == {"completed", "failed", "failed_pre", "cancelled"}
Idle == [task |-> Nobody, pc |-> "idle"]
NoReport == [tool |-> Nobody, tasks |-> {}, dec |-> Nobody, result |-> "none"]

-----------------------------------------------------------------------------
(* Rows.  ev: status of the latest event; ver: tasks.version; ack: who  *)
(* set acknowledged_at; disp.sess: a session or a child was recorded;      *)
(* queue: the task's agent_work_queue row.                                 *)

NoRow ==
    [ev |-> "none", ver |-> 0, adm |-> [st |-> "none", own |-> Nobody, rev |-> 0],
     ack |-> "no", disp |-> [st |-> "none", sess |-> FALSE, why |-> "none"],
     cont |-> [st |-> "none", rev |-> 0, fence |-> 0], queue |-> "none"]

\* The transaction that records the dispatch and prepares the delivery.
Dispatched(own, queue) ==
    [NoRow EXCEPT !.ev = "dispatched", !.adm = [st |-> "dispatching", own |-> own, rev |-> 1],
                  !.disp.st = "prepared", !.queue = queue]

NoLease == [st |-> "none", task |-> Nobody, owner |-> Nobody, fence |-> 0]
LeaseOf(d, t) == d.lease[ResourceOf[t]]
HasLease(d, t) == LeaseOf(d, t).task = t
LeaseIs(d, t, st) == HasLease(d, t) /\ LeaseOf(d, t).st = st
SetLease(d, t, st) == [d EXCEPT !.lease[ResourceOf[t]].st = st]
SetRow(d, t, r) == [d EXCEPT !.row[t] = r]
LiveOwners(d) == {k \in Tokens : d.inst[k] \in {"active", "stopping"}}

\* PlannerSets::read, planner_counts and plan_recovery.
OffFinished(d, t) == d.row[t].ev \in TerminalStatus
Planner(d) ==
    [unfinished |-> {t \in OffTask : d.row[t].ev # "none" /\ ~OffFinished(d, t)},
     unacknowledged |-> {t \in OffTask : d.row[t].ev # "none" /\ d.row[t].ack = "no"},
     awaiting |-> {t \in OffTask : d.row[t].ack # "no" /\ ~OffFinished(d, t)}]

\* PlannerSets::remove_targets
RemoveTargets(p, S) ==
    [p EXCEPT !.unfinished = @ \ S, !.unacknowledged = @ \ S]

-----------------------------------------------------------------------------
(* terminal_closure::apply, shared by the live worker and the offline path *)

\* AdmissionMode::Live, DeliveryBinding::LiveContinuation, LeaseMode::LiveActive.
CloseLive(d, t, status) ==
    LET r == d.row[t] IN
    SetLease(SetRow(d, t,
        [r EXCEPT !.ev = status, !.ver = @ + 1, !.adm.st = "terminal", !.adm.rev = @ + 1,
                  !.ack = IF @ = "no" THEN "live" ELSE @,
                  !.disp.st = "terminal", !.disp.why = "none",
                  !.cont.st = "terminal", !.cont.rev = @ + 1,
                  !.queue = IF @ = "open" THEN "closed" ELSE @]), t, "released")

\* The compare-and-swap conditions of the offline modes.
CanCloseOffline(d, t) ==
    /\ d.row[t].adm.st = "dispatching" /\ d.row[t].ack = "no"
    /\ d.row[t].disp.st = "prepared" /\ ~d.row[t].disp.sess
    /\ LeaseIs(d, t, "recovery_needed")

\* Mutant: the closure leaves the reason of the disposition alone.
CloseOfflineUnnamed(d, t) ==
    SetLease(SetRow(d, t,
        [d.row[t] EXCEPT !.ev = "failed_pre", !.ver = @ + 1,
                         !.adm.st = "terminal", !.adm.rev = @ + 1,
                         !.ack = "close", !.disp.st = "terminal"]), t, "released")

\* AdmissionMode::Offline, DeliveryBinding::OfflineExact, OfflineRecoveryNeeded.
CloseOffline(d, t) ==
    SetLease(SetRow(d, t,
        [d.row[t] EXCEPT !.ev = "failed_pre", !.ver = @ + 1,
                         !.adm.st = "terminal", !.adm.rev = @ + 1,
                         !.ack = "close", !.disp.st = "terminal",
                         !.disp.why = "pre_acceptance_auth_failure"]), t, "released")

-----------------------------------------------------------------------------
(* offline_preacceptance.rs *)

\* validate, for a delivery that is not acknowledged and not terminal.
ValidatePending(d, t) ==
    /\ d.row[t].disp.st = "prepared" /\ ~d.row[t].disp.sess
    /\ d.row[t].ev = "dispatched" /\ d.row[t].adm.st = "dispatching"
    /\ LeaseIs(d, t, "recovery_needed")
    /\ d.row[t].queue = "none" /\ d.row[t].cont.st = "none"

ValidateClosed(d, t) ==
    /\ d.row[t].disp = [st |-> "terminal", sess |-> FALSE,
                        why |-> "pre_acceptance_auth_failure"]
    /\ d.row[t].ev = "failed_pre" /\ d.row[t].ack = "close"
    /\ d.row[t].adm.st = "terminal"
    /\ LeaseIs(d, t, "released")
    /\ d.row[t].queue = "none" /\ d.row[t].cont.st = "none"

\* validate: an acknowledged or terminal delivery must be one this command
\* closed; any other must be pending.
Validate(d, t) ==
    IF d.row[t].disp.st = "none" THEN "no"
    ELSE IF d.row[t].ack # "no" \/ d.row[t].disp.st = "terminal"
         THEN IF ValidateClosed(d, t) THEN "closed" ELSE "no"
    ELSE IF ValidatePending(d, t) THEN "pending" ELSE "no"

\* close_one for every tuple in turn.
CloseAll(d, S) == FoldSet(LAMBDA t, acc : CloseOffline(acc, t), d, S)

Result(out, d) == [out |-> out, db |-> d]

\* recover_tx: all tuples pending or all closed, every compare-and-swap hits,
\* and the planner sees exactly the targets gone.
RecoverTx(d, S) ==
    LET closed == {t \in S : Validate(d, t) = "closed"}
        done == CloseAll(d, S)
    IN  IF \E t \in S : Validate(d, t) = "no" THEN Result("refused", d)
        ELSE IF closed = S THEN Result("already", d)
        ELSE IF /\ closed = {} /\ \A t \in S : CanCloseOffline(d, t)
                /\ Planner(done) = RemoveTargets(Planner(d), S)
             THEN Result("applied", done) ELSE Result("refused", d)

-----------------------------------------------------------------------------
(* readonly_tuple.rs and selected_preacceptance.rs *)

\* prove_candidate: TRUE, FALSE or a conflict.  The lease's owner must be the
\* runtime that admitted the task.
ProveCandidate(d, t) ==
    LET r == d.row[t]
        conflict == \/ r.adm.own = Nobody \/ ~HasLease(d, t)
                    \/ LeaseIs(d, t, "recovery_needed") /\ LeaseOf(d, t).owner # r.adm.own
        evidence == r.disp.st # "prepared" \/ r.disp.sess \/ r.queue # "none"
                    \/ r.cont.st # "none"
    IN  IF r.ev # "dispatched" \/ r.adm.st # "dispatching" THEN "no"
        ELSE IF conflict THEN "conflict"
        ELSE IF ~LeaseIs(d, t, "recovery_needed") \/ evidence THEN "no" ELSE "yes"

\* select_tx
Select(d) ==
    LET open == {t \in OffTask : d.row[t].ev # "none" /\ d.row[t].ack = "no"}
        yes == {t \in open : ProveCandidate(d, t) = "yes"}
    IN  IF \E t \in open : ProveCandidate(d, t) = "conflict" THEN [out |-> "conflicting", tasks |-> {}]
        ELSE IF Cardinality(yes) = 1 THEN [out |-> "selected", tasks |-> yes]
        ELSE [out |-> IF yes = {} THEN "empty" ELSE "multiple", tasks |-> {}]

\* call_t037: nothing left to do is reported as empty.
SelectedTx(d) ==
    IF Select(d).out # "selected" THEN Result("refused", d)
    ELSE LET r == RecoverTx(d, Select(d).tasks)
         IN  IF r.out = "already" THEN Result("refused", d) ELSE r

-----------------------------------------------------------------------------
(* lease_owner_diagnostics.rs *)

\* What one unacknowledged delivery contributes to the category.
DiagnoseRow(d, t) ==
    LET r == d.row[t]
        owner == LeaseOf(d, t).owner
        needed == LeaseIs(d, t, "recovery_needed")
    IN  IF r.adm.st # "dispatching" THEN "skip"
        ELSE IF r.ev # "dispatched" THEN "malformed"
        ELSE IF r.disp.st # "prepared" \/ r.disp.sess \/ r.queue # "none"
                \/ r.cont.st # "none" \/ ~HasLease(d, t) THEN "fenced"
        ELSE IF owner \notin Tokens THEN IF needed THEN "orphan" ELSE "fenced"
        ELSE IF d.inst[owner] \in {"active", "stopping"} THEN "active"
        ELSE IF owner # r.adm.own \/ ~needed THEN "fenced" ELSE "candidate"

\* diagnose_read
Diagnose(d) ==
    LET open == {t \in OffTask : d.row[t].ev # "none" /\ d.row[t].ack = "no"}
        is(c) == {t \in open : DiagnoseRow(d, t) = c}
    IN  IF is("malformed") # {} THEN "malformed"
        ELSE IF is("active") # {} THEN "active_owner"
        ELSE IF Cardinality(is("candidate")) > 1 THEN "multiple"
        ELSE IF is("candidate") # {} THEN "eligible"
        ELSE IF is("orphan") # {} THEN "non_actionable_orphan"
        ELSE IF is("fenced") # {} THEN "fenced" ELSE "empty"

-----------------------------------------------------------------------------
(* orphaned_preacceptance.rs *)

\* read_open_proof: the admitting runtime is stopped and no runtime row ever
\* had the lease's owner token.
ReadOpenProof(d, t) ==
    LET own == d.row[t].adm.own  owner == LeaseOf(d, t).owner
    IN  IF own = Nobody \/ d.inst[own] # "stopped" THEN "fenced"
        ELSE IF ~LeaseIs(d, t, "recovery_needed") THEN "fenced"
        ELSE IF owner \in Tokens
             THEN IF d.inst[owner] \in {"active", "stopping"} THEN "active" ELSE "fenced"
        ELSE IF d.row[t].ev = "dispatched" THEN "proved" ELSE "fenced"

\* reconcile_closed: exactly one delivery this command or T037 closed.
ReconcileClosed(d) ==
    LET past == {t \in OffTask : /\ d.row[t].adm.st = "terminal" /\ d.row[t].disp.st = "terminal"
                              /\ d.row[t].disp.why = "pre_acceptance_auth_failure"
                              /\ LeaseIs(d, t, "released")}
    IN  IF Cardinality(past) = 1 /\ \A t \in past : RecoverTx(d, {t}).out = "already"
        THEN Result("already", d) ELSE Result("refused", d)

\* reconcile_tx
OrphanedTx(d) ==
    LET open == {t \in OffTask : d.row[t].adm.st = "dispatching" /\ d.row[t].ack = "no"}
    IN  IF open = {} THEN ReconcileClosed(d)
        ELSE IF Cardinality(open) = 1 /\ \A t \in open : ReadOpenProof(d, t) = "proved"
        THEN RecoverTx(d, open) ELSE Result("refused", d)

-----------------------------------------------------------------------------
(* offline_delivery.rs *)

Reconcilable(d, t) ==
    /\ OffFinished(d, t) /\ d.row[t].adm.st = "terminal"
    /\ d.row[t].queue # "open"
    /\ HasLease(d, t) => LeaseOf(d, t).st = "released"
    /\ d.row[t].cont.st \in {"none", "terminal"}
    /\ d.row[t].disp.st # "none"

Reconciled(d, t) ==
    SetRow(d, t,
        [d.row[t] EXCEPT !.ack = IF @ = "no" THEN "offline" ELSE @,
                         !.disp = IF @.st = "terminal" THEN @
                                  ELSE [@ EXCEPT !.st = "terminal", !.why = "offline_reconciled"]])

\* reconcile_tx_inner, with the planner counts before and after.
ReconcileDeliveryTx(d, S) ==
    LET done == FoldSet(LAMBDA t, acc : Reconciled(acc, t), d, S)
        newly == {t \in S : d.row[t].ack = "no"}
    IN  IF /\ \A t \in S : Reconcilable(d, t)
           /\ Planner(done) = [Planner(d) EXCEPT !.unacknowledged = @ \ newly]
        THEN Result("applied", done) ELSE Result("refused", d)

-----------------------------------------------------------------------------
(* terminal_acknowledged_cleanup.rs and historical_unknown_abandonment.rs  *)

Audit(d, t, kind, dec) ==
    [task |-> t, kind |-> kind, dec |-> dec, ver |-> d.row[t].ver, admRev |-> d.row[t].adm.rev,
     post |-> d.row[t].cont.rev + 1]
AuditsOf(d, t) == {a \in d.audit : a.task = t}

\* candidate
CleanupCandidates(d) ==
    {t \in OffTask :
        /\ OffFinished(d, t) /\ d.row[t].adm.st = "terminal"
        /\ d.row[t].adm.own # Nobody /\ d.inst[d.row[t].adm.own] = "stopped"
        /\ d.row[t].ack # "no"
        /\ d.row[t].disp.st = "terminal" /\ ~d.row[t].disp.sess
        /\ LeaseIs(d, t, "recovery_needed")
        /\ d.row[t].cont.st = "recovery_needed"
        /\ d.row[t].cont.fence = LeaseOf(d, t).fence
        /\ d.row[t].queue = "none"
        /\ AuditsOf(d, t) = {}
        /\ LiveOwners(d) = {}}

\* The three updates of a closing transaction: audit, lease, continuation.
CloseTurn(d, t, kind, dec) ==
    [SetLease(SetRow(d, t, [d.row[t] EXCEPT !.cont.st = "terminal", !.cont.rev = @ + 1]),
              t, "released") EXCEPT !.audit = @ \cup {Audit(d, t, kind, dec)}]

\* committed_repeat: the decision's audit and the state it left.
CommittedRepeat(d, dec) ==
    {a \in d.audit : a.kind = "cleanup" /\ a.dec = dec /\ HasLease(d, a.task)}

\* run_with_failure of the cleanup; the decision names no task.  decision_id
\* is the primary key of the audits.
Decided(d, dec) == \E a \in d.audit : a.dec = dec
CleanupTx(d, dec) ==
    IF CommittedRepeat(d, dec) # {}
    THEN Result(IF \A a \in CommittedRepeat(d, dec) :
                      /\ d.row[a.task].cont = [st |-> "terminal", rev |-> a.post,
                                               fence |-> LeaseOf(d, a.task).fence]
                      /\ LeaseIs(d, a.task, "released") /\ d.row[a.task].disp.st = "terminal"
                THEN "already" ELSE "refused", d)
    ELSE IF Cardinality(CleanupCandidates(d)) # 1 \/ Decided(d, dec) THEN Result("refused", d)
    ELSE Result("applied", CloseTurn(d, CHOOSE t \in CleanupCandidates(d) : TRUE, "cleanup", dec))

\* The retained audit still describes the rows.
AbandonmentHolds(d, a) ==
    /\ d.row[a.task].ver = a.ver /\ d.row[a.task].adm.rev = a.admRev
    /\ LeaseIs(d, a.task, "released")
    /\ d.row[a.task].cont.st = "terminal" /\ d.row[a.task].cont.rev = a.post
    /\ d.row[a.task].disp.st = "terminal"
    /\ d.row[a.task].disp.why = "historical_unknown_abandoned"

\* One revision argument is compared with the task's version and with the
\* continuation's revision.
Abandonable(d, t) ==
    /\ d.row[t].adm.own # Nobody /\ d.inst[d.row[t].adm.own] = "stopped"
    /\ LeaseIs(d, t, "recovery_needed") /\ d.row[t].cont.st = "recovery_needed"
    /\ d.row[t].cont.rev = d.row[t].ver /\ d.row[t].cont.fence = LeaseOf(d, t).fence
    /\ d.row[t].disp.st = "outcome_unknown" /\ d.row[t].disp.sess

\* run_with_failure of the abandonment.
AbandonTx(d, t, dec) ==
    IF LiveOwners(d) # {} THEN Result("refused", d)
    ELSE IF AuditsOf(d, t) # {}
         THEN Result(IF \A a \in AuditsOf(d, t) : a.kind = "abandon" /\ a.dec = dec /\ AbandonmentHolds(d, a)
                     THEN "already" ELSE "refused", d)
    ELSE IF ~Abandonable(d, t) \/ Decided(d, dec) THEN Result("refused", d)
    ELSE Result("applied", [CloseTurn(d, t, "abandon", dec) EXCEPT
             !.row[t].disp.st = "terminal",
             !.row[t].disp.why = "historical_unknown_abandoned"])

\* recover_in_transaction_inner: one owner, and no open work of any kind.
RecoverRuntimeTx(d, k) ==
    IF d.inst[k] = "stopped" THEN Result("already", d)
    ELSE IF /\ LiveOwners(d) = {k}
            /\ \A t \in OffTask : d.row[t].ev # "none" =>
                 /\ OffFinished(d, t) /\ d.row[t].adm.st = "terminal"
                 /\ d.row[t].queue # "open" /\ d.row[t].cont.st \in {"none", "terminal"}
                 /\ d.row[t].ack # "no" /\ d.row[t].disp.st = "terminal"
            /\ \A r \in Resource : d.lease[r].st \in {"none", "released"}
         THEN Result("applied", [d EXCEPT !.inst[k] = "stopped"]) ELSE Result("refused", d)

-----------------------------------------------------------------------------
(* The runtime that writes these rows: one serial worker.                  *)

\* Rows an earlier release may have left for a task: nothing; a delivery that
\* was not accepted, with a lease or (a death before acquire, or an acquire that
\* was refused) without one; a finished task whose delivery or whose turn is
\* open; a turn of unknown outcome.
LegacyShapes ==
    {[row |-> NoRow, st |-> "none"],
     [row |-> Dispatched(Old, "none"), st |-> "recovery_needed"],
     [row |-> Dispatched(Old, "none"), st |-> "none"],
     [row |-> [Dispatched(Old, "none") EXCEPT !.ev = "cancelled", !.ver = 1,
                                              !.adm.st = "terminal"], st |-> "none"],
     [row |-> [Dispatched(Old, "none") EXCEPT
                 !.ev = "cancelled", !.ver = 1, !.adm.st = "terminal", !.ack = "live",
                 !.disp.st = "terminal",
                 !.cont = [st |-> "recovery_needed", rev |-> 2, fence |-> 1]],
      st |-> "recovery_needed"],
     [row |-> [Dispatched(Old, "none") EXCEPT
                 !.ev = "running", !.ver = 1, !.adm.st = "running", !.ack = "session",
                 !.disp.st = "outcome_unknown", !.disp.sess = TRUE,
                 !.cont = [st |-> "recovery_needed", rev |-> 1, fence |-> 1]],
      st |-> "recovery_needed"]}

\* In the earlier release the runtime owned the leases under its own token;
\* a row may also name an owner that never had a runtime row.  A resource has
\* one lease row, so one of its tasks at most left a lease.
OffInit ==
    \E shape \in [Legacy -> LegacyShapes], owner \in [Resource -> {Old, "orphan"}],
       old \in {"active", "stopping", "stopped"} :
        LET Holder(r) == {t \in Legacy : ResourceOf[t] = r /\ shape[t].st # "none"}
        IN  /\ \A r \in Resource : Cardinality(Holder(r)) <= 1
            /\ db = [row |-> [t \in OffTask |-> IF t \in Legacy THEN shape[t].row ELSE NoRow],
                     lease |-> [r \in Resource |->
                        IF Holder(r) = {} THEN NoLease
                        ELSE [st |-> "recovery_needed", task |-> CHOOSE t \in Holder(r) : TRUE,
                              owner |-> owner[r], fence |-> 1]],
                     inst |-> [k \in Tokens |-> IF k = Old THEN old ELSE "absent"],
                     audit |-> {}]
            /\ up = Nobody /\ work = Idle /\ report = NoReport /\ faults = 0

\* A runtime row is begun; open work of any kind ends the start again.
StartupBlocked(d) ==
    \/ \E t \in OffTask : d.row[t].adm.st \notin {"none", "terminal"}
    \/ Planner(d).unfinished \cup Planner(d).unacknowledged \cup Planner(d).awaiting # {}
    \/ \E r \in Resource : d.lease[r].st \in {"active", "recovery_needed"}

OffStart(k) ==
    /\ up = Nobody /\ db.inst[k] = "absent"
    /\ \A j \in Tokens : db.inst[j] # "active"
    /\ IF StartupBlocked(db)
       THEN db' = [db EXCEPT !.inst[k] = "stopped"] /\ UNCHANGED up
       ELSE db' = [db EXCEPT !.inst[k] = "active"] /\ up' = k
    /\ report' = NoReport
    /\ UNCHANGED <<work, faults>>

Live(pc) == up # Nobody /\ work.pc = pc
Commit(d, w) ==
    /\ db' = d /\ work' = w /\ report' = NoReport
    /\ UNCHANGED <<up, faults>>
OffAt(pc) == [work EXCEPT !.pc = pc]
Gone == [task |-> Nobody, pc |-> "gone"]

OffDispatch(t) ==
    /\ Live("idle") /\ db.row[t].ev = "none"
    /\ \E queue \in {"none", "open"} :
         Commit(SetRow(db, t, Dispatched(up, queue)), [task |-> t, pc |-> "prepared"])

\* acquire, with a fresh owner token; a lease that needs recovery stops the
\* worker with the delivery prepared.
OffAcquire ==
    LET t == work.task  l == LeaseOf(db, t) IN
    /\ Live("prepared") /\ l.fence < OffFences
    /\ IF l.st \in {"none", "released"}
       THEN Commit([db EXCEPT !.lease[ResourceOf[t]] =
                       [st |-> "active", task |-> t, owner |-> "lease", fence |-> l.fence + 1]],
                   OffAt("acquired"))
       ELSE Commit([db EXCEPT !.lease[ResourceOf[t]].st = "recovery_needed"], Gone)

\* acknowledge_delivery
OffAccept ==
    /\ Live("acquired")
    /\ Commit(SetRow(db, work.task,
                [db.row[work.task] EXCEPT !.ack = "session", !.disp.st = "acknowledged",
                                          !.disp.sess = TRUE]), OffAt("accepted"))

\* finalize_delivery_failure: the backend was reaped and the task finalized,
\* or it was not and the lease stays for recovery.
OffReject ==
    /\ Live("acquired")
    /\ \/ Commit(CloseLive(db, work.task, "failed"), Idle)
       \/ Commit(SetLease(db, work.task, "recovery_needed"), Gone)

\* begin_continuation and the first transition to running.
OffBegin ==
    LET t == work.task IN
    /\ Live("accepted")
    /\ \/ Commit(SetRow(db, t,
                  [db.row[t] EXCEPT !.ev = "running", !.ver = @ + 1, !.adm.st = "running",
                      !.adm.rev = @ + 1,
                      !.cont = [st |-> "in_flight", rev |-> 2, fence |-> LeaseOf(db, t).fence]]),
                  OffAt("running"))
       \/ Commit(SetLease(db, t, "recovery_needed"), Gone)

\* finalize_terminal, or finish_with_generation(RecoveryNeeded).
OffFinish ==
    LET t == work.task IN
    /\ Live("running")
    /\ \/ Commit(CloseLive(db, t, "completed"), Idle)
       \/ Commit(SetLease(SetRow(db, t,
                  [db.row[t] EXCEPT !.cont.st = "recovery_needed", !.cont.rev = @ + 1,
                                    !.disp.st = "outcome_unknown"]), t, "recovery_needed"), Idle)

\* Mutant: an orderly stop frees the resources of the worker that is gone.
OffStopReleasing ==
    /\ up # Nobody
    /\ db' = [db EXCEPT !.inst[up] = "stopped",
                        !.lease = [r \in Resource |-> IF @[r].st = "recovery_needed"
                                     THEN [@[r] EXCEPT !.st = "released"] ELSE @[r]]]
    /\ up' = Nobody /\ work' = Idle
    /\ UNCHANGED <<report, faults>>

\* An orderly stop, or the process dies; either may leave the worker's task.
OffStop ==
    /\ up # Nobody
    /\ db' = [db EXCEPT !.inst[up] = "stopped"]
    /\ up' = Nobody /\ work' = Idle
    /\ UNCHANGED <<report, faults>>

OffCrash ==
    /\ up # Nobody /\ faults < MaxFaults
    /\ up' = Nobody /\ work' = Idle /\ faults' = faults + 1
    /\ UNCHANGED <<db, report>>

-----------------------------------------------------------------------------
(* The commands. *)

\* r is what the transaction decides.  A refusal, or a repeat that finds its work
\* done, changes nothing.  A reread that fails after COMMIT is reported as an error.
Run(tool, S, dec, r) ==
    /\ up = Nobody /\ r.out = "applied"
    /\ db' = r.db
    /\ \/ /\ report' = [tool |-> tool, tasks |-> S, dec |-> dec, result |-> "applied"]
          /\ UNCHANGED faults
       \/ /\ faults < MaxFaults
          /\ report' = [tool |-> tool, tasks |-> S, dec |-> dec, result |-> "unconfirmed"]
          /\ faults' = faults + 1
    /\ UNCHANGED <<up, work>>

RecoverPreacceptance(S) == Run("preacceptance", S, Nobody, RecoverTx(db, S))
RecoverSelected == Run("selected", {}, Nobody, SelectedTx(db))
ReconcileOrphaned == Run("orphaned", {}, Nobody, OrphanedTx(db))
ReconcileDelivery(S) == Run("delivery", S, Nobody, ReconcileDeliveryTx(db, S))
TerminalCleanup(dec) == Run("cleanup", {}, dec, CleanupTx(db, dec))
UnknownAbandon(t, dec) == Run("abandon", {t}, dec, AbandonTx(db, t, dec))
RecoverRuntime(k) == db.inst[k] # "absent" /\ Run("runtime", {}, k, RecoverRuntimeTx(db, k))

\* The requests parse_args lets through: tuples are not empty and name no
\* delivery twice, an audited command names its decision.
RecoverArgs == SUBSET OffTask \ {{}}
ReconcileArgs == SUBSET OffTask \ {{}}
CleanupArgs == Decision
AbandonArgs == OffTask \X Decision

OffNext ==
    \/ \E k \in Token : OffStart(k)
    \/ \E t \in OffTask : OffDispatch(t)
    \/ OffAcquire \/ OffAccept \/ OffReject \/ OffBegin \/ OffFinish
    \/ OffStop \/ OffCrash
    \/ \E S \in RecoverArgs : RecoverPreacceptance(S)
    \/ \E S \in ReconcileArgs : ReconcileDelivery(S)
    \/ RecoverSelected \/ ReconcileOrphaned
    \/ \E dec \in CleanupArgs : TerminalCleanup(dec)
    \/ \E a \in AbandonArgs : UnknownAbandon(a[1], a[2])
    \/ \E k \in Tokens : RecoverRuntime(k)

OffSpec == OffInit /\ [][OffNext]_offVars

-----------------------------------------------------------------------------
(* Properties. *)

\* A task that this release finished, live or offline, is finished in every
\* table: its admission is terminal, its delivery acknowledged and its
\* disposition terminal, and it holds no lease that blocks its resource.
ClosedIsWhole ==
    \A t \in OffTask : db.row[t].ev \in {"completed", "failed", "failed_pre"} =>
        /\ db.row[t].adm.st = "terminal" /\ db.row[t].ack # "no"
        /\ db.row[t].disp.st = "terminal" /\ db.row[t].queue # "open"
        /\ ~LeaseIs(db, t, "active") /\ ~LeaseIs(db, t, "recovery_needed")

\* A command that committed, also one that reported a failed reread, is
\* recognised when the operator runs it again: the repeat says so and changes
\* nothing.  recover-selected has nothing left to select and reconcile-delivery
\* writes the same rows again; reconcile-orphaned names no task and looks its
\* closure up, so it says "already" only while no second delivery was closed
\* before acceptance, and refuses when it finds several.
RepeatRecognised ==
    report.result \in {"applied", "unconfirmed"} =>
        CASE report.tool = "preacceptance" -> RecoverTx(db, report.tasks).out = "already"
          [] report.tool = "selected" -> Select(db).out = "empty"
          [] report.tool = "orphaned" ->
               OrphanedTx(db) =
                 Result(IF \E t \in OffTask : \A u \in OffTask :
                              db.row[u].ev = "failed_pre" /\ HasLease(db, u) <=> u = t
                        THEN "already" ELSE "refused", db)
          [] report.tool = "delivery" -> ReconcileDeliveryTx(db, report.tasks) = Result("applied", db)
          [] report.tool = "cleanup" -> CleanupTx(db, report.dec).out = "already"
          [] report.tool = "abandon" ->
               \A t \in report.tasks : AbandonTx(db, t, report.dec).out = "already"
          [] OTHER -> RecoverRuntimeTx(db, report.dec).out = "already"

\* While no runtime is up, the diagnosis and the selector tell of the same
\* delivery.  "eligible" promises that the recovery of the one candidate goes
\* through when it is named, and that the selector names it or none: it stops at
\* a conflict exactly when another delivery awaits acceptance without a lease of
\* its own, or under one its admitting runtime did not own, which the diagnosis
\* passes over.  What is selected is diagnosed as eligible or as still owned.
DiagnosisAgrees ==
    up = Nobody =>
        /\ Diagnose(db) = "eligible" =>
             \E t \in OffTask :
                /\ DiagnoseRow(db, t) = "candidate" /\ RecoverTx(db, {t}).out = "applied"
                /\ IF \E u \in OffTask : /\ db.row[u].ev = "dispatched" /\ db.row[u].ack = "no"
                                         /\ ~HasLease(db, u) \/ LeaseOf(db, u).owner # db.row[u].adm.own
                   THEN Select(db).out = "conflicting"
                   ELSE Select(db) = [out |-> "selected", tasks |-> {t}]
        /\ Select(db).out = "selected" => Diagnose(db) \in {"eligible", "active_owner"}

\* An abandoned turn gets no outcome it did not have: whatever commands and starts
\* follow, its task's version and its admission are those of the audit row, and while
\* the task is open the runtime is refused, so the work is not replayed.
AbandonedAsAudited ==
    \A a \in db.audit : a.kind = "abandon" =>
        /\ db.row[a.task].ver = a.ver /\ db.row[a.task].adm.rev = a.admRev
        /\ ~OffFinished(db, a.task) => up = Nobody /\ StartupBlocked(db)

\* The commands agree with the runtime, with each other and with their own repeats on
\* what is closed, what can be, and what stays open.
OfflineCloses == ClosedIsWhole /\ RepeatRecognised /\ DiagnosisAgrees /\ AbandonedAsAudited

\* A lease that needs recovery is released only together with its turn: the
\* task has no open continuation and its disposition is final, and either the
\* task failed or an audit row says who gave it up.
ReleaseAccountedFor ==
    [][\A r \in Resource :
         db.lease[r].st = "recovery_needed" /\ db'.lease[r].st = "released" =>
            LET t == db.lease[r].task
            IN  /\ db'.row[t].cont.st \in {"none", "terminal"}
                /\ db'.row[t].disp.st = "terminal"
                /\ db'.row[t].ev = "failed_pre" \/ AuditsOf(db', t) # {}]_offVars

=============================================================================
