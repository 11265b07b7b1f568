---------------------------- MODULE OwnerRepair ----------------------------
(***************************************************************************)
(* The three operator commands that repair runtime_instances rows left by  *)
(* an old release, whose fingerprint proves nothing about a process:       *)
(*   legacy    reconcile-isolated-legacy-owner: one owner, no open work;   *)
(*   binding   remediate-isolated-owner-binding: a finished task is bound  *)
(*             to the older of two owners and is bound to the newer;       *)
(*   fixture   migrate-isolated-legacy-fixture: two owners and one blocked *)
(*             continuation are closed.                                    *)
(* legacy and fixture first prepare a manifest that names the digest of    *)
(* the database before and after, and then execute it in one transaction;  *)
(* binding needs two transactions, the first of which publishes migration  *)
(* 0014.  A command holds the maintenance lock, so commands and a runtime  *)
(* of this release exclude one another; a process of the old release takes *)
(* no lock and is only seen by the preflight.                              *)
(***************************************************************************)
EXTENDS Naturals, FiniteSets

CONSTANTS
    Nil,
    Ops,          \* operation ids an operator may choose
    RepairFaults, \* bound: crashes, lost commit results, failed writes
    MaxManifests  \* bound: manifests published by one command

ASSUME RepairBounds == RepairFaults \in Nat /\ MaxManifests \in Nat

VARIABLES
    odb,          \* the committed database
    tx,           \* the working copy of the open write transaction, or Nil
    alive,        \* owners whose process runs
    marker,       \* kind -> operation named by the root marker, or Nil
    manifests,    \* kind -> manifests published
    evidence,     \* kind -> [op, result] of the evidence file, or Nil
    tool,         \* the running command
    told,         \* what the last command told the operator
    written,      \* TRUE once a commit changed the live file
    failed

repairVars == <<odb, tx, alive, marker, manifests, evidence, tool, told,
                written, failed>>

Kinds == {"legacy", "fixture"}
LegacyOwners == {"active", "older"}
Owners == LegacyOwners \cup {"fresh"}
NoTool == [kind |-> Nil, pc |-> "idle"]

---------------------------------------------------------------------------
(* The database.  own: state and heartbeat of each runtime_instances row;  *)
(* lease, adm, cont: the execution lease, the admission and the            *)
(* continuation of the one task; ledger: the newest applied migration.     *)

OwnerRow(state, heartbeat) == [state |-> state, hb |-> heartbeat]

\* Two owners, the task still bound to the older one.
PairDb ==
    [own |-> [o \in Owners |-> CASE o = "active" -> OwnerRow("active", "h0")
                                 [] o = "older" -> OwnerRow("stopping", "h0")
                                 [] OTHER -> OwnerRow("absent", "h0")],
     lease |-> [state |-> "released", owner |-> "older"],
     adm |-> [state |-> "terminal", owner |-> "older", rev |-> 1],
     cont |-> [state |-> "blocked", rev |-> 2],
     ledger |-> 13, witness |-> Nil, binding |-> Nil,
     receipts |-> [k \in Kinds |-> {}]]

\* One owner left, everything it owned is closed.
SingleDb ==
    [PairDb EXCEPT !.own["older"] = OwnerRow("stopped", "h0"),
                   !.lease.owner = "active", !.adm.owner = "active",
                   !.cont.state = "terminal"]

LiveRows(d) == {o \in Owners : d.own[o].state \in {"active", "stopping"}}
BusinessDigest(d) == <<d.own, d.lease, d.adm, d.cont>>

\* The digests of both manifest commands cover the schema version and the
\* rows; the legacy one names fewer columns and tables, none of which the
\* rows below leave out.
LogicalDigest(d) == <<d.ledger, d.own, d.lease, d.adm, d.cont>>
Snapshot(d) == <<d.ledger, BusinessDigest(d)>>
Digest(k, d) == IF k = "legacy" THEN LogicalDigest(d) ELSE Snapshot(d)

---------------------------------------------------------------------------
(* Eligibility and effect of the two manifest commands.                    *)

LegacyEligible(d) ==
    /\ Cardinality(LiveRows(d)) = 1 /\ LiveRows(d) \subseteq LegacyOwners
    /\ d.adm.state = "terminal" /\ d.lease.state = "released"
    /\ d.cont.state = "terminal"

FixtureEligible(d) ==
    /\ LiveRows(d) = LegacyOwners
    /\ d.own["active"].state = "active" /\ d.own["older"].state = "stopping"
    /\ d.cont.state = "blocked" /\ d.cont.rev >= 2
    /\ d.lease = [state |-> "released", owner |-> "active"]
    /\ d.adm.state = "terminal" /\ d.adm.owner = "active"

Eligible(k, d) == IF k = "legacy" THEN LegacyEligible(d) ELSE FixtureEligible(d)

\* Every live row becomes stopped with the heartbeat the operator committed
\* to; the fixture command also closes the continuation.
UpdateOwners(d, op) ==
    [d EXCEPT !.own = [o \in Owners |->
        IF o \in LiveRows(d) THEN OwnerRow("stopped", op) ELSE @[o]]]
UpdateContinuation(d) ==
    [d EXCEPT !.cont = [state |-> "terminal", rev |-> @.rev + 1]]
Applied(k, d, op) ==
    IF k = "legacy" THEN UpdateOwners(d, op)
    ELSE UpdateContinuation(UpdateOwners(d, op))

Siblings(k, d, op) == {r \in d.receipts[k] : r.op # op}
Receipt(m) == [op |-> m.op, pre |-> m.pre, post |-> m.post, sib |-> m.sib]
ReceiptsOf(k, d, op) == {r \in d.receipts[k] : r.op = op}

\* Mutant: the state the manifest was prepared for is not compared.
VerdictUnbound(k, d, m) ==
    IF Siblings(k, d, m.op) # m.sib THEN "rejected"
    ELSE IF ReceiptsOf(k, d, m.op) # {}
         THEN IF ReceiptsOf(k, d, m.op) = {Receipt(m)} THEN "already" ELSE "rejected"
    ELSE IF Eligible(k, d) THEN "applied" ELSE "rejected"

\* What the transaction decides: a receipt of this operation must be the one
\* the manifest binds and the state must still be the state it left; without
\* one the state must be the state the manifest was prepared for.
Verdict(k, d, m) ==
    IF Siblings(k, d, m.op) # m.sib THEN "rejected"
    ELSE IF ReceiptsOf(k, d, m.op) # {}
         THEN IF ReceiptsOf(k, d, m.op) = {Receipt(m)} /\ Digest(k, d) = m.post
              THEN "already" ELSE "rejected"
    ELSE IF Digest(k, d) = m.pre /\ Eligible(k, d)
              /\ Digest(k, Applied(k, d, m.op)) = m.post
         THEN "applied" ELSE "rejected"

Executed(k, d, m) ==
    LET done == Applied(k, d, m.op)
    IN  [done EXCEPT !.receipts[k] = @ \cup {Receipt(m)}]

---------------------------------------------------------------------------
(* Preflight: systemd says the unit is dead and the scan of /proc finds no *)
(* process of the deployment.                                              *)

RuntimeAbsent == alive = {}

\* The unit counts as stopped when systemd reports it dead without a main
\* process: a runtime of this release runs under the unit.
UnitStopped == "fresh" \notin alive

Tell(kind, result) == told' = [kind |-> kind, result |-> result]
Quiet == UNCHANGED <<alive, marker, manifests, evidence, written, failed>>
End(kind, result) == tool' = NoTool /\ tx' = Nil /\ Tell(kind, result)

\* A later preflight sees a process, cannot tell, or finds an identity
\* changed; the transaction is rolled back and nothing was written.
Refuse ==
    /\ tool.pc \in {"mark", "publish", "commit"}
    /\ End(tool.kind, "refused")
    /\ Quiet /\ UNCHANGED odb

\* prepare_manifest: preflights, then eligibility and both digests in one
\* read transaction.
PrepareRead(k, op) ==
    /\ tool = NoTool /\ UnitStopped /\ RuntimeAbsent
    /\ Cardinality(manifests[k]) < MaxManifests
    /\ Eligible(k, odb)
    /\ tool' = [kind |-> k, pc |-> "mark",
                man |-> [op |-> op, pre |-> Digest(k, odb),
                         post |-> Digest(k, Applied(k, odb, op)),
                         sib |-> Siblings(k, odb, op)]]
    /\ told' = Nil
    /\ Quiet /\ UNCHANGED <<odb, tx>>

\* ensure_marker: the root marker names this operation or is published now.
PrepareMark(k) ==
    /\ tool.pc = "mark" /\ tool.kind = k /\ RuntimeAbsent
    /\ LET op == tool.man.op
       IN  \/ /\ marker[k] \in {Nil, op}
              /\ marker' = [marker EXCEPT ![k] = op]
              /\ tool' = [tool EXCEPT !.pc = "publish"]
              /\ UNCHANGED <<tx, told>>
           \/ /\ marker[k] \notin {Nil, op}
              /\ End(k, "refused")
              /\ UNCHANGED marker
    /\ UNCHANGED <<odb, alive, manifests, evidence, written, failed>>

\* publish_new: the manifest appears complete or not at all.
PreparePublish(k) ==
    /\ tool.pc = "publish" /\ tool.kind = k
    /\ manifests' = [manifests EXCEPT ![k] = @ \cup {tool.man}]
    /\ End(k, "prepared")
    /\ UNCHANGED <<odb, alive, marker, evidence, written, failed>>

\* read_manifest and the authentication of the root: the manifest is one that
\* prepare published, and the root marker names its operation.
Authentic(k, m) == m \in manifests[k] /\ marker[k] = m.op

\* reconcile / migrate up to the end of the transaction body.
ExecuteBegin(k, m) ==
    /\ tool = NoTool /\ Authentic(k, m) /\ UnitStopped /\ RuntimeAbsent
    /\ LET verdict == Verdict(k, odb, m)
       IN  IF verdict = "rejected"
           THEN tool' = NoTool /\ tx' = Nil /\ Tell(k, "refused")
           ELSE /\ tx' = IF verdict = "applied" THEN Executed(k, odb, m) ELSE odb
                /\ tool' = [kind |-> k, pc |-> "commit", man |-> m,
                            verdict |-> verdict]
                /\ told' = Nil
    /\ Quiet /\ UNCHANGED odb

\* The preflights once more, then COMMIT; a failed COMMIT is reported as an
\* error and leaves the database as it was or as committed.
ExecuteCommit(k) ==
    /\ tool.pc = "commit" /\ tool.kind = k /\ RuntimeAbsent
    /\ \/ /\ odb' = tx /\ written' = (written \/ tx # odb)
          /\ tx' = Nil
          /\ tool' = [tool EXCEPT !.pc = "evidence"]
          /\ UNCHANGED <<told, failed>>
       \/ /\ failed < RepairFaults /\ failed' = failed + 1
          /\ odb' \in {tx, odb} /\ written' = (written \/ odb' # odb)
          /\ End(k, "error")
    /\ UNCHANGED <<alive, marker, manifests, evidence>>

\* publish: the evidence file is replaced by a rename, or the write fails
\* after the commit.
ExecuteEvidence(k) ==
    /\ tool.pc = "evidence" /\ tool.kind = k
    /\ \/ /\ evidence' = [evidence EXCEPT ![k] =
                              [op |-> tool.man.op, result |-> tool.verdict]]
          /\ End(k, tool.verdict)
          /\ UNCHANGED failed
       \/ /\ failed < RepairFaults /\ failed' = failed + 1
          /\ End(k, "error")
          /\ UNCHANGED evidence
    /\ UNCHANGED <<odb, alive, marker, manifests, written>>

\* The two commands, step by step.
LegacyPrepare(op) == PrepareRead("legacy", op)
LegacyMark == PrepareMark("legacy")
LegacyPublish == PreparePublish("legacy")
LegacyReconcile(m) == ExecuteBegin("legacy", m)
LegacyCommit == ExecuteCommit("legacy")
LegacyEvidence == ExecuteEvidence("legacy")

FixturePrepare(op) == PrepareRead("fixture", op)
FixtureMark == PrepareMark("fixture")
FixturePublish == PreparePublish("fixture")
FixtureMigrate(m) == ExecuteBegin("fixture", m)
FixtureCommit == ExecuteCommit("fixture")
FixtureEvidence == ExecuteEvidence("fixture")

---------------------------------------------------------------------------
(* The owner binding.  `Retained` is the backup the operator names: the    *)
(* database as it was before any command ran.                              *)

Retained == PairDb

\* load_facts: two legacy owners, the older one stopping and holding the one
\* released lease and the one terminal admission of a blocked continuation.
Facts(d) ==
    /\ LiveRows(d) = LegacyOwners
    /\ d.own["active"].state = "active" /\ d.own["older"].state = "stopping"
    /\ d.cont.state = "blocked" /\ d.cont.rev >= 2
    /\ d.lease = [state |-> "released", owner |-> "older"]
    /\ d.adm.state = "terminal" /\ d.adm.owner = "older"

LegacyAbsence(d) ==
    /\ d.ledger = 13 /\ d.witness = Nil
    /\ BusinessDigest(d) = BusinessDigest(Retained)
\* The ledger has migration 0014 and both its tables have its schema.
Authenticated0014(d) == d.ledger = 14
ExactWitness(d) ==
    /\ Authenticated0014(d)
    /\ d.witness = [business |-> BusinessDigest(Retained)]

Published(d) ==
    [d EXCEPT !.ledger = 14, !.witness = [business |-> BusinessDigest(Retained)]]

\* The receipt: the digests of the rows before and after.
BindingReceipt(before, after) ==
    [pre |-> BusinessDigest(before), post |-> BusinessDigest(after)]

\* execute_business: lease and admission move to the newer owner, and the
\* receipt records both states.
Rebound(d) ==
    LET moved == [d EXCEPT !.lease.owner = "active", !.adm.owner = "active",
                           !.adm.rev = @ + 1]
    IN  [moved EXCEPT !.binding = BindingReceipt(d, moved)]

ASSUME NilIsNoReceipt == Nil # BindingReceipt(Retained, Rebound(Retained))

\* receipt_repeat on an existing receipt: the retained facts and the current
\* rows must be what it records.
RepeatMatches(d) ==
    /\ d.binding.pre = BusinessDigest(Retained)
    /\ d.binding.post = BusinessDigest(d)

\* run_production wants the live files to hash to the set the operator
\* observed; remediate_paths leaves that to its caller.
SourceBound(entry) == entry = "production" => ~written
BindingBegin(entry) ==
    /\ tool = NoTool /\ UnitStopped /\ RuntimeAbsent
    /\ Facts(Retained) /\ SourceBound(entry)
    /\ \/ /\ odb.ledger = 13 /\ LegacyAbsence(odb)
          /\ tx' = Published(odb)
          /\ tool' = [kind |-> "binding", pc |-> "pub.commit"]
          /\ told' = Nil
       \/ /\ ExactWitness(odb)
          /\ tool' = [kind |-> "binding", pc |-> "run"]
          /\ told' = Nil /\ UNCHANGED tx
       \/ /\ ~LegacyAbsence(odb) /\ ~ExactWitness(odb)
          /\ End("binding", "refused")
    /\ Quiet /\ UNCHANGED odb

BindingProduction == BindingBegin("production")
BindingPaths == BindingBegin("paths")

\* A boundary inside the publication fails: ROLLBACK, then a fresh read that
\* must itself pass its boundary to tell a clean refusal.
PublicationAbort ==
    /\ tool.pc = "pub.commit"
    /\ \E result \in {"refused", "ambiguous"} : End("binding", result)
    /\ Quiet /\ UNCHANGED odb

PublicationCommit ==
    /\ tool.pc = "pub.commit"
    /\ \/ /\ odb' = tx /\ tool' = [kind |-> "binding", pc |-> "pub.reread", seen |-> "success"]
          /\ UNCHANGED failed
       \/ /\ failed < RepairFaults /\ failed' = failed + 1
          /\ odb' \in {tx, odb}
          /\ tool' = [kind |-> "binding", pc |-> "pub.reread", seen |-> "error"]
    /\ written' = (written \/ odb' # odb)
    /\ tx' = Nil
    /\ UNCHANGED <<alive, marker, manifests, evidence, told>>

\* Mutant: an error of COMMIT is believed.
ClassifyBelieving(seen, d) ==
    IF seen = "error" THEN "not-committed"
    ELSE IF ExactWitness(d) /\ d.binding = Nil THEN "complete" ELSE "ambiguous"

\* classify_publication on what a fresh connection reads.
Classify(seen, d) ==
    IF ExactWitness(d) /\ d.binding = Nil THEN "complete"
    ELSE IF seen = "error" /\ LegacyAbsence(d) THEN "not-committed"
    ELSE "ambiguous"

PublicationReread ==
    /\ tool.pc = "pub.reread"
    /\ LET class == Classify(tool.seen, odb)
       IN  \/ /\ class = "complete"
              /\ tool' = [kind |-> "binding", pc |-> "run"]
              /\ UNCHANGED <<tx, told>>
           \/ class # "complete" /\ End("publication", class)
           \/ End("binding", "ambiguous")
    /\ Quiet /\ UNCHANGED odb

\* Behind the publication: a receipt decides, otherwise the business
\* transaction is prepared.
RunBody ==
    /\ tool.pc = "run"
    /\ \/ /\ odb.binding # Nil
          /\ End("binding", IF RepeatMatches(odb) THEN "already" ELSE "refused")
       \/ /\ odb.binding = Nil
          /\ BusinessDigest(odb) = BusinessDigest(Retained)
          /\ Facts(odb) /\ FixtureEligible(Rebound(odb))
          /\ tx' = Rebound(odb)
          /\ tool' = [kind |-> "binding", pc |-> "run.commit"]
          /\ UNCHANGED told
       \/ /\ odb.binding = Nil
          /\ BusinessDigest(odb) # BusinessDigest(Retained)
          /\ End("binding", "refused")
    /\ Quiet /\ UNCHANGED odb

\* The boundary before the second COMMIT fails: the anchor (the retained
\* leaves and the live files by identity) or a preflight does not hold.
BoundaryFails ==
    /\ tool.pc = "run.commit"
    /\ End("binding", "refused")
    /\ Quiet /\ UNCHANGED odb

RunCommit ==
    /\ tool.pc = "run.commit"
    /\ \/ /\ odb' = tx /\ tool' = [kind |-> "binding", pc |-> "run.reread", seen |-> "success"]
          /\ UNCHANGED failed
       \/ /\ failed < RepairFaults /\ failed' = failed + 1
          /\ odb' \in {tx, odb}
          /\ tool' = [kind |-> "binding", pc |-> "run.reread", seen |-> "error"]
    /\ written' = (written \/ odb' # odb)
    /\ tx' = Nil
    /\ UNCHANGED <<alive, marker, manifests, evidence, told>>

\* fresh_business_reread, then the final match on receipt and commit result.
RunReread ==
    /\ tool.pc = "run.reread"
    /\ \/ End("binding",
              IF odb.binding # Nil /\ RepeatMatches(odb)
              THEN IF tool.seen = "error" THEN "adopted" ELSE "remediated"
              ELSE IF odb.binding = Nil
                        /\ BusinessDigest(odb) = BusinessDigest(Retained)
                   THEN "not-committed" ELSE "ambiguous")
       \/ End("binding", "ambiguous")
    /\ Quiet /\ UNCHANGED odb

---------------------------------------------------------------------------
(* The surroundings. *)

\* The command dies; SQLite rolls an open transaction back.
Die ==
    /\ tool # NoTool /\ failed < RepairFaults
    /\ failed' = failed + 1
    /\ tool' = NoTool /\ tx' = Nil /\ told' = Nil
    /\ UNCHANGED <<odb, alive, marker, manifests, evidence, written>>

\* A process of the old release renews its heartbeat, or ends.
OwnerHeartbeat ==
    /\ tx = Nil
    /\ \E o \in alive \cap LegacyOwners :
        /\ odb.own[o] = OwnerRow("active", "h0")
        /\ odb' = [odb EXCEPT !.own[o].hb = "h1"]
    /\ written' = TRUE /\ told' = Nil
    /\ UNCHANGED <<tx, alive, marker, manifests, evidence, tool, failed>>

OwnerExit ==
    /\ \E o \in alive : alive' = alive \ {o}
    /\ UNCHANGED <<odb, tx, marker, manifests, evidence, tool, told, written, failed>>

\* A runtime of this release starts: it applies every migration and inserts
\* its own row.
RuntimeStart ==
    /\ tool = NoTool /\ odb.own["fresh"].state = "absent"
    /\ odb' = [odb EXCEPT !.ledger = 14, !.own["fresh"] = OwnerRow("active", "h0")]
    /\ alive' = alive \cup {"fresh"}
    /\ written' = TRUE /\ told' = Nil
    /\ UNCHANGED <<tx, marker, manifests, evidence, tool, failed>>

RuntimeStop ==
    /\ tool = NoTool /\ "fresh" \in alive
    /\ alive' = alive \ {"fresh"}
    /\ odb' = [odb EXCEPT !.own["fresh"].state = "stopped"]
    /\ told' = Nil
    /\ UNCHANGED <<tx, marker, manifests, evidence, tool, written, failed>>

RepairInit ==
    /\ odb \in {PairDb, SingleDb}
    /\ alive \in {{}, {"active"}}
    /\ tx = Nil /\ tool = NoTool /\ told = Nil
    /\ marker = [k \in Kinds |-> Nil]
    /\ manifests = [k \in Kinds |-> {}]
    /\ evidence = [k \in Kinds |-> Nil]
    /\ written = FALSE /\ failed = 0

RepairNext ==
    \/ \E op \in Ops : LegacyPrepare(op) \/ FixturePrepare(op)
    \/ LegacyMark \/ LegacyPublish \/ FixtureMark \/ FixturePublish
    \/ \E m \in manifests["legacy"] : LegacyReconcile(m)
    \/ \E m \in manifests["fixture"] : FixtureMigrate(m)
    \/ LegacyCommit \/ LegacyEvidence \/ FixtureCommit \/ FixtureEvidence
    \/ BindingProduction \/ BindingPaths \/ BoundaryFails
    \/ PublicationAbort \/ PublicationCommit \/ PublicationReread
    \/ RunBody \/ RunCommit \/ RunReread
    \/ Refuse \/ Die
    \/ OwnerHeartbeat \/ OwnerExit \/ RuntimeStart \/ RuntimeStop

RepairSpec == RepairInit /\ [][RepairNext]_repairVars

---------------------------------------------------------------------------
(* Properties. *)

\* No command marks an owner stopped whose process still runs: what the
\* preflight saw is still true when the transaction commits.
NoLiveOwnerStopped == \A o \in alive : odb.own[o].state # "stopped"

\* The receipts a step adds bind the database right before and right after it, and a
\* step that stops a legacy owner adds one.
StopBound ==
    LET added(k) == odb'.receipts[k] \ odb.receipts[k]
        stops == {o \in LegacyOwners : odb'.own[o].state = "stopped"
                                       /\ odb.own[o].state # "stopped"}
    IN  /\ \A k \in Kinds : \A r \in added(k) :
             r.pre = Digest(k, odb) /\ r.post = Digest(k, odb')
        /\ stops # {} => Cardinality(UNION {added(k) : k \in Kinds}) = 1

\* A legacy owner is stopped only in the step that adds a receipt, and that
\* receipt binds the database right before and right after: no manifest is
\* executed on a state other than the one it was prepared for, however often
\* prepare and execute are rerun, killed or raced by a runtime.
ReceiptBindsStop == [][StopBound]_repairVars

\* What the operator is told is what a fresh look at the database shows,
\* lost commit results included.  "refused", "ambiguous" and "error" leave it
\* open: a refusal speaks of the command, which may come after an earlier
\* success, and "error" stands for every failure of or after COMMIT, some of
\* which the code prints as `rejected`.
ReportTrue ==
    told # Nil =>
      /\ told.result \in {"applied", "already"} /\ told.kind \in Kinds =>
            /\ odb.receipts[told.kind] # {}
            /\ LiveRows(odb) \cap LegacyOwners = {}
      /\ told.result \in {"remediated", "adopted", "already"} /\ told.kind \notin Kinds =>
            odb.binding # Nil /\ odb.lease.owner = "active" /\ odb.adm.owner = "active"
      /\ told.kind = "publication" /\ told.result = "not-committed" => LegacyAbsence(odb)
      /\ told.kind = "binding" /\ told.result = "not-committed" =>
            odb.binding = Nil /\ ExactWitness(odb)

\* A stopped owner is referred to by no lease and no admission of a task it
\* did not finish itself: the fixture command runs only behind the binding.
NoDanglingBinding ==
    odb.receipts["fixture"] # {} =>
        /\ odb.lease.owner = "active" /\ odb.adm.owner = "active"
        /\ odb.binding # Nil

\* The commands that repair owners stop none that runs, leave no row bound to a
\* stopped one, and tell the operator what the database shows.
RepairSound == NoLiveOwnerStopped /\ NoDanglingBinding /\ ReportTrue
============================================================================
