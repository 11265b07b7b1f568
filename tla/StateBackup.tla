---------------------------- MODULE StateBackup ----------------------------
(***************************************************************************)
(* The isolated state backup: the commands `backup`, `verify`, `restore`   *)
(* and `cleanup` of src/isolated_state_backup, run one at a time by an     *)
(* operator against one database directory, with the admission guard they  *)
(* take and the runtime that may be started in between.                    *)
(*                                                                         *)
(* A command is a sequence of file-system operations.  It is planned one   *)
(* journal step at a time: `todo` holds the operations still to be done,   *)
(* each an override of the directory (leaf :> content) or a sync, and      *)
(* `pend` the in-memory record that the step leaves behind.  Between any   *)
(* two operations the process may die, the machine may lose power (the     *)
(* directory falls back to its last sync), or an operation may fail.       *)
(***************************************************************************)
EXTENDS Naturals, Sequences, FiniteSets, TLC

CONSTANTS
    Absent,       \* a leaf that does not exist
    Torn,         \* a leaf created whose bytes are not complete
    MaxCrashes,   \* bound: process deaths and power losses
    MaxErrors,    \* bound: operations that return an I/O error
    MaxStarts     \* bound: runtime starts that change the directory

ASSUME BoundsAreNat ==
    MaxCrashes \in Nat /\ MaxErrors \in Nat /\ MaxStarts \in Nat

VARIABLES
    disk,         \* the directory: the content of every leaf
    synced,       \* the directory as of the last sync
    admission,    \* .runtime-admission.lock: the database identity it records
    cmd,          \* the command that runs, or "none"
    stage,        \* where the command is
    todo,         \* operations planned and not yet done
    pend,         \* the record in memory once todo is done
    rec,          \* the record in memory now
    runtime,      \* TRUE while the agent-bridge runtime runs
    crashes, errors, starts

vars == <<disk, synced, admission, cmd, stage, todo, pend, rec, runtime,
          crashes, errors, starts>>

---------------------------------------------------------------------------
(* Leaves. *)

Journals == {"restore", "cleanup.backup", "cleanup.restore", "witness"}
Current(j) == j \o ".v1"
Following(j) == j \o ".next"
Previous(j) == j \o ".prev"
JournalLeaves == [j \in Journals |-> {Current(j), Following(j), Previous(j)}]

Database == {"state.db", "state.db-wal", "state.db-shm"}
Quarantine == [shm |-> "pre-restore.shm", wal |-> "pre-restore.wal",
               main |-> "pre-restore.main"]
Fixed == [shm |-> "state.db-shm", wal |-> "state.db-wal", main |-> "state.db"]
Parts == {"shm", "wal", "main"}
DatabaseFiles == Database \cup {Quarantine[x] : x \in Parts}

NamespaceLeaves ==
    {"lock", "snapshot.tmp", "snapshot", "manifest.tmp", "manifest",
     "manifest.quarantine", "restore.new"}
    \cup {Quarantine[x] : x \in Parts}
    \cup UNION {JournalLeaves[j] : j \in Journals \ {"witness"}}

Leaves == Database \cup {"namespace"} \cup NamespaceLeaves
          \cup JournalLeaves["witness"]

Present(f) == disk[f] # Absent

\* Contents of a database leaf: those of the original set, of the published copy
\* or of a database a start created; the same file with other bytes, or with
\* other bytes and another size; and the log and index a start made over one.
Lineages == {"orig", "copy", "fresh"}
Rewritten(l) == l \o ".rewritten"
Grown(l) == l \o ".grown"
Opened(l) == l \o ".opened"
Forms == [l \in Lineages |-> {l, Rewritten(l), Grown(l)}]

\* fs::same compares device, inode, size, owner and mode, not the bytes.
Identity(c) ==
    IF \E l \in Lineages : c = Rewritten(l)
    THEN CHOOSE l \in Lineages : c = Rewritten(l) ELSE c
Same(f, content) ==
    /\ Present(f)
    /\ \/ disk[f] = content
       \/ f \in DatabaseFiles /\ Identity(disk[f]) = Identity(content)

---------------------------------------------------------------------------
(* File-system operations: overrides of the directory. *)

Create(f) == f :> Torn
Write(f, content) == f :> content
Rename(f, g, content) == (f :> Absent) @@ (g :> content)
Unlink(f) == f :> Absent
Sync == [f \in {} |-> Absent]

\* What a leaf decodes to: RestoreRecord, cleanup Record, Manifest and the
\* witness all end in a digest of their bytes, so a torn leaf decodes to
\* nothing.
Decodes(f) == disk[f] # Torn

\* Mutant: the current record is dropped before its successor has its name.
TransitionDropsCurrent(j, old, new) ==
    << Create(Following(j)), Write(Following(j), new), Sync,
       Unlink(Current(j)), Sync,
       Rename(Following(j), Current(j), new), Sync >>

\* create_leaf NEXT; write; sync; CURRENT -> PREV; sync; NEXT -> CURRENT;
\* sync; unlink PREV; sync.
TransitionOps(j, old, new) ==
    << Create(Following(j)), Write(Following(j), new), Sync,
       Rename(Current(j), Previous(j), old), Sync,
       Rename(Following(j), Current(j), new), Sync,
       Unlink(Previous(j)), Sync >>

\* transition() refuses while NEXT or PREV is still there.
MayTransition(j) == ~Present(Following(j)) /\ ~Present(Previous(j))

InitialOps(j, new) == << Create(Current(j)), Write(Current(j), new), Sync >>

\* RestoreRecord successor: the next sequence number over the same originals.
Successor(a, b) ==
    /\ b.sequence = a.sequence + 1
    /\ b.originals = a.originals

\* cleanup_journal::follows and cleanup_witness::follows.
Follows(j, a, b) ==
    IF j = "witness" THEN b.phase = a.phase + 1 /\ b.record = a.record
    ELSE IF j = "restore" THEN Successor(a, b)
    ELSE b.sequence = a.sequence + 1 /\ b.old = a.old /\ b.lock = a.lock

\* The interrupted transitions adopt() completes.
CurrentOnly(j) == Present(Current(j)) /\ MayTransition(j)
NextWritten(j) ==
    /\ Present(Current(j)) /\ Present(Following(j)) /\ ~Present(Previous(j))
    /\ Follows(j, disk[Current(j)], disk[Following(j)])
CurrentMoved(j) ==
    /\ ~Present(Current(j)) /\ Present(Following(j)) /\ Present(Previous(j))
    /\ Follows(j, disk[Previous(j)], disk[Following(j)])
PreviousLeft(j) ==
    /\ Present(Current(j)) /\ ~Present(Following(j)) /\ Present(Previous(j))
    /\ Follows(j, disk[Previous(j)], disk[Current(j)])

NoJournal(j) == \A f \in JournalLeaves[j] : ~Present(f)
Adoptable(j) ==
    /\ \A f \in JournalLeaves[j] : Decodes(f)
    /\ NoJournal(j) \/ CurrentOnly(j) \/ NextWritten(j) \/ CurrentMoved(j)
        \/ PreviousLeft(j)

AdoptedRecord(j) ==
    IF NoJournal(j) THEN Absent
    ELSE IF Present(Following(j)) THEN disk[Following(j)] ELSE disk[Current(j)]

AdoptOps(j) ==
    LET cur == disk[Current(j)]
        nxt == disk[Following(j)]
        retire == << Unlink(Previous(j)), Sync >>
        publish == << Rename(Following(j), Current(j), nxt), Sync >> \o retire
    IN  IF NoJournal(j) \/ CurrentOnly(j) THEN << Sync >>
        ELSE IF NextWritten(j)
             THEN << Rename(Current(j), Previous(j), cur), Sync >> \o publish
        ELSE IF CurrentMoved(j) THEN publish
        ELSE retire

---------------------------------------------------------------------------
(* The admission guard and the start of the runtime. *)

RestoreMarkers == JournalLeaves["restore"] \cup {"restore.new"}
                  \cup {Quarantine[x] : x \in Parts}
CleanupMarkers == JournalLeaves["cleanup.restore"]
                  \cup JournalLeaves["cleanup.backup"]
                  \cup {"manifest.quarantine"} \cup JournalLeaves["witness"]

\* reject_restore_interlock: only a restore may start over restore markers.
Interlocked(kind) ==
    \/ \E f \in CleanupMarkers : Present(f)
    \/ kind # "restore" /\ \E f \in RestoreMarkers : Present(f)

\* Guard::acquire.  The database must exist, for its identity is recorded; a
\* lock left by a dead process is taken over only if it records the same
\* database.
MayAcquire(kind) ==
    /\ ~Interlocked(kind)
    /\ Present("state.db")
    /\ admission \in {Absent, disk["state.db"]}

\* Something holds the earlier identity or hash of a database file: a lock left
\* behind, or the journal of a restore that goes on.
Recorded ==
    \/ admission # Absent
    \/ \E f \in JournalLeaves["restore"] :
          /\ disk[f] \notin {Absent, Torn}
          /\ disk[f].phase \notin {"Committed", "Restored"}

\* What becomes of a file the runtime opens.  Bound: it is changed once, and
\* only when somebody could tell.
Touched(c) == IF c \in Lineages /\ Recorded THEN Forms[c] ELSE {c}

\* The main file a start finds, or creates.
MainOpened == IF Present("state.db") THEN disk["state.db"] ELSE "fresh"

\* The log and the index it leaves: gone if the last connection closed, else
\* there, the log as it was or longer, and of its own making where it found none
\* of the main file's.
LogsLeft ==
    LET own == Opened(CHOOSE l \in Lineages : MainOpened \in Forms[l])
        kept(f) == IF Present("state.db") /\ Present(f) THEN disk[f] ELSE own
    IN  {("state.db-wal" :> Absent) @@ ("state.db-shm" :> Absent)}
        \cup {("state.db-wal" :> w) @@ ("state.db-shm" :> kept("state.db-shm")) :
               w \in Touched(kept("state.db-wal")) \ {Rewritten("orig")}}

\* start_config_inner: connect (create_if_missing, journal mode WAL) and migrate
\* come before the guard, so a start that the guard refuses has already opened
\* the database, and it returns without closing the pool.
StartRuntime ==
    /\ cmd = "none" /\ ~runtime
    /\ \E main \in Touched(MainOpened), logs \in LogsLeft :
          disk' = ("state.db" :> main) @@ logs @@ disk
    /\ starts' = IF disk' = disk THEN starts ELSE starts + 1
    /\ starts' <= MaxStarts
    /\ runtime' = (~Interlocked("startup")
                   /\ admission \in {Absent, disk'["state.db"]})
    /\ admission' = IF runtime' THEN Absent ELSE admission
    /\ synced' = disk'
    /\ UNCHANGED <<cmd, stage, todo, pend, rec, crashes, errors>>

StopRuntime ==
    /\ runtime /\ runtime' = FALSE
    /\ UNCHANGED <<disk, synced, admission, cmd, stage, todo, pend, rec,
                   crashes, errors, starts>>

---------------------------------------------------------------------------
(* How a command moves on and how it ends. *)

Plan(ops, record, next) ==
    /\ todo' = ops /\ pend' = record /\ stage' = next
    /\ UNCHANGED <<disk, synced, admission, cmd, rec, runtime, crashes,
                   errors, starts>>

Goto(next) ==
    /\ stage' = next
    /\ UNCHANGED <<disk, synced, admission, cmd, todo, pend, rec, runtime,
                   crashes, errors, starts>>

\* The command returns over directory d; Guard::drop removes the admission
\* lock of the commands that took one.
ReturnOver(d) ==
    /\ disk' = d /\ synced' = IF d = disk THEN synced ELSE d
    /\ admission' = IF cmd = "cleanup" THEN admission ELSE Absent
    /\ cmd' = "none" /\ stage' = "idle" /\ todo' = <<>>
    /\ pend' = Absent /\ rec' = Absent
    /\ UNCHANGED <<runtime, crashes, starts>>

\* operation.preserve(), or nothing held: the operation lock stays.
Return == ReturnOver(disk) /\ UNCHANGED errors
\* OperationLock dropped while armed: it removes its leaf.
ReturnUnlocked == ReturnOver(Unlink("lock") @@ disk) /\ UNCHANGED errors

Begin(c, ops, record, next) ==
    /\ cmd = "none" /\ ~runtime
    /\ cmd' = c /\ stage' = next /\ todo' = ops /\ pend' = record
    /\ admission' = IF c = "cleanup" THEN admission ELSE disk["state.db"]
    /\ UNCHANGED <<disk, synced, rec, runtime, crashes, errors, starts>>

At(c, s) == cmd = c /\ stage = s /\ todo = <<>>

\* One planned operation is carried out.
FsStep ==
    /\ todo # <<>>
    /\ disk' = Head(todo) @@ disk
    /\ synced' = IF DOMAIN Head(todo) = {} THEN disk ELSE synced
    /\ todo' = Tail(todo)
    /\ rec' = IF Len(todo) = 1 THEN pend ELSE rec
    /\ UNCHANGED <<admission, cmd, stage, pend, runtime, crashes, errors,
                   starts>>

\* OperationLock::acquire, an exclusive create.
LockOps == << Write("lock", cmd), Sync >>

FinishLock(c, s) ==
    /\ At(c, s)
    /\ Plan(<< Unlink("lock"), Sync >>, rec, "return")

Finished ==
    /\ stage = "return" /\ todo = <<>>
    /\ Return

---------------------------------------------------------------------------
(* backup and verify. *)

Sidecars == [wal : {Absent, disk["state.db-wal"], "empty"},
             shm : {Absent, disk["state.db-shm"], "new"}]
SidecarsNow == [wal |-> disk["state.db-wal"], shm |-> disk["state.db-shm"]]
NoSidecars == [wal |-> Absent, shm |-> Absent]

\* validate_created_sidecars: SQLite may create an empty log and its index
\* when it opens the database, both together, and drop both when it closes.
ValidateCreated(seen, base) ==
    LET created == [wal |-> "empty", shm |-> "new"]
    IN  IF base = Absent THEN seen \in {NoSidecars, created}
        ELSE IF base = NoSidecars THEN seen = NoSidecars
        ELSE base = created /\ seen \in {NoSidecars, created}

\* validate_observation of the set seen at a stage against the set before the
\* copy (s0) and the set seen inside the transaction (base).
ValidateObservation(s0, seen, base) ==
    IF s0 = NoSidecars THEN ValidateCreated(seen, base)
    ELSE /\ s0.wal = seen.wal
         /\ LET b == IF base = Absent THEN Absent ELSE base.shm
            IN  \/ s0.shm = Absent /\ b = Absent
                \/ s0.shm = Absent /\ b # Absent /\ seen.shm \in {b, Absent}
                \/ s0.shm # Absent /\ b # Absent /\ s0.shm = b
                   /\ seen.shm \in {b, Absent}
                \/ s0.shm # Absent /\ b = Absent /\ s0.shm = seen.shm

\* The log is consumed by the copy only if every observation was accepted.
Accepted(s0, s3, s5, s7) ==
    /\ ValidateObservation(s0, s3, Absent)
    /\ ValidateObservation(s0, s5, s3)
    /\ ValidateObservation(s0, s7, s3)

\* Bound: one backup cycle, of the original database.
BeginBackup ==
    /\ MayAcquire("backup") /\ disk["state.db"] \in Forms["orig"]
    /\ ~Present("namespace")
    /\ Begin("backup", << Write("namespace", "dir"), Sync >>, Absent, "lock")

BackupLock == At("backup", "lock") /\ Plan(LockOps, Absent, "snapshot")

\* create_locked up to the publication of the snapshot; a refused observation
\* rolls the publication back.
BackupSnapshot ==
    /\ At("backup", "snapshot")
    /\ \E s3, s5, s7 \in Sidecars :
        LET seen == ("state.db-wal" :> s7.wal) @@ ("state.db-shm" :> s7.shm)
        IN  IF Accepted(SidecarsNow, s3, s5, s7)
            THEN Plan(<< Create("snapshot.tmp"), seen,
                         Write("snapshot.tmp", "snap"), Sync,
                         Rename("snapshot.tmp", "snapshot", "snap"), Sync >>,
                      Absent, "manifest")
            ELSE Plan(<< Create("snapshot.tmp") >>, Absent, "unpublish")

BackupManifest ==
    /\ At("backup", "manifest")
    /\ Plan(<< Create("manifest.tmp"), Write("manifest.tmp", "manifest"),
               Rename("manifest.tmp", "manifest", "manifest"), Sync >>,
            Absent, "finish")

\* Publication::rollback unlinks what was published, last leaf first; then the
\* lock and the namespace go.
BackupUnpublish ==
    LET leaves == SelectSeq(<<"manifest", "manifest.tmp", "snapshot",
                              "snapshot.tmp", "lock", "namespace">>, Present)
    IN  /\ At("backup", "unpublish")
        /\ Plan([i \in 1..(2 * Len(leaves)) |->
                    IF i % 2 = 1 THEN Unlink(leaves[(i + 1) \div 2]) ELSE Sync],
                Absent, "return")

BeginVerify ==
    /\ MayAcquire("backup-verify")
    /\ Present("namespace") /\ ~Present("lock")
    /\ Begin("verify", << Write("lock", "verify"), Sync >>, Absent, "finish")

---------------------------------------------------------------------------
(* restore: the forward path. *)

RollbackPhases ==
    {"RollbackStart", "RollbackIntentRemoveNew", "RollbackNewAbsent",
     "RollbackIntentMain", "RollbackMain", "RollbackIntentWal", "RollbackWal",
     "RollbackIntentShm", "RollbackShm", "RollbackVerifying", "Restored"}
IntentOf == [shm |-> "IntentShm", wal |-> "IntentWal", main |-> "IntentMain"]

\* restore::next: the successor record, journalled before it is used.
Succ(phase, bits) ==
    [rec EXCEPT !.sequence = @ + 1, !.phase = phase, !.bits = bits]
JournalOps(new) == TransitionOps("restore", disk[Current("restore")], new)

\* What an error means where the command stands: before the publication is
\* acknowledged a forward error rolls back, after it the journal is kept.
RestoreFails ==
    IF stage = "rollback" \/ "published" \in rec.bits
    THEN Return
    ELSE Goto("rollback")

\* Carry out ops, then journal the successor.
Advance(ops, phase, bits, next) ==
    IF MayTransition("restore")
    THEN Plan(ops \o JournalOps(Succ(phase, bits)), Succ(phase, bits), next)
    ELSE RestoreFails

\* restore(): the guard, the manifest and the snapshot, then journal::adopt.
BeginRestore ==
    /\ MayAcquire("restore")
    /\ Same("manifest", "manifest") /\ Same("snapshot", "snap")
    /\ Adoptable("restore")
    /\ Begin("restore", AdoptOps("restore"), AdoptedRecord("restore"), "adopted")

\* acquire_resume wants the lock of the interrupted run, acquire wants none.
RestoreLock ==
    /\ At("restore", "adopted")
    /\ IF (rec # Absent) # Present("lock") THEN Return
       ELSE IF rec = Absent THEN Plan(LockOps, Absent, "initial")
       ELSE Goto(IF rec.phase \in RollbackPhases THEN "rollback" ELSE "forward")

\* The current set must hash to the operator's expectation, else the lock goes.
RestoreInitial ==
    LET first == [sequence |-> 0, phase |-> "Prepared", bits |-> {},
                  originals |-> [x \in Parts |-> disk[Fixed[x]]],
                  replacement |-> FALSE]
    IN  /\ At("restore", "initial")
        /\ \/ Plan(InitialOps("restore", first), first, "started")
           \/ ReturnUnlocked

RestoreStarted == At("restore", "started") /\ Goto("forward")

\* Mutant: the main file goes first.
ToQuarantineMainFirst ==
    SelectSeq(<<"main", "wal", "shm">>,
              LAMBDA x : x \notin rec.bits /\ rec.originals[x] # Absent)

\* The next original to move away: shm, then wal, then main.
ToQuarantine ==
    SelectSeq(<<"shm", "wal", "main">>,
              LAMBDA x : x \notin rec.bits /\ rec.originals[x] # Absent)

\* quarantine(): intent, rename, acknowledge.
RestoreQuarantine ==
    /\ At("restore", "forward") /\ rec.phase # "Committed"
    /\ ToQuarantine # <<>>
    /\ LET x == Head(ToQuarantine)
           fixed == Fixed[x]
           aside == Quarantine[x]
           want == rec.originals[x]
       IN  IF rec.phase # IntentOf[x]
           THEN Advance(<<>>, IntentOf[x], rec.bits, "forward")
           ELSE IF Same(fixed, want) /\ ~Present(aside)
           THEN Advance(<< Rename(fixed, aside, disk[fixed]), Sync >>,
                        IntentOf[x], rec.bits \cup {x}, "forward")
           ELSE IF ~Present(fixed) /\ Same(aside, want)
           THEN Advance(<< Sync >>, IntentOf[x], rec.bits \cup {x}, "forward")
           ELSE RestoreFails

\* Every original is aside: Quarantined, then IntentNew, once per run.
RestoreQuarantined ==
    /\ At("restore", "forward") /\ rec.phase # "Committed"
    /\ ToQuarantine = <<>> /\ "new" \notin rec.bits
    /\ IF rec.phase # "Quarantined"
       THEN Advance(<<>>, "Quarantined", rec.bits, "forward")
       ELSE Advance(<<>>, "IntentNew", rec.bits, "copy")

\* The replacement is created and copied if it is absent, else it is adopted
\* as it stands.
RestoreCopy ==
    /\ At("restore", "copy")
    /\ LET full == [rec EXCEPT !.replacement = TRUE]
       IN  IF ~Present("restore.new")
           THEN Plan(<< Create("restore.new"), Write("restore.new", "copy"),
                        Sync >>, full, "durable")
           ELSE IF Same("restore.new", "copy") THEN Plan(<< Sync >>, full, "durable")
           ELSE RestoreFails

RestoreDurable ==
    /\ At("restore", "durable")
    /\ Advance(<<>>, "NewDurable", rec.bits \cup {"new"}, "forward")

\* The rename that publishes, or its acknowledgement after an interruption.
RestorePublish ==
    /\ At("restore", "forward") /\ rec.phase # "Committed"
    /\ "new" \in rec.bits /\ "published" \notin rec.bits
    /\ LET bits == rec.bits \cup {"published"}
       IN  IF rec.phase # "IntentPublish"
           THEN Advance(<<>>, "IntentPublish", rec.bits, "forward")
           ELSE IF Present("restore.new") /\ ~Present("state.db")
           THEN Advance(<< Rename("restore.new", "state.db", "copy"), Sync >>,
                        "Published", bits, "forward")
           ELSE IF ~Present("restore.new") /\ Same("state.db", "copy")
           THEN Advance(<<>>, "Published", bits, "forward")
           ELSE RestoreFails

RestoreCommit ==
    /\ At("restore", "forward") /\ rec.phase # "Committed"
    /\ "published" \in rec.bits
    /\ IF disk["state.db"] # "copy" THEN RestoreFails
       ELSE IF "verified" \notin rec.bits
       THEN Advance(<<>>, "Verified", rec.bits \cup {"verified"}, "forward")
       ELSE Advance(<<>>, "Committed", rec.bits, "forward")

RestoreFinish ==
    /\ At("restore", "forward") /\ rec.phase = "Committed"
    /\ FinishLock("restore", "forward")

---------------------------------------------------------------------------
(* restore: the rollback. *)

\* rollback::restore_one with the moved flag of the record.
RestoreOne(x, moved, phase) ==
    LET fixed == Fixed[x]
        aside == Quarantine[x]
        want == rec.originals[x]
    IN  IF Same(fixed, want) /\ ~Present(aside)
        THEN Advance(IF moved THEN << Sync >> ELSE <<>>, phase, rec.bits, "rollback")
        ELSE IF moved /\ ~Present(fixed) /\ Same(aside, want)
        THEN Advance(<< Rename(aside, fixed, disk[aside]), Sync >>, phase, rec.bits,
                     "rollback")
        ELSE Return

\* advance_sidecar, and the same choice for the main file.
RollbackPart(x, intent, done) ==
    IF rec.originals[x] = Absent
    THEN IF ~Present(Fixed[x]) /\ ~Present(Quarantine[x])
         THEN Advance(<<>>, done, rec.bits, "rollback")
         ELSE Return
    ELSE IF x \in rec.bits THEN Advance(<<>>, intent, rec.bits, "rollback")
    ELSE RestoreOne(x, FALSE, done)

\* rollback::run, one journalled phase at a time.
RestoreRollback ==
    /\ At("restore", "rollback")
    /\ LET to(phase) == Advance(<<>>, phase, rec.bits, "rollback")
       IN  CASE rec.phase \notin RollbackPhases -> to("RollbackStart")
             [] rec.phase = "RollbackStart" -> to("RollbackIntentRemoveNew")
             [] rec.phase = "RollbackIntentRemoveNew" ->
                  IF ~Present("restore.new")
                  THEN Advance(<< Sync >>, "RollbackNewAbsent", rec.bits, "rollback")
                  ELSE IF rec.replacement /\ Same("restore.new", "copy")
                  THEN Advance(<< Unlink("restore.new"), Sync >>,
                               "RollbackNewAbsent", rec.bits, "rollback")
                  ELSE Return
             [] rec.phase = "RollbackNewAbsent" ->
                  RollbackPart("main", "RollbackIntentMain", "RollbackMain")
             [] rec.phase = "RollbackIntentMain" ->
                  RestoreOne("main", TRUE, "RollbackMain")
             [] rec.phase = "RollbackMain" ->
                  RollbackPart("wal", "RollbackIntentWal", "RollbackWal")
             [] rec.phase = "RollbackIntentWal" ->
                  RestoreOne("wal", TRUE, "RollbackWal")
             [] rec.phase = "RollbackWal" ->
                  RollbackPart("shm", "RollbackIntentShm", "RollbackShm")
             [] rec.phase = "RollbackIntentShm" ->
                  RestoreOne("shm", TRUE, "RollbackShm")
             [] rec.phase = "RollbackShm" -> to("RollbackVerifying")
             [] rec.phase = "RollbackVerifying" ->
                  IF [x \in Parts |-> disk[Fixed[x]]] = rec.originals
                  THEN to("Restored") ELSE Return
             [] OTHER -> Return

---------------------------------------------------------------------------
(* cleanup. *)

CleanupJournal(kind) ==
    IF kind = "Backup" THEN "cleanup.backup" ELSE "cleanup.restore"

\* The phases in order; the originals and the restore journal are removed by
\* the cleanup of a restore only.
CleanupPhases(kind) ==
    <<"Ready", "IntentManifest", "ManifestDisabled">>
    \o (IF kind = "Restore"
        THEN <<"IntentShm", "ShmRemoved", "IntentWal", "WalRemoved", "IntentMain">>
        ELSE <<>>)
    \o <<"MainRemoved", "IntentSnapshot", "SnapshotRemoved",
         "IntentManifestRemove", "ManifestRemoved">>
    \o (IF kind = "Restore"
        THEN <<"IntentRestoreJournal", "RestoreJournalRemoved">> ELSE <<>>)
    \o <<"Terminal">>

PhaseAfter(r) ==
    LET phases == CleanupPhases(r.kind)
        i == CHOOSE k \in DOMAIN phases : phases[k] = r.phase
    IN  phases[i + 1]

\* The leaf an intent phase removes and the content it must have.
Removes(r) ==
    CASE r.phase = "IntentShm" -> <<"pre-restore.shm", r.old.shm>>
      [] r.phase = "IntentWal" -> <<"pre-restore.wal", r.old.wal>>
      [] r.phase = "IntentMain" -> <<"pre-restore.main", r.old.main>>
      [] r.phase = "IntentSnapshot" -> <<"snapshot", "snap">>
      [] r.phase = "IntentManifestRemove" -> <<"manifest.quarantine", "manifest">>
      [] r.phase = "IntentRestoreJournal" -> <<Current("restore"), r.journal>>
      [] OTHER -> <<>>

\* remove_exact, and the check that a leaf not recorded is absent.
MayRemove(f, want) == ~Present(f) \/ Same(f, want)
RemoveOps(f) == IF Present(f) THEN << Unlink(f), Sync >> ELSE << Sync >>

\* cleanup(): the witness of an earlier run is adopted first.
BeginCleanup ==
    /\ Adoptable("witness")
    /\ Present("namespace") \/ ~NoJournal("witness")
    /\ Begin("cleanup", AdoptOps("witness"), AdoptedRecord("witness"), "witnessed")

CleanupAdopt ==
    LET b == "cleanup.backup"
        r == "cleanup.restore"
    IN  /\ At("cleanup", "witnessed")
        /\ IF rec # Absent THEN Goto("resume")
           ELSE IF ~Present("namespace") \/ ~Adoptable(b) \/ ~Adoptable(r)
                   \/ (~NoJournal(b) /\ ~NoJournal(r))
           THEN Return
           ELSE Plan(AdoptOps(b) \o AdoptOps(r),
                     IF NoJournal(b) THEN AdoptedRecord(r) ELSE AdoptedRecord(b),
                     "claimed")

\* Mutant: a resumed cleanup takes a lock of its own.
CleanupLockFresh ==
    /\ At("cleanup", "claimed")
    /\ IF Present("lock") THEN Return
       ELSE IF rec # Absent THEN Plan(LockOps, rec, "drive")
       ELSE Plan(LockOps, Absent, "create")

\* A resumed cleanup must find the very lock its record names.
CleanupLock ==
    /\ At("cleanup", "claimed")
    /\ IF rec # Absent
       THEN IF Same("lock", rec.lock) THEN Goto("drive") ELSE Return
       ELSE IF Present("lock") THEN Return ELSE Plan(LockOps, Absent, "create")

\* create_record: a backup, or a restore that committed; anything else is
\* refused and the lock goes.
CleanupCreate ==
    LET done == AdoptedRecord("restore")
        kind == IF done = Absent THEN "Backup" ELSE "Restore"
        first == [kind |-> kind, sequence |-> 0, phase |-> "Ready",
                  lock |-> "cleanup", journal |-> done,
                  old |-> [x \in Parts |->
                            IF kind = "Restore" /\ x \in done.bits
                            THEN done.originals[x] ELSE Absent]]
    IN  /\ At("cleanup", "create")
        /\ IF Same("manifest", "manifest") /\ Same("snapshot", "snap")
              /\ Adoptable("restore")
              /\ (done # Absent => done.phase = "Committed")
           THEN Plan(AdoptOps("restore") \o InitialOps(CleanupJournal(kind), first),
                     first, "created")
           ELSE ReturnUnlocked

CleanupCreated == At("cleanup", "created") /\ Goto("drive")

\* drive(): one phase, its effect before its acknowledgement.
CleanupDrive ==
    LET new == [rec EXCEPT !.sequence = @ + 1, !.phase = PhaseAfter(rec)]
        j == CleanupJournal(rec.kind)
        go(ops) == IF MayTransition(j)
                   THEN Plan(ops \o TransitionOps(j, rec, new), new, "drive")
                   ELSE Return
    IN  /\ At("cleanup", "drive") /\ rec.phase # "Terminal"
        /\ IF rec.phase = "IntentManifest"
           THEN IF Same("manifest", "manifest") /\ ~Present("manifest.quarantine")
                THEN go(<< Rename("manifest", "manifest.quarantine", "manifest"),
                           Sync >>)
                ELSE IF ~Present("manifest")
                        /\ Same("manifest.quarantine", "manifest")
                THEN go(<< Sync >>) ELSE Return
           ELSE IF Removes(rec) = <<>> THEN go(<<>>)
           ELSE IF MayRemove(Removes(rec)[1], Removes(rec)[2])
                THEN go(RemoveOps(Removes(rec)[1])) ELSE Return

\* cleanup_witness::finish starts the record beside the namespace.
CleanupWitness ==
    LET first == [phase |-> 1, record |-> rec]
    IN  /\ At("cleanup", "drive") /\ rec.phase = "Terminal"
        /\ Plan(InitialOps("witness", first), first, "witness")

\* The steps of finish() and of resume(): the cleanup journal, the lock, the
\* namespace, each removed between two phases of the witness; then the
\* witness itself.
WitnessStep ==
    LET new == [rec EXCEPT !.phase = @ + 1]
        go(ops) == Plan(ops \o TransitionOps("witness", rec, new), new, stage)
    IN  /\ cmd = "cleanup" /\ stage \in {"witness", "resume"} /\ todo = <<>>
        /\ CASE rec.phase = 2 ->
                  go(RemoveOps(Current(CleanupJournal(rec.record.kind))))
             [] rec.phase = 4 ->
                  IF MayRemove("lock", rec.record.lock)
                  THEN go(RemoveOps("lock")) ELSE Return
             [] rec.phase = 6 ->
                  IF \A f \in NamespaceLeaves : ~Present(f)
                  THEN go(RemoveOps("namespace")) ELSE Return
             [] rec.phase = 8 -> Plan(RemoveOps(Current("witness")), rec, "return")
             [] OTHER -> go(<<>>)

---------------------------------------------------------------------------
(* Faults. *)

\* The process dies, or the machine loses power and only what was synced is
\* there again.  The admission lock was synced when it was created.
Crash ==
    /\ cmd # "none" /\ crashes < MaxCrashes
    /\ crashes' = crashes + 1
    /\ disk' \in {disk, synced} /\ synced' = disk'
    /\ cmd' = "none" /\ stage' = "idle" /\ todo' = <<>>
    /\ pend' = Absent /\ rec' = Absent
    /\ UNCHANGED <<admission, runtime, errors, starts>>

\* The next operation returns an error; where the command stands decides.
IoError ==
    /\ todo # <<>> /\ errors < MaxErrors
    /\ errors' = errors + 1
    /\ LET to(next) ==
              /\ stage' = next /\ todo' = <<>> /\ pend' = Absent
              /\ UNCHANGED <<disk, synced, admission, cmd, rec, runtime,
                             crashes, starts>>
       IN  CASE cmd = "backup" /\ stage = "lock" ->
                  ReturnOver(Unlink("namespace") @@ disk)
             [] cmd = "backup" /\ stage \in {"snapshot", "manifest", "finish"} ->
                  to("unpublish")
             [] cmd = "restore" /\ stage \in {"forward", "copy", "durable"} ->
                  IF "published" \in rec.bits THEN ReturnOver(disk)
                  ELSE to("rollback")
             [] stage \in {"adopted", "rollback", "witnessed", "claimed",
                           "drive", "resume"} -> ReturnOver(disk)
             [] OTHER -> ReturnOver(Unlink("lock") @@ disk)

---------------------------------------------------------------------------
Init ==
    /\ disk = [f \in Leaves |-> IF f \in Database THEN "orig" ELSE Absent]
    /\ synced = disk /\ admission = Absent
    /\ cmd = "none" /\ stage = "idle" /\ todo = <<>> /\ pend = Absent
    /\ rec = Absent /\ runtime = FALSE
    /\ crashes = 0 /\ errors = 0 /\ starts = 0

\* The steps of a command once it is started.
Work ==
    \/ FsStep \/ Finished
    \/ BackupLock \/ BackupSnapshot \/ BackupManifest \/ BackupUnpublish
    \/ FinishLock("backup", "finish") \/ FinishLock("verify", "finish")
    \/ RestoreLock \/ RestoreInitial \/ RestoreStarted \/ RestoreQuarantine
    \/ RestoreQuarantined \/ RestoreCopy \/ RestoreDurable \/ RestorePublish
    \/ RestoreCommit \/ RestoreFinish \/ RestoreRollback
    \/ CleanupAdopt \/ CleanupLock \/ CleanupCreate \/ CleanupCreated
    \/ CleanupDrive \/ CleanupWitness \/ WitnessStep

Next ==
    \/ Work
    \/ BeginBackup \/ BeginVerify \/ BeginRestore \/ BeginCleanup
    \/ StartRuntime \/ StopRuntime
    \/ Crash \/ IoError

Spec == Init /\ [][Next]_vars

CleanupRecords == {Current(j) : j \in Journals \ {"restore"}}
CleanupDurable == \E f \in CleanupRecords : synced[f] \notin {Absent, Torn}

\* The namespace is gone; or an operation failed, somebody took the lock, or a
\* leaf was cut short.
CleanupOver ==
    \/ errors > 0
    \/ ~Present("namespace") /\ NoJournal("witness")
    \/ ~Present("lock") /\ cmd = "none" /\ NoJournal("witness")
    \/ \E f \in Leaves : disk[f] = Torn

Unfinished(step) ==
    (\E f \in CleanupMarkers : Present(f)) /\ ~CleanupOver /\ step

\* Fairness: a started command goes on until it returns or dies, and an
\* operator who began a cleanup runs the command again.
CleanupFair ==
    /\ WF_vars(Unfinished(Work)) /\ WF_vars(Unfinished(StopRuntime))
    /\ SF_vars(Unfinished(BeginCleanup))

---------------------------------------------------------------------------
(* Properties. *)

JournalOf(j) == IF Present(Current(j)) THEN disk[Current(j)] ELSE Absent
\* The phase a journal has on disk, "none" if there is no readable one.
JournalPhase(j) ==
    IF JournalOf(j) \in {Absent, Torn} THEN "none" ELSE JournalOf(j).phase

\* The rollback has compared the files and its next record is being written.
Verifying == cmd = "restore" /\ rec # Absent /\ rec.phase = "RollbackVerifying"

\* The original database is never lost before a cleanup the operator asked
\* for: whatever dies, fails or starts between two operations of a restore,
\* the original main file is under its own name or in quarantine, unless the
\* replacement is in place and the cleanup of the committed restore has begun
\* (restore.rs quarantine and publish, rollback.rs restore_one, cleanup.rs).
OriginalRetained ==
    \/ disk["state.db"] \in Forms["orig"]
    \/ disk["pre-restore.main"] \in Forms["orig"]
    \/ /\ disk["state.db"] \in Forms["copy"]
       /\ \/ ~NoJournal("cleanup.restore") \/ ~NoJournal("witness")
          \/ ~Present("namespace")

\* The log the original database had, and the one a backup made by opening it, never
\* sit beside another main file: sidecars are moved away before the main file
\* and come back after it (the order of quarantine in restore.rs and of
\* rollback.rs).  Nor does a log made by a start, but for one case: a start
\* refused half-way through a restore leaves the original a new log after the
\* old one was moved away, and the resumed restore, which looks only at the
\* leaves it has yet to move, publishes the copy beside it.
NoForeignLog ==
    \A f \in {"state.db-wal", "state.db-shm"} :
        /\ disk[f] \in Forms["orig"] \cup {"empty", "new"} =>
               disk["state.db"] \in Forms["orig"]
        /\ \A l \in Lineages : disk[f] = Opened(l) =>
               \/ disk["state.db"] \in Forms[l]
               \/ l = "orig" /\ disk["state.db"] \in Forms["copy"] \cup {Absent}

\* The phases a reader trusts tell the truth, on disk as in memory: Committed
\* means that the replacement is in place and every original was moved away,
\* and Published that the replacement has its final name; the step that
\* journals Restored leaves exactly the originals.
JournalTellsTruth ==
    /\ JournalPhase("restore") \in {"Published", "Verified", "Committed"} =>
           /\ disk["state.db"] \in IF starts = 0 THEN {"copy"} ELSE Forms["copy"]
           /\ \A x \in Parts : JournalOf("restore").originals[x] # Absent =>
                  x \in JournalOf("restore").bits
    /\ (JournalPhase("restore") = "Restored" /\ (starts = 0 \/ Verifying)) =>
           /\ \A x \in Parts : /\ disk[Fixed[x]] = JournalOf("restore").originals[x]
                               /\ ~Present(Quarantine[x])
           /\ ~Present("restore.new")

\* A manifest is visible only over the complete snapshot it describes, and the
\* namespace is removed only when nothing is left in it (backup_publication.rs
\* and cleanup_witness.rs).
ManifestDescribesSnapshot ==
    /\ Present("manifest") => disk["snapshot"] = "snap"
    /\ ~Present("namespace") => \A f \in NamespaceLeaves : ~Present(f)

\* What a restore leaves behind at any moment is a database somebody can go on from,
\* and records that are true of it.
BackupSound ==
    OriginalRetained /\ NoForeignLog /\ JournalTellsTruth /\ ManifestDescribesSnapshot

\* However a journal write is interrupted, the next command can adopt what it
\* finds, unless the bytes of a leaf itself were cut short or an operation
\* failed (journal.rs and cleanup_journal.rs adopt, transition; a transition
\* whose last sync fails has moved on while the record in memory has not, and
\* a death in the rollback that follows leaves two records of one sequence
\* number).
AdoptableUnlessTorn ==
    (cmd = "none" /\ errors = 0) =>
        \A j \in Journals :
            Adoptable(j) \/ \E f \in JournalLeaves[j] : disk[f] = Torn

\* A cleanup whose journal is durable is completed by running it again: the
\* namespace is gone in the end, if no leaf was cut short, no operation failed and nobody
\* took its lock (cleanup.rs, cleanup_witness.rs resume).
CleanupCompletes == CleanupDurable ~> CleanupOver

===========================================================================
