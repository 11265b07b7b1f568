----------------------- MODULE LeasedDispatcher_proofs -----------------------
(***************************************************************************)
(* Proofs about LeasedDispatcher for any number of tasks and /pause        *)
(* commands: custody of the lease, what an acknowledged /pause means, and  *)
(* that nobody takes the backend from under a turn.                        *)
(***************************************************************************)
EXTENDS LeasedDispatcher, TLAPS

\* Zenon proves a step that names no other prover.
USE Zenon

WorkerPc ==
    {"idle", "acquired", "refused", "sent", "failed", "accepted", "taken", "claimed", "executing",
     "cancelling", "sending", "awaiting", "finalizing", "stopped", "gone"}
PauserPc == {"idle", "lease", "sending", "awaiting", "confirm"}

LeaseState == {"absent", "active", "recovery_needed", "released"}
LeaseRow == [state : LeaseState, task : Task \cup {None}]
ContState == {"absent", "ready", "in_flight", "recovery_needed", "blocked", "terminal"}
WorkerRow == [pc : WorkerPc, task : Task \cup {None}, chan : Channel \cup {None},
              why : {"none", "delivery", "cancel", "finalize"}]
PauserRow == [pc : PauserPc, task : Task \cup {None}, chan : Channel \cup {None}]
Inbox == [Channel -> Caller \cup {None}]

\* The rows, the supervisors and the programs that use them.
Typed ==
    /\ lease \in LeaseRow /\ lapsed \in BOOLEAN /\ backend \in BOOLEAN
    /\ cont \in [Task -> ContState]
    /\ pending \in [Task -> {"none", "watched", "unwatched"}]
    /\ active \in [Task -> Channel \cup {None}]
    /\ inbox \in [Task -> Inbox]
    /\ waiter \in [Task -> WaiterState]
    /\ runner \in [Task -> RunnerState]
    /\ ending \in [Task -> {"blocked", "terminal"}]
    /\ cleanup \in [Task -> {"none", "kill", "release", "done"}]
    /\ reply \in [Caller -> {"none", "ok", "err", "gone"}]
    /\ worker \in WorkerRow /\ pauser \in PauserRow

\* The lease row names the task it was last granted to.
RowSound ==
    /\ lease.state = "absent" => lease.task = None
    /\ lease.state # "absent" => lease.task \in Task

\* The worker has a task from taking it to returning from it, and until the store
\* refuses it that task is the one the row names.
WorkerSound ==
    /\ worker.pc \in {"idle", "gone"} => worker.task = None
    /\ worker.pc \notin {"idle", "gone"} => worker.task \in Task
    /\ worker.pc \notin {"idle", "refused", "stopped", "gone"} => lease.task = worker.task

\* The resource was granted to t and not given back.
Held(t) == lease.task = t /\ lease.state \in {"active", "recovery_needed"}

\* Nobody has started anything for t.
Untouched(t) ==
    pending[t] = "none" /\ waiter[t] = "none" /\ runner[t] = "none" /\ cleanup[t] = "none" /\ cont[t] = "absent"

\* How far the worker has brought t says who else may be at work on it.
StageSound(t) ==
    /\ t \in todo => Untouched(t) /\ lease.task # t /\ worker.task # t
    /\ worker.task = t =>
         /\ worker.pc \in {"acquired", "sent"} => Untouched(t) /\ Held(t)
         /\ worker.pc = "failed" => waiter[t] = "none" /\ runner[t] = "none" /\ cleanup[t] = "none" /\ cont[t] = "absent"
         /\ worker.pc = "accepted" => runner[t] = "none" /\ cleanup[t] = "none"
         /\ worker.pc \in {"taken", "claimed"} =>
              /\ pending[t] = "none" /\ runner[t] = "none" /\ cleanup[t] = "none" /\ waiter[t] # "offered"
              /\ Held(t)

InTurn == {"turn", "drained", "deferred", "cancelled", "reap", "offered", "conceded"}

\* Whoever has the lease of t in hand is alone with it, and it is still t's; a turn that
\* may be running is in flight.
HandSound(t) ==
    /\ pending[t] # "none" =>
         Held(t) /\ runner[t] = "none" /\ cleanup[t] = "none" /\ waiter[t] # "offered" /\ cont[t] \in {"absent", "ready"}
    /\ waiter[t] = "offered" =>
         runner[t] = "none" /\ cleanup[t] = "none" /\ (Holds(t) => cont[t] = "in_flight")
    /\ runner[t] \notin {"none", "done"} => Held(t)
    /\ runner[t] \in InTurn /\ Holds(t) => cont[t] = "in_flight"
    /\ runner[t] = "failed" /\ Live(t) => cleanup[t] \in {"kill", "release"}
    /\ cleanup[t] # "none" => Held(t) /\ runner[t] \in {"failed", "done"}

\* A valid lease of t has a custodian.
Custody(t) == Live(t) /\ worker.pc # "gone" => Custodian(t)

TaskInv(t) == StageSound(t) /\ HandSound(t) /\ Custody(t)

\* The /pause waits for the answer to a command about t.
PausedAt(t) == pauser.pc = "awaiting" /\ pauser.task = t /\ reply["pauser"] = "none"

\* The command of a /pause is in one place: in a channel, with a supervisor, or answered.
PauseSound ==
    /\ reaped \subseteq Task
    /\ pauser.pc = "idle" => pauser.task = None
    /\ pauser.pc # "idle" => pauser.task \in Task
    /\ reply["pauser"] # "gone" /\ (reply["pauser"] # "none" => pauser.pc = "awaiting")
    /\ \A t \in Task :
         /\ \A c \in Channel : inbox[t][c] = "pauser" =>
              PausedAt(t) /\ pauser.chan = c /\ waiter[t] # "reap" /\ runner[t] # "reap"
         /\ waiter[t] = "reap" => PausedAt(t) /\ runner[t] # "reap"
         /\ runner[t] = "reap" => PausedAt(t) /\ ~backend

\* A /pause of t was acknowledged, or is about to be.
Acked(t) == t \in reaped \/ (pauser.task = t /\ (pauser.pc = "confirm" \/ reply["pauser"] = "ok"))

\* Then everything of t has ended, and the backend is not t's.
AckSound(t) ==
    Acked(t) =>
        /\ ~Holds(t) /\ pending[t] = "none" /\ runner[t] \in {"none", "done"}
        /\ (backend => lease.task # t) /\ t \notin event /\ t \notin todo
        /\ worker.task = t => worker.pc \notin {"acquired", "sent", "taken", "claimed"}

\* A turn that may have run keeps the resource; one whose end is recorded gave it back.
BlockSound(t) ==
    /\ cont[t] \in {"in_flight", "recovery_needed"} => Held(t) \/ Acked(t)
    /\ t \in event => t \notin todo /\ ~Held(t)

DispatchInv ==
    /\ Typed /\ RowSound /\ WorkerSound /\ PauseSound
    /\ \A t \in Task : TaskInv(t) /\ AckSound(t) /\ BlockSound(t)

-----------------------------------------------------------------------------
(* Types. *)

\* None is no task, no channel and no caller.
LEMMA Names == None \notin Task /\ None \notin Channel /\ None \notin Caller
    BY DispatcherAssumption DEF Channel, Caller

\* Before the first task.
LEMMA TypedInit == Init => Typed
<1> SUFFICES ASSUME Init PROVE Typed
    OBVIOUS
<1>1. lease \in LeaseRow /\ worker \in WorkerRow /\ pauser \in PauserRow
    BY DEF Init, Idle, LeaseRow, LeaseState, WorkerRow, WorkerPc, PauserRow, PauserPc
<1>2. inbox \in [Task -> Inbox]
    BY DEF Init, Inbox
<1>3. /\ cont \in [Task -> ContState] /\ waiter \in [Task -> WaiterState] /\ runner \in [Task -> RunnerState]
      /\ reply \in [Caller -> {"none", "ok", "err", "gone"}] /\ active \in [Task -> Channel \cup {None}]
    BY DEF Init, ContState, WaiterState, RunnerState
<1> QED BY <1>1, <1>2, <1>3 DEF Init, Typed

\* The lease row after a change of its state.
LEMMA LeaseTo ==
    ASSUME lease \in LeaseRow, NEW s \in LeaseState
    PROVE  /\ [lease EXCEPT !.state = s] \in LeaseRow
           /\ [lease EXCEPT !.state = s].state = s /\ [lease EXCEPT !.state = s].task = lease.task
    BY DEF LeaseRow

\* The worker after a step within its task, or out of it.
LEMMA WorkerTo ==
    ASSUME worker \in WorkerRow
    PROVE  /\ Idle \in WorkerRow /\ Idle.pc = "idle" /\ Idle.task = None
           /\ \A pc \in WorkerPc :
                /\ [worker EXCEPT !.pc = pc] \in WorkerRow
                /\ [worker EXCEPT !.pc = pc].pc = pc /\ [worker EXCEPT !.pc = pc].task = worker.task
           /\ \A why \in {"delivery", "cancel", "finalize"} :
                LET w == [Idle EXCEPT !.pc = "stopped", !.task = worker.task, !.why = why]
                IN  w \in WorkerRow /\ w.pc = "stopped" /\ w.task = worker.task
<1>1. Idle \in WorkerRow /\ Idle.pc = "idle" /\ Idle.task = None
    BY DEF Idle, WorkerRow, WorkerPc
<1>2. ASSUME NEW pc \in WorkerPc
      PROVE  /\ [worker EXCEPT !.pc = pc] \in WorkerRow
             /\ [worker EXCEPT !.pc = pc].pc = pc /\ [worker EXCEPT !.pc = pc].task = worker.task
    BY DEF WorkerRow
<1>3. ASSUME NEW why \in {"delivery", "cancel", "finalize"}
      PROVE  LET w == [Idle EXCEPT !.pc = "stopped", !.task = worker.task, !.why = why]
             IN  w \in WorkerRow /\ w.pc = "stopped" /\ w.task = worker.task
    BY DEF WorkerRow, WorkerPc, Idle
<1> QED BY <1>1, <1>2, <1>3

-----------------------------------------------------------------------------
(* A step for one task, and what the others see of it. *)

Own(t) == TaskInv(t) /\ AckSound(t) /\ BlockSound(t)

\* Nothing of u changes.
Same(u) ==
    /\ pending'[u] = pending[u] /\ waiter'[u] = waiter[u] /\ runner'[u] = runner[u]
    /\ cleanup'[u] = cleanup[u] /\ cont'[u] = cont[u]
    /\ Acked(u)' <=> Acked(u)

\* The worker stays where it is, or goes on with t or away from it.
WorkerFor(t) ==
    \/ worker' = worker
    \/ /\ worker.task = t
       /\ \/ worker' = Idle
          \/ worker'.task = t /\ worker'.pc = "stopped"
          \/ /\ worker'.task = t /\ worker'.pc \notin {"idle", "gone"}
             /\ worker.pc \notin {"refused", "stopped"}

\* The row keeps its task, and only that of t changes its state.
LeaseFor(t) ==
    /\ lease'.task = lease.task /\ (lease' = lease \/ lease.task = t)
    /\ lease'.state = "absent" <=> lease.state = "absent"

\* A step for t.
Around(t) ==
    /\ \A u \in Task : u # t => Same(u)
    /\ LeaseFor(t) /\ WorkerFor(t)
    /\ lapsed' = lapsed /\ todo' = todo /\ event' \subseteq event \cup {t}
    /\ backend' => backend \/ lease.task = t

\* It leaves what holds of the other tasks.
LEMMA OthersKeep ==
    ASSUME DispatchInv, NEW t \in Task, Around(t), NEW u \in Task, u # t
    PROVE  Own(u)'
<1>0. /\ StageSound(u) /\ HandSound(u) /\ Custody(u) /\ AckSound(u) /\ BlockSound(u) /\ WorkerSound
      /\ Same(u) /\ LeaseFor(t) /\ WorkerFor(t)
      /\ lapsed' = lapsed /\ todo' = todo /\ event' \subseteq event \cup {t} /\ (backend' => backend \/ lease.task = t)
    BY DEF DispatchInv, TaskInv, Around
<1>1. /\ Holds(u)' <=> Holds(u)
      /\ Held(u)' <=> Held(u)
      /\ Live(u)' <=> Live(u)
    BY <1>0 DEF LeaseFor, Holds, Held, Live
<1>2. worker'.task = u => worker' = worker
    BY SMT, <1>0, Names DEF WorkerFor, Idle
<1>3. worker'.pc # "gone" => worker.pc # "gone"
    BY <1>0, Names DEF WorkerFor, WorkerSound
<1>4. StageSound(u)'
    BY <1>0, <1>1, <1>2 DEF StageSound, Untouched, Same, LeaseFor
<1>5. HandSound(u)'
    BY <1>0, <1>1 DEF HandSound, Same
<1>6. Custody(u)'
    <2>1. worker.task = u => worker' = worker
        BY <1>0 DEF WorkerFor
    <2> QED BY <1>0, <1>1, <1>3, <2>1 DEF Custody, Custodian, Same
<1>7. AckSound(u)'
    BY <1>0, <1>1, <1>2 DEF AckSound, Same, LeaseFor
<1>8. BlockSound(u)'
    BY <1>0, <1>1 DEF BlockSound, Same
<1> QED BY <1>4, <1>5, <1>6, <1>7, <1>8 DEF Own, TaskInv

\* So it keeps the invariant if it keeps what holds of t and of the /pause.
LEMMA StepFor ==
    ASSUME DispatchInv, NEW t \in Task, Around(t), Typed', PauseSound', Own(t)'
    PROVE  DispatchInv'
<1>0. RowSound /\ WorkerSound /\ LeaseFor(t) /\ WorkerFor(t)
    BY DEF DispatchInv, Around
<1>1. RowSound'
    BY <1>0 DEF RowSound, LeaseFor
<1>2. WorkerSound'
    <2>1. CASE worker' = worker
        BY <2>1, <1>0 DEF WorkerSound, LeaseFor
    <2>2. CASE worker' = Idle
        BY <2>2 DEF WorkerSound, Idle
    <2>3. CASE worker'.task = t /\ worker'.pc = "stopped"
        BY <2>3 DEF WorkerSound
    <2>4. CASE /\ worker.task = t /\ worker'.task = t /\ worker'.pc \notin {"idle", "gone"}
               /\ worker.pc \notin {"refused", "stopped"}
        BY <2>4, <1>0, Names DEF WorkerSound, LeaseFor
    <2> QED BY <1>0, <2>1, <2>2, <2>3, <2>4 DEF WorkerFor
<1>3. \A u \in Task : Own(u)'
    BY OthersKeep
<1> QED BY <1>1, <1>2, <1>3 DEF DispatchInv, Own

-----------------------------------------------------------------------------
(* The command of a /pause. *)

\* No supervisor takes up a /pause in this step, and none that reaps gets a backend.
NoNewReap ==
    /\ \A u \in Task : waiter'[u] = "reap" => waiter[u] = "reap"
    /\ \A u \in Task : runner'[u] = "reap" => runner[u] = "reap" /\ ~backend'

\* Nothing changes for the /pause.
LEMMA PauseFrame ==
    ASSUME PauseSound, NoNewReap, UNCHANGED <<pauser, reaped>>, reply'["pauser"] = reply["pauser"],
           \A u \in Task, c \in Channel : inbox'[u][c] = "pauser" => inbox[u][c] = "pauser"
    PROVE  PauseSound' /\ \A u \in Task : Acked(u)' <=> Acked(u)
<1>1. \A u \in Task : (PausedAt(u)' <=> PausedAt(u)) /\ (Acked(u)' <=> Acked(u))
    BY DEF PausedAt, Acked
<1>2. ASSUME NEW u \in Task
      PROVE  /\ \A c \in Channel : inbox'[u][c] = "pauser" =>
                  PausedAt(u)' /\ pauser'.chan = c /\ waiter'[u] # "reap" /\ runner'[u] # "reap"
             /\ waiter'[u] = "reap" => PausedAt(u)' /\ runner'[u] # "reap"
             /\ runner'[u] = "reap" => PausedAt(u)' /\ ~backend'
    BY SMT, <1>1 DEF PauseSound, NoNewReap
<1> QED BY <1>1, <1>2 DEF PauseSound

\* A supervisor ends without an answer for the /pause: a command it never took is
\* refused.
LEMMA AnswerOther ==
    ASSUME Typed, PauseSound, NoNewReap, UNCHANGED <<pauser, reaped>>,
           NEW t \in Task, NEW c \in Channel, NEW caller, caller # "pauser", NEW v, AnswerAndEnd(t, c, caller, v)
    PROVE  PauseSound' /\ \A u \in Task : Acked(u)' <=> Acked(u)
<1>1. /\ inbox'[t][c] # "pauser"
      /\ \A u \in Task, d \in Channel : inbox'[u][d] = "pauser" => inbox[u][d] = "pauser" /\ <<u, d>> # <<t, c>>
    BY Names DEF AnswerAndEnd, Typed, Inbox, Caller
<1>2. reply["pauser"] # "gone" /\ "pauser" \in Caller
    BY DEF PauseSound, Caller
<1>3. reply'["pauser"] = IF inbox[t][c] = "pauser" THEN "err" ELSE reply["pauser"]
    BY <1>2 DEF AnswerAndEnd
<1>4. CASE inbox[t][c] # "pauser"
    BY <1>1, <1>3, <1>4, PauseFrame
<1>5. CASE inbox[t][c] = "pauser"
    <2>1. PausedAt(t) /\ pauser.chan = c /\ waiter[t] # "reap" /\ runner[t] # "reap"
        BY <1>5 DEF PauseSound
    <2>2. \A u \in Task, d \in Channel : inbox'[u][d] # "pauser"
        BY SMT, <2>1, <1>1 DEF PauseSound, PausedAt
    <2>3. \A u \in Task : waiter'[u] # "reap" /\ runner'[u] # "reap"
        BY <2>1 DEF PauseSound, PausedAt, NoNewReap
    <2>4. reply'["pauser"] = "err" /\ pauser.pc = "awaiting" /\ reply["pauser"] = "none"
        BY <2>1, <1>3, <1>5 DEF PausedAt
    <2>5. PauseSound'
        BY <2>2, <2>3, <2>4 DEF PauseSound
    <2> QED BY <2>4, <2>5 DEF Acked
<1> QED BY <1>4, <1>5

\* The supervisor that took the command of a /pause answers it and ends.
LEMMA AnswerPause ==
    ASSUME Typed, PauseSound, NoNewReap, UNCHANGED <<pauser, reaped>>,
           NEW t \in Task, NEW c \in Channel, NEW v \in {"ok", "err"}, AnswerAndEnd(t, c, "pauser", v),
           waiter[t] = "reap" \/ runner[t] = "reap", waiter'[t] # "reap", runner'[t] # "reap"
    PROVE  /\ PauseSound'
           /\ \A u \in Task : u # t => (Acked(u)' <=> Acked(u))
           /\ Acked(t)' <=> Acked(t) \/ v = "ok"
<1>1. PausedAt(t) /\ "pauser" \in Caller
    BY DEF PauseSound, Caller
<1>2. \A u \in Task, d \in Channel : inbox[u][d] # "pauser"
    BY <1>1 DEF PauseSound, PausedAt
<1>3. \A u \in Task, d \in Channel : inbox'[u][d] # "pauser"
    BY SMT, <1>2, Names DEF AnswerAndEnd, Typed, Inbox, Caller
<1>4. reply'["pauser"] = v
    <2>1. reply["pauser"] # "gone" /\ inbox[t][c] # "pauser"
        BY <1>2 DEF PauseSound
    <2> QED BY <2>1, <1>1 DEF AnswerAndEnd
<1>5. \A u \in Task : waiter'[u] # "reap" /\ runner'[u] # "reap"
    BY <1>1 DEF PauseSound, PausedAt, NoNewReap
<1>6. PauseSound'
    BY <1>1, <1>3, <1>4, <1>5 DEF PauseSound, PausedAt
<1> QED BY <1>1, <1>4, <1>6 DEF Acked, PausedAt

-----------------------------------------------------------------------------
(* The worker. *)

\* What the worker knows of the task it is at.
LEMMA AtTask ==
    ASSUME DispatchInv, worker.pc \notin {"idle", "gone"}
    PROVE  /\ worker.task \in Task /\ Own(worker.task)
           /\ worker.pc \notin {"refused", "stopped"} => lease.task = worker.task
    BY DEF DispatchInv, WorkerSound, Own

\* acquire.
LEMMA AcquireKeeps ==
    ASSUME DispatchInv, NEW t \in Task, Acquire(t)
    PROVE  DispatchInv'
<1>0. /\ Typed /\ RowSound /\ WorkerSound /\ PauseSound /\ (\A u \in Task : Own(u))
      /\ worker.pc = "idle" /\ worker.task = None /\ t \in todo /\ todo' = todo \ {t}
      /\ UNCHANGED <<cont, event, backend, pending, inbox, active, waiter, runner, ending, cleanup, reply, pauser, reaped>>
    BY DEF DispatchInv, Own, WorkerSound, Acquire, maps, sups, talk, admin
<1>1. /\ worker' \in WorkerRow /\ worker'.task = t
      /\ worker'.pc = IF lease.state \in {"absent", "released"} THEN "acquired" ELSE "refused"
    BY DEF Acquire, Idle, WorkerRow, WorkerPc
<1>2. /\ lease' \in LeaseRow /\ lapsed' \in BOOLEAN
      /\ lease.state \in {"absent", "released"} => lease'.state = "active" /\ lease'.task = t
      /\ lease.state \notin {"absent", "released"} =>
           /\ lease'.task = lease.task /\ lapsed' = lapsed
           /\ lease' = lease \/ (lease.state = "active" /\ lapsed /\ lease'.state = "recovery_needed")
    <2>1. CASE lease.state \in {"absent", "released"}
        <3>1. lease' = [state |-> "active", task |-> t] /\ lapsed' = FALSE
            BY <2>1 DEF Acquire
        <3>2. lease' \in LeaseRow /\ lease'.state = "active" /\ lease'.task = t /\ lapsed' \in BOOLEAN
            BY <3>1 DEF LeaseRow, LeaseState
        <3> QED BY <3>2, <2>1
    <2>2. CASE lease.state \notin {"absent", "released"}
        <3>1. /\ lapsed' = lapsed /\ lapsed \in BOOLEAN /\ lease \in LeaseRow /\ "recovery_needed" \in LeaseState
              /\ lease' = lease \/ (lease.state = "active" /\ lapsed /\ lease' = [lease EXCEPT !.state = "recovery_needed"])
            BY <1>0, <2>2 DEF Acquire, Typed, LeaseState
        <3> QED BY <3>1, <2>2, LeaseTo
    <2> QED BY <2>1, <2>2
<1>3. Typed' /\ RowSound' /\ WorkerSound'
    <2>1. Typed'
        BY <1>0, <1>1, <1>2 DEF Typed
    <2>2. RowSound' /\ WorkerSound'
        BY <1>0, <1>1, <1>2 DEF RowSound, WorkerSound
    <2> QED BY <2>1, <2>2
<1>4. PauseSound' /\ \A u \in Task : Acked(u)' <=> Acked(u)
    <2>1. NoNewReap
        BY <1>0 DEF NoNewReap, PauseSound
    <2> QED BY <2>1, <1>0, PauseFrame
<1>5. ASSUME NEW u \in Task PROVE Own(u)'
    <2>0. StageSound(u) /\ HandSound(u) /\ Custody(u) /\ AckSound(u) /\ BlockSound(u)
        BY <1>0 DEF Own, TaskInv
    <2>1. u = t => Untouched(u)
        BY <1>0, <2>0 DEF StageSound
    <2>2. (Held(u) => Held(u)') /\ (Holds(u)' => Holds(u) \/ u = t) /\ (Live(u)' => Live(u) \/ u = t)
        BY SMT, <1>2 DEF Held, Holds, Live
    <2>3. StageSound(u)'
        BY <1>0, <1>1, <1>2, <2>0, <2>1 DEF StageSound, Untouched, Held
    <2>4. HandSound(u)'
        BY <1>0, <2>0, <2>1, <2>2 DEF HandSound, Untouched, InTurn
    <2>5. Custody(u)'
        <3>1. CASE u = t
            BY <3>1, <1>1, <1>2, <2>1, <1>0, <2>0 DEF Custody, Custodian, Live, Holds, StageSound
        <3>2. CASE u # t
            BY <3>2, <1>0, <1>1, <2>0, <2>2, Names DEF Custody, Custodian
        <3> QED BY <3>1, <3>2
    <2>6. AckSound(u)'
        BY <1>0, <1>1, <1>2, <1>4, <2>0, <2>2 DEF AckSound
    <2>7. BlockSound(u)'
        <3>1. Held(u)' => Held(u) \/ u = t
            BY <1>2 DEF Held
        <3> QED BY <1>0, <1>4, <2>0, <2>2, <3>1 DEF BlockSound
    <2> QED BY <2>3, <2>4, <2>5, <2>6, <2>7 DEF Own, TaskInv
<1> QED BY <1>3, <1>4, <1>5 DEF DispatchInv, Own

\* The worker waits, asks or leaves: nothing changes for anybody else.
LEMMA WorkerMoves ==
    ASSUME DispatchInv, NEW t \in Task, worker.task = t, WorkerFor(t), Typed',
           worker.pc \notin {"acquired", "sent", "taken", "claimed"},
           worker'.pc \notin {"acquired", "sent", "failed", "accepted", "taken", "claimed"},
           UNCHANGED <<lease, lapsed, cont, event, backend, pending, waiter, runner, cleanup, todo, pauser, reaped>>,
           reply'["pauser"] = reply["pauser"],
           \A u \in Task, c \in Channel : inbox'[u][c] = "pauser" => inbox[u][c] = "pauser"
    PROVE  DispatchInv'
<1>0. PauseSound /\ StageSound(t) /\ HandSound(t) /\ Custody(t) /\ AckSound(t) /\ BlockSound(t) /\ WorkerSound
    BY DEF DispatchInv, TaskInv
<1>1. NoNewReap
    BY <1>0 DEF NoNewReap, PauseSound
<1>2. PauseSound' /\ \A u \in Task : Acked(u)' <=> Acked(u)
    BY <1>0, <1>1, PauseFrame
<1>3. Around(t)
    BY <1>2 DEF Around, Same, LeaseFor
<1>4. Own(t)'
    <2>1. StageSound(t)' /\ HandSound(t)'
        BY <1>0 DEF StageSound, Untouched, HandSound, Held, Holds, Live
    <2>2. Custody(t)'
        <3>1. worker.pc # "gone"
            BY <1>0, Names DEF WorkerSound
        <3> QED BY <3>1, <1>0 DEF Custody, Custodian, Live, Holds
    <2>3. AckSound(t)' /\ BlockSound(t)'
        BY <1>0, <1>2 DEF AckSound, BlockSound, Held, Holds
    <2> QED BY <2>1, <2>2, <2>3 DEF Own, TaskInv
<1> QED BY <1>2, <1>3, <1>4, StepFor

\* The steps of that kind.
LEMMA WorkerAsks ==
    ASSUME DispatchInv, Refused \/ WorkerResult \/ CancelWins \/ CancelLookup \/ CancelSend \/ CancelReply
    PROVE  DispatchInv'
<1>1. /\ worker.pc \in {"refused", "accepted", "executing", "cancelling", "sending", "awaiting"} /\ Typed
    BY DEF DispatchInv, Refused, WorkerResult, CancelWins, CancelLookup, CancelSend, CancelReply
<1>2. PICK t \in Task : t = worker.task
    BY <1>1, AtTask
<1>3. /\ UNCHANGED <<lease, lapsed, cont, event, backend, pending, active, waiter, runner, ending, cleanup, todo, pauser, reaped>>
    BY DEF Refused, WorkerResult, CancelWins, CancelLookup, CancelSend, CancelReply, rows, maps, sups, talk, admin
<1>4. PICK w \in WorkerRow :
         /\ worker' = w
         /\ \/ w = Idle
            \/ w.task = t /\ w.pc = "stopped"
            \/ w.task = t /\ w.pc \in {"finalizing", "cancelling", "sending", "awaiting"} /\ worker.pc # "refused"
    <2>1. CASE Refused
        BY <2>1, <1>1, <1>2, WorkerTo DEF Refused, FailStop, Typed
    <2>2. CASE WorkerResult
        BY ZenonT(60), <2>2, <1>1, <1>2, WorkerTo DEF WorkerResult, NextTask, Worker, Typed, WorkerPc
    <2>3. CASE CancelWins
        BY ZenonT(60), <2>3, <1>1, <1>2, WorkerTo DEF CancelWins, Worker, Typed, WorkerPc
    <2>4. CASE CancelLookup
        <3>1. CASE active[t] = None
            BY <2>4, <3>1, <1>1, <1>2, WorkerTo DEF CancelLookup, FailStop, Typed
        <3>2. CASE active[t] # None
            <4>1. active[t] \in Channel /\ worker' = [worker EXCEPT !.pc = "sending", !.chan = active[t]] /\ worker.pc # "refused"
                BY <2>4, <3>2, <1>1, <1>2 DEF CancelLookup, Typed
            <4>2. worker' \in WorkerRow /\ worker'.task = t /\ worker'.pc = "sending"
                BY <4>1, <1>1, <1>2 DEF Typed, WorkerRow, WorkerPc
            <4> QED BY <4>1, <4>2
        <3> QED BY <3>1, <3>2
    <2>5. CASE CancelSend
        BY ZenonT(60), <2>5, <1>1, <1>2, WorkerTo DEF CancelSend, FailStop, Worker, Typed, WorkerPc
    <2>6. CASE CancelReply
        BY ZenonT(60), <2>6, <1>1, <1>2, WorkerTo DEF CancelReply, FailStop, Worker, Typed, WorkerPc
    <2> QED BY <2>1, <2>2, <2>3, <2>4, <2>5, <2>6
<1>5. /\ inbox' \in [Task -> Inbox]
      /\ \A u \in Task, c \in Channel : inbox'[u][c] = "pauser" => inbox[u][c] = "pauser"
    <2>1. CASE inbox' = inbox
        BY <2>1, <1>1 DEF Typed
    <2>2. CASE \E c \in Channel \cup {None} : inbox' = [inbox EXCEPT ![t][c] = "worker"]
        <3>1. PICK c \in Channel \cup {None} : inbox' = [inbox EXCEPT ![t][c] = "worker"]
            BY <2>2
        <3>2. ASSUME NEW u \in Task
              PROVE  inbox'[u] \in Inbox /\ \A d \in Channel : inbox'[u][d] = "pauser" => inbox[u][d] = "pauser"
            <4>1. inbox[u] \in Inbox /\ inbox'[u] = IF u = t THEN [inbox[u] EXCEPT ![c] = "worker"] ELSE inbox[u]
                BY <3>1, <1>1 DEF Typed
            <4> QED BY <4>1 DEF Inbox, Caller
        <3>3. inbox' = [u \in Task |-> inbox'[u]]
            BY <3>1, <1>1 DEF Typed
        <3> QED BY <3>2, <3>3
    <2>3. worker.chan \in Channel \cup {None}
        BY <1>1 DEF Typed, WorkerRow
    <2> QED BY <2>1, <2>2, <2>3, <1>2 DEF Refused, WorkerResult, CancelWins, CancelLookup, CancelSend, CancelReply, maps
<1>6. reply' \in [Caller -> {"none", "ok", "err", "gone"}] /\ reply'["pauser"] = reply["pauser"]
    <2>1. reply' = reply \/ reply' = [reply EXCEPT !["worker"] = "none"]
        BY DEF Refused, WorkerResult, CancelWins, CancelLookup, CancelSend, CancelReply, talk
    <2> QED BY SMT, <2>1, <1>1 DEF Typed, Caller
<1>7. Typed'
    BY <1>1, <1>3, <1>4, <1>5, <1>6 DEF Typed
<1>8. WorkerFor(t) /\ worker'.pc \notin {"acquired", "sent", "failed", "accepted", "taken", "claimed"}
    <2>1. worker.pc # "stopped"
        BY <1>1
    <2> QED BY SMT, <2>1, <1>2, <1>4 DEF WorkerFor, Idle
<1> QED BY <1>1, <1>2, <1>3, <1>5, <1>6, <1>7, <1>8, WorkerMoves

\* deliver: the steps before the turn can be executed.
LEMMA DeliverKeeps ==
    ASSUME DispatchInv, ClaimFails \/ AdapterRefuses \/ AdapterAccepts \/ Begin
    PROVE  DispatchInv'
<1>0. Typed /\ PauseSound /\ worker.pc \in {"acquired", "sent"}
    BY DEF DispatchInv, ClaimFails, AdapterRefuses, AdapterAccepts, Begin
<1>1. PICK t \in Task : t = worker.task
    BY <1>0, AtTask
<1>2. /\ StageSound(t) /\ HandSound(t) /\ Custody(t) /\ AckSound(t) /\ BlockSound(t) /\ lease.task = t
      /\ Untouched(t) /\ ~Acked(t)
    BY <1>0, <1>1, AtTask DEF Own, TaskInv, StageSound, AckSound
<1>3. UNCHANGED <<lapsed, event, inbox, runner, ending, cleanup, reply, todo, pauser, reaped>>
    BY DEF ClaimFails, AdapterRefuses, AdapterAccepts, Begin, rows, maps, sups, talk, admin
<1>4. PICK w \in WorkerRow : worker' = w /\ w.task = t /\ w.pc \in {"refused", "failed", "sent", "accepted"}
    BY ZenonT(60), <1>0, <1>1, WorkerTo DEF ClaimFails, AdapterRefuses, AdapterAccepts, Begin, Worker, Typed, WorkerPc
<1>5. backend' \in BOOLEAN
    BY <1>0 DEF ClaimFails, AdapterRefuses, AdapterAccepts, Begin, Typed
<1>6. /\ lease' \in LeaseRow /\ lease'.task = t
      /\ \/ lease' = lease
         \/ lease.state = "active" /\ lease'.state \in {"released", "recovery_needed"}
    <2>1. \/ lease' = lease
          \/ \E s \in {"released", "recovery_needed"} : lease.state = "active" /\ lease' = [lease EXCEPT !.state = s]
        BY DEF ClaimFails, AdapterRefuses, AdapterAccepts, Begin, Release, Holds, rows
    <2>2. CASE lease' = lease
        BY <2>2, <1>0, <1>2 DEF Typed
    <2>3. CASE \E s \in {"released", "recovery_needed"} : lease.state = "active" /\ lease' = [lease EXCEPT !.state = s]
        <3>1. PICK s \in {"released", "recovery_needed"} : lease.state = "active" /\ lease' = [lease EXCEPT !.state = s]
            BY <2>3
        <3>2. s \in LeaseState /\ lease \in LeaseRow
            BY <1>0 DEF LeaseState, Typed
        <3> QED BY <3>1, <3>2, <1>2, LeaseTo
    <2> QED BY <2>1, <2>2, <2>3
<1>7. /\ pending' \in [Task -> {"none", "watched", "unwatched"}] /\ active' \in [Task -> Channel \cup {None}]
      /\ waiter' \in [Task -> WaiterState] /\ cont' \in [Task -> ContState]
      /\ \A u \in Task : u # t => pending'[u] = pending[u] /\ waiter'[u] = waiter[u] /\ cont'[u] = cont[u]
    BY SMT, <1>0, <1>1 DEF ClaimFails, AdapterRefuses, AdapterAccepts, Begin, Typed, Channel, WaiterState, ContState, rows,
                      maps, sups
<1>8. waiter'[t] # "reap" /\ (backend' => lease.task = t)
    BY <1>0, <1>1, <1>2 DEF ClaimFails, AdapterRefuses, AdapterAccepts, Begin, Typed, Untouched, sups
<1>9. PauseSound' /\ \A u \in Task : Acked(u)' <=> Acked(u)
    <2>1. ASSUME NEW u \in Task, runner[u] = "reap" PROVE FALSE
        <3>1. Held(u)
            BY <2>1 DEF DispatchInv, TaskInv, HandSound
        <3>2. u = t
            BY <3>1, <1>2 DEF Held
        <3> QED BY <2>1, <3>2, <1>2 DEF Untouched
    <2>2. NoNewReap
        BY <2>1, <1>3, <1>7, <1>8 DEF NoNewReap
    <2> QED BY <2>2, <1>0, <1>3, PauseFrame
<1>10. Typed'
    BY <1>0, <1>3, <1>4, <1>5, <1>6, <1>7 DEF Typed
<1>11. Around(t)
    <2>1. WorkerFor(t)
        BY <1>0, <1>1, <1>4 DEF WorkerFor
    <2>2. LeaseFor(t)
        BY <1>2, <1>6 DEF LeaseFor
    <2>3. \A u \in Task : u # t => Same(u)
        BY <1>3, <1>7, <1>9 DEF Same
    <2> QED BY <2>1, <2>2, <2>3, <1>2, <1>3 DEF Around
<1>12. /\ StageSound(t)' /\ HandSound(t)' /\ Custody(t)' /\ (cont'[t] \in {"in_flight", "recovery_needed"} => FALSE)
    <2>0. /\ t \notin todo' /\ runner'[t] = "none" /\ cleanup'[t] = "none" /\ worker'.task = t /\ worker'.pc = w.pc
        BY <1>0, <1>1, <1>2, <1>3, <1>4 DEF Untouched, StageSound
    <2>1. CASE ClaimFails
        <3>1. /\ worker'.pc = "refused" /\ pending'[t] = "none" /\ waiter'[t] = "none" /\ cont'[t] = "absent"
              /\ lease'.state # "active"
            BY SMT, <2>1, <1>0, <1>1, <1>2, <1>6, WorkerTo, LeaseTo
               DEF ClaimFails, Worker, Release, Holds, Untouched, Typed, WorkerPc, LeaseState, maps, sups
        <3> QED BY <2>0, <3>1 DEF StageSound, HandSound, Custody, Live, Holds, InTurn
    <2>2. CASE AdapterRefuses
        <3>1. /\ worker'.pc = "failed" /\ pending'[t] = "unwatched" /\ waiter'[t] = "none" /\ cont'[t] = "absent"
              /\ lease' = lease
            BY SMT, <2>2, <1>0, <1>1, <1>2, WorkerTo DEF AdapterRefuses, Worker, Untouched, Typed, WorkerPc, rows, sups
        <3> QED BY <2>0, <3>1, <1>0, <1>1, <1>2 DEF StageSound, HandSound, Custody, Custodian, Held, InTurn
    <2>3. CASE AdapterAccepts
        <3>1. /\ worker'.pc = "sent" /\ pending'[t] = "none" /\ waiter'[t] = "none" /\ cont'[t] = "absent"
              /\ lease' = lease
            BY <2>3, <1>0, <1>1, <1>2, WorkerTo DEF AdapterAccepts, Worker, Untouched, Typed, WorkerPc, rows, maps, sups
        <3> QED BY <2>0, <3>1, <1>0, <1>1, <1>2 DEF StageSound, HandSound, Custody, Custodian, Held, Untouched, InTurn
    <2>4. CASE Begin
        <3>1. CASE Live(t)
            <4>1. /\ worker'.pc = "accepted" /\ pending'[t] = "watched" /\ waiter'[t] = "select" /\ cont'[t] = "ready"
                  /\ lease' = lease
                <5>1. /\ worker' = [worker EXCEPT !.pc = "accepted"] /\ lease' = lease
                      /\ pending' = [pending EXCEPT ![t] = "watched"] /\ waiter' = [waiter EXCEPT ![t] = "select"]
                      /\ cont' = [cont EXCEPT ![t] = "ready"]
                    BY <2>4, <3>1, <1>1 DEF Begin, Worker
                <5>2. worker'.pc = "accepted"
                    BY <5>1, <1>0, WorkerTo DEF Typed, WorkerPc
                <5> QED BY <5>1, <5>2, <1>0 DEF Typed
            <4> QED BY <2>0, <4>1, <1>0, <1>1, <1>2 DEF StageSound, HandSound, Custody, Custodian, Held, InTurn
        <3>2. CASE ~Live(t)
            <4>1. /\ worker'.pc = "refused" /\ pending'[t] = "none" /\ waiter'[t] = "none" /\ cont'[t] = "absent"
                  /\ lease'.state # "active"
                <5>1. /\ worker' = [worker EXCEPT !.pc = "refused"] /\ UNCHANGED <<pending, waiter, cont>>
                      /\ lease' = IF Holds(t) THEN [lease EXCEPT !.state = "recovery_needed"] ELSE lease
                    BY <2>4, <3>2, <1>1 DEF Begin, Worker, Release
                <5>2. worker'.pc = "refused"
                    BY <5>1, <1>0, WorkerTo DEF Typed, WorkerPc
                <5>3. lease'.state # "active"
                    BY <5>1, <1>0, <1>2, LeaseTo DEF Typed, LeaseState, Holds
                <5> QED BY <5>1, <5>2, <5>3, <1>2 DEF Untouched
            <4> QED BY SMT, <2>0, <4>1 DEF StageSound, HandSound, Custody, Live, Holds, InTurn
        <3> QED BY <3>1, <3>2
    <2> QED BY <2>1, <2>2, <2>3, <2>4
<1>13. Own(t)'
    <2>1. t \notin event'
        BY <1>0, <1>1, <1>2, <1>3 DEF StageSound, BlockSound
    <2> QED BY <2>1, <1>2, <1>9, <1>12 DEF Own, TaskInv, AckSound, BlockSound
<1> QED BY <1>9, <1>10, <1>11, <1>13, StepFor

\* finalize_delivery_failure.
LEMMA FailureKeeps ==
    ASSUME DispatchInv, FinalizeDeliveryFailure
    PROVE  DispatchInv'
<1>0. Typed /\ PauseSound /\ worker.pc = "failed"
    BY DEF DispatchInv, FinalizeDeliveryFailure
<1>1. PICK t \in Task : t = worker.task
    BY <1>0, AtTask
<1>2. /\ StageSound(t) /\ HandSound(t) /\ Custody(t) /\ AckSound(t) /\ BlockSound(t) /\ lease.task = t
      /\ waiter[t] = "none" /\ runner[t] = "none" /\ cleanup[t] = "none" /\ cont[t] = "absent"
    BY <1>0, <1>1, AtTask DEF Own, TaskInv, StageSound
<1>3. /\ UNCHANGED <<lapsed, active, inbox, waiter, runner, ending, cleanup, reply, todo, pauser, reaped>>
      /\ backend' = FALSE /\ pending' = [pending EXCEPT ![t] = "none"]
    BY <1>1 DEF FinalizeDeliveryFailure, sups, talk, admin
<1>4. \/ /\ Live(t) /\ lease' = [lease EXCEPT !.state = "released"] /\ cont' = [cont EXCEPT ![t] = "terminal"]
         /\ event' = event \cup {t} /\ worker' = Idle
      \/ /\ ~Live(t) /\ UNCHANGED <<lease, cont, event>> /\ FailStop("delivery")
      \/ /\ lease' = IF Holds(t) THEN [lease EXCEPT !.state = "recovery_needed"] ELSE lease
         /\ UNCHANGED <<cont, event>> /\ FailStop("delivery")
    BY <1>1 DEF FinalizeDeliveryFailure, FinalizeTerminal, NextTask, Release
<1>5. worker' \in WorkerRow /\ (worker' = Idle \/ (worker'.task = t /\ worker'.pc = "stopped"))
    <2>1. CASE worker' = Idle
        BY <2>1, <1>0, WorkerTo DEF Typed
    <2>2. CASE FailStop("delivery")
        BY <2>2, <1>0, <1>1, WorkerTo DEF Typed, FailStop
    <2> QED BY <2>1, <2>2, <1>4
<1>6. /\ lease' \in LeaseRow /\ lease'.task = t
      /\ \/ lease' = lease /\ ~Live(t) /\ UNCHANGED <<cont, event>>
         \/ lease.state = "active" /\ lease'.state = "recovery_needed" /\ UNCHANGED <<cont, event>>
         \/ /\ Live(t) /\ lease'.state = "released" /\ cont' = [cont EXCEPT ![t] = "terminal"]
            /\ event' = event \cup {t}
    <2>1. lease \in LeaseRow /\ "released" \in LeaseState /\ "recovery_needed" \in LeaseState
        BY <1>0 DEF Typed, LeaseState
    <2> QED BY ZenonT(60), <1>2, <1>4, <2>1, LeaseTo DEF Holds, Live
<1>7. Typed'
    <2>1. cont' \in [Task -> ContState]
        BY <1>0, <1>6 DEF Typed, ContState
    <2>2. pending' \in [Task -> {"none", "watched", "unwatched"}] /\ backend' \in BOOLEAN
        BY <1>0, <1>3 DEF Typed
    <2> QED BY <1>0, <1>3, <1>5, <1>6, <2>1, <2>2 DEF Typed
<1>8. PauseSound' /\ \A u \in Task : Acked(u)' <=> Acked(u)
    <2>1. NoNewReap
        BY <1>3 DEF NoNewReap
    <2> QED BY <2>1, <1>0, <1>3, PauseFrame
<1>9. Around(t)
    <2>1. WorkerFor(t)
        BY <1>1, <1>5 DEF WorkerFor
    <2>2. LeaseFor(t)
        BY <1>2, <1>6 DEF LeaseFor, Live, Holds
    <2>3. \A u \in Task : u # t => Same(u)
        BY SMT, <1>0, <1>3, <1>6, <1>8 DEF Same, Typed
    <2> QED BY <2>1, <2>2, <2>3, <1>3, <1>6 DEF Around
<1>10. Own(t)'
    <2>1. /\ pending'[t] = "none" /\ waiter'[t] = "none" /\ runner'[t] = "none" /\ cleanup'[t] = "none"
          /\ cont'[t] \in {"absent", "terminal"} /\ ~Live(t)'
        BY SMT, <1>0, <1>2, <1>3, <1>6 DEF Typed, Live, Holds
    <2>2. t \notin todo' /\ (worker'.task = t => worker'.pc = "stopped")
        BY SMT, <1>0, <1>1, <1>2, <1>3, <1>5, Names DEF StageSound, Idle
    <2>3. StageSound(t)' /\ HandSound(t)' /\ Custody(t)'
        BY <2>1, <2>2 DEF StageSound, HandSound, Custody, InTurn
    <2>4. Acked(t) => ~Holds(t) /\ t \notin event
        BY <1>2 DEF AckSound
    <2>5. AckSound(t)'
        BY <2>1, <2>2, <2>4, <1>3, <1>6, <1>8 DEF AckSound, Holds, Live
    <2>6. BlockSound(t)'
        BY <2>1, <2>2, <1>2, <1>6 DEF BlockSound, Held
    <2> QED BY <2>3, <2>5, <2>6 DEF Own, TaskInv
<1> QED BY <1>7, <1>8, <1>9, <1>10, StepFor

\* execute_prepared: the lease is gone, or it is taken, claimed and handed to the supervisor.
LEMMA ExecuteKeeps ==
    ASSUME DispatchInv, ExecuteTakes \/ ExecuteClaims \/ ExecuteSpawns
    PROVE  DispatchInv'
<1>0. Typed /\ PauseSound /\ worker.pc \in {"accepted", "taken", "claimed"}
    BY DEF DispatchInv, ExecuteTakes, ExecuteClaims, ExecuteSpawns
<1>1. PICK t \in Task : t = worker.task
    BY <1>0, AtTask
<1>2. /\ StageSound(t) /\ HandSound(t) /\ Custody(t) /\ AckSound(t) /\ BlockSound(t) /\ lease.task = t
      /\ runner[t] = "none" /\ cleanup[t] = "none"
    BY <1>0, <1>1, AtTask DEF Own, TaskInv, StageSound
<1>3. /\ UNCHANGED <<lease, lapsed, cont, event, backend, inbox, waiter, ending, cleanup, reply, todo, pauser, reaped>>
      /\ \/ worker.pc = "accepted" /\ worker' = Idle /\ UNCHANGED <<pending, active, runner>>
         \/ /\ worker.pc = "accepted" /\ pending[t] # "none" /\ worker' = [worker EXCEPT !.pc = "taken"]
            /\ pending' = [pending EXCEPT ![t] = "none"] /\ active' = [active EXCEPT ![t] = None]
            /\ runner' = runner
         \/ /\ worker.pc = "taken" /\ worker' = [worker EXCEPT !.pc = "claimed"]
            /\ UNCHANGED <<pending, active, runner>>
         \/ /\ worker.pc = "claimed" /\ worker' = [worker EXCEPT !.pc = "executing"]
            /\ active' = [active EXCEPT ![t] = "run"] /\ runner' = [runner EXCEPT ![t] = "loop"]
            /\ pending' = pending
    BY <1>1 DEF ExecuteTakes, ExecuteClaims, ExecuteSpawns, NextTask, Worker, rows, maps, sups, talk, admin
<1>4. /\ worker' \in WorkerRow
      /\ \/ worker.pc = "accepted" /\ worker' = Idle
         \/ worker.pc = "accepted" /\ worker'.task = t /\ worker'.pc = "taken"
         \/ worker.pc = "taken" /\ worker'.task = t /\ worker'.pc = "claimed"
         \/ worker.pc = "claimed" /\ worker'.task = t /\ worker'.pc = "executing"
    <2>1. worker \in WorkerRow /\ {"taken", "claimed", "executing"} \subseteq WorkerPc
        BY <1>0 DEF Typed, WorkerPc
    <2>2. CASE worker' = Idle
        BY <2>1, <2>2, <1>3, WorkerTo
    <2>3. CASE worker.pc = "accepted" /\ worker' = [worker EXCEPT !.pc = "taken"]
        BY <2>1, <2>3, <1>1, WorkerTo
    <2>4. CASE worker.pc = "taken" /\ worker' = [worker EXCEPT !.pc = "claimed"]
        BY <2>1, <2>4, <1>1, WorkerTo
    <2>5. CASE worker.pc = "claimed" /\ worker' = [worker EXCEPT !.pc = "executing"]
        BY <2>1, <2>5, <1>1, WorkerTo
    <2> QED BY <2>2, <2>3, <2>4, <2>5, <1>3
<1>5. /\ pending' \in [Task -> {"none", "watched", "unwatched"}] /\ active' \in [Task -> Channel \cup {None}]
      /\ runner' \in [Task -> RunnerState]
      /\ \A u \in Task : u # t => pending'[u] = pending[u] /\ runner'[u] = runner[u]
    BY SMT, <1>0, <1>3 DEF Typed, Channel, RunnerState
<1>6. Typed'
    BY <1>0, <1>3, <1>4, <1>5 DEF Typed
<1>7. PauseSound' /\ \A u \in Task : Acked(u)' <=> Acked(u)
    <2>1. runner'[t] # "reap"
        BY <1>0, <1>2, <1>3 DEF Typed
    <2>2. NoNewReap
        BY SMT, <2>1, <1>0, <1>3, <1>5 DEF NoNewReap, PauseSound
    <2> QED BY <2>2, <1>0, <1>3, PauseFrame
<1>8. Around(t)
    <2>1. WorkerFor(t)
        BY <1>0, <1>1, <1>4 DEF WorkerFor
    <2>2. LeaseFor(t) /\ \A u \in Task : u # t => Same(u)
        BY <1>3, <1>5, <1>7 DEF LeaseFor, Same
    <2> QED BY <2>1, <2>2, <1>3 DEF Around
<1>9. Own(t)'
    <2>0. t \notin todo /\ (Acked(t) => pending[t] = "none" /\ worker.pc = "accepted" /\ ~Holds(t))
        BY <1>0, <1>1, <1>2 DEF StageSound, AckSound
    <2>1. CASE worker.pc = "accepted" /\ worker' = Idle /\ UNCHANGED <<pending, active, runner>>
        <3>1. worker'.pc = "idle" /\ worker'.task # t
            BY <2>1, Names DEF Idle
        <3>2. StageSound(t)' /\ HandSound(t)' /\ Custody(t)'
            BY <2>1, <3>1, <2>0, <1>2, <1>3
               DEF StageSound, HandSound, Custody, Custodian, Untouched, Held, Holds, Live
        <3> QED BY <2>1, <3>1, <3>2, <1>2, <1>3, <1>7 DEF Own, TaskInv, AckSound, BlockSound, Held, Holds
    <2>2. CASE worker'.task = t /\ worker'.pc \in {"taken", "claimed"} /\ pending'[t] = "none" /\ runner' = runner
               /\ ~Acked(t) /\ waiter[t] # "offered" /\ Held(t)
        <3>1. StageSound(t)' /\ HandSound(t)' /\ Custody(t)'
            BY <2>2, <2>0, <1>2, <1>3 DEF StageSound, HandSound, Custody, Custodian, InTurn, Held
        <3> QED BY <2>2, <3>1, <1>2, <1>3, <1>7 DEF Own, TaskInv, AckSound, BlockSound, Held, Holds
    <2>3. CASE worker.pc = "claimed" /\ worker'.task = t /\ worker'.pc = "executing" /\ runner'[t] = "loop"
               /\ pending' = pending
        <3>1. pending[t] = "none" /\ waiter[t] # "offered" /\ ~Acked(t) /\ Held(t)
            BY <2>3, <2>0, <1>1, <1>2 DEF StageSound
        <3>2. StageSound(t)' /\ HandSound(t)' /\ Custody(t)'
            BY <2>3, <3>1, <2>0, <1>2, <1>3 DEF StageSound, HandSound, Custody, Custodian, Held, InTurn
        <3> QED BY <3>1, <3>2, <1>2, <1>3, <1>7 DEF Own, TaskInv, AckSound, BlockSound, Held
    <2>4. \/ worker.pc = "accepted" /\ worker' = Idle /\ UNCHANGED <<pending, active, runner>>
          \/ /\ worker'.task = t /\ worker'.pc \in {"taken", "claimed"} /\ pending'[t] = "none" /\ runner' = runner
             /\ ~Acked(t) /\ waiter[t] # "offered" /\ Held(t)
          \/ /\ worker.pc = "claimed" /\ worker'.task = t /\ worker'.pc = "executing" /\ runner'[t] = "loop"
             /\ pending' = pending
        <3>1. pending[t] # "none" => waiter[t] # "offered" /\ Held(t)
            BY <1>2 DEF HandSound
        <3>2. worker.pc \in {"taken", "claimed"} => pending[t] = "none" /\ waiter[t] # "offered" /\ Held(t)
            BY <1>1, <1>2 DEF StageSound
        <3>3. runner \in [Task -> RunnerState] /\ pending \in [Task -> {"none", "watched", "unwatched"}]
            BY <1>0 DEF Typed
        <3>4. CASE worker.pc = "accepted" /\ worker' = Idle
            BY SMT, <3>4, <1>3, <1>4, WorkerTo, <1>0 DEF Typed, Idle
        <3>5. CASE worker.pc = "accepted" /\ worker'.task = t /\ worker'.pc = "taken"
            BY <3>1, <3>3, <3>5, <2>0, <1>3, Names DEF Idle
        <3>6. CASE worker.pc = "taken" /\ worker'.task = t /\ worker'.pc = "claimed"
            BY <3>2, <3>6, <2>0, <1>3
        <3>7. CASE worker.pc = "claimed" /\ worker'.task = t /\ worker'.pc = "executing"
            BY <3>3, <3>7, <1>3
        <3> QED BY <1>4, <3>4, <3>5, <3>6, <3>7
    <2> QED BY <2>1, <2>2, <2>3, <2>4
<1> QED BY <1>6, <1>7, <1>8, <1>9, StepFor

-----------------------------------------------------------------------------
(* The store calls and the answers of the supervisors. *)

\* finish: the lease and the turn are left uncertain together.
LEMMA FinishDoes ==
    ASSUME Typed, NEW t \in Task, FinishUncertain(t), UNCHANGED lapsed
    PROVE  /\ lease' \in LeaseRow /\ lease'.task = lease.task
           /\ cont' \in [Task -> ContState] /\ (\A u \in Task : u # t => cont'[u] = cont[u])
           /\ \/ lease' = lease /\ cont' = cont /\ ~(Live(t) /\ cont[t] = "in_flight")
              \/ /\ lease.task = t /\ lease.state = "active" /\ lease'.state = "recovery_needed"
                 /\ cont[t] = "in_flight" /\ cont'[t] = "recovery_needed"
<1>1. CASE Live(t) /\ cont[t] = "in_flight"
    <2>1. /\ lease' = [lease EXCEPT !.state = "recovery_needed"] /\ cont' = [cont EXCEPT ![t] = "recovery_needed"]
          /\ lease.task = t /\ lease.state = "active" /\ lease \in LeaseRow /\ "recovery_needed" \in LeaseState
          /\ cont \in [Task -> ContState] /\ "recovery_needed" \in ContState
        BY <1>1 DEF FinishUncertain, Live, Holds, Typed, LeaseState, ContState
    <2> QED BY <2>1, <1>1, LeaseTo
<1>2. CASE ~(Live(t) /\ cont[t] = "in_flight")
    BY <1>2 DEF FinishUncertain, Typed
<1> QED BY <1>1, <1>2

\* The command of the capability, or its loss: the turn is over for certain, or left
\* uncertain with its lease.
LEMMA SettleDoes ==
    ASSUME Typed, NEW t \in Task, NEW s \in {"blocked", "terminal"}, NEW kills \in BOOLEAN, Settle(t, s, kills),
           Holds(t) => cont[t] = "in_flight", UNCHANGED lapsed
    PROVE  /\ lease' \in LeaseRow /\ lease'.task = lease.task /\ ~Live(t)'
           /\ \/ lease' = lease
              \/ lease.task = t /\ lease.state = "active" /\ lease'.state \in {"released", "recovery_needed"}
           /\ cont' \in [Task -> ContState] /\ (\A u \in Task : u # t => cont'[u] = cont[u])
           /\ cont'[t] \in {"in_flight", "recovery_needed"} =>
                cont[t] \in {"in_flight", "recovery_needed"} /\ (lease' = lease \/ lease'.state = "recovery_needed")
           /\ event' = event \/ (event' = event \cup {t} /\ Holds(t) /\ lease'.state = "released")
           /\ worker' \in WorkerRow /\ backend' \in BOOLEAN /\ (backend' => backend)
           /\ \/ worker' = worker
              \/ worker.task = t /\ (worker' = Idle \/ (worker'.task = t /\ worker'.pc = "stopped"))
<1>0. lease \in LeaseRow /\ cont \in [Task -> ContState] /\ worker \in WorkerRow /\ backend \in BOOLEAN /\ lapsed \in BOOLEAN
    BY DEF Typed
<1>1. CASE cap[t] = "commanded" /\ Live(t) /\ FinalizeTerminal(t, s) /\ UNCHANGED backend
           /\ (IF worker.task = t THEN NextTask ELSE UNCHANGED worker)
    <2>1. /\ lease' = [lease EXCEPT !.state = "released"] /\ cont' = [cont EXCEPT ![t] = s] /\ event' = event \cup {t}
          /\ "released" \in LeaseState /\ lease.task = t /\ lease.state = "active" /\ s \in ContState
        BY <1>1 DEF FinalizeTerminal, LeaseState, Live, Holds, ContState
    <2>2. lease' \in LeaseRow /\ lease'.task = t /\ lease'.state = "released"
        BY <2>1, <1>0, LeaseTo
    <2>3. worker' \in WorkerRow /\ (worker' = worker \/ (worker.task = t /\ worker' = Idle))
        BY <1>0, <1>1, WorkerTo DEF NextTask
    <2> QED BY <2>1, <2>2, <2>3, <1>0, <1>1 DEF Holds, Live
<1>2. CASE cap[t] = "commanded" /\ ~Live(t) /\ UNCHANGED <<lease, cont, event, backend>>
           /\ (IF worker.task = t THEN FailStop("finalize") ELSE UNCHANGED worker)
    <2>1. /\ worker' \in WorkerRow
          /\ worker' = worker \/ (worker.task = t /\ worker'.task = t /\ worker'.pc = "stopped")
        BY <1>0, <1>2, WorkerTo DEF FailStop
    <2>2. ~Live(t)'
        BY <1>2 DEF Live, Holds
    <2> QED BY <2>1, <2>2, <1>0, <1>2
<1>3. CASE cap[t] = "dropped" /\ FinishUncertain(t) /\ UNCHANGED <<event, worker>>
           /\ backend' = IF kills THEN FALSE ELSE backend
    <2>1. ~Live(t)'
        BY <1>3, FinishDoes DEF Live, Holds
    <2>2. backend' \in BOOLEAN /\ (backend' => backend)
        <3>1. CASE kills
            BY <1>3, <3>1
        <3>2. CASE ~kills
            BY <1>0, <1>3, <3>2
        <3> QED BY <3>1, <3>2
    <2> QED BY <2>1, <2>2, <1>0, <1>3, FinishDoes
<1> QED BY <1>1, <1>2, <1>3 DEF Settle

\* The answers stay answers.
LEMMA AnswerTyped ==
    ASSUME Typed, NEW t \in Task, NEW c \in Channel, NEW caller, NEW v \in {"ok", "err"}, AnswerAndEnd(t, c, caller, v)
    PROVE  inbox' \in [Task -> Inbox] /\ reply' \in [Caller -> {"none", "ok", "err", "gone"}]
<1>1. inbox' \in [Task -> Inbox]
    <2>1. inbox' = [inbox EXCEPT ![t][c] = None] /\ inbox \in [Task -> Inbox]
        BY DEF AnswerAndEnd, Typed
    <2>2. ASSUME NEW u \in Task PROVE inbox'[u] \in Inbox
        <3>1. inbox[u] \in Inbox /\ inbox'[u] = IF u = t THEN [inbox[u] EXCEPT ![c] = None] ELSE inbox[u]
            BY <2>1
        <3> QED BY <3>1 DEF Inbox
    <2>3. inbox' = [u \in Task |-> inbox'[u]]
        BY <2>1
    <2> QED BY <2>2, <2>3
<1>2. reply' \in [Caller -> {"none", "ok", "err", "gone"}]
    <2>1. ASSUME NEW x \in Caller PROVE reply'[x] \in {"none", "ok", "err", "gone"}
        <3>1. reply[x] \in {"none", "ok", "err", "gone"}
            BY DEF Typed
        <3>2. reply'[x] \in {"gone", v, "err", reply[x]}
            BY DEF AnswerAndEnd
        <3> QED BY <3>1, <3>2
    <2>2. reply' = [x \in Caller |-> reply'[x]]
        BY DEF AnswerAndEnd
    <2> QED BY <2>1, <2>2
<1> QED BY <1>1, <1>2

-----------------------------------------------------------------------------
(* The waiting supervisor. *)

\* It waits, or ends without having had the lease.
LEMMA WaiterMoves ==
    ASSUME DispatchInv, NEW t \in Task, waiter[t] \notin {"none", "offered"}, waiter'[t] \notin {"none", "offered"},
           \A u \in Task : u # t => waiter'[u] = waiter[u],
           UNCHANGED <<lease, lapsed, cont, event, backend, pending, runner, cleanup, worker, todo>>,
           Typed', PauseSound', \A u \in Task : Acked(u)' <=> Acked(u)
    PROVE  DispatchInv'
<1>0. StageSound(t) /\ HandSound(t) /\ Custody(t) /\ AckSound(t) /\ BlockSound(t)
    BY DEF DispatchInv, TaskInv
<1>1. Around(t)
    BY DEF Around, Same, LeaseFor, WorkerFor
<1>2. StageSound(t)'
    BY <1>0 DEF StageSound, Untouched, Held
<1>3. HandSound(t)' /\ Custody(t)'
    BY <1>0 DEF HandSound, Custody, Custodian, Held, Holds, Live
<1>4. AckSound(t)' /\ BlockSound(t)'
    BY <1>0 DEF AckSound, BlockSound, Held, Holds
<1> QED BY <1>1, <1>2, <1>3, <1>4, StepFor DEF Own, TaskInv

\* It takes the pending lease and settles it, or offers the capability.
LEMMA WaiterTakes ==
    ASSUME DispatchInv, NEW t \in Task, pending[t] # "none", waiter[t] \notin {"none", "offered"},
           waiter'[t] \in {"offered", "done"}, pending'[t] = "none", ~backend',
           lease'.task = t, lease' = lease \/ lease'.state \in {"released", "recovery_needed"},
           waiter'[t] = "done" => lease'.state # "active",
           waiter'[t] = "offered" => cont'[t] = "in_flight" /\ lease' = lease,
           waiter'[t] = "done" =>
             cont'[t] = cont[t] \/ (cont'[t] = "recovery_needed" /\ lease'.state = "recovery_needed"),
           \A u \in Task : u # t => waiter'[u] = waiter[u] /\ pending'[u] = pending[u] /\ cont'[u] = cont[u],
           UNCHANGED <<lapsed, event, runner, cleanup, worker, todo>>,
           Typed', PauseSound', \A u \in Task : u # t => (Acked(u)' <=> Acked(u)),
           waiter'[t] = "offered" => (Acked(t)' <=> Acked(t))
    PROVE  DispatchInv'
<1>0. StageSound(t) /\ HandSound(t) /\ Custody(t) /\ AckSound(t) /\ BlockSound(t)
    BY DEF DispatchInv, TaskInv
<1>1. /\ Held(t) /\ runner[t] = "none" /\ cleanup[t] = "none" /\ cont[t] \in {"absent", "ready"} /\ ~Acked(t)
      /\ t \notin event /\ t \notin todo
      /\ worker.task = t => worker.pc \notin {"acquired", "sent", "failed", "taken", "claimed"}
    BY <1>0 DEF StageSound, HandSound, AckSound, BlockSound, Untouched
<1>2. Around(t)
    <2>1. LeaseFor(t)
        BY <1>1 DEF LeaseFor, Held
    <2> QED BY <2>1 DEF Around, Same, WorkerFor
<1>3. StageSound(t)'
    BY <1>1 DEF StageSound
<1>4. HandSound(t)' /\ Custody(t)'
    BY <1>1 DEF HandSound, Custody, Custodian, Live, Holds, InTurn
<1>5. AckSound(t)' /\ BlockSound(t)'
    BY <1>1 DEF AckSound, BlockSound, Held, Holds
<1> QED BY <1>2, <1>3, <1>4, <1>5, StepFor DEF Own, TaskInv

\* The claimed oneshot resolves, the channel closes, or something wakes it.
LEMMA WaiterWaits ==
    ASSUME DispatchInv, NEW t \in Task, WaiterStandsDown(t) \/ WaiterWakes(t) \/ WaiterClosed(t)
    PROVE  DispatchInv'
<1>0. Typed /\ PauseSound /\ waiter[t] \in {"select", "closed"}
    BY DEF DispatchInv, WaiterStandsDown, WaiterWakes, WaiterClosed
<1>1. /\ UNCHANGED <<lease, lapsed, cont, event, backend, pending, runner, ending, cleanup, worker, todo, pauser, reaped>>
      /\ active' = active \/ active' = [active EXCEPT ![t] = None]
    BY DEF WaiterStandsDown, WaiterWakes, WaiterClosed, rows, talk, admin
<1>2. PICK w \in {"done", "command", "reap", "expired", "closed"} : waiter' = [waiter EXCEPT ![t] = w]
    BY DEF WaiterStandsDown, WaiterWakes, WaiterClosed
<1>3. /\ waiter' \in [Task -> WaiterState] /\ waiter'[t] = w /\ (\A u \in Task : u # t => waiter'[u] = waiter[u])
      /\ active' \in [Task -> Channel \cup {None}]
    BY <1>0, <1>1, <1>2 DEF Typed, WaiterState
<1>4. CASE WaiterStandsDown(t)
    <2>1. AnswerAndEnd(t, "wait", None, "err") /\ w # "reap" /\ "wait" \in Channel
        BY <1>0, <1>2, <1>3, <1>4 DEF WaiterStandsDown, Typed, Channel
    <2>2. inbox' \in [Task -> Inbox] /\ reply' \in [Caller -> {"none", "ok", "err", "gone"}]
        BY <2>1, <1>0, AnswerTyped
    <2>3. NoNewReap
        BY <2>1, <1>0, <1>1, <1>3 DEF NoNewReap, PauseSound
    <2>4. PauseSound' /\ \A u \in Task : Acked(u)' <=> Acked(u)
        BY <2>1, <2>3, <1>0, <1>1, Names, AnswerOther DEF Caller
    <2>5. Typed'
        BY <1>0, <1>1, <1>3, <2>2 DEF Typed
    <2> QED BY <2>4, <2>5, <1>0, <1>1, <1>3, WaiterMoves
<1>5. CASE ((WaiterWakes(t) /\ inbox' = inbox) \/ WaiterClosed(t)) /\ w # "reap"
    <2>1. inbox' = inbox /\ reply' = reply
        BY <1>5 DEF WaiterWakes, WaiterClosed, talk
    <2>2. NoNewReap
        BY <1>5, <1>0, <1>1, <1>3 DEF NoNewReap, PauseSound
    <2>3. PauseSound' /\ \A u \in Task : Acked(u)' <=> Acked(u)
        BY <2>1, <2>2, <1>0, <1>1, PauseFrame
    <2>4. Typed'
        BY <1>0, <1>1, <1>3, <2>1 DEF Typed
    <2> QED BY SMT, <2>3, <2>4, <1>0, <1>1, <1>3, WaiterMoves
<1>6. CASE /\ inbox[t]["wait"] # None /\ inbox' = [inbox EXCEPT ![t]["wait"] = None] /\ reply' = reply
           /\ w = IF inbox[t]["wait"] = "worker" THEN "command" ELSE "reap"
    <2>1. /\ inbox[t] \in Inbox /\ inbox'[t] = [inbox[t] EXCEPT !["wait"] = None] /\ "wait" \in Channel
          /\ \A u \in Task : u # t => inbox'[u] = inbox[u]
        BY <1>0, <1>6 DEF Typed, Channel
    <2>2. /\ inbox'[t] \in Inbox /\ inbox'[t]["wait"] # "pauser"
          /\ \A c \in Channel : inbox'[t][c] = "pauser" => inbox[t][c] = "pauser" /\ c # "wait"
          /\ w = "reap" => inbox[t]["wait"] = "pauser"
        BY <2>1, <1>6, Names DEF Inbox, Caller
    <2>3. inbox' \in [Task -> Inbox]
        BY <2>1, <2>2, <1>0, <1>6 DEF Typed
    <2>4. Typed'
        BY <1>0, <1>1, <1>3, <2>3, <1>6 DEF Typed
    <2>5. PauseSound' /\ \A u \in Task : Acked(u)' <=> Acked(u)
        <3>1. \A u \in Task, c \in Channel : inbox'[u][c] = "pauser" => inbox[u][c] = "pauser"
            BY <2>1, <2>2
        <3>2. CASE w # "reap"
            <4>1. NoNewReap
                BY <3>2, <1>0, <1>1, <1>3 DEF NoNewReap, PauseSound
            <4> QED BY <3>1, <4>1, <1>0, <1>1, <1>6, PauseFrame
        <3>3. CASE w = "reap"
            <4>1. PausedAt(t) /\ pauser.chan = "wait" /\ waiter[t] # "reap" /\ runner[t] # "reap"
                BY <2>1, <2>2, <3>3, <1>0 DEF PauseSound
            <4>2. \A u \in Task, c \in Channel : inbox'[u][c] # "pauser"
                BY SMT, <4>1, <2>1, <2>2, <3>1, <1>0 DEF PauseSound, PausedAt
            <4>3. \A u \in Task : (waiter'[u] = "reap" => u = t) /\ runner'[u] # "reap"
                BY <4>1, <1>0, <1>1, <1>3 DEF PauseSound, PausedAt
            <4>4. PausedAt(t)' /\ \A u \in Task : Acked(u)' <=> Acked(u)
                BY <4>1, <1>1, <1>6 DEF PausedAt, Acked
            <4>5. UNCHANGED <<pauser, reply, reaped>> /\ reaped \subseteq Task
                BY <1>0, <1>1, <1>6 DEF PauseSound
            <4>6. PauseSound'
                BY <4>1, <4>2, <4>3, <4>4, <4>5 DEF PauseSound, PausedAt
            <4> QED BY <4>4, <4>6
        <3> QED BY <3>2, <3>3
    <2> QED BY <2>4, <2>5, <1>0, <1>1, <1>3, WaiterMoves
<1>7. \/ WaiterStandsDown(t)
      \/ ((WaiterWakes(t) /\ inbox' = inbox) \/ WaiterClosed(t)) /\ w # "reap"
      \/ /\ inbox[t]["wait"] # None /\ inbox' = [inbox EXCEPT ![t]["wait"] = None] /\ reply' = reply
         /\ w = IF inbox[t]["wait"] = "worker" THEN "command" ELSE "reap"
    <2>1. CASE WaiterClosed(t)
        BY <2>1, <1>0, <1>3 DEF WaiterClosed, Typed
    <2>2. CASE WaiterWakes(t)
        BY <2>2, <1>0, <1>3 DEF WaiterWakes, Typed, talk
    <2> QED BY <2>1, <2>2
<1> QED BY <1>4, <1>5, <1>6, <1>7

\* The timer.
LEMMA WaiterExpiresKeeps ==
    ASSUME DispatchInv, NEW t \in Task, WaiterExpires(t)
    PROVE  DispatchInv'
<1>0. Typed /\ PauseSound /\ HandSound(t) /\ waiter[t] = "expired" /\ "wait" \in Channel
    BY DEF DispatchInv, TaskInv, WaiterExpires, Channel
<1>1. /\ UNCHANGED <<lapsed, cont, event, runner, ending, cleanup, worker, todo, pauser, reaped>>
      /\ active' = [active EXCEPT ![t] = None] /\ waiter' = [waiter EXCEPT ![t] = "done"]
      /\ pending' = [pending EXCEPT ![t] = "none"] /\ AnswerAndEnd(t, "wait", None, "err")
      /\ IF pending[t] = "none" THEN UNCHANGED <<lease, backend>>
         ELSE /\ backend' = FALSE
              /\ lease' = IF Holds(t) THEN [lease EXCEPT !.state = "recovery_needed"] ELSE lease
    BY DEF WaiterExpires, Release, admin
<1>2. /\ waiter' \in [Task -> WaiterState] /\ active' \in [Task -> Channel \cup {None}]
      /\ pending' \in [Task -> {"none", "watched", "unwatched"}]
      /\ waiter'[t] = "done" /\ pending'[t] = "none"
      /\ \A u \in Task : u # t => waiter'[u] = waiter[u] /\ pending'[u] = pending[u]
    BY <1>0, <1>1 DEF Typed, WaiterState
<1>3. inbox' \in [Task -> Inbox] /\ reply' \in [Caller -> {"none", "ok", "err", "gone"}]
    BY <1>0, <1>1, AnswerTyped
<1>4. backend' \in BOOLEAN /\ (backend' => backend)
    BY <1>0, <1>1 DEF Typed
<1>5. PauseSound' /\ \A u \in Task : Acked(u)' <=> Acked(u)
    <2>1. NoNewReap
        BY <1>0, <1>1, <1>2, <1>4 DEF NoNewReap, PauseSound
    <2> QED BY <2>1, <1>0, <1>1, Names, AnswerOther DEF Caller
<1>6. CASE pending[t] = "none"
    <2>1. pending' = pending /\ UNCHANGED <<lease, backend>>
        BY <1>0, <1>1, <1>6 DEF Typed
    <2>2. Typed'
        BY <1>0, <1>1, <1>2, <1>3, <2>1 DEF Typed
    <2> QED BY <1>0, <1>1, <1>2, <1>5, <2>1, <2>2, WaiterMoves
<1>7. CASE pending[t] # "none"
    <2>1. Held(t) /\ lease \in LeaseRow /\ "recovery_needed" \in LeaseState /\ backend' = FALSE
        BY <1>0, <1>1, <1>7 DEF HandSound, Typed, LeaseState
    <2>2. lease' \in LeaseRow /\ lease'.task = t /\ lease'.state = "recovery_needed"
        BY <1>1, <1>7, <2>1, LeaseTo DEF Held, Holds
    <2>3. Typed'
        BY <1>0, <1>1, <1>2, <1>3, <1>4, <2>2 DEF Typed
    <2> QED BY <1>0, <1>1, <1>2, <1>5, <1>7, <2>1, <2>2, <2>3, WaiterTakes
<1> QED BY <1>6, <1>7

\* A command.
LEMMA WaiterObeysKeeps ==
    ASSUME DispatchInv, NEW t \in Task, WaiterObeys(t)
    PROVE  DispatchInv'
<1>0. Typed /\ PauseSound /\ HandSound(t) /\ waiter[t] \in {"command", "reap"} /\ "wait" \in Channel
    BY DEF DispatchInv, TaskInv, WaiterObeys, Channel
<1>1. PICK caller \in Caller : caller = IF waiter[t] = "command" THEN "worker" ELSE "pauser"
    BY DEF Caller
<1>2. /\ UNCHANGED <<lapsed, event, runner, ending, cleanup, worker, todo, pauser, reaped>>
      /\ active' = [active EXCEPT ![t] = None] /\ pending' = [pending EXCEPT ![t] = "none"]
    BY DEF WaiterObeys, admin
<1>3. \/ /\ pending[t] = "none" /\ AnswerAndEnd(t, "wait", caller, "err") /\ waiter' = [waiter EXCEPT ![t] = "done"]
         /\ UNCHANGED <<lease, cont, backend>>
      \/ /\ pending[t] # "none" /\ backend' = FALSE /\ waiter' = [waiter EXCEPT ![t] = "done"]
         /\ \E s \in {"released", "recovery_needed"} : lease' = IF Holds(t) THEN [lease EXCEPT !.state = s] ELSE lease
         /\ \E v \in {"ok", "err"} : AnswerAndEnd(t, "wait", caller, v)
         /\ cont' = cont
      \/ /\ pending[t] # "none" /\ backend' = FALSE /\ waiter' = [waiter EXCEPT ![t] = "done"]
         /\ lease' = [lease EXCEPT !.state = "recovery_needed"] /\ cont' = [cont EXCEPT ![t] = "recovery_needed"]
         /\ AnswerAndEnd(t, "wait", caller, "err")
      \/ /\ pending[t] # "none" /\ backend' = FALSE /\ waiter' = [waiter EXCEPT ![t] = "offered"]
         /\ cont' = [cont EXCEPT ![t] = "in_flight"] /\ reply' = [reply EXCEPT !["worker"] = "ok"]
         /\ UNCHANGED <<lease, inbox>> /\ waiter[t] = "command"
    <2>1. CASE pending[t] = "none"
        BY <2>1, <1>1 DEF WaiterObeys
    <2>2. CASE pending[t] # "none"
        <3>1. PICK gone \in {backend, FALSE} :
                /\ backend' = FALSE
                /\ CASE ~gone \/ (caller = "worker" /\ ~Live(t)) ->
                          Release(t, "recovery_needed") /\ AnswerAndEnd(t, "wait", caller, "err")
                          /\ waiter' = [waiter EXCEPT ![t] = "done"] /\ UNCHANGED <<cont, cap>>
                     [] gone /\ caller = "pauser" ->
                          /\ Release(t, "released")
                          /\ AnswerAndEnd(t, "wait", caller, IF Holds(t) THEN "ok" ELSE "err")
                          /\ waiter' = [waiter EXCEPT ![t] = "done"]
                          /\ UNCHANGED <<cont, cap>>
                     [] gone /\ caller = "worker" /\ Live(t) /\ reply["worker"] = "gone" ->
                          /\ lease' = [lease EXCEPT !.state = "recovery_needed"]
                          /\ cont' = [cont EXCEPT ![t] = "recovery_needed"]
                          /\ AnswerAndEnd(t, "wait", caller, "err") /\ waiter' = [waiter EXCEPT ![t] = "done"]
                          /\ UNCHANGED cap
                     [] OTHER ->
                          /\ cont' = [cont EXCEPT ![t] = "in_flight"]
                          /\ cap' = [cap EXCEPT ![t] = "held"]
                          /\ reply' = [reply EXCEPT !["worker"] = "ok"]
                          /\ waiter' = [waiter EXCEPT ![t] = "offered"]
                          /\ UNCHANGED <<lease, inbox>>
            BY <2>2, <1>1 DEF WaiterObeys
        <3>2. CASE ~gone \/ (caller = "worker" /\ ~Live(t))
            BY <2>2, <3>1, <3>2 DEF Release
        <3>3. CASE gone /\ caller = "pauser"
            BY <2>2, <3>1, <3>3 DEF Release
        <3>4. CASE gone /\ caller = "worker" /\ Live(t) /\ reply["worker"] = "gone"
            BY <2>2, <3>1, <3>4
        <3>5. CASE gone /\ caller = "worker" /\ Live(t) /\ reply["worker"] # "gone"
            BY <2>2, <3>1, <3>5, <1>1
        <3> QED BY <3>2, <3>3, <3>4, <3>5, <1>1
    <2> QED BY <2>1, <2>2
<1>4. PICK w \in {"offered", "done"} : waiter' = [waiter EXCEPT ![t] = w]
    BY <1>3
<1>5. /\ waiter' \in [Task -> WaiterState] /\ active' \in [Task -> Channel \cup {None}]
      /\ pending' \in [Task -> {"none", "watched", "unwatched"}]
      /\ waiter'[t] = w /\ pending'[t] = "none"
      /\ \A u \in Task : u # t => waiter'[u] = waiter[u] /\ pending'[u] = pending[u]
    BY <1>0, <1>2, <1>4 DEF Typed, WaiterState
<1>6. backend' \in BOOLEAN /\ (backend' => backend)
    <2>1. backend \in BOOLEAN /\ (backend' = backend \/ backend' = FALSE)
        BY <1>0, <1>3 DEF Typed
    <2>2. CASE backend' = backend
        BY <2>1, <2>2
    <2>3. CASE backend' = FALSE
        BY <2>3
    <2> QED BY <2>1, <2>2, <2>3
<1>7. NoNewReap
    BY <1>0, <1>2, <1>5, <1>6 DEF NoNewReap, PauseSound
<1>8. ASSUME NEW v \in {"ok", "err"}, AnswerAndEnd(t, "wait", caller, v), w = "done"
      PROVE  /\ inbox' \in [Task -> Inbox] /\ reply' \in [Caller -> {"none", "ok", "err", "gone"}] /\ PauseSound'
             /\ \A u \in Task : u # t => (Acked(u)' <=> Acked(u))
             /\ v = "err" => (Acked(t)' <=> Acked(t))
    <2>1. inbox' \in [Task -> Inbox] /\ reply' \in [Caller -> {"none", "ok", "err", "gone"}]
        BY <1>0, <1>8, AnswerTyped
    <2>2. CASE waiter[t] = "command"
        <3>1. caller # "pauser" /\ UNCHANGED <<pauser, reaped>>
            BY <2>2, <1>1, <1>2
        <3> QED BY <2>1, <3>1, <1>0, <1>7, <1>8, AnswerOther
    <2>3. CASE waiter[t] = "reap"
        <3>1. caller = "pauser" /\ UNCHANGED <<pauser, reaped>> /\ waiter'[t] # "reap" /\ runner'[t] # "reap"
            BY <2>3, <1>0, <1>1, <1>2, <1>5, <1>8 DEF PauseSound
        <3>2. AnswerAndEnd(t, "wait", "pauser", v)
            BY <3>1, <1>8
        <3> QED BY <2>1, <2>3, <3>1, <3>2, <1>0, <1>7, AnswerPause
    <2> QED BY <2>2, <2>3, <1>0
<1>9. CASE /\ pending[t] = "none" /\ AnswerAndEnd(t, "wait", caller, "err") /\ waiter' = [waiter EXCEPT ![t] = "done"]
           /\ UNCHANGED <<lease, cont, backend>>
    <2>1. w = "done" /\ pending' = pending
        BY SMT, <1>0, <1>2, <1>5, <1>9 DEF Typed
    <2>2. /\ inbox' \in [Task -> Inbox] /\ reply' \in [Caller -> {"none", "ok", "err", "gone"}] /\ PauseSound'
          /\ \A u \in Task : Acked(u)' <=> Acked(u)
        BY <2>1, <1>8, <1>9
    <2>3. Typed'
        BY <1>0, <1>2, <1>5, <1>9, <2>1, <2>2 DEF Typed
    <2> QED BY <1>0, <1>2, <1>5, <1>9, <2>1, <2>2, <2>3, WaiterMoves
<1>10. CASE pending[t] # "none"
    <2>0. /\ Held(t) /\ lease \in LeaseRow /\ "recovery_needed" \in LeaseState /\ "released" \in LeaseState
          /\ "recovery_needed" \in ContState /\ "in_flight" \in ContState /\ cont \in [Task -> ContState]
        BY <1>0, <1>10 DEF HandSound, Typed, LeaseState, ContState
    <2>1. CASE /\ backend' = FALSE /\ waiter' = [waiter EXCEPT ![t] = "done"]
               /\ \E s \in {"released", "recovery_needed"} : lease' = IF Holds(t) THEN [lease EXCEPT !.state = s] ELSE lease
               /\ \E v \in {"ok", "err"} : AnswerAndEnd(t, "wait", caller, v)
               /\ cont' = cont
        <3>1. w = "done"
            BY <2>1, <1>0, <1>5 DEF Typed
        <3>2. /\ lease' \in LeaseRow /\ lease'.task = t /\ lease'.state \in {"released", "recovery_needed"}
            <4>1. PICK s \in {"released", "recovery_needed"} : lease' = IF Holds(t) THEN [lease EXCEPT !.state = s] ELSE lease
                BY <2>1
            <4>2. s \in LeaseState
                BY <2>0
            <4> QED BY <2>0, <4>1, <4>2, LeaseTo DEF Held, Holds
        <3>3. /\ inbox' \in [Task -> Inbox] /\ reply' \in [Caller -> {"none", "ok", "err", "gone"}] /\ PauseSound'
              /\ \A u \in Task : u # t => (Acked(u)' <=> Acked(u))
            BY <2>1, <3>1, <1>8
        <3>4. Typed'
            BY <1>0, <1>2, <1>5, <1>6, <2>1, <3>2, <3>3 DEF Typed
        <3> QED BY SMT, <1>0, <1>2, <1>5, <1>10, <2>1, <3>1, <3>2, <3>3, <3>4, WaiterTakes
    <2>2. CASE /\ backend' = FALSE /\ waiter' = [waiter EXCEPT ![t] = "done"]
               /\ lease' = [lease EXCEPT !.state = "recovery_needed"] /\ cont' = [cont EXCEPT ![t] = "recovery_needed"]
               /\ AnswerAndEnd(t, "wait", caller, "err")
        <3>1. w = "done"
            BY <2>2, <1>0, <1>5 DEF Typed
        <3>2. lease' \in LeaseRow /\ lease'.task = t /\ lease'.state = "recovery_needed"
            BY <2>0, <2>2, LeaseTo DEF Held
        <3>3. /\ inbox' \in [Task -> Inbox] /\ reply' \in [Caller -> {"none", "ok", "err", "gone"}] /\ PauseSound'
              /\ \A u \in Task : u # t => (Acked(u)' <=> Acked(u))
            BY <2>2, <3>1, <1>8
        <3>4. /\ cont' \in [Task -> ContState] /\ cont'[t] = "recovery_needed"
              /\ \A u \in Task : u # t => cont'[u] = cont[u]
            BY <2>0, <2>2
        <3>5. Typed'
            BY <1>0, <1>2, <1>5, <1>6, <3>2, <3>3, <3>4 DEF Typed
        <3> QED BY SMT, <1>0, <1>2, <1>5, <1>10, <2>2, <3>1, <3>2, <3>3, <3>4, <3>5, WaiterTakes
    <2>3. CASE /\ backend' = FALSE /\ waiter' = [waiter EXCEPT ![t] = "offered"]
               /\ cont' = [cont EXCEPT ![t] = "in_flight"] /\ reply' = [reply EXCEPT !["worker"] = "ok"]
               /\ UNCHANGED <<lease, inbox>> /\ waiter[t] = "command"
        <3>1. w = "offered"
            BY <2>3, <1>0, <1>5 DEF Typed
        <3>2. reply' \in [Caller -> {"none", "ok", "err", "gone"}] /\ reply'["pauser"] = reply["pauser"]
            BY <2>3, <1>0 DEF Typed, Caller
        <3>3. PauseSound' /\ \A u \in Task : Acked(u)' <=> Acked(u)
            BY <2>3, <3>2, <1>0, <1>2, <1>7, PauseFrame
        <3>4. /\ cont' \in [Task -> ContState] /\ cont'[t] = "in_flight"
              /\ \A u \in Task : u # t => cont'[u] = cont[u]
            BY <2>0, <2>3
        <3>5. Typed' /\ lease'.task = t
            BY <1>0, <1>2, <1>5, <1>6, <2>0, <2>3, <3>2, <3>4 DEF Typed, Held
        <3> QED BY SMT, <1>0, <1>2, <1>5, <1>10, <2>3, <3>1, <3>3, <3>4, <3>5, WaiterTakes
    <2> QED BY <1>3, <1>10, <2>1, <2>2, <2>3
<1> QED BY <1>3, <1>9, <1>10

\* The worker's command, or the loss of the capability.
LEMMA WaiterSettlesKeeps ==
    ASSUME DispatchInv, NEW t \in Task, WaiterSettles(t)
    PROVE  DispatchInv'
<1>0. Typed /\ PauseSound /\ HandSound(t) /\ StageSound(t) /\ AckSound(t) /\ BlockSound(t)
      /\ waiter[t] = "offered" /\ "wait" \in Channel
    BY DEF DispatchInv, TaskInv, WaiterSettles, Channel
<1>1. /\ UNCHANGED <<lapsed, pending, active, runner, ending, cleanup, todo, pauser, reaped>>
      /\ waiter' = [waiter EXCEPT ![t] = "done"] /\ AnswerAndEnd(t, "wait", None, "err")
      /\ Settle(t, "terminal", FALSE)
    BY DEF WaiterSettles, admin
<1>2. /\ pending[t] = "none" /\ runner[t] = "none" /\ cleanup[t] = "none" /\ (Holds(t) => cont[t] = "in_flight")
      /\ t \notin todo
      /\ worker.task = t => worker.pc \notin {"acquired", "sent", "failed", "taken", "claimed"}
    BY <1>0 DEF HandSound, StageSound, Untouched
<1>3. /\ waiter' \in [Task -> WaiterState] /\ waiter'[t] = "done"
      /\ \A u \in Task : u # t => waiter'[u] = waiter[u]
    BY <1>0, <1>1 DEF Typed, WaiterState
<1>4. inbox' \in [Task -> Inbox] /\ reply' \in [Caller -> {"none", "ok", "err", "gone"}]
    BY <1>0, <1>1, AnswerTyped
<1>5. /\ lease' \in LeaseRow /\ lease'.task = lease.task /\ ~Live(t)'
      /\ \/ lease' = lease
         \/ lease.task = t /\ lease.state = "active" /\ lease'.state \in {"released", "recovery_needed"}
      /\ cont' \in [Task -> ContState] /\ (\A u \in Task : u # t => cont'[u] = cont[u])
      /\ cont'[t] \in {"in_flight", "recovery_needed"} =>
           cont[t] \in {"in_flight", "recovery_needed"} /\ (lease' = lease \/ lease'.state = "recovery_needed")
      /\ event' = event \/ (event' = event \cup {t} /\ Holds(t) /\ lease'.state = "released")
      /\ worker' \in WorkerRow /\ backend' \in BOOLEAN /\ (backend' => backend)
      /\ \/ worker' = worker
         \/ worker.task = t /\ (worker' = Idle \/ (worker'.task = t /\ worker'.pc = "stopped"))
    BY <1>0, <1>1, <1>2, SettleDoes
<1>6. PauseSound' /\ \A u \in Task : Acked(u)' <=> Acked(u)
    <2>1. NoNewReap
        BY <1>0, <1>1, <1>3, <1>5 DEF NoNewReap, PauseSound
    <2> QED BY <2>1, <1>0, <1>1, Names, AnswerOther DEF Caller
<1>7. Typed'
    BY <1>0, <1>1, <1>3, <1>4, <1>5 DEF Typed
<1>8. Around(t)
    <2>1. WorkerFor(t)
        BY <1>5 DEF WorkerFor
    <2>2. LeaseFor(t) /\ \A u \in Task : u # t => Same(u)
        BY <1>1, <1>3, <1>5, <1>6 DEF LeaseFor, Same
    <2> QED BY <2>1, <2>2, <1>1, <1>5 DEF Around
<1>9. StageSound(t)'
    <2>1. worker'.task = t => worker'.pc \notin {"acquired", "sent", "failed", "taken", "claimed"}
        BY SMT, <1>2, <1>5, Names DEF Idle
    <2> QED BY <2>1, <1>1, <1>2 DEF StageSound
<1>10. HandSound(t)' /\ Custody(t)'
    BY <1>1, <1>2, <1>3, <1>5 DEF HandSound, Custody, InTurn
<1>11. AckSound(t)'
    <2>1. Holds(t)' => Holds(t)
        BY <1>5 DEF Holds
    <2> QED BY SMT, <1>0, <1>1, <1>2, <1>5, <1>6, <2>1, Names DEF AckSound, Idle
<1>12. BlockSound(t)'
    <2>1. CASE event' = event
        <3>1. Held(t)' => Held(t)
            BY <1>5 DEF Held
        <3> QED BY <1>0, <1>1, <1>5, <1>6, <2>1, <3>1 DEF BlockSound, Held
    <2>2. CASE event' = event \cup {t} /\ Holds(t) /\ lease'.state = "released"
        BY <1>1, <1>2, <1>5, <2>2 DEF BlockSound, Held, Holds
    <2> QED BY <1>5, <2>1, <2>2
<1> QED BY <1>6, <1>7, <1>8, <1>9, <1>10, <1>11, <1>12, StepFor DEF Own, TaskInv

-----------------------------------------------------------------------------
(* The running supervisor and the cleanup. *)

\* While it has not ended it has the lease to itself.
LEMMA RunnerAt ==
    ASSUME DispatchInv, NEW t \in Task, runner[t] \notin {"none", "done"}
    PROVE  /\ Held(t) /\ pending[t] = "none" /\ waiter[t] # "offered" /\ t \notin todo /\ t \notin event /\ ~Acked(t)
           /\ worker.task = t => worker.pc \notin {"acquired", "sent", "failed", "accepted", "taken", "claimed"}
           /\ runner[t] \in InTurn /\ Holds(t) => cont[t] = "in_flight"
           /\ runner[t] # "failed" => cleanup[t] = "none"
           /\ \A u \in Task : u # t => runner[u] \in {"none", "done"}
<1>1. StageSound(t) /\ HandSound(t) /\ AckSound(t) /\ BlockSound(t)
    BY DEF DispatchInv, TaskInv
<1>2. Held(t)
    BY <1>1 DEF HandSound
<1>3. \A u \in Task : u # t => runner[u] \in {"none", "done"}
    BY <1>2 DEF DispatchInv, TaskInv, HandSound, Held
<1> QED BY <1>1, <1>2, <1>3 DEF StageSound, HandSound, AckSound, BlockSound, Untouched

\* No step of it starts a reaping in another one.
LEMMA RunnerNoReap ==
    ASSUME DispatchInv, NEW t \in Task, runner[t] \notin {"none", "done"}, UNCHANGED waiter,
           \A u \in Task : u # t => runner'[u] = runner[u], runner'[t] # "reap"
    PROVE  NoNewReap
    BY RunnerAt DEF NoNewReap

\* A step of it keeps the invariant if it keeps what holds of its task.
LEMMA RunnerStep ==
    ASSUME DispatchInv, NEW t \in Task, runner[t] \notin {"none", "done"}, Typed', PauseSound',
           UNCHANGED <<lapsed, pending, waiter, todo>>, LeaseFor(t),
           \A u \in Task : u # t => runner'[u] = runner[u] /\ cleanup'[u] = cleanup[u] /\ cont'[u] = cont[u],
           \A u \in Task : u # t => (Acked(u)' <=> Acked(u)),
           worker' = worker \/ (worker.task = t /\ (worker' = Idle \/ (worker'.task = t /\ worker'.pc = "stopped"))),
           event' \subseteq event \cup {t}, HandSound(t)', Custody(t)', AckSound(t)', BlockSound(t)'
    PROVE  DispatchInv'
<1>1. /\ Held(t) /\ pending[t] = "none" /\ waiter[t] # "offered" /\ t \notin todo
      /\ worker.task = t => worker.pc \notin {"acquired", "sent", "failed", "accepted", "taken", "claimed"}
    BY RunnerAt
<1>2. Around(t)
    BY <1>1 DEF Around, Same, WorkerFor, Held
<1>3. StageSound(t)'
    <2>1. worker'.task = t => worker'.pc \notin {"acquired", "sent", "failed", "accepted", "taken", "claimed"}
        BY SMT, <1>1, Names DEF Idle
    <2> QED BY <1>1, <2>1 DEF StageSound
<1> QED BY <1>2, <1>3, StepFor DEF Own, TaskInv

\* It goes on with its lease, or leaves the resource uncertain.
LEMMA RunnerGoesOn ==
    ASSUME DispatchInv, NEW t \in Task, runner[t] \notin {"none", "done"}, Typed', PauseSound',
           UNCHANGED <<lapsed, event, pending, waiter, worker, todo>>, lease'.task = lease.task,
           lease' = lease \/ lease'.state = "recovery_needed",
           \A u \in Task : u # t => runner'[u] = runner[u] /\ cleanup'[u] = cleanup[u] /\ cont'[u] = cont[u],
           \A u \in Task : Acked(u)' <=> Acked(u),
           runner'[t] \notin {"none", "done"},
           runner'[t] \in InTurn /\ Holds(t)' => cont'[t] = "in_flight",
           runner'[t] = "failed" /\ Live(t)' => cleanup'[t] = "kill",
           cleanup'[t] # "none" => runner'[t] = "failed"
    PROVE  DispatchInv'
<1>1. /\ Held(t) /\ pending[t] = "none" /\ waiter[t] # "offered" /\ ~Acked(t) /\ t \notin event
    BY RunnerAt
<1>2. LeaseFor(t) /\ Held(t)'
    BY <1>1 DEF LeaseFor, Held
<1>3. HandSound(t)' /\ Custody(t)'
    BY <1>1, <1>2 DEF HandSound, Custody, Custodian
<1>4. AckSound(t)' /\ BlockSound(t)'
    BY <1>1, <1>2 DEF AckSound, BlockSound
<1> QED BY <1>2, <1>3, <1>4, RunnerStep

\* It ends: the lease is given back or left uncertain, or the cleanup has it.
LEMMA RunnerEnds ==
    ASSUME DispatchInv, NEW t \in Task, runner[t] \notin {"none", "done"}, Typed', PauseSound',
           UNCHANGED <<lapsed, pending, waiter, cleanup, todo>>, lease'.task = lease.task,
           lease' = lease \/ lease'.state \in {"released", "recovery_needed"},
           \A u \in Task : u # t => runner'[u] = runner[u] /\ cont'[u] = cont[u],
           \A u \in Task : Acked(u)' <=> Acked(u),
           worker' = worker \/ (worker.task = t /\ (worker' = Idle \/ (worker'.task = t /\ worker'.pc = "stopped"))),
           event' = event \/ (event' = event \cup {t} /\ lease'.state = "released"),
           runner'[t] = "done", Live(t)' => cleanup[t] \in {"kill", "release"}, cleanup[t] # "none" => Held(t)',
           cont'[t] \in {"in_flight", "recovery_needed"} => Held(t)'
    PROVE  DispatchInv'
<1>1. /\ Held(t) /\ pending[t] = "none" /\ waiter[t] # "offered" /\ ~Acked(t) /\ t \notin event /\ t \notin todo
    BY RunnerAt
<1>2. LeaseFor(t)
    BY <1>1 DEF LeaseFor, Held
<1>3. HandSound(t)' /\ Custody(t)'
    BY <1>1 DEF HandSound, Custody, Custodian, InTurn
<1>4. AckSound(t)' /\ BlockSound(t)'
    BY <1>1 DEF AckSound, BlockSound, Held
<1> QED BY <1>2, <1>3, <1>4, RunnerStep

\* The loop: a turn is started or refused, its stream ends, it continues or ends.
LEMMA RunnerLoops ==
    ASSUME DispatchInv, NEW t \in Task,
           \/ RunnerStarts(t) \/ RunnerExhausts(t) \/ TurnDrains(t) \/ TurnContinues(t)
           \/ \E s \in {"blocked", "terminal"} : TurnEnds(t, s)
    PROVE  DispatchInv'
<1>0. Typed /\ PauseSound /\ runner[t] \in {"loop", "turn", "drained"}
    BY DEF DispatchInv, RunnerStarts, RunnerExhausts, TurnDrains, TurnContinues, TurnEnds
<1>1. cleanup[t] = "none" /\ (runner[t] \in InTurn /\ Holds(t) => cont[t] = "in_flight")
    BY <1>0, RunnerAt
<1>2. UNCHANGED <<lease, lapsed, event, backend, pending, active, inbox, waiter, reply, worker, todo, pauser, reaped>>
    BY DEF RunnerStarts, RunnerExhausts, TurnDrains, TurnContinues, TurnEnds, rows, maps, talk, admin
<1>3. /\ \/ cont' = cont
         \/ cont' = [cont EXCEPT ![t] = "in_flight"]
         \/ cont' = [cont EXCEPT ![t] = "ready"] /\ runner' = [runner EXCEPT ![t] = "loop"]
      /\ \/ runner' = [runner EXCEPT ![t] = "loop"] /\ cleanup' = cleanup
         \/ /\ \E r \in {"turn", "deferred", "drained"} : runner' = [runner EXCEPT ![t] = r]
            /\ cleanup' = cleanup
            /\ cont' = [cont EXCEPT ![t] = "in_flight"] \/ (cont' = cont /\ runner[t] \in {"turn", "drained"})
         \/ runner' = [runner EXCEPT ![t] = "failed"] /\ cleanup' = [cleanup EXCEPT ![t] = "kill"]
      /\ ending' = ending \/ \E s \in {"blocked", "terminal"} : ending' = [ending EXCEPT ![t] = s]
    BY DEF RunnerStarts, RunnerExhausts, TurnDrains, TurnContinues, TurnEnds, DropGuard, rows
<1>4. /\ cont' \in [Task -> ContState] /\ runner' \in [Task -> RunnerState]
      /\ cleanup' \in [Task -> {"none", "kill", "release", "done"}] /\ ending' \in [Task -> {"blocked", "terminal"}]
      /\ \A u \in Task : u # t => runner'[u] = runner[u] /\ cleanup'[u] = cleanup[u] /\ cont'[u] = cont[u]
    BY SMT, <1>0, <1>3 DEF Typed, ContState, RunnerState
<1>5. /\ runner'[t] \in {"loop", "turn", "deferred", "drained", "failed"}
      /\ runner'[t] \in InTurn /\ Holds(t) => cont'[t] = "in_flight"
      /\ runner'[t] = "failed" <=> cleanup'[t] = "kill"
      /\ cleanup'[t] \in {"none", "kill"}
    BY SMT, <1>0, <1>1, <1>3 DEF Typed, InTurn
<1>6. Typed'
    BY <1>0, <1>2, <1>4 DEF Typed
<1>7. PauseSound' /\ \A u \in Task : Acked(u)' <=> Acked(u)
    <2>1. NoNewReap
        BY <1>0, <1>2, <1>4, <1>5, RunnerNoReap
    <2> QED BY <2>1, <1>0, <1>2, PauseFrame
<1>8. Holds(t)' <=> Holds(t)
    BY <1>2 DEF Holds
<1> QED BY <1>0, <1>2, <1>4, <1>5, <1>6, <1>7, <1>8, RunnerGoesOn

\* The Err arm of execute_loop.
LEMMA UncertainDoes ==
    ASSUME DispatchInv, NEW t \in Task, runner[t] \in {"turn", "drained"}, TurnUncertain(t), UNCHANGED lapsed
    PROVE  /\ lease' \in LeaseRow /\ lease'.task = lease.task /\ (lease' = lease \/ lease'.state = "recovery_needed")
           /\ cont' \in [Task -> ContState] /\ runner' \in [Task -> RunnerState]
           /\ cleanup' \in [Task -> {"none", "kill", "release", "done"}] /\ ending' \in [Task -> {"blocked", "terminal"}]
           /\ \A u \in Task : u # t => runner'[u] = runner[u] /\ cleanup'[u] = cleanup[u] /\ cont'[u] = cont[u]
           /\ runner'[t] \in {"deferred", "failed"}
           /\ runner'[t] \in InTurn /\ Holds(t)' => cont'[t] = "in_flight"
           /\ runner'[t] = "failed" /\ Live(t)' => cleanup'[t] = "kill"
           /\ cleanup'[t] # "none" => runner'[t] = "failed"
<1>0. /\ Typed /\ cleanup[t] = "none" /\ (Holds(t) => cont[t] = "in_flight")
      /\ lease \in LeaseRow /\ cont \in [Task -> ContState] /\ runner \in [Task -> RunnerState]
      /\ cleanup \in [Task -> {"none", "kill", "release", "done"}] /\ ending \in [Task -> {"blocked", "terminal"}]
      /\ "deferred" \in RunnerState /\ "failed" \in RunnerState
    BY RunnerAt DEF DispatchInv, Typed, InTurn, RunnerState
<1>1. \/ /\ runner' = [runner EXCEPT ![t] = "deferred"] /\ ending' = [ending EXCEPT ![t] = "blocked"]
         /\ UNCHANGED <<lease, cont, cleanup>>
      \/ /\ Live(t) /\ FinishUncertain(t) /\ runner' = [runner EXCEPT ![t] = "failed"] /\ UNCHANGED <<ending, cleanup>>
      \/ /\ runner' = [runner EXCEPT ![t] = "failed"] /\ cleanup' = [cleanup EXCEPT ![t] = "kill"]
         /\ UNCHANGED <<ending, lease, cont>>
    BY DEF TurnUncertain, DropGuard
<1>2. CASE /\ runner' = [runner EXCEPT ![t] = "deferred"] /\ ending' = [ending EXCEPT ![t] = "blocked"]
           /\ UNCHANGED <<lease, cont, cleanup>>
    BY <1>0, <1>2 DEF Holds, InTurn
<1>3. CASE /\ Live(t) /\ FinishUncertain(t) /\ runner' = [runner EXCEPT ![t] = "failed"] /\ UNCHANGED <<ending, cleanup>>
    <2>1. /\ lease' \in LeaseRow /\ lease'.task = lease.task /\ lease'.state = "recovery_needed"
          /\ cont' \in [Task -> ContState] /\ (\A u \in Task : u # t => cont'[u] = cont[u])
        BY <1>0, <1>3, FinishDoes DEF Live
    <2> QED BY <1>0, <1>3, <2>1 DEF Live, Holds, InTurn
<1>4. CASE /\ runner' = [runner EXCEPT ![t] = "failed"] /\ cleanup' = [cleanup EXCEPT ![t] = "kill"]
           /\ UNCHANGED <<ending, lease, cont>>
    BY <1>0, <1>4 DEF InTurn
<1> QED BY <1>1, <1>2, <1>3, <1>4

\* A turn that fails, or that nobody can cancel any more.
LEMMA TurnFailsKeeps ==
    ASSUME DispatchInv, NEW t \in Task, TurnFails(t) \/ TurnAbandoned(t)
    PROVE  DispatchInv'
<1>0. /\ Typed /\ PauseSound /\ runner[t] \in {"turn", "drained"} /\ TurnUncertain(t)
      /\ UNCHANGED <<lapsed, event, pending, active, inbox, waiter, reply, worker, todo, pauser, reaped>>
    BY DEF DispatchInv, TurnFails, TurnAbandoned, maps, talk, admin
<1>1. backend' \in BOOLEAN
    BY <1>0 DEF TurnFails, TurnAbandoned, Typed
<1>2. Typed'
    BY <1>0, <1>1, UncertainDoes DEF Typed
<1>3. PauseSound' /\ \A u \in Task : Acked(u)' <=> Acked(u)
    <2>1. NoNewReap
        BY SMT, <1>0, UncertainDoes, RunnerNoReap
    <2> QED BY <2>1, <1>0, PauseFrame
<1> QED BY <1>0, <1>2, <1>3, UncertainDoes, RunnerGoesOn DEF RunnerState

\* A command reaches a turn.
LEMMA TurnCancelledKeeps ==
    ASSUME DispatchInv, NEW t \in Task, TurnCancelled(t)
    PROVE  DispatchInv'
<1>0. /\ Typed /\ PauseSound /\ runner[t] = "turn" /\ inbox[t]["run"] # None /\ "run" \in Channel
      /\ inbox' = [inbox EXCEPT ![t]["run"] = None] /\ backend' = FALSE
      /\ UNCHANGED <<lapsed, event, pending, active, waiter, worker, todo, pauser, reaped>>
    BY DEF DispatchInv, TurnCancelled, admin, Channel
<1>1. /\ inbox[t] \in Inbox /\ inbox'[t] = [inbox[t] EXCEPT !["run"] = None]
      /\ \A u \in Task : u # t => inbox'[u] = inbox[u]
    BY <1>0 DEF Typed
<1>2. /\ inbox'[t] \in Inbox /\ inbox[t]["run"] \in Caller
      /\ \A c \in Channel : inbox'[t][c] = "pauser" => inbox[t][c] = "pauser" /\ c # "run"
    BY SMT, <1>0, <1>1, Names DEF Inbox, Caller
<1>3. inbox' \in [Task -> Inbox]
    BY <1>0, <1>1, <1>2 DEF Typed
<1>4. CASE /\ runner' = [runner EXCEPT ![t] = IF inbox[t]["run"] = "worker" THEN "cancelled" ELSE "reap"]
           /\ UNCHANGED <<lease, cont, ending, cleanup, reply>>
    <2>1. PICK r \in {"cancelled", "reap"} :
            runner' = [runner EXCEPT ![t] = r] /\ (r = "reap" <=> inbox[t]["run"] = "pauser")
        BY <1>2, <1>4 DEF Caller
    <2>2. /\ runner' \in [Task -> RunnerState] /\ runner'[t] = r
          /\ \A u \in Task : u # t => runner'[u] = runner[u]
        BY <1>0, <2>1 DEF Typed, RunnerState
    <2>3. Typed'
        BY <1>0, <1>3, <1>4, <2>2 DEF Typed
    <2>4. PauseSound' /\ \A u \in Task : Acked(u)' <=> Acked(u)
        <3>1. \A u \in Task, c \in Channel : inbox'[u][c] = "pauser" => inbox[u][c] = "pauser"
            BY <1>1, <1>2
        <3>2. CASE r # "reap"
            <4>1. NoNewReap
                BY <3>2, <1>0, <2>2, RunnerNoReap
            <4> QED BY <3>1, <4>1, <1>0, <1>4, PauseFrame
        <3>3. CASE r = "reap"
            <4>1. PausedAt(t) /\ pauser.chan = "run" /\ waiter[t] # "reap" /\ runner[t] # "reap"
                BY <2>1, <3>3, <1>0 DEF PauseSound
            <4>2. \A u \in Task, c \in Channel : inbox'[u][c] # "pauser"
                BY SMT, <4>1, <1>1, <1>2, <3>1, <1>0 DEF PauseSound, PausedAt
            <4>3. \A u \in Task : waiter'[u] # "reap" /\ (runner'[u] = "reap" => u = t)
                BY <4>1, <1>0, <2>2 DEF PauseSound, PausedAt
            <4>4. PausedAt(t)' /\ \A u \in Task : Acked(u)' <=> Acked(u)
                BY <4>1, <1>0, <1>4 DEF PausedAt, Acked
            <4>5. UNCHANGED <<pauser, reply, reaped>> /\ ~backend' /\ reaped \subseteq Task
                BY <1>0, <1>4 DEF PauseSound
            <4>6. PauseSound'
                BY <4>1, <4>2, <4>3, <4>4, <4>5 DEF PauseSound, PausedAt
            <4> QED BY <4>4, <4>6
        <3> QED BY <3>2, <3>3
    <2>5. /\ runner[t] \in InTurn /\ Holds(t) => cont[t] = "in_flight"
          /\ cleanup[t] = "none"
        BY <1>0, RunnerAt
    <2>6. Holds(t)' => Holds(t)
        BY <1>4 DEF Holds
    <2>7. runner[t] \in InTurn
        BY <1>0 DEF InTurn
    <2> QED BY <1>0, <1>4, <2>2, <2>3, <2>4, <2>5, <2>6, <2>7, RunnerGoesOn
<1>5. CASE TurnUncertain(t) /\ reply' = [reply EXCEPT ![inbox[t]["run"]] = IF @ = "gone" THEN @ ELSE "err"]
    <2>1. AnswerAndEnd(t, "run", None, "err")
        <3>1. ASSUME NEW x \in Caller
              PROVE  reply'[x] = IF reply[x] = "gone" THEN "gone"
                                 ELSE IF x = None THEN "err"
                                 ELSE IF x = inbox[t]["run"] THEN "err" ELSE reply[x]
            <4>1. reply'[x] = IF x = inbox[t]["run"] THEN (IF reply[x] = "gone" THEN "gone" ELSE "err") ELSE reply[x]
                BY <1>0, <1>2, <1>5 DEF Typed
            <4>2. x # None
                BY Names
            <4> QED BY <4>1, <4>2
        <3>2. reply' = [x \in Caller |-> reply'[x]]
            BY <1>0, <1>5 DEF Typed
        <3> QED BY <3>1, <3>2, <1>0 DEF AnswerAndEnd
    <2>2. reply' \in [Caller -> {"none", "ok", "err", "gone"}]
        BY <2>1, <1>0, AnswerTyped
    <2>3. Typed'
        BY <1>0, <1>3, <1>5, <2>2, UncertainDoes DEF Typed
    <2>4. PauseSound' /\ \A u \in Task : Acked(u)' <=> Acked(u)
        <3>1. NoNewReap
            BY SMT, <1>0, <1>5, UncertainDoes, RunnerNoReap
        <3> QED BY <2>1, <3>1, <1>0, Names, AnswerOther DEF Caller
    <2> QED BY <1>0, <1>5, <2>3, <2>4, UncertainDoes, RunnerGoesOn
<1> QED BY <1>4, <1>5 DEF TurnCancelled

\* The outcome is offered, the caller conceded to, or nobody hears of it.
LEMMA RunnerOffers ==
    ASSUME DispatchInv, NEW t \in Task, RunnerDefers(t) \/ RunnerCancelled(t) \/ RunnerFailed(t)
    PROVE  DispatchInv'
<1>0. /\ Typed /\ PauseSound /\ HandSound(t) /\ runner[t] \in {"deferred", "cancelled", "failed"} /\ "run" \in Channel
      /\ active' = [active EXCEPT ![t] = None]
      /\ UNCHANGED <<lapsed, event, pending, waiter, cleanup, worker, todo, pauser, reaped>>
    BY DEF DispatchInv, TaskInv, RunnerDefers, RunnerCancelled, RunnerFailed, admin, Channel
<1>1. /\ Held(t) /\ (runner[t] \in InTurn /\ Holds(t) => cont[t] = "in_flight")
      /\ runner[t] # "failed" => cleanup[t] = "none"
    BY <1>0, RunnerAt
<1>2. active' \in [Task -> Channel \cup {None}]
    BY <1>0 DEF Typed
<1>3. backend' \in BOOLEAN
    BY <1>0 DEF RunnerDefers, RunnerCancelled, RunnerFailed, Typed
<1>4. ending' \in [Task -> {"blocked", "terminal"}]
    BY <1>0 DEF RunnerDefers, RunnerCancelled, RunnerFailed, Typed
<1>5. \/ /\ runner' = [runner EXCEPT ![t] = "done"] /\ FinishUncertain(t) /\ AnswerAndEnd(t, "run", None, "err")
      \/ /\ \E r \in {"offered", "conceded"} : runner' = [runner EXCEPT ![t] = r]
         /\ runner[t] \in {"deferred", "cancelled"} /\ UNCHANGED <<lease, cont, inbox>>
         /\ reply' = reply \/ reply' = [reply EXCEPT !["worker"] = "ok"]
    BY DEF RunnerDefers, RunnerCancelled, RunnerFailed
<1>6. CASE runner' = [runner EXCEPT ![t] = "done"] /\ FinishUncertain(t) /\ AnswerAndEnd(t, "run", None, "err")
    <2>1. /\ runner' \in [Task -> RunnerState] /\ runner'[t] = "done"
          /\ \A u \in Task : u # t => runner'[u] = runner[u]
        BY <1>0, <1>6 DEF Typed, RunnerState
    <2>2. inbox' \in [Task -> Inbox] /\ reply' \in [Caller -> {"none", "ok", "err", "gone"}]
        BY <1>0, <1>6, AnswerTyped
    <2>3. /\ lease' \in LeaseRow /\ lease'.task = lease.task
          /\ cont' \in [Task -> ContState] /\ (\A u \in Task : u # t => cont'[u] = cont[u])
          /\ \/ lease' = lease /\ cont' = cont /\ ~(Live(t) /\ cont[t] = "in_flight")
             \/ /\ lease.task = t /\ lease.state = "active" /\ lease'.state = "recovery_needed"
                /\ cont[t] = "in_flight" /\ cont'[t] = "recovery_needed"
        BY <1>0, <1>6, FinishDoes
    <2>4. Typed'
        BY <1>0, <1>2, <1>3, <1>4, <2>1, <2>2, <2>3 DEF Typed
    <2>5. PauseSound' /\ \A u \in Task : Acked(u)' <=> Acked(u)
        <3>1. NoNewReap
            BY <1>0, <2>1, RunnerNoReap
        <3> QED BY <3>1, <1>0, <1>6, Names, AnswerOther DEF Caller
    <2>6. Held(t)'
        BY <1>1, <2>3 DEF Held
    <2>7. Live(t)' => cleanup[t] \in {"kill", "release"}
        <3>1. CASE runner[t] = "failed"
            <4>1. Live(t)' => Live(t)
                BY <1>0, <2>3 DEF Live, Holds
            <4> QED BY <3>1, <4>1, <1>0 DEF HandSound
        <3>2. CASE runner[t] # "failed"
            <4>1. runner[t] \in InTurn
                BY <3>2, <1>0 DEF InTurn
            <4> QED BY <4>1, <1>0, <1>1, <2>3 DEF Live, Holds
        <3> QED BY <3>1, <3>2
    <2> QED BY <1>0, <2>1, <2>3, <2>4, <2>5, <2>6, <2>7, RunnerEnds
<1>7. CASE /\ \E r \in {"offered", "conceded"} : runner' = [runner EXCEPT ![t] = r]
           /\ runner[t] \in {"deferred", "cancelled"} /\ UNCHANGED <<lease, cont, inbox>>
           /\ reply' = reply \/ reply' = [reply EXCEPT !["worker"] = "ok"]
    <2>1. /\ runner' \in [Task -> RunnerState] /\ runner'[t] \in {"offered", "conceded"}
          /\ \A u \in Task : u # t => runner'[u] = runner[u]
        BY SMT, <1>0, <1>7 DEF Typed, RunnerState
    <2>2. reply' \in [Caller -> {"none", "ok", "err", "gone"}] /\ reply'["pauser"] = reply["pauser"]
        BY SMT, <1>0, <1>7 DEF Typed, Caller
    <2>3. Typed'
        BY <1>0, <1>2, <1>3, <1>4, <1>7, <2>1, <2>2 DEF Typed
    <2>4. PauseSound' /\ \A u \in Task : Acked(u)' <=> Acked(u)
        <3>1. NoNewReap
            BY <1>0, <2>1, RunnerNoReap
        <3> QED BY <3>1, <1>0, <1>7, <2>2, PauseFrame
    <2>5. (Holds(t)' => Holds(t)) /\ runner[t] \in InTurn
        BY <1>7 DEF Holds, InTurn
    <2> QED BY <1>0, <1>1, <1>7, <2>1, <2>3, <2>4, <2>5, RunnerGoesOn
<1> QED BY <1>5, <1>6, <1>7

\* The worker's command, or the loss of the capability.
LEMMA RunnerSettlesKeeps ==
    ASSUME DispatchInv, NEW t \in Task, RunnerSettles(t)
    PROVE  DispatchInv'
<1>0. /\ Typed /\ PauseSound /\ runner[t] \in {"offered", "conceded"} /\ "run" \in Channel
      /\ runner' = [runner EXCEPT ![t] = "done"] /\ AnswerAndEnd(t, "run", None, "err")
      /\ UNCHANGED <<lapsed, pending, active, waiter, ending, cleanup, todo, pauser, reaped>>
    BY DEF DispatchInv, RunnerSettles, admin, Channel
<1>1. /\ Held(t) /\ (Holds(t) => cont[t] = "in_flight") /\ cleanup[t] = "none"
    BY <1>0, RunnerAt DEF InTurn
<1>2. /\ runner' \in [Task -> RunnerState] /\ runner'[t] = "done"
      /\ \A u \in Task : u # t => runner'[u] = runner[u]
    BY <1>0 DEF Typed, RunnerState
<1>3. inbox' \in [Task -> Inbox] /\ reply' \in [Caller -> {"none", "ok", "err", "gone"}]
    BY <1>0, AnswerTyped
<1>4. PICK s \in {"blocked", "terminal"}, kills \in BOOLEAN : Settle(t, s, kills)
    BY ZenonT(60), <1>0 DEF RunnerSettles, Typed
<1>5. /\ lease' \in LeaseRow /\ lease'.task = lease.task /\ ~Live(t)'
      /\ \/ lease' = lease
         \/ lease.task = t /\ lease.state = "active" /\ lease'.state \in {"released", "recovery_needed"}
      /\ cont' \in [Task -> ContState] /\ (\A u \in Task : u # t => cont'[u] = cont[u])
      /\ cont'[t] \in {"in_flight", "recovery_needed"} => lease' = lease \/ lease'.state = "recovery_needed"
      /\ event' = event \/ (event' = event \cup {t} /\ lease'.state = "released")
      /\ worker' \in WorkerRow /\ backend' \in BOOLEAN
      /\ \/ worker' = worker
         \/ worker.task = t /\ (worker' = Idle \/ (worker'.task = t /\ worker'.pc = "stopped"))
    BY <1>0, <1>1, <1>4, SettleDoes
<1>6. Typed'
    BY <1>0, <1>2, <1>3, <1>5 DEF Typed
<1>7. PauseSound' /\ \A u \in Task : Acked(u)' <=> Acked(u)
    <2>1. NoNewReap
        BY <1>0, <1>2, RunnerNoReap
    <2> QED BY <2>1, <1>0, Names, AnswerOther DEF Caller
<1>8. cont'[t] \in {"in_flight", "recovery_needed"} => Held(t)'
    BY <1>1, <1>5 DEF Held
<1> QED BY <1>0, <1>1, <1>2, <1>5, <1>6, <1>7, <1>8, RunnerEnds

\* A /pause has reaped the turn: the lease is released and the caller told.
LEMMA RunnerReapsKeeps ==
    ASSUME DispatchInv, NEW t \in Task, RunnerReaps(t)
    PROVE  DispatchInv'
<1>0. /\ Typed /\ PauseSound /\ runner[t] = "reap" /\ "run" \in Channel
      /\ active' = [active EXCEPT ![t] = None] /\ runner' = [runner EXCEPT ![t] = "done"]
      /\ lease' = IF Holds(t) THEN [lease EXCEPT !.state = "released"] ELSE lease
      /\ UNCHANGED <<lapsed, cont, event, backend, pending, waiter, ending, cleanup, worker, todo, pauser, reaped>>
    BY DEF DispatchInv, RunnerReaps, Release, admin, Channel
<1>1. /\ Held(t) /\ pending[t] = "none" /\ waiter[t] # "offered" /\ t \notin todo /\ t \notin event /\ ~Acked(t)
      /\ worker.task = t => worker.pc \notin {"acquired", "sent", "failed", "accepted", "taken", "claimed"}
      /\ cleanup[t] = "none" /\ ~backend /\ waiter[t] # "reap"
    BY <1>0, RunnerAt DEF PauseSound
<1>2. PICK v \in {"ok", "err"} : AnswerAndEnd(t, "run", "pauser", v) /\ (v = "ok" <=> Holds(t))
    BY DEF RunnerReaps
<1>3. /\ runner' \in [Task -> RunnerState] /\ runner'[t] = "done" /\ active' \in [Task -> Channel \cup {None}]
      /\ \A u \in Task : u # t => runner'[u] = runner[u]
    BY <1>0 DEF Typed, RunnerState
<1>4. inbox' \in [Task -> Inbox] /\ reply' \in [Caller -> {"none", "ok", "err", "gone"}]
    BY <1>0, <1>2, AnswerTyped
<1>5. /\ lease' \in LeaseRow /\ lease'.task = t
      /\ IF Holds(t) THEN lease'.state = "released" ELSE lease' = lease
    <2>1. lease \in LeaseRow /\ "released" \in LeaseState
        BY <1>0 DEF Typed, LeaseState
    <2> QED BY <2>1, <1>0, <1>1, LeaseTo DEF Held
<1>6. Typed'
    BY <1>0, <1>3, <1>4, <1>5 DEF Typed
<1>7. /\ PauseSound'
      /\ \A u \in Task : u # t => (Acked(u)' <=> Acked(u))
      /\ Acked(t)' <=> Acked(t) \/ v = "ok"
    <2>1. NoNewReap
        BY <1>0, <1>3, RunnerNoReap
    <2> QED BY SMT, <2>1, <1>0, <1>1, <1>2, <1>3, AnswerPause
<1>8. LeaseFor(t) /\ ~Holds(t)'
    BY <1>1, <1>5 DEF LeaseFor, Held, Holds
<1>9. HandSound(t)' /\ Custody(t)'
    BY <1>0, <1>1, <1>3, <1>8 DEF HandSound, Custody, Live, InTurn
<1>10. AckSound(t)'
    BY <1>0, <1>1, <1>3, <1>8 DEF AckSound
<1>11. BlockSound(t)'
    BY <1>0, <1>1, <1>2, <1>5, <1>7 DEF BlockSound, Held
<1> QED BY <1>0, <1>3, <1>6, <1>7, <1>8, <1>9, <1>10, <1>11, RunnerStep

\* The cleanup kills the backend, then gives the lease up.
LEMMA CleanupKeeps ==
    ASSUME DispatchInv, NEW t \in Task, Cleanup(t)
    PROVE  DispatchInv'
<1>0. /\ Typed /\ PauseSound /\ cleanup[t] \in {"kill", "release"}
      /\ StageSound(t) /\ HandSound(t) /\ Custody(t) /\ AckSound(t) /\ BlockSound(t)
      /\ UNCHANGED <<lapsed, cont, event, pending, active, inbox, waiter, runner, ending, reply, worker, todo, pauser, reaped>>
    BY DEF DispatchInv, TaskInv, Cleanup, CleanupKills, CleanupReleases, rows, maps, talk, admin
<1>1. /\ Held(t) /\ runner[t] \in {"failed", "done"} /\ pending[t] = "none" /\ waiter[t] # "offered" /\ t \notin todo
      /\ worker.task = t => worker.pc \notin {"acquired", "sent", "failed", "accepted", "taken", "claimed"}
    BY <1>0 DEF StageSound, HandSound, Untouched
<1>2. /\ lease' \in LeaseRow /\ lease'.task = t
      /\ \/ lease' = lease /\ cleanup' = [cleanup EXCEPT ![t] = "release"]
         \/ lease'.state = "recovery_needed" /\ cleanup' = [cleanup EXCEPT ![t] = "done"]
    <2>1. lease \in LeaseRow /\ "recovery_needed" \in LeaseState
        BY <1>0 DEF Typed, LeaseState
    <2>2. CASE CleanupKills(t)
        BY <2>1, <2>2, <1>1 DEF CleanupKills, rows, Held
    <2>3. CASE CleanupReleases(t)
        BY <2>1, <2>3, <1>1, LeaseTo DEF CleanupReleases, Release, Held, Holds
    <2> QED BY <2>2, <2>3 DEF Cleanup
<1>3. backend' \in BOOLEAN /\ (backend' => backend)
    <2>1. backend \in BOOLEAN /\ (backend' = backend \/ backend' = FALSE)
        BY <1>0 DEF Cleanup, CleanupKills, CleanupReleases, Typed
    <2>2. CASE backend' = backend
        BY <2>1, <2>2
    <2>3. CASE backend' = FALSE
        BY <2>3
    <2> QED BY <2>1, <2>2, <2>3
<1>4. /\ cleanup' \in [Task -> {"none", "kill", "release", "done"}]
      /\ cleanup'[t] = "release" \/ (cleanup'[t] = "done" /\ lease'.state = "recovery_needed")
      /\ \A u \in Task : u # t => cleanup'[u] = cleanup[u]
    BY SMT, <1>0, <1>2 DEF Typed
<1>5. Typed'
    BY <1>0, <1>2, <1>3, <1>4 DEF Typed
<1>6. PauseSound' /\ \A u \in Task : Acked(u)' <=> Acked(u)
    <2>1. NoNewReap
        BY <1>0, <1>3 DEF NoNewReap, PauseSound
    <2> QED BY <2>1, <1>0, PauseFrame
<1>7. Around(t)
    <2>1. LeaseFor(t)
        BY <1>1, <1>2 DEF LeaseFor, Held
    <2> QED BY <2>1, <1>0, <1>3, <1>4, <1>6 DEF Around, Same, WorkerFor
<1>8. Held(t)' /\ (Holds(t)' => Holds(t)) /\ (Live(t)' => Live(t))
    BY <1>0, <1>1, <1>2 DEF Held, Holds, Live
<1>9. StageSound(t)' /\ HandSound(t)'
    BY <1>0, <1>1, <1>2, <1>4, <1>8 DEF StageSound, HandSound, InTurn, Live, Holds
<1>10. Custody(t)'
    BY <1>4, <1>8 DEF Custody, Custodian, Live, Holds
<1>11. AckSound(t)' /\ BlockSound(t)'
    BY <1>0, <1>1, <1>2, <1>3, <1>6, <1>8 DEF AckSound, BlockSound, Held
<1> QED BY <1>5, <1>6, <1>7, <1>9, <1>10, <1>11, StepFor DEF Own, TaskInv

-----------------------------------------------------------------------------
(* The /pause, the clock, the end of the worker and the shutdown. *)

\* A step of the /pause changes nothing of any task.
LEMMA PauserStep ==
    ASSUME DispatchInv, PauseSound', pauser' \in PauserRow, inbox' \in [Task -> Inbox],
           reply' \in [Caller -> {"none", "ok", "err", "gone"}],
           UNCHANGED <<lease, lapsed, cont, event, backend, pending, active, waiter, runner, ending, cleanup, worker, todo>>,
           \A u \in Task : Acked(u)' <=> Acked(u)
    PROVE  DispatchInv'
<1>1. Typed' /\ RowSound' /\ WorkerSound'
    BY DEF DispatchInv, Typed, RowSound, WorkerSound
<1>2. ASSUME NEW u \in Task PROVE Own(u)'
    <2>1. StageSound(u) /\ HandSound(u) /\ Custody(u) /\ AckSound(u) /\ BlockSound(u)
        BY DEF DispatchInv, TaskInv
    <2>2. StageSound(u)' /\ HandSound(u)' /\ Custody(u)'
        BY <2>1 DEF StageSound, HandSound, Custody, Custodian, Untouched, Held, Holds, Live
    <2>3. AckSound(u)' /\ BlockSound(u)'
        BY <2>1 DEF AckSound, BlockSound, Held, Holds
    <2> QED BY <2>2, <2>3 DEF Own, TaskInv
<1> QED BY <1>1, <1>2 DEF DispatchInv, Own

\* cancel_and_reap_task.
LEMMA PauserKeeps ==
    ASSUME DispatchInv, Pauser
    PROVE  DispatchInv'
<1>0. /\ Typed /\ PauseSound /\ "pauser" \in Caller
      /\ UNCHANGED <<lease, lapsed, cont, event, backend, pending, active, waiter, runner, ending, cleanup, worker, todo>>
    BY DEF DispatchInv, Pauser, Pause, PauseLease, PauseSend, PauseReply, PauseConfirm, rows, maps, sups, Caller
<1>1. [pc |-> "idle", task |-> None, chan |-> None] \in PauserRow
    BY DEF PauserRow, PauserPc
<1>2. \A pc \in PauserPc : /\ [pauser EXCEPT !.pc = pc] \in PauserRow /\ [pauser EXCEPT !.pc = pc].pc = pc
                          /\ [pauser EXCEPT !.pc = pc].task = pauser.task /\ [pauser EXCEPT !.pc = pc].chan = pauser.chan
    BY <1>0 DEF Typed, PauserRow
<1>3. ASSUME NEW t \in Task, Pause(t) PROVE DispatchInv'
    <2>1. /\ pauser.pc = "idle" /\ pauser.task = None /\ reply["pauser"] = "none" /\ UNCHANGED <<inbox, reply, reaped>>
        BY <1>0, <1>3 DEF Pause, PauseSound, maps, talk
    <2>2. /\ pauser' \in PauserRow
          /\ \/ pauser'.pc = "idle" /\ pauser'.task = None
             \/ pauser'.pc = "lease" /\ pauser'.task = t
        <3>1. CASE active[t] = None
            BY SMT, <3>1, <1>1, <1>3 DEF Pause, PauseIdle
        <3>2. CASE active[t] # None
            <4>1. pauser' = [pc |-> "lease", task |-> t, chan |-> active[t]] /\ active[t] \in Channel
                BY <3>2, <1>0, <1>3 DEF Pause, Typed
            <4> QED BY <4>1 DEF PauserRow, PauserPc
        <3> QED BY <3>1, <3>2
    <2>3. PauseSound' /\ \A u \in Task : Acked(u)' <=> Acked(u)
        BY <1>0, <2>1, <2>2, Names DEF PauseSound, PausedAt, Acked
    <2> QED BY <1>0, <2>1, <2>2, <2>3, PauserStep DEF Typed
<1>4. CASE PauseLease
    <2>1. pauser.pc = "lease" /\ pauser.task \in Task /\ reply["pauser"] = "none" /\ UNCHANGED <<inbox, reply, reaped>>
        BY <1>0, <1>4 DEF PauseLease, PauseSound, maps, talk
    <2>2. /\ pauser' \in PauserRow
          /\ \/ pauser'.pc = "idle" /\ pauser'.task = None
             \/ pauser'.pc = "sending" /\ pauser'.task = pauser.task
        <3>1. CASE Holds(pauser.task)
            BY <3>1, <1>2, <1>4 DEF PauseLease, PauserPc
        <3>2. CASE ~Holds(pauser.task)
            BY SMT, <3>2, <1>1, <1>4 DEF PauseLease, PauseIdle
        <3> QED BY <3>1, <3>2
    <2>3. PauseSound' /\ \A u \in Task : Acked(u)' <=> Acked(u)
        BY <1>0, <2>1, <2>2, Names DEF PauseSound, PausedAt, Acked
    <2> QED BY <1>0, <2>1, <2>2, <2>3, PauserStep DEF Typed
<1>5. CASE PauseSend
    <2>1. pauser.pc = "sending" /\ pauser.task \in Task /\ reply["pauser"] = "none" /\ UNCHANGED <<reply, reaped>>
        BY <1>0, <1>5 DEF PauseSend, PauseSound, talk
    <2>2. CASE PauseIdle /\ UNCHANGED inbox
        <3>1. pauser' \in PauserRow /\ pauser'.pc = "idle" /\ pauser'.task = None
            BY <2>2, <1>1 DEF PauseIdle
        <3>2. PauseSound' /\ \A u \in Task : Acked(u)' <=> Acked(u)
            BY <1>0, <2>1, <2>2, <3>1, Names DEF PauseSound, PausedAt, Acked
        <3> QED BY <1>0, <2>1, <2>2, <3>1, <3>2, PauserStep DEF Typed
    <2>3. CASE /\ inbox' = [inbox EXCEPT ![pauser.task][pauser.chan] = "pauser"]
               /\ pauser' = [pauser EXCEPT !.pc = "awaiting"]
        <3>1. pauser' \in PauserRow /\ pauser'.pc = "awaiting" /\ pauser'.task = pauser.task /\ pauser'.chan = pauser.chan
            BY <2>3, <1>2 DEF PauserPc
        <3>2. ASSUME NEW u \in Task
              PROVE  /\ inbox'[u] \in Inbox
                     /\ \A c \in Channel : inbox'[u][c] = "pauser" =>
                          (u = pauser.task /\ c = pauser.chan) \/ inbox[u][c] = "pauser"
            <4>1. /\ inbox[u] \in Inbox
                  /\ inbox'[u] = IF u = pauser.task THEN [inbox[u] EXCEPT ![pauser.chan] = "pauser"] ELSE inbox[u]
                BY <1>0, <2>1, <2>3 DEF Typed
            <4> QED BY <4>1 DEF Inbox, Caller
        <3>3. inbox' \in [Task -> Inbox]
            <4>1. inbox' = [u \in Task |-> inbox'[u]]
                BY <1>0, <2>3 DEF Typed
            <4> QED BY <3>2, <4>1
        <3>4. \A u \in Task : waiter[u] # "reap" /\ runner[u] # "reap" /\ \A c \in Channel : inbox[u][c] # "pauser"
            BY <1>0, <2>1 DEF PauseSound, PausedAt
        <3>5. PausedAt(pauser.task)' /\ pauser'.chan = pauser.chan
            BY <2>1, <3>1 DEF PausedAt
        <3>6. PauseSound'
            BY SMT, <1>0, <2>1, <3>1, <3>2, <3>4, <3>5 DEF PauseSound
        <3>7. \A u \in Task : Acked(u)' <=> Acked(u)
            BY <2>1, <3>1 DEF Acked
        <3> QED BY <1>0, <2>1, <3>1, <3>3, <3>6, <3>7, PauserStep DEF Typed
    <2> QED BY <1>5, <2>2, <2>3 DEF PauseSend
<1>6. CASE PauseReply
    <2>1. /\ pauser.pc = "awaiting" /\ pauser.task \in Task /\ reply["pauser"] # "none" /\ UNCHANGED <<inbox, reaped>>
          /\ reply' \in [Caller -> {"none", "ok", "err", "gone"}] /\ reply'["pauser"] = "none"
        BY <1>0, <1>6 DEF PauseReply, PauseSound, maps, Typed
    <2>2. /\ pauser' \in PauserRow
          /\ IF reply["pauser"] = "ok" THEN pauser'.pc = "confirm" /\ pauser'.task = pauser.task
             ELSE pauser'.pc = "idle" /\ pauser'.task = None
        <3>1. CASE reply["pauser"] = "ok"
            BY ZenonT(60), <3>1, <1>2, <1>6 DEF PauseReply, PauserPc
        <3>2. CASE reply["pauser"] # "ok"
            BY SMT, <3>2, <1>1, <1>6 DEF PauseReply, PauseIdle
        <3> QED BY <3>1, <3>2
    <2>3. PauseSound' /\ \A u \in Task : Acked(u)' <=> Acked(u)
        <3>1. \A u \in Task : waiter[u] # "reap" /\ runner[u] # "reap" /\ \A c \in Channel : inbox[u][c] # "pauser"
            BY <1>0, <2>1 DEF PauseSound, PausedAt
        <3>2. PauseSound'
            BY <1>0, <2>1, <2>2, <3>1 DEF PauseSound
        <3>3. \A u \in Task : Acked(u)' <=> Acked(u)
            BY <2>1, <2>2, Names DEF Acked
        <3> QED BY <3>2, <3>3
    <2> QED BY <1>0, <2>1, <2>2, <2>3, PauserStep DEF Typed
<1>7. CASE PauseConfirm
    <2>1. pauser.pc = "confirm" /\ pauser.task \in Task /\ reply["pauser"] = "none" /\ UNCHANGED <<inbox, reply>>
        BY <1>0, <1>7 DEF PauseConfirm, PauseSound, maps, talk
    <2>2. pauser' \in PauserRow /\ pauser'.pc = "idle" /\ pauser'.task = None
        BY <1>1, <1>7 DEF PauseConfirm, PauseIdle
    <2>3. reaped' = reaped \cup {pauser.task}
        <3>1. Acked(pauser.task)
            BY <2>1 DEF Acked
        <3>2. ~Holds(pauser.task)
            BY <2>1, <3>1 DEF DispatchInv, AckSound
        <3> QED BY <3>2, <1>7 DEF PauseConfirm
    <2>4. PauseSound' /\ \A u \in Task : Acked(u)' <=> Acked(u)
        BY <1>0, <2>1, <2>2, <2>3, Names DEF PauseSound, PausedAt, Acked
    <2> QED BY <1>0, <2>1, <2>2, <2>4, PauserStep DEF Typed
<1> QED BY <1>3, <1>4, <1>5, <1>6, <1>7 DEF Pauser

\* The worker's future is dropped.
LEMMA GoneKeeps ==
    ASSUME DispatchInv, WorkerGone
    PROVE  DispatchInv'
<1>0. /\ Typed /\ PauseSound /\ RowSound
      /\ UNCHANGED <<lease, lapsed, cont, event, backend, pending, active, inbox, waiter, runner, ending, cleanup, todo,
                     pauser, reaped>>
    BY DEF DispatchInv, WorkerGone, rows, maps, sups, admin
<1>1. worker' \in WorkerRow /\ worker'.pc = "gone" /\ worker'.task = None
    BY DEF WorkerGone, Idle, WorkerRow, WorkerPc
<1>2. reply' \in [Caller -> {"none", "ok", "err", "gone"}] /\ reply'["pauser"] = reply["pauser"]
    BY <1>0 DEF WorkerGone, Typed, Caller
<1>3. PauseSound' /\ \A u \in Task : Acked(u)' <=> Acked(u)
    <2>1. NoNewReap
        BY <1>0 DEF NoNewReap, PauseSound
    <2> QED BY <2>1, <1>0, <1>2, PauseFrame
<1>4. Typed' /\ RowSound' /\ WorkerSound'
    BY <1>0, <1>1, <1>2 DEF Typed, RowSound, WorkerSound
<1>5. ASSUME NEW u \in Task PROVE Own(u)'
    <2>1. StageSound(u) /\ HandSound(u) /\ AckSound(u) /\ BlockSound(u) /\ worker'.task # u
        BY <1>1, Names DEF DispatchInv, TaskInv
    <2>2. StageSound(u)' /\ HandSound(u)' /\ Custody(u)'
        BY <1>0, <1>1, <2>1 DEF StageSound, HandSound, Custody, Untouched, Held, Holds, Live
    <2>3. AckSound(u)' /\ BlockSound(u)'
        BY <1>0, <1>3, <2>1 DEF AckSound, BlockSound, Held, Holds
    <2> QED BY <2>2, <2>3 DEF Own, TaskInv
<1> QED BY <1>3, <1>4, <1>5 DEF DispatchInv, Own

\* expires_at passes.
LEMMA LapseKeeps ==
    ASSUME DispatchInv, Lapse
    PROVE  DispatchInv'
<1>0. /\ Typed /\ PauseSound /\ RowSound /\ WorkerSound /\ lapsed' = TRUE
      /\ UNCHANGED <<lease, cont, event, backend, pending, active, inbox, waiter, runner, ending, cleanup, reply, worker,
                     todo, pauser, reaped>>
    BY DEF DispatchInv, Lapse, maps, sups, talk, admin
<1>1. PauseSound' /\ \A u \in Task : Acked(u)' <=> Acked(u)
    <2>1. NoNewReap
        BY <1>0 DEF NoNewReap, PauseSound
    <2> QED BY <2>1, <1>0, PauseFrame
<1>2. Typed' /\ RowSound' /\ WorkerSound'
    BY <1>0 DEF Typed, RowSound, WorkerSound
<1>3. ASSUME NEW u \in Task PROVE Own(u)'
    <2>1. StageSound(u) /\ HandSound(u) /\ AckSound(u) /\ BlockSound(u)
        BY DEF DispatchInv, TaskInv
    <2>2. StageSound(u)' /\ HandSound(u)' /\ Custody(u)'
        BY <1>0, <2>1 DEF StageSound, HandSound, Custody, Untouched, Held, Holds, Live
    <2>3. AckSound(u)' /\ BlockSound(u)'
        BY <1>0, <1>1, <2>1 DEF AckSound, BlockSound, Held, Holds
    <2> QED BY <2>2, <2>3 DEF Own, TaskInv
<1> QED BY <1>1, <1>2, <1>3 DEF DispatchInv, Own

\* At most one lease is pending: the shutdown marks it.
LEMMA DrainsKeeps ==
    ASSUME DispatchInv, ShutdownDrains
    PROVE  DispatchInv'
<1>0. /\ Typed /\ PauseSound /\ worker.pc = "gone" /\ pending' = [t \in Task |-> "none"]
      /\ UNCHANGED <<lapsed, cont, event, active, inbox, waiter, runner, ending, cleanup, reply, worker, todo, pauser, reaped>>
    BY DEF DispatchInv, ShutdownDrains, sups, talk, admin
<1>1. pending' \in [Task -> {"none", "watched", "unwatched"}] /\ worker.task = None
    BY <1>0 DEF DispatchInv, WorkerSound
<1>2. CASE \A t \in Task : pending[t] = "none"
    <2>1. {t \in Task : pending[t] # "none"} = {}
        BY <1>2
    <2>2. UNCHANGED <<lease, backend, pending>>
        BY SMT, <1>0, <1>2, <2>1 DEF ShutdownDrains, Typed
    <2>3. NoNewReap
        BY <1>0, <2>2 DEF NoNewReap, PauseSound
    <2>4. PauseSound' /\ \A u \in Task : Acked(u)' <=> Acked(u)
        BY <2>3, <1>0, PauseFrame
    <2> QED BY <1>0, <2>2, <2>4, PauserStep DEF Typed
<1>3. ASSUME NEW t \in Task, pending[t] # "none" PROVE DispatchInv'
    <2>0. StageSound(t) /\ HandSound(t) /\ Custody(t) /\ AckSound(t) /\ BlockSound(t)
        BY DEF DispatchInv, TaskInv
    <2>1. /\ Held(t) /\ runner[t] = "none" /\ cleanup[t] = "none" /\ waiter[t] # "offered" /\ cont[t] \in {"absent", "ready"}
          /\ ~Acked(t) /\ t \notin event /\ t \notin todo
        BY <1>3, <2>0 DEF StageSound, HandSound, AckSound, BlockSound, Untouched
    <2>2. \A u \in Task : u # t => pending[u] = "none"
        BY <2>1 DEF DispatchInv, TaskInv, HandSound, Held
    <2>3. /\ {u \in Task : pending[u] # "none"} = {t} /\ backend' = FALSE
          /\ lease' = IF Holds(t) THEN [lease EXCEPT !.state = "recovery_needed"] ELSE lease
        <3>1. {u \in Task : pending[u] # "none"} = {t}
            BY <1>3, <2>2
        <3> QED BY <3>1 DEF ShutdownDrains
    <2>4. lease' \in LeaseRow /\ lease'.task = t /\ lease'.state = "recovery_needed"
        <3>1. lease \in LeaseRow /\ "recovery_needed" \in LeaseState
            BY <1>0 DEF Typed, LeaseState
        <3> QED BY <3>1, <2>1, <2>3, LeaseTo DEF Held, Holds
    <2>5. Typed'
        BY <1>0, <1>1, <2>3, <2>4 DEF Typed
    <2>6. PauseSound' /\ \A u \in Task : Acked(u)' <=> Acked(u)
        <3>1. NoNewReap
            BY <1>0, <2>3 DEF NoNewReap, PauseSound
        <3> QED BY <3>1, <1>0, PauseFrame
    <2>7. Around(t)
        <3>1. LeaseFor(t)
            BY <2>1, <2>4 DEF LeaseFor, Held
        <3>2. \A u \in Task : u # t => Same(u)
            BY <1>0, <2>2, <2>6 DEF Same
        <3> QED BY <3>1, <3>2, <1>0, <2>3 DEF Around, WorkerFor
    <2>8. Own(t)'
        <3>1. pending'[t] = "none" /\ worker'.task # t
            BY <1>0, <1>1, Names
        <3>2. StageSound(t)' /\ HandSound(t)' /\ Custody(t)'
            BY <1>0, <2>1, <2>4, <3>1 DEF StageSound, HandSound, Custody, Live, Holds, InTurn
        <3>3. AckSound(t)' /\ BlockSound(t)'
            BY <1>0, <2>1, <2>4, <2>6 DEF AckSound, BlockSound
        <3> QED BY <3>2, <3>3 DEF Own, TaskInv
    <2> QED BY <2>5, <2>6, <2>7, <2>8, StepFor
<1> QED BY <1>2, <1>3

\* Everybody has been joined: the backend is stopped.
LEMMA EndsKeeps ==
    ASSUME DispatchInv, ShutdownEnds
    PROVE  DispatchInv'
<1>0. /\ Typed /\ PauseSound /\ backend' = FALSE
      /\ UNCHANGED <<lease, lapsed, cont, event, pending, active, inbox, waiter, runner, ending, cleanup, reply, worker,
                     todo, pauser, reaped>>
    BY DEF DispatchInv, ShutdownEnds, rows, maps, sups, talk, admin
<1>1. PauseSound' /\ \A u \in Task : Acked(u)' <=> Acked(u)
    <2>1. NoNewReap
        BY <1>0 DEF NoNewReap
    <2> QED BY <2>1, <1>0, PauseFrame
<1>2. Typed' /\ RowSound' /\ WorkerSound'
    BY <1>0 DEF DispatchInv, Typed, RowSound, WorkerSound
<1>3. ASSUME NEW u \in Task PROVE Own(u)'
    <2>1. StageSound(u) /\ HandSound(u) /\ Custody(u) /\ AckSound(u) /\ BlockSound(u)
        BY DEF DispatchInv, TaskInv
    <2>2. StageSound(u)' /\ HandSound(u)' /\ Custody(u)'
        BY <1>0, <2>1 DEF StageSound, HandSound, Custody, Custodian, Untouched, Held, Holds, Live
    <2>3. AckSound(u)' /\ BlockSound(u)'
        BY <1>0, <1>1, <2>1 DEF AckSound, BlockSound, Held, Holds
    <2> QED BY <2>2, <2>3 DEF Own, TaskInv
<1> QED BY <1>1, <1>2, <1>3 DEF DispatchInv, Own

-----------------------------------------------------------------------------
(* The theorems. *)

\* Before the first task nobody has anything in hand.
LEMMA DispatchInit == Init => DispatchInv
<1> SUFFICES ASSUME Init PROVE DispatchInv
    OBVIOUS
<1>1. Typed
    BY TypedInit
<1>2. /\ lease.state = "absent" /\ lease.task = None /\ worker.pc = "idle" /\ worker.task = None
      /\ pauser.pc = "idle" /\ pauser.task = None /\ reply["pauser"] = "none" /\ event = {} /\ reaped = {}
    BY DEF Init, Idle, Caller
<1>3. RowSound /\ WorkerSound
    BY <1>2 DEF RowSound, WorkerSound
<1>4. PauseSound
    <2>1. \A t \in Task : waiter[t] # "reap" /\ runner[t] # "reap" /\ \A c \in Channel : inbox[t][c] # "pauser"
        BY Names DEF Init, Caller
    <2> QED BY <1>2, <2>1 DEF PauseSound
<1>5. ASSUME NEW t \in Task PROVE TaskInv(t) /\ AckSound(t) /\ BlockSound(t)
    <2>1. Untouched(t) /\ lease.task # t /\ worker.task # t /\ ~Acked(t)
        BY <1>2, Names DEF Init, Untouched, Acked
    <2>2. TaskInv(t)
        BY <1>2, <2>1 DEF TaskInv, StageSound, HandSound, Custody, Untouched, Live, Holds, InTurn
    <2> QED BY <1>2, <2>1, <2>2 DEF AckSound, BlockSound, Untouched
<1> QED BY <1>1, <1>3, <1>4, <1>5 DEF DispatchInv

\* Every step keeps it.
LEMMA DispatchNext == DispatchInv /\ [Next]_vars => DispatchInv'
<1> SUFFICES ASSUME DispatchInv, [Next]_vars PROVE DispatchInv'
    OBVIOUS
<1>1. CASE Deliver
    BY <1>1, AcquireKeeps, DeliverKeeps, WorkerAsks, FailureKeeps DEF Deliver
<1>2. CASE Execute
    BY <1>2, ExecuteKeeps, WorkerAsks DEF Execute
<1>3. CASE WorkerGone
    BY <1>3, GoneKeeps
<1>4. CASE Pauser
    BY <1>4, PauserKeeps
<1>5. CASE Lapse
    BY SMT, <1>5, LapseKeeps
<1>6. CASE ShutdownDrains \/ ShutdownEnds
    BY <1>6, DrainsKeeps, EndsKeeps
<1>7. ASSUME NEW t \in Task, Waiter(t) PROVE DispatchInv'
    BY <1>7, WaiterWaits, WaiterExpiresKeeps, WaiterObeysKeeps, WaiterSettlesKeeps DEF Waiter
<1>8. ASSUME NEW t \in Task, Runner(t) PROVE DispatchInv'
    BY <1>8, RunnerLoops, TurnFailsKeeps, TurnCancelledKeeps, RunnerOffers, RunnerReapsKeeps, RunnerSettlesKeeps
       DEF Runner, RunnerMoves
<1>9. ASSUME NEW t \in Task, Cleanup(t) PROVE DispatchInv'
    BY <1>9, CleanupKeeps
<1>10. CASE UNCHANGED vars
    <2>1. /\ UNCHANGED <<lease, lapsed, cont, event, backend, pending, active, inbox, waiter, runner, ending, cleanup, reply,
                         worker, todo, pauser, reaped>>
        BY <1>10 DEF vars, rows, maps, sups, talk, admin
    <2>2. Typed /\ PauseSound
        BY DEF DispatchInv
    <2>3. NoNewReap
        BY <2>1, <2>2 DEF NoNewReap, PauseSound
    <2>4. PauseSound' /\ \A u \in Task : Acked(u)' <=> Acked(u)
        BY <2>1, <2>2, <2>3, PauseFrame
    <2> QED BY <2>1, <2>2, <2>4, PauserStep DEF Typed
<1> QED BY <1>1, <1>2, <1>3, <1>4, <1>5, <1>6, <1>7, <1>8, <1>9, <1>10 DEF Next

\* The invariant gives both properties.
LEMMA DispatchGives == DispatchInv => LeaseCustody /\ PausedIsReaped
<1> SUFFICES ASSUME DispatchInv PROVE LeaseCustody /\ PausedIsReaped
    OBVIOUS
<1>1. LeaseHasCustodian
    <2> SUFFICES ASSUME lease.state = "active", ~lapsed, worker.pc # "gone" PROVE Custodian(lease.task)
        BY DEF LeaseHasCustodian
    <2>1. lease.task \in Task
        BY DEF DispatchInv, RowSound
    <2>2. Custody(lease.task) /\ Live(lease.task)
        BY <2>1 DEF DispatchInv, TaskInv, Live, Holds
    <2> QED BY <2>2 DEF Custody
<1>2. UncertainBlocksResource
    BY DEF UncertainBlocksResource, DispatchInv, BlockSound, Held, Acked
<1>3. PausedIsReaped
    <2> SUFFICES ASSUME NEW t \in reaped
                 PROVE  /\ ~Holds(t) /\ pending[t] = "none" /\ runner[t] \in {"none", "done"}
                        /\ (backend => lease.task # t) /\ t \notin event
        BY DEF PausedIsReaped
    <2>1. t \in Task
        BY DEF DispatchInv, PauseSound
    <2> QED BY <2>1 DEF DispatchInv, AckSound, Acked
<1> QED BY <1>1, <1>2, <1>3 DEF LeaseCustody

\* Whatever the order in which deliver, the two supervisors, the guard, a cancellation, a
\* /pause, the lease timer and the shutdown come, a valid lease is in the hands of
\* somebody who will settle it, and a turn that may have run keeps the resource until
\* its end is recorded or a /pause saw it reaped.
THEOREM LeaseStaysInCustody == Spec => []LeaseCustody
<1>1. DispatchInv => LeaseCustody
    BY DispatchGives
<1> QED BY <1>1, DispatchInit, DispatchNext, PTL DEF Spec

\* cancel_and_reap_task answers only when the backend of the task is gone and its lease
\* released, and nothing of the task runs or is committed afterwards.
THEOREM PausedStaysReaped == Spec => []PausedIsReaped
<1>1. DispatchInv => PausedIsReaped
    BY DispatchGives
<1> QED BY <1>1, DispatchInit, DispatchNext, PTL DEF Spec

\* Who takes the backend away has the lease of its task in hand, and so has the turn:
\* they are the same task, and then the turn is not running on.
LEMMA OwnBackendStep ==
    ASSUME DispatchInv, Next, NEW t \in Task, runner[t] = "turn", runner'[t] = "turn", backend
    PROVE  backend'
<1>0. Held(t) /\ pending[t] = "none" /\ cleanup[t] = "none" /\ runner \in [Task -> RunnerState]
    BY RunnerAt DEF DispatchInv, Typed
<1>1. worker.pc \in {"acquired", "sent", "failed", "accepted", "taken", "claimed"} => FALSE
    BY <1>0, AtTask, RunnerAt DEF Held
<1>2. ASSUME NEW u \in Task PROVE pending[u] = "none" /\ (u # t => runner[u] \in {"none", "done"} /\ cleanup[u] = "none")
    BY <1>0, RunnerAt DEF Held, DispatchInv, TaskInv, HandSound
<1>3. CASE Deliver \/ Execute \/ WorkerGone \/ Pauser \/ Lapse
    BY <1>1, <1>3 DEF Deliver, Acquire, ClaimFails, AdapterRefuses, AdapterAccepts, Begin, Refused, FinalizeDeliveryFailure,
        Execute, ExecuteTakes, ExecuteClaims, ExecuteSpawns, WorkerResult, CancelWins, CancelLookup, CancelSend, CancelReply,
        WorkerGone, Pauser, Pause, PauseLease, PauseSend, PauseReply, PauseConfirm, Lapse
<1>4. CASE ShutdownDrains
    <2>1. {u \in Task : pending[u] # "none"} = {}
        BY <1>2
    <2> QED BY <1>4, <2>1 DEF ShutdownDrains
<1>5. CASE ShutdownEnds
    BY <1>5 DEF ShutdownEnds
<1>6. ASSUME NEW u \in Task, Waiter(u) PROVE backend'
    BY <1>2, <1>6 DEF Waiter, WaiterStandsDown, WaiterWakes, WaiterClosed, WaiterExpires, WaiterObeys, WaiterSettles, Settle
<1>7. ASSUME NEW u \in Task, Runner(u) PROVE backend'
    <2>1. u = t
        BY <1>2, <1>7 DEF Runner, RunnerMoves, RunnerStarts, RunnerExhausts, TurnFails, TurnAbandoned, TurnCancelled, TurnDrains,
            TurnContinues, TurnEnds, RunnerDefers, RunnerCancelled, RunnerReaps, RunnerFailed, RunnerSettles
    <2>2. CASE TurnFails(t) \/ TurnAbandoned(t)
        <3>1. runner'[t] \in {"deferred", "failed"}
            BY <2>2, UncertainDoes DEF TurnFails, TurnAbandoned
        <3> QED BY <3>1
    <2>3. CASE TurnCancelled(t)
        BY <2>3, <1>0, UncertainDoes DEF TurnCancelled
    <2>4. CASE TurnDrains(t) \/ \E s \in {"blocked", "terminal"} : TurnEnds(t, s)
        BY <2>4 DEF TurnDrains, TurnEnds
    <2> QED BY <1>7, <2>1, <2>2, <2>3, <2>4 DEF Runner, RunnerMoves, RunnerStarts, RunnerExhausts, TurnContinues, RunnerDefers,
            RunnerCancelled, RunnerReaps, RunnerFailed, RunnerSettles
<1>8. ASSUME NEW u \in Task, Cleanup(u) PROVE backend'
    BY <1>0, <1>2, <1>8 DEF Cleanup, CleanupKills, CleanupReleases
<1> QED BY <1>3, <1>4, <1>5, <1>6, <1>7, <1>8 DEF Next

\* No timer, cleanup, cancellation or shutdown of another task shuts the backend down
\* under a running turn.
THEOREM BackendStaysWithTurn == Spec => OwnBackendOnly
<1>1. DispatchInv /\ [Next]_vars =>
        [\A t \in Task : runner[t] = "turn" /\ runner'[t] = "turn" /\ backend => backend']_vars
    BY OwnBackendStep
<1> QED BY <1>1, DispatchInit, DispatchNext, PTL DEF Spec, OwnBackendOnly
=============================================================================
