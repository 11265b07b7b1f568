-------------------------- MODULE LeasedDispatcher --------------------------
(***************************************************************************)
(* LeasedAcpDispatcher (src/src/runtime/mod.rs): how a leased task is      *)
(* handed from the worker's deliver call to a waiting supervisor, from     *)
(* there to the supervisor that runs its turns, and from there to the      *)
(* worker that commits the terminal event, while a cancellation, an        *)
(* operator /pause, the lease timer and a shutdown race one another.       *)
(*                                                                         *)
(* One endpoint with its single execution resource and its single ACP      *)
(* backend.  The bus worker is serial: it drives one task at a time and    *)
(* delivers a task once.  Each supervisor is a spawned tokio task, so it   *)
(* runs between any two steps of the worker.  Lease and continuation rows  *)
(* are those of ExecutionLease with the revision and the clock abstracted: *)
(* `lapsed` says that expires_at has passed.                               *)
(***************************************************************************)
EXTENDS Integers, FiniteSets

CONSTANTS
    Task,        \* tasks submitted for this endpoint
    None,        \* an absent task or channel
    MaxPauses    \* bound on /pause commands

ASSUME DispatcherAssumption ==
    None \notin Task \cup {"wait", "run", "worker", "pauser"} /\ MaxPauses \in Nat

VARIABLES
    lease,    \* execution_leases: the row of the endpoint's resource
    lapsed,   \* the row's expires_at is in the past
    cont,     \* task_continuations.state
    event,    \* tasks whose terminal event finalize_terminal committed
    backend,  \* the negotiated ACP client is in the slot
    pending,  \* LeasedAcpDispatcher.pending
    active,   \* LeasedAcpDispatcher.active: whose channel the sender feeds
    claimed,  \* the oneshot that tells the waiting supervisor to stand down
    inbox,    \* the buffered SupervisorCommand of each cancel channel
    waiter,   \* the supervisor deliver spawns
    runner,   \* the supervisor execute_prepared spawns
    ending,   \* the DeferredTerminal.continuation_state of the runner
    cleanup,  \* the task an armed ExecutionGuard spawns when dropped
    result,   \* the oneshot execute_prepared awaits
    reply,    \* the oneshots the callers of the cancel channel await
    cap,      \* the command side of the FinalizationCapability
    worker,   \* the bus worker: program counter, task, channel, why it stopped
    todo,     \* tasks the worker has not taken yet
    pauser,   \* one /pause command: program counter, task, channel
    pauses,   \* /pause commands issued
    reaped,   \* tasks whose backend a /pause confirmed reaped
    unreaped, \* some shutdown_reaped reported failure
    phase     \* of LeasedAcpDispatcher::shutdown

rows == <<lease, lapsed, cont, event>>
maps == <<pending, active, claimed, inbox>>
sups == <<waiter, runner, ending, cleanup>>
talk == <<result, reply, cap>>
admin == <<pauser, pauses, reaped>>
vars == <<rows, backend, maps, sups, talk, worker, todo, admin, unreaped, phase>>

Channel == {"wait", "run"}
Caller == {"worker", "pauser"}

WaiterState ==
    {"none", "select", "closed", "command", "reap", "expired", "offered", "done"}
RunnerState ==
    {"none", "loop", "turn", "drained", "deferred", "cancelled", "reap", "failed",
     "offered", "conceded", "done"}

Idle == [pc |-> "idle", task |-> None, chan |-> None, why |-> "none"]

Init ==
    /\ lease = [state |-> "absent", task |-> None]
    /\ lapsed = FALSE
    /\ cont = [t \in Task |-> "absent"]
    /\ event = {}
    /\ backend = FALSE
    /\ pending = [t \in Task |-> "none"]
    /\ active = [t \in Task |-> None]
    /\ claimed = [t \in Task |-> "open"]
    /\ inbox = [t \in Task |-> [c \in Channel |-> None]]
    /\ waiter = [t \in Task |-> "none"]
    /\ runner = [t \in Task |-> "none"]
    /\ ending = [t \in Task |-> "terminal"]
    /\ cleanup = [t \in Task |-> "none"]
    /\ result = [t \in Task |-> "none"]
    /\ reply = [c \in Caller |-> "none"]
    /\ cap = [t \in Task |-> "none"]
    /\ worker = Idle
    /\ todo = Task
    /\ pauser = [pc |-> "idle", task |-> None, chan |-> None]
    /\ pauses = 0
    /\ reaped = {}
    /\ unreaped = FALSE
    /\ phase = "serving"

-----------------------------------------------------------------------------
(* The store calls, as ExecutionLease has them. *)

\* release and lease_for_task look at the owner, the fence and the state.
Holds(t) == lease.state = "active" /\ lease.task = t

\* renew, begin_continuation, claim_turn, record_continue, finish and
\* finalize_terminal also look at expires_at.
Live(t) == Holds(t) /\ ~lapsed

\* release: closes an active row whether or not it has expired.
Release(t, s) ==
    lease' = IF Holds(t) THEN [lease EXCEPT !.state = s] ELSE lease

\* finish_with_generation(.., RecoveryNeeded, ..): Fenced or Stale writes nothing.
FinishUncertain(t) ==
    IF Live(t) /\ cont[t] = "in_flight"
      THEN /\ lease' = [lease EXCEPT !.state = "recovery_needed"]
           /\ cont' = [cont EXCEPT ![t] = "recovery_needed"]
      ELSE UNCHANGED <<lease, cont>>

\* finalize_terminal: the continuation, the lease and the terminal event
\* commit together.
FinalizeTerminal(t, s) ==
    /\ lease' = [lease EXCEPT !.state = "released"]
    /\ cont' = [cont EXCEPT ![t] = s]
    /\ event' = event \cup {t}

-----------------------------------------------------------------------------
(* The cancel channels. *)

\* A receiver lives as long as the supervisor that owns it.
Listening(t, c) ==
    IF c = "wait" THEN waiter[t] \notin {"none", "done"}
                  ELSE runner[t] \notin {"none", "done"}

\* The sender in the active map, and the clones callers took from it.
Senders(t, c) ==
    \/ active[t] = c
    \/ worker.task = t /\ worker.chan = c
    \/ pauser.task = t /\ pauser.chan = c

-----------------------------------------------------------------------------
(* LeasedAcpDispatcher::deliver, in the worker. *)

Worker(pc) == worker' = [worker EXCEPT !.pc = pc]

\* process returns: the worker takes the next task.
NextTask == worker' = Idle

\* process returns WorkerError::EventWrite and the worker stops.
FailStop(why) == worker' = [Idle EXCEPT !.pc = "stopped", !.task = worker.task, !.why = why]

\* deliver: acquire grants a free row, refuses a held one (Busy) and marks an
\* expired one recovery_needed.
Acquire(t) ==
    /\ worker.pc = "idle" /\ t \in todo
    /\ todo' = todo \ {t}
    /\ IF lease.state \in {"absent", "released"}
         THEN /\ lease' = [state |-> "active", task |-> t]
              /\ lapsed' = FALSE
              /\ worker' = [Idle EXCEPT !.pc = "acquired", !.task = t]
         ELSE /\ worker' = [Idle EXCEPT !.pc = "refused", !.task = t]
              /\ lease' = IF lease.state = "active" /\ lapsed
                            THEN [lease EXCEPT !.state = "recovery_needed"]
                            ELSE lease
              /\ UNCHANGED lapsed
    /\ UNCHANGED <<cont, event, backend, maps, sups, talk, admin, unreaped, phase>>

\* deliver: claim_workspaces fails, the lease is given back.
ClaimFails ==
    /\ worker.pc = "acquired"
    /\ Release(worker.task, "released")
    /\ Worker("refused")
    /\ UNCHANGED <<lapsed, cont, event, backend, maps, sups, talk, todo, admin, unreaped, phase>>

\* Mutant: the error is returned before the lease is stored.
AdapterRefusesEarly ==
    /\ worker.pc = "acquired"
    /\ backend' \in BOOLEAN
    /\ Worker("failed")
    /\ UNCHANGED <<rows, maps, sups, talk, todo, admin, unreaped, phase>>

\* deliver: the adapter does not accept; the lease waits in `pending` with a
\* claimed channel nobody listens to.  The client may or may not be running.
AdapterRefuses ==
    /\ worker.pc = "acquired"
    /\ pending' = [pending EXCEPT ![worker.task] = "unwatched"]
    /\ backend' \in BOOLEAN
    /\ Worker("failed")
    /\ UNCHANGED <<rows, active, claimed, inbox, sups, talk, todo, admin, unreaped, phase>>

AdapterAccepts ==
    /\ worker.pc = "acquired"
    /\ backend' = TRUE
    /\ Worker("sent")
    /\ UNCHANGED <<rows, maps, sups, talk, todo, admin, unreaped, phase>>

\* deliver: begin_continuation, then the pending entry, the cancel channel and
\* the waiting supervisor; if the lease has lapsed the backend is shut down
\* and the lease marked.
Begin ==
    LET t == worker.task IN
    /\ worker.pc = "sent"
    /\ IF Live(t)
         THEN /\ cont' = [cont EXCEPT ![t] = "ready"]
              /\ pending' = [pending EXCEPT ![t] = "watched"]
              /\ active' = [active EXCEPT ![t] = "wait"]
              /\ waiter' = [waiter EXCEPT ![t] = "select"]
              /\ Worker("accepted")
              /\ UNCHANGED <<lease, backend>>
         ELSE /\ backend' = FALSE
              /\ Release(t, "recovery_needed")
              /\ Worker("refused")
              /\ UNCHANGED <<cont, pending, active, waiter>>
    /\ UNCHANGED <<lapsed, event, claimed, inbox, runner, ending, cleanup, talk, todo,
                   admin, unreaped, phase>>

\* finalize_delivery_failure without a pending lease.
Refused ==
    /\ worker.pc = "refused"
    /\ FailStop("delivery")
    /\ UNCHANGED <<rows, backend, maps, sups, talk, todo, admin, unreaped, phase>>

\* finalize_delivery_failure: reap the backend, open and claim the turn and
\* finalize it; a lapsed lease makes the store refuse and is left behind.
FinalizeDeliveryFailure ==
    LET t == worker.task IN
    /\ worker.pc = "failed"
    /\ pending' = [pending EXCEPT ![t] = "none"]
    /\ backend' = FALSE
    /\ \/ /\ backend
          /\ IF Live(t)
               THEN FinalizeTerminal(t, "terminal") /\ NextTask
               ELSE FailStop("delivery") /\ UNCHANGED <<lease, cont, event>>
          /\ UNCHANGED unreaped
       \/ /\ Release(t, "recovery_needed")
          /\ FailStop("delivery")
          /\ unreaped' = TRUE
          /\ UNCHANGED <<cont, event>>
    /\ UNCHANGED <<lapsed, active, claimed, inbox, sups, talk, todo, admin, phase>>

-----------------------------------------------------------------------------
(* LeasedAcpDispatcher::execute_prepared, in the worker. *)

\* The pending lease is taken and the waiting supervisor's sender dropped; a
\* lease that is gone makes the task recovery-needed and the worker go on.
ExecuteTakes ==
    LET t == worker.task IN
    /\ worker.pc = "accepted"
    /\ IF pending[t] = "none"
         THEN NextTask /\ UNCHANGED <<pending, active>>
         ELSE /\ pending' = [pending EXCEPT ![t] = "none"]
              /\ active' = [active EXCEPT ![t] = None]
              /\ Worker("taken")
    /\ UNCHANGED <<rows, backend, claimed, inbox, sups, talk, todo, admin, unreaped, phase>>

\* pending.claimed.send(())
ExecuteClaims ==
    /\ worker.pc = "taken"
    /\ claimed' = [claimed EXCEPT ![worker.task] = "sent"]
    /\ Worker("claimed")
    /\ UNCHANGED <<rows, backend, pending, active, inbox, sups, talk, todo, admin, unreaped, phase>>

\* A new cancel channel and the running supervisor.
ExecuteSpawns ==
    /\ worker.pc = "claimed"
    /\ active' = [active EXCEPT ![worker.task] = "run"]
    /\ runner' = [runner EXCEPT ![worker.task] = "loop"]
    /\ Worker("executing")
    /\ UNCHANGED <<rows, backend, pending, claimed, inbox, waiter, ending, cleanup, talk, todo,
                   admin, unreaped, phase>>

\* The race sees the result: a prepared outcome is finalized, an error makes
\* the task recovery-needed.
WorkerResult ==
    LET t == worker.task IN
    /\ worker.pc = "executing"
    /\ \/ /\ result[t] = "cap"
          /\ cap' = [cap EXCEPT ![t] = "commanded"]
          /\ Worker("finalizing")
       \/ /\ result[t] = "err"
          /\ NextTask
          /\ UNCHANGED cap
    /\ UNCHANGED <<rows, backend, maps, sups, result, reply, todo, admin, unreaped, phase>>

\* A cancellation or the task deadline wins, at CP-2 or in the race.  The race
\* polls the stage first, but the result may arrive after that poll; the
\* dropped future drops it, and with it the capability.
CancelWins ==
    LET t == worker.task IN
    /\ worker.pc \in {"accepted", "executing"}
    /\ result' = IF worker.pc = "executing" THEN [result EXCEPT ![t] = "dropped"] ELSE result
    /\ cap' = IF worker.pc = "executing" /\ result[t] = "cap"
                THEN [cap EXCEPT ![t] = "dropped"] ELSE cap
    /\ Worker("cancelling")
    /\ UNCHANGED <<rows, backend, maps, sups, reply, todo, admin, unreaped, phase>>

\* cancel_prepared: the sender is cloned from the active map.
CancelLookup ==
    LET t == worker.task IN
    /\ worker.pc = "cancelling"
    /\ IF active[t] = None
         THEN FailStop("cancel")
         ELSE worker' = [worker EXCEPT !.pc = "sending", !.chan = active[t]]
    /\ UNCHANGED <<rows, backend, maps, sups, talk, todo, admin, unreaped, phase>>

\* cancel_prepared: the bounded send.
CancelSend ==
    LET t == worker.task  c == worker.chan IN
    /\ worker.pc = "sending"
    /\ \/ /\ ~Listening(t, c)
          /\ FailStop("cancel")
          /\ UNCHANGED inbox
       \/ /\ Listening(t, c) /\ inbox[t][c] = None
          /\ inbox' = [inbox EXCEPT ![t][c] = "worker"]
          /\ Worker("awaiting")
    /\ UNCHANGED <<rows, backend, pending, active, claimed, sups, talk, todo, admin, unreaped, phase>>

\* cancel_prepared returns; the capability is used at once.
CancelReply ==
    LET t == worker.task IN
    /\ worker.pc = "awaiting"
    /\ reply["worker"] # "none"
    /\ reply' = [reply EXCEPT !["worker"] = "none"]
    /\ IF reply["worker"] = "ok"
         THEN cap' = [cap EXCEPT ![t] = "commanded"] /\ Worker("finalizing")
         ELSE FailStop("cancel") /\ UNCHANGED cap
    /\ UNCHANGED <<rows, backend, maps, sups, result, todo, admin, unreaped, phase>>

\* The worker's future is dropped at an await (or it has returned).
WorkerGone ==
    LET t == worker.task IN
    /\ worker.pc \notin {"taken", "claimed", "cancelling", "gone"}
    /\ worker' = [Idle EXCEPT !.pc = "gone"]
    /\ result' = IF worker.pc = "executing" THEN [result EXCEPT ![t] = "dropped"] ELSE result
    /\ cap' = IF \/ worker.pc = "executing" /\ result[t] = "cap"
                 \/ worker.pc = "awaiting" /\ reply["worker"] = "ok"
                THEN [cap EXCEPT ![t] = "dropped"] ELSE cap
    /\ reply' = [reply EXCEPT !["worker"] = "gone"]
    /\ UNCHANGED <<rows, backend, maps, sups, todo, admin, unreaped, phase>>

-----------------------------------------------------------------------------
(* What both supervisors do. *)

\* The supervisor of channel c answers `caller` (None: nobody) and ends; a
\* command it never took is dropped with its responder.
AnswerAndEnd(t, c, caller, v) ==
    /\ inbox' = [inbox EXCEPT ![t][c] = None]
    /\ reply' = [x \in Caller |->
                   IF reply[x] = "gone" THEN "gone"
                   ELSE IF x = caller THEN v
                   ELSE IF x = inbox[t][c] THEN "err" ELSE reply[x]]

SetResult(t, v) ==
    result' = IF result[t] = "none" THEN [result EXCEPT ![t] = v] ELSE result

\* The capability's command arrives: finalize_terminal, and the answer decides
\* whether the worker goes on or stops.  A dropped capability leaves the turn
\* uncertain (shutting the backend down when it came with a result).
Settle(t, s, kills) ==
    \/ /\ cap[t] = "commanded"
       /\ IF Live(t)
            THEN /\ FinalizeTerminal(t, s)
                 /\ IF worker.task = t THEN NextTask ELSE UNCHANGED worker
            ELSE /\ IF worker.task = t THEN FailStop("finalize") ELSE UNCHANGED worker
                 /\ UNCHANGED <<lease, cont, event>>
       /\ UNCHANGED backend
    \/ /\ cap[t] = "dropped"
       /\ FinishUncertain(t)
       /\ backend' = IF kills THEN FALSE ELSE backend
       /\ UNCHANGED <<event, worker>>

-----------------------------------------------------------------------------
(* The waiting supervisor: a biased select over the claimed oneshot, the
   cancel channel and the lease timer. *)

\* The claimed oneshot resolves: execute_prepared took the lease, or a shutdown
\* dropped it.
WaiterStandsDown(t) ==
    /\ waiter[t] = "select"
    /\ claimed[t] # "open"
    /\ waiter' = [waiter EXCEPT ![t] = "done"]
    /\ AnswerAndEnd(t, "wait", None, "err")
    /\ UNCHANGED <<rows, backend, pending, active, claimed, runner, ending, cleanup, result, cap,
                   worker, todo, admin, unreaped, phase>>

\* cancel_rx.recv(): a command, or None once every sender is dropped; else the
\* timer, which is set after the lease was granted and for as long.
WaiterWakes(t) ==
    /\ waiter[t] = "select"
    /\ claimed[t] = "open"
    /\ \/ /\ inbox[t]["wait"] # None
          /\ waiter' = [waiter EXCEPT ![t] = IF inbox[t]["wait"] = "worker" THEN "command" ELSE "reap"]
          /\ inbox' = [inbox EXCEPT ![t]["wait"] = None]
       \/ /\ inbox[t]["wait"] = None
          /\ ~Senders(t, "wait") \/ lapsed
          /\ waiter' = [waiter EXCEPT ![t] = IF Senders(t, "wait") THEN "expired" ELSE "closed"]
          /\ UNCHANGED inbox
    /\ UNCHANGED <<rows, backend, pending, active, claimed, runner, ending, cleanup, talk,
                   worker, todo, admin, unreaped, phase>>

\* The None branch: active.remove(&task_id), whichever sender is there by now.
WaiterClosed(t) ==
    /\ waiter[t] = "closed"
    /\ active' = [active EXCEPT ![t] = None]
    /\ waiter' = [waiter EXCEPT ![t] = "done"]
    /\ UNCHANGED <<rows, backend, pending, claimed, inbox, runner, ending, cleanup, talk,
                   worker, todo, admin, unreaped, phase>>

\* The timer branch: nobody executed the delivery within the lease.
WaiterExpires(t) ==
    /\ waiter[t] = "expired"
    /\ active' = [active EXCEPT ![t] = None]
    /\ waiter' = [waiter EXCEPT ![t] = "done"]
    /\ AnswerAndEnd(t, "wait", None, "err")
    /\ pending' = [pending EXCEPT ![t] = "none"]
    /\ IF pending[t] = "none"
         THEN UNCHANGED <<lease, backend>>
         ELSE backend' = FALSE /\ Release(t, "recovery_needed")
    /\ UNCHANGED <<lapsed, cont, event, claimed, runner, ending, cleanup, result, cap,
                   worker, todo, admin, unreaped, phase>>

\* The command branch up to the answer.
WaiterObeys(t) ==
    LET caller == IF waiter[t] = "command" THEN "worker" ELSE "pauser"
        End(v) == AnswerAndEnd(t, "wait", caller, v) /\ waiter' = [waiter EXCEPT ![t] = "done"] IN
    /\ waiter[t] \in {"command", "reap"}
    /\ active' = [active EXCEPT ![t] = None]
    /\ pending' = [pending EXCEPT ![t] = "none"]
    /\ IF pending[t] = "none"
         THEN End("err") /\ UNCHANGED <<lease, cont, backend, cap, unreaped>>
         ELSE \E gone \in {backend, FALSE} :     \* shutdown_reaped
           /\ backend' = FALSE
           /\ unreaped' = (unreaped \/ ~gone)
           /\ CASE ~gone \/ (caller = "worker" /\ ~Live(t)) ->
                     Release(t, "recovery_needed") /\ End("err") /\ UNCHANGED <<cont, cap>>
                [] gone /\ caller = "pauser" ->
                     /\ Release(t, "released")
                     /\ End(IF Holds(t) THEN "ok" ELSE "err")
                     /\ UNCHANGED <<cont, cap>>
                [] gone /\ caller = "worker" /\ Live(t) /\ reply["worker"] = "gone" ->
                     /\ lease' = [lease EXCEPT !.state = "recovery_needed"]
                     /\ cont' = [cont EXCEPT ![t] = "recovery_needed"]
                     /\ End("err")
                     /\ UNCHANGED cap
                [] OTHER ->
                     /\ cont' = [cont EXCEPT ![t] = "in_flight"]
                     /\ cap' = [cap EXCEPT ![t] = "held"]
                     /\ reply' = [reply EXCEPT !["worker"] = "ok"]
                     /\ waiter' = [waiter EXCEPT ![t] = "offered"]
                     /\ UNCHANGED <<lease, inbox>>
    /\ UNCHANGED <<lapsed, event, claimed, runner, ending, cleanup, result, worker, todo,
                   admin, phase>>

WaiterSettles(t) ==
    /\ waiter[t] = "offered"
    /\ Settle(t, "terminal", FALSE)
    /\ waiter' = [waiter EXCEPT ![t] = "done"]
    /\ AnswerAndEnd(t, "wait", None, "err")
    /\ UNCHANGED <<lapsed, pending, active, claimed, runner, ending, cleanup, result, cap, todo,
                   admin, unreaped, phase>>

-----------------------------------------------------------------------------
(* The running supervisor: execute_loop(.., defer = true) and what follows. *)

\* execute_loop returns Err with its ExecutionGuard armed: the guard's drop
\* spawns the cleanup.
DropGuard(t) ==
    /\ runner' = [runner EXCEPT ![t] = "failed"]
    /\ cleanup' = [cleanup EXCEPT ![t] = "kill"]

\* The policy allows another turn: renew, claim_turn, start_turn.
RunnerStarts(t) ==
    /\ runner[t] = "loop"
    /\ IF Live(t) /\ cont[t] = "ready"
         THEN /\ cont' = [cont EXCEPT ![t] = "in_flight"]
              /\ runner' = [runner EXCEPT ![t] = "turn"]
              /\ UNCHANGED cleanup
         ELSE DropGuard(t) /\ UNCHANGED cont
    /\ UNCHANGED <<lease, lapsed, event, backend, maps, waiter, ending, talk, worker, todo,
                   admin, unreaped, phase>>

\* The policy is exhausted: the turn is claimed only to be blocked.
RunnerExhausts(t) ==
    /\ runner[t] = "loop"
    /\ IF Live(t) /\ cont[t] = "ready"
         THEN /\ cont' = [cont EXCEPT ![t] = "in_flight"]
              /\ runner' = [runner EXCEPT ![t] = "deferred"]
              /\ ending' = [ending EXCEPT ![t] = "blocked"]
              /\ UNCHANGED cleanup
         ELSE DropGuard(t) /\ UNCHANGED <<cont, ending>>
    /\ UNCHANGED <<lease, lapsed, event, backend, maps, waiter, talk, worker, todo,
                   admin, unreaped, phase>>

\* The Err arm of execute_loop: the turn is finished as recovery_needed; if
\* the store refuses, the guard is still armed.  A turn that streamed more than
\* its output limit never gets there: it is blocked, whatever its result.
TurnUncertain(t) ==
    \E over \in BOOLEAN :
      IF over
        THEN /\ runner' = [runner EXCEPT ![t] = "deferred"]
             /\ ending' = [ending EXCEPT ![t] = "blocked"]
             /\ UNCHANGED <<lease, cont, cleanup>>
        ELSE /\ UNCHANGED ending
             /\ IF Live(t)
                  THEN /\ FinishUncertain(t)
                       /\ runner' = [runner EXCEPT ![t] = "failed"]
                       /\ UNCHANGED cleanup
                  ELSE DropGuard(t) /\ UNCHANGED <<lease, cont>>

\* run_turn or turn.finish fails: a heartbeat finds the lease lapsed, the agent
\* is silent too long, a deadline passes (the backend is shut down), the
\* protocol breaks, or the child is gone and a new one was negotiated.
TurnFails(t) ==
    /\ runner[t] \in {"turn", "drained"}
    /\ TurnUncertain(t)
    /\ backend' \in BOOLEAN
    /\ UNCHANGED <<lapsed, event, maps, waiter, talk, worker, todo, admin, unreaped, phase>>

\* run_turn: cancel.recv() returns None, no sender is left.
TurnAbandoned(t) ==
    /\ runner[t] = "turn"
    /\ inbox[t]["run"] = None
    /\ ~Senders(t, "run")
    /\ TurnUncertain(t)
    /\ UNCHANGED <<lapsed, event, backend, maps, waiter, talk, worker, todo, admin,
                   unreaped, phase>>

\* Mutant: a command is acknowledged before the backend is gone.
TurnCancelledEarly(t) ==
    /\ runner[t] = "turn"
    /\ inbox[t]["run"] # None
    /\ inbox' = [inbox EXCEPT ![t]["run"] = None]
    /\ runner' = [runner EXCEPT ![t] = IF inbox[t]["run"] = "worker" THEN "cancelled" ELSE "reap"]
    /\ UNCHANGED <<rows, backend, pending, active, claimed, waiter, ending, cleanup, talk, worker,
                   todo, admin, unreaped, phase>>

\* run_turn takes a command: cancel_and_shutdown reaps the backend, or the
\* caller is told RecoveryNeeded and the turn is uncertain.
TurnCancelled(t) ==
    LET caller == inbox[t]["run"] IN
    /\ runner[t] = "turn"
    /\ caller # None
    /\ inbox' = [inbox EXCEPT ![t]["run"] = None]
    /\ backend' = FALSE
    /\ \/ /\ backend
          /\ runner' = [runner EXCEPT ![t] = IF caller = "worker" THEN "cancelled" ELSE "reap"]
          /\ UNCHANGED <<lease, cont, ending, cleanup, reply, unreaped>>
       \/ /\ TurnUncertain(t)
          /\ reply' = [reply EXCEPT ![caller] = IF @ = "gone" THEN @ ELSE "err"]
          /\ unreaped' = TRUE
    /\ UNCHANGED <<lapsed, event, pending, active, claimed, waiter, result, cap, worker,
                   todo, admin, phase>>

\* The stream ends; from here on no command is received.
TurnDrains(t) ==
    /\ runner[t] = "turn"
    /\ runner' = [runner EXCEPT ![t] = "drained"]
    /\ UNCHANGED <<rows, backend, maps, waiter, ending, cleanup, talk, worker, todo, admin,
                   unreaped, phase>>

\* turn.finish: the agent asks for another turn.
TurnContinues(t) ==
    /\ runner[t] = "drained"
    /\ IF Live(t)
         THEN /\ cont' = [cont EXCEPT ![t] = "ready"]
              /\ runner' = [runner EXCEPT ![t] = "loop"]
              /\ UNCHANGED cleanup
         ELSE DropGuard(t) /\ UNCHANGED cont
    /\ UNCHANGED <<lease, lapsed, event, backend, maps, waiter, ending, talk, worker, todo,
                   admin, unreaped, phase>>

\* turn.finish: a final answer, a block, an exhausted output budget, or a child
\* that exited; terminal() disarms the guard.  start_turn may also find no live
\* session.
TurnEnds(t, s) ==
    /\ runner[t] = "drained" \/ (runner[t] = "turn" /\ s = "terminal")
    /\ runner' = [runner EXCEPT ![t] = "deferred"]
    /\ ending' = [ending EXCEPT ![t] = s]
    /\ UNCHANGED <<rows, backend, maps, waiter, cleanup, talk, worker, todo, admin, unreaped, phase>>

\* Mutant: the supervisor waits for a command although nobody got the offer.
RunnerDefersUnheard(t) ==
    /\ runner[t] = "deferred"
    /\ active' = [active EXCEPT ![t] = None]
    /\ SetResult(t, "cap")
    /\ cap' = [cap EXCEPT ![t] = "held"]
    /\ runner' = [runner EXCEPT ![t] = "offered"]
    /\ UNCHANGED <<rows, backend, pending, claimed, inbox, waiter, ending, cleanup, reply,
                   worker, todo, admin, unreaped, phase>>

\* LoopOutcome::Deferred: offer the outcome; if nobody awaits it, shut the
\* backend down and leave the turn uncertain.
RunnerDefers(t) ==
    /\ runner[t] = "deferred"
    /\ active' = [active EXCEPT ![t] = None]
    /\ IF result[t] = "none"
         THEN /\ SetResult(t, "cap")
              /\ cap' = [cap EXCEPT ![t] = "held"]
              /\ runner' = [runner EXCEPT ![t] = "offered"]
              /\ UNCHANGED <<lease, cont, backend, inbox, reply>>
         ELSE /\ backend' = FALSE
              /\ FinishUncertain(t)
              /\ AnswerAndEnd(t, "run", None, "err")
              /\ runner' = [runner EXCEPT ![t] = "done"]
              /\ UNCHANGED <<result, cap>>
    /\ UNCHANGED <<lapsed, event, pending, claimed, waiter, ending, cleanup, worker, todo,
                   admin, unreaped, phase>>

\* LoopOutcome::Cancelled for the worker.
RunnerCancelled(t) ==
    /\ runner[t] = "cancelled"
    /\ active' = [active EXCEPT ![t] = None]
    /\ SetResult(t, "err")
    /\ IF reply["worker"] = "gone"
         THEN /\ FinishUncertain(t)
              /\ AnswerAndEnd(t, "run", None, "err")
              /\ runner' = [runner EXCEPT ![t] = "done"]
              /\ UNCHANGED <<cap, ending>>
         ELSE /\ reply' = [reply EXCEPT !["worker"] = "ok"]
              /\ cap' = [cap EXCEPT ![t] = "held"]
              /\ runner' = [runner EXCEPT ![t] = "conceded"]
              /\ ending' = [ending EXCEPT ![t] = "terminal"]
              /\ UNCHANGED <<lease, cont, inbox>>
    /\ UNCHANGED <<lapsed, event, backend, pending, claimed, waiter, cleanup, worker, todo,
                   admin, unreaped, phase>>

\* LoopOutcome::Cancelled for a /pause: the lease is released, no event.
RunnerReaps(t) ==
    /\ runner[t] = "reap"
    /\ active' = [active EXCEPT ![t] = None]
    /\ Release(t, "released")
    /\ AnswerAndEnd(t, "run", "pauser", IF Holds(t) THEN "ok" ELSE "err")
    /\ SetResult(t, "err")
    /\ runner' = [runner EXCEPT ![t] = "done"]
    /\ UNCHANGED <<lapsed, cont, event, backend, pending, claimed, waiter, ending, cleanup, cap,
                   worker, todo, admin, unreaped, phase>>

\* The Err arm of execute_prepared: finish again with the lease it kept.
RunnerFailed(t) ==
    /\ runner[t] = "failed"
    /\ active' = [active EXCEPT ![t] = None]
    /\ FinishUncertain(t)
    /\ SetResult(t, "err")
    /\ AnswerAndEnd(t, "run", None, "err")
    /\ runner' = [runner EXCEPT ![t] = "done"]
    /\ UNCHANGED <<lapsed, event, backend, pending, claimed, waiter, ending, cleanup, cap,
                   worker, todo, admin, unreaped, phase>>

RunnerSettles(t) ==
    /\ runner[t] \in {"offered", "conceded"}
    /\ Settle(t, ending[t], runner[t] = "offered")
    /\ runner' = [runner EXCEPT ![t] = "done"]
    /\ AnswerAndEnd(t, "run", None, "err")
    /\ UNCHANGED <<lapsed, pending, active, claimed, waiter, ending, cleanup, result, cap, todo,
                   admin, unreaped, phase>>

-----------------------------------------------------------------------------
(* The task spawned by ExecutionGuard::drop. *)

CleanupKills(t) ==
    /\ cleanup[t] = "kill"
    /\ backend' = FALSE
    /\ cleanup' = [cleanup EXCEPT ![t] = "release"]
    /\ UNCHANGED <<rows, maps, waiter, runner, ending, talk, worker, todo, admin, unreaped, phase>>

CleanupReleases(t) ==
    /\ cleanup[t] = "release"
    /\ Release(t, "recovery_needed")
    /\ cleanup' = [cleanup EXCEPT ![t] = "done"]
    /\ UNCHANGED <<lapsed, cont, event, backend, maps, waiter, runner, ending, talk, worker, todo,
                   admin, unreaped, phase>>

-----------------------------------------------------------------------------
(* cancel_and_reap_task, called by /pause. *)

PauseIdle == pauser' = [pc |-> "idle", task |-> None, chan |-> None]

Pause(t) ==
    /\ pauser.pc = "idle" /\ pauses < MaxPauses
    /\ pauses' = pauses + 1
    /\ IF active[t] = None THEN PauseIdle
       ELSE pauser' = [pc |-> "lease", task |-> t, chan |-> active[t]]
    /\ UNCHANGED <<rows, backend, maps, sups, talk, worker, todo, reaped, unreaped, phase>>

PauseLease ==
    /\ pauser.pc = "lease"
    /\ IF Holds(pauser.task) THEN pauser' = [pauser EXCEPT !.pc = "sending"] ELSE PauseIdle
    /\ UNCHANGED <<rows, backend, maps, sups, talk, worker, todo, pauses, reaped, unreaped, phase>>

PauseSend ==
    LET t == pauser.task  c == pauser.chan IN
    /\ pauser.pc = "sending"
    /\ \/ /\ ~Listening(t, c)
          /\ PauseIdle
          /\ UNCHANGED inbox
       \/ /\ Listening(t, c) /\ inbox[t][c] = None
          /\ inbox' = [inbox EXCEPT ![t][c] = "pauser"]
          /\ pauser' = [pauser EXCEPT !.pc = "awaiting"]
    /\ UNCHANGED <<rows, backend, pending, active, claimed, sups, talk, worker, todo, pauses,
                   reaped, unreaped, phase>>

PauseReply ==
    /\ pauser.pc = "awaiting"
    /\ reply["pauser"] # "none"
    /\ reply' = [reply EXCEPT !["pauser"] = "none"]
    /\ IF reply["pauser"] = "ok" THEN pauser' = [pauser EXCEPT !.pc = "confirm"] ELSE PauseIdle
    /\ UNCHANGED <<rows, backend, maps, sups, result, cap, worker, todo, pauses, reaped,
                   unreaped, phase>>

\* The lease is polled until it is no longer active, for five seconds.
PauseConfirm ==
    /\ pauser.pc = "confirm"
    /\ reaped' = IF Holds(pauser.task) THEN reaped ELSE reaped \cup {pauser.task}
    /\ PauseIdle
    /\ UNCHANGED <<rows, backend, maps, sups, talk, worker, todo, pauses, unreaped, phase>>

-----------------------------------------------------------------------------
(* The clock and the shutdown. *)

\* expires_at passes: renewals stopped, or came too late.
Lapse ==
    /\ lease.state = "active" /\ ~lapsed
    /\ lapsed' = TRUE
    /\ UNCHANGED <<lease, cont, event, backend, maps, sups, talk, worker, todo, admin, unreaped, phase>>

\* shutdown, once the worker is gone: the pending leases are drained and
\* marked; dropping an entry drops its claimed sender.
ShutdownDrains ==
    LET held == {t \in Task : pending[t] # "none"} IN
    /\ phase = "serving" /\ worker.pc = "gone"
    /\ phase' = "draining"
    /\ pending' = [t \in Task |-> "none"]
    /\ claimed' = [t \in Task |-> IF t \in held THEN "dropped" ELSE claimed[t]]
    /\ backend' = IF held = {} THEN backend ELSE FALSE
    /\ lease' = IF \E t \in held : Holds(t) THEN [lease EXCEPT !.state = "recovery_needed"] ELSE lease
    /\ UNCHANGED <<lapsed, cont, event, active, inbox, sups, talk, worker, todo, admin, unreaped>>

\* shutdown: every spawned task has been joined, then the backend is stopped.
ShutdownEnds ==
    /\ phase = "draining"
    /\ \A t \in Task : /\ waiter[t] \in {"none", "done"}
                       /\ runner[t] \in {"none", "done"}
                       /\ cleanup[t] \in {"none", "done"}
    /\ phase' = "down"
    /\ backend' = FALSE
    /\ UNCHANGED <<rows, maps, sups, talk, worker, todo, admin, unreaped>>

-----------------------------------------------------------------------------
Deliver ==
    \/ \E t \in Task : Acquire(t)
    \/ ClaimFails \/ AdapterRefuses \/ AdapterAccepts \/ Begin \/ Refused
    \/ FinalizeDeliveryFailure

Execute ==
    \/ ExecuteTakes \/ ExecuteClaims \/ ExecuteSpawns \/ WorkerResult
    \/ CancelWins \/ CancelLookup \/ CancelSend \/ CancelReply

Waiter(t) ==
    \/ WaiterStandsDown(t) \/ WaiterWakes(t) \/ WaiterClosed(t)
    \/ WaiterExpires(t) \/ WaiterObeys(t) \/ WaiterSettles(t)

\* The steps of the running supervisor that do not wait for the agent.
RunnerMoves(t) ==
    \/ RunnerStarts(t) \/ TurnAbandoned(t) \/ TurnCancelled(t)
    \/ RunnerDefers(t) \/ RunnerCancelled(t)
    \/ RunnerReaps(t) \/ RunnerFailed(t) \/ RunnerSettles(t)

Runner(t) ==
    \/ RunnerMoves(t) \/ RunnerExhausts(t)
    \/ TurnFails(t) \/ TurnDrains(t) \/ TurnContinues(t)
    \/ \E s \in {"blocked", "terminal"} : TurnEnds(t, s)

Cleanup(t) == CleanupKills(t) \/ CleanupReleases(t)

Pauser ==
    \/ \E t \in Task : Pause(t)
    \/ PauseLease \/ PauseSend \/ PauseReply \/ PauseConfirm

Next ==
    \/ Deliver \/ Execute \/ WorkerGone \/ Pauser \/ Lapse
    \/ ShutdownDrains \/ ShutdownEnds
    \/ \E t \in Task : Waiter(t) \/ Runner(t) \/ Cleanup(t)

Spec == Init /\ [][Next]_vars

-----------------------------------------------------------------------------
(* Type invariant. *)

\* Every map entry, oneshot and program counter stays within its domain.
TypeOK ==
    /\ lease \in [state : {"absent", "active", "recovery_needed", "released"},
                 task : Task \cup {None}]
    /\ lapsed \in BOOLEAN /\ backend \in BOOLEAN /\ unreaped \in BOOLEAN
    /\ cont \in [Task -> {"absent", "ready", "in_flight", "recovery_needed", "blocked", "terminal"}]
    /\ event \subseteq Task /\ todo \subseteq Task /\ reaped \subseteq Task
    /\ pending \in [Task -> {"none", "watched", "unwatched"}]
    /\ active \in [Task -> Channel \cup {None}]
    /\ claimed \in [Task -> {"open", "sent", "dropped"}]
    /\ inbox \in [Task -> [Channel -> Caller \cup {None}]]
    /\ waiter \in [Task -> WaiterState]
    /\ runner \in [Task -> RunnerState]
    /\ ending \in [Task -> {"blocked", "terminal"}]
    /\ cleanup \in [Task -> {"none", "kill", "release", "done"}]
    /\ result \in [Task -> {"none", "cap", "err", "dropped"}]
    /\ reply \in [Caller -> {"none", "ok", "err", "gone"}]
    /\ cap \in [Task -> {"none", "held", "commanded", "dropped"}]
    /\ pauses \in 0 .. MaxPauses
    /\ phase \in {"serving", "draining", "down"}

(* Safety. *)

\* The code that would release or finish the lease of task t.
Custodian(t) ==
    \/ worker.task = t /\ worker.pc \in {"acquired", "sent", "taken", "claimed"}
    \/ pending[t] # "none"
    \/ waiter[t] = "offered"
    \/ runner[t] \notin {"none", "done"}
    \/ cleanup[t] \in {"kill", "release"}

\* No lease is orphaned: as long as the worker is not dropped inside deliver, a
\* lease that is still valid is held by somebody who will settle it, whichever
\* of the worker, the two supervisors, the guard and /pause came first.
LeaseHasCustodian ==
    lease.state = "active" /\ ~lapsed /\ worker.pc # "gone" => Custodian(lease.task)

\* A turn that was started and has no terminal event keeps the resource: no
\* other task is admitted to it and it is not given back, unless a /pause saw
\* its backend reaped.
UncertainBlocksResource ==
    \A t \in Task :
        cont[t] \in {"in_flight", "recovery_needed"} =>
            \/ lease.task = t /\ lease.state # "released"
            \/ t \in reaped
            \/ pauser.task = t /\ (pauser.pc = "confirm" \/ reply["pauser"] = "ok")

\* The resource is in somebody's hands until what ran on it is known to be over.
LeaseCustody == LeaseHasCustodian /\ UncertainBlocksResource

\* A /pause is acknowledged only after the backend was reaped and the lease
\* released, and nothing of the task runs afterwards.
PausedIsReaped ==
    \A t \in reaped :
        /\ ~Holds(t)
        /\ pending[t] = "none" /\ runner[t] \in {"none", "done"}
        /\ backend => lease.task # t
        /\ t \notin event

(* Action properties. *)

\* Only a turn's own supervisor takes the backend away from it: no timer,
\* cleanup or cancellation of another task, and no shutdown that drains pending
\* leases, shuts the backend down under a running turn.
OwnBackendOnly ==
    [][\A t \in Task :
         runner[t] = "turn" /\ runner'[t] = "turn" /\ backend => backend']_vars

\* The worker waits for its dispatcher.
Waiting == worker.pc \in {"executing", "sending", "awaiting", "finalizing"}

(* What the worker's documentation says of a cancellation. *)

\* Every branch of process writes a terminal event: a cancellation of a
\* delivered task does not stop the worker, unless the lease had lapsed or the
\* backend could not be reaped.
CancelCommits ==
    worker.pc = "stopped" /\ worker.why = "cancel" => lapsed \/ unreaped
=============================================================================
