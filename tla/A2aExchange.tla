----------------------------- MODULE A2aExchange -----------------------------
(***************************************************************************)
(* The A2A transport (src/src/a2a): message/send and tasks/cancel from      *)
(* peers, the tasks this bridge delegates to a peer, the projection of the  *)
(* ends of both into a2a_exchanges, and the removal of content that is no   *)
(* longer needed, over the runtimes that share the database.                *)
(*                                                                         *)
(* A send from a peer is a sequence of transactions (A2aIngress::send); hd  *)
(* says how far each connection has come and what it read on the way, so    *)
(* that two connections interleave and a crash, a storage error or a client *)
(* that hangs up may fall between any two of them.  The database is ex,     *)
(* task and inst; everything else is memory or the other machine.           *)
(***************************************************************************)
EXTENDS Integers, FiniteSets

CONSTANTS
    Offered,     \* Offered[n][h]: the bodies that the n-th call may bring on connection h:
                 \* [peer, auth, to, profile, id, ctx, text, parts]
    Exposed,     \* ingress.endpoints: the agents that may be addressed
    Allowed,     \* PeerAccess.allowed_endpoints, by peer
    Handler,     \* connections, numbered
    InTask,      \* task ids that submissions generate
    Local,       \* tasks for an agent that lives behind the peer
    None,
    Epochs,      \* bound on the starts of a runtime
    Calls,       \* bound on the calls from outside, in both directions
    DispatchCost,\* what the first delivery of a local task takes from Calls
    Faults,      \* bound on storage errors, hang-ups and crashes
    QueueCapacity,
    Attempts,    \* RetryPolicy: deliveries of one task
    MaxPolls,    \* A2aDispatcher.max_polls
    Batch,       \* CleanupPolicy.batch
    Low, Ceiling \* CleanupPolicy.low_watermark and byte_ceiling; every content is one byte

ASSUME A2aAssumption ==
    /\ {Epochs, Calls, Faults, Low, Ceiling} \subseteq Nat /\ Low <= Ceiling
    /\ {QueueCapacity, Attempts, MaxPolls, Batch} \subseteq Nat \ {0}
    /\ InTask \cap Local = {} /\ Handler \subseteq Nat /\ DispatchCost \in Nat
    /\ DOMAIN Offered = 1..Calls

VARIABLES
    ex,      \* a2a_exchanges with its a2a_messages and a2a_artifacts
    task,    \* tasks, their last event and their transport receipt
    inst,    \* runtime_instances.state by epoch
    hd,      \* the request each connection is serving
    out,     \* the dispatch of each local task
    far,     \* the peer: its task for each local task, and what is on the wire
    rt,      \* the runtime process
    sock,    \* the file of a unix: listener exists
    spent    \* calls and faults so far

a2aVars == <<ex, task, inst, hd, out, far, rt, sock, spent>>

Wire == UNION {Offered[n][h] : n \in 1..Calls, h \in Handler}
\* UNIQUE(peer_id, direction, request_id): a request of a peer, or a local task.
Exchange == {<<w.peer, w.id>> : w \in Wire} \cup Local
Task == InTask \cup Local
Epoch == 1..Epochs

\* None is no name, and no request has the name of a local task.
ASSUME A2aNames ==
    /\ None \notin Exchange \cup Task /\ IsFiniteSet(Exchange)
    /\ \A w \in Wire : <<w.peer, w.id>> \notin Local

NoRow == [state |-> "none", hash |-> None, ctx |-> None, task |-> None, ext |-> FALSE,
          bytes |-> 0, message |-> FALSE, artifacts |-> FALSE,
          over |-> "no", cleanup |-> "pending", owner |-> 0]
NoTask == [status |-> "absent", key |-> None, to |-> None, ctx |-> None, text |-> None,
           sent |-> FALSE]
Idle == [pc |-> "idle"]
NoDispatch == [pc |-> "idle", attempt |-> 0, polls |-> 0]

A2aInit ==
    /\ ex = [x \in Exchange |-> NoRow]
    /\ task = [t \in Task |-> IF t \in Local THEN [NoTask EXCEPT !.status = "queued"] ELSE NoTask]
    /\ inst = [e \in Epoch |-> "absent"]
    /\ hd = [h \in Handler |-> Idle]
    /\ out = [l \in Local |-> NoDispatch]
    /\ far = [l \in Local |-> [state |-> "none", net |-> "none", got |-> 0]]
    /\ rt = [phase |-> "down", epoch |-> 0, sweep |-> "off",
             claims |-> {}, events |-> {}, cancel |-> {}, crashed |-> FALSE]
    /\ sock = FALSE
    /\ spent = [calls |-> 0, faults |-> 0]

Terminal == {"completed", "failed", "cancelled"}
\* The EXISTS subquery of every statement below: the last event is terminal.
TaskEnded(t) == t # None /\ task[t].status \in Terminal

Call == spent.calls < Calls /\ spent' = [spent EXCEPT !.calls = @ + 1]
A2aFault == spent.faults < Faults /\ spent' = [spent EXCEPT !.faults = @ + 1]
Working == rt.phase \in {"starting", "up", "stopping"}

-----------------------------------------------------------------------------
(* The wire: what A2aServer and normalize_send make of a body.             *)

\* authorized_request: the token names the peer, the peer may use the endpoint.
authorized_request(w) == w.auth /\ w.to \in Allowed[w.peer]

\* conversation: one for each context of a peer, found or inserted; a concurrent
\* insert is found on the second look.
Conversation(peer, ctx) == <<peer, ctx>>

\* The legacy profile carries the request id, the other one takes the id of the
\* JSON-RPC call; the profile is part of what is hashed.
normalize_send(w) ==
    [key |-> <<w.peer, w.id>>,
     ctx |-> Conversation(w.peer, IF w.ctx = None THEN w.id ELSE w.ctx),
     hash |-> <<w.profile, w.ctx, w.text>>,
     to |-> w.to, text |-> w.text]

\* text_parts: text, data and inline files pass, a reference to a file does not.
text_parts(w) == w.parts # "uri"

\* reject_bad_version.
known_version(w) == w.profile \in {"legacy", "v030"}

\* The checks of prepare_send before the reservation.
well_formed(w) == known_version(w) /\ text_parts(w) /\ w.to \in Exposed

\* project: the A2A state that a caller is shown.
project(status) ==
    CASE status = "queued" -> "submitted"
      [] status \in {"dispatched", "running"} -> "working"
      [] status = "cancelled" -> "canceled"
      [] OTHER -> status

-----------------------------------------------------------------------------
(* A2aIngress::send, one step per transaction.                             *)

At(h, pc) == hd[h].pc = pc /\ Working
Goes(h, step) == hd' = [hd EXCEPT ![h] = step]
Step(h, pc) == Goes(h, [hd[h] EXCEPT !.pc = pc])
\* An error answer: failure_response; nothing is undone.
Answers(h) == Goes(h, Idle)

\* What the call keeps of the row that reserve_inbound returned.
Kept(row) == [state |-> row.state, task |-> row.task, bytes |-> row.bytes]

\* The row of the key, found or inserted.
reserve_inbound(req) ==
    IF ex[req.key].state # "none" THEN ex[req.key]
    ELSE [NoRow EXCEPT !.state = "reserved", !.hash = req.hash, !.ctx = req.ctx]

\* rpc and prepare_send up to reserve_inbound: authentication, the checks that touch
\* no storage, and the reservation, found or inserted.  Connections are alike, so
\* the first free one takes the request.
Receive(h, w) ==
    LET req == normalize_send(w)
        row == reserve_inbound(req)
        accepted == authorized_request(w) /\ well_formed(w)
    IN /\ At(h, "idle") /\ rt.phase = "up" /\ Call
       /\ \A g \in Handler : g < h => hd[g].pc # "idle"
       /\ ex' = IF accepted THEN [ex EXCEPT ![req.key] = row] ELSE ex
       /\ hd' = IF accepted /\ row.hash = req.hash
                THEN [hd EXCEPT ![h] = [pc |-> "matches", req |-> req, row |-> Kept(row),
                                        winner |-> None, status |-> "none"]]
                ELSE hd
       /\ UNCHANGED <<task, inst, out, far, rt, sock>>

\* message_matches.  Equal hashes mean equal messages, so a stored one matches.
Matches(h) ==
    /\ At(h, "matches")
    /\ IF ex[hd[h].req.key].message THEN Step(h, "identity")
       ELSE IF hd[h].row.bytes = 0 THEN Step(h, "store") ELSE Answers(h)
    /\ UNCHANGED <<ex, task, inst, out, far, rt, sock, spent>>

\* store_message: counted in the row only while the row is still reserved.
StoreMessage(h) ==
    LET key == hd[h].req.key
        row == ex[key]
    IN /\ At(h, "store")
       /\ ex' = [ex EXCEPT ![key].message = TRUE,
                           ![key].bytes = IF ~row.message /\ row.state = "reserved" THEN 1 ELSE @]
       /\ Goes(h, [hd[h] EXCEPT !.pc = "identity",
                                !.row.bytes = IF row.message THEN row.bytes ELSE 1])
       /\ UNCHANGED <<task, inst, out, far, rt, sock, spent>>

\* admitted_task: the receipt of the key, a hash of the peer and the request id.
Receipts(key) == {t \in InTask : task[t].key = key}

\* prepare_identity finds or inserts the peer's agent row and the conversation of
\* req.ctx, which nothing else changes; then admitted_task, and the same receipt
\* once more at the top of submit_inner.
Identity(h) ==
    /\ At(h, "identity")
    /\ Step(h, IF Receipts(hd[h].req.key) = {} THEN "submit" ELSE "bind")
    /\ UNCHANGED <<ex, task, inst, out, far, rt, sock, spent>>

Queued == {t \in Task : task[t].status = "queued" /\ task[t].sent}
HasRoom == Cardinality(Queued) < QueueCapacity
Fresh == CHOOSE t \in InTask : task[t].status = "absent"
NewTask(req, sent) == [status |-> "queued", key |-> req.key, to |-> req.to, ctx |-> req.ctx,
                       text |-> req.text, sent |-> sent]

\* A task under a new id, as long as the bounded set has one.
Inserted(h, sent) ==
    /\ \E t \in InTask : task[t].status = "absent"
    /\ task' = [task EXCEPT ![Fresh] = NewTask(hd[h].req, sent)]

\* Mutant: the transaction does not insert the receipt under a unique key.
AdmitAgain(h, sent) == Inserted(h, sent)

\* admit_task: the task, its queued event and its receipt in one transaction; a
\* receipt that exists by now makes it a replay.  `sent` is false when the
\* connection is gone after the commit and before the channel slot is used.
AdmitTask(h, sent) ==
    IF Receipts(hd[h].req.key) # {} THEN UNCHANGED task ELSE Inserted(h, sent)

\* The rest of submit_inner: the slot, the transaction, the send.
Submit(h) ==
    /\ At(h, "submit") /\ HasRoom
    /\ AdmitTask(h, TRUE)
    /\ Step(h, "bind")
    /\ UNCHANGED <<ex, inst, out, far, rt, sock, spent>>

\* QueueFull: AdmissionBusy, before anything is written, whatever a concurrent
\* call has admitted since this one looked.
SubmitBusy(h) ==
    /\ At(h, "submit") /\ ~HasRoom
    /\ Answers(h)
    /\ UNCHANGED <<ex, task, inst, out, far, rt, sock, spent>>

SubmitDropped(h) ==
    /\ At(h, "submit") /\ HasRoom /\ A2aFault
    /\ AdmitTask(h, FALSE)
    /\ Goes(h, Idle)
    /\ UNCHANGED <<ex, inst, out, far, rt, sock>>

\* The end of admit: the task must be the one this call would have created.
WinnerMatches(h, t) == task[t].to = hd[h].req.to /\ task[t].ctx = hd[h].req.ctx

\* bind_task: only from reserved and unbound, with the bytes the caller believes.
Bound(row, t, bytes) ==
    IF row.state = "reserved" /\ row.task = None
    THEN [row EXCEPT !.task = t, !.ext = TRUE, !.state = "submitted", !.bytes = bytes]
    ELSE row

\* admitted_task again with get_task, whose answers never change, then
\* bind_and_snapshot up to the snapshot.
Bind(h) ==
    LET key == hd[h].req.key
        winner == CHOOSE t \in Receipts(key) : TRUE
        row == IF hd[h].row.state = "submitted" THEN ex[key]
               ELSE Bound(ex[key], winner, hd[h].row.bytes)
        mine == IF hd[h].row.state = "submitted" THEN hd[h].row.task ELSE row.task
    IN /\ At(h, "bind")
       /\ ex' = IF WinnerMatches(h, winner) THEN [ex EXCEPT ![key] = row] ELSE ex
       /\ IF WinnerMatches(h, winner) /\ mine = winner THEN Step(h, "snapshot") ELSE Answers(h)
       /\ UNCHANGED <<task, inst, out, far, rt, sock, spent>>

\* The row is read again, then the task's last event.
Snapshot(h) ==
    /\ At(h, "snapshot")
    /\ Goes(h, [hd[h] EXCEPT !.pc = "answered",
                             !.status = project(task[ex[hd[h].req.key].task].status)])
    /\ UNCHANGED <<ex, task, inst, out, far, rt, sock, spent>>

\* The response is written and the connection is free.
Reply(h) ==
    /\ hd[h].pc = "answered"
    /\ Goes(h, Idle)
    /\ UNCHANGED <<ex, task, inst, out, far, rt, sock, spent>>

\* A storage error at any step, or a client that hangs up: the call ends there.
HandlerGone(h) ==
    /\ hd[h].pc \notin {"idle", "answered"} /\ A2aFault
    /\ Goes(h, Idle)
    /\ UNCHANGED <<ex, task, inst, out, far, rt, sock>>

\* A request that was bound, so that its peer knows the id of the task.
by_external_task(x) == x \notin Local /\ ex[x].ext

\* query with cancel: by_external_task of this peer, then Cancellation::cancel.
\* (Without cancel it only reads.)
TasksCancel(x) ==
    /\ rt.phase = "up" /\ by_external_task(x) /\ Call
    /\ rt' = [rt EXCEPT !.cancel = @ \cup {ex[x].task}]
    /\ UNCHANGED <<ex, task, inst, hd, out, far, sock>>

-----------------------------------------------------------------------------
(* Tasks: the worker for inbound ones, A2aDispatcher for the local ones.   *)

\* Persisted event, then the event stream that feeds the projection.
EndsAs(t, status) ==
    /\ task' = [task EXCEPT ![t].status = status]
    /\ rt' = [rt EXCEPT !.events = IF status \in Terminal THEN @ \cup {t} ELSE @]

\* The worker takes an inbound task from the channel and runs it on its agent.
TaskRuns(t) ==
    /\ Working /\ t \in Queued \cap InTask
    /\ EndsAs(t, "running")
    /\ UNCHANGED <<ex, inst, hd, out, far, sock, spent>>

\* It ends (how, apart from a cancellation, nothing here tells apart); a signal
\* that was registered for it ends it as cancelled.
TaskEnds(t) ==
    /\ Working /\ t \in InTask
    /\ \/ task[t].status = "running" /\ EndsAs(t, "completed")
       \/ task[t].status \in {"queued", "running"} /\ t \in rt.cancel /\ EndsAs(t, "cancelled")
    /\ UNCHANGED <<ex, inst, hd, out, far, sock, spent>>

Dispatch(l, pc) == out' = [out EXCEPT ![l].pc = pc]

\* What deliver makes of the row that reserve_outbound returns.
Reserved(row) ==
    CASE row.state = "none" -> "sending"
      [] row.state # "none" /\ row.ext -> "accepted"
      [] OTHER -> "unknown"

\* The row of the local task, found or inserted.
reserve_outbound(l) ==
    IF ex[l].state # "none" THEN ex[l] ELSE [NoRow EXCEPT !.state = "reserved", !.task = l]

\* deliver up to the request.  The worker calls it again while attempts remain.
Deliver(l) ==
    /\ Working
    /\ \/ /\ task[l].status = "queued" /\ spent.calls + DispatchCost <= Calls
          /\ spent' = [spent EXCEPT !.calls = @ + DispatchCost]
       \/ out[l].pc = "retry" /\ UNCHANGED spent
    /\ task' = [task EXCEPT ![l].status = "dispatched"]
    /\ ex' = [ex EXCEPT ![l] = reserve_outbound(l)]
    /\ LET pc == Reserved(ex[l])
       IN /\ out' = [out EXCEPT ![l].pc = pc, ![l].attempt = @ + 1]
          /\ far' = IF pc = "sending" THEN [far EXCEPT ![l].net = "request"] ELSE far
    /\ UNCHANGED <<inst, hd, rt, sock>>

\* The peer takes the request and answers with the state its task is in by then.
PeerReceives(l) ==
    /\ far[l].net = "request"
    /\ \E state \in {"submitted", "working", "completed", "failed"} :
         far' = [far EXCEPT ![l] = [state |-> state, net |-> state, got |-> @.got + 1]]
    /\ UNCHANGED <<ex, task, inst, hd, out, rt, sock, spent>>

PeerWorks(l) ==
    /\ \/ far[l].state = "submitted" /\ far' = [far EXCEPT ![l].state = "working"]
       \/ /\ far[l].state = "working"
          /\ \E state \in {"completed", "failed"} : far' = [far EXCEPT ![l].state = state]
    /\ UNCHANGED <<ex, task, inst, hd, out, rt, sock, spent>>

\* DispatchError::NotAccepted: another attempt, or the task fails.
NotAccepted(l) ==
    IF out[l].attempt < Attempts
    THEN Dispatch(l, "retry") /\ UNCHANGED <<task, rt>>
    ELSE Dispatch(l, "idle") /\ EndsAs(l, "failed")

acknowledge_outbound(row, state) ==
    IF row.state = "reserved" /\ ~row.ext THEN [row EXCEPT !.state = state, !.ext = TRUE] ELSE row

mark_acceptance_unknown(row) ==
    IF row.state = "reserved" /\ ~row.ext THEN [row EXCEPT !.state = "acceptance_unknown"] ELSE row

\* A response arrives: acknowledge_outbound, whose result deliver ignores.
SendAnswered(l) ==
    /\ Working /\ out[l].pc = "sending" /\ far[l].net \notin {"none", "request"}
    /\ far' = [far EXCEPT ![l].net = "none"]
    /\ IF far[l].net \in {"submitted", "working"}
       THEN /\ ex' = [ex EXCEPT ![l] = acknowledge_outbound(@, far[l].net)]
            /\ Dispatch(l, "accepted") /\ UNCHANGED <<task, rt>>
       ELSE NotAccepted(l) /\ UNCHANGED ex
    /\ UNCHANGED <<inst, hd, sock, spent>>

\* The peer answers 401 and takes nothing.
SendUnauthorized(l) ==
    /\ Working /\ out[l].pc = "sending" /\ far[l].net = "request" /\ A2aFault
    /\ far' = [far EXCEPT ![l].net = "none"]
    /\ NotAccepted(l)
    /\ UNCHANGED <<ex, inst, hd, sock>>

\* Timeout, lost connection or unreadable answer: mark_acceptance_unknown.  The
\* request may still be under way.
SendFails(l) ==
    /\ Working /\ out[l].pc = "sending" /\ A2aFault
    /\ ex' = [ex EXCEPT ![l] = mark_acceptance_unknown(@)]
    /\ Dispatch(l, "unknown")
    /\ UNCHANGED <<task, inst, hd, far, rt, sock>>

\* execute: the binding is read and polling begins.
Execute(l) ==
    /\ Working /\ out[l].pc = "accepted"
    /\ IF ex[l].ext
       THEN Dispatch(l, "polling") /\ EndsAs(l, "running")
       ELSE Dispatch(l, "idle") /\ EndsAs(l, "failed")
    /\ UNCHANGED <<ex, inst, hd, far, sock, spent>>

\* One tasks/get.  Completed stores the artifacts, which can be done once only.
Poll(l) ==
    /\ Working /\ out[l].pc = "polling"
    /\ CASE far[l].state \in {"submitted", "working"} ->
              /\ out' = [out EXCEPT ![l].polls = @ + 1,
                                    ![l].pc = IF out[l].polls + 1 = MaxPolls THEN "unknown" ELSE @]
              /\ UNCHANGED <<ex, task, rt>>
         [] far[l].state = "completed" /\ ~ex[l].artifacts ->
              /\ ex' = [ex EXCEPT ![l].artifacts = TRUE, ![l].bytes = @ + 1]
              /\ Dispatch(l, "done") /\ UNCHANGED <<task, rt>>
         [] OTHER -> Dispatch(l, "idle") /\ EndsAs(l, "failed") /\ UNCHANGED ex
    /\ UNCHANGED <<inst, hd, far, sock, spent>>

\* DispatchOutcome::Completed reaches the worker.
Completes(l) ==
    /\ Working /\ out[l].pc = "done"
    /\ Dispatch(l, "idle") /\ EndsAs(l, "completed")
    /\ UNCHANGED <<ex, inst, hd, far, sock, spent>>

\* A poll fails, or a signal makes the worker drop the dispatch where it stands.
DispatchDropped(l) ==
    /\ Working /\ out[l].pc \in {"sending", "accepted", "polling", "retry"} /\ A2aFault
    /\ Dispatch(l, "idle")
    /\ \E status \in {"failed", "cancelled"} : EndsAs(l, status)
    /\ UNCHANGED <<ex, inst, hd, far, sock>>

-----------------------------------------------------------------------------
(* The ends of tasks in a2a_exchanges, and the removal of their content.   *)

Stamp(row, status) ==
    [row EXCEPT !.state = IF status = "cancelled" THEN "canceled" ELSE status, !.over = "fresh"]

\* project_one_terminal.
Projected(t) ==
    [x \in Exchange |-> IF ex[x].task = t /\ ex[x].over = "no" /\ TaskEnded(t)
                        THEN Stamp(ex[x], task[t].status) ELSE ex[x]]

\* Mutant: the sweep trusts the projection to have seen every end.
ReconcileNothing == ex

\* reconcile_terminals: ends that the projection missed, because the exchange was
\* bound after its task had ended, or because the process died first.
Reconciled ==
    [x \in Exchange |-> IF ex[x].over = "no" /\ TaskEnded(ex[x].task)
                        THEN Stamp(ex[x], task[ex[x].task].status) ELSE ex[x]]

\* A2aTerminalProjection::consume.  A failing consumer loses the event.
Project(t) ==
    /\ Working /\ t \in rt.events
    /\ rt' = [rt EXCEPT !.events = @ \ {t}]
    /\ \/ ex' = Projected(t) /\ UNCHANGED spent
       \/ UNCHANGED ex /\ A2aFault
    /\ UNCHANGED <<task, inst, hd, out, far, sock>>

\* retained_terminal_bytes, over rows that were just reconciled; an exchange has one
\* content, its message or its artifacts, of one byte.
Retained(rows) ==
    Cardinality({x \in Exchange :
        rows[x].over # "no" /\ rows[x].cleanup # "cleaned" /\ rows[x].bytes > 0})

\* The WHERE of claim_cleanup: over for long enough (or at all, under pressure),
\* and unclaimed or claimed by a runtime whose row says stopped.
CleanupClaimable(row, pressure) ==
    /\ row.over \in (IF pressure THEN {"fresh", "old"} ELSE {"old"})
    /\ \/ row.cleanup = "pending"
       \/ row.cleanup = "claimed" /\ inst[row.owner] = "stopped"

\* clean_batch up to the claims: claim_cleanup takes at most a batch, and a runtime
\* that is not active claims nothing.  `done` is where the sweep goes without any.
Claim(pressure, done) ==
    LET now == Reconciled
        rows == {x \in Exchange : CleanupClaimable(now[x], pressure)}
    IN \E claims \in SUBSET rows :
         /\ Cardinality(claims) = IF Cardinality(rows) < Batch THEN Cardinality(rows) ELSE Batch
         /\ LET won == IF inst[rt.epoch] = "active" THEN claims ELSE {}
            IN /\ ex' = [x \in Exchange |->
                           IF x \in won
                           THEN [now[x] EXCEPT !.cleanup = "claimed", !.owner = rt.epoch]
                           ELSE now[x]]
               /\ rt' = [rt EXCEPT !.claims = won, !.sweep = IF won # {} THEN "clean" ELSE done]

\* start_cleanup: sweep while there is more than the low watermark.
StartMeasure ==
    /\ rt.phase = "starting" /\ rt.sweep = "measure"
    /\ IF Retained(Reconciled) > Low THEN Claim(TRUE, "ceiling")
       ELSE ex' = Reconciled /\ rt' = [rt EXCEPT !.sweep = "ceiling"]
    /\ UNCHANGED <<task, inst, hd, out, far, sock, spent>>

\* A tick: over the ceiling the age of the content does not matter.
Tick ==
    /\ rt.phase \in {"up", "stopping"} /\ rt.sweep = "idle"
    /\ Claim(Retained(Reconciled) > Ceiling, "idle")
    /\ UNCHANGED <<task, inst, hd, out, far, sock, spent>>

\* clean_claim: the claim, the runtime and the end of the task are checked again.
Clean(x) ==
    LET valid == /\ ex[x].cleanup = "claimed" /\ ex[x].owner = rt.epoch
                 /\ inst[rt.epoch] = "active" /\ TaskEnded(ex[x].task)
        left == rt.claims \ {x}
    IN /\ Working /\ rt.sweep = "clean" /\ x \in rt.claims
       /\ ex' = IF valid
                THEN [ex EXCEPT ![x] = [@ EXCEPT !.message = FALSE, !.artifacts = FALSE,
                                                 !.cleanup = "cleaned", !.bytes = 0]]
                ELSE ex
       /\ rt' = [rt EXCEPT !.claims = left, !.sweep =
                    IF left # {} THEN "clean"
                    ELSE IF rt.phase = "starting" THEN "measure" ELSE "idle"]
       /\ UNCHANGED <<task, inst, hd, out, far, sock, spent>>

\* The `?` of the loop: one storage error ends the cleanup of this runtime.
CleanupFails ==
    /\ rt.phase \in {"up", "stopping"} /\ rt.sweep \in {"idle", "clean"} /\ A2aFault
    /\ rt' = [rt EXCEPT !.sweep = "off", !.claims = {}]
    /\ UNCHANGED <<ex, task, inst, hd, out, far, sock>>

\* terminal_content_ttl passes.
Ages(x) ==
    /\ ex[x].over = "fresh"
    /\ ex' = [ex EXCEPT ![x].over = "old"]
    /\ UNCHANGED <<task, inst, hd, out, far, rt, sock, spent>>

-----------------------------------------------------------------------------
(* Runtimes.                                                               *)

\* begin_runtime and the recovery of admissions: unfinished work other than
\* queued tasks refuses the start, the queued tasks go into the channel.
Begin ==
    /\ rt.phase = "down" /\ rt.epoch < Epochs
    /\ \A e \in Epoch : inst[e] # "active"
    /\ \A t \in Task : task[t].status \notin {"dispatched", "running"}
    /\ rt' = [phase |-> "starting", epoch |-> rt.epoch + 1, sweep |-> "measure",
              claims |-> {}, events |-> {}, cancel |-> {}, crashed |-> rt.crashed]
    /\ inst' = [inst EXCEPT ![rt.epoch + 1] = "active"]
    /\ task' = [t \in Task |-> IF t \in InTask /\ task[t].status = "queued"
                               THEN [task[t] EXCEPT !.sent = TRUE] ELSE task[t]]
    /\ UNCHANGED <<ex, hd, out, far, sock, spent>>

\* The check after the first sweeps, then A2aServer::bind_unix.
Listen ==
    LET refused == Retained(Reconciled) > Ceiling \/ sock
    IN /\ rt.phase = "starting" /\ rt.sweep = "ceiling"
       /\ ex' = Reconciled
       /\ rt' = [rt EXCEPT !.phase = IF refused THEN "refused" ELSE "up",
                           !.sweep = IF refused THEN "off" ELSE "idle"]
       /\ sock' = (sock \/ ~refused)
       /\ UNCHANGED <<task, inst, hd, out, far, spent>>

\* The process is gone, and what it had in memory.
Gone(crashed) ==
    /\ rt' = [rt EXCEPT !.phase = "down", !.sweep = "off", !.claims = {}, !.events = {},
                        !.cancel = {}, !.crashed = @ \/ crashed]
    /\ hd' = [h \in Handler |-> Idle]
    /\ out' = [l \in Local |-> NoDispatch]

\* A start that fails marks its row stopped.
StartRefused ==
    /\ rt.phase = "refused"
    /\ Gone(FALSE)
    /\ inst' = [inst EXCEPT ![rt.epoch] = "stopped"]
    /\ UNCHANGED <<ex, task, far, sock, spent>>

\* AppRuntime::shutdown: stopping_runtime first; the listener takes no more calls.
Stop ==
    /\ rt.phase = "up"
    /\ rt' = [rt EXCEPT !.phase = "stopping"]
    /\ inst' = [inst EXCEPT ![rt.epoch] = "stopping"]
    /\ UNCHANGED <<ex, task, hd, out, far, sock, spent>>

\* Mutant: the listener leaves its socket behind.
SocketLeft == sock

\* A2aServerHandle::shutdown removes the socket it created.
SocketRemoved == FALSE

\* The server has served its last call, the cleanup is between ticks, and the
\* worker and the event owner have drained, or are given up on.
FinishStop ==
    /\ rt.phase = "stopping" /\ rt.sweep \in {"idle", "off"}
    /\ \A h \in Handler : hd[h].pc = "idle"
    /\ sock' = SocketRemoved
    /\ Gone(FALSE)
    /\ inst' = [inst EXCEPT ![rt.epoch] = "stopped"]
    /\ UNCHANGED <<ex, task, far, spent>>

A2aCrash ==
    /\ Working /\ A2aFault
    /\ Gone(TRUE)
    /\ UNCHANGED <<ex, task, inst, far, sock>>

\* What an operator does before the next start: recover-runtime for the row of a
\* process that died, an offline command for work it left, and the stale socket.
Repair ==
    /\ rt.phase = "down"
    /\ \/ /\ \E e \in Epoch : inst[e] = "active" /\ inst' = [inst EXCEPT ![e] = "stopped"]
          /\ UNCHANGED <<task, sock>>
       \/ /\ \E t \in Task : /\ task[t].status \in {"dispatched", "running"}
                            /\ task' = [task EXCEPT ![t].status = "failed"]
          /\ UNCHANGED <<inst, sock>>
       \/ /\ sock /\ sock' = FALSE
          /\ UNCHANGED <<inst, task>>
    /\ UNCHANGED <<ex, hd, out, far, rt, spent>>

-----------------------------------------------------------------------------
Serve(h) ==
    \/ spent.calls < Calls /\ \E w \in Offered[spent.calls + 1][h] : Receive(h, w)
    \/ Matches(h) \/ StoreMessage(h) \/ Identity(h)
    \/ Submit(h) \/ SubmitBusy(h) \/ SubmitDropped(h)
    \/ Bind(h) \/ Snapshot(h) \/ Reply(h) \/ HandlerGone(h)

Delegate(l) ==
    \/ Deliver(l) \/ SendAnswered(l) \/ SendUnauthorized(l) \/ SendFails(l)
    \/ Execute(l) \/ Poll(l) \/ Completes(l) \/ DispatchDropped(l)
    \/ PeerReceives(l) \/ PeerWorks(l)

Cleanup == StartMeasure \/ Tick \/ \E x \in Exchange : Clean(x)

A2aNext ==
    \/ \E h \in Handler : Serve(h)
    \/ \E x \in Exchange : TasksCancel(x) \/ Ages(x)
    \/ \E t \in InTask : TaskRuns(t) \/ TaskEnds(t)
    \/ \E t \in Task : Project(t)
    \/ \E l \in Local : Delegate(l)
    \/ Cleanup \/ CleanupFails
    \/ Begin \/ Listen \/ StartRefused \/ Stop \/ FinishStop \/ A2aCrash \/ Repair

\* The claim of a runtime that died while it was stopping: nobody may take it over.
Stranded(x) ==
    ex[x].cleanup = "claimed" /\ ex[x].owner # rt.epoch /\ inst[ex[x].owner] = "stopping"

Sweeping == rt.phase = "up" /\ rt.sweep # "off"

\* The content of every exchange whose task has ended is gone, as far as a cleanup
\* is there to remove it.
ContentGone ==
    Sweeping => \A x \in Exchange :
                   TaskEnded(ex[x].task) => ex[x].cleanup = "cleaned" \/ Stranded(x)

\* The cleanup task is scheduled and time passes as long as there is content to
\* remove.  Nothing else is fair: peers, tasks and operators may do nothing for ever.
\* Each step of these is taken finitely often in one runtime, so one condition for
\* all of them is enough.
Upkeep == ~ContentGone /\ (Cleanup \/ \E x \in Exchange : Ages(x))

A2aSpec == A2aInit /\ [][A2aNext]_a2aVars /\ WF_a2aVars(Upkeep)

-----------------------------------------------------------------------------
(* Properties.                                                             *)

\* A request of a peer becomes one task, however often it is sent, over however
\* many connections at once, and across crashes at any step of A2aIngress::send.
OneTaskPerRequest == \A x \in Exchange : Cardinality(Receipts(x)) <= 1

\* A send that is answered with a task is answered with the task that was admitted
\* for this peer, request id, endpoint, context and text, and with a state that
\* task has been in: bind_and_snapshot after a lost race, a replay or a restart.
AnswerNamesItsTask ==
    \A h \in Handler : hd[h].pc = "answered" =>
        LET req == hd[h].req
            t == ex[req.key].task
        IN /\ t \in InTask
           /\ <<task[t].key, task[t].to, task[t].ctx, task[t].text>>
                = <<req.key, req.to, req.ctx, req.text>>
           /\ hd[h].status \in {"completed", "failed", "canceled"}
                => hd[h].status = project(task[t].status)

\* The peer gets one message/send for a local task, whatever the worker makes of
\* timeouts, refusals and lost answers: reserve_outbound in A2aDispatcher::deliver.
PeerAskedOnce == \A l \in Local : far[l].got <= 1

\* In both directions a request becomes one task, and its answer is that task's.
ExchangeOnce == OneTaskPerRequest /\ AnswerNamesItsTask /\ PeerAskedOnce

\* A bridge whose runtimes were all stopped in good order is refused a start by the
\* A2A transport only over content of tasks that ended during that very start,
\* never by its own listener socket or by what earlier sweeps had claimed
\* (start_cleanup and bind_unix).
CleanStopsRestart ==
    rt.phase = "refused" =>
        rt.crashed \/ \E x \in Exchange : ex[x].over # "no" /\ ex[x].cleanup = "pending"
=============================================================================
