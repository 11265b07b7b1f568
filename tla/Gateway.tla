------------------------------- MODULE Gateway -------------------------------
(***************************************************************************)
(* The A2A-over-Matrix gateway (src/src/gateway.rs, app/gateway_handoff.rs): *)
(* the raw consumer that the Matrix sync calls for every gateway event, the  *)
(* admission of a request as a task, its handoff to the worker's channel,    *)
(* the acceptance that is sent back, the cleanup of envelopes, and what a    *)
(* start does with the gateway tasks of an earlier runtime.                  *)
(*                                                                         *)
(* One event is consumed at a time; the consumer's steps are its database    *)
(* transactions, its try_send and its send, so that the worker, a stop or a  *)
(* crash may come between any two of them.                                   *)
(***************************************************************************)
EXTENDS Integers, FiniteSets

CONSTANTS
    GwEvent,        \* raw events: [id, key, task, hash, kind, from, valid]
    AllowedSender,  \* route.allowed_senders
    GwRuntimes,     \* bound on the starts
    GwDeliveries,   \* bound on the events that the homeserver delivers
    GwFaults,       \* bound on storage errors, failed sends and crashes
    GwCapacity,     \* bridge.queue_capacity
    RetainedHigh    \* RETAINED_BYTES_HIGH, every envelope being one byte

ASSUME GatewayAssumption ==
    /\ {GwRuntimes, GwDeliveries, GwFaults, RetainedHigh} \subseteq Nat
    /\ GwCapacity \in Nat \ {0}

VARIABLES
    envs,      \* gateway_envelopes, inbound: the events that were admitted
    reply,     \* gateway_deliveries, outbound: the acceptance of each envelope
    adm,       \* task_admissions of the gateway's tasks
    queue,     \* the channel to the worker
    cons,      \* the raw consumer: the event it works on and how far it is
    room,      \* what the room shows: acceptances, by transaction id
    life,      \* the runtime process and the states of all runtime rows
    tally      \* deliveries and faults so far

gwVars == <<envs, reply, adm, queue, cons, room, life, tally>>

GwTask == {e.task : e \in GwEvent}
Accepted == {e.id : e \in GwEvent}
NoAdm == [state |-> "none", rev |-> 0, owner |-> 0, handed |-> FALSE]
NoReply == [phase |-> "none", attempt |-> 0, rev |-> 0, owner |-> 0]
NoEvent == [pc |-> "idle"]

GatewayInit ==
    /\ envs = {}
    /\ reply = [i \in Accepted |-> NoReply]
    /\ adm = [t \in GwTask |-> NoAdm]
    /\ queue = {}
    /\ cons = NoEvent
    /\ room = [i \in Accepted |-> 0]
    /\ life = [phase |-> "down", now |-> 0, row |-> [r \in 1..GwRuntimes |-> "absent"]]
    /\ tally = [events |-> 0, faults |-> 0]

Alive == life.phase \in {"up", "stopping"}
Active(r) == r > 0 /\ life.row[r] = "active"
Mishap == tally.faults < GwFaults /\ tally' = [tally EXCEPT !.faults = @ + 1]
Consumer(pc) == cons' = [cons EXCEPT !.pc = pc]
\* A MatrixError of the consumer ends the sync owner until the next start.
SyncStops == cons' = [pc |-> "stopped"]

-----------------------------------------------------------------------------
(* Admission.                                                              *)

\* consume and the first checks of admit: another message, the bridge's own event
\* and another room are passed over.
Foreign(e) == e.from = "own" \/ e.kind = "message"

\* validate and decode_event: version, sizes, the shape of the kind, the route.
EnvelopeValid(e) == e.valid

\* admit_raw up to the store.
admit_raw(e) == EnvelopeValid(e) /\ e.from \in AllowedSender /\ e.kind = "request"

\* The homeserver hands an event to the sync, a repeated one included.
GwReceive(e) ==
    /\ life.phase = "up" /\ cons.pc = "idle" /\ tally.events < GwDeliveries
    /\ tally' = [tally EXCEPT !.events = @ + 1]
    /\ IF Foreign(e) THEN UNCHANGED cons
       ELSE IF admit_raw(e) THEN cons' = [pc |-> "admit", event |-> e, rev |-> 0]
       ELSE SyncStops
    /\ UNCHANGED <<envs, reply, adm, queue, room, life>>

\* retained_bytes: envelopes of both directions.
retained_bytes == Cardinality(envs) + Cardinality({i \in Accepted : reply[i].phase # "none"})

\* The envelopes of the same peer, sender and idempotency key.
Existing(e) == {o \in envs : o.key = e.key /\ o.from = e.from}

\* A replay is one whose four siblings are in place: the delivery and the queued
\* event carry the envelope id, the admission is ready or enqueued by this runtime.
SiblingsWhole(e) ==
    /\ \E o \in Existing(e) : o.id = e.id
    /\ adm[e.task].state \in {"ready", "enqueued"} /\ adm[e.task].owner = life.now

\* admit_task_ready.  The primary keys of tasks, events and envelopes refuse an
\* event under another key that names a task or an envelope that exists.
admit_task_ready ==
    LET e == cons.event
        replay == /\ \A o \in Existing(e) : o.task = e.task /\ o.hash = e.hash
                  /\ SiblingsWhole(e)
        fits == /\ adm[e.task].state = "none" /\ \A o \in envs : o.id # e.id
                /\ retained_bytes + 1 < RetainedHigh
    IN /\ Alive /\ cons.pc = "admit"
       /\ IF Active(life.now) /\ Existing(e) # {} /\ replay
          THEN Consumer("ready") /\ UNCHANGED <<envs, adm>>
          ELSE IF Active(life.now) /\ Existing(e) = {} /\ fits
          THEN /\ envs' = envs \cup {e}
               /\ adm' = [adm EXCEPT ![e.task] = [state |-> "ready", rev |-> 0, owner |-> life.now,
                                                  handed |-> FALSE]]
               /\ Consumer("ready")
          ELSE SyncStops /\ UNCHANGED <<envs, adm>>
       /\ UNCHANGED <<reply, queue, room, life, tally>>

-----------------------------------------------------------------------------
(* Handoff.                                                                *)

\* ready_revision: an admission that is not ready (any more) is left alone, and no
\* acceptance is sent for it.
ready_revision ==
    LET row == adm[cons.event.task]
    IN /\ Alive /\ cons.pc = "ready"
       /\ IF row.state = "ready" /\ row.owner = life.now
          THEN cons' = [cons EXCEPT !.pc = "enqueue", !.rev = row.rev]
          ELSE cons' = NoEvent
       /\ UNCHANGED <<envs, reply, adm, queue, room, life, tally>>

\* The WHERE of enqueue_ready.
Enqueues(row, runtime, rev) == row.state = "ready" /\ row.owner = runtime /\ row.rev = rev

enqueue_ready(row) == [row EXCEPT !.state = "enqueued", !.rev = @ + 1]

\* The first half of handoff.
HandoffEnqueue ==
    LET t == cons.event.task
    IN /\ Alive /\ cons.pc = "enqueue"
       /\ IF Enqueues(adm[t], life.now, cons.rev)
          THEN adm' = [adm EXCEPT ![t] = enqueue_ready(@)] /\ Consumer("send")
          ELSE SyncStops /\ UNCHANGED adm
       /\ UNCHANGED <<envs, reply, queue, room, life, tally>>

\* enqueue_persisted: try_send.
HandoffSend ==
    LET t == cons.event.task
    IN /\ Alive /\ cons.pc = "send"
       /\ IF Cardinality(queue) < GwCapacity
          THEN /\ queue' = queue \cup {t}
               /\ adm' = [adm EXCEPT ![t].handed = TRUE]
               /\ Consumer("reserve")
          ELSE Consumer("restore") /\ UNCHANGED <<queue, adm>>
       /\ UNCHANGED <<envs, reply, room, life, tally>>

\* restore_ready, with the revision that enqueue_ready left.
Restored(row, rev) ==
    IF row.state = "enqueued" /\ row.owner = life.now /\ row.rev = rev + 1
    THEN [row EXCEPT !.state = "ready", !.rev = @ + 1] ELSE row

\* Mutant: the request is answered although the channel is full.
HandoffRestoreAccepting ==
    LET t == cons.event.task
    IN /\ Alive /\ cons.pc = "restore"
       /\ adm' = [adm EXCEPT ![t] = Restored(@, cons.rev)]
       /\ Consumer("reserve")
       /\ UNCHANGED <<envs, reply, queue, room, life, tally>>

\* QueueFull: the row is ready again, unless that write fails too, and Backpressure
\* ends the sync.
HandoffRestore ==
    LET t == cons.event.task
    IN /\ Alive /\ cons.pc = "restore"
       /\ \/ adm' = [adm EXCEPT ![t] = Restored(@, cons.rev)] /\ SyncStops /\ UNCHANGED tally
          \/ Mishap /\ cons' = [pc |-> "lost"] /\ UNCHANGED adm
       /\ UNCHANGED <<envs, reply, queue, room, life>>

-----------------------------------------------------------------------------
(* The acceptance; its id and its transaction id follow from the request's.  *)

\* reserve_outbound: inserted for this runtime, or found.
OutboundReserved(row) ==
    IF row.phase # "none" THEN row
    ELSE [phase |-> "pending", attempt |-> 0, rev |-> 0, owner |-> life.now]

begin_outbound_attempt(row) == [row EXCEPT !.attempt = @ + 1, !.rev = @ + 1]
finish_outbound(row, phase) == [row EXCEPT !.phase = phase, !.rev = @ + 1]

ReserveAcceptance ==
    /\ Alive /\ cons.pc = "reserve"
    /\ reply' = [reply EXCEPT ![cons.event.id] = OutboundReserved(@)]
    /\ Consumer("attempt")
    /\ UNCHANGED <<envs, adm, queue, room, life, tally>>

\* The phases after which nothing is left to send.
Settled == {"transport_acked", "task_accepted", "terminal", "recovery_needed"}

\* outbound_state and begin_outbound_attempt; nobody else writes the row, so that
\* the update finds the revision that was read.
BeginAttempt ==
    LET row == reply[cons.event.id]
        due == \/ row.phase = "pending" /\ row.attempt = 0
               \/ row.phase = "send_unknown" /\ row.attempt = 1
    IN /\ Alive /\ cons.pc = "attempt"
       /\ CASE row.owner # life.now -> SyncStops /\ UNCHANGED reply
            [] row.owner = life.now /\ row.phase \in Settled -> cons' = NoEvent /\ UNCHANGED reply
            [] row.owner = life.now /\ row.phase \notin Settled /\ due ->
                 /\ reply' = [reply EXCEPT ![cons.event.id] = begin_outbound_attempt(row)]
                 /\ Consumer("post")
            [] OTHER -> SyncStops /\ UNCHANGED reply
       /\ UNCHANGED <<envs, adm, queue, room, life, tally>>

\* send_gateway: the homeserver takes the event, or an error comes back although it
\* may have been taken.
PostAcceptance ==
    LET i == cons.event.id
    IN /\ Alive /\ cons.pc = "post"
       /\ \/ room' = [room EXCEPT ![i] = @ + 1] /\ Consumer("posted") /\ UNCHANGED tally
          \/ /\ Mishap
             /\ \E n \in {0, 1} : room' = [room EXCEPT ![i] = @ + n]
             /\ Consumer("unposted")
       /\ UNCHANGED <<envs, reply, adm, queue, life>>

\* finish_outbound after the homeserver's answer.
FinishPosted ==
    /\ Alive /\ cons.pc = "posted"
    /\ reply' = [reply EXCEPT ![cons.event.id] = finish_outbound(@, "transport_acked")]
    /\ cons' = NoEvent
    /\ UNCHANGED <<envs, adm, queue, room, life, tally>>

\* finish_outbound after an error: one more attempt, then it is for an operator.
AfterFailure(row) ==
    finish_outbound(row, IF row.attempt = 1 THEN "send_unknown" ELSE "recovery_needed")

FinishUnposted ==
    LET row == AfterFailure(reply[cons.event.id])
    IN /\ Alive /\ cons.pc = "unposted"
       /\ reply' = [reply EXCEPT ![cons.event.id] = row]
       /\ IF row.phase = "send_unknown" THEN Consumer("attempt") ELSE cons' = NoEvent
       /\ UNCHANGED <<envs, adm, queue, room, life, tally>>

\* A storage error at any step ends the sync with the step undone.
ConsumerFails ==
    /\ Alive /\ cons.pc \notin {"idle", "stopped", "lost", "send", "post", "restore"} /\ Mishap
    /\ SyncStops
    /\ UNCHANGED <<envs, reply, adm, queue, room, life>>

-----------------------------------------------------------------------------
(* The worker, the cleanup, and the runtimes.                              *)

\* The worker takes a task from the channel and moves its admission on: dispatching,
\* running, and at the end terminal.
WorkerTakes(t) ==
    /\ Alive /\ t \in queue
    /\ queue' = queue \ {t}
    /\ adm' = [adm EXCEPT ![t].state = "running", ![t].rev = @ + 1]
    /\ UNCHANGED <<envs, reply, cons, room, life, tally>>

WorkerEnds(t) ==
    /\ Alive /\ adm[t].state = "running"
    /\ adm' = [adm EXCEPT ![t].state = "terminal", ![t].rev = @ + 1]
    /\ UNCHANGED <<envs, reply, queue, cons, room, life, tally>>

\* drain_cleanup: envelopes in state terminal or stale for a week, whose task has
\* ended.  Every insert writes state received and nothing ever changes it.
EnvelopeState(e) == "received"
Expired == {e \in envs : EnvelopeState(e) \in {"terminal", "stale"} /\ adm[e.task].state = "terminal"}

GwSweep ==
    /\ Alive
    /\ envs' = envs \ Expired
    /\ UNCHANGED <<reply, adm, queue, cons, room, life, tally>>

\* classify_admissions.
Eligible(t) ==
    \/ adm[t].state = "ready"
    \/ adm[t].state = "enqueued" /\ life.row[adm[t].owner] = "stopped"
Unfinished == {t \in GwTask : adm[t].state \notin {"none", "terminal"}}

\* AppRuntime::start: held by work that is not eligible, refused over the retained
\* bytes; then the eligible tasks are handed off, and the first handoff that fails
\* ends the start.  Each of these processes leaves a stopped row.
GwStart ==
    LET r == life.now + 1
        failed == \/ \E t \in Unfinished : ~Enqueues(adm[t], r, adm[t].rev)
                  \/ Cardinality(Unfinished) > GwCapacity
        Ends(phase) == /\ life' = [life EXCEPT !.now = r, !.row[r] = "stopped", !.phase = phase]
                       /\ UNCHANGED <<adm, queue>>
    IN /\ life.phase = "down" /\ life.now < GwRuntimes
       /\ IF \E t \in Unfinished : ~Eligible(t) THEN Ends("held")
          ELSE IF retained_bytes >= RetainedHigh THEN Ends("refused")
          ELSE IF failed THEN Ends("unhanded")
          ELSE /\ life' = [life EXCEPT !.now = r, !.row[r] = "active", !.phase = "up"]
               /\ adm' = [t \in GwTask |-> IF t \in Unfinished
                                           THEN [enqueue_ready(adm[t]) EXCEPT !.handed = TRUE]
                                           ELSE adm[t]]
               /\ queue' = Unfinished
       /\ UNCHANGED <<envs, reply, cons, room, tally>>

\* The process that failed to start is gone.
GwStartOver ==
    /\ life.phase \in {"held", "refused", "unhanded"}
    /\ life' = [life EXCEPT !.phase = "down"]
    /\ UNCHANGED <<envs, reply, adm, queue, cons, room, tally>>

\* shutdown: the row is stopping before the sync is told.
GwStop ==
    /\ life.phase = "up"
    /\ life' = [life EXCEPT !.phase = "stopping", !.row[life.now] = "stopping"]
    /\ UNCHANGED <<envs, reply, adm, queue, cons, room, tally>>

GwGone(row) ==
    /\ life' = [life EXCEPT !.phase = "down", !.row[life.now] = row]
    /\ queue' = {} /\ cons' = NoEvent

\* The sync is between events, or is dropped at an await after the shutdown timeout.
GwStopped ==
    /\ life.phase = "stopping"
    /\ GwGone("stopped")
    /\ UNCHANGED <<envs, reply, adm, room, tally>>

\* Process death, with recover-runtime before the next start.
GwCrash ==
    /\ Alive /\ Mishap
    /\ GwGone("stopped")
    /\ UNCHANGED <<envs, reply, adm, room>>

GatewayNext ==
    \/ \E e \in GwEvent : GwReceive(e)
    \/ admit_task_ready \/ ready_revision
    \/ HandoffEnqueue \/ HandoffSend \/ HandoffRestore
    \/ ReserveAcceptance \/ BeginAttempt \/ PostAcceptance \/ FinishPosted \/ FinishUnposted
    \/ ConsumerFails
    \/ \E t \in GwTask : WorkerTakes(t) \/ WorkerEnds(t)
    \/ GwSweep \/ GwStart \/ GwStartOver \/ GwStop \/ GwStopped \/ GwCrash

GatewaySpec == GatewayInit /\ [][GatewayNext]_gwVars

-----------------------------------------------------------------------------
(* Properties.                                                             *)

\* The peer is told that its task was accepted only when the worker was given it,
\* and it is asked to take the answer at most twice: repeats, full channels, failed
\* sends and restarts included (admit, send_acceptance).
AcceptedWasHanded ==
    \A e \in envs : room[e.id] > 0 => room[e.id] <= 2 /\ adm[e.task].handed

\* What the table says is enqueued by the runtime that is up is in its channel, once
\* the consumer is not in the middle of a handoff: a full channel leaves no row that
\* nobody will ever take, unless the write that undoes the handoff was lost
\* (restore_ready).
EnqueuedIsInChannel ==
    life.phase = "up" /\ cons.pc \notin {"send", "restore", "lost"} =>
        \A t \in GwTask : adm[t].state = "enqueued" /\ adm[t].owner = life.now => t \in queue

\* Table, channel and peer agree on what was handed over.
HandoffKept == AcceptedWasHanded /\ EnqueuedIsInChannel
=============================================================================
