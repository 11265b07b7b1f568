----------------------------- MODULE MatrixSync -----------------------------
(* How a Matrix event becomes an effect exactly as often as it should.

   The sync owner (src/src/matrix/sync*.rs) asks the homeserver for what
   follows the durable watermark, reserves a receipt for every event of the
   response, hands the event to the ingress (src/src/app/ingress.rs), waits
   for its disposition, and moves the watermark when the whole batch is done
   (src/src/storage/recovery_*.rs).  The startup gate
   (storage/matrix_recovery_compatibility.rs) refuses to run over work an
   earlier process left in doubt, or over the tables of the earlier cutover
   protocol (storage/matrix_cutover*.rs).  Command replies and terminal
   notices leave through the projection outbox (src/src/app/outbox.rs).

   The homeserver's timeline is a growing sequence of events; a token is a
   position in it.  Everything in memory is lost when the process ends.      *)
EXTENDS Naturals, Sequences, FiniteSets, FiniteSetsExt

CONSTANTS
    NEvents,          \* length the timeline may reach
    Timelines,        \* the timelines, as the kinds of their events
    MaxStarts,        \* bound: process starts
    MaxFaults,        \* bound: deaths, expiries, errors
    MaxRevision,      \* bound: revisions of the earlier cutover row
    RetryLimit,       \* transport failures in a row the sync owner tolerates
    DedupCapacity,    \* events EventDedup remembers
    LedgerCapacity,   \* replies CommandLedger remembers
    DrainBatch        \* rows one drain claims

ASSUME SyncAssumption ==
    /\ NEvents \in Nat
    /\ \A t \in Timelines : t \in Seq(STRING) /\ Len(t) = NEvents

Event == 1 .. NEvents
Drains == {"loop", "retry"}

VARIABLES
    server,   \* homeserver: the events so far
    store,    \* recovery tables: control, compatibility, lease, batch, receipts
    legacy,   \* tables of the earlier cutover protocol
    tr,       \* transport_receipts: kind of the row of an event
    outbox,   \* projection_outbox: row of an event
    seen,     \* what became of an event: effects, sends, shown, settled
    proc,     \* the process
    sync,     \* the sync owner
    chan,     \* the event and the disposition between sync owner and ingress
    ing,      \* the ingress
    drain,    \* the two users of drain_once
    mem       \* in-memory tables of the ingress

syncVars == <<server, store, legacy, tr, outbox, seen, proc, sync, chan, ing, drain, mem>>

KindOf(e) == server[e]
Arrived == Len(server)

NoBatch == [to |-> 0, prev |-> 0, expected |-> {}, covered |-> {}, state |-> "none", epoch |-> 0]
SyncOff == [at |-> "off", token |-> 0, todo |-> {}, next |-> 0, failures |-> 0, initial |-> <<>>]
IngOff == [at |-> "off", event |-> 0, verdict |-> "ok"]
Resting == [at |-> "rest", rows |-> {}]
NoMem == [dedup |-> <<>>, ledger |-> <<>>]
NoChan == [event |-> 0, answer |-> "none"]
NoLegacy == [phase |-> "none", base |-> 0, mark |-> 0, revision |-> 0,
             disposition |-> [e \in Event |-> "none"], read |-> <<>>]

SyncInit ==
    /\ server = <<>>
    /\ store = [phase |-> "none", base |-> 0, mark |-> 0, hold |-> FALSE, decision |-> "none",
                digest |-> NoLegacy, epoch |-> 0, live |-> FALSE, batch |-> NoBatch,
                receipt |-> [e \in Event |-> "none"]]
    /\ legacy = NoLegacy
    /\ tr = [e \in Event |-> "none"]
    /\ outbox = [e \in Event |-> [state |-> "none", owner |-> "none"]]
    /\ seen = [effects |-> [e \in Event |-> 0], sends |-> [e \in Event |-> 0],
               shown |-> {}, settled |-> {}]
    /\ proc = [mode |-> "down", enabled |-> FALSE, starts |-> 0, faults |-> 0]
    /\ sync = SyncOff
    /\ chan = NoChan
    /\ ing = IngOff
    /\ drain = [d \in Drains |-> Resting]
    /\ mem = NoMem

Faulty == proc.faults < MaxFaults
Fault == Faulty /\ proc' = [proc EXCEPT !.faults = @ + 1]

\* The homeserver appends an event.
Arrive ==
    /\ Arrived < NEvents
    /\ \E t \in Timelines : server = SubSeq(t, 1, Arrived) /\ server' = SubSeq(t, 1, Arrived + 1)
    /\ UNCHANGED <<store, legacy, tr, outbox, seen, proc, sync, chan, ing, drain, mem>>
-----------------------------------------------------------------------------
(* CutoverStore: the earlier protocol.  Its sync owner belongs to the release
   before the first start of this one; preparing it stays possible while no
   process runs.                                                            *)

LegacyRest == UNCHANGED <<server, store, outbox, seen, proc, sync, chan, ing, drain, mem>>
Earlier == proc.starts = 0 /\ legacy.revision < MaxRevision

prepare ==
    /\ proc.mode = "down" /\ legacy.phase = "none"
    /\ \A e \in Event : tr[e] = "none"
    /\ legacy' = [legacy EXCEPT !.phase = "pending", !.revision = 1]
    /\ UNCHANGED tr /\ LegacyRest

activate ==
    /\ Earlier /\ legacy.phase = "pending"
    /\ legacy' = [legacy EXCEPT !.phase = "active", !.base = Arrived, !.mark = Arrived,
                                !.revision = @ + 1]
    /\ UNCHANGED tr /\ LegacyRest

\* begin_event: a new event is processing; a repeat is complete when its task
\* was admitted, otherwise it needs a person
cutover_begin_event(e) ==
    /\ Earlier /\ legacy.phase = "active"
    /\ e \in legacy.base + 1 .. Arrived
    /\ legacy' = [legacy EXCEPT !.disposition[e] =
                    CASE @ = "none" -> "processing"
                      [] @ = "processing" /\ tr[e] = "ordinary" -> "complete"
                      [] @ = "complete" -> "complete"
                      [] OTHER -> "manual_required"]
    /\ UNCHANGED tr /\ LegacyRest

\* the bus of that release admits the task of an event it is processing
cutover_admit(e) ==
    /\ Earlier /\ legacy.disposition[e] = "processing" /\ tr[e] = "none"
    /\ tr' = [tr EXCEPT ![e] = "ordinary"]
    /\ UNCHANGED legacy /\ LegacyRest

cutover_finish_event(e) ==
    /\ Earlier /\ legacy.disposition[e] = "processing"
    /\ legacy' = [legacy EXCEPT !.disposition[e] = "complete"]
    /\ UNCHANGED tr /\ LegacyRest

cutover_state ==
    /\ Earlier /\ legacy.phase = "active"
    /\ legacy' = [legacy EXCEPT !.read = <<legacy.mark, legacy.revision>>]
    /\ UNCHANGED tr /\ LegacyRest

Incomplete == {e \in Event : legacy.disposition[e] \notin {"none", "complete"}}

\* commit_batch: the caller has begun every event up to the token
commit_batch(to) ==
    /\ Earlier /\ legacy.phase = "active"
    /\ to \in legacy.mark + 1 .. Arrived
    /\ \A e \in legacy.mark + 1 .. to : legacy.disposition[e] # "none"
    /\ Incomplete = {}
    /\ legacy.read = <<legacy.mark, legacy.revision>>
    /\ legacy' = [legacy EXCEPT !.mark = to, !.revision = @ + 1]
    /\ UNCHANGED tr /\ LegacyRest
-----------------------------------------------------------------------------
(* Startup: the compatibility gate and prepare_sync.                        *)

StartRest == UNCHANGED <<server, legacy, tr, outbox, seen, chan, drain, mem>>

start(enabled) ==
    /\ proc.mode = "down" /\ proc.starts < MaxStarts
    /\ proc' = [proc EXCEPT !.mode = "gate", !.enabled = enabled, !.starts = @ + 1]
    /\ UNCHANGED <<store, sync, ing>> /\ StartRest

\* snapshot: rows of the earlier protocol, and Matrix work nothing accounts for
LegacyRows == legacy.phase # "none"
WorkRows == \E e \in Event : tr[e] # "none" \/ outbox[e].state # "none"

\* unresolved_work
Unresolved(st) ==
    \/ \E e \in Event : st.receipt[e] \notin {"none", "dispositioned"}
    \/ st.batch.state \notin {"none", "terminal"}

reconcile_restart(st) == [st EXCEPT !.hold = @ \/ Unresolved(st)]

native_readback(st) == st.phase \in {"baseline", "active"} /\ ~st.hold

\* inspect: what the SDK's store directory looks like
Evidence == {"empty", "nonempty", "indeterminate"}

\* persist_record: a decision and the digest of the rows it was taken over
persist_record(decision) == [store EXCEPT !.decision = decision, !.digest = legacy]

\* create_decision: what is recorded when no decision is
create_decision(enabled, evidence) ==
    LET reason == LegacyRows \/ store.phase # "none" \/ WorkRows \/ evidence # "empty" IN
    CASE reason -> persist_record("held")
      [] ~reason /\ enabled -> [persist_record("native") EXCEPT !.phase = "baseline"]
      [] OTHER -> store

GateNative(st, enabled) ==
    LET after == reconcile_restart(st) IN
    [store |-> after,
     mode |-> IF ~native_readback(after) THEN "held" ELSE IF enabled THEN "prepare" ELSE "plain"]

\* gate: the recorded decision binds the rows it was taken over
gate(evidence) ==
    LET st == IF store.decision = "none" THEN create_decision(proc.enabled, evidence) ELSE store
        to == IF st.decision = "none" THEN [store |-> st, mode |-> "plain"]
              ELSE IF st.decision = "held" \/ st.digest # legacy THEN [store |-> st, mode |-> "held"]
              ELSE GateNative(st, proc.enabled)
    IN
    /\ proc.mode = "gate"
    /\ store' = to.store
    /\ proc' = [proc EXCEPT !.mode = to.mode]
    /\ UNCHANGED <<sync, ing>> /\ StartRest

\* baseline_sync_token, activate_cutover
activate_cutover ==
    /\ proc.mode = "prepare" /\ store.phase = "baseline"
    /\ store' = [store EXCEPT !.phase = "active", !.base = Arrived, !.mark = Arrived]
    /\ UNCHANGED <<proc, sync, ing>> /\ StartRest

StartFails == proc' = [proc EXCEPT !.mode = "down"]

\* acquire_component_lease: the lease of the previous process is in the way
\* until it expires
acquire_component_lease ==
    /\ proc.mode = "prepare" /\ store.phase = "active"
    /\ IF store.live
       THEN StartFails /\ UNCHANGED store
       ELSE /\ store' = [store EXCEPT !.epoch = @ + 1, !.live = TRUE]
            /\ proc' = [proc EXCEPT !.mode = "rebuild"]
    /\ UNCHANGED <<sync, ing>> /\ StartRest

\* refuse_response: the control row is refused for good, under the lease
refuse_response(st) ==
    IF st.live /\ st.phase = "active" THEN [st EXCEPT !.phase = "refused", !.hold = TRUE] ELSE st

\* rebuild_state, and the start of run with its own reconciliation
rebuild_state ==
    /\ proc.mode = "rebuild"
    /\ IF store.live
       THEN \E to \in store.mark .. Arrived :
              /\ sync' = [SyncOff EXCEPT !.at = "idle", !.initial = <<store.mark, to>>]
              /\ ing' = [IngOff EXCEPT !.at = "recv"]
              /\ proc' = [proc EXCEPT !.mode = "run"]
       ELSE StartFails /\ UNCHANGED <<sync, ing>>
    /\ UNCHANGED store /\ StartRest

\* the client, its baseline or its first response fails
start_fails ==
    /\ proc.mode \in {"prepare", "rebuild"}
    /\ Faulty
    /\ proc' = [proc EXCEPT !.mode = "down", !.faults = @ + 1]
    /\ \/ UNCHANGED store
       \/ proc.mode = "rebuild" /\ store' = refuse_response(store)
    /\ UNCHANGED <<sync, ing>> /\ StartRest
-----------------------------------------------------------------------------
(* The sync owner.                                                          *)

Syncing(at) == sync.at = at
SyncRest == UNCHANGED <<server, legacy, tr, outbox, ing, drain, mem>>
Ended == sync' = SyncOff

\* fence_fatal_response
Fenced == store' = refuse_response(store)

\* load: the watermark of an active control row
load == store.phase = "active"
renew_component_lease == store.live

\* sync_with_dispositions: load the watermark, renew the lease
sync_with_dispositions ==
    /\ Syncing("idle")
    /\ IF load /\ renew_component_lease
       THEN sync' = [sync EXCEPT !.at = "fetch", !.token = store.mark]
       ELSE Ended
    /\ UNCHANGED <<store, seen, proc, chan>> /\ SyncRest

\* response_for: the response kept from the start, or a new one, which may
\* repeat an event the sync owner has seen
Responses ==
    IF sync.initial # <<>>
    THEN {[to |-> sync.initial[2], repeat |-> {}]}
    ELSE {[to |-> to, repeat |-> r] : to \in sync.token .. Arrived,
             r \in {{}} \cup {{e} : e \in store.base + 1 .. sync.token}}

\* process_batch, begin_response, begin_batch
begin_response ==
    /\ Syncing("fetch")
    /\ \E r \in Responses :
         LET new == (sync.token + 1 .. r.to) \cup r.repeat IN
         IF store.live /\ store.mark = sync.token
         THEN /\ store' = [store EXCEPT !.batch = [to |-> r.to, prev |-> sync.token, expected |-> new,
                                                   covered |-> {}, state |-> "processing",
                                                   epoch |-> store.epoch]]
              /\ sync' = [sync EXCEPT !.at = "event", !.next = r.to, !.initial = <<>>,
                                      !.todo = new]
         ELSE Ended /\ UNCHANGED store
    /\ UNCHANGED <<seen, proc, chan>> /\ SyncRest

\* run: two transport failures in a row are tried again
transport_failure ==
    /\ Syncing("fetch") /\ sync.initial = <<>> /\ Fault
    /\ IF sync.failures < RetryLimit
       THEN sync' = [sync EXCEPT !.at = "idle", !.failures = @ + 1]
       ELSE Ended
    /\ UNCHANGED <<store, seen, chan>> /\ SyncRest

\* a refused device, a gap in the history, an empty token
fatal_response ==
    /\ Syncing("fetch") /\ Fault
    /\ Fenced /\ Ended
    /\ UNCHANGED <<seen, chan>> /\ SyncRest

\* The events of a batch are taken in the order of the timeline.
Current == Min(sync.todo)
EventDone == [sync EXCEPT !.at = "event", !.todo = @ \ {Current}]

\* Mutant: an event already dispositioned is taken for a new one.
DuplicateNever(e) == FALSE
Duplicate(e) == store.receipt[e] = "dispositioned"
InDoubt(e) == store.receipt[e] \notin {"none", "dispositioned"}

\* reserve_event
reserve_event ==
    LET e == Current
        covered == [store EXCEPT !.batch.covered = @ \cup {e}]
    IN
    /\ Syncing("event") /\ sync.todo # {}
    /\ CASE Duplicate(e) -> store' = covered /\ sync' = EventDone
         [] InDoubt(e) -> Ended /\ UNCHANGED store
         [] OTHER -> /\ store' = [covered EXCEPT !.receipt[e] = "pending"]
                     /\ sync' = [sync EXCEPT !.at = "check"]
    /\ UNCHANGED <<seen, proc, chan>> /\ SyncRest

\* check_decryption and refuse_event: an event no key opens refuses the batch
check_decryption ==
    LET e == Current IN
    /\ Syncing("check")
    /\ IF KindOf(e) # "encrypted"
       THEN sync' = [sync EXCEPT !.at = "start"] /\ UNCHANGED store
       ELSE /\ store' = IF store.live
                        THEN refuse_response([store EXCEPT !.receipt[e] = "refused"])
                        ELSE store
            /\ Ended
    /\ UNCHANGED <<seen, proc, chan>> /\ SyncRest

\* start_event: the pre-effect fence
start_event ==
    LET e == Current IN
    /\ Syncing("start")
    /\ IF store.live /\ store.receipt[e] = "pending"
       THEN store' = [store EXCEPT !.receipt[e] = "processing"] /\ sync' = [sync EXCEPT !.at = "deliver"]
       ELSE Ended /\ UNCHANGED store
    /\ UNCHANGED <<seen, proc, chan>> /\ SyncRest

\* decode_event: what is not a text message of someone else is passed over; a
\* message without its required fields is a protocol error
decode_event(e) == CASE KindOf(e) = "malformed" -> "error"
                     [] KindOf(e) = "ignored" -> "none"
                     [] OTHER -> "event"

deliver ==
    LET e == Current IN
    /\ Syncing("deliver")
    /\ CASE decode_event(e) = "error" -> Fenced /\ Ended /\ UNCHANGED <<seen, chan>>
         [] decode_event(e) = "none" ->
              /\ sync' = [sync EXCEPT !.at = "finish"]
              /\ seen' = [seen EXCEPT !.settled = @ \cup {e}]
              /\ UNCHANGED <<store, chan>>
         [] decode_event(e) = "event" /\ ing.at = "off" -> Ended /\ UNCHANGED <<store, seen, chan>>
         [] OTHER -> /\ chan' = [event |-> e, answer |-> "none"]
                     /\ sync' = [sync EXCEPT !.at = "wait"]
                     /\ UNCHANGED <<store, seen>>
    /\ UNCHANGED proc /\ SyncRest

\* Mutant: the sync owner does not wait for the disposition.
AnsweredAtOnce == TRUE
Answered == chan.answer = "ok"

wait_disposition ==
    /\ Syncing("wait")
    /\ \/ Answered /\ sync' = [sync EXCEPT !.at = "finish"] /\ chan' = [chan EXCEPT !.answer = "none"]
       \/ (chan.answer = "error" \/ (chan.answer = "none" /\ ing.at = "off")) /\ Ended /\ UNCHANGED chan
    /\ UNCHANGED <<store, seen, proc>> /\ SyncRest

finish_event ==
    /\ Syncing("finish")
    /\ IF store.live /\ store.batch.state = "processing"
       THEN store' = [store EXCEPT !.receipt[Current] = "dispositioned"] /\ sync' = EventDone
       ELSE Ended /\ UNCHANGED store
    /\ UNCHANGED <<seen, proc, chan>> /\ SyncRest

\* complete_batch: every expected event covered, every effect terminal, the
\* watermark unmoved
complete_batch ==
    /\ Syncing("event") /\ sync.todo = {}
    /\ IF /\ store.live
          /\ store.batch.expected \subseteq store.batch.covered
          /\ \A e \in store.batch.expected : store.receipt[e] = "dispositioned"
          /\ store.mark = store.batch.prev
       THEN /\ store' = [store EXCEPT !.batch = [NoBatch EXCEPT !.state = "terminal"],
                                      !.mark = sync.next]
            /\ sync' = [SyncOff EXCEPT !.at = "idle"]
       ELSE Ended /\ UNCHANGED store
    /\ UNCHANGED <<seen, proc, chan>> /\ SyncRest
-----------------------------------------------------------------------------
(* The ingress.                                                             *)

IngAt(at) == ing.at = at
IngRest == UNCHANGED <<server, store, legacy, sync>>

\* A bounded table forgets its oldest entry.
Remembers(table, e) == \E i \in DOMAIN table : table[i] = e
Remember(table, e, capacity) ==
    LET all == IF Remembers(table, e) THEN table ELSE Append(table, e) IN
    IF Len(all) > capacity THEN Tail(all) ELSE all

mark(e) == [mem EXCEPT !.dedup = Remember(@, e, DedupCapacity)]
Repeated(e) == Remembers(mem.ledger, e)
commit(e) == [mem EXCEPT !.ledger = Remember(@, e, LedgerCapacity)]

\* parse: the commands, and the retry among them
Command(e) == KindOf(e) \in {"command", "retry"}

\* run: the channel yields an event, or is closed and empty; a requested stop
\* goes first
run_ingress ==
    /\ IngAt("recv")
    /\ \/ /\ proc.mode = "run" /\ chan.event # 0
          /\ ing' = [at |-> IF Command(chan.event) THEN "admin" ELSE "route",
                     event |-> chan.event, verdict |-> "ok"]
          /\ chan' = [chan EXCEPT !.event = 0]
       \/ /\ proc.mode = "stopping" \/ (chan.event = 0 /\ Syncing("off"))
          /\ ing' = IngOff /\ UNCHANGED chan
    /\ UNCHANGED <<tr, outbox, seen, proc, drain, mem>> /\ IngRest

Dispose(verdict) == ing' = [ing EXCEPT !.at = "dispose", !.verdict = verdict]

\* AdminHandler::handle for the commands that act at once.  A storage error
\* before or after the effect releases the reservation and is answered with
\* "temporarily_unavailable".
execute ==
    LET e == ing.event
        effect == [seen EXCEPT !.effects[e] = @ + 1]
    IN
    /\ IngAt("admin") /\ KindOf(e) = "command"
    /\ IF Repeated(e)
       THEN UNCHANGED <<seen, mem, proc>>
       ELSE \/ seen' = effect /\ mem' = commit(e) /\ UNCHANGED proc
            \/ seen' \in {seen, effect} /\ UNCHANGED mem /\ Fault
    /\ ing' = [ing EXCEPT !.at = "reply"]
    /\ UNCHANGED <<tr, outbox, chan, drain>> /\ IngRest

\* DurableRetryAdmission::admit and admit_retry: receipt, task and reply row in
\* one transaction; then a drain of the outbox
admit_retry ==
    LET e == ing.event IN
    /\ IngAt("admin") /\ KindOf(e) = "retry"
    /\ \/ /\ IF tr[e] = "none"
             THEN /\ tr' = [tr EXCEPT ![e] = "retry"]
                  /\ outbox' = [outbox EXCEPT ![e].state = "pending"]
                  /\ seen' = [seen EXCEPT !.effects[e] = @ + 1]
             ELSE UNCHANGED <<tr, outbox, seen>>
          /\ drain' = [drain EXCEPT !["retry"].at = "claim"]
          /\ ing' = [ing EXCEPT !.at = "drain"] /\ UNCHANGED proc
       \/ /\ Fault /\ ing' = [ing EXCEPT !.at = "reply"]
          /\ UNCHANGED <<tr, outbox, seen, drain>>
    /\ UNCHANGED <<chan, mem>> /\ IngRest

handle == execute \/ admit_retry

\* the drain is over: the reply belongs to the outbox
retry_answered ==
    /\ IngAt("drain") /\ drain["retry"].at = "rest"
    /\ mem' = commit(ing.event) /\ Dispose("ok")
    /\ UNCHANGED <<tr, outbox, seen, proc, chan, drain>> /\ IngRest

\* send_reply: its failure does not change the disposition
send_reply ==
    /\ IngAt("reply")
    /\ Dispose("ok")
    /\ UNCHANGED <<tr, outbox, seen, proc, chan, drain, mem>> /\ IngRest

\* winner: the task an earlier delivery of the event was admitted as
winner(e) == tr[e] = "ordinary"

\* select_target and the permission check
select_target(e) == KindOf(e) # "noroute"
permits(e) == KindOf(e) # "forbidden"

Denied == ing' = [ing EXCEPT !.at = "reply"]

\* route_event_durable: the durable winner first, then the in-memory table,
\* then the route, then admission
route_event_durable ==
    LET e == ing.event IN
    /\ IngAt("route")
    /\ IF winner(e) THEN Dispose("ok") /\ mem' = mark(e) /\ UNCHANGED <<tr, seen>>
       ELSE IF Remembers(mem.dedup, e) \/ ~select_target(e) THEN Dispose("ok") /\ UNCHANGED <<tr, seen, mem>>
       ELSE IF ~permits(e) THEN Denied /\ UNCHANGED <<tr, seen, mem>>
       ELSE /\ tr' = [tr EXCEPT ![e] = "ordinary"]
            /\ seen' = [seen EXCEPT !.effects[e] = @ + 1]
            /\ mem' = mark(e) /\ Dispose("ok")
    /\ UNCHANGED <<outbox, proc, chan, drain>> /\ IngRest

\* resolve_conversation or admission fails, or the event sink refuses the
\* queued event after the task was committed
route_fails ==
    LET e == ing.event IN
    /\ IngAt("route") /\ Fault /\ Dispose("error")
    /\ \/ UNCHANGED <<tr, seen>>
       \/ /\ KindOf(e) = "text" /\ tr[e] = "none"
          /\ tr' = [tr EXCEPT ![e] = "ordinary"]
          /\ seen' = [seen EXCEPT !.effects[e] = @ + 1]
    /\ UNCHANGED <<outbox, chan, drain, mem>> /\ IngRest

\* the disposition, if the sync owner still waits
dispose ==
    /\ IngAt("dispose")
    /\ seen' = IF ing.verdict = "ok" THEN [seen EXCEPT !.settled = @ \cup {ing.event}] ELSE seen
    /\ IF Syncing("off")
       THEN ing' = IngOff /\ UNCHANGED chan
       ELSE ing' = [IngOff EXCEPT !.at = "recv"] /\ chan' = [chan EXCEPT !.answer = ing.verdict]
    /\ UNCHANGED <<tr, outbox, proc, drain, mem>> /\ IngRest
-----------------------------------------------------------------------------
(* The projection outbox: drain_once of the loop and of the retry admission. *)

DrainRest == UNCHANGED <<server, store, legacy, tr, sync, chan, ing, mem>>
Rows(state) == {e \in Event : outbox[e].state = state}

\* the worker commits the end of an admitted task with its notice
terminal_notice(e) ==
    /\ proc.mode = "run" /\ tr[e] = "ordinary" /\ outbox[e].state = "none"
    /\ outbox' = [outbox EXCEPT ![e].state = "pending"]
    /\ UNCHANGED <<seen, proc, drain>> /\ DrainRest

start_drain ==
    /\ proc.mode = "run" /\ drain["loop"].at = "rest" /\ Rows("pending") # {}
    /\ drain' = [drain EXCEPT !["loop"].at = "claim"]
    /\ UNCHANGED <<seen, proc, outbox>> /\ DrainRest

Claimable(d) == Rows("pending")

\* claim_projections, one row at a time
claim_projections(d) ==
    LET full == Cardinality(drain[d].rows) = DrainBatch \/ Claimable(d) = {}
        e == Min(Claimable(d))
    IN
    /\ drain[d].at = "claim"
    /\ IF full
       THEN /\ drain' = [drain EXCEPT ![d].at = IF drain[d].rows = {} THEN "rest" ELSE "send"]
            /\ UNCHANGED outbox
       ELSE /\ outbox' = [outbox EXCEPT ![e] = [state |-> "sending", owner |-> d]]
            /\ drain' = [drain EXCEPT ![d].rows = @ \cup {e}]
    /\ UNCHANGED <<seen, proc>> /\ DrainRest

NextRow(d) == Min(drain[d].rows)

\* send_stable
send_stable(d) ==
    LET e == NextRow(d)
        sent == [seen EXCEPT !.sends[e] = @ + 1]
        arrived == [sent EXCEPT !.shown = @ \cup {e}]
    IN
    /\ drain[d].at = "send"
    /\ \/ seen' = arrived /\ drain' = [drain EXCEPT ![d].at = "mark"] /\ UNCHANGED proc
       \/ seen' \in {sent, arrived} /\ drain' = [drain EXCEPT ![d].at = "abandon"] /\ Fault
    /\ UNCHANGED outbox /\ DrainRest

RowDone(d) ==
    LET left == drain[d].rows \ {NextRow(d)} IN
    drain' = [drain EXCEPT ![d] = [at |-> IF left = {} THEN "rest" ELSE "send", rows |-> left]]

Holds(d) == outbox[NextRow(d)] = [state |-> "sending", owner |-> d]

mark_projection_sent(d) ==
    /\ drain[d].at = "mark"
    /\ \/ Holds(d) /\ outbox' = [outbox EXCEPT ![NextRow(d)].state = "sent"] /\ RowDone(d) /\ UNCHANGED proc
       \/ Fault /\ drain' = [drain EXCEPT ![d].at = "abandon"] /\ UNCHANGED outbox
    /\ UNCHANGED seen /\ DrainRest

\* a failure here ends drain_once and leaves the rest of its rows claimed
mark_projection_abandoned(d) ==
    /\ drain[d].at = "abandon"
    /\ \/ Holds(d) /\ outbox' = [outbox EXCEPT ![NextRow(d)].state = "abandoned"] /\ RowDone(d) /\ UNCHANGED proc
       \/ Fault /\ drain' = [drain EXCEPT ![d] = Resting] /\ UNCHANGED outbox
    /\ UNCHANGED seen /\ DrainRest
-----------------------------------------------------------------------------
(* The end of a process.                                                    *)

\* A lease runs out: the renewals stopped, or one came too late.
Expire ==
    /\ store.live
    /\ store' = [store EXCEPT !.live = FALSE]
    /\ IF proc.mode = "down" THEN UNCHANGED proc ELSE Fault
    /\ UNCHANGED <<server, legacy, tr, outbox, seen, sync, chan, ing, drain, mem>>

Down(p) ==
    /\ proc' = p
    /\ sync' = SyncOff /\ chan' = NoChan /\ ing' = IngOff /\ mem' = NoMem
    /\ drain' = [d \in Drains |-> Resting]
    /\ UNCHANGED <<server, store, legacy, tr, outbox, seen>>

Crash ==
    /\ proc.mode # "down" /\ Faulty
    /\ Down([proc EXCEPT !.mode = "down", !.faults = @ + 1])

\* shutdown: the sync owner is dropped wherever it waits
shutdown ==
    /\ proc.mode = "run"
    /\ proc' = [proc EXCEPT !.mode = "stopping"]
    /\ sync' = SyncOff
    /\ UNCHANGED <<server, store, legacy, tr, outbox, seen, chan, ing, drain, mem>>

exit ==
    /\ \/ proc.mode = "stopping" /\ ing.at = "off" /\ \A d \in Drains : drain[d].at = "rest"
       \/ proc.mode \in {"held", "plain"}
    /\ Down([proc EXCEPT !.mode = "down"])
-----------------------------------------------------------------------------
Legacy ==
    \/ prepare
    \/ activate
    \/ cutover_state
    \/ \E e \in Event : cutover_begin_event(e)
    \/ \E e \in Event : cutover_admit(e)
    \/ \E e \in Event : cutover_finish_event(e)
    \/ \E to \in Event : commit_batch(to)

Startup ==
    \/ \E evidence \in Evidence : gate(evidence)
    \/ activate_cutover
    \/ acquire_component_lease
    \/ rebuild_state

SyncStep ==
    \/ sync_with_dispositions
    \/ begin_response
    \/ reserve_event
    \/ check_decryption
    \/ start_event
    \/ deliver
    \/ wait_disposition
    \/ finish_event
    \/ complete_batch

IngressStep ==
    \/ run_ingress
    \/ handle
    \/ retry_answered
    \/ send_reply
    \/ route_event_durable
    \/ dispose

DrainStep(d) ==
    \/ claim_projections(d)
    \/ send_stable(d)
    \/ mark_projection_sent(d)
    \/ mark_projection_abandoned(d)

SyncNext ==
    \/ Arrive
    \/ Legacy
    \/ \E enabled \in BOOLEAN : start(enabled)
    \/ Startup
    \/ start_fails
    \/ SyncStep
    \/ transport_failure
    \/ fatal_response
    \/ IngressStep
    \/ route_fails
    \/ \E e \in Event : terminal_notice(e)
    \/ start_drain
    \/ \E d \in Drains : DrainStep(d)
    \/ Expire
    \/ Crash
    \/ shutdown
    \/ exit

BatchEnded == sync.at \in {"off", "idle"}
DuringBatch(step) == ~BatchEnded /\ step

\* While a batch is at work the runtime polls every task it spawned; the homeserver
\* answers or the request fails.
SyncSpec ==
    /\ SyncInit /\ [][SyncNext]_syncVars
    /\ WF_syncVars(DuringBatch(SyncStep)) /\ WF_syncVars(DuringBatch(IngressStep))
    /\ WF_syncVars(DuringBatch(DrainStep("retry")))
-----------------------------------------------------------------------------
(* Properties.                                                              *)

\* "Queue/permission/reply processing must complete its disposition before the
\* batch can advance" (docs/integrations/UPSTREAM_RECOVERY.md): the watermark
\* is never past an event whose handling did not end in a disposition, whatever
\* died, expired or failed in between; the same holds for the earlier protocol.
WatermarkCovered ==
    /\ store.base + 1 .. store.mark \subseteq seen.settled
    /\ \A e \in legacy.base + 1 .. legacy.mark : legacy.disposition[e] = "complete"

\* In-doubt work is held "rather than being replayed as an unproven new
\* effect": no command runs twice and no event is admitted twice, over any
\* number of restarts.
EffectOnce == \A e \in Event : seen.effects[e] <= 1

\* A notice is handed to the homeserver at most once, although two drains
\* share the outbox and any of them may die, and "sent" is only said of a
\* notice that was shown.
NoticeOnce ==
    \A e \in Event :
        /\ seen.sends[e] <= 1
        /\ outbox[e].state = "sent" => e \in seen.shown

\* What the sync owner and the drains do in the world they do at most once.
AppliedOnce == EffectOnce /\ NoticeOnce

=============================================================================
