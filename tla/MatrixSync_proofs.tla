-------------------------- MODULE MatrixSync_proofs --------------------------
(***************************************************************************)
(* Proofs about MatrixSync for every timeline and every bound.             *)
(***************************************************************************)
EXTENDS MatrixSync, WellFoundedInduction, TLAPS

\* Zenon proves a step that names no other prover.
USE Zenon

BatchRow == [to : Nat, prev : Nat, expected : SUBSET Event, covered : SUBSET Event,
             state : {"none", "processing", "terminal"}, epoch : Nat]
LegacyRow == [phase : {"none", "pending", "active"}, base : Nat, mark : Nat, revision : Nat,
              disposition : [Event -> {"none", "processing", "complete", "manual_required"}],
              read : {<<>>} \cup (Nat \X Nat)]
Phase == {"none", "baseline", "active", "refused"}
Receipt == {"none", "pending", "processing", "dispositioned", "refused"}
StoreRow == [phase : Phase, base : Nat, mark : Nat, hold : BOOLEAN, decision : {"none", "native", "held"},
             digest : LegacyRow, epoch : Nat, live : BOOLEAN, batch : BatchRow, receipt : [Event -> Receipt]]
Quiet == {"off", "idle", "fetch", "event"}
OnEvent == {"check", "start", "deliver", "wait", "finish"}
SyncRow == [at : Quiet \cup OnEvent, token : Nat, todo : SUBSET Event, next : Nat, failures : Nat,
            initial : {<<>>} \cup (Nat \X Nat)]
Free == {"off", "recv"}
Busy == {"admin", "route", "reply", "drain", "dispose"}
IngRow == [at : Free \cup Busy, event : {0} \cup Event, verdict : {"ok", "error"}]
ChanRow == [event : {0} \cup Event, answer : {"none", "ok", "error"}]
DrainRow == [at : {"rest", "claim", "send", "mark", "abandon"}, rows : SUBSET Event]
SeenRow == [effects : [Event -> Nat], sends : [Event -> Nat], shown : SUBSET Event, settled : SUBSET Event]
OutRow == [state : {"none", "pending", "sending", "sent", "abandoned"}, owner : {"none"} \cup Drains]

Up == {"run", "stopping"}
ProcRow == [mode : {"down", "gate", "held", "plain", "prepare", "rebuild"} \cup Up, enabled : BOOLEAN,
            starts : Nat, faults : Nat]

\* The columns and the memory.
SyncTyped ==
    /\ server \in Seq(STRING)
    /\ store \in StoreRow
    /\ legacy \in LegacyRow
    /\ tr \in [Event -> {"none", "ordinary", "retry"}]
    /\ outbox \in [Event -> OutRow]
    /\ seen \in SeenRow
    /\ proc \in ProcRow
    /\ sync \in SyncRow
    /\ chan \in ChanRow
    /\ ing \in IngRow
    /\ drain \in [Drains -> DrainRow]

\* Before the owners are spawned nobody syncs, and nothing is under way.
NothingRuns == proc.mode \notin Up => sync.at = "off" /\ chan = NoChan /\ ing.at = "off"

\* Every position is one the timeline has reached.
Positions ==
    /\ Arrived <= NEvents /\ store.mark <= Arrived /\ legacy.mark <= Arrived
    /\ sync.token <= Arrived /\ sync.next <= Arrived
    /\ sync.initial # <<>> => sync.initial[2] <= Arrived

\* What is dispositioned was settled, and so is what lies before the watermark.
Covered ==
    /\ \A e \in Event : store.receipt[e] = "dispositioned" => e \in seen.settled
    /\ WatermarkCovered

\* The batch at work expects every event up to its token.
BatchExpects ==
    sync.at \in {"event"} \cup OnEvent => store.batch.prev + 1 .. sync.next \subseteq store.batch.expected

\* An event that was started and had no effect yet.
Unapplied(e) == seen.effects[e] = 0 /\ store.receipt[e] \notin {"none", "pending"}

\* The event is with the sync owner, in the channel, with the ingress, or answered.
OneHolder ==
    /\ sync.at \in OnEvent => sync.todo # {}
    /\ chan.event # 0 => ing.at \in Free
    /\ sync.at \notin {"off", "wait"} => chan = NoChan /\ ing.at \in Free
    /\ sync.at = "wait" =>
         \/ chan.event = Current /\ chan.answer = "none"
         \/ chan.event = 0 /\ chan.answer = "none" /\ ing.at \in Busy /\ ing.event = Current
         \/ chan.event = 0 /\ ing.at \in Free /\ (chan.answer = "ok" => Current \in seen.settled)
    /\ sync.at = "finish" => Current \in seen.settled
    /\ ing.at \in Busy => ing.event # 0

\* Whoever holds it before the effect holds an event without one.
EffectsCount ==
    /\ \A e \in Event : /\ seen.effects[e] <= 1
                        /\ store.receipt[e] \in {"none", "pending"} => seen.effects[e] = 0
    /\ sync.at = "deliver" => Unapplied(Current)
    /\ chan.event # 0 => Unapplied(chan.event)
    /\ ing.at \in {"admin", "route"} => Unapplied(ing.event)

\* A drain has the rows it claimed, and the retry drain works only for the ingress.
DrainsOwn ==
    /\ \A d \in Drains :
         /\ \A e \in drain[d].rows : outbox[e] = [state |-> "sending", owner |-> d]
         /\ drain[d].at = "rest" => drain[d].rows = {}
         /\ drain[d].at \in {"send", "mark", "abandon"} => drain[d].rows # {}
    /\ ing.at # "drain" => drain["retry"].at = "rest"
    /\ \A e \in Event : tr[e] = "none" => outbox[e].state = "none"

\* Only the row that a drain is marking has been sent.
SendsCount ==
    /\ \A e \in Event : /\ seen.sends[e] <= 1
                        /\ outbox[e].state \in {"none", "pending"} => seen.sends[e] = 0
                        /\ outbox[e].state = "sent" => e \in seen.shown
    /\ \A d \in Drains :
         /\ \A e \in drain[d].rows :
              seen.sends[e] = 0 \/ (drain[d].at \in {"mark", "abandon"} /\ e = NextRow(d))
         /\ drain[d].at = "mark" => NextRow(d) \in seen.shown

SyncInv ==
    /\ SyncTyped /\ NothingRuns /\ Positions /\ Covered /\ BatchExpects /\ OneHolder /\ EffectsCount
    /\ DrainsOwn /\ SendsCount

-----------------------------------------------------------------------------
(* Least elements.                                                         *)

\* The order of the natural numbers is well founded, so that Min is one of its set.
LEMMA MinIn ==
    ASSUME NEW S \in SUBSET Nat, S # {}
    PROVE  Min(S) \in S
<1>1. IsWellFoundedOn(OpToRel(<, Nat), Nat)
  BY NatLessThanWellFounded
<1>2. PICK x \in S : \A y \in S : ~ (<<y, x>> \in OpToRel(<, Nat))
  BY <1>1, WFMin
<1>3. \A y \in S : x <= y
  <2> SUFFICES ASSUME NEW y \in S, y < x PROVE FALSE
    BY SMT
  <2>1. PICK ss : ss = <<y, x>>
    OBVIOUS
  <2>2. ss \in Nat \X Nat /\ ss[1] < ss[2]
    BY <2>1
  <2>3. ss \in {tt \in Nat \X Nat : tt[1] < tt[2]}
    BY <2>2
  <2> QED
    BY <1>2, <2>1, <2>3 DEF OpToRel
<1> QED
  BY <1>3 DEF Min

\* The event at work is one of the batch's.
LEMMA CurrentIn ==
    ASSUME SyncTyped, sync.todo # {}
    PROVE  Current \in sync.todo /\ Current \in Event
<1>1. sync.todo \in SUBSET Event
  BY DEF SyncTyped, SyncRow
<1>2. sync.todo \in SUBSET Nat
  BY SMT, <1>1, SyncAssumption DEF Event
<1> QED
  BY <1>1, <1>2, MinIn DEF Current

-----------------------------------------------------------------------------
(* Writes to the control row.                                              *)

\* Base, watermark, batch and receipts are as they were.
SameWork(st, old) ==
    st.base = old.base /\ st.mark = old.mark /\ st.batch = old.batch /\ st.receipt = old.receipt

\* The phase and the hold are none of them.
LEMMA PhaseWrites ==
    ASSUME NEW st \in StoreRow, NEW p \in Phase, NEW new, new = [st EXCEPT !.phase = p]
    PROVE  new \in StoreRow /\ SameWork(new, st)
  BY DEF StoreRow, SameWork

\* So for the hold.
LEMMA HoldWrites ==
    ASSUME NEW st \in StoreRow, NEW h \in BOOLEAN, NEW new, new = [st EXCEPT !.hold = h]
    PROVE  new \in StoreRow /\ SameWork(new, st)
  BY DEF StoreRow, SameWork

\* And for the lease.
LEMMA LeaseWrites ==
    ASSUME NEW st \in StoreRow, NEW n \in Nat, NEW l \in BOOLEAN, NEW new,
           new = [st EXCEPT !.epoch = n, !.live = l]
    PROVE  new \in StoreRow /\ SameWork(new, st)
  BY DEF StoreRow, SameWork

\* Two such writes are one.
LEMMA SameWorkTrans ==
    ASSUME NEW a, NEW b, NEW c, SameWork(a, b), SameWork(b, c)
    PROVE  SameWork(a, c)
  BY DEF SameWork

\* refuse_response is such a write.
LEMMA RefuseWrites ==
    ASSUME NEW st \in StoreRow, NEW new, new = refuse_response(st)
    PROVE  new \in StoreRow /\ SameWork(new, st)
<1>1. PICK mid : mid = [st EXCEPT !.phase = "refused"]
  OBVIOUS
<1>2. mid \in StoreRow /\ SameWork(mid, st)
  BY <1>1, PhaseWrites DEF Phase
<1>3. PICK last : last = [mid EXCEPT !.hold = TRUE]
  OBVIOUS
<1>4. last \in StoreRow /\ SameWork(last, mid)
  BY <1>2, <1>3, HoldWrites
<1>5. new = last \/ new = st
  BY <1>1, <1>3 DEF refuse_response
<1> QED
  BY <1>2, <1>4, <1>5 DEF SameWork

\* Neither does the gate change them, whatever it finds.
LEMMA GateWrites ==
    ASSUME SyncTyped, NEW ev \in Evidence, gate(ev)
    PROVE  store' \in StoreRow /\ SameWork(store', store)
<1>1. store \in StoreRow /\ legacy \in LegacyRow /\ SameWork(store, store)
  BY DEF SyncTyped, SameWork
<1>2. ASSUME NEW x \in {"native", "held"}, NEW new, new = persist_record(x)
      PROVE  new \in StoreRow /\ SameWork(new, store)
  BY <1>1, <1>2 DEF persist_record, StoreRow, SameWork
<1>3. PICK st : st = IF store.decision = "none" THEN create_decision(proc.enabled, ev) ELSE store
  OBVIOUS
<1>4. st \in StoreRow /\ SameWork(st, store)
  <2>1. PICK held : held = persist_record("held")
    OBVIOUS
  <2>2. PICK nat : nat = persist_record("native")
    OBVIOUS
  <2>3. nat \in StoreRow /\ SameWork(nat, store) /\ held \in StoreRow /\ SameWork(held, store)
    BY <1>2, <2>1, <2>2
  <2>4. PICK base : base = [nat EXCEPT !.phase = "baseline"]
    OBVIOUS
  <2>5. base \in StoreRow /\ SameWork(base, nat)
    BY <2>3, <2>4, PhaseWrites DEF Phase
  <2>6. st = held \/ st = base \/ st = store
    BY <1>3, <2>1, <2>2, <2>4 DEF create_decision
  <2> QED
    BY <1>1, <2>3, <2>5, <2>6, SameWorkTrans
<1>5. PICK after : after = reconcile_restart(st)
  OBVIOUS
<1>6. after \in StoreRow /\ SameWork(after, st)
  <2>1. (st.hold \/ Unresolved(st)) \in BOOLEAN
    BY <1>4 DEF Unresolved, StoreRow
  <2>2. after = [st EXCEPT !.hold = (st.hold \/ Unresolved(st))]
    BY <1>5 DEF reconcile_restart
  <2> QED
    BY <1>4, <2>1, <2>2, HoldWrites
<1>7. store' = st \/ store' = after
  BY <1>3, <1>5 DEF gate, GateNative
<1> QED
  BY SMT, <1>4, <1>6, <1>7, SameWorkTrans

\* One receipt is written.
LEMMA ReceiptWrites ==
    ASSUME NEW st \in StoreRow, NEW e \in Event, NEW s \in Receipt, NEW new, new = [st EXCEPT !.receipt[e] = s]
    PROVE  /\ new \in StoreRow /\ new.base = st.base /\ new.mark = st.mark /\ new.batch = st.batch
           /\ new.receipt[e] = s /\ \A f \in Event : f # e => new.receipt[f] = st.receipt[f]
<1>1. PICK rs : rs = [st.receipt EXCEPT ![e] = s]
  OBVIOUS
<1>2. rs \in [Event -> Receipt] /\ rs[e] = s /\ \A f \in Event : f # e => rs[f] = st.receipt[f]
  BY <1>1 DEF StoreRow
<1>3. new = [st EXCEPT !.receipt = rs]
  BY <1>1
<1> QED
  BY <1>2, <1>3 DEF StoreRow

-----------------------------------------------------------------------------
(* Frames.                                                                 *)

\* Receipts only move on, and what was applied stays counted.
Advances ==
    /\ seen'.effects = seen.effects
    /\ \A e \in Event : store'.receipt[e] \in {"none", "pending"} => store.receipt[e] \in {"none", "pending"}

\* Whoever holds an event before its effect held it before, or took it from one who did.
LEMMA EffectFrame ==
    ASSUME EffectsCount, Advances,
           sync'.at = "deliver" => Unapplied(Current)',
           chan'.event # 0 => chan'.event \in Event /\ Unapplied(chan'.event),
           ing'.at \in {"admin", "route"} => ing'.event \in Event /\ Unapplied(ing'.event)
    PROVE  EffectsCount'
  BY DEF EffectsCount, Advances, Unapplied

\* The watermark stays, and what is settled stays settled.
LEMMA CoveredFrame ==
    ASSUME Covered, seen.settled \subseteq seen'.settled, store'.base = store.base, store'.mark = store.mark,
           legacy' = legacy,
           \A e \in Event : store'.receipt[e] = "dispositioned" =>
                              store.receipt[e] = "dispositioned" \/ e \in seen'.settled
    PROVE  Covered'
  BY DEF Covered, WatermarkCovered

\* A batch that goes on expects what it expected.
LEMMA BatchFrame ==
    ASSUME BatchExpects, store'.batch.prev = store.batch.prev, store'.batch.expected = store.batch.expected,
           sync'.at \in {"event"} \cup OnEvent => sync.at \in {"event"} \cup OnEvent /\ sync'.next = sync.next
    PROVE  BatchExpects'
  BY DEF BatchExpects

\* Nobody drains.
LEMMA OutFrame ==
    ASSUME DrainsOwn, SendsCount, UNCHANGED <<outbox, drain>>, seen'.sends = seen.sends, seen'.shown = seen.shown,
           ing'.at # "drain" => ing.at # "drain", \A e \in Event : tr'[e] = "none" => tr[e] = "none"
    PROVE  DrainsOwn' /\ SendsCount'
  BY SMT DEF DrainsOwn, SendsCount, NextRow

\* The positions stay within the timeline.
LEMMA PositionsFrame ==
    ASSUME Positions, UNCHANGED <<server, legacy>>, store'.mark = store.mark, sync'.token <= Arrived,
           sync'.next <= Arrived, sync'.initial # <<>> => sync'.initial[2] <= Arrived
    PROVE  Positions'
  BY DEF Positions, Arrived

-----------------------------------------------------------------------------
(* The homeserver, the earlier protocol and the start.                     *)

\* A fault is counted, and a process that is told its mode keeps the rest.
LEMMA ProcWrites ==
    ASSUME proc \in ProcRow, Fault \/ UNCHANGED proc
    PROVE  proc' \in ProcRow /\ proc'.mode = proc.mode
  BY SMT DEF Fault, Faulty, ProcRow

\* Steps that change neither the receipts nor what is under way.
LEMMA WorkFrame ==
    ASSUME SyncInv, SyncTyped', SameWork(store', store), NothingRuns',
           Arrived <= Arrived', Arrived' <= NEvents,
           UNCHANGED <<legacy, tr, outbox, seen, sync, chan, ing, drain>>
    PROVE  SyncInv'
<1>0. /\ SyncTyped /\ Positions /\ Covered /\ BatchExpects /\ OneHolder /\ EffectsCount
      /\ DrainsOwn /\ SendsCount
  BY DEF SyncInv
<1>1. /\ store'.base = store.base /\ store'.mark = store.mark /\ store'.batch = store.batch
      /\ store'.receipt = store.receipt
  BY DEF SameWork
<1>2. Positions'
  <2>1. /\ Arrived \in Nat /\ Arrived' \in Nat /\ store.mark \in Nat /\ legacy.mark \in Nat /\ sync.token \in Nat
        /\ sync.next \in Nat /\ (sync.initial # <<>> => sync.initial[2] \in Nat)
    <3>1. server \in Seq(STRING) /\ server' \in Seq(STRING) /\ store \in StoreRow /\ legacy \in LegacyRow /\ sync \in SyncRow
      BY <1>0 DEF SyncTyped
    <3>2. Arrived \in Nat /\ Arrived' \in Nat
      BY SMT, <3>1 DEF Arrived
    <3>3. store.mark \in Nat /\ legacy.mark \in Nat
      BY <3>1 DEF StoreRow, LegacyRow
    <3>4. sync.token \in Nat /\ sync.next \in Nat /\ (sync.initial # <<>> => sync.initial[2] \in Nat)
      BY <3>1 DEF SyncRow
    <3> QED
      BY <3>2, <3>3, <3>4
  <2> QED
    BY SMT, <1>0, <1>1, <2>1 DEF Positions
<1>3. Covered' /\ BatchExpects'
  BY <1>0, <1>1, CoveredFrame, BatchFrame
<1>4. OneHolder'
  BY <1>0 DEF OneHolder, Current
<1>5. EffectsCount'
  BY <1>0, <1>1 DEF EffectsCount, Unapplied, Current
<1>6. DrainsOwn' /\ SendsCount'
  BY <1>0, OutFrame
<1> QED
  BY <1>2, <1>3, <1>4, <1>5, <1>6 DEF SyncInv

\* A new event.
LEMMA ArriveStep ==
    ASSUME SyncInv, Arrive
    PROVE  SyncInv'
<1>0. /\ SyncTyped /\ NothingRuns /\ Arrived < NEvents
      /\ UNCHANGED <<store, legacy, tr, outbox, seen, proc, sync, chan, ing, drain>>
  BY DEF SyncInv, Arrive
<1>1. PICK t \in Timelines : server' = SubSeq(t, 1, Arrived + 1)
  BY DEF Arrive
<1>2. t \in Seq(STRING) /\ Len(t) = NEvents /\ NEvents \in Nat /\ server \in Seq(STRING)
  BY <1>0, SyncAssumption DEF SyncTyped
<1>3. server' \in Seq(STRING) /\ Len(server') = Len(server) + 1
  BY SMT, <1>0, <1>1, <1>2 DEF Arrived
<1>4. SyncTyped' /\ NothingRuns' /\ SameWork(store', store)
  BY <1>0, <1>3 DEF SyncTyped, NothingRuns, SameWork
<1>5. Arrived <= Arrived' /\ Arrived' <= NEvents
  BY SMT, <1>0, <1>2, <1>3 DEF Arrived
<1> QED
  BY <1>0, <1>4, <1>5, WorkFrame

\* Steps that change only the tables of the earlier protocol.
LEMMA LegacyFrame ==
    ASSUME SyncInv, LegacyRest, legacy' \in LegacyRow,
           tr' \in [Event -> {"none", "ordinary", "retry"}], \A e \in Event : tr'[e] = "none" => tr[e] = "none",
           legacy'.mark <= Arrived,
           \A e \in legacy'.base + 1 .. legacy'.mark : legacy'.disposition[e] = "complete"
    PROVE  SyncInv'
<1>0. /\ SyncTyped /\ NothingRuns /\ Positions /\ Covered /\ BatchExpects /\ OneHolder /\ EffectsCount
      /\ DrainsOwn /\ SendsCount /\ UNCHANGED <<server, store, outbox, seen, proc, sync, chan, ing, drain>>
  BY DEF SyncInv, LegacyRest
<1>1. SyncTyped' /\ NothingRuns'
  BY <1>0 DEF SyncTyped, NothingRuns
<1>2. Positions' /\ Covered' /\ BatchExpects'
  BY <1>0 DEF Positions, Arrived, Covered, WatermarkCovered, BatchExpects
<1>3. OneHolder' /\ EffectsCount'
  BY ZenonT(60), <1>0 DEF OneHolder, EffectsCount, Unapplied, Current
<1>4. DrainsOwn' /\ SendsCount'
  BY <1>0, OutFrame
<1> QED
  BY <1>1, <1>2, <1>3, <1>4 DEF SyncInv

\* The earlier protocol: what it completed stays complete, and its watermark passes
\* only over what is complete.
LEMMA LegacySteps ==
    ASSUME SyncInv, Legacy
    PROVE  SyncInv'
<1>0. /\ legacy \in LegacyRow /\ tr \in [Event -> {"none", "ordinary", "retry"}] /\ legacy.mark <= Arrived
      /\ Arrived \in Nat /\ Arrived <= NEvents /\ NEvents \in Nat
      /\ \A e \in legacy.base + 1 .. legacy.mark : legacy.disposition[e] = "complete"
  BY SMT, SyncAssumption DEF SyncInv, SyncTyped, Positions, Covered, WatermarkCovered, Arrived
<1>1. ASSUME prepare PROVE SyncInv'
  <2>1. LegacyRest /\ tr' = tr /\ legacy' = [legacy EXCEPT !.phase = "pending", !.revision = 1]
    BY <1>1 DEF prepare
  <2>2. legacy' \in LegacyRow /\ legacy'.base = legacy.base /\ legacy'.mark = legacy.mark /\ legacy'.disposition = legacy.disposition
    BY <1>0, <2>1 DEF LegacyRow
  <2> QED
    BY <1>0, <2>1, <2>2, LegacyFrame
<1>2. ASSUME activate PROVE SyncInv'
  <2>1. LegacyRest /\ tr' = tr
        /\ legacy' = [legacy EXCEPT !.phase = "active", !.base = Arrived, !.mark = Arrived, !.revision = @ + 1]
    BY <1>2 DEF activate
  <2>2. legacy' \in LegacyRow /\ legacy'.base = Arrived /\ legacy'.mark = Arrived
    <3>1. legacy' = [phase |-> "active", base |-> Arrived, mark |-> Arrived, revision |-> legacy.revision + 1,
                     disposition |-> legacy.disposition, read |-> legacy.read]
      BY <1>0, <2>1 DEF LegacyRow
    <3> QED
      BY SMT, <1>0, <3>1 DEF LegacyRow
  <2> QED
    BY SMT, <1>0, <2>1, <2>2, LegacyFrame
<1>3. ASSUME cutover_state PROVE SyncInv'
  <2>1. LegacyRest /\ tr' = tr /\ legacy' = [legacy EXCEPT !.read = <<legacy.mark, legacy.revision>>]
    BY <1>3 DEF cutover_state
  <2>2. legacy' \in LegacyRow /\ legacy'.base = legacy.base /\ legacy'.mark = legacy.mark /\ legacy'.disposition = legacy.disposition
    BY <1>0, <2>1 DEF LegacyRow
  <2> QED
    BY <1>0, <2>1, <2>2, LegacyFrame
<1>4. ASSUME NEW e \in Event, NEW s \in {"none", "processing", "complete", "manual_required"},
             legacy' = [legacy EXCEPT !.disposition[e] = s], legacy.disposition[e] = "complete" => s = "complete",
             LegacyRest, tr' = tr
      PROVE  SyncInv'
  <2>1. PICK ds : ds = [legacy.disposition EXCEPT ![e] = s]
    OBVIOUS
  <2>2. /\ ds \in [Event -> {"none", "processing", "complete", "manual_required"}] /\ ds[e] = s
        /\ \A f \in Event : f # e => ds[f] = legacy.disposition[f]
    BY <1>0, <2>1 DEF LegacyRow
  <2>3. legacy' = [legacy EXCEPT !.disposition = ds]
    BY <1>4, <2>1
  <2>4. legacy' \in LegacyRow /\ legacy'.base = legacy.base /\ legacy'.mark = legacy.mark /\ legacy'.disposition = ds
    BY <1>0, <2>2, <2>3 DEF LegacyRow
  <2>5. \A f \in legacy.base + 1 .. legacy.mark : f \in Event
    BY SMT, <1>0 DEF Event, LegacyRow
  <2> QED
    BY <1>0, <1>4, <2>2, <2>4, <2>5, LegacyFrame
<1>5. ASSUME NEW e \in Event, cutover_begin_event(e) PROVE SyncInv'
  <2>1. PICK s : s = CASE legacy.disposition[e] = "none" -> "processing"
                      [] legacy.disposition[e] = "processing" /\ tr[e] = "ordinary" -> "complete"
                      [] legacy.disposition[e] = "complete" -> "complete"
                      [] OTHER -> "manual_required"
    OBVIOUS
  <2>2. s \in {"none", "processing", "complete", "manual_required"} /\ (legacy.disposition[e] = "complete" => s = "complete")
    BY <2>1
  <2>3. legacy' = [legacy EXCEPT !.disposition[e] = s] /\ LegacyRest /\ tr' = tr
    BY <1>5, <2>1 DEF cutover_begin_event
  <2> QED
    BY <1>4, <2>2, <2>3
<1>6. ASSUME NEW e \in Event, cutover_finish_event(e) PROVE SyncInv'
  BY <1>4, <1>6 DEF cutover_finish_event
<1>7. ASSUME NEW e \in Event, cutover_admit(e) PROVE SyncInv'
  <2>1. LegacyRest /\ legacy' = legacy /\ tr' = [tr EXCEPT ![e] = "ordinary"]
    BY <1>7 DEF cutover_admit
  <2>2. tr' \in [Event -> {"none", "ordinary", "retry"}] /\ \A f \in Event : tr'[f] = "none" => tr[f] = "none"
    BY <1>0, <2>1
  <2> QED
    BY <1>0, <2>1, <2>2, LegacyFrame
<1>8. ASSUME NEW to \in Event, commit_batch(to) PROVE SyncInv'
  <2>1. /\ LegacyRest /\ tr' = tr /\ to \in legacy.mark + 1 .. Arrived /\ Incomplete = {}
        /\ \A e \in legacy.mark + 1 .. to : legacy.disposition[e] # "none"
        /\ legacy' = [legacy EXCEPT !.mark = to, !.revision = @ + 1]
    BY <1>8 DEF commit_batch
  <2>2. /\ legacy' \in LegacyRow /\ legacy'.base = legacy.base /\ legacy'.mark = to /\ to \in Nat
        /\ legacy'.disposition = legacy.disposition /\ legacy.base \in Nat /\ legacy.mark \in Nat
    <3>1. to \in Nat
      BY SMT, <1>0 DEF Event
    <3>2. legacy' = [phase |-> legacy.phase, base |-> legacy.base, mark |-> to, revision |-> legacy.revision + 1,
                     disposition |-> legacy.disposition, read |-> legacy.read]
      BY <1>0, <2>1 DEF LegacyRow
    <3> QED
      BY SMT, <1>0, <3>1, <3>2 DEF LegacyRow
  <2>3. \A e \in legacy.base + 1 .. to : legacy.disposition[e] = "complete"
    <3> SUFFICES ASSUME NEW e \in legacy.base + 1 .. to, e > legacy.mark PROVE legacy.disposition[e] = "complete"
      BY SMT, <1>0, <2>2
    <3>1. e \in Event /\ e \in legacy.mark + 1 .. to
      BY SMT, <1>0, <2>1, <2>2 DEF Event
    <3> QED
      BY <2>1, <3>1 DEF Incomplete
  <2> QED
    BY SMT, <1>0, <2>1, <2>2, <2>3, LegacyFrame
<1> QED
  BY <1>1, <1>2, <1>3, <1>5, <1>6, <1>7, <1>8 DEF Legacy

\* The start up to the owners: the gate, the lease, and a start that fails.
LEMMA StartSteps ==
    ASSUME SyncInv,
           \/ \E b \in BOOLEAN : start(b)
           \/ \E ev \in Evidence : gate(ev)
           \/ acquire_component_lease \/ start_fails \/ Expire
    PROVE  SyncInv'
<1>0. /\ SyncTyped /\ NothingRuns /\ Positions /\ store \in StoreRow /\ proc \in ProcRow /\ Arrived \in Nat
      /\ UNCHANGED <<server, legacy, tr, outbox, seen, sync, chan, ing, drain>>
  <2>1. UNCHANGED <<server, legacy, tr, outbox, seen, sync, chan, ing, drain>>
    BY DEF start, gate, acquire_component_lease, start_fails, Expire, StartRest
  <2> QED
    BY SMT, <2>1 DEF SyncInv, SyncTyped, Arrived
<1>1. ASSUME store' \in StoreRow, SameWork(store', store), proc' \in ProcRow,
             proc'.mode = proc.mode \/ proc.mode \notin Up
      PROVE  SyncInv'
  <2>1. SyncTyped'
    BY <1>0, <1>1 DEF SyncTyped
  <2>2. NothingRuns'
    BY <1>0, <1>1 DEF NothingRuns
  <2>3. Arrived' = Arrived /\ Arrived <= Arrived /\ Arrived <= NEvents
    BY SMT, <1>0 DEF Arrived, Positions
  <2> QED
    BY <1>0, <1>1, <2>1, <2>2, <2>3, WorkFrame
<1>2. SameWork(store, store)
  BY DEF SameWork
<1>3. ASSUME NEW b \in BOOLEAN, start(b) PROVE SyncInv'
  <2>1. store' = store /\ proc.mode = "down" /\ proc' = [proc EXCEPT !.mode = "gate", !.enabled = b, !.starts = @ + 1]
    BY <1>3 DEF start
  <2>2. proc' \in ProcRow
    <3>1. proc' = [mode |-> "gate", enabled |-> b, starts |-> proc.starts + 1, faults |-> proc.faults]
      BY <1>0, <2>1 DEF ProcRow
    <3> QED
      BY SMT, <1>0, <3>1 DEF ProcRow
  <2> QED
    BY <1>0, <1>1, <1>2, <2>1, <2>2 DEF Up
<1>4. ASSUME NEW ev \in Evidence, gate(ev) PROVE SyncInv'
  <2>1. store' \in StoreRow /\ SameWork(store', store)
    BY <1>0, <1>4, GateWrites
  <2>2. proc.mode = "gate" /\ \E m \in {"plain", "held", "prepare"} : proc' = [proc EXCEPT !.mode = m]
    BY <1>4 DEF gate, GateNative
  <2>3. proc' \in ProcRow
    BY <1>0, <2>2 DEF ProcRow
  <2> QED
    BY <1>1, <2>1, <2>2, <2>3 DEF Up
<1>5. ASSUME acquire_component_lease PROVE SyncInv'
  <2>1. proc.mode = "prepare" /\ \E m \in {"down", "rebuild"} : proc' = [proc EXCEPT !.mode = m]
    BY <1>5 DEF acquire_component_lease, StartFails
  <2>2. store' = store \/ store' = [store EXCEPT !.epoch = @ + 1, !.live = TRUE]
    BY <1>5 DEF acquire_component_lease
  <2>3. store.epoch + 1 \in Nat
    BY SMT, <1>0 DEF StoreRow
  <2>4. store' \in StoreRow /\ SameWork(store', store)
    BY <1>0, <1>2, <2>2, <2>3, LeaseWrites
  <2>5. proc' \in ProcRow
    BY <1>0, <2>1 DEF ProcRow
  <2> QED
    BY <1>1, <2>1, <2>4, <2>5 DEF Up
<1>6. ASSUME start_fails PROVE SyncInv'
  <2>1. proc.mode \in {"prepare", "rebuild"} /\ proc' = [proc EXCEPT !.mode = "down", !.faults = @ + 1]
    BY <1>6 DEF start_fails
  <2>2. store' = store \/ store' = refuse_response(store)
    BY <1>6 DEF start_fails
  <2>3. store' \in StoreRow /\ SameWork(store', store)
    BY <1>0, <1>2, <2>2, RefuseWrites
  <2>4. proc' \in ProcRow
    <3>1. proc' = [mode |-> "down", enabled |-> proc.enabled, starts |-> proc.starts, faults |-> proc.faults + 1]
      BY <1>0, <2>1 DEF ProcRow
    <3> QED
      BY SMT, <1>0, <3>1 DEF ProcRow
  <2> QED
    BY <1>1, <2>1, <2>3, <2>4 DEF Up
<1>7. ASSUME Expire PROVE SyncInv'
  <2>1. store' = [store EXCEPT !.live = FALSE] /\ (Fault \/ UNCHANGED proc)
    BY <1>7 DEF Expire
  <2>2. store' \in StoreRow /\ SameWork(store', store)
    BY <1>0, <2>1 DEF StoreRow, SameWork
  <2> QED
    BY <1>0, <1>1, <2>1, <2>2, ProcWrites
<1> QED
  BY <1>3, <1>4, <1>5, <1>6, <1>7

\* activate_cutover: the watermark starts where the timeline is, before any event.
LEMMA ActivateStep ==
    ASSUME SyncInv, activate_cutover
    PROVE  SyncInv'
<1>0. /\ SyncTyped /\ NothingRuns /\ Positions /\ Covered /\ BatchExpects /\ OneHolder /\ EffectsCount
      /\ DrainsOwn /\ SendsCount /\ store \in StoreRow /\ Arrived \in Nat
      /\ UNCHANGED <<server, legacy, tr, outbox, seen, proc, sync, chan, ing, drain>>
  BY SMT DEF SyncInv, SyncTyped, Arrived, activate_cutover, StartRest
<1>1. store' = [store EXCEPT !.phase = "active", !.base = Arrived, !.mark = Arrived]
  BY DEF activate_cutover
<1>2. /\ store' \in StoreRow /\ store'.base = Arrived /\ store'.mark = Arrived
      /\ store'.batch = store.batch /\ store'.receipt = store.receipt
  BY <1>0, <1>1 DEF StoreRow, Phase
<1>3. SyncTyped' /\ NothingRuns'
  BY <1>0, <1>2 DEF SyncTyped, NothingRuns
<1>4. Positions'
  BY SMT, <1>0, <1>2 DEF Positions, Arrived
<1>5. Covered'
  BY SMT, <1>0, <1>2 DEF Covered, WatermarkCovered
<1>6. BatchExpects' /\ OneHolder'
  BY <1>0, <1>2 DEF BatchExpects, OneHolder, Current
<1>7. EffectsCount'
  BY <1>0, <1>2 DEF EffectsCount, Unapplied, Current
<1>8. DrainsOwn' /\ SendsCount'
  BY <1>0, OutFrame
<1> QED
  BY <1>3, <1>4, <1>5, <1>6, <1>7, <1>8 DEF SyncInv

\* rebuild_state: the owners are spawned over an empty channel.
LEMMA RebuildStep ==
    ASSUME SyncInv, rebuild_state
    PROVE  SyncInv'
<1>0. /\ SyncTyped /\ NothingRuns /\ Positions /\ Covered /\ BatchExpects /\ OneHolder /\ EffectsCount
      /\ DrainsOwn /\ SendsCount /\ store \in StoreRow /\ proc \in ProcRow /\ Arrived \in Nat /\ proc.mode = "rebuild"
      /\ UNCHANGED <<server, store, legacy, tr, outbox, seen, chan, drain>>
  <2>1. proc.mode = "rebuild" /\ UNCHANGED <<server, store, legacy, tr, outbox, seen, chan, drain>>
    BY DEF rebuild_state, StartRest
  <2> QED
    BY SMT, <2>1 DEF SyncInv, SyncTyped, Arrived
<1>1. sync.at = "off" /\ chan = NoChan /\ ing.at = "off"
  BY <1>0 DEF NothingRuns, Up
<1>2. CASE StartFails /\ UNCHANGED <<sync, ing>>
  <2>1. proc' \in ProcRow
    BY <1>0, <1>2 DEF StartFails, ProcRow
  <2>2. SyncTyped' /\ NothingRuns' /\ SameWork(store', store)
    BY <1>0, <1>1, <1>2, <2>1 DEF SyncTyped, NothingRuns, SameWork
  <2>3. Arrived' = Arrived /\ Arrived <= Arrived /\ Arrived <= NEvents
    BY SMT, <1>0 DEF Arrived, Positions
  <2> QED
    BY <1>0, <1>2, <2>2, <2>3, WorkFrame
<1>3. CASE \E to \in store.mark .. Arrived :
              /\ sync' = [SyncOff EXCEPT !.at = "idle", !.initial = <<store.mark, to>>]
              /\ ing' = [IngOff EXCEPT !.at = "recv"]
              /\ proc' = [proc EXCEPT !.mode = "run"]
  <2>1. PICK to \in store.mark .. Arrived : /\ sync' = [SyncOff EXCEPT !.at = "idle", !.initial = <<store.mark, to>>]
                                            /\ ing' = [IngOff EXCEPT !.at = "recv"]
                                            /\ proc' = [proc EXCEPT !.mode = "run"]
    BY <1>3
  <2>2. store.mark \in Nat /\ to \in Nat /\ to <= Arrived
    BY SMT, <1>0, <2>1 DEF StoreRow
  <2>3. sync' = [at |-> "idle", token |-> 0, todo |-> {}, next |-> 0, failures |-> 0, initial |-> <<store.mark, to>>]
    BY <2>1 DEF SyncOff
  <2>4. sync' \in SyncRow
    BY <2>2, <2>3 DEF SyncRow, Quiet
  <2>5. ing' \in IngRow /\ ing'.at = "recv"
    BY <2>1 DEF IngOff, IngRow, Free
  <2>6. proc' \in ProcRow /\ proc'.mode = "run"
    BY <1>0, <2>1 DEF ProcRow, Up
  <2>7. SyncTyped' /\ NothingRuns'
    BY <1>0, <2>4, <2>5, <2>6 DEF SyncTyped, NothingRuns, Up
  <2>8. Positions'
    BY SMT, <1>0, <2>2, <2>3, PositionsFrame
  <2>9. Covered' /\ BatchExpects'
    BY <1>0, <2>3, CoveredFrame, BatchFrame DEF OnEvent
  <2>10. OneHolder'
    BY <1>0, <1>1, <2>3, <2>5 DEF OneHolder, OnEvent, Free, Busy, NoChan
  <2>11. EffectsCount'
    BY <1>0, <1>1, <2>3, <2>5, EffectFrame DEF Advances, NoChan
  <2>12. DrainsOwn' /\ SendsCount'
    BY <1>0, <1>1, OutFrame
  <2> QED
    BY <2>7, <2>8, <2>9, <2>10, <2>11, <2>12 DEF SyncInv
<1> QED
  BY <1>2, <1>3 DEF rebuild_state

-----------------------------------------------------------------------------
(* The sync owner.                                                         *)

\* What every step of the sync owner leaves alone.
LEMMA SyncFrame ==
    ASSUME SyncInv, SyncRest, sync.at # "off", Fault \/ UNCHANGED proc,
           store' \in StoreRow, sync' \in SyncRow, chan' \in ChanRow, seen' \in SeenRow,
           seen'.sends = seen.sends, seen'.shown = seen.shown,
           Positions', Covered', BatchExpects', OneHolder', EffectsCount'
    PROVE  SyncInv'
<1>0. /\ SyncTyped /\ NothingRuns /\ DrainsOwn /\ SendsCount /\ proc \in ProcRow
      /\ UNCHANGED <<server, legacy, tr, outbox, ing, drain>>
  BY DEF SyncInv, SyncTyped, SyncRest
<1>1. proc' \in ProcRow /\ proc'.mode = proc.mode
  BY <1>0, ProcWrites
<1>2. SyncTyped'
  BY <1>0, <1>1 DEF SyncTyped
<1>3. NothingRuns'
  BY <1>0, <1>1 DEF NothingRuns
<1>4. DrainsOwn' /\ SendsCount'
  BY <1>0, OutFrame
<1> QED
  BY <1>2, <1>3, <1>4 DEF SyncInv

\* The sync owner gives up, after a write that covers or refuses at most.
LEMMA SyncEnds ==
    ASSUME SyncInv, SyncRest, sync.at # "off", Fault \/ UNCHANGED proc, Ended, UNCHANGED <<seen, chan>>,
           store' \in StoreRow, store'.base = store.base, store'.mark = store.mark,
           \A e \in Event : store'.receipt[e] = store.receipt[e] \/ store'.receipt[e] = "refused"
    PROVE  SyncInv'
<1>0. /\ SyncTyped /\ Positions /\ Covered /\ BatchExpects /\ OneHolder /\ EffectsCount
      /\ chan \in ChanRow /\ seen \in SeenRow /\ ing \in IngRow /\ Arrived \in Nat /\ UNCHANGED <<server, legacy, ing>>
  BY SMT DEF SyncInv, SyncTyped, SyncRest, Arrived
<1>1. sync' = [at |-> "off", token |-> 0, todo |-> {}, next |-> 0, failures |-> 0, initial |-> <<>>]
  BY DEF Ended, SyncOff
<1>2. sync' \in SyncRow /\ sync'.at = "off"
  BY <1>1 DEF SyncRow, Quiet
<1>3. Positions'
  BY SMT, <1>0, <1>1, PositionsFrame
<1>4. Covered'
  BY <1>0, CoveredFrame
<1>5. BatchExpects'
  BY <1>2 DEF BatchExpects, OnEvent
<1>6. OneHolder'
  BY <1>0, <1>2 DEF OneHolder, OnEvent
<1>7. chan.event # 0 => chan.event \in Event
  BY <1>0 DEF ChanRow
<1>8. ing.at \in {"admin", "route"} => ing.event \in Event
  BY <1>0 DEF IngRow, OneHolder, Busy
<1>9. EffectsCount'
  <2>1. Advances
    BY DEF Advances
  <2> QED
    BY <1>0, <1>2, <1>7, <1>8, <2>1, EffectFrame DEF EffectsCount
<1> QED
  BY <1>0, <1>2, <1>3, <1>4, <1>5, <1>6, <1>9, SyncFrame

\* The sync owner moves on with its batch, its event and its positions, and writes
\* no more than receipts that move on.
LEMMA SyncMoves ==
    ASSUME SyncInv, SyncRest, sync.at \notin {"off", "wait"}, chan' = chan, Fault \/ UNCHANGED proc,
           store' \in StoreRow, store'.base = store.base, store'.mark = store.mark,
           store'.batch.prev = store.batch.prev, store'.batch.expected = store.batch.expected,
           seen' \in SeenRow, seen'.sends = seen.sends, seen'.shown = seen.shown, Advances,
           seen.settled \subseteq seen'.settled,
           \A e \in Event : store'.receipt[e] = "dispositioned" =>
                              store.receipt[e] = "dispositioned" \/ e \in seen'.settled,
           sync' \in SyncRow, sync'.token <= Arrived, sync'.next <= Arrived,
           sync'.initial # <<>> => sync'.initial[2] <= Arrived,
           sync'.at \in {"event"} \cup OnEvent => sync.at \in {"event"} \cup OnEvent /\ sync'.next = sync.next,
           sync'.at \notin {"off", "wait"},
           sync'.at \in OnEvent => sync'.todo # {},
           sync'.at = "deliver" => Unapplied(Current)',
           sync'.at = "finish" => (Current \in seen.settled)'
    PROVE  SyncInv'
<1>0. /\ SyncTyped /\ Positions /\ Covered /\ BatchExpects /\ OneHolder /\ EffectsCount
      /\ chan \in ChanRow /\ UNCHANGED <<server, legacy, ing>>
  BY DEF SyncInv, SyncTyped, SyncRest
<1>1. chan = NoChan /\ ing.at \in Free
  BY <1>0 DEF OneHolder
<1>2. Positions'
  BY <1>0, PositionsFrame
<1>3. Covered' /\ BatchExpects'
  BY <1>0, CoveredFrame, BatchFrame
<1>4. OneHolder'
  BY <1>0, <1>1 DEF OneHolder, NoChan, Free, Busy
<1>5. EffectsCount'
  BY <1>0, <1>1, EffectFrame DEF NoChan, Free
<1> QED
  BY <1>0, <1>2, <1>3, <1>4, <1>5, SyncFrame

\* The watermark is loaded, a request fails, a response is refused.
LEMMA FetchSteps ==
    ASSUME SyncInv, sync_with_dispositions \/ transport_failure \/ fatal_response
    PROVE  SyncInv'
<1>0. /\ SyncTyped /\ Positions /\ store \in StoreRow /\ sync \in SyncRow /\ seen \in SeenRow /\ Arrived \in Nat
      /\ SyncRest /\ sync.at \in {"idle", "fetch"} /\ UNCHANGED <<seen, chan>>
  <2>1. SyncRest /\ sync.at \in {"idle", "fetch"} /\ UNCHANGED <<seen, chan>>
    BY DEF sync_with_dispositions, transport_failure, fatal_response, Syncing
  <2> QED
    BY SMT, <2>1 DEF SyncInv, SyncTyped, Arrived
<1>1. SameWork(store, store)
  BY DEF SameWork
<1>2. CASE fatal_response
  <2>1. Ended /\ Fault /\ store' = refuse_response(store)
    BY <1>2 DEF fatal_response, Fenced
  <2>2. store' \in StoreRow /\ SameWork(store', store)
    BY <1>0, <2>1, RefuseWrites
  <2> QED
    BY <1>0, <2>1, <2>2, SyncEnds DEF SameWork
<1>3. CASE Ended /\ store' = store /\ (Fault \/ UNCHANGED proc)
  BY <1>0, <1>3, SyncEnds
<1>4. CASE sync_with_dispositions /\ sync' = [sync EXCEPT !.at = "fetch", !.token = store.mark]
  <2>1. store.mark \in Nat /\ store.mark <= Arrived
    BY <1>0 DEF StoreRow, Positions
  <2>2. sync' \in SyncRow /\ sync'.at = "fetch" /\ sync'.token = store.mark /\ sync'.next = sync.next /\ sync'.initial = sync.initial
    BY <1>0, <1>4, <2>1 DEF SyncRow, Quiet
  <2>3. store' = store /\ proc' = proc
    BY SMT, <1>4 DEF sync_with_dispositions
  <2> QED
    BY <1>0, <2>1, <2>2, <2>3, SyncMoves DEF OnEvent, Advances, Positions
<1>5. CASE transport_failure /\ sync' = [sync EXCEPT !.at = "idle", !.failures = @ + 1]
  <2>1. sync' \in SyncRow /\ sync'.at = "idle" /\ sync'.token = sync.token /\ sync'.next = sync.next /\ sync'.initial = sync.initial
    <3>1. sync' = [at |-> "idle", token |-> sync.token, todo |-> sync.todo, next |-> sync.next,
                   failures |-> sync.failures + 1, initial |-> sync.initial]
      BY <1>0, <1>5 DEF SyncRow
    <3> QED
      BY SMT, <1>0, <3>1 DEF SyncRow, Quiet
  <2>2. store' = store /\ Fault
    BY <1>5 DEF transport_failure
  <2> QED
    BY <1>0, <2>1, <2>2, SyncMoves DEF OnEvent, Advances, Positions
<1> QED
  BY <1>2, <1>3, <1>4, <1>5 DEF sync_with_dispositions, transport_failure

\* A response reaches no further than the timeline, and repeats only what the sync
\* owner has seen.
LEMMA ResponseWithin ==
    ASSUME SyncInv, NEW r \in Responses
    PROVE  r.to \in Nat /\ r.to <= Arrived /\ (sync.token + 1 .. r.to) \cup r.repeat \subseteq Event
<1>0. /\ sync.token \in Nat /\ store.base \in Nat /\ Arrived \in Nat /\ NEvents \in Nat /\ Arrived <= NEvents
      /\ sync.token <= Arrived /\ sync.initial \in {<<>>} \cup (Nat \X Nat)
      /\ (sync.initial # <<>> => sync.initial[2] <= Arrived)
  <2>1. server \in Seq(STRING) /\ store \in StoreRow /\ sync \in SyncRow
    BY DEF SyncInv, SyncTyped
  <2>2. Arrived \in Nat /\ NEvents \in Nat
    BY SMT, <2>1, SyncAssumption DEF Arrived
  <2>3. sync.token \in Nat /\ store.base \in Nat /\ sync.initial \in {<<>>} \cup (Nat \X Nat)
    BY <2>1 DEF StoreRow, SyncRow
  <2> QED
    BY <2>2, <2>3 DEF SyncInv, Positions
<1>1. CASE sync.initial # <<>>
  <2>1. r = [to |-> sync.initial[2], repeat |-> {}]
    BY SMT, <1>1 DEF Responses
  <2>2. sync.initial[2] \in Nat
    BY <1>0, <1>1
  <2> QED
    BY SMT, <1>0, <1>1, <2>1, <2>2 DEF Event
<1>2. CASE sync.initial = <<>>
  <2>1. PICK to \in sync.token .. Arrived, rep \in {{}} \cup {{e} : e \in store.base + 1 .. sync.token} :
          r = [to |-> to, repeat |-> rep]
    BY SMT, <1>2 DEF Responses
  <2>2. to \in Nat /\ to <= Arrived
    BY SMT, <1>0, <2>1
  <2>3. rep \subseteq Event
    BY SMT, <1>0, <2>1 DEF Event
  <2>4. sync.token + 1 .. to \subseteq Event
    BY SMT, <1>0, <2>2 DEF Event
  <2>5. r.to = to /\ r.repeat = rep
    BY <2>1
  <2> QED
    BY <2>2, <2>3, <2>4, <2>5
<1> QED
  BY <1>1, <1>2

\* begin_batch: what the response brings is what the batch expects.
LEMMA BeginStep ==
    ASSUME SyncInv, begin_response
    PROVE  SyncInv'
<1>0. /\ SyncTyped /\ Positions /\ Covered /\ OneHolder /\ EffectsCount /\ store \in StoreRow /\ sync \in SyncRow
      /\ seen \in SeenRow /\ chan \in ChanRow /\ sync.at = "fetch" /\ SyncRest /\ UNCHANGED <<seen, proc, chan>>
  <2>1. sync.at = "fetch" /\ SyncRest /\ UNCHANGED <<seen, proc, chan>>
    BY DEF begin_response, Syncing
  <2> QED
    BY <2>1 DEF SyncInv, SyncTyped
<1>1. PICK r \in Responses :
        LET new == (sync.token + 1 .. r.to) \cup r.repeat IN
        IF store.live /\ store.mark = sync.token
        THEN /\ store' = [store EXCEPT !.batch = [to |-> r.to, prev |-> sync.token, expected |-> new,
                                                  covered |-> {}, state |-> "processing",
                                                  epoch |-> store.epoch]]
             /\ sync' = [sync EXCEPT !.at = "event", !.next = r.to, !.initial = <<>>, !.todo = new]
        ELSE Ended /\ UNCHANGED store
  BY DEF begin_response
<1>2. PICK new : new = (sync.token + 1 .. r.to) \cup r.repeat
  OBVIOUS
<1>3. r.to \in Nat /\ r.to <= Arrived /\ new \subseteq Event
  BY <1>2, ResponseWithin
<1>4. CASE Ended /\ UNCHANGED store
  BY <1>0, <1>4, SyncEnds
<1>5. CASE /\ store' = [store EXCEPT !.batch = [to |-> r.to, prev |-> sync.token, expected |-> new,
                                               covered |-> {}, state |-> "processing", epoch |-> store.epoch]]
           /\ sync' = [sync EXCEPT !.at = "event", !.next = r.to, !.initial = <<>>, !.todo = new]
  <2>1. PICK b : b = [to |-> r.to, prev |-> sync.token, expected |-> new, covered |-> {}, state |-> "processing",
                      epoch |-> store.epoch]
    OBVIOUS
  <2>2. b \in BatchRow /\ b.prev = sync.token /\ b.expected = new
    <3>1. sync.token \in Nat /\ store.epoch \in Nat
      BY <1>0 DEF SyncRow, StoreRow
    <3> QED
      BY <1>3, <2>1, <3>1 DEF BatchRow
  <2>3. store' = [store EXCEPT !.batch = b]
    BY <1>5, <2>1
  <2>4. /\ store' \in StoreRow /\ store'.base = store.base /\ store'.mark = store.mark /\ store'.receipt = store.receipt
        /\ store'.batch = b
    BY <1>0, <2>2, <2>3 DEF StoreRow
  <2>5. sync' = [at |-> "event", token |-> sync.token, todo |-> new, next |-> r.to, failures |-> sync.failures,
                 initial |-> <<>>]
    BY <1>0, <1>5 DEF SyncRow
  <2>6. sync' \in SyncRow
    BY <1>0, <1>3, <2>5 DEF SyncRow, Quiet
  <2>7. Positions'
    BY <1>0, <1>3, <2>4, <2>5, PositionsFrame DEF SyncRest, Positions
  <2>8. Covered'
    BY <1>0, <2>4, CoveredFrame DEF SyncRest
  <2>9. BatchExpects'
    <3>1. sync.token + 1 .. r.to \subseteq new
      BY <1>2
    <3> QED
      BY <2>2, <2>4, <2>5, <3>1 DEF BatchExpects
  <2>10. OneHolder'
    BY <1>0, <2>5 DEF OneHolder, OnEvent, SyncRest, NoChan, Free, Busy
  <2>11. EffectsCount'
    <3>1. chan' = NoChan /\ ing' = ing /\ ing.at \in Free
      BY <1>0 DEF OneHolder, SyncRest
    <3> QED
      BY SMT, <1>0, <2>4, <2>5, <3>1, EffectFrame DEF Advances, NoChan, Free
  <2> QED
    BY <1>0, <2>4, <2>6, <2>7, <2>8, <2>9, <2>10, <2>11, SyncFrame
<1> QED
  BY <1>1, <1>2, <1>4, <1>5

\* The stage of the sync owner changes, and its event with it.
LEMMA StageWrites ==
    ASSUME sync \in SyncRow, NEW a \in Quiet \cup OnEvent, NEW t \in SUBSET Event,
           sync' = [sync EXCEPT !.at = a, !.todo = t]
    PROVE  /\ sync' \in SyncRow /\ sync'.at = a /\ sync'.todo = t /\ sync'.token = sync.token
           /\ sync'.next = sync.next /\ sync'.initial = sync.initial
<1>1. sync' = [at |-> a, token |-> sync.token, todo |-> t, next |-> sync.next, failures |-> sync.failures,
               initial |-> sync.initial]
  BY DEF SyncRow
<1> QED
  BY <1>1 DEF SyncRow

\* The same with the events left alone.
LEMMA StageMoves ==
    ASSUME sync \in SyncRow, NEW a \in Quiet \cup OnEvent, sync' = [sync EXCEPT !.at = a]
    PROVE  /\ sync' \in SyncRow /\ sync'.at = a /\ sync'.todo = sync.todo /\ sync'.token = sync.token
           /\ sync'.next = sync.next /\ sync'.initial = sync.initial
  BY DEF SyncRow

\* reserve_event, check_decryption, start_event: the receipt is pending before the
\* effect is possible, and processing when it is.
LEMMA ReserveSteps ==
    ASSUME SyncInv, reserve_event \/ check_decryption \/ start_event
    PROVE  SyncInv'
<1>0. /\ SyncTyped /\ Positions /\ EffectsCount /\ OneHolder /\ store \in StoreRow /\ sync \in SyncRow
      /\ seen \in SeenRow /\ sync.at \in {"event", "check", "start"} /\ sync.todo # {} /\ SyncRest
      /\ UNCHANGED <<seen, proc, chan>>
  <2>1. /\ sync.at \in {"event", "check", "start"} /\ SyncRest /\ UNCHANGED <<seen, proc, chan>>
        /\ sync.at = "event" => sync.todo # {}
    BY DEF reserve_event, check_decryption, start_event, Syncing
  <2> QED
    BY <2>1 DEF SyncInv, SyncTyped, OneHolder, OnEvent
<1>1. PICK e : e = Current
  OBVIOUS
<1>2. e \in sync.todo /\ e \in Event
  BY <1>0, <1>1, CurrentIn
<1>3. PICK cov : cov = [store EXCEPT !.batch.covered = @ \cup {e}]
  OBVIOUS
<1>4. /\ cov \in StoreRow /\ cov.base = store.base /\ cov.mark = store.mark /\ cov.receipt = store.receipt
      /\ cov.batch.prev = store.batch.prev /\ cov.batch.expected = store.batch.expected
  <2>1. store \in StoreRow /\ e \in Event
    BY <1>0, <1>2
  <2>2. PICK b : b = [store.batch EXCEPT !.covered = @ \cup {e}]
    OBVIOUS
  <2>3. store.batch \in BatchRow
    BY <2>1 DEF StoreRow
  <2>4. b \in BatchRow /\ b.prev = store.batch.prev /\ b.expected = store.batch.expected
    BY <2>1, <2>2, <2>3 DEF BatchRow
  <2>5. cov = [store EXCEPT !.batch = b]
    BY <1>3, <2>2
  <2> QED
    BY <2>1, <2>4, <2>5 DEF StoreRow
<1>5. sync.token <= Arrived /\ sync.next <= Arrived /\ (sync.initial # <<>> => sync.initial[2] <= Arrived)
  BY <1>0 DEF Positions
<1>6. CASE Ended /\ UNCHANGED store
  BY <1>0, <1>6, SyncEnds
<1>7. CASE store' = cov /\ sync' = EventDone /\ sync.at = "event"
  <2>1. sync' = [sync EXCEPT !.at = "event", !.todo = sync.todo \ {e}]
    BY <1>1, <1>7 DEF EventDone
  <2>2. sync.todo \ {e} \in SUBSET Event
    BY <1>0 DEF SyncRow
  <2>3. /\ sync' \in SyncRow /\ sync'.at = "event" /\ sync'.token = sync.token
        /\ sync'.next = sync.next /\ sync'.initial = sync.initial
    BY <1>0, <2>1, <2>2, StageWrites DEF Quiet
  <2> QED
    BY <1>0, <1>4, <1>5, <1>7, <2>3, SyncMoves DEF OnEvent, Advances
<1>8. ASSUME NEW a \in {"check", "start", "deliver"}, NEW s \in {"pending", "processing"}, NEW old \in {"none", "pending"},
             NEW st \in StoreRow,
             st.base = store.base, st.mark = store.mark, st.receipt = store.receipt,
             st.batch.prev = store.batch.prev, st.batch.expected = store.batch.expected,
             store.receipt[e] = old, store' = [st EXCEPT !.receipt[e] = s], sync' = [sync EXCEPT !.at = a],
             a = "deliver" => s = "processing"
      PROVE  SyncInv'
  <2>1. /\ store' \in StoreRow /\ store'.base = st.base /\ store'.mark = st.mark /\ store'.batch = st.batch
        /\ store'.receipt[e] = s /\ \A f \in Event : f # e => store'.receipt[f] = st.receipt[f]
    BY SMT, <1>2, <1>8, ReceiptWrites DEF Receipt
  <2>2. /\ sync' \in SyncRow /\ sync'.at = a /\ sync'.todo = sync.todo /\ sync'.token = sync.token
        /\ sync'.next = sync.next /\ sync'.initial = sync.initial
    BY <1>0, <1>8, StageMoves DEF OnEvent
  <2>3. Advances
    BY <1>0, <1>8, <2>1 DEF Advances
  <2>4. Current' = e /\ seen.effects[e] = 0
    BY <1>0, <1>1, <1>2, <1>8, <2>2 DEF Current, EffectsCount
  <2>5. sync'.at = "deliver" => Unapplied(Current)'
    BY <1>0, <1>8, <2>1, <2>2, <2>4 DEF Unapplied
  <2> QED
    BY ZenonT(60), <1>0, <1>5, <1>8, <2>1, <2>2, <2>3, <2>5, SyncMoves DEF OnEvent
<1>9. CASE reserve_event
  <2>1. CASE store.receipt[e] = "none" /\ store' = [cov EXCEPT !.receipt[e] = "pending"] /\ sync' = [sync EXCEPT !.at = "check"]
    BY <1>4, <1>8, <2>1
  <2> QED
    BY <1>1, <1>3, <1>6, <1>7, <1>9, <2>1 DEF reserve_event, Duplicate, InDoubt, Syncing
<1>10. CASE start_event
  <2>1. CASE store.receipt[e] = "pending" /\ store' = [store EXCEPT !.receipt[e] = "processing"] /\ sync' = [sync EXCEPT !.at = "deliver"]
    BY <1>0, <1>8, <2>1
  <2> QED
    BY <1>1, <1>6, <1>10, <2>1 DEF start_event
<1>11. CASE check_decryption
  <2>1. CASE sync' = [sync EXCEPT !.at = "start"] /\ UNCHANGED store
    <3>1. /\ sync' \in SyncRow /\ sync'.at = "start" /\ sync'.todo = sync.todo /\ sync'.token = sync.token
          /\ sync'.next = sync.next /\ sync'.initial = sync.initial
      BY <1>0, <2>1, StageMoves DEF OnEvent
    <3>2. sync.at = "check"
      BY <1>11 DEF check_decryption, Syncing
    <3> QED
      BY <1>0, <1>5, <2>1, <3>1, <3>2, SyncMoves DEF OnEvent, Advances
  <2>2. CASE store.live /\ store' = refuse_response([store EXCEPT !.receipt[e] = "refused"]) /\ Ended
    <3>1. PICK mid : mid = [store EXCEPT !.receipt[e] = "refused"]
      OBVIOUS
    <3>2. /\ mid \in StoreRow /\ mid.base = store.base /\ mid.mark = store.mark
          /\ mid.receipt[e] = "refused" /\ \A f \in Event : f # e => mid.receipt[f] = store.receipt[f]
      BY SMT, <1>0, <1>2, <3>1, ReceiptWrites DEF Receipt
    <3>3. store' \in StoreRow /\ SameWork(store', mid)
      BY <2>2, <3>1, <3>2, RefuseWrites
    <3> QED
      BY <1>0, <2>2, <3>2, <3>3, SyncEnds DEF SameWork
  <2> QED
    BY <1>1, <1>6, <1>11, <2>1, <2>2 DEF check_decryption
<1> QED
  BY <1>9, <1>10, <1>11

\* An event is settled.
LEMMA SettleWrites ==
    ASSUME seen \in SeenRow, NEW e \in Event, seen' = [seen EXCEPT !.settled = @ \cup {e}]
    PROVE  /\ seen' \in SeenRow /\ seen'.effects = seen.effects /\ seen'.sends = seen.sends /\ seen'.shown = seen.shown
           /\ seen'.settled = seen.settled \cup {e}
  BY DEF SeenRow

\* deliver: the event is passed over, or the ingress gets it.
LEMMA DeliverStep ==
    ASSUME SyncInv, deliver
    PROVE  SyncInv'
<1>0. /\ SyncTyped /\ Positions /\ Covered /\ BatchExpects /\ EffectsCount /\ OneHolder /\ store \in StoreRow
      /\ sync \in SyncRow /\ seen \in SeenRow /\ sync.at = "deliver" /\ sync.todo # {} /\ SyncRest /\ UNCHANGED proc
  <2>1. sync.at = "deliver" /\ SyncRest /\ UNCHANGED proc
    BY DEF deliver, Syncing
  <2> QED
    BY <2>1 DEF SyncInv, SyncTyped, OneHolder, OnEvent
<1>1. PICK e : e = Current
  OBVIOUS
<1>2. e \in sync.todo /\ e \in Event /\ Unapplied(e)
  BY <1>0, <1>1, CurrentIn DEF EffectsCount
<1>5. sync.token <= Arrived /\ sync.next <= Arrived /\ (sync.initial # <<>> => sync.initial[2] <= Arrived)
  BY <1>0 DEF Positions
<1>6. CASE Fenced /\ Ended /\ UNCHANGED <<seen, chan>>
  <2>1. store' \in StoreRow /\ SameWork(store', store)
    BY <1>0, <1>6, RefuseWrites DEF Fenced
  <2> QED
    BY <1>0, <1>6, <2>1, SyncEnds DEF SameWork
<1>7. CASE Ended /\ UNCHANGED <<store, seen, chan>>
  BY <1>0, <1>7, SyncEnds
<1>8. CASE sync' = [sync EXCEPT !.at = "finish"] /\ seen' = [seen EXCEPT !.settled = @ \cup {e}] /\ UNCHANGED <<store, chan>>
  <2>1. /\ sync' \in SyncRow /\ sync'.at = "finish" /\ sync'.todo = sync.todo /\ sync'.token = sync.token
        /\ sync'.next = sync.next /\ sync'.initial = sync.initial
    BY <1>0, <1>8, StageMoves DEF OnEvent
  <2>2. /\ seen' \in SeenRow /\ seen'.effects = seen.effects /\ seen'.sends = seen.sends /\ seen'.shown = seen.shown
        /\ seen'.settled = seen.settled \cup {e}
    BY <1>0, <1>2, <1>8, SettleWrites
  <2>3. (Current \in seen.settled)'
    BY <1>1, <2>1, <2>2 DEF Current
  <2> QED
    BY <1>0, <1>5, <1>8, <2>1, <2>2, <2>3, SyncMoves DEF OnEvent, Advances
<1>9. CASE chan' = [event |-> e, answer |-> "none"] /\ sync' = [sync EXCEPT !.at = "wait"] /\ UNCHANGED <<store, seen>>
  <2>1. /\ sync' \in SyncRow /\ sync'.at = "wait" /\ sync'.todo = sync.todo /\ sync'.token = sync.token
        /\ sync'.next = sync.next /\ sync'.initial = sync.initial
    BY <1>0, <1>9, StageMoves DEF OnEvent
  <2>2. chan' \in ChanRow /\ chan'.event = e /\ chan'.answer = "none"
    BY <1>2, <1>9 DEF ChanRow
  <2>3. Positions' /\ Covered' /\ BatchExpects'
    BY <1>0, <1>5, <1>9, <2>1, PositionsFrame, CoveredFrame, BatchFrame DEF SyncRest, OnEvent
  <2>4. Current' = e /\ ing' = ing /\ ing.at \in Free
    BY <1>0, <1>1, <2>1 DEF Current, SyncRest, OneHolder
  <2>5. OneHolder'
    BY <1>0, <2>1, <2>2, <2>4 DEF OneHolder, OnEvent, Free, Busy
  <2>6. EffectsCount'
    BY <1>0, <1>2, <1>9, <2>1, <2>2, <2>4, EffectFrame DEF Advances, Free
  <2> QED
    BY <1>0, <1>9, <2>1, <2>2, <2>3, <2>5, <2>6, SyncFrame
<1> QED
  BY <1>1, <1>6, <1>7, <1>8, <1>9 DEF deliver, decode_event

\* wait_disposition: an answer that allows the event to finish says that it is settled.
LEMMA WaitStep ==
    ASSUME SyncInv, wait_disposition
    PROVE  SyncInv'
<1>0. /\ SyncTyped /\ Positions /\ Covered /\ BatchExpects /\ EffectsCount /\ OneHolder /\ store \in StoreRow
      /\ sync \in SyncRow /\ seen \in SeenRow /\ chan \in ChanRow /\ sync.at = "wait" /\ sync.todo # {} /\ SyncRest
      /\ UNCHANGED <<store, seen, proc>>
  <2>1. sync.at = "wait" /\ SyncRest /\ UNCHANGED <<store, seen, proc>>
    BY DEF wait_disposition, Syncing
  <2> QED
    BY <2>1 DEF SyncInv, SyncTyped, OneHolder, OnEvent
<1>1. CASE Ended /\ UNCHANGED chan
  BY <1>0, <1>1, SyncEnds
<1>2. CASE chan.answer = "ok" /\ sync' = [sync EXCEPT !.at = "finish"] /\ chan' = [chan EXCEPT !.answer = "none"]
  <2>1. /\ sync' \in SyncRow /\ sync'.at = "finish" /\ sync'.todo = sync.todo /\ sync'.token = sync.token
        /\ sync'.next = sync.next /\ sync'.initial = sync.initial
    BY <1>0, <1>2, StageMoves DEF OnEvent
  <2>2. chan.event = 0 /\ ing.at \in Free /\ Current \in seen.settled
    BY <1>0, <1>2 DEF OneHolder
  <2>3. chan' = NoChan /\ chan' \in ChanRow
    BY <1>0, <1>2, <2>2 DEF ChanRow, NoChan
  <2>4. Positions' /\ Covered' /\ BatchExpects'
    BY <1>0, <2>1, PositionsFrame, CoveredFrame, BatchFrame DEF SyncRest, OnEvent, Positions
  <2>5. Current' = Current /\ ing' = ing
    BY <1>0, <2>1 DEF Current, SyncRest
  <2>6. OneHolder'
    BY <1>0, <2>1, <2>2, <2>3, <2>5 DEF OneHolder, OnEvent, Free, Busy, NoChan
  <2>7. EffectsCount'
    BY <1>0, <2>1, <2>2, <2>3, <2>5, EffectFrame DEF Advances, Free, NoChan
  <2> QED
    BY <1>0, <2>1, <2>3, <2>4, <2>6, <2>7, SyncFrame
<1> QED
  BY <1>1, <1>2 DEF wait_disposition, Answered

\* finish_event: what becomes dispositioned is settled.
LEMMA FinishStep ==
    ASSUME SyncInv, finish_event
    PROVE  SyncInv'
<1>0. /\ SyncTyped /\ Positions /\ OneHolder /\ store \in StoreRow /\ sync \in SyncRow /\ seen \in SeenRow
      /\ sync.at = "finish" /\ sync.todo # {} /\ Current \in seen.settled /\ SyncRest /\ UNCHANGED <<seen, proc, chan>>
  <2>1. sync.at = "finish" /\ SyncRest /\ UNCHANGED <<seen, proc, chan>>
    BY DEF finish_event, Syncing
  <2> QED
    BY <2>1 DEF SyncInv, SyncTyped, OneHolder, OnEvent
<1>1. PICK e : e = Current
  OBVIOUS
<1>2. e \in sync.todo /\ e \in Event
  BY <1>0, <1>1, CurrentIn
<1>3. CASE Ended /\ UNCHANGED store
  BY <1>0, <1>3, SyncEnds
<1>4. CASE store' = [store EXCEPT !.receipt[e] = "dispositioned"] /\ sync' = EventDone
  <2>1. /\ store' \in StoreRow /\ store'.base = store.base /\ store'.mark = store.mark /\ store'.batch = store.batch
        /\ store'.receipt[e] = "dispositioned" /\ \A f \in Event : f # e => store'.receipt[f] = store.receipt[f]
    BY SMT, <1>0, <1>2, <1>4, ReceiptWrites DEF Receipt
  <2>2. sync' = [sync EXCEPT !.at = "event", !.todo = sync.todo \ {e}]
    BY <1>1, <1>4 DEF EventDone
  <2>3. sync.todo \ {e} \in SUBSET Event
    BY <1>0 DEF SyncRow
  <2>4. /\ sync' \in SyncRow /\ sync'.at = "event" /\ sync'.token = sync.token
        /\ sync'.next = sync.next /\ sync'.initial = sync.initial
    BY <1>0, <2>2, <2>3, StageWrites DEF Quiet
  <2>5. sync.token <= Arrived /\ sync.next <= Arrived /\ (sync.initial # <<>> => sync.initial[2] <= Arrived)
    BY <1>0 DEF Positions
  <2>6. Advances
    BY <1>0, <2>1 DEF Advances
  <2>7. \A f \in Event : store'.receipt[f] = "dispositioned" => store.receipt[f] = "dispositioned" \/ f \in seen'.settled
    BY <1>0, <1>1, <2>1
  <2> QED
    BY <1>0, <2>1, <2>4, <2>5, <2>6, <2>7, SyncMoves DEF OnEvent
<1> QED
  BY <1>1, <1>3, <1>4 DEF finish_event

\* complete_batch: the watermark moves over what the batch expected, and all of it is
\* dispositioned.
LEMMA CompleteStep ==
    ASSUME SyncInv, complete_batch
    PROVE  SyncInv'
<1>0. /\ SyncTyped /\ Positions /\ Covered /\ BatchExpects /\ OneHolder /\ EffectsCount /\ store \in StoreRow
      /\ sync \in SyncRow /\ seen \in SeenRow /\ chan \in ChanRow /\ sync.at = "event" /\ SyncRest
      /\ UNCHANGED <<seen, proc, chan>>
  <2>1. sync.at = "event" /\ SyncRest /\ UNCHANGED <<seen, proc, chan>>
    BY DEF complete_batch, Syncing
  <2> QED
    BY <2>1 DEF SyncInv, SyncTyped
<1>1. CASE Ended /\ UNCHANGED store
  BY <1>0, <1>1, SyncEnds
<1>2. CASE /\ \A e \in store.batch.expected : store.receipt[e] = "dispositioned"
           /\ store.mark = store.batch.prev
           /\ store' = [store EXCEPT !.batch = [NoBatch EXCEPT !.state = "terminal"], !.mark = sync.next]
           /\ sync' = [SyncOff EXCEPT !.at = "idle"]
  <2>1. PICK b : b = [NoBatch EXCEPT !.state = "terminal"]
    OBVIOUS
  <2>2. b \in BatchRow
    <3>1. b = [to |-> 0, prev |-> 0, expected |-> {}, covered |-> {}, state |-> "terminal", epoch |-> 0]
      BY <2>1 DEF NoBatch
    <3> QED
      BY <3>1 DEF BatchRow
  <2>3. store' = [store EXCEPT !.batch = b, !.mark = sync.next]
    BY <1>2, <2>1
  <2>4. sync.next \in Nat /\ store.base \in Nat /\ store.mark \in Nat
    BY <1>0 DEF SyncRow, StoreRow
  <2>5. store' \in StoreRow /\ store'.base = store.base /\ store'.mark = sync.next /\ store'.receipt = store.receipt
    BY <1>0, <2>2, <2>3, <2>4 DEF StoreRow
  <2>6. sync' = [at |-> "idle", token |-> 0, todo |-> {}, next |-> 0, failures |-> 0, initial |-> <<>>]
    BY <1>2 DEF SyncOff
  <2>7. sync' \in SyncRow /\ sync'.at = "idle"
    BY <2>6 DEF SyncRow, Quiet
  <2>8. Positions'
    <3>1. Arrived \in Nat
      BY SMT, <1>0 DEF SyncTyped, Arrived
    <3> QED
      BY SMT, <1>0, <2>5, <2>6, <3>1 DEF Positions, SyncRest, Arrived
  <2>9. Covered'
    <3>1. store.batch.expected \subseteq Event
      BY <1>0 DEF StoreRow, BatchRow
    <3>2. store.batch.expected \subseteq seen.settled
      BY <1>0, <1>2, <3>1 DEF Covered
    <3>3. store.mark + 1 .. sync.next \subseteq seen.settled
      BY <1>0, <1>2, <3>2 DEF BatchExpects
    <3>4. store.base + 1 .. store.mark \subseteq seen.settled
      BY <1>0 DEF Covered, WatermarkCovered
    <3>5. store.base + 1 .. sync.next \subseteq seen.settled
      BY SMT, <2>4, <3>3, <3>4
    <3> QED
      BY <1>0, <2>5, <3>5 DEF Covered, WatermarkCovered, SyncRest
  <2>10. BatchExpects'
    BY <2>7 DEF BatchExpects, OnEvent
  <2>11. chan' = NoChan /\ ing' = ing /\ ing.at \in Free
    BY <1>0 DEF OneHolder, SyncRest
  <2>12. OneHolder'
    BY <2>7, <2>11 DEF OneHolder, OnEvent, NoChan, Free, Busy
  <2>13. EffectsCount'
    BY SMT, <1>0, <2>5, <2>7, <2>11, EffectFrame DEF Advances, NoChan, Free
  <2> QED
    BY <1>0, <2>5, <2>7, <2>8, <2>9, <2>10, <2>12, <2>13, SyncFrame
<1> QED
  BY <1>1, <1>2 DEF complete_batch

-----------------------------------------------------------------------------
(* The ingress.                                                            *)

\* What every step of the ingress leaves alone.
LEMMA IngFrame ==
    ASSUME SyncInv, IngRest, ing.at # "off", Fault \/ UNCHANGED proc,
           tr' \in [Event -> {"none", "ordinary", "retry"}], outbox' \in [Event -> OutRow],
           drain' \in [Drains -> DrainRow], seen' \in SeenRow, chan' \in ChanRow, ing' \in IngRow,
           seen.settled \subseteq seen'.settled, OneHolder', EffectsCount', DrainsOwn', SendsCount'
    PROVE  SyncInv'
<1>0. /\ SyncTyped /\ NothingRuns /\ Positions /\ Covered /\ BatchExpects /\ proc \in ProcRow
      /\ UNCHANGED <<server, store, legacy, sync>>
  BY DEF SyncInv, SyncTyped, IngRest
<1>1. proc' \in ProcRow /\ proc'.mode = proc.mode
  BY <1>0, ProcWrites
<1>2. SyncTyped'
  BY <1>0, <1>1 DEF SyncTyped
<1>3. NothingRuns'
  BY <1>0, <1>1 DEF NothingRuns
<1>4. Positions' /\ Covered' /\ BatchExpects'
  BY <1>0, CoveredFrame, BatchFrame DEF Positions, Arrived
<1> QED
  BY <1>2, <1>3, <1>4 DEF SyncInv

\* Only the event at the ingress has an effect, and only the first.
Applies(e) ==
    /\ seen'.settled = seen.settled
    /\ \A f \in Event : f # e => seen'.effects[f] = seen.effects[f]
    /\ seen'.effects[e] = seen.effects[e] \/ (ing.at \in {"admin", "route"} /\ seen'.effects[e] = seen.effects[e] + 1)

\* The ingress moves on with its event past the effect.
LEMMA IngMoves ==
    ASSUME SyncInv, IngRest, ing.at \in Busy, chan' = chan, seen' \in SeenRow, Applies(ing.event),
           ing'.at \in Busy \ {"admin", "route"}, ing'.event = ing.event
    PROVE  OneHolder' /\ EffectsCount'
<1>0. /\ SyncTyped /\ OneHolder /\ EffectsCount /\ seen \in SeenRow /\ ing \in IngRow /\ UNCHANGED <<store, sync>>
  BY DEF SyncInv, SyncTyped, IngRest
<1>1. ing.event \in Event /\ chan.event = 0 /\ ing.at \notin Free
  BY <1>0 DEF OneHolder, IngRow, Free, Busy
<1>2. sync.at \in {"off", "wait"}
  BY <1>0, <1>1 DEF OneHolder
<1>3. sync.at = "wait" => chan.answer = "none" /\ ing.event = Current
  <2> SUFFICES ASSUME sync.at = "wait" PROVE chan.answer = "none" /\ ing.event = Current
    OBVIOUS
  <2>1. Current \in Event
    BY <1>0, CurrentIn DEF OneHolder, OnEvent
  <2>2. Current # 0
    BY SMT, <2>1, SyncAssumption DEF Event
  <2> QED
    BY <1>0, <1>1, <2>2 DEF OneHolder
<1>4. Current' = Current
  BY <1>0 DEF Current
<1>5. OneHolder'
  BY <1>0, <1>1, <1>2, <1>3, <1>4 DEF OneHolder, OnEvent
<1>6. EffectsCount'
  <2>1. \A f \in Event : seen.effects[f] \in Nat /\ seen'.effects[f] \in Nat
    BY <1>0 DEF SeenRow
  <2>2. \A f \in Event : /\ seen'.effects[f] <= 1
                         /\ store.receipt[f] \in {"none", "pending"} => seen'.effects[f] = 0
    <3> SUFFICES ASSUME NEW f \in Event
                 PROVE  /\ seen'.effects[f] <= 1
                        /\ store.receipt[f] \in {"none", "pending"} => seen'.effects[f] = 0
      OBVIOUS
    <3>1. CASE seen'.effects[f] = seen.effects[f]
      BY <1>0, <3>1 DEF EffectsCount
    <3>2. CASE f = ing.event /\ ing.at \in {"admin", "route"} /\ seen'.effects[f] = seen.effects[f] + 1
      <4>1. seen.effects[f] = 0 /\ store.receipt[f] \notin {"none", "pending"}
        BY <1>0, <3>2 DEF EffectsCount, Unapplied
      <4> QED
        BY SMT, <3>2, <4>1
    <3> QED
      BY <3>1, <3>2 DEF Applies
  <2> QED
    BY <1>0, <1>1, <1>2, <2>2 DEF EffectsCount
<1> QED
  BY <1>5, <1>6

\* The ingress is asked for no drain, and writes no row of the outbox.
LEMMA IngOnly ==
    ASSUME SyncInv, IngRest, Fault \/ UNCHANGED proc, ing.at \in Busy, chan' = chan, seen' \in SeenRow,
           Applies(ing.event), seen'.sends = seen.sends, seen'.shown = seen.shown, UNCHANGED <<outbox, drain>>,
           tr' \in [Event -> {"none", "ordinary", "retry"}], \A e \in Event : tr'[e] = "none" => tr[e] = "none",
           ing.at = "drain" => drain["retry"].at = "rest",
           ing' \in IngRow, ing'.at \in Busy \ {"admin", "route", "drain"}, ing'.event = ing.event
    PROVE  SyncInv'
<1>0. SyncTyped /\ DrainsOwn /\ SendsCount /\ outbox \in [Event -> OutRow] /\ drain \in [Drains -> DrainRow] /\ chan \in ChanRow
  BY DEF SyncInv, SyncTyped
<1>1. OneHolder' /\ EffectsCount'
  BY IngMoves
<1>2. DrainsOwn' /\ SendsCount'
  BY SMT, <1>0 DEF DrainsOwn, SendsCount, NextRow
<1>3. seen.settled \subseteq seen'.settled /\ ing.at # "off"
  BY DEF Applies, Busy
<1> QED
  BY <1>0, <1>1, <1>2, <1>3, IngFrame

\* The effect of an event is counted.
LEMMA EffectWrites ==
    ASSUME seen \in SeenRow, NEW e \in Event, seen' = [seen EXCEPT !.effects[e] = @ + 1], ing.at \in {"admin", "route"}
    PROVE  seen' \in SeenRow /\ Applies(e) /\ seen'.sends = seen.sends /\ seen'.shown = seen.shown
<1>1. PICK fs : fs = [seen.effects EXCEPT ![e] = @ + 1]
  OBVIOUS
<1>2. fs \in [Event -> Nat] /\ fs[e] = seen.effects[e] + 1 /\ \A f \in Event : f # e => fs[f] = seen.effects[f]
  BY SMT, <1>1 DEF SeenRow
<1>3. seen' = [seen EXCEPT !.effects = fs]
  BY <1>1
<1>4. /\ seen' \in SeenRow /\ seen'.effects = fs /\ seen'.settled = seen.settled /\ seen'.sends = seen.sends
      /\ seen'.shown = seen.shown
  BY <1>2, <1>3 DEF SeenRow
<1> QED
  BY <1>2, <1>4 DEF Applies

\* A step without an effect applies nothing.
LEMMA NoEffect ==
    ASSUME seen' = seen, NEW e
    PROVE  Applies(e) /\ seen'.sends = seen.sends /\ seen'.shown = seen.shown
  BY DEF Applies

\* run_ingress: the event leaves the channel for the ingress, or the ingress ends.
LEMMA TakeStep ==
    ASSUME SyncInv, run_ingress
    PROVE  SyncInv'
<1>0. /\ SyncTyped /\ OneHolder /\ EffectsCount /\ DrainsOwn /\ SendsCount /\ ing.at = "recv" /\ IngRest
      /\ UNCHANGED <<tr, outbox, seen, proc, drain>> /\ UNCHANGED <<store, sync>> /\ chan \in ChanRow
  <2>1. ing.at = "recv" /\ IngRest /\ UNCHANGED <<tr, outbox, seen, proc, drain>> /\ UNCHANGED <<store, sync>>
    BY DEF run_ingress, IngAt, IngRest
  <2> QED
    BY <2>1 DEF SyncInv, SyncTyped
<1>1. ASSUME ing' \in IngRow, ing'.at # "drain", chan' \in ChanRow, OneHolder', EffectsCount' PROVE SyncInv'
  <2>1. DrainsOwn' /\ SendsCount'
    BY <1>0, <1>1, OutFrame
  <2> QED
    BY <1>0, <1>1, <2>1, IngFrame DEF SyncTyped
<1>2. CASE /\ chan.event # 0 /\ chan' = [chan EXCEPT !.event = 0]
           /\ ing' = [at |-> IF Command(chan.event) THEN "admin" ELSE "route", event |-> chan.event, verdict |-> "ok"]
  <2>1. chan.event \in Event /\ Unapplied(chan.event)
    BY <1>0, <1>2 DEF ChanRow, EffectsCount
  <2>2. ing' \in IngRow /\ ing'.at \in {"admin", "route"} /\ ing'.event = chan.event
    BY <1>2, <2>1 DEF IngRow, Busy
  <2>3. chan' \in ChanRow /\ chan'.event = 0 /\ chan'.answer = chan.answer
    BY <1>0, <1>2 DEF ChanRow
  <2>4. sync.at = "wait" => Current' = Current /\ Current' \in Event
    BY <1>0, CurrentIn DEF Current, OneHolder, OnEvent
  <2>5. OneHolder'
    <3>1. sync.at \in {"off", "wait"}
      BY SMT, <1>0, <1>2 DEF OneHolder, NoChan
    <3>2. sync.at = "wait" => chan.event = Current /\ chan.answer = "none"
      BY <1>0, <1>2 DEF OneHolder, Busy
    <3>3. ing'.at \in Busy /\ ing'.at \notin Free /\ ing'.event # 0
      BY <1>2, <2>2 DEF Busy, Free
    <3> QED
      BY <1>0, <2>2, <2>3, <2>4, <3>1, <3>2, <3>3 DEF OneHolder, OnEvent
  <2>6. EffectsCount'
    BY <1>0, <2>1, <2>2, <2>3 DEF EffectsCount, Unapplied, Current
  <2> QED
    BY <1>1, <2>2, <2>3, <2>5, <2>6
<1>3. CASE ing' = IngOff /\ UNCHANGED chan
  <2>1. ing' \in IngRow /\ ing'.at = "off"
    BY <1>3 DEF IngOff, IngRow, Free
  <2>2. OneHolder'
    BY <1>0, <1>3, <2>1 DEF OneHolder, OnEvent, Current, Free, Busy
  <2>3. EffectsCount'
    BY <1>0, <1>3, <2>1 DEF EffectsCount, Unapplied, Current
  <2> QED
    BY <1>0, <1>1, <1>3, <2>1, <2>2, <2>3
<1> QED
  BY <1>2, <1>3 DEF run_ingress

\* The ingress goes to its next stage with the same event.
LEMMA IngStage ==
    ASSUME ing \in IngRow, NEW a \in Busy, ing' = [ing EXCEPT !.at = a]
    PROVE  ing' \in IngRow /\ ing'.at = a /\ ing'.event = ing.event
  BY DEF IngRow

\* So for the disposition.
LEMMA DisposeStage ==
    ASSUME ing \in IngRow, NEW v \in {"ok", "error"}, Dispose(v)
    PROVE  ing' \in IngRow /\ ing'.at = "dispose" /\ ing'.event = ing.event
<1>1. ing' = [at |-> "dispose", event |-> ing.event, verdict |-> v]
  BY DEF Dispose, IngRow
<1> QED
  BY <1>1 DEF IngRow, Busy

\* A command, the reply to it, the end of a retry, and a routed event: the effect is
\* counted at most once and the ingress is past it.
LEMMA RouteSteps ==
    ASSUME SyncInv, execute \/ retry_answered \/ send_reply \/ route_event_durable \/ route_fails
    PROVE  SyncInv'
<1>0. /\ SyncTyped /\ OneHolder /\ seen \in SeenRow /\ ing \in IngRow /\ tr \in [Event -> {"none", "ordinary", "retry"}]
      /\ IngRest /\ ing.at \in Busy /\ UNCHANGED <<outbox, chan, drain>> /\ (Fault \/ UNCHANGED proc)
      /\ (ing.at = "drain" => drain["retry"].at = "rest")
  <2>1. /\ IngRest /\ ing.at \in Busy /\ UNCHANGED <<outbox, chan, drain>> /\ (Fault \/ UNCHANGED proc)
        /\ (ing.at = "drain" => drain["retry"].at = "rest")
    BY DEF execute, retry_answered, send_reply, route_event_durable, route_fails, IngAt, Busy
  <2> QED
    BY <2>1 DEF SyncInv, SyncTyped
<1>1. ing.event \in Event
  BY <1>0 DEF OneHolder, IngRow
<1>2. ing' \in IngRow /\ ing'.at \in {"reply", "dispose"} /\ ing'.event = ing.event
  <2>1. CASE ing' = [ing EXCEPT !.at = "reply"]
    BY <1>0, <2>1, IngStage DEF Busy
  <2>2. CASE Dispose("ok") \/ Dispose("error")
    BY <1>0, <2>2, DisposeStage
  <2> QED
    BY <2>1, <2>2 DEF execute, retry_answered, send_reply, route_event_durable, route_fails, Denied
<1>3. /\ seen' = seen \/ (ing.at \in {"admin", "route"} /\ seen' = [seen EXCEPT !.effects[ing.event] = @ + 1])
      /\ tr' = tr \/ tr' = [tr EXCEPT ![ing.event] = "ordinary"]
  BY DEF execute, retry_answered, send_reply, route_event_durable, route_fails, IngAt
<1>4. seen' \in SeenRow /\ Applies(ing.event) /\ seen'.sends = seen.sends /\ seen'.shown = seen.shown
  <2>1. CASE seen' = seen
    BY <1>0, <2>1, NoEffect
  <2>2. CASE ing.at \in {"admin", "route"} /\ seen' = [seen EXCEPT !.effects[ing.event] = @ + 1]
    BY <1>0, <1>1, <2>2, EffectWrites
  <2> QED
    BY <1>3, <2>1, <2>2
<1>5. tr' \in [Event -> {"none", "ordinary", "retry"}] /\ \A e \in Event : tr'[e] = "none" => tr[e] = "none"
  BY <1>0, <1>1, <1>3
<1>6. ing'.at \in Busy \ {"admin", "route", "drain"}
  BY <1>2 DEF Busy
<1> QED
  BY <1>0, <1>2, <1>4, <1>5, <1>6, IngOnly

\* admit_retry: the receipt, the task and the reply row come together, and the retry
\* drain starts with no rows.
LEMMA RetryStep ==
    ASSUME SyncInv, admit_retry
    PROVE  SyncInv'
<1>0. /\ SyncTyped /\ OneHolder /\ DrainsOwn /\ SendsCount /\ seen \in SeenRow /\ ing \in IngRow /\ chan \in ChanRow
      /\ tr \in [Event -> {"none", "ordinary", "retry"}] /\ outbox \in [Event -> OutRow] /\ drain \in [Drains -> DrainRow]
      /\ IngRest /\ ing.at = "admin" /\ ing.at \in Busy /\ UNCHANGED chan
  <2>1. IngRest /\ ing.at = "admin" /\ ing.at \in Busy /\ UNCHANGED chan
    BY DEF admit_retry, IngAt, Busy
  <2> QED
    BY <2>1 DEF SyncInv, SyncTyped
<1>1. ing.event \in Event /\ drain["retry"].at = "rest" /\ drain["retry"].rows = {} /\ "retry" \in Drains
  BY <1>0 DEF OneHolder, IngRow, DrainsOwn, Drains
<1>2. CASE Fault /\ ing' = [ing EXCEPT !.at = "reply"] /\ UNCHANGED <<tr, outbox, seen, drain>>
  <2>1. ing' \in IngRow /\ ing'.at = "reply" /\ ing'.event = ing.event
    BY <1>0, <1>2, IngStage DEF Busy
  <2>2. Applies(ing.event) /\ ing'.at \in Busy \ {"admin", "route", "drain"}
    BY <1>2, <2>1, NoEffect DEF Busy
  <2> QED
    BY <1>0, <1>2, <2>1, <2>2, IngOnly
<1>3. ASSUME drain' = [drain EXCEPT !["retry"].at = "claim"], ing' = [ing EXCEPT !.at = "drain"], UNCHANGED proc,
             \/ UNCHANGED <<tr, outbox, seen>>
             \/ /\ tr[ing.event] = "none" /\ tr' = [tr EXCEPT ![ing.event] = "retry"]
                /\ outbox' = [outbox EXCEPT ![ing.event].state = "pending"]
                /\ seen' = [seen EXCEPT !.effects[ing.event] = @ + 1]
      PROVE  SyncInv'
  <2>1. ing' \in IngRow /\ ing'.at = "drain" /\ ing'.event = ing.event
    BY <1>0, <1>3, IngStage DEF Busy
  <2>2. seen' \in SeenRow /\ Applies(ing.event) /\ seen'.sends = seen.sends /\ seen'.shown = seen.shown
    BY <1>0, <1>1, <1>3, EffectWrites, NoEffect
  <2>3. OneHolder' /\ EffectsCount'
    BY <1>0, <2>1, <2>2, IngMoves DEF Busy
  <2>4. tr' \in [Event -> {"none", "ordinary", "retry"}] /\ \A e \in Event : tr'[e] = "none" => tr[e] = "none" /\ outbox'[e] = outbox[e]
    BY <1>0, <1>1, <1>3
  <2>5. /\ outbox' \in [Event -> OutRow]
        /\ \A e \in Event : outbox'[e] = outbox[e] \/ (outbox[e].state = "none" /\ outbox'[e].state = "pending")
    <3>1. PICK row : row = [outbox[ing.event] EXCEPT !.state = "pending"]
      OBVIOUS
    <3>2. outbox[ing.event] \in OutRow
      BY <1>0, <1>1
    <3>3. row \in OutRow /\ row.state = "pending"
      BY <3>1, <3>2 DEF OutRow
    <3>4. tr[ing.event] = "none" => outbox[ing.event].state = "none"
      BY <1>0, <1>1 DEF DrainsOwn
    <3>5. outbox' = outbox \/ (outbox[ing.event].state = "none" /\ outbox' = [outbox EXCEPT ![ing.event] = row])
      BY <1>3, <3>1, <3>4
    <3> QED
      BY <1>0, <1>1, <3>3, <3>5
  <2>6. /\ drain' \in [Drains -> DrainRow] /\ drain'["retry"].at = "claim" /\ drain'["retry"].rows = {}
        /\ \A d \in Drains : d # "retry" => drain'[d] = drain[d]
    <3>1. PICK row : row = [drain["retry"] EXCEPT !.at = "claim"]
      OBVIOUS
    <3>2. drain["retry"] \in DrainRow
      BY <1>0, <1>1
    <3>3. row \in DrainRow /\ row.at = "claim" /\ row.rows = {}
      BY <1>1, <3>1, <3>2 DEF DrainRow
    <3>4. drain' = [drain EXCEPT !["retry"] = row]
      BY <1>3, <3>1
    <3> QED
      BY <1>0, <1>1, <3>3, <3>4
  <2>7. DrainsOwn'
    <3>1. \A d \in Drains :
            /\ \A e \in drain'[d].rows : outbox'[e] = [state |-> "sending", owner |-> d]
            /\ drain'[d].at = "rest" => drain'[d].rows = {}
            /\ drain'[d].at \in {"send", "mark", "abandon"} => drain'[d].rows # {}
      <4> SUFFICES ASSUME NEW d \in Drains, d # "retry"
                   PROVE  /\ \A e \in drain[d].rows : outbox'[e] = [state |-> "sending", owner |-> d]
                          /\ drain[d].at = "rest" => drain[d].rows = {}
                          /\ drain[d].at \in {"send", "mark", "abandon"} => drain[d].rows # {}
        BY <2>6
      <4>1. drain[d].rows \subseteq Event
        BY <1>0 DEF DrainRow
      <4> QED
        BY SMT, <1>0, <2>5, <4>1 DEF DrainsOwn
    <3>2. \A e \in Event : tr'[e] = "none" => outbox'[e].state = "none"
      BY ZenonT(60), <1>0, <2>4 DEF DrainsOwn
    <3> QED
      BY <2>1, <3>1, <3>2 DEF DrainsOwn
  <2>8. SendsCount'
    <3>1. \A e \in Event : /\ seen.sends[e] <= 1
                           /\ outbox'[e].state \in {"none", "pending"} => seen.sends[e] = 0
                           /\ outbox'[e].state = "sent" => e \in seen.shown
      BY <1>0, <2>5 DEF SendsCount
    <3>2. \A d \in Drains : d # "retry" =>
            /\ \A e \in drain[d].rows :
                 seen.sends[e] = 0 \/ (drain[d].at \in {"mark", "abandon"} /\ e = Min(drain[d].rows))
            /\ drain[d].at = "mark" => Min(drain[d].rows) \in seen.shown
      BY <1>0 DEF SendsCount, NextRow
    <3>3. \A d \in Drains :
            /\ \A e \in drain'[d].rows :
                 seen'.sends[e] = 0 \/ (drain'[d].at \in {"mark", "abandon"} /\ e = Min(drain'[d].rows))
            /\ drain'[d].at = "mark" => Min(drain'[d].rows) \in seen'.shown
      <4> TAKE d \in Drains
      <4>1. CASE d = "retry"
        BY <2>6, <4>1
      <4>2. CASE d # "retry"
        BY <2>2, <2>6, <3>2, <4>2
      <4> QED
        BY <4>1, <4>2
    <3>4. \A e \in Event : /\ seen'.sends[e] <= 1
                           /\ outbox'[e].state \in {"none", "pending"} => seen'.sends[e] = 0
                           /\ outbox'[e].state = "sent" => e \in seen'.shown
      BY <2>2, <3>1
    <3> QED
      BY <3>3, <3>4 DEF SendsCount, NextRow
  <2>9. seen.settled \subseteq seen'.settled /\ ing.at # "off"
    BY <1>0, <2>2 DEF Applies
  <2> QED
    BY ZenonT(60), <1>0, <1>3, <2>1, <2>2, <2>3, <2>4, <2>5, <2>6, <2>7, <2>8, <2>9, IngFrame
<1> QED
  BY <1>2, <1>3 DEF admit_retry

\* dispose: the sync owner that still waits hears the verdict, and "ok" of a settled
\* event only.
LEMMA DisposeStep ==
    ASSUME SyncInv, dispose
    PROVE  SyncInv'
<1>0. /\ SyncTyped /\ OneHolder /\ EffectsCount /\ DrainsOwn /\ SendsCount /\ ing.at = "dispose" /\ IngRest
      /\ UNCHANGED <<tr, outbox, proc, drain>> /\ UNCHANGED <<store, sync>> /\ chan \in ChanRow /\ ing \in IngRow /\ seen \in SeenRow
  <2>1. ing.at = "dispose" /\ IngRest /\ UNCHANGED <<tr, outbox, proc, drain>> /\ UNCHANGED <<store, sync>>
    BY DEF dispose, IngAt, IngRest
  <2> QED
    BY <2>1 DEF SyncInv, SyncTyped
<1>1. ing.event \in Event /\ chan.event = 0 /\ ing.verdict \in {"ok", "error"}
  BY <1>0 DEF OneHolder, IngRow, Free, Busy
<1>2. /\ seen' \in SeenRow /\ seen'.effects = seen.effects /\ seen'.sends = seen.sends /\ seen'.shown = seen.shown
      /\ seen.settled \subseteq seen'.settled /\ (ing.verdict = "ok" => ing.event \in seen'.settled)
  <2>1. CASE seen' = seen /\ ing.verdict # "ok"
    BY <1>0, <2>1
  <2>2. CASE seen' = [seen EXCEPT !.settled = @ \cup {ing.event}]
    BY <1>0, <1>1, <2>2, SettleWrites
  <2> QED
    BY <2>1, <2>2 DEF dispose
<1>3. ing' \in IngRow /\ ing'.at \in Free
  BY SMT DEF dispose, IngOff, IngRow, Free
<1>4. /\ chan' \in ChanRow /\ chan'.event = 0
      /\ sync.at # "off" => chan'.answer = ing.verdict
  BY <1>0, <1>1 DEF dispose, ChanRow, Syncing
<1>5. sync.at \in {"off", "wait"} /\ ing.at \in Busy /\ ing.at \notin Free
  BY <1>0 DEF OneHolder, Free, Busy
<1>6. sync.at = "wait" => ing.event = Current /\ sync.todo # {}
  <2> SUFFICES ASSUME sync.at = "wait" PROVE ing.event = Current /\ sync.todo # {}
    OBVIOUS
  <2>1. Current \in Event /\ sync.todo # {}
    BY <1>0, CurrentIn DEF OneHolder, OnEvent
  <2>2. Current # 0
    BY SMT, <2>1, SyncAssumption DEF Event
  <2> QED
    BY <1>0, <1>1, <1>5, <2>1, <2>2 DEF OneHolder
<1>7. OneHolder'
  <2>1. Current' = Current
    BY <1>0 DEF Current
  <2>2. ing'.at \notin Busy
    BY <1>3 DEF Free, Busy
  <2> QED
    BY <1>0, <1>2, <1>3, <1>4, <1>5, <1>6, <2>1, <2>2 DEF OneHolder, OnEvent
<1>8. EffectsCount'
  BY <1>0, <1>2, <1>3, <1>4, <1>5, EffectFrame DEF Advances, Free
<1>9. DrainsOwn' /\ SendsCount'
  BY <1>0, <1>2, OutFrame
<1> QED
  BY <1>0, <1>2, <1>3, <1>4, <1>7, <1>8, <1>9, IngFrame DEF SyncTyped

-----------------------------------------------------------------------------
(* The outbox.                                                             *)

\* What every step of a drain leaves alone.
LEMMA DrainFrame ==
    ASSUME SyncInv, DrainRest, Fault \/ UNCHANGED proc, outbox' \in [Event -> OutRow],
           drain' \in [Drains -> DrainRow], seen' \in SeenRow, seen'.effects = seen.effects,
           seen'.settled = seen.settled, DrainsOwn', SendsCount'
    PROVE  SyncInv'
<1>0. /\ SyncTyped /\ NothingRuns /\ Positions /\ Covered /\ BatchExpects /\ OneHolder /\ EffectsCount /\ proc \in ProcRow
      /\ UNCHANGED <<server, store, legacy, tr, sync, chan, ing>>
  BY DEF SyncInv, SyncTyped, DrainRest
<1>1. proc' \in ProcRow /\ proc'.mode = proc.mode
  BY <1>0, ProcWrites
<1>2. SyncTyped'
  BY <1>0, <1>1 DEF SyncTyped
<1>3. NothingRuns'
  BY <1>0, <1>1 DEF NothingRuns
<1>4. Positions' /\ Covered' /\ BatchExpects'
  BY <1>0, CoveredFrame, BatchFrame DEF Positions, Arrived
<1>5. OneHolder' /\ EffectsCount'
  BY ZenonT(60), <1>0 DEF OneHolder, EffectsCount, Unapplied, Current
<1> QED
  BY <1>2, <1>3, <1>4, <1>5 DEF SyncInv

\* What the outbox says of every event.
OutboxSound ==
    \A e \in Event :
        /\ tr[e] = "none" => outbox[e].state = "none"
        /\ seen.sends[e] <= 1
        /\ outbox[e].state \in {"none", "pending"} => seen.sends[e] = 0
        /\ outbox[e].state = "sent" => e \in seen.shown

\* What a drain may have.
DrainSound(d, row) ==
    /\ \A e \in row.rows : /\ outbox[e] = [state |-> "sending", owner |-> d]
                           /\ seen.sends[e] = 0 \/ (row.at \in {"mark", "abandon"} /\ e = Min(row.rows))
    /\ row.at = "rest" => row.rows = {}
    /\ row.at \in {"send", "mark", "abandon"} => row.rows # {}
    /\ row.at = "mark" => Min(row.rows) \in seen.shown

\* The two invariants of the outbox, drain by drain.
OutboxInv ==
    /\ OutboxSound
    /\ \A d \in Drains : DrainSound(d, drain[d])
    /\ ing.at # "drain" => drain["retry"].at = "rest"

\* They say the same.
LEMMA OutboxParts == DrainsOwn /\ SendsCount <=> OutboxInv
  BY DEF DrainsOwn, SendsCount, OutboxInv, OutboxSound, DrainSound, NextRow

\* One drain moves: the rows of the other one are not touched.
LEMMA OneDrain ==
    ASSUME SyncInv, DrainRest, Fault \/ UNCHANGED proc, NEW d \in Drains, NEW row \in DrainRow,
           drain' = [drain EXCEPT ![d] = row], outbox' \in [Event -> OutRow], seen' \in SeenRow,
           seen'.effects = seen.effects, seen'.settled = seen.settled, seen.shown \subseteq seen'.shown,
           \A c \in Drains \ {d} : \A e \in drain[c].rows : outbox'[e] = outbox[e] /\ seen'.sends[e] = seen.sends[e],
           OutboxSound', DrainSound(d, row)',
           drain[d].at = "rest" => d # "retry"
    PROVE  SyncInv'
<1>0. /\ drain \in [Drains -> DrainRow] /\ (ing.at # "drain" => drain["retry"].at = "rest") /\ UNCHANGED <<tr, ing>>
      /\ \A c \in Drains : DrainSound(c, drain[c])
  BY OutboxParts DEF SyncInv, SyncTyped, DrainRest, OutboxInv
<1>1. drain' \in [Drains -> DrainRow] /\ drain'[d] = row /\ \A c \in Drains \ {d} : drain'[c] = drain[c]
  BY <1>0
<1>2. \A c \in Drains : DrainSound(c, drain[c])'
  <2> SUFFICES ASSUME NEW c \in Drains PROVE DrainSound(c, drain[c])'
    OBVIOUS
  <2>1. CASE c = d
    BY <1>1, <2>1 DEF DrainSound
  <2>2. CASE c # d
    <3>1. DrainSound(c, drain[c]) /\ c \in Drains \ {d} /\ drain'[c] = drain[c]
      BY <1>0, <1>1, <2>2
    <3> QED
      BY ZenonT(60), <3>1 DEF DrainSound
  <2> QED
    BY <2>1, <2>2
<1>3. ing'.at # "drain" => drain'["retry"].at = "rest"
  BY <1>0, <1>1 DEF Drains
<1>4. OutboxInv'
  BY <1>2, <1>3 DEF OutboxInv
<1>5. DrainsOwn' /\ SendsCount'
  BY <1>4, OutboxParts, PTL
<1> QED
  BY <1>1, <1>5, DrainFrame

\* What the invariant says of one drain.
LEMMA DrainHas ==
    ASSUME SyncInv, NEW d \in Drains
    PROVE  /\ drain \in [Drains -> DrainRow] /\ drain[d] \in DrainRow /\ drain[d].rows \subseteq Event
           /\ outbox \in [Event -> OutRow] /\ seen \in SeenRow /\ OutboxSound /\ DrainSound(d, drain[d])
           /\ \A c \in Drains \ {d} : \A e \in drain[c].rows : e \in Event /\ e \notin drain[d].rows
                                                           /\ outbox[e].state = "sending"
<1>1. /\ drain \in [Drains -> DrainRow] /\ outbox \in [Event -> OutRow] /\ seen \in SeenRow /\ OutboxSound
      /\ \A c \in Drains : DrainSound(c, drain[c])
  BY OutboxParts DEF SyncInv, SyncTyped, OutboxInv
<1>2. \A c \in Drains : drain[c].rows \subseteq Event
  BY <1>1 DEF DrainRow
<1>3. \A c \in Drains : \A e \in drain[c].rows : outbox[e] = [state |-> "sending", owner |-> c]
  BY <1>1 DEF DrainSound
<1>4. \A c \in Drains \ {d} : \A e \in drain[c].rows : e \notin drain[d].rows /\ outbox[e].state = "sending"
  <2> SUFFICES ASSUME NEW c \in Drains \ {d}, NEW e \in drain[c].rows
               PROVE  e \notin drain[d].rows /\ outbox[e].state = "sending"
    OBVIOUS
  <2>1. outbox[e] = [state |-> "sending", owner |-> c]
    BY <1>3
  <2>2. e \in drain[d].rows => outbox[e] = [state |-> "sending", owner |-> d]
    BY <1>3
  <2>3. outbox[e].owner = c /\ outbox[e].state = "sending"
    BY SMT, <2>1
  <2>4. e \in drain[d].rows => outbox[e].owner = d
    BY SMT, <2>2
  <2> QED
    BY <2>3, <2>4
<1> QED
  BY <1>1, <1>2, <1>4

\* A row changes its state and keeps its owner.
LEMMA StateWrites ==
    ASSUME outbox \in [Event -> OutRow], NEW e \in Event, NEW st \in {"pending", "sent", "abandoned"},
           outbox' = [outbox EXCEPT ![e].state = st]
    PROVE  /\ outbox' \in [Event -> OutRow] /\ outbox'[e].state = st
           /\ \A f \in Event : f # e => outbox'[f] = outbox[f]
<1>1. PICK row : row = [outbox[e] EXCEPT !.state = st]
  OBVIOUS
<1>2. outbox[e] \in OutRow
  OBVIOUS
<1>3. row \in OutRow /\ row.state = st
  BY <1>1, <1>2 DEF OutRow
<1>4. outbox' = [outbox EXCEPT ![e] = row]
  BY <1>1
<1> QED
  BY <1>3, <1>4

\* A drain goes to another stage with its rows.
LEMMA DrainStage ==
    ASSUME NEW d \in Drains, drain \in [Drains -> DrainRow], NEW a \in {"rest", "claim", "send", "mark", "abandon"},
           drain' = [drain EXCEPT ![d].at = a]
    PROVE  \E row \in DrainRow : row.at = a /\ row.rows = drain[d].rows /\ drain' = [drain EXCEPT ![d] = row]
<1>1. PICK row : row = [drain[d] EXCEPT !.at = a]
  OBVIOUS
<1>2. drain[d] \in DrainRow
  OBVIOUS
<1>3. row \in DrainRow /\ row.at = a /\ row.rows = drain[d].rows
  BY <1>1, <1>2 DEF DrainRow
<1>4. drain' = [drain EXCEPT ![d] = row]
  BY <1>1
<1> QED
  BY <1>3, <1>4

\* terminal_notice, start_drain: a new row belongs to nobody, and the loop starts without rows.
LEMMA NoticeSteps ==
    ASSUME SyncInv, (\E e \in Event : terminal_notice(e)) \/ start_drain
    PROVE  SyncInv'
<1>0. DrainRest /\ UNCHANGED <<seen, proc>> /\ UNCHANGED <<tr, ing>> /\ "loop" \in Drains
  BY DEF terminal_notice, start_drain, DrainRest, Drains
<1>1. CASE start_drain
  <2>1. drain["loop"].at = "rest" /\ drain' = [drain EXCEPT !["loop"].at = "claim"] /\ outbox' = outbox
    BY <1>1 DEF start_drain
  <2>2. /\ drain \in [Drains -> DrainRow] /\ outbox \in [Event -> OutRow] /\ seen \in SeenRow /\ OutboxSound
        /\ DrainSound("loop", drain["loop"])
    BY <1>0, DrainHas
  <2>3. PICK row \in DrainRow : row.at = "claim" /\ row.rows = drain["loop"].rows /\ drain' = [drain EXCEPT !["loop"] = row]
    BY <1>0, <2>1, <2>2, DrainStage
  <2>4. row.rows = {}
    BY <2>1, <2>2, <2>3 DEF DrainSound
  <2>5. DrainSound("loop", row)' /\ OutboxSound'
    BY <1>0, <2>1, <2>2, <2>3, <2>4 DEF DrainSound, OutboxSound
  <2> QED
    BY <1>0, <2>1, <2>2, <2>3, <2>5, OneDrain
<1>2. ASSUME NEW e \in Event, terminal_notice(e) PROVE SyncInv'
  <2>1. tr[e] = "ordinary" /\ outbox[e].state = "none" /\ outbox' = [outbox EXCEPT ![e].state = "pending"] /\ drain' = drain
    BY <1>2 DEF terminal_notice
  <2>2. /\ OutboxSound /\ (\A d \in Drains : DrainSound(d, drain[d])) /\ (ing.at # "drain" => drain["retry"].at = "rest")
        /\ outbox \in [Event -> OutRow] /\ drain \in [Drains -> DrainRow] /\ seen \in SeenRow
    BY OutboxParts DEF SyncInv, SyncTyped, OutboxInv
  <2>3. outbox' \in [Event -> OutRow] /\ outbox'[e].state = "pending" /\ \A f \in Event : f # e => outbox'[f] = outbox[f]
    BY <2>1, <2>2, StateWrites
  <2>4. OutboxSound'
    <3> SUFFICES ASSUME NEW f \in Event
                 PROVE  /\ tr[f] = "none" => outbox'[f].state = "none"
                        /\ seen.sends[f] <= 1
                        /\ outbox'[f].state \in {"none", "pending"} => seen.sends[f] = 0
                        /\ outbox'[f].state = "sent" => f \in seen.shown
      BY <1>0 DEF OutboxSound
    <3> QED
      BY <2>1, <2>2, <2>3 DEF OutboxSound
  <2>5. \A d \in Drains : DrainSound(d, drain[d])'
    <3> SUFFICES ASSUME NEW d \in Drains PROVE DrainSound(d, drain[d])'
      OBVIOUS
    <3>1. drain[d].rows \subseteq Event /\ DrainSound(d, drain[d])
      BY <2>2 DEF DrainRow
    <3>2. \A f \in drain[d].rows : outbox'[f] = outbox[f]
      <4> SUFFICES ASSUME NEW f \in drain[d].rows PROVE f # e
        BY <2>3, <3>1
      <4>1. outbox[f].state = "sending"
        BY SMT, <3>1 DEF DrainSound
      <4> QED
        BY <2>1, <4>1
    <3> QED
      BY <1>0, <2>1, <3>1, <3>2 DEF DrainSound
  <2>6. OutboxInv'
    BY <1>0, <2>1, <2>2, <2>4, <2>5 DEF OutboxInv
  <2>7. DrainsOwn' /\ SendsCount'
    BY <2>6, OutboxParts, PTL
  <2> QED
    BY <1>0, <2>1, <2>2, <2>3, <2>7, DrainFrame
<1> QED
  BY <1>1, <1>2

\* claim_projections: a row of nobody becomes the drain's.
LEMMA ClaimStep ==
    ASSUME SyncInv, NEW d \in Drains, claim_projections(d)
    PROVE  SyncInv'
<1>0. DrainRest /\ UNCHANGED <<seen, proc>> /\ UNCHANGED <<tr, ing>> /\ drain[d].at = "claim"
  BY DEF claim_projections, DrainRest
<1>1. /\ drain \in [Drains -> DrainRow] /\ drain[d] \in DrainRow /\ drain[d].rows \subseteq Event
      /\ outbox \in [Event -> OutRow] /\ seen \in SeenRow /\ OutboxSound /\ DrainSound(d, drain[d])
      /\ \A c \in Drains \ {d} : \A e \in drain[c].rows : e \in Event /\ e \notin drain[d].rows
                                                      /\ outbox[e].state = "sending"
  BY DrainHas
<1>2. CASE drain' = [drain EXCEPT ![d].at = IF drain[d].rows = {} THEN "rest" ELSE "send"] /\ UNCHANGED outbox
  <2>1. PICK a : a = IF drain[d].rows = {} THEN "rest" ELSE "send"
    OBVIOUS
  <2>2. a \in {"rest", "claim", "send", "mark", "abandon"}
    BY <2>1
  <2>3. drain' = [drain EXCEPT ![d].at = a]
    BY <1>2, <2>1
  <2>4. PICK row \in DrainRow : row.at = a /\ row.rows = drain[d].rows /\ drain' = [drain EXCEPT ![d] = row]
    <3>1. PICK r : r = [drain[d] EXCEPT !.at = a]
      OBVIOUS
    <3>2. r \in DrainRow /\ r.at = a /\ r.rows = drain[d].rows
      BY <1>1, <2>2, <3>1 DEF DrainRow
    <3>3. drain' = [drain EXCEPT ![d] = r]
      BY <2>3, <3>1
    <3> QED
      BY <3>2, <3>3
  <2>5. DrainSound(d, row)' /\ OutboxSound'
    BY <1>0, <1>1, <1>2, <2>1, <2>4 DEF DrainSound, OutboxSound
  <2> QED
    BY <1>0, <1>1, <1>2, <2>4, <2>5, OneDrain
<1>3. ASSUME NEW e, e = Min(Claimable(d)), Claimable(d) # {},
             outbox' = [outbox EXCEPT ![e] = [state |-> "sending", owner |-> d]],
             drain' = [drain EXCEPT ![d].rows = @ \cup {e}]
      PROVE  SyncInv'
  <2>1. e \in Event /\ outbox[e].state = "pending"
    <3>1. Claimable(d) \in SUBSET Nat
      BY SMT, SyncAssumption DEF Claimable, Rows, Event
    <3>2. e \in Claimable(d)
      BY <1>3, <3>1, MinIn
    <3> QED
      BY <3>2 DEF Claimable, Rows
  <2>2. /\ outbox' \in [Event -> OutRow] /\ outbox'[e] = [state |-> "sending", owner |-> d]
        /\ \A f \in Event : f # e => outbox'[f] = outbox[f]
    <3>1. PICK row : row = [state |-> "sending", owner |-> d]
      OBVIOUS
    <3>2. row \in OutRow
      BY <3>1 DEF OutRow
    <3> QED
      BY <1>1, <1>3, <2>1, <3>1, <3>2
  <2>3. PICK row : row = [drain[d] EXCEPT !.rows = @ \cup {e}]
    OBVIOUS
  <2>4. row \in DrainRow /\ row.at = "claim" /\ row.rows = drain[d].rows \cup {e}
    BY <1>0, <1>1, <2>1, <2>3 DEF DrainRow
  <2>5. drain' = [drain EXCEPT ![d] = row]
    BY <1>3, <2>3
  <2>6. OutboxSound'
    <3> SUFFICES ASSUME NEW f \in Event
                 PROVE  /\ tr[f] = "none" => outbox'[f].state = "none"
                        /\ seen.sends[f] <= 1
                        /\ outbox'[f].state \in {"none", "pending"} => seen.sends[f] = 0
                        /\ outbox'[f].state = "sent" => f \in seen.shown
      BY <1>0 DEF OutboxSound
    <3>1. outbox'[e].state = "sending"
      BY SMT, <2>2
    <3> QED
      BY <1>1, <2>1, <2>2, <3>1 DEF OutboxSound
  <2>7. DrainSound(d, row)'
    <3>1. seen.sends[e] = 0
      BY <1>1, <2>1 DEF OutboxSound
    <3>2. \A f \in drain[d].rows : outbox[f] = [state |-> "sending", owner |-> d] /\ seen.sends[f] = 0 /\ f \in Event
      BY <1>0, <1>1 DEF DrainSound
    <3>3. \A f \in row.rows : outbox'[f] = [state |-> "sending", owner |-> d] /\ seen'.sends[f] = 0
      BY <1>0, <2>2, <2>4, <3>1, <3>2
    <3> QED
      BY <2>4, <3>3 DEF DrainSound
  <2>8. \A c \in Drains \ {d} : \A f \in drain[c].rows : outbox'[f] = outbox[f]
    <3> SUFFICES ASSUME NEW c \in Drains \ {d}, NEW f \in drain[c].rows PROVE outbox'[f] = outbox[f]
      OBVIOUS
    <3>1. f \in Event /\ outbox[f].state = "sending"
      BY <1>1
    <3>2. f # e
      BY <2>1, <3>1
    <3> QED
      BY <2>2, <3>1, <3>2
  <2> QED
    BY <1>0, <1>1, <2>2, <2>4, <2>5, <2>6, <2>7, <2>8, OneDrain
<1> QED
  BY <1>2, <1>3 DEF claim_projections

\* send_stable: the notice of a claimed row is sent for the first time.
LEMMA SendStep ==
    ASSUME SyncInv, NEW d \in Drains, send_stable(d)
    PROVE  SyncInv'
<1>0. DrainRest /\ UNCHANGED outbox /\ UNCHANGED <<tr, ing>> /\ drain[d].at = "send" /\ (Fault \/ UNCHANGED proc)
  BY DEF send_stable, DrainRest
<1>1. /\ drain \in [Drains -> DrainRow] /\ drain[d] \in DrainRow /\ drain[d].rows \subseteq Event
      /\ outbox \in [Event -> OutRow] /\ seen \in SeenRow /\ OutboxSound /\ DrainSound(d, drain[d])
      /\ \A c \in Drains \ {d} : \A e \in drain[c].rows : e \in Event /\ e \notin drain[d].rows
                                                      /\ outbox[e].state = "sending"
  BY DrainHas
<1>2. PICK e : e = NextRow(d)
  OBVIOUS
<1>3. e \in drain[d].rows /\ e \in Event /\ seen.sends[e] = 0 /\ outbox[e] = [state |-> "sending", owner |-> d]
  <2>1. drain[d].rows # {}
    BY <1>0, <1>1 DEF DrainSound
  <2>2. drain[d].rows \in SUBSET Nat
    BY SMT, <1>1, SyncAssumption DEF Event
  <2>3. e \in drain[d].rows
    BY <1>2, <2>1, <2>2, MinIn DEF NextRow
  <2> QED
    BY <1>0, <1>1, <2>3 DEF DrainSound
<1>4. PICK ss : ss = [seen.sends EXCEPT ![e] = @ + 1]
  OBVIOUS
<1>5. ss \in [Event -> Nat] /\ ss[e] = 1 /\ \A f \in Event : f # e => ss[f] = seen.sends[f]
  BY SMT, <1>1, <1>3, <1>4 DEF SeenRow
<1>6. PICK sent : sent = [seen EXCEPT !.sends = ss]
  OBVIOUS
<1>7. /\ sent \in SeenRow /\ sent.sends = ss /\ sent.effects = seen.effects /\ sent.settled = seen.settled
      /\ sent.shown = seen.shown
  BY <1>1, <1>5, <1>6 DEF SeenRow
<1>8. PICK arrived : arrived = [sent EXCEPT !.shown = @ \cup {e}]
  OBVIOUS
<1>9. /\ arrived \in SeenRow /\ arrived.sends = ss /\ arrived.effects = seen.effects /\ arrived.settled = seen.settled
      /\ arrived.shown = seen.shown \cup {e}
  BY <1>3, <1>7, <1>8 DEF SeenRow
<1>10. PICK a \in {"mark", "abandon"} :
         /\ drain' = [drain EXCEPT ![d].at = a]
         /\ seen' = arrived \/ (seen' = sent /\ a = "abandon")
  BY <1>2, <1>4, <1>6, <1>8 DEF send_stable
<1>11. /\ seen' \in SeenRow /\ seen'.sends = ss /\ seen'.effects = seen.effects /\ seen'.settled = seen.settled
       /\ seen.shown \subseteq seen'.shown /\ (a = "mark" => e \in seen'.shown)
  BY <1>7, <1>9, <1>10
<1>12. PICK row \in DrainRow : row.at = a /\ row.rows = drain[d].rows /\ drain' = [drain EXCEPT ![d] = row]
  <2>1. PICK r : r = [drain[d] EXCEPT !.at = a]
    OBVIOUS
  <2>2. r \in DrainRow /\ r.at = a /\ r.rows = drain[d].rows
    BY <1>1, <1>10, <2>1 DEF DrainRow
  <2>3. drain' = [drain EXCEPT ![d] = r]
    BY <1>10, <2>1
  <2> QED
    BY <2>2, <2>3
<1>13. OutboxSound'
  <2> SUFFICES ASSUME NEW f \in Event
               PROVE  /\ tr[f] = "none" => outbox[f].state = "none"
                      /\ seen'.sends[f] <= 1
                      /\ outbox[f].state \in {"none", "pending"} => seen'.sends[f] = 0
                      /\ outbox[f].state = "sent" => f \in seen'.shown
    BY <1>0 DEF OutboxSound
  <2>1. outbox[e].state = "sending"
    BY SMT, <1>3
  <2>2. /\ tr[f] = "none" => outbox[f].state = "none"
        /\ seen.sends[f] <= 1
        /\ outbox[f].state \in {"none", "pending"} => seen.sends[f] = 0
        /\ outbox[f].state = "sent" => f \in seen.shown
    BY <1>1 DEF OutboxSound
  <2> QED
    BY SMT, <1>5, <1>11, <2>1, <2>2
<1>14. DrainSound(d, row)'
  <2>1. \A f \in drain[d].rows : outbox[f] = [state |-> "sending", owner |-> d] /\ (seen'.sends[f] = 0 \/ f = Min(row.rows))
    <3> SUFFICES ASSUME NEW f \in drain[d].rows
                 PROVE  outbox[f] = [state |-> "sending", owner |-> d] /\ (seen'.sends[f] = 0 \/ f = Min(row.rows))
      OBVIOUS
    <3>1. outbox[f] = [state |-> "sending", owner |-> d] /\ seen.sends[f] = 0 /\ f \in Event
      BY <1>0, <1>1 DEF DrainSound
    <3>2. Min(row.rows) = e
      BY <1>2, <1>12 DEF NextRow
    <3> QED
      BY <1>5, <1>11, <3>1, <3>2
  <2>2. Min(row.rows) = e
    BY <1>2, <1>12 DEF NextRow
  <2> QED
    BY <1>0, <1>3, <1>10, <1>11, <1>12, <2>1, <2>2 DEF DrainSound
<1>15. \A c \in Drains \ {d} : \A f \in drain[c].rows : seen'.sends[f] = seen.sends[f]
  BY <1>1, <1>3, <1>5, <1>11
<1> QED
  BY <1>0, <1>1, <1>11, <1>12, <1>13, <1>14, <1>15, OneDrain

\* mark_projection_sent, mark_projection_abandoned: the row has its last state, and
\* the drain goes on with rows it has not sent.
LEMMA MarkSteps ==
    ASSUME SyncInv, NEW d \in Drains, mark_projection_sent(d) \/ mark_projection_abandoned(d)
    PROVE  SyncInv'
<1>0. /\ DrainRest /\ UNCHANGED seen /\ UNCHANGED <<tr, ing>> /\ drain[d].at \in {"mark", "abandon"}
      /\ (Fault \/ UNCHANGED proc)
  BY DEF mark_projection_sent, mark_projection_abandoned, DrainRest
<1>1. /\ drain \in [Drains -> DrainRow] /\ drain[d] \in DrainRow /\ drain[d].rows \subseteq Event
      /\ outbox \in [Event -> OutRow] /\ seen \in SeenRow /\ OutboxSound /\ DrainSound(d, drain[d])
      /\ \A c \in Drains \ {d} : \A e \in drain[c].rows : e \in Event /\ e \notin drain[d].rows
                                                      /\ outbox[e].state = "sending"
  BY DrainHas
<1>2. PICK e : e = NextRow(d)
  OBVIOUS
<1>3. /\ e \in drain[d].rows /\ e \in Event /\ outbox[e] = [state |-> "sending", owner |-> d]
      /\ drain[d].at = "mark" => e \in seen.shown
      /\ \A f \in drain[d].rows \ {e} : seen.sends[f] = 0 /\ outbox[f] = [state |-> "sending", owner |-> d]
  <2>1. drain[d].rows # {}
    BY <1>0, <1>1 DEF DrainSound
  <2>2. drain[d].rows \in SUBSET Nat
    BY SMT, <1>1, SyncAssumption DEF Event
  <2>3. e \in drain[d].rows
    BY <1>2, <2>1, <2>2, MinIn DEF NextRow
  <2> QED
    BY <1>0, <1>1, <1>2, <2>3 DEF DrainSound, NextRow
<1>4. CASE drain[d].at = "mark" /\ drain' = [drain EXCEPT ![d].at = "abandon"] /\ UNCHANGED outbox
  <2>1. PICK row \in DrainRow : row.at = "abandon" /\ row.rows = drain[d].rows /\ drain' = [drain EXCEPT ![d] = row]
    BY <1>1, <1>4, DrainStage
  <2>2. DrainSound(d, row)' /\ OutboxSound'
    BY <1>0, <1>1, <1>4, <2>1 DEF DrainSound, OutboxSound
  <2> QED
    BY <1>0, <1>1, <1>4, <2>1, <2>2, OneDrain
<1>5. CASE drain' = [drain EXCEPT ![d] = Resting] /\ UNCHANGED outbox
  <2>1. Resting \in DrainRow
    BY DEF Resting, DrainRow
  <2>2. DrainSound(d, Resting)' /\ OutboxSound'
    BY <1>0, <1>1, <1>5 DEF DrainSound, OutboxSound, Resting
  <2> QED
    BY <1>0, <1>1, <1>5, <2>1, <2>2, OneDrain
<1>6. ASSUME NEW st \in {"sent", "abandoned"}, st = "sent" => drain[d].at = "mark",
             outbox' = [outbox EXCEPT ![e].state = st], RowDone(d)
      PROVE  SyncInv'
  <2>1. /\ outbox' \in [Event -> OutRow] /\ outbox'[e].state = st
        /\ \A f \in Event : f # e => outbox'[f] = outbox[f]
    BY <1>1, <1>3, <1>6, StateWrites
  <2>2. PICK left : left = drain[d].rows \ {e}
    OBVIOUS
  <2>3. PICK row : row = [at |-> IF left = {} THEN "rest" ELSE "send", rows |-> left]
    OBVIOUS
  <2>4. row \in DrainRow /\ drain' = [drain EXCEPT ![d] = row] /\ row.rows = left /\ row.at \in {"rest", "send"}
        /\ (row.at = "rest" <=> left = {})
    BY <1>1, <1>2, <1>6, <2>2, <2>3 DEF RowDone, DrainRow
  <2>5. OutboxSound'
    <3> SUFFICES ASSUME NEW f \in Event
                 PROVE  /\ tr[f] = "none" => outbox'[f].state = "none"
                        /\ seen.sends[f] <= 1
                        /\ outbox'[f].state \in {"none", "pending"} => seen.sends[f] = 0
                        /\ outbox'[f].state = "sent" => f \in seen.shown
      BY <1>0 DEF OutboxSound
    <3>1. outbox[e].state = "sending"
      BY SMT, <1>3
    <3> QED
      BY <1>1, <1>3, <1>6, <2>1, <3>1 DEF OutboxSound
  <2>6. DrainSound(d, row)'
    <3>1. \A f \in left : seen.sends[f] = 0 /\ outbox'[f] = [state |-> "sending", owner |-> d]
      BY <1>1, <1>3, <2>1, <2>2
    <3> QED
      BY <1>0, <2>4, <3>1 DEF DrainSound
  <2>7. \A c \in Drains \ {d} : \A f \in drain[c].rows : outbox'[f] = outbox[f]
    BY <1>1, <1>3, <2>1
  <2> QED
    BY <1>0, <1>1, <2>1, <2>4, <2>5, <2>6, <2>7, OneDrain
<1> QED
  BY <1>2, <1>4, <1>5, <1>6 DEF mark_projection_sent, mark_projection_abandoned

-----------------------------------------------------------------------------
(* The end of a process, and the theorems.                                 *)

\* Crash, exit: memory is gone and the tables stay.
LEMMA DownStep ==
    ASSUME SyncInv, Crash \/ exit
    PROVE  SyncInv'
<1>0. /\ SyncTyped /\ Positions /\ Covered /\ EffectsCount /\ DrainsOwn /\ SendsCount
      /\ UNCHANGED <<server, store, legacy, tr, outbox, seen>>
      /\ sync' = SyncOff /\ chan' = NoChan /\ ing' = IngOff /\ drain' = [d \in Drains |-> Resting]
  BY DEF SyncInv, Crash, exit, Down
<1>1. proc' \in ProcRow /\ proc'.mode = "down"
  <2>0. proc \in ProcRow
    BY <1>0 DEF SyncTyped
  <2>1. CASE proc' = [proc EXCEPT !.mode = "down", !.faults = @ + 1]
    <3>1. proc' = [mode |-> "down", enabled |-> proc.enabled, starts |-> proc.starts, faults |-> proc.faults + 1]
      BY <2>0, <2>1 DEF ProcRow
    <3> QED
      BY SMT, <2>0, <3>1 DEF ProcRow
  <2>2. CASE proc' = [proc EXCEPT !.mode = "down"]
    BY <2>0, <2>2 DEF ProcRow
  <2> QED
    BY <2>1, <2>2 DEF Crash, exit, Down
<1>2. sync' \in SyncRow /\ sync'.at = "off" /\ sync'.token = 0 /\ sync'.next = 0 /\ sync'.initial = <<>>
  BY <1>0 DEF SyncOff, SyncRow, Quiet
<1>3. chan' \in ChanRow /\ ing' \in IngRow /\ ing'.at = "off" /\ chan'.event = 0
  BY <1>0 DEF NoChan, IngOff, ChanRow, IngRow, Free
<1>4. drain' \in [Drains -> DrainRow] /\ \A d \in Drains : drain'[d].at = "rest" /\ drain'[d].rows = {}
  BY <1>0 DEF Resting, DrainRow
<1>5. SyncTyped' /\ NothingRuns'
  BY <1>0, <1>1, <1>2, <1>3, <1>4 DEF SyncTyped, NothingRuns
<1>6. Positions'
  <2>1. Arrived \in Nat
    BY SMT, <1>0 DEF SyncTyped, Arrived
  <2> QED
    BY SMT, <1>0, <1>2, <2>1, PositionsFrame
<1>7. Covered' /\ BatchExpects'
  BY <1>0, <1>2, CoveredFrame DEF BatchExpects, OnEvent
<1>8. OneHolder' /\ EffectsCount'
  BY <1>0, <1>2, <1>3, EffectFrame DEF OneHolder, OnEvent, Busy, Advances
<1>9. DrainsOwn'
  <2>1. "retry" \in Drains
    BY DEF Drains
  <2> QED
    BY <1>0, <1>4, <2>1 DEF DrainsOwn
<1>10. SendsCount'
  BY <1>0, <1>4 DEF SendsCount
<1> QED
  BY <1>5, <1>6, <1>7, <1>8, <1>9, <1>10 DEF SyncInv

\* shutdown: the sync owner is dropped, whatever it waited for.
LEMMA ShutdownStep ==
    ASSUME SyncInv, shutdown
    PROVE  SyncInv'
<1>0. /\ SyncTyped /\ Positions /\ Covered /\ OneHolder /\ EffectsCount /\ DrainsOwn /\ SendsCount
      /\ UNCHANGED <<server, store, legacy, tr, outbox, seen, chan, ing, drain>>
      /\ sync' = SyncOff /\ proc' = [proc EXCEPT !.mode = "stopping"]
  BY DEF SyncInv, shutdown
<1>1. proc' \in ProcRow /\ proc'.mode = "stopping"
  BY <1>0 DEF SyncTyped, ProcRow, Up
<1>2. sync' \in SyncRow /\ sync'.at = "off" /\ sync'.token = 0 /\ sync'.next = 0 /\ sync'.initial = <<>>
  BY <1>0 DEF SyncOff, SyncRow, Quiet
<1>3. SyncTyped' /\ NothingRuns'
  BY <1>0, <1>1, <1>2 DEF SyncTyped, NothingRuns, Up
<1>4. Positions'
  <2>1. Arrived \in Nat
    BY SMT, <1>0 DEF SyncTyped, Arrived
  <2> QED
    BY SMT, <1>0, <1>2, <2>1, PositionsFrame
<1>5. Covered' /\ BatchExpects'
  BY <1>0, <1>2, CoveredFrame DEF BatchExpects, OnEvent
<1>6. OneHolder'
  BY <1>0, <1>2 DEF OneHolder, OnEvent
<1>7. EffectsCount'
  BY <1>0, <1>2 DEF EffectsCount, Unapplied
<1>8. DrainsOwn' /\ SendsCount'
  BY <1>0, OutFrame
<1> QED
  BY <1>3, <1>4, <1>5, <1>6, <1>7, <1>8 DEF SyncInv

\* A step that changes nothing.
LEMMA SyncStutters ==
    ASSUME SyncInv, UNCHANGED syncVars
    PROVE  SyncInv'
<1>0. /\ SyncTyped /\ NothingRuns /\ Positions /\ UNCHANGED <<server, store, legacy, tr, outbox, seen, proc, sync, chan, ing, drain>>
  BY DEF SyncInv, syncVars
<1>1. SyncTyped' /\ NothingRuns' /\ SameWork(store', store)
  BY <1>0 DEF SyncTyped, NothingRuns, SameWork
<1>2. Arrived <= Arrived' /\ Arrived' <= NEvents
  BY SMT, <1>0 DEF Arrived, Positions, SyncTyped
<1> QED
  BY <1>0, <1>1, <1>2, WorkFrame

\* The tables are empty at first.
LEMMA SyncStarts ==
    ASSUME SyncInit
    PROVE  SyncInv
<1>1. /\ server = <<>> /\ legacy = NoLegacy /\ sync = SyncOff /\ chan = NoChan /\ ing = IngOff
      /\ tr = [e \in Event |-> "none"] /\ outbox = [e \in Event |-> [state |-> "none", owner |-> "none"]]
      /\ drain = [d \in Drains |-> Resting]
      /\ store = [phase |-> "none", base |-> 0, mark |-> 0, hold |-> FALSE, decision |-> "none",
                  digest |-> NoLegacy, epoch |-> 0, live |-> FALSE, batch |-> NoBatch,
                  receipt |-> [e \in Event |-> "none"]]
      /\ seen = [effects |-> [e \in Event |-> 0], sends |-> [e \in Event |-> 0], shown |-> {}, settled |-> {}]
      /\ proc = [mode |-> "down", enabled |-> FALSE, starts |-> 0, faults |-> 0]
  BY DEF SyncInit
<1>2. legacy \in LegacyRow /\ NoLegacy \in LegacyRow /\ legacy.mark = 0 /\ legacy.base = 0
  BY <1>1 DEF NoLegacy, LegacyRow
<1>3. NoBatch \in BatchRow
  BY DEF NoBatch, BatchRow
<1>4. store \in StoreRow /\ store.mark = 0 /\ store.base = 0 /\ \A e \in Event : store.receipt[e] = "none"
  BY <1>1, <1>2, <1>3 DEF StoreRow, Phase, Receipt
<1>5. sync \in SyncRow /\ sync.at = "off" /\ sync.token = 0 /\ sync.next = 0 /\ sync.initial = <<>>
  BY <1>1 DEF SyncOff, SyncRow, Quiet
<1>6. chan \in ChanRow /\ ing \in IngRow /\ ing.at = "off" /\ chan.event = 0
  BY <1>1 DEF NoChan, IngOff, ChanRow, IngRow, Free
<1>7. drain \in [Drains -> DrainRow] /\ \A d \in Drains : drain[d].at = "rest" /\ drain[d].rows = {}
  BY <1>1 DEF Resting, DrainRow
<1>8. /\ seen \in SeenRow /\ \A e \in Event : seen.effects[e] = 0 /\ seen.sends[e] = 0
  BY <1>1 DEF SeenRow
<1>9. tr \in [Event -> {"none", "ordinary", "retry"}] /\ outbox \in [Event -> OutRow] /\ \A e \in Event : outbox[e].state = "none"
  BY <1>1 DEF OutRow
<1>10. proc \in ProcRow /\ proc.mode = "down"
  BY ZenonT(60), <1>1 DEF ProcRow
<1>11. SyncTyped /\ NothingRuns
  BY SMTT(30), <1>1, <1>2, <1>4, <1>5, <1>6, <1>7, <1>8, <1>9, <1>10 DEF SyncTyped, NothingRuns
<1>12. Positions
  BY SMTT(30), <1>1, <1>2, <1>4, <1>5, SyncAssumption DEF Positions, Arrived
<1>13. Covered /\ BatchExpects
  BY SMT, <1>2, <1>4, <1>5 DEF Covered, WatermarkCovered, BatchExpects, OnEvent
<1>14. OneHolder /\ EffectsCount
  BY SMT, <1>4, <1>5, <1>6, <1>8 DEF OneHolder, EffectsCount, OnEvent, Busy
<1>15. DrainsOwn /\ SendsCount
  <2>1. "retry" \in Drains
    BY DEF Drains
  <2>2. DrainsOwn
    BY ZenonT(60), <1>6, <1>7, <1>9, <2>1 DEF DrainsOwn
  <2>3. SendsCount
    BY SMT, <1>7, <1>8, <1>9 DEF SendsCount
  <2> QED
    BY <2>2, <2>3
<1> QED
  BY <1>11, <1>12, <1>13, <1>14, <1>15 DEF SyncInv

\* Every step keeps it.
LEMMA SyncSteps ==
    ASSUME SyncInv, [SyncNext]_syncVars
    PROVE  SyncInv'
<1>1. CASE SyncStep
  BY ZenonT(60), <1>1, FetchSteps, BeginStep, ReserveSteps, DeliverStep, WaitStep, FinishStep, CompleteStep DEF SyncStep
<1>2. CASE IngressStep
  BY <1>2, TakeStep, RouteSteps, RetryStep, DisposeStep DEF IngressStep, handle
<1>3. CASE \E d \in Drains : DrainStep(d)
  BY <1>3, ClaimStep, SendStep, MarkSteps DEF DrainStep
<1>4. CASE Startup
  BY <1>4, StartSteps, ActivateStep, RebuildStep DEF Startup
<1> QED
  BY ZenonT(60), <1>1, <1>2, <1>3, <1>4, ArriveStep, LegacySteps, StartSteps, FetchSteps, RouteSteps, NoticeSteps, DownStep,
     ShutdownStep, SyncStutters DEF SyncNext

\* SyncInv holds in every state.
LEMMA SyncHolds == SyncSpec => []SyncInv
  BY SyncStarts, SyncSteps, PTL DEF SyncSpec

\* "Queue/permission/reply processing must complete its disposition before the batch
\* can advance" (docs/integrations/UPSTREAM_RECOVERY.md): for every timeline, every
\* number of restarts, faults and expiries, the watermark of complete_batch is never
\* past an event whose handling did not end in a disposition.
THEOREM WatermarkStaysCovered == SyncSpec => []WatermarkCovered
<1>1. SyncInv => WatermarkCovered
  BY DEF SyncInv, Covered
<1> QED
  BY <1>1, SyncHolds, PTL

\* An event has at most one effect and its notice is sent at most once, over any
\* number of restarts: reserve_event replays nothing that is in doubt, and
\* claim_projections gives a row to one drain only.
THEOREM EffectsStayOnce == SyncSpec => []AppliedOnce
<1>1. SyncInv => AppliedOnce
  BY DEF SyncInv, EffectsCount, SendsCount, AppliedOnce, EffectOnce, NoticeOnce
<1> QED
  BY <1>1, SyncHolds, PTL
=============================================================================
