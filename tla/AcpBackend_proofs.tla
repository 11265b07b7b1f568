-------------------------- MODULE AcpBackend_proofs --------------------------
(***************************************************************************)
(* Proofs about AcpBackend for any number of tasks, agents and frames: the *)
(* steps of the calls and of the router, the invariant and what follows.   *)
(***************************************************************************)
EXTENDS AcpLine_proofs

\* Zenon proves a step that names no other prover.
USE Zenon

-----------------------------------------------------------------------------
(* A step of a call: what it may do to the lines, the slot and the lease.   *)

\* No line comes to carry a prompt, and none gets a process, unless the gate is open.
LinesStep ==
    /\ tp' \in [Transport -> Line] /\ Lines'
    /\ \A n \in Transport : \A w, id : Carries(tp'[n], w, id) => Carries(tp[n], w, id)
    /\ gate.phase = "open" \/ \A n \in Transport : tp'[n].child = "up" => tp[n].child = "up"

GateStep == gate' \in Gates /\ gate'.phase = gate.phase /\ router' = router

\* The holder t of the lease keeps it or gives it back.
DispStep(d, e, t) ==
    /\ e \in DispRow /\ e.lease \in {t, NoTask} /\ ~e.raced /\ e.client \in Transport \cup {0}
    /\ e.blocked => e.lease = NoTask
    /\ d.overran \subseteq e.overran

\* A call that does something holds the lease, and the resource needs no recovery.
LEMMA Owner ==
    ASSUME AcpInv, NEW t \in Tasks, call[t].at \notin Resting
    PROVE  /\ disp.lease = t /\ ~disp.blocked /\ t # NoTask /\ ~disp.raced /\ disp.client \in Transport \cup {0}
           /\ disp \in DispRow /\ call \in [Tasks -> CallRow] /\ call[t] \in CallRow
           /\ CallShape(call[t], t) /\ CallFits(call[t], disp.row, disp.client, gate.phase)
           /\ call[t].want # 0 => Awaited(tp[call[t].tp], call[t], t, disp.row)
           /\ call[t].text \subseteq {t} \cup disp.overran
<1>1. t # NoTask
    BY TaskAssumption
<1>2. CallSound(t) /\ Slots /\ Typed
    BY DEF AcpInv, Calls
<1> QED BY <1>1, <1>2 DEF CallSound, Slots, Typed

\* There is one prompt at work as long as no other comes.
LEMMA OneKeeps ==
    ASSUME AcpInv, \A n \in Transport : \A w, id : Carries(tp'[n], w, id) => Carries(tp[n], w, id),
           disp.overran \subseteq disp'.overran
    PROVE  OnePrompt'
<1>1. ASSUME NEW m \in Transport, NEW k \in Transport, NEW v, NEW w, NEW i, NEW j,
             Carries(tp'[m], v, i), Carries(tp'[k], w, j), v \notin disp'.overran, w \notin disp'.overran
      PROVE  m = k /\ v = w /\ i = j
    <2>1. Carries(tp[m], v, i) /\ Carries(tp[k], w, j) /\ v \notin disp.overran /\ w \notin disp.overran
        BY <1>1
    <2> QED BY <2>1 DEF AcpInv, OnePrompt
<1> QED BY <1>1 DEF OnePrompt

\* A step of the holder of the lease keeps the invariant when its own call stays sound
\* and the turn it ran is still at its stage, or is over.
LEMMA CallKeeps ==
    ASSUME AcpInv, NEW t \in Tasks, call[t].at \notin Resting, LinesStep, GateStep, DispStep(disp, disp', t),
           call' \in [Tasks -> CallRow], \A u \in Tasks : u # t => call'[u] = call[u],
           CallSound(t)',
           \A n \in Transport : \A id : Carries(tp'[n], t, id) /\ StageOf(t, n, id) =>
               t \in disp'.overran \/ disp'.blocked \/ (disp'.lease = t /\ StageOf(t, n, id)')
    PROVE  AcpInv'
<1>1. Typed /\ Lines /\ Calls /\ Slots /\ Leased /\ OnePrompt /\ RouterSound
    BY DEF AcpInv
<1>2. disp.lease = t /\ ~disp.blocked /\ t # NoTask
    BY Owner
<1>3. /\ disp' \in DispRow /\ disp'.lease \in {t, NoTask} /\ ~disp'.raced /\ disp'.client \in Transport \cup {0}
      /\ disp'.blocked => disp'.lease = NoTask
      /\ disp.overran \subseteq disp'.overran
    BY DEF DispStep
<1>4. Typed'
    BY <1>1, <1>3 DEF Typed, LinesStep, GateStep
<1>5. Slots'
    BY <1>3 DEF Slots
<1>6. ASSUME NEW u \in Tasks PROVE CallSound(u)'
    <2>1. CASE u = t
        BY <2>1
    <2>2. CASE u # t
        <3>1. CallSound(u) /\ call'[u] = call[u] /\ u # NoTask
            BY <2>2, <1>1, TaskAssumption DEF Calls
        <3>2. call[u].at \in Resting /\ disp'.lease # u
            BY <3>1, <2>2, <1>2, <1>3 DEF CallSound
        <3>3. call[u].want = 0 /\ CallShape(call[u], u)
            BY <3>1, <3>2 DEF CallSound, CallShape
        <3>4. CallFits(call[u], disp'.row, disp'.client, gate'.phase)
            BY <3>2 DEF CallFits, Resting
        <3>5. call[u].text \subseteq {u} \cup disp'.overran
            BY <3>1, <1>3 DEF CallSound
        <3> QED BY <3>1, <3>2, <3>3, <3>4, <3>5 DEF CallSound
    <2> QED BY <2>1, <2>2
<1>7. ASSUME NEW n \in Transport, NEW w, NEW id, Carries(tp'[n], w, id), w \notin disp'.overran, ~disp'.blocked
      PROVE  w \in Tasks /\ disp'.lease = w /\ StageOf(w, n, id)'
    <2>1. Carries(tp[n], w, id) /\ w \notin disp.overran
        BY <1>3, <1>7 DEF LinesStep
    <2>2. w = t /\ StageOf(t, n, id)
        BY <2>1, <1>1, <1>2 DEF Leased
    <2> QED BY <2>2, <1>7
<1>8. Leased'
    BY <1>7 DEF Leased
<1>9. OnePrompt'
    BY <1>1, <1>3, OneKeeps DEF LinesStep
<1>10. RouterSound'
    <2>1. gate'.phase = gate.phase /\ router' = router
        BY DEF GateStep
    <2>2. gate.phase = "open" => router.seen = "none"
        BY <1>1 DEF RouterSound
    <2>3. QualifiedMeansNoChild'
        BY <2>1, <2>2, <1>1 DEF QualifiedMeansNoChild, RouterSound, Up, LinesStep
    <2> QED BY <2>1, <2>3, <1>1 DEF RouterSound
<1>11. Lines'
    BY DEF LinesStep
<1> QED BY <1>4, <1>5, <1>6, <1>8, <1>9, <1>10, <1>11 DEF AcpInv, Calls

\* The records of a call.
LEMMA Calls1 ==
    /\ NoAnswer \in Answer /\ NoAnswer.kind = "none"
    /\ FreshCall \in CallRow
    /\ Done \in CallRow /\ Done.at = "done" /\ Done.goal = "deliver" /\ Done.want = 0 /\ Done.ans.kind = "none"
    /\ Done.text = {} /\ Done.at \in Resting
<1>1. NoAnswer \in Answer /\ NoAnswer.kind = "none"
    BY SMT DEF NoAnswer, Answer, Answers1, Caller
<1>2. FreshCall \in CallRow
    <2>1. PICK a \in Answer, z \in Nat : a = NoAnswer /\ z = 0
        BY SMT, <1>1
    <2>2. FreshCall = [at |-> "acquire", goal |-> "deliver", then |-> "none", own |-> FALSE, tp |-> z,
                       want |-> z, ans |-> a, text |-> {}]
        BY <2>1 DEF FreshCall
    <2> QED BY <2>2 DEF CallRow, Stages, Thens
<1>3. Done \in CallRow
    BY <1>2 DEF Done, CallRow, Stages
<1>4. /\ Done.at = "done" /\ Done.goal = "deliver" /\ Done.want = 0 /\ Done.ans = NoAnswer /\ Done.text = {}
    BY DEF Done, FreshCall
<1> QED BY <1>1, <1>2, <1>3, <1>4 DEF Resting

\* One call changes.
LEMMA SetCall ==
    ASSUME AcpInv, NEW t \in Tasks, NEW d \in CallRow, call' = Set(t, d)
    PROVE  call' \in [Tasks -> CallRow] /\ call'[t] = d /\ \A u \in Tasks : u # t => call'[u] = call[u]
<1>1. call \in [Tasks -> CallRow]
    BY DEF AcpInv, Typed
<1> QED BY <1>1 DEF Set

\* A call that ends: it gives the lease back, and the resource needs recovery, or the
\* turn overran, or there was no turn.
LEMMA EndKeeps ==
    ASSUME AcpInv, NEW t \in Tasks, call[t].at \notin Resting, LinesStep, GateStep, DispStep(disp, disp', t),
           call' = Set(t, Done), disp'.lease = NoTask,
           \/ disp'.blocked \/ t \in disp'.overran
           \/ \A n \in Transport : \A id : Carries(tp[n], t, id) => ~StageOf(t, n, id)
    PROVE  AcpInv'
<1>1. /\ call' \in [Tasks -> CallRow] /\ call'[t] = Done /\ \A u \in Tasks : u # t => call'[u] = call[u]
    BY Calls1, SetCall
<1>2. CallSound(t)'
    <2>1. t # NoTask
        BY TaskAssumption
    <2>2. CallShape(Done, t)
        BY Calls1 DEF CallShape, Resting, Waiting, Placed
    <2>3. CallFits(Done, disp'.row, disp'.client, gate'.phase)
        BY Calls1 DEF CallFits
    <2> QED BY <2>1, <2>2, <2>3, <1>1, Calls1 DEF CallSound
<1>3. \A n \in Transport : \A id : Carries(tp'[n], t, id) => Carries(tp[n], t, id)
    BY DEF LinesStep
<1> QED BY <1>1, <1>2, <1>3, CallKeeps

\* A call that goes on as d.
LEMMA MoveKeeps ==
    ASSUME AcpInv, NEW t \in Tasks, call[t].at \notin Resting, LinesStep, GateStep, DispStep(disp, disp', t),
           NEW d \in CallRow, call' = Set(t, d), disp'.lease = t,
           d.at \notin Resting, CallShape(d, t), CallFits(d, disp'.row, disp'.client, gate'.phase),
           d.want # 0 => Awaited(tp'[d.tp], d, t, disp'.row),
           d.text = call[t].text,
           \A n \in Transport : \A id : Carries(tp[n], t, id) /\ StageOf(t, n, id) =>
               Stage(d, tp'[n].loop, n, id, disp'.client, gate'.phase)
    PROVE  AcpInv'
<1>1. /\ call' \in [Tasks -> CallRow] /\ call'[t] = d /\ \A u \in Tasks : u # t => call'[u] = call[u]
    BY SetCall
<1>2. d.text \subseteq {t} \cup disp'.overran
    <2>1. call[t].text \subseteq {t} \cup disp.overran
        BY Owner
    <2> QED BY <2>1 DEF DispStep
<1>3. CallSound(t)'
    BY <1>1, <1>2 DEF CallSound
<1>4. ASSUME NEW n \in Transport, NEW id, Carries(tp'[n], t, id), StageOf(t, n, id) PROVE StageOf(t, n, id)'
    BY <1>1, <1>4 DEF StageOf, LinesStep
<1> QED BY <1>1, <1>3, <1>4, CallKeeps

-----------------------------------------------------------------------------
(* The lines in the steps of a call.                                        *)

\* Something that is no request is put into the channel, or the handle taken.
Touches(x, y) ==
    /\ y.loop = x.loop /\ y.child = x.child /\ y.alive = x.alive /\ y.next = x.next /\ y.pending = x.pending
    /\ y.writing = x.writing /\ y.stdout = x.stdout /\ y.jobs = x.jobs
    /\ \/ y.out = x.out
       \/ x.loop # "done" /\ \E m \in Message : ~IsRequest(m) /\ y.out = Append(x.out, m)

AllTouch(f, g) == f \in [Transport -> Line] /\ g \in [Transport -> Line] /\ \A n \in Transport : Touches(f[n], g[n])

LinesKeep == \A n \in Transport : Keeps(tp[n], tp'[n]) /\ tp'[n].loop = tp[n].loop

\* Such lines stay sound.
LEMMA TouchKeeps ==
    ASSUME AcpInv, AllTouch(tp, tp')
    PROVE  LinesStep /\ LinesKeep
<1>1. ASSUME NEW n \in Transport
      PROVE  /\ LineSound(tp'[n]) /\ LoopSound(tp'[n]) /\ Keeps(tp[n], tp'[n])
             /\ tp'[n].loop = tp[n].loop /\ tp'[n].child = tp[n].child
    <2>1. PICK x \in Line, y \in Line : x = tp[n] /\ y = tp'[n] /\ LineSound(x) /\ LoopSound(x) /\ Touches(x, y)
        BY Parts DEF AllTouch
    <2>2. Lessens(x, y)
        BY <2>1 DEF Touches, Lessens, Within
    <2>3. LineSound(y) /\ Keeps(x, y)
        BY <2>1, <2>2, LessLine
    <2>4. LoopSound(y)
        BY <2>1 DEF Touches, LoopSound
    <2> QED BY <2>1, <2>3, <2>4 DEF Touches
<1>2. Lines'
    BY <1>1 DEF Lines
<1> QED BY <1>1, <1>2 DEF LinesStep, LinesKeep, AllTouch, Keeps

\* Nothing happens to them.
LEMMA TouchSame ==
    ASSUME AcpInv
    PROVE  AllTouch(tp, tp)
    BY DEF AllTouch, Touches, AcpInv, Typed

\* The handle is taken.
LEMMA TouchTaken ==
    ASSUME NEW f, NEW g, AllTouch(f, g), NEW n \in Transport
    PROVE  AllTouch(f, [g EXCEPT ![n].taken = TRUE])
<1>1. f \in [Transport -> Line] /\ g \in [Transport -> Line] /\ g[n] \in Line
    BY DEF AllTouch
<1>2. PICK h : h = [g EXCEPT ![n].taken = TRUE]
    OBVIOUS
<1>3. h[n] = [g[n] EXCEPT !.taken = TRUE] /\ \A k \in Transport : k # n => h[k] = g[k]
    BY <1>1, <1>2
<1>4. h[n] \in Line
    BY <1>1, <1>3 DEF Line
<1>5. h \in [Transport -> Line]
    BY <1>1, <1>2, <1>3, <1>4
<1>6. Touches(f[n], h[n])
    <2>1. PICK x \in Line, y \in Line, z \in Line : x = f[n] /\ y = g[n] /\ z = h[n] /\ Touches(x, y)
        BY <1>1, <1>4 DEF AllTouch
    <2>2. /\ z.loop = y.loop /\ z.child = y.child /\ z.alive = y.alive /\ z.next = y.next /\ z.pending = y.pending
          /\ z.writing = y.writing /\ z.stdout = y.stdout /\ z.jobs = y.jobs /\ z.out = y.out
        BY <1>3, <2>1 DEF Line
    <2>3. Touches(x, z)
        BY <2>1, <2>2 DEF Touches
    <2> QED BY <2>1, <2>3
<1>7. \A k \in Transport : Touches(f[k], h[k])
    BY <1>3, <1>6 DEF AllTouch
<1> QED BY <1>1, <1>2, <1>5, <1>7 DEF AllTouch

\* A message is put into the channel.
LEMMA TouchAppend ==
    ASSUME AcpInv, NEW n \in Transport, tp[n].loop # "done", NEW m \in Message, ~IsRequest(m)
    PROVE  AllTouch(tp, [tp EXCEPT ![n].out = Append(@, m)])
<1>1. tp \in [Transport -> Line] /\ tp[n] \in Line /\ tp[n].out \in Seq(Message)
    BY Parts
<1>2. PICK q \in Seq(Message) : q = Append(tp[n].out, m)
    <2>1. Append(tp[n].out, m) \in Seq(Message)
        BY SMT, <1>1
    <2> QED BY <2>1
<1>3. PICK h : h = [tp EXCEPT ![n].out = Append(@, m)]
    OBVIOUS
<1>4. h[n] = [tp[n] EXCEPT !.out = q] /\ \A k \in Transport : k # n => h[k] = tp[k]
    BY <1>1, <1>2, <1>3
<1>5. h[n] \in Line
    BY <1>1, <1>2, <1>4 DEF Line
<1>6. h \in [Transport -> Line]
    BY <1>1, <1>3, <1>4, <1>5
<1>7. Touches(tp[n], h[n])
    <2>1. PICK x, y : x \in Line /\ x = tp[n] /\ y = h[n]
        BY <1>1
    <2>2. /\ y.loop = x.loop /\ y.child = x.child /\ y.alive = x.alive /\ y.next = x.next /\ y.pending = x.pending
          /\ y.writing = x.writing /\ y.stdout = x.stdout /\ y.jobs = x.jobs /\ y.out = q
        BY <1>4, <2>1 DEF Line
    <2>3. Touches(x, y)
        BY <2>1, <2>2, <1>2 DEF Touches
    <2> QED BY <2>1, <2>3
<1>8. \A k \in Transport : Touches(tp[k], h[k])
    BY <1>4, <1>7 DEF Touches
<1> QED BY <1>1, <1>3, <1>6, <1>8 DEF AllTouch

\* The caller tells the loop that it gave up.
LEMMA TouchAbandoned ==
    ASSUME AcpInv, NEW t \in Tasks
    PROVE  AllTouch(tp, Abandoned(t))
<1>1. call[t] \in CallRow /\ CallShape(call[t], t)
    BY DEF AcpInv, Typed, Calls, CallSound
<1>2. CASE call[t].want # 0 /\ tp[call[t].tp].loop # "done"
           /\ Abandoned(t) = [tp EXCEPT ![call[t].tp].out = Append(@, Msg("cancel", call[t].want, t, "none", 0))]
    <2>1. PICK n \in Transport : n = call[t].tp
        BY <1>1, <1>2 DEF CallShape, Placed
    <2>2. PICK m \in Message : m = Msg("cancel", call[t].want, t, "none", 0) /\ m.kind = "cancel"
        <3>1. PICK w \in Nat : w = call[t].want
            BY <1>1 DEF CallRow
        <3>2. t \in Caller
            BY DEF Caller
        <3>3. Msg("cancel", w, t, "none", 0) \in [kind : Kinds, id : Nat, by : Caller, method : Methods, session : Nat]
            BY SMT, <3>2 DEF Msg, Kinds, Methods
        <3>4. Msg("cancel", w, t, "none", 0).kind = "cancel"
            BY DEF Msg
        <3>5. Msg("cancel", w, t, "none", 0) \in Message
            BY <3>3, <3>4 DEF Message, Addressed
        <3> QED BY <3>1, <3>4, <3>5
    <2>3. ~IsRequest(m) /\ tp[n].loop # "done" /\ Abandoned(t) = [tp EXCEPT ![n].out = Append(@, m)]
        BY <1>2, <2>1, <2>2 DEF IsRequest
    <2> QED BY <2>3, TouchAppend
<1>3. CASE Abandoned(t) = tp
    BY <1>3, TouchSame
<1> QED BY <1>2, <1>3 DEF Abandoned

\* A request is sent; it is carried when it is a prompt, and its caller waits for it.
LEMMA SentLines ==
    ASSUME AcpInv, NEW n \in Transport, NEW t \in Tasks, NEW method \in Methods, NEW session \in Nat,
           tp[n].loop # "done", tp' = Sent(n, t, method, session)
    PROVE  /\ tp' \in [Transport -> Line] /\ Lines' /\ NextId(n) \in Nat \ {0}
           /\ \A k \in Transport : tp'[k].loop = tp[k].loop /\ tp'[k].child = tp[k].child
           /\ \A k \in Transport : \A w, id : Carries(tp'[k], w, id) =>
                  Carries(tp[k], w, id) \/ (method = "prompt" /\ k = n /\ w = t /\ id = NextId(n))
           /\ \A c, row : c.want = NextId(n) /\ Fits(c, row, Msg("request", NextId(n), t, method, session)) =>
                  Awaited(tp'[n], c, t, row)
<1>1. /\ tp \in [Transport -> Line] /\ tp[n] \in Line /\ LineSound(tp[n]) /\ LoopSound(tp[n])
      /\ tp[n].next \in Nat /\ tp[n].out \in Seq(Message)
    BY Parts
<1>2. PICK p \in Nat \ {0} : p = NextId(n) /\ p = tp[n].next + 1
    BY SMT, <1>1 DEF NextId
<1>3. PICK m \in Message : /\ m = Msg("request", NextId(n), t, method, session)
                           /\ m.kind = "request" /\ m.id = p /\ m.by = t /\ m.method = method
    <2>1. t \in Caller
        BY DEF Caller
    <2>2. /\ Msg("request", p, t, method, session) \in [kind : Kinds, id : Nat, by : Caller, method : Methods, session : Nat]
          /\ Msg("request", p, t, method, session).kind = "request" /\ Msg("request", p, t, method, session).id = p
          /\ Msg("request", p, t, method, session).by = t /\ Msg("request", p, t, method, session).method = method
        BY SMT, <2>1 DEF Msg, Kinds
    <2>3. p # 0
        OBVIOUS
    <2>4. Msg("request", p, t, method, session) \in Message
        BY <2>2, <2>3 DEF Message, Addressed
    <2> QED BY <2>2, <2>4, <1>2
<1>4. PICK q \in Seq(Message) : q = Append(tp[n].out, m)
    <2>1. Append(tp[n].out, m) \in Seq(Message)
        BY SMT, <1>1
    <2> QED BY <2>1
<1>5. PICK x, y : x \in Line /\ x = tp[n] /\ y = tp'[n]
    BY <1>1
<1>6. y = [x EXCEPT !.next = p, !.out = q] /\ \A k \in Transport : k # n => tp'[k] = tp[k]
    BY <1>1, <1>2, <1>3, <1>4, <1>5 DEF Sent, Line
<1>7. y \in Line
    BY <1>2, <1>4, <1>5, <1>6 DEF Line
<1>8. tp' \in [Transport -> Line]
    BY <1>1, <1>5, <1>6, <1>7 DEF Sent
<1>9. /\ y.loop = x.loop /\ y.child = x.child /\ y.alive = x.alive /\ y.next = p /\ y.pending = x.pending
      /\ y.writing = x.writing /\ y.stdout = x.stdout /\ y.jobs = x.jobs /\ y.out = q
    BY <1>5, <1>6 DEF Line
<1>10. /\ LineSound(y) /\ \A w, id : Carries(y, w, id) => Carries(x, w, id) \/ IsPrompt(m, w, id)
       /\ \A c, row : c.want = m.id /\ Fits(c, row, m) => Awaited(y, c, m.by, row)
    <2>1. /\ LineSound(x) /\ y.next = x.next + 1 /\ IsRequest(m) /\ m.id = x.next + 1 /\ y.out = Append(x.out, m)
          /\ y.writing = x.writing /\ y.jobs = x.jobs /\ y.stdout = x.stdout
        BY <1>1, <1>2, <1>3, <1>4, <1>5, <1>9 DEF IsRequest
    <2> QED BY <2>1, <1>5, <1>7, SendLine
<1>11. LoopSound(y)
    BY <1>1, <1>5, <1>9 DEF LoopSound
<1>12. Lines'
    BY <1>5, <1>6, <1>10, <1>11 DEF AcpInv, Lines
<1>13. \A k \in Transport : tp'[k].loop = tp[k].loop /\ tp'[k].child = tp[k].child
    BY ZenonT(30), <1>5, <1>6, <1>9
<1>14. \A k \in Transport : \A w, id : Carries(tp'[k], w, id) =>
                  Carries(tp[k], w, id) \/ (method = "prompt" /\ k = n /\ w = t /\ id = NextId(n))
    <2> SUFFICES ASSUME NEW k \in Transport, NEW w, NEW id, Carries(tp'[k], w, id), ~Carries(tp[k], w, id)
                 PROVE  method = "prompt" /\ k = n /\ w = t /\ id = NextId(n)
        OBVIOUS
    <2>1. k = n
        BY <1>6
    <2>2. IsPrompt(m, w, id)
        BY <2>1, <1>5, <1>10
    <2> QED BY <2>1, <2>2, <1>2, <1>3 DEF IsPrompt
<1>15. \A c, row : c.want = NextId(n) /\ Fits(c, row, Msg("request", NextId(n), t, method, session)) =>
                  Awaited(tp'[n], c, t, row)
    <2>1. m.id = NextId(n) /\ m.by = t /\ \A c, row : c.want = m.id /\ Fits(c, row, m) => Awaited(tp'[n], c, m.by, row)
        BY <1>2, <1>3, <1>5, <1>10
    <2>2. \A c, row : c.want = NextId(n) /\ Fits(c, row, m) => Awaited(tp'[n], c, t, row)
        BY <2>1
    <2> QED BY <2>2, <1>3
<1> QED BY <1>2, <1>8, <1>12, <1>13, <1>14, <1>15

-----------------------------------------------------------------------------
(* The dispatcher's state in the steps of a call.                           *)

\* A fault is counted.
LEMMA CountedForm ==
    ASSUME NEW d \in DispRow
    PROVE  SameDisp(d, [d EXCEPT !.faults = @ + 1])
<1>1. d.faults + 1 \in Nat
    BY SMT DEF DispRow
<1>2. PICK k \in Nat : k = d.faults + 1
    BY <1>1
<1>3. [d EXCEPT !.faults = @ + 1] = [d EXCEPT !.faults = k]
    BY <1>2
<1>4. [d EXCEPT !.faults = k] \in DispRow
    BY DEF DispRow
<1> QED BY <1>3, <1>4 DEF SameDisp, DispRow

\* Locks are taken or freed.
LEMMA LockForms ==
    ASSUME NEW d \in DispRow, NEW c \in Caller, NEW t \in Tasks
    PROVE  /\ SameDisp(d, [d EXCEPT !.connecting = c])
           /\ SameDisp(d, [d EXCEPT !.session_gate = c])
           /\ SameDisp(d, Released(t, d))
<1>1. ASSUME NEW a \in Caller, NEW b \in Caller
      PROVE  SameDisp(d, [d EXCEPT !.connecting = a, !.session_gate = b])
    <2>1. [d EXCEPT !.connecting = a, !.session_gate = b] \in DispRow
        BY DEF DispRow
    <2> QED BY <2>1 DEF SameDisp, DispRow
<1>2. d.connecting \in Caller /\ d.session_gate \in Caller /\ NoTask \in Caller
    BY DEF DispRow, Caller
<1>3. SameDisp(d, Released(t, d))
    <2>1. PICK a \in Caller, b \in Caller : /\ a = IF d.connecting = t THEN NoTask ELSE d.connecting
                                            /\ b = IF d.session_gate = t THEN NoTask ELSE d.session_gate
        BY <1>2
    <2>2. Released(t, d) = [d EXCEPT !.connecting = a, !.session_gate = b]
        BY <2>1 DEF Released
    <2> QED BY <2>2, <1>1
<1>4. SameDisp(d, [d EXCEPT !.connecting = c])
    <2>1. [d EXCEPT !.connecting = c] \in DispRow
        BY DEF DispRow
    <2> QED BY <2>1 DEF SameDisp, DispRow
<1>5. SameDisp(d, [d EXCEPT !.session_gate = c])
    <2>1. [d EXCEPT !.session_gate = c] \in DispRow
        BY DEF DispRow
    <2> QED BY <2>1 DEF SameDisp, DispRow
<1> QED BY <1>3, <1>4, <1>5

\* The slot is set.
LEMMA SlotForm ==
    ASSUME NEW d \in DispRow, NEW n \in Nat
    PROVE  /\ [d EXCEPT !.client = n] \in DispRow /\ [d EXCEPT !.client = n].client = n
           /\ [d EXCEPT !.client = n].lease = d.lease /\ [d EXCEPT !.client = n].blocked = d.blocked
           /\ [d EXCEPT !.client = n].row = d.row /\ [d EXCEPT !.client = n].raced = d.raced
           /\ [d EXCEPT !.client = n].overran = d.overran
<1>1. [d EXCEPT !.client = n] \in DispRow
    BY DEF DispRow
<1> QED BY <1>1 DEF DispRow

\* The session is marked.
LEMMA StateForm ==
    ASSUME NEW d \in DispRow, NEW state \in {"ready", "prompting"}
    PROVE  /\ set_state(d, state) \in DispRow /\ set_state(d, state).client = d.client
           /\ set_state(d, state).lease = d.lease /\ set_state(d, state).blocked = d.blocked
           /\ set_state(d, state).raced = d.raced /\ set_state(d, state).overran = d.overran
<1>1. PICK row \in [id : Nat, state : {"none", "ready", "prompting"}] : row = [d.row EXCEPT !.state = state]
    <2>1. [d.row EXCEPT !.state = state] \in [id : Nat, state : {"none", "ready", "prompting"}]
        BY DEF DispRow
    <2> QED BY <2>1
<1>2. set_state(d, state) = [d EXCEPT !.row = row]
    BY <1>1 DEF set_state
<1>3. [d EXCEPT !.row = row] \in DispRow
    BY <1>1 DEF DispRow
<1> QED BY <1>2, <1>3 DEF DispRow

\* What the holder of the lease may make of the dispatcher before it ends.
DispNow(d, t) ==
    /\ d \in DispRow /\ d.lease = t /\ ~d.blocked /\ ~d.raced /\ d.client \in Transport \cup {0}
    /\ d.overran = disp.overran

\* It may count a fault, free its locks, mark the session.
LEMMA DispNows ==
    ASSUME AcpInv, NEW t \in Tasks, call[t].at \notin Resting
    PROVE  /\ DispNow(disp, t) /\ DispNow(Counted, t) /\ DispNow(Released(t, Counted), t)
           /\ DispNow(set_state(disp, "ready"), t) /\ DispNow([disp EXCEPT !.connecting = NoTask], t)
           /\ disp.client = 0 \/ disp.client \in Transport
           /\ Counted.client = disp.client /\ Released(t, Counted).client = disp.client
           /\ set_state(disp, "ready").client = disp.client
<1>1. /\ disp.lease = t /\ ~disp.blocked /\ ~disp.raced /\ disp.client \in Transport \cup {0} /\ disp \in DispRow
    BY Owner
<1>2. SameDisp(disp, Counted)
    BY <1>1, CountedForm DEF Counted
<1>3. Counted \in DispRow
    BY <1>2 DEF SameDisp
<1>4. NoTask \in Caller
    BY DEF Caller
<1>5. SameDisp(Counted, Released(t, Counted))
    <2>1. PICK d \in DispRow : d = Counted
        BY <1>3
    <2> QED BY <2>1, <1>4, LockForms
<1>6. SameDisp(disp, [disp EXCEPT !.connecting = NoTask])
    <2>1. PICK c \in Caller : c = NoTask
        BY <1>4
    <2>2. SameDisp(disp, [disp EXCEPT !.connecting = c])
        BY <1>1, LockForms
    <2> QED BY <2>1, <2>2
<1>7. DispNow(set_state(disp, "ready"), t) /\ set_state(disp, "ready").client = disp.client
    <2>1. PICK s \in {"ready", "prompting"} : s = "ready"
        OBVIOUS
    <2>2. PICK d \in DispRow : d = disp
        BY <1>1
    <2>3. /\ set_state(d, s) \in DispRow /\ set_state(d, s).client = d.client
          /\ set_state(d, s).lease = d.lease /\ set_state(d, s).blocked = d.blocked
          /\ set_state(d, s).raced = d.raced /\ set_state(d, s).overran = d.overran
        BY StateForm
    <2>4. DispNow(set_state(d, s), t)
        BY <1>1, <2>2, <2>3 DEF DispNow
    <2> QED BY <2>1, <2>2, <2>3, <2>4
<1>8. \A d, e : DispNow(d, t) /\ SameDisp(d, e) => DispNow(e, t) /\ e.client = d.client
    BY DEF DispNow, SameDisp
<1>9. DispNow(disp, t)
    BY <1>1 DEF DispNow
<1>10. DispNow(Counted, t) /\ Counted.client = disp.client
    BY <1>2, <1>8, <1>9
<1>11. DispNow(Released(t, Counted), t) /\ Released(t, Counted).client = Counted.client
    BY <1>5, <1>8, <1>10
<1>12. DispNow([disp EXCEPT !.connecting = NoTask], t)
    BY <1>6, <1>8, <1>9
<1> QED BY <1>1, <1>7, <1>9, <1>10, <1>11, <1>12

\* The lease is given back.
LEMMA FreedForm ==
    ASSUME NEW t \in Tasks, NEW d, DispNow(d, t), NEW blocked \in BOOLEAN, NEW overran \in SUBSET Caller,
           disp.overran \subseteq overran,
           disp' = [Freed(t, d) EXCEPT !.blocked = blocked, !.overran = overran]
    PROVE  DispStep(disp, disp', t) /\ disp'.lease = NoTask /\ disp'.blocked = blocked /\ disp'.overran = overran
<1>1. d \in DispRow /\ d.lease = t /\ NoTask \in Caller
    BY DEF DispNow, Caller
<1>2. Freed(t, d) = [d EXCEPT !.lease = NoTask]
    BY <1>1 DEF Freed
<1>3. PICK e \in DispRow : e = Freed(t, d) /\ e.lease = NoTask /\ e.raced = d.raced /\ e.client = d.client
    <2>1. [d EXCEPT !.lease = NoTask] \in DispRow
        BY <1>1 DEF DispRow
    <2>2. [d EXCEPT !.lease = NoTask].lease = NoTask /\ [d EXCEPT !.lease = NoTask].raced = d.raced
          /\ [d EXCEPT !.lease = NoTask].client = d.client
        BY <1>1 DEF DispRow
    <2> QED BY <2>1, <2>2, <1>2
<1>4. disp' = [e EXCEPT !.blocked = blocked, !.overran = overran]
    BY <1>3
<1>5. [e EXCEPT !.blocked = blocked, !.overran = overran] \in DispRow
    BY DEF DispRow
<1>6. /\ disp' \in DispRow /\ disp'.lease = e.lease /\ disp'.raced = e.raced /\ disp'.client = e.client
      /\ disp'.blocked = blocked /\ disp'.overran = overran
    BY <1>4, <1>5 DEF DispRow
<1> QED BY <1>3, <1>6 DEF DispStep, DispNow

\* A turn that failed.
LEMMA FailedKeeps ==
    ASSUME AcpInv, NEW t \in Tasks, call[t].at \notin Resting, LinesStep, GateStep,
           NEW d, DispNow(d, t), NEW exited \in BOOLEAN, FailedTurn(t, exited, d),
           exited => \A n \in Transport : \A id : Carries(tp[n], t, id) => ~StageOf(t, n, id)
    PROVE  AcpInv'
<1>1. PICK over \in {FALSE, ~exited /\ OverLimit(t)} :
          /\ call' = Set(t, Done)
          /\ disp' = [Freed(t, d) EXCEPT !.blocked = @ \/ ~(exited \/ over),
                                         !.overran = IF over THEN @ \cup {t} ELSE @]
    BY DEF FailedTurn
<1>2. over \in BOOLEAN
    BY DEF OverLimit
<1>3. /\ Freed(t, d).blocked = FALSE /\ Freed(t, d).overran = disp.overran /\ disp.overran \in SUBSET Caller /\ t \in Caller
    <2>1. d \in DispRow /\ d.blocked = FALSE /\ d.overran = disp.overran
        BY DEF DispNow, DispRow
    <2>2. d.overran \in SUBSET Caller
        BY <2>1 DEF DispRow
    <2>3. Freed(t, d).blocked = d.blocked /\ Freed(t, d).overran = d.overran
        BY <2>1 DEF Freed, DispRow
    <2> QED BY <2>1, <2>2, <2>3 DEF Caller
<1>4. PICK blocked \in BOOLEAN : blocked = ~(exited \/ over)
    BY <1>2
<1>5. PICK overran \in SUBSET Caller : overran = IF over THEN disp.overran \cup {t} ELSE disp.overran
    BY <1>2, <1>3
<1>6. disp' = [Freed(t, d) EXCEPT !.blocked = blocked, !.overran = overran]
    BY <1>1, <1>3, <1>4, <1>5
<1>7. disp.overran \subseteq overran
    BY <1>5
<1>8. DispStep(disp, disp', t) /\ disp'.lease = NoTask /\ disp'.blocked = blocked /\ disp'.overran = overran
    BY <1>6, <1>7, FreedForm
<1>9. \/ disp'.blocked \/ t \in disp'.overran
      \/ \A n \in Transport : \A id : Carries(tp[n], t, id) => ~StageOf(t, n, id)
    BY <1>4, <1>5, <1>8
<1> QED BY <1>1, <1>8, <1>9, EndKeeps

\* A resource that needs recovery.
LEMMA BlockedKeeps ==
    ASSUME AcpInv, NEW t \in Tasks, call[t].at \notin Resting, LinesStep, GateStep,
           NEW d, DispNow(d, t), Blocked(t, d)
    PROVE  AcpInv'
<1>1. call' = Set(t, Done) /\ disp' = [Freed(t, d) EXCEPT !.blocked = TRUE]
    BY DEF Blocked
<1>2. PICK blocked \in BOOLEAN, overran \in SUBSET Caller : blocked = TRUE /\ overran = disp.overran
    BY DEF AcpInv, Typed, DispRow
<1>3. Freed(t, d) \in DispRow /\ Freed(t, d).overran = overran
    <2>1. d \in DispRow /\ d.overran = overran /\ d.lease = t /\ NoTask \in Caller
        BY <1>2 DEF DispNow, Caller
    <2>2. Freed(t, d) = [d EXCEPT !.lease = NoTask]
        BY <2>1 DEF Freed
    <2> QED BY <2>1, <2>2 DEF DispRow
<1>4. disp' = [Freed(t, d) EXCEPT !.blocked = blocked, !.overran = overran]
    BY <1>1, <1>2, <1>3 DEF DispRow
<1>5. DispStep(disp, disp', t) /\ disp'.lease = NoTask /\ disp'.blocked
    <2>1. disp.overran \subseteq overran
        BY <1>2
    <2> QED BY <2>1, <1>2, <1>4, FreedForm
<1> QED BY <1>1, <1>5, EndKeeps

-----------------------------------------------------------------------------
(* The steps of a call.                                                     *)

\* Lines and gate that stay as they are.
LEMMA Still ==
    ASSUME AcpInv
    PROVE  /\ tp' = tp => LinesStep /\ LinesKeep
           /\ UNCHANGED <<gate, router>> => GateStep
<1>1. tp' = tp => AllTouch(tp, tp')
    BY TouchSame
<1>2. tp' = tp => LinesStep /\ LinesKeep
    BY <1>1, TouchKeeps
<1>3. gate \in Gates
    BY DEF AcpInv, Typed
<1> QED BY <1>2, <1>3 DEF GateStep

\* The call t has no turn an agent may work on.
NoTurn(t) == \A n \in Transport : \A id : Carries(tp[n], t, id) => ~StageOf(t, n, id)

\* So at a stage that comes before or after it.
LEMMA NoTurns ==
    ASSUME NEW t, \/ call[t].at \in {"init", "auth", "session", "bind", "accepted", "start", "failed"}
                  \/ call[t].at = "connect" /\ call[t].goal = "deliver"
                  \/ call[t].at \in {"shut", "join"} /\ call[t].then \in {"none", "connect", "deliver"}
                  \/ call[t].at = "prompt" /\ call[t].ans.kind \in {"ok", "auth"}
                  \/ call[t].at = "resuming" /\ call[t].ans.kind # "none"
    PROVE  NoTurn(t)
<1>1. ASSUME NEW n, NEW id PROVE ~StageOf(t, n, id)
    <2>1. ~Prompting(call[t], tp[n].loop, n, id)
        BY DEF Prompting
    <2>2. ~Ending(call[t], n)
        BY DEF Ending
    <2>3. ~Recovering(call[t], tp[n].loop, n, disp.client, gate.phase)
        BY DEF Recovering
    <2> QED BY <2>1, <2>2, <2>3 DEF StageOf, Stage
<1> QED BY <1>1 DEF NoTurn

\* The request is given up and the call goes on at the stage at.
LEMMA GivenUpForm ==
    ASSUME NEW t \in Tasks, call[t] \in CallRow, NEW at \in Stages
    PROVE  \E d \in CallRow : /\ d = [GivenUp(t) EXCEPT !.at = at] /\ d.at = at /\ d.goal = call[t].goal
                              /\ d.want = 0 /\ d.ans.kind = "none" /\ d.text = call[t].text
<1>1. PICK a \in Answer, z \in Nat : a = NoAnswer /\ z = 0 /\ a.kind = "none"
    <2>1. 0 \in Nat
        BY SMT
    <2> QED BY <2>1, Calls1
<1>2. PICK c \in CallRow : c = call[t]
    OBVIOUS
<1>3. PICK d : d = [c EXCEPT !.want = z, !.ans = a, !.at = at]
    OBVIOUS
<1>4. d \in CallRow
    BY <1>3 DEF CallRow
<1>5. d.at = at /\ d.goal = c.goal /\ d.want = z /\ d.ans = a /\ d.text = c.text
    BY <1>3 DEF CallRow
<1>6. d = [GivenUp(t) EXCEPT !.at = at]
    BY <1>1, <1>2, <1>3 DEF GivenUp
<1> QED BY <1>1, <1>2, <1>4, <1>5, <1>6

\* A delivery that failed, or was accepted.
LEMMA GivenUpKeeps ==
    ASSUME AcpInv, NEW t \in Tasks, call[t].at \notin Resting, LinesStep, GateStep, DispStep(disp, disp', t),
           NEW at \in {"failed", "accepted"}, call' = Set(t, [GivenUp(t) EXCEPT !.at = at]), disp'.lease = t,
           NoTurn(t)
    PROVE  AcpInv'
<1>1. call[t] \in CallRow /\ at \in Stages
    BY Owner DEF Stages
<1>2. PICK d \in CallRow : /\ d = [GivenUp(t) EXCEPT !.at = at] /\ d.at = at /\ d.goal = call[t].goal
                           /\ d.want = 0 /\ d.ans.kind = "none" /\ d.text = call[t].text
    <2>1. PICK st \in Stages : st = at
        BY <1>1
    <2>2. \E d \in CallRow : /\ d = [GivenUp(t) EXCEPT !.at = st] /\ d.at = st /\ d.goal = call[t].goal
                              /\ d.want = 0 /\ d.ans.kind = "none" /\ d.text = call[t].text
        BY SMT, <1>1, GivenUpForm
    <2> QED BY <2>1, <2>2
<1>3. call' = Set(t, d) /\ d.at \notin Resting
    BY <1>2 DEF Resting
<1>4. CallShape(d, t) /\ CallFits(d, disp'.row, disp'.client, gate'.phase)
    BY <1>2 DEF CallShape, CallFits, Resting, Placed, Waiting
<1>5. \A n \in Transport : \A id : ~(Carries(tp[n], t, id) /\ StageOf(t, n, id))
    BY DEF NoTurn
<1> QED BY <1>2, <1>3, <1>4, <1>5, MoveKeeps

\* What is awaited at a stage that looks at nothing but the answer.
LEMMA AwaitedLoose ==
    ASSUME NEW x, NEW c, NEW d, NEW u, NEW row, NEW row1, d.want = c.want, d.at \notin {"prompt", "bind"},
           Awaited(x, c, u, row)
    PROVE  Awaited(x, d, u, row1)
    BY DEF Awaited, OutAwaited, StdoutAwaited, Fits, FitsFrame

\* A call that waits for the end of the agent on n.
LEMMA ShutKeeps ==
    ASSUME AcpInv, NEW t \in Tasks, call[t].at \notin Resting, LinesStep, GateStep, DispStep(disp, disp', t),
           NEW d \in CallRow, call' = Set(t, d), disp'.lease = t,
           d.at \in {"shut", "join"}, d.tp \in Transport, d.ans = call[t].ans, d.text = call[t].text,
           d.want # 0 => d.want = call[t].want /\ d.tp = call[t].tp /\ Keeps(tp[d.tp], tp'[d.tp]),
           \A n \in Transport : \A id : Carries(tp[n], t, id) /\ StageOf(t, n, id) => Ending(d, n)
    PROVE  AcpInv'
<1>1. /\ CallShape(call[t], t)
      /\ call[t].want # 0 => Awaited(tp[call[t].tp], call[t], t, disp.row)
    BY Owner
<1>2. d.at \notin Resting /\ CallShape(d, t) /\ CallFits(d, disp'.row, disp'.client, gate'.phase)
    BY <1>1 DEF CallShape, CallFits, Resting, Waiting
<1>3. ASSUME d.want # 0 PROVE Awaited(tp'[d.tp], d, t, disp'.row)
    <2>1. PICK c, x, y, row, row1 : /\ c = call[t] /\ x = tp[d.tp] /\ y = tp'[d.tp] /\ row = disp.row /\ row1 = disp'.row
        OBVIOUS
    <2>2. c.want # 0 /\ Awaited(x, c, t, row) /\ Keeps(x, y) /\ d.want = c.want /\ d.at \notin {"prompt", "bind"}
        BY <1>1, <1>3, <2>1
    <2>3. Awaited(y, c, t, row)
        BY <2>2 DEF Keeps
    <2>4. Awaited(y, d, t, row1)
        BY <2>2, <2>3, AwaitedLoose
    <2> QED BY <2>1, <2>4
<1>4. \A n \in Transport : \A id : Carries(tp[n], t, id) /\ StageOf(t, n, id) =>
          Stage(d, tp'[n].loop, n, id, disp'.client, gate'.phase)
    BY DEF Stage
<1> QED BY <1>2, <1>3, <1>4, MoveKeeps

\* The holder that changes the slot or a lock keeps the lease.
LEMMA NowStep ==
    ASSUME NEW t, NEW d, DispNow(d, t), disp' = d
    PROVE  DispStep(disp, disp', t) /\ disp'.lease = t
    BY DEF DispNow, DispStep

\* ... when it takes the client out of the slot, or puts one there.
LEMMA SlotStep ==
    ASSUME NEW t, NEW d, DispNow(d, t), NEW n \in Transport \cup {0}, disp' = [d EXCEPT !.client = n]
    PROVE  DispStep(disp, disp', t) /\ disp'.lease = t
<1>1. n \in Nat /\ d \in DispRow
    BY SMT, SpawnAssumption DEF Transport, DispNow
<1>2. /\ disp' \in DispRow /\ disp'.client = n /\ disp'.lease = d.lease /\ disp'.blocked = d.blocked
      /\ disp'.raced = d.raced /\ disp'.overran = d.overran
    BY <1>1, SlotForm
<1> QED BY <1>2 DEF DispNow, DispStep

\* The worker goes away inside deliver.
LEMMA DroppedKeeps ==
    ASSUME AcpInv, NEW t \in Tasks, DeliveryDropped(t)
    PROVE  AcpInv'
<1>1. tp' = Abandoned(t) /\ Blocked(t, Released(t, Counted)) /\ UNCHANGED <<gate, router>>
    BY DEF DeliveryDropped, CallRest
<1>2. call[t].at \notin Resting
    BY DEF DeliveryDropped, Delivering, Resting
<1>3. LinesStep /\ GateStep
    BY <1>1, TouchAbandoned, TouchKeeps, Still
<1>4. PICK d : d = Released(t, Counted) /\ DispNow(d, t)
    BY <1>2, DispNows
<1> QED BY <1>1, <1>2, <1>3, <1>4, BlockedKeeps

\* run_turn gives up.
LEMMA GivesUpKeeps ==
    ASSUME AcpInv, NEW t \in Tasks, TurnGivesUp(t)
    PROVE  AcpInv'
<1>1. tp' = Abandoned(t) /\ FailedTurn(t, FALSE, Counted) /\ UNCHANGED <<gate, router>>
    BY DEF TurnGivesUp, CallRest
<1>2. call[t].at \notin Resting
    BY DEF TurnGivesUp, Resting
<1>3. LinesStep /\ GateStep
    BY <1>1, TouchAbandoned, TouchKeeps, Still
<1>4. PICK d : d = Counted /\ DispNow(d, t)
    BY <1>2, DispNows
<1>5. PICK exited \in BOOLEAN : ~exited /\ FailedTurn(t, exited, d)
    BY <1>1, <1>4
<1> QED BY <1>2, <1>3, <1>4, <1>5, FailedKeeps

\* A delivery's request reaches its deadline.
LEMMA TimesOutKeeps ==
    ASSUME AcpInv, NEW t \in Tasks, DeliveryTimesOut(t)
    PROVE  AcpInv'
<1>1. /\ tp' = Abandoned(t) /\ call' = Set(t, [GivenUp(t) EXCEPT !.at = "failed"])
      /\ disp' = Released(t, Counted) /\ UNCHANGED <<gate, router>> /\ call[t].at = "bind"
    BY DEF DeliveryTimesOut, CallRest
<1>2. call[t].at \notin Resting /\ NoTurn(t)
    BY <1>1, NoTurns DEF Resting
<1>3. LinesStep /\ GateStep
    BY <1>1, TouchAbandoned, TouchKeeps, Still
<1>4. DispStep(disp, disp', t) /\ disp'.lease = t
    BY <1>1, <1>2, DispNows, NowStep
<1>5. PICK at \in {"failed", "accepted"} : call' = Set(t, [GivenUp(t) EXCEPT !.at = at])
    BY <1>1
<1> QED BY <1>2, <1>3, <1>4, <1>5, GivenUpKeeps

\* A turn ends with the answer, or the agent was lost.
LEMMA FinishKeeps ==
    ASSUME AcpInv, NEW t \in Tasks, finish(t)
    PROVE  AcpInv'
<1>1. call[t].at = "prompt" /\ call[t].at \notin Resting /\ UNCHANGED <<gate, router>> /\ tp' = tp
    BY DEF finish, CallRest, Resting
<1>2. LinesStep /\ GateStep
    BY <1>1, Still
<1>3. PICK d : d = set_state(disp, "ready") /\ DispNow(d, t)
    BY <1>1, DispNows
<1>4. CASE call[t].ans.kind = "ok"
    <2>1. call' = Set(t, Done) /\ disp' = set_state([disp EXCEPT !.lease = NoTask], "ready")
        BY <1>4 DEF finish
    <2>2. NoTurn(t)
        BY <1>1, <1>4, NoTurns
    <2>3. DispStep(disp, disp', t) /\ disp'.lease = NoTask
        <3>1. DispNow(disp, t) /\ disp \in DispRow /\ NoTask \in Caller
            BY <1>1, DispNows DEF DispNow, Caller
        <3>2. PICK e \in DispRow : e = [disp EXCEPT !.lease = NoTask] /\ e.lease = NoTask /\ e.client = disp.client
                                   /\ e.blocked = disp.blocked /\ e.raced = disp.raced /\ e.overran = disp.overran
            <4>1. [disp EXCEPT !.lease = NoTask] \in DispRow
                BY <3>1 DEF DispRow
            <4> QED BY <3>1, <4>1 DEF DispRow
        <3>3. PICK s \in {"ready", "prompting"} : s = "ready"
            OBVIOUS
        <3>4. /\ set_state(e, s) \in DispRow /\ set_state(e, s).client = e.client
              /\ set_state(e, s).lease = e.lease /\ set_state(e, s).blocked = e.blocked
              /\ set_state(e, s).raced = e.raced /\ set_state(e, s).overran = e.overran
            BY StateForm
        <3>5. disp' = set_state(e, s)
            BY <2>1, <3>2, <3>3
        <3> QED BY <3>1, <3>2, <3>4, <3>5 DEF DispNow, DispStep
    <2> QED BY <1>1, <1>2, <2>1, <2>2, <2>3, EndKeeps DEF NoTurn
<1>5. CASE call[t].ans.kind = "error"
    <2>1. FailedTurn(t, FALSE, d)
        BY <1>3, <1>5 DEF finish
    <2>2. PICK exited \in BOOLEAN : ~exited /\ FailedTurn(t, exited, d)
        BY <2>1
    <2> QED BY <1>1, <1>2, <1>3, <2>2, FailedKeeps
<1>6. CASE call[t].ans.kind \notin {"ok", "error"}
    <2>1. /\ call' = Set(t, [GivenUp(t) EXCEPT !.at = "connect", !.goal = "recover"])
          /\ disp' = d
        BY <1>3, <1>6 DEF finish
    <2>2. call[t] \in CallRow /\ CallFits(call[t], disp.row, disp.client, gate.phase)
        BY <1>1, Owner
    <2>3. PICK e \in CallRow : /\ e = [GivenUp(t) EXCEPT !.at = "connect", !.goal = "recover"] /\ e.at = "connect"
                               /\ e.goal = "recover" /\ e.want = 0 /\ e.ans.kind = "none" /\ e.text = call[t].text
        <3>1. PICK at \in Stages, goal \in {"deliver", "recover"} : at = "connect" /\ goal = "recover"
            BY DEF Stages
        <3>2. PICK c \in CallRow : c = [GivenUp(t) EXCEPT !.at = at] /\ c.at = at /\ c.goal = call[t].goal
                                    /\ c.want = 0 /\ c.ans.kind = "none" /\ c.text = call[t].text
            BY SMT, <2>2, GivenUpForm
        <3>3. [c EXCEPT !.goal = goal] \in CallRow
            BY DEF CallRow
        <3>4. [c EXCEPT !.goal = goal].at = c.at /\ [c EXCEPT !.goal = goal].goal = goal /\ [c EXCEPT !.goal = goal].want = c.want
              /\ [c EXCEPT !.goal = goal].ans = c.ans /\ [c EXCEPT !.goal = goal].text = c.text
            BY DEF CallRow
        <3>5. [c EXCEPT !.goal = goal] = [GivenUp(t) EXCEPT !.at = "connect", !.goal = "recover"]
            BY <3>1, <3>2
        <3> QED BY <3>1, <3>2, <3>3, <3>4, <3>5
    <2>4. e.at \notin Resting /\ CallShape(e, t) /\ CallFits(e, disp'.row, disp'.client, gate'.phase)
        BY <2>3 DEF CallShape, CallFits, Resting, Placed, Waiting
    <2>5. DispStep(disp, disp', t) /\ disp'.lease = t
        BY <1>3, <2>1, NowStep
    <2>6. disp'.client = disp.client /\ gate'.phase = gate.phase
        BY <1>1, <1>3, <2>1, DispNows
    <2>7. ASSUME NEW n \in Transport, NEW id, StageOf(t, n, id)
          PROVE  Stage(e, tp'[n].loop, n, id, disp'.client, gate'.phase)
        <3>1. tp[n].loop = "terminate" /\ call[t].tp = n
            <4>1. call[t].ans.kind # "none"
                BY DEF finish
            <4> QED BY <4>1, <1>1, <1>6, <2>7 DEF StageOf, Stage, Prompting, Ending, Recovering
        <3>2. Client(n, disp.client, gate.phase)
            BY <1>1, <2>2, <3>1 DEF CallFits
        <3> QED BY <1>1, <2>3, <2>6, <3>1, <3>2 DEF Stage, Recovering
    <2>8. call' = Set(t, e)
        BY <2>1, <2>3
    <2> QED BY <1>1, <1>2, <2>3, <2>4, <2>5, <2>7, <2>8, MoveKeeps
<1> QED BY <1>4, <1>5, <1>6

\* Transports have numbers.
LEMMA Numbers == Transport \subseteq Nat /\ 0 \in Nat /\ 0 \notin Transport
    BY SMT, SpawnAssumption DEF Transport

\* The call that waits for the reply to a request.
LEMMA AwaitForm ==
    ASSUME NEW t \in Tasks, call[t] \in CallRow, NEW n \in Transport, NEW at \in Stages, NextId(n) \in Nat
    PROVE  \E d \in CallRow : /\ d = AwaitReply(t, n, at) /\ d.at = at /\ d.goal = call[t].goal /\ d.tp = n
                              /\ d.want = NextId(n) /\ d.ans.kind = "none" /\ d.text = call[t].text
<1>1. PICK a \in Answer, k \in Nat : a = NoAnswer /\ k = n /\ a.kind = "none"
    BY Calls1, Numbers
<1>2. PICK c \in CallRow, p \in Nat : c = call[t] /\ p = NextId(n)
    OBVIOUS
<1>3. PICK d : d = [c EXCEPT !.at = at, !.tp = k, !.want = p, !.ans = a]
    OBVIOUS
<1>4. d \in CallRow
    BY <1>3 DEF CallRow
<1>5. d.at = at /\ d.goal = c.goal /\ d.tp = k /\ d.want = p /\ d.ans = a /\ d.text = c.text
    BY <1>3 DEF CallRow
<1>6. d = AwaitReply(t, n, at)
    BY <1>1, <1>2, <1>3 DEF AwaitReply
<1> QED BY <1>1, <1>2, <1>4, <1>5, <1>6

\* The call that waits for the end of an agent.
LEMMA ClosingForm ==
    ASSUME AcpInv, NEW t \in Tasks, NEW n \in Transport, NEW then \in Thens
    PROVE  \E d \in CallRow : /\ d = Closing(t, n, then) /\ d.at = "shut" /\ d.then = then /\ d.tp = n
                              /\ d.want = call[t].want /\ d.ans = call[t].ans /\ d.text = call[t].text
<1>1. call[t] \in CallRow /\ tp[n].taken \in BOOLEAN
    <2>1. tp[n] \in Line
        BY Parts
    <2> QED BY <2>1, LineParts DEF AcpInv, Typed
<1>2. PICK k \in Nat, c \in CallRow : k = n /\ c = call[t]
    BY <1>1, Numbers
<1>3. PICK own \in BOOLEAN : own = ~tp[n].taken
    BY <1>1
<1>4. PICK d : d = [c EXCEPT !.at = "shut", !.then = then, !.tp = k, !.own = own]
    OBVIOUS
<1>5. d \in CallRow
    BY <1>4 DEF CallRow, Stages
<1>6. d.at = "shut" /\ d.then = then /\ d.tp = k /\ d.want = c.want /\ d.ans = c.ans /\ d.text = c.text
    BY <1>4 DEF CallRow
<1>7. d = Closing(t, n, then)
    BY <1>2, <1>3, <1>4 DEF Closing
<1> QED BY <1>2, <1>5, <1>6, <1>7

\* ... and gave its request up.
LEMMA ClosingFree ==
    ASSUME AcpInv, NEW t \in Tasks, NEW n \in Transport, NEW then \in Thens
    PROVE  \E d \in CallRow : /\ d = [Closing(t, n, then) EXCEPT !.want = 0] /\ d.at = "shut" /\ d.then = then /\ d.tp = n
                              /\ d.want = 0 /\ d.ans = call[t].ans /\ d.text = call[t].text
<1>1. PICK c \in CallRow : /\ c = Closing(t, n, then) /\ c.at = "shut" /\ c.then = then /\ c.tp = n
                           /\ c.want = call[t].want /\ c.ans = call[t].ans /\ c.text = call[t].text
    BY SMT, ClosingForm
<1>2. PICK z \in Nat : z = 0
    BY Numbers
<1>3. PICK d : d = [c EXCEPT !.want = z]
    OBVIOUS
<1>4. d \in CallRow
    BY <1>3 DEF CallRow
<1>5. d.at = c.at /\ d.then = c.then /\ d.tp = c.tp /\ d.want = z /\ d.ans = c.ans /\ d.text = c.text
    BY <1>3 DEF CallRow
<1> QED BY <1>1, <1>2, <1>3, <1>4, <1>5

\* A call sends a request that is no prompt.
LEMMA SentKeeps ==
    ASSUME AcpInv, NEW t \in Tasks, call[t].at \notin Resting, GateStep, DispStep(disp, disp', t), disp'.lease = t,
           NEW n \in Transport, tp[n].loop # "done", NEW method \in Methods, method # "prompt", NEW session \in Nat,
           tp' = Sent(n, t, method, session),
           NEW at \in {"auth", "bind", "resuming"}, call' = Set(t, AwaitReply(t, n, at)),
           at = "bind" => \/ method = "new" /\ disp'.row.id = 0
                          \/ method = "resume" /\ session = disp'.row.id,
           \A k \in Transport : \A id : Carries(tp[k], t, id) /\ StageOf(t, k, id) =>
               at = "resuming" /\ k = n /\ tp[k].loop = "terminate"
    PROVE  AcpInv'
<1>1. /\ tp' \in [Transport -> Line] /\ Lines' /\ NextId(n) \in Nat \ {0}
      /\ \A k \in Transport : tp'[k].loop = tp[k].loop /\ tp'[k].child = tp[k].child
      /\ \A k \in Transport : \A w, id : Carries(tp'[k], w, id) =>
             Carries(tp[k], w, id) \/ (method = "prompt" /\ k = n /\ w = t /\ id = NextId(n))
      /\ \A c, row : c.want = NextId(n) /\ Fits(c, row, Msg("request", NextId(n), t, method, session)) =>
             Awaited(tp'[n], c, t, row)
    BY SentLines
<1>2. LinesStep
    <2>1. \A k \in Transport : \A w, id : Carries(tp'[k], w, id) => Carries(tp[k], w, id)
        BY <1>1
    <2> QED BY <1>1, <2>1 DEF LinesStep
<1>3. PICK d \in CallRow : /\ d = AwaitReply(t, n, at) /\ d.at = at /\ d.goal = call[t].goal /\ d.tp = n
                           /\ d.want = NextId(n) /\ d.ans.kind = "none" /\ d.text = call[t].text
    <2>1. PICK st \in Stages : st = at
        BY DEF Stages
    <2>2. call[t] \in CallRow
        BY Owner
    <2>3. \E d \in CallRow : /\ d = AwaitReply(t, n, st) /\ d.at = st /\ d.goal = call[t].goal /\ d.tp = n
                             /\ d.want = NextId(n) /\ d.ans.kind = "none" /\ d.text = call[t].text
        BY SMT, <1>1, <2>2, AwaitForm
    <2> QED BY <2>1, <2>3
<1>4. call' = Set(t, d) /\ d.at \notin Resting
    BY <1>3 DEF Resting
<1>5. CallShape(d, t) /\ CallFits(d, disp'.row, disp'.client, gate'.phase)
    BY <1>3 DEF CallShape, CallFits, Resting, Placed, Waiting
<1>6. Awaited(tp'[d.tp], d, t, disp'.row)
    <2>1. PICK m : m = Msg("request", NextId(n), t, method, session) /\ m.method = method /\ m.session = session
        <3>1. PICK m : m = Msg("request", NextId(n), t, method, session)
            OBVIOUS
        <3>2. m.method = method /\ m.session = session
            BY <3>1 DEF Msg
        <3> QED BY <3>1, <3>2
    <2>2. Fits(d, disp'.row, m)
        <3>1. d.at # "prompt"
            BY <1>3
        <3>2. d.at = "bind" => \/ m.method = "new" /\ disp'.row.id = 0
                               \/ m.method = "resume" /\ m.session = disp'.row.id
            BY <1>3, <2>1
        <3> QED BY <3>1, <3>2 DEF Fits
    <2>3. \A c, row : c.want = NextId(n) /\ Fits(c, row, m) => Awaited(tp'[n], c, t, row)
        BY <1>1, <2>1
    <2>4. PICK row : row = disp'.row
        OBVIOUS
    <2>5. Awaited(tp'[n], d, t, row)
        BY <1>3, <2>2, <2>3, <2>4
    <2> QED BY <1>3, <2>4, <2>5
<1>7. ASSUME NEW k \in Transport, NEW id, Carries(tp[k], t, id), StageOf(t, k, id)
      PROVE  Stage(d, tp'[k].loop, k, id, disp'.client, gate'.phase)
    <2>1. at = "resuming" /\ k = n /\ tp'[k].loop = "terminate"
        BY <1>1, <1>7
    <2> QED BY <1>3, <2>1 DEF Stage, Recovering
<1> QED BY <1>2, <1>3, <1>4, <1>5, <1>6, <1>7, MoveKeeps

\* The stage of a call changes and nothing else.
LEMMA AtForm ==
    ASSUME AcpInv, NEW t \in Tasks, NEW at \in Stages
    PROVE  \E d \in CallRow : /\ Set(t, d) = At(t, at) /\ d.at = at /\ d.goal = call[t].goal /\ d.then = call[t].then
                              /\ d.tp = call[t].tp /\ d.want = call[t].want /\ d.ans = call[t].ans /\ d.text = call[t].text
<1>1. PICK c \in CallRow : c = call[t]
    BY DEF AcpInv, Typed
<1>2. PICK d : d = [c EXCEPT !.at = at]
    OBVIOUS
<1>3. d \in CallRow
    BY <1>2 DEF CallRow
<1>4. /\ d.at = at /\ d.goal = c.goal /\ d.then = c.then
      /\ d.tp = c.tp /\ d.want = c.want /\ d.ans = c.ans /\ d.text = c.text
    BY <1>2 DEF CallRow
<1>5. Set(t, d) = At(t, at)
    BY <1>1, <1>2 DEF At
<1> QED BY <1>1, <1>3, <1>4, <1>5

\* The session of the conversation is asked for.
LEMMA BindKeeps ==
    ASSUME AcpInv, NEW t \in Tasks, BindSession(t)
    PROVE  AcpInv'
<1> DEFINE n == call[t].tp
<1>1. call[t].at = "session" /\ call[t].at \notin Resting /\ UNCHANGED <<gate, router>>
    BY DEF BindSession, CallRest, Resting
<1>2. NoTurn(t) /\ GateStep
    BY <1>1, NoTurns, Still
<1>3. CallShape(call[t], t) /\ disp \in DispRow /\ DispNow(disp, t)
    BY <1>1, Owner, DispNows
<1>4. n \in Transport /\ call[t].want = 0
    BY <1>1, <1>3 DEF CallShape, Placed, Waiting
<1>5. CASE Gone(n)
    <2>1. call' = At(t, "failed") /\ tp' = tp /\ disp' = disp
        BY <1>5 DEF BindSession
    <2>2. PICK at \in Stages : at = "failed"
        BY DEF Stages
    <2>3. PICK d \in CallRow : /\ Set(t, d) = At(t, at) /\ d.at = at /\ d.goal = call[t].goal /\ d.then = call[t].then
                               /\ d.tp = call[t].tp /\ d.want = call[t].want /\ d.ans = call[t].ans /\ d.text = call[t].text
        BY AtForm
    <2>4. d.at \notin Resting /\ CallShape(d, t) /\ CallFits(d, disp'.row, disp'.client, gate'.phase) /\ d.want = 0
        BY <1>3, <1>4, <2>2, <2>3 DEF CallShape, CallFits, Resting, Placed, Waiting
    <2>5. LinesStep /\ DispStep(disp, disp', t) /\ disp'.lease = t
        BY <1>3, <2>1, Still, NowStep
    <2>6. \A k \in Transport : \A id : ~(Carries(tp[k], t, id) /\ StageOf(t, k, id))
        BY <1>2 DEF NoTurn
    <2>7. call' = Set(t, d)
        BY <2>1, <2>2, <2>3
    <2> QED BY <1>1, <1>2, <2>3, <2>4, <2>5, <2>6, <2>7, MoveKeeps
<1>6. CASE ~Gone(n)
    <2>1. /\ tp' = IF live_session = 0 THEN new_session(n, t) ELSE resume_session(n, t)
          /\ call' = Set(t, AwaitReply(t, n, "bind")) /\ disp' = [disp EXCEPT !.session_gate = t]
        BY <1>6 DEF BindSession
    <2>2. t \in Caller /\ disp.row.id \in Nat
        BY <1>3 DEF Caller, DispRow
    <2>3. SameDisp(disp, disp')
        BY <1>3, <2>1, <2>2, LockForms
    <2>4. DispStep(disp, disp', t) /\ disp'.lease = t /\ disp'.row = disp.row
        BY <1>3, <2>3 DEF SameDisp, DispNow, DispStep
    <2>5. PICK k \in Transport, at \in {"auth", "bind", "resuming"} : k = n /\ at = "bind"
        BY <1>4
    <2>6. tp[k].loop # "done" /\ call' = Set(t, AwaitReply(t, k, at))
        BY <1>6, <2>1, <2>5 DEF Gone
    <2>7. \A l \in Transport : \A id : ~(Carries(tp[l], t, id) /\ StageOf(t, l, id))
        BY <1>2 DEF NoTurn
    <2>8. CASE disp.row.id = 0
        <3>1. PICK method \in Methods, session \in Nat : method = "new" /\ session = 0
            BY Numbers DEF Methods
        <3>2. tp' = Sent(k, t, method, session) /\ method # "prompt" /\ disp'.row.id = 0
            BY <2>1, <2>4, <2>5, <2>8, <3>1 DEF live_session, new_session
        <3>3. at = "bind" => \/ method = "new" /\ disp'.row.id = 0
                             \/ method = "resume" /\ session = disp'.row.id
            BY <3>1, <3>2
        <3> QED BY <1>1, <1>2, <2>4, <2>6, <2>7, <3>2, <3>3, SentKeeps
    <2>9. CASE disp.row.id # 0
        <3>1. PICK method \in Methods, session \in Nat : method = "resume" /\ session = disp.row.id
            BY <2>2 DEF Methods
        <3>2. tp' = Sent(k, t, method, session) /\ method # "prompt"
            BY <2>1, <2>5, <2>9, <3>1 DEF live_session, resume_session
        <3>3. at = "bind" => \/ method = "new" /\ disp'.row.id = 0
                             \/ method = "resume" /\ session = disp'.row.id
            BY <2>4, <3>1
        <3> QED BY <1>1, <1>2, <2>4, <2>6, <2>7, <3>2, <3>3, SentKeeps
    <2> QED BY <2>8, <2>9
<1> QED BY <1>5, <1>6

\* The session is stored and the delivery acknowledged, or that failed.
LEMMA BoundKeeps ==
    ASSUME AcpInv, NEW t \in Tasks, Bound(t)
    PROVE  AcpInv'
<1> DEFINE s == call[t].ans.session
           stored == upsert_session(s)
<1>1. /\ call[t].at = "bind" /\ call[t].at \notin Resting /\ UNCHANGED <<gate, router>> /\ tp' = tp
    BY DEF Bound, CallRest, Resting
<1>2. NoTurn(t) /\ GateStep /\ LinesStep
    BY <1>1, NoTurns, Still
<1>3. /\ DispNow(disp, t) /\ disp \in DispRow /\ call[t] \in CallRow /\ NoTask \in Caller
      /\ CallFits(call[t], disp.row, disp.client, gate.phase)
    BY <1>1, Owner, DispNows DEF Caller
<1>4. s \in Nat
    BY <1>3 DEF CallRow, Answer
<1>5. PICK d \in DispRow : d = [disp EXCEPT !.session_gate = NoTask] /\ DispNow(d, t)
    <2>1. SameDisp(disp, [disp EXCEPT !.session_gate = NoTask])
        BY <1>3, LockForms
    <2> QED BY <1>3, <2>1 DEF SameDisp, DispNow
<1>6. ASSUME call[t].ans.kind = "ok" PROVE DispNow(stored, t)
    <2>1. stored = [disp EXCEPT !.row = StoredSession(s), !.session_gate = NoTask]
        BY <1>1, <1>3, <1>6 DEF CallFits, upsert_session
    <2>2. PICK row \in [id : Nat, state : {"none", "ready", "prompting"}] : row = StoredSession(s)
        BY <1>4 DEF StoredSession
    <2>3. PICK e : e = [disp EXCEPT !.row = row, !.session_gate = NoTask]
        OBVIOUS
    <2>4. e \in DispRow
        BY <1>3, <2>3 DEF DispRow
    <2>5. /\ e.lease = disp.lease /\ e.blocked = disp.blocked /\ e.raced = disp.raced /\ e.client = disp.client
          /\ e.overran = disp.overran
        BY <1>3, <2>3 DEF DispRow
    <2>6. DispNow(e, t)
        BY <1>3, <2>4, <2>5 DEF DispNow
    <2> QED BY <2>1, <2>2, <2>3, <2>6
<1>7. ASSUME NEW at \in {"failed", "accepted"}, call' = Set(t, [GivenUp(t) EXCEPT !.at = at]),
             NEW e, DispNow(e, t), disp' = e
      PROVE  AcpInv'
    <2>1. DispStep(disp, disp', t) /\ disp'.lease = t
        BY <1>7, NowStep
    <2> QED BY <1>1, <1>2, <1>7, <2>1, GivenUpKeeps
<1>8. CASE call[t].ans.kind = "ok" /\ acknowledge_delivery(t, stored)
    <2>1. PICK e : e = stored /\ DispNow(e, t)
        BY <1>6, <1>8
    <2>2. CASE call' = Set(t, [GivenUp(t) EXCEPT !.at = "accepted"]) /\ disp' = stored
        BY <1>7, <2>1, <2>2
    <2>3. CASE call' = Set(t, [GivenUp(t) EXCEPT !.at = "failed"]) /\ disp' = [stored EXCEPT !.faults = @ + 1]
        <3>1. e \in DispRow
            BY <2>1 DEF DispNow
        <3>2. PICK f : f = [e EXCEPT !.faults = @ + 1] /\ SameDisp(e, f)
            BY <3>1, CountedForm
        <3>3. DispNow(f, t)
            BY <2>1, <3>2 DEF DispNow, SameDisp
        <3>4. disp' = f
            BY <2>1, <2>3, <3>2
        <3> QED BY <1>7, <2>3, <3>3, <3>4
    <2> QED BY <1>8, <2>2, <2>3 DEF acknowledge_delivery
<1>9. CASE /\ call[t].ans.kind # "ok" \/ stored.raced
           /\ call' = Set(t, [GivenUp(t) EXCEPT !.at = "failed"])
           /\ disp' = IF call[t].ans.kind = "ok" THEN stored ELSE [disp EXCEPT !.session_gate = NoTask]
    <2>1. call[t].ans.kind = "ok" => ~stored.raced
        BY <1>6 DEF DispNow
    <2>2. disp' = d
        BY <1>5, <1>9, <2>1
    <2> QED BY <1>5, <1>7, <1>9, <2>2
<1> QED BY <1>8, <1>9 DEF Bound

\* The turn starts, or has no session to run in.
LEMMA StartKeeps ==
    ASSUME AcpInv, NEW t \in Tasks, start_turn(t)
    PROVE  AcpInv'
<1>1. call[t].at = "accepted" /\ call[t].at \notin Resting /\ UNCHANGED <<gate, router>> /\ tp' = tp
    BY DEF start_turn, CallRest, Resting
<1>2. NoTurn(t) /\ GateStep /\ LinesStep
    BY <1>1, NoTurns, Still
<1>3. CallShape(call[t], t) /\ DispNow(disp, t)
    BY <1>1, Owner, DispNows
<1>4. CASE call' = At(t, "start") /\ disp' = disp
    <2>1. PICK at \in Stages : at = "start"
        BY DEF Stages
    <2>2. PICK d \in CallRow : /\ Set(t, d) = At(t, at) /\ d.at = at /\ d.goal = call[t].goal /\ d.then = call[t].then
                               /\ d.tp = call[t].tp /\ d.want = call[t].want /\ d.ans = call[t].ans /\ d.text = call[t].text
        BY AtForm
    <2>3. d.at \notin Resting /\ CallShape(d, t) /\ CallFits(d, disp'.row, disp'.client, gate'.phase) /\ d.want = 0
        BY <1>1, <1>3, <2>1, <2>2 DEF CallShape, CallFits, Resting, Placed, Waiting
    <2>4. DispStep(disp, disp', t) /\ disp'.lease = t
        BY <1>3, <1>4, NowStep
    <2>5. \A k \in Transport : \A id : ~(Carries(tp[k], t, id) /\ StageOf(t, k, id))
        BY <1>2 DEF NoTurn
    <2>6. call' = Set(t, d)
        BY <1>4, <2>1, <2>2
    <2> QED BY <1>1, <1>2, <2>2, <2>3, <2>4, <2>5, <2>6, MoveKeeps
<1>5. CASE FailedTurn(t, TRUE, disp)
    <2>1. PICK exited, d : exited \in BOOLEAN /\ exited = TRUE /\ d = disp
        OBVIOUS
    <2>2. DispNow(d, t) /\ FailedTurn(t, exited, d)
        BY <1>3, <1>5, <2>1
    <2> QED BY <1>1, <1>2, <2>1, <2>2, FailedKeeps DEF NoTurn
<1> QED BY <1>4, <1>5 DEF start_turn

\* A turn whose agent is left as it is fails without a word about the process.
LEMMA LeftKeeps ==
    ASSUME AcpInv, NEW t \in Tasks, call[t].at \notin Resting, LinesStep, GateStep,
           NEW d, DispNow(d, t), FailedTurn(t, FALSE, d)
    PROVE  AcpInv'
<1>1. PICK exited \in BOOLEAN : ~exited /\ FailedTurn(t, exited, d)
    OBVIOUS
<1> QED BY <1>1, FailedKeeps

\* The session is resumed on a new client.
LEMMA ResumeKeeps ==
    ASSUME AcpInv, NEW t \in Tasks, resume(t)
    PROVE  AcpInv'
<1> DEFINE n == call[t].tp
<1>1. call[t].at = "resume" /\ call[t].at \notin Resting /\ UNCHANGED <<gate, router>>
    BY DEF resume, CallRest, Resting
<1>2. GateStep
    BY <1>1, Still
<1>3. CallShape(call[t], t) /\ disp \in DispRow /\ DispNow(disp, t)
    BY <1>1, Owner, DispNows
<1>4. n \in Transport
    BY <1>1, <1>3 DEF CallShape, Placed
<1>5. CASE FailedTurn(t, FALSE, disp) /\ tp' = tp
    BY <1>1, <1>2, <1>3, <1>5, Still, LeftKeeps
<1>6. CASE ~Gone(n) /\ tp' = resume_session(n, t) /\ call' = Set(t, AwaitReply(t, n, "resuming")) /\ disp' = disp
    <2>1. DispStep(disp, disp', t) /\ disp'.lease = t
        BY <1>3, <1>6, NowStep
    <2>2. PICK k \in Transport, at \in {"auth", "bind", "resuming"} : k = n /\ at = "resuming"
        BY <1>4
    <2>3. tp[k].loop # "done" /\ call' = Set(t, AwaitReply(t, k, at))
        BY <1>6, <2>2 DEF Gone
    <2>4. PICK method \in Methods, session \in Nat : method = "resume" /\ session = disp.row.id
        BY <1>3 DEF Methods, DispRow
    <2>5. tp' = Sent(k, t, method, session) /\ method # "prompt"
        BY <1>6, <2>2, <2>4 DEF live_session, resume_session
    <2>6. at = "bind" => \/ method = "new" /\ disp'.row.id = 0
                         \/ method = "resume" /\ session = disp'.row.id
        BY <2>2
    <2>7. ASSUME NEW l \in Transport, NEW id, StageOf(t, l, id)
          PROVE  at = "resuming" /\ l = k /\ tp[l].loop = "terminate"
        BY <1>1, <2>2, <2>7 DEF StageOf, Stage, Prompting, Ending, Recovering
    <2> QED BY <1>1, <1>2, <2>1, <2>3, <2>5, <2>6, <2>7, SentKeeps
<1> QED BY <1>5, <1>6 DEF resume

\* The recovery of a turn is over.
LEMMA ResumedKeeps ==
    ASSUME AcpInv, NEW t \in Tasks, Resumed(t)
    PROVE  AcpInv'
<1>1. /\ call[t].at = "resuming" /\ call[t].ans.kind # "none" /\ call[t].at \notin Resting /\ UNCHANGED <<gate, router>>
      /\ tp' = tp /\ FailedTurn(t, call[t].ans.kind = "exited", disp)
    BY DEF Resumed, CallRest, Resting
<1>2. NoTurn(t) /\ GateStep /\ LinesStep
    BY <1>1, NoTurns, Still
<1>3. PICK exited, d : exited \in BOOLEAN /\ exited = (call[t].ans.kind = "exited") /\ d = disp
    OBVIOUS
<1>4. DispNow(d, t) /\ FailedTurn(t, exited, d)
    BY <1>1, <1>3, DispNows
<1> QED BY <1>1, <1>2, <1>3, <1>4, FailedKeeps DEF NoTurn

\* The request to end is a message.
LEMMA Shutdown == ShutdownMsg \in Message /\ ~IsRequest(ShutdownMsg)
<1>1. NoMsg \in Message
    BY NoMessage
<1>2. ShutdownMsg.kind = "shutdown"
    BY DEF ShutdownMsg, NoMsg
<1>3. ShutdownMsg \in Message
    BY <1>1 DEF ShutdownMsg, NoMsg, Message, Kinds, Addressed
<1> QED BY <1>2, <1>3 DEF IsRequest

\* The loop is asked to end.
LEMMA ShutdownSentKeeps ==
    ASSUME AcpInv, NEW t \in Tasks, ShutdownSent(t)
    PROVE  AcpInv'
<1> DEFINE n == call[t].tp
<1>1. /\ call[t].at = "shut" /\ call[t].at \notin Resting /\ UNCHANGED <<gate, router>> /\ disp' = disp
      /\ call' = At(t, "join")
      /\ tp' = IF Gone(n) THEN tp ELSE [tp EXCEPT ![n].out = Append(@, ShutdownMsg)]
    BY DEF ShutdownSent, CallRest, Resting
<1>2. CallShape(call[t], t) /\ DispNow(disp, t)
    BY <1>1, Owner, DispNows
<1>3. PICK k \in Transport : k = n
    BY <1>1, <1>2 DEF CallShape, Placed, Waiting
<1>4. LinesStep /\ LinesKeep /\ GateStep
    <2>1. CASE tp' = tp
        BY <1>1, <2>1, Still
    <2>2. CASE ~Gone(n) /\ tp' = [tp EXCEPT ![n].out = Append(@, ShutdownMsg)]
        <3>1. PICK m \in Message : m = ShutdownMsg /\ ~IsRequest(m)
            BY Shutdown
        <3>2. tp[k].loop # "done" /\ tp' = [tp EXCEPT ![k].out = Append(@, m)]
            BY <1>3, <2>2, <3>1 DEF Gone
        <3>3. AllTouch(tp, tp')
            BY <3>1, <3>2, TouchAppend
        <3> QED BY <1>1, <3>3, TouchKeeps, Still
    <2> QED BY <1>1, <2>1, <2>2
<1>5. PICK at \in Stages : at = "join"
    BY DEF Stages
<1>6. PICK d \in CallRow : /\ Set(t, d) = At(t, at) /\ d.at = at /\ d.goal = call[t].goal /\ d.then = call[t].then
                           /\ d.tp = call[t].tp /\ d.want = call[t].want /\ d.ans = call[t].ans /\ d.text = call[t].text
    BY AtForm
<1>7. DispStep(disp, disp', t) /\ disp'.lease = t
    BY <1>1, <1>2, NowStep
<1>8. /\ call' = Set(t, d) /\ d.at \in {"shut", "join"} /\ d.tp \in Transport
      /\ d.want # 0 => d.want = call[t].want /\ d.tp = call[t].tp /\ Keeps(tp[d.tp], tp'[d.tp])
    BY <1>1, <1>3, <1>4, <1>5, <1>6 DEF LinesKeep
<1>9. ASSUME NEW l \in Transport, NEW id, StageOf(t, l, id) PROVE Ending(d, l)
    BY <1>1, <1>5, <1>6, <1>9 DEF StageOf, Stage, Prompting, Ending, Recovering
<1> QED BY <1>1, <1>4, <1>6, <1>7, <1>8, <1>9, ShutKeeps

\* The end of the agent was awaited.
LEMMA JoinedKeeps ==
    ASSUME AcpInv, NEW t \in Tasks, Joined(t)
    PROVE  AcpInv'
<1> DEFINE n == call[t].tp
<1>1. /\ call[t].at = "join" /\ call[t].at \notin Resting /\ UNCHANGED <<gate, router>> /\ tp' = tp
      /\ call[t].own => Gone(n)
    BY DEF Joined, CallRest, Resting
<1>2. GateStep /\ LinesStep
    BY <1>1, Still
<1>3. CallShape(call[t], t) /\ DispNow(disp, t) /\ DispNow([disp EXCEPT !.connecting = NoTask], t) /\ call[t] \in CallRow
    BY <1>1, Owner, DispNows
<1>4. CASE call[t].then = "connect"
    <2>1. NotConnected(t, [disp EXCEPT !.connecting = NoTask])
        BY <1>4 DEF Joined
    <2>2. PICK d : d = [disp EXCEPT !.connecting = NoTask] /\ DispNow(d, t)
        BY <1>3
    <2>3. NoTurn(t)
        BY <1>1, <1>4, NoTurns
    <2>4. CASE call' = Set(t, [GivenUp(t) EXCEPT !.at = "failed"]) /\ disp' = d
        <3>1. DispStep(disp, disp', t) /\ disp'.lease = t
            BY <2>2, <2>4, NowStep
        <3>2. PICK at \in {"failed", "accepted"} : call' = Set(t, [GivenUp(t) EXCEPT !.at = at])
            BY <2>4
        <3> QED BY <1>1, <1>2, <2>3, <3>1, <3>2, GivenUpKeeps
    <2>5. CASE FailedTurn(t, call[t].ans.kind = "exited", d)
        <3>1. PICK exited \in BOOLEAN : exited = (call[t].ans.kind = "exited")
            OBVIOUS
        <3>2. FailedTurn(t, exited, d)
            BY <2>5, <3>1
        <3> QED BY <1>1, <1>2, <2>2, <2>3, <3>2, FailedKeeps DEF NoTurn
    <2> QED BY <2>1, <2>2, <2>4, <2>5 DEF NotConnected
<1>5. CASE FailedTurn(t, FALSE, disp)
    BY <1>1, <1>2, <1>3, <1>5, LeftKeeps
<1>6. CASE Blocked(t, disp)
    BY <1>1, <1>2, <1>3, <1>6, BlockedKeeps
<1>7. CASE /\ call[t].then \notin {"connect", "turn", "guard"} /\ (call[t].then \in {"cancel", "deliver"} => call[t].own)
           /\ call' = Set(t, Done) /\ disp' = Freed(t, disp)
    <2>1. NoTurn(t)
        <3>1. CASE call[t].then = "cancel"
            <4>1. Gone(n) /\ n \in Transport
                BY <1>1, <1>3, <1>7, <3>1 DEF CallShape, Placed, Waiting
            <4>2. \A w, id : ~Carries(tp[n], w, id)
                <5>1. PICK y : y = tp[n] /\ y.loop = "done"
                    BY <4>1 DEF Gone
                <5>2. LoopSound(y)
                    BY <4>1, <5>1, Parts
                <5>3. y.out = <<>> /\ ~IsRequest(y.writing) /\ y.jobs = {} /\ y.stdout = <<>>
                    BY <5>1, <5>2 DEF LoopSound
                <5> QED BY <5>1, <5>3, EmptyLine
            <4>3. ASSUME NEW k \in Transport, NEW id, StageOf(t, k, id) PROVE k = n
                BY <1>1, <3>1, <4>3 DEF StageOf, Stage, Prompting, Ending, Recovering
            <4> QED BY <4>2, <4>3 DEF NoTurn
        <3>2. CASE call[t].then \in {"none", "connect", "deliver"}
            BY <1>1, <3>2, NoTurns
        <3> QED BY <1>3, <1>7, <3>1, <3>2 DEF CallRow, Thens
    <2>2. DispStep(disp, disp', t) /\ disp'.lease = NoTask
        <3>1. disp \in DispRow /\ disp.lease = t /\ NoTask \in Caller
            BY <1>3 DEF DispNow, Caller
        <3>2. disp' = [disp EXCEPT !.lease = NoTask]
            BY <1>7, <3>1 DEF Freed
        <3>3. [disp EXCEPT !.lease = NoTask] \in DispRow
            BY <3>1 DEF DispRow
        <3>4. /\ disp' \in DispRow /\ disp'.lease = NoTask /\ disp'.raced = disp.raced /\ disp'.client = disp.client
              /\ disp'.overran = disp.overran
            BY <3>1, <3>2, <3>3 DEF DispRow
        <3> QED BY <1>3, <3>4 DEF DispNow, DispStep
    <2> QED BY <1>1, <1>2, <1>7, <2>1, <2>2, EndKeeps DEF NoTurn
<1> QED BY <1>4, <1>5, <1>6, <1>7 DEF Joined, shutdown_reaped

\* The agent is told to cancel, and then to end.
LEMMA NotifyKeeps ==
    ASSUME AcpInv, NEW t \in Tasks, notify(t)
    PROVE  AcpInv'
<1> DEFINE n == call[t].tp
<1>1. call[t].at = "notify" /\ call[t].at \notin Resting /\ UNCHANGED <<gate, router>>
    BY DEF notify, CallRest, Resting
<1>2. CallShape(call[t], t) /\ DispNow(disp, t) /\ GateStep
    BY <1>1, Owner, DispNows, Still
<1>3. CASE FailedTurn(t, FALSE, disp) /\ tp' = tp
    BY <1>1, <1>2, <1>3, Still, LeftKeeps
<1>4. CASE /\ ~Gone(n)
           /\ tp' = [tp EXCEPT ![n].out = Append(@, Msg("notification", 0, t, "cancel", 0)), ![n].taken = TRUE]
           /\ call' = Set(t, Closing(t, n, "cancel")) /\ disp' = disp
    <2>1. PICK k \in Transport, then \in Thens : k = n /\ then = "cancel" /\ call[t].want = 0
        BY <1>1, <1>2 DEF CallShape, Placed, Waiting, Thens
    <2>2. PICK m \in Message : m = Msg("notification", 0, t, "cancel", 0) /\ ~IsRequest(m)
        <3>1. t \in Caller
            BY DEF Caller
        <3>2. Msg("notification", 0, t, "cancel", 0) \in [kind : Kinds, id : Nat, by : Caller, method : Methods, session : Nat]
            BY SMT, <3>1 DEF Msg, Kinds, Methods
        <3>3. Msg("notification", 0, t, "cancel", 0).kind = "notification"
            BY DEF Msg
        <3>4. Msg("notification", 0, t, "cancel", 0) \in Message
            BY <3>2, <3>3 DEF Message, Addressed
        <3> QED BY <3>3, <3>4 DEF IsRequest
    <2>3. tp \in [Transport -> Line] /\ tp[k].loop # "done"
        BY <1>4, <2>1, Parts DEF Gone
    <2>4. PICK g : g = [tp EXCEPT ![k].out = Append(@, m)] /\ AllTouch(tp, g)
        BY <2>2, <2>3, TouchAppend
    <2>5. tp' = [g EXCEPT ![k].taken = TRUE]
        BY <1>4, <2>1, <2>2, <2>3, <2>4 DEF Line
    <2>6. AllTouch(tp, tp')
        <3>1. PICK f : f = tp
            OBVIOUS
        <3>2. AllTouch(f, [g EXCEPT ![k].taken = TRUE])
            BY <2>4, <3>1, TouchTaken
        <3> QED BY <2>5, <3>1, <3>2
    <2>7. LinesStep
        BY <2>6, TouchKeeps
    <2>8. PICK d \in CallRow : /\ d = Closing(t, k, then) /\ d.at = "shut" /\ d.then = then /\ d.tp = k
                               /\ d.want = call[t].want /\ d.ans = call[t].ans /\ d.text = call[t].text
        BY SMT, ClosingForm
    <2>9. DispStep(disp, disp', t) /\ disp'.lease = t
        BY <1>2, <1>4, NowStep
    <2>10. call' = Set(t, d) /\ d.at \in {"shut", "join"} /\ d.tp \in Transport /\ d.want = 0
        BY <1>4, <2>1, <2>8
    <2>11. ASSUME NEW l \in Transport, NEW id, StageOf(t, l, id) PROVE Ending(d, l)
        BY <1>1, <2>1, <2>8, <2>11 DEF StageOf, Stage, Prompting, Ending, Recovering
    <2> QED BY <1>1, <1>2, <2>7, <2>8, <2>9, <2>10, <2>11, ShutKeeps
<1> QED BY <1>3, <1>4 DEF notify

\* The client is taken out of the slot and its process ended.
LEMMA TakenKeeps ==
    ASSUME AcpInv, NEW t \in Tasks, call[t].at \notin Resting, GateStep, disp.client # 0,
           NEW then \in Thens, NEW d, DispNow(d, t), Taken(t, then, d),
           call[t].want # 0 => disp.client = call[t].tp,
           NoTurn(t) \/ then \in {"turn", "guard"}
    PROVE  AcpInv'
<1>1. PICK n \in Transport : n = disp.client
    BY Owner
<1>2. disp' = [d EXCEPT !.client = 0] /\ call' = Set(t, Closing(t, n, then)) /\ tp' = [tp EXCEPT ![n].taken = TRUE]
    BY <1>1 DEF Taken
<1>3. LinesStep /\ LinesKeep
    <2>1. PICK f : f = tp /\ AllTouch(f, f)
        BY TouchSame
    <2>2. AllTouch(f, [f EXCEPT ![n].taken = TRUE])
        BY <2>1, TouchTaken
    <2>3. AllTouch(tp, tp')
        BY <1>2, <2>1, <2>2
    <2> QED BY <2>3, TouchKeeps
<1>4. DispStep(disp, disp', t) /\ disp'.lease = t
    <2>1. PICK z \in Transport \cup {0} : z = 0
        OBVIOUS
    <2> QED BY <1>2, <2>1, SlotStep
<1>5. PICK e \in CallRow : /\ e = Closing(t, n, then) /\ e.at = "shut" /\ e.then = then /\ e.tp = n
                           /\ e.want = call[t].want /\ e.ans = call[t].ans /\ e.text = call[t].text
    BY SMT, ClosingForm
<1>6. /\ call' = Set(t, e) /\ e.at \in {"shut", "join"} /\ e.tp \in Transport
      /\ e.want # 0 => e.want = call[t].want /\ e.tp = call[t].tp /\ Keeps(tp[e.tp], tp'[e.tp])
    BY <1>1, <1>2, <1>3, <1>5 DEF LinesKeep
<1>7. ASSUME NEW l \in Transport, NEW id, Carries(tp[l], t, id), StageOf(t, l, id) PROVE Ending(e, l)
    <2>1. then \in {"turn", "guard"}
        BY <1>7 DEF NoTurn
    <2> QED BY <1>5, <2>1 DEF Ending
<1> QED BY <1>3, <1>4, <1>5, <1>6, <1>7, ShutKeeps

\* What the lease layer does after a failed delivery.
LEMMA FinalizeKeeps ==
    ASSUME AcpInv, NEW t \in Tasks, finalize_delivery_failure(t)
    PROVE  AcpInv'
<1>1. call[t].at = "failed" /\ call[t].at \notin Resting /\ UNCHANGED <<gate, router>>
    BY DEF finalize_delivery_failure, CallRest, Resting
<1>2. CallShape(call[t], t) /\ DispNow(disp, t) /\ GateStep /\ NoTurn(t)
    BY <1>1, Owner, DispNows, Still, NoTurns
<1>3. CASE Blocked(t, disp) /\ tp' = tp
    BY <1>1, <1>2, <1>3, Still, BlockedKeeps
<1>4. CASE disp.client # 0 /\ Taken(t, "deliver", disp)
    <2>1. PICK then, d : then \in Thens /\ then = "deliver" /\ d = disp
        BY DEF Thens
    <2>2. call[t].want = 0
        BY <1>1, <1>2 DEF CallShape, Waiting
    <2>3. DispNow(d, t) /\ Taken(t, then, d)
        BY <1>2, <1>4, <2>1
    <2> QED BY <1>1, <1>2, <1>4, <2>1, <2>2, <2>3, TakenKeeps
<1> QED BY <1>3, <1>4 DEF finalize_delivery_failure

\* A turn reaches its deadline.
LEMMA DeadlineKeeps ==
    ASSUME AcpInv, NEW t \in Tasks, TurnDeadline(t)
    PROVE  AcpInv'
<1>1. call[t].at = "prompt" /\ call[t].at \notin Resting /\ UNCHANGED <<gate, router>>
    BY DEF TurnDeadline, CallRest, Resting
<1>2. /\ CallFits(call[t], disp.row, disp.client, gate.phase) /\ DispNow(Counted, t) /\ GateStep
    BY <1>1, Owner, DispNows, Still
<1>3. CASE FailedTurn(t, FALSE, Counted) /\ tp' = tp
    <2>1. PICK d : d = Counted /\ DispNow(d, t)
        BY <1>2
    <2> QED BY <1>1, <1>2, <1>3, <2>1, Still, LeftKeeps
<1>4. CASE disp.client # 0 /\ Taken(t, "turn", Counted)
    <2>1. PICK then, d : then \in Thens /\ then = "turn" /\ d = Counted
        BY DEF Thens
    <2>2. disp.client = call[t].tp
        BY <1>1, <1>2, <1>4 DEF CallFits, Client
    <2>3. DispNow(d, t) /\ Taken(t, then, d)
        BY <1>2, <1>4, <2>1
    <2> QED BY <1>1, <1>2, <1>4, <2>1, <2>2, <2>3, TakenKeeps
<1> QED BY <1>3, <1>4 DEF TurnDeadline

\* A turn is dropped.
LEMMA TurnDroppedKeeps ==
    ASSUME AcpInv, NEW t \in Tasks, TurnDropped(t)
    PROVE  AcpInv'
<1>1. UNCHANGED <<gate, router>> /\ InTurn(t)
    BY DEF TurnDropped, CallRest
<1>2. call[t].at \notin Resting
    <2>1. CallShape(call[t], t)
        BY DEF AcpInv, Calls, CallSound
    <2> QED BY <1>1, <2>1 DEF InTurn, CallShape, Resting
<1>3. GateStep /\ AllTouch(tp, Abandoned(t)) /\ DispNow(Released(t, Counted), t)
    BY <1>1, <1>2, Still, TouchAbandoned, DispNows
<1>4. PICK d : d = Released(t, Counted) /\ DispNow(d, t)
    BY <1>3
<1>5. CASE Blocked(t, Released(t, Counted)) /\ tp' = Abandoned(t)
    <2>1. LinesStep
        BY <1>3, <1>5, TouchKeeps
    <2> QED BY <1>2, <1>3, <1>4, <1>5, <2>1, BlockedKeeps
<1>6. CASE /\ disp.client # 0 /\ disp' = [Released(t, Counted) EXCEPT !.client = 0]
           /\ call' = Set(t, [Closing(t, disp.client, "guard") EXCEPT !.want = 0])
           /\ tp' = [Abandoned(t) EXCEPT ![disp.client].taken = TRUE]
    <2>1. PICK n \in Transport, then \in Thens : n = disp.client /\ then = "guard"
        BY <1>2, <1>6, Owner DEF Thens
    <2>2. LinesStep
        <3>1. PICK f, g : f = tp /\ g = Abandoned(t) /\ AllTouch(f, g)
            BY <1>3
        <3>2. AllTouch(f, [g EXCEPT ![n].taken = TRUE])
            BY <3>1, TouchTaken
        <3>3. AllTouch(tp, tp')
            BY <1>6, <2>1, <3>1, <3>2
        <3> QED BY <3>3, TouchKeeps
    <2>3. DispStep(disp, disp', t) /\ disp'.lease = t
        <3>1. PICK z \in Transport \cup {0} : z = 0
            OBVIOUS
        <3>2. disp' = [d EXCEPT !.client = z]
            BY <1>4, <1>6, <3>1
        <3> QED BY <1>4, <3>2, SlotStep
    <2>4. PICK e \in CallRow : /\ e = [Closing(t, n, then) EXCEPT !.want = 0] /\ e.at = "shut" /\ e.then = then /\ e.tp = n
                               /\ e.want = 0 /\ e.ans = call[t].ans /\ e.text = call[t].text
        BY SMT, ClosingFree
    <2>5. call' = Set(t, e) /\ e.at \in {"shut", "join"} /\ e.tp \in Transport /\ e.want = 0
        BY <1>6, <2>1, <2>4
    <2>6. \A l : Ending(e, l)
        BY <2>1, <2>4 DEF Ending
    <2> QED BY <1>2, <1>3, <2>2, <2>3, <2>4, <2>5, <2>6, ShutKeeps
<1> QED BY <1>5, <1>6 DEF TurnDropped

\* A turn is cancelled.
LEMMA CancelKeeps ==
    ASSUME AcpInv, NEW t \in Tasks, cancel_and_shutdown(t)
    PROVE  AcpInv'
<1> DEFINE n == disp.client
<1>1. call[t].at = "prompt" /\ call[t].at \notin Resting /\ UNCHANGED <<gate, router>> /\ tp' = tp
    BY DEF cancel_and_shutdown, CallRest, Resting
<1>2. /\ CallFits(call[t], disp.row, disp.client, gate.phase) /\ DispNow(Counted, t) /\ GateStep /\ LinesStep
      /\ call[t] \in CallRow /\ n \in Transport \cup {0} /\ CallShape(call[t], t)
    BY <1>1, Owner, DispNows, Still
<1>3. PICK d : d = Counted /\ DispNow(d, t)
    BY <1>2
<1>4. CASE FailedTurn(t, FALSE, Counted)
    BY <1>1, <1>2, <1>3, <1>4, LeftKeeps
<1>5. CASE /\ n # 0 /\ disp' = [Counted EXCEPT !.client = 0]
           /\ call' = Set(t, [call[t] EXCEPT !.at = "notify", !.tp = n, !.want = 0])
    <2>1. PICK k \in Transport, j \in Nat, z \in Nat : k = n /\ j = k /\ z = 0
        BY <1>2, <1>5, Numbers
    <2>2. call[t].tp = k
        BY <1>1, <1>2, <1>5, <2>1 DEF CallFits, Client
    <2>3. DispStep(disp, disp', t) /\ disp'.lease = t
        <3>1. PICK y \in Transport \cup {0} : y = 0
            OBVIOUS
        <3>2. disp' = [d EXCEPT !.client = y]
            BY <1>3, <1>5, <3>1
        <3> QED BY <1>3, <3>2, SlotStep
    <2>4. PICK c \in CallRow : c = call[t]
        BY <1>2
    <2>5. PICK e : e = [c EXCEPT !.at = "notify", !.tp = j, !.want = z]
        OBVIOUS
    <2>6. e \in CallRow
        BY <2>5 DEF CallRow, Stages
    <2>7. e.at = "notify" /\ e.goal = c.goal /\ e.tp = j /\ e.want = z /\ e.ans = c.ans /\ e.text = c.text
        BY <2>5 DEF CallRow
    <2>8. call' = Set(t, e)
        BY <1>5, <2>1, <2>4, <2>5
    <2>9. e.at \notin Resting /\ CallShape(e, t) /\ CallFits(e, disp'.row, disp'.client, gate'.phase) /\ e.want = 0
        BY <1>2, <2>1, <2>4, <2>7 DEF CallShape, CallFits, Resting, Placed, Waiting
    <2>10. ASSUME NEW l \in Transport, NEW id, StageOf(t, l, id)
           PROVE  Stage(e, tp'[l].loop, l, id, disp'.client, gate'.phase)
        <3>1. l = k
            BY <1>1, <2>2, <2>10 DEF StageOf, Stage, Prompting, Ending, Recovering
        <3> QED BY <2>1, <2>7, <3>1 DEF Stage, Ending
    <2> QED BY <1>1, <1>2, <2>3, <2>4, <2>6, <2>7, <2>8, <2>9, <2>10, MoveKeeps
<1> QED BY <1>4, <1>5 DEF cancel_and_shutdown

\* connect reaches its deadline.
LEMMA ConnectTimesOutKeeps ==
    ASSUME AcpInv, NEW t \in Tasks, ConnectTimesOut(t)
    PROVE  AcpInv'
<1> DEFINE n == call[t].tp
<1>1. /\ call[t].at \in {"init", "auth"} /\ call[t].at \notin Resting /\ UNCHANGED <<gate, router>> /\ disp' = disp
      /\ call' = Set(t, [Closing(t, n, "connect") EXCEPT !.want = 0])
      /\ tp' = [Abandoned(t) EXCEPT ![n].taken = TRUE]
    BY DEF ConnectTimesOut, CallRest, Resting
<1>2. GateStep /\ AllTouch(tp, Abandoned(t)) /\ DispNow(disp, t) /\ CallShape(call[t], t) /\ NoTurn(t)
    BY <1>1, Still, TouchAbandoned, DispNows, Owner, NoTurns
<1>3. PICK k \in Transport, then \in Thens : k = n /\ then = "connect"
    BY <1>1, <1>2 DEF CallShape, Placed, Waiting, Thens
<1>4. LinesStep
    <2>1. PICK f, g : f = tp /\ g = Abandoned(t) /\ AllTouch(f, g)
        BY <1>2
    <2>2. AllTouch(f, [g EXCEPT ![k].taken = TRUE])
        BY <2>1, TouchTaken
    <2>3. AllTouch(tp, tp')
        BY <1>1, <1>3, <2>1, <2>2
    <2> QED BY <2>3, TouchKeeps
<1>5. DispStep(disp, disp', t) /\ disp'.lease = t
    BY <1>1, <1>2, NowStep
<1>6. PICK e \in CallRow : /\ e = [Closing(t, k, then) EXCEPT !.want = 0] /\ e.at = "shut" /\ e.then = then /\ e.tp = k
                           /\ e.want = 0 /\ e.ans = call[t].ans /\ e.text = call[t].text
    BY SMT, ClosingFree
<1>7. call' = Set(t, e) /\ e.at \in {"shut", "join"} /\ e.tp \in Transport /\ e.want = 0
    BY <1>1, <1>3, <1>6
<1>8. \A l \in Transport : \A id : ~(Carries(tp[l], t, id) /\ StageOf(t, l, id))
    BY <1>2 DEF NoTurn
<1> QED BY <1>1, <1>2, <1>4, <1>5, <1>6, <1>7, <1>8, ShutKeeps

\* ensure_client has a client.
LEMMA ConnectedForm ==
    ASSUME NEW t \in Tasks, call[t] \in CallRow, NEW n \in Transport
    PROVE  \E d \in CallRow : /\ d = Connected(t, n) /\ d.at = IF call[t].goal = "deliver" THEN "session" ELSE "resume"
                              /\ d.goal = call[t].goal /\ d.tp = n /\ d.want = 0 /\ d.ans.kind = "none"
                              /\ d.text = call[t].text
<1>1. PICK a \in Answer, k \in Nat, z \in Nat : a = NoAnswer /\ k = n /\ z = 0 /\ a.kind = "none"
    BY Calls1, Numbers
<1>2. PICK c \in CallRow, at \in Stages : c = call[t] /\ at = IF call[t].goal = "deliver" THEN "session" ELSE "resume"
    BY DEF Stages
<1>3. PICK d : d = [c EXCEPT !.at = at, !.tp = k, !.want = z, !.ans = a]
    OBVIOUS
<1>4. d \in CallRow
    BY <1>3 DEF CallRow
<1>5. d.at = at /\ d.goal = c.goal /\ d.tp = k /\ d.want = z /\ d.ans = a /\ d.text = c.text
    BY <1>3 DEF CallRow
<1>6. d = Connected(t, n)
    BY <1>1, <1>2, <1>3 DEF Connected
<1> QED BY <1>1, <1>2, <1>4, <1>5, <1>6

\* ... and the call goes on with it.
LEMMA ConnectedKeeps ==
    ASSUME AcpInv, NEW t \in Tasks, call[t].at \notin Resting, LinesStep, GateStep, DispStep(disp, disp', t),
           NEW n \in Transport, call' = Set(t, Connected(t, n)), disp'.lease = t,
           \A k \in Transport : \A id : Carries(tp[k], t, id) /\ StageOf(t, k, id) =>
               call[t].goal = "recover" /\ k = n /\ tp'[k].loop = "terminate"
    PROVE  AcpInv'
<1>1. call[t] \in CallRow
    BY Owner
<1>2. PICK d \in CallRow : /\ d = Connected(t, n) /\ d.at = IF call[t].goal = "deliver" THEN "session" ELSE "resume"
                           /\ d.goal = call[t].goal /\ d.tp = n /\ d.want = 0 /\ d.ans.kind = "none"
                           /\ d.text = call[t].text
    BY SMT, <1>1, ConnectedForm
<1>3. d.at \in {"session", "resume"} /\ (call[t].goal = "recover" => d.at = "resume")
    BY <1>2
<1>4. d.at \notin Resting /\ CallShape(d, t) /\ CallFits(d, disp'.row, disp'.client, gate'.phase) /\ call' = Set(t, d)
    BY <1>2, <1>3 DEF CallShape, CallFits, Resting, Placed, Waiting
<1>5. ASSUME NEW k \in Transport, NEW id, Carries(tp[k], t, id), StageOf(t, k, id)
      PROVE  Stage(d, tp'[k].loop, k, id, disp'.client, gate'.phase)
    <2>1. call[t].goal = "recover" /\ k = n /\ tp'[k].loop = "terminate"
        BY <1>5
    <2> QED BY <1>2, <1>3, <2>1 DEF Stage, Recovering
<1> QED BY <1>2, <1>4, <1>5, MoveKeeps

\* The new client answered initialize, and authenticate.
LEMMA NegotiatedKeeps ==
    ASSUME AcpInv, NEW t \in Tasks, Initialized(t) \/ Authenticated(t)
    PROVE  AcpInv'
<1> DEFINE n == call[t].tp
<1>1. call[t].at \in {"init", "auth"} /\ call[t].at \notin Resting /\ UNCHANGED <<gate, router>>
    BY DEF Initialized, Authenticated, CallRest, Resting
<1>2. /\ GateStep /\ DispNow(disp, t) /\ CallShape(call[t], t) /\ NoTurn(t)
      /\ DispNow([disp EXCEPT !.connecting = NoTask], t) /\ disp \in DispRow
    BY <1>1, Still, DispNows, Owner, NoTurns
<1>3. PICK k \in Transport : k = n
    BY <1>1, <1>2 DEF CallShape, Placed, Waiting
<1>4. \A l \in Transport : \A id : ~(Carries(tp[l], t, id) /\ StageOf(t, l, id))
    BY <1>2 DEF NoTurn
<1>5. CASE Negotiated(t)
    <2>1. /\ call' = Set(t, Connected(t, k)) /\ tp' = tp
          /\ disp' = [disp EXCEPT !.client = k, !.connecting = NoTask]
        BY <1>3, <1>5 DEF Negotiated
    <2>2. DispStep(disp, disp', t) /\ disp'.lease = t
        <3>1. PICK d : d = [disp EXCEPT !.connecting = NoTask] /\ DispNow(d, t)
            BY <1>2
        <3>2. PICK y \in Transport \cup {0} : y = k
            OBVIOUS
        <3>3. disp' = [d EXCEPT !.client = y]
            BY <1>2, <2>1, <3>1, <3>2 DEF DispRow
        <3> QED BY <3>1, <3>3, SlotStep
    <2>3. LinesStep
        BY <2>1, Still
    <2> QED BY <1>1, <1>2, <1>4, <2>1, <2>2, <2>3, ConnectedKeeps
<1>6. CASE ConnectFails(t)
    <2>1. call' = Set(t, Closing(t, k, "connect")) /\ tp' = [tp EXCEPT ![k].taken = TRUE] /\ disp' = disp
        BY <1>3, <1>6 DEF ConnectFails
    <2>2. LinesStep /\ LinesKeep
        <3>1. PICK f : f = tp /\ AllTouch(f, f)
            BY TouchSame
        <3>2. AllTouch(f, [f EXCEPT ![k].taken = TRUE])
            BY <3>1, TouchTaken
        <3>3. AllTouch(tp, tp')
            BY <2>1, <3>1, <3>2
        <3> QED BY <3>3, TouchKeeps
    <2>3. DispStep(disp, disp', t) /\ disp'.lease = t
        BY <1>2, <2>1, NowStep
    <2>4. PICK then \in Thens : then = "connect"
        BY DEF Thens
    <2>5. PICK e \in CallRow : /\ e = Closing(t, k, then) /\ e.at = "shut" /\ e.then = then /\ e.tp = k
                               /\ e.want = call[t].want /\ e.ans = call[t].ans /\ e.text = call[t].text
        BY SMT, ClosingForm
    <2>6. /\ call' = Set(t, e) /\ e.at \in {"shut", "join"} /\ e.tp \in Transport
          /\ e.want # 0 => e.want = call[t].want /\ e.tp = call[t].tp /\ Keeps(tp[e.tp], tp'[e.tp])
        BY <1>3, <2>1, <2>2, <2>4, <2>5 DEF LinesKeep
    <2> QED BY <1>1, <1>2, <1>4, <2>2, <2>3, <2>5, <2>6, ShutKeeps
<1>7. CASE /\ ~Gone(n) /\ tp' = Sent(n, t, "authenticate", 0) /\ call' = Set(t, AwaitReply(t, n, "auth"))
           /\ disp' = disp
    <2>1. DispStep(disp, disp', t) /\ disp'.lease = t
        BY <1>2, <1>7, NowStep
    <2>2. PICK at \in {"auth", "bind", "resuming"} : at = "auth"
        OBVIOUS
    <2>3. PICK method \in Methods, session \in Nat : method = "authenticate" /\ session = 0
        BY Numbers DEF Methods
    <2>4. /\ tp[k].loop # "done" /\ call' = Set(t, AwaitReply(t, k, at)) /\ tp' = Sent(k, t, method, session)
          /\ method # "prompt" /\ at # "bind"
        BY <1>3, <1>7, <2>2, <2>3 DEF Gone
    <2> QED BY <1>1, <1>2, <1>4, <2>1, <2>4, SentKeeps
<1> QED BY <1>5, <1>6, <1>7 DEF Initialized, Authenticated

\* A transport that was never started.
LEMMA Blank == NotSpawned \in Line
<1>1. PICK z \in Nat, a \in Seq(Message), b \in Seq(Said1), m \in Message :
          z = 0 /\ a = <<>> /\ b = <<>> /\ m = NoMsg
    <2>1. <<>> \in Seq(Message) /\ <<>> \in Seq(Said1)
        BY SMT
    <2> QED BY <2>1, Numbers, NoMessage
<1>2. NotSpawned = [loop |-> "none", child |-> "none", held |-> FALSE, alive |-> FALSE, taken |-> FALSE,
                    next |-> z, out |-> a, pending |-> {}, writing |-> m, stdout |-> b, jobs |-> {}]
    BY <1>1 DEF NotSpawned
<1> QED BY <1>2 DEF Line, Loops, Children

\* A process is started.
LEMMA Spawns ==
    \A n : /\ Child(n) \in Line /\ Child(n).loop = "run" /\ Child(n).child = "up" /\ Child(n).alive = TRUE
           /\ Child(n).next = 0 /\ Child(n).out = <<>> /\ Child(n).pending = {} /\ Child(n).writing = NoMsg
           /\ Child(n).stdout = <<>> /\ Child(n).jobs = {}
<1>2. NotSpawned \in Line
    BY Blank
<1>3. \A n : Child(n) \in Line
    BY <1>2 DEF Child, Line, Loops, Children
<1>4. \A n : /\ Child(n).loop = "run" /\ Child(n).child = "up" /\ Child(n).alive = TRUE
              /\ Child(n).next = 0 /\ Child(n).out = <<>> /\ Child(n).pending = {} /\ Child(n).writing = NoMsg
              /\ Child(n).stdout = <<>> /\ Child(n).jobs = {}
    BY DEF Child, NotSpawned
<1> QED BY <1>3, <1>4

\* Its line is sound, and the others are left alone.
LEMMA SpawnLines ==
    ASSUME AcpInv, NEW n \in Transport, NEW y \in Line, tp' \in [Transport -> Line], tp'[n] = y,
           \A k \in Transport : k # n => tp'[k] = tp[k],
           LineSound(y), LoopSound(y), \A w, id : ~Carries(y, w, id), gate.phase = "open"
    PROVE  LinesStep
<1>1. Lines'
    BY DEF AcpInv, Lines
<1>2. ASSUME NEW k \in Transport, NEW w, NEW id, Carries(tp'[k], w, id) PROVE Carries(tp[k], w, id)
    BY <1>2
<1> QED BY <1>1, <1>2 DEF LinesStep

\* A process is started and registered, and asked to initialize, or ended again.
LEMMA SpawnKeeps ==
    ASSUME AcpInv, NEW t \in Tasks, call[t].at = "connect", call[t].at \notin Resting, gate.phase = "open",
           NoTurn(t), router' = router, connect_with_gate(t)
    PROVE  AcpInv'
<1>1. PICK n \in Transport :
          \/ /\ tp' = [[tp EXCEPT ![n] = Child(n)] EXCEPT
                        ![n].next = 1, ![n].out = <<Msg("request", 1, t, "initialize", 0)>>]
             /\ call' = Set(t, [AwaitReply(t, n, "init") EXCEPT !.want = 1])
             /\ gate' = register_child(n, TRUE) /\ disp' = [disp EXCEPT !.connecting = t]
          \/ /\ tp' = [[tp EXCEPT ![n] = Child(n)] EXCEPT ![n].taken = TRUE]
             /\ call' = Set(t, [Closing(t, n, "connect") EXCEPT !.own = TRUE])
             /\ \/ gate' = register_child(n, FALSE) /\ disp' = [Counted EXCEPT !.connecting = t]
                \/ gate' = [gate EXCEPT !.failed = TRUE] /\ disp' = [disp EXCEPT !.connecting = t]
    BY DEF connect_with_gate
<1>2. PICK x \in Line : /\ x = Child(n) /\ x.loop = "run" /\ x.child = "up" /\ x.alive = TRUE
                        /\ x.next = 0 /\ x.out = <<>> /\ x.pending = {} /\ x.writing = NoMsg
                        /\ x.stdout = <<>> /\ x.jobs = {}
    BY Spawns
<1>3. PICK sp \in [Transport -> Line] :
          sp = [tp EXCEPT ![n] = Child(n)] /\ sp[n] = x /\ \A k \in Transport : k # n => sp[k] = tp[k]
    <2>1. tp \in [Transport -> Line]
        BY Parts
    <2>2. [tp EXCEPT ![n] = x] \in [Transport -> Line]
        BY <2>1
    <2> QED BY <1>2, <2>1, <2>2
<1>4. LineSound(x) /\ \A w, id : ~Carries(x, w, id)
    <2>1. ~IsRequest(x.writing)
        BY <1>2, NoMessage
    <2> QED BY <1>2, <2>1, EmptyLine
<1>5. /\ DispNow(disp, t) /\ DispNow(Counted, t) /\ CallShape(call[t], t) /\ call[t] \in CallRow /\ gate \in Gates
      /\ t \in Caller /\ n \in Nat
    BY DispNows, Owner, Numbers DEF AcpInv, Typed, Caller
<1>6. call[t].want = 0 /\ call[t].ans.kind = "none"
    BY <1>5 DEF CallShape, Waiting
<1>7. \A l \in Transport : \A id : ~(Carries(tp[l], t, id) /\ StageOf(t, l, id))
    BY DEF NoTurn
<1>8. ASSUME NEW ok \in BOOLEAN PROVE register_child(n, ok) \in Gates /\ register_child(n, ok).phase = gate.phase
    <2>1. PICK ts \in SUBSET Nat, failed \in BOOLEAN : ts = gate.transports \cup {n} /\ failed = (gate.failed \/ ~ok)
        BY <1>5 DEF Gates
    <2>2. register_child(n, ok) = [gate EXCEPT !.transports = ts, !.failed = failed]
        BY <2>1 DEF register_child
    <2>3. [gate EXCEPT !.transports = ts, !.failed = failed] \in Gates
        BY <1>5 DEF Gates
    <2>4. [gate EXCEPT !.transports = ts, !.failed = failed].phase = gate.phase
        BY <1>5 DEF Gates
    <2> QED BY <2>2, <2>3, <2>4
<1>9. [gate EXCEPT !.failed = TRUE] \in Gates /\ [gate EXCEPT !.failed = TRUE].phase = gate.phase
    BY <1>5 DEF Gates
<1>10. ASSUME NEW d, DispNow(d, t), disp' = [d EXCEPT !.connecting = t]
       PROVE  DispStep(disp, disp', t) /\ disp'.lease = t
    <2>1. d \in DispRow
        BY <1>10 DEF DispNow
    <2>2. SameDisp(d, disp')
        BY <1>5, <1>10, <2>1, LockForms
    <2> QED BY <1>10, <2>2 DEF DispNow, SameDisp, DispStep
<1>11. CASE /\ tp' = [sp EXCEPT ![n].next = 1, ![n].out = <<Msg("request", 1, t, "initialize", 0)>>]
            /\ call' = Set(t, [AwaitReply(t, n, "init") EXCEPT !.want = 1])
            /\ gate' = register_child(n, TRUE) /\ disp' = [disp EXCEPT !.connecting = t]
    <2>1. PICK m \in Message : /\ m = Msg("request", 1, t, "initialize", 0)
                               /\ m.kind = "request" /\ m.id = 1 /\ m.by = t /\ m.method = "initialize"
        <3>1. Msg("request", 1, t, "initialize", 0) \in [kind : Kinds, id : Nat, by : Caller, method : Methods, session : Nat]
            BY SMT, <1>5 DEF Msg, Kinds, Methods
        <3>2. /\ Msg("request", 1, t, "initialize", 0).kind = "request" /\ Msg("request", 1, t, "initialize", 0).id = 1
              /\ Msg("request", 1, t, "initialize", 0).by = t /\ Msg("request", 1, t, "initialize", 0).method = "initialize"
            BY DEF Msg
        <3>3. 1 # 0
            BY SMT
        <3>4. Msg("request", 1, t, "initialize", 0) \in Message
            BY <3>1, <3>2, <3>3 DEF Message, Addressed
        <3> QED BY <3>2, <3>4
    <2>2. PICK q \in Seq(Message), one \in Nat : q = <<m>> /\ q = Append(x.out, m) /\ one = 1 /\ one = x.next + 1
        <3>1. <<m>> \in Seq(Message) /\ <<m>> = Append(x.out, m) /\ 1 \in Nat /\ 1 = x.next + 1
            BY SMT, <1>2
        <3> QED BY <3>1
    <2>3. PICK y : y = [x EXCEPT !.next = one, !.out = q]
        OBVIOUS
    <2>4. y \in Line
        BY <2>3 DEF Line
    <2>5. /\ y.loop = x.loop /\ y.child = x.child /\ y.alive = x.alive /\ y.next = one /\ y.pending = x.pending
          /\ y.writing = x.writing /\ y.stdout = x.stdout /\ y.jobs = x.jobs /\ y.out = q
        BY <2>3 DEF Line
    <2>6. tp'[n] = y /\ \A k \in Transport : k # n => tp'[k] = tp[k]
        BY <1>3, <1>11, <2>1, <2>2, <2>3
    <2>7. tp' \in [Transport -> Line]
        BY <1>3, <1>11, <2>4, <2>6
    <2>8. /\ LineSound(y) /\ \A w, id : Carries(y, w, id) => Carries(x, w, id) \/ IsPrompt(m, w, id)
          /\ \A c, row : c.want = m.id /\ Fits(c, row, m) => Awaited(y, c, m.by, row)
        <3>1. /\ LineSound(x) /\ y.next = x.next + 1 /\ IsRequest(m) /\ m.id = x.next + 1 /\ y.out = Append(x.out, m)
              /\ y.writing = x.writing /\ y.jobs = x.jobs /\ y.stdout = x.stdout
            BY <1>4, <2>1, <2>2, <2>5 DEF IsRequest
        <3> QED BY <2>4, <3>1, SendLine
    <2>9. LoopSound(y)
        BY <1>2, <2>5, NoMessage DEF LoopSound
    <2>10. LinesStep
        <3>1. \A w, id : ~Carries(y, w, id)
            BY <1>4, <2>1, <2>8 DEF IsPrompt
        <3> QED BY <2>4, <2>6, <2>7, <2>8, <2>9, <3>1, SpawnLines
    <2>11. GateStep
        BY <1>8, <1>11 DEF GateStep
    <2>12. DispStep(disp, disp', t) /\ disp'.lease = t
        BY <1>5, <1>10, <1>11
    <2>13. PICK c \in CallRow, a \in Answer, j \in Nat : c = call[t] /\ a = NoAnswer /\ a.kind = "none" /\ j = n
        BY <1>5, Calls1
    <2>14. PICK d : d = [c EXCEPT !.at = "init", !.tp = j, !.want = one, !.ans = a]
        OBVIOUS
    <2>15. d \in CallRow
        BY <2>14 DEF CallRow, Stages
    <2>16. d.at = "init" /\ d.tp = j /\ d.want = one /\ d.ans = a /\ d.text = c.text
        BY <2>14 DEF CallRow
    <2>17. call' = Set(t, d)
        <3>1. AwaitReply(t, n, "init") = [c EXCEPT !.at = "init", !.tp = j, !.want = NextId(n), !.ans = a]
            BY <2>13 DEF AwaitReply
        <3>2. [AwaitReply(t, n, "init") EXCEPT !.want = one] = d
            BY <2>14, <3>1 DEF CallRow
        <3> QED BY <1>11, <2>2, <3>2
    <2>18. d.at \notin Resting /\ CallShape(d, t) /\ CallFits(d, disp'.row, disp'.client, gate'.phase)
        BY <2>13, <2>16 DEF CallShape, CallFits, Resting, Placed, Waiting
    <2>19. Awaited(tp'[d.tp], d, t, disp'.row)
        <3>1. PICK row : row = disp'.row
            OBVIOUS
        <3>2. d.want = m.id /\ Fits(d, row, m)
            BY <2>1, <2>2, <2>16 DEF Fits
        <3>3. Awaited(y, d, m.by, row)
            BY <2>8, <3>2
        <3> QED BY <2>1, <2>6, <2>13, <2>16, <3>1, <3>3
    <2>20. d.text = call[t].text
        BY <2>13, <2>16
    <2> QED BY <1>7, <2>10, <2>11, <2>12, <2>15, <2>17, <2>18, <2>19, <2>20, MoveKeeps
<1>12. ASSUME tp' = [sp EXCEPT ![n].taken = TRUE], GateStep, NEW d, DispNow(d, t), disp' = [d EXCEPT !.connecting = t],
              call' = Set(t, [Closing(t, n, "connect") EXCEPT !.own = TRUE])
       PROVE  AcpInv'
    <2>1. PICK y : y = [x EXCEPT !.taken = TRUE]
        OBVIOUS
    <2>2. y \in Line
        BY <2>1 DEF Line
    <2>3. /\ y.loop = x.loop /\ y.child = x.child /\ y.alive = x.alive /\ y.next = x.next /\ y.pending = x.pending
          /\ y.writing = x.writing /\ y.stdout = x.stdout /\ y.jobs = x.jobs /\ y.out = x.out
        BY <2>1 DEF Line
    <2>4. tp'[n] = y /\ \A k \in Transport : k # n => tp'[k] = tp[k]
        BY <1>3, <1>12, <2>1
    <2>5. tp' \in [Transport -> Line]
        BY <1>3, <1>12, <2>2, <2>4
    <2>6. LineSound(y) /\ \A w, id : ~Carries(y, w, id)
        <3>1. ~IsRequest(y.writing)
            BY <1>2, <2>3, NoMessage
        <3> QED BY <1>2, <2>3, <3>1, EmptyLine
    <2>7. LoopSound(y)
        BY <1>2, <2>3, NoMessage DEF LoopSound
    <2>8. LinesStep
        BY <2>2, <2>4, <2>5, <2>6, <2>7, SpawnLines
    <2>9. DispStep(disp, disp', t) /\ disp'.lease = t
        BY <1>10, <1>12
    <2>10. PICK then \in Thens : then = "connect"
        BY DEF Thens
    <2>11. PICK c \in CallRow : /\ c = Closing(t, n, then) /\ c.at = "shut" /\ c.then = then /\ c.tp = n
                                /\ c.want = call[t].want /\ c.ans = call[t].ans /\ c.text = call[t].text
        BY SMT, ClosingForm
    <2>12. PICK e : e = [c EXCEPT !.own = TRUE]
        OBVIOUS
    <2>13. e \in CallRow
        BY <2>12 DEF CallRow
    <2>14. e.at = c.at /\ e.then = c.then /\ e.tp = c.tp /\ e.want = c.want /\ e.ans = c.ans /\ e.text = c.text
        BY <2>12 DEF CallRow
    <2>15. call' = Set(t, e)
        BY <1>12, <2>10, <2>11, <2>12
    <2>16. e.at \in {"shut", "join"} /\ e.tp \in Transport /\ e.want = 0 /\ e.ans = call[t].ans /\ e.text = call[t].text
        BY <1>6, <2>11, <2>14
    <2> QED BY <1>7, <1>12, <2>8, <2>9, <2>13, <2>15, <2>16, ShutKeeps
<1>13. ASSUME NEW ok \in BOOLEAN, gate' = register_child(n, ok) PROVE GateStep
    BY <1>8, <1>13 DEF GateStep
<1>14. ASSUME gate' = [gate EXCEPT !.failed = TRUE] PROVE GateStep
    BY <1>9, <1>14 DEF GateStep
<1>15. CASE /\ tp' = [sp EXCEPT ![n].taken = TRUE] /\ call' = Set(t, [Closing(t, n, "connect") EXCEPT !.own = TRUE])
            /\ gate' = register_child(n, FALSE) /\ disp' = [Counted EXCEPT !.connecting = t]
    BY <1>5, <1>12, <1>13, <1>15
<1>16. CASE /\ tp' = [sp EXCEPT ![n].taken = TRUE] /\ call' = Set(t, [Closing(t, n, "connect") EXCEPT !.own = TRUE])
            /\ gate' = [gate EXCEPT !.failed = TRUE] /\ disp' = [disp EXCEPT !.connecting = t]
    BY <1>5, <1>12, <1>14, <1>16
<1> QED BY <1>1, <1>3, <1>11, <1>15, <1>16

\* A client serves, a process is started, or the gate refuses.
LEMMA EnsureKeeps ==
    ASSUME AcpInv, NEW t \in Tasks, ensure_client(t)
    PROVE  AcpInv'
<1>1. call[t].at = "connect" /\ call[t].at \notin Resting /\ router' = router
    BY DEF ensure_client, CallRest, Resting
<1>2. /\ DispNow(disp, t) /\ CallShape(call[t], t) /\ call[t] \in CallRow /\ disp.client \in Transport \cup {0}
    BY <1>1, DispNows, Owner
<1>3. call[t].goal \in {"deliver", "recover"} /\ call[t].ans.kind = "none"
    BY <1>1, <1>2 DEF CallRow, CallShape
<1>4. CASE NotConnected(t, disp) /\ UNCHANGED <<tp, gate>>
    <2>1. LinesStep /\ GateStep
        BY <1>1, <1>4, Still
    <2>2. CASE call[t].goal = "deliver"
        <3>1. call' = Set(t, [GivenUp(t) EXCEPT !.at = "failed"]) /\ disp' = disp
            BY <1>4, <2>2 DEF NotConnected
        <3>2. DispStep(disp, disp', t) /\ disp'.lease = t
            BY <1>2, <3>1, NowStep
        <3>3. NoTurn(t)
            BY <1>1, <2>2, NoTurns
        <3>4. PICK at \in {"failed", "accepted"} : call' = Set(t, [GivenUp(t) EXCEPT !.at = at])
            BY <3>1
        <3> QED BY <1>1, <2>1, <3>2, <3>3, <3>4, GivenUpKeeps
    <2>3. CASE call[t].goal = "recover"
        <3>1. FailedTurn(t, call[t].ans.kind = "exited", disp)
            BY <1>4, <2>3 DEF NotConnected
        <3>2. PICK exited, d : exited \in BOOLEAN /\ exited = (call[t].ans.kind = "exited") /\ d = disp
            OBVIOUS
        <3>3. FailedTurn(t, exited, d) /\ DispNow(d, t) /\ ~exited
            BY <1>2, <1>3, <3>1, <3>2
        <3> QED BY <1>1, <2>1, <3>2, <3>3, FailedKeeps
    <2> QED BY <1>3, <2>2, <2>3
<1>5. CASE Serving /\ call' = Set(t, Connected(t, disp.client)) /\ UNCHANGED <<tp, disp, gate>>
    <2>1. LinesStep /\ GateStep /\ DispStep(disp, disp', t) /\ disp'.lease = t
        BY <1>1, <1>2, <1>5, Still, NowStep
    <2>2. PICK n \in Transport : n = disp.client
        BY <1>2, <1>5 DEF Serving
    <2>3. call' = Set(t, Connected(t, n))
        BY <1>5, <2>2
    <2>4. ASSUME NEW k \in Transport, NEW id, StageOf(t, k, id)
          PROVE  call[t].goal = "recover" /\ k = n /\ tp'[k].loop = "terminate"
        <3>1. Recovering(call[t], tp[k].loop, k, disp.client, gate.phase)
            BY <1>1, <2>4 DEF StageOf, Stage, Prompting, Ending
        <3>2. call[t].goal = "recover" /\ Client(k, disp.client, gate.phase) /\ tp[k].loop = "terminate"
            BY <1>1, <3>1 DEF Recovering
        <3> QED BY <1>5, <2>2, <3>2 DEF Client, Serving
    <2> QED BY <1>1, <2>1, <2>3, <2>4, ConnectedKeeps
<1>6. CASE gate.phase = "open" /\ ~Serving /\ connect_with_gate(t)
    <2>1. ASSUME NEW n \in Transport, NEW id, StageOf(t, n, id) PROVE FALSE
        <3>1. Recovering(call[t], tp[n].loop, n, disp.client, gate.phase)
            BY <1>1, <2>1 DEF StageOf, Stage, Prompting, Ending
        <3>2. disp.client = n /\ tp[n].loop = "terminate"
            BY <1>1, <1>6, <3>1 DEF Recovering, Client
        <3>3. tp[n].alive /\ n # 0
            BY <3>2, Parts, Numbers DEF LoopSound
        <3> QED BY <1>6, <3>2, <3>3 DEF Serving
    <2>2. NoTurn(t)
        BY <2>1 DEF NoTurn
    <2> QED BY <1>1, <1>6, <2>2, SpawnKeeps
<1> QED BY <1>4, <1>5, <1>6 DEF ensure_client, reserve

\* Before a turn starts nothing is at work but what overran.
LEMMA Idle ==
    ASSUME AcpInv, NEW t \in Tasks, call[t].at = "start",
           NEW n \in Transport, NEW w, NEW id, Carries(tp[n], w, id)
    PROVE  w \in disp.overran
<1>1. disp.lease = t /\ ~disp.blocked /\ NoTurn(t)
    BY Owner, NoTurns DEF Resting
<1> QED BY <1>1 DEF NoTurn, AcpInv, Leased

\* The turn prompts, or the client ended meanwhile.
LEMMA PromptKeeps ==
    ASSUME AcpInv, NEW t \in Tasks, prompt(t)
    PROVE  AcpInv'
<1>1. call[t].at = "start" /\ call[t].at \notin Resting /\ UNCHANGED <<gate, router>>
    BY DEF prompt, CallRest, Resting
<1>2. /\ GateStep /\ DispNow(disp, t) /\ CallShape(call[t], t) /\ call[t] \in CallRow /\ disp \in DispRow
      /\ call \in [Tasks -> CallRow] /\ disp.client \in Transport \cup {0} /\ NoTurn(t)
      /\ call[t].text \subseteq {t} \cup disp.overran
    BY <1>1, Still, DispNows, Owner, NoTurns
<1>3. CASE call' = Set(t, [call[t] EXCEPT !.at = "connect", !.goal = "recover"]) /\ UNCHANGED <<tp, disp>>
    <2>1. LinesStep /\ DispStep(disp, disp', t) /\ disp'.lease = t
        BY <1>2, <1>3, Still, NowStep
    <2>2. PICK c \in CallRow : c = call[t]
        BY <1>2
    <2>3. PICK d : d = [c EXCEPT !.at = "connect", !.goal = "recover"]
        OBVIOUS
    <2>4. d \in CallRow
        BY <2>3 DEF CallRow, Stages
    <2>5. d.at = "connect" /\ d.goal = "recover" /\ d.want = c.want /\ d.ans = c.ans /\ d.text = c.text
        BY <2>3 DEF CallRow
    <2>6. d.at \notin Resting /\ CallShape(d, t) /\ CallFits(d, disp'.row, disp'.client, gate'.phase) /\ d.want = 0
        BY <1>1, <1>2, <2>2, <2>5 DEF CallShape, CallFits, Resting, Placed, Waiting
    <2>7. \A l \in Transport : \A id : ~(Carries(tp[l], t, id) /\ StageOf(t, l, id))
        BY <1>2 DEF NoTurn
    <2>8. call' = Set(t, d) /\ d.text = call[t].text
        BY <1>3, <2>2, <2>3, <2>5
    <2> QED BY <1>1, <1>2, <2>1, <2>4, <2>6, <2>7, <2>8, MoveKeeps
<1>4. CASE /\ Serving /\ tp' = prompt_stream(disp.client, t) /\ call' = Set(t, AwaitReply(t, disp.client, "prompt"))
           /\ disp' = set_state(disp, "prompting")
    <2>1. PICK n \in Transport, at \in Stages : n = disp.client /\ at = "prompt"
        BY <1>2, <1>4 DEF Serving, Stages
    <2>2. tp[n].loop # "done"
        <3>1. tp[n].alive /\ LoopSound(tp[n])
            BY <1>4, <2>1, Parts DEF Serving
        <3> QED BY <3>1 DEF LoopSound
    <2>3. PICK method \in Methods, session \in Nat : method = "prompt" /\ session = disp.row.id
        BY <1>2 DEF Methods, DispRow
    <2>4. tp' = Sent(n, t, method, session)
        BY <1>4, <2>1, <2>3 DEF prompt_stream, live_session
    <2>5. /\ tp' \in [Transport -> Line] /\ Lines' /\ NextId(n) \in Nat \ {0}
          /\ \A k \in Transport : tp'[k].loop = tp[k].loop /\ tp'[k].child = tp[k].child
          /\ \A k \in Transport : \A w, id : Carries(tp'[k], w, id) =>
                 Carries(tp[k], w, id) \/ (method = "prompt" /\ k = n /\ w = t /\ id = NextId(n))
          /\ \A c, row : c.want = NextId(n) /\ Fits(c, row, Msg("request", NextId(n), t, method, session)) =>
                 Awaited(tp'[n], c, t, row)
        BY <2>2, <2>4, SentLines
    <2>6. PICK d \in CallRow : /\ d = AwaitReply(t, n, at) /\ d.at = at /\ d.goal = call[t].goal /\ d.tp = n
                               /\ d.want = NextId(n) /\ d.ans.kind = "none" /\ d.text = call[t].text
        BY SMT, <1>2, <2>5, AwaitForm
    <2>7. call' \in [Tasks -> CallRow] /\ call'[t] = d /\ \A u \in Tasks : u # t => call'[u] = call[u]
        <3>1. call' = Set(t, d)
            BY <1>4, <2>1, <2>6
        <3> QED BY <3>1, SetCall
    <2>8. /\ disp' \in DispRow /\ disp'.client = disp.client /\ disp'.lease = disp.lease /\ disp'.blocked = disp.blocked
          /\ disp'.raced = disp.raced /\ disp'.overran = disp.overran
        <3>1. PICK s \in {"ready", "prompting"} : s = "prompting"
            OBVIOUS
        <3>2. disp' = set_state(disp, s)
            BY <1>4, <3>1
        <3> QED BY <1>2, <3>2, StateForm
    <2>9. Typed /\ Calls /\ Slots /\ RouterSound /\ gate' = gate /\ router' = router /\ disp.lease = t /\ ~disp.blocked
        BY <1>1, <1>2 DEF AcpInv, DispNow
    <2>10. Typed' /\ Slots'
        BY <2>5, <2>7, <2>8, <2>9 DEF Typed, Slots
    <2>11. RouterSound'
        BY <2>5, <2>9 DEF RouterSound, QualifiedMeansNoChild, Up
    <2>12. ASSUME NEW u \in Tasks PROVE CallSound(u)'
        <3>1. CASE u # t
            <4>1. CallSound(u) /\ call'[u] = call[u] /\ call[u].at \in Resting
                BY <2>7, <2>9, <3>1 DEF Calls, CallSound
            <4>2. call[u].want = 0
                BY <4>1 DEF CallSound, CallShape
            <4>3. CallFits(call[u], disp'.row, disp'.client, gate'.phase)
                BY <4>1 DEF CallFits, Resting
            <4> QED BY <2>8, <2>9, <4>1, <4>2, <4>3 DEF CallSound
        <3>2. CASE u = t
            <4>1. d.at \notin Resting /\ CallShape(d, t)
                BY <2>1, <2>6 DEF CallShape, Resting, Placed, Waiting
            <4>2. CallFits(d, disp'.row, disp'.client, gate'.phase)
                BY <2>1, <2>6, <2>8 DEF CallFits, Client
            <4>3. Awaited(tp'[d.tp], d, t, disp'.row)
                <5>1. PICK m, row : m = Msg("request", NextId(n), t, method, session) /\ row = disp'.row
                    OBVIOUS
                <5>2. m.method = "prompt"
                    BY <2>3, <5>1 DEF Msg
                <5>3. Fits(d, row, m)
                    BY <2>1, <2>6, <5>2 DEF Fits
                <5>4. \A c, r : c.want = NextId(n) /\ Fits(c, r, m) => Awaited(tp'[n], c, t, r)
                    BY <2>5, <5>1
                <5>5. Awaited(tp'[n], d, t, row)
                    BY <2>6, <5>3, <5>4
                <5> QED BY <2>6, <5>1, <5>5
            <4> QED BY <1>2, <2>6, <2>7, <2>8, <2>9, <3>2, <4>1, <4>2, <4>3 DEF CallSound
        <3> QED BY <3>1, <3>2
    <2>13. PICK p : p = NextId(n)
        OBVIOUS
    <2>14. ASSUME NEW k \in Transport, NEW w, NEW id, Carries(tp'[k], w, id), w \notin disp'.overran
           PROVE  k = n /\ w = t /\ id = p
        <3>1. ~Carries(tp[k], w, id)
            BY <1>1, <2>8, <2>14, Idle
        <3> QED BY <2>5, <2>13, <2>14, <3>1
    <2>15. StageOf(t, n, p)'
        <3>1. Prompting(d, tp'[n].loop, n, p)
            BY <2>1, <2>6, <2>13 DEF Prompting
        <3>2. Stage(call'[t], tp'[n].loop, n, p, disp'.client, gate'.phase)
            BY <2>7, <3>1 DEF Stage
        <3> QED BY <3>2 DEF StageOf
    <2>16. ASSUME NEW k \in Transport, NEW w, NEW id, Carries(tp'[k], w, id), w \notin disp'.overran
           PROVE  w \in Tasks /\ disp'.lease = w /\ StageOf(w, k, id)'
        BY <2>8, <2>9, <2>14, <2>15, <2>16
    <2>17. Leased'
        BY <2>16 DEF Leased
    <2>18. OnePrompt'
        <3>1. ASSUME NEW m \in Transport, NEW k \in Transport, NEW v, NEW w, NEW i, NEW j,
                     Carries(tp'[m], v, i), Carries(tp'[k], w, j), v \notin disp'.overran, w \notin disp'.overran
              PROVE  m = k /\ v = w /\ i = j
            <4>1. m = n /\ v = t /\ i = p
                BY <2>14, <3>1
            <4>2. k = n /\ w = t /\ j = p
                BY <2>14, <3>1
            <4> QED BY <4>1, <4>2
        <3> QED BY <3>1 DEF OnePrompt
    <2> QED BY <2>5, <2>10, <2>11, <2>12, <2>17, <2>18 DEF AcpInv, Calls
<1> QED BY <1>3, <1>4 DEF prompt

\* The lease is granted while nothing is at work, or the delivery is refused.
LEMMA AcquireKeeps ==
    ASSUME AcpInv, NEW t \in Tasks, acquire(t)
    PROVE  AcpInv'
<1>1. /\ Typed /\ Lines /\ Calls /\ Slots /\ Leased /\ OnePrompt /\ RouterSound /\ t # NoTask
      /\ disp \in DispRow
    BY TaskAssumption DEF AcpInv, Typed
<1>2. call[t].at = "acquire" /\ tp' = tp /\ gate' = gate /\ router' = router
    BY DEF acquire, CallRest
<1>3. CallSound(t) /\ disp.lease # t /\ CallShape(call[t], t)
    BY <1>1, <1>2 DEF Calls, CallSound, Resting
<1>4. Lines' /\ RouterSound'
    BY <1>1, <1>2 DEF Lines, RouterSound, QualifiedMeansNoChild, Up
<1>5. ASSUME NEW d \in CallRow, call' = Set(t, d), disp' \in DispRow, disp'.client = disp.client,
             disp'.blocked = disp.blocked, disp'.row = disp.row, disp'.raced = disp.raced, disp'.overran = disp.overran,
             disp'.lease = disp.lease \/ (disp.lease = NoTask /\ ~disp.blocked /\ disp'.lease = t),
             d.at \notin Resting <=> disp'.lease = t,
             CallShape(d, t), d.want = 0, d.at # "prompt", d.at # "bind", d.text \subseteq call[t].text
      PROVE  AcpInv'
    <2>1. call' \in [Tasks -> CallRow] /\ call'[t] = d /\ \A u \in Tasks : u # t => call'[u] = call[u]
        BY <1>5, SetCall
    <2>2. Typed' /\ Slots'
        BY <1>1, <1>2, <1>5, <2>1 DEF Typed, Slots
    <2>3. ASSUME NEW u \in Tasks PROVE CallSound(u)'
        <3>1. CASE u = t
            <4>1. CallFits(d, disp'.row, disp'.client, gate'.phase)
                BY <1>5 DEF CallFits
            <4>2. d.text \subseteq {t} \cup disp'.overran
                BY <1>3, <1>5 DEF CallSound
            <4> QED BY <1>5, <2>1, <3>1, <4>1, <4>2 DEF CallSound
        <3>2. CASE u # t
            <4>1. CallSound(u) /\ u # NoTask /\ call'[u] = call[u]
                BY <1>1, <2>1, <3>2, TaskAssumption DEF Calls
            <4>2. disp'.lease = u <=> disp.lease = u
                BY <1>5, <3>2, <4>1
            <4> QED BY <1>2, <1>5, <4>1, <4>2 DEF CallSound
        <3> QED BY <3>1, <3>2
    <2>4. ASSUME NEW n \in Transport, NEW w, NEW id, Carries(tp'[n], w, id), w \notin disp'.overran, ~disp'.blocked
          PROVE  w \in Tasks /\ disp'.lease = w /\ StageOf(w, n, id)'
        <3>1. w \in Tasks /\ disp.lease = w /\ StageOf(w, n, id)
            BY <1>1, <1>2, <1>5, <2>4 DEF Leased
        <3>2. w # t /\ w # NoTask /\ call'[w] = call[w] /\ disp'.lease = w
            BY <1>3, <1>5, <2>1, <3>1, TaskAssumption
        <3> QED BY <1>2, <1>5, <3>1, <3>2 DEF StageOf
    <2>5. Leased'
        BY <2>4 DEF Leased
    <2>6. OnePrompt'
        BY <1>1, <1>2, <1>5, OneKeeps
    <2> QED BY <1>4, <2>2, <2>3, <2>5, <2>6 DEF AcpInv, Calls
<1>6. CASE disp.lease = NoTask /\ ~disp.blocked /\ call' = At(t, "connect") /\ disp' = [disp EXCEPT !.lease = t]
    <2>1. PICK at \in Stages : at = "connect"
        BY DEF Stages
    <2>2. PICK d \in CallRow : /\ Set(t, d) = At(t, at) /\ d.at = at /\ d.goal = call[t].goal /\ d.want = call[t].want
                               /\ d.ans = call[t].ans /\ d.text = call[t].text
        BY ZenonT(30), AtForm
    <2>3. CallShape(d, t) /\ d.want = 0 /\ d.at \notin Resting
        BY <1>2, <1>3, <2>1, <2>2 DEF CallShape, Resting, Waiting, Placed
    <2>4. disp' \in DispRow
        BY <1>1, <1>6 DEF DispRow, Caller
    <2>5. /\ disp'.lease = t /\ disp'.client = disp.client /\ disp'.blocked = disp.blocked /\ disp'.row = disp.row
          /\ disp'.raced = disp.raced /\ disp'.overran = disp.overran
        BY <1>1, <1>6 DEF DispRow
    <2>6. call' = Set(t, d) /\ d.at # "prompt" /\ d.at # "bind" /\ d.text \subseteq call[t].text
        BY <1>6, <2>1, <2>2
    <2> QED BY <1>5, <1>6, <2>3, <2>4, <2>5, <2>6
<1>7. CASE call' = Set(t, Done) /\ disp' = disp
    <2>1. PICK d \in CallRow : d = Done /\ d.at = "done" /\ d.goal = "deliver" /\ d.want = 0 /\ d.ans.kind = "none" /\ d.text = {}
        BY Calls1
    <2>2. CallShape(d, t) /\ d.at \in Resting
        BY <2>1 DEF CallShape, Resting, Waiting, Placed
    <2> QED BY <1>1, <1>3, <1>5, <1>7, <2>1, <2>2
<1> QED BY <1>6, <1>7 DEF acquire

-----------------------------------------------------------------------------
(* The runtime stops the adapter.                                           *)

\* A step of the router that closes the gate, or empties the slot behind a closed one.
LEMMA RouterKeeps ==
    ASSUME AcpInv, AllTouch(tp, tp'), call' = call, disp' \in DispRow, gate' \in Gates, router' \in Routers,
           disp'.lease = disp.lease, disp'.blocked = disp.blocked, disp'.row = disp.row,
           disp'.raced = disp.raced, disp'.overran = disp.overran,
           disp'.client = disp.client \/ (disp'.client = 0 /\ gate'.phase # "open"),
           gate'.phase = gate.phase \/ gate'.phase # "open",
           RouterSound'
    PROVE  AcpInv'
<1>1. Typed /\ Lines /\ Calls /\ Slots /\ Leased /\ OnePrompt
    BY DEF AcpInv
<1>2. LinesStep /\ LinesKeep
    BY TouchKeeps
<1>3. Typed' /\ Lines' /\ Slots'
    BY <1>1, <1>2 DEF Typed, Slots, LinesStep
<1>4. ASSUME NEW n, Client(n, disp.client, gate.phase) PROVE Client(n, disp'.client, gate'.phase)
    BY <1>4 DEF Client
<1>5. ASSUME NEW u \in Tasks PROVE CallSound(u)'
    <2>1. CallSound(u) /\ call'[u] = call[u]
        BY <1>1 DEF Calls
    <2>2. CallFits(call[u], disp'.row, disp'.client, gate'.phase)
        BY <1>4, <2>1 DEF CallSound, CallFits
    <2>3. ASSUME call[u].want # 0 PROVE Awaited(tp'[call[u].tp], call[u], u, disp'.row)
        <3>1. call[u].tp \in Transport
            BY <2>1, <2>3 DEF CallSound, CallShape, Placed
        <3>2. PICK n, c : n \in Transport /\ n = call[u].tp /\ c = call[u]
            BY <3>1
        <3>3. Awaited(tp[n], c, u, disp.row) /\ c.want # 0
            BY <2>1, <2>3, <3>2 DEF CallSound
        <3>4. Keeps(tp[n], tp'[n])
            BY <1>2, <3>2 DEF LinesKeep
        <3> QED BY <3>2, <3>3, <3>4 DEF Keeps
    <2> QED BY <2>1, <2>2, <2>3 DEF CallSound
<1>6. ASSUME NEW n \in Transport, NEW w, NEW id, Carries(tp'[n], w, id), w \notin disp'.overran, ~disp'.blocked
      PROVE  w \in Tasks /\ disp'.lease = w /\ StageOf(w, n, id)'
    <2>1. Carries(tp[n], w, id) /\ tp'[n].loop = tp[n].loop
        BY <1>2, <1>6 DEF LinesStep, LinesKeep
    <2>2. w \in Tasks /\ disp.lease = w /\ StageOf(w, n, id)
        BY <1>1, <1>6, <2>1 DEF Leased
    <2>3. Stage(call[w], tp[n].loop, n, id, disp'.client, gate'.phase)
        BY <1>4, <2>2 DEF StageOf, Stage, Recovering
    <2> QED BY <2>1, <2>2, <2>3 DEF StageOf
<1>7. Leased'
    BY <1>6 DEF Leased
<1>8. OnePrompt'
    BY <1>2, OneKeeps DEF LinesStep
<1> QED BY <1>3, <1>5, <1>7, <1>8 DEF AcpInv, Calls

\* The gate is closed, and joined once nothing is in flight.
LEMMA CloseKeeps ==
    ASSUME AcpInv, close_and_join
    PROVE  AcpInv'
<1>1. Typed /\ RouterSound /\ gate \in Gates /\ router \in Routers /\ disp \in DispRow
    BY DEF AcpInv, Typed
<1>2. tp' = tp /\ call' = call /\ disp' = disp
    BY DEF close_and_join, RouterRest
<1>3. AllTouch(tp, tp')
    BY <1>2, TouchSame
<1>4. CASE /\ router.at = "up" /\ gate' = [gate EXCEPT !.phase = "closing"]
           /\ router' = [router EXCEPT !.at = "closing"]
    <2>1. gate' \in Gates /\ router' \in Routers
        BY <1>1, <1>4 DEF Gates, Routers
    <2>2. gate'.phase = "closing" /\ router'.at = "closing" /\ router'.seen = router.seen
        BY <1>1, <1>4 DEF Gates, Routers
    <2>3. router.seen = "none"
        BY <1>1, <1>4 DEF RouterSound
    <2>4. RouterSound'
        BY <2>2, <2>3 DEF RouterSound, QualifiedMeansNoChild
    <2> QED BY <1>1, <1>2, <1>3, <2>1, <2>2, <2>4, RouterKeeps
<1>5. CASE /\ router.at = "closing" /\ gate' = [gate EXCEPT !.phase = "joined"]
           /\ router' = [router EXCEPT !.at = "reap", !.todo = gate.transports]
    <2>1. PICK ts \in SUBSET Nat : ts = gate.transports
        BY <1>1 DEF Gates
    <2>2. gate' \in Gates /\ router' \in Routers
        BY <1>1, <1>5, <2>1 DEF Gates, Routers
    <2>3. gate'.phase = "joined" /\ router'.at = "reap" /\ router'.seen = router.seen
        BY <1>1, <1>5 DEF Gates, Routers
    <2>4. router.seen = "none"
        BY <1>1, <1>5 DEF RouterSound
    <2>5. RouterSound'
        BY <2>3, <2>4 DEF RouterSound, QualifiedMeansNoChild
    <2> QED BY <1>1, <1>2, <1>3, <2>2, <2>3, <2>5, RouterKeeps
<1> QED BY <1>4, <1>5 DEF close_and_join

\* A transport is asked to end, and its end awaited.
LEMMA ReapKeeps ==
    ASSUME AcpInv, reap_transports
    PROVE  AcpInv'
<1>1. Typed /\ RouterSound /\ router \in Routers /\ disp \in DispRow /\ gate \in Gates /\ tp \in [Transport -> Line]
    BY DEF AcpInv, Typed
<1>2. router.at = "reap" /\ call' = call /\ disp' = disp /\ gate' = gate
    BY DEF reap_transports, RouterRest
<1>3. PICK n \in router.todo :
          /\ \/ router' = [router EXCEPT !.todo = router.todo \ {n}] \/ router' = [router EXCEPT !.cur = n]
             \/ router' = [router EXCEPT !.cur = 0, !.todo = router.todo \ {n}]
          /\ \/ tp' = tp \/ tp' = [tp EXCEPT ![n].taken = TRUE]
             \/ ~Gone(n) /\ tp' = [tp EXCEPT ![n].taken = TRUE, ![n].out = Append(@, ShutdownMsg)]
    BY DEF reap_transports
<1>4. PICK ts \in SUBSET Nat : ts = router.todo \ {n} /\ n \in Nat
    BY <1>1 DEF Routers
<1>5. \/ router' = [router EXCEPT !.todo = ts] \/ router' = [router EXCEPT !.cur = n]
      \/ router' = [router EXCEPT !.cur = 0, !.todo = ts]
    BY <1>3, <1>4
<1>6. router' \in Routers
    BY <1>1, <1>4, <1>5, Numbers DEF Routers
<1>7. router'.at = "reap" /\ router'.seen = router.seen
    BY <1>1, <1>2, <1>5 DEF Routers
<1>8. \/ tp' = tp \/ tp' = [tp EXCEPT ![n].taken = TRUE]
      \/ ~Gone(n) /\ tp' = [tp EXCEPT ![n].taken = TRUE, ![n].out = Append(@, ShutdownMsg)]
    BY <1>3
<1>9. AllTouch(tp, tp')
    <2>1. CASE tp' = tp
        BY <2>1, TouchSame
    <2>2. CASE n \notin Transport
        <3>1. tp' = tp
            BY SMT, <1>1, <1>8, <2>2
        <3> QED BY <3>1, TouchSame
    <2>3. CASE n \in Transport /\ tp' = [tp EXCEPT ![n].taken = TRUE]
        BY <2>3, TouchSame, TouchTaken
    <2>4. CASE n \in Transport /\ ~Gone(n) /\ tp' = [tp EXCEPT ![n].taken = TRUE, ![n].out = Append(@, ShutdownMsg)]
        <3>1. PICK m \in Message : m = ShutdownMsg /\ ~IsRequest(m)
            BY Shutdown
        <3>2. PICK g : g = [tp EXCEPT ![n].out = Append(@, m)]
            OBVIOUS
        <3>3. AllTouch(tp, g)
            BY <2>4, <3>1, <3>2, TouchAppend DEF Gone
        <3>4. AllTouch(tp, [g EXCEPT ![n].taken = TRUE])
            BY <2>4, <3>3, TouchTaken
        <3>5. tp' = [g EXCEPT ![n].taken = TRUE]
            <4>1. PICK x \in Line, q \in Seq(Message) : x = tp[n] /\ q = Append(x.out, m)
                <5>1. tp[n] \in Line /\ tp[n].out \in Seq(Message)
                    BY <2>4, Parts
                <5>2. Append(tp[n].out, m) \in Seq(Message)
                    BY SMT, <5>1
                <5> QED BY <5>1, <5>2
            <4>2. [x EXCEPT !.taken = TRUE, !.out = q] = [[x EXCEPT !.out = q] EXCEPT !.taken = TRUE]
                BY DEF Line
            <4>3. g[n] = [x EXCEPT !.out = q] /\ g \in [Transport -> Line] /\ \A k \in Transport : k # n => g[k] = tp[k]
                BY <1>1, <2>4, <3>2, <3>3, <4>1 DEF AllTouch
            <4>4. PICK h : h = [g EXCEPT ![n].taken = TRUE]
                OBVIOUS
            <4>5. h[n] = [[x EXCEPT !.out = q] EXCEPT !.taken = TRUE] /\ \A k \in Transport : k # n => h[k] = tp[k]
                BY <2>4, <4>3, <4>4
            <4>6. /\ tp'[n] = [x EXCEPT !.taken = TRUE, !.out = q]
                  /\ \A k \in Transport : k # n => tp'[k] = tp[k]
                BY <1>1, <2>4, <3>1, <4>1
            <4>7. \A k \in Transport : tp'[k] = h[k]
                BY <4>2, <4>5, <4>6
            <4>8. tp' = [k \in Transport |-> tp'[k]] /\ h = [k \in Transport |-> h[k]]
                BY <1>1, <2>4, <4>3, <4>4
            <4> QED BY <4>4, <4>7, <4>8
        <3> QED BY <3>4, <3>5
    <2> QED BY <1>8, <2>1, <2>2, <2>3, <2>4
<1>10. \A k \in Transport : tp'[k].child = tp[k].child
    BY <1>9 DEF AllTouch, Touches
<1>11. RouterSound'
    BY <1>1, <1>2, <1>7, <1>10 DEF RouterSound, QualifiedMeansNoChild, Up
<1> QED BY <1>1, <1>2, <1>6, <1>9, <1>11, RouterKeeps

\* The evidence is taken: no process of the group is left.
LEMMA FinalKeeps ==
    ASSUME AcpInv, final_observation
    PROVE  AcpInv'
<1>1. Typed /\ RouterSound /\ router \in Routers /\ disp \in DispRow /\ gate \in Gates
    BY DEF AcpInv, Typed
<1>2. /\ router.at = "reap" /\ tp' = tp /\ call' = call /\ gate' = gate /\ disp' = [disp EXCEPT !.client = 0]
      /\ router' = [router EXCEPT !.at = "done", !.seen = IF qualifies THEN "qualified" ELSE "unqualified"]
    BY DEF final_observation
<1>3. PICK seen \in {"qualified", "unqualified"} : seen = IF qualifies THEN "qualified" ELSE "unqualified"
    OBVIOUS
<1>4. router' \in Routers
    BY <1>1, <1>2, <1>3 DEF Routers
<1>5. router'.at = "done" /\ router'.seen = seen
    BY <1>1, <1>2, <1>3 DEF Routers
<1>6. gate.phase = "joined"
    BY <1>1, <1>2 DEF RouterSound
<1>7. seen = "qualified" => \A n \in Transport : tp[n].child # "up"
    BY <1>3 DEF qualifies, scan, Up
<1>8. RouterSound'
    BY <1>2, <1>5, <1>6, <1>7 DEF RouterSound, QualifiedMeansNoChild, Up
<1>9. PICK z \in Nat : z = 0
    BY Numbers
<1>10. /\ disp' \in DispRow /\ disp'.client = 0 /\ disp'.lease = disp.lease /\ disp'.blocked = disp.blocked
       /\ disp'.row = disp.row /\ disp'.raced = disp.raced /\ disp'.overran = disp.overran
    <2>1. disp' = [disp EXCEPT !.client = z]
        BY <1>2, <1>9
    <2> QED BY <1>1, <1>9, <2>1, SlotForm
<1>11. AllTouch(tp, tp')
    BY <1>2, TouchSame
<1> QED BY <1>1, <1>2, <1>4, <1>6, <1>8, <1>10, <1>11, RouterKeeps

-----------------------------------------------------------------------------
(* The invariant and what follows from it.                                  *)

\* Nothing is started and nobody waits.
LEMMA InitInv == AcpInit => AcpInv
<1> SUFFICES ASSUME AcpInit PROVE AcpInv
    OBVIOUS
<1>1. /\ tp = [n \in Transport |-> NotSpawned] /\ call = [t \in Tasks |-> FreshCall]
      /\ disp = [client |-> 0, connecting |-> NoTask, session_gate |-> NoTask, lease |-> NoTask, blocked |-> FALSE,
                 row |-> [id |-> 0, state |-> "none"], sessions |-> 0, raced |-> FALSE, overran |-> {}, faults |-> 0]
      /\ gate = [phase |-> "open", transports |-> {}, failed |-> FALSE]
      /\ router = [at |-> "up", todo |-> {}, cur |-> 0, seen |-> "none"]
    BY DEF AcpInit
<1>2. disp.lease = NoTask /\ ~disp.blocked /\ ~disp.raced /\ disp.client = 0 /\ router.at = "up" /\ router.seen = "none"
    BY <1>1
<1>3. NotSpawned \in Line /\ NotSpawned.loop = "none" /\ LineSound(NotSpawned) /\ LoopSound(NotSpawned)
      /\ \A w, id : ~Carries(NotSpawned, w, id)
    <2>1. PICK x : x = NotSpawned
        OBVIOUS
    <2>2. /\ x.loop = "none" /\ x.child = "none" /\ x.out = <<>> /\ x.writing = NoMsg /\ x.jobs = {} /\ x.stdout = <<>>
          /\ x.pending = {}
        BY <2>1 DEF NotSpawned
    <2>3. NoMsg.kind = "none"
        BY DEF NoMsg
    <2>4. LineSound(x) /\ \A w, id : ~Carries(x, w, id)
        BY <2>2, <2>3, EmptyLine DEF IsRequest
    <2>5. LoopSound(x)
        BY <2>2, <2>3 DEF LoopSound, IsRequest
    <2>6. NotSpawned \in Line
        BY Blank
    <2> QED BY <2>1, <2>2, <2>4, <2>5, <2>6
<1>4. Typed
    <2>1. PICK z \in Nat : z = 0
        BY Numbers
    <2>2. disp \in DispRow
        <3>1. PICK r \in [id : Nat, state : {"none", "ready", "prompting"}] : r = [id |-> 0, state |-> "none"]
            BY <2>1
        <3>2. disp = [client |-> z, connecting |-> NoTask, session_gate |-> NoTask, lease |-> NoTask, blocked |-> FALSE,
                      row |-> r, sessions |-> z, raced |-> FALSE, overran |-> {}, faults |-> z]
            BY <1>1, <2>1, <3>1
        <3> QED BY <3>2 DEF DispRow, Caller
    <2>3. gate \in Gates
        BY <1>1 DEF Gates
    <2>4. router \in Routers
        BY <1>1, <2>1 DEF Routers
    <2>5. tp \in [Transport -> Line] /\ call \in [Tasks -> CallRow]
        BY <1>1, <1>3, Calls1
    <2> QED BY <2>2, <2>3, <2>4, <2>5 DEF Typed
<1>5. Lines
    BY <1>1, <1>3 DEF Lines
<1>6. \A n \in Transport : \A w, id : ~Carries(tp[n], w, id)
    BY <1>1, <1>3
<1>7. Leased /\ OnePrompt
    BY <1>6 DEF Leased, OnePrompt
<1>8. ASSUME NEW t \in Tasks PROVE CallSound(t)
    <2>1. PICK c : c = FreshCall
        OBVIOUS
    <2>2. /\ call[t] = c /\ c.at = "acquire" /\ c.goal = "deliver" /\ c.want = 0 /\ c.ans.kind = "none" /\ c.text = {}
        BY <1>1, <2>1 DEF FreshCall, NoAnswer
    <2>3. CallShape(c, t) /\ c.at \in Resting /\ CallFits(c, disp.row, disp.client, gate.phase)
        BY <2>2 DEF CallShape, CallFits, Resting, Waiting, Placed
    <2>4. t # NoTask
        BY TaskAssumption
    <2> QED BY <1>2, <2>2, <2>3, <2>4 DEF CallSound
<1>9. Slots /\ RouterSound
    BY <1>2 DEF Slots, RouterSound, QualifiedMeansNoChild
<1> QED BY <1>4, <1>5, <1>7, <1>8, <1>9 DEF AcpInv, Calls

\* Nothing changes.
LEMMA StutterKeeps ==
    ASSUME AcpInv, UNCHANGED acpVars
    PROVE  AcpInv'
<1>1. tp' = tp /\ call' = call /\ disp' = disp /\ gate' = gate /\ router' = router
    BY DEF acpVars
<1>2. Typed /\ RouterSound /\ AllTouch(tp, tp')
    BY <1>1, TouchSame DEF AcpInv
<1>3. RouterSound'
    BY <1>1, <1>2 DEF RouterSound, QualifiedMeansNoChild, Up
<1>4. disp' \in DispRow /\ gate' \in Gates /\ router' \in Routers
    BY <1>1, <1>2 DEF Typed
<1> QED BY <1>1, <1>2, <1>3, <1>4, RouterKeeps

\* Every step keeps the invariant: the loop of a transport and its agent, the calls, the
\* deadlines, and the shutdown.
LEMMA StepInv ==
    ASSUME AcpInv, [AcpNext]_acpVars
    PROVE  AcpInv'
<1>1. CASE \E n \in Transport : LoopStep(n) \/ write_frame(n) \/ StdoutCloses(n) \/ Agent(n)
    BY <1>1, LineSteps
<1>3. ASSUME NEW t \in Tasks, CallStep(t)
      PROVE  AcpInv'
    <2>1. CASE acquire(t) \/ ensure_client(t) \/ Initialized(t) \/ Authenticated(t)
        BY <2>1, AcquireKeeps, EnsureKeeps, NegotiatedKeeps
    <2>2. CASE ShutdownSent(t) \/ Joined(t) \/ BindSession(t) \/ Bound(t)
        BY <2>2, ShutdownSentKeeps, JoinedKeeps, BindKeeps, BoundKeeps
    <2>3. CASE start_turn(t) \/ prompt(t) \/ finish(t) \/ resume(t)
        BY <2>3, StartKeeps, PromptKeeps, FinishKeeps, ResumeKeeps
    <2>4. CASE Resumed(t) \/ notify(t) \/ finalize_delivery_failure(t)
        BY <2>4, ResumedKeeps, NotifyKeeps, FinalizeKeeps
    <2> QED BY <1>3, <2>1, <2>2, <2>3, <2>4 DEF CallStep
<1>4. ASSUME NEW t \in Tasks, CallEnds(t)
      PROVE  AcpInv'
    <2>1. CASE DeliveryTimesOut(t) \/ DeliveryDropped(t) \/ TurnGivesUp(t)
        BY <2>1, TimesOutKeeps, DroppedKeeps, GivesUpKeeps
    <2>2. CASE TurnDeadline(t) \/ TurnDropped(t) \/ cancel_and_shutdown(t)
        BY <2>2, DeadlineKeeps, TurnDroppedKeeps, CancelKeeps
    <2> QED BY <1>4, <2>1, <2>2 DEF CallEnds
<1>5. ASSUME NEW t \in Tasks, ConnectTimesOut(t)
      PROVE  AcpInv'
    BY <1>5, ConnectTimesOutKeeps
<1>6. CASE RouterStep
    BY <1>6, CloseKeeps, ReapKeeps, FinalKeeps DEF RouterStep
<1>7. CASE UNCHANGED acpVars
    BY <1>7, StutterKeeps
<1> QED BY <1>1, <1>3, <1>4, <1>5, <1>6, <1>7 DEF AcpNext

\* The invariant holds throughout.
LEMMA AlwaysAcpInv == AcpSpec => []AcpInv
<1>1. AcpInv /\ [AcpNext]_acpVars => AcpInv'
    BY StepInv
<1> QED BY <1>1, InitInv, PTL DEF AcpSpec

\* Nothing an agent says reaches a caller it was not said to, whatever was abandoned,
\* reordered or answered late (route, RequestGuard, accumulate), and two deliveries of a
\* conversation never create two sessions for it (session_gate).
THEOREM NothingGoesAstray == AcpSpec => []NothingMisdelivered
<1>1. ASSUME AcpInv PROVE NothingMisdelivered
    <2>1. ASSUME NEW t \in Tasks
          PROVE  (call[t].ans.kind = "ok" => call[t].ans.of = t) /\ call[t].text \subseteq {t} \cup disp.overran
        BY <1>1 DEF AcpInv, Calls, CallSound, CallShape
    <2>2. ~disp.raced
        BY <1>1 DEF AcpInv, Slots
    <2> QED BY <2>1, <2>2 DEF NothingMisdelivered, ReplyToAsker, OutputBelongs, DeliveriesShareSession
<1> QED BY <1>1, AlwaysAcpInv, PTL

\* At most one prompt is worked on at a time over all agents ever started: the turn that
\* was given up is over before the next starts, or none starts (shutdown_reaped, the
\* lease), unless it had exceeded its output limit.
THEOREM OneTurnStaysAtWork == AcpSpec => []OneTurnAtWork
<1>1. ASSUME AcpInv PROVE OneTurnAtWork
    <2> SUFFICES ASSUME NEW m \in Transport, NEW n \in Transport, NEW i \in Prompts(m), NEW j \in Prompts(n),
                        i.by \notin disp.overran, j.by \notin disp.overran
                 PROVE  i = j /\ m = n
        BY ZenonT(30) DEF OneTurnAtWork
    <2>1. i \in tp[m].jobs /\ j \in tp[n].jobs /\ i.method = "prompt" /\ j.method = "prompt"
        BY DEF Prompts
    <2>2. PICK v, w, p, q : v = i.by /\ w = j.by /\ p = i.id /\ q = j.id
        OBVIOUS
    <2>3. IsPrompt(i, v, p) /\ IsPrompt(j, w, q)
        BY <2>1, <2>2 DEF IsPrompt
    <2>4. Carries(tp[m], v, p) /\ Carries(tp[n], w, q) /\ v \notin disp.overran /\ w \notin disp.overran
        BY <2>1, <2>2, <2>3 DEF Carries
    <2>5. m = n /\ p = q
        BY <1>1, <2>4 DEF AcpInv, OnePrompt
    <2>6. \A k, l \in tp[m].jobs : k.id = l.id => k = l
        BY <1>1, Parts DEF LineSound, JobsSound
    <2> QED BY <2>1, <2>2, <2>5, <2>6
<1> QED BY <1>1, AlwaysAcpInv, PTL

\* The evidence that a stopped runtime left no agent process is true and stays true: a
\* connection in flight is waited for, and no process starts behind a closed gate
\* (reserve, close_and_join, reap_transports, final_observation).
THEOREM QualifiedStaysTrue == AcpSpec => []QualifiedMeansNoChild
<1>1. AcpInv => QualifiedMeansNoChild
    BY DEF AcpInv, RouterSound
<1> QED BY <1>1, AlwaysAcpInv, PTL

=============================================================================
