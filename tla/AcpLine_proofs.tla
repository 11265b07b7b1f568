--------------------------- MODULE AcpLine_proofs ---------------------------
(***************************************************************************)
(* Proofs about AcpBackend, first part: the line between the bridge and an *)
(* agent, and the steps of the transport loop and of the agent process.    *)
(***************************************************************************)
EXTENDS AcpInvariant, TLAPS

\* Zenon proves a step that names no other prover.
USE Zenon

\* The first is taken.
LEMMA TakeFirst ==
    ASSUME NEW S, NEW s \in Seq(S), s # <<>>
    PROVE  /\ Tail(s) \in Seq(S) /\ Len(s) \in Nat /\ 1 \in 1 .. Len(s) /\ Len(Tail(s)) = Len(s) - 1
           /\ Head(s) = s[1] /\ s[1] \in S
           /\ \A i \in 1 .. Len(Tail(s)) : Tail(s)[i] = s[i + 1] /\ i + 1 \in 1 .. Len(s)
    BY SMT

\* Then every request of it was there, in the same order.
LEMMA WithinOut ==
    ASSUME NEW old \in Seq(Message), NEW new, Within(new, old)
    PROVE  /\ new \in Seq(Message) /\ Len(old) \in Nat /\ Len(new) \in Nat
           /\ \E d \in {0, 1} : \A i \in 1 .. Len(new) : IsRequest(new[i]) =>
                 i + d \in 1 .. Len(old) /\ new[i] = old[i + d]
<1>1. CASE new = old
    <2>1. \A i \in 1 .. Len(new) : i + 0 \in 1 .. Len(old) /\ new[i] = old[i + 0]
        BY SMT, <1>1
    <2> QED BY SMT, <2>1, <1>1
<1>2. CASE old # <<>> /\ new = Tail(old)
    BY SMT, <1>2, TakeFirst
<1>3. ASSUME NEW m \in Message, new = Append(old, m), ~IsRequest(m)
      PROVE  /\ new \in Seq(Message) /\ Len(old) \in Nat /\ Len(new) \in Nat
             /\ \A i \in 1 .. Len(new) : IsRequest(new[i]) => i + 0 \in 1 .. Len(old) /\ new[i] = old[i + 0]
    <2>1. /\ new \in Seq(Message) /\ Len(old) \in Nat /\ Len(new) = Len(old) + 1
          /\ \A i \in 1 .. Len(old) : new[i] = old[i] 
          /\ new[Len(old) + 1] = m
        BY SMT, <1>3
    <2> QED BY SMT, <2>1, <1>3
<1> QED BY <1>1, <1>2, <1>3 DEF Within

\* The parts of a line.
LEMMA LineParts ==
    ASSUME NEW x \in Line
    PROVE  /\ x.next \in Nat /\ x.out \in Seq(Message) /\ x.stdout \in Seq(Said1)
           /\ x.writing \in Message /\ x.jobs \subseteq Message /\ x.pending \subseteq Message
           /\ x.loop \in Loops /\ x.child \in Children
           /\ x.held \in BOOLEAN /\ x.alive \in BOOLEAN /\ x.taken \in BOOLEAN
    BY DEF Line

\* Ids are numbers.
LEMMA Ids ==
    /\ \A m \in Message : m.id \in Nat /\ m.by \in Caller /\ m.session \in Nat
    /\ \A f \in Said1 : f.id \in Nat /\ f.of \in Caller /\ f.session \in Nat
    BY DEF Message, Said1

\* The elements of a sequence.
LEMMA Elements ==
    ASSUME NEW S, NEW s \in Seq(S)
    PROVE  Len(s) \in Nat /\ \A i \in 1 .. Len(s) : s[i] \in S
    BY SMT

\* The channel's order, and what waits in it, survive when messages are taken.
LEMMA LessOut ==
    ASSUME NEW out \in Seq(Message), NEW new, Within(new, out), NEW next \in Nat
    PROVE  /\ OutOrdered(out, next) => OutOrdered(new, next)
           /\ \A m \in Message : WritingOrdered(m, out, next) => WritingOrdered(m, new, next)
           /\ \A id \in Nat, m \in Message : Older(id, m, out, next) => Older(id, m, new, next)
           /\ \A w, id : OutCarries(new, w, id) => OutCarries(out, w, id)
           /\ \A c, u, row : OutAwaited(out, c, u, row) => OutAwaited(new, c, u, row)
<1>1. /\ new \in Seq(Message) /\ Len(out) \in Nat /\ Len(new) \in Nat
      /\ \A i \in 1 .. Len(out) : out[i] \in Message
    BY WithinOut, Elements
<1>2. PICK d \in {0, 1} : \A i \in 1 .. Len(new) : IsRequest(new[i]) =>
                 i + d \in 1 .. Len(out) /\ new[i] = out[i + d]
    BY WithinOut
<1>3. OutOrdered(out, next) => OutOrdered(new, next)
    <2> SUFFICES ASSUME OutOrdered(out, next) PROVE OutOrdered(new, next)
        OBVIOUS
    <2>1. ASSUME NEW i \in 1 .. Len(new), IsRequest(new[i]) PROVE new[i].id \in 1 .. next
        BY <2>1, <1>2 DEF OutOrdered
    <2>2. ASSUME NEW i \in 1 .. Len(new), NEW k \in 1 .. Len(new), i < k, IsRequest(new[i]), IsRequest(new[k])
          PROVE  new[i].id < new[k].id
        <3>1. i + d \in 1 .. Len(out) /\ k + d \in 1 .. Len(out) /\ new[i] = out[i + d] /\ new[k] = out[k + d]
            BY <2>2, <1>2
        <3>2. i + d < k + d
            BY SMT, <2>2, <1>1
        <3> QED BY <3>1, <3>2, <2>2 DEF OutOrdered
    <2> QED BY <2>1, <2>2 DEF OutOrdered
<1>4. ASSUME NEW m \in Message, WritingOrdered(m, out, next) PROVE WritingOrdered(m, new, next)
    BY <1>4, <1>2 DEF WritingOrdered
<1>5. ASSUME NEW id \in Nat, NEW m \in Message, Older(id, m, out, next) PROVE Older(id, m, new, next)
    BY <1>5, <1>2 DEF Older
<1>6. ASSUME NEW w, NEW id, OutCarries(new, w, id) PROVE OutCarries(out, w, id)
    <2>1. PICK i \in 1 .. Len(new) : IsRequest(new[i]) /\ IsPrompt(new[i], w, id)
        BY <1>6 DEF OutCarries
    <2> QED BY <2>1, <1>2 DEF OutCarries
<1>7. ASSUME NEW c, NEW u, NEW row, OutAwaited(out, c, u, row) PROVE OutAwaited(new, c, u, row)
    <2>1. ASSUME NEW i \in 1 .. Len(new), IsRequest(new[i]), new[i].id = c.want
          PROVE  new[i].by = u /\ Fits(c, row, new[i])
        <3>1. i + d \in 1 .. Len(out) /\ new[i] = out[i + d]
            BY <2>1, <1>2
        <3> QED BY <3>1, <2>1, <1>7 DEF OutAwaited
    <2> QED BY <2>1 DEF OutAwaited
<1> QED BY <1>3, <1>4, <1>5, <1>6, <1>7

\* Frames are read from the front, and jobs end.
LEMMA LessStdout ==
    ASSUME NEW s \in Seq(Said1), NEW new, new = s \/ (s # <<>> /\ new = Tail(s)),
           NEW jobs, NEW more \in SUBSET jobs, NEW m, NEW out, NEW next
    PROVE  /\ StdoutSound(s, jobs, m, out, next) => StdoutSound(new, more, m, out, next)
           /\ \A w, id : StdoutCarries(new, w, id) => StdoutCarries(s, w, id)
           /\ \A c, u, row : StdoutAwaited(s, c, u, row) => StdoutAwaited(new, c, u, row)
<1>1. PICK d \in {0, 1} : \A i \in 1 .. Len(new) : i + d \in 1 .. Len(s) /\ new[i] = s[i + d]
    <2>1. CASE new = s
        <3>1. \A i \in 1 .. Len(new) : i + 0 \in 1 .. Len(s) /\ new[i] = s[i + 0]
            BY SMT, <2>1
        <3> QED BY <3>1
    <2>2. CASE s # <<>> /\ new = Tail(s)
        <3>1. \A i \in 1 .. Len(new) : i + 1 \in 1 .. Len(s) /\ new[i] = s[i + 1]
            BY <2>2, TakeFirst
        <3> QED BY <3>1
    <2> QED BY <2>1, <2>2
<1>2. ASSUME StdoutSound(s, jobs, m, out, next) PROVE StdoutSound(new, more, m, out, next)
    <2>1. ASSUME NEW k \in 1 .. Len(new) PROVE Older(new[k].id, m, out, next)
        BY <1>1, <1>2 DEF StdoutSound
    <2>2. ASSUME NEW k \in 1 .. Len(new), IsResponse(new[k]) PROVE LastWord(new, k, more)
        <3>1. k + d \in 1 .. Len(s) /\ new[k] = s[k + d] /\ LastWord(s, k + d, jobs)
            BY <2>2, <1>1, <1>2 DEF StdoutSound
        <3>2. ASSUME NEW l \in 1 .. Len(new), k < l PROVE new[l].id # new[k].id
            <4>1. l + d \in 1 .. Len(s) /\ new[l] = s[l + d]
                BY <1>1
            <4>2. k + d < l + d
                BY SMT, <3>2
            <4> QED BY <4>1, <4>2, <3>1 DEF LastWord
        <3> QED BY <3>1, <3>2 DEF LastWord
    <2> QED BY <2>1, <2>2 DEF StdoutSound
<1>3. ASSUME NEW w, NEW id, StdoutCarries(new, w, id) PROVE StdoutCarries(s, w, id)
    <2>1. PICK k \in 1 .. Len(new) : IsOutput(new[k]) /\ new[k].of = w /\ new[k].id = id
        BY <1>3 DEF StdoutCarries
    <2> QED BY <2>1, <1>1 DEF StdoutCarries
<1>4. ASSUME NEW c, NEW u, NEW row, StdoutAwaited(s, c, u, row) PROVE StdoutAwaited(new, c, u, row)
    <2>1. ASSUME NEW k \in 1 .. Len(new), new[k].id = c.want
          PROVE  new[k].of = u /\ FitsFrame(c, row, new[k])
        <3>1. k + d \in 1 .. Len(s) /\ new[k] = s[k + d]
            BY <1>1
        <3> QED BY <3>1, <2>1, <1>4 DEF StdoutAwaited
    <2> QED BY <2>1 DEF StdoutAwaited
<1> QED BY <1>2, <1>3, <1>4

\* So a line that lessens stays sound.
LEMMA LessLine ==
    ASSUME NEW x \in Line, NEW y \in Line, LineSound(x), Lessens(x, y)
    PROVE  LineSound(y) /\ Keeps(x, y)
<1>1. /\ x.next \in Nat /\ x.out \in Seq(Message) /\ x.stdout \in Seq(Said1) /\ x.writing \in Message
      /\ x.jobs \subseteq Message /\ \A j \in x.jobs : j.id \in Nat
      /\ y.writing \in Message
    BY LineParts, Ids
<1>2. /\ y.next = x.next /\ Within(y.out, x.out)
      /\ y.writing = x.writing \/ ~IsRequest(y.writing)
      /\ y.jobs \in SUBSET x.jobs
      /\ y.stdout = x.stdout \/ (x.stdout # <<>> /\ y.stdout = Tail(x.stdout))
    BY DEF Lessens
<1>3. \A id \in Nat : Older(id, x.writing, x.out, x.next) => Older(id, y.writing, y.out, y.next)
    <2>1. \A id \in Nat : Older(id, x.writing, x.out, x.next) => Older(id, x.writing, y.out, y.next)
        BY <1>1, <1>2, LessOut
    <2> QED BY <1>2, <2>1 DEF Older
<1>4. OutOrdered(y.out, y.next)
    BY <1>1, <1>2, LessOut DEF LineSound
<1>5. WritingOrdered(y.writing, y.out, y.next)
    <2>1. WritingOrdered(x.writing, y.out, y.next)
        BY <1>1, <1>2, LessOut DEF LineSound
    <2> QED BY <2>1, <1>2 DEF WritingOrdered
<1>6. JobsSound(y.jobs, y.writing, y.out, y.next)
    BY <1>1, <1>2, <1>3 DEF LineSound, JobsSound
<1>7. StdoutSound(y.stdout, y.jobs, y.writing, y.out, y.next)
    <2>1. StdoutSound(y.stdout, y.jobs, x.writing, x.out, x.next)
        BY <1>1, <1>2, LessStdout DEF LineSound
    <2>2. \A k \in 1 .. Len(y.stdout) : y.stdout[k].id \in Nat
        BY LineParts, Elements, Ids
    <2> QED BY <2>1, <2>2, <1>3 DEF StdoutSound
<1>8. ASSUME NEW w, NEW id, Carries(y, w, id) PROVE Carries(x, w, id)
    <2>1. OutCarries(y.out, w, id) => OutCarries(x.out, w, id)
        BY <1>1, <1>2, LessOut
    <2>2. StdoutCarries(y.stdout, w, id) => StdoutCarries(x.stdout, w, id)
        BY <1>1, <1>2, LessStdout
    <2> QED BY <2>1, <2>2, <1>2, <1>8 DEF Carries
<1>9. ASSUME NEW c, NEW u, NEW row, Awaited(x, c, u, row) PROVE Awaited(y, c, u, row)
    <2>1. OutAwaited(x.out, c, u, row) => OutAwaited(y.out, c, u, row)
        BY <1>1, <1>2, LessOut
    <2>2. StdoutAwaited(x.stdout, c, u, row) => StdoutAwaited(y.stdout, c, u, row)
        BY <1>1, <1>2, LessStdout
    <2> QED BY <2>1, <2>2, <1>2, <1>9 DEF Awaited
<1> QED BY <1>4, <1>5, <1>6, <1>7, <1>8, <1>9 DEF LineSound, Keeps

\* A line on which nothing is left.
LEMMA EmptyLine ==
    ASSUME NEW y, y.out = <<>>, ~IsRequest(y.writing), y.jobs = {}, y.stdout = <<>>
    PROVE  /\ LineSound(y)
           /\ \A w, id : ~Carries(y, w, id)
           /\ \A c, u, row : Awaited(y, c, u, row)
<1>1. Len(y.out) = 0 /\ Len(y.stdout) = 0 /\ 1 .. 0 = {}
    BY SMT
<1> QED BY <1>1 DEF LineSound, OutOrdered, WritingOrdered, JobsSound, StdoutSound, Carries, OutCarries,
              StdoutCarries, Awaited, OutAwaited, StdoutAwaited

\* A request is put into the channel, with a new id.
LEMMA SendLine ==
    ASSUME NEW x \in Line, NEW y \in Line, LineSound(x), NEW m \in Message, IsRequest(m),
           m.id = x.next + 1, y.next = x.next + 1, y.out = Append(x.out, m),
           y.writing = x.writing, y.jobs = x.jobs, y.stdout = x.stdout
    PROVE  /\ LineSound(y)
           /\ \A w, id : Carries(y, w, id) => Carries(x, w, id) \/ IsPrompt(m, w, id)
           /\ \A c, row : c.want = m.id /\ Fits(c, row, m) => Awaited(y, c, m.by, row)
<1>1. /\ x.next \in Nat /\ x.out \in Seq(Message) /\ x.stdout \in Seq(Said1)
      /\ \A j \in x.jobs : j.id \in Nat
      /\ \A i \in 1 .. Len(x.out) : x.out[i].id \in Nat
      /\ \A k \in 1 .. Len(x.stdout) : x.stdout[k].id \in Nat
      /\ x.writing.id \in Nat
    BY LineParts, Ids, Elements
<1>2. /\ OutOrdered(x.out, x.next) /\ WritingOrdered(x.writing, x.out, x.next)
      /\ JobsSound(x.jobs, x.writing, x.out, x.next)
      /\ StdoutSound(x.stdout, x.jobs, x.writing, x.out, x.next)
    BY DEF LineSound
<1>3. /\ Len(x.out) \in Nat /\ Len(y.out) = Len(x.out) + 1
      /\ \A i \in 1 .. Len(x.out) : y.out[i] = x.out[i]
      /\ y.out[Len(x.out) + 1] = m
    <2>1. PICK s \in Seq(Message) : s = x.out
        BY <1>1
    <2>2. /\ Len(s) \in Nat /\ Len(Append(s, m)) = Len(s) + 1
          /\ \A i \in 1 .. Len(s) : Append(s, m)[i] = s[i]
          /\ Append(s, m)[Len(s) + 1] = m
        BY SMT
    <2> QED BY <2>1, <2>2
<1>4. \A k \in 1 .. Len(y.out) : k \in 1 .. Len(x.out) \/ k = Len(x.out) + 1
    BY SMT, <1>3
<1>5. OutOrdered(y.out, y.next)
    <2>1. ASSUME NEW i \in 1 .. Len(y.out), IsRequest(y.out[i]) PROVE y.out[i].id \in 1 .. y.next
        <3>1. CASE i \in 1 .. Len(x.out)
            <4>1. y.out[i].id \in 1 .. x.next
                BY <3>1, <2>1, <1>2, <1>3 DEF OutOrdered
            <4> QED BY SMT, <4>1, <1>1
        <3>2. CASE i = Len(x.out) + 1
            BY SMT, <3>2, <1>1, <1>3
        <3> QED BY <3>1, <3>2, <1>4
    <2>2. ASSUME NEW i \in 1 .. Len(y.out), NEW k \in 1 .. Len(y.out), i < k, IsRequest(y.out[i]), IsRequest(y.out[k])
          PROVE  y.out[i].id < y.out[k].id
        <3>1. i \in 1 .. Len(x.out)
            BY SMT, <2>2, <1>3
        <3>2. CASE k \in 1 .. Len(x.out)
            BY <3>1, <3>2, <2>2, <1>2, <1>3 DEF OutOrdered
        <3>3. CASE k = Len(x.out) + 1
            <4>1. y.out[i].id \in 1 .. x.next
                BY <3>1, <2>2, <1>2, <1>3 DEF OutOrdered
            <4> QED BY SMT, <4>1, <3>3, <1>1, <1>3
        <3> QED BY <3>2, <3>3, <1>4
    <2> QED BY <2>1, <2>2 DEF OutOrdered
<1>6. WritingOrdered(y.writing, y.out, y.next)
    <2> SUFFICES ASSUME IsRequest(x.writing) PROVE WritingOrdered(y.writing, y.out, y.next)
        BY DEF WritingOrdered
    <2>1. /\ x.writing.id \in 1 .. x.next
          /\ \A i \in 1 .. Len(x.out) : IsRequest(x.out[i]) => x.writing.id < x.out[i].id
        BY <1>2 DEF WritingOrdered
    <2>2. x.writing.id \in 1 .. y.next /\ x.writing.id < m.id
        BY SMT, <2>1, <1>1
    <2> QED BY <2>1, <2>2, <1>3, <1>4 DEF WritingOrdered
<1>7. ASSUME NEW id \in Nat, Older(id, x.writing, x.out, x.next) PROVE Older(id, y.writing, y.out, y.next) /\ id # m.id
    <2>1. id <= y.next /\ id < m.id /\ id # m.id
        BY SMT, <1>7, <1>1 DEF Older
    <2> QED BY <2>1, <1>3, <1>4, <1>7 DEF Older
<1>8. JobsSound(y.jobs, y.writing, y.out, y.next)
    BY <1>1, <1>2, <1>7 DEF JobsSound
<1>9. StdoutSound(y.stdout, y.jobs, y.writing, y.out, y.next)
    BY <1>1, <1>2, <1>7 DEF StdoutSound
<1>10. ASSUME NEW w, NEW id, Carries(y, w, id) PROVE Carries(x, w, id) \/ IsPrompt(m, w, id)
    <2>1. OutCarries(y.out, w, id) => OutCarries(x.out, w, id) \/ IsPrompt(m, w, id)
        BY <1>3, <1>4 DEF OutCarries
    <2> QED BY <2>1, <1>10 DEF Carries
<1>11. ASSUME NEW c, NEW row, c.want = m.id, Fits(c, row, m) PROVE Awaited(y, c, m.by, row)
    <2>1. \A i \in 1 .. Len(x.out) : IsRequest(x.out[i]) => x.out[i].id # m.id
        <3>1. \A i \in 1 .. Len(x.out) : IsRequest(x.out[i]) => x.out[i].id \in 1 .. x.next
            BY <1>2 DEF OutOrdered
        <3> QED BY SMT, <3>1, <1>1
    <2>2. OutAwaited(y.out, c, m.by, row)
        BY <2>1, <1>3, <1>4, <1>11 DEF OutAwaited
    <2>3. IsRequest(y.writing) => y.writing.id # c.want
        <3>1. IsRequest(x.writing) => x.writing.id \in 1 .. x.next
            BY <1>2 DEF WritingOrdered
        <3> QED BY SMT, <3>1, <1>1, <1>11
    <2>4. \A j \in y.jobs : j.id # c.want
        BY <1>1, <1>2, <1>7, <1>11 DEF JobsSound
    <2>5. \A k \in 1 .. Len(y.stdout) : y.stdout[k].id # c.want
        BY <1>1, <1>2, <1>7, <1>11 DEF StdoutSound
    <2> QED BY <2>2, <2>3, <2>4, <2>5 DEF Awaited, StdoutAwaited
<1> QED BY <1>5, <1>6, <1>8, <1>9, <1>10, <1>11 DEF LineSound

\* The parts of the state.
LEMMA Parts ==
    ASSUME AcpInv, NEW n \in Transport
    PROVE  /\ tp \in [Transport -> Line] /\ call \in [Tasks -> CallRow] /\ disp \in DispRow
           /\ tp[n] \in Line /\ LineSound(tp[n]) /\ LoopSound(tp[n])
           /\ tp[n].next \in Nat /\ tp[n].out \in Seq(Message) /\ tp[n].stdout \in Seq(Said1)
           /\ tp[n].writing \in Message /\ tp[n].jobs \subseteq Message /\ tp[n].pending \subseteq Message
<1>1. tp[n] \in Line
    BY DEF AcpInv, Typed
<1> QED BY <1>1, LineParts DEF AcpInv, Typed, Lines

\* No message.
LEMMA NoMessage == NoMsg \in Message /\ ~IsRequest(NoMsg) /\ NoMsg.kind # "cancel"
<1>1. NoMsg \in [kind : Kinds, id : Nat, by : Caller, method : Methods, session : Nat] /\ NoMsg.by = NoTask
    BY SMT DEF NoMsg, Caller, Kinds, Methods
<1>2. NoMsg.kind = "none"
    BY DEF NoMsg
<1> QED BY <1>1, <1>2 DEF Message, Addressed, IsRequest

-----------------------------------------------------------------------------
(* The transport loop and the agent process.                                *)

\* A step of the loop or of the agent of a transport keeps the invariant.
LEMMA LineSteps ==
    ASSUME AcpInv, \E n \in Transport : LoopStep(n) \/ write_frame(n) \/ StdoutCloses(n) \/ Agent(n)
    PROVE  AcpInv'
\* The loop takes a message from the channel to write it.
<1>TakeLine. ASSUME NEW x \in Line, NEW y \in Line, LineSound(x), ~IsRequest(x.writing), x.out # <<>>,
                    y.next = x.next, y.out = Tail(x.out), y.writing = Head(x.out), y.jobs = x.jobs, y.stdout = x.stdout
             PROVE  LineSound(y) /\ Keeps(x, y)
    <2> USE <1>TakeLine
    <2>1. /\ x.next \in Nat /\ x.out \in Seq(Message) /\ y.writing \in Message
          /\ \A j \in x.jobs : j.id \in Nat
        BY LineParts, Ids
    <2>2. /\ Len(x.out) \in Nat /\ 1 \in 1 .. Len(x.out) /\ Len(y.out) = Len(x.out) - 1
          /\ y.writing = x.out[1]
          /\ \A i \in 1 .. Len(y.out) : y.out[i] = x.out[i + 1] /\ i + 1 \in 1 .. Len(x.out)
        <3>1. PICK s \in Seq(Message) : s = x.out
            BY <2>1
        <3>2. /\ Len(s) \in Nat /\ 1 \in 1 .. Len(s) /\ Len(Tail(s)) = Len(s) - 1 /\ Head(s) = s[1]
              /\ \A i \in 1 .. Len(Tail(s)) : Tail(s)[i] = s[i + 1] /\ i + 1 \in 1 .. Len(s)
            BY <3>1, TakeFirst
        <3> QED BY <3>1, <3>2
    <2>3. Within(y.out, x.out)
        <3>1. x.out # <<>> /\ y.out = Tail(x.out)
            OBVIOUS
        <3> QED BY <3>1 DEF Within
    <2>4. OutOrdered(y.out, y.next)
        BY <2>1, <2>3, LessOut DEF LineSound
    <2>5. WritingOrdered(y.writing, y.out, y.next)
        <3>1. ASSUME IsRequest(y.writing) PROVE y.writing.id \in 1 .. y.next
            BY <3>1, <2>2 DEF LineSound, OutOrdered
        <3>2. ASSUME IsRequest(y.writing), NEW i \in 1 .. Len(y.out), IsRequest(y.out[i])
              PROVE  y.writing.id < y.out[i].id
            <4>1. 1 < i + 1
                BY SMT
            <4> QED BY <3>2, <4>1, <2>2 DEF LineSound, OutOrdered
        <3> QED BY <3>1, <3>2 DEF WritingOrdered
    <2>6. ASSUME NEW id \in Nat, Older(id, x.writing, x.out, x.next) PROVE Older(id, y.writing, y.out, y.next)
        <3>1. Older(id, x.writing, y.out, y.next)
            BY <2>1, <2>3, <2>6, LessOut, LineParts
        <3>2. IsRequest(y.writing) => id < y.writing.id
            BY <2>2, <2>6 DEF Older
        <3> QED BY <3>1, <3>2 DEF Older
    <2>7. JobsSound(y.jobs, y.writing, y.out, y.next)
        BY <2>1, <2>6 DEF LineSound, JobsSound
    <2>8. StdoutSound(y.stdout, y.jobs, y.writing, y.out, y.next)
        <3>2. \A k \in 1 .. Len(y.stdout) : y.stdout[k].id \in Nat
            BY LineParts, Elements, Ids
        <3> QED BY <3>2, <2>6 DEF LineSound, StdoutSound
    <2>9. ASSUME NEW w, NEW id, Carries(y, w, id) PROVE Carries(x, w, id)
        <3>1. OutCarries(y.out, w, id) => OutCarries(x.out, w, id)
            BY <2>1, <2>3, LessOut
        <3>2. IsRequest(y.writing) /\ IsPrompt(y.writing, w, id) => OutCarries(x.out, w, id)
            BY <2>2 DEF OutCarries
        <3> QED BY <3>1, <3>2, <2>9 DEF Carries
    <2>10. ASSUME NEW c, NEW u, NEW row, Awaited(x, c, u, row) PROVE Awaited(y, c, u, row)
        <3>1. OutAwaited(y.out, c, u, row)
            BY <2>1, <2>3, <2>10, LessOut DEF Awaited
        <3>2. IsRequest(y.writing) /\ y.writing.id = c.want => y.writing.by = u /\ Fits(c, row, y.writing)
            BY <2>2, <2>10 DEF Awaited, OutAwaited
        <3> QED BY <3>1, <3>2, <2>10 DEF Awaited
    <2> QED BY <2>4, <2>5, <2>7, <2>8, <2>9, <2>10 DEF LineSound, Keeps
\* The agent reads a request.
<1>WriteLine. ASSUME NEW x \in Line, NEW y \in Line, LineSound(x), IsRequest(x.writing),
                     y.next = x.next, y.out = x.out, ~IsRequest(y.writing),
                     y.jobs = x.jobs \cup {x.writing}, y.stdout = x.stdout
              PROVE  LineSound(y) /\ Keeps(x, y)
    <2> USE <1>WriteLine
    <2>1. /\ x.next \in Nat /\ x.writing.id \in Nat /\ \A j \in x.jobs : j.id \in Nat
          /\ \A k \in 1 .. Len(y.stdout) : y.stdout[k].id \in Nat
        BY LineParts, Ids, Elements
    <2>2. /\ OutOrdered(x.out, x.next) /\ WritingOrdered(x.writing, x.out, x.next)
          /\ JobsSound(x.jobs, x.writing, x.out, x.next)
          /\ StdoutSound(x.stdout, x.jobs, x.writing, x.out, x.next)
        BY DEF LineSound
    <2>3. WritingOrdered(y.writing, y.out, y.next)
        BY DEF WritingOrdered
    <2>4. ASSUME NEW id, Older(id, x.writing, x.out, x.next) PROVE Older(id, y.writing, y.out, y.next) /\ id < x.writing.id
        BY <2>4 DEF Older
    <2>5. x.writing.id >= 1 /\ Older(x.writing.id, y.writing, y.out, y.next)
        <3>1. x.writing.id \in 1 .. x.next
            BY <2>2 DEF WritingOrdered
        <3>2. x.writing.id >= 1 /\ x.writing.id <= y.next
            BY SMT, <3>1, <2>1
        <3> QED BY <3>2, <2>2 DEF Older, WritingOrdered
    <2>6. JobsSound(y.jobs, y.writing, y.out, y.next)
        <3>1. ASSUME NEW j \in y.jobs PROVE j.id >= 1 /\ Older(j.id, y.writing, y.out, y.next)
            BY <2>2, <2>4, <2>5 DEF JobsSound
        <3>2. ASSUME NEW j \in x.jobs PROVE j.id # x.writing.id
            <4>1. j.id < x.writing.id
                BY <2>2, <2>4 DEF JobsSound
            <4> QED BY SMT, <4>1, <2>1
        <3> QED BY <3>1, <3>2, <2>2 DEF JobsSound
    <2>7. StdoutSound(y.stdout, y.jobs, y.writing, y.out, y.next)
        <3>1. ASSUME NEW k \in 1 .. Len(y.stdout)
              PROVE  Older(y.stdout[k].id, y.writing, y.out, y.next) /\ x.writing.id # y.stdout[k].id
            <4>1. Older(y.stdout[k].id, y.writing, y.out, y.next) /\ y.stdout[k].id < x.writing.id
                BY <2>2, <2>4 DEF StdoutSound
            <4> QED BY SMT, <4>1, <2>1
        <3> QED BY <3>1, <2>2 DEF StdoutSound, LastWord
    <2>8. \A w, id : Carries(y, w, id) => Carries(x, w, id)
        BY DEF Carries
    <2>9. \A c, u, row : Awaited(x, c, u, row) => Awaited(y, c, u, row)
        BY DEF Awaited
    <2> QED BY <2>2, <2>3, <2>6, <2>7, <2>8, <2>9 DEF LineSound, Keeps
\* The agent says f.
<1>SayLine. ASSUME NEW x \in Line, NEW y \in Line, LineSound(x), NEW f \in Said1,
                   y.next = x.next, y.out = x.out, y.writing = x.writing, y.stdout = Append(x.stdout, f),
                   y.jobs \in SUBSET x.jobs, Speech(f, x.jobs, y.jobs)
            PROVE  LineSound(y) /\ Keeps(x, y)
    <2> USE <1>SayLine
    <2>0. \/ /\ f.id = 0 /\ ~IsResponse(f) /\ ~IsOutput(f)
          \/ \E j \in x.jobs :
                /\ f.id = j.id /\ f.of = j.by
                /\ IsResponse(f) => y.jobs = x.jobs \ {j}
                /\ IsOutput(f) => j.method = "prompt"
                /\ f.kind = "auth" => j.method = "initialize"
                /\ f.kind = "ok" => j.method = "new" \/ f.session = j.session
        BY DEF Speech
    <2>1. /\ x.next \in Nat /\ x.out \in Seq(Message) /\ x.stdout \in Seq(Said1) /\ f.id \in Nat
          /\ x.writing \in Message
          /\ \A j \in x.jobs : j.id \in Nat
          /\ \A i \in 1 .. Len(x.out) : x.out[i].id \in Nat
          /\ \A k \in 1 .. Len(x.stdout) : x.stdout[k].id \in Nat
          /\ x.writing.id \in Nat
        BY LineParts, Ids, Elements
    <2>2. /\ OutOrdered(x.out, x.next) /\ WritingOrdered(x.writing, x.out, x.next)
          /\ JobsSound(x.jobs, x.writing, x.out, x.next)
          /\ StdoutSound(x.stdout, x.jobs, x.writing, x.out, x.next)
        BY DEF LineSound
    <2>3. /\ Len(x.stdout) \in Nat /\ Len(y.stdout) = Len(x.stdout) + 1
          /\ \A i \in 1 .. Len(x.stdout) : y.stdout[i] = x.stdout[i]
          /\ y.stdout[Len(x.stdout) + 1] = f
        <3>1. PICK s \in Seq(Said1) : s = x.stdout
            BY <2>1
        <3>2. /\ Len(s) \in Nat /\ Len(Append(s, f)) = Len(s) + 1
              /\ \A i \in 1 .. Len(s) : Append(s, f)[i] = s[i]
              /\ Append(s, f)[Len(s) + 1] = f
            BY SMT
        <3> QED BY <3>1, <3>2
    <2>4. \A k \in 1 .. Len(y.stdout) : k \in 1 .. Len(x.stdout) \/ k = Len(x.stdout) + 1
        BY SMT, <2>3
    <2>5. Older(f.id, x.writing, x.out, x.next)
        <3>1. CASE f.id = 0
            <4>1. IsRequest(x.writing) => 0 < x.writing.id
                BY SMT, <2>2, <2>1 DEF WritingOrdered
            <4>2. \A i \in 1 .. Len(x.out) : IsRequest(x.out[i]) => 0 < x.out[i].id
                BY SMT, <2>2, <2>1 DEF OutOrdered
            <4>3. 0 <= x.next
                BY SMT, <2>1
            <4> QED BY <3>1, <4>1, <4>2, <4>3 DEF Older
        <3>2. CASE \E j \in x.jobs : f.id = j.id
            BY <3>2, <2>2 DEF JobsSound
        <3> QED BY <3>1, <3>2, <2>0
    <2>6. \A k \in 1 .. Len(x.stdout) : IsResponse(x.stdout[k]) => f.id # x.stdout[k].id
        BY <2>0, <2>2 DEF StdoutSound, LastWord
    <2>7. IsResponse(f) => f.id # 0 /\ \A j \in y.jobs : j.id # f.id
        <3> SUFFICES ASSUME IsResponse(f) PROVE f.id # 0 /\ \A j \in y.jobs : j.id # f.id
            OBVIOUS
        <3>1. PICK j \in x.jobs : f.id = j.id /\ y.jobs = x.jobs \ {j}
            BY <2>0
        <3>2. f.id >= 1 /\ \A i \in y.jobs : i.id # f.id
            BY <3>1, <2>2 DEF JobsSound
        <3> QED BY SMT, <3>2
    <2>8. StdoutSound(y.stdout, y.jobs, y.writing, y.out, y.next)
        <3>1. ASSUME NEW k \in 1 .. Len(y.stdout) PROVE Older(y.stdout[k].id, x.writing, x.out, x.next)
            BY <2>2, <2>3, <2>4, <2>5 DEF StdoutSound
        <3>2. ASSUME NEW k \in 1 .. Len(y.stdout), IsResponse(y.stdout[k]) PROVE LastWord(y.stdout, k, y.jobs)
            <4>1. CASE k \in 1 .. Len(x.stdout)
                <5>1. IsResponse(x.stdout[k]) /\ y.stdout[k] = x.stdout[k] /\ LastWord(x.stdout, k, x.jobs)
                    BY <4>1, <3>2, <2>2, <2>3 DEF StdoutSound
                <5>2. ASSUME NEW l \in 1 .. Len(y.stdout), k < l PROVE y.stdout[l].id # y.stdout[k].id
                    <6>1. CASE l \in 1 .. Len(x.stdout)
                        BY <6>1, <5>1, <5>2, <2>3 DEF LastWord
                    <6>2. CASE l = Len(x.stdout) + 1
                        BY <6>2, <5>1, <4>1, <2>3, <2>6
                    <6> QED BY <6>1, <6>2, <2>4
                <5> QED BY <5>1, <5>2 DEF LastWord
            <4>2. CASE k = Len(x.stdout) + 1
                <5>1. \A l \in 1 .. Len(y.stdout) : ~(k < l)
                    BY SMT, <4>2, <2>3
                <5> QED BY <5>1, <4>2, <3>2, <2>3, <2>7 DEF LastWord
            <4> QED BY <4>1, <4>2, <2>4
        <3> QED BY <3>1, <3>2 DEF StdoutSound
    <2>9. JobsSound(y.jobs, y.writing, y.out, y.next)
        BY <2>2 DEF JobsSound
    <2>10. ASSUME NEW w, NEW id, Carries(y, w, id) PROVE Carries(x, w, id)
        <3>1. ASSUME StdoutCarries(y.stdout, w, id) PROVE Carries(x, w, id)
            <4>1. PICK k \in 1 .. Len(y.stdout) : IsOutput(y.stdout[k]) /\ y.stdout[k].of = w /\ y.stdout[k].id = id
                BY <3>1 DEF StdoutCarries
            <4>2. CASE k \in 1 .. Len(x.stdout)
                BY <4>1, <4>2, <2>3 DEF Carries, StdoutCarries
            <4>3. CASE k = Len(x.stdout) + 1
                BY <4>1, <4>3, <2>0, <2>3 DEF Carries, IsPrompt, IsOutput, IsResponse
            <4> QED BY <4>2, <4>3, <2>4
        <3> QED BY <3>1, <2>10 DEF Carries
    <2>11. ASSUME NEW c, NEW u, NEW row, c.want # 0, Awaited(x, c, u, row) PROVE Awaited(y, c, u, row)
        <3>1. ASSUME f.id = c.want PROVE f.of = u /\ FitsFrame(c, row, f)
            <4>1. PICK j \in x.jobs :
                     /\ f.id = j.id /\ f.of = j.by
                     /\ f.kind = "auth" => j.method = "initialize"
                     /\ f.kind = "ok" => j.method = "new" \/ f.session = j.session
                BY <3>1, <2>0, <2>11
            <4>2. j.by = u /\ Fits(c, row, j)
                BY <4>1, <3>1, <2>11 DEF Awaited
            <4>3. c.at = "prompt" => f.kind # "auth"
                BY <4>1, <4>2 DEF Fits
            <4>4. c.at = "bind" /\ f.kind = "ok" => row.id \in {0, f.session}
                BY <4>1, <4>2 DEF Fits
            <4> QED BY <4>1, <4>2, <4>3, <4>4 DEF FitsFrame
        <3>2. StdoutAwaited(y.stdout, c, u, row)
            BY <3>1, <2>3, <2>4, <2>11 DEF Awaited, StdoutAwaited
        <3> QED BY <3>2, <2>11 DEF Awaited
    <2> QED BY <2>2, <2>8, <2>9, <2>10, <2>11 DEF LineSound, Keeps
\* A job is marked as told.
<1>ToldLine. ASSUME NEW x \in Line, NEW y \in Line, LineSound(x), NEW j \in x.jobs, NEW i,
                    i.id = j.id, i.by = j.by, i.method = j.method, i.session = j.session,
                    y.next = x.next, y.out = x.out, y.writing = x.writing, y.stdout = x.stdout,
                    y.jobs = (x.jobs \ {j}) \cup {i}
             PROVE  LineSound(y) /\ Keeps(x, y)
    <2> USE <1>ToldLine
    <2>1. /\ OutOrdered(x.out, x.next) /\ WritingOrdered(x.writing, x.out, x.next)
          /\ JobsSound(x.jobs, x.writing, x.out, x.next)
          /\ StdoutSound(x.stdout, x.jobs, x.writing, x.out, x.next)
        BY DEF LineSound
    <2>2. JobsSound(y.jobs, y.writing, y.out, y.next)
        BY <2>1 DEF JobsSound
    <2>3. StdoutSound(y.stdout, y.jobs, y.writing, y.out, y.next)
        BY <2>1 DEF StdoutSound, LastWord
    <2>4. \A w, id : Carries(y, w, id) => Carries(x, w, id)
        BY DEF Carries, IsPrompt
    <2>5. \A c, u, row : Awaited(x, c, u, row) => Awaited(y, c, u, row)
        <3> SUFFICES ASSUME NEW c, NEW u, NEW row, Awaited(x, c, u, row) PROVE Awaited(y, c, u, row)
            OBVIOUS
        <3>1. \A k \in x.jobs : k.id = c.want => k.by = u /\ Fits(c, row, k)
            BY DEF Awaited
        <3>2. i.id = c.want => i.by = u /\ Fits(c, row, i)
            BY <3>1 DEF Fits
        <3> QED BY <3>1, <3>2 DEF Awaited
    <2> QED BY <2>1, <2>2, <2>3, <2>4, <2>5 DEF LineSound, Keeps
\* What a call waits for does not depend on the rest of it.
<1>AwaitedSame. ASSUME NEW x, NEW c, NEW d, NEW u, NEW row, d.at = c.at, d.want = c.want, Awaited(x, c, u, row)
                PROVE  Awaited(x, d, u, row)
        BY <1>AwaitedSame DEF Awaited, OutAwaited, StdoutAwaited, Fits, FitsFrame
\* Such a step keeps the whole invariant.
<1>LineStepKeeps. ASSUME AcpInv, NEW n \in Transport,
                         tp' \in [Transport -> Line], call' \in [Tasks -> CallRow], SameDisp(disp, disp'),
                         UNCHANGED <<gate, router>>,
                         \A m \in Transport : m # n => tp'[m] = tp[m],
                         Calm(tp[n], tp'[n]),
                         \A t \in Tasks : Gets(call[t], call'[t], t, n, tp[n], tp'[n], disp.row, disp.overran)
                  PROVE  AcpInv'
    <2> USE <1>LineStepKeeps
    <2>1. Typed /\ Lines /\ Calls /\ Slots /\ Leased /\ OnePrompt /\ RouterSound
        BY DEF AcpInv
    <2>2. gate' = gate /\ router' = router
        OBVIOUS
    <2>3. /\ disp'.client = disp.client /\ disp'.lease = disp.lease /\ disp'.blocked = disp.blocked
          /\ disp'.row = disp.row /\ disp'.raced = disp.raced /\ disp'.overran = disp.overran /\ disp' \in DispRow
        BY DEF SameDisp
    <2>4. Typed'
        BY <2>1, <2>2, <2>3 DEF Typed
    <2>5. Lines'
        BY <2>1 DEF Lines, Calm
    <2>6. \A m \in Transport : \A w, id : Carries(tp'[m], w, id) => Carries(tp[m], w, id)
        BY DEF Calm, Keeps
    <2>7. ASSUME NEW t \in Tasks PROVE CallSound(t)'
        <3> DEFINE c == call[t]
                   d == call'[t]
        <3>1. /\ CallSound(t) /\ Gets(c, d, t, n, tp[n], tp'[n], disp.row, disp.overran)
            BY <2>1 DEF Calls
        <3>2. d.at = c.at /\ d.goal = c.goal /\ d.then = c.then /\ d.tp = c.tp /\ d.want = c.want
            BY <3>1 DEF Gets, SameStage
        <3>3. d.at \notin Resting <=> disp'.lease = t
            BY <3>1, <3>2, <2>3 DEF CallSound
        <3>4. CallShape(d, t)
            <4>1. CallShape(c, t)
                BY <3>1 DEF CallSound
            <4>2. CASE d.ans = c.ans
                BY <4>1, <4>2, <3>2 DEF CallShape
            <4>3. CASE Answers(c, d.ans, t, n, tp[n], tp'[n], disp.row)
                <5>1. c.want # 0 /\ (d.ans.kind = "ok" => d.ans.of = t)
                    BY <4>3 DEF Answers
                <5>2. c.at \notin {"acquire", "connect", "accepted", "resume", "start"}
                    BY <4>1, <5>1 DEF CallShape, Waiting
                <5> QED BY <4>1, <5>1, <5>2, <3>2 DEF CallShape
            <4> QED BY <4>2, <4>3, <3>1 DEF Gets
        <3>5. CallFits(d, disp'.row, disp'.client, gate'.phase)
            <4>1. CallFits(c, disp.row, disp.client, gate.phase)
                BY <3>1 DEF CallSound
            <4>2. c.at = "bind" /\ d.ans.kind = "ok" => disp.row.id \in {0, d.ans.session}
                BY <4>1, <3>1 DEF Gets, Answers, CallFits
            <4> QED BY <4>1, <4>2, <3>2, <2>2, <2>3 DEF CallFits
        <3>6. ASSUME d.want # 0 PROVE Awaited(tp'[d.tp], d, t, disp'.row)
            <4>1. Awaited(tp[c.tp], c, t, disp.row) /\ c.want # 0
                BY <3>1, <3>2, <3>6 DEF CallSound
            <4>2. c.tp \in Transport
                BY <3>1, <4>1 DEF CallSound, CallShape, Placed
            <4>3. Awaited(tp'[c.tp], c, t, disp.row)
                BY <4>1, <4>2 DEF Calm, Keeps
            <4> QED BY <4>3, <3>2, <2>3, <1>AwaitedSame
        <3>7. d.text \subseteq {t} \cup disp'.overran
            BY <3>1, <2>3 DEF Gets
        <3> QED BY <3>3, <3>4, <3>5, <3>6, <3>7 DEF CallSound
    <2>8. Slots'
        BY <2>1, <2>3 DEF Slots
    <2>9. ASSUME NEW m \in Transport, NEW w, NEW id, Carries(tp'[m], w, id), w \notin disp'.overran, ~disp'.blocked
          PROVE  w \in Tasks /\ disp'.lease = w /\ StageOf(w, m, id)'
        <3>1. w \in Tasks /\ disp.lease = w /\ StageOf(w, m, id)
            BY <2>1, <2>3, <2>6, <2>9 DEF Leased
        <3>2. Stage(call[w], tp[m].loop, m, id, disp.client, gate.phase)
            BY <3>1 DEF StageOf
        <3>3. Stage(call'[w], tp'[m].loop, m, id, disp.client, gate.phase)
            <4>1. PICK c, d, x, y, z : c = call[w] /\ d = call'[w] /\ x = tp[n] /\ y = tp'[n] /\ z = tp'[m]
                OBVIOUS
            <4>2. PICK row, overran, client, phase :
                      row = disp.row /\ overran = disp.overran /\ client = disp.client /\ phase = gate.phase
                OBVIOUS
            <4>3. PICK loop, loop1 : loop = tp[m].loop /\ loop1 = tp'[m].loop
                OBVIOUS
            <4>4. Gets(c, d, w, n, x, y, row, overran) /\ Calm(x, y) /\ Stage(c, loop, m, id, client, phase) /\ Carries(z, w, id)
                BY <4>1, <4>2, <4>3, <3>1, <3>2, <2>9
            <4>5. (m = n => loop = x.loop /\ z = y) /\ IF m = n THEN loop1 = y.loop ELSE loop1 = loop
                BY <4>1, <4>3
            <4>6. Stage(d, loop1, m, id, client, phase)
                <5>1. loop = "terminate" => loop1 = "terminate"
                    BY <4>4, <4>5 DEF Calm
                <5>2. CASE d.ans = c.ans
                    BY <4>4, <5>1, <5>2 DEF Gets, SameStage, Stage, Prompting, Ending, Recovering
                <5>3. CASE Ending(c, m)
                    BY <4>4, <5>3 DEF Gets, SameStage, Stage, Ending
                <5>4. CASE Answers(c, d.ans, w, n, x, y, row)
                    <6>1. c.tp = n /\ d.tp = n /\ d.at = c.at /\ d.want = c.want /\ d.goal = c.goal
                        BY <4>4, <5>4 DEF Answers, Gets, SameStage
                    <6>2. ASSUME Prompting(c, loop, m, id) PROVE Stage(d, loop1, m, id, client, phase)
                        <7>1. m = n /\ c.at = "prompt" /\ c.want = id /\ loop1 = y.loop /\ Carries(y, w, id) /\ loop = x.loop
                            BY <4>4, <4>5, <6>1, <6>2 DEF Prompting
                        <7>2. (d.ans.kind \in {"closed", "exited"} /\ y.loop = "terminate") \/ d.ans.kind = "error"
                            BY <7>1, <5>4 DEF Answers
                        <7> QED BY <7>1, <7>2, <6>1 DEF Stage, Prompting
                    <6>3. ASSUME Recovering(c, loop, m, client, phase) PROVE Stage(d, loop1, m, id, client, phase)
                        <7>1. CASE c.at = "connect"
                            BY <7>1, <6>1, <6>3, <5>1 DEF Recovering, Stage
                        <7>2. CASE c.at \in {"resume", "resuming"} /\ c.tp = m
                            <8>1. m = n /\ x.loop = "terminate" /\ Carries(y, w, id)
                                BY <4>4, <4>5, <7>2, <6>1, <6>3 DEF Recovering
                            <8> QED BY <8>1, <5>4 DEF Answers
                        <7> QED BY <7>1, <7>2, <6>3 DEF Recovering
                    <6> QED BY <4>4, <5>3, <6>2, <6>3 DEF Stage
                <5> QED BY <4>4, <5>2, <5>4 DEF Gets
            <4> QED BY <4>1, <4>2, <4>3, <4>6
        <3> QED BY <3>1, <3>3, <2>2, <2>3 DEF StageOf
    <2>10. Leased'
        BY <2>9 DEF Leased
    <2>11. OnePrompt'
        <3>1. ASSUME NEW m \in Transport, NEW k \in Transport, NEW v, NEW w, NEW i, NEW j,
                     Carries(tp'[m], v, i), Carries(tp'[k], w, j), v \notin disp'.overran, w \notin disp'.overran
              PROVE  m = k /\ v = w /\ i = j
            <4>1. Carries(tp[m], v, i) /\ Carries(tp[k], w, j) /\ v \notin disp.overran /\ w \notin disp.overran
                BY <3>1, <2>3, <2>6
            <4> QED BY <4>1, <2>1 DEF OnePrompt
        <3> QED BY SMTT(30), <3>1 DEF OnePrompt
    <2>12. RouterSound'
        BY <2>1, <2>2 DEF RouterSound, QualifiedMeansNoChild, Up, Calm
    <2> QED BY <2>4, <2>5, <2>7, <2>8, <2>10, <2>11, <2>12 DEF AcpInv, Calls
\* A call that is left alone.
<1>GetsNothing. ASSUME AcpInv, NEW t \in Tasks, NEW n, NEW x, NEW y
                PROVE  Gets(call[t], call[t], t, n, x, y, disp.row, disp.overran)
        BY <1>GetsNothing DEF AcpInv, Calls, CallSound, Gets, SameStage
\* fail_all answers calls that wait on n.
<1>FailAll. ASSUME AcpInv, NEW n, NEW entries, NEW kind \in Answers1,
                   \A p \in entries : p.id # 0 \/ p.by = NoTask,
                   call' = fail_all(n, entries, kind)
            PROVE  /\ call' \in [Tasks -> CallRow]
                   /\ \A t \in Tasks :
                         \/ call'[t] = call[t]
                         \/ /\ SameStage(call[t], call'[t]) /\ call'[t].text = call[t].text /\ call'[t].ans.kind = kind
                            /\ call[t].tp = n /\ call[t].want # 0 /\ call[t].ans.kind = "none"
    <2> USE <1>FailAll
    <2>1. call \in [Tasks -> CallRow]
        BY DEF AcpInv, Typed
    <2>2. ASSUME NEW t \in Tasks
          PROVE  /\ call'[t] \in CallRow
                 /\ \/ call'[t] = call[t]
                    \/ /\ SameStage(call[t], call'[t]) /\ call'[t].text = call[t].text /\ call'[t].ans.kind = kind
                       /\ call[t].tp = n /\ call[t].want # 0 /\ call[t].ans.kind = "none"
        <3>1. call[t] \in CallRow
            BY <2>1
        <3>2. CASE \E p \in entries : p.by = t /\ Open(n, p)
            <4>1. call'[t] = [call[t] EXCEPT !.ans = [kind |-> kind, of |-> t, session |-> 0]]
                BY <3>2 DEF fail_all
            <4>2. PICK p \in entries : p.by = t /\ Open(n, p)
                BY <3>2
            <4>3. call[t].tp = n /\ call[t].want = p.id /\ call[t].ans.kind = "none"
                BY <4>2 DEF Open
            <4>4. p.id # 0
                BY <4>2, TaskAssumption
            <4>5. [kind |-> kind, of |-> t, session |-> 0] \in Answer
                BY SMT DEF Answer, Caller
            <4>6. PICK a \in Answer : a = [kind |-> kind, of |-> t, session |-> 0]
                BY <4>5
            <4>7. call'[t] = [call[t] EXCEPT !.ans = a] /\ a.kind = kind
                BY <4>1, <4>6
            <4>8. call'[t] \in CallRow /\ SameStage(call[t], call'[t]) /\ call'[t].text = call[t].text /\ call'[t].ans = a
                BY SMT, <3>1, <4>7 DEF CallRow, SameStage
            <4> QED BY <4>3, <4>4, <4>7, <4>8
        <3>3. CASE ~\E p \in entries : p.by = t /\ Open(n, p)
            BY <3>1, <3>3 DEF fail_all
        <3> QED BY <3>2, <3>3
    <2>3. call' = [t \in Tasks |-> call'[t]]
        BY DEF fail_all
    <2> QED BY <2>2, <2>3
\* ... which is the answer to expect of a loop that ends.
<1>EndingGets. ASSUME AcpInv, NEW n \in Transport, NEW entries, NEW kind \in {"closed", "exited"},
                      \A p \in entries : p.id # 0 \/ p.by = NoTask,
                      call' = fail_all(n, entries, kind),
                      \/ tp[n].loop # "terminate" /\ tp'[n].loop = "terminate"
                      \/ \A w, id : ~Carries(tp'[n], w, id)
               PROVE  /\ call' \in [Tasks -> CallRow]
                      /\ \A t \in Tasks : Gets(call[t], call'[t], t, n, tp[n], tp'[n], disp.row, disp.overran)
    <2> USE <1>EndingGets
    <2>1. kind \in Answers1
        BY DEF Answers1
    <2>2. /\ call' \in [Tasks -> CallRow]
          /\ \A t \in Tasks :
                \/ call'[t] = call[t]
                \/ /\ SameStage(call[t], call'[t]) /\ call'[t].text = call[t].text /\ call'[t].ans.kind = kind
                   /\ call[t].tp = n /\ call[t].want # 0 /\ call[t].ans.kind = "none"
        BY <2>1, <1>FailAll
    <2>3. ASSUME NEW t \in Tasks PROVE Gets(call[t], call'[t], t, n, tp[n], tp'[n], disp.row, disp.overran)
        <3>1. CASE call'[t] = call[t]
            BY <3>1, <1>GetsNothing
        <3>2. CASE /\ SameStage(call[t], call'[t]) /\ call'[t].text = call[t].text /\ call'[t].ans.kind = kind
                   /\ call[t].tp = n /\ call[t].want # 0 /\ call[t].ans.kind = "none"
            <4>1. call[t].text \subseteq {t} \cup disp.overran
                BY DEF AcpInv, Calls, CallSound
            <4>2. Answers(call[t], call'[t].ans, t, n, tp[n], tp'[n], disp.row)
                BY <3>2 DEF Answers
            <4> QED BY <3>2, <4>1, <4>2 DEF Gets
        <3> QED BY <3>1, <3>2, <2>2
    <2> QED BY <2>2, <2>3
\* A line of an unchanged client.
<1>DispSame. ASSUME AcpInv, disp' = disp PROVE SameDisp(disp, disp')
        BY <1>DispSame DEF AcpInv, Typed, SameDisp
\* The loop takes a message.
<1>TakeKeeps. ASSUME AcpInv, NEW n \in Transport, LoopTake(n)
              PROVE  AcpInv'
    <2> USE <1>TakeKeeps
    <2> DEFINE x == tp[n]
               y == tp'[n]
               m == Head(x.out)
    <2>1. /\ tp \in [Transport -> Line] /\ call \in [Tasks -> CallRow]
          /\ x \in Line /\ LineSound(x) /\ LoopSound(x) /\ x.out \in Seq(Message) /\ x.pending \subseteq Message
        BY Parts
    <2>2. x.loop = "run" /\ x.writing = NoMsg /\ x.out # <<>> /\ disp' = disp /\ UNCHANGED <<gate, router>>
        BY DEF LoopTake, Looping, LoopRest
    <2>3. ~IsRequest(x.writing) /\ NoMsg \in Message /\ ~IsRequest(NoMsg) /\ NoMsg.kind # "cancel"
        BY <2>2, NoMessage
    <2>4. Tail(x.out) \in Seq(Message) /\ m \in Message
        BY SMT, <2>1, <2>2
    <2>5. PICK q \in Seq(Message) : q = Tail(x.out)
        BY <2>4
    <2>6. SameDisp(disp, disp')
        BY <2>2, <1>DispSame
    <2>7. CASE m.kind = "cancel"
        <3>1. PICK ps \in SUBSET x.pending : ps = {p \in sweep_abandoned(n) : p.id # m.id}
            BY DEF sweep_abandoned
        <3>2. /\ y = [x EXCEPT !.out = q, !.pending = ps] /\ call' = call
              /\ \A k \in Transport : k # n => tp'[k] = tp[k]
            <4>1. PICK taken : taken = [tp EXCEPT ![n].out = Tail(@), ![n].pending = sweep_abandoned(n)]
                OBVIOUS
            <4>2. tp' = [taken EXCEPT ![n].pending = {p \in @ : p.id # m.id}] /\ call' = call
                BY <2>7, <4>1 DEF LoopTake
            <4> QED BY <2>1, <2>5, <3>1, <4>1, <4>2 DEF Line
        <3>3. y \in Line
            BY <2>1, <3>1, <3>2 DEF Line
        <3>4. tp' \in [Transport -> Line]
            <4>1. tp' = [k \in Transport |-> tp'[k]]
                BY SMT, <2>1, <2>7 DEF LoopTake
            <4> QED BY SMT, <2>1, <3>2, <3>3, <4>1
        <3>5. /\ y.loop = x.loop /\ y.child = x.child /\ y.alive = x.alive /\ y.next = x.next
              /\ y.out = q /\ y.pending = ps /\ y.writing = x.writing /\ y.stdout = x.stdout /\ y.jobs = x.jobs
            BY <2>1, <3>2 DEF Line
        <3>6. Lessens(x, y)
            BY <2>2, <2>5, <3>5 DEF Lessens, Within
        <3>7. Calm(x, y)
            <4>1. LineSound(y) /\ Keeps(x, y)
                BY <2>1, <3>3, <3>6, LessLine
            <4>2. LoopSound(y)
                BY <2>1, <2>2, <3>5 DEF LoopSound
            <4> QED BY <4>1, <4>2, <3>3, <3>5 DEF Calm
        <3> QED BY <2>1, <2>2, <2>6, <3>2, <3>4, <3>7, <1>GetsNothing, <1>LineStepKeeps
    <2>8. CASE m.kind = "shutdown"
        <3>2. /\ y = [x EXCEPT !.loop = "terminate", !.pending = {}, !.writing = NoMsg, !.out = q]
              /\ \A k \in Transport : k # n => tp'[k] = tp[k]
            BY <2>1, <2>5, <2>8 DEF LoopTake, Line, Stop
        <3>3. y \in Line
            BY <2>1, <2>3, <3>2 DEF Line, Loops
        <3>4. tp' \in [Transport -> Line]
            BY <2>1, <2>8, <3>2, <3>3 DEF LoopTake, Stop
        <3>5. /\ y.loop = "terminate" /\ y.child = x.child /\ y.alive = x.alive /\ y.next = x.next
              /\ y.out = q /\ y.pending = {} /\ y.writing = NoMsg /\ y.stdout = x.stdout /\ y.jobs = x.jobs
            BY <2>1, <3>2 DEF Line
        <3>6. Lessens(x, y)
            BY <2>2, <2>3, <2>5, <3>5 DEF Lessens, Within
        <3>7. Calm(x, y)
            <4>1. LineSound(y) /\ Keeps(x, y)
                BY <2>1, <3>3, <3>6, LessLine
            <4>2. LoopSound(y)
                BY <2>1, <2>2, <2>3, <3>5 DEF LoopSound
            <4> QED BY <4>1, <4>2, <3>3, <3>5 DEF Calm
        <3>8. /\ call' \in [Tasks -> CallRow]
              /\ \A t \in Tasks : Gets(call[t], call'[t], t, n, tp[n], tp'[n], disp.row, disp.overran)
            <4>1. call' = fail_all(n, x.pending, "exited")
                BY <2>8 DEF LoopTake
            <4>2. \A p \in x.pending : p.id # 0 \/ p.by = NoTask
                BY <2>1 DEF LoopSound
            <4>3. tp[n].loop # "terminate" /\ tp'[n].loop = "terminate"
                BY <2>2, <3>5
            <4>4. PICK es : es = x.pending
                OBVIOUS
            <4>5. PICK kind \in {"closed", "exited"} : kind = "exited"
                OBVIOUS
            <4> QED BY <4>1, <4>2, <4>3, <4>4, <4>5, <1>EndingGets
        <3> QED BY <2>2, <2>6, <3>2, <3>4, <3>7, <3>8, <1>LineStepKeeps
    <2>9. CASE m.kind \notin {"cancel", "shutdown"}
        <3>1. PICK ps \in SUBSET x.pending : ps = sweep_abandoned(n)
            BY DEF sweep_abandoned
        <3>2. /\ y = [x EXCEPT !.out = q, !.pending = ps, !.writing = m] /\ call' = call
              /\ \A k \in Transport : k # n => tp'[k] = tp[k]
            BY <2>1, <2>5, <2>9, <3>1 DEF LoopTake, Line
        <3>3. y \in Line
            BY <2>1, <2>4, <3>1, <3>2 DEF Line
        <3>4. tp' \in [Transport -> Line]
            BY <2>1, <2>9, <3>2, <3>3 DEF LoopTake
        <3>5. /\ y.loop = x.loop /\ y.child = x.child /\ y.alive = x.alive /\ y.next = x.next
              /\ y.out = q /\ y.pending = ps /\ y.writing = m /\ y.stdout = x.stdout /\ y.jobs = x.jobs
            BY <2>1, <3>2 DEF Line
        <3>7. Calm(x, y)
            <4>1. LineSound(y) /\ Keeps(x, y)
                BY <2>1, <2>2, <2>3, <2>5, <3>3, <3>5, <1>TakeLine
            <4>2. LoopSound(y)
                BY <2>1, <2>2, <2>9, <3>5 DEF LoopSound
            <4> QED BY <4>1, <4>2, <3>3, <3>5 DEF Calm
        <3> QED BY <2>1, <2>2, <2>6, <3>2, <3>4, <3>7, <1>GetsNothing, <1>LineStepKeeps
    <2> QED BY <2>7, <2>8, <2>9
\* The loop of n ends, for what reason ever, and fails the requests that wait.
<1>StopKeeps. ASSUME AcpInv, NEW n \in Transport, tp' \in [Transport -> Line],
                     \A k \in Transport : k # n => tp'[k] = tp[k],
                     disp' = disp, UNCHANGED <<gate, router>>,
                     tp[n].loop \in {"run", "drain"}, tp'[n].loop = "terminate",
                     tp'[n].child = tp[n].child, tp'[n].alive = tp[n].alive, tp'[n].next = tp[n].next,
                     Within(tp'[n].out, tp[n].out), tp'[n].pending = {}, tp'[n].writing = NoMsg,
                     tp'[n].stdout = tp[n].stdout \/ (tp[n].stdout # <<>> /\ tp'[n].stdout = Tail(tp[n].stdout)),
                     tp'[n].jobs = tp[n].jobs,
                     NEW entries, NEW kind \in {"closed", "exited"}, \A p \in entries : p.id # 0 \/ p.by = NoTask,
                     call' = fail_all(n, entries, kind)
              PROVE  AcpInv'
    <2> USE <1>StopKeeps
    <2> DEFINE x == tp[n]
               y == tp'[n]
    <2>1. x \in Line /\ LineSound(x) /\ LoopSound(x) /\ y \in Line
        BY Parts
    <2>2. ~IsRequest(NoMsg) /\ NoMsg.kind # "cancel"
        BY NoMessage
    <2>3. Lessens(x, y)
        BY <2>2 DEF Lessens
    <2>4. LineSound(y) /\ Keeps(x, y)
        BY <2>1, <2>3, LessLine
    <2>5. LoopSound(y)
        BY <2>1, <2>2 DEF LoopSound
    <2>6. Calm(x, y)
        BY <2>1, <2>4, <2>5 DEF Calm
    <2>7. tp[n].loop # "terminate" /\ tp'[n].loop = "terminate"
        OBVIOUS
    <2>8. /\ call' \in [Tasks -> CallRow]
          /\ \A t \in Tasks : Gets(call[t], call'[t], t, n, tp[n], tp'[n], disp.row, disp.overran)
        BY <2>7, <1>EndingGets
    <2> QED BY <2>6, <2>8, <1>DispSame, <1>LineStepKeeps
\* A step of the loop that ends nothing and answers nothing.
<1>QuietKeeps. ASSUME AcpInv, NEW n \in Transport, tp' \in [Transport -> Line],
                      \A k \in Transport : k # n => tp'[k] = tp[k],
                      SameDisp(disp, disp'), UNCHANGED <<gate, router>>, call' = call,
                      LineSound(tp'[n]), Keeps(tp[n], tp'[n]), LoopSound(tp'[n]),
                      tp[n].loop = "terminate" => tp'[n].loop = "terminate",
                      tp'[n].child = "up" => tp[n].child = "up"
               PROVE  AcpInv'
    <2> USE <1>QuietKeeps
    <2>1. Calm(tp[n], tp'[n])
        BY DEF Calm
    <2>2. call' \in [Tasks -> CallRow]
        BY Parts
    <2> QED BY <2>1, <2>2, <1>GetsNothing, <1>LineStepKeeps
\* The agent reads what the loop writes.
<1>WriteKeeps. ASSUME AcpInv, NEW n \in Transport, write_frame(n)
               PROVE  AcpInv'
    <2> USE <1>WriteKeeps
    <2> DEFINE x == tp[n]
               y == tp'[n]
    <2>1. /\ tp \in [Transport -> Line] /\ x \in Line /\ LineSound(x) /\ LoopSound(x)
          /\ x.writing \in Message /\ x.jobs \subseteq Message /\ x.pending \subseteq Message /\ x.next \in Nat
        BY Parts
    <2>2. x.loop = "run" /\ call' = call /\ disp' = disp /\ UNCHANGED <<gate, router>>
        BY DEF write_frame, LoopRest
    <2>3. NoMsg \in Message /\ ~IsRequest(NoMsg) /\ NoMsg.kind # "cancel"
        BY NoMessage
    <2>4. SameDisp(disp, disp')
        BY <2>2, <1>DispSame
    <2>5. CASE x.writing.kind = "request"
        <3>1. PICK ps \in SUBSET Message : ps = {p \in x.pending : p.id # x.writing.id} \cup {x.writing}
            BY <2>1
        <3>2. PICK js \in SUBSET Message : js = x.jobs \cup {x.writing}
            BY <2>1
        <3>3. PICK written : written = [tp EXCEPT ![n].writing = NoMsg]
            OBVIOUS
        <3>4. tp' = [written EXCEPT ![n].pending = {p \in @ : p.id # x.writing.id} \cup {x.writing}, ![n].jobs = @ \cup {x.writing}]
            BY <2>5, <3>3 DEF write_frame
        <3>5. y = [x EXCEPT !.writing = NoMsg, !.pending = ps, !.jobs = js] /\ \A k \in Transport : k # n => tp'[k] = tp[k]
            BY <2>1, <3>1, <3>2, <3>3, <3>4 DEF Line
        <3>6. y \in Line
            BY <2>1, <2>3, <3>1, <3>2, <3>5 DEF Line
        <3>7. tp' \in [Transport -> Line]
            BY <2>1, <3>3, <3>4, <3>5, <3>6
        <3>8. /\ y.loop = x.loop /\ y.child = x.child /\ y.alive = x.alive /\ y.next = x.next
              /\ y.out = x.out /\ y.pending = ps /\ y.writing = NoMsg /\ y.stdout = x.stdout /\ y.jobs = js
            BY <2>1, <3>5 DEF Line
        <3>9. LineSound(y) /\ Keeps(x, y)
            <4>1. IsRequest(x.writing)
                BY <2>5 DEF IsRequest
            <4> QED BY <2>1, <2>3, <3>2, <3>6, <3>8, <4>1, <1>WriteLine
        <3>10. LoopSound(y)
            <4>1. x.writing.id \in 1 .. x.next
                BY <2>1, <2>5 DEF LineSound, WritingOrdered, IsRequest
            <4>2. x.writing.id # 0
                BY SMT, <2>1, <4>1
            <4> QED BY <2>1, <2>2, <2>3, <3>1, <3>8, <4>2 DEF LoopSound
        <3> QED BY <2>2, <2>4, <3>5, <3>7, <3>8, <3>9, <3>10, <1>QuietKeeps
    <2>6. CASE x.writing.kind # "request"
        <3>1. tp' = [tp EXCEPT ![n].writing = NoMsg]
            BY <2>6 DEF write_frame
        <3>2. y = [x EXCEPT !.writing = NoMsg] /\ \A k \in Transport : k # n => tp'[k] = tp[k]
            BY <2>1, <3>1 DEF Line
        <3>3. y \in Line
            BY <2>1, <2>3, <3>2 DEF Line
        <3>4. tp' \in [Transport -> Line]
            BY <2>1, <3>1, <3>2, <3>3
        <3>5. /\ y.loop = x.loop /\ y.child = x.child /\ y.alive = x.alive /\ y.next = x.next
              /\ y.out = x.out /\ y.pending = x.pending /\ y.writing = NoMsg /\ y.stdout = x.stdout /\ y.jobs = x.jobs
            BY <2>1, <3>2 DEF Line
        <3>6. Lessens(x, y)
            BY <2>3, <3>5 DEF Lessens, Within
        <3>7. LineSound(y) /\ Keeps(x, y)
            BY <2>1, <3>3, <3>6, LessLine
        <3>8. LoopSound(y)
            BY <2>1, <2>2, <2>3, <3>5 DEF LoopSound
        <3> QED BY <2>2, <2>4, <3>2, <3>4, <3>5, <3>7, <3>8, <1>QuietKeeps
    <2> QED BY <2>5, <2>6
\* ... or is gone.
<1>WriteFailsKeeps. ASSUME AcpInv, NEW n \in Transport, WriteFails(n)
                    PROVE  AcpInv'
    <2> USE <1>WriteFailsKeeps
    <2> DEFINE x == tp[n]
               y == tp'[n]
    <2>1. /\ tp \in [Transport -> Line] /\ x \in Line /\ LineSound(x) /\ LoopSound(x)
          /\ x.writing \in Message /\ x.pending \subseteq Message
        BY Parts
    <2>2. x.loop = "run" /\ disp' = disp /\ UNCHANGED <<gate, router>>
        BY DEF WriteFails, LoopRest
    <2>3. NoMsg \in Message /\ ~IsRequest(NoMsg) /\ NoMsg.kind # "cancel"
        BY NoMessage
    <2>4. SameDisp(disp, disp')
        BY <2>2, <1>DispSame
    <2>5. CASE x.writing.kind = "notification"
        <3>1. tp' = [tp EXCEPT ![n].writing = NoMsg] /\ call' = call
            BY <2>5 DEF WriteFails
        <3>2. y = [x EXCEPT !.writing = NoMsg] /\ \A k \in Transport : k # n => tp'[k] = tp[k]
            BY <2>1, <3>1 DEF Line
        <3>3. y \in Line
            BY <2>1, <2>3, <3>2 DEF Line
        <3>4. tp' \in [Transport -> Line]
            BY <2>1, <3>1, <3>2, <3>3
        <3>5. /\ y.loop = x.loop /\ y.child = x.child /\ y.alive = x.alive /\ y.next = x.next
              /\ y.out = x.out /\ y.pending = x.pending /\ y.writing = NoMsg /\ y.stdout = x.stdout /\ y.jobs = x.jobs
            BY <2>1, <3>2 DEF Line
        <3>6. Lessens(x, y)
            BY <2>3, <3>5 DEF Lessens, Within
        <3>7. LineSound(y) /\ Keeps(x, y)
            BY <2>1, <3>3, <3>6, LessLine
        <3>8. LoopSound(y)
            BY <2>1, <2>2, <2>3, <3>5 DEF LoopSound
        <3> QED BY <2>2, <2>4, <3>1, <3>2, <3>4, <3>5, <3>7, <3>8, <1>QuietKeeps
    <2>6. CASE x.writing.kind # "notification"
        <3>1. tp' = Stop(n) /\ call' = fail_all(n, x.pending \cup {x.writing}, "closed")
            BY <2>6 DEF WriteFails
        <3>2. y = [x EXCEPT !.loop = "terminate", !.pending = {}, !.writing = NoMsg] /\ \A k \in Transport : k # n => tp'[k] = tp[k]
            BY <2>1, <3>1 DEF Line, Stop
        <3>3. y \in Line
            BY <2>1, <2>3, <3>2 DEF Line, Loops
        <3>4. tp' \in [Transport -> Line]
            BY <2>1, <3>1, <3>2, <3>3 DEF Stop
        <3>5. /\ y.loop = "terminate" /\ y.child = x.child /\ y.alive = x.alive /\ y.next = x.next
              /\ y.out = x.out /\ y.pending = {} /\ y.writing = NoMsg /\ y.stdout = x.stdout /\ y.jobs = x.jobs
            BY <2>1, <3>2 DEF Line
        <3>6. Within(y.out, x.out)
            BY <3>5 DEF Within
        <3>7. PICK es : es = x.pending \cup {x.writing}
            OBVIOUS
        <3>8. \A p \in es : p.id # 0 \/ p.by = NoTask
            BY <2>1, <2>6, <3>7 DEF LoopSound, Message, Addressed
        <3>9. PICK kind \in {"closed", "exited"} : kind = "closed"
            OBVIOUS
        <3> QED BY <2>2, <3>1, <3>2, <3>4, <3>5, <3>6, <3>7, <3>8, <3>9, <1>StopKeeps
    <2> QED BY <2>5, <2>6
\* The loop ends with what waits.
<1>ExitKeeps. ASSUME AcpInv, NEW n \in Transport, tp[n].loop \in {"run", "drain"}, LoopRest,
                     tp' = Stop(n), call' = fail_all(n, tp[n].pending, "exited")
              PROVE  AcpInv'
    <2> USE <1>ExitKeeps
    <2> DEFINE x == tp[n]
               y == tp'[n]
    <2>1. tp \in [Transport -> Line] /\ x \in Line /\ LoopSound(x)
        BY Parts
    <2>2. disp' = disp /\ UNCHANGED <<gate, router>>
        BY DEF LoopRest
    <2>3. NoMsg \in Message
        BY NoMessage
    <2>4. y = [x EXCEPT !.loop = "terminate", !.pending = {}, !.writing = NoMsg] /\ \A k \in Transport : k # n => tp'[k] = tp[k]
        BY <2>1 DEF Line, Stop
    <2>5. y \in Line
        BY <2>1, <2>3, <2>4 DEF Line, Loops
    <2>6. tp' \in [Transport -> Line]
        BY <2>1, <2>4, <2>5 DEF Stop
    <2>7. /\ y.loop = "terminate" /\ y.child = x.child /\ y.alive = x.alive /\ y.next = x.next
          /\ y.out = x.out /\ y.pending = {} /\ y.writing = NoMsg /\ y.stdout = x.stdout /\ y.jobs = x.jobs
        BY <2>1, <2>4 DEF Line
    <2>8. Within(y.out, x.out)
        BY <2>7 DEF Within
    <2>9. PICK es : es = x.pending
        OBVIOUS
    <2>10. \A p \in es : p.id # 0 \/ p.by = NoTask
        BY <2>1, <2>9 DEF LoopSound
    <2>11. PICK kind \in {"closed", "exited"} : kind = "exited"
        OBVIOUS
    <2> QED BY <2>2, <2>4, <2>6, <2>7, <2>8, <2>9, <2>10, <2>11, <1>StopKeeps
\* When a response has been read, nothing of its request is left.
<1>NothingLeft. ASSUME NEW x \in Line, LineSound(x), x.stdout # <<>>, IsResponse(Head(x.stdout)),
                       NEW y, y.out = x.out, y.writing = x.writing, y.jobs = x.jobs, y.stdout = Tail(x.stdout)
                PROVE  Head(x.stdout).id # 0 /\ \A w : ~Carries(y, w, Head(x.stdout).id)
    <2> USE <1>NothingLeft
    <2>1. PICK s \in Seq(Said1) : s = x.stdout
        BY LineParts
    <2>2. /\ Len(s) \in Nat /\ 1 \in 1 .. Len(s) /\ Len(Tail(s)) = Len(s) - 1 /\ Head(s) = s[1]
          /\ \A i \in 1 .. Len(Tail(s)) : Tail(s)[i] = s[i + 1] /\ i + 1 \in 1 .. Len(s)
        BY <2>1, TakeFirst
    <2>3. PICK f : f = s[1]
        OBVIOUS
    <2>4. IsResponse(f) /\ LastWord(s, 1, x.jobs) /\ Older(f.id, x.writing, x.out, x.next)
        BY <2>1, <2>2, <2>3 DEF LineSound, StdoutSound
    <2>5. f.id \in Nat /\ x.writing.id \in Nat /\ \A i \in 1 .. Len(x.out) : x.out[i].id \in Nat
        BY <2>1, <2>2, <2>3, LineParts, Ids, Elements
    <2>6. f.id # 0 /\ \A j \in x.jobs : j.id # f.id
        BY <2>3, <2>4 DEF LastWord
    <2>7. \A i \in 1 .. Len(Tail(s)) : Tail(s)[i].id # f.id
        <3> SUFFICES ASSUME NEW i \in 1 .. Len(Tail(s)) PROVE Tail(s)[i].id # f.id
            OBVIOUS
        <3>1. 1 < i + 1
            BY SMT
        <3> QED BY <3>1, <2>2, <2>3, <2>4 DEF LastWord
    <2>8. IsRequest(x.writing) => x.writing.id # f.id
        <3>1. IsRequest(x.writing) => f.id < x.writing.id
            BY <2>4 DEF Older
        <3> QED BY SMT, <3>1, <2>5
    <2>9. \A i \in 1 .. Len(x.out) : IsRequest(x.out[i]) => x.out[i].id # f.id
        <3>1. \A i \in 1 .. Len(x.out) : IsRequest(x.out[i]) => f.id < x.out[i].id
            BY <2>4 DEF Older
        <3> QED BY SMT, <3>1, <2>5
    <2>10. \A w : ~Carries(y, w, f.id)
        BY <2>1, <2>6, <2>7, <2>8, <2>9 DEF Carries, OutCarries, StdoutCarries, IsPrompt
    <2> QED BY <2>1, <2>2, <2>3, <2>6, <2>10
\* The loop reads a response.
<1>ResponseKeeps. ASSUME AcpInv, NEW n \in Transport, tp[n].loop \in {"run", "drain"}, tp[n].stdout # <<>>, LoopRest,
                         parse(Head(tp[n].stdout)) = "Response", route(n)
                  PROVE  AcpInv'
    <2> USE <1>ResponseKeeps
    <2> DEFINE x == tp[n]
               y == tp'[n]
    <2>1. /\ tp \in [Transport -> Line] /\ call \in [Tasks -> CallRow] /\ x \in Line /\ LineSound(x) /\ LoopSound(x)
          /\ x.stdout \in Seq(Said1) /\ x.pending \subseteq Message
        BY Parts
    <2>2. disp' = disp /\ UNCHANGED <<gate, router>>
        BY DEF LoopRest
    <2>3. PICK f \in Said1 : f = Head(x.stdout)
        BY SMT, <2>1
    <2>4. PICK q \in Seq(Said1) : q = Tail(x.stdout)
        <3>1. Tail(x.stdout) \in Seq(Said1)
            BY SMT, <2>1
        <3> QED BY <3>1
    <2>5. PICK ps \in SUBSET x.pending : ps = sweep_abandoned(n) \ {p \in sweep_abandoned(n) : p.id = f.id}
        BY DEF sweep_abandoned
    <2>6. PICK read : read = [tp EXCEPT ![n].stdout = Tail(@)]
        OBVIOUS
    <2>7. /\ tp' = [read EXCEPT ![n].pending = sweep_abandoned(n) \ {p \in sweep_abandoned(n) : p.id = f.id}]
          /\ call' = [t \in Tasks |->
                IF \E p \in {p \in sweep_abandoned(n) : p.id = f.id} : p.by = t
                THEN [call[t] EXCEPT !.ans = [kind |-> f.kind, of |-> f.of, session |-> f.session]]
                ELSE call[t]]
        BY <2>3, <2>6 DEF route, next_frame
    <2>8. y = [x EXCEPT !.stdout = q, !.pending = ps] /\ \A k \in Transport : k # n => tp'[k] = tp[k]
        BY <2>1, <2>4, <2>5, <2>6, <2>7 DEF Line
    <2>9. y \in Line
        BY <2>1, <2>4, <2>5, <2>8 DEF Line
    <2>10. tp' \in [Transport -> Line]
        BY <2>1, <2>6, <2>7, <2>8, <2>9
    <2>11. /\ y.loop = x.loop /\ y.child = x.child /\ y.alive = x.alive /\ y.next = x.next
           /\ y.out = x.out /\ y.pending = ps /\ y.writing = x.writing /\ y.stdout = q /\ y.jobs = x.jobs
        BY <2>1, <2>8 DEF Line
    <2>12. Calm(x, y)
        <3>1. Lessens(x, y)
            BY <2>4, <2>11 DEF Lessens, Within
        <3>2. LineSound(y) /\ Keeps(x, y)
            BY <2>1, <2>9, <3>1, LessLine
        <3>3. LoopSound(y)
            BY <2>1, <2>11 DEF LoopSound
        <3> QED BY <2>9, <2>11, <3>2, <3>3 DEF Calm
    <2>13. IsResponse(f)
        BY SMT, <2>3 DEF parse, IsResponse
    <2>14. f.id # 0 /\ \A w : ~Carries(y, w, f.id)
        BY <2>1, <2>3, <2>4, <2>11, <2>13, <1>NothingLeft
    <2>15. ASSUME NEW t \in Tasks
           PROVE  call'[t] \in CallRow /\ Gets(call[t], call'[t], t, n, x, y, disp.row, disp.overran)
        <3>1. call[t] \in CallRow
            BY <2>1
        <3>2. CASE \E p \in {p \in sweep_abandoned(n) : p.id = f.id} : p.by = t
            <4>1. [kind |-> f.kind, of |-> f.of, session |-> f.session] \in Answer
                <5>1. f.kind \in Answers1 /\ f.of \in Caller /\ f.session \in Nat
                    BY <2>13, Ids DEF IsResponse, Answers1
                <5> QED BY <5>1 DEF Answer
            <4>2. PICK a \in Answer : a = [kind |-> f.kind, of |-> f.of, session |-> f.session]
                BY <4>1
            <4>3. call'[t] = [call[t] EXCEPT !.ans = a] /\ a.kind = f.kind /\ a.of = f.of /\ a.session = f.session
                BY <2>7, <3>2, <4>2
            <4>4. call'[t] \in CallRow
                BY <3>1, <4>3 DEF CallRow
            <4>5. SameStage(call[t], call'[t]) /\ call'[t].text = call[t].text /\ call'[t].ans = a
                BY <3>1, <4>3 DEF CallRow, SameStage
            <4>6. call[t].tp = n /\ call[t].want = f.id /\ call[t].ans.kind = "none"
                BY <3>2 DEF sweep_abandoned, Open
            <4>7. f.of = t /\ FitsFrame(call[t], disp.row, f)
                <5>1. Awaited(x, call[t], t, disp.row)
                    BY <2>14, <4>6 DEF AcpInv, Calls, CallSound
                <5>2. 1 \in 1 .. Len(x.stdout) /\ x.stdout[1] = f
                    BY SMT, <2>1, <2>3
                <5> QED BY <4>6, <5>1, <5>2 DEF Awaited, StdoutAwaited
            <4>8. Answers(call[t], a, t, n, x, y, disp.row)
                BY <2>13, <2>14, <4>3, <4>6, <4>7 DEF Answers, FitsFrame, IsResponse
            <4>9. call[t].text \subseteq {t} \cup disp.overran
                BY DEF AcpInv, Calls, CallSound
            <4> QED BY <4>4, <4>5, <4>8, <4>9 DEF Gets
        <3>3. CASE ~\E p \in {p \in sweep_abandoned(n) : p.id = f.id} : p.by = t
            BY <2>7, <3>1, <3>3, <1>GetsNothing
        <3> QED BY <3>2, <3>3
    <2>16. call' \in [Tasks -> CallRow]
        BY <2>7, <2>15
    <2> QED BY <2>2, <2>8, <2>10, <2>12, <2>15, <2>16, <1>DispSame, <1>LineStepKeeps
\* The loop reads a chunk: it goes to the turn it was streamed for, if to any.
<1>ChunkKeeps. ASSUME AcpInv, NEW n \in Transport, tp[n].loop \in {"run", "drain"}, tp[n].stdout # <<>>, LoopRest,
                      parse(Head(tp[n].stdout)) = "Notification", route(n)
               PROVE  AcpInv'
    <2> USE <1>ChunkKeeps
    <2> DEFINE x == tp[n]
               y == tp'[n]
    <2>1. /\ tp \in [Transport -> Line] /\ call \in [Tasks -> CallRow] /\ x \in Line /\ LineSound(x) /\ LoopSound(x)
          /\ x.stdout \in Seq(Said1) /\ x.pending \subseteq Message
        BY Parts
    <2>2. disp' = disp /\ UNCHANGED <<gate, router>>
        BY DEF LoopRest
    <2>3. PICK f \in Said1 : f = Head(x.stdout)
        BY SMT, <2>1
    <2>4. PICK q \in Seq(Said1) : q = Tail(x.stdout)
        <3>1. Tail(x.stdout) \in Seq(Said1)
            BY SMT, <2>1
        <3> QED BY <3>1
    <2>5. PICK live \in SUBSET x.pending : live = sweep_abandoned(n)
        BY DEF sweep_abandoned
    <2>6. accumulate(n, f, live)
        BY <2>3, <2>5 DEF route, next_frame
    <2>7. PICK mine \in SUBSET live : mine = {p \in live : prompt_session(p, f.session)}
        OBVIOUS
    <2>8. IsOutput(f)
        BY SMT, <2>3 DEF parse, IsOutput
    <2>9. PICK ps \in SUBSET x.pending : tp' = [tp EXCEPT ![n].stdout = Tail(@), ![n].pending = ps]
        <3>1. live \ mine \in SUBSET x.pending
            OBVIOUS
        <3>2. \/ tp' = [tp EXCEPT ![n].stdout = Tail(@), ![n].pending = live \ mine]
              \/ tp' = [tp EXCEPT ![n].stdout = Tail(@), ![n].pending = live]
            BY <2>6, <2>7 DEF accumulate
        <3> QED BY <3>1, <3>2
    <2>10. y = [x EXCEPT !.stdout = q, !.pending = ps] /\ \A k \in Transport : k # n => tp'[k] = tp[k]
        BY <2>1, <2>4, <2>9 DEF Line
    <2>11. y \in Line
        BY <2>1, <2>4, <2>9, <2>10 DEF Line
    <2>12. tp' \in [Transport -> Line]
        BY <2>1, <2>9, <2>10, <2>11
    <2>13. /\ y.loop = x.loop /\ y.child = x.child /\ y.alive = x.alive /\ y.next = x.next
           /\ y.out = x.out /\ y.pending = ps /\ y.writing = x.writing /\ y.stdout = q /\ y.jobs = x.jobs
        BY <2>1, <2>10 DEF Line
    <2>14. Calm(x, y)
        <3>1. Lessens(x, y)
            BY <2>4, <2>13 DEF Lessens, Within
        <3>2. LineSound(y) /\ Keeps(x, y)
            BY <2>1, <2>11, <3>1, LessLine
        <3>3. LoopSound(y)
            BY <2>1, <2>13 DEF LoopSound
        <3> QED BY <2>11, <2>13, <3>2, <3>3 DEF Calm
    <2>15. CASE f.kind = "flood"
        <3>1. call' = fail_all(n, mine, "error")
            BY <2>6, <2>7, <2>15 DEF accumulate
        <3>2. \A p \in mine : p.id # 0 \/ p.by = NoTask
            BY <2>1 DEF LoopSound
        <3>3. PICK kind \in Answers1 : kind = "error"
            BY DEF Answers1
        <3>4. /\ call' \in [Tasks -> CallRow]
              /\ \A t \in Tasks :
                    \/ call'[t] = call[t]
                    \/ /\ SameStage(call[t], call'[t]) /\ call'[t].text = call[t].text /\ call'[t].ans.kind = kind
                       /\ call[t].tp = n /\ call[t].want # 0 /\ call[t].ans.kind = "none"
            BY <3>1, <3>2, <3>3, <1>FailAll
        <3>5. ASSUME NEW t \in Tasks PROVE Gets(call[t], call'[t], t, n, x, y, disp.row, disp.overran)
            <4>1. CASE call'[t] = call[t]
                BY <4>1, <1>GetsNothing
            <4>2. CASE /\ SameStage(call[t], call'[t]) /\ call'[t].text = call[t].text /\ call'[t].ans.kind = kind
                       /\ call[t].tp = n /\ call[t].want # 0 /\ call[t].ans.kind = "none"
                <5>1. call[t].text \subseteq {t} \cup disp.overran
                    BY DEF AcpInv, Calls, CallSound
                <5>2. Answers(call[t], call'[t].ans, t, n, x, y, disp.row)
                    BY <3>3, <4>2 DEF Answers
                <5> QED BY <4>2, <5>1, <5>2 DEF Gets
            <4> QED BY <3>4, <4>1, <4>2
        <3> QED BY <2>2, <2>10, <2>12, <2>14, <3>4, <3>5, <1>DispSame, <1>LineStepKeeps
    <2>16. CASE f.kind # "flood"
        <3>1. call' = [t \in Tasks |->
                 IF \E p \in mine : p.by = t THEN [call[t] EXCEPT !.text = @ \cup {f.of}] ELSE call[t]]
            BY <2>6, <2>7, <2>16 DEF accumulate
        <3>2. ASSUME NEW t \in Tasks
              PROVE  call'[t] \in CallRow /\ Gets(call[t], call'[t], t, n, x, y, disp.row, disp.overran)
            <4>1. call[t] \in CallRow /\ CallSound(t)
                BY <2>1 DEF AcpInv, Calls
            <4>2. CASE \E p \in mine : p.by = t
                <5>1. PICK p \in mine : p.by = t
                    BY <4>2
                <5>2. call[t].want # 0
                    BY <2>1, <2>5, <5>1 DEF LoopSound, sweep_abandoned, Open
                <5>3. disp.lease = t /\ t # NoTask
                    BY <4>1, <5>2, TaskAssumption DEF CallSound, CallShape, Waiting, Resting
                <5>4. Carries(x, f.of, f.id)
                    <6>1. 1 \in 1 .. Len(x.stdout) /\ x.stdout[1] = f
                        BY SMT, <2>1, <2>3
                    <6> QED BY <6>1, <2>8 DEF Carries, StdoutCarries
                <5>5. f.of \in {t} \cup disp.overran
                    BY <5>3, <5>4 DEF AcpInv, Leased, Slots
                <5>6. PICK text \in SUBSET Caller : text = call[t].text \cup {f.of}
                    BY <4>1, Ids DEF CallRow
                <5>7. call'[t] = [call[t] EXCEPT !.text = text]
                    BY <3>1, <4>2, <5>6
                <5>8. call'[t] \in CallRow
                    BY <4>1, <5>6, <5>7 DEF CallRow
                <5>9. SameStage(call[t], call'[t]) /\ call'[t].text = text /\ call'[t].ans = call[t].ans
                    BY <4>1, <5>7 DEF CallRow, SameStage
                <5>10. text \subseteq {t} \cup disp.overran
                    BY <4>1, <5>5, <5>6 DEF CallSound
                <5> QED BY <5>8, <5>9, <5>10 DEF Gets
            <4>3. CASE ~\E p \in mine : p.by = t
                BY <3>1, <4>1, <4>3, <1>GetsNothing
            <4> QED BY <4>2, <4>3
        <3>3. call' \in [Tasks -> CallRow]
            BY <3>1, <3>2
        <3> QED BY <2>2, <2>10, <2>12, <2>14, <3>2, <3>3, <1>DispSame, <1>LineStepKeeps
    <2> QED BY <2>15, <2>16
\* The loop reads any frame.
<1>RouteKeeps. ASSUME AcpInv, NEW n \in Transport, tp[n].loop \in {"run", "drain"}, tp[n].stdout # <<>>, LoopRest, route(n)
               PROVE  AcpInv'
    <2> USE <1>RouteKeeps
    <2> DEFINE x == tp[n]
               y == tp'[n]
               f == Head(x.stdout)
    <2>1. /\ tp \in [Transport -> Line] /\ x \in Line /\ LineSound(x) /\ LoopSound(x)
          /\ x.stdout \in Seq(Said1) /\ x.pending \subseteq Message
        BY Parts
    <2>2. disp' = disp /\ UNCHANGED <<gate, router>>
        BY DEF LoopRest
    <2>3. PICK q \in Seq(Said1) : q = Tail(x.stdout)
        <3>1. Tail(x.stdout) \in Seq(Said1)
            BY SMT, <2>1
        <3> QED BY <3>1
    <2>4. CASE parse(f) \in {"Response", "Notification"}
        BY <2>4, <1>ResponseKeeps, <1>ChunkKeeps
    <2>5. CASE parse(f) = "Request" /\ x.loop = "run"
        <3>1. agent_request_response \in Message /\ ~IsRequest(agent_request_response) /\ agent_request_response.kind # "cancel"
            <4>1. /\ agent_request_response \in [kind : Kinds, id : Nat, by : Caller, method : Methods, session : Nat]
                  /\ agent_request_response.by = NoTask
                BY SMT DEF agent_request_response, NoMsg, Caller, Kinds, Methods
            <4>2. agent_request_response.kind = "response"
                BY SMT DEF agent_request_response, NoMsg
            <4> QED BY <4>1, <4>2 DEF Message, Addressed, IsRequest
        <3>2. PICK m \in Message : m = agent_request_response
            BY <3>1
        <3>3. PICK live \in SUBSET x.pending : live = sweep_abandoned(n)
            BY DEF sweep_abandoned
        <3>4. PICK read : read = [tp EXCEPT ![n].stdout = Tail(@)]
            OBVIOUS
        <3>5. tp' = [read EXCEPT ![n].writing = m, ![n].pending = live] /\ call' = call
            BY <2>5, <3>2, <3>3, <3>4 DEF route, next_frame
        <3>6. y = [x EXCEPT !.stdout = q, !.writing = m, !.pending = live] /\ \A k \in Transport : k # n => tp'[k] = tp[k]
            BY <2>1, <2>3, <3>4, <3>5 DEF Line
        <3>7. y \in Line
            BY <2>1, <2>3, <3>2, <3>3, <3>6 DEF Line
        <3>8. tp' \in [Transport -> Line]
            BY <2>1, <3>4, <3>5, <3>6, <3>7
        <3>9. /\ y.loop = x.loop /\ y.child = x.child /\ y.alive = x.alive /\ y.next = x.next
              /\ y.out = x.out /\ y.pending = live /\ y.writing = m /\ y.stdout = q /\ y.jobs = x.jobs
            BY <2>1, <3>6 DEF Line
        <3>10. Lessens(x, y)
            BY <2>3, <3>1, <3>2, <3>9 DEF Lessens, Within
        <3>11. LineSound(y) /\ Keeps(x, y)
            BY <2>1, <3>7, <3>10, LessLine
        <3>12. LoopSound(y)
            BY <2>1, <3>1, <3>2, <3>9 DEF LoopSound
        <3> QED BY <2>2, <3>5, <3>6, <3>8, <3>9, <3>11, <3>12, <1>DispSame, <1>QuietKeeps
    <2>6. CASE parse(f) \notin {"Response", "Notification"} /\ ~(parse(f) = "Request" /\ x.loop = "run")
        <3>1. call' = fail_all(n, x.pending, "closed") /\ tp' = [Stop(n) EXCEPT ![n].stdout = Tail(@)]
            BY <2>6 DEF route, next_frame
        <3>2. PICK stopped : stopped = Stop(n)
            OBVIOUS
        <3>3. tp' = [stopped EXCEPT ![n].stdout = Tail(@)]
            BY <3>1, <3>2
        <3>4. NoMsg \in Message
            BY NoMessage
        <3>5. /\ y = [x EXCEPT !.loop = "terminate", !.pending = {}, !.writing = NoMsg, !.stdout = q]
              /\ \A k \in Transport : k # n => tp'[k] = tp[k]
            BY <2>1, <2>3, <3>2, <3>3 DEF Line, Stop
        <3>6. y \in Line
            BY <2>1, <2>3, <3>4, <3>5 DEF Line, Loops
        <3>7. tp' \in [Transport -> Line]
            BY <2>1, <3>2, <3>3, <3>5, <3>6 DEF Stop
        <3>8. /\ y.loop = "terminate" /\ y.child = x.child /\ y.alive = x.alive /\ y.next = x.next
              /\ y.out = x.out /\ y.pending = {} /\ y.writing = NoMsg /\ y.stdout = q /\ y.jobs = x.jobs
            BY <2>1, <3>5 DEF Line
        <3>9. Within(y.out, x.out)
            BY <3>8 DEF Within
        <3>10. PICK es : es = x.pending
            OBVIOUS
        <3>11. \A p \in es : p.id # 0 \/ p.by = NoTask
            BY <2>1, <3>10 DEF LoopSound
        <3>12. PICK kind \in {"closed", "exited"} : kind = "closed"
            OBVIOUS
        <3> QED BY <2>2, <2>3, <3>1, <3>5, <3>7, <3>8, <3>9, <3>10, <3>11, <3>12, <1>StopKeeps
    <2> QED BY <2>4, <2>5, <2>6
\* The end of stdout, or of the process.
<1>EndsKeeps. ASSUME AcpInv, NEW n \in Transport, LoopEnds(n)
              PROVE  AcpInv'
    <2> USE <1>EndsKeeps
    <2> DEFINE x == tp[n]
               y == tp'[n]
    <2>1. tp \in [Transport -> Line] /\ x \in Line /\ LineSound(x) /\ LoopSound(x)
        BY Parts
    <2>2. x.loop = "run" /\ LoopRest /\ disp' = disp /\ UNCHANGED <<gate, router>>
        BY DEF LoopEnds, Looping, LoopRest
    <2>3. CASE tp' = Stop(n)  /\ call' = fail_all(n, x.pending, "exited")
        BY <2>2, <2>3, <1>ExitKeeps
    <2>4. CASE tp' = [tp EXCEPT ![n].loop = "drain"] /\ call' = call
        <3>1. y = [x EXCEPT !.loop = "drain"] /\ \A k \in Transport : k # n => tp'[k] = tp[k]
            BY <2>1, <2>4 DEF Line
        <3>2. y \in Line
            BY <2>1, <3>1 DEF Line, Loops
        <3>3. tp' \in [Transport -> Line]
            BY <2>1, <2>4, <3>1, <3>2
        <3>4. /\ y.loop = "drain" /\ y.child = x.child /\ y.alive = x.alive /\ y.next = x.next
              /\ y.out = x.out /\ y.pending = x.pending /\ y.writing = x.writing /\ y.stdout = x.stdout /\ y.jobs = x.jobs
            BY <2>1, <3>1 DEF Line
        <3>5. Lessens(x, y)
            BY <3>4 DEF Lessens, Within
        <3>6. LineSound(y) /\ Keeps(x, y)
            BY <2>1, <3>2, <3>5, LessLine
        <3>7. LoopSound(y)
            BY <2>1, <2>2, <3>4 DEF LoopSound
        <3> QED BY <2>2, <2>4, <3>1, <3>3, <3>4, <3>6, <3>7, <1>DispSame, <1>QuietKeeps
    <2> QED BY <2>3, <2>4 DEF LoopEnds
\* The process is reaped, and what was never sent fails.
<1>TerminateKeeps. ASSUME AcpInv, NEW n \in Transport, terminate(n)
                   PROVE  AcpInv'
    <2> USE <1>TerminateKeeps
    <2> DEFINE x == tp[n]
               y == tp'[n]
    <2>1. /\ tp \in [Transport -> Line] /\ x \in Line /\ LineSound(x) /\ LoopSound(x)
          /\ x.out \in Seq(Message) /\ x.next \in Nat
        BY Parts
    <2>2. /\ x.loop = "terminate" /\ disp' = disp /\ UNCHANGED <<gate, router>> /\ call' = fail_all(n, Unsent(n), "closed")
          /\ tp' = [tp EXCEPT ![n].loop = "done", ![n].child = "reaped", ![n].alive = FALSE, ![n].held = FALSE,
                            ![n].out = <<>>, ![n].stdout = <<>>, ![n].jobs = {}, ![n].next = 0]
        BY DEF terminate, LoopRest
    <2>3. /\ y = [x EXCEPT !.loop = "done", !.child = "reaped", !.alive = FALSE, !.held = FALSE,
                           !.out = <<>>, !.stdout = <<>>, !.jobs = {}, !.next = 0]
          /\ \A k \in Transport : k # n => tp'[k] = tp[k]
        BY <2>1, <2>2 DEF Line
    <2>4. y \in Line
        <3>1. <<>> \in Seq(Message) /\ <<>> \in Seq(Said1) /\ 0 \in Nat
            BY SMT
        <3> QED BY <2>1, <2>3, <3>1 DEF Line, Loops, Children
    <2>5. tp' \in [Transport -> Line]
        BY <2>1, <2>2, <2>3, <2>4
    <2>6. /\ y.loop = "done" /\ y.child = "reaped" /\ y.out = <<>> /\ y.pending = x.pending /\ y.writing = x.writing
          /\ y.stdout = <<>> /\ y.jobs = {} /\ ~y.alive
        BY <2>1, <2>3 DEF Line
    <2>7. ~IsRequest(x.writing)
        BY <2>1, <2>2 DEF LoopSound
    <2>8. LineSound(y) /\ (\A w, id : ~Carries(y, w, id)) /\ \A c, u, row : Awaited(y, c, u, row)
        BY <2>6, <2>7, EmptyLine
    <2>9. LoopSound(y)
        BY <2>1, <2>6, <2>7 DEF LoopSound
    <2>10. Calm(x, y)
        BY <2>4, <2>6, <2>8, <2>9 DEF Calm, Keeps
    <2>11. PICK es : es = Unsent(n)
        OBVIOUS
    <2>12. \A p \in es : p.id # 0 \/ p.by = NoTask
        <3>1. ASSUME NEW i \in DOMAIN x.out, x.out[i].kind = "request" PROVE x.out[i].id # 0
            <4>1. i \in 1 .. Len(x.out)
                BY SMT, <2>1
            <4>2. x.out[i].id \in 1 .. x.next
                BY <2>1, <3>1, <4>1 DEF LineSound, OutOrdered, IsRequest
            <4> QED BY SMT, <2>1, <4>2
        <3> QED BY <2>11, <3>1 DEF Unsent
    <2>13. PICK kind \in {"closed", "exited"} : kind = "closed"
        OBVIOUS
    <2>14. /\ call' \in [Tasks -> CallRow]
           /\ \A t \in Tasks : Gets(call[t], call'[t], t, n, tp[n], tp'[n], disp.row, disp.overran)
        BY <2>2, <2>8, <2>11, <2>12, <2>13, <1>EndingGets
    <2> QED BY <2>2, <2>3, <2>5, <2>10, <2>14, <1>DispSame, <1>LineStepKeeps
\* Every step of the loop.
<1>LoopKeeps. ASSUME AcpInv, NEW n \in Transport, LoopStep(n)
              PROVE  AcpInv'
    <2> USE <1>LoopKeeps
    <2>1. CASE LoopRead(n)
        BY <2>1, <1>RouteKeeps DEF LoopRead, Looping
    <2>2. CASE LoopDrain(n)
        <3>1. tp[n].loop \in {"run", "drain"} /\ LoopRest
            BY <2>2 DEF LoopDrain
        <3>2. CASE tp[n].stdout # <<>> /\ route(n)
            BY <3>1, <3>2, <1>RouteKeeps
        <3>3. CASE tp' = Stop(n) /\ call' = fail_all(n, tp[n].pending, "exited")
            BY <3>1, <3>3, <1>ExitKeeps
        <3> QED BY <2>2, <3>2, <3>3 DEF LoopDrain
    <2>3. CASE LoopDropped(n)
        BY <2>3, <1>ExitKeeps DEF LoopDropped, Looping
    <2> QED BY <2>1, <2>2, <2>3, <1>TakeKeeps, <1>WriteFailsKeeps, <1>EndsKeeps, <1>TerminateKeeps DEF LoopStep
\* Only the count of faults, or of sessions, changes.
<1>CountedSame. ASSUME AcpInv
                PROVE  SameDisp(disp, Counted) /\ \A s \in Nat : SameDisp(disp, [disp EXCEPT !.sessions = s])
    <2> USE <1>CountedSame
    <2>1. disp \in DispRow
        BY DEF AcpInv, Typed
    <2>2. disp.faults + 1 \in Nat
        BY SMT, <2>1 DEF DispRow
    <2>3. PICK k \in Nat : k = disp.faults + 1
        BY <2>2
    <2>4. Counted = [disp EXCEPT !.faults = k]
        BY <2>3 DEF Counted
    <2>5. Counted \in DispRow
        BY <2>1, <2>4 DEF DispRow
    <2>6. \A s \in Nat : [disp EXCEPT !.sessions = s] \in DispRow
        BY <2>1 DEF DispRow
    <2> QED BY <2>1, <2>4, <2>5, <2>6 DEF SameDisp, DispRow
\* The agent says f.
<1>SayKeeps. ASSUME AcpInv, NEW n \in Transport, NEW f \in Said1, NEW js \in SUBSET tp[n].jobs,
                    Up(n), SameDisp(disp, disp'), AgentRest,
                    tp' = [tp EXCEPT ![n].stdout = Append(@, f), ![n].jobs = js],
                    Speech(f, tp[n].jobs, js)
             PROVE  AcpInv'
    <2> USE <1>SayKeeps
    <2> DEFINE x == tp[n]
               y == tp'[n]
    <2>1. /\ tp \in [Transport -> Line] /\ x \in Line /\ LineSound(x) /\ LoopSound(x)
          /\ x.stdout \in Seq(Said1) /\ x.jobs \subseteq Message
        BY Parts
    <2>2. call' = call /\ UNCHANGED <<gate, router>>
        BY DEF AgentRest
    <2>3. PICK q \in Seq(Said1) : q = Append(x.stdout, f)
        <3>1. Append(x.stdout, f) \in Seq(Said1)
            BY SMT, <2>1
        <3> QED BY <3>1
    <2>4. y = [x EXCEPT !.stdout = q, !.jobs = js] /\ \A k \in Transport : k # n => tp'[k] = tp[k]
        BY <2>1, <2>3 DEF Line
    <2>5. y \in Line
        BY <2>1, <2>3, <2>4 DEF Line
    <2>6. tp' \in [Transport -> Line]
        BY <2>1, <2>4, <2>5
    <2>7. /\ y.loop = x.loop /\ y.child = x.child /\ y.alive = x.alive /\ y.next = x.next
          /\ y.out = x.out /\ y.pending = x.pending /\ y.writing = x.writing /\ y.stdout = q /\ y.jobs = js
        BY <2>1, <2>4 DEF Line
    <2>8. LineSound(y) /\ Keeps(x, y)
        <3>1. PICK a \in Line, b \in Line : a = x /\ b = y
            BY <2>1, <2>5
        <3>2. /\ LineSound(a) /\ b.next = a.next /\ b.out = a.out /\ b.writing = a.writing
              /\ b.stdout = Append(a.stdout, f) /\ b.jobs \in SUBSET a.jobs /\ Speech(f, a.jobs, b.jobs)
            BY <2>1, <2>3, <2>7, <3>1
        <3>3. LineSound(b) /\ Keeps(a, b)
            BY <3>2, <1>SayLine
        <3> QED BY <3>1, <3>3
    <2>9. LoopSound(y)
        BY <2>1, <2>7 DEF LoopSound, Up
    <2>10. /\ \A k \in Transport : k # n => tp'[k] = tp[k]
           /\ tp[n].loop = "terminate" => tp'[n].loop = "terminate"
           /\ tp'[n].child = "up" => tp[n].child = "up"
        BY <2>4, <2>7
    <2>11. LineSound(tp'[n]) /\ Keeps(tp[n], tp'[n]) /\ LoopSound(tp'[n])
        BY <2>8, <2>9
    <2> QED BY <2>2, <2>6, <2>10, <2>11, <1>QuietKeeps
\* The agent answers a request it has read.
<1>RepliesKeeps. ASSUME AcpInv, NEW n \in Transport, AgentReplies(n)
                 PROVE  AcpInv'
    <2> USE <1>RepliesKeeps
    <2> DEFINE x == tp[n]
    <2>1. tp \in [Transport -> Line] /\ x \in Line /\ x.jobs \subseteq Message /\ disp \in DispRow
        BY Parts
    <2>2. Up(n) /\ AgentRest
        BY DEF AgentReplies, Speaks
    <2>3. PICK j \in x.jobs :
              LET done(f) == [Said(n, f) EXCEPT ![n].jobs = @ \ {j}]
                  made == IF j.method = "new" THEN disp.sessions + 1 ELSE disp.sessions
              IN
              \/ /\ tp' = done(Frame("ok", j, IF j.method = "new" THEN made ELSE j.session))
                 /\ disp' = [disp EXCEPT !.sessions = made]
              \/ /\ Faulty
                 /\ \/ tp' = done(Frame("error", j, 0))
                    \/ j.method = "initialize" /\ tp' = done(Frame("auth", j, 0))
                 /\ disp' = Counted
        BY DEF AgentReplies
    <2>4. PICK js \in SUBSET x.jobs : js = x.jobs \ {j}
        OBVIOUS
    <2>5. \A f : [Said(n, f) EXCEPT ![n].jobs = @ \ {j}] = [tp EXCEPT ![n].stdout = Append(@, f), ![n].jobs = js]
        BY <2>1, <2>4 DEF Said, Line
    <2>6. j \in Message /\ j.session \in Nat /\ 0 \in Nat /\ disp.sessions \in Nat /\ disp.sessions + 1 \in Nat
        BY SMT, <2>1, Ids DEF DispRow
    <2>7. CASE disp' = Counted /\ (\/ tp' = [Said(n, Frame("error", j, 0)) EXCEPT ![n].jobs = @ \ {j}]
                                   \/ j.method = "initialize" /\ tp' = [Said(n, Frame("auth", j, 0)) EXCEPT ![n].jobs = @ \ {j}])
        <3>1. PICK kind \in Words : /\ tp' = [Said(n, Frame(kind, j, 0)) EXCEPT ![n].jobs = @ \ {j}]
                                    /\ kind = "error" \/ (kind = "auth" /\ j.method = "initialize")
            BY <2>7 DEF Words
        <3>2. PICK f \in Said1 : f = Frame(kind, j, 0) /\ f.id = j.id /\ f.of = j.by /\ f.kind = kind
            <4>1. PICK s \in Nat : s = 0
                BY <2>6
            <4>2. /\ Frame(kind, j, s) \in Said1 /\ Frame(kind, j, s).id = j.id
                  /\ Frame(kind, j, s).of = j.by /\ Frame(kind, j, s).kind = kind
                BY SMT, <2>6, Ids DEF Frame, Said1
            <4> QED BY <4>1, <4>2
        <3>3. tp' = [tp EXCEPT ![n].stdout = Append(@, f), ![n].jobs = js]
            BY <2>5, <3>1, <3>2
        <3>4. SameDisp(disp, disp')
            BY <2>7, <1>CountedSame
        <3>5. Speech(f, tp[n].jobs, js)
            BY <2>4, <3>1, <3>2 DEF Speech, IsOutput
        <3> QED BY <2>2, <3>3, <3>4, <3>5, <1>SayKeeps
    <2>8. ASSUME NEW made \in Nat, NEW s \in Nat, disp' = [disp EXCEPT !.sessions = made],
                 tp' = [Said(n, Frame("ok", j, s)) EXCEPT ![n].jobs = @ \ {j}], j.method = "new" \/ s = j.session
          PROVE  AcpInv'
        <3>1. PICK kind \in Words : kind = "ok"
            BY DEF Words
        <3>2. PICK f \in Said1 : f = Frame(kind, j, s) /\ f.id = j.id /\ f.of = j.by /\ f.kind = kind /\ f.session = s
            <4>1. /\ Frame(kind, j, s) \in Said1 /\ Frame(kind, j, s).id = j.id
                  /\ Frame(kind, j, s).of = j.by /\ Frame(kind, j, s).kind = kind /\ Frame(kind, j, s).session = s
                BY SMT, <2>6, Ids DEF Frame, Said1
            <4> QED BY <4>1
        <3>3. tp' = [tp EXCEPT ![n].stdout = Append(@, f), ![n].jobs = js]
            BY <2>5, <2>8, <3>1, <3>2
        <3>4. SameDisp(disp, disp')
            BY <2>8, <1>CountedSame
        <3>5. Speech(f, tp[n].jobs, js)
            BY <2>4, <2>8, <3>1, <3>2 DEF Speech, IsOutput
        <3> QED BY <2>2, <3>3, <3>4, <3>5, <1>SayKeeps
    <2>9. CASE j.method = "new" /\ disp' = [disp EXCEPT !.sessions = disp.sessions + 1]
               /\ tp' = [Said(n, Frame("ok", j, disp.sessions + 1)) EXCEPT ![n].jobs = @ \ {j}]
        BY <2>6, <2>8, <2>9
    <2>10. CASE j.method # "new" /\ disp' = [disp EXCEPT !.sessions = disp.sessions]
               /\ tp' = [Said(n, Frame("ok", j, j.session)) EXCEPT ![n].jobs = @ \ {j}]
        BY <2>6, <2>8, <2>10
    <2> QED BY <2>3, <2>7, <2>9, <2>10
\* The agent streams output of a prompt; what it says of it first marks the prompt.
<1>StreamsKeeps. ASSUME AcpInv, NEW n \in Transport, AgentStreams(n)
                 PROVE  AcpInv'
    <2> USE <1>StreamsKeeps
    <2> DEFINE x == tp[n]
               y == tp'[n]
    <2>1. /\ tp \in [Transport -> Line] /\ x \in Line /\ LineSound(x) /\ LoopSound(x)
          /\ x.stdout \in Seq(Said1) /\ x.jobs \subseteq Message /\ disp \in DispRow
        BY Parts
    <2>2. Up(n) /\ AgentRest /\ call' = call /\ UNCHANGED <<gate, router>>
        BY DEF AgentStreams, Speaks, AgentRest
    <2>3. PICK j \in x.jobs :
              /\ j.method = "prompt" /\ j.kind = "request"
              /\ \/ /\ tp' = [Said(n, Frame("chunk", j, j.session)) EXCEPT
                                ![n].jobs = (@ \ {j}) \cup {[j EXCEPT !.kind = "told"]}]
                    /\ UNCHANGED disp
                 \/ tp' = Said(n, Frame("flood", j, j.session)) /\ disp' = Counted
        BY DEF AgentStreams
    <2>4. j \in Message /\ j.session \in Nat
        BY <2>1, Ids
    <2>5. CASE tp' = Said(n, Frame("flood", j, j.session)) /\ disp' = Counted
        <3>1. PICK f \in Said1 : f = Frame("flood", j, j.session) /\ f.id = j.id /\ f.of = j.by /\ f.kind = "flood"
            <4>1. PICK s \in Nat, kind \in Words : s = j.session /\ kind = "flood"
                BY <2>4 DEF Words
            <4>2. /\ Frame(kind, j, s) \in Said1 /\ Frame(kind, j, s).id = j.id
                  /\ Frame(kind, j, s).of = j.by /\ Frame(kind, j, s).kind = kind
                BY SMT, <2>4, Ids DEF Frame, Said1
            <4> QED BY <4>1, <4>2
        <3>2. PICK js \in SUBSET x.jobs : js = x.jobs
            OBVIOUS
        <3>3. tp' = [tp EXCEPT ![n].stdout = Append(@, f), ![n].jobs = js]
            BY <2>1, <2>5, <3>1, <3>2 DEF Said, Line
        <3>4. SameDisp(disp, disp')
            BY <2>5, <1>CountedSame
        <3>5. Speech(f, tp[n].jobs, js)
            BY <2>3, <3>1 DEF Speech, IsResponse
        <3> QED BY <2>2, <3>3, <3>4, <3>5, <1>SayKeeps
    <2>6. CASE /\ tp' = [Said(n, Frame("chunk", j, j.session)) EXCEPT
                           ![n].jobs = (@ \ {j}) \cup {[j EXCEPT !.kind = "told"]}]
               /\ UNCHANGED disp
        <3>1. PICK f \in Said1 : f = Frame("chunk", j, j.session) /\ f.id = j.id /\ f.of = j.by /\ f.kind = "chunk"
            <4>1. PICK s \in Nat, kind \in Words : s = j.session /\ kind = "chunk"
                BY <2>4 DEF Words
            <4>2. /\ Frame(kind, j, s) \in Said1 /\ Frame(kind, j, s).id = j.id
                  /\ Frame(kind, j, s).of = j.by /\ Frame(kind, j, s).kind = kind
                BY SMT, <2>4, Ids DEF Frame, Said1
            <4> QED BY <4>1, <4>2
        <3>2. PICK i \in Message : /\ i = [j EXCEPT !.kind = "told"] /\ i.id = j.id /\ i.by = j.by
                                   /\ i.method = j.method /\ i.session = j.session
            <4>1. j.id # 0
                <5>1. j.id >= 1 /\ j.id \in Nat
                    BY <2>1, <2>4, Ids DEF LineSound, JobsSound
                <5> QED BY SMT, <5>1
            <4>2. [j EXCEPT !.kind = "told"] \in Message /\ [j EXCEPT !.kind = "told"].id = j.id
                  /\ [j EXCEPT !.kind = "told"].by = j.by /\ [j EXCEPT !.kind = "told"].method = j.method
                  /\ [j EXCEPT !.kind = "told"].session = j.session
                BY <2>4, <4>1 DEF Message, Kinds, Addressed
            <4> QED BY <4>2
        <3>3. PICK q \in Seq(Said1) : q = Append(x.stdout, f)
            <4>1. Append(x.stdout, f) \in Seq(Said1)
                BY SMT, <2>1
            <4> QED BY <4>1
        <3>4. PICK js \in SUBSET Message : js = (x.jobs \ {j}) \cup {i}
            BY <2>1
        <3>5. PICK z \in Line : z = [x EXCEPT !.stdout = q]
            <4>1. [x EXCEPT !.stdout = q] \in Line
                BY <2>1, <3>3 DEF Line
            <4> QED BY <4>1
        <3>6. PICK mid \in [Transport -> Line] : mid = Said(n, f) /\ mid[n] = z /\ \A k \in Transport : k # n => mid[k] = tp[k]
            <4>1. Said(n, f) = [tp EXCEPT ![n] = z]
                BY <2>1, <3>3, <3>5 DEF Said, Line
            <4> QED BY <2>1, <4>1
        <3>7. z.jobs = x.jobs
            BY <2>1, <3>5 DEF Line
        <3>8. tp' = [mid EXCEPT ![n].jobs = js]
            BY <2>6, <3>1, <3>2, <3>4, <3>6, <3>7
        <3>9. y = [z EXCEPT !.jobs = js] /\ \A k \in Transport : k # n => tp'[k] = tp[k]
            BY <3>6, <3>8 DEF Line
        <3>10. y \in Line
            BY <3>4, <3>5, <3>9 DEF Line
        <3>11. tp' \in [Transport -> Line]
            BY <3>6, <3>8, <3>9, <3>10
        <3>12. /\ z.loop = x.loop /\ z.child = x.child /\ z.alive = x.alive /\ z.next = x.next
               /\ z.out = x.out /\ z.pending = x.pending /\ z.writing = x.writing /\ z.stdout = q /\ z.jobs = x.jobs
            BY <2>1, <3>5 DEF Line
        <3>13. /\ y.loop = z.loop /\ y.child = z.child /\ y.alive = z.alive /\ y.next = z.next
               /\ y.out = z.out /\ y.pending = z.pending /\ y.writing = z.writing /\ y.stdout = z.stdout /\ y.jobs = js
            BY <3>5, <3>9 DEF Line
        <3>14. PICK a \in Line, b \in Line : a = x /\ b = y
            BY <2>1, <3>10
        <3>15. LineSound(z) /\ Keeps(a, z)
            <4>1. /\ LineSound(a) /\ z.next = a.next /\ z.out = a.out /\ z.writing = a.writing
                  /\ z.stdout = Append(a.stdout, f) /\ z.jobs \in SUBSET a.jobs /\ Speech(f, a.jobs, z.jobs)
                BY <2>1, <2>3, <3>1, <3>3, <3>12, <3>14 DEF Speech, IsResponse
            <4> QED BY <4>1, <1>SayLine
        <3>16. LineSound(b) /\ Keeps(z, b)
            <4>1. /\ j \in z.jobs /\ b.next = z.next /\ b.out = z.out /\ b.writing = z.writing
                  /\ b.stdout = z.stdout /\ b.jobs = (z.jobs \ {j}) \cup {i}
                BY <3>4, <3>12, <3>13, <3>14
            <4> QED BY <3>2, <3>15, <4>1, <1>ToldLine
        <3>17. Keeps(a, b)
            BY <3>15, <3>16 DEF Keeps
        <3>18. LoopSound(y)
            BY <2>1, <2>2, <3>12, <3>13 DEF LoopSound, Up
        <3>19. SameDisp(disp, disp')
            BY <2>6, <1>DispSame
        <3>20. /\ tp[n].loop = "terminate" => tp'[n].loop = "terminate"
               /\ tp'[n].child = "up" => tp[n].child = "up"
               /\ LineSound(tp'[n]) /\ Keeps(tp[n], tp'[n]) /\ LoopSound(tp'[n])
               /\ \A k \in Transport : k # n => tp'[k] = tp[k]
            BY <3>9, <3>12, <3>13, <3>14, <3>16, <3>17, <3>18
        <3> QED BY <2>2, <3>11, <3>19, <3>20, <1>QuietKeeps
    <2> QED BY <2>3, <2>5, <2>6
\* The agent says something that is about no request.
<1>AsksKeeps. ASSUME AcpInv, NEW n \in Transport, AgentAsks(n) \/ AgentGarbles(n)
              PROVE  AcpInv'
    <2> USE <1>AsksKeeps
    <2> DEFINE x == tp[n]
    <2>1. tp \in [Transport -> Line] /\ x \in Line
        BY Parts
    <2>2. PICK kind \in {"ask", "garbage"} :
              Up(n) /\ AgentRest /\ disp' = Counted /\ tp' = Said(n, Frame(kind, NoMsg, 0))
        BY DEF AgentAsks, AgentGarbles, Speaks
    <2>3. PICK f \in Said1 : f = Frame(kind, NoMsg, 0) /\ f.id = 0 /\ f.kind = kind
        <3>1. NoMsg.id = 0 /\ NoMsg.by = NoTask /\ NoTask \in Caller /\ 0 \in Nat
            BY SMT DEF NoMsg, Caller
        <3>2. kind \in Words
            BY DEF Words
        <3>3. Frame(kind, NoMsg, 0) \in Said1 /\ Frame(kind, NoMsg, 0).id = 0 /\ Frame(kind, NoMsg, 0).kind = kind
            BY SMT, <3>1, <3>2 DEF Frame, Said1
        <3> QED BY <3>3
    <2>4. PICK js \in SUBSET x.jobs : js = x.jobs
        OBVIOUS
    <2>5. tp' = [tp EXCEPT ![n].stdout = Append(@, f), ![n].jobs = js]
        BY <2>1, <2>2, <2>3, <2>4 DEF Said, Line
    <2>6. SameDisp(disp, disp')
        BY <2>2, <1>CountedSame
    <2>7. Speech(f, tp[n].jobs, js)
        BY <2>3 DEF Speech, IsResponse, IsOutput
    <2> QED BY <2>2, <2>5, <2>6, <2>7, <1>SayKeeps
\* The agent exits; the processes it started close its stdout later.
<1>ExitsKeeps. ASSUME AcpInv, NEW n \in Transport, AgentExits(n) \/ StdoutCloses(n)
               PROVE  AcpInv'
    <2> USE <1>ExitsKeeps
    <2> DEFINE x == tp[n]
               y == tp'[n]
    <2>1. /\ tp \in [Transport -> Line] /\ x \in Line /\ LineSound(x) /\ LoopSound(x)
        BY Parts
    <2>2. AgentRest /\ call' = call /\ UNCHANGED <<gate, router>> /\ SameDisp(disp, disp')
        BY <1>CountedSame, <1>DispSame DEF AgentExits, StdoutCloses, AgentRest
    <2>3. PICK held \in BOOLEAN, jobs \in SUBSET x.jobs, child \in Children :
              /\ child \in {x.child, "exited"}
              /\ tp' = [tp EXCEPT ![n].child = child, ![n].held = held, ![n].jobs = jobs]
        <3>1. CASE AgentExits(n)
            BY <3>1 DEF AgentExits, Children
        <3>2. CASE StdoutCloses(n)
            <4>1. x.child \in Children
                BY <2>1, LineParts
            <4>2. tp' = [tp EXCEPT ![n].child = x.child, ![n].held = FALSE, ![n].jobs = x.jobs]
                BY <2>1, <3>2 DEF StdoutCloses, Line
            <4> QED BY <4>1, <4>2
        <3> QED BY <3>1, <3>2
    <2>4. y = [x EXCEPT !.child = child, !.held = held, !.jobs = jobs] /\ \A k \in Transport : k # n => tp'[k] = tp[k]
        BY <2>1, <2>3 DEF Line
    <2>5. y \in Line
        BY <2>1, <2>3, <2>4 DEF Line
    <2>6. tp' \in [Transport -> Line]
        BY <2>1, <2>3, <2>4, <2>5
    <2>7. /\ y.loop = x.loop /\ y.child = child /\ y.alive = x.alive /\ y.next = x.next
          /\ y.out = x.out /\ y.pending = x.pending /\ y.writing = x.writing /\ y.stdout = x.stdout /\ y.jobs = jobs
        BY <2>1, <2>4 DEF Line
    <2>8. LineSound(y) /\ Keeps(x, y)
        <3>1. PICK a \in Line, b \in Line : a = x /\ b = y
            BY <2>1, <2>5
        <3>2. LineSound(a) /\ Lessens(a, b)
            BY <2>1, <2>3, <2>7, <3>1 DEF Lessens, Within
        <3> QED BY <3>1, <3>2, LessLine
    <2>9. LoopSound(y)
        BY <2>1, <2>3, <2>7 DEF LoopSound
    <2>10. /\ tp[n].loop = "terminate" => tp'[n].loop = "terminate"
           /\ tp'[n].child = "up" => tp[n].child = "up"
           /\ LineSound(tp'[n]) /\ Keeps(tp[n], tp'[n]) /\ LoopSound(tp'[n])
           /\ \A k \in Transport : k # n => tp'[k] = tp[k]
        BY <2>3, <2>4, <2>7, <2>8, <2>9
    <2> QED BY <2>2, <2>6, <2>10, <1>QuietKeeps
<1> QED BY <1>LoopKeeps, <1>WriteKeeps, <1>ExitsKeeps, <1>RepliesKeeps, <1>StreamsKeeps, <1>AsksKeeps DEF Agent

=============================================================================
