---------------------------- MODULE AcpInvariant ----------------------------
(***************************************************************************)
(* What AcpBackend keeps true: the invariant behind the theorems of        *)
(* AcpBackend_proofs, and the notions its proof is made of.                *)
(***************************************************************************)
EXTENDS AcpBackend

Kinds == {"none", "request", "told", "notification", "cancel", "shutdown", "response"}
Methods == {"none", "initialize", "authenticate", "new", "resume", "prompt", "cancel"}
Words == {"ok", "auth", "error", "chunk", "flood", "ask", "garbage"}
Answers1 == {"none", "ok", "auth", "error", "closed", "exited"}
Loops == {"none", "run", "drain", "terminate", "done"}
Children == {"none", "up", "exited", "reaped"}

Stages == {"acquire", "connect", "init", "auth", "session", "bind", "accepted", "start", "prompt", "resume",
           "resuming", "notify", "shut", "join", "failed", "done"}

Thens == {"none", "connect", "turn", "cancel", "guard", "deliver"}
Caller == Tasks \cup {NoTask}
Addressed(m) == m.id # 0 \/ m.by = NoTask \/ m.kind \in {"notification", "cancel"}
Message == {m \in [kind : Kinds, id : Nat, by : Caller, method : Methods, session : Nat] : Addressed(m)}
Said1 == [kind : Words, id : Nat, of : Caller, session : Nat]
Answer == [kind : Answers1, of : Caller, session : Nat]

Line == [loop : Loops, child : Children, held : BOOLEAN, alive : BOOLEAN, taken : BOOLEAN,
         next : Nat, out : Seq(Message), pending : SUBSET Message, writing : Message,
         stdout : Seq(Said1), jobs : SUBSET Message]

CallRow == [at : Stages, goal : {"deliver", "recover"}, then : Thens, own : BOOLEAN, tp : Nat, want : Nat,
            ans : Answer, text : SUBSET Caller]

DispRow == [client : Nat, connecting : Caller, session_gate : Caller, lease : Caller,
            blocked : BOOLEAN, row : [id : Nat, state : {"none", "ready", "prompting"}], sessions : Nat, raced : BOOLEAN,
            overran : SUBSET Caller, faults : Nat]

IsRequest(m) == m.kind = "request"
IsResponse(f) == f.kind \in {"ok", "auth", "error"}
IsOutput(f) == f.kind \in {"chunk", "flood"}

\* The requests in the channel have growing ids.
OutOrdered(out, next) ==
    /\ \A i \in 1 .. Len(out) : IsRequest(out[i]) => out[i].id \in 1 .. next
    /\ \A i, k \in 1 .. Len(out) : i < k /\ IsRequest(out[i]) /\ IsRequest(out[k]) => out[i].id < out[k].id

\* The request being written is older than those.
WritingOrdered(m, out, next) ==
    IsRequest(m) => /\ m.id \in 1 .. next
                    /\ \A i \in 1 .. Len(out) : IsRequest(out[i]) => m.id < out[i].id

\* An id the agent has read is older than all that wait.
Older(id, m, out, next) ==
    /\ id <= next
    /\ IsRequest(m) => id < m.id
    /\ \A i \in 1 .. Len(out) : IsRequest(out[i]) => id < out[i].id

JobsSound(jobs, m, out, next) ==
    /\ \A j \in jobs : j.id >= 1 /\ Older(j.id, m, out, next)
    /\ \A i, j \in jobs : i.id = j.id => i = j

\* A response is the last word about its request.
LastWord(stdout, k, jobs) ==
    /\ stdout[k].id # 0
    /\ \A j \in jobs : j.id # stdout[k].id
    /\ \A l \in 1 .. Len(stdout) : k < l => stdout[l].id # stdout[k].id

StdoutSound(stdout, jobs, m, out, next) ==
    /\ \A k \in 1 .. Len(stdout) : Older(stdout[k].id, m, out, next)
    /\ \A k \in 1 .. Len(stdout) : IsResponse(stdout[k]) => LastWord(stdout, k, jobs)

LineSound(x) ==
    /\ OutOrdered(x.out, x.next)
    /\ WritingOrdered(x.writing, x.out, x.next)
    /\ JobsSound(x.jobs, x.writing, x.out, x.next)
    /\ StdoutSound(x.stdout, x.jobs, x.writing, x.out, x.next)

\* x carries the prompt id of w, or output of it.
IsPrompt(m, w, id) == m.method = "prompt" /\ m.by = w /\ m.id = id
OutCarries(out, w, id) == \E i \in 1 .. Len(out) : IsRequest(out[i]) /\ IsPrompt(out[i], w, id)

StdoutCarries(stdout, w, id) ==
    \E k \in 1 .. Len(stdout) : IsOutput(stdout[k]) /\ stdout[k].of = w /\ stdout[k].id = id

Carries(x, w, id) ==
    \/ OutCarries(x.out, w, id)
    \/ IsRequest(x.writing) /\ IsPrompt(x.writing, w, id)
    \/ \E j \in x.jobs : IsPrompt(j, w, id)
    \/ StdoutCarries(x.stdout, w, id)

\* What c waits for is its own: a request with its id fits the call, and so does what
\* the agent says of it.
Fits(c, row, m) ==
    /\ c.at = "prompt" => m.method = "prompt"
    /\ c.at = "bind" => \/ m.method = "new" /\ row.id = 0
                        \/ m.method = "resume" /\ m.session = row.id

FitsFrame(c, row, f) ==
    /\ c.at = "prompt" => f.kind # "auth"
    /\ c.at = "bind" /\ f.kind = "ok" => row.id \in {0, f.session}

OutAwaited(out, c, u, row) ==
    \A i \in 1 .. Len(out) : IsRequest(out[i]) /\ out[i].id = c.want => out[i].by = u /\ Fits(c, row, out[i])

StdoutAwaited(stdout, c, u, row) ==
    \A k \in 1 .. Len(stdout) : stdout[k].id = c.want => stdout[k].of = u /\ FitsFrame(c, row, stdout[k])

Awaited(x, c, u, row) ==
    /\ OutAwaited(x.out, c, u, row)
    /\ IsRequest(x.writing) /\ x.writing.id = c.want => x.writing.by = u /\ Fits(c, row, x.writing)
    /\ \A j \in x.jobs : j.id = c.want => j.by = u /\ Fits(c, row, j)
    /\ StdoutAwaited(x.stdout, c, u, row)

-----------------------------------------------------------------------------
(* Channels and pipes. *)

\* Out is a part of out: nothing is new in it but messages that are no requests.
Within(new, old) ==
    \/ new = old
    \/ old # <<>> /\ new = Tail(old)
    \/ \E m \in Message : new = Append(old, m) /\ ~IsRequest(m)

-----------------------------------------------------------------------------
(* What may happen to the line of an agent. *)

\* y carries no prompt that x does not carry, and a call that waits on x waits on y.
Keeps(x, y) ==
    /\ \A w, id : Carries(y, w, id) => Carries(x, w, id)
    /\ \A c, u, row : c.want # 0 /\ Awaited(x, c, u, row) => Awaited(y, c, u, row)

\* Messages are taken, requests abandoned, frames read.
Lessens(x, y) ==
    /\ y.next = x.next
    /\ Within(y.out, x.out)
    /\ y.writing = x.writing \/ ~IsRequest(y.writing)
    /\ y.jobs \subseteq x.jobs
    /\ y.stdout = x.stdout \/ (x.stdout # <<>> /\ y.stdout = Tail(x.stdout))

\* What an agent that has the jobs may say, with js of them left: something about one of
\* them, or something that answers nothing.
Speech(f, jobs, js) ==
    \/ /\ f.id = 0 /\ ~IsResponse(f) /\ ~IsOutput(f)
    \/ \E j \in jobs :
          /\ f.id = j.id /\ f.of = j.by
          /\ IsResponse(f) => js = jobs \ {j}
          /\ IsOutput(f) => j.method = "prompt"
          /\ f.kind = "auth" => j.method = "initialize"
          /\ f.kind = "ok" => j.method = "new" \/ f.session = j.session

-----------------------------------------------------------------------------
(* The invariant.                                                           *)

Gates == [phase : {"open", "closing", "joined"}, transports : SUBSET Nat, failed : BOOLEAN]

Routers == [at : {"up", "closing", "reap", "done"}, todo : SUBSET Nat, cur : Nat,
            seen : {"none", "qualified", "unqualified"}]

Typed ==
    /\ tp \in [Transport -> Line] /\ call \in [Tasks -> CallRow]
    /\ disp \in DispRow /\ gate \in Gates /\ router \in Routers

\* A loop that ended has nothing left; one that is ending counts as alive;
\* what waits for an answer has an id.
LoopSound(x) ==
    /\ x.loop \in {"run", "drain", "terminate"} => x.alive
    /\ x.child = "up" => x.loop \notin {"none", "done"}
    /\ x.loop \in {"none", "terminate", "done"} => ~IsRequest(x.writing)
    /\ x.loop = "done" => ~x.alive /\ x.out = <<>> /\ x.jobs = {} /\ x.stdout = <<>>
    /\ \A p \in x.pending : p.id # 0
    /\ x.writing.kind # "cancel"

Resting == {"acquire", "done"}
Waiting == {"init", "auth", "bind", "prompt", "resuming", "shut", "join"}
Placed == Waiting \cup {"session", "resume", "notify"}

\* The slot holds n, or was emptied when the adapter was stopped.
Client(n, client, phase) == client = n \/ (client = 0 /\ phase # "open")

\* What the stage of a call says of its parts.
CallShape(c, t) ==
    /\ c.at \in Resting => c.goal = "deliver" /\ c.want = 0
    /\ c.want # 0 => c.at \in Waiting
    /\ c.at \in Placed => c.tp \in Transport
    /\ c.at \in {"acquire", "connect", "accepted", "resume", "start"} => c.ans.kind = "none"
    /\ c.ans.kind = "ok" => c.ans.of = t

\* ... of the session row and of the slot.
CallFits(c, row, client, phase) ==
    /\ c.at = "bind" /\ c.ans.kind = "ok" => row.id \in {0, c.ans.session}
    /\ c.at = "prompt" => Client(c.tp, client, phase)

\* A call that does something holds the lease; it waits for its own answer, and is
\* given its own output.
CallSound(t) ==
    /\ call[t].at \notin Resting <=> disp.lease = t
    /\ CallShape(call[t], t)
    /\ CallFits(call[t], disp.row, disp.client, gate.phase)
    /\ call[t].want # 0 => Awaited(tp[call[t].tp], call[t], t, disp.row)
    /\ call[t].text \subseteq {t} \cup disp.overran

\* How far a turn is whose prompt id the agent on n may still work on.
Prompting(c, loop, n, id) ==
    /\ c.at = "prompt" /\ c.tp = n /\ c.want = id
    /\ c.ans.kind \in {"none", "error"} \/ (loop = "terminate" /\ c.ans.kind \in {"closed", "exited"})

Ending(c, n) ==
    \/ c.at = "notify" /\ c.tp = n
    \/ c.at \in {"shut", "join"} /\ (c.then \in {"turn", "guard"} \/ (c.then = "cancel" /\ c.tp = n))

Recovering(c, loop, n, client, phase) ==
    /\ loop = "terminate"
    /\ \/ c.at = "connect" /\ c.goal = "recover" /\ Client(n, client, phase)
       \/ c.at \in {"resume", "resuming"} /\ c.tp = n /\ c.ans.kind = "none"

Stage(c, loop, n, id, client, phase) ==
    Prompting(c, loop, n, id) \/ Ending(c, n) \/ Recovering(c, loop, n, client, phase)

StageOf(w, n, id) == Stage(call[w], tp[n].loop, n, id, disp.client, gate.phase)

\* A prompt the agent may still work on belongs to the turn that holds the lease, or
\* the resource needs recovery.
Leased ==
    \A n \in Transport : \A w, id : Carries(tp[n], w, id) /\ w \notin disp.overran =>
        disp.blocked \/ (w \in Tasks /\ disp.lease = w /\ StageOf(w, n, id))

\* There is one such prompt.
OnePrompt ==
    \A m, n \in Transport : \A v, w, i, j :
        Carries(tp[m], v, i) /\ Carries(tp[n], w, j) /\ v \notin disp.overran /\ w \notin disp.overran =>
            m = n /\ v = w /\ i = j

RouterSound ==
    /\ router.at \in {"reap", "done"} => gate.phase = "joined"
    /\ router.seen # "none" => router.at = "done"
    /\ QualifiedMeansNoChild

Lines == \A n \in Transport : LineSound(tp[n]) /\ LoopSound(tp[n])
Calls == \A t \in Tasks : CallSound(t)

Slots ==
    /\ disp.blocked => disp.lease = NoTask
    /\ ~disp.raced /\ disp.client \in Transport \cup {0}

AcpInv == Typed /\ Lines /\ Calls /\ Slots /\ Leased /\ OnePrompt /\ RouterSound

-----------------------------------------------------------------------------
(* A step of one transport or its agent.                                    *)

\* What the line may do: it goes from x to y.
Calm(x, y) ==
    /\ y \in Line /\ LineSound(y) /\ LoopSound(y) /\ Keeps(x, y)
    /\ x.loop = "terminate" => y.loop = "terminate" \/ \A w, id : ~Carries(y, w, id)
    /\ y.child = "up" => x.child = "up"

SameStage(c, d) == d.at = c.at /\ d.goal = c.goal /\ d.then = c.then /\ d.tp = c.tp /\ d.want = c.want

\* The answer a to the call c of t on n, whose line goes from x to y.
Answers(c, a, t, n, x, y, row) ==
    /\ c.tp = n /\ c.want # 0 /\ c.ans.kind = "none"
    /\ \/ a.kind \in {"closed", "exited"} /\ \A w, id : ~Carries(y, w, id)
       \/ /\ x.loop # "terminate"
          /\ \/ a.kind \in {"closed", "exited"} /\ y.loop = "terminate"
             \/ a.kind = "error"
             \/ a.kind = "auth" /\ c.at # "prompt"
             \/ /\ a.kind = "ok" /\ a.of = t
                /\ c.at = "bind" => row.id \in {0, a.session}
                /\ ~Carries(y, t, c.want)

\* A call gets nothing but its answer and its own output.
Gets(c, d, t, n, x, y, row, overran) ==
    /\ SameStage(c, d)
    /\ d.text \subseteq {t} \cup overran
    /\ d.ans = c.ans \/ Answers(c, d.ans, t, n, x, y, row)

SameDisp(d, e) ==
    /\ e \in DispRow /\ e.client = d.client /\ e.lease = d.lease /\ e.blocked = d.blocked
    /\ e.row = d.row /\ e.raced = d.raced /\ e.overran = d.overran
=============================================================================
