----------------------------- MODULE AcpBackend -----------------------------
(* The ACP adapter (src/src/acp): one dispatcher, the agent processes it
   starts one after the other, and the runtime that stops them.

   Every agent process belongs to one transport loop (acp/transport.rs): the
   loop alone writes the agent's stdin, reads its stdout, keeps the requests
   that wait for a reply, and reaps the process.  Callers put a message into
   the loop's bounded channel and wait for their own reply.  The dispatcher
   (acp/dispatcher.rs) keeps the current client in a slot; a delivery connects
   when there is none alive, then creates or resumes the conversation's
   session (acp/session.rs); a turn prompts it.  The spawn gate
   (acp/spawn_gate.rs) lets the runtime forbid further processes, end the ones
   there are, and then observe that none is left.

   Tasks belong to one conversation.  The lease above this adapter
   (LeasedDispatcher) lets one of them at a time deliver and run its turn, and
   blocks the resource for good when a delivery or a turn failed and its
   process could not be shown to be reaped.                                 *)
EXTENDS Naturals, Sequences, FiniteSets

CONSTANTS
    Tasks,            \* tasks of one conversation
    MaxSpawns,        \* bound: agent processes
    MaxFaults,        \* bound: what an agent does besides answering (exits, requests,
                      \* errors, unusable frames), and calls given up or cancelled
    MaxRetained,      \* transports the spawn gate retains (256 in the code)
    ChannelCapacity,  \* messages that may wait for the transport loop
    PipeCapacity      \* frames the agent's stdout holds unread

Transport == 1 .. MaxSpawns
NoTask == 0
ASSUME TaskAssumption == NoTask \notin Tasks
ASSUME SpawnAssumption == MaxSpawns \in Nat

VARIABLES
    tp,       \* transports and their agent process
    call,     \* what the dispatcher does for a task
    disp,     \* dispatcher: slot, locks, lease, session row, faults so far
    gate,     \* AcpSpawnGate
    router    \* the runtime's shutdown of the adapter

acpVars == <<tp, call, disp, gate, router>>

NoMsg == [kind |-> "none", id |-> 0, by |-> NoTask, method |-> "none", session |-> 0]
Msg(kind, id, by, method, session) ==
    [kind |-> kind, id |-> id, by |-> by, method |-> method, session |-> session]
ShutdownMsg == [NoMsg EXCEPT !.kind = "shutdown"]

NoAnswer == [kind |-> "none", of |-> NoTask, session |-> 0]

NotSpawned ==
    [loop |-> "none", child |-> "none", held |-> FALSE, alive |-> FALSE, taken |-> FALSE,
     next |-> 0, out |-> <<>>, pending |-> {}, writing |-> NoMsg,
     stdout |-> <<>>, jobs |-> {}]

FreshCall == [at |-> "acquire", goal |-> "deliver", then |-> "none", own |-> FALSE, tp |-> 0,
         want |-> 0, ans |-> NoAnswer, text |-> {}]

Done == [FreshCall EXCEPT !.at = "done"]

AcpInit ==
    /\ tp = [n \in Transport |-> NotSpawned]
    /\ call = [t \in Tasks |-> FreshCall]
    /\ disp = [client |-> 0, connecting |-> NoTask, session_gate |-> NoTask, lease |-> NoTask, blocked |-> FALSE,
               row |-> [id |-> 0, state |-> "none"], sessions |-> 0, raced |-> FALSE,
               overran |-> {}, faults |-> 0]
    /\ gate = [phase |-> "open", transports |-> {}, failed |-> FALSE]
    /\ router = [at |-> "up", todo |-> {}, cur |-> 0, seen |-> "none"]

\* transports are numbered in the order of their start
First(n, S) == \A m \in S : n <= m
Spawned == {n \in Transport : tp[n].loop # "none"}
Faulty == disp.faults < MaxFaults
Counted == [disp EXCEPT !.faults = @ + 1]
-----------------------------------------------------------------------------
(* Messages to the loop and replies from it.                                *)

Room(n) == Len(tp[n].out) < ChannelCapacity

\* Mutant: the ids of a transport do not advance.
NextIdStuck(n) == tp[n].next
NextId(n) == tp[n].next + 1

\* request: an id, a message in the channel, and the caller waits
Sent(n, t, method, session) ==
    [tp EXCEPT ![n].next = NextId(n),
               ![n].out = Append(@, Msg("request", NextId(n), t, method, session))]
AwaitReply(t, n, at) ==
    [call[t] EXCEPT !.at = at, !.tp = n, !.want = NextId(n), !.ans = NoAnswer]

\* the caller gives up: RequestGuard tells the loop if there is room
Abandoned(t) ==
    LET n == call[t].tp IN
    IF call[t].want # 0 /\ call[t].ans.kind = "none" /\ tp[n].loop # "done" /\ Room(n)
    THEN [tp EXCEPT ![n].out = Append(@, Msg("cancel", call[t].want, t, "none", 0))]
    ELSE tp
GivenUp(t) == [call[t] EXCEPT !.want = 0, !.ans = NoAnswer]

\* a responder whose caller is gone is closed
Open(n, p) == call[p.by].tp = n /\ call[p.by].want = p.id /\ call[p.by].ans.kind = "none"

\* fail_all, and a loop that ends with messages it never took
fail_all(n, entries, kind) ==
    [t \in Tasks |->
        IF \E p \in entries : p.by = t /\ Open(n, p)
        THEN [call[t] EXCEPT !.ans = [kind |-> kind, of |-> t, session |-> 0]]
        ELSE call[t]]

sweep_abandoned(n) == {p \in tp[n].pending : Open(n, p)}
Unsent(n) == {tp[n].out[i] : i \in {k \in DOMAIN tp[n].out : tp[n].out[k].kind = "request"}}
-----------------------------------------------------------------------------
(* The transport loop.                                                      *)

Looping(n) == tp[n].loop = "run" /\ tp[n].writing = NoMsg
LoopRest == UNCHANGED <<disp, gate, router>>
Stop(n) == [tp EXCEPT ![n].loop = "terminate", ![n].pending = {}, ![n].writing = NoMsg]

\* the next message of the channel; a write may have to wait for the agent
LoopTake(n) ==
    LET m == Head(tp[n].out)
        taken == [tp EXCEPT ![n].out = Tail(@), ![n].pending = sweep_abandoned(n)]
    IN
    /\ Looping(n) /\ tp[n].out # <<>>
    /\ CASE m.kind = "cancel" ->
              /\ tp' = [taken EXCEPT ![n].pending = {p \in @ : p.id # m.id}]
              /\ UNCHANGED call
         [] m.kind = "shutdown" ->
              /\ call' = fail_all(n, tp[n].pending, "exited")
              /\ tp' = [Stop(n) EXCEPT ![n].out = Tail(@)]
         [] OTHER -> tp' = [taken EXCEPT ![n].writing = m] /\ UNCHANGED call
    /\ LoopRest

\* write_frame ends when the agent has read the frame (the pipe's own buffer
\* only makes that earlier)
write_frame(n) ==
    LET m == tp[n].writing
        written == [tp EXCEPT ![n].writing = NoMsg]
    IN
    /\ tp[n].loop = "run" /\ m # NoMsg /\ tp[n].child = "up"
    /\ tp' = IF m.kind = "request"
             THEN [written EXCEPT ![n].pending = {p \in @ : p.id # m.id} \cup {m}, ![n].jobs = @ \cup {m}]
             ELSE written
    /\ UNCHANGED call /\ LoopRest

WriteFails(n) ==
    LET m == tp[n].writing IN
    /\ tp[n].loop = "run" /\ m # NoMsg /\ tp[n].child # "up"
    /\ IF m.kind = "notification"
       THEN tp' = [tp EXCEPT ![n].writing = NoMsg] /\ UNCHANGED call
       ELSE /\ call' = fail_all(n, tp[n].pending \cup {m}, "closed")
            /\ tp' = Stop(n)
    /\ LoopRest

\* next_frame: one line of stdout, complete or unusable
next_frame(n) == Head(tp[n].stdout)

\* parse: what a line is
parse(f) ==
    CASE f.kind \in {"ok", "auth", "error"} -> "Response"
      [] f.kind \in {"chunk", "flood"} -> "Notification"
      [] f.kind = "ask" -> "Request"
      [] OTHER -> "ProtocolError"

\* agent_request_response: a permission is denied, any other method unknown
agent_request_response == [NoMsg EXCEPT !.kind = "response"]

prompt_session(p, s) == p.method = "prompt" /\ p.session = s

\* accumulate: a chunk goes to the prompt of its session; one that the stream of
\* the turn has no room for fails it
accumulate(n, f, live) ==
    LET mine == {p \in live : prompt_session(p, f.session)} IN
    IF f.kind = "flood"
    THEN /\ call' = fail_all(n, mine, "error")
         /\ tp' = [tp EXCEPT ![n].stdout = Tail(@), ![n].pending = live \ mine]
    ELSE /\ call' = [t \in Tasks |->
                       IF \E p \in mine : p.by = t THEN [call[t] EXCEPT !.text = @ \cup {f.of}] ELSE call[t]]
         /\ tp' = [tp EXCEPT ![n].stdout = Tail(@), ![n].pending = live]

\* route: a response to its own request, a chunk to its prompt, a request of
\* the agent answered, anything else the end of the transport
route(n) ==
    LET f == next_frame(n)
        read == [tp EXCEPT ![n].stdout = Tail(@)]
        live == sweep_abandoned(n)
        mine == {p \in live : p.id = f.id}
    IN
    CASE parse(f) = "Response" ->
           /\ call' = [t \in Tasks |->
                         IF \E p \in mine : p.by = t
                         THEN [call[t] EXCEPT !.ans = [kind |-> f.kind, of |-> f.of, session |-> f.session]]
                         ELSE call[t]]
           /\ tp' = [read EXCEPT ![n].pending = live \ mine]
      [] parse(f) = "Notification" -> accumulate(n, f, live)
      [] parse(f) = "Request" /\ tp[n].loop = "run" ->
           /\ tp' = [read EXCEPT ![n].writing = agent_request_response, ![n].pending = live]
           /\ UNCHANGED call
      [] OTHER ->
           /\ call' = fail_all(n, tp[n].pending, "closed")
           /\ tp' = [Stop(n) EXCEPT ![n].stdout = Tail(@)]

LoopRead(n) ==
    /\ Looping(n) /\ tp[n].stdout # <<>>
    /\ route(n)
    /\ LoopRest

\* the end of stdout, or the end of the process seen first: stdout is then
\* read to its end
LoopEnds(n) ==
    /\ Looping(n) /\ tp[n].child = "exited"
    /\ IF tp[n].stdout = <<>> /\ ~tp[n].held
       THEN call' = fail_all(n, tp[n].pending, "exited") /\ tp' = Stop(n)
       ELSE tp' = [tp EXCEPT ![n].loop = "drain"] /\ UNCHANGED call
    /\ LoopRest

LoopDrain(n) ==
    /\ tp[n].loop = "drain" /\ ~tp[n].held
    /\ IF tp[n].stdout # <<>>
       THEN route(n)
       ELSE call' = fail_all(n, tp[n].pending, "exited") /\ tp' = Stop(n)
    /\ LoopRest

\* terminate: wait for the process, kill it at the deadline, reap it
terminate(n) ==
    /\ tp[n].loop = "terminate"
    /\ call' = fail_all(n, Unsent(n), "closed")
    /\ tp' = [tp EXCEPT ![n].loop = "done", ![n].child = "reaped", ![n].alive = FALSE, ![n].held = FALSE,
                        ![n].out = <<>>, ![n].stdout = <<>>, ![n].jobs = {}, ![n].next = 0]
    /\ LoopRest

\* every handle to the transport dropped
LoopDropped(n) ==
    /\ Looping(n) /\ tp[n].out = <<>>
    /\ n \notin gate.transports /\ n # disp.client
    /\ \A t \in Tasks : call[t].tp # n
    /\ call' = fail_all(n, tp[n].pending, "exited")
    /\ tp' = Stop(n)
    /\ LoopRest

LoopStep(n) ==
    \/ LoopTake(n) \/ WriteFails(n) \/ LoopRead(n) \/ LoopEnds(n) \/ LoopDrain(n)
    \/ terminate(n) \/ LoopDropped(n)
-----------------------------------------------------------------------------
(* The agent process.                                                       *)

AgentRest == UNCHANGED <<call, gate, router>>
Up(n) == tp[n].child = "up"
Speaks(n) == Up(n) /\ Len(tp[n].stdout) < PipeCapacity
Frame(kind, j, session) == [kind |-> kind, id |-> j.id, of |-> j.by, session |-> session]
Said(n, f) == [tp EXCEPT ![n].stdout = Append(@, f)]

\* session/new creates a session; the answer to initialize may ask for
\* authentication
AgentReplies(n) ==
    /\ Speaks(n)
    /\ \E j \in tp[n].jobs :
          LET done(f) == [Said(n, f) EXCEPT ![n].jobs = @ \ {j}]
              made == IF j.method = "new" THEN disp.sessions + 1 ELSE disp.sessions
          IN
          \/ /\ tp' = done(Frame("ok", j, IF j.method = "new" THEN made ELSE j.session))
             /\ disp' = [disp EXCEPT !.sessions = made]
          \/ /\ Faulty
             /\ \/ tp' = done(Frame("error", j, 0))
                \/ j.method = "initialize" /\ tp' = done(Frame("auth", j, 0))
             /\ disp' = Counted
    /\ AgentRest

AgentStreams(n) ==
    /\ Speaks(n)
    /\ \E j \in {i \in tp[n].jobs : i.method = "prompt" /\ i.kind = "request"} :
          \/ /\ tp' = [Said(n, Frame("chunk", j, j.session)) EXCEPT
                        ![n].jobs = (@ \ {j}) \cup {[j EXCEPT !.kind = "told"]}]
             /\ UNCHANGED disp
          \/ Faulty /\ tp' = Said(n, Frame("flood", j, j.session)) /\ disp' = Counted
    /\ AgentRest

AgentAsks(n) ==
    /\ Speaks(n) /\ Faulty
    /\ tp' = Said(n, Frame("ask", NoMsg, 0))
    /\ disp' = Counted
    /\ AgentRest

AgentGarbles(n) ==
    /\ Speaks(n) /\ Faulty
    /\ tp' = Said(n, Frame("garbage", NoMsg, 0))
    /\ disp' = Counted
    /\ AgentRest

\* a process the agent started may keep the agent's stdout open
AgentExits(n) ==
    /\ Up(n) /\ Faulty
    /\ \E held \in BOOLEAN :
          tp' = [tp EXCEPT ![n].child = "exited", ![n].held = held, ![n].jobs = {}]
    /\ disp' = Counted
    /\ AgentRest

StdoutCloses(n) ==
    /\ tp[n].child = "exited" /\ tp[n].held
    /\ tp' = [tp EXCEPT ![n].held = FALSE]
    /\ UNCHANGED disp /\ AgentRest
-----------------------------------------------------------------------------
(* The dispatcher: connecting.                                              *)

CallRest == UNCHANGED router
Set(t, c) == [call EXCEPT ![t] = c]
At(t, at) == Set(t, [call[t] EXCEPT !.at = at])
Gone(n) == tp[n].loop = "done"

\* client_slot filtered by is_alive: a loop that is still ending counts
Serving == disp.client # 0 /\ tp[disp.client].alive

\* shutdown_inner: the first caller takes the handle of the loop
Closing(t, n, then) ==
    [call[t] EXCEPT !.at = "shut", !.then = then, !.tp = n, !.own = ~tp[n].taken]

\* what follows ensure_client
Connected(t, n) ==
    [call[t] EXCEPT !.at = IF call[t].goal = "deliver" THEN "session" ELSE "resume", !.tp = n,
                    !.want = 0, !.ans = NoAnswer]

Child(n) == [NotSpawned EXCEPT !.loop = "run", !.child = "up", !.alive = TRUE]

\* release or finish: the resource is given back, or needs recovery
Freed(t, d) == [d EXCEPT !.lease = IF @ = t THEN NoTask ELSE @]
Blocked(t, d) ==
    /\ call' = Set(t, Done)
    /\ disp' = [Freed(t, d) EXCEPT !.blocked = TRUE]

\* deliver of LeasedAcpDispatcher acquires the lease before it calls this adapter; it
\* is refused when the resource is busy or needs recovery, and the lease is given back
\* at once when the workspaces cannot be claimed
acquire(t) ==
    /\ call[t].at = "acquire"
    /\ \/ /\ disp.lease = NoTask /\ ~disp.blocked
          /\ call' = At(t, "connect") /\ disp' = [disp EXCEPT !.lease = t]
       \/ call' = Set(t, Done) /\ UNCHANGED disp
    /\ UNCHANGED <<tp, gate>> /\ CallRest

\* the turn may have streamed more than its output limit
OverLimit(t) == call[t].text # {}

\* Mutant: a turn that failed gives its resource back.
FailedTurnFreed(t, exited, d) == call' = Set(t, Done) /\ disp' = Freed(t, d)
\* a turn ended in an error and its agent was left as it is: the resource needs
\* recovery, unless the agent is known to be gone; but a turn that streamed more
\* than its output limit is closed as blocked and the resource given back
FailedTurn(t, exited, d) ==
    \E over \in {FALSE, ~exited /\ OverLimit(t)} :
        /\ call' = Set(t, Done)
        /\ disp' = [Freed(t, d) EXCEPT !.blocked = @ \/ ~(exited \/ over),
                                      !.overran = IF over THEN @ \cup {t} ELSE @]

\* ensure_client failed, for a delivery or for the recovery of a turn
NotConnected(t, d) ==
    IF call[t].goal = "deliver" THEN call' = Set(t, [GivenUp(t) EXCEPT !.at = "failed"]) /\ disp' = d
                                ELSE FailedTurn(t, call[t].ans.kind = "exited", d)

\* Mutant: a closing gate still lets processes be started.
reserveClosing == TRUE
reserve == gate.phase = "open"

retain_transport == Cardinality(gate.transports) < MaxRetained

register_child(n, ok) == [gate EXCEPT !.transports = @ \cup {n}, !.failed = @ \/ ~ok]

\* connect_with_gate: the process, its registration with the gate, initialize
connect_with_gate(t) == \E n \in Transport \ Spawned :
    LET spawned == [tp EXCEPT ![n] = Child(n)]
        refused == /\ tp' = [spawned EXCEPT ![n].taken = TRUE]
                   /\ call' = Set(t, [Closing(t, n, "connect") EXCEPT !.own = TRUE])
    IN
    /\ First(n, Transport \ Spawned)
    /\ \/ /\ retain_transport
          /\ tp' = [spawned EXCEPT ![n].next = 1,
                                   ![n].out = <<Msg("request", 1, t, "initialize", 0)>>]
          /\ call' = Set(t, [AwaitReply(t, n, "init") EXCEPT !.want = 1])
          /\ gate' = register_child(n, TRUE)
          /\ disp' = [disp EXCEPT !.connecting = t]
       \/ /\ retain_transport /\ Faulty
          /\ refused
          /\ gate' = register_child(n, FALSE)
          /\ disp' = [Counted EXCEPT !.connecting = t]
       \/ /\ ~retain_transport
          /\ refused
          /\ gate' = [gate EXCEPT !.failed = TRUE]
          /\ disp' = [disp EXCEPT !.connecting = t]

ensure_client(t) ==
    /\ call[t].at = "connect" /\ disp.connecting = NoTask
    /\ IF ~reserve
       THEN NotConnected(t, disp) /\ UNCHANGED <<tp, gate>>
       ELSE IF Serving
            THEN call' = Set(t, Connected(t, disp.client)) /\ UNCHANGED <<tp, disp, gate>>
            ELSE connect_with_gate(t)
    /\ CallRest

Negotiated(t) ==
    /\ call' = Set(t, Connected(t, call[t].tp))
    /\ disp' = [disp EXCEPT !.client = call[t].tp, !.connecting = NoTask]
    /\ UNCHANGED tp

ConnectFails(t) ==
    /\ call' = Set(t, Closing(t, call[t].tp, "connect"))
    /\ tp' = [tp EXCEPT ![call[t].tp].taken = TRUE]
    /\ UNCHANGED disp

Initialized(t) ==
    LET n == call[t].tp IN
    /\ call[t].at = "init" /\ call[t].ans.kind # "none"
    /\ CASE call[t].ans.kind = "ok" -> Negotiated(t)
         [] call[t].ans.kind = "auth" /\ ~Gone(n) ->
              /\ Room(n)
              /\ tp' = Sent(n, t, "authenticate", 0)
              /\ call' = Set(t, AwaitReply(t, n, "auth"))
              /\ UNCHANGED disp
         [] OTHER -> ConnectFails(t)
    /\ UNCHANGED gate /\ CallRest

Authenticated(t) ==
    /\ call[t].at = "auth" /\ call[t].ans.kind # "none"
    /\ IF call[t].ans.kind = "ok" THEN Negotiated(t) ELSE ConnectFails(t)
    /\ UNCHANGED gate /\ CallRest

\* the loop takes the request to end when it has room for it
ShutdownSent(t) ==
    LET n == call[t].tp IN
    /\ call[t].at = "shut" /\ (Gone(n) \/ Room(n))
    /\ tp' = IF Gone(n) THEN tp ELSE [tp EXCEPT ![n].out = Append(@, ShutdownMsg)]
    /\ call' = At(t, "join")
    /\ UNCHANGED <<disp, gate>> /\ CallRest

\* only the caller that took the handle knows that the process is reaped
shutdown_reaped(t) == call[t].own

Joined(t) ==
    LET n == call[t].tp IN
    /\ call[t].at = "join" /\ (call[t].own => Gone(n))
    /\ CASE call[t].then = "connect" ->
              NotConnected(t, [disp EXCEPT !.connecting = NoTask])
         [] call[t].then = "turn" \/ (call[t].then = "cancel" /\ ~shutdown_reaped(t)) -> FailedTurn(t, FALSE, disp)
         [] call[t].then = "guard" \/ (call[t].then = "deliver" /\ ~shutdown_reaped(t)) -> Blocked(t, disp)
         [] OTHER -> call' = Set(t, Done) /\ disp' = Freed(t, disp)
    /\ UNCHANGED <<tp, gate>> /\ CallRest
-----------------------------------------------------------------------------
(* The dispatcher: sessions and turns.                                      *)

\* the row of the conversation that is not closed; no code closes one
live_session == disp.row.id
\* ... and the same under the identity of the client that serves, if one does
live_session_with_workspaces == IF Serving THEN live_session ELSE 0
StoredSession(s) == [id |-> s, state |-> "ready"]
set_state(d, state) == [d EXCEPT !.row.state = state]

SessionGate == disp.session_gate = NoTask

\* the session of the conversation: session/resume for a live row, else
\* session/new
new_session(n, t) == Sent(n, t, "new", 0)
resume_session(n, t) == Sent(n, t, "resume", live_session)
prompt_stream(n, t) == Sent(n, t, "prompt", live_session)

BindSession(t) ==
    LET n == call[t].tp IN
    /\ call[t].at = "session" /\ SessionGate
    /\ IF Gone(n)
       THEN call' = At(t, "failed") /\ UNCHANGED <<tp, disp>>
       ELSE /\ Room(n)
            /\ tp' = IF live_session = 0 THEN new_session(n, t) ELSE resume_session(n, t)
            /\ call' = Set(t, AwaitReply(t, n, "bind"))
            /\ disp' = [disp EXCEPT !.session_gate = t]
    /\ UNCHANGED gate /\ CallRest

\* upsert_session under the unique index on live sessions
upsert_session(s) ==
    IF disp.row.id \in {0, s}
    THEN [disp EXCEPT !.row = StoredSession(s), !.session_gate = NoTask]
    ELSE [disp EXCEPT !.raced = TRUE, !.session_gate = NoTask]

\* the delivery is acknowledged, with the owner of the session where a queue
\* lease asks for it, or that is refused
acknowledge_delivery(t, stored) ==
    \/ call' = Set(t, [GivenUp(t) EXCEPT !.at = "accepted"]) /\ disp' = stored
    \/ /\ Faulty
       /\ call' = Set(t, [GivenUp(t) EXCEPT !.at = "failed"])
       /\ disp' = [stored EXCEPT !.faults = @ + 1]

Bound(t) ==
    /\ call[t].at = "bind" /\ call[t].ans.kind # "none"
    /\ LET s == call[t].ans.session
           stored == upsert_session(s)
       IN
       \/ call[t].ans.kind = "ok" /\ ~stored.raced /\ acknowledge_delivery(t, stored)
       \/ /\ call[t].ans.kind # "ok" \/ stored.raced
          /\ call' = Set(t, [GivenUp(t) EXCEPT !.at = "failed"])
          /\ disp' = IF call[t].ans.kind = "ok" THEN stored
                     ELSE [disp EXCEPT !.session_gate = NoTask]
    /\ UNCHANGED <<tp, gate>> /\ CallRest

\* start_turn looks the session up under the identity of the client it has
start_turn(t) ==
    /\ call[t].at = "accepted"
    /\ IF live_session_with_workspaces # 0
       THEN call' = At(t, "start") /\ UNCHANGED disp
       ELSE FailedTurn(t, TRUE, disp)
    /\ UNCHANGED <<tp, gate>> /\ CallRest

\* ... and prompts, unless the client ended meanwhile
prompt(t) ==
    LET n == disp.client IN
    /\ call[t].at = "start"
    /\ IF Serving
       THEN /\ Room(n)
            /\ tp' = prompt_stream(n, t)
            /\ call' = Set(t, AwaitReply(t, n, "prompt"))
            /\ disp' = set_state(disp, "prompting")
       ELSE call' = Set(t, [call[t] EXCEPT !.at = "connect", !.goal = "recover"]) /\ UNCHANGED <<tp, disp>>
    /\ UNCHANGED gate /\ CallRest

\* finish: an answer ends the turn; a lost agent is started again and the
\* session resumed, but the prompt is never sent again
finish(t) ==
    /\ call[t].at = "prompt" /\ call[t].ans.kind # "none"
    /\ CASE call[t].ans.kind = "ok" ->
              /\ call' = Set(t, Done)
              /\ disp' = set_state([disp EXCEPT !.lease = NoTask], "ready")
         [] call[t].ans.kind = "error" -> FailedTurn(t, FALSE, set_state(disp, "ready"))
         [] OTHER ->
              /\ call' = Set(t, [GivenUp(t) EXCEPT !.at = "connect", !.goal = "recover"])
              /\ disp' = set_state(disp, "ready")
    /\ UNCHANGED <<tp, gate>> /\ CallRest

resume(t) ==
    LET n == call[t].tp IN
    /\ call[t].at = "resume"
    /\ IF Gone(n)
       THEN FailedTurn(t, FALSE, disp) /\ UNCHANGED tp
       ELSE /\ Room(n)
            /\ tp' = resume_session(n, t)
            /\ call' = Set(t, AwaitReply(t, n, "resuming"))
            /\ UNCHANGED disp
    /\ UNCHANGED gate /\ CallRest

\* RecoveryNeeded when it succeeds
Resumed(t) ==
    /\ call[t].at = "resuming" /\ call[t].ans.kind # "none"
    /\ FailedTurn(t, call[t].ans.kind = "exited", disp)
    /\ UNCHANGED <<tp, gate>> /\ CallRest

\* the future of a call ends early: its locks are freed and its request given up
Released(t, d) ==
    [d EXCEPT !.connecting = IF @ = t THEN NoTask ELSE @,
              !.session_gate = IF @ = t THEN NoTask ELSE @]
Delivering(t) ==
    /\ call[t].goal = "deliver"
    /\ \/ call[t].at \in {"connect", "init", "auth", "session", "bind"}
       \/ call[t].at \in {"shut", "join"} /\ call[t].then = "connect"
InTurn(t) ==
    \/ call[t].at \in {"start", "prompt"}
    \/ call[t].goal = "recover" /\ ~(call[t].at \in {"shut", "join"} /\ call[t].then # "connect")

\* a request of a delivery reaches its deadline
DeliveryTimesOut(t) ==
    /\ Faulty /\ call[t].at = "bind" /\ call[t].ans.kind = "none"
    /\ tp' = Abandoned(t)
    /\ call' = Set(t, [GivenUp(t) EXCEPT !.at = "failed"])
    /\ disp' = Released(t, Counted)
    /\ UNCHANGED gate /\ CallRest

\* the worker goes away inside deliver: the lease expires unattended
DeliveryDropped(t) ==
    /\ Faulty /\ Delivering(t)
    /\ tp' = Abandoned(t)
    /\ Blocked(t, Released(t, Counted))
    /\ UNCHANGED gate /\ CallRest

\* run_turn gives up: the agent is silent for too long, a heartbeat finds the
\* lease lost, a request reaches its deadline, the output is not recorded
TurnGivesUp(t) ==
    /\ Faulty /\ call[t].at \in {"start", "prompt", "resuming"}
    /\ FailedTurn(t, FALSE, Counted)
    /\ tp' = Abandoned(t)
    /\ UNCHANGED gate /\ CallRest

\* connect answers its own deadline by ending the process it started
ConnectTimesOut(t) ==
    LET n == call[t].tp IN
    /\ call[t].at \in {"init", "auth"} /\ call[t].ans.kind = "none"
    /\ call' = Set(t, [Closing(t, n, "connect") EXCEPT !.want = 0])
    /\ tp' = [Abandoned(t) EXCEPT ![n].taken = TRUE]
    /\ UNCHANGED <<disp, gate>> /\ CallRest

\* take_client, and the process ended
Taken(t, then, d) ==
    LET n == disp.client IN
    /\ disp' = [d EXCEPT !.client = 0]
    /\ call' = Set(t, Closing(t, n, then))
    /\ tp' = [tp EXCEPT ![n].taken = TRUE]

\* run_turn at the hard deadline: shutdown, then the error
TurnDeadline(t) ==
    /\ call[t].at = "prompt" /\ Faulty
    /\ IF disp.client = 0
       THEN FailedTurn(t, FALSE, Counted) /\ UNCHANGED tp
       ELSE Taken(t, "turn", Counted)
    /\ UNCHANGED gate /\ CallRest

\* a turn dropped, or ended by a storage error: the armed ExecutionGuard shuts the
\* agent down and marks the lease
TurnDropped(t) ==
    /\ InTurn(t) /\ Faulty
    /\ IF disp.client = 0
       THEN Blocked(t, Released(t, Counted)) /\ tp' = Abandoned(t)
       ELSE /\ disp' = [Released(t, Counted) EXCEPT !.client = 0]
            /\ call' = Set(t, [Closing(t, disp.client, "guard") EXCEPT !.want = 0])
            /\ tp' = [Abandoned(t) EXCEPT ![disp.client].taken = TRUE]
    /\ UNCHANGED gate /\ CallRest

\* cancel_and_shutdown: session/cancel first
cancel_and_shutdown(t) ==
    LET n == disp.client IN
    /\ call[t].at = "prompt" /\ Faulty
    /\ IF n = 0 THEN FailedTurn(t, FALSE, Counted)
       ELSE /\ disp' = [Counted EXCEPT !.client = 0]
            /\ call' = Set(t, [call[t] EXCEPT !.at = "notify", !.tp = n, !.want = 0])
    /\ UNCHANGED <<tp, gate>> /\ CallRest

notify(t) ==
    LET n == call[t].tp IN
    /\ call[t].at = "notify"
    /\ IF Gone(n) THEN FailedTurn(t, FALSE, disp) /\ UNCHANGED tp
       ELSE /\ Room(n)
            /\ tp' = [tp EXCEPT ![n].out = Append(@, Msg("notification", 0, t, "cancel", 0)), ![n].taken = TRUE]
            /\ call' = Set(t, Closing(t, n, "cancel"))
            /\ UNCHANGED disp
    /\ UNCHANGED gate /\ CallRest

\* what the lease layer does after a failed delivery
finalize_delivery_failure(t) ==
    /\ call[t].at = "failed"
    /\ IF disp.client = 0 THEN Blocked(t, disp) /\ UNCHANGED tp ELSE Taken(t, "deliver", disp)
    /\ UNCHANGED gate /\ CallRest

CallStep(t) ==
    \/ acquire(t) \/ ensure_client(t) \/ Initialized(t) \/ Authenticated(t) \/ ShutdownSent(t) \/ Joined(t)
    \/ BindSession(t) \/ Bound(t) \/ start_turn(t) \/ prompt(t) \/ finish(t) \/ resume(t)
    \/ Resumed(t) \/ notify(t) \/ finalize_delivery_failure(t)
CallEnds(t) ==
    \/ DeliveryTimesOut(t) \/ DeliveryDropped(t) \/ TurnGivesUp(t) \/ TurnDeadline(t)
    \/ TurnDropped(t) \/ cancel_and_shutdown(t)
-----------------------------------------------------------------------------
(* The runtime stops the adapter (app/dispatcher.rs).                       *)

RouterRest == UNCHANGED <<call, disp>>

\* the reservations not yet dropped
in_flight == disp.connecting # NoTask

close_and_join ==
    /\ \/ router.at = "up" /\ gate' = [gate EXCEPT !.phase = "closing"]
          /\ router' = [router EXCEPT !.at = "closing"]
       \/ /\ router.at = "closing" /\ ~in_flight
          /\ gate' = [gate EXCEPT !.phase = "joined"]
          /\ router' = [router EXCEPT !.at = "reap", !.todo = gate.transports]
    /\ UNCHANGED tp /\ RouterRest

\* reap_transports, one after the other; a handle already taken is not awaited
reap_transports == \E n \in router.todo :
    /\ router.at = "reap" /\ First(n, router.todo)
    /\ IF router.cur = 0
       THEN /\ Gone(n) \/ Room(n)
            /\ tp' = IF Gone(n) THEN [tp EXCEPT ![n].taken = TRUE]
                     ELSE [tp EXCEPT ![n].taken = TRUE, ![n].out = Append(@, ShutdownMsg)]
            /\ router' = IF tp[n].taken THEN [router EXCEPT !.todo = @ \ {n}]
                                        ELSE [router EXCEPT !.cur = n]
       ELSE /\ Gone(n)
            /\ router' = [router EXCEPT !.cur = 0, !.todo = @ \ {n}]
            /\ UNCHANGED tp
    /\ UNCHANGED gate /\ RouterRest

\* the processes of the runtime's group
scan == {n \in Transport : Up(n)}
\* ... count only when the gate joined and every child registered
qualifies == gate.phase = "joined" /\ ~gate.failed /\ scan = {}

\* the dispatcher's own client was among the transports
final_observation ==
    /\ router.at = "reap" /\ router.todo = {}
    /\ router' = [router EXCEPT !.at = "done", !.seen = IF qualifies THEN "qualified" ELSE "unqualified"]
    /\ disp' = [disp EXCEPT !.client = 0]
    /\ UNCHANGED <<tp, call, gate>>

RouterStep == close_and_join \/ reap_transports \/ final_observation
-----------------------------------------------------------------------------
Agent(n) == AgentReplies(n) \/ AgentStreams(n) \/ AgentAsks(n) \/ AgentGarbles(n) \/ AgentExits(n)

AcpNext ==
    \/ \E n \in Transport : LoopStep(n) \/ write_frame(n) \/ StdoutCloses(n) \/ Agent(n)
    \/ \E t \in Tasks : CallStep(t) \/ CallEnds(t) \/ ConnectTimesOut(t)
    \/ RouterStep

ChildrenGone == router.at # "up" => \A n \in Transport : tp[n].child \in {"none", "reaped"}

Stopping(step) == router.at # "up" /\ step

\* while the adapter is being stopped the bridge's own tasks run, deadlines fire, and
\* an agent reads its stdin
BridgeFair ==
    /\ \A n \in Transport : WF_acpVars(Stopping(LoopStep(n))) /\ WF_acpVars(Stopping(write_frame(n)))
    /\ \A t \in Tasks : WF_acpVars(Stopping(CallStep(t))) /\ WF_acpVars(Stopping(ConnectTimesOut(t)))
    /\ WF_acpVars(Stopping(RouterStep))

\* no process an agent started keeps its stdout open for ever
StdoutFair == \A n \in Transport : WF_acpVars(Stopping(StdoutCloses(n)))

AcpSpec == AcpInit /\ [][AcpNext]_acpVars /\ BridgeFair
-----------------------------------------------------------------------------
Prompts(n) == {j \in tp[n].jobs : j.method = "prompt"}

\* A caller is given the reply to its own request, whatever was abandoned,
\* reordered or answered late on the same transport (route, RequestGuard).
ReplyToAsker == \A t \in Tasks : call[t].ans.kind = "ok" => call[t].ans.of = t

\* What is credited to a turn was streamed for that turn: a chunk of a turn that
\* was given up never reaches the next turn of the session (accumulate), unless
\* that turn had exceeded its output limit.
OutputBelongs == \A t \in Tasks : call[t].text \subseteq {t} \cup disp.overran

\* Two first deliveries of a conversation never create two sessions for it
\* (session_gate against the unique index on live sessions).
DeliveriesShareSession == ~disp.raced

\* Nothing an agent says reaches a caller it was not said to, and a conversation
\* goes on in the one session it has.
NothingMisdelivered == ReplyToAsker /\ OutputBelongs /\ DeliveriesShareSession

\* At most one prompt at a time is worked on: a turn that was given up is over
\* before the next one starts, or none starts (shutdown_reaped and the lease),
\* unless it had exceeded its output limit.
OneTurnAtWork ==
    \A m, n \in Transport : \A i \in Prompts(m), j \in Prompts(n) :
        (i = j /\ m = n) \/ {i.by, j.by} \cap disp.overran # {}

\* Execution of a resource is exclusive ("exclusive execution", runtime/mod.rs:1):
\* two prompts are never worked on at a time, whatever ended the earlier one.
ExclusiveExecution ==
    \A m, n \in Transport : \A i \in Prompts(m), j \in Prompts(n) : i = j /\ m = n

\* The evidence that a stopped runtime left no agent process is true, and stays
\* true (close_and_join, reap_transports, final_observation).
QualifiedMeansNoChild == router.seen = "qualified" => \A n \in Transport : ~Up(n)

=============================================================================
