---- MODULE MCTransports ----
(* The three ways into and out of the bridge besides the ACP agents, each in a *)
(* small instance of its own: a behaviour is one of the Matrix sync, of the    *)
(* A2A exchange or of the gateway, and leaves the other two alone.             *)
EXTENDS MatrixSync, A2aExchange, Gateway

VARIABLE transport

\* Matrix: pairs of events, work next to work, to what is passed over or denied, and
\* to what the sync owner must refuse.
MCTimelines == {<<"text", "command">>, <<"command", "retry">>, <<"ignored", "retry">>,
                <<"command", "forbidden">>, <<"command", "noroute">>, <<"command", "encrypted">>,
                <<"command", "malformed">>}

\* A2A: two peers that use the same request id, two endpoints, the same request in
\* both profiles, and one task behind a peer.  The other peer's request comes when
\* the first call is over.
body == [peer |-> "p", auth |-> TRUE, to |-> "e", profile |-> "legacy", id |-> "1", ctx |-> "c",
         text |-> "a", parts |-> "text"]
again ==
    <<{body, [body EXCEPT !.profile = "v030", !.ctx = None], [body EXCEPT !.peer = "q"]},
      {body, [body EXCEPT !.to = "f"], [body EXCEPT !.parts = "uri"]}>>
mcOffered == <<[h \in Handler |-> {body}], again>>
mcExposed == {"e", "f"}
mcAllowed == [p \in {"p", "q"} |-> {"e", "f"}]

\* Gateway: two requests, one of them also under the other's key, and events the
\* consumer passes over or stops at.
request == [id |-> "i", key |-> "k", task |-> "t", hash |-> "h", kind |-> "request",
            from |-> "peer", valid |-> TRUE]
mcEvents ==
    {request,
     [request EXCEPT !.id = "j", !.key = "l", !.task = "u"],
     [request EXCEPT !.id = "j", !.task = "u"],
     [request EXCEPT !.from = "own"],
     [request EXCEPT !.kind = "status"]}

vars == <<transport, syncVars, a2aVars, gwVars>>

Init == transport \in {"matrix", "a2a", "gateway"} /\ SyncInit /\ A2aInit /\ GatewayInit

Next ==
    \/ transport = "matrix" /\ SyncNext /\ UNCHANGED <<transport, a2aVars, gwVars>>
    \/ transport = "a2a" /\ A2aNext /\ UNCHANGED <<transport, syncVars, gwVars>>
    \/ transport = "gateway" /\ GatewayNext /\ UNCHANGED <<transport, syncVars, a2aVars>>

\* The step that the sync owner, or the A2A cleanup, takes when it can.
OwnerStep ==
    \/ transport = "matrix" /\ DuringBatch(SyncStep) /\ UNCHANGED a2aVars
    \/ transport = "a2a" /\ Upkeep /\ UNCHANGED syncVars

Spec ==
    /\ Init /\ [][Next]_vars
    /\ WF_<<syncVars, a2aVars>>(OwnerStep)
    /\ WF_syncVars(transport = "matrix" /\ DuringBatch(IngressStep))
    /\ WF_syncVars(transport = "matrix" /\ DuringBatch(DrainStep("retry")))

\* Every batch of the Matrix sync ends, completed or given up: the sync owner never
\* waits for a disposition that nobody will give.  And while a runtime stays up and its
\* cleanup alive, the A2A content of every exchange whose task has ended is removed,
\* also of one that was bound after its task had ended, whose projection was lost, or
\* that an earlier runtime had claimed (reconcile_terminals and the takeover in
\* claim_cleanup).  (The transport that a behaviour leaves alone has nothing to settle.)
TransportsSettle == []<>(BatchEnded /\ ContentGone)
====
