-------------------------- MODULE A2aExchange_proofs --------------------------
(***************************************************************************)
(* Proofs about A2aExchange for every set of peers, requests, connections  *)
(* and tasks, and for every bound.                                         *)
(***************************************************************************)
EXTENDS A2aExchange, FiniteSetTheorems, TLAPS

\* Zenon proves a step that names no other prover.
USE Zenon

Req == {normalize_send(w) : w \in Wire}
Hash == {r.hash : r \in Req} \cup {None}
Ctx == {r.ctx : r \in Req} \cup {None}
Text == {r.text : r \in Req} \cup {None}
To == {r.to : r \in Req} \cup {None}
ExState == {"none", "reserved", "submitted", "working", "acceptance_unknown", "completed", "failed", "canceled"}
TaskState == {"absent", "queued", "dispatched", "running", "completed", "failed", "cancelled"}
ExRow == [state : ExState, hash : Hash, ctx : Ctx, task : Task \cup {None}, ext : BOOLEAN, bytes : Nat,
          message : BOOLEAN, artifacts : BOOLEAN, over : {"no", "fresh", "old"},
          cleanup : {"pending", "claimed", "cleaned"}, owner : Nat]
TaskRow == [status : TaskState, key : Exchange \cup {None}, to : To, ctx : Ctx, text : Text, sent : BOOLEAN]
PeerState == {"none", "submitted", "working", "completed", "failed"}
FarRow == [state : PeerState, net : PeerState \cup {"request"}, got : Nat]
KeptRow == [state : ExState, task : Task \cup {None}, bytes : Nat]
Shown == {"none", "absent", "submitted", "working", "completed", "failed", "canceled"}
Stage == {"matches", "store", "identity", "submit", "bind", "snapshot", "answered"}
CallRow == [pc : Stage, req : Req, row : KeptRow, winner : {None}, status : Shown]
OutRow == [pc : {"idle", "sending", "accepted", "unknown", "retry", "polling", "done"}, attempt : Nat, polls : Nat]
RtRow == [phase : {"down", "starting", "up", "stopping", "refused"}, epoch : Nat,
          sweep : {"off", "measure", "ceiling", "idle", "clean"}, claims : SUBSET Exchange, events : SUBSET Task,
          cancel : SUBSET (Task \cup {None}), crashed : BOOLEAN]

\* The tables, the peer and the calls.
A2aTyped ==
    /\ ex \in [Exchange -> ExRow]
    /\ task \in [Task -> TaskRow]
    /\ far \in [Local -> FarRow]
    /\ hd \in [Handler -> {Idle} \cup CallRow]
    /\ spent \in [calls : Nat, faults : Nat]

\* A task belongs to one request, whose row is there and was made for the same text.
TasksSound ==
    /\ \A t \in InTask :
         /\ task[t].status = "absent" => task[t].key = None
         /\ task[t].key # None =>
              /\ task[t].key \in Exchange \ Local
              /\ ex[task[t].key].state # "none"
              /\ ex[task[t].key].hash[3] = task[t].text
    /\ \A t, u \in InTask : task[t].key = task[u].key /\ task[t].key # None => t = u

\* The row of a request names the task of that request, if any.
RowsSound ==
    \A x \in Exchange \ Local :
        ex[x].task # None => ex[x].state # "none" /\ ex[x].task \in InTask /\ task[ex[x].task].key = x

\* A call goes on with the row of its request, and from "bind" on with its task.
CallSound(c) ==
    c # Idle =>
        LET row == ex[c.req.key] IN
        /\ row.state # "none" /\ row.hash = c.req.hash
        /\ c.row.task # None => row.task = c.row.task
        /\ c.pc \in {"bind", "snapshot", "answered"} => Receipts(c.req.key) # {}
        /\ c.pc \in {"snapshot", "answered"} =>
             row.task \in InTask /\ task[row.task].to = c.req.to /\ task[row.task].ctx = c.req.ctx
        /\ c.pc = "answered" /\ c.status \in {"completed", "failed", "canceled"} =>
             c.status = project(task[row.task].status)
CallsSound == \A h \in Handler : CallSound(hd[h])

\* A request to the peer is on its way once, and only for a row that is there.
PeerSound ==
    \A l \in Local :
        /\ far[l].got <= 1
        /\ far[l].net = "request" => far[l].got = 0
        /\ ex[l].state = "none" => far[l].got = 0 /\ far[l].net # "request"

OnceInv == A2aTyped /\ TasksSound /\ RowsSound /\ CallsSound /\ PeerSound

-----------------------------------------------------------------------------
\* The end of the task of a row, projected or not.
Over(x) == ex[x].over # "no" \/ TaskEnded(ex[x].task)
\* What is counted against the ceiling.
RetainedSet == {x \in Exchange : Over(x) /\ ex[x].cleanup # "cleaned" /\ ex[x].bytes > 0}
PendingOver == \E x \in Exchange : Over(x) /\ ex[x].cleanup = "pending"

RuntimeTyped ==
    /\ inst \in [Epoch -> {"absent", "active", "stopping", "stopped"}]
    /\ out \in [Local -> OutRow]
    /\ rt \in RtRow
    /\ sock \in BOOLEAN

\* A row is claimed and cleaned only when it is over, by a runtime that was there.
ContentSound ==
    \A x \in Exchange :
        /\ ex[x].over = "no" => ex[x].cleanup = "pending"
        /\ ex[x].over # "no" => TaskEnded(ex[x].task)
        /\ ex[x].cleanup = "claimed" => ex[x].owner \in 1 .. rt.epoch
        /\ x \in Local => ex[x].task \in {None, x}
        /\ ex[x].state = "none" => ex[x].task = None /\ ex[x].over = "no" /\ ex[x].owner = 0

\* The rows of runtime_instances, when every runtime was stopped in good order.
RunsSound ==
    /\ rt.epoch <= Epochs
    /\ rt.phase # "down" => rt.epoch >= 1
    /\ rt.phase \in {"starting", "up", "refused"} => inst[rt.epoch] = "active"
    /\ ~rt.crashed => \A e \in 1 .. rt.epoch : inst[e] = "stopped" \/ (e = rt.epoch /\ rt.phase # "down")
    /\ ~rt.crashed /\ rt.phase \in {"down", "starting", "refused"} => ~sock

\* Nobody delivers without a process, and what is being delivered has not ended.
DispatchSound ==
    /\ rt.phase = "down" => out = [l \in Local |-> NoDispatch]
    /\ \A l \in Local : out[l].pc # "idle" => task[l].status \in {"dispatched", "running"}

\* Nobody calls before the listener is there.
HandlersOff == rt.phase \in {"down", "starting", "refused"} => \A h \in Handler : hd[h] = Idle

\* The first sweeps of a runtime: it cleans what it claims, and measures again before
\* it looks at the ceiling.
SweepSound ==
    rt.phase = "starting" =>
        /\ rt.sweep \in {"measure", "ceiling", "clean"}
        /\ rt.sweep # "clean" => rt.claims = {}
        /\ \A x \in Exchange : ex[x].cleanup = "claimed" /\ ex[x].owner = rt.epoch => x \in rt.claims
        /\ rt.sweep = "ceiling" /\ ~rt.crashed => PendingOver \/ Cardinality(RetainedSet) <= Low

RestartInv ==
    /\ RuntimeTyped /\ ContentSound /\ RunsSound /\ DispatchSound
    /\ HandlersOff /\ SweepSound /\ CleanStopsRestart

-----------------------------------------------------------------------------
(* One request, one task.                                                  *)

\* No row disappears, and a row stays with its hash and with its task.
RowsKeep ==
    \A x \in Exchange :
        /\ ex[x].state # "none" => ex'[x].state # "none"
        /\ x \notin Local =>
             /\ ex[x].state # "none" => ex'[x].hash = ex[x].hash
             /\ ex[x].task # None => ex'[x].task = ex[x].task
             /\ ex'[x].task # None => ex'[x].state # "none" /\ ex'[x].task \in Receipts(x)

\* An admitted task stays what it was admitted as, and an end is final.
AdmittedKeep ==
    \A t \in InTask : task[t].key # None =>
        /\ task'[t].key = task[t].key /\ task'[t].to = task[t].to
        /\ task'[t].ctx = task[t].ctx /\ task'[t].text = task[t].text
        /\ task[t].status \in Terminal => task'[t].status = task[t].status

\* No task is admitted either.
TasksKeep ==
    AdmittedKeep /\ \A t \in InTask : /\ task'[t].key = task[t].key
                                      /\ task'[t].status = "absent" => task[t].status = "absent"

\* What normalize_send makes of a body.
LEMMA ReqIn ==
    ASSUME NEW r \in Req
    PROVE  /\ r.key \in Exchange /\ r.key \notin Local /\ r.key # None
           /\ r.hash[3] = r.text
           /\ r.hash \in Hash /\ r.ctx \in Ctx /\ r.text \in Text /\ r.to \in To
<1>1. PICK w \in Wire : r = normalize_send(w)
    BY DEF Req
<1>2. r.key = <<w.peer, w.id>> /\ r.hash = <<w.profile, w.ctx, w.text>> /\ r.text = w.text
    BY <1>1 DEF normalize_send
<1>3. r.key \in Exchange /\ r.key \notin Local
    BY <1>2, A2aNames DEF Exchange
<1>4. r.hash[3] = r.text
    BY SMT, <1>2
<1> QED BY <1>3, <1>4, A2aNames DEF Hash, Ctx, Text, To

\* A connection is idle or serves a call.
LEMMA CallIn ==
    ASSUME A2aTyped, NEW h \in Handler, hd[h].pc # "idle"
    PROVE  hd[h] \in CallRow /\ hd[h] # Idle /\ hd[h].req \in Req
BY SMT DEF A2aTyped, Idle, CallRow

\* A call is not an idle connection.
LEMMA CallNotIdle ==
    ASSUME NEW c \in CallRow
    PROVE  c # Idle /\ c.pc # "idle" /\ c.req \in Req /\ c.pc \in Stage
BY SMT DEF CallRow, Stage, Idle

\* The next step of a call.
LEMMA CallSteps ==
    ASSUME NEW c \in CallRow, NEW pc \in Stage
    PROVE  LET d == [c EXCEPT !.pc = pc]
           IN  d \in CallRow /\ d.pc = pc /\ d.req = c.req /\ d.row = c.row /\ d.status = c.status
BY DEF CallRow

\* project shows an end only for an end.
LEMMA ProjectEnds ==
    ASSUME NEW s \in TaskState
    PROVE  /\ project(s) \in Shown
           /\ project(s) \in {"completed", "failed", "canceled"} => s \in Terminal
BY DEF TaskState, project, Terminal, Shown

\* What a call relies on stays true while rows and tasks are kept.
LEMMA CallKept ==
    ASSUME OnceInv, RowsKeep, AdmittedKeep,
           NEW c \in {Idle} \cup CallRow, CallSound(c)
    PROVE  CallSound(c)'
<1> SUFFICES ASSUME c # Idle PROVE CallSound(c)'
    BY DEF CallSound
<1> DEFINE key == c.req.key
<1>1. c \in CallRow /\ c.req \in Req
    BY CallNotIdle
<1>2. key \in Exchange /\ key \notin Local /\ key # None
    BY <1>1, ReqIn
<1>3. /\ ex[key].state # "none" /\ ex[key].hash = c.req.hash
      /\ c.row.task # None => ex[key].task = c.row.task
      /\ c.pc \in {"bind", "snapshot", "answered"} => Receipts(key) # {}
      /\ c.pc \in {"snapshot", "answered"} =>
           /\ ex[key].task \in InTask
           /\ task[ex[key].task].to = c.req.to /\ task[ex[key].task].ctx = c.req.ctx
      /\ c.pc = "answered" /\ c.status \in {"completed", "failed", "canceled"} =>
           c.status = project(task[ex[key].task].status)
    BY DEF CallSound
<1>4. /\ ex'[key].state # "none" /\ ex'[key].hash = c.req.hash
      /\ ex[key].task # None => ex'[key].task = ex[key].task
    BY <1>2, <1>3 DEF RowsKeep
<1>5. Receipts(key) # {} => Receipts(key)' # {}
    BY ZenonT(60), <1>2 DEF Receipts, AdmittedKeep
<1>6. ASSUME ex[key].task \in InTask
      PROVE  /\ ex'[key].task = ex[key].task
             /\ task'[ex[key].task].to = task[ex[key].task].to
             /\ task'[ex[key].task].ctx = task[ex[key].task].ctx
             /\ task[ex[key].task].status \in Terminal => task'[ex[key].task].status = task[ex[key].task].status
    <2>1. ex[key].task # None /\ task[ex[key].task].key = key
        BY <1>2, <1>6, A2aNames DEF OnceInv, RowsSound, Task
    <2> QED BY <2>1, <1>2, <1>4, <1>6 DEF AdmittedKeep
<1>7. c.pc = "answered" /\ c.status \in {"completed", "failed", "canceled"} =>
          c.status = project(task'[ex'[key].task].status)
    <2> SUFFICES ASSUME c.pc = "answered", c.status \in {"completed", "failed", "canceled"}
                 PROVE  c.status = project(task'[ex'[key].task].status)
        OBVIOUS
    <2>1. ex[key].task \in InTask /\ c.status = project(task[ex[key].task].status)
        BY <1>3
    <2>2. task[ex[key].task].status \in TaskState
        BY <2>1 DEF OnceInv, A2aTyped, TaskRow, Task
    <2>3. task[ex[key].task].status \in Terminal
        BY <2>1, <2>2, ProjectEnds
    <2> QED BY <2>1, <2>3, <1>6
<1> QED BY <1>3, <1>4, <1>5, <1>6, <1>7 DEF CallSound

\* The admitted tasks and the rows that name them, when no task is admitted.
LEMMA TablesKept ==
    ASSUME OnceInv, A2aTyped', RowsKeep, TasksKeep
    PROVE  TasksSound' /\ RowsSound'
<1>1. TasksSound'
    <2>1. ASSUME NEW t \in InTask
          PROVE  /\ task'[t].status = "absent" => task'[t].key = None
                 /\ task'[t].key # None =>
                      /\ task'[t].key \in Exchange \ Local
                      /\ ex'[task'[t].key].state # "none"
                      /\ ex'[task'[t].key].hash[3] = task'[t].text
        BY SMT DEF OnceInv, TasksSound, TasksKeep, AdmittedKeep, RowsKeep
    <2>2. \A t, u \in InTask : task'[t].key = task'[u].key /\ task'[t].key # None => t = u
        BY SMT DEF OnceInv, TasksSound, TasksKeep
    <2> QED BY <2>1, <2>2 DEF TasksSound
<1>2. RowsSound'
    <2> SUFFICES ASSUME NEW x \in Exchange \ Local, ex'[x].task # None
                 PROVE  ex'[x].state # "none" /\ ex'[x].task \in InTask /\ task'[ex'[x].task].key = x
        BY DEF RowsSound
    <2> QED BY DEF RowsKeep, TasksKeep, Receipts
<1> QED BY <1>1, <1>2

\* Rows that are kept leave the peer's side alone.
LEMMA PeerKept ==
    ASSUME OnceInv, RowsKeep, far' = far
    PROVE  PeerSound'
BY DEF OnceInv, PeerSound, RowsKeep, Exchange

\* A step that keeps rows and tasks, and moves no call other than to a sound one.
LEMMA OnceKept ==
    ASSUME OnceInv, A2aTyped', RowsKeep, TasksKeep, PeerSound',
           \A h \in Handler : hd'[h] = hd[h] \/ hd'[h] = Idle
    PROVE  OnceInv'
<1>1. TasksSound' /\ RowsSound'
    BY TablesKept
<1>2. CallsSound'
    <2> SUFFICES ASSUME NEW h \in Handler PROVE CallSound(hd[h])'
        BY DEF CallsSound
    <2>1. CASE hd'[h] = Idle
        BY <2>1 DEF CallSound
    <2>2. CASE hd'[h] = hd[h]
        <3>1. PICK c \in {Idle} \cup CallRow : c = hd[h]
            BY DEF OnceInv, A2aTyped
        <3>2. CallSound(c)
            BY <3>1 DEF OnceInv, CallsSound
        <3>3. CallSound(c)'
            BY <3>2, CallKept DEF TasksKeep
        <3> QED BY <3>1, <3>3, <2>2 DEF CallSound
    <2> QED BY <2>1, <2>2
<1> QED BY <1>1, <1>2 DEF OnceInv

\* A call that goes on to a sound stage.
LEMMA CallMoves ==
    ASSUME OnceInv, RowsKeep, AdmittedKeep, TasksSound', RowsSound', far' = far,
           ex' \in [Exchange -> ExRow], task' \in [Task -> TaskRow], spent' \in [calls : Nat, faults : Nat],
           NEW h \in Handler, NEW c \in {Idle} \cup CallRow,
           hd' = [hd EXCEPT ![h] = c], CallSound(c)'
    PROVE  OnceInv'
<1>1. A2aTyped'
    BY DEF OnceInv, A2aTyped
<1>2. CallsSound'
    <2> SUFFICES ASSUME NEW g \in Handler PROVE CallSound(hd[g])'
        BY DEF CallsSound
    <2>1. CASE g = h
        <3>1. hd'[g] = c
            BY <2>1 DEF OnceInv, A2aTyped
        <3> QED BY <3>1 DEF CallSound
    <2>2. CASE g # h
        <3>1. PICK d \in {Idle} \cup CallRow : d = hd[g]
            BY DEF OnceInv, A2aTyped
        <3>2. CallSound(d)
            BY <3>1 DEF OnceInv, CallsSound
        <3>3. CallSound(d)'
            BY <3>2, CallKept
        <3>4. hd'[g] = d
            BY <2>2, <3>1 DEF OnceInv, A2aTyped
        <3> QED BY <3>4, <3>3 DEF CallSound
    <2> QED BY <2>1, <2>2
<1>3. PeerSound'
    BY PeerKept
<1> QED BY <1>1, <1>2, <1>3 DEF OnceInv

\* Tables that do not change are kept.
LEMMA TablesSame ==
    ASSUME OnceInv
    PROVE  /\ ex' = ex => RowsKeep
           /\ task' = task => TasksKeep /\ AdmittedKeep
<1>1. ASSUME ex' = ex PROVE RowsKeep
    BY <1>1 DEF OnceInv, RowsSound, RowsKeep, Receipts
<1>2. ASSUME task' = task PROVE TasksKeep /\ AdmittedKeep
    BY <1>2 DEF TasksKeep, AdmittedKeep
<1> QED BY <1>1, <1>2

\* The tables are typed, sound and kept by a step that leaves them alone.
LEMMA TablesAlone ==
    ASSUME OnceInv, ex' = ex, task' = task
    PROVE  /\ RowsKeep /\ TasksKeep /\ AdmittedKeep /\ TasksSound' /\ RowsSound'
           /\ ex' \in [Exchange -> ExRow] /\ task' \in [Task -> TaskRow]
<1>1. TasksSound' /\ RowsSound'
    BY DEF OnceInv, TasksSound, RowsSound
<1> QED BY <1>1, TablesSame DEF OnceInv, A2aTyped

\* A call that goes from one stage to the next and keeps what it read.
LEMMA CallGoesOn ==
    ASSUME OnceInv, NEW h \in Handler, hd[h].pc # "idle", NEW pc \in Stage,
           ex' = ex, task' = task, far' = far, spent' = spent, Step(h, pc),
           pc = "bind" => Receipts(hd[h].req.key) # {}, pc \notin {"snapshot", "answered"}
    PROVE  OnceInv'
<1>1. PICK c \in CallRow : c = hd[h]
    BY CallIn DEF OnceInv
<1>2. PICK d \in CallRow : d = [c EXCEPT !.pc = pc]
    BY <1>1, CallSteps
<1>3. d.pc = pc /\ d.req = c.req /\ d.row = c.row /\ d.status = c.status
    BY <1>2, CallSteps
<1>4. hd' = [hd EXCEPT ![h] = d]
    BY <1>1, <1>2 DEF Step, Goes
<1>5. CallSound(c) /\ c # Idle /\ d # Idle
    BY <1>1, CallNotIdle DEF OnceInv, CallsSound
<1>6. CallSound(d)
    BY <1>5, <1>3, <1>1 DEF CallSound
<1>7. CallSound(d)'
    BY <1>6 DEF CallSound, Receipts
<1>8. spent' \in [calls : Nat, faults : Nat]
    BY DEF OnceInv, A2aTyped
<1> HIDE DEF CallSound
<1> QED BY <1>4, <1>7, <1>8, TablesAlone, CallMoves

\* A connection that is free again.
LEMMA CallEnds ==
    ASSUME OnceInv, NEW h \in Handler, Goes(h, Idle),
           ex' = ex, task' = task, far' = far, spent' \in [calls : Nat, faults : Nat]
    PROVE  OnceInv'
<1>1. CallSound(Idle)'
    BY DEF CallSound
<1> QED BY <1>1, TablesAlone, CallMoves DEF Goes

\* The bounded counters.
LEMMA Counted ==
    ASSUME OnceInv
    PROVE  /\ Call => spent' \in [calls : Nat, faults : Nat]
           /\ A2aFault => spent' \in [calls : Nat, faults : Nat]
           /\ spent' = spent => spent' \in [calls : Nat, faults : Nat]
           /\ spent' = [spent EXCEPT !.calls = @ + DispatchCost] => spent' \in [calls : Nat, faults : Nat]
<1> USE A2aAssumption DEF OnceInv, A2aTyped
<1>1. spent.calls \in Nat /\ spent.faults \in Nat
    OBVIOUS
<1>2. ASSUME Call PROVE spent' \in [calls : Nat, faults : Nat]
    BY SMTT(30), <1>1, <1>2 DEF Call
<1>3. ASSUME A2aFault PROVE spent' \in [calls : Nat, faults : Nat]
    BY SMTT(30), <1>1, <1>3 DEF A2aFault
<1>4. ASSUME spent' = [spent EXCEPT !.calls = @ + DispatchCost] PROVE spent' \in [calls : Nat, faults : Nat]
    BY SMTT(30), <1>1, <1>4
<1> QED BY <1>2, <1>3, <1>4

\* A reservation: the row of the request, found or inserted.
LEMMA ReceiveKeeps ==
    ASSUME OnceInv, NEW h \in Handler, NEW w \in Wire, Receive(h, w)
    PROVE  OnceInv'
<1> DEFINE req == normalize_send(w)
           row == reserve_inbound(req)
           accepted == authorized_request(w) /\ well_formed(w)
           call == [pc |-> "matches", req |-> req, row |-> Kept(row), winner |-> None, status |-> "none"]
<1>1. req \in Req
    BY DEF Req
<1>2. PICK r \in Req : r = req
    BY <1>1
<1>3. r.key \in Exchange /\ r.key \notin Local /\ r.key # None /\ r.hash \in Hash /\ r.ctx \in Ctx
    BY ReqIn
<1>4. /\ ex' = IF accepted THEN [ex EXCEPT ![r.key] = row] ELSE ex
      /\ hd' = IF accepted /\ row.hash = r.hash THEN [hd EXCEPT ![h] = call] ELSE hd
      /\ task' = task /\ far' = far /\ Call
    BY <1>2 DEF Receive
<1>5. spent' \in [calls : Nat, faults : Nat]
    BY <1>4, Counted
<1>6. row \in ExRow /\ row.state # "none" /\ (ex[r.key].state # "none" => row = ex[r.key])
      /\ (ex[r.key].state = "none" => row.task = None)
    <2>1. CASE ex[r.key].state # "none"
        BY <2>1, <1>2, <1>3 DEF reserve_inbound, OnceInv, A2aTyped
    <2>2. CASE ex[r.key].state = "none"
        <3>1. row = [NoRow EXCEPT !.state = "reserved", !.hash = r.hash, !.ctx = r.ctx]
            BY <2>2, <1>2 DEF reserve_inbound
        <3>2. row = [state |-> "reserved", hash |-> r.hash, ctx |-> r.ctx, task |-> None, ext |-> FALSE,
                     bytes |-> 0, message |-> FALSE, artifacts |-> FALSE,
                     over |-> "no", cleanup |-> "pending", owner |-> 0]
            BY ZenonT(60), <3>1 DEF NoRow
        <3> HIDE DEF row
        <3> QED BY <3>2, <1>3, <2>2 DEF ExRow, ExState
    <2> QED BY <2>1, <2>2
<1> HIDE DEF row, req, accepted
<1>7. CASE ~accepted
    <2>1. ex' = ex /\ hd' = hd
        BY <1>4, <1>7
    <2> QED BY <2>1, <1>4, <1>5, TablesAlone, PeerKept, OnceKept DEF OnceInv, A2aTyped
<1>8. CASE accepted
    <2>1. ex' = [ex EXCEPT ![r.key] = row] /\ ex' \in [Exchange -> ExRow]
        BY <1>4, <1>6, <1>8, <1>3 DEF OnceInv, A2aTyped
    <2>2. RowsKeep
        <3> SUFFICES ASSUME NEW x \in Exchange
                     PROVE  /\ ex[x].state # "none" => ex'[x].state # "none"
                            /\ x \notin Local =>
                                 /\ ex[x].state # "none" => ex'[x].hash = ex[x].hash
                                 /\ ex[x].task # None => ex'[x].task = ex[x].task
                                 /\ ex'[x].task # None => ex'[x].state # "none" /\ ex'[x].task \in Receipts(x)
            BY DEF RowsKeep
        <3>1. ex[x].state # "none" => ex'[x] = ex[x]
            BY <2>1, <1>6 DEF OnceInv, A2aTyped
        <3>2. ex[x].state = "none" => ex'[x] = ex[x] \/ ex'[x].task = None
            BY <2>1, <1>6 DEF OnceInv, A2aTyped
        <3> QED BY <3>1, <3>2 DEF OnceInv, RowsSound, Receipts
    <2>3. TasksKeep /\ AdmittedKeep /\ task' \in [Task -> TaskRow]
        BY <1>4, TablesSame DEF OnceInv, A2aTyped
    <2>4. CASE row.hash # r.hash
        <3>1. hd' = hd
            BY <1>4, <2>4
        <3> QED BY <3>1, <2>1, <2>2, <2>3, <1>4, <1>5, PeerKept, OnceKept DEF OnceInv, A2aTyped
    <2>5. CASE row.hash = r.hash
        <3>1. Kept(row) \in KeptRow /\ Kept(row).task = row.task
            BY <1>6 DEF Kept, KeptRow, ExRow
        <3>2. call = [pc |-> "matches", req |-> r, row |-> Kept(row), winner |-> None, status |-> "none"]
            BY <1>2
        <3>3. PICK c \in CallRow : c = call
            BY <3>1, <3>2 DEF CallRow, Stage, Shown
        <3>4. c.pc = "matches" /\ c.req = r /\ c.row = Kept(row)
            BY <3>2, <3>3
        <3>5. ex'[r.key] = row
            BY <2>1, <1>3 DEF OnceInv, A2aTyped
        <3>6. CallSound(c)'
            BY <3>4, <3>5, <3>1, <1>6, <2>5 DEF CallSound
        <3>7. hd' = [hd EXCEPT ![h] = c]
            BY <1>4, <1>8, <2>5, <3>3
        <3>8. A2aTyped'
            BY <3>7, <2>1, <2>3, <1>4, <1>5 DEF OnceInv, A2aTyped
        <3>9. TasksSound' /\ RowsSound'
            BY <3>8, <2>2, <2>3, TablesKept
        <3> QED BY <3>6, <3>7, <3>9, <2>1, <2>2, <2>3, <1>4, <1>5, CallMoves
    <2> QED BY <2>4, <2>5
<1> QED BY <1>7, <1>8

\* message_matches.
LEMMA MatchesKeeps ==
    ASSUME OnceInv, NEW h \in Handler, Matches(h)
    PROVE  OnceInv'
<1>1. hd[h].pc # "idle" /\ ex' = ex /\ task' = task /\ far' = far /\ spent' = spent
    BY DEF Matches, At
<1>2. CASE Step(h, "identity")
    BY <1>1, <1>2, CallGoesOn DEF Stage
<1>3. CASE Step(h, "store")
    BY <1>1, <1>3, CallGoesOn DEF Stage
<1>4. CASE Answers(h)
    BY <1>1, <1>4, CallEnds, Counted DEF Answers
<1> QED BY <1>2, <1>3, <1>4 DEF Matches

\* admitted_task: a receipt leads to "bind".
LEMMA IdentityKeeps ==
    ASSUME OnceInv, NEW h \in Handler, Identity(h)
    PROVE  OnceInv'
<1>1. hd[h].pc # "idle" /\ ex' = ex /\ task' = task /\ far' = far /\ spent' = spent
    BY DEF Identity, At
<1>2. CASE Receipts(hd[h].req.key) = {}
    <2>1. Step(h, "submit")
        BY <1>2 DEF Identity
    <2> QED BY <1>1, <2>1, CallGoesOn DEF Stage
<1>3. CASE Receipts(hd[h].req.key) # {}
    <2>1. Step(h, "bind")
        BY <1>3 DEF Identity
    <2> QED BY <1>1, <1>3, <2>1, CallGoesOn DEF Stage
<1> QED BY <1>2, <1>3

\* store_message changes neither the task nor the hash of the row.
LEMMA StoreMessageKeeps ==
    ASSUME OnceInv, NEW h \in Handler, StoreMessage(h)
    PROVE  OnceInv'
<1>1. hd[h].pc # "idle" /\ task' = task /\ far' = far /\ spent' = spent
    BY DEF StoreMessage, At
<1>2. PICK c \in CallRow : c = hd[h]
    BY <1>1, CallIn DEF OnceInv
<1>3. PICK key \in Exchange : key = c.req.key
    BY CallNotIdle, ReqIn
<1>4. PICK bytes \in {1, ex[key].bytes} : ex' = [ex EXCEPT ![key].message = TRUE, ![key].bytes = bytes]
    BY <1>2, <1>3 DEF StoreMessage
<1>5. ex[key] \in ExRow /\ bytes \in Nat
    BY SMT, <1>4 DEF OnceInv, A2aTyped, ExRow
<1>6. PICK r : r = [ex[key] EXCEPT !.message = TRUE, !.bytes = bytes]
    OBVIOUS
<1>7. /\ r \in ExRow
      /\ r.state = ex[key].state /\ r.task = ex[key].task /\ r.hash = ex[key].hash
    BY <1>5, <1>6 DEF ExRow
<1>8. ex' = [ex EXCEPT ![key] = r] /\ ex' \in [Exchange -> ExRow]
    BY <1>4, <1>6, <1>7 DEF OnceInv, A2aTyped
<1>9. RowsKeep
    BY <1>7, <1>8 DEF OnceInv, A2aTyped, RowsKeep, RowsSound, Receipts
<1>10. PICK believed \in {1, ex[key].bytes} :
          hd' = [hd EXCEPT ![h] = [c EXCEPT !.pc = "identity", !.row.bytes = believed]]
    BY <1>2, <1>3 DEF StoreMessage, Goes
<1>11. PICK d : d = [c EXCEPT !.pc = "identity", !.row.bytes = believed]
    OBVIOUS
<1>12. /\ d \in CallRow
       /\ d.pc = "identity" /\ d.req = c.req /\ d.row.task = c.row.task
    <2>1. PICK k : k = [c.row EXCEPT !.bytes = believed]
        OBVIOUS
    <2>2. c.row \in KeptRow /\ believed \in Nat
        BY SMT, <1>5 DEF CallRow, ExRow
    <2>3. k \in KeptRow /\ k.task = c.row.task
        BY <2>1, <2>2 DEF KeptRow
    <2>4. d = [c EXCEPT !.pc = "identity", !.row = k]
        BY <1>11, <2>1, Zenon
    <2> QED BY <2>3, <2>4 DEF CallRow, Stage
<1>13. CallSound(c) /\ c # Idle
    BY <1>2, CallNotIdle DEF OnceInv, CallsSound
<1>14. CallSound(d)'
    BY <1>3, <1>7, <1>8, <1>12, <1>13 DEF CallSound, OnceInv, A2aTyped
<1>15. A2aTyped'
    BY <1>1, <1>8, <1>10, <1>11, <1>12 DEF OnceInv, A2aTyped
<1>16. TasksSound' /\ RowsSound'
    BY <1>1, <1>9, <1>15, TablesSame, TablesKept
<1> QED BY <1>1, <1>8, <1>9, <1>10, <1>11, <1>12, <1>14, <1>15, <1>16, TablesSame, CallMoves DEF A2aTyped

\* admit_task: a task for a request that has none, or the task that is there.
LEMMA AdmitKeeps ==
    ASSUME OnceInv, NEW h \in Handler, hd[h].pc # "idle", NEW sent \in BOOLEAN, AdmitTask(h, sent), ex' = ex
    PROVE  /\ task' \in [Task -> TaskRow] /\ AdmittedKeep /\ RowsKeep /\ TasksSound' /\ RowsSound'
           /\ \E t \in InTask : task'[t].key = hd[h].req.key
<1>1. PICK c \in CallRow : c = hd[h]
    BY CallIn DEF OnceInv
<1>2. PICK key \in Exchange : key = c.req.key /\ key \notin Local /\ key # None
    BY CallNotIdle, ReqIn
<1>3. ex[key].state # "none" /\ ex[key].hash = c.req.hash
    BY <1>1, <1>2, CallNotIdle DEF OnceInv, CallsSound, CallSound
<1>4. CASE Receipts(key) # {}
    <2>1. task' = task
        BY <1>1, <1>2, <1>4 DEF AdmitTask
    <2>2. \E t \in InTask : task'[t].key = key
        BY <2>1, <1>4 DEF Receipts
    <2> QED BY <2>1, <2>2, <1>1, <1>2, TablesAlone
<1>5. CASE Receipts(key) = {}
    <2>1. Inserted(h, sent)
        BY <1>1, <1>2, <1>5 DEF AdmitTask
    <2>2. PICK f \in InTask : f = Fresh /\ task[f].status = "absent"
        BY <2>1 DEF Inserted, Fresh
    <2>3. task[f].key = None
        BY <2>2 DEF OnceInv, TasksSound
    <2>4. PICK n : n = [status |-> "queued", key |-> key, to |-> c.req.to, ctx |-> c.req.ctx,
                        text |-> c.req.text, sent |-> sent]
        OBVIOUS
    <2>5. task' = [task EXCEPT ![f] = n]
        BY <2>1, <2>2, <2>4, <1>1, <1>2 DEF Inserted, NewTask
    <2>6. n \in TaskRow /\ n.status = "queued" /\ n.key = key /\ n.text = c.req.text
        BY <2>4, CallNotIdle, ReqIn DEF TaskRow, TaskState
    <2>7. task' \in [Task -> TaskRow] /\ task'[f] = n /\ \A t \in InTask : t # f => task'[t] = task[t]
        BY <2>5, <2>6 DEF OnceInv, A2aTyped, Task
    <2>8. AdmittedKeep
        BY <2>3, <2>7 DEF AdmittedKeep
    <2>9. TasksSound'
        <3>1. ASSUME NEW t \in InTask
              PROVE  /\ task'[t].status = "absent" => task'[t].key = None
                     /\ task'[t].key # None =>
                          /\ task'[t].key \in Exchange \ Local
                          /\ ex'[task'[t].key].state # "none"
                          /\ ex'[task'[t].key].hash[3] = task'[t].text
            <4>1. CASE t = f
                <5>1. c.req.hash[3] = c.req.text
                    BY CallNotIdle, ReqIn
                <5> QED BY <4>1, <5>1, <2>6, <2>7, <1>2, <1>3
            <4>2. CASE t # f
                BY <4>2, <2>7 DEF OnceInv, TasksSound
            <4> QED BY <4>1, <4>2
        <3>2. \A t, u \in InTask : task'[t].key = task'[u].key /\ task'[t].key # None => t = u
            BY SMT, <1>5, <2>6, <2>7 DEF OnceInv, TasksSound, Receipts
        <3> QED BY <3>1, <3>2 DEF TasksSound
    <2>10. RowsSound'
        BY <2>3, <2>7, A2aNames DEF OnceInv, RowsSound
    <2>11. \E t \in InTask : task'[t].key = key
        BY <2>6, <2>7
    <2> QED BY <2>7, <2>8, <2>9, <2>10, <2>11, <1>1, <1>2, TablesSame
<1> QED BY <1>4, <1>5

\* submit_inner.
LEMMA SubmitKeeps ==
    ASSUME OnceInv, NEW h \in Handler, Submit(h)
    PROVE  OnceInv'
<1>1. /\ hd[h].pc = "submit" /\ hd[h].pc # "idle" /\ AdmitTask(h, TRUE) /\ Step(h, "bind")
      /\ ex' = ex /\ far' = far /\ spent' = spent
    BY DEF Submit, At
<1>2. PICK c \in CallRow : c = hd[h]
    BY <1>1, CallIn DEF OnceInv
<1>3. PICK d \in CallRow : d = [c EXCEPT !.pc = "bind"]
    BY CallSteps DEF Stage
<1>4. d.pc = "bind" /\ d.req = c.req /\ d.row = c.row
    BY <1>3, CallSteps DEF Stage
<1>5. /\ task' \in [Task -> TaskRow] /\ AdmittedKeep /\ RowsKeep /\ TasksSound' /\ RowsSound'
      /\ \E t \in InTask : task'[t].key = d.req.key
    BY <1>1, <1>2, <1>4, AdmitKeeps
<1>6. CallSound(c) /\ c # Idle
    BY <1>2, CallNotIdle DEF OnceInv, CallsSound
<1>7. CallSound(d)'
    BY <1>1, <1>4, <1>5, <1>6 DEF CallSound, Receipts
<1>8. hd' = [hd EXCEPT ![h] = d]
    BY <1>1, <1>2, <1>3 DEF Step, Goes
<1> QED BY <1>1, <1>5, <1>7, <1>8, Counted, CallMoves DEF OnceInv, A2aTyped

\* A submission whose connection is gone after the commit.
LEMMA SubmitDroppedKeeps ==
    ASSUME OnceInv, NEW h \in Handler, SubmitDropped(h)
    PROVE  OnceInv'
<1>1. /\ hd[h].pc # "idle" /\ AdmitTask(h, FALSE) /\ hd' = [hd EXCEPT ![h] = Idle]
      /\ ex' = ex /\ far' = far /\ spent' \in [calls : Nat, faults : Nat]
    BY Counted DEF SubmitDropped, At, Goes
<1>2. task' \in [Task -> TaskRow] /\ AdmittedKeep /\ RowsKeep /\ TasksSound' /\ RowsSound'
    BY <1>1, AdmitKeeps
<1>3. CallSound(Idle)'
    BY DEF CallSound
<1> QED BY <1>1, <1>2, <1>3, CallMoves DEF OnceInv, A2aTyped

\* bind_task binds a row to the task of its own request, and a call goes on only with
\* a row that is bound to the task it would have created.
LEMMA BindKeeps ==
    ASSUME OnceInv, NEW h \in Handler, Bind(h)
    PROVE  OnceInv'
<1>1. hd[h].pc = "bind" /\ hd[h].pc # "idle" /\ task' = task /\ far' = far /\ spent' = spent
    BY DEF Bind, At
<1>2. PICK c \in CallRow : c = hd[h]
    BY <1>1, CallIn DEF OnceInv
<1>3. PICK key \in Exchange : key = c.req.key /\ key \notin Local /\ key # None
    BY CallNotIdle, ReqIn
<1>4. CallSound(c) /\ c # Idle
    BY <1>2, CallNotIdle DEF OnceInv, CallsSound
<1>5. PICK winner \in Receipts(key) : winner = CHOOSE t \in Receipts(key) : TRUE
    BY <1>1, <1>2, <1>3, <1>4 DEF CallSound
<1>6. winner \in InTask /\ winner # None /\ winner \in Task
    BY <1>5, A2aNames DEF Receipts, Task
<1>7. PICK row : row = IF c.row.state = "submitted" THEN ex[key] ELSE Bound(ex[key], winner, c.row.bytes)
    OBVIOUS
<1>8. PICK mine : mine = IF c.row.state = "submitted" THEN c.row.task ELSE row.task
    OBVIOUS
<1>9. /\ ex' = IF WinnerMatches(h, winner) THEN [ex EXCEPT ![key] = row] ELSE ex
      /\ IF WinnerMatches(h, winner) /\ mine = winner THEN Step(h, "snapshot") ELSE Answers(h)
    BY <1>2, <1>3, <1>5, <1>7, <1>8 DEF Bind
<1>10. ex[key] \in ExRow /\ ex[key].state # "none" /\ ex[key].hash = c.req.hash
    BY <1>3, <1>4 DEF OnceInv, A2aTyped, CallSound
<1>11. /\ row \in ExRow /\ row.state # "none" /\ row.hash = ex[key].hash
       /\ row.task = ex[key].task \/ (ex[key].task = None /\ row.task = winner)
    <2>1. CASE row = ex[key]
        BY <2>1, <1>10
    <2>2. CASE /\ ex[key].task = None
               /\ row = [ex[key] EXCEPT !.task = winner, !.ext = TRUE, !.state = "submitted", !.bytes = c.row.bytes]
        <3>1. c.row.bytes \in Nat
            BY DEF CallRow, KeptRow
        <3> QED BY <2>2, <3>1, <1>6, <1>10 DEF ExRow, ExState
    <2> QED BY <2>1, <2>2, <1>7 DEF Bound
<1>12. ex' \in [Exchange -> ExRow]
    BY <1>9, <1>11 DEF OnceInv, A2aTyped
<1>13. RowsKeep
    <2>1. CASE ex' = ex
        BY <2>1, TablesSame
    <2>2. CASE ex' = [ex EXCEPT ![key] = row]
        BY SMT, <2>2, <1>5, <1>6, <1>10, <1>11 DEF OnceInv, A2aTyped, RowsKeep, RowsSound, Receipts
    <2> QED BY <1>9, <2>1, <2>2
<1>14. TasksKeep /\ AdmittedKeep /\ task' \in [Task -> TaskRow]
    BY <1>1, TablesSame DEF OnceInv, A2aTyped
<1>15. ASSUME A2aTyped' PROVE TasksSound' /\ RowsSound'
    BY <1>13, <1>14, <1>15, TablesKept
<1>16. CASE WinnerMatches(h, winner) /\ mine = winner
    <2>1. PICK d \in CallRow : d = [c EXCEPT !.pc = "snapshot"]
        BY CallSteps DEF Stage
    <2>2. d.pc = "snapshot" /\ d.req = c.req /\ d.row = c.row
        BY <2>1, CallSteps DEF Stage
    <2>3. hd' = [hd EXCEPT ![h] = d]
        BY <2>1, <1>2, <1>9, <1>16 DEF Step, Goes
    <2>4. ex' = [ex EXCEPT ![key] = row] /\ ex'[key] = row
        BY <1>9, <1>16 DEF OnceInv, A2aTyped
    <2>5. row.task = winner
        <3>1. CASE c.row.state = "submitted"
            BY <3>1, <1>3, <1>4, <1>6, <1>7, <1>8, <1>16 DEF CallSound
        <3>2. CASE c.row.state # "submitted"
            BY <3>2, <1>8, <1>16
        <3> QED BY <3>1, <3>2
    <2>6. task[winner].to = c.req.to /\ task[winner].ctx = c.req.ctx
        BY <1>2, <1>16 DEF WinnerMatches
    <2>7. c.row.task # None => row.task = c.row.task
        BY <1>3, <1>4, <1>11 DEF CallSound
    <2>8. Receipts(key)' # {}
        BY <1>1, <1>5 DEF Receipts
    <2>9. CallSound(d)'
        BY <2>2, <2>4, <2>5, <2>6, <2>7, <2>8, <1>1, <1>3, <1>6, <1>10, <1>11 DEF CallSound
    <2>10. A2aTyped'
        BY <2>3, <1>1, <1>12, <1>14 DEF OnceInv, A2aTyped
    <2> QED BY <2>3, <2>9, <2>10, <1>1, <1>12, <1>13, <1>14, <1>15, Counted, CallMoves
<1>17. CASE ~(WinnerMatches(h, winner) /\ mine = winner)
    <2>1. hd' = [hd EXCEPT ![h] = Idle]
        BY <1>9, <1>17 DEF Answers, Goes
    <2>2. CallSound(Idle)'
        BY DEF CallSound
    <2>3. A2aTyped'
        BY <2>1, <1>1, <1>12, <1>14 DEF OnceInv, A2aTyped
    <2> QED BY <2>1, <2>2, <2>3, <1>1, <1>12, <1>13, <1>14, <1>15, Counted, CallMoves
<1> QED BY <1>16, <1>17

\* The snapshot shows the state of the task that the row names.
LEMMA SnapshotKeeps ==
    ASSUME OnceInv, NEW h \in Handler, Snapshot(h)
    PROVE  OnceInv'
<1>1. hd[h].pc = "snapshot" /\ hd[h].pc # "idle" /\ ex' = ex /\ task' = task /\ far' = far /\ spent' = spent
    BY DEF Snapshot, At
<1>2. PICK c \in CallRow : c = hd[h]
    BY <1>1, CallIn DEF OnceInv
<1>3. CallSound(c) /\ c # Idle
    BY <1>2, CallNotIdle DEF OnceInv, CallsSound
<1>4. PICK status : status = project(task[ex[c.req.key].task].status)
    OBVIOUS
<1>5. ex[c.req.key].task \in InTask
    BY <1>1, <1>2, <1>3 DEF CallSound
<1>6. task[ex[c.req.key].task].status \in TaskState
    BY <1>5 DEF OnceInv, A2aTyped, TaskRow, Task
<1>7. status \in Shown
    BY <1>4, <1>6, ProjectEnds
<1>8. PICK d : d = [c EXCEPT !.pc = "answered", !.status = status]
    OBVIOUS
<1>9. d \in CallRow /\ d.pc = "answered" /\ d.status = status /\ d.req = c.req /\ d.row = c.row
    BY <1>7, <1>8 DEF CallRow, Stage
<1>10. hd' = [hd EXCEPT ![h] = d]
    BY <1>2, <1>4, <1>8 DEF Snapshot, Goes
<1>11. CallSound(d)
    BY <1>1, <1>2, <1>3, <1>4, <1>9 DEF CallSound
<1>12. CallSound(d)'
    BY <1>1, <1>11 DEF CallSound, Receipts
<1> QED BY <1>1, <1>9, <1>10, <1>12, TablesAlone, Counted, CallMoves

\* Every step of a connection.
LEMMA ServeKeeps ==
    ASSUME OnceInv, NEW h \in Handler, Serve(h)
    PROVE  OnceInv'
<1>1. CASE spent.calls < Calls /\ \E w \in Offered[spent.calls + 1][h] : Receive(h, w)
    <2>1. PICK w \in Offered[spent.calls + 1][h] : Receive(h, w)
        BY <1>1
    <2>2. spent.calls + 1 \in 1 .. Calls
        BY SMTT(30), <1>1, A2aAssumption DEF OnceInv, A2aTyped
    <2>3. w \in Wire
        BY SMT, <2>2 DEF Wire
    <2> QED BY <2>1, <2>3, ReceiveKeeps
<1>2. CASE Matches(h) \/ StoreMessage(h) \/ Identity(h)
    BY <1>2, MatchesKeeps, StoreMessageKeeps, IdentityKeeps
<1>3. CASE Submit(h) \/ SubmitDropped(h) \/ Bind(h) \/ Snapshot(h)
    BY <1>3, SubmitKeeps, SubmitDroppedKeeps, BindKeeps, SnapshotKeeps
<1>4. CASE SubmitBusy(h) \/ Reply(h) \/ HandlerGone(h)
    BY <1>4, CallEnds, Counted DEF SubmitBusy, Reply, HandlerGone, Answers
<1> QED BY <1>1, <1>2, <1>3, <1>4 DEF Serve

\* An event of a task changes its status and nothing else of it.
LEMMA StatusWritten ==
    ASSUME A2aTyped, NEW t \in Task, NEW s \in TaskState, task' = [task EXCEPT ![t].status = s]
    PROVE  /\ task' \in [Task -> TaskRow]
           /\ \A u \in Task : u # t => task'[u] = task[u]
           /\ task'[t].status = s /\ task'[t].key = task[t].key /\ task'[t].to = task[t].to
           /\ task'[t].ctx = task[t].ctx /\ task'[t].text = task[t].text
<1>1. PICK r : r = [task[t] EXCEPT !.status = s]
    OBVIOUS
<1>2. task[t] \in TaskRow
    BY DEF A2aTyped
<1>3. /\ r \in TaskRow
      /\ r.status = s /\ r.key = task[t].key /\ r.to = task[t].to /\ r.ctx = task[t].ctx /\ r.text = task[t].text
    BY <1>1, <1>2 DEF TaskRow
<1>4. task' = [task EXCEPT ![t] = r]
    BY <1>1
<1> QED BY <1>3, <1>4 DEF A2aTyped

\* A task that has not ended gets an event.
LEMMA StatusKeeps ==
    ASSUME OnceInv, NEW t \in Task, NEW s \in TaskState \ {"absent"}, task[t].status \notin Terminal,
           task' = [task EXCEPT ![t].status = s],
           ex' = ex, far' = far, hd' = hd, spent' \in [calls : Nat, faults : Nat]
    PROVE  OnceInv'
<1>1. /\ task' \in [Task -> TaskRow]
      /\ \A u \in Task : u # t => task'[u] = task[u]
      /\ task'[t].status = s /\ task'[t].key = task[t].key /\ task'[t].to = task[t].to
      /\ task'[t].ctx = task[t].ctx /\ task'[t].text = task[t].text
    BY StatusWritten DEF OnceInv
<1>2. TasksKeep
    BY <1>1 DEF TasksKeep, AdmittedKeep, Task
<1>3. A2aTyped'
    BY <1>1 DEF OnceInv, A2aTyped
<1> QED BY <1>2, <1>3, TablesSame, PeerKept, OnceKept

\* A step that is about one local task.
LEMMA LocalKeeps ==
    ASSUME OnceInv, NEW l \in Local, hd' = hd,
           ex' \in [Exchange -> ExRow], task' \in [Task -> TaskRow], far' \in [Local -> FarRow],
           spent' \in [calls : Nat, faults : Nat],
           \A x \in Exchange : x # l => ex'[x] = ex[x],
           ex[l].state # "none" => ex'[l].state # "none",
           \A t \in Task : t # l => task'[t] = task[t],
           \A k \in Local : k # l => far'[k] = far[k],
           far'[l].got <= 1, far'[l].net = "request" => far'[l].got = 0,
           ex'[l].state = "none" => far'[l].got = 0 /\ far'[l].net # "request"
    PROVE  OnceInv'
<1>1. A2aTyped'
    BY DEF OnceInv, A2aTyped
<1>2. TasksKeep
    BY A2aAssumption DEF TasksKeep, AdmittedKeep, Task
<1>3. RowsKeep
    <2>1. \A x \in Exchange : x \notin Local => ex'[x] = ex[x]
        OBVIOUS
    <2>2. \A x \in Exchange : ex[x].state # "none" => ex'[x].state # "none"
        OBVIOUS
    <2> QED BY <2>1, <2>2 DEF OnceInv, RowsSound, RowsKeep, Receipts
<1>4. PeerSound'
    <2> SUFFICES ASSUME NEW k \in Local
                 PROVE  /\ far'[k].got <= 1
                        /\ far'[k].net = "request" => far'[k].got = 0
                        /\ ex'[k].state = "none" => far'[k].got = 0 /\ far'[k].net # "request"
        BY DEF PeerSound
    <2>1. CASE k = l
        BY <2>1
    <2>2. CASE k # l
        BY <2>2 DEF OnceInv, PeerSound, Exchange
    <2> QED BY <2>1, <2>2
<1> QED BY <1>1, <1>2, <1>3, <1>4, OnceKept

\* The peer's side of one local task, and the write to its far.net.
LEMMA FarIn ==
    ASSUME OnceInv, NEW l \in Local
    PROVE  /\ far \in [Local -> FarRow] /\ far[l] \in FarRow /\ far[l].got \in Nat
           /\ far[l].got <= 1 /\ (far[l].net = "request" => far[l].got = 0)
           /\ ex[l].state = "none" => far[l].got = 0 /\ far[l].net # "request"
           /\ l \in Exchange /\ l \in Task /\ l \notin InTask
           /\ ex \in [Exchange -> ExRow] /\ ex[l] \in ExRow
           /\ task \in [Task -> TaskRow] /\ task[l] \in TaskRow
BY A2aAssumption DEF OnceInv, A2aTyped, PeerSound, FarRow, Exchange, Task

\* What is on the wire.
LEMMA NetWritten ==
    ASSUME OnceInv, NEW l \in Local, NEW n \in PeerState \cup {"request"}, far' = [far EXCEPT ![l].net = n]
    PROVE  /\ far' \in [Local -> FarRow] /\ far'[l].net = n /\ far'[l].got = far[l].got
           /\ \A k \in Local : k # l => far'[k] = far[k]
<1>1. PICK r : r = [far[l] EXCEPT !.net = n]
    OBVIOUS
<1>2. r \in FarRow /\ r.net = n /\ r.got = far[l].got
    BY <1>1, FarIn DEF FarRow
<1>3. far' = [far EXCEPT ![l] = r]
    BY <1>1
<1> QED BY <1>2, <1>3, FarIn

\* A delivery: the row is there before the request is on its way.
LEMMA DeliverKeeps ==
    ASSUME OnceInv, NEW l \in Local, Deliver(l)
    PROVE  OnceInv'
<1>1. /\ task' = [task EXCEPT ![l].status = "dispatched"] /\ hd' = hd
      /\ ex' = [ex EXCEPT ![l] = reserve_outbound(l)]
      /\ far' = IF Reserved(ex[l]) = "sending" THEN [far EXCEPT ![l].net = "request"] ELSE far
    BY DEF Deliver
<1>2. spent' \in [calls : Nat, faults : Nat]
    BY Counted DEF Deliver
<1>3. /\ task' \in [Task -> TaskRow]
      /\ \A t \in Task : t # l => task'[t] = task[t]
    BY <1>1, FarIn, StatusWritten DEF OnceInv, TaskState
<1>4. PICK row : row = reserve_outbound(l)
    OBVIOUS
<1>5. row \in ExRow /\ row.state # "none"
    <2>1. CASE ex[l].state # "none"
        BY <2>1, <1>4, FarIn DEF reserve_outbound
    <2>2. CASE ex[l].state = "none"
        <3>1. row = [state |-> "reserved", hash |-> None, ctx |-> None, task |-> l, ext |-> FALSE,
                     bytes |-> 0, message |-> FALSE, artifacts |-> FALSE,
                     over |-> "no", cleanup |-> "pending", owner |-> 0]
            BY <2>2, <1>4 DEF reserve_outbound, NoRow
        <3>2. l \in Task
            BY FarIn
        <3> QED BY <3>1, <3>2 DEF ExRow, ExState, Hash, Ctx
    <2> QED BY <2>1, <2>2
<1>6. /\ ex' \in [Exchange -> ExRow] /\ ex'[l] = row
      /\ \A x \in Exchange : x # l => ex'[x] = ex[x]
    BY <1>1, <1>4, <1>5, FarIn
<1>7. CASE ex[l].state = "none"
    <2>1. far' = [far EXCEPT ![l].net = "request"] /\ far[l].got = 0
        BY <1>1, <1>7, FarIn DEF Reserved
    <2>2. far' \in [Local -> FarRow] /\ far'[l].got = 0 /\ \A k \in Local : k # l => far'[k] = far[k]
        BY <2>1, NetWritten
    <2> QED BY SMT, <2>2, <1>1, <1>2, <1>3, <1>5, <1>6, LocalKeeps
<1>8. CASE ex[l].state # "none"
    <2>1. far' = far
        BY <1>1, <1>8 DEF Reserved
    <2> QED BY ZenonT(60), <2>1, <1>1, <1>2, <1>3, <1>5, <1>6, <1>8, FarIn, LocalKeeps
<1> QED BY <1>7, <1>8

\* The worker's verdict on a delivery.
LEMMA EventOf ==
    ASSUME OnceInv, NEW l \in Local,
           \/ task' = task
           \/ \E s \in TaskState : task' = [task EXCEPT ![l].status = s]
    PROVE  /\ task' \in [Task -> TaskRow]
           /\ \A t \in Task : t # l => task'[t] = task[t]
<1>1. CASE task' = task
    BY <1>1, FarIn
<1>2. CASE \E s \in TaskState : task' = [task EXCEPT ![l].status = s]
    BY <1>2, FarIn, StatusWritten DEF OnceInv
<1> QED BY <1>1, <1>2

\* A row keeps what the cleanup looks at.
SameContent(row, new) ==
    /\ new.task = row.task /\ new.over = row.over /\ new.cleanup = row.cleanup
    /\ new.owner = row.owner /\ new.bytes = row.bytes

\* acknowledge_outbound changes the state of the row only.
LEMMA RowAcknowledged ==
    ASSUME NEW row \in ExRow, NEW state \in {"submitted", "working"}
    PROVE  LET new == acknowledge_outbound(row, state)
           IN  new \in ExRow /\ (row.state # "none" => new.state # "none") /\ SameContent(row, new)
<1>0. PICK new : new = acknowledge_outbound(row, state)
    OBVIOUS
<1>1. CASE new = row
    BY <1>0, <1>1 DEF SameContent
<1>2. CASE new = [row EXCEPT !.state = state, !.ext = TRUE]
    <2>1. new \in ExRow /\ new.state = state
        BY <1>2 DEF ExRow, ExState
    <2>2. SameContent(row, new)
        BY <1>2 DEF ExRow, SameContent
    <2> QED BY <1>0, <2>1, <2>2
<1> QED BY <1>0, <1>1, <1>2 DEF acknowledge_outbound

\* So does mark_acceptance_unknown.
LEMMA RowUnknown ==
    ASSUME NEW row \in ExRow
    PROVE  LET new == mark_acceptance_unknown(row)
           IN  new \in ExRow /\ (row.state # "none" => new.state # "none") /\ SameContent(row, new)
<1>0. PICK new : new = mark_acceptance_unknown(row)
    OBVIOUS
<1>1. CASE new = row
    BY <1>0, <1>1 DEF SameContent
<1>2. CASE new = [row EXCEPT !.state = "acceptance_unknown"]
    <2>1. new \in ExRow /\ new.state # "none"
        BY <1>2 DEF ExRow, ExState
    <2>2. SameContent(row, new)
        BY <1>2 DEF ExRow, SameContent
    <2> QED BY <1>0, <2>1, <2>2
<1> QED BY <1>0, <1>1, <1>2 DEF mark_acceptance_unknown

\* store_artifacts.
LEMMA RowPolled ==
    ASSUME NEW row \in ExRow
    PROVE  LET new == [row EXCEPT !.artifacts = TRUE, !.bytes = row.bytes + 1]
           IN  /\ new \in ExRow /\ new.state = row.state
               /\ new.task = row.task /\ new.over = row.over /\ new.cleanup = row.cleanup /\ new.owner = row.owner
<1>1. PICK b \in Nat : b = row.bytes + 1
    BY SMT DEF ExRow
<1>2. PICK new : new = [row EXCEPT !.artifacts = TRUE, !.bytes = b]
    OBVIOUS
<1>3. /\ new \in ExRow /\ new.state = row.state
      /\ new.task = row.task /\ new.over = row.over /\ new.cleanup = row.cleanup /\ new.owner = row.owner
    BY <1>2 DEF ExRow
<1> QED BY <1>1, <1>2, <1>3

\* Every step of a delivery, and of the peer.
LEMMA DelegateKeeps ==
    ASSUME OnceInv, NEW l \in Local, Delegate(l)
    PROVE  OnceInv'
<1> USE FarIn
<1>1. CASE Deliver(l)
    BY <1>1, DeliverKeeps
<1>2. CASE SendAnswered(l)
    <2>1. /\ hd' = hd /\ spent' = spent
          /\ far' = [far EXCEPT ![l].net = "none"] /\ far[l].net # "request"
          /\ \/ task' = task
             \/ \E s \in TaskState : task' = [task EXCEPT ![l].status = s]
          /\ \/ ex' = ex
             \/ \E state \in {"submitted", "working"} : ex' = [ex EXCEPT ![l] = acknowledge_outbound(@, state)]
        BY <1>2 DEF SendAnswered, NotAccepted, EndsAs, TaskState
    <2>2. /\ ex' \in [Exchange -> ExRow]
          /\ ex[l].state # "none" => ex'[l].state # "none"
          /\ \A x \in Exchange : x # l => ex'[x] = ex[x]
        <3>1. CASE ex' = ex
            BY <3>1
        <3>2. CASE \E state \in {"submitted", "working"} : ex' = [ex EXCEPT ![l] = acknowledge_outbound(@, state)]
            BY SMT, <3>2, RowAcknowledged
        <3> QED BY <2>1, <3>1, <3>2
    <2>3. ex'[l].state = "none" => far[l].got = 0
        BY <2>2
    <2>4. /\ far' \in [Local -> FarRow] /\ far'[l].net = "none" /\ far'[l].got = far[l].got
          /\ \A k \in Local : k # l => far'[k] = far[k]
        BY <2>1, NetWritten DEF PeerState
    <2>5. spent' \in [calls : Nat, faults : Nat]
        BY <2>1, Counted
    <2> QED BY SMT, <2>1, <2>2, <2>3, <2>4, <2>5, EventOf, LocalKeeps
<1>3. CASE SendUnauthorized(l)
    <2>1. /\ hd' = hd /\ spent' \in [calls : Nat, faults : Nat] /\ ex' = ex
          /\ far' = [far EXCEPT ![l].net = "none"]
          /\ \/ task' = task
             \/ \E s \in TaskState : task' = [task EXCEPT ![l].status = s]
        BY <1>3, Counted DEF SendUnauthorized, NotAccepted, EndsAs, TaskState
    <2>2. /\ far' \in [Local -> FarRow] /\ far'[l].net = "none" /\ far'[l].got = far[l].got
          /\ \A k \in Local : k # l => far'[k] = far[k]
        BY <2>1, NetWritten DEF PeerState
    <2> QED BY ZenonT(60), <2>1, <2>2, EventOf, LocalKeeps
<1>4. CASE SendFails(l)
    <2>1. /\ hd' = hd /\ spent' \in [calls : Nat, faults : Nat] /\ far' = far /\ task' = task
          /\ ex' = [ex EXCEPT ![l] = mark_acceptance_unknown(@)]
        BY <1>4, Counted DEF SendFails
    <2>2. /\ ex' \in [Exchange -> ExRow]
          /\ ex[l].state # "none" => ex'[l].state # "none"
          /\ \A x \in Exchange : x # l => ex'[x] = ex[x]
        BY <2>1, RowUnknown
    <2>3. ex'[l].state = "none" => far[l].got = 0 /\ far[l].net # "request"
        BY <2>2
    <2> QED BY <2>1, <2>2, <2>3, LocalKeeps
<1>5. CASE Execute(l) \/ Completes(l) \/ DispatchDropped(l)
    <2>1. /\ hd' = hd /\ spent' \in [calls : Nat, faults : Nat] /\ far' = far /\ ex' = ex
          /\ \E s \in TaskState : task' = [task EXCEPT ![l].status = s]
        BY <1>5, Counted DEF Execute, Completes, DispatchDropped, EndsAs, TaskState
    <2> QED BY <2>1, EventOf, LocalKeeps
<1>6. CASE Poll(l)
    <2>1. /\ hd' = hd /\ spent' = spent /\ far' = far
          /\ \/ task' = task
             \/ \E s \in TaskState : task' = [task EXCEPT ![l].status = s]
          /\ \/ ex' = ex
             \/ ex' = [ex EXCEPT ![l].artifacts = TRUE, ![l].bytes = @ + 1]
        BY <1>6 DEF Poll, EndsAs, TaskState
    <2>2. /\ ex' \in [Exchange -> ExRow]
          /\ ex[l].state # "none" => ex'[l].state # "none"
          /\ \A x \in Exchange : x # l => ex'[x] = ex[x]
        <3>1. CASE ex' = ex
            BY <3>1
        <3>2. CASE ex' = [ex EXCEPT ![l].artifacts = TRUE, ![l].bytes = @ + 1]
            <4>1. PICK r : r = [ex[l] EXCEPT !.artifacts = TRUE, !.bytes = ex[l].bytes + 1]
                OBVIOUS
            <4>2. r \in ExRow /\ r.state = ex[l].state
                BY <4>1, RowPolled
            <4>3. ex' = [ex EXCEPT ![l] = r]
                BY <3>2, <4>1, Zenon
            <4> QED BY <4>2, <4>3
        <3> QED BY <2>1, <3>1, <3>2
    <2>3. ex'[l].state = "none" => far[l].got = 0 /\ far[l].net # "request"
        BY <2>2
    <2>4. spent' \in [calls : Nat, faults : Nat]
        BY <2>1, Counted
    <2> QED BY <2>1, <2>2, <2>3, <2>4, EventOf, LocalKeeps
<1>7. CASE PeerReceives(l)
    <2>1. PICK state \in {"submitted", "working", "completed", "failed"} :
             far' = [far EXCEPT ![l] = [state |-> state, net |-> state, got |-> @.got + 1]]
        BY <1>7 DEF PeerReceives
    <2>2. PICK r : r = [state |-> state, net |-> state, got |-> far[l].got + 1]
        OBVIOUS
    <2>3. r \in FarRow /\ r.got = far[l].got + 1 /\ r.net # "request"
        BY SMT, <2>2 DEF FarRow, PeerState
    <2>4. far[l].net = "request" /\ far[l].got = 0 /\ ex[l].state # "none"
        BY <1>7 DEF PeerReceives
    <2>5. /\ far' \in [Local -> FarRow] /\ far'[l] = r
          /\ \A k \in Local : k # l => far'[k] = far[k]
        BY <2>1, <2>2, <2>3
    <2>6. hd' = hd /\ ex' = ex /\ task' = task /\ spent' \in [calls : Nat, faults : Nat]
        BY <1>7, Counted DEF PeerReceives
    <2> QED BY SMT, <2>3, <2>4, <2>5, <2>6, LocalKeeps
<1>8. CASE PeerWorks(l)
    <2>1. PICK state \in PeerState : far' = [far EXCEPT ![l].state = state]
        BY <1>8 DEF PeerWorks, PeerState
    <2>2. PICK r : r = [far[l] EXCEPT !.state = state]
        OBVIOUS
    <2>3. r \in FarRow /\ r.got = far[l].got /\ r.net = far[l].net
        BY <2>2 DEF FarRow
    <2>4. /\ far' \in [Local -> FarRow] /\ far'[l] = r
          /\ \A k \in Local : k # l => far'[k] = far[k]
        BY <2>1, <2>2, <2>3
    <2>5. hd' = hd /\ ex' = ex /\ task' = task /\ spent' \in [calls : Nat, faults : Nat]
        BY <1>8, Counted DEF PeerWorks
    <2> QED BY <2>3, <2>4, <2>5, LocalKeeps
<1> QED BY <1>1, <1>2, <1>3, <1>4, <1>5, <1>6, <1>7, <1>8 DEF Delegate

\* A step that writes to no table, whatever connections it ends.
LEMMA OnceSame ==
    ASSUME OnceInv, ex' = ex, task' = task, far' = far, spent' \in [calls : Nat, faults : Nat],
           hd' = hd \/ hd' = [h \in Handler |-> Idle]
    PROVE  OnceInv'
<1>1. hd' \in [Handler -> {Idle} \cup CallRow] /\ \A h \in Handler : hd'[h] = hd[h] \/ hd'[h] = Idle
    BY DEF OnceInv, A2aTyped
<1>2. A2aTyped'
    BY <1>1 DEF OnceInv, A2aTyped
<1> QED BY <1>1, <1>2, TablesSame, PeerKept, OnceKept

\* A step that writes to rows, and leaves them with their hash and their task.
LEMMA OnceRows ==
    ASSUME OnceInv, task' = task, far' = far, hd' = hd, spent' \in [calls : Nat, faults : Nat],
           ex' \in [Exchange -> ExRow],
           \A x \in Exchange : /\ ex[x].state # "none" => ex'[x].state # "none"
                               /\ ex'[x].hash = ex[x].hash /\ ex'[x].task = ex[x].task
    PROVE  OnceInv'
<1>1. A2aTyped'
    BY DEF OnceInv, A2aTyped
<1>2. RowsKeep
    BY DEF RowsKeep, OnceInv, RowsSound, Receipts
<1> QED BY <1>1, <1>2, TablesSame, PeerKept, OnceKept

\* The end of a task in the row of its exchange.
LEMMA RowStamped ==
    ASSUME NEW row \in ExRow, NEW status \in Terminal
    PROVE  LET new == Stamp(row, status)
           IN  /\ new \in ExRow /\ new.state # "none" /\ new.over = "fresh" /\ new.hash = row.hash
               /\ new.task = row.task /\ new.cleanup = row.cleanup /\ new.owner = row.owner /\ new.bytes = row.bytes
<1>1. PICK state : state = IF status = "cancelled" THEN "canceled" ELSE status
    OBVIOUS
<1>2. state \in ExState \ {"none"}
    BY <1>1 DEF ExState, Terminal
<1>3. PICK new : new = [row EXCEPT !.state = state, !.over = "fresh"]
    OBVIOUS
<1>4. /\ new \in ExRow /\ new.state # "none" /\ new.over = "fresh" /\ new.hash = row.hash
      /\ new.task = row.task /\ new.cleanup = row.cleanup /\ new.owner = row.owner /\ new.bytes = row.bytes
    BY <1>2, <1>3 DEF ExRow
<1> QED BY <1>1, <1>3, <1>4 DEF Stamp

\* What a projection leaves of a row.
Stamped(row, new) ==
    /\ row.state # "none" => new.state # "none"
    /\ new.hash = row.hash /\ new.task = row.task
    /\ new.cleanup = row.cleanup /\ new.owner = row.owner /\ new.bytes = row.bytes
    /\ row.over # "no" => new.over = row.over

\* reconcile_terminals stamps exactly the rows whose task has ended.
LEMMA ReconciledIn ==
    ASSUME A2aTyped
    PROVE  /\ Reconciled \in [Exchange -> ExRow]
           /\ \A x \in Exchange : /\ Stamped(ex[x], Reconciled[x])
                                  /\ Reconciled[x].over # "no" <=> Over(x)
<1>1. ASSUME NEW x \in Exchange
      PROVE  /\ Reconciled[x] \in ExRow /\ Stamped(ex[x], Reconciled[x])
             /\ Reconciled[x].over # "no" <=> Over(x)
    <2>1. ex[x] \in ExRow
        BY DEF A2aTyped
    <2>2. CASE ex[x].over = "no" /\ TaskEnded(ex[x].task)
        <3>1. Reconciled[x] = Stamp(ex[x], task[ex[x].task].status) /\ task[ex[x].task].status \in Terminal
            BY <2>2 DEF Reconciled, TaskEnded
        <3>2. PICK new : new = Reconciled[x]
            BY ZenonT(60)
        <3>3. /\ new \in ExRow /\ new.state # "none" /\ new.over = "fresh" /\ new.hash = ex[x].hash
              /\ new.task = ex[x].task /\ new.cleanup = ex[x].cleanup /\ new.owner = ex[x].owner
              /\ new.bytes = ex[x].bytes
            BY SMT, <3>1, <3>2, <2>1, RowStamped
        <3> QED BY <3>2, <3>3, <2>2 DEF Stamped, Over
    <2>3. CASE ~(ex[x].over = "no" /\ TaskEnded(ex[x].task))
        <3>1. Reconciled[x] = ex[x]
            BY <2>3 DEF Reconciled
        <3> QED BY <3>1, <2>1, <2>3 DEF Stamped, Over
    <2> QED BY <2>2, <2>3
<1>2. Reconciled = [x \in Exchange |-> Reconciled[x]]
    BY DEF Reconciled
<1> QED BY <1>1, <1>2

\* project_one_terminal stamps some of them.
LEMMA ProjectedIn ==
    ASSUME A2aTyped, NEW t \in Task
    PROVE  /\ Projected(t) \in [Exchange -> ExRow]
           /\ \A x \in Exchange : Stamped(ex[x], Projected(t)[x]) /\ (Projected(t)[x].over # "no" => Over(x))
<1>1. ASSUME NEW x \in Exchange
      PROVE  /\ Projected(t)[x] \in ExRow /\ Stamped(ex[x], Projected(t)[x])
             /\ Projected(t)[x].over # "no" => Over(x)
    <2>1. ex[x] \in ExRow
        BY DEF A2aTyped
    <2>2. CASE ex[x].task = t /\ ex[x].over = "no" /\ TaskEnded(t)
        <3>1. Projected(t)[x] = Stamp(ex[x], task[t].status) /\ task[t].status \in Terminal
            BY <2>2 DEF Projected, TaskEnded
        <3>2. PICK new : new = Projected(t)[x]
            OBVIOUS
        <3>3. /\ new \in ExRow /\ new.state # "none" /\ new.over = "fresh" /\ new.hash = ex[x].hash
              /\ new.task = ex[x].task /\ new.cleanup = ex[x].cleanup /\ new.owner = ex[x].owner
              /\ new.bytes = ex[x].bytes
            BY SMT, <3>1, <3>2, <2>1, RowStamped
        <3> QED BY <3>2, <3>3, <2>2 DEF Stamped, Over
    <2>3. CASE ~(ex[x].task = t /\ ex[x].over = "no" /\ TaskEnded(t))
        <3>1. Projected(t)[x] = ex[x]
            BY <2>3 DEF Projected
        <3> QED BY <3>1, <2>1 DEF Stamped, Over
    <2> QED BY <2>2, <2>3
<1>2. Projected(t) = [x \in Exchange |-> Projected(t)[x]]
    BY DEF Projected
<1> QED BY <1>1, <1>2

\* What a sweep may claim, and what its claims make of the rows.
Claimable(pressure) == {x \in Exchange : CleanupClaimable(Reconciled[x], pressure)}
Claims(won, pressure, done) ==
    /\ won \in SUBSET Claimable(pressure)
    /\ rt' = [rt EXCEPT !.claims = won, !.sweep = IF won # {} THEN "clean" ELSE done]
    /\ ex' \in [Exchange -> ExRow]
    /\ \A x \in Exchange :
         /\ ex'[x].state = Reconciled[x].state /\ ex'[x].hash = ex[x].hash /\ ex'[x].task = ex[x].task
         /\ ex'[x].over = Reconciled[x].over /\ ex'[x].bytes = ex[x].bytes
         /\ x \in won => ex'[x].cleanup = "claimed" /\ ex'[x].owner = rt.epoch
         /\ x \notin won => ex'[x].cleanup = ex[x].cleanup /\ ex'[x].owner = ex[x].owner
    /\ \/ inst[rt.epoch] # "active" \/ Cardinality(won) = Batch
       \/ Cardinality(won) = Cardinality(Claimable(pressure))

\* claim_cleanup.
LEMMA ClaimIn ==
    ASSUME A2aTyped, RuntimeTyped, NEW pressure, NEW done, Claim(pressure, done)
    PROVE  \E won : Claims(won, pressure, done)
<1> DEFINE rows == Claimable(pressure)
<1>1. PICK claims \in SUBSET rows :
         /\ Cardinality(claims) = IF Cardinality(rows) < Batch THEN Cardinality(rows) ELSE Batch
         /\ LET won == IF inst[rt.epoch] = "active" THEN claims ELSE {}
            IN /\ ex' = [x \in Exchange |->
                           IF x \in won
                           THEN [Reconciled[x] EXCEPT !.cleanup = "claimed", !.owner = rt.epoch]
                           ELSE Reconciled[x]]
               /\ rt' = [rt EXCEPT !.claims = won, !.sweep = IF won # {} THEN "clean" ELSE done]
    BY DEF Claim, Claimable
<1>2. PICK won \in SUBSET rows : won = IF inst[rt.epoch] = "active" THEN claims ELSE {}
    OBVIOUS
<1>3. /\ rt' = [rt EXCEPT !.claims = won, !.sweep = IF won # {} THEN "clean" ELSE done]
      /\ \/ inst[rt.epoch] # "active" \/ Cardinality(won) = Batch \/ Cardinality(won) = Cardinality(rows)
    BY <1>1, <1>2
<1>4. ex' = [x \in Exchange |-> IF x \in won
                               THEN [Reconciled[x] EXCEPT !.cleanup = "claimed", !.owner = rt.epoch]
                               ELSE Reconciled[x]]
    BY <1>1, <1>2
<1>5. rt.epoch \in Nat
    BY DEF RuntimeTyped, RtRow
<1>6. ASSUME NEW x \in Exchange
      PROVE  /\ ex'[x] \in ExRow
             /\ ex'[x].state = Reconciled[x].state /\ ex'[x].hash = ex[x].hash /\ ex'[x].task = ex[x].task
             /\ ex'[x].over = Reconciled[x].over /\ ex'[x].bytes = ex[x].bytes
             /\ x \in won => ex'[x].cleanup = "claimed" /\ ex'[x].owner = rt.epoch
             /\ x \notin won => ex'[x].cleanup = ex[x].cleanup /\ ex'[x].owner = ex[x].owner
    <2>1. PICK row \in ExRow : row = Reconciled[x]
        BY ReconciledIn
    <2>2. /\ row.hash = ex[x].hash /\ row.task = ex[x].task /\ row.bytes = ex[x].bytes
          /\ row.cleanup = ex[x].cleanup /\ row.owner = ex[x].owner
        BY <2>1, ReconciledIn DEF Stamped
    <2>3. CASE x \in won
        <3>1. PICK new : new = [row EXCEPT !.cleanup = "claimed", !.owner = rt.epoch]
            OBVIOUS
        <3>2. /\ new \in ExRow /\ new.state = row.state /\ new.hash = row.hash /\ new.task = row.task
              /\ new.over = row.over /\ new.bytes = row.bytes /\ new.cleanup = "claimed" /\ new.owner = rt.epoch
            BY <3>1, <1>5 DEF ExRow
        <3>3. ex'[x] = new
            BY <3>1, <2>1, <2>3, <1>4
        <3> QED BY <2>1, <2>2, <2>3, <3>2, <3>3
    <2>4. CASE x \notin won
        <3>1. ex'[x] = row
            BY <2>1, <2>4, <1>4
        <3> QED BY <2>1, <2>2, <2>4, <3>1
    <2> QED BY <2>3, <2>4
<1>7. ex' \in [Exchange -> ExRow]
    BY <1>4, <1>6
<1>8. Claims(won, pressure, done)
    BY <1>3, <1>6, <1>7 DEF Claims
<1> QED BY <1>8

\* A claim leaves every row with its hash and its task.
LEMMA ClaimKeeps ==
    ASSUME OnceInv, RuntimeTyped, NEW pressure, NEW done, Claim(pressure, done),
           UNCHANGED <<task, hd, far, spent>>
    PROVE  OnceInv'
<1>1. /\ ex' \in [Exchange -> ExRow]
      /\ \A x \in Exchange : /\ ex'[x].state = Reconciled[x].state
                             /\ ex'[x].hash = ex[x].hash /\ ex'[x].task = ex[x].task
    BY ClaimIn DEF OnceInv, Claims
<1>2. \A x \in Exchange : ex[x].state # "none" => ex'[x].state # "none"
    BY <1>1, ReconciledIn DEF OnceInv, Stamped
<1> QED BY <1>1, <1>2, Counted, OnceRows

\* So does a sweep as a whole, and the check after the first ones.
LEMMA CleanupKeeps ==
    ASSUME OnceInv, RuntimeTyped, Cleanup \/ Listen
    PROVE  OnceInv'
<1>1. CASE StartMeasure
    <2>1. UNCHANGED <<task, hd, far, spent>>
        BY <1>1 DEF StartMeasure
    <2>2. CASE Claim(TRUE, "ceiling")
        BY <2>1, <2>2, ClaimKeeps
    <2>3. CASE ex' = Reconciled
        BY <2>1, <2>3, ReconciledIn, Counted, OnceRows DEF OnceInv, Stamped
    <2> QED BY <1>1, <2>2, <2>3 DEF StartMeasure
<1>2. CASE Tick
    <2>1. Claim(Retained(Reconciled) > Ceiling, "idle") /\ UNCHANGED <<task, hd, far, spent>>
        BY <1>2 DEF Tick
    <2> QED BY <2>1, ClaimKeeps
<1>3. ASSUME NEW x \in Exchange, Clean(x) PROVE OnceInv'
    <2>1. UNCHANGED <<task, hd, far, spent>>
        BY <1>3 DEF Clean
    <2>2. CASE ex' = ex
        BY <2>1, <2>2, Counted, OnceSame
    <2>3. CASE ex' = [ex EXCEPT ![x] = [@ EXCEPT !.message = FALSE, !.artifacts = FALSE,
                                                 !.cleanup = "cleaned", !.bytes = 0]]
        <3>1. PICK r : r = [ex[x] EXCEPT !.message = FALSE, !.artifacts = FALSE, !.cleanup = "cleaned", !.bytes = 0]
            OBVIOUS
        <3>0. ex[x] \in ExRow
            BY DEF OnceInv, A2aTyped
        <3>2. r \in ExRow /\ r.state = ex[x].state /\ r.hash = ex[x].hash /\ r.task = ex[x].task
            BY <3>0, <3>1 DEF ExRow
        <3>3. ex' = [ex EXCEPT ![x] = r]
            BY <2>3, <3>1
        <3>4. /\ ex' \in [Exchange -> ExRow]
              /\ \A y \in Exchange : ex'[y] = IF y = x THEN r ELSE ex[y]
            BY <3>2, <3>3 DEF OnceInv, A2aTyped
        <3> QED BY <2>1, <3>2, <3>4, Counted, OnceRows
    <2> QED BY <1>3, <2>2, <2>3 DEF Clean
<1>4. CASE Listen
    BY <1>4, ReconciledIn, Counted, OnceRows DEF Listen, OnceInv, Stamped
<1> QED BY <1>1, <1>2, <1>3, <1>4 DEF Cleanup

\* The recovery of admissions marks queued tasks as sent.
LEMMA BeginKeeps ==
    ASSUME OnceInv, Begin
    PROVE  OnceInv'
<1>1. UNCHANGED <<ex, hd, far, spent>>
      /\ task' = [t \in Task |-> IF t \in InTask /\ task[t].status = "queued"
                                 THEN [task[t] EXCEPT !.sent = TRUE] ELSE task[t]]
    BY DEF Begin
<1>2. ASSUME NEW t \in Task
      PROVE  /\ task'[t] \in TaskRow
             /\ task'[t].status = task[t].status /\ task'[t].key = task[t].key /\ task'[t].to = task[t].to
             /\ task'[t].ctx = task[t].ctx /\ task'[t].text = task[t].text
    <2>1. task[t] \in TaskRow
        BY DEF OnceInv, A2aTyped
    <2>2. CASE task'[t] = [task[t] EXCEPT !.sent = TRUE]
        BY <2>1, <2>2 DEF TaskRow
    <2>3. CASE task'[t] = task[t]
        BY <2>1, <2>3
    <2> QED BY <1>1, <2>2, <2>3
<1>3. task' \in [Task -> TaskRow]
    BY <1>1, <1>2
<1>4. TasksKeep
    BY <1>2 DEF TasksKeep, AdmittedKeep, Task
<1>5. A2aTyped'
    BY <1>1, <1>3 DEF OnceInv, A2aTyped
<1> QED BY <1>1, <1>4, <1>5, TablesSame, PeerKept, OnceKept

\* OnceInv holds before the first start.
LEMMA OnceStarts == A2aInit => OnceInv
<1> SUFFICES ASSUME A2aInit PROVE OnceInv
    OBVIOUS
<1>1. NoRow \in ExRow /\ NoRow.state = "none" /\ NoRow.task = None
    BY DEF NoRow, ExRow, ExState, Hash, Ctx
<1>2. NoTask \in TaskRow /\ NoTask.key = None /\ [NoTask EXCEPT !.status = "queued"] \in TaskRow
    BY DEF NoTask, TaskRow, TaskState, To, Ctx, Text
<1>3. \A t \in InTask : t \in Task /\ t \notin Local
    BY A2aAssumption DEF Task
<1>4. A2aTyped
    <2>1. ex \in [Exchange -> ExRow]
        BY <1>1 DEF A2aInit
    <2>2. task \in [Task -> TaskRow]
        BY <1>2 DEF A2aInit
    <2>3. far \in [Local -> FarRow] /\ hd \in [Handler -> {Idle} \cup CallRow] /\ spent \in [calls : Nat, faults : Nat]
        BY DEF A2aInit, FarRow, PeerState
    <2> QED BY <2>1, <2>2, <2>3 DEF A2aTyped
<1>5. \A t \in InTask : task[t].key = None
    BY <1>2, <1>3 DEF A2aInit
<1>6. TasksSound
    BY <1>5 DEF TasksSound
<1>7. RowsSound
    BY <1>1 DEF RowsSound, A2aInit
<1>8. CallsSound
    BY DEF CallsSound, CallSound, A2aInit
<1>9. PeerSound
    BY SMT DEF PeerSound, A2aInit
<1> QED BY <1>4, <1>6, <1>7, <1>8, <1>9 DEF OnceInv

\* Every step keeps OnceInv.
LEMMA OnceSteps ==
    ASSUME OnceInv, RuntimeTyped, [A2aNext]_a2aVars
    PROVE  OnceInv'
<1>1. CASE \E h \in Handler : Serve(h)
    BY <1>1, ServeKeeps
<1>2. ASSUME NEW x \in Exchange, TasksCancel(x) \/ Ages(x) PROVE OnceInv'
    <2>1. CASE TasksCancel(x)
        BY <2>1, Counted, OnceSame DEF TasksCancel
    <2>2. CASE Ages(x)
        <3>1. UNCHANGED <<task, hd, far, spent>> /\ ex' = [ex EXCEPT ![x].over = "old"]
            BY <2>2 DEF Ages
        <3>2. PICK r : r = [ex[x] EXCEPT !.over = "old"]
            OBVIOUS
        <3>3. r \in ExRow /\ r.state = ex[x].state /\ r.hash = ex[x].hash /\ r.task = ex[x].task
            BY SMT, <3>2 DEF OnceInv, A2aTyped, ExRow
        <3>4. ex' = [ex EXCEPT ![x] = r]
            BY <3>1, <3>2
        <3>5. /\ ex' \in [Exchange -> ExRow]
              /\ \A y \in Exchange : ex'[y] = IF y = x THEN r ELSE ex[y]
            BY <3>3, <3>4 DEF OnceInv, A2aTyped
        <3> QED BY <3>1, <3>3, <3>5, Counted, OnceRows
    <2> QED BY <1>2, <2>1, <2>2
<1>3. ASSUME NEW t \in InTask, TaskRuns(t) \/ TaskEnds(t) PROVE OnceInv'
    <2>1. /\ task[t].status \notin Terminal /\ t \in Task
          /\ UNCHANGED <<ex, hd, far, spent>>
          /\ \E s \in TaskState \ {"absent"} : task' = [task EXCEPT ![t].status = s]
        BY <1>3 DEF TaskRuns, TaskEnds, Queued, EndsAs, Terminal, TaskState, Task
    <2> QED BY <2>1, Counted, StatusKeeps
<1>4. ASSUME NEW t \in Task, Project(t) PROVE OnceInv'
    <2>1. CASE ex' = Projected(t) /\ UNCHANGED spent
        BY <1>4, <2>1, ProjectedIn, Counted, OnceRows DEF Project, OnceInv, Stamped
    <2>2. CASE UNCHANGED ex /\ A2aFault
        BY <1>4, <2>2, Counted, OnceSame DEF Project
    <2> QED BY <1>4, <2>1, <2>2 DEF Project
<1>5. CASE \E l \in Local : Delegate(l)
    BY <1>5, DelegateKeeps
<1>6. CASE Cleanup \/ Listen
    BY <1>6, CleanupKeeps
<1>7. CASE CleanupFails \/ Stop \/ StartRefused \/ FinishStop \/ A2aCrash
    BY <1>7, Counted, OnceSame DEF CleanupFails, Stop, StartRefused, FinishStop, A2aCrash, Gone
<1>8. CASE Begin
    BY <1>8, BeginKeeps
<1>9. CASE Repair
    <2>1. UNCHANGED <<ex, hd, far, spent>>
        BY <1>9 DEF Repair
    <2>2. CASE task' = task
        BY <2>1, <2>2, Counted, OnceSame
    <2>3. ASSUME NEW t \in Task, task[t].status \in {"dispatched", "running"},
                 task' = [task EXCEPT ![t].status = "failed"]
          PROVE  OnceInv'
        BY <2>1, <2>3, Counted, StatusKeeps DEF TaskState, Terminal
    <2> QED BY <1>9, <2>2, <2>3 DEF Repair
<1>10. CASE UNCHANGED a2aVars
    BY <1>10, Counted, OnceSame DEF a2aVars
<1> QED BY <1>1, <1>2, <1>3, <1>4, <1>5, <1>6, <1>7, <1>8, <1>9, <1>10 DEF A2aNext

\* A set of tasks of which no two differ has at most one.
LEMMA OnceShown == OnceInv => ExchangeOnce
<1> SUFFICES ASSUME OnceInv PROVE ExchangeOnce
    OBVIOUS
<1>1. OneTaskPerRequest
    <2> SUFFICES ASSUME NEW x \in Exchange PROVE Cardinality(Receipts(x)) <= 1
        BY DEF OneTaskPerRequest
    <2>1. \A t, u \in Receipts(x) : t = u
        BY A2aNames DEF OnceInv, TasksSound, Receipts
    <2>2. CASE Receipts(x) = {}
        BY SMT, <2>2, FS_EmptySet
    <2>3. CASE Receipts(x) # {}
        <3>1. PICK t : Receipts(x) = {t}
            BY <2>1, <2>3
        <3> QED BY SMT, <3>1, FS_Singleton
    <2> QED BY <2>2, <2>3
<1>2. AnswerNamesItsTask
    <2> SUFFICES ASSUME NEW h \in Handler, hd[h].pc = "answered"
                 PROVE  LET req == hd[h].req
                            t == ex[req.key].task
                        IN /\ t \in InTask
                           /\ <<task[t].key, task[t].to, task[t].ctx, task[t].text>>
                                = <<req.key, req.to, req.ctx, req.text>>
                           /\ hd[h].status \in {"completed", "failed", "canceled"}
                                => hd[h].status = project(task[t].status)
        BY DEF AnswerNamesItsTask
    <2>1. PICK c \in CallRow : c = hd[h]
        BY CallIn DEF OnceInv
    <2>2. c # Idle /\ CallSound(c) /\ c.req \in Req
        BY <2>1, CallNotIdle DEF OnceInv, CallsSound
    <2>3. PICK t : t = ex[c.req.key].task
        OBVIOUS
    <2>4. /\ t \in InTask /\ task[t].to = c.req.to /\ task[t].ctx = c.req.ctx
          /\ ex[c.req.key].hash = c.req.hash
          /\ c.status \in {"completed", "failed", "canceled"} => c.status = project(task[t].status)
        BY <2>1, <2>2, <2>3 DEF CallSound
    <2>5. task[t].key = c.req.key
        BY <2>2, <2>3, <2>4, ReqIn, A2aNames DEF OnceInv, RowsSound, Task
    <2>6. task[t].text = c.req.text
        BY ZenonT(60), <2>2, <2>4, <2>5, ReqIn DEF OnceInv, TasksSound
    <2> QED BY <2>1, <2>3, <2>4, <2>5, <2>6
<1>3. PeerAskedOnce
    BY DEF OnceInv, PeerSound, PeerAskedOnce
<1> QED BY <1>1, <1>2, <1>3 DEF ExchangeOnce

-----------------------------------------------------------------------------
(* Starts after good stops.                                                *)

\* The runtime goes on as it was: at most its events and its signals change.
SameRuntime ==
    /\ rt'.phase = rt.phase /\ rt'.epoch = rt.epoch /\ rt'.sweep = rt.sweep
    /\ rt'.claims = rt.claims /\ rt'.crashed = rt.crashed
    /\ inst' = inst /\ sock' = sock

\* The end of a task is final.
EndsKeep == \A t \in Task : task[t].status \in Terminal => task'[t].status \in Terminal

\* What everything but a sweep may do to a row.
RowMoves(x) ==
    /\ ex'[x].cleanup = ex[x].cleanup /\ ex'[x].owner = ex[x].owner
    /\ ex[x].task # None => ex'[x].task = ex[x].task
    /\ ex[x].over # "no" => ex'[x].over # "no"
    /\ ex'[x].over # "no" => Over(x)
    /\ x \in Local => ex'[x].task \in {None, x}
    /\ ex'[x].state = "none" => ex[x].state = "none" /\ ex'[x].task = None
    /\ rt.phase = "starting" /\ Over(x) => ex'[x].bytes = ex[x].bytes

\* A row that is over has a task that has ended.
LEMMA OverEnded ==
    ASSUME ContentSound, NEW x \in Exchange, Over(x)
    PROVE  ex[x].task # None /\ TaskEnded(ex[x].task)
BY DEF ContentSound, Over, TaskEnded

\* A row that is over stays so.
LEMMA OverKept ==
    ASSUME A2aTyped, ContentSound, EndsKeep, NEW x \in Exchange, RowMoves(x), Over(x)
    PROVE  ex'[x].task = ex[x].task /\ TaskEnded(ex[x].task)' /\ Over(x)'
<1>1. ex[x].task # None /\ ex[x].task \in Task /\ task[ex[x].task].status \in Terminal
    BY OverEnded DEF TaskEnded, A2aTyped, ExRow
<1>2. ex'[x].task = ex[x].task
    BY <1>1 DEF RowMoves
<1>3. TaskEnded(ex[x].task)'
    BY <1>1, <1>2 DEF EndsKeep, TaskEnded
<1> QED BY <1>2, <1>3 DEF Over

\* The claims of rows, over such a step.
LEMMA ContentKept ==
    ASSUME A2aTyped, ContentSound, EndsKeep, \A x \in Exchange : RowMoves(x),
           rt.epoch \in Nat, rt'.epoch \in Nat, rt.epoch <= rt'.epoch
    PROVE  ContentSound'
<1> SUFFICES ASSUME NEW x \in Exchange
             PROVE  /\ ex'[x].over = "no" => ex'[x].cleanup = "pending"
                    /\ ex'[x].over # "no" => TaskEnded(ex[x].task)'
                    /\ ex'[x].cleanup = "claimed" => ex'[x].owner \in 1 .. rt'.epoch
                    /\ x \in Local => ex'[x].task \in {None, x}
                    /\ ex'[x].state = "none" => ex'[x].task = None /\ ex'[x].over = "no" /\ ex'[x].owner = 0
    BY DEF ContentSound
<1>1. RowMoves(x)
    OBVIOUS
<1>2. ex'[x].over # "no" => TaskEnded(ex[x].task)'
    BY <1>1, OverKept DEF RowMoves
<1>3. ex'[x].state = "none" => ex'[x].over = "no"
    BY <1>1, OverEnded DEF RowMoves, ContentSound
<1> QED BY SMT, <1>1, <1>2, <1>3 DEF RowMoves, ContentSound

\* What is counted against the ceiling, over such a step: as before, or there is a
\* row that has just ended.
LEMMA RetainedKept ==
    ASSUME A2aTyped, ContentSound, EndsKeep, rt.phase = "starting", \A x \in Exchange : RowMoves(x),
           PendingOver \/ Cardinality(RetainedSet) <= Low
    PROVE  (PendingOver \/ Cardinality(RetainedSet) <= Low)'
<1>1. ASSUME NEW x \in Exchange, Over(x)
      PROVE  Over(x)' /\ ex'[x].bytes = ex[x].bytes /\ ex'[x].cleanup = ex[x].cleanup
    BY <1>1, OverKept DEF RowMoves
<1>2. ASSUME NEW x \in Exchange, ~Over(x), Over(x)'
      PROVE  ex'[x].cleanup = "pending"
    <2>1. ex[x].over = "no"
        BY <1>2 DEF Over
    <2> QED BY <2>1 DEF ContentSound, RowMoves
<1>3. CASE PendingOver
    BY <1>3, <1>1 DEF PendingOver
<1>4. CASE \E x \in Exchange : ~Over(x) /\ Over(x)'
    BY <1>4, <1>2 DEF PendingOver
<1>5. CASE /\ Cardinality(RetainedSet) <= Low
           /\ \A x \in Exchange : Over(x)' => Over(x)
    <2>1. RetainedSet' = RetainedSet
        BY <1>1, <1>5 DEF RetainedSet
    <2> QED BY <2>1, <1>5
<1> QED BY <1>3, <1>4, <1>5

\* A step of an ordinary kind: a call, an event, a delivery, a projection.
LEMMA OrdinaryKeeps ==
    ASSUME A2aTyped, RestartInv, RuntimeTyped', SameRuntime, EndsKeep, \A x \in Exchange : RowMoves(x),
           DispatchSound', HandlersOff'
    PROVE  RestartInv'
<1>1. ContentSound'
    BY SMT, ContentKept DEF RestartInv, SameRuntime, RuntimeTyped, RtRow
<1>2. RunsSound'
    BY DEF RestartInv, RunsSound, SameRuntime
<1>3. SweepSound'
    <2> SUFFICES ASSUME rt'.phase = "starting"
                 PROVE  /\ rt'.sweep \in {"measure", "ceiling", "clean"}
                        /\ rt'.sweep # "clean" => rt'.claims = {}
                        /\ \A x \in Exchange : ex'[x].cleanup = "claimed" /\ ex'[x].owner = rt'.epoch => x \in rt'.claims
                        /\ rt'.sweep = "ceiling" /\ ~rt'.crashed => (PendingOver \/ Cardinality(RetainedSet) <= Low)'
        BY DEF SweepSound
    <2>1. /\ rt'.sweep \in {"measure", "ceiling", "clean"}
          /\ rt'.sweep # "clean" => rt'.claims = {}
        BY DEF RestartInv, SweepSound, SameRuntime
    <2>2. \A x \in Exchange : ex'[x].cleanup = "claimed" /\ ex'[x].owner = rt'.epoch => x \in rt'.claims
        BY DEF RestartInv, SweepSound, SameRuntime, RowMoves
    <2>3. ASSUME rt'.sweep = "ceiling", ~rt'.crashed PROVE (PendingOver \/ Cardinality(RetainedSet) <= Low)'
        <3>1. rt.phase = "starting" /\ (PendingOver \/ Cardinality(RetainedSet) <= Low)
            BY <2>3 DEF RestartInv, SweepSound, SameRuntime
        <3> QED BY <3>1, RetainedKept DEF RestartInv
    <2> QED BY <2>1, <2>2, <2>3
<1>4. CleanStopsRestart'
    <2> SUFFICES ASSUME rt'.phase = "refused", ~rt'.crashed
                 PROVE  \E x \in Exchange : ex'[x].over # "no" /\ ex'[x].cleanup = "pending"
        BY DEF CleanStopsRestart
    <2>1. PICK x \in Exchange : ex[x].over # "no" /\ ex[x].cleanup = "pending"
        BY DEF RestartInv, CleanStopsRestart, SameRuntime
    <2>2. ex'[x].over # "no" /\ ex'[x].cleanup = "pending"
        BY <2>1 DEF RowMoves
    <2> QED BY <2>2
<1> QED BY <1>1, <1>2, <1>3, <1>4 DEF RestartInv

\* Rows and tasks that do not change.
LEMMA SameMoves ==
    ASSUME ContentSound
    PROVE  /\ ex' = ex => \A x \in Exchange : RowMoves(x)
           /\ task' = task => EndsKeep
<1>1. ASSUME ex' = ex PROVE \A x \in Exchange : RowMoves(x)
    BY <1>1 DEF RowMoves, Over, ContentSound
<1> QED BY <1>1 DEF EndsKeep

\* An event of a task is added to the stream, or one is taken from it.
LEMMA EventsWritten ==
    ASSUME RuntimeTyped, NEW e \in SUBSET Task, NEW c \in SUBSET (Task \cup {None}),
           inst' = inst, sock' = sock,
           rt' = rt \/ rt' = [rt EXCEPT !.events = e] \/ rt' = [rt EXCEPT !.cancel = c]
    PROVE  rt' \in RtRow /\ SameRuntime
BY DEF RuntimeTyped, RtRow, SameRuntime

\* A call in progress: the listener is there.
LEMMA Serving ==
    ASSUME RestartInv, NEW h \in Handler, hd[h].pc # "idle"
    PROVE  rt.phase \notin {"down", "starting", "refused"}
BY SMT DEF RestartInv, HandlersOff, Idle

\* The row that reserve_inbound inserts, and the task that admit_task inserts, are new;
\* bind_task binds a row that has no task.
LEMMA ServeMoves ==
    ASSUME OnceInv, RestartInv, NEW h \in Handler, Serve(h)
    PROVE  /\ rt.phase \notin {"down", "starting", "refused"}
           /\ EndsKeep /\ \A x \in Exchange : RowMoves(x)
           /\ \A l \in Local : task'[l] = task[l]
<1>0. A2aTyped /\ RowsSound /\ ContentSound /\ CallsSound
    BY DEF OnceInv, RestartInv
<1>1. CASE \E w \in Offered[spent.calls + 1][h] : spent.calls < Calls /\ Receive(h, w)
    <2>1. PICK w \in Offered[spent.calls + 1][h] : spent.calls < Calls /\ Receive(h, w)
        BY <1>1
    <2>2. spent.calls + 1 \in 1 .. Calls
        BY SMT, <1>0, <2>1, A2aAssumption DEF A2aTyped
    <2>3. w \in Wire
        BY SMT, <2>2 DEF Wire
    <2>4. PICK r \in Req : r = normalize_send(w)
        BY <2>3 DEF Req
    <2>5. r.key \in Exchange /\ r.key \notin Local
        BY ReqIn
    <2>6. PICK row : row = reserve_inbound(r)
        OBVIOUS
    <2>7. rt.phase = "up" /\ task' = task /\ (ex' = ex \/ ex' = [ex EXCEPT ![r.key] = row])
        BY <2>1, <2>4, <2>6 DEF Receive
    <2>8. CASE ex[r.key].state # "none"
        <3>1. row = ex[r.key]
            BY <2>6, <2>8 DEF reserve_inbound
        <3>2. ex' = ex
            BY <3>1, <2>7, <1>0 DEF A2aTyped
        <3> QED BY <3>2, <2>7, <1>0, SameMoves
    <2>9. CASE ex[r.key].state = "none"
        <3>1. row = [NoRow EXCEPT !.state = "reserved", !.hash = r.hash, !.ctx = r.ctx]
            BY <2>6, <2>9 DEF reserve_inbound
        <3>2. row.state = "reserved" /\ row.task = None /\ row.over = "no" /\ row.cleanup = "pending" /\ row.owner = 0
            BY <3>1 DEF NoRow
        <3>3. /\ ex[r.key].task = None /\ ex[r.key].over = "no" /\ ex[r.key].owner = 0
              /\ ex[r.key].cleanup = "pending"
            BY <2>5, <2>9, <1>0 DEF ContentSound
        <3>4. CASE ex' = ex
            BY <3>4, <2>7, <1>0, SameMoves
        <3>5. CASE ex' = [ex EXCEPT ![r.key] = row]
            <4> SUFFICES ASSUME NEW x \in Exchange PROVE RowMoves(x)
                BY <2>7, <1>0, SameMoves
            <4>1. CASE x = r.key
                <5>1. ex'[x] = row
                    BY <4>1, <3>5, <1>0 DEF A2aTyped
                <5> QED BY <5>1, <4>1, <3>2, <3>3, <2>5, <2>7 DEF RowMoves
            <4>2. CASE x # r.key
                <5>1. ex'[x] = ex[x]
                    BY <4>2, <3>5, <1>0 DEF A2aTyped
                <5> QED BY <5>1, <1>0 DEF RowMoves, Over, ContentSound
            <4> QED BY <4>1, <4>2
        <3> QED BY <2>7, <3>4, <3>5
    <2> QED BY <2>8, <2>9
<1>2. CASE Matches(h) \/ Identity(h) \/ SubmitBusy(h) \/ Snapshot(h) \/ Reply(h) \/ HandlerGone(h)
    <2>1. hd[h].pc # "idle" /\ ex' = ex /\ task' = task
        BY <1>2 DEF Matches, Identity, SubmitBusy, Snapshot, Reply, HandlerGone, At
    <2> QED BY <2>1, <1>0, Serving, SameMoves
<1>3. CASE StoreMessage(h)
    <2>1. hd[h].pc # "idle" /\ task' = task
        BY <1>3 DEF StoreMessage, At
    <2>2. PICK c \in CallRow : c = hd[h]
        BY <1>0, <2>1, CallIn
    <2>3. PICK key \in Exchange : key = c.req.key
        BY CallNotIdle, ReqIn
    <2>4. PICK bytes : ex' = [ex EXCEPT ![key].message = TRUE, ![key].bytes = bytes]
        BY <1>3, <2>2, <2>3 DEF StoreMessage
    <2>5. PICK r : r = [ex[key] EXCEPT !.message = TRUE, !.bytes = bytes]
        OBVIOUS
    <2>6. ex' = [ex EXCEPT ![key] = r]
        BY <2>4, <2>5, Zenon
    <2>7. /\ r.state = ex[key].state /\ r.task = ex[key].task /\ r.over = ex[key].over
          /\ r.cleanup = ex[key].cleanup /\ r.owner = ex[key].owner
        BY ZenonT(60), <2>5, <1>0 DEF A2aTyped, ExRow
    <2>8. rt.phase \notin {"down", "starting", "refused"}
        BY <2>1, Serving
    <2>9. ASSUME NEW x \in Exchange PROVE RowMoves(x)
        <3>1. ex'[x] = IF x = key THEN r ELSE ex[x]
            BY <2>6, <1>0 DEF A2aTyped
        <3> QED BY <3>1, <2>7, <2>8, <1>0 DEF RowMoves, Over, ContentSound
    <2> QED BY <2>1, <2>8, <2>9, <1>0, SameMoves
<1>4. CASE Submit(h) \/ SubmitDropped(h)
    <2>1. hd[h].pc # "idle" /\ ex' = ex /\ \E sent \in BOOLEAN : AdmitTask(h, sent)
        BY <1>4 DEF Submit, SubmitDropped, At
    <2>2. EndsKeep /\ \A l \in Local : task'[l] = task[l]
        <3>1. CASE task' = task
            BY <3>1 DEF EndsKeep
        <3>2. ASSUME NEW sent, Inserted(h, sent) PROVE EndsKeep /\ \A l \in Local : task'[l] = task[l]
            <4>1. PICK f \in InTask : f = Fresh /\ task[f].status = "absent"
                BY <3>2 DEF Inserted, Fresh
            <4>2. PICK n : task' = [task EXCEPT ![f] = n]
                BY <3>2, <4>1 DEF Inserted
            <4>3. \A t \in Task : t # f => task'[t] = task[t]
                BY <4>2, <1>0 DEF A2aTyped
            <4> QED BY <4>1, <4>3, A2aAssumption DEF EndsKeep, Terminal, Task
        <3> QED BY <2>1, <3>1, <3>2 DEF AdmitTask
    <2> QED BY <2>1, <2>2, <1>0, Serving, SameMoves
<1>5. CASE Bind(h)
    <2>1. hd[h].pc # "idle" /\ hd[h].pc = "bind" /\ task' = task
        BY <1>5 DEF Bind, At
    <2>2. PICK c \in CallRow : c = hd[h]
        BY <1>0, <2>1, CallIn
    <2>3. PICK key \in Exchange : key = c.req.key /\ key \notin Local
        BY CallNotIdle, ReqIn
    <2>4. rt.phase \notin {"down", "starting", "refused"}
        BY <2>1, Serving
    <2>5. PICK winner : ex' = ex \/ ex' = [ex EXCEPT ![key] = Bound(ex[key], winner, c.row.bytes)]
        BY <1>5, <2>2, <2>3, <1>0 DEF Bind, A2aTyped
    <2>6. CASE ex' = ex
        BY <2>1, <2>4, <2>6, <1>0, SameMoves
    <2>7. CASE ex' = [ex EXCEPT ![key] = Bound(ex[key], winner, c.row.bytes)] /\ ex' # ex
        <3>1. PICK r : r = Bound(ex[key], winner, c.row.bytes)
            OBVIOUS
        <3>2. ex' = [ex EXCEPT ![key] = r] /\ ex[key] \in ExRow
            BY <3>1, <2>7, <1>0 DEF A2aTyped
        <3>3. /\ ex[key].task = None
              /\ r = [ex[key] EXCEPT !.task = winner, !.ext = TRUE, !.state = "submitted", !.bytes = c.row.bytes]
            BY <3>1, <3>2, <2>7, <1>0 DEF Bound, A2aTyped
        <3>4. /\ r.state = "submitted" /\ r.over = ex[key].over /\ r.cleanup = ex[key].cleanup
              /\ r.owner = ex[key].owner
            BY <3>2, <3>3 DEF ExRow
        <3>5. ASSUME NEW x \in Exchange PROVE RowMoves(x)
            <4>1. ex'[x] = IF x = key THEN r ELSE ex[x]
                BY <3>2, <1>0 DEF A2aTyped
            <4> QED BY <4>1, <3>3, <3>4, <2>3, <2>4, <1>0 DEF RowMoves, Over, ContentSound
        <3> QED BY <3>5, <2>1, <2>4, <1>0, SameMoves
    <2> QED BY <2>5, <2>6, <2>7
<1> QED BY <1>1, <1>2, <1>3, <1>4, <1>5 DEF Serve

\* A call leaves the runtime and the deliveries alone.
LEMMA ServeRestarts ==
    ASSUME OnceInv, RestartInv, NEW h \in Handler, Serve(h)
    PROVE  RestartInv'
<1>1. UNCHANGED <<inst, out, rt, sock>>
    BY DEF Serve, Receive, Matches, StoreMessage, Identity, Submit, SubmitBusy, SubmitDropped, Bind, Snapshot,
           Reply, HandlerGone
<1>2. RuntimeTyped' /\ SameRuntime
    BY <1>1 DEF RestartInv, RuntimeTyped, SameRuntime
<1>3. DispatchSound'
    BY <1>1, ServeMoves DEF RestartInv, DispatchSound
<1>4. HandlersOff'
    BY <1>1, ServeMoves DEF HandlersOff
<1> QED BY <1>2, <1>3, <1>4, ServeMoves, OrdinaryKeeps DEF OnceInv

\* EndsAs writes to the stream of events only.
LEMMA EndsAsRuntime ==
    ASSUME RuntimeTyped, NEW t \in Task, NEW s, EndsAs(t, s), inst' = inst, sock' = sock
    PROVE  rt' \in RtRow /\ SameRuntime
<1>1. PICK e : e = IF s \in Terminal THEN rt.events \cup {t} ELSE rt.events
    OBVIOUS
<1>2. rt' = [rt EXCEPT !.events = e]
    BY <1>1 DEF EndsAs
<1>3. e \in SUBSET Task
    BY <1>1 DEF RuntimeTyped, RtRow
<1> QED BY <1>2, <1>3, EventsWritten

\* The stage of a delivery.
LEMMA DispatchWritten ==
    ASSUME RuntimeTyped, NEW l \in Local,
           NEW pc \in {"idle", "sending", "accepted", "unknown", "retry", "polling", "done"}, Dispatch(l, pc)
    PROVE  out' \in [Local -> OutRow] /\ out'[l].pc = pc /\ \A k \in Local : k # l => out'[k] = out[k]
<1>1. PICK r : r = [out[l] EXCEPT !.pc = pc]
    OBVIOUS
<1>2. r \in OutRow /\ r.pc = pc
    BY <1>1 DEF RuntimeTyped, OutRow
<1>3. out' = [out EXCEPT ![l] = r]
    BY <1>1 DEF Dispatch
<1> QED BY <1>2, <1>3 DEF RuntimeTyped

\* A step of a delivery.
LEMMA LocalRestarts ==
    ASSUME OnceInv, RestartInv, NEW l \in Local, hd' = hd,
           rt' \in RtRow, SameRuntime, rt.phase # "down",
           out' \in [Local -> OutRow], \A k \in Local : k # l => out'[k] = out[k],
           \A t \in Task : t # l => task'[t] = task[t],
           task[l].status \notin Terminal,
           out'[l].pc # "idle" => task'[l].status \in {"dispatched", "running"},
           \A x \in Exchange : x # l => ex'[x] = ex[x], RowMoves(l)
    PROVE  RestartInv'
<1>1. RuntimeTyped'
    BY DEF RestartInv, RuntimeTyped, SameRuntime
<1>2. EndsKeep
    BY DEF EndsKeep
<1>3. ASSUME NEW x \in Exchange PROVE RowMoves(x)
    BY DEF RowMoves, Over, RestartInv, ContentSound
<1>4. DispatchSound'
    <2> SUFFICES ASSUME NEW k \in Local, out'[k].pc # "idle" PROVE task'[k].status \in {"dispatched", "running"}
        BY DEF DispatchSound, SameRuntime
    <2>1. CASE k = l
        BY <2>1
    <2>2. CASE k # l
        BY <2>2 DEF RestartInv, DispatchSound, Task
    <2> QED BY <2>1, <2>2
<1>5. HandlersOff'
    BY DEF RestartInv, HandlersOff, SameRuntime
<1> QED BY <1>1, <1>2, <1>3, <1>4, <1>5, OrdinaryKeeps DEF OnceInv

\* The row of a local task whose delivery is under way is not over.
LEMMA NotOver ==
    ASSUME RestartInv, NEW l \in Local, task[l].status \notin Terminal
    PROVE  ~Over(l) /\ ex[l].over = "no" /\ ex[l].task \in {None, l}
<1>1. l \in Exchange /\ ContentSound
    BY DEF Exchange, RestartInv
<1>2. ex[l].task \in {None, l} /\ (ex[l].over # "no" => TaskEnded(ex[l].task))
    BY <1>1 DEF ContentSound
<1>3. ~TaskEnded(ex[l].task)
    BY <1>2 DEF TaskEnded
<1> QED BY <1>2, <1>3 DEF Over

\* A delivery under way.
LEMMA UnderWay ==
    ASSUME RestartInv, NEW l \in Local, out[l].pc # "idle"
    PROVE  task[l].status \in {"dispatched", "running"} /\ task[l].status \notin Terminal
BY DEF RestartInv, DispatchSound, Terminal

\* Events and rows of a delivery under way.
LEMMA VerdictRestarts ==
    ASSUME OnceInv, RestartInv, NEW l \in Local, hd' = hd, inst' = inst, sock' = sock, rt.phase # "down",
           out[l].pc # "idle",
           NEW pc \in {"idle", "sending", "accepted", "unknown", "retry", "polling", "done"}, Dispatch(l, pc),
           \/ UNCHANGED <<task, rt>>
           \/ \E s \in TaskState : EndsAs(l, s) /\ (pc # "idle" => s = "running"),
           \A x \in Exchange : x # l => ex'[x] = ex[x], RowMoves(l)
    PROVE  RestartInv'
<1> DEFINE Rest == /\ rt' \in RtRow /\ SameRuntime
                   /\ \A t \in Task : t # l => task'[t] = task[t]
                   /\ pc # "idle" => task'[l].status \in {"dispatched", "running"}
<1>1. RuntimeTyped /\ l \in Task /\ A2aTyped
    BY DEF RestartInv, OnceInv, Task
<1>2. task[l].status \in {"dispatched", "running"} /\ task[l].status \notin Terminal
    BY UnderWay
<1>3. ASSUME UNCHANGED <<task, rt>> PROVE Rest
    BY <1>1, <1>2, <1>3 DEF SameRuntime, RuntimeTyped
<1>4. ASSUME NEW s \in TaskState, EndsAs(l, s), pc # "idle" => s = "running" PROVE Rest
    <2>1. rt' \in RtRow /\ SameRuntime
        BY <1>1, <1>4, EndsAsRuntime
    <2>2. task' = [task EXCEPT ![l].status = s]
        BY <1>4 DEF EndsAs
    <2>3. task'[l].status = s /\ \A t \in Task : t # l => task'[t] = task[t]
        BY <2>2, <1>1, StatusWritten
    <2> QED BY <2>1, <2>3, <1>4
<1>5. Rest
    BY <1>3, <1>4
<1>6. out' \in [Local -> OutRow] /\ out'[l].pc = pc /\ \A k \in Local : k # l => out'[k] = out[k]
    BY <1>1, DispatchWritten
<1> QED BY <1>2, <1>5, <1>6, LocalRestarts

\* A delivery makes a row for its task, if there is none.
LEMMA DeliverRestarts ==
    ASSUME OnceInv, RestartInv, NEW l \in Local, Deliver(l)
    PROVE  RestartInv'
<1>1. /\ task' = [task EXCEPT ![l].status = "dispatched"] /\ UNCHANGED <<hd, inst, rt, sock>>
      /\ ex' = [ex EXCEPT ![l] = reserve_outbound(l)]
      /\ out' = [out EXCEPT ![l].pc = Reserved(ex[l]), ![l].attempt = @ + 1]
      /\ rt.phase # "down" /\ (task[l].status = "queued" \/ out[l].pc = "retry")
    BY DEF Deliver, Working
<1>2. RuntimeTyped /\ A2aTyped /\ ContentSound /\ l \in Task /\ l \in Exchange
    BY FarIn DEF RestartInv, OnceInv
<1>3. task[l].status \notin Terminal
    BY <1>1, UnderWay DEF Terminal
<1>4. rt' \in RtRow /\ SameRuntime
    BY <1>1, <1>2 DEF RuntimeTyped, SameRuntime
<1>5. task'[l].status = "dispatched" /\ \A t \in Task : t # l => task'[t] = task[t]
    BY <1>1, <1>2, StatusWritten DEF TaskState
<1>6. out' \in [Local -> OutRow] /\ \A k \in Local : k # l => out'[k] = out[k]
    <2>1. PICK pc : pc = Reserved(ex[l])
        OBVIOUS
    <2>2. PICK n \in Nat : n = out[l].attempt + 1
        BY SMT, <1>2 DEF RuntimeTyped, OutRow
    <2>3. PICK r : r = [out[l] EXCEPT !.pc = pc, !.attempt = n]
        OBVIOUS
    <2>4. r \in OutRow
        BY <2>1, <2>3, <1>2 DEF RuntimeTyped, OutRow, Reserved
    <2>5. out' = [out EXCEPT ![l] = r]
        <3>1. out' = [out EXCEPT ![l].pc = pc, ![l].attempt = n]
            BY <1>1, <1>2, <2>1, <2>2 DEF RuntimeTyped, OutRow
        <3> QED BY <3>1, <2>3, Zenon
    <2> QED BY <2>4, <2>5, <1>2 DEF RuntimeTyped
<1>7. \A x \in Exchange : x # l => ex'[x] = ex[x]
    BY <1>1, <1>2 DEF A2aTyped
<1>8. ex'[l] = reserve_outbound(l)
    BY <1>1, <1>2 DEF A2aTyped
<1>9. RowMoves(l)
    <2>1. ~Over(l) /\ ex[l].over = "no" /\ ex[l].task \in {None, l}
        BY <1>3, NotOver
    <2>2. CASE ex[l].state # "none"
        <3>1. ex'[l] = ex[l]
            BY <1>8, <2>2 DEF reserve_outbound
        <3> QED BY SMT, <3>1, <2>1, <2>2 DEF RowMoves
    <2>3. CASE ex[l].state = "none"
        <3>1. ex'[l] = [NoRow EXCEPT !.state = "reserved", !.task = l]
            BY <1>8, <2>3 DEF reserve_outbound
        <3>2. /\ ex'[l].state = "reserved" /\ ex'[l].task = l /\ ex'[l].over = "no"
              /\ ex'[l].cleanup = "pending" /\ ex'[l].owner = 0
            BY <3>1 DEF NoRow
        <3>3. ex[l].task = None /\ ex[l].owner = 0 /\ ex[l].cleanup = "pending"
            BY <1>2, <2>3 DEF ContentSound
        <3> QED BY <3>2, <3>3, <2>1 DEF RowMoves
    <2> QED BY <2>2, <2>3
<1> QED BY <1>1, <1>3, <1>4, <1>5, <1>6, <1>7, <1>9, LocalRestarts

\* A row of which the cleanup sees nothing new.
LEMMA SameContentMoves ==
    ASSUME OnceInv, RestartInv, NEW l \in Local, SameContent(ex[l], ex'[l]),
           ex[l].state # "none" => ex'[l].state # "none"
    PROVE  RowMoves(l)
<1>1. ContentSound /\ l \in Exchange
    BY FarIn DEF RestartInv
<1> QED BY <1>1 DEF RowMoves, SameContent, Over, ContentSound

\* Every step of a delivery, and of the peer.
LEMMA DelegateRestarts ==
    ASSUME OnceInv, RestartInv, NEW l \in Local, Delegate(l)
    PROVE  RestartInv'
<1>0. A2aTyped /\ RuntimeTyped /\ ContentSound /\ l \in Exchange /\ l \in Task /\ ex[l] \in ExRow
    BY FarIn DEF RestartInv, OnceInv
<1>1. CASE Deliver(l)
    BY <1>1, DeliverRestarts
<1>2. CASE SendAnswered(l)
    <2>1. UNCHANGED <<hd, inst, sock>> /\ rt.phase # "down" /\ out[l].pc # "idle"
        BY <1>2 DEF SendAnswered, Working
    <2>2. CASE far[l].net \in {"submitted", "working"}
        <3>1. /\ ex' = [ex EXCEPT ![l] = acknowledge_outbound(@, far[l].net)]
              /\ Dispatch(l, "accepted") /\ UNCHANGED <<task, rt>>
            BY <1>2, <2>2 DEF SendAnswered
        <3>2. PICK row : row = acknowledge_outbound(ex[l], far[l].net)
            OBVIOUS
        <3>3. (ex[l].state # "none" => row.state # "none") /\ SameContent(ex[l], row)
            BY <3>2, <2>2, <1>0, RowAcknowledged
        <3>4. ex'[l] = row /\ \A x \in Exchange : x # l => ex'[x] = ex[x]
            BY <3>1, <3>2, <1>0 DEF A2aTyped
        <3>5. RowMoves(l)
            BY <3>3, <3>4, SameContentMoves
        <3> QED BY <2>1, <3>1, <3>4, <3>5, VerdictRestarts
    <2>3. CASE far[l].net \notin {"submitted", "working"}
        <3>1. NotAccepted(l) /\ ex' = ex
            BY <1>2, <2>3 DEF SendAnswered
        <3>2. \/ Dispatch(l, "retry") /\ UNCHANGED <<task, rt>>
              \/ Dispatch(l, "idle") /\ EndsAs(l, "failed")
            BY <3>1 DEF NotAccepted
        <3> QED BY <2>1, <3>1, <3>2, <1>0, SameMoves, VerdictRestarts DEF TaskState
    <2> QED BY <2>2, <2>3
<1>3. CASE SendUnauthorized(l)
    <2>1. /\ UNCHANGED <<hd, inst, sock>> /\ rt.phase # "down" /\ out[l].pc # "idle" /\ ex' = ex
          /\ \/ Dispatch(l, "retry") /\ UNCHANGED <<task, rt>>
             \/ Dispatch(l, "idle") /\ EndsAs(l, "failed")
        BY <1>3 DEF SendUnauthorized, NotAccepted, Working
    <2> QED BY <2>1, <1>0, SameMoves, VerdictRestarts DEF TaskState
<1>4. CASE SendFails(l)
    <2>1. /\ UNCHANGED <<hd, inst, sock>> /\ rt.phase # "down" /\ out[l].pc # "idle"
          /\ ex' = [ex EXCEPT ![l] = mark_acceptance_unknown(@)]
          /\ Dispatch(l, "unknown") /\ UNCHANGED <<task, rt>>
        BY <1>4 DEF SendFails, Working
    <2>2. PICK row : row = mark_acceptance_unknown(ex[l])
        OBVIOUS
    <2>3. (ex[l].state # "none" => row.state # "none") /\ SameContent(ex[l], row)
        BY <2>2, <1>0, RowUnknown
    <2>4. ex'[l] = row /\ \A x \in Exchange : x # l => ex'[x] = ex[x]
        BY <2>1, <2>2, <1>0 DEF A2aTyped
    <2>5. RowMoves(l)
        BY <2>3, <2>4, SameContentMoves
    <2> QED BY <2>1, <2>4, <2>5, VerdictRestarts
<1>5. CASE Execute(l) \/ Completes(l) \/ DispatchDropped(l)
    <2>1. /\ UNCHANGED <<hd, inst, sock>> /\ rt.phase # "down" /\ out[l].pc # "idle" /\ ex' = ex
          /\ \/ Dispatch(l, "polling") /\ EndsAs(l, "running")
             \/ Dispatch(l, "idle") /\ \E s \in TaskState : EndsAs(l, s)
        BY <1>5 DEF Execute, Completes, DispatchDropped, Working, TaskState
    <2>2. RowMoves(l) /\ \A x \in Exchange : x # l => ex'[x] = ex[x]
        BY <2>1, <1>0, SameMoves
    <2>3. CASE Dispatch(l, "polling") /\ EndsAs(l, "running")
        BY <2>1, <2>2, <2>3, VerdictRestarts DEF TaskState
    <2>4. CASE Dispatch(l, "idle") /\ \E s \in TaskState : EndsAs(l, s)
        BY <2>1, <2>2, <2>4, VerdictRestarts
    <2> QED BY <2>1, <2>3, <2>4
<1>6. CASE Poll(l)
    <2>1. UNCHANGED <<hd, inst, sock>> /\ rt.phase # "down" /\ out[l].pc # "idle"
        BY <1>6 DEF Poll, Working
    <2>2. task[l].status \in {"dispatched", "running"} /\ task[l].status \notin Terminal
        BY <2>1, UnderWay
    <2>3. CASE far[l].state \in {"submitted", "working"}
        <3>1. /\ UNCHANGED <<ex, task, rt>>
              /\ out' = [out EXCEPT ![l].polls = @ + 1,
                                    ![l].pc = IF out[l].polls + 1 = MaxPolls THEN "unknown" ELSE @]
            BY <1>6, <2>3 DEF Poll
        <3>2. PICK n \in Nat : n = out[l].polls + 1
            BY SMT, <1>0 DEF RuntimeTyped, OutRow
        <3>3. PICK pc : pc = IF out[l].polls + 1 = MaxPolls THEN "unknown" ELSE out[l].pc
            OBVIOUS
        <3>4. PICK r : r = [out[l] EXCEPT !.polls = n, !.pc = pc]
            OBVIOUS
        <3>5. r \in OutRow
            BY <3>3, <3>4, <1>0 DEF RuntimeTyped, OutRow
        <3>6. out' = [out EXCEPT ![l] = r]
            <4>1. out' = [out EXCEPT ![l].polls = n, ![l].pc = pc]
                BY <3>1, <3>2, <3>3, <1>0 DEF RuntimeTyped, OutRow
            <4> QED BY <4>1, <3>4, Zenon
        <3>7. out' \in [Local -> OutRow] /\ \A k \in Local : k # l => out'[k] = out[k]
            BY <3>5, <3>6, <1>0 DEF RuntimeTyped
        <3>8. rt' \in RtRow /\ SameRuntime
            BY <3>1, <2>1, <1>0 DEF RuntimeTyped, SameRuntime
        <3> QED BY ZenonT(60), <2>1, <2>2, <3>1, <3>7, <3>8, <1>0, SameMoves, LocalRestarts
    <2>4. CASE far[l].state = "completed" /\ ~ex[l].artifacts
        <3>1. /\ ex' = [ex EXCEPT ![l].artifacts = TRUE, ![l].bytes = @ + 1]
              /\ Dispatch(l, "done") /\ UNCHANGED <<task, rt>>
            BY <1>6, <2>4 DEF Poll
        <3>2. PICK r : r = [ex[l] EXCEPT !.artifacts = TRUE, !.bytes = ex[l].bytes + 1]
            OBVIOUS
        <3>3. /\ r.state = ex[l].state /\ r.task = ex[l].task /\ r.over = ex[l].over
              /\ r.cleanup = ex[l].cleanup /\ r.owner = ex[l].owner
            BY <3>2, <1>0, RowPolled
        <3>4. ex' = [ex EXCEPT ![l] = r]
            BY <3>1, <3>2, Zenon
        <3>5. ex'[l] = r /\ \A x \in Exchange : x # l => ex'[x] = ex[x]
            BY <3>4, <1>0 DEF A2aTyped
        <3>6. RowMoves(l)
            BY <3>3, <3>5, <2>2, <1>0, NotOver DEF RowMoves, ContentSound
        <3> QED BY <2>1, <3>1, <3>5, <3>6, VerdictRestarts
    <2>5. CASE ~(far[l].state \in {"submitted", "working"}) /\ ~(far[l].state = "completed" /\ ~ex[l].artifacts)
        <3>1. Dispatch(l, "idle") /\ EndsAs(l, "failed") /\ UNCHANGED ex
            BY <1>6, <2>5 DEF Poll
        <3> QED BY <2>1, <3>1, <1>0, SameMoves, VerdictRestarts DEF TaskState
    <2> QED BY <2>3, <2>4, <2>5
<1>7. CASE PeerReceives(l) \/ PeerWorks(l)
    <2>1. UNCHANGED <<ex, task, inst, hd, out, rt, sock>>
        BY <1>7 DEF PeerReceives, PeerWorks
    <2>2. RuntimeTyped' /\ SameRuntime /\ DispatchSound' /\ HandlersOff'
        BY <2>1 DEF RestartInv, RuntimeTyped, SameRuntime, DispatchSound, HandlersOff
    <2> QED BY <2>1, <2>2, <1>0, SameMoves, OrdinaryKeeps
<1> QED BY <1>1, <1>2, <1>3, <1>4, <1>5, <1>6, <1>7 DEF Delegate

\* Steps that leave the deliveries and the calls alone.
LEMMA AsideRestarts ==
    ASSUME OnceInv, RestartInv, hd' = hd, out' = out, rt' \in RtRow, SameRuntime,
           EndsKeep, \A l \in Local : task'[l] = task[l], \A x \in Exchange : RowMoves(x)
    PROVE  RestartInv'
<1>1. RuntimeTyped' /\ DispatchSound' /\ HandlersOff'
    BY DEF RestartInv, RuntimeTyped, SameRuntime, DispatchSound, HandlersOff
<1> QED BY <1>1, OrdinaryKeeps DEF OnceInv

\* tasks/cancel, the passing of time, the worker and the projection.
LEMMA EventsRestart ==
    ASSUME OnceInv, RestartInv,
           \/ \E x \in Exchange : TasksCancel(x) \/ Ages(x)
           \/ \E t \in InTask : TaskRuns(t) \/ TaskEnds(t)
           \/ \E t \in Task : Project(t)
    PROVE  RestartInv'
<1>0. A2aTyped /\ RuntimeTyped /\ ContentSound
    BY DEF RestartInv, OnceInv
<1>1. ASSUME NEW x \in Exchange, TasksCancel(x) PROVE RestartInv'
    <2>1. UNCHANGED <<ex, task, inst, hd, out, sock>> /\ rt' = [rt EXCEPT !.cancel = @ \cup {ex[x].task}]
        BY <1>1 DEF TasksCancel
    <2>2. PICK c : c = rt.cancel \cup {ex[x].task}
        OBVIOUS
    <2>3. c \in SUBSET (Task \cup {None}) /\ rt' = [rt EXCEPT !.cancel = c]
        BY <2>1, <2>2, <1>0 DEF A2aTyped, ExRow, RuntimeTyped, RtRow
    <2>4. rt' \in RtRow /\ SameRuntime
        BY <2>1, <2>3, <1>0, EventsWritten
    <2> QED BY <2>1, <2>4, <1>0, SameMoves, AsideRestarts
<1>2. ASSUME NEW x \in Exchange, Ages(x) PROVE RestartInv'
    <2>1. UNCHANGED <<task, inst, hd, out, rt, sock>> /\ ex[x].over = "fresh" /\ ex' = [ex EXCEPT ![x].over = "old"]
        BY <1>2 DEF Ages
    <2>2. PICK r : r = [ex[x] EXCEPT !.over = "old"]
        OBVIOUS
    <2>3. /\ r.over = "old" /\ r.state = ex[x].state /\ r.task = ex[x].task
          /\ r.cleanup = ex[x].cleanup /\ r.owner = ex[x].owner /\ r.bytes = ex[x].bytes
        BY ZenonT(60), <2>2, <1>0 DEF A2aTyped, ExRow
    <2>4. ASSUME NEW y \in Exchange PROVE RowMoves(y)
        <3>1. ex' = [ex EXCEPT ![x] = r]
            BY <2>1, <2>2
        <3>2. ex'[y] = IF y = x THEN r ELSE ex[y]
            BY <3>1, <1>0 DEF A2aTyped
        <3> QED BY SMT, <3>2, <2>1, <2>3, <1>0 DEF RowMoves, Over, ContentSound
    <2>5. rt' \in RtRow /\ SameRuntime
        BY <2>1, <1>0 DEF RuntimeTyped, SameRuntime
    <2> QED BY <2>1, <2>4, <2>5, <1>0, SameMoves, AsideRestarts
<1>3. ASSUME NEW t \in InTask, TaskRuns(t) \/ TaskEnds(t) PROVE RestartInv'
    <2>1. /\ task[t].status \notin Terminal /\ t \in Task /\ t \notin Local
          /\ UNCHANGED <<ex, inst, hd, out, sock>>
          /\ \E s \in TaskState : EndsAs(t, s)
        BY <1>3, A2aAssumption DEF TaskRuns, TaskEnds, Queued, Terminal, TaskState, Task
    <2>2. PICK s \in TaskState : EndsAs(t, s)
        BY <2>1
    <2>3. \A u \in Task : u # t => task'[u] = task[u]
        BY <2>1, <2>2, <1>0, StatusWritten DEF EndsAs
    <2>4. EndsKeep /\ \A l \in Local : task'[l] = task[l]
        BY <2>1, <2>3 DEF EndsKeep, Task
    <2>5. rt' \in RtRow /\ SameRuntime
        BY <2>1, <2>2, <1>0, EndsAsRuntime
    <2> QED BY <2>1, <2>4, <2>5, <1>0, SameMoves, AsideRestarts
<1>4. ASSUME NEW t \in Task, Project(t) PROVE RestartInv'
    <2>1. UNCHANGED <<task, inst, hd, out, sock>> /\ rt' = [rt EXCEPT !.events = @ \ {t}] /\ (ex' = ex \/ ex' = Projected(t))
        BY <1>4 DEF Project
    <2>2. PICK e : e = rt.events \ {t}
        OBVIOUS
    <2>3. e \in SUBSET Task /\ rt' = [rt EXCEPT !.events = e]
        BY <2>1, <2>2, <1>0 DEF RuntimeTyped, RtRow
    <2>4. rt' \in RtRow /\ SameRuntime
        BY <2>1, <2>3, <1>0, EventsWritten
    <2>5. ASSUME ex' = Projected(t), NEW x \in Exchange PROVE RowMoves(x)
        <3>1. Stamped(ex[x], ex'[x]) /\ (ex'[x].over # "no" => Over(x))
            BY <2>5, <1>0, ProjectedIn
        <3>2. ex'[x].state = "none" => ex[x].state = "none" /\ ex'[x].task = None
            BY <3>1, <1>0 DEF Stamped, ContentSound
        <3> QED BY <3>1, <3>2, <1>0 DEF RowMoves, Stamped, ContentSound
    <2>6. \A x \in Exchange : RowMoves(x)
        BY <2>1, <2>5, <1>0, SameMoves
    <2> QED BY <2>1, <2>4, <2>6, <1>0, SameMoves, AsideRestarts
<1> QED BY <1>1, <1>2, <1>3, <1>4

\* Rows that a sweep has reconciled, and claimed some of.
LEMMA SweptContent ==
    ASSUME OnceInv, RestartInv, rt.epoch >= 1, rt'.epoch = rt.epoch, task' = task,
           NEW won \in SUBSET {x \in Exchange : Over(x)},
           \A x \in Exchange :
               /\ ex'[x].state = Reconciled[x].state /\ ex'[x].task = ex[x].task
               /\ ex'[x].over = Reconciled[x].over
               /\ x \in won => ex'[x].cleanup = "claimed" /\ ex'[x].owner = rt.epoch
               /\ x \notin won => ex'[x].cleanup = ex[x].cleanup /\ ex'[x].owner = ex[x].owner
    PROVE  ContentSound' /\ \A x \in Exchange : Over(x)' <=> Over(x)
<1>0. A2aTyped /\ ContentSound /\ rt.epoch \in Nat
    BY DEF OnceInv, RestartInv, RuntimeTyped, RtRow
<1>1. ASSUME NEW x \in Exchange
      PROVE  /\ ex'[x].over # "no" <=> Over(x)
             /\ TaskEnded(ex[x].task)' <=> TaskEnded(ex[x].task)
             /\ Over(x)' <=> Over(x)
    <2>1. ex'[x].over # "no" <=> Over(x)
        BY <1>0, ReconciledIn
    <2>2. TaskEnded(ex[x].task)' <=> TaskEnded(ex[x].task)
        BY DEF TaskEnded
    <2> QED BY <2>1, <2>2 DEF Over
<1>2. ContentSound'
    <2> SUFFICES ASSUME NEW x \in Exchange
                 PROVE  /\ ex'[x].over = "no" => ex'[x].cleanup = "pending"
                        /\ ex'[x].over # "no" => TaskEnded(ex[x].task)'
                        /\ ex'[x].cleanup = "claimed" => ex'[x].owner \in 1 .. rt'.epoch
                        /\ x \in Local => ex'[x].task \in {None, x}
                        /\ ex'[x].state = "none" => ex'[x].task = None /\ ex'[x].over = "no" /\ ex'[x].owner = 0
        BY DEF ContentSound
    <2>1. ex'[x].over = "no" => ex'[x].cleanup = "pending"
        BY SMT, <1>0, <1>1 DEF ContentSound, Over
    <2>2. ex'[x].over # "no" => TaskEnded(ex[x].task)'
        BY <1>0, <1>1, OverEnded
    <2>3. ex'[x].cleanup = "claimed" => ex'[x].owner \in 1 .. rt'.epoch
        BY SMT, <1>0 DEF ContentSound
    <2>4. ex'[x].state = "none" => ex[x].state = "none"
        BY <1>0, ReconciledIn DEF Stamped
    <2>5. ex[x].state = "none" => ex[x].task = None /\ ~Over(x) /\ ex[x].owner = 0
        BY <1>0, OverEnded DEF ContentSound
    <2> QED BY <2>1, <2>2, <2>3, <2>4, <2>5, <1>0, <1>1 DEF ContentSound
<1> QED BY <1>1, <1>2

\* What retained_terminal_bytes counts after reconcile_terminals.
LEMMA RetainedIs ==
    ASSUME A2aTyped
    PROVE  /\ Retained(Reconciled) = Cardinality(RetainedSet)
           /\ IsFiniteSet(RetainedSet) /\ Cardinality(RetainedSet) \in Nat
<1>1. {x \in Exchange : Reconciled[x].over # "no" /\ Reconciled[x].cleanup # "cleaned" /\ Reconciled[x].bytes > 0}
        = RetainedSet
    BY ReconciledIn DEF RetainedSet, Stamped
<1>2. Retained(Reconciled) = Cardinality(RetainedSet)
    BY <1>1 DEF Retained
<1>3. RetainedSet \in SUBSET Exchange
    BY DEF RetainedSet
<1>4. IsFiniteSet(RetainedSet)
    BY <1>3, A2aNames, FS_Subset
<1> QED BY <1>2, <1>4, FS_CardinalityType

\* The parts of RestartInv that a sweep does not touch.
LEMMA SweepFrame ==
    ASSUME RestartInv, UNCHANGED <<task, inst, hd, out, sock>>, rt' \in RtRow,
           rt'.phase = rt.phase, rt'.epoch = rt.epoch, rt'.crashed = rt.crashed
    PROVE  RuntimeTyped' /\ RunsSound' /\ DispatchSound' /\ HandlersOff'
BY DEF RestartInv, RuntimeTyped, RunsSound, DispatchSound, HandlersOff

\* What a runtime writes of its sweeps.
LEMMA SweepWritten ==
    ASSUME RuntimeTyped, NEW c \in SUBSET Exchange, NEW w \in {"off", "measure", "ceiling", "idle", "clean"},
           rt' = [rt EXCEPT !.claims = c, !.sweep = w]
    PROVE  /\ rt' \in RtRow /\ rt'.claims = c /\ rt'.sweep = w
           /\ rt'.phase = rt.phase /\ rt'.epoch = rt.epoch /\ rt'.crashed = rt.crashed
BY DEF RuntimeTyped, RtRow

\* The first sweeps: without anything left to claim, nothing is counted.
LEMMA StartMeasureRestarts ==
    ASSUME OnceInv, RestartInv, StartMeasure
    PROVE  RestartInv'
<1>0. /\ A2aTyped /\ RuntimeTyped /\ ContentSound /\ RunsSound /\ SweepSound
      /\ rt.phase = "starting" /\ rt.sweep = "measure" /\ UNCHANGED <<task, inst, hd, out, sock>>
    BY DEF OnceInv, RestartInv, StartMeasure
<1>1. /\ rt.epoch \in Nat /\ rt.epoch >= 1 /\ inst[rt.epoch] = "active" /\ rt.claims = {} /\ Low \in Nat
      /\ \A x \in Exchange : ~(ex[x].cleanup = "claimed" /\ ex[x].owner = rt.epoch)
    BY <1>0, A2aAssumption DEF RuntimeTyped, RtRow, RunsSound, SweepSound
<1>2. ASSUME Claim(TRUE, "ceiling") PROVE RestartInv'
    <2>1. PICK won : Claims(won, TRUE, "ceiling")
        BY <1>0, <1>2, ClaimIn
    <2>2. /\ won \in SUBSET Claimable(TRUE)
          /\ \A x \in Claimable(TRUE) : x \in Exchange /\ Over(x)
        BY <1>0, <2>1, ReconciledIn DEF Claims, Claimable, CleanupClaimable
    <2>3. /\ rt' \in RtRow /\ rt'.claims = won /\ rt'.sweep = (IF won # {} THEN "clean" ELSE "ceiling")
          /\ rt'.phase = rt.phase /\ rt'.epoch = rt.epoch /\ rt'.crashed = rt.crashed
        <3>1. PICK w \in {"clean", "ceiling"} : w = IF won # {} THEN "clean" ELSE "ceiling"
            OBVIOUS
        <3>2. rt' = [rt EXCEPT !.claims = won, !.sweep = w] /\ won \in SUBSET Exchange
            BY <2>1, <2>2, <3>1 DEF Claims
        <3> QED BY <1>0, <3>1, <3>2, SweepWritten
    <2>4. won \in SUBSET {x \in Exchange : Over(x)}
        BY <2>2
    <2>5. ContentSound' /\ \A x \in Exchange : Over(x)' <=> Over(x)
        <3>1. \A x \in Exchange :
                 /\ ex'[x].state = Reconciled[x].state /\ ex'[x].task = ex[x].task
                 /\ ex'[x].over = Reconciled[x].over
                 /\ x \in won => ex'[x].cleanup = "claimed" /\ ex'[x].owner = rt.epoch
                 /\ x \notin won => ex'[x].cleanup = ex[x].cleanup /\ ex'[x].owner = ex[x].owner
            BY <2>1 DEF Claims
        <3>2. rt.epoch >= 1 /\ rt'.epoch = rt.epoch /\ task' = task
            BY <1>0, <1>1, <2>3
        <3> QED BY <3>1, <3>2, <2>4, SweptContent
    <2>6. RuntimeTyped' /\ RunsSound' /\ DispatchSound' /\ HandlersOff'
        BY <1>0, <2>3, SweepFrame
    <2>7. ASSUME won = {}, ~rt.crashed PROVE Cardinality(RetainedSet)' <= Low
        <3>1. Claimable(TRUE) = {}
            <4>1. IsFiniteSet(Claimable(TRUE))
                BY A2aNames, FS_Subset DEF Claimable
            <4>2. Cardinality(won) = 0 /\ Batch # 0
                BY <2>7, FS_EmptySet, A2aAssumption
            <4>3. Cardinality(Claimable(TRUE)) = 0
                BY <2>1, <4>2, <1>1 DEF Claims
            <4> QED BY <4>1, <4>3, FS_EmptySet
        <3>2. ASSUME NEW x \in Exchange, Over(x) PROVE ex[x].cleanup = "cleaned"
            <4>1. PICK row \in ExRow : row = Reconciled[x]
                BY <1>0, ReconciledIn
            <4>2. row.over \in {"fresh", "old"} /\ row.cleanup = ex[x].cleanup /\ row.owner = ex[x].owner
                BY <4>1, <3>2, <1>0, ReconciledIn DEF Stamped, ExRow
            <4>3. ~CleanupClaimable(row, TRUE)
                BY <4>1, <3>1 DEF Claimable
            <4>4. ex[x].cleanup # "pending"
                BY <4>2, <4>3 DEF CleanupClaimable
            <4>5. ex[x].cleanup # "claimed"
                <5> SUFFICES ASSUME ex[x].cleanup = "claimed" PROVE FALSE
                    OBVIOUS
                <5>1. ex[x].owner \in 1 .. rt.epoch /\ ex[x].owner # rt.epoch
                    BY <1>0, <1>1 DEF ContentSound
                <5>2. inst[ex[x].owner] = "stopped"
                    BY <5>1, <2>7, <1>0 DEF RunsSound
                <5> QED BY <5>2, <4>2, <4>3 DEF CleanupClaimable
            <4> QED BY <4>1, <4>2, <4>4, <4>5 DEF ExRow
        <3>3. RetainedSet' = {}
            BY SMT, <2>1, <2>5, <2>7, <3>2 DEF RetainedSet, Claims
        <3> QED BY SMT, <3>3, <1>1, FS_EmptySet
    <2>8. SweepSound'
        BY SMT, <1>1, <2>1, <2>3, <2>7 DEF SweepSound, Claims
    <2>9. CleanStopsRestart'
        BY <1>0, <2>3 DEF CleanStopsRestart
    <2> QED BY <2>5, <2>6, <2>8, <2>9 DEF RestartInv
<1>3. ASSUME ~(Retained(Reconciled) > Low), ex' = Reconciled, rt' = [rt EXCEPT !.sweep = "ceiling"] PROVE RestartInv'
    <2>1. /\ rt' \in RtRow /\ rt'.claims = {} /\ rt'.sweep = "ceiling"
          /\ rt'.phase = rt.phase /\ rt'.epoch = rt.epoch /\ rt'.crashed = rt.crashed
        BY <1>0, <1>1, <1>3 DEF RuntimeTyped, RtRow
    <2>2. \A x \in Exchange :
               /\ ex'[x].state = Reconciled[x].state /\ ex'[x].task = ex[x].task /\ ex'[x].bytes = ex[x].bytes
               /\ ex'[x].over = Reconciled[x].over
               /\ ex'[x].cleanup = ex[x].cleanup /\ ex'[x].owner = ex[x].owner
        BY <1>0, <1>3, ReconciledIn DEF Stamped
    <2>3. {} \in SUBSET {x \in Exchange : Over(x)}
        OBVIOUS
    <2>4. ContentSound' /\ \A x \in Exchange : Over(x)' <=> Over(x)
        BY <1>0, <1>1, <2>1, <2>2, <2>3, SweptContent
    <2>5. RuntimeTyped' /\ RunsSound' /\ DispatchSound' /\ HandlersOff'
        BY <1>0, <2>1, SweepFrame
    <2>6. RetainedSet' = RetainedSet
        BY <2>2, <2>4 DEF RetainedSet
    <2>7. Cardinality(RetainedSet) <= Low
        BY SMT, <1>0, <1>1, <1>3, RetainedIs
    <2>8. SweepSound'
        BY <1>1, <2>1, <2>2, <2>6, <2>7 DEF SweepSound
    <2>9. CleanStopsRestart'
        BY <1>0, <2>1 DEF CleanStopsRestart
    <2> QED BY <2>4, <2>5, <2>8, <2>9 DEF RestartInv
<1> QED BY <1>2, <1>3 DEF StartMeasure

\* The later sweeps.
LEMMA TickRestarts ==
    ASSUME OnceInv, RestartInv, Tick
    PROVE  RestartInv'
<1>0. /\ A2aTyped /\ RuntimeTyped /\ ContentSound /\ RunsSound
      /\ rt.phase \in {"up", "stopping"} /\ UNCHANGED <<task, inst, hd, out, sock>>
    BY DEF OnceInv, RestartInv, Tick
<1>1. rt.epoch >= 1
    BY <1>0 DEF RunsSound
<1>2. PICK pressure : Claim(pressure, "idle")
    BY DEF Tick
<1>3. PICK won : Claims(won, pressure, "idle")
    BY <1>0, <1>2, ClaimIn
<1>4. /\ won \in SUBSET Claimable(pressure)
      /\ \A x \in Claimable(pressure) : x \in Exchange /\ Over(x)
    BY <1>0, <1>3, ReconciledIn DEF Claims, Claimable, CleanupClaimable
<1>5. rt' \in RtRow /\ rt'.phase = rt.phase /\ rt'.epoch = rt.epoch /\ rt'.crashed = rt.crashed
    <2>1. PICK w \in {"clean", "idle"} : w = IF won # {} THEN "clean" ELSE "idle"
        OBVIOUS
    <2>2. rt' = [rt EXCEPT !.claims = won, !.sweep = w] /\ won \in SUBSET Exchange
        BY <1>3, <1>4, <2>1 DEF Claims
    <2> QED BY <1>0, <2>1, <2>2, SweepWritten
<1>6. won \in SUBSET {x \in Exchange : Over(x)}
    BY <1>4
<1>7. ContentSound'
    <2>1. \A x \in Exchange :
               /\ ex'[x].state = Reconciled[x].state /\ ex'[x].task = ex[x].task
               /\ ex'[x].over = Reconciled[x].over
               /\ x \in won => ex'[x].cleanup = "claimed" /\ ex'[x].owner = rt.epoch
               /\ x \notin won => ex'[x].cleanup = ex[x].cleanup /\ ex'[x].owner = ex[x].owner
        BY <1>3 DEF Claims
    <2>2. task' = task
        BY <1>0
    <2> QED BY <1>1, <1>5, <1>6, <2>1, <2>2, SweptContent
<1>8. RuntimeTyped' /\ RunsSound' /\ DispatchSound' /\ HandlersOff'
    BY <1>0, <1>5, SweepFrame
<1>9. SweepSound' /\ CleanStopsRestart'
    BY <1>0, <1>5 DEF SweepSound, CleanStopsRestart
<1> QED BY <1>7, <1>8, <1>9 DEF RestartInv

\* clean_claim removes what it claimed, and the last one leads back to the measure.
LEMMA CleanRestarts ==
    ASSUME OnceInv, RestartInv, NEW x \in Exchange, Clean(x)
    PROVE  RestartInv'
<1>0. /\ A2aTyped /\ RuntimeTyped /\ ContentSound /\ RunsSound /\ SweepSound
      /\ rt.phase \in {"starting", "up", "stopping"} /\ x \in rt.claims
      /\ UNCHANGED <<task, inst, hd, out, sock>>
    BY DEF OnceInv, RestartInv, Clean, Working
<1> DEFINE valid == /\ ex[x].cleanup = "claimed" /\ ex[x].owner = rt.epoch
                    /\ inst[rt.epoch] = "active" /\ TaskEnded(ex[x].task)
<1>1. PICK left : left = rt.claims \ {x}
    OBVIOUS
<1>2. PICK w \in {"clean", "measure", "idle"} :
         w = IF left # {} THEN "clean" ELSE IF rt.phase = "starting" THEN "measure" ELSE "idle"
    OBVIOUS
<1>3. rt' = [rt EXCEPT !.claims = left, !.sweep = w] /\ left \in SUBSET Exchange
    BY <1>0, <1>1, <1>2 DEF Clean, RuntimeTyped, RtRow
<1>4. /\ rt' \in RtRow /\ rt'.claims = left /\ rt'.sweep = w
      /\ rt'.phase = rt.phase /\ rt'.epoch = rt.epoch /\ rt'.crashed = rt.crashed
    BY <1>0, <1>3, SweepWritten
<1>5. PICK r : r = [ex[x] EXCEPT !.message = FALSE, !.artifacts = FALSE, !.cleanup = "cleaned", !.bytes = 0]
    OBVIOUS
<1>6. /\ r.cleanup = "cleaned" /\ r.state = ex[x].state /\ r.task = ex[x].task
      /\ r.over = ex[x].over /\ r.owner = ex[x].owner
    BY ZenonT(60), <1>0, <1>5 DEF A2aTyped, ExRow
<1>7. ex' = IF valid THEN [ex EXCEPT ![x] = r] ELSE ex
    BY <1>5 DEF Clean
<1> HIDE DEF valid
<1>8. ASSUME NEW y \in Exchange
      PROVE  /\ ex'[y].state = ex[y].state /\ ex'[y].task = ex[y].task /\ ex'[y].over = ex[y].over
             /\ ex'[y].owner = ex[y].owner
             /\ ex'[y].cleanup = ex[y].cleanup \/ (ex'[y].cleanup = "cleaned" /\ ex[y].cleanup = "claimed")
             /\ y = x /\ valid => ex'[y].cleanup = "cleaned"
    <2>1. CASE ~valid
        BY <1>7, <2>1
    <2>2. CASE valid
        <3>1. ex'[y] = IF y = x THEN r ELSE ex[y]
            BY <1>0, <1>7, <2>2 DEF A2aTyped
        <3> QED BY <3>1, <1>6, <2>2 DEF valid
    <2> QED BY <2>1, <2>2
<1>9. ContentSound'
    <2> SUFFICES ASSUME NEW y \in Exchange
                 PROVE  /\ ex'[y].over = "no" => ex'[y].cleanup = "pending"
                        /\ ex'[y].over # "no" => TaskEnded(ex[y].task)'
                        /\ ex'[y].cleanup = "claimed" => ex'[y].owner \in 1 .. rt'.epoch
                        /\ y \in Local => ex'[y].task \in {None, y}
                        /\ ex'[y].state = "none" => ex'[y].task = None /\ ex'[y].over = "no" /\ ex'[y].owner = 0
        BY DEF ContentSound
    <2>1. TaskEnded(ex[y].task)' <=> TaskEnded(ex[y].task)
        BY <1>0, <1>8 DEF TaskEnded
    <2> QED BY SMT, <2>1, <1>0, <1>4, <1>8 DEF ContentSound
<1>10. RuntimeTyped' /\ RunsSound' /\ DispatchSound' /\ HandlersOff'
    BY <1>0, <1>4, SweepFrame
<1>11. SweepSound'
    <2> SUFFICES ASSUME rt.phase = "starting"
                 PROVE  /\ rt'.sweep \in {"measure", "clean"}
                        /\ rt'.sweep # "clean" => rt'.claims = {}
                        /\ \A y \in Exchange : ex'[y].cleanup = "claimed" /\ ex'[y].owner = rt'.epoch => y \in rt'.claims
        BY <1>4 DEF SweepSound
    <2>1. rt'.sweep \in {"measure", "clean"} /\ (rt'.sweep # "clean" => rt'.claims = {})
        BY <1>2, <1>4
    <2>2. ASSUME NEW y \in Exchange, ex'[y].cleanup = "claimed", ex'[y].owner = rt'.epoch PROVE y \in left
        <3>1. ex[y].cleanup = "claimed" /\ ex[y].owner = rt.epoch
            BY <2>2, <1>4, <1>8
        <3>2. y \in rt.claims
            BY <3>1, <1>0 DEF SweepSound
        <3>3. y # x
            <4> SUFFICES ASSUME y = x PROVE valid
                BY <2>2, <1>8
            <4>1. inst[rt.epoch] = "active"
                BY <1>0 DEF RunsSound
            <4>2. ex[x].over # "no"
                BY <3>1, <1>0 DEF ContentSound
            <4> QED BY <3>1, <4>1, <4>2, <1>0 DEF valid, ContentSound
        <3> QED BY <3>2, <3>3, <1>1
    <2> QED BY <2>1, <2>2, <1>4
<1>12. CleanStopsRestart'
    BY <1>0, <1>4 DEF CleanStopsRestart
<1> QED BY <1>9, <1>10, <1>11, <1>12 DEF RestartInv

\* One storage error ends the cleanup of a runtime that is up.
LEMMA CleanupFailsRestarts ==
    ASSUME OnceInv, RestartInv, CleanupFails
    PROVE  RestartInv'
<1>0. /\ A2aTyped /\ RuntimeTyped /\ ContentSound /\ rt.phase \in {"up", "stopping"}
      /\ UNCHANGED <<ex, task, inst, hd, out, sock>> /\ rt' = [rt EXCEPT !.claims = {}, !.sweep = "off"]
    BY DEF OnceInv, RestartInv, CleanupFails, RuntimeTyped, RtRow
<1>1. /\ rt' \in RtRow /\ rt'.phase = rt.phase /\ rt'.epoch = rt.epoch /\ rt'.crashed = rt.crashed
    BY <1>0 DEF RuntimeTyped, RtRow
<1>2. RuntimeTyped' /\ RunsSound' /\ DispatchSound' /\ HandlersOff'
    BY <1>0, <1>1, SweepFrame
<1>3. ContentSound'
    BY <1>0, <1>1 DEF ContentSound, TaskEnded
<1>4. SweepSound' /\ CleanStopsRestart'
    BY <1>0, <1>1 DEF SweepSound, CleanStopsRestart
<1> QED BY <1>2, <1>3, <1>4 DEF RestartInv

\* The check after the first sweeps.
LEMMA ListenRestarts ==
    ASSUME OnceInv, RestartInv, Listen
    PROVE  RestartInv'
<1> DEFINE refused == Retained(Reconciled) > Ceiling \/ sock
<1>0. /\ A2aTyped /\ RuntimeTyped /\ ContentSound /\ RunsSound /\ SweepSound /\ DispatchSound /\ HandlersOff
      /\ rt.phase = "starting" /\ rt.sweep = "ceiling" /\ UNCHANGED <<task, inst, hd, out>> /\ ex' = Reconciled
    BY DEF OnceInv, RestartInv, Listen
<1>1. /\ rt' = [rt EXCEPT !.phase = IF refused THEN "refused" ELSE "up",
                          !.sweep = IF refused THEN "off" ELSE "idle"]
      /\ sock' = (sock \/ ~refused)
    BY DEF Listen
<1>2. /\ rt' \in RtRow /\ rt'.phase = (IF refused THEN "refused" ELSE "up")
      /\ rt'.epoch = rt.epoch /\ rt'.crashed = rt.crashed
    BY <1>0, <1>1 DEF RuntimeTyped, RtRow
<1>3. \A x \in Exchange :
         /\ ex'[x].state = Reconciled[x].state /\ ex'[x].task = ex[x].task
         /\ ex'[x].over = Reconciled[x].over
         /\ ex'[x].cleanup = ex[x].cleanup /\ ex'[x].owner = ex[x].owner
    BY <1>0, ReconciledIn DEF Stamped
<1>4. rt.epoch >= 1 /\ {} \in SUBSET {x \in Exchange : Over(x)}
    BY <1>0 DEF RunsSound
<1>5. ContentSound'
    BY <1>0, <1>2, <1>3, <1>4, SweptContent
<1>6. RuntimeTyped'
    BY <1>0, <1>1, <1>2 DEF RuntimeTyped
<1>7. ~rt.crashed => ~sock
    BY <1>0 DEF RunsSound
<1>8. RunsSound'
    <2>1. rt'.phase = "refused" => sock' = sock
        BY SMT, <1>0, <1>1, <1>2 DEF RuntimeTyped
    <2>2. rt'.phase \in {"refused", "up"}
        BY <1>2
    <2> HIDE DEF refused
    <2> QED BY SMT, <1>0, <1>2, <1>7, <2>1, <2>2 DEF RunsSound
<1>9. DispatchSound' /\ HandlersOff' /\ SweepSound'
    BY <1>0, <1>2 DEF DispatchSound, HandlersOff, SweepSound
<1>10. ASSUME refused, ~rt.crashed PROVE \E x \in Exchange : ex'[x].over # "no" /\ ex'[x].cleanup = "pending"
    <2>1. Retained(Reconciled) > Ceiling
        BY <1>7, <1>10
    <2>2. Cardinality(RetainedSet) \in Nat /\ Cardinality(RetainedSet) > Ceiling
        BY <2>1, <1>0, RetainedIs
    <2>3. ~(Cardinality(RetainedSet) <= Low)
        BY SMT, <2>2, A2aAssumption
    <2>4. PendingOver
        BY <2>3, <1>0, <1>10 DEF SweepSound
    <2>5. PICK x \in Exchange : Over(x) /\ ex[x].cleanup = "pending"
        BY <2>4 DEF PendingOver
    <2>6. ex'[x].over # "no" /\ ex'[x].cleanup = "pending"
        BY <2>5, <1>0, <1>3, ReconciledIn
    <2> QED BY <2>6
<1>11. CleanStopsRestart'
    BY <1>2, <1>10 DEF CleanStopsRestart
<1> QED BY <1>5, <1>6, <1>8, <1>9, <1>11 DEF RestartInv

\* A start finds every runtime stopped and no task under way; what was queued is
\* queued again.
LEMMA BeginRestarts ==
    ASSUME OnceInv, RestartInv, Begin
    PROVE  RestartInv'
<1>0. /\ A2aTyped /\ RuntimeTyped /\ ContentSound /\ RunsSound /\ DispatchSound /\ HandlersOff
      /\ rt.phase = "down" /\ rt.epoch < Epochs /\ UNCHANGED <<ex, hd, out, sock>>
      /\ rt.epoch \in Nat /\ Epochs \in Nat
    BY A2aAssumption DEF OnceInv, RestartInv, Begin, RuntimeTyped, RtRow
<1>1. PICK e \in Nat : e = rt.epoch + 1
    BY SMT, <1>0
<1>2. /\ rt'.phase = "starting" /\ rt'.epoch = e /\ rt'.sweep = "measure" /\ rt'.claims = {}
      /\ rt'.crashed = rt.crashed /\ rt' \in RtRow /\ inst' = [inst EXCEPT ![e] = "active"]
    BY <1>0, <1>1 DEF Begin, RuntimeTyped, RtRow
<1>3. e \in Epoch /\ e >= 1 /\ rt.epoch <= e /\ e <= Epochs
      /\ \A d \in 1 .. e : d = e \/ d \in 1 .. rt.epoch
    BY SMT, <1>0, <1>1 DEF Epoch
<1>4. ASSUME NEW t \in Task PROVE task'[t].status = task[t].status
    <2>1. task[t] \in TaskRow
        BY <1>0 DEF A2aTyped
    <2>2. task'[t] = task[t] \/ task'[t] = [task[t] EXCEPT !.sent = TRUE]
        BY DEF Begin
    <2> QED BY <2>1, <2>2 DEF TaskRow
<1>5. EndsKeep /\ \A x \in Exchange : RowMoves(x)
    BY <1>0, <1>4, SameMoves DEF EndsKeep
<1>6. ContentSound'
    BY <1>0, <1>2, <1>3, <1>5, ContentKept
<1>7. RuntimeTyped' /\ inst'[e] = "active" /\ \A d \in Epoch : d # e => inst'[d] = inst[d]
    BY <1>0, <1>2, <1>3 DEF RuntimeTyped
<1>8. RunsSound'
    <2>1. ASSUME ~rt.crashed, NEW d \in 1 .. e PROVE inst'[d] = "stopped" \/ d = e
        <3>1. d \in Epoch
            BY SMT, <1>0, <1>3 DEF Epoch
        <3> QED BY <2>1, <3>1, <1>0, <1>3, <1>7 DEF RunsSound
    <2>2. ~rt.crashed => ~sock'
        BY <1>0 DEF RunsSound
    <2> QED BY <2>1, <2>2, <1>2, <1>3, <1>7 DEF RunsSound
<1>9. DispatchSound'
    <2>1. \A l \in Local : out'[l].pc = "idle"
        BY SMT, <1>0 DEF DispatchSound, NoDispatch
    <2> QED BY <2>1, <1>2 DEF DispatchSound
<1>10. HandlersOff'
    BY <1>0 DEF HandlersOff
<1>11. SweepSound'
    <2>1. \A x \in Exchange : ~(ex'[x].cleanup = "claimed" /\ ex'[x].owner = e)
        BY SMT, <1>0, <1>1 DEF ContentSound
    <2> QED BY <2>1, <1>2 DEF SweepSound
<1>12. CleanStopsRestart'
    BY <1>2 DEF CleanStopsRestart
<1> QED BY <1>6, <1>7, <1>8, <1>9, <1>10, <1>11, <1>12 DEF RestartInv

\* The end of a process: nothing of it is left but the tables and perhaps the socket.
LEMMA GoneRestarts ==
    ASSUME OnceInv, RestartInv, NEW crashed \in BOOLEAN, Gone(crashed), UNCHANGED <<ex, task>>, sock' \in BOOLEAN,
           rt.phase # "down", inst' = inst \/ inst' = [inst EXCEPT ![rt.epoch] = "stopped"],
           ~crashed => /\ inst' = [inst EXCEPT ![rt.epoch] = "stopped"]
                       /\ ~rt.crashed => ~sock'
    PROVE  RestartInv'
<1>0. /\ A2aTyped /\ RuntimeTyped /\ ContentSound /\ RunsSound
      /\ rt.epoch \in Nat /\ rt.epoch >= 1 /\ rt.epoch <= Epochs /\ Epochs \in Nat
    BY A2aAssumption DEF OnceInv, RestartInv, RunsSound, RuntimeTyped, RtRow
<1>1. PICK c \in BOOLEAN : c <=> rt.crashed \/ crashed
    BY <1>0 DEF RuntimeTyped, RtRow
<1>2. rt' = [rt EXCEPT !.phase = "down", !.sweep = "off", !.claims = {}, !.events = {}, !.cancel = {}, !.crashed = c]
    BY <1>0, <1>1 DEF Gone, RuntimeTyped, RtRow
<1>3. rt' \in RtRow /\ rt'.phase = "down" /\ rt'.epoch = rt.epoch /\ rt'.crashed = c
    BY <1>0, <1>2 DEF RuntimeTyped, RtRow
<1>4. rt.epoch \in Epoch
    BY SMT, <1>0 DEF Epoch
<1>5. out' = [l \in Local |-> NoDispatch] /\ hd' = [h \in Handler |-> Idle]
    BY DEF Gone
<1>6. RuntimeTyped'
    <2>1. out' \in [Local -> OutRow]
        BY <1>5 DEF NoDispatch, OutRow
    <2> QED BY <2>1, <1>0, <1>3, <1>4 DEF RuntimeTyped
<1>7. ContentSound'
    BY SMT, <1>0, <1>3, SameMoves, ContentKept
<1>8. RunsSound'
    <2>1. ASSUME ~c, NEW d \in 1 .. rt.epoch PROVE inst'[d] = "stopped"
        <3>1. d \in Epoch
            BY SMT, <1>0 DEF Epoch
        <3>2. inst[d] = "stopped" \/ d = rt.epoch
            BY <2>1, <1>0, <1>1 DEF RunsSound
        <3> QED BY <2>1, <3>1, <3>2, <1>0, <1>1, <1>4 DEF RuntimeTyped
    <2>2. ~c => ~sock'
        BY <1>1
    <2> QED BY <2>1, <2>2, <1>0, <1>3 DEF RunsSound
<1>9. DispatchSound'
    BY <1>5 DEF DispatchSound, NoDispatch
<1>10. HandlersOff' /\ SweepSound' /\ CleanStopsRestart'
    BY <1>3, <1>5 DEF HandlersOff, SweepSound, CleanStopsRestart
<1> QED BY <1>6, <1>7, <1>8, <1>9, <1>10 DEF RestartInv

\* A refused start, the two halves of a stop, and a crash.
LEMMA EndRestarts ==
    ASSUME OnceInv, RestartInv, StartRefused \/ FinishStop \/ A2aCrash
    PROVE  RestartInv'
<1>0. RuntimeTyped /\ RunsSound
    BY DEF RestartInv
<1>1. CASE StartRefused
    <2>1. /\ Gone(FALSE) /\ UNCHANGED <<ex, task, sock>> /\ rt.phase = "refused"
          /\ inst' = [inst EXCEPT ![rt.epoch] = "stopped"]
        BY <1>1 DEF StartRefused
    <2>2. (~rt.crashed => ~sock') /\ sock' \in BOOLEAN
        BY <2>1, <1>0 DEF RunsSound, RuntimeTyped
    <2> QED BY <2>1, <2>2, GoneRestarts
<1>2. CASE FinishStop
    <2>1. /\ Gone(FALSE) /\ UNCHANGED <<ex, task>> /\ rt.phase = "stopping" /\ sock' = FALSE
          /\ inst' = [inst EXCEPT ![rt.epoch] = "stopped"]
        BY <1>2 DEF FinishStop, SocketRemoved
    <2> QED BY <2>1, GoneRestarts
<1>3. CASE A2aCrash
    <2>1. Gone(TRUE) /\ UNCHANGED <<ex, task, inst, sock>> /\ rt.phase # "down" /\ sock' \in BOOLEAN
        BY <1>3, <1>0 DEF A2aCrash, Working, RuntimeTyped
    <2> QED BY <2>1, GoneRestarts
<1> QED BY <1>1, <1>2, <1>3

\* stopping_runtime.
LEMMA StopRestarts ==
    ASSUME OnceInv, RestartInv, Stop
    PROVE  RestartInv'
<1>0. /\ A2aTyped /\ RuntimeTyped /\ ContentSound /\ RunsSound /\ DispatchSound /\ rt.phase = "up"
      /\ UNCHANGED <<ex, task, hd, out, sock>> /\ rt' = [rt EXCEPT !.phase = "stopping"]
      /\ inst' = [inst EXCEPT ![rt.epoch] = "stopping"]
      /\ rt.epoch \in Nat /\ rt.epoch >= 1 /\ rt.epoch <= Epochs /\ Epochs \in Nat
    BY A2aAssumption DEF OnceInv, RestartInv, Stop, RunsSound, RuntimeTyped, RtRow
<1>1. rt' \in RtRow /\ rt'.phase = "stopping" /\ rt'.epoch = rt.epoch /\ rt'.crashed = rt.crashed
    BY <1>0 DEF RuntimeTyped, RtRow
<1>2. RuntimeTyped'
    BY <1>0, <1>1 DEF RuntimeTyped
<1>3. ContentSound'
    BY SMTT(30), <1>0, <1>1, SameMoves, ContentKept
<1>4. RunsSound'
    <2>1. \A d \in 1 .. rt.epoch : d # rt.epoch => inst'[d] = inst[d]
        BY SMT, <1>0 DEF RuntimeTyped, Epoch
    <2> QED BY <2>1, <1>0, <1>1 DEF RunsSound
<1>5. DispatchSound' /\ HandlersOff' /\ SweepSound' /\ CleanStopsRestart'
    BY <1>0, <1>1 DEF DispatchSound, HandlersOff, SweepSound, CleanStopsRestart
<1> QED BY <1>2, <1>3, <1>4, <1>5 DEF RestartInv

\* Between two processes an operator closes the row of a dead runtime, fails a task it
\* left under way, or removes its socket.
LEMMA RepairRestarts ==
    ASSUME OnceInv, RestartInv, Repair
    PROVE  RestartInv'
<1>0. /\ A2aTyped /\ RuntimeTyped /\ ContentSound /\ RunsSound /\ DispatchSound /\ HandlersOff
      /\ rt.phase = "down" /\ UNCHANGED <<ex, hd, out, rt>>
      /\ rt.epoch \in Nat /\ rt.epoch <= Epochs /\ Epochs \in Nat
    BY A2aAssumption DEF OnceInv, RestartInv, Repair, RunsSound, RuntimeTyped, RtRow
<1>1. /\ inst' \in [Epoch -> {"absent", "active", "stopping", "stopped"}]
      /\ \A e \in Epoch : inst[e] = "stopped" => inst'[e] = "stopped"
      /\ sock' \in BOOLEAN /\ (sock' => sock)
    <2>1. sock' \in BOOLEAN /\ (sock' => sock)
        <3>1. sock' = sock \/ sock' = FALSE
            BY DEF Repair
        <3>2. sock \in BOOLEAN
            BY <1>0 DEF RuntimeTyped
        <3>3. CASE sock' = sock
            BY <3>2, <3>3
        <3>4. CASE sock' = FALSE
            <4>1. ~sock'
                BY <3>4
            <4> QED BY <3>4, <4>1
        <3> QED BY <3>1, <3>3, <3>4
    <2>2. inst' = inst \/ \E e \in Epoch : inst' = [inst EXCEPT ![e] = "stopped"]
        BY DEF Repair
    <2> QED BY <1>0, <2>1, <2>2 DEF RuntimeTyped
<1>2. EndsKeep
    <2>1. CASE UNCHANGED task
        BY <2>1 DEF EndsKeep
    <2>2. ASSUME NEW t \in Task, task[t].status \in {"dispatched", "running"},
                 task' = [task EXCEPT ![t].status = "failed"]
          PROVE  EndsKeep
        <3> SUFFICES ASSUME NEW u \in Task, task[u].status \in Terminal PROVE task'[u].status \in Terminal
            BY DEF EndsKeep
        <3>1. u # t
            BY <2>2 DEF Terminal
        <3> QED BY <3>1, <2>2, <1>0 DEF A2aTyped
    <2> QED BY <2>1, <2>2 DEF Repair
<1>3. ContentSound'
    BY SMTT(30), <1>0, <1>2, SameMoves, ContentKept
<1>4. RuntimeTyped'
    BY <1>0, <1>1 DEF RuntimeTyped
<1>5. RunsSound'
    <2>1. \A e \in 1 .. rt.epoch : e \in Epoch
        BY SMT, <1>0 DEF Epoch
    <2> QED BY <2>1, <1>0, <1>1 DEF RunsSound
<1>6. DispatchSound'
    <2>1. \A l \in Local : out'[l].pc = "idle"
        BY SMT, <1>0 DEF DispatchSound, NoDispatch
    <2> QED BY <2>1, <1>0 DEF DispatchSound
<1>7. HandlersOff' /\ SweepSound' /\ CleanStopsRestart'
    BY <1>0 DEF HandlersOff, SweepSound, CleanStopsRestart
<1> QED BY ZenonT(60), <1>3, <1>4, <1>5, <1>6, <1>7 DEF RestartInv

\* Before the first start.
LEMMA RestartStarts ==
    ASSUME A2aInit
    PROVE  RestartInv
<1>1. /\ rt \in RtRow /\ rt.phase = "down" /\ rt.epoch = 0 /\ ~rt.crashed /\ sock = FALSE
    BY DEF A2aInit, RtRow
<1>2. out = [l \in Local |-> NoDispatch] /\ out \in [Local -> OutRow]
    BY DEF A2aInit, NoDispatch, OutRow
<1>3. RuntimeTyped
    BY <1>1, <1>2 DEF A2aInit, RuntimeTyped
<1>4. ASSUME NEW x \in Exchange
      PROVE  ex[x].over = "no" /\ ex[x].cleanup = "pending" /\ ex[x].task = None /\ ex[x].owner = 0
    BY DEF A2aInit, NoRow
<1>5. ContentSound
    BY <1>4 DEF ContentSound
<1>6. RunsSound
    BY SMT, <1>1, A2aAssumption DEF RunsSound
<1>7. DispatchSound
    BY <1>2 DEF DispatchSound, NoDispatch
<1>8. HandlersOff
    BY DEF A2aInit, HandlersOff
<1>9. SweepSound /\ CleanStopsRestart
    BY <1>1 DEF SweepSound, CleanStopsRestart
<1> QED BY ZenonT(60), <1>3, <1>5, <1>6, <1>7, <1>8, <1>9 DEF RestartInv

\* Every step.
LEMMA RestartSteps ==
    ASSUME OnceInv, RestartInv, [A2aNext]_a2aVars
    PROVE  RestartInv'
<1>1. CASE \E h \in Handler : Serve(h)
    BY <1>1, ServeRestarts
<1>2. CASE \/ \E x \in Exchange : TasksCancel(x) \/ Ages(x)
           \/ \E t \in InTask : TaskRuns(t) \/ TaskEnds(t)
           \/ \E t \in Task : Project(t)
    BY <1>2, EventsRestart
<1>3. CASE \E l \in Local : Delegate(l)
    BY <1>3, DelegateRestarts
<1>4. CASE Cleanup
    BY <1>4, StartMeasureRestarts, TickRestarts, CleanRestarts DEF Cleanup
<1>5. CASE CleanupFails \/ Begin \/ Listen
    BY <1>5, CleanupFailsRestarts, BeginRestarts, ListenRestarts
<1>6. CASE StartRefused \/ Stop \/ FinishStop \/ A2aCrash \/ Repair
    BY ZenonT(60), <1>6, EndRestarts, StopRestarts, RepairRestarts
<1>7. CASE UNCHANGED a2aVars
    <2>1. UNCHANGED <<ex, task, inst, hd, out, rt, sock>>
        BY <1>7 DEF a2aVars
    <2> QED BY ZenonT(60), <2>1 DEF RestartInv, RuntimeTyped, ContentSound, TaskEnded, RunsSound, DispatchSound, HandlersOff,
                        SweepSound, PendingOver, RetainedSet, Over, CleanStopsRestart
<1> QED BY ZenonT(60), <1>1, <1>2, <1>3, <1>4, <1>5, <1>6, <1>7 DEF A2aNext

\* Both, in every reachable state.
LEMMA ExchangeInvariant ==
    A2aSpec => [](OnceInv /\ RestartInv)
<1>1. A2aInit => OnceInv /\ RestartInv
    BY OnceStarts, RestartStarts
<1>2. OnceInv /\ RestartInv /\ [A2aNext]_a2aVars => (OnceInv /\ RestartInv)'
    <2> SUFFICES ASSUME OnceInv, RestartInv, [A2aNext]_a2aVars PROVE OnceInv' /\ RestartInv'
        OBVIOUS
    <2>1. RuntimeTyped
        BY DEF RestartInv
    <2> QED BY <2>1, OnceSteps, RestartSteps
<1> QED BY <1>1, <1>2, PTL DEF A2aSpec

\* However often a peer repeats a request, over however many connections, runtimes and
\* crashes: it is one task, every answer names that task and its last state, and a
\* task of ours is sent to its peer at most once.
THEOREM ExchangeStaysOnce ==
    A2aSpec => []ExchangeOnce
BY ExchangeInvariant, OnceShown, PTL

\* As long as no process has died, a start is refused only while there is content that
\* a task has just left and that no sweep has claimed: the first sweeps of
\* start_cleanup bring everything else under the ceiling, and no socket is left.
THEOREM CleanStopsStayRestartable ==
    A2aSpec => []CleanStopsRestart
<1>1. RestartInv => CleanStopsRestart
    BY DEF RestartInv
<1> QED BY <1>1, ExchangeInvariant, PTL
=============================================================================
