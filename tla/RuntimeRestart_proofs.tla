----------------------- MODULE RuntimeRestart_proofs -----------------------
(***************************************************************************)
(* Proofs about RuntimeRestart for every set of tokens and tasks, every    *)
(* channel capacity and every number of crashes.                           *)
(***************************************************************************)
EXTENDS RuntimeRestart, TLAPS

\* Zenon proves a step that names no other prover.
USE Zenon

\* TypeOK without the bound on the channel, which takes a count of its own.
Columns ==
    /\ lock \in Token \cup {None}
    /\ phase \in [Token -> Owned \cup {"new", "begin", "stale", "dead"}]
    /\ inst \in [Token -> {"absent", "active", "stopping", "stopped"}]
    /\ adm \in [Task -> [state : AdmissionState, rev : Nat, owner : Token \cup {None}]]
    /\ open \in [Task -> {"closed", "open", "recovery"}]
    /\ eligible \subseteq [task : Task, rev : Nat]
    /\ flight \in [Task -> [step : {"none", "permit", "admitted", "claimed", "failed", "lost"}, rev : Nat]]
    /\ chan \in Seq(Task)
    /\ at \subseteq Task
    /\ worker \in {"none", "up", "failed", "aborted", "done"}
    /\ by \in [Task -> Token \cup {None}]

\* Whoever has left "new" and is not gone holds the flock.
LockHeld == \A k \in Token : phase[k] \notin {"new", "dead"} => lock = k

\* What the process that holds the lock has in memory, by its phase.
MemoryFits ==
    /\ lock = None \/ phase[lock] \in {"new", "begin", "stale", "classify", "held", "dead"} =>
         /\ eligible = {} /\ chan = <<>> /\ at = {} /\ worker = "none"
         /\ \A t \in Task : flight[t] = NoFlight
    /\ eligible # {} => lock # None /\ phase[lock] = "assemble"
    /\ lock # None /\ phase[lock] = "assemble" =>
         worker = "none" /\ at = {} /\ \A t \in Task : flight[t].step # "permit"

\* The part of the inductive invariant that is about the processes.
ProcessInv == Columns /\ LockHeld /\ LiveRuntimeKeepsRow /\ MemoryFits

InChan(t) == \E i \in 1 .. Len(chan) : chan[i] = t

\* An admission in progress holds its row: nobody else has the task, and the
\* revision it will release is the one in the row.  A lost one is still the only
\* trace of its row, which names the process that lost it.
HoldsRow(t) ==
    /\ flight[t].step # "none"
    /\ t \notin at /\ ~InChan(t)
    /\ flight[t].step = "admitted" => adm[t].state = "ready"
    /\ flight[t].step # "admitted" => adm[t].state = "enqueued" /\ adm[t].owner = lock
    /\ flight[t].step \in {"claimed", "failed"} => adm[t].rev = flight[t].rev

FlightHoldsRow == \A t \in Task : flight[t] # NoFlight => HoldsRow(t)

\* What the worker has taken was admitted for this process, and has left the channel.
TakenLeftChannel ==
    \A t \in at : /\ adm[t].state # "absent" /\ ~InChan(t)
                  /\ adm[t].state = "enqueued" => adm[t].owner = lock

\* An entry of the recovery loop still describes its row when its turn comes.
Current(t, rev) ==
    /\ adm[t].rev = rev /\ flight[t] = NoFlight
    /\ adm[t].state \in {"ready", "enqueued"}
    /\ adm[t].state = "enqueued" => adm[t].owner # None /\ inst[adm[t].owner] = "stopped"

EligibleCurrent == \A e \in eligible : Current(e.task, e.rev)

\* Where an enqueued row may be, from the classification to the end of the worker.
Found(t) ==
    \/ t \in at
    \/ flight[t].step \in {"permit", "claimed", "failed", "lost"}
    \/ InChan(t)
    \/ \E e \in eligible : e.task = t

Assembling == lock # None /\ phase[lock] = "assemble"
Serving == lock # None /\ worker = "up"

\* EnqueuedIsAccountedFor, from the classification on.
EnqueuedFound ==
    Assembling \/ Serving => \A t \in Task : adm[t].state = "enqueued" => Found(t)

\* The part of the inductive invariant that is about the admission rows.
RowsInv ==
    /\ QueueMatchesRows /\ FlightHoldsRow /\ TakenLeftChannel
    /\ EligibleCurrent /\ EnqueuedFound

\* The inductive invariant.
RestartInv == ProcessInv /\ RowsInv /\ NoOrphanedWork

-----------------------------------------------------------------------------
(* Frames.                                                                 *)

\* What Append does to the positions of the channel.
LEMMA AppendFacts ==
    ASSUME NEW c \in Seq(Task), NEW x \in Task, NEW d, d = Append(c, x)
    PROVE  /\ d \in Seq(Task)
           /\ \A i \in 1 .. Len(c) : i \in 1 .. Len(d) /\ d[i] = c[i]
           /\ Len(c) + 1 \in 1 .. Len(d) /\ d[Len(c) + 1] = x
           /\ \A i \in 1 .. Len(d) : (i \in 1 .. Len(c) /\ d[i] = c[i]) \/ (i = Len(c) + 1 /\ d[i] = x)
<1>1. /\ d \in Seq(Task) /\ Len(c) \in Nat /\ Len(d) = Len(c) + 1 /\ d[Len(c) + 1] = x
      /\ \A i \in 1 .. Len(c) : d[i] = c[i]
  BY SMT
<1>2. \A i \in 1 .. Len(d) : i \in 1 .. Len(c) \/ i = Len(c) + 1
  BY SMT, <1>1
<1>3. Len(c) + 1 \in 1 .. Len(d) /\ \A i \in 1 .. Len(c) : i \in 1 .. Len(d)
  BY SMT, <1>1
<1> QED
  BY <1>1, <1>2, <1>3

\* An empty channel has nothing to agree with.
LEMMA EmptyChannel == chan = <<>> => QueueMatchesRows /\ \A u : ~InChan(u)
  BY SMT DEF QueueMatchesRows, InChan

\* What a compare-and-swap leaves in the row it writes, and in the others.
LEMMA WriteRow ==
    ASSUME Columns, NEW t \in Task, NEW state \in AdmissionState, NEW owner \in Token \cup {None},
           Write(t, state, owner)
    PROVE  /\ adm' \in [Task -> [state : AdmissionState, rev : Nat, owner : Token \cup {None}]]
           /\ adm'[t].state = state /\ adm'[t].owner = owner /\ adm'[t].rev = adm[t].rev + 1
           /\ \A u \in Task : u # t => adm'[u] = adm[u]
<1>1. adm \in [Task -> [state : AdmissionState, rev : Nat, owner : Token \cup {None}]]
  BY DEF Columns
<1>2. PICK row \in [state : AdmissionState, rev : Nat, owner : Token \cup {None}] :
        row = [state |-> state, rev |-> adm[t].rev + 1, owner |-> owner]
  <2>1. adm[t].rev + 1 \in Nat
    BY SMT, <1>1
  <2> QED
    BY <2>1
<1>3. adm' = [adm EXCEPT ![t] = row]
  BY <1>2 DEF Write
<1> QED
  BY <1>1, <1>2, <1>3

\* An entry is its task and its revision.
LEMMA EntryIs ==
    ASSUME NEW d \in [task : Task, rev : Nat], NEW e \in [task : Task, rev : Nat],
           d.task = e.task, d.rev = e.rev
    PROVE  d = e
  BY SMT

\* What is in the channel is a task.
LEMMA InChanTask == Columns => \A u : InChan(u) => u \in Task
  BY SMT DEF Columns, InChan

\* A channel that is left alone holds what it held.
LEMMA InChanSame == chan' = chan => \A u : InChan(u)' <=> InChan(u)
  BY DEF InChan

\* An admission that is left alone, with its row, still holds its row.
LEMMA HoldsSame ==
    ASSUME NEW u, u \in at' => u \in at, InChan(u)' => InChan(u), lock' = lock,
           adm'[u] = adm[u], flight'[u] = flight[u], HoldsRow(u)
    PROVE  HoldsRow(u)'
  BY SMT DEF HoldsRow

\* An entry whose row and admission are left alone stays current.
LEMMA CurrentSame ==
    ASSUME NEW u, NEW rev, inst' = inst, adm'[u] = adm[u], flight'[u] = flight[u], Current(u, rev)
    PROVE  Current(u, rev)'
  BY DEF Current

-----------------------------------------------------------------------------
(* Steps that leave no process behind.                                     *)

\* Nothing in memory: there is nothing for the rows to agree with.
MemoryEmpty ==
    /\ eligible = {} /\ chan = <<>> /\ at = {} /\ worker = "none"
    /\ \A t \in Task : flight[t] = NoFlight

\* Rows and an empty memory agree, whatever the rows are.
LEMMA EmptyAgrees == MemoryEmpty /\ ~Assembling => RowsInv
  BY SMT DEF MemoryEmpty, RowsInv, QueueMatchesRows, FlightHoldsRow, TakenLeftChannel, EligibleCurrent,
         EnqueuedFound, Serving, NoFlight, InChan

\* Between two processes.
NobodyRuns == lock = None /\ MemoryEmpty /\ \A k \in Token : phase[k] \in {"new", "dead"}

\* Between two processes only the columns are left to keep.
LEMMA NobodyRunsKeeps == Columns /\ NobodyRuns => RestartInv
<1> SUFFICES ASSUME Columns, NobodyRuns PROVE RestartInv
  OBVIOUS
<1>1. ProcessInv
  BY DEF ProcessInv, NobodyRuns, MemoryEmpty, LockHeld, LiveRuntimeKeepsRow, MemoryFits, Owned
<1>2. RowsInv
  BY EmptyAgrees DEF NobodyRuns, Assembling
<1>3. NoOrphanedWork
  BY DEF NoOrphanedWork, NobodyRuns, Owned
<1> QED
  BY <1>1, <1>2, <1>3 DEF RestartInv

\* A process that ends leaves its lock and takes its memory with it.
LEMMA GoneKeeps ==
    ASSUME ProcessInv, NEW k \in Token, phase[k] \notin {"new", "dead"}, Gone(k),
           adm' = adm, open' = open, by' = by,
           inst' \in [Token -> {"absent", "active", "stopping", "stopped"}]
    PROVE  RestartInv'
<1>1. lock = k
  BY DEF ProcessInv, LockHeld
<1>2. lock' = None /\ \A j \in Token : phase'[j] \in {"new", "dead"}
  BY <1>1 DEF ProcessInv, LockHeld, Columns, Gone
<1>3. /\ eligible' = {} /\ chan' = <<>> /\ at' = {} /\ worker' = "none"
      /\ flight' = [t \in Task |-> NoFlight]
  BY DEF Gone
<1>4. NobodyRuns'
  BY <1>2, <1>3 DEF NobodyRuns, MemoryEmpty
<1>5. phase' \in [Token -> Owned \cup {"new", "begin", "stale", "dead"}]
  BY DEF ProcessInv, Columns, Gone
<1>6. Columns'
  BY SMT, <1>2, <1>3, <1>5 DEF ProcessInv, Columns, NoFlight
<1> QED
  BY <1>4, <1>6, NobodyRunsKeeps, PTL

-----------------------------------------------------------------------------
(* The steps of a process's life.                                          *)

\* A process before its classification has nothing in memory, and the steps to
\* that point keep it so.
LEMMA EarlyKeeps ==
    ASSUME ProcessInv, NEW k \in Token, MemoryEmpty, UNCHANGED <<adm, open, memory, by>>,
           lock' = k, NEW p \in {"begin", "stale", "classify"}, phase' = [phase EXCEPT ![k] = p],
           \A j \in Token : phase[j] \notin {"new", "dead"} => j = k,
           inst' \in [Token -> {"absent", "active", "stopping", "stopped"}],
           p = "classify" => inst'[k] = "active"
    PROVE  RestartInv'
<1>1. /\ phase' \in [Token -> Owned \cup {"new", "begin", "stale", "dead"}]
      /\ phase'[k] = p /\ \A j \in Token : phase'[j] \notin {"new", "dead"} => j = k
  BY DEF ProcessInv, Columns, Owned
<1>2. MemoryEmpty'
  BY DEF MemoryEmpty, memory
<1>3. Columns'
  BY <1>1 DEF ProcessInv, Columns, memory
<1>4. LockHeld' /\ LiveRuntimeKeepsRow'
  BY <1>1 DEF LockHeld, LiveRuntimeKeepsRow, Owned
<1>5. MemoryFits'
  BY <1>1, <1>2, NoneAssumption DEF MemoryFits, MemoryEmpty
<1>6. ~Assembling'
  BY <1>1 DEF Assembling
<1>7. RowsInv'
  BY <1>2, <1>6, EmptyAgrees, PTL
<1>8. NoOrphanedWork'
  BY <1>1 DEF NoOrphanedWork, Owned
<1> QED
  BY <1>3, <1>4, <1>5, <1>7, <1>8 DEF RestartInv, ProcessInv

\* A process that holds the lock without memory is before its classification.
LEMMA EarlyMemory ==
    ASSUME ProcessInv, NEW k \in Token, phase[k] \in {"begin", "stale", "classify", "held"}
    PROVE  lock = k /\ MemoryEmpty /\ \A j \in Token : phase[j] \notin {"new", "dead"} => j = k
  BY DEF ProcessInv, LockHeld, MemoryFits, MemoryEmpty

\* acquire_runtime_lock and begin_runtime keep the invariant.
LEMMA BeginSteps ==
    ASSUME RestartInv, NEW k \in Token, Start(k) \/ Begin(k)
    PROVE  RestartInv'
<1>0. ProcessInv
  BY DEF RestartInv
<1>1. CASE Start(k)
  <2>1. MemoryEmpty
    BY <1>0, <1>1 DEF ProcessInv, MemoryFits, MemoryEmpty, Start
  <2>2. \A j \in Token : phase[j] \notin {"new", "dead"} => j = k
    BY <1>0, <1>1, NoneAssumption DEF ProcessInv, LockHeld, Start
  <2>3. inst' \in [Token -> {"absent", "active", "stopping", "stopped"}]
    BY <1>0, <1>1 DEF ProcessInv, Columns, Start
  <2> QED
    BY <1>0, <1>1, <2>1, <2>2, <2>3, EarlyKeeps DEF Start
<1>2. CASE Begin(k)
  <2>1. lock = k /\ MemoryEmpty /\ \A j \in Token : phase[j] \notin {"new", "dead"} => j = k
    BY <1>0, <1>2, EarlyMemory DEF Begin
  <2>2. CASE inst' = [inst EXCEPT ![k] = "active"] /\ phase' = [phase EXCEPT ![k] = "classify"]
    <3>1. inst' \in [Token -> {"absent", "active", "stopping", "stopped"}] /\ inst'[k] = "active"
      BY <1>0, <2>2 DEF ProcessInv, Columns
    <3> QED
      BY <1>0, <1>2, <2>1, <2>2, <3>1, EarlyKeeps DEF Begin
  <2>3. CASE inst' = inst /\ phase' = [phase EXCEPT ![k] = "stale"]
    <3>1. inst' \in [Token -> {"absent", "active", "stopping", "stopped"}]
      BY <1>0, <2>3 DEF ProcessInv, Columns
    <3> QED
      BY <1>0, <1>2, <2>1, <2>3, <3>1, EarlyKeeps DEF Begin
  <2> QED
    BY <1>2, <2>2, <2>3 DEF Begin
<1> QED
  BY <1>1, <1>2

\* The startup recovery of stale owners stops only rows of dead processes.
LEMMA RecoverStaleStep ==
    ASSUME RestartInv, NEW k \in Token, RecoverStale(k)
    PROVE  RestartInv'
<1>0. ProcessInv /\ phase[k] = "stale" /\ UNCHANGED <<adm, open, by>>
  BY DEF RestartInv, RecoverStale
<1>1. PICK verdict \in [Unstopped -> {"Live", "Stale", "Unknown"}], past \in BOOLEAN :
        LET stopped == StaleRecovered(verdict, past)
            rows == [j \in Token |-> IF j \in stopped THEN "stopped" ELSE inst[j]]
            begins == /\ stopped # {}
                      /\ stopped = Unstopped
                      /\ CanBegin(rows)
        IN /\ inst' = IF begins THEN [rows EXCEPT ![k] = "active"] ELSE rows
           /\ IF begins
              THEN /\ phase' = [phase EXCEPT ![k] = "classify"]
                   /\ UNCHANGED <<lock, memory>>
              ELSE Gone(k)
  BY DEF RecoverStale
<1> DEFINE stopped == StaleRecovered(verdict, past)
           rows == [j \in Token |-> IF j \in stopped THEN "stopped" ELSE inst[j]]
           begins == stopped # {} /\ stopped = Unstopped /\ CanBegin(rows)
<1>2. rows \in [Token -> {"absent", "active", "stopping", "stopped"}]
  BY <1>0 DEF ProcessInv, Columns
<1>3. /\ inst' = IF begins THEN [rows EXCEPT ![k] = "active"] ELSE rows
      /\ IF begins THEN phase' = [phase EXCEPT ![k] = "classify"] /\ UNCHANGED <<lock, memory>>
         ELSE Gone(k)
  BY <1>1
<1> HIDE DEF stopped, rows, begins
<1>4. inst' \in [Token -> {"absent", "active", "stopping", "stopped"}] /\ (begins => inst'[k] = "active")
  BY <1>2, <1>3
<1>5. lock = k /\ MemoryEmpty /\ \A j \in Token : phase[j] \notin {"new", "dead"} => j = k
  BY <1>0, EarlyMemory
<1>6. CASE begins
  BY <1>0, <1>3, <1>4, <1>5, <1>6, EarlyKeeps
<1>7. CASE ~begins
  BY <1>0, <1>3, <1>4, <1>7, GoneKeeps
<1> QED
  BY <1>6, <1>7

\* A startup that fails stops the row it owns and ends.
LEMMA StartupErrorKeeps ==
    ASSUME RestartInv, NEW k \in Token, phase[k] \notin {"new", "dead"}, StartupError(k),
           adm' = adm, open' = open, by' = by
    PROVE  RestartInv'
<1>1. ProcessInv /\ inst' \in [Token -> {"absent", "active", "stopping", "stopped"}]
  BY DEF RestartInv, ProcessInv, Columns, StartupError
<1> QED
  BY <1>1, GoneKeeps DEF StartupError

\* The classification lets a start through only when no work of an earlier process
\* is open, and lists every row that is enqueued.
LEMMA ClassifyStep ==
    ASSUME RestartInv, NEW k \in Token, Classify(k)
    PROVE  RestartInv'
<1>0. ProcessInv /\ phase[k] = "classify" /\ UNCHANGED <<adm, open, by>>
  BY DEF RestartInv, Classify
<1>1. lock = k /\ MemoryEmpty /\ \A j \in Token : phase[j] \notin {"new", "dead"} => j = k
  BY <1>0, EarlyMemory
<1>2. CASE StartupError(k)
  BY <1>0, <1>2, StartupErrorKeeps
<1>3. CASE /\ ~RecoveryBlocked
           /\ phase' = [phase EXCEPT ![k] = "assemble"]
           /\ eligible' = {[task |-> t, rev |-> adm[t].rev] : t \in Eligible}
           /\ UNCHANGED <<lock, inst, flight, chan, at, worker>>
  <2>1. /\ \A t \in Task : /\ open[t] = "closed"
                           /\ t \in Eligible \/ adm[t].state \in {"absent", "terminal"}
    BY <1>3 DEF RecoveryBlocked, AdmissionBlocked
  <2>2. \A t \in Eligible : /\ t \in Task /\ adm[t].state \in {"ready", "enqueued"}
                            /\ adm[t].state = "enqueued" =>
                                 adm[t].owner # None /\ inst[adm[t].owner] = "stopped"
    BY DEF Eligible
  <2>3. /\ phase' \in [Token -> Owned \cup {"new", "begin", "stale", "dead"}]
        /\ phase'[k] = "assemble" /\ \A j \in Token : phase'[j] \notin {"new", "dead"} => j = k
    BY <1>0, <1>1, <1>3 DEF ProcessInv, Columns, Owned
  <2>4. eligible' \subseteq [task : Task, rev : Nat]
    BY SMT, <1>0, <1>3, <2>2 DEF ProcessInv, Columns
  <2>5. Columns'
    BY <1>0, <1>3, <2>3, <2>4 DEF ProcessInv, Columns
  <2>6. LockHeld' /\ LiveRuntimeKeepsRow'
    BY <1>0, <1>1, <1>3, <2>3 DEF ProcessInv, LockHeld, LiveRuntimeKeepsRow, Owned
  <2>7. MemoryFits'
    BY SMT, <1>1, <1>3, <2>3, NoneAssumption DEF MemoryFits, MemoryEmpty, NoFlight
  <2>8. QueueMatchesRows' /\ FlightHoldsRow' /\ TakenLeftChannel'
    <3>0. (chan = <<>>)'
      BY <1>1, <1>3 DEF MemoryEmpty
    <3>1. QueueMatchesRows'
      BY <3>0, EmptyChannel, PTL
    <3> QED
      BY <1>1, <1>3, <3>1 DEF FlightHoldsRow, TakenLeftChannel, MemoryEmpty
  <2>9. EligibleCurrent'
    <3> SUFFICES ASSUME NEW t \in Eligible PROVE Current(t, adm[t].rev)'
      BY SMT, <1>0, <1>3 DEF EligibleCurrent
    <3> QED
      BY <1>0, <1>1, <1>3, <2>2 DEF Current, MemoryEmpty
  <2>10. ASSUME NEW t \in Task, adm[t].state = "enqueued" PROVE Found(t)'
    <3>1. t \in Eligible
      BY <2>1, <2>10
    <3>2. [task |-> t, rev |-> adm[t].rev] \in eligible'
      BY <1>3, <3>1
    <3> QED
      BY <3>2 DEF Found
  <2>11. EnqueuedFound'
    BY <1>0, <2>10 DEF EnqueuedFound
  <2>12. NoOrphanedWork'
    <3> SUFFICES ASSUME NEW t \in Task PROVE (adm[t].state \notin {"dispatching", "running"} /\ open[t] = "closed")'
      BY DEF NoOrphanedWork
    <3> QED
      BY <1>0, <2>1, <2>2
  <2> QED
    BY <2>5, <2>6, <2>7, <2>8, <2>9, <2>11, <2>12 DEF RestartInv, ProcessInv, RowsInv
<1>4. CASE /\ ~RecoveryBlocked
           /\ phase' = [phase EXCEPT ![k] = "held"]
           /\ UNCHANGED <<lock, inst, memory>>
  <2>1. \A t \in Task : /\ open[t] = "closed"
                        /\ t \in Eligible \/ adm[t].state \in {"absent", "terminal"}
    BY <1>4 DEF RecoveryBlocked, AdmissionBlocked
  <2>2. \A t \in Eligible : adm[t].state \in {"ready", "enqueued"}
    BY DEF Eligible
  <2>3. /\ phase' \in [Token -> Owned \cup {"new", "begin", "stale", "dead"}]
        /\ phase'[k] = "held" /\ \A j \in Token : phase'[j] \notin {"new", "dead"} => j = k
    BY <1>0, <1>1, <1>4 DEF ProcessInv, Columns, Owned
  <2>4. Columns' /\ MemoryEmpty'
    BY <1>0, <1>1, <1>4, <2>3 DEF ProcessInv, Columns, MemoryEmpty, memory
  <2>5. LockHeld' /\ LiveRuntimeKeepsRow'
    BY <1>0, <1>1, <1>4, <2>3 DEF ProcessInv, LockHeld, LiveRuntimeKeepsRow, Owned
  <2>6. MemoryFits' /\ ~Assembling'
    BY <1>1, <1>4, <2>3, <2>4 DEF MemoryFits, MemoryEmpty, Assembling
  <2>7. RowsInv'
    BY <2>4, <2>6, EmptyAgrees, PTL
  <2>8. NoOrphanedWork'
    <3> SUFFICES ASSUME NEW t \in Task PROVE (adm[t].state \notin {"dispatching", "running"} /\ open[t] = "closed")'
      BY DEF NoOrphanedWork
    <3> QED
      BY <1>0, <2>1, <2>2
  <2> QED
    BY <2>4, <2>5, <2>6, <2>7, <2>8 DEF RestartInv, ProcessInv
<1> QED
  BY <1>2, <1>3, <1>4 DEF Classify

\* From service on a process only moves to a later phase: its memory and the rows
\* stay as they are, and its row is not stopped.
LEMMA PhaseKeeps ==
    ASSUME RestartInv, NEW k \in Token, phase[k] \in Owned \ {"classify"},
           NEW p \in {"serve", "stopping", "draining"}, phase' = [phase EXCEPT ![k] = p],
           inst' \in [Token -> {"absent", "active", "stopping", "stopped"}],
           inst'[k] \in {"active", "stopping"},
           eligible = {}, worker' \in {"none", "up", "failed", "aborted", "done"},
           phase[k] = "assemble" \/ worker' = worker,
           UNCHANGED <<lock, adm, open, eligible, flight, chan, at, by>>
    PROVE  RestartInv'
<1>0. ProcessInv /\ RowsInv
  BY DEF RestartInv
<1>1. lock = k /\ lock # None
  BY <1>0, NoneAssumption DEF ProcessInv, LockHeld, Owned
<1>2. /\ phase' \in [Token -> Owned \cup {"new", "begin", "stale", "dead"}]
      /\ phase'[k] = p /\ \A j \in Token : phase'[j] \notin {"new", "dead"} => j = k
  BY <1>0, <1>1 DEF ProcessInv, Columns, LockHeld, Owned
<1>3. Columns'
  BY <1>0, <1>2 DEF ProcessInv, Columns
<1>4. LockHeld' /\ LiveRuntimeKeepsRow' /\ MemoryFits'
  BY <1>1, <1>2 DEF LockHeld, LiveRuntimeKeepsRow, MemoryFits, Owned
<1>5. QueueMatchesRows' /\ FlightHoldsRow' /\ TakenLeftChannel'
  <2>1. QueueMatchesRows'
    BY <1>0 DEF RowsInv, QueueMatchesRows
  <2>2. FlightHoldsRow'
    BY <1>0, InChanSame, HoldsSame DEF RowsInv, FlightHoldsRow
  <2>3. TakenLeftChannel'
    BY <1>0, InChanSame DEF RowsInv, TakenLeftChannel
  <2> QED
    BY <2>1, <2>2, <2>3
<1>6. EligibleCurrent'
  BY DEF EligibleCurrent
<1>7. EnqueuedFound'
  <2> SUFFICES ASSUME Serving', NEW t \in Task, adm[t].state = "enqueued" PROVE Found(t)'
    BY <1>1, <1>2 DEF EnqueuedFound, Assembling
  <2>1. Assembling \/ Serving
    BY <1>1 DEF Serving, Assembling
  <2>2. Found(t)
    BY <1>0, <2>1 DEF RowsInv, EnqueuedFound
  <2> QED
    BY <2>2 DEF Found, InChan
<1>8. NoOrphanedWork'
  BY ZenonT(60), <1>1, <1>2 DEF RestartInv, NoOrphanedWork, Owned
<1> QED
  BY <1>3, <1>4, <1>5, <1>6, <1>7, <1>8 DEF RestartInv, ProcessInv, RowsInv

\* The worker is spawned, shutdown begins, the bus is dropped.
LEMMA PhaseSteps ==
    ASSUME RestartInv, NEW k \in Token, Serve(k) \/ BeginStop(k) \/ DropBus(k)
    PROVE  RestartInv'
<1>0. ProcessInv
  BY DEF RestartInv
<1>1. CASE Serve(k)
  <2>1. phase[k] = "assemble" /\ phase[k] \in Owned \ {"classify"} /\ phase[k] \notin {"new", "dead"}
    BY <1>1 DEF Serve, Owned
  <2>2. inst \in [Token -> {"absent", "active", "stopping", "stopped"}] /\ inst[k] \in {"active", "stopping"}
    BY <1>0, <2>1 DEF ProcessInv, Columns, LiveRuntimeKeepsRow, Owned
  <2>3. CASE StartupError(k)
    BY <1>1, <2>1, <2>3, StartupErrorKeeps DEF Serve
  <2>4. CASE /\ eligible = {} /\ phase' = [phase EXCEPT ![k] = "serve"] /\ worker' = "up"
             /\ UNCHANGED <<lock, inst, eligible, flight, chan, at>>
    BY <1>1, <2>1, <2>2, <2>4, PhaseKeeps DEF Serve
  <2> QED
    BY <1>1, <2>3, <2>4 DEF Serve
<1>2. CASE BeginStop(k)
  <2>1. phase[k] \in {"serve", "held"} /\ phase[k] \in Owned \ {"classify"}
    BY <1>2 DEF BeginStop, Owned
  <2>2. inst' \in [Token -> {"absent", "active", "stopping", "stopped"}] /\ inst'[k] \in {"active", "stopping"}
    BY <1>0, <1>2, <2>1 DEF ProcessInv, Columns, LiveRuntimeKeepsRow, BeginStop
  <2>3. eligible = {} /\ worker \in {"none", "up", "failed", "aborted", "done"}
    BY <1>0, <2>1 DEF ProcessInv, Columns, MemoryFits, LockHeld
  <2>4. /\ phase' = [phase EXCEPT ![k] = "stopping"] /\ worker' = worker
        /\ UNCHANGED <<lock, adm, open, eligible, flight, chan, at, by>>
    BY <1>2 DEF BeginStop, memory
  <2> QED
    BY <2>1, <2>2, <2>3, <2>4, PhaseKeeps
<1>3. CASE DropBus(k)
  <2>1. phase[k] = "stopping" /\ phase[k] \in Owned \ {"classify"}
    BY <1>3 DEF DropBus, Owned
  <2>2. inst \in [Token -> {"absent", "active", "stopping", "stopped"}] /\ inst[k] \in {"active", "stopping"}
    BY <1>0, <2>1 DEF ProcessInv, Columns, LiveRuntimeKeepsRow, Owned
  <2>3. eligible = {} /\ worker \in {"none", "up", "failed", "aborted", "done"}
    BY <1>0, <2>1 DEF ProcessInv, Columns, MemoryFits, LockHeld
  <2>4. /\ phase' = [phase EXCEPT ![k] = "draining"] /\ worker' = worker /\ inst' = inst
        /\ UNCHANGED <<lock, adm, open, eligible, flight, chan, at, by>>
    BY <1>3 DEF DropBus, memory
  <2> QED
    BY <2>1, <2>2, <2>3, <2>4, PhaseKeeps
<1> QED
  BY <1>1, <1>2, <1>3

\* The end of a process, and recover-runtime after it.
LEMMA EndSteps ==
    ASSUME RestartInv, NEW k \in Token, FinishStop(k) \/ Crash(k) \/ OfflineRecover(k)
    PROVE  RestartInv'
<1>0. ProcessInv
  BY DEF RestartInv
<1>1. CASE FinishStop(k)
  <2>1. inst' \in [Token -> {"absent", "active", "stopping", "stopped"}]
    BY <1>0, <1>1 DEF ProcessInv, Columns, FinishStop
  <2> QED
    BY <1>0, <1>1, <2>1, GoneKeeps DEF FinishStop
<1>2. CASE Crash(k)
  <2>1. inst' \in [Token -> {"absent", "active", "stopping", "stopped"}]
    BY <1>0, <1>2 DEF ProcessInv, Columns, Crash
  <2> QED
    BY <1>0, <1>2, <2>1, GoneKeeps DEF Crash
<1>3. CASE OfflineRecover(k)
  <2>1. \A j \in Token : phase[j] \in {"new", "dead"}
    BY <1>0, <1>3, NoneAssumption DEF ProcessInv, LockHeld, OfflineRecover
  <2>2. NobodyRuns'
    BY <1>0, <1>3, <2>1 DEF NobodyRuns, MemoryEmpty, ProcessInv, MemoryFits, OfflineRecover, memory
  <2>3. Columns'
    BY <1>0, <1>3 DEF ProcessInv, Columns, OfflineRecover, memory
  <2> QED
    BY <2>2, <2>3, NobodyRunsKeeps, PTL
<1> QED
  BY <1>1, <1>2, <1>3

-----------------------------------------------------------------------------
(* The steps of an admission.                                              *)

\* The row of a task that is neither queued nor taken may change.
LEMMA QueueFrame ==
    ASSUME Columns, RowsInv, NEW t \in Task, t \notin at, ~InChan(t),
           UNCHANGED <<lock, chan, at>>, \A u \in Task : u # t => adm'[u] = adm[u]
    PROVE  QueueMatchesRows' /\ TakenLeftChannel'
<1>0. \A i \in 1 .. Len(chan) : InChan(chan[i])
  BY DEF InChan
<1>1. \A i \in 1 .. Len(chan) : chan[i] \in Task /\ chan[i] # t
  BY <1>0, InChanTask
<1>2. QueueMatchesRows'
  BY <1>1 DEF RowsInv, QueueMatchesRows
<1>3. TakenLeftChannel'
  BY InChanSame DEF Columns, RowsInv, TakenLeftChannel
<1> QED
  BY <1>2, <1>3

\* A new row comes with the admission that holds it.
LEMMA AdmitKeeps ==
    ASSUME RestartInv, NEW k \in Token, Admitting(k), NEW t \in Task,
           NEW state, NEW owner \in Token \cup {None}, NEW step, Admit(t, state, owner, step),
           \/ state = "enqueued" /\ owner = k /\ step = "permit"
           \/ state = "ready" /\ step = "admitted"
    PROVE  RestartInv'
<1>0. ProcessInv /\ RowsInv /\ adm[t].state = "absent"
  BY DEF RestartInv, Admit
<1>1. lock = k /\ phase[lock] \in {"serve", "stopping"}
  BY DEF Admitting
<1>2. UNCHANGED <<lock, phase, inst, open, eligible, chan, at, worker, by>>
  BY DEF Admit
<1>3. /\ adm' \in [Task -> [state : AdmissionState, rev : Nat, owner : Token \cup {None}]]
      /\ adm'[t].state = state /\ adm'[t].owner = owner
      /\ \A u \in Task : u # t => adm'[u] = adm[u]
  BY <1>0 DEF ProcessInv, Columns, Admit, AdmissionState
<1>4. /\ flight' \in [Task -> [step : {"none", "permit", "admitted", "claimed", "failed", "lost"}, rev : Nat]]
      /\ flight'[t].step = step
      /\ \A u \in Task : u # t => flight'[u] = flight[u]
  BY <1>0 DEF ProcessInv, Columns, Admit
<1>5. Columns'
  BY <1>0, <1>2, <1>3, <1>4 DEF ProcessInv, Columns
<1>6. LockHeld' /\ LiveRuntimeKeepsRow' /\ MemoryFits'
  BY <1>0, <1>1, <1>2, NoneAssumption DEF ProcessInv, LockHeld, LiveRuntimeKeepsRow, MemoryFits
<1>7. ~InChan(t) /\ t \notin at
  BY <1>0 DEF RowsInv, QueueMatchesRows, TakenLeftChannel, InChan
<1>8. QueueMatchesRows' /\ TakenLeftChannel'
  BY <1>0, <1>2, <1>3, <1>7, QueueFrame DEF ProcessInv
<1>9. FlightHoldsRow'
  <2> SUFFICES ASSUME NEW u \in Task, flight'[u] # NoFlight PROVE HoldsRow(u)'
    BY DEF FlightHoldsRow
  <2>1. CASE u = t
    BY <1>1, <1>2, <1>3, <1>4, <1>7, <2>1, InChanSame DEF HoldsRow
  <2>2. CASE u # t
    <3>1. HoldsRow(u)
      BY <1>0, <1>4, <2>2 DEF RowsInv, FlightHoldsRow
    <3> QED
      BY <1>2, <1>3, <1>4, <2>2, <3>1, InChanSame, HoldsSame
  <2> QED
    BY <2>1, <2>2
<1>10. eligible = {}
  BY <1>0, <1>1 DEF ProcessInv, MemoryFits
<1>11. EligibleCurrent'
  BY <1>2, <1>10 DEF EligibleCurrent
<1>12. \A u \in Task : adm'[u].state = "enqueued" /\ (u # t => Found(u)) => Found(u)'
  BY <1>2, <1>3, <1>4 DEF Found, InChan
<1>13. EnqueuedFound'
  BY <1>0, <1>2, <1>3, <1>12 DEF RowsInv, EnqueuedFound, Assembling, Serving
<1>14. NoOrphanedWork'
  BY <1>2, <1>3 DEF RestartInv, NoOrphanedWork
<1> QED
  BY <1>5, <1>6, <1>8, <1>9, <1>11, <1>13, <1>14 DEF RestartInv, ProcessInv, RowsInv

\* submit_inner, the retry admission and the gateway admission.
LEMMA AdmitSteps ==
    ASSUME RestartInv, NEW k \in Token, NEW t \in Task,
           Submit(k, t) \/ AdmitRetry(k, t) \/ AdmitGateway(k, t)
    PROVE  RestartInv'
  BY AdmitKeeps DEF Submit, AdmitRetry, AdmitGateway

\* A claim at startup or in service: the row is enqueued for this process and the
\* admission remembers the revision that it produced.
LEMMA ClaimKeeps ==
    ASSUME RestartInv, NEW k \in Token, lock = k, phase[k] \in {"assemble", "serve", "stopping"},
           NEW t \in Task, t \notin at, ~InChan(t), NEW rev \in Nat, adm[t].rev = rev,
           adm[t].state \in {"ready", "enqueued"},
           Write(t, "enqueued", k), Claimed(t, rev),
           phase[k] # "assemble" => eligible' = eligible,
           phase[k] = "assemble" =>
             \E e \in eligible : e.task = t /\ e.rev = rev /\ eligible' = eligible \ {e},
           UNCHANGED <<lock, phase, inst, open, chan, at, worker, by>>
    PROVE  RestartInv'
<1>0. ProcessInv /\ RowsInv /\ k # None
  BY NoneAssumption DEF RestartInv
<1>1. /\ adm' \in [Task -> [state : AdmissionState, rev : Nat, owner : Token \cup {None}]]
      /\ adm'[t].state = "enqueued" /\ adm'[t].owner = k /\ adm'[t].rev = rev + 1
      /\ \A u \in Task : u # t => adm'[u] = adm[u]
  BY <1>0, WriteRow DEF ProcessInv, AdmissionState
<1>2. /\ flight' \in [Task -> [step : {"none", "permit", "admitted", "claimed", "failed", "lost"}, rev : Nat]]
      /\ flight'[t].step = "claimed" /\ flight'[t].rev = rev + 1
      /\ \A u \in Task : u # t => flight'[u] = flight[u]
  BY SMT, <1>0 DEF ProcessInv, Columns, Claimed
<1>3. eligible' \subseteq eligible /\ (phase[k] # "assemble" => eligible' = {})
  BY <1>0 DEF ProcessInv, MemoryFits
<1>4. \A e \in eligible' : e.task # t
  <2> SUFFICES ASSUME NEW d \in eligible', d.task = t PROVE FALSE
    OBVIOUS
  <2>1. PICK e \in eligible : e.task = t /\ e.rev = rev /\ eligible' = eligible \ {e}
    BY <1>3
  <2>2. d \in [task : Task, rev : Nat] /\ e \in [task : Task, rev : Nat]
    BY <1>0, <1>3 DEF ProcessInv, Columns
  <2>3. d.rev = rev
    BY <1>0, <1>3 DEF RowsInv, EligibleCurrent, Current
  <2>4. d = e
    BY <2>1, <2>2, <2>3, EntryIs
  <2> QED
    BY <2>1, <2>4
<1>5. Columns'
  BY <1>0, <1>1, <1>2, <1>3 DEF ProcessInv, Columns
<1>6. LockHeld' /\ LiveRuntimeKeepsRow' /\ MemoryFits'
  BY ZenonT(60), <1>0, <1>2, <1>3 DEF ProcessInv, LockHeld, LiveRuntimeKeepsRow, MemoryFits
<1>7. QueueMatchesRows' /\ TakenLeftChannel'
  BY <1>0, <1>1, QueueFrame DEF ProcessInv
<1>8. FlightHoldsRow'
  <2> SUFFICES ASSUME NEW u \in Task, flight'[u] # NoFlight PROVE HoldsRow(u)'
    BY DEF FlightHoldsRow
  <2>1. CASE u = t
    BY <1>1, <1>2, <2>1, InChanSame DEF HoldsRow
  <2>2. CASE u # t
    <3>1. HoldsRow(u)
      BY <1>0, <1>2, <2>2 DEF RowsInv, FlightHoldsRow
    <3> QED
      BY <1>1, <1>2, <2>2, <3>1, InChanSame, HoldsSame
  <2> QED
    BY <2>1, <2>2
<1>9. EligibleCurrent'
  <2> SUFFICES ASSUME NEW e \in eligible' PROVE Current(e.task, e.rev)'
    BY DEF EligibleCurrent
  <2>1. e \in eligible /\ e.task \in Task /\ e.task # t
    BY <1>0, <1>3, <1>4 DEF ProcessInv, Columns
  <2>2. Current(e.task, e.rev)
    BY <1>0, <2>1 DEF RowsInv, EligibleCurrent
  <2> QED
    BY <1>1, <1>2, <2>1, <2>2, CurrentSame
<1>10. \A u \in Task : (u # t => Found(u)) => Found(u)'
  BY <1>2 DEF Found, InChan
<1>11. EnqueuedFound'
  BY <1>0, <1>1, <1>10 DEF RowsInv, EnqueuedFound, Assembling, Serving
<1>12. NoOrphanedWork'
  BY <1>1 DEF RestartInv, NoOrphanedWork
<1> QED
  BY <1>5, <1>6, <1>7, <1>8, <1>9, <1>11, <1>12 DEF RestartInv, ProcessInv, RowsInv

\* One entry of the recovery loop.
LEMMA RecoverClaimStep ==
    ASSUME RestartInv, NEW k \in Token, NEW e \in eligible, RecoverClaim(k, e)
    PROVE  RestartInv'
<1>0. ProcessInv /\ RowsInv /\ phase[k] = "assemble" /\ UNCHANGED <<open, by>>
  BY DEF RestartInv, RecoverClaim
<1>1. lock = k /\ k # None /\ at = {}
  BY <1>0, NoneAssumption DEF ProcessInv, LockHeld, MemoryFits
<1>2. /\ e.task \in Task /\ e.rev \in Nat
      /\ adm[e.task].rev = e.rev /\ flight[e.task] = NoFlight
      /\ adm[e.task].state \in {"ready", "enqueued"}
      /\ adm[e.task].state = "enqueued" =>
           adm[e.task].owner # None /\ inst[adm[e.task].owner] = "stopped"
  <2>1. e.task \in Task /\ e.rev \in Nat
    BY <1>0 DEF ProcessInv, Columns
  <2>2. Current(e.task, e.rev)
    BY <1>0 DEF RowsInv, EligibleCurrent
  <2> QED
    BY <2>1, <2>2 DEF Current
<1>3. inst[k] \in {"active", "stopping"}
  BY <1>0 DEF ProcessInv, LiveRuntimeKeepsRow, Owned
<1>4. ~InChan(e.task)
  BY <1>0, <1>1, <1>2, <1>3 DEF RowsInv, QueueMatchesRows, InChan
<1>5. CASE StartupError(k) /\ UNCHANGED adm
  BY <1>0, <1>5, StartupErrorKeeps
<1>6. CASE /\ eligible' = eligible \ {e}
           /\ IF adm[e.task].state = "ready"
              THEN IF CanClaim(e.task, e.rev)
                   THEN ClaimAdmission(k, e.task) /\ Claimed(e.task, e.rev)
                   ELSE UNCHANGED <<adm, flight>>
              ELSE IF CanReclaim(e.task, e.rev)
                   THEN ReclaimStoppedAdmission(k, e.task) /\ Claimed(e.task, e.rev)
                   ELSE UNCHANGED <<adm, flight>>
           /\ UNCHANGED <<lock, phase, inst, chan, at, worker, failedOn>>
  <2>1. Write(e.task, "enqueued", k) /\ Claimed(e.task, e.rev)
    BY <1>2, <1>6 DEF CanClaim, CanReclaim, InState, ClaimAdmission, ReclaimStoppedAdmission
  <2> QED
    BY <1>0, <1>1, <1>2, <1>4, <1>6, <2>1, ClaimKeeps
<1> QED
  BY <1>5, <1>6 DEF RecoverClaim

\* Memory other than the rows: a process that has some of it is past its
\* classification and is not held.
LEMMA WorkingProcess ==
    ASSUME ProcessInv, lock \in Token,
           (\E t \in Task : flight[t] # NoFlight) \/ worker # "none"
    PROVE  phase[lock] \in {"assemble", "serve", "stopping", "draining"}
  BY DEF ProcessInv, Columns, MemoryFits, NoFlight, Owned

\* A task that an admission holds goes into the channel.
LEMMA AppendKeeps ==
    ASSUME RestartInv, NEW t \in Task, lock \in Token, flight[t].step \in {"permit", "claimed"},
           chan' = Append(chan, t), flight' = [flight EXCEPT ![t] = NoFlight],
           UNCHANGED <<lock, phase, inst, adm, open, eligible, at, worker, by>>
    PROVE  RestartInv'
<1>0. ProcessInv /\ RowsInv /\ chan \in Seq(Task) /\ lock # None
  BY NoneAssumption DEF RestartInv, ProcessInv, Columns
<1>1. /\ chan' \in Seq(Task)
      /\ \A i \in 1 .. Len(chan) : i \in 1 .. Len(chan') /\ chan'[i] = chan[i]
      /\ Len(chan) + 1 \in 1 .. Len(chan') /\ chan'[Len(chan) + 1] = t
      /\ \A i \in 1 .. Len(chan') :
           (i \in 1 .. Len(chan) /\ chan'[i] = chan[i]) \/ (i = Len(chan) + 1 /\ chan'[i] = t)
  BY <1>0, AppendFacts, SMTT(30)
<1>2. /\ flight' \in [Task -> [step : {"none", "permit", "admitted", "claimed", "failed", "lost"}, rev : Nat]]
      /\ flight'[t] = NoFlight
      /\ \A u \in Task : u # t => flight'[u] = flight[u]
  BY <1>0 DEF ProcessInv, Columns, NoFlight
<1>3. \A u : InChan(u)' <=> u = t \/ InChan(u)
  <2>1. ASSUME NEW u, InChan(u)' PROVE u = t \/ InChan(u)
    BY <1>1, <2>1 DEF InChan
  <2>2. ASSUME NEW u, u = t \/ InChan(u) PROVE InChan(u)'
    BY <1>1, <2>2 DEF InChan
  <2> QED
    BY <2>1, <2>2
<1>4. t \notin at /\ ~InChan(t) /\ adm[t].state = "enqueued" /\ adm[t].owner = lock
  <2>1. flight[t] # NoFlight
    BY SMT DEF NoFlight
  <2> QED
    BY <1>0, <2>1 DEF RowsInv, FlightHoldsRow, HoldsRow
<1>5. Columns'
  BY <1>0, <1>1, <1>2 DEF ProcessInv, Columns
<1>6. phase[lock] \in {"assemble", "serve", "stopping", "draining"}
  BY SMT, <1>0, WorkingProcess DEF NoFlight
<1>7. LockHeld' /\ LiveRuntimeKeepsRow' /\ MemoryFits'
  BY <1>0, <1>2, <1>6 DEF ProcessInv, LockHeld, LiveRuntimeKeepsRow, MemoryFits, NoFlight
<1>8. QueueMatchesRows'
  <2>1. \A i \in 1 .. Len(chan) : chan[i] # t
    BY <1>4 DEF InChan
  <2>2. \A i \in 1 .. Len(chan') : adm[chan'[i]].state = "enqueued" /\ adm[chan'[i]].owner = lock
    BY SMT, <1>0, <1>1, <1>4 DEF RowsInv, QueueMatchesRows
  <2>3. \A i, j \in 1 .. Len(chan') : chan'[i] = chan'[j] => i = j
    BY SMT, <1>0, <1>1, <2>1 DEF RowsInv, QueueMatchesRows
  <2> QED
    BY <2>2, <2>3 DEF QueueMatchesRows
<1>9. TakenLeftChannel'
  BY <1>0, <1>3, <1>4 DEF RowsInv, TakenLeftChannel
<1>10. FlightHoldsRow'
  <2> SUFFICES ASSUME NEW u \in Task, flight'[u] # NoFlight PROVE HoldsRow(u)'
    BY DEF FlightHoldsRow
  <2>1. u # t
    BY <1>2
  <2>2. HoldsRow(u)
    BY <1>0, <1>2, <2>1 DEF RowsInv, FlightHoldsRow
  <2> QED
    BY <1>2, <1>3, <2>1, <2>2, HoldsSame
<1>11. EligibleCurrent'
  <2> SUFFICES ASSUME NEW e \in eligible PROVE Current(e.task, e.rev)'
    BY DEF EligibleCurrent
  <2>1. e.task \in Task /\ Current(e.task, e.rev)
    BY <1>0 DEF ProcessInv, Columns, RowsInv, EligibleCurrent
  <2>2. flight'[e.task] = flight[e.task]
    BY <1>2, <2>1 DEF Current
  <2> QED
    BY <2>1, <2>2, CurrentSame
<1>12. \A u \in Task : Found(u) => Found(u)'
  BY <1>2, <1>3 DEF Found
<1>13. EnqueuedFound'
  BY <1>0, <1>12 DEF RowsInv, EnqueuedFound, Assembling, Serving
<1>14. NoOrphanedWork'
  BY DEF RestartInv, NoOrphanedWork
<1> QED
  BY <1>5, <1>7, <1>8, <1>9, <1>10, <1>11, <1>13, <1>14 DEF RestartInv, ProcessInv, RowsInv

\* An admission moves on, ends without the channel, or is lost; when it ends, a
\* process with a worker has nothing enqueued that only it knew of.
LEMMA FlightKeeps ==
    ASSUME RestartInv, NEW t \in Task, lock \in Token, flight[t] # NoFlight,
           NEW new \in [step : {"none", "permit", "admitted", "claimed", "failed", "lost"}, rev : Nat],
           flight' = [flight EXCEPT ![t] = new],
           \/ new = NoFlight
           \/ flight[t].step = "claimed" /\ new.step = "failed" /\ new.rev = flight[t].rev
           \/ flight[t].step \notin {"none", "admitted"} /\ new.step = "lost",
           adm' \in [Task -> [state : AdmissionState, rev : Nat, owner : Token \cup {None}]],
           \A u \in Task : u # t => adm'[u] = adm[u],
           adm'[t] = adm[t] \/ (adm'[t].state = "ready" /\ new = NoFlight),
           new = NoFlight /\ (Assembling \/ Serving) => adm'[t].state # "enqueued",
           UNCHANGED <<lock, phase, inst, open, eligible, chan, at, worker, by>>
    PROVE  RestartInv'
<1>0. ProcessInv /\ RowsInv /\ t \notin at /\ ~InChan(t) /\ lock # None
  BY NoneAssumption DEF RestartInv, RowsInv, FlightHoldsRow, HoldsRow
<1>1. /\ flight' \in [Task -> [step : {"none", "permit", "admitted", "claimed", "failed", "lost"}, rev : Nat]]
      /\ flight'[t] = new
      /\ \A u \in Task : u # t => flight'[u] = flight[u]
  BY <1>0 DEF ProcessInv, Columns
<1>2. Columns'
  BY <1>0, <1>1 DEF ProcessInv, Columns
<1>3. phase[lock] \in {"assemble", "serve", "stopping", "draining"}
  BY <1>0, WorkingProcess
<1>4. LockHeld' /\ LiveRuntimeKeepsRow' /\ MemoryFits'
  <2>1. LockHeld' /\ LiveRuntimeKeepsRow'
    BY <1>0 DEF ProcessInv, LockHeld, LiveRuntimeKeepsRow
  <2>2. \A u \in Task : flight[u].step # "permit" => flight'[u].step # "permit"
    BY SMT, <1>1 DEF NoFlight
  <2>3. MemoryFits'
    BY <1>0, <1>3, <2>2 DEF ProcessInv, MemoryFits
  <2> QED
    BY <2>1, <2>3
<1>5. QueueMatchesRows' /\ TakenLeftChannel'
  BY <1>0, QueueFrame DEF ProcessInv
<1>6. FlightHoldsRow'
  <2> SUFFICES ASSUME NEW u \in Task, flight'[u] # NoFlight PROVE HoldsRow(u)'
    BY DEF FlightHoldsRow
  <2>1. CASE u = t
    <3>1. /\ HoldsRow(t) /\ flight[t].step \notin {"none", "admitted"}
          /\ \/ new.step = "failed" /\ new.rev = flight[t].rev /\ flight[t].step = "claimed"
             \/ new.step = "lost"
      BY <1>0, <1>1, <2>1 DEF RowsInv, FlightHoldsRow
    <3>2. adm'[t] = adm[t]
      BY <1>1, <2>1
    <3> QED
      BY <1>1, <2>1, <3>1, <3>2, InChanSame DEF HoldsRow
  <2>2. CASE u # t
    <3>1. HoldsRow(u)
      BY <1>0, <1>1, <2>2 DEF RowsInv, FlightHoldsRow
    <3> QED
      BY <1>1, <2>2, <3>1, InChanSame, HoldsSame
  <2> QED
    BY <2>1, <2>2
<1>7. \A e \in eligible : e.task \in Task /\ e.task # t
  BY SMT, <1>0 DEF ProcessInv, Columns, RowsInv, EligibleCurrent, Current
<1>8. EligibleCurrent'
  BY <1>0, <1>1, <1>7, CurrentSame DEF RowsInv, EligibleCurrent
<1>9. \A u \in Task : u # t /\ Found(u) => Found(u)'
  BY <1>1 DEF Found, InChan
<1>10. new # NoFlight => Found(t)'
  BY <1>1 DEF Found
<1>11. EnqueuedFound'
  BY <1>0, <1>9, <1>10 DEF RowsInv, EnqueuedFound, Assembling, Serving
<1>12. NoOrphanedWork'
  <2>1. \A u \in Task : adm'[u].state \in {"dispatching", "running"} => adm'[u] = adm[u]
    OBVIOUS
  <2> QED
    BY <2>1 DEF RestartInv, NoOrphanedWork
<1> QED
  BY <1>2, <1>4, <1>5, <1>6, <1>8, <1>11, <1>12 DEF RestartInv, ProcessInv, RowsInv

\* claim_admission or enqueue_ready in service.
LEMMA ClaimStep ==
    ASSUME RestartInv, NEW k \in Token, NEW t \in Task, Claim(k, t)
    PROVE  RestartInv'
<1>0. ProcessInv /\ RowsInv
  BY DEF RestartInv
<1>1. /\ lock = k /\ phase[k] \in {"serve", "stopping"} /\ flight[t].step = "admitted"
      /\ UNCHANGED <<lock, phase, inst, open, eligible, chan, at, worker, by>>
  BY DEF Claim, Admitting
<1>2. flight[t] # NoFlight
  BY SMT, <1>1 DEF NoFlight
<1>3. t \notin at /\ ~InChan(t) /\ adm[t].state = "ready"
  BY <1>0, <1>1, <1>2 DEF RowsInv, FlightHoldsRow, HoldsRow
<1>4. CASE /\ IF Kind[t] = "gateway" THEN CanEnqueueReady(k, t, 0) ELSE CanClaim(t, 0)
           /\ ClaimAdmission(k, t) /\ Claimed(t, 0)
  <2>1. Write(t, "enqueued", k) /\ Claimed(t, 0) /\ adm[t].rev = 0
    BY <1>4 DEF ClaimAdmission, CanEnqueueReady, CanClaim, InState
  <2>2. /\ phase[k] \in {"assemble", "serve", "stopping"} /\ phase[k] # "assemble" /\ eligible' = eligible
        /\ adm[t].state \in {"ready", "enqueued"}
    BY <1>1, <1>3
  <2> QED
    BY SMT, <1>1, <1>3, <2>1, <2>2, ClaimKeeps
<1>5. CASE flight' = [flight EXCEPT ![t] = NoFlight] /\ UNCHANGED adm
  <2>1. /\ adm \in [Task -> [state : AdmissionState, rev : Nat, owner : Token \cup {None}]]
        /\ NoFlight \in [step : {"none", "permit", "admitted", "claimed", "failed", "lost"}, rev : Nat]
    BY <1>0 DEF ProcessInv, Columns, NoFlight
  <2> QED
    BY <1>1, <1>2, <1>3, <1>5, <2>1, FlightKeeps
<1> QED
  BY <1>4, <1>5 DEF Claim

\* An admission that is lost keeps its revision, and with its row enqueued nothing else
\* changes.
LEMMA LoseKeeps ==
    ASSUME RestartInv, NEW t \in Task, lock \in Token, Lose(t),
           flight[t].step \notin {"none", "admitted"},
           UNCHANGED <<lock, phase, inst, adm, open, eligible, chan, at, worker, by>>
    PROVE  RestartInv'
<1>1. /\ flight[t] \in [step : {"none", "permit", "admitted", "claimed", "failed", "lost"}, rev : Nat]
      /\ adm \in [Task -> [state : AdmissionState, rev : Nat, owner : Token \cup {None}]]
  BY DEF RestartInv, ProcessInv, Columns
<1>2. PICK new : new = [step |-> "lost", rev |-> flight[t].rev]
  OBVIOUS
<1>3. [flight[t] EXCEPT !.step = "lost"] = new
  BY SMT, <1>1, <1>2
<1>4. flight' = [flight EXCEPT ![t] = new]
  BY <1>3 DEF Lose
<1>5. new \in [step : {"none", "permit", "admitted", "claimed", "failed", "lost"}, rev : Nat] /\ new # NoFlight
  BY <1>1, <1>2 DEF NoFlight
<1>6. flight[t] # NoFlight /\ new.step = "lost"
  BY SMT, <1>2 DEF NoFlight
<1> QED
  BY <1>1, <1>4, <1>5, <1>6, FlightKeeps

\* permit.send or enqueue_persisted; release_admission or restore_ready; the request
\* or the sync owner gone in the middle of an admission.
LEMMA AdmissionSteps ==
    ASSUME RestartInv, NEW k \in Token, NEW t \in Task,
           Enqueue(k, t) \/ Release(k, t) \/ DropSubmit(k, t) \/ AbortSync(k, t)
    PROVE  RestartInv'
<1>0. ProcessInv /\ RowsInv
  BY DEF RestartInv
<1>1. /\ flight[t] \in [step : {"none", "permit", "admitted", "claimed", "failed", "lost"}, rev : Nat]
      /\ adm \in [Task -> [state : AdmissionState, rev : Nat, owner : Token \cup {None}]]
      /\ NoFlight \in [step : {"none", "permit", "admitted", "claimed", "failed", "lost"}, rev : Nat]
  BY <1>0 DEF ProcessInv, Columns, NoFlight
<1>2. CASE Enqueue(k, t)
  <2>1. lock \in Token /\ UNCHANGED <<lock, phase, inst, adm, open, eligible, at, worker, by>>
    BY <1>2 DEF Enqueue
  <2>2. CASE /\ flight[t].step = "permit" /\ worker # "up"
             /\ chan' = chan /\ flight' = [flight EXCEPT ![t] = NoFlight]
    <3>1. ~Serving /\ ~Assembling
      BY <1>0, <2>2 DEF Serving, Assembling, ProcessInv, MemoryFits
    <3> QED
      BY <1>1, <2>1, <2>2, <3>1, FlightKeeps DEF NoFlight
  <2>3. CASE /\ flight[t].step \in {"permit", "claimed"}
             /\ chan' = Append(chan, t) /\ flight' = [flight EXCEPT ![t] = NoFlight]
    BY <2>1, <2>3, AppendKeeps
  <2>4. CASE /\ flight[t].step = "claimed" /\ chan' = chan
             /\ flight' = [flight EXCEPT ![t].step = "failed"]
    <3>1. PICK new : new = [step |-> "failed", rev |-> flight[t].rev]
      OBVIOUS
    <3>2. [flight[t] EXCEPT !.step = "failed"] = new
      BY SMT, <1>1, <3>1
    <3>3. flight' = [flight EXCEPT ![t] = new]
      BY <2>4, <3>2
    <3>4. new \in [step : {"none", "permit", "admitted", "claimed", "failed", "lost"}, rev : Nat] /\ new # NoFlight
      BY <1>1, <3>1 DEF NoFlight
    <3>5. flight[t] # NoFlight /\ new.step = "failed" /\ new.rev = flight[t].rev
      BY SMT, <2>4, <3>1 DEF NoFlight
    <3> QED
      BY <1>1, <2>1, <2>4, <3>3, <3>4, <3>5, FlightKeeps
  <2> QED
    BY <1>2, <2>2, <2>3, <2>4 DEF Enqueue
<1>3. CASE Release(k, t)
  <2>1. /\ lock \in Token /\ flight[t].step = "failed"
        /\ UNCHANGED <<lock, phase, inst, open, eligible, chan, at, worker, by>>
    BY <1>3 DEF Release
  <2>2. CASE Lose(t) /\ UNCHANGED adm
    BY <2>1, <2>2, LoseKeeps
  <2>3. CASE /\ IF CanRelease(t, flight[t].rev) THEN ReleaseAdmission(t) ELSE UNCHANGED adm
             /\ flight' = [flight EXCEPT ![t] = NoFlight]
    <3>1. flight[t] # NoFlight
      BY SMT, <2>1 DEF NoFlight
    <3>2. CanRelease(t, flight[t].rev)
      <4>1. HoldsRow(t)
        BY <1>0, <3>1 DEF RowsInv, FlightHoldsRow
      <4> QED
        BY <2>1, <4>1 DEF HoldsRow, CanRelease, InState
    <3>3. Write(t, "ready", adm[t].owner) /\ adm[t].owner \in Token \cup {None} /\ "ready" \in AdmissionState
      BY <1>1, <2>3, <3>2 DEF ReleaseAdmission, AdmissionState
    <3>4. /\ adm' \in [Task -> [state : AdmissionState, rev : Nat, owner : Token \cup {None}]]
          /\ adm'[t].state = "ready" /\ \A u \in Task : u # t => adm'[u] = adm[u]
      BY <1>0, <3>3, WriteRow DEF ProcessInv
    <3> QED
      BY <1>1, <2>1, <2>3, <3>1, <3>4, FlightKeeps
  <2> QED
    BY <1>3, <2>2, <2>3 DEF Release
<1>4. CASE DropSubmit(k, t)
  BY <1>4, LoseKeeps DEF DropSubmit, Admitting
<1>5. CASE AbortSync(k, t)
  <2>1. lock = k /\ UNCHANGED <<lock, phase, inst, adm, open, eligible, chan, at, worker, by>>
    BY <1>0, <1>5 DEF ProcessInv, LockHeld, AbortSync
  <2>2. CASE flight[t].step = "admitted"
    <3>1. flight[t] # NoFlight
      BY SMT, <2>2 DEF NoFlight
    <3>2. adm[t].state = "ready" /\ flight' = [flight EXCEPT ![t] = NoFlight]
      BY <1>0, <1>5, <2>2, <3>1 DEF RowsInv, FlightHoldsRow, HoldsRow, AbortSync
    <3> QED
      BY <1>1, <2>1, <3>1, <3>2, FlightKeeps
  <2>3. CASE flight[t].step # "admitted"
    BY <1>5, <2>1, <2>3, LoseKeeps DEF AbortSync, Over
  <2> QED
    BY <2>2, <2>3
<1> QED
  BY <1>2, <1>3, <1>4, <1>5

-----------------------------------------------------------------------------
(* The steps of the worker.                                                *)

\* Worker::run takes the head of the channel.
LEMMA TakeStep ==
    ASSUME RestartInv, NEW k \in Token, Take(k)
    PROVE  RestartInv'
<1>0. /\ ProcessInv /\ RowsInv /\ chan \in Seq(Task) /\ lock = k /\ worker = "up" /\ chan # <<>>
      /\ at' = at \cup {Head(chan)} /\ chan' = Tail(chan)
      /\ UNCHANGED <<lock, phase, inst, adm, open, eligible, flight, worker, by>>
  BY DEF RestartInv, ProcessInv, Columns, Take
<1>1. /\ chan' \in Seq(Task) /\ Len(chan) \in Nat \ {0} /\ Len(chan') = Len(chan) - 1
      /\ Head(chan) = chan[1] /\ Head(chan) \in Task
      /\ \A i \in 1 .. Len(chan) - 1 : chan'[i] = chan[i + 1]
  BY SMT, <1>0
<1>2. \A u : InChan(u)' => InChan(u) /\ u # Head(chan)
  <2> SUFFICES ASSUME NEW i \in 1 .. Len(chan')
                PROVE  chan'[i] # Head(chan) /\ \E j \in 1 .. Len(chan) : chan[j] = chan'[i]
    BY DEF InChan
  <2>1. i + 1 \in 1 .. Len(chan) /\ i + 1 # 1 /\ 1 \in 1 .. Len(chan) /\ chan'[i] = chan[i + 1]
    BY SMT, <1>1
  <2>2. chan[i + 1] # chan[1]
    BY <1>0, <2>1 DEF RowsInv, QueueMatchesRows
  <2> QED
    BY <1>1, <2>1, <2>2
<1>3. \A u : InChan(u) => InChan(u)' \/ u = Head(chan)
  <2> SUFFICES ASSUME NEW i \in 1 .. Len(chan), i # 1
                PROVE  \E j \in 1 .. Len(chan') : chan'[j] = chan[i]
    BY <1>1 DEF InChan
  <2>1. i - 1 \in 1 .. Len(chan') /\ chan'[i - 1] = chan[(i - 1) + 1] /\ (i - 1) + 1 = i
    BY SMT, <1>1
  <2> QED
    BY <2>1
<1>4. Columns'
  BY <1>0, <1>1 DEF ProcessInv, Columns
<1>5. phase[lock] \in {"serve", "stopping", "draining"}
  BY <1>0, WorkingProcess, NoneAssumption DEF ProcessInv, MemoryFits
<1>6. LockHeld' /\ LiveRuntimeKeepsRow' /\ MemoryFits'
  BY <1>0, <1>5, NoneAssumption DEF ProcessInv, LockHeld, LiveRuntimeKeepsRow, MemoryFits
<1>7. QueueMatchesRows'
  <2>1. \A i \in 1 .. Len(chan') : i + 1 \in 1 .. Len(chan) /\ chan'[i] = chan[i + 1]
    BY SMT, <1>1
  <2>2. \A i, j \in 1 .. Len(chan') : i + 1 = j + 1 => i = j
    BY SMT, <1>1
  <2> QED
    BY SMT, <1>0, <2>1, <2>2 DEF RowsInv, QueueMatchesRows
<1>8. InChan(Head(chan)) /\ adm[Head(chan)].state = "enqueued" /\ adm[Head(chan)].owner = lock
  <2>1. 1 \in 1 .. Len(chan)
    BY SMT, <1>1
  <2> QED
    BY <1>0, <1>1, <2>1 DEF RowsInv, QueueMatchesRows, InChan
<1>9. TakenLeftChannel'
  BY <1>0, <1>2, <1>8 DEF RowsInv, TakenLeftChannel
<1>10. FlightHoldsRow'
  <2> SUFFICES ASSUME NEW u \in Task, flight[u] # NoFlight PROVE HoldsRow(u)'
    BY <1>0 DEF FlightHoldsRow
  <2>1. HoldsRow(u)
    BY <1>0 DEF RowsInv, FlightHoldsRow
  <2>2. u # Head(chan)
    BY <1>8, <2>1 DEF HoldsRow
  <2> QED
    BY <1>0, <1>2, <2>1, <2>2, HoldsSame
<1>11. EligibleCurrent'
  BY <1>0, CurrentSame DEF RowsInv, EligibleCurrent
<1>12. \A u \in Task : Found(u) => Found(u)'
  BY <1>0, <1>3 DEF Found
<1>13. EnqueuedFound'
  BY <1>0, <1>12 DEF RowsInv, EnqueuedFound, Assembling, Serving
<1>14. NoOrphanedWork'
  BY <1>0 DEF RestartInv, NoOrphanedWork
<1> QED
  BY <1>4, <1>6, <1>7, <1>9, <1>10, <1>11, <1>13, <1>14 DEF RestartInv, ProcessInv, RowsInv

\* The worker moves the row of a task that it has taken on, out of "enqueued".
LEMMA WorkKeeps ==
    ASSUME RestartInv, NEW k \in Token, NEW t \in at, lock = k, worker = "up",
           NEW state \in {"dispatching", "running", "terminal"}, Write(t, state, adm[t].owner),
           at' = at \/ (at' = at \ {t} /\ state = "terminal"),
           open' \in [Task -> {"closed", "open", "recovery"}],
           by' \in [Task -> Token \cup {None}],
           \A u \in Task : u # t => open'[u] = open[u] /\ by'[u] = by[u],
           (state = "terminal" /\ open'[t] = "closed") \/ by'[t] = k,
           UNCHANGED <<lock, phase, inst, eligible, flight, chan, worker>>
    PROVE  RestartInv'
<1>0. ProcessInv /\ RowsInv /\ t \in Task /\ k # None
  BY NoneAssumption DEF RestartInv, ProcessInv, Columns
<1>1. /\ adm' \in [Task -> [state : AdmissionState, rev : Nat, owner : Token \cup {None}]]
      /\ adm'[t].state = state /\ \A u \in Task : u # t => adm'[u] = adm[u]
  <2>1. adm[t].owner \in Token \cup {None} /\ state \in AdmissionState
    BY <1>0 DEF ProcessInv, Columns, AdmissionState
  <2> QED
    BY <1>0, <2>1, WriteRow DEF ProcessInv
<1>2. ~InChan(t) /\ flight[t] = NoFlight /\ at' \subseteq at
  BY <1>0 DEF RowsInv, TakenLeftChannel, FlightHoldsRow, HoldsRow
<1>3. phase[lock] \in {"serve", "stopping", "draining"}
  BY <1>0, WorkingProcess DEF ProcessInv, MemoryFits
<1>4. eligible = {}
  BY <1>0, <1>3 DEF ProcessInv, MemoryFits
<1>5. Columns'
  BY <1>0, <1>1, <1>2 DEF ProcessInv, Columns
<1>6. LockHeld' /\ LiveRuntimeKeepsRow' /\ MemoryFits'
  BY <1>0, <1>3 DEF ProcessInv, LockHeld, LiveRuntimeKeepsRow, MemoryFits
<1>7. \A i \in 1 .. Len(chan) : chan[i] \in Task /\ chan[i] # t
  <2>1. \A i \in 1 .. Len(chan) : InChan(chan[i])
    BY DEF InChan
  <2> QED
    BY <1>0, <1>2, <2>1, InChanTask DEF ProcessInv
<1>8. QueueMatchesRows'
  <2>1. \A i \in 1 .. Len(chan) : adm'[chan[i]] = adm[chan[i]]
    BY <1>1, <1>7
  <2> QED
    BY <1>0, <2>1 DEF RowsInv, QueueMatchesRows
<1>9. TakenLeftChannel'
  <2>1. \A u \in at : /\ u \in Task /\ adm'[u].state # "absent" /\ ~InChan(u)
                      /\ adm'[u].state = "enqueued" => adm'[u].owner = lock
    BY <1>0, <1>1 DEF ProcessInv, Columns, RowsInv, TakenLeftChannel
  <2> QED
    BY <1>2, <2>1, InChanSame DEF TakenLeftChannel
<1>10. FlightHoldsRow'
  <2>1. \A u \in Task : flight[u] # NoFlight => adm'[u] = adm[u] /\ u \notin at'
    BY <1>0, <1>1, <1>2 DEF RowsInv, FlightHoldsRow, HoldsRow
  <2> QED
    BY <1>0, <1>2, <2>1, InChanSame, HoldsSame DEF RowsInv, FlightHoldsRow
<1>11. EligibleCurrent'
  BY <1>4 DEF EligibleCurrent
<1>12. \A u \in Task : u # t /\ Found(u) => Found(u)'
  BY DEF Found, InChan
<1>13. EnqueuedFound'
  BY <1>0, <1>1, <1>12 DEF RowsInv, EnqueuedFound, Assembling, Serving
<1>14. NoOrphanedWork'
  <2> SUFFICES ASSUME NEW j \in Token, phase[j] \in Owned \ {"classify"}, NEW u \in Task,
                      adm'[u].state \in {"dispatching", "running"} \/ open'[u] # "closed"
                PROVE  by'[u] = j
    BY DEF NoOrphanedWork
  <2>1. j = k
    BY <1>0 DEF ProcessInv, LockHeld, Owned
  <2>2. CASE u = t
    BY <1>1, <2>1, <2>2
  <2>3. CASE u # t
    BY <1>1, <2>3 DEF RestartInv, NoOrphanedWork
  <2> QED
    BY <2>2, <2>3
<1> QED
  BY <1>5, <1>6, <1>8, <1>9, <1>10, <1>11, <1>13, <1>14 DEF RestartInv, ProcessInv, RowsInv

\* Dispatched, Running and a terminal event.
LEMMA WorkSteps ==
    ASSUME RestartInv, NEW k \in Token, NEW t \in Task,
           Dispatch(k, t) \/ Run(k, t) \/ Finish(k, t)
    PROVE  RestartInv'
<1>0. /\ ProcessInv /\ open \in [Task -> {"closed", "open", "recovery"}]
      /\ by \in [Task -> Token \cup {None}] /\ lock = k /\ worker = "up" /\ t \in at
  BY DEF RestartInv, ProcessInv, Columns, Dispatch, Run, Finish
<1>1. phase[k] \in Owned \ {"classify"}
  BY <1>0, WorkingProcess DEF Owned
<1>2. adm[t].state \in {"dispatching", "running"} \/ open[t] # "closed" => by[t] = k
  BY <1>1 DEF RestartInv, NoOrphanedWork
<1>3. CASE Dispatch(k, t)
  <2>1. Write(t, "dispatching", adm[t].owner) /\ by' = [by EXCEPT ![t] = k] /\ open' = open
    BY <1>3 DEF Dispatch
  <2>2. UNCHANGED <<lock, phase, inst, eligible, flight, chan, at, worker>>
    BY <1>3 DEF Dispatch, memory
  <2>3. by' \in [Task -> Token \cup {None}] /\ by'[t] = k /\ \A u \in Task : u # t => by'[u] = by[u]
    BY <1>0, <2>1
  <2> QED
    BY <1>0, <2>1, <2>2, <2>3, WorkKeeps
<1>4. CASE Run(k, t)
  <2>1. /\ Write(t, "running", adm[t].owner) /\ open' = [open EXCEPT ![t] = "open"] /\ by' = by
        /\ adm[t].state = "dispatching"
    BY <1>4 DEF Run
  <2>2. UNCHANGED <<lock, phase, inst, eligible, flight, chan, at, worker>>
    BY <1>4 DEF Run, memory
  <2>3. /\ open' \in [Task -> {"closed", "open", "recovery"}]
        /\ \A u \in Task : u # t => open'[u] = open[u]
    BY <1>0, <2>1
  <2> QED
    BY <1>0, <1>2, <2>1, <2>2, <2>3, WorkKeeps
<1>5. CASE Finish(k, t)
  <2>1. /\ Write(t, "terminal", adm[t].owner) /\ at' = at \ {t} /\ by' = by
        /\ UNCHANGED <<lock, phase, inst, eligible, flight, chan, worker>>
    BY <1>5 DEF Finish
  <2>2. /\ open' \in [Task -> {"closed", "open", "recovery"}]
        /\ \A u \in Task : u # t => open'[u] = open[u]
        /\ open'[t] = "closed" \/ by[t] = k
    BY <1>0, <1>2, <1>5 DEF Finish
  <2> QED
    BY <1>0, <2>1, <2>2, WorkKeeps
<1> QED
  BY <1>3, <1>4, <1>5

\* The worker fails, is done, or is aborted: what it had is gone from memory, and
\* nothing is claimed of the enqueued rows any more.
LEMMA WorkerEndSteps ==
    ASSUME RestartInv, NEW k \in Token, WorkerFails(k) \/ WorkerDrained(k) \/ WorkerTimeout(k)
    PROVE  RestartInv'
<1>0. /\ ProcessInv /\ RowsInv /\ lock = k /\ k # None /\ worker = "up"
      /\ worker' \in {"failed", "aborted", "done"} /\ chan' = <<>> /\ at' = {}
      /\ UNCHANGED <<lock, phase, inst, adm, open, eligible, flight, by>>
  BY NoneAssumption DEF RestartInv, ProcessInv, LockHeld, WorkerFails, WorkerDrained, WorkerTimeout
<1>1. phase[lock] \in {"serve", "stopping", "draining"}
  BY <1>0, WorkingProcess DEF ProcessInv, MemoryFits
<1>2. Columns'
  BY SMT, <1>0 DEF ProcessInv, Columns
<1>3. LockHeld' /\ LiveRuntimeKeepsRow' /\ MemoryFits'
  BY <1>0, <1>1 DEF ProcessInv, LockHeld, LiveRuntimeKeepsRow, MemoryFits
<1>4. QueueMatchesRows' /\ FlightHoldsRow' /\ TakenLeftChannel'
  <2>1. \A u : ~InChan(u)'
    BY SMT, <1>0 DEF InChan
  <2>2. FlightHoldsRow'
    BY <1>0, <2>1, HoldsSame DEF RowsInv, FlightHoldsRow
  <2>0. (chan = <<>>)'
    BY <1>0
  <2>3. QueueMatchesRows'
    BY <2>0, EmptyChannel, PTL
  <2>4. TakenLeftChannel'
    BY <1>0 DEF TakenLeftChannel
  <2> QED
    BY <2>2, <2>3, <2>4
<1>5. EligibleCurrent' /\ NoOrphanedWork'
  <2>1. EligibleCurrent'
    BY <1>0, CurrentSame DEF RowsInv, EligibleCurrent
  <2>2. NoOrphanedWork'
    BY <1>0 DEF RestartInv, NoOrphanedWork
  <2> QED
    BY <2>1, <2>2
<1>6. EnqueuedFound'
  BY <1>0, <1>1 DEF EnqueuedFound, Assembling, Serving
<1> QED
  BY <1>2, <1>3, <1>4, <1>5, <1>6 DEF RestartInv, ProcessInv, RowsInv

-----------------------------------------------------------------------------
\* Before the first start.
LEMMA InitSound == Init => RestartInv
<1> SUFFICES ASSUME Init PROVE RestartInv
  OBVIOUS
<1>1. Columns
  BY SMT DEF Init, Columns, Owned, AdmissionState, NoFlight
<1>2. NobodyRuns
  BY DEF Init, NobodyRuns, MemoryEmpty
<1> QED
  BY <1>1, <1>2, NobodyRunsKeeps

\* Every step of a runtime, an admission, a worker, a shutdown or a crash keeps the
\* invariant.
LEMMA StepSound == RestartInv /\ [Next]_vars => RestartInv'
<1> SUFFICES ASSUME RestartInv, [Next]_vars PROVE RestartInv'
  OBVIOUS
<1>1. ASSUME NEW k \in Token, Startup(k) PROVE RestartInv'
  BY <1>1, BeginSteps, RecoverStaleStep, ClassifyStep, PhaseSteps, RecoverClaimStep DEF Startup
<1>2. ASSUME NEW k \in Token, Admission(k) PROVE RestartInv'
  BY <1>2, ClaimStep, AdmissionSteps DEF Admission
<1>3. ASSUME NEW k \in Token, Work(k) PROVE RestartInv'
  BY <1>3, TakeStep, WorkerEndSteps, WorkSteps DEF Work
<1>4. ASSUME NEW k \in Token, BeginStop(k) \/ Shutdown(k) PROVE RestartInv'
  BY <1>4, PhaseSteps, WorkerEndSteps, EndSteps DEF Shutdown
<1>5. ASSUME NEW k \in Token, Start(k) \/ Crash(k) \/ OfflineRecover(k) PROVE RestartInv'
  BY <1>5, BeginSteps, EndSteps
<1>6. ASSUME NEW k \in Token, NEW t \in Task,
             \/ Submit(k, t) \/ AdmitRetry(k, t) \/ AdmitGateway(k, t)
             \/ DropSubmit(k, t) \/ AbortSync(k, t)
      PROVE  RestartInv'
  BY <1>6, AdmitSteps, AdmissionSteps
<1>7. CASE UNCHANGED vars
  <2>1. /\ lock' = lock /\ phase' = phase /\ inst' = inst /\ adm' = adm /\ open' = open /\ by' = by
        /\ eligible' = eligible /\ flight' = flight /\ chan' = chan /\ at' = at /\ worker' = worker
    BY <1>7 DEF vars, memory
  <2>2. Columns' /\ LockHeld' /\ LiveRuntimeKeepsRow' /\ MemoryFits'
    BY <2>1 DEF RestartInv, ProcessInv, Columns, LockHeld, LiveRuntimeKeepsRow, MemoryFits
  <2>3. QueueMatchesRows'
    BY <2>1 DEF RestartInv, RowsInv, QueueMatchesRows
  <2>4. FlightHoldsRow' /\ TakenLeftChannel'
    BY <2>1, InChanSame, HoldsSame DEF RestartInv, RowsInv, FlightHoldsRow, TakenLeftChannel
  <2>5. EligibleCurrent'
    BY <2>1, CurrentSame DEF RestartInv, RowsInv, EligibleCurrent
  <2>6. \A t : Found(t) => Found(t)'
    BY <2>1, InChanSame DEF Found
  <2>7. EnqueuedFound'
    BY <2>1, <2>6 DEF RestartInv, RowsInv, EnqueuedFound, Assembling, Serving
  <2>8. NoOrphanedWork'
    BY <2>1 DEF RestartInv, NoOrphanedWork
  <2> QED
    BY <2>2, <2>3, <2>4, <2>5, <2>7, <2>8 DEF RestartInv, ProcessInv, RowsInv
<1> QED
  BY <1>1, <1>2, <1>3, <1>4, <1>5, <1>6, <1>7 DEF Next, Exhausted

\* The invariant says at least what the two run properties say.
LEMMA InvImplies == RestartInv => RuntimeAlone /\ ChannelAgreesWithRows
<1> SUFFICES ASSUME RestartInv PROVE RuntimeAlone /\ ChannelAgreesWithRows
  OBVIOUS
<1>1. ProcessInv /\ RowsInv /\ NoOrphanedWork
  BY DEF RestartInv
<1>2. OneRuntime
  BY <1>1 DEF ProcessInv, LockHeld, OneRuntime, Owned
<1>3. EnqueuedIsAccountedFor
  <2> SUFFICES ASSUME NEW k \in Token, phase[k] \in Owned, worker = "up",
                      NEW t \in Task, adm[t].state = "enqueued"
                PROVE  /\ adm[t].owner = k
                       /\ \/ t \in at
                          \/ flight[t].step \in {"permit", "claimed", "failed", "lost"}
                          \/ \E i \in 1 .. Len(chan) : chan[i] = t
    BY DEF EnqueuedIsAccountedFor
  <2>1. lock = k /\ Serving
    BY <1>1, NoneAssumption DEF ProcessInv, LockHeld, Serving, Owned
  <2>2. eligible = {}
    BY <1>1, <2>1 DEF ProcessInv, MemoryFits
  <2>3. Found(t)
    BY <1>1, <2>1 DEF RowsInv, EnqueuedFound
  <2>4. CASE t \in at
    BY <1>1, <2>1, <2>4 DEF RowsInv, TakenLeftChannel
  <2>5. CASE flight[t].step \in {"permit", "claimed", "failed", "lost"}
    <3>1. flight[t] # NoFlight
      BY SMT, <2>5 DEF NoFlight
    <3>2. HoldsRow(t)
      BY <1>1, <3>1 DEF RowsInv, FlightHoldsRow
    <3> QED
      BY <2>1, <2>5, <3>2 DEF HoldsRow
  <2>6. CASE InChan(t)
    BY <1>1, <2>1, <2>6 DEF RowsInv, QueueMatchesRows, InChan
  <2> QED
    BY <2>2, <2>3, <2>4, <2>5, <2>6 DEF Found
<1> QED
  BY <1>1, <1>2, <1>3 DEF RuntimeAlone, ChannelAgreesWithRows, ProcessInv, RowsInv

\* The runtime that serves is alone: the flock, not the active index, keeps a second
\* process out, no recovery stops the row of a live process, and the classification
\* lets no start pass over work that an earlier process left open.
THEOREM RuntimeStaysAlone == Spec => []RuntimeAlone
  BY InitSound, StepSound, InvImplies, PTL DEF Spec

\* Channel and admission rows agree in every state: what is queued is enqueued once
\* for the process whose channel it is, and as long as a process has a worker every
\* enqueued row is its own and is accounted for: nothing that an earlier process lost
\* is left over, and what this one loses through a request that goes away or a release
\* that is not written names it, so that the start after its stop takes it up.
THEOREM ChannelKeepsAgreeing == Spec => []ChannelAgreesWithRows
  BY InitSound, StepSound, InvImplies, PTL DEF Spec
=============================================================================
