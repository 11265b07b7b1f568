------------------------- MODULE QueueRepair_proofs -------------------------
(***************************************************************************)
(* Proofs about WorkQueue, for every set of keys, events and tasks, every  *)
(* capacity and every bound, and about OwnerRepair, for any set of         *)
(* operation ids and any number of faults.                                 *)
(***************************************************************************)
EXTENDS WorkQueue, OwnerRepair, FiniteSetTheorems, TLAPS

\* Zenon proves a step that names no other prover.
USE Zenon

-----------------------------------------------------------------------------
(* The rows of the work queue and the leases they are sent under. *)
\* What the store keeps true of a row and of the fence it was last sent under.
RowSound(row, sent) ==
    /\ sent <= lease.fence
    /\ row.state \in {"queued", "paused"} => sent < lease.fence \/ ~lease.live
    /\ row.state \in {"queued", "claimed"} => ~row.send_started
    /\ row.state = "running" => row.send_started
    /\ row.state = "claimed" => sent < row.fence
    /\ row.state \in {"claimed", "running"} => [task |-> row.task, fence |-> row.fence] \in grants

\* The lease row is the newest grant, and a live lease is an active one.
LeaseSound ==
    /\ lease.live => lease.state = "active"
    /\ lease.state = "active" =>
         lease.fence > 0 /\ [task |-> lease.task, fence |-> lease.fence] \in grants
    /\ \A g \in grants : g.fence <= lease.fence

\* The inductive invariant behind the theorems on claims and sends.
SendInv ==
    /\ TypeOK
    /\ LeaseSound
    /\ \A k \in Rows : RowSound(queue[k], lastSent[k])
    /\ \A k \in Key \ Rows : lastSent[k] = 0

-----------------------------------------------------------------------------
\* A row that exists has the columns of the schema.
LEMMA RowTypes == TypeOK => Rows \subseteq Key /\ \A k \in Rows : queue[k] \in Row
  BY DEF TypeOK, Rows

\* Bumping the revision of a row keeps its other columns.
LEMMA Bumped ==
    ASSUME NEW row \in Row, NEW new, new = [row EXCEPT !.revision = @ + 1]
    PROVE  /\ new \in Row
           /\ new.state = row.state /\ new.task = row.task /\ new.fence = row.fence
           /\ new.sequence = row.sequence /\ new.send_started = row.send_started
  BY SMT DEF Row

\* An update of one row leaves the others alone and keeps the row's columns.
LEMMA UpdateOne ==
    ASSUME TypeOK, NEW k \in Rows, NEW row \in Row, Update(k, row)
    PROVE  /\ queue' \in [Key -> Row \cup {None}]
           /\ \A j \in Key : j # k => queue'[j] = queue[j]
           /\ queue'[k] \in Row
           /\ queue'[k].state = row.state
           /\ queue'[k].task = row.task
           /\ queue'[k].fence = row.fence
           /\ queue'[k].sequence = row.sequence
           /\ queue'[k].send_started = row.send_started
<1> DEFINE new == [row EXCEPT !.revision = @ + 1]
<1>1. /\ new \in Row
      /\ new.state = row.state /\ new.task = row.task /\ new.fence = row.fence
      /\ new.sequence = row.sequence /\ new.send_started = row.send_started
  BY Bumped
<1>2. queue' = [queue EXCEPT ![k] = new] /\ k \in Key /\ queue \in [Key -> Row \cup {None}]
  BY DEF Update, TypeOK, Rows
<1> HIDE DEF new
<1> QED
  BY <1>1, <1>2

\* An update of several rows changes only their state.
LEMMA UpdateAll ==
    ASSUME TypeOK, NEW S \in SUBSET Rows, NEW s \in RowState, SetState(S, s)
    PROVE  /\ queue' \in [Key -> Row \cup {None}]
           /\ \A j \in Key \ S : queue'[j] = queue[j]
           /\ \A k \in S :
                /\ queue'[k] \in Row
                /\ queue'[k].state = s
                /\ queue'[k].task = queue[k].task
                /\ queue'[k].fence = queue[k].fence
                /\ queue'[k].sequence = queue[k].sequence
                /\ queue'[k].send_started = queue[k].send_started
<1> DEFINE new(k) == [queue[k] EXCEPT !.state = s, !.revision = @ + 1]
<1>1. \A k \in S : /\ new(k) \in Row
                   /\ new(k).state = s /\ new(k).task = queue[k].task
                   /\ new(k).fence = queue[k].fence /\ new(k).sequence = queue[k].sequence
                   /\ new(k).send_started = queue[k].send_started
  <2> SUFFICES ASSUME NEW k \in S PROVE
        /\ new(k) \in Row
        /\ new(k).state = s /\ new(k).task = queue[k].task
        /\ new(k).fence = queue[k].fence /\ new(k).sequence = queue[k].sequence
        /\ new(k).send_started = queue[k].send_started
    OBVIOUS
  <2>1. queue[k] \in Row
    BY RowTypes
  <2>2. PICK row \in Row : row = queue[k]
    BY <2>1
  <2>3. new(k) = [row EXCEPT !.state = s, !.revision = @ + 1]
    BY <2>2
  <2> HIDE DEF new
  <2>4. new(k) = [state |-> s, task |-> row.task, sequence |-> row.sequence,
                  revision |-> row.revision + 1, send_started |-> row.send_started,
                  fence |-> row.fence]
    BY <2>3 DEF Row
  <2> QED
    BY SMT, <2>2, <2>4 DEF Row
<1>2. /\ queue' = [k \in Key |-> IF k \in S THEN new(k) ELSE queue[k]]
      /\ S \subseteq Key /\ queue \in [Key -> Row \cup {None}]
  BY DEF SetState, TypeOK, Rows
<1> HIDE DEF new
<1> QED
  BY <1>1, <1>2

-----------------------------------------------------------------------------
\* Every action that rewrites one row and nothing else keeps the invariant if
\* the new row is sound.
LEMMA KeepOne ==
    ASSUME SendInv, NEW k \in Rows, NEW row \in Row, Update(k, row),
           NEW sent \in Nat, RowSound(row, sent),
           lastSent' = [lastSent EXCEPT ![k] = sent],
           UNCHANGED <<next, lease, grants, AdmissionVars>>
    PROVE  SendInv'
<1>1. TypeOK /\ LeaseSound /\ k \in Key
  BY DEF SendInv, Rows
<1>2. /\ queue' \in [Key -> Row \cup {None}]
      /\ \A j \in Key : j # k => queue'[j] = queue[j]
      /\ queue'[k] \in Row
      /\ queue'[k].state = row.state /\ queue'[k].task = row.task
      /\ queue'[k].fence = row.fence /\ queue'[k].send_started = row.send_started
  BY <1>1, UpdateOne
<1>3. lastSent' \in [Key -> Nat] /\ lastSent'[k] = sent /\ \A j \in Key : j # k => lastSent'[j] = lastSent[j]
  BY <1>1 DEF TypeOK
<1>4. TypeOK'
  BY <1>1, <1>2, <1>3 DEF TypeOK, AdmissionVars
<1>5. LeaseSound'
  BY <1>1 DEF LeaseSound
<1>6. Rows' = Rows
  BY <1>1, <1>2, NoneAssumption DEF Rows
<1>7. ASSUME NEW j \in Rows PROVE RowSound(queue[j], lastSent[j])'
  <2>1. CASE j = k
    BY <2>1, <1>2, <1>3 DEF RowSound
  <2>2. CASE j # k
    BY <2>2, <1>2, <1>3 DEF RowSound, SendInv, Rows
  <2> QED
    BY <2>1, <2>2
<1>8. \A j \in Key \ Rows : lastSent'[j] = 0
  BY <1>3 DEF SendInv
<1> QED
  BY <1>4, <1>5, <1>6, <1>7, <1>8 DEF SendInv

-----------------------------------------------------------------------------
\* The columns of a row after its claim.
LEMMA ClaimedRow ==
    ASSUME TypeOK, NEW k \in Rows, NEW f \in Nat
    PROVE  LET new == Claimed(k, f) IN
           /\ new \in Row /\ new.sequence = queue[k].sequence
           /\ new.state = "claimed" /\ new.task = queue[k].task /\ new.fence = f
           /\ new.send_started = queue[k].send_started
<1> DEFINE new == Claimed(k, f)
<1>1. PICK row \in Row : row = queue[k]
  BY RowTypes
<1>2. new = [row EXCEPT !.state = "claimed", !.fence = f]
  BY <1>1 DEF Claimed
<1> HIDE DEF new
<1>3. new = [state |-> "claimed", task |-> row.task, sequence |-> row.sequence,
             revision |-> row.revision, send_started |-> row.send_started, fence |-> f]
  BY <1>2 DEF Row
<1>4. /\ new \in Row /\ new.sequence = queue[k].sequence
      /\ new.state = "claimed" /\ new.task = queue[k].task /\ new.fence = f
      /\ new.send_started = queue[k].send_started
  BY <1>1, <1>3 DEF Row, RowState
<1> QED
  BY <1>4 DEF new

\* The columns of a row whose send starts.
LEMMA SentRow ==
    ASSUME TypeOK, NEW k \in Rows
    PROVE  LET new == [queue[k] EXCEPT !.state = "running", !.send_started = TRUE] IN
           /\ new \in Row /\ new.sequence = queue[k].sequence
           /\ new.state = "running" /\ new.task = queue[k].task /\ new.fence = queue[k].fence
           /\ new.send_started = TRUE
<1> DEFINE new == [queue[k] EXCEPT !.state = "running", !.send_started = TRUE]
<1>1. PICK row \in Row : row = queue[k]
  BY RowTypes
<1>2. new = [row EXCEPT !.state = "running", !.send_started = TRUE]
  BY <1>1
<1> HIDE DEF new
<1>3. new = [state |-> "running", task |-> row.task, sequence |-> row.sequence,
             revision |-> row.revision, send_started |-> TRUE, fence |-> row.fence]
  BY <1>2 DEF Row
<1>4. /\ new \in Row /\ new.sequence = queue[k].sequence
      /\ new.state = "running" /\ new.task = queue[k].task /\ new.fence = queue[k].fence
      /\ new.send_started = TRUE
  BY <1>1, <1>3 DEF Row, RowState
<1> QED
  BY <1>4 DEF new

\* The columns of a row that only changes its state.
LEMMA MovedRow ==
    ASSUME TypeOK, NEW k \in Rows, NEW s \in RowState
    PROVE  LET new == [queue[k] EXCEPT !.state = s] IN
           /\ new \in Row /\ new.sequence = queue[k].sequence
           /\ new.state = s /\ new.task = queue[k].task /\ new.fence = queue[k].fence
           /\ new.send_started = queue[k].send_started
<1> DEFINE new == [queue[k] EXCEPT !.state = s]
<1>1. PICK row \in Row : row = queue[k]
  BY RowTypes
<1>2. new = [row EXCEPT !.state = s]
  BY <1>1
<1> HIDE DEF new
<1>3. new = [state |-> s, task |-> row.task, sequence |-> row.sequence,
             revision |-> row.revision, send_started |-> row.send_started, fence |-> row.fence]
  BY <1>2 DEF Row
<1>4. /\ new \in Row /\ new.sequence = queue[k].sequence
      /\ new.state = s /\ new.task = queue[k].task /\ new.fence = queue[k].fence
      /\ new.send_started = queue[k].send_started
  BY <1>1, <1>3 DEF Row, RowState
<1> QED
  BY <1>4 DEF new

\* The columns of an unsent row that startup recovery queues again.
LEMMA RequeuedRow ==
    ASSUME TypeOK, NEW k \in Rows
    PROVE  LET new == [queue[k] EXCEPT !.state = "queued", !.fence = 0] IN
           /\ new \in Row /\ new.sequence = queue[k].sequence
           /\ new.state = "queued" /\ new.task = queue[k].task /\ new.fence = 0
           /\ new.send_started = queue[k].send_started
<1> DEFINE new == [queue[k] EXCEPT !.state = "queued", !.fence = 0]
<1>1. PICK row \in Row : row = queue[k]
  BY RowTypes
<1>2. new = [row EXCEPT !.state = "queued", !.fence = 0]
  BY <1>1
<1> HIDE DEF new
<1>3. new = [state |-> "queued", task |-> row.task, sequence |-> row.sequence,
             revision |-> row.revision, send_started |-> row.send_started, fence |-> 0]
  BY <1>2 DEF Row
<1>4. /\ new \in Row /\ new.sequence = queue[k].sequence
      /\ new.state = "queued" /\ new.task = queue[k].task /\ new.fence = 0
      /\ new.send_started = queue[k].send_started
  BY <1>1, <1>3 DEF Row, RowState
<1> QED
  BY <1>4 DEF new

\* A set of rows is finite.
LEMMA RowsFinite == ASSUME NEW S \in SUBSET Key PROVE IsFiniteSet(S) /\ Cardinality(S) \in Nat
  BY FiniteAssumption, FS_Subset, FS_CardinalityType

\* A resume changes the resumed rows only, and these become unowned, unsent
\* and queued behind every sequence given out so far.
LEMMA RequeueAll ==
    ASSUME TypeOK, NEW S \in SUBSET Rows, Requeue(S)
    PROVE  /\ Cardinality(S) \in Nat /\ next' = next + Cardinality(S)
           /\ queue' \in [Key -> Row \cup {None}]
           /\ \A j \in Key \ S : queue'[j] = queue[j]
           /\ \A k \in S :
                /\ queue'[k] \in Row
                /\ queue'[k].state = "queued"
                /\ queue'[k].task = queue[k].task
                /\ queue'[k].fence = 0
                /\ queue'[k].send_started = FALSE
                /\ queue'[k].sequence =
                     next + Cardinality({j \in S : queue[j].sequence < queue[k].sequence})
<1> DEFINE rank(k) == Cardinality({j \in S : queue[j].sequence < queue[k].sequence})
           new(k) == [queue[k] EXCEPT !.state = "queued", !.revision = @ + 1, !.fence = 0,
                        !.send_started = FALSE, !.sequence = next + rank(k)]
<1>1. S \subseteq Key /\ queue \in [Key -> Row \cup {None}] /\ next \in Nat
  BY DEF TypeOK, Rows
<1>2. \A k \in S : rank(k) \in Nat
  BY <1>1, RowsFinite
<1>3. Cardinality(S) \in Nat
  BY <1>1, RowsFinite
<1>4. /\ next' = next + Cardinality(S)
      /\ queue' = [k \in Key |-> IF k \in S THEN new(k) ELSE queue[k]]
  BY DEF Requeue
<1>5. ASSUME NEW k \in S
      PROVE  /\ new(k) \in Row /\ new(k).state = "queued" /\ new(k).task = queue[k].task
             /\ new(k).fence = 0 /\ new(k).send_started = FALSE
             /\ new(k).sequence = next + rank(k)
  <2>1. PICK row \in Row : row = queue[k]
    BY RowTypes
  <2>2. PICK r \in Nat : r = next + rank(k)
    <3> HIDE DEF rank
    <3> QED
      BY SMT, <1>1, <1>2
  <2>3. new(k) = [row EXCEPT !.state = "queued", !.revision = @ + 1, !.fence = 0,
                    !.send_started = FALSE, !.sequence = r]
    BY <2>1, <2>2
  <2> HIDE DEF new, rank
  <2>4. new(k) = [state |-> "queued", task |-> row.task, sequence |-> r,
                  revision |-> row.revision + 1, send_started |-> FALSE, fence |-> 0]
    BY <2>3 DEF Row
  <2> QED
    BY SMT, <2>1, <2>2, <2>4 DEF Row, RowState
<1>6. /\ queue' \in [Key -> Row \cup {None}]
      /\ \A j \in Key \ S : queue'[j] = queue[j]
      /\ \A k \in S : queue'[k] = new(k)
  <2> HIDE DEF new
  <2> QED
    BY <1>1, <1>4, <1>5
<1>7. ASSUME NEW k \in S
      PROVE  /\ queue'[k] \in Row /\ queue'[k].state = "queued" /\ queue'[k].task = queue[k].task
             /\ queue'[k].fence = 0 /\ queue'[k].send_started = FALSE
             /\ queue'[k].sequence = next + rank(k)
  <2> HIDE DEF new, rank
  <2> QED
    BY <1>5, <1>6
<1> QED
  BY <1>3, <1>4, <1>6, <1>7

\* Every action that rewrites a set of rows and no lease keeps the invariant if
\* the new rows are sound.
LEMMA KeepRows ==
    ASSUME SendInv, NEW S \in SUBSET Rows, next' \in Nat \ {0},
           queue' \in [Key -> Row \cup {None}],
           \A j \in Key \ S : queue'[j] = queue[j],
           \A k \in S : queue'[k] \in Row /\ RowSound(queue'[k], lastSent[k]),
           UNCHANGED <<lease, grants, AdmissionVars, lastSent>>
    PROVE  SendInv'
<1>1. TypeOK /\ LeaseSound /\ S \subseteq Key
  BY DEF SendInv, Rows
<1>2. TypeOK'
  BY <1>1 DEF TypeOK, AdmissionVars
<1>3. LeaseSound'
  BY <1>1 DEF LeaseSound
<1>4. Rows' = Rows
  BY <1>1, NoneAssumption DEF Rows
<1>5. ASSUME NEW j \in Rows PROVE RowSound(queue[j], lastSent[j])'
  <2>1. CASE j \in S
    BY <2>1 DEF RowSound
  <2>2. CASE j \notin S
    BY <2>2 DEF RowSound, SendInv, Rows
  <2> QED
    BY <2>1, <2>2
<1> QED
  BY <1>2, <1>3, <1>4, <1>5 DEF SendInv

\* The same for one row that is not sent.
LEMMA KeepUnsent ==
    ASSUME SendInv, NEW k \in Rows, NEW row \in Row, Update(k, row),
           RowSound(row, lastSent[k]),
           UNCHANGED <<next, lease, grants, AdmissionVars, lastSent>>
    PROVE  SendInv'
<1>1. lastSent[k] \in Nat /\ lastSent' = [lastSent EXCEPT ![k] = lastSent[k]]
  BY DEF SendInv, TypeOK, Rows
<1> QED
  BY <1>1, KeepOne

\* The initial state has no rows and no lease.
LEMMA SendInvInit == Init => SendInv
<1> SUFFICES ASSUME Init PROVE SendInv
  OBVIOUS
<1>1. TypeOK
  BY SMT DEF Init, TypeOK
<1>2. Rows = {}
  BY DEF Init, Rows
<1> QED
  BY <1>1, <1>2 DEF Init, SendInv, LeaseSound

-----------------------------------------------------------------------------
(* One lemma per group of actions: each keeps SendInv. *)

\* The lease moves forward only; a row that may be sent again was sent under
\* an older grant or waits for one.
LEMMA LeaseKeeps ==
    ASSUME SendInv, (\E t \in Task : Acquire(t)) \/ Lapse \/ Release
    PROVE  SendInv'
<1> USE DEF SendInv
<1>1. Rows' = Rows /\ UNCHANGED <<queue, next, AdmissionVars, lastSent>>
  BY DEF Acquire, Lapse, Release, Rows
<1>2. \A k \in Rows : queue[k] \in Row /\ k \in Key /\ lastSent[k] \in Nat
  BY RowTypes DEF TypeOK
<1>3. CASE \E t \in Task : Acquire(t)
  <2> PICK t \in Task : Acquire(t)
    BY <1>3
  <2>1. /\ lease' = [task |-> t, fence |-> lease.fence + 1, state |-> "active", live |-> TRUE]
        /\ grants' = grants \cup {[task |-> t, fence |-> lease.fence + 1]}
        /\ lease.fence \in Nat
    BY DEF Acquire, TypeOK
  <2>2. TypeOK'
    BY SMT, <1>1, <2>1 DEF TypeOK, AdmissionVars, Grant
  <2>3. LeaseSound'
    BY SMT, <2>1 DEF LeaseSound, TypeOK, Grant
  <2>4. ASSUME NEW k \in Rows PROVE RowSound(queue[k], lastSent[k])'
    BY SMT, <1>1, <1>2, <2>1 DEF RowSound
  <2> QED
    BY <1>1, <2>2, <2>3, <2>4
<1>4. CASE Lapse \/ Release
  <2>1. /\ lease' \in [task : Task \cup {None}, fence : Nat,
                       state : {"active", "released"}, live : BOOLEAN]
        /\ lease'.fence = lease.fence /\ lease'.task = lease.task
        /\ lease'.live = FALSE
        /\ lease'.state = "active" => lease.state = "active"
        /\ grants' = grants
    BY <1>4 DEF Lapse, Release, TypeOK
  <2>2. TypeOK'
    BY <1>1, <2>1 DEF TypeOK, AdmissionVars
  <2>3. LeaseSound'
    BY <2>1 DEF LeaseSound
  <2>4. ASSUME NEW k \in Rows PROVE RowSound(queue[k], lastSent[k])'
    BY <1>1, <1>2, <2>1 DEF RowSound
  <2> QED
    BY <1>1, <2>2, <2>3, <2>4
<1> QED
  BY <1>3, <1>4

\* What an admission writes keeps the schema.
LEMMA AdmitTypes ==
    ASSUME TypeOK, NEW e \in Event, NEW k \in Key, NEW t \in Task, AdmitFacts(e, k, t)
    PROVE  /\ envelope' \in [Event -> Envelope \cup {None}]
           /\ admission' \in [Task -> AdmissionRow \cup {None}]
           /\ attempt' \in [Event -> Nat]
<1>1. envelope' \in [Event -> Envelope \cup {None}]
  BY DEF AdmitFacts, TypeOK, Envelope
<1>2. CASE AdmitDispatch(e, t)
  BY <1>1, <1>2 DEF AdmitDispatch, TypeOK, AdmissionRow
<1>3. ASSUME NEW revision \in 0..MaxAdmission, AdmitFollowUp(e, t, revision)
      PROVE  /\ admission' \in [Task -> AdmissionRow \cup {None}]
             /\ attempt' \in [Event -> Nat]
  <2>1. admission[t] \in AdmissionRow /\ revision \in Nat
    BY SMT, <1>3, WorkQueueAssumption DEF AdmitFollowUp, TypeOK
  <2>2. [admission[t] EXCEPT !.revision = @ + 1] \in AdmissionRow
    BY SMT, <2>1 DEF AdmissionRow
  <2>3. admission' = [admission EXCEPT ![t] = [admission[t] EXCEPT !.revision = @ + 1]]
    BY <1>3 DEF AdmitFollowUp
  <2>4. admission' \in [Task -> AdmissionRow \cup {None}]
    BY <2>2, <2>3 DEF TypeOK
  <2>5. attempt' \in [Event -> Nat]
    BY SMT, <1>3, <2>1 DEF AdmitFollowUp, FollowUpAttempt, TypeOK
  <2> QED
    BY <2>4, <2>5
<1> QED
  BY <1>1, <1>2, <1>3 DEF AdmitFacts

\* A new row is unsent and its key was never sent.
LEMMA AdmitKeeps ==
    ASSUME SendInv, NEW e \in Event, NEW k \in Key, NEW t \in Task, AdmitQueued(e, k, t)
    PROVE  SendInv'
<1> DEFINE row == [state |-> "queued", task |-> t, sequence |-> next, revision |-> 0,
                   send_started |-> FALSE, fence |-> 0]
<1>1. TypeOK /\ LeaseSound /\ next \in Nat
  BY DEF SendInv, TypeOK
<1>2. /\ envelope' \in [Event -> Envelope \cup {None}]
      /\ admission' \in [Task -> AdmissionRow \cup {None}]
      /\ attempt' \in [Event -> Nat]
  BY <1>1, AdmitTypes DEF AdmitQueued
<1>3. /\ row \in Row /\ row.state = "queued" /\ row.send_started = FALSE
      /\ queue' = [queue EXCEPT ![k] = row] /\ next' = next + 1 /\ k \notin Rows
  BY <1>1 DEF AdmitQueued, Reserve, Row, RowState, Rows
<1>4. UNCHANGED <<lease, grants, lastSent>>
  BY DEF AdmitQueued
<1> HIDE DEF row
<1>5. TypeOK'
  BY SMT, <1>1, <1>2, <1>3, <1>4 DEF TypeOK
<1>6. LeaseSound'
  BY <1>1, <1>4 DEF LeaseSound
<1>7. Rows' = Rows \cup {k} /\ \A j \in Rows : queue'[j] = queue[j]
  BY SMT, <1>1, <1>3, NoneAssumption DEF Rows, TypeOK
<1>8. RowSound(queue[k], lastSent[k])'
  <2>1. queue'[k] = row /\ lastSent'[k] = 0 /\ lease.fence \in Nat
    BY <1>1, <1>3, <1>4 DEF SendInv, TypeOK
  <2>2. lease.live \in BOOLEAN /\ (lease.live => lease.fence > 0)
    BY <1>1 DEF LeaseSound, TypeOK
  <2> QED
    BY SMT, <1>3, <1>4, <2>1, <2>2 DEF RowSound
<1>9. ASSUME NEW j \in Rows PROVE RowSound(queue[j], lastSent[j])'
  BY <1>4, <1>7 DEF RowSound, SendInv
<1> QED
  BY <1>4, <1>5, <1>6, <1>7, <1>8, <1>9 DEF SendInv

\* The admission of a task says nothing about its rows.
LEMMA AdmissionKeeps ==
    ASSUME SendInv, NEW t \in Task, AdmissionMoves(t)
    PROVE  SendInv'
<1>1. UNCHANGED <<queue, next, lease, grants, envelope, attempt, lastSent>>
  BY DEF AdmissionMoves
<1>2. TypeOK'
  BY SMT, <1>1 DEF AdmissionMoves, SendInv, TypeOK, AdmissionRow
<1> QED
  BY <1>1, <1>2 DEF SendInv, LeaseSound, RowSound, Rows

\* A queued row claimed under the live lease was sent under an older grant.
LEMMA ClaimKeeps ==
    ASSUME SendInv, NEW k \in InState({"queued"}), LiveLease(queue[k].task, lease.fence),
           Update(k, Claimed(k, lease.fence)),
           UNCHANGED <<next, lease, grants, AdmissionVars, lastSent>>
    PROVE  SendInv'
<1>1. /\ TypeOK /\ LeaseSound /\ k \in Rows /\ queue[k].state = "queued"
      /\ RowSound(queue[k], lastSent[k]) /\ lease.fence \in Nat
  BY DEF SendInv, InState, TypeOK
<1>2. PICK row \in Row :
        /\ row = Claimed(k, lease.fence)
        /\ row.state = "claimed" /\ row.task = queue[k].task /\ row.fence = lease.fence
        /\ row.send_started = queue[k].send_started
  BY <1>1, ClaimedRow
<1>3. RowSound(row, lastSent[k])
  BY <1>1, <1>2 DEF RowSound, LiveLease, LeaseSound
<1> QED
  BY <1>1, <1>2, <1>3, KeepUnsent

\* Both claims, of the worker's task and of the endpoint's oldest row.
LEMMA ClaimsKeep ==
    ASSUME SendInv, (\E t \in Task : ClaimQueue(t)) \/ (\E g \in grants : ClaimNext(g))
    PROVE  SendInv'
<1>1. ASSUME NEW t \in Task, ClaimQueue(t) PROVE SendInv'
  <2>1. PICK k \in Oldest({j \in TaskRows(t, {"queued"}) : ~queue[j].send_started}) :
          Update(k, Claimed(k, lease.fence))
    BY <1>1 DEF ClaimQueue
  <2>2. k \in InState({"queued"}) /\ queue[k].task = t
    BY <2>1 DEF Oldest, TaskRows
  <2> QED
    BY <1>1, <2>1, <2>2, ClaimKeeps DEF ClaimQueue
<1>2. ASSUME NEW g \in grants, ClaimNext(g) PROVE SendInv'
  <2>1. PICK k \in Oldest(InState({"queued"})) :
          queue[k].task = g.task /\ Update(k, Claimed(k, g.fence))
    BY <1>2 DEF ClaimNext
  <2>2. k \in InState({"queued"}) /\ g.fence = lease.fence
    BY <1>2, <2>1 DEF Oldest, ClaimNext, LiveLease
  <2> QED
    BY <1>2, <2>1, <2>2, ClaimKeeps DEF ClaimNext
<1> QED
  BY <1>1, <1>2

\* A send records the fence of the claim it was made under.
LEMMA SendKeeps ==
    ASSUME SendInv, NEW k \in InState({"claimed"}), SendStarted(k),
           UNCHANGED <<next, lease, grants, AdmissionVars>>
    PROVE  SendInv'
<1>1. /\ TypeOK /\ LeaseSound /\ k \in Rows /\ queue[k].state = "claimed"
      /\ RowSound(queue[k], lastSent[k]) /\ queue[k] \in Row /\ queue[k].fence \in Nat
  BY RowTypes DEF SendInv, InState, Row
<1>2. PICK row \in Row :
        /\ row = [queue[k] EXCEPT !.state = "running", !.send_started = TRUE]
        /\ row.state = "running" /\ row.task = queue[k].task /\ row.fence = queue[k].fence
        /\ row.send_started = TRUE
  BY <1>1, SentRow
<1>3. queue[k].fence <= lease.fence
  BY <1>1 DEF RowSound, LeaseSound
<1>4. RowSound(row, queue[k].fence)
  BY <1>1, <1>2, <1>3 DEF RowSound
<1>5. Update(k, row) /\ lastSent' = [lastSent EXCEPT ![k] = queue[k].fence]
  BY <1>2 DEF SendStarted
<1> QED
  BY <1>1, <1>4, <1>5, KeepOne

\* Both ways to mark a send, by task and by row.
LEMMA SendsKeep ==
    ASSUME SendInv, NEW g \in grants,
           MarkQueueSendStarted(g) \/ \E k \in Key : MarkSendStarted(k, g)
    PROVE  SendInv'
<1>1. ASSUME MarkQueueSendStarted(g) PROVE SendInv'
  <2>1. PICK k \in Key :
          /\ {k} = {j \in TaskRows(g.task, {"claimed"}) :
                      ~queue[j].send_started /\ queue[j].fence = g.fence}
          /\ SendStarted(k)
    BY <1>1 DEF MarkQueueSendStarted
  <2>2. k \in InState({"claimed"})
    BY <2>1 DEF TaskRows
  <2> QED
    BY <1>1, <2>1, <2>2, SendKeeps DEF MarkQueueSendStarted
<1>2. ASSUME NEW k \in Key, MarkSendStarted(k, g) PROVE SendInv'
  BY <1>2, SendKeeps DEF MarkSendStarted, TaskRows
<1> QED
  BY <1>1, <1>2

\* A row that moves to paused or to recovery_needed stays sound if it may be
\* paused: its last send is older than the lease or the lease is over.
LEMMA MoveKeeps ==
    ASSUME SendInv, NEW k \in Rows, NEW s \in {"paused", "recovery_needed"},
           s = "paused" => lastSent[k] < lease.fence \/ ~lease.live,
           Update(k, [queue[k] EXCEPT !.state = s]),
           UNCHANGED <<next, lease, grants, AdmissionVars, lastSent>>
    PROVE  SendInv'
<1>1. TypeOK /\ RowSound(queue[k], lastSent[k]) /\ s \in RowState
  BY DEF SendInv, RowState
<1>2. PICK row \in Row : row = [queue[k] EXCEPT !.state = s] /\ row.state = s
  BY <1>1, MovedRow
<1>3. RowSound(row, lastSent[k])
  BY <1>1, <1>2 DEF RowSound
<1> QED
  BY <1>2, <1>3, KeepUnsent

\* An unsent row's last send is older than the lease, or the lease is over.
LEMMA UnsentOlder ==
    ASSUME SendInv, NEW k \in InState({"queued", "claimed", "running"}), ~queue[k].send_started
    PROVE  lastSent[k] < lease.fence \/ ~lease.live
<1>1. /\ TypeOK /\ LeaseSound /\ RowSound(queue[k], lastSent[k]) /\ queue[k] \in Row
      /\ queue[k].state \in {"queued", "claimed", "running"}
      /\ lastSent[k] \in Nat /\ lease.fence \in Nat /\ queue[k].fence \in Nat
  BY RowTypes DEF SendInv, InState, TypeOK, Row, Rows
<1>2. CASE queue[k].state = "claimed"
  <2>1. [task |-> queue[k].task, fence |-> queue[k].fence] \in grants
    BY <1>1, <1>2 DEF RowSound
  <2>2. queue[k].fence <= lease.fence
    BY <1>1, <2>1 DEF LeaseSound
  <2>3. lastSent[k] < queue[k].fence
    BY <1>1, <1>2 DEF RowSound
  <2> QED
    BY SMT, <1>1, <2>2, <2>3
<1> QED
  BY <1>1, <1>2 DEF RowSound

\* The pauses of one row, by its claim and after a reap.
LEMMA PausesKeep ==
    ASSUME SendInv, NEW g \in grants,
           PauseTaskAfterReap(g) \/ \E k \in Key : PauseQueue(k, g)
    PROVE  SendInv'
<1>1. ASSUME NEW k \in Key, PauseQueue(k, g) PROVE SendInv'
  <2>1. k \in Rows /\ (lastSent[k] < lease.fence \/ ~lease.live)
    BY <1>1, UnsentOlder DEF PauseQueue, InState
  <2> QED
    BY <1>1, <2>1, MoveKeeps DEF PauseQueue
<1>2. ASSUME PauseTaskAfterReap(g) PROVE SendInv'
  <2>1. PICK k \in Oldest(TaskRows(g.task, {"queued", "claimed", "running"})) :
          IF queue[k].state = "queued"
          THEN ~queue[k].send_started /\ Update(k, [queue[k] EXCEPT !.state = "paused"])
          ELSE /\ queue[k].fence = g.fence
               /\ lease.task = g.task /\ lease.fence = g.fence
               /\ Update(k, [queue[k] EXCEPT !.state = ReapedRow(k, g)])
    BY <1>2 DEF PauseTaskAfterReap
  <2>2. k \in InState({"queued", "claimed", "running"}) /\ k \in Rows
    BY <2>1 DEF Oldest, TaskRows, InState
  <2>3. CASE queue[k].state = "queued"
    <3>1. lastSent[k] < lease.fence \/ ~lease.live
      BY <2>1, <2>2, <2>3, UnsentOlder
    <3> QED
      BY <1>2, <2>1, <2>2, <2>3, <3>1, MoveKeeps DEF PauseTaskAfterReap
  <2>4. CASE queue[k].state # "queued"
    <3>1. PICK s \in {"paused", "recovery_needed"} : s = ReapedRow(k, g)
      BY DEF ReapedRow
    <3>2. s = "paused" => ~lease.live
      BY <2>1, <2>4, <3>1 DEF ReapedRow, LiveLease, SendInv, LeaseSound
    <3>3. Update(k, [queue[k] EXCEPT !.state = s])
      BY <2>1, <2>4, <3>1
    <3> QED
      BY <1>2, <2>2, <3>2, <3>3, MoveKeeps DEF PauseTaskAfterReap
  <2> QED
    BY <2>3, <2>4
<1> QED
  BY <1>1, <1>2

\* The pauses of all the rows of a task.
LEMMA PauseAllKeeps ==
    ASSUME SendInv, NEW t \in Task, MarkPauseRecoveryNeeded(t) \/ PauseTaskQueued(t)
    PROVE  SendInv'
<1>1. TypeOK /\ next \in Nat \ {0}
  BY DEF SendInv, TypeOK
<1>2. ASSUME NEW S \in SUBSET Rows, NEW s \in {"paused", "recovery_needed"}, SetState(S, s),
             s = "paused" => \A k \in S : lastSent[k] < lease.fence \/ ~lease.live,
             UNCHANGED <<next, lease, grants, AdmissionVars, lastSent>>
      PROVE  SendInv'
  <2>1. /\ queue' \in [Key -> Row \cup {None}]
        /\ \A j \in Key \ S : queue'[j] = queue[j]
        /\ \A k \in S : queue'[k] \in Row /\ queue'[k].state = s
    BY SMT, <1>1, <1>2, UpdateAll DEF RowState
  <2>2. ASSUME NEW k \in S PROVE RowSound(queue'[k], lastSent[k])
    BY <1>2, <2>1 DEF SendInv, RowSound
  <2> QED
    BY <1>1, <1>2, <2>1, <2>2, KeepRows
<1>3. CASE MarkPauseRecoveryNeeded(t)
  <2> DEFINE S == {k \in TaskRows(t, {"claimed", "running"}) : queue[k].send_started}
  <2>1. S \subseteq Rows
    BY DEF TaskRows, InState
  <2>2. SetState(S, "recovery_needed") /\ UNCHANGED <<next, lease, grants, AdmissionVars, lastSent>>
    BY <1>3 DEF MarkPauseRecoveryNeeded
  <2> HIDE DEF S
  <2> QED
    BY <1>2, <2>1, <2>2
<1>4. CASE PauseTaskQueued(t)
  <2> DEFINE S == {k \in TaskRows(t, {"queued"}) : ~queue[k].send_started /\ queue[k].fence = 0}
  <2>1. S \subseteq Rows
    BY DEF TaskRows, InState
  <2>2. SetState(S, "paused") /\ UNCHANGED <<next, lease, grants, AdmissionVars, lastSent>>
    BY <1>4 DEF PauseTaskQueued
  <2>3. \A k \in S : lastSent[k] < lease.fence \/ ~lease.live
    BY UnsentOlder DEF TaskRows, InState
  <2> HIDE DEF S
  <2> QED
    BY <1>2, <2>1, <2>2, <2>3
<1> QED
  BY <1>3, <1>4

\* Both resumes requeue rows that were paused, hence safe to claim again.
LEMMA ResumesKeep ==
    ASSUME SendInv,
           (\E t \in Task : ResumeTask(t)) \/ (\E g \in grants, k \in Key : ResumeQueue(k, g))
    PROVE  SendInv'
<1>1. PICK S \in SUBSET InState({"paused"}) : Requeue(S)
  BY DEF ResumeTask, ResumeQueue, TaskRows
<1>2. UNCHANGED <<lease, grants, AdmissionVars, lastSent>> /\ TypeOK /\ S \subseteq Rows
  BY DEF ResumeTask, ResumeQueue, SendInv, InState
<1>3. /\ next' \in Nat \ {0}
      /\ queue' \in [Key -> Row \cup {None}]
      /\ \A j \in Key \ S : queue'[j] = queue[j]
      /\ \A k \in S : queue'[k] \in Row /\ queue'[k].state = "queued" /\ ~queue'[k].send_started
  <2>1. next \in Nat \ {0}
    BY <1>2 DEF TypeOK
  <2>2. Cardinality(S) \in Nat /\ next' = next + Cardinality(S)
    BY <1>1, <1>2, RequeueAll
  <2>3. /\ queue' \in [Key -> Row \cup {None}]
        /\ \A j \in Key \ S : queue'[j] = queue[j]
        /\ \A k \in S : queue'[k] \in Row /\ queue'[k].state = "queued" /\ queue'[k].send_started = FALSE
    BY <1>1, <1>2, RequeueAll
  <2> QED
    BY SMT, <2>1, <2>2, <2>3
<1>4. ASSUME NEW k \in S PROVE RowSound(queue'[k], lastSent[k])
  <2>1. k \in Rows /\ queue[k].state = "paused"
    BY <1>1 DEF InState
  <2> QED
    BY <1>3, <2>1 DEF SendInv, RowSound
<1> QED
  BY <1>2, <1>3, <1>4, KeepRows

\* Startup recovery queues only rows that were never sent under their claim.
LEMMA RecoverKeeps ==
    ASSUME SendInv, NEW k \in Key, RecoverQueue(k)
    PROVE  SendInv'
<1>1. /\ k \in InState({"claimed", "running"}) /\ k \in Rows /\ TypeOK
      /\ RowSound(queue[k], lastSent[k]) /\ Update(k, Recovered(queue[k]))
      /\ UNCHANGED <<next, lease, grants, AdmissionVars, lastSent>>
  BY DEF RecoverQueue, SendInv, InState
<1>2. CASE queue[k].send_started
  BY <1>1, <1>2, MoveKeeps DEF Recovered
<1>3. CASE ~queue[k].send_started
  <2>1. lastSent[k] < lease.fence \/ ~lease.live
    BY <1>1, <1>3, UnsentOlder DEF InState
  <2>2. PICK row \in Row :
          /\ row = [queue[k] EXCEPT !.state = "queued", !.fence = 0]
          /\ row.state = "queued" /\ row.send_started = queue[k].send_started
    BY <1>1, RequeuedRow
  <2>3. RowSound(row, lastSent[k])
    BY <1>1, <1>3, <2>1, <2>2 DEF RowSound
  <2>4. Update(k, row)
    BY <1>1, <1>3, <2>2 DEF Recovered
  <2> QED
    BY <1>1, <2>3, <2>4, KeepUnsent
<1> QED
  BY <1>2, <1>3

-----------------------------------------------------------------------------
(* The invariant, and the properties that follow from it alone. *)

\* SendInv is inductive.
LEMMA SendInvNext == SendInv /\ [Next]_vars => SendInv'
<1> SUFFICES ASSUME SendInv, [Next]_vars PROVE SendInv'
  OBVIOUS
<1>1. CASE UNCHANGED vars
  BY <1>1 DEF vars, SendInv, TypeOK, LeaseSound, RowSound, Rows
<1>2. CASE Lapse \/ Release \/ \E t \in Task : Acquire(t)
  BY <1>2, LeaseKeeps
<1>3. CASE \E e \in Event, k \in Key, t \in Task : AdmitQueued(e, k, t)
  BY <1>3, AdmitKeeps
<1>4. CASE \E t \in Task : AdmissionMoves(t)
  BY <1>4, AdmissionKeeps
<1>5. CASE (\E t \in Task : ClaimQueue(t)) \/ (\E g \in grants : ClaimNext(g))
  BY <1>5, ClaimsKeep
<1>6. CASE \E g \in grants : MarkQueueSendStarted(g) \/ \E k \in Key : MarkSendStarted(k, g)
  BY <1>6, SendsKeep
<1>7. CASE \E g \in grants : PauseTaskAfterReap(g) \/ \E k \in Key : PauseQueue(k, g)
  BY <1>7, PausesKeep
<1>8. CASE \E t \in Task : MarkPauseRecoveryNeeded(t) \/ PauseTaskQueued(t)
  BY <1>8, PauseAllKeeps
<1>9. CASE (\E t \in Task : ResumeTask(t)) \/ (\E g \in grants, k \in Key : ResumeQueue(k, g))
  BY <1>9, ResumesKeep
<1>10. CASE \E k \in Key : RecoverQueue(k)
  BY <1>10, RecoverKeeps
<1> QED
  BY <1>1, <1>2, <1>3, <1>4, <1>5, <1>6, <1>7, <1>8, <1>9, <1>10 DEF Next

\* SendInv holds in every reachable state.
LEMMA SendInvAlways == Spec => []SendInv
  BY SendInvInit, SendInvNext, PTL DEF Spec

\* The tables of the queue keep to their schema in every reachable state.
THEOREM TypeCorrect == Spec => []TypeOK
<1>1. SendInv => TypeOK
  BY DEF SendInv
<1> QED
  BY <1>1, SendInvAlways, PTL

\* A claimed or running row always names a lease granted to its own task: no
\* late caller of claim_next, pause or recover detaches a row from its grant.
THEOREM ClaimsBoundToGrants == Spec => []RowBoundToGrant
<1>1. SendInv => RowBoundToGrant
  BY DEF SendInv, RowBoundToGrant, RowSound, InState
<1> QED
  BY <1>1, SendInvAlways, PTL

-----------------------------------------------------------------------------
(* What a step may do to a row that exists. *)

\* The states that count against the capacity.
OpenState == {"queued", "claimed", "running", "paused"}

\* How a row may change in one step.
RowStep(old, new) ==
    /\ new.task = old.task
    /\ new.state \in OpenState => old.state \in OpenState
    /\ ~old.send_started /\ new.send_started => old.state = "claimed" /\ new.fence = old.fence
    /\ old.send_started /\ new.state = "queued" => old.state = "paused"

\* No row appears or goes, and every row takes a row step.
RowsStep ==
    /\ Rows' = Rows
    /\ \A k \in Rows : queue'[k] \in Row /\ RowStep(queue[k], queue'[k])

\* No existing row changes its place.
SameSequences == \A k \in Rows : queue'[k].sequence = queue[k].sequence

\* A row that does not change takes a row step.
LEMMA SameStep ==
    ASSUME SendInv, NEW k \in Rows, queue'[k] = queue[k]
    PROVE  queue'[k] \in Row /\ RowStep(queue[k], queue'[k])
  BY RowTypes DEF SendInv, RowSound, RowStep

\* A sound change of one row leaves the others where they are.
LEMMA StepOne ==
    ASSUME SendInv, NEW k \in Rows, NEW row \in Row, Update(k, row), RowStep(queue[k], row),
           row.sequence = queue[k].sequence
    PROVE  RowsStep /\ SameSequences
<1>1. TypeOK /\ Rows \subseteq Key
  BY DEF SendInv, Rows
<1>2. /\ \A j \in Key : j # k => queue'[j] = queue[j]
      /\ queue'[k] \in Row /\ queue'[k].sequence = row.sequence
      /\ queue'[k].state = row.state /\ queue'[k].task = row.task
      /\ queue'[k].fence = row.fence /\ queue'[k].send_started = row.send_started
  BY <1>1, UpdateOne
<1>3. RowStep(queue[k], queue'[k])
  BY <1>2 DEF RowStep
<1>4. ASSUME NEW j \in Rows, j # k PROVE queue'[j] \in Row /\ RowStep(queue[j], queue'[j])
  BY <1>1, <1>2, <1>4, SameStep
<1>5. Rows' = Rows
  BY <1>1, <1>2, NoneAssumption DEF Rows
<1> QED
  BY <1>1, <1>2, <1>3, <1>4, <1>5 DEF RowsStep, SameSequences

\* A pause or a mark for recovery is a row step.
LEMMA StepMove ==
    ASSUME SendInv, NEW k \in InState({"queued", "claimed", "running"}),
           NEW s \in {"paused", "recovery_needed"}, Update(k, [queue[k] EXCEPT !.state = s])
    PROVE  RowsStep /\ SameSequences
<1>1. TypeOK /\ k \in Rows /\ s \in RowState /\ queue[k].state \in {"queued", "claimed", "running"}
  BY DEF SendInv, RowState, InState
<1>2. PICK row \in Row :
        /\ row = [queue[k] EXCEPT !.state = s] /\ row.state = s
        /\ row.task = queue[k].task /\ row.sequence = queue[k].sequence /\ row.fence = queue[k].fence
        /\ row.send_started = queue[k].send_started
  BY ZenonT(60), <1>1, MovedRow
<1>3. RowStep(queue[k], row)
  BY <1>1, <1>2 DEF RowStep, OpenState
<1> QED
  BY <1>1, <1>2, <1>3, StepOne

\* A claim is a row step.
LEMMA StepClaim ==
    ASSUME SendInv, NEW k \in InState({"queued"}), NEW f \in Nat, Update(k, Claimed(k, f))
    PROVE  RowsStep /\ SameSequences
<1>1. TypeOK /\ k \in Rows /\ queue[k].state = "queued"
  BY DEF SendInv, InState
<1>2. PICK row \in Row :
        /\ row = Claimed(k, f) /\ row.state = "claimed" /\ row.task = queue[k].task /\ row.sequence = queue[k].sequence
        /\ row.send_started = queue[k].send_started
  BY <1>1, ClaimedRow
<1>3. RowStep(queue[k], row)
  BY <1>1, <1>2 DEF RowStep, OpenState
<1> QED
  BY <1>1, <1>2, <1>3, StepOne

\* A send is a row step, made from a claim.
LEMMA StepSend ==
    ASSUME SendInv, NEW k \in InState({"claimed"}), SendStarted(k)
    PROVE  RowsStep /\ SameSequences
<1>1. TypeOK /\ k \in Rows /\ queue[k].state = "claimed"
  BY DEF SendInv, InState
<1>2. PICK row \in Row :
        /\ row = [queue[k] EXCEPT !.state = "running", !.send_started = TRUE]
        /\ row.state = "running" /\ row.task = queue[k].task /\ row.sequence = queue[k].sequence /\ row.fence = queue[k].fence
  BY <1>1, SentRow
<1>3. RowStep(queue[k], row)
  BY <1>1, <1>2 DEF RowStep, OpenState
<1> QED
  BY <1>1, <1>2, <1>3, StepOne DEF SendStarted

\* A change of state of several rows is a step of each.
LEMMA StepSet ==
    ASSUME SendInv, NEW S \in SUBSET InState({"queued", "claimed", "running"}),
           NEW s \in {"paused", "recovery_needed"}, SetState(S, s)
    PROVE  RowsStep /\ SameSequences
<1>1. /\ TypeOK /\ S \subseteq Rows /\ Rows \subseteq Key /\ s \in RowState
      /\ \A k \in S : queue[k].state \in {"queued", "claimed", "running"}
  BY DEF SendInv, RowState, InState, Rows
<1>2. /\ \A j \in Key \ S : queue'[j] = queue[j]
      /\ \A k \in S :
           /\ queue'[k] \in Row /\ queue'[k].state = s /\ queue'[k].task = queue[k].task
           /\ queue'[k].send_started = queue[k].send_started
           /\ queue'[k].sequence = queue[k].sequence
  BY SMT, <1>1, UpdateAll
<1>3. ASSUME NEW k \in S PROVE queue'[k] \in Row /\ RowStep(queue[k], queue'[k])
  BY <1>1, <1>2 DEF RowStep, OpenState
<1>4. ASSUME NEW k \in Rows, k \notin S PROVE queue'[k] \in Row /\ RowStep(queue[k], queue'[k])
  BY <1>1, <1>2, <1>4, SameStep
<1>5. Rows' = Rows
  BY SMT, <1>1, <1>2, NoneAssumption DEF Rows
<1> QED
  BY <1>1, <1>2, <1>3, <1>4, <1>5 DEF RowsStep, SameSequences

\* A resume is a step of each resumed row.
LEMMA StepRequeue ==
    ASSUME SendInv, NEW S \in SUBSET InState({"paused"}), Requeue(S)
    PROVE  RowsStep
<1>1. /\ TypeOK /\ S \subseteq Rows /\ Rows \subseteq Key
      /\ \A k \in S : queue[k].state = "paused"
  BY DEF SendInv, InState, Rows
<1>2. /\ \A j \in Key \ S : queue'[j] = queue[j]
      /\ \A k \in S :
           /\ queue'[k] \in Row /\ queue'[k].state = "queued" /\ queue'[k].task = queue[k].task
           /\ queue'[k].send_started = FALSE
  BY <1>1, RequeueAll
<1>3. ASSUME NEW k \in S PROVE queue'[k] \in Row /\ RowStep(queue[k], queue'[k])
  BY <1>1, <1>2 DEF RowStep, OpenState
<1>4. ASSUME NEW k \in Rows, k \notin S PROVE queue'[k] \in Row /\ RowStep(queue[k], queue'[k])
  BY <1>1, <1>2, <1>4, SameStep
<1>5. Rows' = Rows
  BY SMT, <1>1, <1>2, NoneAssumption DEF Rows
<1> QED
  BY <1>3, <1>4, <1>5 DEF RowsStep

\* Startup recovery is a row step.
LEMMA StepRecover ==
    ASSUME SendInv, NEW k \in Key, RecoverQueue(k)
    PROVE  RowsStep /\ SameSequences
<1>1. /\ TypeOK /\ k \in Rows /\ k \in InState({"queued", "claimed", "running"})
      /\ queue[k].state \in {"claimed", "running"} /\ Update(k, Recovered(queue[k]))
  BY DEF RecoverQueue, SendInv, InState
<1>2. CASE queue[k].send_started
  BY <1>1, <1>2, StepMove DEF Recovered
<1>3. CASE ~queue[k].send_started
  <2>1. PICK row \in Row :
          /\ row = [queue[k] EXCEPT !.state = "queued", !.fence = 0]
          /\ row.state = "queued" /\ row.task = queue[k].task /\ row.sequence = queue[k].sequence
          /\ row.send_started = queue[k].send_started
    BY <1>1, RequeuedRow
  <2>2. RowStep(queue[k], row)
    BY <1>1, <1>3, <2>1 DEF RowStep, OpenState
  <2> QED
    BY <1>1, <1>3, <2>1, <2>2, StepOne DEF Recovered
<1> QED
  BY <1>2, <1>3

\* A step admits a new row, or moves the rows that exist: it keeps their
\* places or it resumes paused rows.
LEMMA Steps ==
    ASSUME SendInv, [Next]_vars,
           \A e \in Event, k \in Key, t \in Task : ~AdmitQueued(e, k, t)
    PROVE  /\ RowsStep
           /\ UNCHANGED <<envelope, attempt>>
           /\ \/ SameSequences /\ next' = next
              \/ \E S \in SUBSET Rows : Requeue(S)
           /\ UNCHANGED admission \/ \E t \in Task : AdmissionMoves(t)
<1> DEFINE Moves == RowsStep /\ SameSequences
<1>1. CASE \/ UNCHANGED vars \/ Lapse \/ Release
           \/ \E t \in Task : Acquire(t) \/ AdmissionMoves(t)
  <2>1. /\ UNCHANGED <<queue, next, envelope, attempt>>
        /\ UNCHANGED admission \/ \E t \in Task : AdmissionMoves(t)
    BY <1>1 DEF vars, Lapse, Release, Acquire, AdmissionMoves, AdmissionVars
  <2>2. Moves
    BY <2>1, SameStep DEF RowsStep, SameSequences, Rows
  <2> QED
    BY <2>1, <2>2
<1>2. ASSUME NEW t \in Task, ClaimQueue(t) PROVE Moves /\ UNCHANGED <<next, AdmissionVars>>
  <2>1. PICK k \in Oldest({j \in TaskRows(t, {"queued"}) : ~queue[j].send_started}) :
          Update(k, Claimed(k, lease.fence))
    BY <1>2 DEF ClaimQueue
  <2>2. k \in InState({"queued"}) /\ lease.fence \in Nat
    BY <2>1 DEF Oldest, TaskRows, SendInv, TypeOK
  <2> QED
    BY <1>2, <2>1, <2>2, StepClaim DEF ClaimQueue
<1>3. ASSUME NEW g \in grants, ClaimNext(g) PROVE Moves /\ UNCHANGED <<next, AdmissionVars>>
  <2>1. PICK k \in Oldest(InState({"queued"})) : Update(k, Claimed(k, g.fence))
    BY <1>3 DEF ClaimNext
  <2>2. k \in InState({"queued"}) /\ g.fence \in Nat
    BY <2>1 DEF Oldest, SendInv, TypeOK, Grant
  <2> QED
    BY <1>3, <2>1, <2>2, StepClaim DEF ClaimNext
<1>4. ASSUME NEW g \in grants, MarkQueueSendStarted(g) \/ \E k \in Key : MarkSendStarted(k, g)
      PROVE  Moves /\ UNCHANGED <<next, AdmissionVars>>
  <2>1. PICK k \in InState({"claimed"}) : SendStarted(k)
    <3>1. ASSUME MarkQueueSendStarted(g) PROVE \E k \in InState({"claimed"}) : SendStarted(k)
      <4>1. PICK k \in Key :
              /\ {k} = {j \in TaskRows(g.task, {"claimed"}) :
                          ~queue[j].send_started /\ queue[j].fence = g.fence}
              /\ SendStarted(k)
        BY <3>1 DEF MarkQueueSendStarted
      <4> QED
        BY <4>1 DEF TaskRows
    <3>2. ASSUME NEW k \in Key, MarkSendStarted(k, g)
          PROVE  \E j \in InState({"claimed"}) : SendStarted(j)
      BY <3>2 DEF MarkSendStarted, TaskRows
    <3> QED
      BY <1>4, <3>1, <3>2
  <2> QED
    BY <1>4, <2>1, StepSend DEF MarkQueueSendStarted, MarkSendStarted
<1>5. ASSUME NEW g \in grants, PauseTaskAfterReap(g) PROVE Moves /\ UNCHANGED <<next, AdmissionVars>>
  <2>1. PICK k \in Oldest(TaskRows(g.task, {"queued", "claimed", "running"})) :
          IF queue[k].state = "queued"
          THEN ~queue[k].send_started /\ Update(k, [queue[k] EXCEPT !.state = "paused"])
          ELSE /\ queue[k].fence = g.fence
               /\ lease.task = g.task /\ lease.fence = g.fence
               /\ Update(k, [queue[k] EXCEPT !.state = ReapedRow(k, g)])
    BY <1>5 DEF PauseTaskAfterReap
  <2>2. k \in InState({"queued", "claimed", "running"})
    BY <2>1 DEF Oldest, TaskRows
  <2>3. ReapedRow(k, g) \in {"paused", "recovery_needed"}
    BY DEF ReapedRow
  <2> QED
    BY <1>5, <2>1, <2>2, <2>3, StepMove DEF PauseTaskAfterReap
<1>6. ASSUME NEW g \in grants, NEW k \in Key, PauseQueue(k, g)
      PROVE  Moves /\ UNCHANGED <<next, AdmissionVars>>
  BY <1>6, StepMove DEF PauseQueue
<1>7. ASSUME NEW t \in Task, MarkPauseRecoveryNeeded(t)
      PROVE  Moves /\ UNCHANGED <<next, AdmissionVars>>
  <2> DEFINE S == {k \in TaskRows(t, {"claimed", "running"}) : queue[k].send_started}
  <2>1. S \subseteq InState({"queued", "claimed", "running"})
    BY DEF TaskRows, InState
  <2>2. SetState(S, "recovery_needed") /\ UNCHANGED <<next, AdmissionVars>>
    BY <1>7 DEF MarkPauseRecoveryNeeded
  <2> HIDE DEF S
  <2> QED
    BY <2>1, <2>2, StepSet
<1>8. ASSUME NEW t \in Task, PauseTaskQueued(t)
      PROVE  Moves /\ UNCHANGED <<next, AdmissionVars>>
  <2> DEFINE S == {k \in TaskRows(t, {"queued"}) : ~queue[k].send_started /\ queue[k].fence = 0}
  <2>1. S \subseteq InState({"queued", "claimed", "running"})
    BY DEF TaskRows, InState
  <2>2. SetState(S, "paused") /\ UNCHANGED <<next, AdmissionVars>>
    BY <1>8 DEF PauseTaskQueued
  <2> HIDE DEF S
  <2> QED
    BY <2>1, <2>2, StepSet
<1>9. ASSUME (\E t \in Task : ResumeTask(t)) \/ (\E g \in grants, k \in Key : ResumeQueue(k, g))
      PROVE  RowsStep /\ UNCHANGED AdmissionVars /\ \E S \in SUBSET Rows : Requeue(S)
  <2>1. PICK S \in SUBSET InState({"paused"}) : Requeue(S)
    BY <1>9 DEF ResumeTask, ResumeQueue, TaskRows
  <2>2. UNCHANGED AdmissionVars /\ S \in SUBSET Rows
    BY <1>9 DEF ResumeTask, ResumeQueue, InState
  <2> QED
    BY <2>1, <2>2, StepRequeue
<1>10. ASSUME NEW k \in Key, RecoverQueue(k) PROVE Moves /\ UNCHANGED <<next, AdmissionVars>>
  BY <1>10, StepRecover DEF RecoverQueue
<1> HIDE DEF Moves
<1>11. CASE Moves /\ UNCHANGED <<next, AdmissionVars>>
  BY <1>11 DEF Moves, AdmissionVars
<1>12. CASE RowsStep /\ UNCHANGED AdmissionVars /\ \E S \in SUBSET Rows : Requeue(S)
  BY <1>12 DEF AdmissionVars
<1> QED
  BY <1>1, <1>2, <1>3, <1>4, <1>5, <1>6, <1>7, <1>8, <1>9, <1>10, <1>11, <1>12 DEF Next

\* An admission leaves the rows that exist alone.
LEMMA AdmitRows ==
    ASSUME SendInv, NEW e \in Event, NEW k \in Key, NEW t \in Task, AdmitQueued(e, k, t)
    PROVE  /\ k \notin Rows /\ Rows' = Rows \cup {k}
           /\ \A j \in Rows : queue'[j] = queue[j]
           /\ queue'[k].state = "queued" /\ queue'[k].task = t /\ queue'[k].sequence = next
           /\ next \in Nat /\ next' = next + 1
           /\ Cardinality(ActiveRows) < Capacity
<1> DEFINE row == [state |-> "queued", task |-> t, sequence |-> next, revision |-> 0,
                   send_started |-> FALSE, fence |-> 0]
<1>1. /\ queue \in [Key -> Row \cup {None}] /\ next \in Nat
      /\ queue[k] = None /\ queue' = [queue EXCEPT ![k] = row] /\ next' = next + 1
      /\ Cardinality(ActiveRows) < Capacity
  BY DEF SendInv, TypeOK, AdmitQueued, Reserve
<1>2. row \in Row /\ row.state = "queued" /\ row.task = t /\ row.sequence = next
  BY <1>1 DEF Row, RowState
<1> HIDE DEF row
<1> QED
  BY <1>1, <1>2, NoneAssumption DEF Rows

\* No sequence of pauses, resumes, claims and recoveries lets one grant send a
\* row twice.
THEOREM ResendsNeedNewGrants == Spec => ResendNeedsNewGrant
<1>1. ASSUME SendInv, [Next]_vars, NEW k \in Rows, ~queue[k].send_started, queue'[k].send_started
      PROVE  queue'[k].fence > lastSent[k]
  <2>1. RowSound(queue[k], lastSent[k]) /\ queue[k].fence \in Nat /\ lastSent[k] \in Nat
    BY <1>1, RowTypes DEF SendInv, Row, TypeOK, Rows
  <2>2. CASE \E e \in Event, j \in Key, t \in Task : AdmitQueued(e, j, t)
    BY <1>1, <2>2, AdmitRows
  <2>3. CASE \A e \in Event, j \in Key, t \in Task : ~AdmitQueued(e, j, t)
    <3>1. RowsStep
      BY <1>1, <2>3, Steps
    <3> QED
      BY <1>1, <2>1, <3>1 DEF RowsStep, RowStep, RowSound
  <2> QED
    BY <2>2, <2>3
<1>2. SendInv /\ [Next]_vars =>
        [\A k \in Rows : ~queue[k].send_started /\ queue'[k].send_started
                           => queue'[k].fence > lastSent[k]]_vars
  BY <1>1
<1> QED
  BY <1>2, SendInvAlways, PTL DEF Spec, ResendNeedsNewGrant

\* A sent row returns to the queue only through a resume; startup recovery
\* never sends it again by itself.
THEOREM SentRowsNotRequeued == Spec => SentRequeuedOnlyByResume
<1>1. ASSUME SendInv, [Next]_vars, NEW k \in Rows, queue[k].send_started, queue'[k].state = "queued"
      PROVE  queue[k].state = "paused"
  <2>1. RowSound(queue[k], lastSent[k])
    BY <1>1 DEF SendInv
  <2>2. CASE \E e \in Event, j \in Key, t \in Task : AdmitQueued(e, j, t)
    <3>1. queue'[k] = queue[k]
      BY <1>1, <2>2, AdmitRows
    <3> QED
      BY <1>1, <2>1, <3>1 DEF RowSound
  <2>3. CASE \A e \in Event, j \in Key, t \in Task : ~AdmitQueued(e, j, t)
    <3>1. RowsStep
      BY <1>1, <2>3, Steps
    <3> QED
      BY <1>1, <3>1 DEF RowsStep, RowStep
  <2> QED
    BY <2>2, <2>3
<1>2. SendInv /\ [Next]_vars =>
        [\A k \in Rows : queue[k].send_started /\ queue'[k].state = "queued"
                           => queue[k].state = "paused"]_vars
  BY <1>1
<1> QED
  BY <1>2, SendInvAlways, PTL DEF Spec, SentRequeuedOnlyByResume

-----------------------------------------------------------------------------
(* The bounded queue. *)

\* The rows that count against the capacity grow only by an admission, which
\* checks it first; recovery_needed is never left.
LEMMA CapacityNext == SendInv /\ CapacityHeld /\ [Next]_vars => CapacityHeld'
<1> SUFFICES ASSUME SendInv, CapacityHeld, [Next]_vars PROVE CapacityHeld'
  OBVIOUS
<1> DEFINE Active == InState(OpenState)
<1>1. Active \subseteq Key /\ IsFiniteSet(Active) /\ Cardinality(Active) \in Nat
  BY RowsFinite DEF InState, Rows
<1>2. Cardinality(Active) <= Capacity /\ Active = ActiveRows /\ (CapacityHeld' <=> Cardinality(Active') <= Capacity)
  BY DEF CapacityHeld, OpenState, ActiveRows
<1>3. CASE \E e \in Event, k \in Key, t \in Task : AdmitQueued(e, k, t)
  <2>1. PICK e \in Event, k \in Key, t \in Task : AdmitQueued(e, k, t)
    BY <1>3
  <2>2. Active' \subseteq Active \cup {k} /\ Cardinality(Active) < Capacity
    <3>1. /\ Rows' = Rows \cup {k} /\ \A j \in Rows : queue'[j] = queue[j]
          /\ Cardinality(ActiveRows) < Capacity
      BY <2>1, AdmitRows
    <3> QED
      BY <1>2, <3>1 DEF InState
  <2>3. IsFiniteSet(Active \cup {k}) /\ Cardinality(Active \cup {k}) \in Nat
        /\ Cardinality(Active \cup {k}) <= Cardinality(Active) + 1
    <3> HIDE DEF Active
    <3>1. /\ IsFiniteSet(Active \cup {k})
          /\ Cardinality(Active \cup {k}) \in {Cardinality(Active), Cardinality(Active) + 1}
      BY <1>1, FS_AddElement
    <3> QED
      BY SMT, <1>1, <3>1
  <2>4. Cardinality(Active') \in Nat /\ Cardinality(Active') <= Cardinality(Active \cup {k})
    <3> HIDE DEF Active
    <3>1. IsFiniteSet(Active') /\ Cardinality(Active') <= Cardinality(Active \cup {k})
      BY <2>2, <2>3, FS_Subset
    <3> QED
      BY <3>1, FS_CardinalityType
  <2> HIDE DEF Active
  <2> QED
    BY SMT, <1>1, <1>2, <2>2, <2>3, <2>4, WorkQueueAssumption
<1>4. CASE \A e \in Event, k \in Key, t \in Task : ~AdmitQueued(e, k, t)
  <2>1. RowsStep
    BY <1>4, Steps
  <2>2. Active' \subseteq Active
    BY <2>1 DEF RowsStep, RowStep, InState
  <2>3. Cardinality(Active') \in Nat /\ Cardinality(Active') <= Cardinality(Active)
    <3> HIDE DEF Active
    <3> QED
      BY <1>1, <2>2, FS_Subset, FS_CardinalityType
  <2> HIDE DEF Active
  <2> QED
    BY SMT, <1>1, <1>2, <2>3, WorkQueueAssumption
<1> QED
  BY <1>3, <1>4

\* The endpoint never has more open rows than the capacity its reservations
\* were checked against.
THEOREM QueueBounded == Spec => []CapacityHeld
<1>1. Init => CapacityHeld
  <2>1. Init => InState({"queued", "claimed", "running", "paused"}) = {}
    BY DEF Init, InState, Rows
  <2> QED
    BY SMT, <2>1, FS_EmptySet, WorkQueueAssumption DEF CapacityHeld
<1> QED
  BY <1>1, CapacityNext, SendInvAlways, PTL DEF Spec

-----------------------------------------------------------------------------
(* The order of the queue. *)

\* The rank of a row among the resumed ones grows with its sequence.
LEMMA RankGrows ==
    ASSUME TypeOK, NEW S \in SUBSET Rows, NEW j \in S, NEW k \in S,
           queue[j].sequence < queue[k].sequence
    PROVE  Cardinality({i \in S : queue[i].sequence < queue[j].sequence})
             < Cardinality({i \in S : queue[i].sequence < queue[k].sequence})
<1> DEFINE Below(x) == {i \in S : queue[i].sequence < queue[x].sequence}
<1>1. S \subseteq Key /\ \A i \in S : queue[i].sequence \in Nat
  BY RowTypes DEF Row, Rows
<1>2. /\ Below(j) \subseteq Below(k) /\ j \in Below(k) /\ j \notin Below(j)
      /\ Below(j) \subseteq Key /\ Below(k) \subseteq Key
  BY SMT, <1>1
<1> HIDE DEF Below
<1>3. /\ IsFiniteSet(Below(k))
      /\ Cardinality(Below(j)) \in Nat /\ Cardinality(Below(k)) \in Nat
  BY <1>2, RowsFinite
<1>4. Cardinality(Below(j)) <= Cardinality(Below(k)) /\ Cardinality(Below(k)) # Cardinality(Below(j))
  BY <1>2, <1>3, FS_Subset
<1>5. Cardinality(Below(j)) < Cardinality(Below(k))
  BY SMT, <1>3, <1>4
<1> QED
  BY <1>5 DEF Below

\* A rank is below the size of the set.
LEMMA RankBounded ==
    ASSUME TypeOK, NEW S \in SUBSET Rows, NEW k \in S
    PROVE  /\ Cardinality({i \in S : queue[i].sequence < queue[k].sequence}) \in Nat
           /\ Cardinality({i \in S : queue[i].sequence < queue[k].sequence}) < Cardinality(S)
<1> DEFINE Below == {i \in S : queue[i].sequence < queue[k].sequence}
<1>1. S \subseteq Key /\ queue[k].sequence \in Nat
  BY RowTypes DEF Row, Rows
<1>2. Below \subseteq S /\ k \notin Below /\ Below \subseteq Key
  BY SMT, <1>1
<1> HIDE DEF Below
<1>3. IsFiniteSet(S) /\ Cardinality(S) \in Nat /\ Cardinality(Below) \in Nat
  BY <1>1, <1>2, RowsFinite
<1>4. Cardinality(Below) <= Cardinality(S) /\ Cardinality(S) # Cardinality(Below)
  BY <1>2, <1>3, FS_Subset
<1>5. Cardinality(Below) \in Nat /\ Cardinality(Below) < Cardinality(S)
  BY SMT, <1>3, <1>4
<1> QED
  BY <1>5 DEF Below

\* Every step keeps the sequences distinct and below the counter.
LEMMA SequencesNext == SendInv /\ SequencesDistinct /\ [Next]_vars => SequencesDistinct'
<1> SUFFICES ASSUME SendInv, SequencesDistinct, [Next]_vars PROVE SequencesDistinct'
  OBVIOUS
<1>1. TypeOK /\ next \in Nat /\ Rows \subseteq Key /\ \A k \in Rows : queue[k].sequence \in Nat
  BY RowTypes DEF SendInv, TypeOK, Row, Rows
<1>2. CASE \E e \in Event, k \in Key, t \in Task : AdmitQueued(e, k, t)
  <2>1. PICK k \in Key :
          /\ k \notin Rows /\ Rows' = Rows \cup {k}
          /\ \A j \in Rows : queue'[j] = queue[j]
          /\ queue'[k].sequence = next /\ next' = next + 1
    BY <1>2, AdmitRows
  <2> QED
    BY SMT, <1>1, <2>1 DEF SequencesDistinct
<1>3. CASE RowsStep /\ SameSequences /\ next' = next
  BY SMT, <1>3 DEF RowsStep, SameSequences, SequencesDistinct
<1>4. ASSUME RowsStep, NEW S \in SUBSET Rows, Requeue(S) PROVE SequencesDistinct'
  <2> DEFINE rank(k) == Cardinality({j \in S : queue[j].sequence < queue[k].sequence})
  <2>1. /\ Cardinality(S) \in Nat /\ next' = next + Cardinality(S)
        /\ \A j \in Key \ S : queue'[j] = queue[j]
        /\ \A k \in S : queue'[k].sequence = next + rank(k)
    BY <1>1, <1>4, RequeueAll
  <2>2. \A k \in S : rank(k) \in Nat /\ rank(k) < Cardinality(S)
    BY <1>1, RankBounded
  <2>3. \A j, k \in S : queue[j].sequence < queue[k].sequence => rank(j) < rank(k)
    BY <1>1, RankGrows
  <2> HIDE DEF rank
  <2>4. \A k \in Rows : queue'[k].sequence < next'
    BY SMT, <1>1, <2>1, <2>2 DEF SequencesDistinct
  <2>5. ASSUME NEW j \in S, NEW k \in S, queue'[j].sequence = queue'[k].sequence PROVE j = k
    <3>1. rank(j) = rank(k)
      BY SMT, <1>1, <2>1, <2>2, <2>5
    <3>2. queue[j].sequence = queue[k].sequence
      BY SMT, <1>1, <2>2, <2>3, <3>1
    <3> QED
      BY <3>2 DEF SequencesDistinct
  <2>6. \A j \in S, k \in Rows \ S : queue'[j].sequence # queue'[k].sequence
    BY SMT, <1>1, <2>1, <2>2 DEF SequencesDistinct
  <2>7. \A j, k \in Rows \ S : queue'[j].sequence = queue'[k].sequence => j = k
    BY <1>1, <2>1 DEF SequencesDistinct
  <2> QED
    BY ZenonT(60), <1>4, <2>4, <2>5, <2>6, <2>7 DEF RowsStep, SequencesDistinct
<1> QED
  BY <1>2, <1>3, <1>4, Steps

\* UNIQUE(target_endpoint_id, sequence) never refuses a reservation or a
\* resume.
THEOREM QueueOrder == Spec => []SequencesDistinct
<1>1. Init => SequencesDistinct
  BY DEF Init, SequencesDistinct, Rows
<1> QED
  BY <1>1, SequencesNext, SendInvAlways, PTL DEF Spec

-----------------------------------------------------------------------------
(* Envelopes, deliveries and attempts. *)

\* An attempt number given to an envelope stays below the one the revision of
\* its admission would give next; a task without an admission has no envelope.
AttemptsBelow ==
    \A e \in Event : envelope[e] # None =>
        /\ admission[envelope[e].task] # None
        /\ attempt[e] < FollowUpAttempt(admission[envelope[e].task].revision)

\* The facts an admission writes: the envelope is new, its attempt exceeds all
\* earlier ones of the task, and the other envelopes keep theirs.
LEMMA AdmitAttempts ==
    ASSUME SendInv, AttemptsBelow, NEW e \in Event, NEW k \in Key, NEW t \in Task,
           AdmitFacts(e, k, t)
    PROVE  /\ envelope[e] = None /\ envelope'[e] \in Envelope
           /\ envelope'[e].key = k /\ envelope'[e].task = t
           /\ \A d \in Event : d # e => envelope'[d] = envelope[d] /\ attempt'[d] = attempt[d]
           /\ attempt'[e] \in Nat \ {0}
           /\ \A d \in Event : envelope[d] # None /\ envelope[d].task = t => attempt[d] < attempt'[e]
           /\ AttemptsBelow'
<1>1. /\ envelope \in [Event -> Envelope \cup {None}]
      /\ admission \in [Task -> AdmissionRow \cup {None}]
      /\ attempt \in [Event -> Nat]
  BY DEF SendInv, TypeOK
<1> DEFINE env == [key |-> k, task |-> t]
<1>2. env \in Envelope /\ env.key = k /\ env.task = t /\ env # None
  BY SMT, NoneAssumption DEF Envelope
<1>3. envelope[e] = None /\ envelope' = [envelope EXCEPT ![e] = env]
  BY DEF AdmitFacts, Unknown
<1> HIDE DEF env
<1>4. /\ envelope'[e] = env /\ \A d \in Event : d # e => envelope'[d] = envelope[d]
      /\ \A d \in Event : envelope[d] # None => d # e /\ envelope[d].task \in Task
  BY <1>1, <1>3 DEF Envelope
<1>5. CASE AdmitDispatch(e, t)
  <2> DEFINE adm == [state |-> "enqueued", revision |-> 0]
  <2>1. /\ admission[t] = None /\ admission' = [admission EXCEPT ![t] = adm]
        /\ attempt' = [attempt EXCEPT ![e] = 1]
    BY <1>5 DEF AdmitDispatch
  <2>2. adm \in AdmissionRow /\ adm.revision = 0 /\ adm # None
    BY SMT, NoneAssumption DEF AdmissionRow
  <2> HIDE DEF adm
  <2>3. \A d \in Event : envelope[d] # None => envelope[d].task # t
    BY <2>1 DEF AttemptsBelow
  <2>4. /\ attempt'[e] = 1 /\ \A d \in Event : d # e => attempt'[d] = attempt[d]
        /\ admission'[t] = adm /\ \A u \in Task : u # t => admission'[u] = admission[u]
    BY <1>1, <2>1
  <2>5. AttemptsBelow'
    <3> SUFFICES ASSUME NEW d \in Event, envelope'[d] # None
                 PROVE  /\ admission'[envelope'[d].task] # None
                        /\ attempt'[d] < FollowUpAttempt(admission'[envelope'[d].task].revision)
      BY DEF AttemptsBelow, FollowUpAttempt
    <3>1. CASE d = e
      BY SMT, <1>2, <1>4, <2>2, <2>4, <3>1 DEF FollowUpAttempt
    <3>2. CASE d # e
      <4>1. envelope'[d] = envelope[d] /\ envelope[d] # None
        BY <1>4, <3>2
      <4>2. admission'[envelope[d].task] = admission[envelope[d].task]
        BY <1>4, <2>3, <2>4, <4>1
      <4> QED
        BY <2>4, <3>2, <4>1, <4>2 DEF AttemptsBelow
    <3> QED
      BY <3>1, <3>2
  <2> QED
    BY SMT, <1>2, <1>3, <1>4, <2>3, <2>4, <2>5
<1>6. ASSUME NEW revision \in 0..MaxAdmission, AdmitFollowUp(e, t, revision)
      PROVE  /\ \A d \in Event : d # e => attempt'[d] = attempt[d]
             /\ attempt'[e] \in Nat \ {0}
             /\ \A d \in Event : envelope[d] # None /\ envelope[d].task = t => attempt[d] < attempt'[e]
             /\ AttemptsBelow'
  <2> DEFINE adm == [admission[t] EXCEPT !.revision = @ + 1]
  <2>1. /\ admission[t] \in AdmissionRow /\ admission[t].revision = revision /\ revision \in Nat
        /\ admission' = [admission EXCEPT ![t] = adm]
        /\ attempt' = [attempt EXCEPT ![e] = revision + 2]
    BY SMT, <1>1, <1>6, WorkQueueAssumption DEF AdmitFollowUp, FollowUpAttempt
  <2>2. adm \in AdmissionRow /\ adm.revision = revision + 1 /\ adm # None
    BY SMT, <2>1, NoneAssumption DEF AdmissionRow
  <2> HIDE DEF adm
  <2>3. /\ attempt'[e] = revision + 2 /\ \A d \in Event : d # e => attempt'[d] = attempt[d]
        /\ admission'[t] = adm /\ \A u \in Task : u # t => admission'[u] = admission[u]
    BY <1>1, <2>1
  <2>4. \A d \in Event : envelope[d] # None /\ envelope[d].task = t => attempt[d] < revision + 2
    BY <2>1 DEF AttemptsBelow, FollowUpAttempt
  <2>5. AttemptsBelow'
    <3> SUFFICES ASSUME NEW d \in Event, envelope'[d] # None
                 PROVE  /\ admission'[envelope'[d].task] # None
                        /\ attempt'[d] < FollowUpAttempt(admission'[envelope'[d].task].revision)
      BY DEF AttemptsBelow, FollowUpAttempt
    <3>1. CASE d = e
      BY SMT, <1>2, <1>4, <2>1, <2>2, <2>3, <3>1 DEF FollowUpAttempt
    <3>2. CASE d # e
      <4>1. envelope'[d] = envelope[d] /\ envelope[d] # None /\ attempt'[d] = attempt[d]
            /\ attempt[d] \in Nat
        BY <1>1, <1>4, <2>3, <3>2
      <4>2. CASE envelope[d].task = t
        <5>1. attempt[d] < revision + 2
          BY <2>4, <4>1, <4>2
        <5>2. admission'[envelope'[d].task] = adm
          BY <2>3, <4>1, <4>2
        <5> QED
          BY SMT, <2>1, <2>2, <4>1, <5>1, <5>2 DEF FollowUpAttempt
      <4>3. CASE envelope[d].task # t
        <5>1. admission'[envelope'[d].task] = admission[envelope[d].task]
          BY <1>4, <2>3, <4>1, <4>3
        <5> QED
          BY <4>1, <5>1 DEF AttemptsBelow
      <4> QED
        BY <4>2, <4>3
    <3> QED
      BY <3>1, <3>2
  <2> QED
    BY SMT, <2>1, <2>3, <2>4, <2>5
<1> QED
  BY <1>2, <1>3, <1>4, <1>5, <1>6 DEF AdmitFacts

\* Every step keeps the attempts of a task distinct.
LEMMA AttemptsNext ==
    SendInv /\ AttemptsBelow /\ AttemptsDistinct /\ [Next]_vars => AttemptsBelow' /\ AttemptsDistinct'
<1> SUFFICES ASSUME SendInv, AttemptsBelow, AttemptsDistinct, [Next]_vars
             PROVE  AttemptsBelow' /\ AttemptsDistinct'
  OBVIOUS
<1>1. /\ envelope \in [Event -> Envelope \cup {None}]
      /\ admission \in [Task -> AdmissionRow \cup {None}]
      /\ attempt \in [Event -> Nat]
  BY DEF SendInv, TypeOK
<1>2. ASSUME NEW e \in Event, NEW k \in Key, NEW t \in Task, AdmitQueued(e, k, t)
      PROVE  AttemptsBelow' /\ AttemptsDistinct'
  <2>0. AdmitFacts(e, k, t)
    BY <1>2 DEF AdmitQueued
  <2>1. /\ envelope'[e].task = t /\ AttemptsBelow'
        /\ \A d \in Event : d # e => envelope'[d] = envelope[d] /\ attempt'[d] = attempt[d]
        /\ attempt'[e] \in Nat
        /\ \A d \in Event : envelope[d] # None /\ envelope[d].task = t => attempt[d] < attempt'[e]
    BY SMT, <2>0, AdmitAttempts
  <2>2. AttemptsDistinct'
    BY SMT, <1>1, <2>1 DEF AttemptsDistinct
  <2> QED
    BY <2>1, <2>2
<1>3. CASE \A e \in Event, k \in Key, t \in Task : ~AdmitQueued(e, k, t)
  <2>1. UNCHANGED <<envelope, attempt>>
        /\ (UNCHANGED admission \/ \E t \in Task : AdmissionMoves(t))
    BY <1>3, Steps
  <2>2. AttemptsDistinct'
    BY <2>1 DEF AttemptsDistinct
  <2>3. ASSUME NEW t \in Task, AdmissionMoves(t) PROVE AttemptsBelow'
    <3>1. PICK adm : /\ adm \in AdmissionRow /\ adm.revision = admission[t].revision + 1
                     /\ admission[t] \in AdmissionRow
                     /\ admission' = [admission EXCEPT ![t] = adm]
      <4>1. PICK s \in {"enqueued", "ready", "terminal", "recovery_needed"} :
              admission' = [admission EXCEPT ![t] = [state |-> s, revision |-> @.revision + 1]]
        BY <2>3 DEF AdmissionMoves
      <4>2. admission[t] \in AdmissionRow
        BY <1>1, <2>3 DEF AdmissionMoves
      <4>3. /\ [state |-> s, revision |-> admission[t].revision + 1] \in AdmissionRow
            /\ [state |-> s, revision |-> admission[t].revision + 1].revision
                 = admission[t].revision + 1
        BY SMT, <4>2 DEF AdmissionRow
      <4> QED
        BY <4>1, <4>2, <4>3
    <3>2. ASSUME NEW d \in Event, envelope[d] # None
          PROVE  /\ admission'[envelope[d].task] # None
                 /\ attempt[d] < FollowUpAttempt(admission'[envelope[d].task].revision)
      <4>1. envelope[d].task \in Task /\ attempt[d] \in Nat
        BY <1>1, <3>2 DEF Envelope
      <4>2. CASE envelope[d].task = t
        <5>1. admission'[envelope[d].task] = adm
          BY <1>1, <3>1, <4>2
        <5>2. adm # None /\ admission[t].revision \in Nat
          BY <3>1, NoneAssumption DEF AdmissionRow
        <5> QED
          BY SMT, <3>1, <3>2, <4>1, <4>2, <5>1, <5>2 DEF AttemptsBelow, FollowUpAttempt
      <4>3. CASE envelope[d].task # t
        BY <1>1, <3>1, <3>2, <4>1, <4>3 DEF AttemptsBelow
      <4> QED
        BY <4>2, <4>3
    <3> QED
      BY <2>1, <3>2 DEF AttemptsBelow, FollowUpAttempt
  <2>4. ASSUME UNCHANGED admission PROVE AttemptsBelow'
    BY <2>1, <2>4 DEF AttemptsBelow, FollowUpAttempt
  <2> QED
    BY <2>1, <2>2, <2>3, <2>4
<1> QED
  BY <1>2, <1>3

\* UNIQUE(task_id, attempt) never refuses a follow-up delivery.
THEOREM AttemptsUnique == Spec => []AttemptsDistinct
<1>1. Init => AttemptsBelow /\ AttemptsDistinct
  BY DEF Init, AttemptsBelow, AttemptsDistinct
<1> QED
  BY <1>1, AttemptsNext, SendInvAlways, PTL DEF Spec

\* Every step keeps envelopes, rows and deliveries together.
LEMMA AtomicNext ==
    SendInv /\ AttemptsBelow /\ AdmissionAtomic /\ [Next]_vars => AdmissionAtomic'
<1> SUFFICES ASSUME SendInv, AttemptsBelow, AdmissionAtomic, [Next]_vars PROVE AdmissionAtomic'
  OBVIOUS
<1>1. envelope \in [Event -> Envelope \cup {None}] /\ Rows \subseteq Key
  BY DEF SendInv, TypeOK, Rows
<1>2. \A e \in Event : envelope[e] # None => envelope[e].key \in Rows
  BY <1>1 DEF AdmissionAtomic, Rows, Envelope
<1>3. ASSUME NEW e \in Event, NEW k \in Key, NEW t \in Task, AdmitQueued(e, k, t)
      PROVE  AdmissionAtomic'
  <2>0. AdmitFacts(e, k, t)
    BY <1>3 DEF AdmitQueued
  <2>1. /\ envelope[e] = None /\ envelope'[e] \in Envelope
        /\ envelope'[e].key = k /\ envelope'[e].task = t
        /\ \A d \in Event : d # e => envelope'[d] = envelope[d] /\ attempt'[d] = attempt[d]
        /\ attempt'[e] > 0
    BY SMT, <2>0, AdmitAttempts
  <2>2. /\ k \notin Rows /\ Rows' = Rows \cup {k}
        /\ \A j \in Rows : queue'[j] = queue[j]
        /\ queue'[k].task = t
    BY <1>3, AdmitRows
  <2>3. ASSUME NEW d \in Event, envelope'[d] # None
        PROVE  /\ attempt'[d] > 0
               /\ queue'[envelope'[d].key] # None
               /\ queue'[envelope'[d].key].task = envelope'[d].task
    <3>1. CASE d = e
      BY <2>1, <2>2, <3>1 DEF Rows
    <3>2. CASE d # e
      <4>1. /\ envelope'[d] = envelope[d] /\ attempt'[d] = attempt[d]
            /\ envelope[d] # None
        BY <2>1, <2>3, <3>2
      <4>2. /\ attempt[d] > 0
            /\ queue[envelope[d].key] # None
            /\ queue[envelope[d].key].task = envelope[d].task
        BY <4>1 DEF AdmissionAtomic
      <4>3. queue'[envelope[d].key] = queue[envelope[d].key]
        BY <1>2, <2>2, <4>1
      <4> QED
        BY <4>1, <4>2, <4>3
    <3> QED
      BY <3>1, <3>2
  <2>4. ASSUME NEW j \in Rows' PROVE \E d \in Event : envelope'[d] # None /\ envelope'[d].key = j
    <3>1. CASE j = k
      BY <2>1, <3>1, NoneAssumption
    <3>2. CASE j \in Rows
      <4>1. PICK d \in Event : envelope[d] # None /\ envelope[d].key = j
        BY <3>2 DEF AdmissionAtomic
      <4> QED
        BY <2>1, <4>1
    <3> QED
      BY <2>2, <3>1, <3>2
  <2> QED
    BY <2>3, <2>4 DEF AdmissionAtomic
<1>4. CASE \A e \in Event, k \in Key, t \in Task : ~AdmitQueued(e, k, t)
  <2>1. RowsStep /\ UNCHANGED <<envelope, attempt>>
    BY <1>4, Steps
  <2>2. \A k \in Rows : queue'[k] # None /\ queue'[k].task = queue[k].task
    BY <2>1, NoneAssumption DEF RowsStep, RowStep
  <2> QED
    BY <1>2, <2>1, <2>2 DEF AdmissionAtomic, RowsStep
<1> QED
  BY <1>3, <1>4

\* An envelope is stored with its queue row and its delivery or not at all.
THEOREM EnvelopesAtomic == Spec => []AdmissionAtomic
<1>1. Init => AttemptsBelow /\ AttemptsDistinct /\ AdmissionAtomic
  BY DEF Init, AttemptsBelow, AttemptsDistinct, AdmissionAtomic, Rows
<1> QED
  BY <1>1, AttemptsNext, AtomicNext, SendInvAlways, PTL DEF Spec


\* All of it together.
THEOREM QueueStaysSound == Spec => []QueueSound
  BY QueueBounded, QueueOrder, EnvelopesAtomic, AttemptsUnique, ClaimsBoundToGrants, PTL
     DEF QueueSound

-----------------------------------------------------------------------------
(* What the commands that repair owners of an old release promise.            *)
(*                                                                            *)
(* A command begins only when no process of the deployment runs and keeps the *)
(* maintenance lock, so none appears while it works: the database changes     *)
(* under it by its own COMMIT alone.  DbInv is what the committed database    *)
(* always satisfies, stated for any database so that it can be shown of the   *)
(* working copy of a transaction; ToolInv says how the working copy and the   *)
(* database are related at each step of a command.                            *)
-----------------------------------------------------------------------------
(* The inductive invariant. *)

OwnRows(own) == own = [o \in Owners |-> OwnerRow(own[o].state, own[o].hb)]
Lease == [state : {"released"}, owner : LegacyOwners]
Admission == [state : {"terminal"}, owner : LegacyOwners, rev : Nat]
Continuation == [state : {"blocked", "terminal"}, rev : Nat]

\* The columns of a database.
Columns(d) ==
    /\ d = [own |-> d.own, lease |-> d.lease, adm |-> d.adm, cont |-> d.cont,
            ledger |-> d.ledger, witness |-> d.witness, binding |-> d.binding,
            receipts |-> d.receipts]
    /\ OwnRows(d.own) /\ d.lease \in Lease /\ d.adm \in Admission
    /\ d.cont \in Continuation
    /\ d.receipts = [k \in Kinds |-> d.receipts[k]]

TheBinding == BindingReceipt(Retained, Rebound(Retained))

\* The one binding receipt there can be; a lease of two owners that names the newer
\* one was moved there.
BindingSound(d) ==
    /\ d.binding \in {Nil, TheBinding}
    /\ d.lease.owner = "active" /\ d.own["older"].state # "stopped" => d.binding # Nil
    /\ d.receipts["fixture"] # {} =>
         d.lease.owner = "active" /\ d.adm.owner = "active" /\ d.binding # Nil

\* The owners in a digest.
OwnIn(k, digest) == IF k = "legacy" THEN digest[2] ELSE digest[2][1]
Quenched(own) == \A o \in LegacyOwners : own[o].state \notin {"active", "stopping"}

\* A receipt records a state without live owners.
ReceiptsClose(d) == \A k \in Kinds : \A r \in d.receipts[k] : Quenched(OwnIn(k, r.post))

DbInv(d) == Columns(d) /\ BindingSound(d) /\ ReceiptsClose(d)

\* A command at work: nothing else runs, and nothing has been told yet.
Exclusive == tool # NoTool => alive = {} /\ told = Nil

Preparing == tool.pc = "mark" => tool = [kind |-> tool.kind, pc |-> "mark", man |-> tool.man]

Committing ==
    tool.pc = "commit" =>
      /\ tool = [kind |-> tool.kind, pc |-> "commit", man |-> tool.man, verdict |-> tool.verdict]
      /\ tool.kind \in Kinds /\ tool.verdict \in {"applied", "already"}
      /\ tool.verdict = Verdict(tool.kind, odb, tool.man)
      /\ tx = IF tool.verdict = "applied" THEN Executed(tool.kind, odb, tool.man) ELSE odb

Committed ==
    tool.pc = "evidence" =>
      /\ tool.kind \in Kinds /\ tool.verdict \in {"applied", "already"}
      /\ odb.receipts[tool.kind] # {} /\ Quenched(odb.own)

Publishing == tool.pc = "pub.commit" => tx = Published(odb) /\ LegacyAbsence(odb)

Binding ==
    /\ tool.pc \in {"run", "run.commit", "run.reread"} => ExactWitness(odb)
    /\ tool.pc = "run.commit" =>
         tx = Rebound(odb) /\ odb.binding = Nil /\ BusinessDigest(odb) = BusinessDigest(Retained)

ToolInv == Exclusive /\ Preparing /\ Committing /\ Committed /\ Publishing /\ Binding

RepairInv ==
    /\ DbInv(odb) /\ ToolInv
    /\ alive \subseteq Owners /\ NoLiveOwnerStopped
    /\ ReportTrue

-----------------------------------------------------------------------------
(* The databases the commands write. *)

\* A database given by its columns is one.
LEMMA ColumnsOf ==
    ASSUME NEW own, OwnRows(own), NEW leased \in Lease, NEW adm \in Admission, NEW cont \in Continuation,
           NEW ledger, NEW witness, NEW binding, NEW receipts,
           receipts = [k \in Kinds |-> receipts[k]],
           NEW d, d = [own |-> own, lease |-> leased, adm |-> adm, cont |-> cont,
                       ledger |-> ledger, witness |-> witness, binding |-> binding,
                       receipts |-> receipts]
    PROVE  /\ Columns(d) /\ d.own = own /\ d.lease = leased /\ d.adm = adm /\ d.cont = cont
           /\ d.ledger = ledger /\ d.witness = witness /\ d.binding = binding
           /\ d.receipts = receipts
BY Zenon DEF Columns

\* The two databases an old release leaves.
LEMMA PairColumns ==
    /\ Columns(PairDb) /\ BindingSound(PairDb) /\ ReceiptsClose(PairDb)
    /\ PairDb.own["active"].state = "active" /\ PairDb.own["older"].state = "stopping"
    /\ PairDb.own["fresh"].state = "absent"
    /\ PairDb.lease = [state |-> "released", owner |-> "older"]
    /\ PairDb.adm = [state |-> "terminal", owner |-> "older", rev |-> 1]
<1>1. PICK own : own = [o \in Owners |-> CASE o = "active" -> OwnerRow("active", "h0")
                                 [] o = "older" -> OwnerRow("stopping", "h0")
                                 [] OTHER -> OwnerRow("absent", "h0")]
  OBVIOUS
<1>2. OwnRows(own) /\ own["active"].state = "active" /\ own["older"].state = "stopping"
      /\ own["fresh"].state = "absent"
  BY <1>1 DEF OwnRows, Owners, LegacyOwners, OwnerRow
<1>3. [state |-> "released", owner |-> "older"] \in Lease
      /\ [state |-> "terminal", owner |-> "older", rev |-> 1] \in Admission
      /\ [state |-> "blocked", rev |-> 2] \in Continuation
  BY DEF Lease, Admission, Continuation, LegacyOwners
<1>4. PICK receipts : receipts = [k \in Kinds |-> {}]
  OBVIOUS
<1>5. receipts = [k \in Kinds |-> receipts[k]] /\ receipts["legacy"] = {} /\ receipts["fixture"] = {}
      /\ \A k \in Kinds : receipts[k] = {}
  BY <1>4 DEF Kinds
<1>6. PairDb = [own |-> own, lease |-> [state |-> "released", owner |-> "older"],
                adm |-> [state |-> "terminal", owner |-> "older", rev |-> 1],
                cont |-> [state |-> "blocked", rev |-> 2],
                ledger |-> 13, witness |-> Nil, binding |-> Nil, receipts |-> receipts]
  BY <1>1, <1>4 DEF PairDb
<1>7. /\ Columns(PairDb) /\ PairDb.own = own /\ PairDb.lease = [state |-> "released", owner |-> "older"]
      /\ PairDb.adm = [state |-> "terminal", owner |-> "older", rev |-> 1]
      /\ PairDb.binding = Nil /\ PairDb.receipts = receipts
  BY SMT, <1>2, <1>3, <1>5, <1>6, ColumnsOf
<1>8. PairDb.lease.owner = "older"
  BY SMT, <1>7
<1> QED BY <1>2, <1>5, <1>7, <1>8 DEF BindingSound, ReceiptsClose

\* The database of one owner.
LEMMA SingleColumns ==
    /\ Columns(SingleDb) /\ BindingSound(SingleDb) /\ ReceiptsClose(SingleDb)
    /\ SingleDb.own["active"].state = "active" /\ SingleDb.own["older"].state = "stopped"
<1>1. PICK own : own = [PairDb.own EXCEPT !["older"] = OwnerRow("stopped", "h0")]
  OBVIOUS
<1>2. OwnRows(own) /\ own["active"].state = "active" /\ own["older"].state = "stopped"
  BY <1>1, PairColumns DEF Columns, OwnRows, OwnerRow, Owners, LegacyOwners
<1>3. PICK leased : leased = [PairDb.lease EXCEPT !.owner = "active"]
  OBVIOUS
<1>4. PICK adm : adm = [PairDb.adm EXCEPT !.owner = "active"]
  OBVIOUS
<1>5. PICK cont : cont = [PairDb.cont EXCEPT !.state = "terminal"]
  OBVIOUS
<1>a. leased \in Lease /\ adm \in Admission /\ cont \in Continuation
  BY <1>3, <1>4, <1>5, PairColumns DEF Columns, Lease, Admission, Continuation, LegacyOwners
<1>6. SingleDb = [own |-> own, lease |-> leased, adm |-> adm, cont |-> cont,
                  ledger |-> PairDb.ledger, witness |-> PairDb.witness, binding |-> PairDb.binding,
                  receipts |-> PairDb.receipts]
  <2>1. PICK p : p = PairDb
    OBVIOUS
  <2>2. p = [own |-> p.own, lease |-> p.lease, adm |-> p.adm, cont |-> p.cont, ledger |-> p.ledger,
             witness |-> p.witness, binding |-> p.binding, receipts |-> p.receipts]
    BY <2>1, PairColumns DEF Columns
  <2>3. SingleDb = [p EXCEPT !.own = own, !.lease = leased, !.adm = adm, !.cont = cont]
    BY <1>1, <1>3, <1>4, <1>5, <2>1, <2>2 DEF SingleDb
  <2> QED BY <2>1, <2>2, <2>3
<1>7. PairDb.receipts = [k \in Kinds |-> PairDb.receipts[k]]
  BY PairColumns DEF Columns
<1>8. /\ Columns(SingleDb) /\ SingleDb.own = own
      /\ SingleDb.binding = PairDb.binding /\ SingleDb.receipts = PairDb.receipts
  BY SMT, <1>2, <1>6, <1>7, <1>a, ColumnsOf
<1>9. PairDb.binding = Nil /\ \A k \in Kinds : PairDb.receipts[k] = {}
  BY DEF PairDb
<1> QED BY <1>2, <1>8, <1>9 DEF BindingSound, ReceiptsClose, Kinds

\* update_owners leaves no live row.
LEMMA OwnersUpdated ==
    ASSUME NEW d, Columns(d), NEW op
    PROVE  \E own : /\ OwnRows(own) /\ Quenched(own)
                    /\ \A o \in Owners : own[o].state # d.own[o].state => own[o].state = "stopped"
                    /\ UpdateOwners(d, op) = [d EXCEPT !.own = own]
<1>1. PICK own : own = [o \in Owners |-> IF o \in LiveRows(d) THEN OwnerRow("stopped", op) ELSE d.own[o]]
  OBVIOUS
<1>2. UpdateOwners(d, op) = [d EXCEPT !.own = own]
  BY <1>1 DEF UpdateOwners
<1>3. OwnRows(own)
  BY <1>1 DEF Columns, OwnRows, OwnerRow
<1>4. Quenched(own)
  BY <1>1 DEF Quenched, LiveRows, OwnerRow, Owners
<1>5. \A o \in Owners : own[o].state # d.own[o].state => own[o].state = "stopped"
  BY <1>1 DEF OwnerRow
<1> QED BY <1>2, <1>3, <1>4, <1>5

\* What the digests compare.
LEMMA DigestOf ==
    ASSUME NEW k \in Kinds, NEW d, NEW e,
           d.ledger = e.ledger, d.own = e.own, d.lease = e.lease, d.adm = e.adm, d.cont = e.cont
    PROVE  Digest(k, d) = Digest(k, e) /\ OwnIn(k, Digest(k, d)) = d.own
BY DEF Digest, LogicalDigest, Snapshot, BusinessDigest, OwnIn

\* What a manifest that the transaction applies says of the database.
LEMMA VerdictApplied ==
    ASSUME NEW k, NEW d, NEW m, Verdict(k, d, m) = "applied"
    PROVE  /\ Digest(k, d) = m.pre /\ Digest(k, Applied(k, d, m.op)) = m.post
           /\ Eligible(k, d) /\ ReceiptsOf(k, d, m.op) = {}
BY DEF Verdict

\* ... and one whose work is done.
LEMMA VerdictAlready ==
    ASSUME NEW k, NEW d, NEW m, Verdict(k, d, m) = "already"
    PROVE  Receipt(m) \in d.receipts[k] /\ Digest(k, d) = m.post
<1>1. ReceiptsOf(k, d, m.op) = {Receipt(m)} /\ Digest(k, d) = m.post
  BY DEF Verdict
<1> QED BY <1>1 DEF ReceiptsOf

\* Executing a manifest: the owners are stopped, the receipt is written, and the
\* receipt names the digests of the database before and after.
LEMMA Executing ==
    ASSUME NEW d, DbInv(d), NEW k \in Kinds, NEW m, Verdict(k, d, m) = "applied",
           NEW e, e = Executed(k, d, m)
    PROVE  /\ DbInv(e) /\ Quenched(e.own)
           /\ e.receipts[k] = d.receipts[k] \cup {Receipt(m)} /\ Receipt(m) \notin d.receipts[k]
           /\ \A j \in Kinds \ {k} : e.receipts[j] = d.receipts[j]
           /\ m.pre = Digest(k, d) /\ m.post = Digest(k, e)
<1>0. /\ Columns(d) /\ BindingSound(d) /\ ReceiptsClose(d)
      /\ Eligible(k, d) /\ ReceiptsOf(k, d, m.op) = {}
      /\ Digest(k, d) = m.pre /\ Digest(k, Applied(k, d, m.op)) = m.post
  BY VerdictApplied DEF DbInv
<1>1. PICK own : /\ OwnRows(own) /\ Quenched(own)
                 /\ \A o \in Owners : own[o].state # d.own[o].state => own[o].state = "stopped"
                 /\ UpdateOwners(d, m.op) = [d EXCEPT !.own = own]
  BY <1>0, OwnersUpdated
<1>2. PICK cont : cont = IF k = "legacy" THEN d.cont ELSE [state |-> "terminal", rev |-> d.cont.rev + 1]
  OBVIOUS
<1>3. cont \in Continuation
  BY SMT, <1>0, <1>2 DEF Columns, Continuation
<1>4. PICK receipts : receipts = [d.receipts EXCEPT ![k] = @ \cup {Receipt(m)}]
  OBVIOUS
<1>5. /\ receipts = [j \in Kinds |-> receipts[j]]
      /\ receipts[k] = d.receipts[k] \cup {Receipt(m)}
      /\ \A j \in Kinds \ {k} : receipts[j] = d.receipts[j]
  BY <1>0, <1>4 DEF Columns
<1>6. Applied(k, d, m.op) = [own |-> own, lease |-> d.lease, adm |-> d.adm, cont |-> cont, ledger |-> d.ledger,
                             witness |-> d.witness, binding |-> d.binding, receipts |-> d.receipts]
  <2>1. PICK p : p = UpdateOwners(d, m.op)
    OBVIOUS
  <2>2. p = [own |-> own, lease |-> d.lease, adm |-> d.adm, cont |-> d.cont, ledger |-> d.ledger,
             witness |-> d.witness, binding |-> d.binding, receipts |-> d.receipts]
    BY <1>0, <1>1, <2>1 DEF Columns
  <2>3. CASE k = "legacy"
    BY <1>2, <2>1, <2>2, <2>3 DEF Applied
  <2>4. CASE k # "legacy"
    <3>1. Applied(k, d, m.op) = [p EXCEPT !.cont = [state |-> "terminal", rev |-> p.cont.rev + 1]]
      BY <2>1, <2>4 DEF Applied, UpdateContinuation
    <3>2. p.cont = d.cont
      BY <2>2
    <3> QED BY <1>2, <2>2, <2>4, <3>1, <3>2
  <2> QED BY <2>3, <2>4
<1>7. e = [own |-> own, lease |-> d.lease, adm |-> d.adm, cont |-> cont, ledger |-> d.ledger,
           witness |-> d.witness, binding |-> d.binding, receipts |-> receipts]
  <2>1. PICK p : p = Applied(k, d, m.op)
    OBVIOUS
  <2>2. e = [p EXCEPT !.receipts[k] = @ \cup {Receipt(m)}] /\ p.receipts = d.receipts
    BY SMT, <1>6, <2>1 DEF Executed
  <2> QED BY SMTT(30), <1>4, <1>6, <2>1, <2>2
<1>8. /\ Columns(e) /\ e.own = own /\ e.lease = d.lease /\ e.adm = d.adm /\ e.cont = cont
      /\ e.ledger = d.ledger /\ e.binding = d.binding /\ e.receipts = receipts
  BY SMT, <1>0, <1>1, <1>3, <1>5, <1>7, ColumnsOf DEF Columns
<1>9. m.post = Digest(k, e) /\ OwnIn(k, m.post) = own
  <2>1. PICK p : p = Applied(k, d, m.op)
    OBVIOUS
  <2>2. p.own = own /\ p.lease = d.lease /\ p.adm = d.adm /\ p.cont = cont /\ p.ledger = d.ledger
    BY SMT, <1>6, <2>1
  <2>3. Digest(k, p) = m.post
    BY <1>0, <2>1
  <2> QED BY ZenonT(60), <1>8, <2>2, <2>3, DigestOf
<1>10. Receipt(m) \notin d.receipts[k] /\ Receipt(m).post = m.post
  BY SMT, <1>0 DEF ReceiptsOf, Receipt
<1>11. BindingSound(e)
  <2>1. own["older"].state # "stopped" => d.own["older"].state # "stopped"
    BY <1>1 DEF Owners, LegacyOwners
  <2>2. ASSUME receipts["fixture"] # {}
        PROVE  d.lease.owner = "active" /\ d.adm.owner = "active" /\ d.binding # Nil
    <3>1. CASE k = "fixture"
      <4>1. FixtureEligible(d)
        BY <1>0, <3>1 DEF Eligible
      <4>2. d.own["older"].state = "stopping" /\ d.lease.owner = "active" /\ d.adm.owner = "active"
        BY SMT, <4>1 DEF FixtureEligible
      <4> QED BY <1>0, <4>2 DEF BindingSound
    <3>2. CASE k # "fixture"
      BY <1>0, <1>5, <2>2, <3>2 DEF BindingSound, Kinds
    <3> QED BY <3>1, <3>2
  <2> QED BY <1>0, <1>8, <2>1, <2>2 DEF BindingSound
<1>12. ReceiptsClose(e)
  BY SMT, <1>0, <1>1, <1>5, <1>8, <1>9, <1>10 DEF ReceiptsClose
<1> QED BY <1>0, <1>1, <1>5, <1>8, <1>9, <1>10, <1>11, <1>12 DEF DbInv

\* A write that leaves the receipts, and either leaves the binding or stops nobody.
LEMMA DbKept ==
    ASSUME NEW d, DbInv(d), NEW e, Columns(e), e.receipts = d.receipts, e.lease = d.lease,
           e.adm = d.adm, e.binding = d.binding, 
           e.own["older"].state # "stopped" => d.own["older"].state # "stopped"
    PROVE  DbInv(e)
BY DEF DbInv, BindingSound, ReceiptsClose

\* Migration 0014 and its witness.
LEMMA Publishes ==
    ASSUME NEW d, DbInv(d), NEW e, e = Published(d)
    PROVE  DbInv(e) /\ e.own = d.own /\ e.receipts = d.receipts
<1>0. Columns(d)
  BY DEF DbInv
<1>1. PICK witness : witness = [business |-> BusinessDigest(Retained)]
  OBVIOUS
<1>2. e = [own |-> d.own, lease |-> d.lease, adm |-> d.adm, cont |-> d.cont, ledger |-> 14,
           witness |-> witness, binding |-> d.binding, receipts |-> d.receipts]
  BY <1>0, <1>1 DEF Published, Columns
<1>3. /\ Columns(e) /\ e.own = d.own /\ e.lease = d.lease /\ e.adm = d.adm
      /\ e.binding = d.binding /\ e.receipts = d.receipts
  BY SMT, <1>0, <1>2, ColumnsOf DEF Columns
<1> QED BY <1>3, DbKept

\* The lease and the admission move to the newer owner, and the receipt is the one
\* receipt of a state that is the retained one.
LEMMA Rebinds ==
    ASSUME NEW d, DbInv(d), BusinessDigest(d) = BusinessDigest(Retained), NEW e, e = Rebound(d)
    PROVE  /\ DbInv(e) /\ e.own = d.own /\ e.receipts = d.receipts
           /\ e.ledger = d.ledger /\ e.witness = d.witness
           /\ e.lease.owner = "active" /\ e.adm.owner = "active"
<1>0. Columns(d) /\ Columns(Retained)
  BY PairColumns DEF DbInv, Retained
<1>1. /\ d.own = Retained.own /\ d.lease = Retained.lease /\ d.adm = Retained.adm
      /\ d.cont = Retained.cont
  BY DEF BusinessDigest
<1>2. PICK leased : leased = [d.lease EXCEPT !.owner = "active"]
  OBVIOUS
<1>3. PICK adm : adm = [d.adm EXCEPT !.owner = "active", !.rev = @ + 1]
  OBVIOUS
<1>4. /\ leased \in Lease /\ leased.owner = "active"
      /\ adm \in Admission /\ adm.owner = "active"
  <2>1. d.lease \in Lease /\ d.adm \in Admission
    BY <1>0 DEF Columns
  <2>2. leased \in Lease /\ leased.owner = "active"
    BY <1>2, <2>1 DEF Lease, LegacyOwners
  <2>3. d.adm.rev + 1 \in Nat
    BY SMT, <2>1 DEF Admission
  <2>4. adm \in Admission /\ adm.owner = "active"
    BY <1>3, <2>1, <2>3 DEF Admission, LegacyOwners
  <2> QED BY <2>2, <2>4
<1>5. ASSUME NEW p, Columns(p), p.lease = d.lease, p.adm = d.adm, p.own = d.own, p.cont = d.cont
      PROVE  Rebound(p) = [own |-> p.own, lease |-> leased, adm |-> adm, cont |-> p.cont,
                           ledger |-> p.ledger, witness |-> p.witness,
                           binding |-> [pre |-> BusinessDigest(p), post |-> <<p.own, leased, adm, p.cont>>],
                           receipts |-> p.receipts]
  <2>1. PICK moved : moved = [p EXCEPT !.lease.owner = "active", !.adm.owner = "active", !.adm.rev = @ + 1]
    OBVIOUS
  <2>2. moved = [p EXCEPT !.lease = leased, !.adm = adm]
    BY <1>2, <1>3, <1>5, <2>1 DEF Columns
  <2>3. moved = [own |-> p.own, lease |-> leased, adm |-> adm, cont |-> p.cont, ledger |-> p.ledger,
                 witness |-> p.witness, binding |-> p.binding, receipts |-> p.receipts]
    BY <1>5, <2>2 DEF Columns
  <2>4. BindingReceipt(p, moved) = [pre |-> BusinessDigest(p), post |-> <<p.own, leased, adm, p.cont>>]
    BY <2>3 DEF BindingReceipt, BusinessDigest
  <2>5. Rebound(p) = [moved EXCEPT !.binding = BindingReceipt(p, moved)]
    BY <2>1 DEF Rebound
  <2> QED BY <2>3, <2>4, <2>5
<1>6. PICK binding : binding = [pre |-> BusinessDigest(d), post |-> <<d.own, leased, adm, d.cont>>]
  OBVIOUS
<1>7. e = [own |-> d.own, lease |-> leased, adm |-> adm, cont |-> d.cont, ledger |-> d.ledger,
           witness |-> d.witness, binding |-> binding, receipts |-> d.receipts]
  BY <1>0, <1>5, <1>6
<1>8. binding = TheBinding
  <2>1. PICK r : r = Rebound(Retained)
    OBVIOUS
  <2>2. r.own = d.own /\ r.lease = leased /\ r.adm = adm /\ r.cont = d.cont
    BY SMT, <1>0, <1>1, <1>5, <2>1
  <2> QED BY <1>6, <2>1, <2>2 DEF TheBinding, BindingReceipt, BusinessDigest
<1>9. /\ Columns(e) /\ e.own = d.own /\ e.lease = leased /\ e.adm = adm /\ e.binding = binding
      /\ e.receipts = d.receipts /\ e.ledger = d.ledger /\ e.witness = d.witness
  BY SMT, <1>0, <1>4, <1>7, ColumnsOf DEF Columns
<1>10. BindingSound(e)
  BY <1>4, <1>8, <1>9, NilIsNoReceipt DEF BindingSound, TheBinding
<1>11. ReceiptsClose(e)
  BY <1>9 DEF ReceiptsClose, DbInv
<1> QED BY <1>4, <1>9, <1>10, <1>11 DEF DbInv

RowSet(d, ledger, o, row) == [d EXCEPT !.ledger = ledger, !.own[o] = row]

\* A row of runtime_instances is written, and nobody of the old release is stopped.
LEMMA RowWritten ==
    ASSUME NEW d, DbInv(d), NEW o \in Owners, NEW state, NEW hb, NEW ledger,
           o = "fresh" \/ state = d.own[o].state,
           NEW e, e = RowSet(d, ledger, o, OwnerRow(state, hb))
    PROVE  /\ DbInv(e) /\ e.receipts = d.receipts
           /\ e.own[o] = OwnerRow(state, hb)
           /\ \A p \in Owners \ {o} : e.own[p] = d.own[p]
<1>0. Columns(d)
  BY DEF DbInv
<1>1. PICK own : own = [d.own EXCEPT ![o] = OwnerRow(state, hb)]
  OBVIOUS
<1>2. /\ OwnRows(own) /\ own[o] = OwnerRow(state, hb)
      /\ \A p \in Owners \ {o} : own[p] = d.own[p]
  BY <1>0, <1>1 DEF Columns, OwnRows, OwnerRow
<1>3. e = [own |-> own, lease |-> d.lease, adm |-> d.adm, cont |-> d.cont, ledger |-> ledger,
           witness |-> d.witness, binding |-> d.binding, receipts |-> d.receipts]
  BY <1>0, <1>1 DEF Columns, RowSet
<1>4. /\ Columns(e) /\ e.own = own /\ e.lease = d.lease /\ e.adm = d.adm
      /\ e.binding = d.binding /\ e.receipts = d.receipts
  <2>1. /\ d.lease \in Lease /\ d.adm \in Admission /\ d.cont \in Continuation
        /\ d.receipts = [k \in Kinds |-> d.receipts[k]]
    BY <1>0 DEF Columns
  <2>2. OwnRows(own)
    BY <1>2
  <2>3. /\ e.own = own /\ e.lease = d.lease /\ e.adm = d.adm /\ e.cont = d.cont /\ e.ledger = ledger
        /\ e.witness = d.witness /\ e.binding = d.binding /\ e.receipts = d.receipts
    BY SMT, <1>3
  <2>4. Columns(e)
    BY <1>3, <2>1, <2>2, <2>3 DEF Columns
  <2> QED BY <2>3, <2>4
<1>5. own["older"].state = d.own["older"].state
  BY SMT, <1>2 DEF Owners, LegacyOwners, OwnerRow
<1> QED BY <1>2, <1>4, <1>5, DbKept

-----------------------------------------------------------------------------
(* The steps of a command. *)

\* Nothing is asked of a command that is over.
LEMMA ToolOver ==
    ASSUME tool' = NoTool
    PROVE  ToolInv'
<1>1. tool'.pc = "idle"
  BY DEF NoTool
<1> QED BY <1>1 DEF ToolInv, Exclusive, Preparing, Committing, Committed, Publishing, Binding

\* A refusal, an error or an ambiguous result claims nothing of the database.
LEMMA TellsNothing ==
    ASSUME NEW kind, NEW result, told' = [kind |-> kind, result |-> result],
           result \in {"refused", "error", "prepared", "ambiguous"}
    PROVE  ReportTrue'
<1>1. told'.result = result
  OBVIOUS
<1> QED BY <1>1 DEF ReportTrue

\* A command ends without having written.
LEMMA EndsQuietly ==
    ASSUME RepairInv, tool' = NoTool, UNCHANGED <<odb, alive>>, ReportTrue'
    PROVE  RepairInv'
BY ToolOver DEF RepairInv, NoLiveOwnerStopped

\* A command at work.
LEMMA AtWork ==
    ASSUME RepairInv, tool.pc # "idle"
    PROVE  alive = {} /\ told = Nil
BY SMT DEF RepairInv, ToolInv, Exclusive, NoTool

\* A later preflight refuses.
LEMMA RefuseStep ==
    ASSUME RepairInv, Refuse
    PROVE  RepairInv'
<1>1. /\ tool' = NoTool /\ UNCHANGED <<odb, alive>>
      /\ told' = [kind |-> tool.kind, result |-> "refused"]
  BY DEF Refuse, End, Tell, Quiet
<1> QED BY <1>1, TellsNothing, EndsQuietly

\* prepare_manifest reads.
LEMMA PrepareReadStep ==
    ASSUME RepairInv, NEW k \in Kinds, NEW op, PrepareRead(k, op)
    PROVE  RepairInv'
<1>1. PICK man : tool' = [kind |-> k, pc |-> "mark", man |-> man]
  BY DEF PrepareRead
<1>2. alive' = {} /\ alive = {} /\ told' = Nil /\ odb' = odb
  BY DEF PrepareRead, Quiet, RuntimeAbsent
<1>3. tool'.pc = "mark" /\ tool'.kind = k /\ tool'.man = man
  BY <1>1
<1>4. ToolInv'
  BY <1>1, <1>2, <1>3 DEF ToolInv, Exclusive, Preparing, Committing, Committed, Publishing, Binding
<1> QED BY <1>2, <1>4 DEF RepairInv, NoLiveOwnerStopped, ReportTrue

\* ensure_marker and publish_new.
LEMMA PrepareMarkStep ==
    ASSUME RepairInv, NEW k \in Kinds, PrepareMark(k)
    PROVE  RepairInv'
<1>0. tool.pc = "mark" /\ odb' = odb /\ alive' = alive
  BY DEF PrepareMark
<1>1. CASE tool' = [tool EXCEPT !.pc = "publish"] /\ told' = told
  <2>1. alive = {} /\ told = Nil
    BY <1>0, AtWork
  <2>2. tool'.pc = "publish"
    BY <1>0, <1>1 DEF RepairInv, ToolInv, Preparing
  <2>3. ToolInv'
    BY <1>0, <1>1, <2>1, <2>2 DEF ToolInv, Exclusive, Preparing, Committing, Committed, Publishing, Binding
  <2> QED BY <1>0, <1>1, <2>1, <2>3 DEF RepairInv, NoLiveOwnerStopped, ReportTrue
<1>2. CASE End(k, "refused")
  BY <1>0, <1>2, TellsNothing, EndsQuietly DEF End, Tell
<1> QED BY <1>1, <1>2 DEF PrepareMark

\* The manifest is published.
LEMMA PreparePublishStep ==
    ASSUME RepairInv, NEW k \in Kinds, PreparePublish(k)
    PROVE  RepairInv'
<1>1. /\ tool' = NoTool /\ UNCHANGED <<odb, alive>>
      /\ told' = [kind |-> k, result |-> "prepared"]
  BY DEF PreparePublish, End, Tell
<1> QED BY <1>1, TellsNothing, EndsQuietly

\* reconcile or migrate opens its transaction.
LEMMA ExecuteBeginStep ==
    ASSUME RepairInv, NEW k \in Kinds, NEW m, ExecuteBegin(k, m)
    PROVE  RepairInv'
<1>0. alive' = {} /\ alive = {} /\ odb' = odb
  BY DEF ExecuteBegin, Quiet, RuntimeAbsent
<1>1. PICK verdict : verdict = Verdict(k, odb, m)
  OBVIOUS
<1>2. CASE verdict = "rejected"
  <2>1. tool' = NoTool /\ told' = [kind |-> k, result |-> "refused"]
    BY <1>1, <1>2 DEF ExecuteBegin, Tell
  <2> QED BY <1>0, <2>1, TellsNothing, EndsQuietly
<1>3. CASE verdict # "rejected"
  <2>1. /\ tx' = IF verdict = "applied" THEN Executed(k, odb, m) ELSE odb
        /\ tool' = [kind |-> k, pc |-> "commit", man |-> m, verdict |-> verdict]
        /\ told' = Nil
    BY <1>1, <1>3 DEF ExecuteBegin
  <2>2. verdict \in {"applied", "already"}
    BY <1>1, <1>3 DEF Verdict
  <2>3. tool'.pc = "commit" /\ tool'.kind = k /\ tool'.man = m /\ tool'.verdict = verdict
    BY <2>1
  <2>4. Committing'
    BY <1>0, <1>1, <2>1, <2>2, <2>3 DEF Committing
  <2>5. ToolInv'
    BY <1>0, <2>1, <2>3, <2>4 DEF ToolInv, Exclusive, Preparing, Committed, Publishing, Binding
  <2> QED BY <1>0, <2>1, <2>5 DEF RepairInv, NoLiveOwnerStopped, ReportTrue
<1> QED BY <1>2, <1>3

\* A step that writes no receipt and stops no owner of the old release.
LEMMA StopsNobody ==
    ASSUME \A k \in Kinds : odb'.receipts[k] = odb.receipts[k],
           \A o \in LegacyOwners : odb'.own[o].state = odb.own[o].state
    PROVE  StopBound
BY DEF StopBound

\* A step that adds one receipt, of the database before and after.
LEMMA StopsReceipted ==
    ASSUME NEW k \in Kinds, NEW r, r \notin odb.receipts[k],
           odb'.receipts[k] = odb.receipts[k] \cup {r},
           \A j \in Kinds \ {k} : odb'.receipts[j] = odb.receipts[j],
           r.pre = Digest(k, odb), r.post = Digest(k, odb')
    PROVE  StopBound
<1>1. odb'.receipts[k] \ odb.receipts[k] = {r}
  OBVIOUS
<1>2. \A j \in Kinds \ {k} : odb'.receipts[j] \ odb.receipts[j] = {}
  OBVIOUS
<1>3. UNION {odb'.receipts[j] \ odb.receipts[j] : j \in Kinds} = {r}
  <2>1. \A x \in {odb'.receipts[j] \ odb.receipts[j] : j \in Kinds} : x = {} \/ x = {r}
    BY <1>1, <1>2
  <2>2. {r} \in {odb'.receipts[j] \ odb.receipts[j] : j \in Kinds}
    BY <1>1
  <2> QED BY <2>1, <2>2
<1>4. Cardinality({r}) = 1
  BY FS_Singleton
<1>5. \A j \in Kinds : \A q \in odb'.receipts[j] \ odb.receipts[j] : j = k /\ q = r
  BY <1>1, <1>2
<1> QED BY <1>3, <1>4, <1>5 DEF StopBound

\* What the working copy of a manifest command is.
LEMMA WorkingCopy ==
    ASSUME RepairInv, tool.pc = "commit"
    PROVE  /\ DbInv(tx) /\ tx.receipts[tool.kind] # {} /\ Quenched(tx.own)
           /\ tool.kind \in Kinds /\ tool.verdict \in {"applied", "already"}
<1>0. /\ DbInv(odb) /\ tool.kind \in Kinds /\ tool.verdict \in {"applied", "already"}
      /\ tool.verdict = Verdict(tool.kind, odb, tool.man)
      /\ tx = IF tool.verdict = "applied" THEN Executed(tool.kind, odb, tool.man) ELSE odb
  BY DEF RepairInv, ToolInv, Committing
<1>1. CASE tool.verdict = "applied"
  <2>1. PICK k \in Kinds : k = tool.kind
    BY <1>0
  <2>2. PICK m : m = tool.man
    OBVIOUS
  <2>3. tx = Executed(k, odb, m) /\ Verdict(k, odb, m) = "applied"
    BY <1>0, <1>1, <2>1, <2>2
  <2>4. DbInv(tx) /\ Quenched(tx.own) /\ tx.receipts[k] = odb.receipts[k] \cup {Receipt(m)}
    BY SMT, <1>0, <2>3, Executing
  <2> QED BY <1>0, <2>1, <2>4
<1>2. CASE tool.verdict = "already"
  <2>1. PICK r : r = Receipt(tool.man)
    OBVIOUS
  <2>2. r \in odb.receipts[tool.kind] /\ Digest(tool.kind, odb) = r.post
    <3>1. Receipt(tool.man) \in odb.receipts[tool.kind] /\ Digest(tool.kind, odb) = tool.man.post
      <4>1. PICK k, m : k = tool.kind /\ m = tool.man
        OBVIOUS
      <4>2. Verdict(k, odb, m) = "already"
        BY <1>0, <1>2, <4>1
      <4>3. Receipt(m) \in odb.receipts[k] /\ Digest(k, odb) = m.post
        BY <4>2, VerdictAlready
      <4> QED BY <4>1, <4>3
    <3> QED BY <2>1, <3>1 DEF Receipt
  <2>3. Quenched(OwnIn(tool.kind, r.post))
    BY <1>0, <2>2 DEF DbInv, ReceiptsClose
  <2>4. OwnIn(tool.kind, r.post) = odb.own
    BY <1>0, <2>2, DigestOf
  <2> QED BY <1>0, <1>2, <2>2, <2>3, <2>4
<1> QED BY <1>0, <1>1, <1>2

\* COMMIT of a manifest command, and a COMMIT whose result is lost.
LEMMA ExecuteCommitStep ==
    ASSUME RepairInv, NEW k \in Kinds, ExecuteCommit(k)
    PROVE  RepairInv' /\ StopBound
<1>0. tool.pc = "commit" /\ tool.kind = k /\ alive = {} /\ alive' = {} /\ told = Nil
  BY AtWork DEF ExecuteCommit, RuntimeAbsent
<1>1. DbInv(tx) /\ tx.receipts[k] # {} /\ Quenched(tx.own) /\ tool.verdict \in {"applied", "already"}
  BY <1>0, WorkingCopy
<1>s. ASSUME odb' = tx \/ odb' = odb PROVE StopBound
  <2>1. CASE odb' = odb
    BY <2>1, StopsNobody
  <2>2. CASE odb' = tx /\ tool.verdict = "applied"
    <3>1. PICK m : m = tool.man
      OBVIOUS
    <3>2. odb' = Executed(k, odb, m) /\ Verdict(k, odb, m) = "applied"
      BY <1>0, <2>2, <3>1 DEF RepairInv, ToolInv, Committing
    <3>3. /\ odb'.receipts[k] = odb.receipts[k] \cup {Receipt(m)} /\ Receipt(m) \notin odb.receipts[k]
          /\ \A j \in Kinds \ {k} : odb'.receipts[j] = odb.receipts[j]
          /\ m.pre = Digest(k, odb) /\ m.post = Digest(k, odb')
      BY SMT, <3>2, Executing DEF RepairInv
    <3>4. PICK r : r = Receipt(m)
      OBVIOUS
    <3>5. r.pre = m.pre /\ r.post = m.post
      BY <3>4 DEF Receipt
    <3> QED BY <3>3, <3>4, <3>5, StopsReceipted
  <2>3. CASE odb' = tx /\ tool.verdict = "already"
    <3>1. odb' = odb
      BY <1>0, <2>3 DEF RepairInv, ToolInv, Committing
    <3> QED BY <3>1, StopsNobody
  <2> QED BY <1>1, <1>s, <2>1, <2>2, <2>3
<1>2. CASE odb' = tx /\ tool' = [tool EXCEPT !.pc = "evidence"] /\ told' = told
  <2>1. tool'.pc = "evidence" /\ tool'.kind = k /\ tool'.verdict = tool.verdict
    BY <1>0, <1>2 DEF RepairInv, ToolInv, Committing
  <2>2. Committed'
    BY <1>1, <1>2, <2>1 DEF Committed
  <2>3. ToolInv'
    BY <1>0, <1>2, <2>1, <2>2 DEF ToolInv, Exclusive, Preparing, Committing, Publishing, Binding
  <2> QED BY <1>0, <1>1, <1>2, <1>s, <2>3 DEF RepairInv, NoLiveOwnerStopped, ReportTrue
<1>3. CASE odb' \in {tx, odb} /\ End(k, "error")
  <2>1. tool' = NoTool /\ told' = [kind |-> k, result |-> "error"]
    BY <1>3 DEF End, Tell
  <2>2. DbInv(odb')
    BY <1>1, <1>3 DEF RepairInv
  <2> QED BY <1>0, <1>3, <1>s, <2>1, <2>2, ToolOver, TellsNothing DEF RepairInv, NoLiveOwnerStopped
<1> QED BY <1>2, <1>3 DEF ExecuteCommit

\* The evidence file, or its failed write.
LEMMA ExecuteEvidenceStep ==
    ASSUME RepairInv, NEW k \in Kinds, ExecuteEvidence(k)
    PROVE  RepairInv'
<1>0. tool.pc = "evidence" /\ tool.kind = k /\ UNCHANGED <<odb, alive>> /\ tool' = NoTool
  BY DEF ExecuteEvidence, End
<1>1. tool.verdict \in {"applied", "already"} /\ odb.receipts[k] # {} /\ Quenched(odb.own)
  BY <1>0 DEF RepairInv, ToolInv, Committed
<1>2. ReportTrue'
  <2>1. CASE told' = [kind |-> k, result |-> tool.verdict]
    <3>1. told'.kind = k /\ told'.result = tool.verdict
      BY <2>1
    <3>2. LiveRows(odb') \cap LegacyOwners = {}
      BY <1>0, <1>1 DEF Quenched, LiveRows
    <3> QED BY <1>0, <1>1, <3>1, <3>2 DEF ReportTrue, Kinds
  <2>2. CASE told' = [kind |-> k, result |-> "error"]
    BY <2>2, TellsNothing
  <2> QED BY <2>1, <2>2 DEF ExecuteEvidence, End, Tell
<1> QED BY <1>0, <1>2, EndsQuietly

\* The owner binding is begun: with its publication, behind it, or not at all.
LEMMA BindingBeginStep ==
    ASSUME RepairInv, NEW entry, BindingBegin(entry)
    PROVE  RepairInv'
<1>0. alive' = {} /\ alive = {} /\ odb' = odb
  BY DEF BindingBegin, Quiet, RuntimeAbsent
<1>1. CASE /\ LegacyAbsence(odb) /\ tx' = Published(odb)
           /\ tool' = [kind |-> "binding", pc |-> "pub.commit"] /\ told' = Nil
  <2>1. tool'.pc = "pub.commit"
    BY <1>1
  <2>2. ToolInv'
    BY <1>0, <1>1, <2>1 DEF ToolInv, Exclusive, Preparing, Committing, Committed, Publishing, Binding
  <2> QED BY <1>0, <1>1, <2>2 DEF RepairInv, NoLiveOwnerStopped, ReportTrue
<1>2. CASE ExactWitness(odb) /\ tool' = [kind |-> "binding", pc |-> "run"] /\ told' = Nil
  <2>1. tool'.pc = "run"
    BY <1>2
  <2>2. ToolInv'
    BY <1>0, <1>2, <2>1 DEF ToolInv, Exclusive, Preparing, Committing, Committed, Publishing, Binding
  <2> QED BY <1>0, <1>2, <2>2 DEF RepairInv, NoLiveOwnerStopped, ReportTrue
<1>3. CASE End("binding", "refused")
  BY <1>0, <1>3, TellsNothing, EndsQuietly DEF End, Tell
<1> QED BY <1>1, <1>2, <1>3 DEF BindingBegin

\* A boundary inside the publication fails.
LEMMA PublicationAbortStep ==
    ASSUME RepairInv, PublicationAbort
    PROVE  RepairInv'
<1>1. PICK result \in {"refused", "ambiguous"} :
          tool' = NoTool /\ told' = [kind |-> "binding", result |-> result]
  BY DEF PublicationAbort, End, Tell
<1>2. UNCHANGED <<odb, alive>>
  BY DEF PublicationAbort, Quiet
<1> QED BY <1>1, <1>2, TellsNothing, EndsQuietly

\* COMMIT of migration 0014.
LEMMA PublicationCommitStep ==
    ASSUME RepairInv, PublicationCommit
    PROVE  RepairInv' /\ StopBound
<1>0. /\ tool.pc = "pub.commit" /\ odb' \in {tx, odb} /\ UNCHANGED <<alive, told>>
      /\ \E seen : tool' = [kind |-> "binding", pc |-> "pub.reread", seen |-> seen]
  BY DEF PublicationCommit
<1>1. alive = {} /\ told = Nil /\ tx = Published(odb) /\ DbInv(odb)
  BY <1>0, AtWork DEF RepairInv, ToolInv, Publishing
<1>2. DbInv(odb')
  BY <1>0, <1>1, Publishes
<1>s. StopBound
  <2>1. odb'.own = odb.own /\ odb'.receipts = odb.receipts
    BY <1>0, <1>1, Publishes
  <2> QED BY <2>1, StopsNobody
<1>3. tool'.pc = "pub.reread"
  BY SMT, <1>0
<1>4. ToolInv'
  BY <1>0, <1>1, <1>3 DEF ToolInv, Exclusive, Preparing, Committing, Committed, Publishing, Binding
<1> QED BY <1>s, <1>0, <1>1, <1>2, <1>4 DEF RepairInv, NoLiveOwnerStopped, ReportTrue

\* classify_publication on a fresh connection.
LEMMA PublicationRereadStep ==
    ASSUME RepairInv, PublicationReread
    PROVE  RepairInv'
<1>0. tool.pc = "pub.reread" /\ UNCHANGED <<odb, alive>>
  BY DEF PublicationReread, Quiet
<1>1. PICK class : class = Classify(tool.seen, odb)
  OBVIOUS
<1>2. CASE class = "complete" /\ tool' = [kind |-> "binding", pc |-> "run"] /\ told' = told
  <2>1. tool'.pc = "run"
    BY <1>2
  <2>2. ExactWitness(odb')
    BY <1>0, <1>1, <1>2 DEF Classify
  <2>3. alive = {} /\ told = Nil
    BY <1>0, AtWork
  <2>4. ToolInv'
    BY <1>0, <1>2, <2>1, <2>2, <2>3 DEF ToolInv, Exclusive, Preparing, Committing, Committed, Publishing, Binding
  <2> QED BY <1>0, <1>2, <2>3, <2>4 DEF RepairInv, NoLiveOwnerStopped, ReportTrue
<1>3. CASE class # "complete" /\ End("publication", class)
  <2>1. tool' = NoTool /\ told' = [kind |-> "publication", result |-> class]
    BY <1>3 DEF End, Tell
  <2>2. class = "ambiguous" \/ (class = "not-committed" /\ LegacyAbsence(odb'))
    BY <1>0, <1>1, <1>3 DEF Classify
  <2>3. told'.kind = "publication" /\ told'.result = class
    BY <2>1
  <2>4. ReportTrue'
    BY <2>2, <2>3 DEF ReportTrue
  <2> QED BY <1>0, <2>1, <2>4, EndsQuietly
<1>4. CASE End("binding", "ambiguous")
  BY <1>0, <1>4, TellsNothing, EndsQuietly DEF End, Tell
<1> QED BY <1>1, <1>2, <1>3, <1>4 DEF PublicationReread

\* A receipt that describes the rows names the newer owner.
LEMMA RepeatNames ==
    ASSUME NEW d, DbInv(d), d.binding # Nil, RepeatMatches(d)
    PROVE  d.lease.owner = "active" /\ d.adm.owner = "active"
<1>1. TheBinding.post = BusinessDigest(d)
  BY DEF DbInv, BindingSound, RepeatMatches
<1>2. PICK r : r = Rebound(Retained)
  OBVIOUS
<1>3. TheBinding.post = BusinessDigest(r)
  BY <1>2 DEF TheBinding, BindingReceipt
<1>4. d.lease = r.lease /\ d.adm = r.adm
  BY SMT, <1>1, <1>3 DEF BusinessDigest
<1>5. DbInv(Retained)
  BY PairColumns DEF DbInv, Retained
<1>6. r.lease.owner = "active" /\ r.adm.owner = "active"
  BY <1>2, <1>5, Rebinds
<1> QED BY <1>4, <1>6

\* Behind the publication.
LEMMA RunBodyStep ==
    ASSUME RepairInv, RunBody
    PROVE  RepairInv'
<1>0. tool.pc = "run" /\ UNCHANGED <<odb, alive>> /\ DbInv(odb)
  BY DEF RunBody, Quiet, RepairInv
<1>1. alive = {} /\ told = Nil /\ ExactWitness(odb)
  BY <1>0, AtWork DEF RepairInv, ToolInv, Binding
<1>2. CASE odb.binding # Nil /\ End("binding", IF RepeatMatches(odb) THEN "already" ELSE "refused")
  <2>1. CASE RepeatMatches(odb)
    <3>1. tool' = NoTool /\ told' = [kind |-> "binding", result |-> "already"]
      BY <1>2, <2>1 DEF End, Tell
    <3>2. told'.kind = "binding" /\ told'.result = "already"
      BY <3>1
    <3>3. odb'.binding # Nil /\ odb'.lease.owner = "active" /\ odb'.adm.owner = "active"
      BY <1>0, <1>2, <2>1, RepeatNames
    <3>4. ReportTrue'
      BY <3>2, <3>3 DEF ReportTrue, Kinds
    <3> QED BY <1>0, <3>1, <3>4, EndsQuietly
  <2>2. CASE ~RepeatMatches(odb)
    <3>1. tool' = NoTool /\ told' = [kind |-> "binding", result |-> "refused"]
      BY <1>2, <2>2 DEF End, Tell
    <3> QED BY <1>0, <3>1, TellsNothing, EndsQuietly
  <2> QED BY <2>1, <2>2
<1>3. CASE /\ odb.binding = Nil /\ BusinessDigest(odb) = BusinessDigest(Retained)
           /\ tx' = Rebound(odb) /\ tool' = [kind |-> "binding", pc |-> "run.commit"] /\ told' = told
  <2>1. tool'.pc = "run.commit"
    BY <1>3
  <2>2. Binding'
    BY <1>0, <1>1, <1>3, <2>1 DEF Binding
  <2>3. ToolInv'
    BY <1>0, <1>1, <1>3, <2>1, <2>2 DEF ToolInv, Exclusive, Preparing, Committing, Committed, Publishing
  <2> QED BY <1>0, <1>1, <1>3, <2>3 DEF RepairInv, NoLiveOwnerStopped, ReportTrue
<1>4. CASE End("binding", "refused")
  BY <1>0, <1>4, TellsNothing, EndsQuietly DEF End, Tell
<1> QED BY <1>2, <1>3, <1>4 DEF RunBody

\* The boundary before the second COMMIT fails.
LEMMA BoundaryStep ==
    ASSUME RepairInv, BoundaryFails
    PROVE  RepairInv'
<1>1. /\ tool' = NoTool /\ UNCHANGED <<odb, alive>>
      /\ told' = [kind |-> "binding", result |-> "refused"]
  BY DEF BoundaryFails, End, Tell, Quiet
<1> QED BY <1>1, TellsNothing, EndsQuietly

\* The second COMMIT.
LEMMA RunCommitStep ==
    ASSUME RepairInv, RunCommit
    PROVE  RepairInv' /\ StopBound
<1>0. /\ tool.pc = "run.commit" /\ odb' \in {tx, odb} /\ UNCHANGED <<alive, told>>
      /\ \E seen : tool' = [kind |-> "binding", pc |-> "run.reread", seen |-> seen]
  BY DEF RunCommit
<1>1. /\ alive = {} /\ told = Nil /\ tx = Rebound(odb) /\ DbInv(odb)
      /\ BusinessDigest(odb) = BusinessDigest(Retained) /\ ExactWitness(odb)
  BY <1>0, AtWork DEF RepairInv, ToolInv, Binding
<1>2. DbInv(odb') /\ odb'.ledger = odb.ledger /\ odb'.witness = odb.witness
  BY <1>0, <1>1, Rebinds
<1>s. StopBound
  <2>1. odb'.own = odb.own /\ odb'.receipts = odb.receipts
    BY <1>0, <1>1, Rebinds
  <2> QED BY <2>1, StopsNobody
<1>3. tool'.pc = "run.reread"
  BY SMT, <1>0
<1>4. ExactWitness(odb')
  BY <1>1, <1>2 DEF ExactWitness, Authenticated0014
<1>5. ToolInv'
  BY <1>0, <1>1, <1>3, <1>4 DEF ToolInv, Exclusive, Preparing, Committing, Committed, Publishing, Binding
<1> QED BY <1>s, <1>0, <1>1, <1>2, <1>5 DEF RepairInv, NoLiveOwnerStopped, ReportTrue

\* fresh_business_reread and the final match.
LEMMA RunRereadStep ==
    ASSUME RepairInv, RunReread
    PROVE  RepairInv'
<1>0. /\ tool.pc = "run.reread" /\ UNCHANGED <<odb, alive>> /\ DbInv(odb) /\ tool' = NoTool
      /\ ExactWitness(odb)
  BY DEF RunReread, Quiet, End, RepairInv, ToolInv, Binding
<1>1. PICK result : told' = [kind |-> "binding", result |-> result] /\
        \/ result \in {"adopted", "remediated"} /\ odb.binding # Nil /\ RepeatMatches(odb)
        \/ result = "not-committed" /\ odb.binding = Nil
        \/ result = "ambiguous"
  BY DEF RunReread, End, Tell
<1>2. told'.kind = "binding" /\ told'.result = result
  BY <1>1
<1>3. CASE result \in {"adopted", "remediated"} /\ odb.binding # Nil /\ RepeatMatches(odb)
  <2>1. odb'.binding # Nil /\ odb'.lease.owner = "active" /\ odb'.adm.owner = "active"
    BY <1>0, <1>3, RepeatNames
  <2>2. ReportTrue'
    BY <1>2, <1>3, <2>1 DEF ReportTrue, Kinds
  <2> QED BY <1>0, <2>2, EndsQuietly
<1>4. CASE result = "not-committed" /\ odb.binding = Nil
  <2>1. odb'.binding = Nil /\ ExactWitness(odb')
    BY <1>0, <1>4
  <2>2. ReportTrue'
    BY <1>2, <1>4, <2>1 DEF ReportTrue
  <2> QED BY <1>0, <2>2, EndsQuietly
<1>5. CASE result = "ambiguous"
  BY <1>0, <1>1, <1>5, TellsNothing, EndsQuietly
<1> QED BY <1>1, <1>3, <1>4, <1>5

-----------------------------------------------------------------------------
(* The surroundings. *)

\* The command dies.
LEMMA DieStep ==
    ASSUME RepairInv, Die
    PROVE  RepairInv'
<1>1. tool' = NoTool /\ UNCHANGED <<odb, alive>> /\ told' = Nil
  BY DEF Die
<1> QED BY <1>1, EndsQuietly DEF ReportTrue

\* Where a process runs no command is at work, so a row it writes is the only change.
LEMMA OwnerRowStep ==
    ASSUME RepairInv, tool = NoTool, UNCHANGED tool, told' = Nil,
           NEW o \in Owners, NEW state, NEW hb, NEW ledger,
           o = "fresh" \/ state = odb.own[o].state,
           odb' = RowSet(odb, ledger, o, OwnerRow(state, hb)),
           alive' \subseteq Owners, alive' \ {o} \subseteq alive, o \in alive' => state # "stopped"
    PROVE  RepairInv' /\ StopBound
<1>1. /\ DbInv(odb') /\ odb'.own[o] = OwnerRow(state, hb)
      /\ \A p \in Owners \ {o} : odb'.own[p] = odb.own[p]
      /\ odb'.receipts = odb.receipts
  BY SMT, RowWritten DEF RepairInv
<1>2. odb'.own[o].state = state
  BY SMT, <1>1 DEF OwnerRow
<1>3. NoLiveOwnerStopped'
  <2> SUFFICES ASSUME NEW p \in alive' PROVE odb'.own[p].state # "stopped"
    BY DEF NoLiveOwnerStopped
  <2>1. CASE p = o
    BY <1>2, <2>1
  <2>2. CASE p # o
    BY <1>1, <2>2 DEF RepairInv, NoLiveOwnerStopped
  <2> QED BY <2>1, <2>2
<1>4. ToolInv' /\ ReportTrue'
  BY ToolOver DEF ReportTrue
<1>5. \A p \in LegacyOwners : odb'.own[p].state = odb.own[p].state
  BY <1>1, <1>2 DEF Owners, LegacyOwners
<1>6. StopBound
  BY <1>1, <1>5, StopsNobody
<1> QED BY <1>1, <1>3, <1>4, <1>6 DEF RepairInv

\* A process of the old release renews its heartbeat.
LEMMA HeartbeatStep ==
    ASSUME RepairInv, OwnerHeartbeat
    PROVE  RepairInv' /\ StopBound
<1>1. PICK o \in alive \cap LegacyOwners : odb' = [odb EXCEPT !.own[o].hb = "h1"]
  BY DEF OwnerHeartbeat
<1>2. tool = NoTool /\ UNCHANGED <<tool, alive>> /\ told' = Nil
  BY <1>1 DEF OwnerHeartbeat, RepairInv, ToolInv, Exclusive
<1>3. PICK state : state = odb.own[o].state
  OBVIOUS
<1>4. odb' = RowSet(odb, odb.ledger, o, OwnerRow(state, "h1"))
  <2>1. Columns(odb) /\ o \in Owners
    BY <1>1 DEF RepairInv, DbInv, Owners
  <2>2. [odb.own[o] EXCEPT !.hb = "h1"] = OwnerRow(state, "h1")
    BY SMT, <1>3, <2>1 DEF Columns, OwnRows, OwnerRow
  <2>3. odb' = [odb EXCEPT !.own[o] = OwnerRow(state, "h1")]
    BY <1>1, <2>2
  <2> QED BY <2>1, <2>3 DEF RowSet, Columns
<1>5. o \in Owners /\ alive \subseteq Owners /\ state # "stopped"
  BY <1>1, <1>3 DEF RepairInv, NoLiveOwnerStopped, Owners
<1> QED BY SMT, <1>2, <1>3, <1>4, <1>5, OwnerRowStep

\* A process ends.
LEMMA ExitStep ==
    ASSUME RepairInv, OwnerExit
    PROVE  RepairInv'
<1>1. alive' \subseteq alive /\ UNCHANGED <<odb, tx, tool, told>>
  BY DEF OwnerExit
<1>2. ToolInv'
  BY <1>1 DEF RepairInv, ToolInv, Exclusive, Preparing, Committing, Committed, Publishing, Binding
<1> QED BY <1>1, <1>2 DEF RepairInv, NoLiveOwnerStopped, ReportTrue

\* A runtime of this release starts and stops.
LEMMA RuntimeSteps ==
    ASSUME RepairInv, RuntimeStart \/ RuntimeStop
    PROVE  RepairInv' /\ StopBound
<1>0. tool = NoTool /\ UNCHANGED tool /\ told' = Nil /\ alive \subseteq Owners /\ Columns(odb)
      /\ "fresh" \in Owners
  BY DEF RuntimeStart, RuntimeStop, RepairInv, DbInv, Owners
<1>1. CASE RuntimeStart
  <2>1. odb' = RowSet(odb, 14, "fresh", OwnerRow("active", "h0")) /\ alive' = alive \cup {"fresh"}
    BY <1>1 DEF RuntimeStart, RowSet
  <2> QED BY SMT, <1>0, <2>1, OwnerRowStep
<1>2. CASE RuntimeStop
  <2>1. PICK hb : hb = odb.own["fresh"].hb
    OBVIOUS
  <2>2. [odb.own["fresh"] EXCEPT !.state = "stopped"] = OwnerRow("stopped", hb)
    BY SMT, <1>0, <2>1 DEF Columns, OwnRows, OwnerRow
  <2>3. odb' = [odb EXCEPT !.own["fresh"] = OwnerRow("stopped", hb)] /\ alive' = alive \ {"fresh"}
    BY <1>2, <2>2 DEF RuntimeStop
  <2>4. odb' = RowSet(odb, odb.ledger, "fresh", OwnerRow("stopped", hb))
    BY <1>0, <2>3 DEF RowSet, Columns
  <2> QED BY <1>0, <2>3, <2>4, OwnerRowStep
<1> QED BY <1>1, <1>2

-----------------------------------------------------------------------------
(* The theorems. *)

\* The databases an old release leaves satisfy the invariant.
LEMMA RepairInitial == RepairInit => RepairInv
<1> SUFFICES ASSUME RepairInit PROVE RepairInv
  OBVIOUS
<1>1. /\ DbInv(odb) /\ odb.own["active"].state = "active"
      /\ alive \subseteq {"active"} /\ tool = NoTool /\ told = Nil
  BY PairColumns, SingleColumns DEF RepairInit, DbInv
<1>2. tool.pc = "idle"
  BY <1>1 DEF NoTool
<1>3. ToolInv
  BY <1>1, <1>2 DEF ToolInv, Exclusive, Preparing, Committing, Committed, Publishing, Binding
<1>4. alive \subseteq Owners /\ NoLiveOwnerStopped
  BY <1>1 DEF NoLiveOwnerStopped, Owners, LegacyOwners
<1> QED BY <1>1, <1>3, <1>4 DEF RepairInv, ReportTrue

\* Every step keeps the invariant and binds what it stops to a receipt.
LEMMA RepairSteps ==
    ASSUME RepairInv, [RepairNext]_repairVars
    PROVE  RepairInv' /\ (StopBound \/ UNCHANGED repairVars)
<1>0. odb' = odb => StopBound
  BY StopsNobody
<1>1. CASE UNCHANGED repairVars
  <2>1. UNCHANGED <<odb, tx, alive, tool, told>>
    BY <1>1 DEF repairVars
  <2>2. ToolInv'
    BY <2>1 DEF RepairInv, ToolInv, Exclusive, Preparing, Committing, Committed, Publishing, Binding
  <2> QED BY <1>1, <2>1, <2>2 DEF RepairInv, NoLiveOwnerStopped, ReportTrue
<1>2. ASSUME NEW k \in Kinds, NEW op, PrepareRead(k, op) PROVE RepairInv' /\ StopBound
  BY <1>0, <1>2, PrepareReadStep DEF PrepareRead
<1>3. ASSUME NEW k \in Kinds, PrepareMark(k) \/ PreparePublish(k) PROVE RepairInv' /\ StopBound
  BY <1>0, <1>3, PrepareMarkStep, PreparePublishStep DEF PrepareMark, PreparePublish
<1>4. ASSUME NEW k \in Kinds, NEW m, ExecuteBegin(k, m) PROVE RepairInv' /\ StopBound
  BY <1>0, <1>4, ExecuteBeginStep DEF ExecuteBegin
<1>5. ASSUME NEW k \in Kinds, ExecuteCommit(k) \/ ExecuteEvidence(k) PROVE RepairInv' /\ StopBound
  BY <1>0, <1>5, ExecuteCommitStep, ExecuteEvidenceStep DEF ExecuteEvidence
<1>6. CASE BindingProduction \/ BindingPaths \/ BoundaryFails
  BY <1>0, <1>6, BindingBeginStep, BoundaryStep
     DEF BindingProduction, BindingPaths, BindingBegin, BoundaryFails
<1>7. CASE PublicationAbort \/ PublicationCommit \/ PublicationReread
  BY <1>0, <1>7, PublicationAbortStep, PublicationCommitStep, PublicationRereadStep
     DEF PublicationAbort, PublicationReread
<1>8. CASE RunBody \/ RunCommit \/ RunReread
  BY <1>0, <1>8, RunBodyStep, RunCommitStep, RunRereadStep DEF RunBody, RunReread
<1>9. CASE Refuse \/ Die
  BY <1>0, <1>9, RefuseStep, DieStep DEF Refuse, Die
<1>10. CASE OwnerHeartbeat \/ OwnerExit \/ RuntimeStart \/ RuntimeStop
  BY <1>0, <1>10, HeartbeatStep, ExitStep, RuntimeSteps DEF OwnerExit
<1>11. "legacy" \in Kinds /\ "fixture" \in Kinds
  BY DEF Kinds
<1> QED
  BY <1>1, <1>2, <1>3, <1>4, <1>5, <1>6, <1>7, <1>8, <1>9, <1>10, <1>11
     DEF RepairNext, LegacyPrepare, LegacyMark, LegacyPublish, LegacyReconcile, LegacyCommit,
         LegacyEvidence, FixturePrepare, FixtureMark, FixturePublish, FixtureMigrate,
         FixtureCommit, FixtureEvidence

\* The commands that repair owners never stop one whose process runs, leave no row bound
\* to a stopped one, and tell the operator what the database shows, for any number of
\* operations, crashes, lost COMMIT results and failed writes.
THEOREM RepairStaysSound == RepairSpec => []RepairSound
<1>1. RepairInit => RepairInv
  BY RepairInitial
<1>2. RepairInv /\ [RepairNext]_repairVars => RepairInv'
  BY RepairSteps
<1>3. RepairInv => RepairSound
  BY DEF RepairInv, RepairSound, DbInv, BindingSound, NoDanglingBinding
<1> QED BY <1>1, <1>2, <1>3, PTL DEF RepairSpec

\* A legacy owner is stopped only together with a receipt that names the digests of the
\* database right before and right after (reconcile, migrate).
THEOREM StopsStayReceipted == RepairSpec => ReceiptBindsStop
<1>1. RepairInit => RepairInv
  BY RepairInitial
<1>2. RepairInv /\ [RepairNext]_repairVars => RepairInv'
  BY RepairSteps
<1>3. RepairInv /\ [RepairNext]_repairVars => [StopBound]_repairVars
  BY RepairSteps
<1> QED BY <1>1, <1>2, <1>3, PTL DEF RepairSpec, ReceiptBindsStop

=============================================================================
