------------------------- MODULE LeaseGateway_proofs -------------------------
(***************************************************************************)
(* Proofs about ExecutionLease, for every set of resources, tasks and      *)
(* owner tokens, every overlap relation and every bound, and about         *)
(* Gateway, for every set of events and every bound.                       *)
(***************************************************************************)
EXTENDS ExecutionLease, Gateway, TLAPS

\* Zenon proves a step that names no other prover.
USE Zenon

-----------------------------------------------------------------------------
(* The leases of the execution resources. *)
\* Every Lease value carries a token that was generated, and every stored
\* continuation was opened under a grant its resource has already seen.
Provenance ==
    /\ \A h \in handles : h.owner \in used
    /\ \A t \in Task : cont[t].state # "absent" =>
         /\ cont[t].resource \in Resource
         /\ cont[t].fence <= lease[cont[t].resource].fence

\* The inductive invariant behind the fencing theorems.
IInv ==
    /\ TypeOK
    /\ Provenance
    /\ FenceIdentifiesGrant
    /\ FinishedTurnHoldsNoLease
    /\ TurnAccounting

-----------------------------------------------------------------------------
\* The schema is preserved by every call of the store.
LEMMA TypeOKInit == Init => TypeOK
  BY SMT, BoundsAssumption, NamesAssumption
     DEF Init, TypeOK, LeaseRow, ContRow, LeaseState, Open, Final

\* One step per call: each leaves every table within its schema.
LEMMA TypeOKStep == TypeOK /\ [Next]_vars => TypeOK'
<1> SUFFICES ASSUME TypeOK, [Next]_vars PROVE TypeOK'
  OBVIOUS
<1> USE BoundsAssumption, NamesAssumption
<1>1. CASE Tick
  BY SMT, <1>1 DEF Tick, TypeOK
<1>2. ASSUME NEW r \in Resource, NEW t \in Task, NEW o \in Owner, Acquire(r, t, o)
      PROVE TypeOK'
  BY SMT, <1>2 DEF Acquire, TypeOK, LeaseRow, LeaseState, Handle
<1>3. ASSUME NEW r \in Resource, AcquireExpired(r) PROVE TypeOK'
  BY ZenonT(60), <1>3 DEF AcquireExpired, TypeOK, LeaseRow, LeaseState
<1>4. ASSUME NEW h \in handles, Renew(h) PROVE TypeOK'
  BY SMT, <1>4 DEF Renew, TypeOK, LeaseRow, Handle
<1>5. ASSUME NEW h \in handles, ClaimWorkspaces(h) PROVE TypeOK'
  BY SMT, <1>5 DEF ClaimWorkspaces, TypeOK, Handle, Claim
<1>6. ASSUME NEW h \in handles, NEW s \in {"released", "recovery_needed"}, Release(h, s)
      PROVE TypeOK'
  BY SMT, <1>6 DEF Release, CloseRow, DropClaims, FreezeClaims, TypeOK, LeaseRow, LeaseState,
              Handle, Claim
<1>7. ASSUME NEW h \in handles, BeginContinuation(h) PROVE TypeOK'
  BY <1>7 DEF BeginContinuation, TypeOK, Handle, ContRow, Open
<1>8. ASSUME NEW h \in handles, NEW rev \in 1 .. cont[h.task].revision, ClaimTurn(h, rev)
      PROVE TypeOK'
  BY SMT, <1>8 DEF ClaimTurn, TypeOK, Handle, ContRow, Open
<1>9. ASSUME NEW h \in handles, NEW rev \in 1 .. cont[h.task].revision, RecordContinue(h, rev)
      PROVE TypeOK'
  BY <1>9, SMTT(30) DEF RecordContinue, Selects, TypeOK, Handle, ContRow, Open, Receipt
<1>10. ASSUME NEW h \in handles, NEW rev \in 1 .. cont[h.task].revision,
              NEW s \in FinishStates, Finish(h, rev, s)
       PROVE TypeOK'
  BY SMT, <1>10 DEF Finish, FinishTurn, CloseRow, TypeOK, Handle, ContRow, Final, LeaseRow, LeaseState
<1>11. ASSUME NEW h \in handles, NEW rev \in 1 .. cont[h.task].revision,
              NEW s \in {"blocked", "terminal"}, FinalizeTerminal(h, rev, s)
       PROVE TypeOK'
  BY SMT, <1>11 DEF FinalizeTerminal, FinishTurn, CloseRow, DropClaims, TypeOK, Handle, ContRow,
               Final, LeaseRow, LeaseState
<1>12. CASE UNCHANGED vars
  BY <1>12 DEF vars, TypeOK
<1> QED
  BY <1>1, <1>2, <1>3, <1>4, <1>5, <1>6, <1>7, <1>8, <1>9, <1>10, <1>11, <1>12 DEF Next

\* Type correctness: no interleaving of store calls, with current or stale
\* Lease values, takes a table out of its schema.
THEOREM TypeCorrect == Spec => []TypeOK
  BY TypeOKInit, TypeOKStep, PTL DEF Spec

-----------------------------------------------------------------------------
\* Before any call there is neither a grant nor a continuation.
LEMMA IInvInit == Init => IInv
<1> SUFFICES ASSUME Init PROVE IInv
  OBVIOUS
<1>1. TypeOK
  BY TypeOKInit
<1>2. Provenance /\ FenceIdentifiesGrant /\ FinishedTurnHoldsNoLease /\ TurnAccounting
  BY DEF Init, Provenance, FenceIdentifiesGrant, FinishedTurnHoldsNoLease, TurnAccounting, Final
<1> QED
  BY <1>1, <1>2 DEF IInv

\* Lemma for every step that leaves the lease table, the continuations and the
\* Lease values alone.
LEMMA IInvFrame ==
    ASSUME IInv, TypeOK', UNCHANGED <<lease, cont, handles, used>>
    PROVE  IInv'
  BY DEF IInv, Provenance, FenceIdentifiesGrant, FinishedTurnHoldsNoLease, TurnAccounting

\* Every call of the store preserves the inductive invariant: acquire raises the
\* fence above every Lease in circulation, the guards of the other calls tie a
\* write to the current grant and to the current revision.
LEMMA IInvStep == IInv /\ [Next]_vars => IInv'
<1> SUFFICES ASSUME IInv, [Next]_vars PROVE IInv'
  OBVIOUS
<1> USE BoundsAssumption, NamesAssumption
<1>t. TypeOK'
  BY TypeOKStep DEF IInv
<1>1. CASE Tick
  BY <1>1, <1>t, IInvFrame DEF Tick
<1>2. ASSUME NEW r \in Resource, NEW t \in Task, NEW o \in Owner, Acquire(r, t, o)
      PROVE IInv'
  <2> USE <1>2 DEF Acquire
  <2> DEFINE g == [resource |-> r, task |-> t, owner |-> o,
                   fence |-> lease[r].fence + 1, expires |-> now + TTL]
  <2>1. /\ lease'[r].fence = lease[r].fence + 1
        /\ \A q \in Resource : q # r => lease'[q] = lease[q]
        /\ \A q \in Resource : lease[q].fence <= lease'[q].fence /\ lease[q].fence \in Nat
    BY SMT DEF IInv, TypeOK, LeaseRow
  <2>2. Provenance'
    BY SMT, <2>1 DEF IInv, TypeOK, Provenance, ContRow, LeaseRow
  <2>3. \A h \in handles : h.resource = r => h.fence < g.fence
    BY SMT DEF IInv, TypeOK, FenceIdentifiesGrant, Handle, LeaseRow
  <2>4. FenceIdentifiesGrant'
    BY SMT, <2>1, <2>3 DEF IInv, TypeOK, FenceIdentifiesGrant, Handle, LeaseRow
  <2>5. FinishedTurnHoldsNoLease'
    BY SMTT(30), <2>1 DEF IInv, TypeOK, FinishedTurnHoldsNoLease, Provenance, ContRow, LeaseRow, Final
  <2>6. TurnAccounting'
    BY DEF IInv, TurnAccounting
  <2> QED
    BY <1>t, <2>2, <2>4, <2>5, <2>6 DEF IInv
<1>3. ASSUME NEW r \in Resource, AcquireExpired(r) PROVE IInv'
  <2> USE <1>3 DEF AcquireExpired
  <2>1. /\ \A q \in Resource : lease'[q].fence = lease[q].fence
        /\ \A q \in Resource : lease'[q].state = "active" => lease[q].state = "active"
    BY DEF IInv, TypeOK, LeaseRow
  <2> QED
    BY SMT, <1>t, <2>1 DEF IInv, TypeOK, Handle, Provenance, FenceIdentifiesGrant,
                      FinishedTurnHoldsNoLease, TurnAccounting, Final
<1>4. ASSUME NEW h \in handles, Renew(h) PROVE IInv'
  <2> USE <1>4 DEF Renew
  <2> DEFINE g == [h EXCEPT !.expires = now + TTL]
  <2>1. /\ \A q \in Resource : lease'[q].fence = lease[q].fence
        /\ \A q \in Resource : lease'[q].state = lease[q].state
    BY DEF IInv, TypeOK, LeaseRow
  <2>2. /\ g.resource = h.resource /\ g.fence = h.fence
        /\ g.owner = h.owner /\ g.task = h.task
    BY DEF IInv, TypeOK, Handle
  <2> HIDE DEF g
  <2>3. handles' = handles \cup {g}
    BY DEF g
  <2>4. Provenance'
    BY <2>1, <2>2, <2>3 DEF IInv, TypeOK, Handle, Provenance
  <2>5. FenceIdentifiesGrant'
    BY SMT, <2>1, <2>2, <2>3 DEF IInv, TypeOK, Handle, FenceIdentifiesGrant
  <2> QED
    BY SMT, <1>t, <2>1, <2>4, <2>5 DEF IInv, Provenance, FinishedTurnHoldsNoLease, TurnAccounting, Final
<1>5. ASSUME NEW h \in handles, ClaimWorkspaces(h) PROVE IInv'
  BY <1>5, <1>t, IInvFrame DEF ClaimWorkspaces
<1>6. ASSUME NEW h \in handles, NEW s \in {"released", "recovery_needed"}, Release(h, s)
      PROVE IInv'
  <2>1. /\ \A q \in Resource : lease'[q].fence = lease[q].fence
        /\ \A q \in Resource : lease'[q].state = "active" => lease[q].state = "active"
    BY <1>6 DEF IInv, TypeOK, LeaseRow, Release, CloseRow, Handle
  <2>2. UNCHANGED <<cont, handles, used>>
    BY <1>6 DEF Release
  <2> QED
    BY SMT, <1>t, <2>1, <2>2 DEF IInv, TypeOK, Handle, Provenance, FenceIdentifiesGrant,
                            FinishedTurnHoldsNoLease, TurnAccounting, Final
<1>7. ASSUME NEW h \in handles, BeginContinuation(h) PROVE IInv'
  <2> USE <1>7 DEF BeginContinuation
  <2>1. /\ cont'[h.task] = [state |-> "ready", resource |-> h.resource, fence |-> h.fence,
                            revision |-> 1, next_turn |-> 1, completed |-> 0]
        /\ \A t \in Task : t # h.task => cont'[t] = cont[t]
        /\ h.resource \in Resource /\ h.fence <= lease[h.resource].fence
    BY DEF IInv, TypeOK, Handle, FenceIdentifiesGrant
  <2> QED
    BY <1>t, <2>1, SMTT(30) DEF IInv, Provenance, FenceIdentifiesGrant,
                                FinishedTurnHoldsNoLease, TurnAccounting, Final
<1>8. ASSUME NEW h \in handles, NEW rev \in 1 .. cont[h.task].revision, ClaimTurn(h, rev)
      PROVE IInv'
  <2>1. /\ cont[h.task].state = "ready" /\ cont'[h.task].state = "in_flight"
        /\ cont'[h.task].revision = cont[h.task].revision + 1
        /\ cont'[h.task].next_turn = cont[h.task].next_turn
        /\ cont'[h.task].completed = cont[h.task].completed
        /\ cont'[h.task].resource = cont[h.task].resource
        /\ cont'[h.task].fence = cont[h.task].fence
        /\ \A t \in Task : t # h.task => cont'[t] = cont[t]
        /\ h.task \in Task /\ cont[h.task] \in ContRow
    BY ZenonT(60), <1>8 DEF ClaimTurn, IInv, TypeOK, Handle, ContRow
  <2>2. TurnAccounting'
    <3>1. /\ cont[h.task].revision = 2 * cont[h.task].completed + 1
          /\ cont[h.task].next_turn = cont[h.task].completed + 1
      BY <2>1 DEF IInv, TurnAccounting
    <3>2. /\ cont'[h.task].revision = 2 * cont'[h.task].completed + 2
          /\ cont'[h.task].next_turn = cont'[h.task].completed + 1
      BY SMT, <2>1, <3>1 DEF ContRow
    <3> QED
      BY SMT, <2>1, <3>2 DEF IInv, TurnAccounting, Final
  <2>3. UNCHANGED <<lease, handles, used>>
    BY <1>8 DEF ClaimTurn
  <2>4. Provenance'
    BY <2>1, <2>3 DEF IInv, Provenance
  <2>5. FinishedTurnHoldsNoLease'
    BY ZenonT(60), <2>1, <2>3 DEF IInv, FinishedTurnHoldsNoLease, Final
  <2> QED
    BY <1>t, <2>2, <2>3, <2>4, <2>5 DEF IInv, FenceIdentifiesGrant
<1>9. ASSUME NEW h \in handles, NEW rev \in 1 .. cont[h.task].revision, RecordContinue(h, rev)
      PROVE IInv'
  <2>1. /\ cont[h.task].state = "in_flight" /\ cont'[h.task].state = "ready"
        /\ cont'[h.task].revision = cont[h.task].revision + 1
        /\ cont'[h.task].next_turn = cont[h.task].next_turn + 1
        /\ cont'[h.task].completed = cont[h.task].completed + 1
        /\ cont'[h.task].resource = cont[h.task].resource
        /\ cont'[h.task].fence = cont[h.task].fence
        /\ \A t \in Task : t # h.task => cont'[t] = cont[t]
        /\ h.task \in Task /\ cont[h.task] \in ContRow
    BY <1>9, SMTT(30) DEF RecordContinue, IInv, TypeOK, Handle, ContRow
  <2>2. TurnAccounting'
    <3>1. /\ cont[h.task].revision = 2 * cont[h.task].completed + 2
          /\ cont[h.task].next_turn = cont[h.task].completed + 1
      BY <2>1 DEF IInv, TurnAccounting
    <3>2. /\ cont'[h.task].revision = 2 * cont'[h.task].completed + 1
          /\ cont'[h.task].next_turn = cont'[h.task].completed + 1
      BY SMT, <2>1, <3>1 DEF ContRow
    <3> QED
      BY SMT, <2>1, <3>2 DEF IInv, TurnAccounting, Final
  <2>3. UNCHANGED <<lease, handles, used>>
    BY <1>9 DEF RecordContinue
  <2>4. Provenance'
    BY <2>1, <2>3 DEF IInv, Provenance
  <2>5. FinishedTurnHoldsNoLease'
    BY ZenonT(60), <2>1, <2>3 DEF IInv, FinishedTurnHoldsNoLease, Final
  <2> QED
    BY <1>t, <2>2, <2>3, <2>4, <2>5 DEF IInv, FenceIdentifiesGrant
<1>10. ASSUME NEW h \in handles, NEW rev \in 1 .. cont[h.task].revision, NEW s \in Final,
              NEW u \in {"released", "recovery_needed"},
              FinishTurn(h, rev, s), CloseRow(h, u), UNCHANGED <<handles, used>>
       PROVE IInv'
  <2>1. /\ cont[h.task].state = "in_flight" /\ cont'[h.task].state = s
        /\ cont'[h.task].revision = cont[h.task].revision + 1
        /\ cont'[h.task].next_turn = cont[h.task].next_turn
        /\ cont'[h.task].completed = cont[h.task].completed + 1
        /\ cont'[h.task].resource = h.resource
        /\ cont[h.task].resource = h.resource
        /\ cont'[h.task].fence = cont[h.task].fence
        /\ \A t \in Task : t # h.task => cont'[t] = cont[t]
        /\ h.task \in Task /\ cont[h.task] \in ContRow
    BY SMT, <1>10 DEF FinishTurn, IInv, TypeOK, Handle, ContRow, Selects
  <2>2. /\ \A q \in Resource : lease'[q].fence = lease[q].fence
        /\ \A q \in Resource : lease'[q].state = "active" => lease[q].state = "active"
        /\ lease'[h.resource].state # "active"
        /\ h.resource \in Resource
    BY <1>10 DEF IInv, TypeOK, LeaseRow, CloseRow, Handle
  <2>3. Provenance'
    BY SMT, <1>10, <2>1, <2>2 DEF IInv, Provenance
  <2>4. FenceIdentifiesGrant'
    BY <1>10, <2>2 DEF IInv, TypeOK, Handle, FenceIdentifiesGrant
  <2>5. FinishedTurnHoldsNoLease'
    <3> SUFFICES ASSUME NEW t \in Task, cont'[t].state \in Final
                 PROVE ~ /\ lease'[cont'[t].resource].fence = cont'[t].fence
                         /\ lease'[cont'[t].resource].state = "active"
      BY DEF FinishedTurnHoldsNoLease
    <3>1. CASE t = h.task
      BY <2>1, <2>2, <3>1
    <3>2. CASE t # h.task
      BY SMT, <2>1, <2>2, <3>2 DEF IInv, Provenance, FinishedTurnHoldsNoLease, Final
    <3> QED
      BY <3>1, <3>2
  <2>6. TurnAccounting'
    <3>1. s # "ready" /\ s # "in_flight"
      BY DEF Final
    <3>2. /\ cont[h.task].revision = 2 * cont[h.task].completed + 2
          /\ cont[h.task].next_turn = cont[h.task].completed + 1
      BY <2>1 DEF IInv, TurnAccounting
    <3>3. /\ cont'[h.task].revision = 2 * cont'[h.task].completed + 1
          /\ cont'[h.task].next_turn = cont'[h.task].completed
      BY SMT, <2>1, <3>2 DEF ContRow
    <3> QED
      BY SMT, <2>1, <3>1, <3>3 DEF IInv, TurnAccounting
  <2> QED
    BY <1>t, <2>3, <2>4, <2>5, <2>6 DEF IInv
<1>11. ASSUME NEW h \in handles, NEW rev \in 1 .. cont[h.task].revision,
              NEW s \in FinishStates, Finish(h, rev, s)
       PROVE IInv'
  BY <1>10, <1>11 DEF Finish, Final
<1>12. ASSUME NEW h \in handles, NEW rev \in 1 .. cont[h.task].revision,
              NEW s \in {"blocked", "terminal"}, FinalizeTerminal(h, rev, s)
       PROVE IInv'
  BY <1>10, <1>12 DEF FinalizeTerminal, Final
<1>13. CASE UNCHANGED vars
  BY <1>13, <1>t, IInvFrame DEF vars
<1> QED
  BY <1>1, <1>2, <1>3, <1>4, <1>5, <1>6, <1>7, <1>8, <1>9, <1>11, <1>12, <1>13 DEF Next

\* The inductive invariant holds in every reachable state of the store.
LEMMA Invariance == Spec => []IInv
  BY IInvInit, IInvStep, PTL DEF Spec

\* Fencing: whatever Lease values are presented again, and whenever, a fence of
\* a resource names one acquire and one task, and no Lease is ahead of the row.
THEOREM Fencing == Spec => []FenceIdentifiesGrant
  BY Invariance, PTL DEF IInv

\* A turn that finish or finalize_terminal closed never leaves its lease active.
THEOREM FinishReleases == Spec => []FinishedTurnHoldsNoLease
  BY Invariance, PTL DEF IInv

\* No turn is lost or repeated by the revision compare-and-set.
THEOREM TurnsAddUp == Spec => []TurnAccounting
  BY Invariance, PTL DEF IInv

-----------------------------------------------------------------------------
\* A step that touches one row of the lease table, or none, seen through the
\* refinement mapping.
LEMMA FencedStep == TypeOK /\ [Next]_vars => [Fenced!Next]_(Fenced!vars)
<1> SUFFICES ASSUME TypeOK, [Next]_vars PROVE [Fenced!Next]_(Fenced!vars)
  OBVIOUS
<1> USE NamesAssumption
<1>1. ASSUME UNCHANGED lease PROVE UNCHANGED Fenced!vars
  BY <1>1 DEF Fenced!vars
<1>m. /\ Mode("absent") = "free" /\ Mode("released") = "free"
      /\ Mode("active") = "held" /\ Mode("recovery_needed") = "quarantined"
  BY DEF Mode
<1>2. ASSUME NEW r \in Resource, NEW t \in Task, NEW o \in Owner, Acquire(r, t, o)
      PROVE Fenced!Grant(r, o)
  <2>1. /\ lease[r].state \in {"absent", "released"} /\ lease'[r].state = "active"
        /\ lease'[r].owner = o /\ lease'[r].fence = lease[r].fence + 1
        /\ \A q \in Resource : q # r => lease'[q] = lease[q]
    BY <1>2 DEF Acquire, TypeOK, LeaseRow
  <2> QED
    BY <1>m, <2>1 DEF Fenced!Grant
<1>q. ASSUME NEW r \in Resource, lease[r].state = "active", lease'[r].state = "recovery_needed",
             lease'[r].owner = lease[r].owner, lease'[r].fence = lease[r].fence,
             \A q \in Resource : q # r => lease'[q] = lease[q]
      PROVE Fenced!Quarantine(r)
  <2>1. /\ \A q \in Resource : lease'[q].owner = lease[q].owner
        /\ \A q \in Resource : lease'[q].fence = lease[q].fence
    BY <1>q
  <2> QED
    BY ZenonT(60), <1>m, <1>q, <2>1 DEF Fenced!Quarantine
<1>3. ASSUME NEW r \in Resource, AcquireExpired(r) PROVE Fenced!Quarantine(r)
  <2>1. /\ lease[r].state = "active" /\ lease'[r].state = "recovery_needed"
        /\ lease'[r].owner = lease[r].owner /\ lease'[r].fence = lease[r].fence
        /\ \A q \in Resource : q # r => lease'[q] = lease[q]
    BY <1>3 DEF AcquireExpired, TypeOK, LeaseRow
  <2> QED
    BY <1>q, <2>1
<1>4. ASSUME NEW h \in handles, Renew(h) PROVE UNCHANGED Fenced!vars
  <2>1. \A q \in Resource : /\ lease'[q].state = lease[q].state
                             /\ lease'[q].owner = lease[q].owner
                             /\ lease'[q].fence = lease[q].fence
    BY <1>4 DEF Renew, TypeOK, LeaseRow, Handle
  <2> QED
    BY <2>1 DEF Fenced!vars
<1>c. ASSUME NEW h \in handles, NEW u \in {"released", "recovery_needed"},
             Holds(h), CloseRow(h, u)
      PROVE /\ h.resource \in Resource /\ lease[h.resource].state = "active"
            /\ lease'[h.resource].state = u
            /\ \A q \in Resource : lease'[q].owner = lease[q].owner
            /\ \A q \in Resource : lease'[q].fence = lease[q].fence
            /\ \A q \in Resource : q # h.resource => lease'[q] = lease[q]
  BY <1>c DEF Holds, CloseRow, TypeOK, LeaseRow, Handle
<1>5. ASSUME NEW h \in handles, Holds(h), CloseRow(h, "released")
      PROVE Fenced!GiveBack(h.resource)
  BY <1>m, <1>c, <1>5 DEF Fenced!GiveBack
<1>6. ASSUME NEW h \in handles, Holds(h), CloseRow(h, "recovery_needed")
      PROVE Fenced!Quarantine(h.resource)
  BY <1>q, <1>c, <1>6
<1>7. ASSUME NEW h \in handles, NEW u \in {"released", "recovery_needed"},
             Holds(h), CloseRow(h, u)
      PROVE Fenced!Next
  <2>1. h.resource \in Resource
    BY DEF TypeOK, Handle
  <2> QED
    BY <1>5, <1>6, <1>7, <2>1 DEF Fenced!Next
<1>8. ASSUME NEW h \in handles, NEW s \in {"released", "recovery_needed"}, Release(h, s)
      PROVE Fenced!Next
  BY <1>7, <1>8 DEF Release
<1>9. ASSUME NEW h \in handles, NEW rev \in 1 .. cont[h.task].revision,
             NEW s \in FinishStates, Finish(h, rev, s)
      PROVE Fenced!Next
  BY <1>7, <1>9 DEF Finish, FinishTurn, Live
<1>10. ASSUME NEW h \in handles, NEW rev \in 1 .. cont[h.task].revision,
              NEW s \in {"blocked", "terminal"}, FinalizeTerminal(h, rev, s)
       PROVE Fenced!Next
  BY <1>7, <1>10 DEF FinalizeTerminal, FinishTurn, Live
<1>11. CASE Next
  <2>1. CASE Tick
    BY <1>1, <2>1 DEF Tick
  <2>2. CASE \E r \in Resource, t \in Task, o \in Owner : Acquire(r, t, o)
    BY <1>2, <2>2 DEF Fenced!Next
  <2>3. CASE \E r \in Resource : AcquireExpired(r)
    BY <1>3, <2>3 DEF Fenced!Next
  <2>4. ASSUME NEW h \in handles, ClaimWorkspaces(h) \/ BeginContinuation(h)
        PROVE UNCHANGED lease
    BY <2>4 DEF ClaimWorkspaces, BeginContinuation
  <2>5. ASSUME NEW h \in handles, NEW rev \in 1 .. cont[h.task].revision,
               ClaimTurn(h, rev) \/ RecordContinue(h, rev)
        PROVE UNCHANGED lease
    BY <2>5 DEF ClaimTurn, RecordContinue
  <2> QED
    BY <1>1, <1>4, <1>8, <1>9, <1>10, <1>11, <2>1, <2>2, <2>3, <2>4, <2>5 DEF Next
<1>12. CASE UNCHANGED vars
  BY <1>1, <1>12 DEF vars
<1> QED
  BY <1>11, <1>12

\* The lease table of the runtime store implements the abstract fenced resource,
\* whatever the clock, the stale Lease values and the continuation writes do.
THEOREM Refinement == Spec => ImplementsFencedResource
<1>1. Init => Fenced!Init
  BY SMT DEF Init, Fenced!Init, Mode
<1> QED
  BY <1>1, FencedStep, TypeCorrect, PTL DEF Spec, Fenced!Spec, ImplementsFencedResource

-----------------------------------------------------------------------------
\* A row that reached a final state is not selected by any write: each of them
\* requires ready, in_flight or no row at all.
THEOREM FinalRowsNeverChange == Spec => FinalIsFinal
<1>1. TypeOK /\ [Next]_vars =>
        [\A t \in Task : cont[t].state \in Final => cont'[t] = cont[t]]_vars
  <2> SUFFICES ASSUME TypeOK, Next, NEW t \in Task, cont[t].state \in Final
               PROVE cont'[t] = cont[t]
    OBVIOUS
  <2>2. ASSUME NEW h \in handles, BeginContinuation(h) PROVE cont'[t] = cont[t]
    BY <2>2 DEF BeginContinuation, TypeOK, Handle, Final
  <2>3. ASSUME NEW h \in handles, NEW rev \in 1 .. cont[h.task].revision, ClaimTurn(h, rev)
        PROVE cont'[t] = cont[t]
    BY <2>3 DEF ClaimTurn, TypeOK, Handle, Final
  <2>4. ASSUME NEW h \in handles, NEW rev \in 1 .. cont[h.task].revision, RecordContinue(h, rev)
        PROVE cont'[t] = cont[t]
    BY <2>4 DEF RecordContinue, TypeOK, Handle, Final
  <2>5. ASSUME NEW h \in handles, NEW rev \in 1 .. cont[h.task].revision, NEW s,
               FinishTurn(h, rev, s)
        PROVE cont'[t] = cont[t]
    BY <2>5 DEF FinishTurn, TypeOK, Handle, Final
  <2> QED
    BY <2>2, <2>3, <2>4, <2>5
       DEF Next, Tick, Acquire, AcquireExpired, Renew, ClaimWorkspaces, Release, Finish,
           FinalizeTerminal
<1> QED
  BY <1>1, TypeCorrect, PTL DEF Spec, FinalIsFinal

\* An expired lease stays expired: every write that could move expires_at
\* forward compares the stored expiry with the clock first.
THEOREM ExpiryIsFinal == Spec => ExpiredNeverRevived
<1>1. TypeOK /\ [Next]_vars =>
        [\A r \in Resource : lease[r].state = "active" /\ lease[r].expires <= now =>
            \/ lease'[r] = lease[r]
            \/ lease'[r].state \in {"released", "recovery_needed"}]_vars
  <2> SUFFICES ASSUME TypeOK, Next, NEW r \in Resource,
                      lease[r].state = "active", lease[r].expires <= now
               PROVE \/ lease'[r] = lease[r]
                     \/ lease'[r].state \in {"released", "recovery_needed"}
    OBVIOUS
  <2>1. ASSUME NEW h \in handles, NEW u \in {"released", "recovery_needed"}, CloseRow(h, u)
        PROVE \/ lease'[r] = lease[r]
              \/ lease'[r].state \in {"released", "recovery_needed"}
    BY <2>1 DEF CloseRow, TypeOK, Handle, LeaseRow
  <2>2. ASSUME NEW h \in handles, Renew(h) PROVE lease'[r] = lease[r]
    BY SMT, <2>2 DEF Renew, TypeOK, Handle, LeaseRow
  <2>3. ASSUME NEW q \in Resource, NEW t \in Task, NEW o \in Owner, Acquire(q, t, o)
        PROVE lease'[r] = lease[r]
    BY <2>3 DEF Acquire, TypeOK, LeaseRow
  <2>4. ASSUME NEW q \in Resource, AcquireExpired(q)
        PROVE lease'[r] = lease[r] \/ lease'[r].state = "recovery_needed"
    BY <2>4 DEF AcquireExpired, TypeOK, LeaseRow
  <2>5. ASSUME NEW h \in handles,
               \/ \E s \in {"released", "recovery_needed"} : Release(h, s)
               \/ \E rev \in 1 .. cont[h.task].revision :
                     \/ \E s \in FinishStates : Finish(h, rev, s)
                     \/ \E s \in {"blocked", "terminal"} : FinalizeTerminal(h, rev, s)
        PROVE \E u \in {"released", "recovery_needed"} : CloseRow(h, u)
    BY <2>5 DEF Release, Finish, FinalizeTerminal
  <2>6. ASSUME NEW h \in handles,
               \/ ClaimWorkspaces(h)
               \/ BeginContinuation(h)
               \/ \E rev \in 1 .. cont[h.task].revision :
                     ClaimTurn(h, rev) \/ RecordContinue(h, rev)
        PROVE lease'[r] = lease[r]
    BY <2>6 DEF ClaimWorkspaces, BeginContinuation, ClaimTurn, RecordContinue
  <2>7. CASE Tick
    BY <2>7 DEF Tick
  <2> QED
    BY <2>1, <2>2, <2>3, <2>4, <2>5, <2>6, <2>7 DEF Next
<1> QED
  BY <1>1, TypeCorrect, PTL DEF Spec, ExpiredNeverRevived
-----------------------------------------------------------------------------
\* The receipts of one task, and what ReceiptPerTurn says of them.
Turns(n) == {2 * k : k \in 1 .. n}

TaskAnswered(t) ==
    /\ \/ AnsweredAt(t) = Turns(cont[t].completed)
       \/ /\ cont[t].state \in FinishStates
          /\ AnsweredAt(t) = Turns(cont[t].completed) \ {2 * cont[t].completed}
    /\ cont[t].state = "recovery_needed" => 2 * cont[t].completed \notin AnsweredAt(t)

\* What ReceiptPerTurn says of one receipt.
ReceiptFits(x) ==
    /\ x.key = x.revision /\ x.fence = cont[x.task].fence
    /\ x.id = "event" <=>
         cont[x.task].state \in Final /\ x.revision = 2 * cont[x.task].completed

\* What the receipts need: a task without a row has answered no turn.
ReceiptInv ==
    /\ \A x \in receipts : x.task \in Task /\ ReceiptFits(x)
    /\ \A t \in Task : TaskAnswered(t)
    /\ \A t \in Task : cont[t].state = "absent" => cont[t].completed = 0

\* The revisions of the first n turns: one more turn adds one more revision, which is
\* larger than the others.
LEMMA TurnsGrow ==
    ASSUME NEW n \in Nat
    PROVE  /\ Turns(n + 1) = Turns(n) \cup {2 * (n + 1)}
           /\ 2 * (n + 1) \notin Turns(n)
           /\ Turns(n + 1) \ {2 * (n + 1)} = Turns(n)
           /\ Turns(0) = {}
<1>1. 1 .. n + 1 = (1 .. n) \cup {n + 1} /\ 1 .. 0 = {}
  BY SMT
<1>2. 2 * (n + 1) \notin Turns(n)
  BY SMT DEF Turns
<1>3. Turns(n + 1) = Turns(n) \cup {2 * (n + 1)} /\ Turns(0) = {}
  BY <1>1 DEF Turns
<1> QED
  BY <1>2, <1>3

\* A receipt belongs to the answers of its task.
LEMMA AnsweredHas == \A x \in receipts : x.revision \in AnsweredAt(x.task)
  BY DEF AnsweredAt

\* A task whose row and receipts are left alone.
LEMMA TaskSame ==
    ASSUME NEW t, cont'[t] = cont[t], AnsweredAt(t)' = AnsweredAt(t), TaskAnswered(t)
    PROVE  TaskAnswered(t)'
  BY DEF TaskAnswered

\* A receipt whose task is left alone.
LEMMA FitsSame ==
    ASSUME NEW x, cont'[x.task] = cont[x.task], ReceiptFits(x)
    PROVE  ReceiptFits(x)'
  BY DEF ReceiptFits

\* The turn in flight of a task is completed and its row goes to state s.
Completes(t, s) ==
    /\ cont[t].state = "in_flight" /\ cont'[t].state = s
    /\ cont[t].completed \in Nat /\ cont'[t].completed = cont[t].completed + 1
    /\ cont'[t].fence = cont[t].fence
    /\ \A u \in Task : u # t => cont'[u] = cont[u]

\* The receipt x answers the turn in flight.
Answers(t, s, x) ==
    /\ receipts' = receipts \cup {x}
    /\ x.task = t /\ x.fence = cont[t].fence
    /\ x.key = 2 * (cont[t].completed + 1) /\ x.revision = 2 * (cont[t].completed + 1)
    /\ x.id = "event" <=> s \in Final
    /\ s \notin {"recovery_needed", "absent"}

\* One more turn of a task is completed, and answered once or not at all.
LEMMA TurnCompleted ==
    ASSUME ReceiptInv, NEW t \in Task, NEW s, NEW x, Completes(t, s),
           (receipts' = receipts /\ s \in FinishStates) \/ Answers(t, s, x)
    PROVE  ReceiptInv'
<1> DEFINE n == cont[t].completed
<1>0. /\ n \in Nat /\ cont[t].state = "in_flight" /\ cont'[t].state = s
      /\ cont'[t].completed = n + 1 /\ cont'[t].fence = cont[t].fence
      /\ \A u \in Task : u # t => cont'[u] = cont[u]
  BY DEF Completes
<1> HIDE DEF n
<1>1. AnsweredAt(t) = Turns(n)
  BY <1>0, NamesAssumption DEF ReceiptInv, TaskAnswered, n
<1>2. s # "absent"
  BY NamesAssumption DEF Answers
<1>3. /\ 2 * (n + 1) \notin Turns(n) /\ Turns(n + 1) \ {2 * (n + 1)} = Turns(n)
      /\ Turns(n + 1) = Turns(n) \cup {2 * (n + 1)}
  BY <1>0, TurnsGrow
<1>4. ASSUME NEW y \in receipts PROVE ReceiptFits(y)'
  <2>1. CASE y.task = t
    <3>1. y.revision # 2 * (n + 1)
      BY SMT, <1>1, <1>3, <2>1, AnsweredHas
    <3>2. y.key = y.revision /\ y.fence = cont[t].fence /\ y.id # "event"
      BY <1>0, <2>1 DEF ReceiptInv, ReceiptFits, Final
    <3> QED
      BY <1>0, <2>1, <3>1, <3>2 DEF ReceiptFits
  <2>2. CASE y.task # t
    BY <1>0, <2>2, FitsSame DEF ReceiptInv
  <2> QED
    BY <2>1, <2>2
<1>5. \A u \in Task : cont'[u].state = "absent" => cont'[u].completed = 0
  BY <1>0, <1>2 DEF ReceiptInv
<1>6. CASE receipts' = receipts /\ s \in FinishStates
  <2>1. \A u : AnsweredAt(u)' = AnsweredAt(u)
    BY <1>6 DEF AnsweredAt
  <2>2. TaskAnswered(t)'
    BY <1>0, <1>1, <1>3, <1>6, <2>1 DEF TaskAnswered
  <2>3. \A u \in Task : TaskAnswered(u)'
    BY <1>0, <2>1, <2>2, TaskSame DEF ReceiptInv
  <2>4. \A y \in receipts' : y.task \in Task /\ ReceiptFits(y)'
    BY <1>4, <1>6 DEF ReceiptInv
  <2> QED
    BY <1>5, <2>3, <2>4 DEF ReceiptInv
<1>7. CASE Answers(t, s, x)
  <2>0. /\ receipts' = receipts \cup {x} /\ x.task = t /\ x.fence = cont[t].fence
        /\ x.key = 2 * (n + 1) /\ x.revision = 2 * (n + 1)
        /\ x.id = "event" <=> s \in Final
        /\ s \notin {"recovery_needed", "absent"}
    BY <1>7 DEF Answers, n
  <2>1. AnsweredAt(t)' = AnsweredAt(t) \cup {2 * (n + 1)}
    <3>1. \A v : v \in AnsweredAt(t)' <=> v \in AnsweredAt(t) \/ v = 2 * (n + 1)
      BY SMT, <2>0 DEF AnsweredAt
    <3> QED
      BY <3>1
  <2>2. \A u \in Task : u # t => AnsweredAt(u)' = AnsweredAt(u)
    BY <2>0 DEF AnsweredAt
  <2>3. TaskAnswered(t)'
    BY <1>0, <1>1, <1>3, <2>0, <2>1 DEF TaskAnswered
  <2>4. \A u \in Task : TaskAnswered(u)'
    BY <1>0, <2>2, <2>3, TaskSame DEF ReceiptInv
  <2>5. ReceiptFits(x)'
    BY <1>0, <2>0 DEF ReceiptFits
  <2>6. \A y \in receipts' : y.task \in Task /\ ReceiptFits(y)'
    BY <1>4, <2>0, <2>5 DEF ReceiptInv
  <2> QED
    BY <1>5, <2>4, <2>6 DEF ReceiptInv
<1> QED
  BY <1>6, <1>7

\* Every call of the store keeps the receipts of the completed turns: the revision a
\* caller presents is the stored one, and an open turn c + 1 is at revision 2c + 2.
LEMMA ReceiptStep == IInv /\ ReceiptInv /\ [Next]_vars => ReceiptInv'
<1> SUFFICES ASSUME IInv, ReceiptInv, [Next]_vars PROVE ReceiptInv'
  OBVIOUS
<1> USE BoundsAssumption, NamesAssumption
<1>1. ASSUME UNCHANGED <<cont, receipts>> PROVE ReceiptInv'
  BY <1>1 DEF ReceiptInv, TaskAnswered, AnsweredAt, ReceiptFits
<1>2. ASSUME NEW h \in handles, BeginContinuation(h) PROVE ReceiptInv'
  <2>1. /\ cont'[h.task].completed = 0 /\ cont'[h.task].state = "ready"
        /\ \A t \in Task : t # h.task => cont'[t] = cont[t]
        /\ receipts' = receipts /\ cont[h.task].state = "absent" /\ h.task \in Task
    BY <1>2 DEF BeginContinuation, IInv, TypeOK, Handle
  <2>2. AnsweredAt(h.task) = {} /\ Turns(0) = {}
    <3>1. cont[h.task].completed = 0
      BY <2>1 DEF ReceiptInv
    <3>2. Turns(0) = {}
      BY SMT DEF Turns
    <3> QED
      BY <2>1, <3>1, <3>2 DEF ReceiptInv, TaskAnswered
  <2>3. \A x \in receipts : x.task \in Task /\ x.task # h.task
    BY <2>2, AnsweredHas DEF ReceiptInv
  <2>4. \A t : AnsweredAt(t)' = AnsweredAt(t)
    BY <2>1 DEF AnsweredAt
  <2>5. TaskAnswered(h.task)'
    BY <2>1, <2>2, <2>4 DEF TaskAnswered
  <2>6. \A t \in Task : TaskAnswered(t)'
    BY <2>1, <2>4, <2>5, TaskSame DEF ReceiptInv
  <2>7. \A x \in receipts' : x.task \in Task /\ ReceiptFits(x)'
    BY <2>1, <2>3, FitsSame DEF ReceiptInv
  <2> QED
    BY <2>1, <2>6, <2>7 DEF ReceiptInv
<1>3. ASSUME NEW h \in handles, NEW rev \in 1 .. cont[h.task].revision, ClaimTurn(h, rev)
      PROVE ReceiptInv'
  <2>1. /\ cont[h.task].state = "ready" /\ cont'[h.task].state = "in_flight"
        /\ cont'[h.task].completed = cont[h.task].completed
        /\ cont'[h.task].fence = cont[h.task].fence
        /\ \A t \in Task : t # h.task => cont'[t] = cont[t]
        /\ receipts' = receipts /\ h.task \in Task
    BY <1>3 DEF ClaimTurn, IInv, TypeOK, Handle, ContRow
  <2>2. \A t : AnsweredAt(t)' = AnsweredAt(t)
    BY <2>1 DEF AnsweredAt
  <2>3. TaskAnswered(h.task)'
    BY <2>1, <2>2 DEF ReceiptInv, TaskAnswered, Final
  <2>4. \A t \in Task : TaskAnswered(t)'
    BY <2>1, <2>2, <2>3, TaskSame DEF ReceiptInv
  <2>5. \A x \in receipts : x.task = h.task => ReceiptFits(x)'
    BY SMT, <2>1 DEF ReceiptInv, ReceiptFits, Final
  <2>6. \A x \in receipts : ReceiptFits(x)'
    BY <2>1, <2>5, FitsSame DEF ReceiptInv
  <2> QED
    BY <2>1, <2>4, <2>6 DEF ReceiptInv
<1>4. ASSUME NEW h \in handles, NEW rev \in 1 .. cont[h.task].revision, NEW s \in Final,
             FinishTurn(h, rev, s)
      PROVE  /\ Completes(h.task, s) /\ h.task \in Task /\ h.fence = cont[h.task].fence
             /\ rev = cont[h.task].revision
             /\ cont[h.task].revision = 2 * (cont[h.task].completed + 1)
  <2>1. Completes(h.task, s) /\ h.task \in Task /\ h.fence = cont[h.task].fence
        /\ rev = cont[h.task].revision
    BY <1>4, SMTT(30) DEF FinishTurn, Selects, IInv, TypeOK, Handle, ContRow, Completes
  <2>2. cont[h.task].revision = 2 * (cont[h.task].completed + 1)
    BY SMT, <2>1 DEF IInv, TurnAccounting, Completes
  <2> QED
    BY <2>1, <2>2
<1>5. ASSUME NEW h \in handles, NEW rev \in 1 .. cont[h.task].revision, RecordContinue(h, rev)
      PROVE ReceiptInv'
  <2>1. /\ Completes(h.task, "ready") /\ h.task \in Task /\ h.fence = cont[h.task].fence
        /\ rev = cont[h.task].revision
        /\ receipts' = receipts \cup {Answer(h, rev, "delivery")}
    BY <1>5, SMTT(30) DEF RecordContinue, Selects, IInv, TypeOK, Handle, ContRow, Completes
  <2>2. cont[h.task].revision = 2 * (cont[h.task].completed + 1)
    BY SMT, <2>1 DEF IInv, TurnAccounting, Completes
  <2>3. LET x == Answer(h, rev, "delivery")
        IN  /\ x.id = "delivery" /\ x.task = h.task /\ x.fence = h.fence
            /\ x.key = rev /\ x.revision = cont[h.task].revision
    BY DEF Answer
  <2>4. Answers(h.task, "ready", Answer(h, rev, "delivery"))
    BY <2>1, <2>2, <2>3 DEF Answers, Final
  <2> QED
    BY <2>1, <2>4, TurnCompleted
<1>6. ASSUME NEW h \in handles, NEW rev \in 1 .. cont[h.task].revision,
             NEW s \in FinishStates, Finish(h, rev, s)
      PROVE ReceiptInv'
  <2>1. s \in Final /\ FinishTurn(h, rev, s) /\ receipts' = receipts
    BY <1>6 DEF Finish, Final
  <2>2. Completes(h.task, s) /\ h.task \in Task
    BY <1>4, <2>1
  <2> QED
    BY <2>1, <2>2, TurnCompleted
<1>7. ASSUME NEW h \in handles, NEW rev \in 1 .. cont[h.task].revision,
             NEW s \in {"blocked", "terminal"}, FinalizeTerminal(h, rev, s)
      PROVE ReceiptInv'
  <2>1. /\ s \in Final /\ FinishTurn(h, rev, s)
        /\ receipts' = receipts \cup {Answer(h, rev, "event")}
        /\ s \notin {"recovery_needed", "absent"}
    BY <1>7 DEF FinalizeTerminal, Final
  <2>2. LET x == Answer(h, rev, "event")
        IN  /\ x.id = "event" /\ x.task = h.task /\ x.fence = h.fence
            /\ x.key = rev /\ x.revision = cont[h.task].revision
    BY DEF Answer
  <2>3. /\ Completes(h.task, s) /\ h.task \in Task /\ h.fence = cont[h.task].fence
        /\ rev = cont[h.task].revision
        /\ cont[h.task].revision = 2 * (cont[h.task].completed + 1)
    BY <1>4, <2>1
  <2>4. Answers(h.task, s, Answer(h, rev, "event"))
    BY <2>1, <2>2, <2>3 DEF Answers
  <2> QED
    BY <2>3, <2>4, TurnCompleted
<1>8. ASSUME NEW r \in Resource, NEW t \in Task, NEW o \in Owner, Acquire(r, t, o)
      PROVE ReceiptInv'
  BY <1>1, <1>8 DEF Acquire
<1>9. ASSUME NEW r \in Resource, AcquireExpired(r) PROVE ReceiptInv'
  BY <1>1, <1>9 DEF AcquireExpired
<1>10. ASSUME NEW h \in handles,
              \/ Renew(h) \/ ClaimWorkspaces(h)
              \/ \E s \in {"released", "recovery_needed"} : Release(h, s)
       PROVE ReceiptInv'
  BY <1>1, <1>10 DEF Renew, ClaimWorkspaces, Release
<1>11. CASE Tick \/ UNCHANGED vars
  BY <1>1, <1>11 DEF Tick, vars
<1> QED
  BY <1>2, <1>3, <1>5, <1>6, <1>7, <1>8, <1>9, <1>10, <1>11 DEF Next

\* The record of every continuation is complete, whatever Lease values and revisions
\* are presented: turns, receipts and leases of a task agree.
THEOREM TurnsStayRecorded == Spec => []TurnsRecorded
<1>1. Init => ReceiptInv
  <2> SUFFICES ASSUME Init PROVE ReceiptInv
    OBVIOUS
  <2>1. receipts = {} /\ \A t \in Task : cont[t].completed = 0 /\ cont[t].state = "absent"
    BY DEF Init
  <2>2. Turns(0) = {}
    BY SMT DEF Turns
  <2>3. \A t : AnsweredAt(t) = {}
    BY <2>1 DEF AnsweredAt
  <2> QED
    BY <2>1, <2>2, <2>3 DEF ReceiptInv, TaskAnswered
<1>2. IInv /\ ReceiptInv => TurnsRecorded
  <2>1. ReceiptInv => ReceiptPerTurn
    BY DEF ReceiptInv, ReceiptPerTurn, TaskAnswered, ReceiptFits, Turns
  <2> QED
    BY <2>1 DEF IInv, TurnsRecorded
<1> QED
  BY <1>1, <1>2, Invariance, ReceiptStep, PTL DEF Spec

-----------------------------------------------------------------------------
\* A Lease value and a claim of the same grant.
ClaimOf(h, c) ==
    c.owner = h.owner /\ c.task = h.task /\ c.fence = h.fence /\ c.resource = h.resource

\* The grant a token stands for is the one its resource is in, and not given back.
Current(o, r, f) ==
    /\ lease[r].owner = o /\ lease[r].fence = f
    /\ lease[r].state \in {"active", "recovery_needed"}

\* Owner tokens are never generated twice, so one names one grant.
OwnerNamesGrant ==
    \A h, k \in handles : h.owner = k.owner =>
        h.resource = k.resource /\ h.fence = k.fence /\ h.task = k.task

\* What the workspace claims need: an owner token names one grant, a claim was made
\* under a grant, a Lease that has yet to claim is of the current grant, and so is
\* every active claim; a continuation is opened only after the claim.
ClaimInv ==
    /\ OwnerNamesGrant
    /\ \A c \in claims : \E h \in handles : ClaimOf(h, c)
    /\ \A h \in handles : h.owner \in fresh => Current(h.owner, h.resource, h.fence)
    /\ \A c \in claims : c.state = "active" => Current(c.owner, c.resource, c.fence)
    /\ \A t \in Task, h \in handles :
         /\ cont[t].state # "absent"
         /\ cont[t].resource = h.resource /\ cont[t].fence = h.fence
         => h.owner \notin fresh

\* The overlap check of claim_workspaces keeps the active claims disjoint, whatever
\* the leases do.
LEMMA DisjointStep == TypeOK /\ ActiveClaimsDisjoint /\ [Next]_vars => ActiveClaimsDisjoint'
<1> SUFFICES ASSUME TypeOK, ActiveClaimsDisjoint, [Next]_vars PROVE ActiveClaimsDisjoint'
  OBVIOUS
<1>1. ASSUME claims' \subseteq claims PROVE ActiveClaimsDisjoint'
  BY <1>1 DEF ActiveClaimsDisjoint
<1>2. ASSUME NEW h \in handles, ClaimWorkspaces(h) PROVE ActiveClaimsDisjoint'
  <2> DEFINE n == [resource |-> h.resource, task |-> h.task, owner |-> h.owner,
                   fence |-> h.fence, state |-> "active"]
  <2>1. /\ claims' = claims \cup {n} /\ n.resource = h.resource /\ h.resource \in Resource
        /\ \A c \in claims : c.resource \in Resource
        /\ \A c \in claims : c.state = "active" => <<c.resource, n.resource>> \notin Overlaps
    BY <1>2 DEF ClaimWorkspaces, TypeOK, Handle, Claim
  <2> HIDE DEF n
  <2>2. \A c \in claims : c.state = "active" => <<n.resource, c.resource>> \notin Overlaps
    BY <2>1, OverlapsAssumption
  <2> QED
    BY <2>1, <2>2 DEF ActiveClaimsDisjoint
<1>3. ASSUME NEW h \in handles, NEW s \in {"released", "recovery_needed"}, Release(h, s)
      PROVE ActiveClaimsDisjoint'
  <2>1. \A c \in claims' : c.state = "active" => c \in claims
    BY <1>3 DEF Release, DropClaims, FreezeClaims, TypeOK, Claim
  <2> QED
    BY <2>1 DEF ActiveClaimsDisjoint
<1>4. ASSUME NEW h \in handles, NEW rev \in 1 .. cont[h.task].revision,
             NEW s \in {"blocked", "terminal"}, FinalizeTerminal(h, rev, s)
      PROVE ActiveClaimsDisjoint'
  BY <1>1, <1>4 DEF FinalizeTerminal, DropClaims
<1>5. ASSUME UNCHANGED claims PROVE ActiveClaimsDisjoint'
  BY <1>1, <1>5
<1>6. ASSUME NEW r \in Resource, NEW t \in Task, NEW o \in Owner, Acquire(r, t, o)
      PROVE ActiveClaimsDisjoint'
  BY <1>5, <1>6 DEF Acquire
<1>7. ASSUME NEW r \in Resource, AcquireExpired(r) PROVE ActiveClaimsDisjoint'
  BY <1>5, <1>7 DEF AcquireExpired
<1>8. ASSUME NEW h \in handles, NEW rev \in 1 .. cont[h.task].revision,
             \/ ClaimTurn(h, rev) \/ RecordContinue(h, rev)
             \/ \E s \in FinishStates : Finish(h, rev, s)
      PROVE ActiveClaimsDisjoint'
  BY <1>5, <1>8 DEF ClaimTurn, RecordContinue, Finish
<1>9. ASSUME NEW h \in handles, Renew(h) \/ BeginContinuation(h) PROVE ActiveClaimsDisjoint'
  BY <1>5, <1>9 DEF Renew, BeginContinuation
<1>10. CASE Tick \/ UNCHANGED vars
  BY <1>5, <1>10 DEF Tick, vars
<1> QED
  BY <1>2, <1>3, <1>4, <1>6, <1>7, <1>8, <1>9, <1>10 DEF Next

\* Two tasks never have overlapping workspaces claimed at the same time, for every
\* overlap relation and whatever expires, is released or finishes in between.
THEOREM WorkspacesDisjoint == Spec => []ActiveClaimsDisjoint
<1>1. Init => ActiveClaimsDisjoint
  BY DEF Init, ActiveClaimsDisjoint
<1> QED
  BY <1>1, DisjointStep, TypeCorrect, PTL DEF Spec

\* Closing the current grant, with its claims dropped or frozen, leaves no active
\* claim on its resource and no claim to come.
LEMMA ClosingKeeps ==
    ASSUME IInv, ClaimInv, NEW h \in handles, Holds(h),
           NEW u \in {"released", "recovery_needed"}, CloseRow(h, u),
           claims' \in {DropClaims(h), FreezeClaims(h)},
           h.owner \notin fresh',
           fresh' \subseteq fresh, handles' = handles,
           \A t \in Task : /\ cont'[t].resource = cont[t].resource
                           /\ cont'[t].fence = cont[t].fence
                           /\ cont'[t].state # "absent" => cont[t].state # "absent"
    PROVE  ClaimInv'
<1>1. /\ \A q \in Resource : q # h.resource => lease'[q] = lease[q]
      /\ h.resource \in Resource
  BY DEF IInv, TypeOK, Handle, CloseRow
<1>2. \A c \in claims' : c.state = "active" => c \in claims /\ ~OwnClaim(h, c)
  BY SMT DEF DropClaims, FreezeClaims, IInv, TypeOK, Claim
<1>3. \A c \in claims' : \E k \in handles : ClaimOf(k, c)
  <2>1. CASE claims' = DropClaims(h)
    BY <2>1 DEF DropClaims, ClaimInv
  <2>2. CASE claims' = FreezeClaims(h)
    <3> SUFFICES ASSUME NEW d \in claims' PROVE \E k \in handles : ClaimOf(k, d)
      OBVIOUS
    <3>1. PICK c \in claims : d = IF OwnClaim(h, c) THEN [c EXCEPT !.state = "recovery_needed"] ELSE c
      BY <2>2 DEF FreezeClaims
    <3>2. /\ d.owner = c.owner /\ d.task = c.task /\ d.fence = c.fence
          /\ d.resource = c.resource
      BY <3>1 DEF IInv, TypeOK, Claim
    <3> QED
      BY SMT, <3>2 DEF ClaimInv, ClaimOf
  <2> QED
    BY <2>1, <2>2
<1>4. ASSUME NEW c \in claims', c.state = "active" PROVE Current(c.owner, c.resource, c.fence)'
  <2>1. c \in claims /\ ~OwnClaim(h, c) /\ c.resource \in Resource
    BY <1>2, <1>4 DEF IInv, TypeOK, Claim
  <2>2. Current(c.owner, c.resource, c.fence)
    BY <1>4, <2>1 DEF ClaimInv
  <2>3. PICK k \in handles : ClaimOf(k, c)
    BY <2>1 DEF ClaimInv
  <2>4. c.resource # h.resource
    <3> SUFFICES ASSUME c.resource = h.resource PROVE FALSE
      OBVIOUS
    <3>1. c.owner = h.owner /\ c.fence = h.fence
      BY <2>2 DEF Holds, Current
    <3>2. OwnerNamesGrant /\ k.owner = h.owner
      BY <2>3, <3>1 DEF ClaimInv, ClaimOf
    <3>3. k.task = h.task
      BY <3>2 DEF OwnerNamesGrant
    <3> QED
      BY <1>4, <2>1, <2>3, <3>1, <3>3 DEF OwnClaim, ClaimOf
  <2> QED
    BY <1>1, <2>1, <2>2, <2>4 DEF Current
<1>5. ASSUME NEW k \in handles, k.owner \in fresh' PROVE Current(k.owner, k.resource, k.fence)'
  <2>1. Current(k.owner, k.resource, k.fence) /\ k.resource \in Resource
    BY <1>5 DEF ClaimInv, IInv, TypeOK, Handle
  <2>2. k.resource # h.resource
    BY <1>5, <2>1 DEF Current, Holds
  <2> QED
    BY <1>1, <2>1, <2>2 DEF Current
<1>6. ASSUME NEW t \in Task, NEW k \in handles, cont'[t].state # "absent",
             cont'[t].resource = k.resource, cont'[t].fence = k.fence
      PROVE k.owner \notin fresh'
  BY <1>6 DEF ClaimInv
<1> QED
  BY <1>3, <1>4, <1>5, <1>6 DEF ClaimInv, OwnerNamesGrant

\* A step that leaves Lease values and claims alone, lets no grant go and opens no
\* continuation.
LEMMA ClaimFrame ==
    ASSUME IInv, ClaimInv, UNCHANGED <<claims, handles, fresh>>,
           \A q \in Resource : /\ lease'[q].owner = lease[q].owner
                               /\ lease'[q].fence = lease[q].fence
                               /\ lease'[q].state = lease[q].state \/ lease'[q].state = "recovery_needed",
           \A t \in Task : /\ cont'[t].resource = cont[t].resource
                           /\ cont'[t].fence = cont[t].fence
                           /\ cont'[t].state # "absent" => cont[t].state # "absent"
    PROVE  ClaimInv'
<1>1. ASSUME NEW o, NEW q \in Resource, NEW f, Current(o, q, f) PROVE Current(o, q, f)'
  BY <1>1 DEF Current
<1>2. \A c \in claims : c.resource \in Resource
  BY DEF IInv, TypeOK, Claim
<1>3. \A h \in handles : h.resource \in Resource
  BY DEF IInv, TypeOK, Handle
<1>4. \A c \in claims' : c.state = "active" => Current(c.owner, c.resource, c.fence)'
  BY <1>1, <1>2 DEF ClaimInv
<1>5. \A h \in handles' : h.owner \in fresh' => Current(h.owner, h.resource, h.fence)'
  BY <1>1, <1>3 DEF ClaimInv
<1>6. \A c \in claims' : \E h \in handles' : ClaimOf(h, c)
  BY DEF ClaimInv
<1>7. \A t \in Task, h \in handles' :
         /\ cont'[t].state # "absent"
         /\ cont'[t].resource = h.resource /\ cont'[t].fence = h.fence
         => h.owner \notin fresh'
  BY DEF ClaimInv
<1> QED
  BY <1>4, <1>5, <1>6, <1>7 DEF ClaimInv, OwnerNamesGrant

\* Every call of the store keeps the claims on the grants they were made under, when
\* each finish parks its lease for recovery, as the calls of the leased dispatcher do.
LEMMA ClaimStep ==
    ASSUME FinishStates \subseteq {"recovery_needed"}
    PROVE  IInv /\ ClaimInv /\ [Next]_vars => ClaimInv'
<1> SUFFICES ASSUME IInv, ClaimInv, [Next]_vars PROVE ClaimInv'
  OBVIOUS
<1> USE BoundsAssumption, NamesAssumption
<1>1. CASE Tick \/ UNCHANGED vars
  BY <1>1, ClaimFrame DEF Tick, vars
<1>2. ASSUME NEW r \in Resource, NEW t \in Task, NEW o \in Owner, Acquire(r, t, o)
      PROVE ClaimInv'
  <2>g. PICK g : g = [resource |-> r, task |-> t, owner |-> o,
                      fence |-> lease[r].fence + 1, expires |-> now + TTL]
    OBVIOUS
  <2>1. /\ handles' = handles \cup {g} /\ fresh' = fresh \cup {o} /\ claims' = claims
        /\ cont' = cont /\ o \notin used
        /\ lease[r].state \in {"absent", "released"}
        /\ \A q \in Resource : q # r => lease'[q] = lease[q]
        /\ g.resource = r /\ g.owner = o /\ g.fence = lease[r].fence + 1
        /\ lease[r].fence \in Nat
    BY <1>2, <2>g DEF Acquire, IInv, TypeOK, LeaseRow
  <2>2. Current(g.owner, g.resource, g.fence)'
    <3>1. lease'[r] = [state |-> "active", task |-> t, owner |-> o,
                       fence |-> lease[r].fence + 1, expires |-> now + TTL]
      BY <1>2 DEF Acquire, IInv, TypeOK
    <3> QED
      BY SMT, <2>g, <3>1 DEF Current
  <2>3. \A h \in handles : h.owner # g.owner /\ h.resource \in Resource
    BY <2>1 DEF IInv, Provenance, TypeOK, Handle
  <2>4. \A c \in claims : c.state = "active" => Current(c.owner, c.resource, c.fence)'
    BY ZenonT(60), <2>1 DEF ClaimInv, Current, IInv, TypeOK, Claim
  <2>5. \A h \in handles : h.owner \in fresh' => Current(h.owner, h.resource, h.fence)'
    BY SMT, <2>1, <2>3 DEF ClaimInv, Current
  <2>6. \A u \in Task, h \in handles' :
           /\ cont'[u].state # "absent"
           /\ cont'[u].resource = h.resource /\ cont'[u].fence = h.fence
           => h.owner \notin fresh'
    <3> SUFFICES ASSUME NEW u \in Task, NEW h \in handles', cont[u].state # "absent",
                        cont[u].resource = h.resource, cont[u].fence = h.fence
                 PROVE h.owner \notin fresh'
      BY <2>1
    <3>1. CASE h \in handles
      BY <2>1, <2>3, <3>1 DEF ClaimInv
    <3>2. CASE h = g
      <4>1. cont[u].fence <= lease[r].fence /\ cont[u].fence = lease[r].fence + 1
        BY <2>1, <3>2 DEF IInv, Provenance
      <4> QED
        BY SMT, <2>1, <4>1
    <3> QED
      BY <2>1, <3>1, <3>2
  <2>7. \A c \in claims' : \E h \in handles' : ClaimOf(h, c)
    BY <2>1 DEF ClaimInv
  <2>8. OwnerNamesGrant'
    BY SMT, <2>1, <2>3 DEF ClaimInv, OwnerNamesGrant
  <2>9. \A h \in handles' : h.owner \in fresh' => Current(h.owner, h.resource, h.fence)'
    BY <2>1, <2>2, <2>5
  <2> QED
    BY <2>1, <2>4, <2>6, <2>7, <2>8, <2>9 DEF ClaimInv
<1>3. ASSUME NEW r \in Resource, AcquireExpired(r) PROVE ClaimInv'
  <2>1. \A q \in Resource : /\ lease'[q].owner = lease[q].owner
                            /\ lease'[q].fence = lease[q].fence
                            /\ lease'[q].state = lease[q].state \/ lease'[q].state = "recovery_needed"
    BY ZenonT(60), <1>3 DEF AcquireExpired, IInv, TypeOK, LeaseRow
  <2> QED
    BY <1>3, <2>1, ClaimFrame DEF AcquireExpired
<1>4. ASSUME NEW h \in handles, Renew(h) PROVE ClaimInv'
  <2> DEFINE g == [h EXCEPT !.expires = now + TTL]
  <2>1. \A q \in Resource : /\ lease'[q].owner = lease[q].owner
                            /\ lease'[q].fence = lease[q].fence
                            /\ lease'[q].state = lease[q].state
    BY ZenonT(60), <1>4 DEF Renew, IInv, TypeOK, LeaseRow
  <2>2. /\ g.resource = h.resource /\ g.fence = h.fence /\ g.owner = h.owner /\ g.task = h.task
        /\ handles' = handles \cup {g} /\ UNCHANGED <<claims, fresh, cont>>
    BY <1>4 DEF Renew, IInv, TypeOK, Handle
  <2> HIDE DEF g
  <2>3. ASSUME NEW o, NEW q \in Resource, NEW f, Current(o, q, f) PROVE Current(o, q, f)'
    BY <2>1, <2>3 DEF Current
  <2>4. \A k \in handles' : k.owner \in fresh' => Current(k.owner, k.resource, k.fence)'
    BY <2>2, <2>3 DEF ClaimInv, IInv, TypeOK, Handle
  <2>5. \A c \in claims' : c.state = "active" => Current(c.owner, c.resource, c.fence)'
    BY <2>2, <2>3 DEF ClaimInv, IInv, TypeOK, Claim
  <2>6. OwnerNamesGrant'
    BY SMT, <2>2 DEF ClaimInv, OwnerNamesGrant
  <2>7. \A c \in claims' : \E k \in handles' : ClaimOf(k, c)
    BY <2>2 DEF ClaimInv
  <2>8. \A u \in Task, k \in handles' :
           /\ cont'[u].state # "absent"
           /\ cont'[u].resource = k.resource /\ cont'[u].fence = k.fence
           => k.owner \notin fresh'
    BY SMT, <2>2 DEF ClaimInv
  <2> QED
    BY <2>4, <2>5, <2>6, <2>7, <2>8 DEF ClaimInv
<1>5. ASSUME NEW h \in handles, ClaimWorkspaces(h) PROVE ClaimInv'
  <2> DEFINE n == [resource |-> h.resource, task |-> h.task, owner |-> h.owner,
                   fence |-> h.fence, state |-> "active"]
  <2>1. /\ claims' = claims \cup {n} /\ fresh' = fresh \ {h.owner} /\ h.owner \in fresh
        /\ UNCHANGED <<lease, cont, handles>> /\ ClaimOf(h, n)
        /\ n.owner = h.owner /\ n.resource = h.resource /\ n.fence = h.fence
    BY <1>5 DEF ClaimWorkspaces, ClaimOf
  <2> HIDE DEF n
  <2>2. Current(h.owner, h.resource, h.fence)
    BY <2>1 DEF ClaimInv
  <2>3. ASSUME NEW o, NEW q, NEW f, Current(o, q, f) PROVE Current(o, q, f)'
    BY <2>1, <2>3 DEF Current
  <2>4. \A c \in claims' : c.state = "active" => Current(c.owner, c.resource, c.fence)'
    BY <2>1, <2>2, <2>3 DEF ClaimInv
  <2>5. \A k \in handles' : k.owner \in fresh' => Current(k.owner, k.resource, k.fence)'
    BY <2>1, <2>3 DEF ClaimInv
  <2>6. \A c \in claims' : \E k \in handles' : ClaimOf(k, c)
    BY <2>1 DEF ClaimInv
  <2> QED
    BY <2>1, <2>4, <2>5, <2>6 DEF ClaimInv, OwnerNamesGrant
<1>6. ASSUME NEW h \in handles, NEW s \in {"released", "recovery_needed"}, Release(h, s)
      PROVE ClaimInv'
  BY <1>6, ClosingKeeps DEF Release
<1>7. ASSUME NEW h \in handles, BeginContinuation(h) PROVE ClaimInv'
  <2>1. /\ cont'[h.task].resource = h.resource /\ cont'[h.task].fence = h.fence
        /\ \A t \in Task : t # h.task => cont'[t] = cont[t]
        /\ UNCHANGED <<lease, claims, handles, fresh>> /\ h.owner \notin fresh
    BY <1>7 DEF BeginContinuation, IInv, TypeOK, Handle
  <2>2. ASSUME NEW u \in Task, NEW k \in handles, cont'[u].state # "absent",
               cont'[u].resource = k.resource, cont'[u].fence = k.fence
        PROVE k.owner \notin fresh
    <3>1. CASE u = h.task
      BY ZenonT(60), <2>1, <2>2, <3>1 DEF IInv, FenceIdentifiesGrant
    <3>2. CASE u # h.task
      BY <2>1, <2>2, <3>2 DEF ClaimInv
    <3> QED
      BY <3>1, <3>2
  <2> QED
    BY ZenonT(40), <2>1, <2>2 DEF ClaimInv, Current, OwnerNamesGrant
<1>8. ASSUME NEW h \in handles, NEW rev \in 1 .. cont[h.task].revision,
             ClaimTurn(h, rev) \/ RecordContinue(h, rev)
      PROVE ClaimInv'
  <2>1. \A t \in Task : /\ cont'[t].resource = cont[t].resource
                        /\ cont'[t].fence = cont[t].fence
                        /\ cont'[t].state # "absent" => cont[t].state # "absent"
    BY SMT, <1>8 DEF ClaimTurn, RecordContinue, IInv, TypeOK, ContRow, Handle
  <2>2. UNCHANGED <<lease, claims, handles, fresh>>
    BY <1>8 DEF ClaimTurn, RecordContinue
  <2> QED
    BY <2>1, <2>2, ClaimFrame
<1>9. ASSUME NEW h \in handles, NEW rev, NEW s, FinishTurn(h, rev, s)
      PROVE /\ \A t \in Task : /\ cont'[t].resource = cont[t].resource
                               /\ cont'[t].fence = cont[t].fence
                               /\ cont'[t].state # "absent" => cont[t].state # "absent"
            /\ h.owner \notin fresh /\ Holds(h)
  <2>1. \A t \in Task : /\ cont'[t].resource = cont[t].resource
                        /\ cont'[t].fence = cont[t].fence
                        /\ cont'[t].state # "absent" => cont[t].state # "absent"
    BY ZenonT(60), <1>9 DEF FinishTurn, IInv, TypeOK, ContRow, Handle
  <2>2. h.owner \notin fresh
    BY <1>9 DEF FinishTurn, Selects, ClaimInv, IInv, TypeOK, Handle
  <2> QED
    BY <1>9, <2>1, <2>2 DEF FinishTurn, Live
<1>10. ASSUME NEW h \in handles, NEW rev \in 1 .. cont[h.task].revision,
              NEW s \in FinishStates, Finish(h, rev, s)
       PROVE ClaimInv'
  <2>1. FinishTurn(h, rev, s) /\ CloseRow(h, "recovery_needed")
        /\ UNCHANGED <<claims, handles, fresh>>
    BY <1>10 DEF Finish
  <2>2. \A q \in Resource : /\ lease'[q].owner = lease[q].owner
                            /\ lease'[q].fence = lease[q].fence
                            /\ lease'[q].state = lease[q].state \/ lease'[q].state = "recovery_needed"
    BY <2>1 DEF CloseRow, IInv, TypeOK, LeaseRow, Handle
  <2> QED
    BY <1>9, <2>1, <2>2, ClaimFrame
<1>11. ASSUME NEW h \in handles, NEW rev \in 1 .. cont[h.task].revision,
              NEW s \in {"blocked", "terminal"}, FinalizeTerminal(h, rev, s)
       PROVE ClaimInv'
  <2>1. /\ FinishTurn(h, rev, s) /\ CloseRow(h, "released") /\ claims' = DropClaims(h)
        /\ UNCHANGED <<handles, fresh>>
    BY <1>11 DEF FinalizeTerminal
  <2> QED
    BY <1>9, <2>1, ClosingKeeps
<1> QED
  BY <1>1, <1>2, <1>3, <1>4, <1>5, <1>6, <1>7, <1>8, <1>10, <1>11 DEF Next

\* A workspace is claimed by one lease at a time, and by none that was given back,
\* when each finish parks its lease for recovery, as every call of the leased
\* dispatcher's prepared path does (the claims of a finish that released the lease
\* would stay behind).
THEOREM ClaimsStaySound ==
    ASSUME FinishStates \subseteq {"recovery_needed"}
    PROVE  Spec => []ClaimsSound
<1>1. Init => ClaimInv
  BY DEF Init, ClaimInv, OwnerNamesGrant
<1>2. IInv /\ ClaimInv /\ [Next]_vars => ClaimInv'
  BY ClaimStep
<1>3. ClaimInv /\ ActiveClaimsDisjoint => ClaimsSound
  BY DEF ClaimInv, Current, ClaimsSound, ClaimsFollowLease
<1> QED
  BY <1>1, <1>2, <1>3, Invariance, WorkspacesDisjoint, PTL DEF Spec

-----------------------------------------------------------------------------
(* The gateway. *)
AdmRow == [state : {"none", "ready", "enqueued", "running", "terminal"}, rev : Nat, owner : Nat,
           handed : BOOLEAN]
ReplyRow == [phase : {"none", "pending", "send_unknown", "transport_acked", "recovery_needed"},
             attempt : 0 .. 2, rev : Nat, owner : Nat]
Resting == {"idle", "stopped", "lost"}
Admitted == {"ready", "enqueue", "send", "restore"}
Answering == {"reserve", "attempt", "post", "posted", "unposted"}
Working == [pc : {"admit"} \cup Admitted \cup Answering, event : GwEvent, rev : Nat]

\* The columns, and the two shapes of the consumer.
GwTyped ==
    /\ envs \subseteq GwEvent
    /\ reply \in [Accepted -> ReplyRow]
    /\ adm \in [GwTask -> AdmRow]
    /\ queue \subseteq GwTask
    /\ cons \in Working \/ cons \in [pc : Resting]
    /\ room \in [Accepted -> Nat]
    /\ life \in [phase : {"down", "up", "stopping", "held", "refused", "unhanded"}, now : Nat,
                 row : [1 .. GwRuntimes -> {"absent", "active", "stopping", "stopped"}]]

\* Without a process there is neither a channel nor a consumer.
NothingInMemory == ~Alive => queue = {} /\ cons = NoEvent

\* What is in the channel is enqueued and was handed over; what was handed over
\* has a row.
QueuedWasHanded ==
    /\ \A t \in queue : adm[t].state = "enqueued" /\ adm[t].handed
    /\ \A t \in GwTask : adm[t].handed => adm[t].state # "none"

\* The handoff in progress owns its row: nobody has moved it since enqueue_ready.
HandoffOwnsRow ==
    cons.pc \in {"send", "restore"} =>
        /\ cons.event.task \notin queue
        /\ adm[cons.event.task].state = "enqueued" /\ adm[cons.event.task].owner = life.now
        /\ adm[cons.event.task].rev = cons.rev + 1

\* EnqueuedIsInChannel, during a handoff too.
EnqueuedIsKnown ==
    Alive => \A t \in GwTask : adm[t].state = "enqueued" /\ adm[t].owner = life.now =>
        \/ t \in queue
        \/ cons.pc \in {"send", "restore"} /\ cons.event.task = t
        \/ cons.pc = "lost"

\* An envelope id names one envelope.
IdsUnique == \A o, e \in envs : o.id = e.id => o = e

\* The consumer past the admission works on an envelope that is stored, and past
\* the handoff on a task that was handed over.
ConsumerAdmitted ==
    /\ cons.pc \in Admitted \cup Answering =>
         \E o \in envs : o.id = cons.event.id /\ o.task = cons.event.task
    /\ cons.pc \in Answering => adm[cons.event.task].handed

\* What the room shows was sent for an envelope that is stored and handed over.
ShownWasHanded ==
    \A i \in Accepted : room[i] > 0 => \E o \in envs : o.id = i /\ adm[o.task].handed

\* The room shows no more than the attempts, less the one that is about to be made.
AttemptsCount ==
    \A i \in Accepted :
        /\ room[i] <= reply[i].attempt
        /\ cons.pc = "post" /\ cons.event.id = i => room[i] + 1 <= reply[i].attempt
        /\ reply[i].phase = "none" => reply[i].attempt = 0

GatewayInv ==
    /\ GwTyped /\ NothingInMemory /\ QueuedWasHanded /\ HandoffOwnsRow /\ EnqueuedIsKnown
    /\ IdsUnique /\ ConsumerAdmitted /\ ShownWasHanded /\ AttemptsCount

-----------------------------------------------------------------------------
(* Frames.                                                                 *)

\* A consumer at work keeps its event when it moves on.
LEMMA ConsumerMoves ==
    ASSUME cons \in Working, NEW pc \in {"admit"} \cup Admitted \cup Answering, Consumer(pc)
    PROVE  cons' \in Working /\ cons'.pc = pc /\ cons'.event = cons.event /\ cons'.rev = cons.rev
  BY DEF Consumer, Working

\* A consumer past the start of its work has an event of the set.
LEMMA ConsumerWorks ==
    ASSUME GwTyped, cons.pc \notin Resting
    PROVE  /\ cons \in Working /\ cons.event \in GwEvent /\ cons.rev \in Nat
           /\ cons.event.task \in GwTask /\ cons.event.id \in Accepted
<1>1. cons \in Working
  BY DEF GwTyped, Resting
<1> QED
  BY <1>1 DEF Working, GwTask, Accepted

\* One admission row is written.
LEMMA AdmWritten ==
    ASSUME GwTyped, NEW t \in GwTask, NEW row \in AdmRow, adm' = [adm EXCEPT ![t] = row]
    PROVE  adm' \in [GwTask -> AdmRow] /\ adm'[t] = row /\ \A u \in GwTask : u # t => adm'[u] = adm[u]
  BY DEF GwTyped

\* One delivery row is written.
LEMMA ReplyWritten ==
    ASSUME GwTyped, NEW i \in Accepted, NEW row \in ReplyRow, reply' = [reply EXCEPT ![i] = row]
    PROVE  reply' \in [Accepted -> ReplyRow] /\ reply'[i] = row /\ \A j \in Accepted : j # i => reply'[j] = reply[j]
  BY DEF GwTyped

\* No step takes back that a task was handed over.
HandedKept == \A t \in GwTask : adm[t].handed => adm'[t].handed

\* What the room shows stays backed by an envelope and a handed task.
LEMMA ShownFrame ==
    ASSUME GwTyped, ShownWasHanded, room' = room, envs \subseteq envs', HandedKept
    PROVE  ShownWasHanded'
<1> SUFFICES ASSUME NEW i \in Accepted, room[i] > 0 PROVE \E o \in envs' : o.id = i /\ adm'[o.task].handed
  BY DEF ShownWasHanded
<1>1. PICK o \in envs : o.id = i /\ adm[o.task].handed
  BY DEF ShownWasHanded
<1>2. o.task \in GwTask
  BY DEF GwTyped, GwTask
<1> QED
  BY <1>1, <1>2 DEF HandedKept

-----------------------------------------------------------------------------
(* The consumer's steps.                                                   *)

\* GwReceive: a new event, or the end of the sync owner.
LEMMA ReceiveStep ==
    ASSUME GatewayInv, NEW e \in GwEvent, GwReceive(e)
    PROVE  GatewayInv'
<1>0. GwTyped /\ Alive /\ cons.pc = "idle" /\ UNCHANGED <<envs, reply, adm, queue, room, life>>
  BY DEF GatewayInv, GwReceive, Alive
<1>1. cons' = cons \/ cons' = [pc |-> "admit", event |-> e, rev |-> 0] \/ cons' = [pc |-> "stopped"]
  BY DEF GwReceive, SyncStops
<1>2. /\ cons' \in Working \/ cons' \in [pc : Resting]
      /\ cons'.pc \in {"idle", "admit", "stopped"}
  BY SMT, <1>0, <1>1 DEF GwTyped, Working, Resting
<1>3. GwTyped'
  BY <1>0, <1>2 DEF GwTyped
<1>4. NothingInMemory' /\ HandoffOwnsRow'
  BY <1>0, <1>2 DEF NothingInMemory, HandoffOwnsRow, Alive
<1>5. EnqueuedIsKnown'
  BY <1>0, <1>2 DEF GatewayInv, EnqueuedIsKnown, Alive
<1>6. QueuedWasHanded' /\ IdsUnique' /\ ShownWasHanded'
  BY <1>0 DEF GatewayInv, QueuedWasHanded, IdsUnique, ShownWasHanded
<1>7. ConsumerAdmitted' /\ AttemptsCount'
  BY <1>0, <1>2 DEF GatewayInv, ConsumerAdmitted, AttemptsCount, Admitted, Answering
<1> QED
  BY <1>3, <1>4, <1>5, <1>6, <1>7 DEF GatewayInv

\* A step of the consumer that touches neither rows nor channel: it moves on before
\* or after its handoff, ends its event, or stops.
LEMMA ConsumerKeeps ==
    ASSUME GatewayInv, Alive, cons.pc \notin Resting \cup {"send", "restore"},
           UNCHANGED <<envs, adm, queue, life>>,
           reply' \in [Accepted -> ReplyRow], room' \in [Accepted -> Nat],
           \/ cons' = NoEvent \/ SyncStops
           \/ /\ cons' \in Working /\ cons'.event = cons.event
              /\ cons'.pc = "enqueue" => cons.pc \in Admitted
              /\ cons'.pc \in Answering => cons.pc \in Answering
              /\ cons'.pc \in {"enqueue"} \cup Answering,
           ShownWasHanded', AttemptsCount'
    PROVE  GatewayInv'
<1>0. GwTyped
  BY DEF GatewayInv
<1>1. /\ cons' \in Working \/ cons' \in [pc : Resting]
      /\ cons'.pc \in {"idle", "stopped", "enqueue"} \cup Answering
      /\ cons'.pc \in {"enqueue"} \cup Answering => cons'.event = cons.event
      /\ cons'.pc = "enqueue" => cons.pc \in Admitted
      /\ cons'.pc \in Answering => cons.pc \in Answering
  BY SMT DEF NoEvent, SyncStops, Resting, Answering
<1>2. GwTyped'
  BY <1>0, <1>1 DEF GwTyped
<1>3. NothingInMemory' /\ HandoffOwnsRow'
  BY <1>1 DEF NothingInMemory, HandoffOwnsRow, Alive, Answering
<1>4. EnqueuedIsKnown'
  BY <1>1 DEF GatewayInv, EnqueuedIsKnown, Alive, Resting
<1>5. QueuedWasHanded' /\ IdsUnique'
  BY DEF GatewayInv, QueuedWasHanded, IdsUnique
<1>6. ConsumerAdmitted'
  BY <1>1 DEF GatewayInv, ConsumerAdmitted, Admitted, Answering
<1> QED
  BY <1>2, <1>3, <1>4, <1>5, <1>6 DEF GatewayInv

\* When the room and the counts are left alone, so is what they say; a consumer
\* that comes to its "post" has begun a further attempt.
LEMMA CountsKept ==
    ASSUME GatewayInv, room' = room, cons'.pc # "post",
           \A i \in Accepted : /\ reply'[i].attempt = reply[i].attempt
                               /\ reply'[i].phase = "none" => reply[i].phase = "none"
    PROVE  AttemptsCount'
  BY DEF GatewayInv, AttemptsCount

\* ready_revision, reserve_outbound, and a storage error.
LEMMA QuietSteps ==
    ASSUME GatewayInv, ready_revision \/ ReserveAcceptance \/ ConsumerFails
    PROVE  GatewayInv'
<1>0. GwTyped /\ Alive /\ ShownWasHanded /\ UNCHANGED <<envs, adm, queue, room, life>>
  BY DEF GatewayInv, ready_revision, ReserveAcceptance, ConsumerFails
<1>1. room' \in [Accepted -> Nat] /\ reply \in [Accepted -> ReplyRow] /\ HandedKept
  BY <1>0 DEF GwTyped, HandedKept
<1>2. ShownWasHanded'
  BY <1>0, <1>1, ShownFrame
<1>3. CASE ready_revision
  <2>1. cons.pc = "ready" /\ cons \in Working /\ reply' = reply
    BY <1>0, <1>3, ConsumerWorks DEF ready_revision, Resting
  <2>2. \/ cons' = NoEvent
        \/ cons' \in Working /\ cons'.event = cons.event /\ cons'.pc = "enqueue"
    <3>1. cons' = NoEvent \/ cons' = [cons EXCEPT !.pc = "enqueue", !.rev = adm[cons.event.task].rev]
      BY <1>3 DEF ready_revision
    <3>2. adm[cons.event.task].rev \in Nat
      BY <1>0, <2>1, ConsumerWorks DEF GwTyped, AdmRow, Resting
    <3>3. CASE cons' = [cons EXCEPT !.pc = "enqueue", !.rev = adm[cons.event.task].rev]
      <4>1. cons' = [pc |-> "enqueue", event |-> cons.event, rev |-> adm[cons.event.task].rev]
        BY <2>1, <3>3 DEF Working
      <4> QED
        BY <2>1, <3>2, <4>1 DEF Working, Admitted
    <3> QED
      BY <3>1, <3>3
  <2>3. AttemptsCount'
    BY SMT, <1>0, <2>1, <2>2, CountsKept DEF NoEvent
  <2> QED
    BY <1>0, <1>1, <1>2, <2>1, <2>2, <2>3, ConsumerKeeps DEF Resting, Admitted, Answering
<1>4. CASE ReserveAcceptance
  <2>1. /\ cons.pc = "reserve" /\ cons \in Working /\ cons.event.id \in Accepted
        /\ Consumer("attempt")
    BY <1>0, <1>4, ConsumerWorks DEF ReserveAcceptance, Resting
  <2>2. cons' \in Working /\ cons'.event = cons.event /\ cons'.pc = "attempt"
    BY <2>1, ConsumerMoves DEF Answering
  <2>3. PICK row : row = OutboundReserved(reply[cons.event.id])
    OBVIOUS
  <2>4. /\ row \in ReplyRow /\ row.attempt = reply[cons.event.id].attempt /\ row.phase # "none"
    BY <1>0, <1>1, <2>1, <2>3 DEF OutboundReserved, ReplyRow, GatewayInv, AttemptsCount, GwTyped
  <2>5. reply' = [reply EXCEPT ![cons.event.id] = row]
    BY <1>4, <2>3 DEF ReserveAcceptance
  <2>6. /\ reply' \in [Accepted -> ReplyRow] /\ reply'[cons.event.id] = row
        /\ \A j \in Accepted : j # cons.event.id => reply'[j] = reply[j]
    BY <1>0, <2>1, <2>4, <2>5, ReplyWritten
  <2>7. \A i \in Accepted : /\ reply'[i].attempt = reply[i].attempt
                            /\ reply'[i].phase = "none" => reply[i].phase = "none"
    BY <2>4, <2>6
  <2>8. AttemptsCount'
    BY <1>0, <2>2, <2>7, CountsKept
  <2> QED
    BY <1>0, <1>1, <1>2, <2>1, <2>2, <2>6, <2>8, ConsumerKeeps DEF Resting, Answering
<1>5. CASE ConsumerFails
  <2>1. cons.pc \notin {"idle", "stopped", "lost", "send", "post", "restore"} /\ SyncStops /\ reply' = reply
    BY <1>5 DEF ConsumerFails
  <2>2. AttemptsCount'
    BY <1>0, <2>1, CountsKept DEF SyncStops
  <2> QED
    BY <1>0, <1>1, <1>2, <2>1, <2>2, ConsumerKeeps DEF Resting
<1> QED
  BY <1>3, <1>4, <1>5

\* The attempt is counted before the event is posted.
LEMMA BeginAttemptStep ==
    ASSUME GatewayInv, BeginAttempt
    PROVE  GatewayInv'
<1>0. /\ GwTyped /\ Alive /\ ShownWasHanded /\ cons.pc = "attempt"
      /\ UNCHANGED <<envs, adm, queue, room, life>>
  BY DEF GatewayInv, BeginAttempt
<1>1. room' \in [Accepted -> Nat] /\ reply \in [Accepted -> ReplyRow] /\ HandedKept
  BY <1>0 DEF GwTyped, HandedKept
<1>2. cons \in Working /\ cons.event.id \in Accepted
  BY <1>0, ConsumerWorks DEF Resting
<1>3. ShownWasHanded'
  BY <1>0, <1>1, ShownFrame
<1>4. CASE reply' = reply /\ (SyncStops \/ cons' = NoEvent)
  <2>1. AttemptsCount'
    BY SMT, <1>0, <1>4, CountsKept DEF SyncStops, NoEvent
  <2> QED
    BY <1>0, <1>1, <1>3, <1>4, <2>1, ConsumerKeeps DEF Resting
<1>5. CASE /\ reply[cons.event.id].phase \in {"pending", "send_unknown"}
           /\ reply[cons.event.id].attempt \in {0, 1}
           /\ reply' = [reply EXCEPT ![cons.event.id] = begin_outbound_attempt(reply[cons.event.id])]
           /\ Consumer("post")
  <2>1. cons' \in Working /\ cons'.event = cons.event /\ cons'.pc = "post"
    BY <1>2, <1>5, ConsumerMoves DEF Answering
  <2>2. PICK old : old = reply[cons.event.id]
    OBVIOUS
  <2>3. PICK row : row = begin_outbound_attempt(old)
    OBVIOUS
  <2>4. old \in ReplyRow
    BY <1>1, <1>2, <2>2
  <2>5. row = [phase |-> old.phase, attempt |-> old.attempt + 1, rev |-> old.rev + 1, owner |-> old.owner]
    BY <2>3, <2>4 DEF begin_outbound_attempt, ReplyRow
  <2>6. row \in ReplyRow /\ row.attempt = old.attempt + 1 /\ row.phase # "none"
    BY SMT, <1>5, <2>2, <2>4, <2>5 DEF ReplyRow
  <2>7. /\ reply' \in [Accepted -> ReplyRow] /\ reply'[cons.event.id] = row
        /\ \A j \in Accepted : j # cons.event.id => reply'[j] = reply[j]
    BY <1>0, <1>2, <1>5, <2>2, <2>3, <2>6, ReplyWritten
  <2>8. AttemptsCount'
    <3> SUFFICES ASSUME NEW i \in Accepted
                  PROVE  /\ room[i] <= reply'[i].attempt
                         /\ cons.event.id = i => room[i] + 1 <= reply'[i].attempt
                         /\ reply'[i].phase = "none" => reply'[i].attempt = 0
      BY <1>0, <2>1 DEF AttemptsCount
    <3>1. room[i] <= reply[i].attempt /\ room[i] \in Nat /\ reply[i].attempt \in Nat
          /\ (reply[i].phase = "none" => reply[i].attempt = 0)
      BY SMTT(30), <1>0, <1>1 DEF GatewayInv, AttemptsCount, ReplyRow, GwTyped
    <3>2. CASE i = cons.event.id
      BY SMT, <2>2, <2>6, <2>7, <3>1, <3>2
    <3>3. CASE i # cons.event.id
      BY <2>7, <3>1, <3>3
    <3> QED
      BY <3>2, <3>3
  <2> QED
    BY <1>0, <1>1, <1>3, <2>1, <2>7, <2>8, ConsumerKeeps DEF Resting, Answering
<1> QED
  BY <1>4, <1>5 DEF BeginAttempt

\* The homeserver takes the event at most once for each attempt that was counted.
LEMMA PostStep ==
    ASSUME GatewayInv, PostAcceptance
    PROVE  GatewayInv'
<1>0. /\ GwTyped /\ Alive /\ ConsumerAdmitted /\ ShownWasHanded /\ AttemptsCount /\ cons.pc = "post"
      /\ UNCHANGED <<envs, reply, adm, queue, life>>
  BY DEF GatewayInv, PostAcceptance
<1>1. reply' \in [Accepted -> ReplyRow] /\ room \in [Accepted -> Nat]
  BY <1>0 DEF GwTyped
<1>2. cons \in Working /\ cons.event.id \in Accepted /\ cons.event.task \in GwTask
  BY <1>0, ConsumerWorks DEF Resting
<1>3. \E n \in {0, 1} : room' = [room EXCEPT ![cons.event.id] = @ + n]
  BY DEF PostAcceptance
<1>4. PICK n \in {0, 1} : room' = [room EXCEPT ![cons.event.id] = @ + n]
  BY <1>3
<1>5. Consumer("posted") \/ Consumer("unposted")
  BY DEF PostAcceptance
<1>6. cons' \in Working /\ cons'.event = cons.event /\ cons'.pc \in {"posted", "unposted"}
  BY <1>2, <1>5, ConsumerMoves DEF Answering
<1>7. /\ room' \in [Accepted -> Nat] /\ room'[cons.event.id] = room[cons.event.id] + n
      /\ \A i \in Accepted : i # cons.event.id => room'[i] = room[i]
  BY SMT, <1>1, <1>2, <1>4
<1>8. ShownWasHanded'
  <2> SUFFICES ASSUME NEW i \in Accepted, room'[i] > 0
                PROVE  \E o \in envs : o.id = i /\ adm[o.task].handed
    BY <1>0 DEF ShownWasHanded
  <2>1. CASE i = cons.event.id
    BY <1>0, <2>1 DEF ConsumerAdmitted, Admitted, Answering
  <2>2. CASE i # cons.event.id
    BY <1>0, <1>7, <2>2 DEF ShownWasHanded
  <2> QED
    BY <2>1, <2>2
<1>9. AttemptsCount'
  <2> SUFFICES ASSUME NEW i \in Accepted
                PROVE  room'[i] <= reply[i].attempt /\ (reply[i].phase = "none" => reply[i].attempt = 0)
    BY <1>0, <1>6 DEF AttemptsCount
  <2>1. /\ room[i] <= reply[i].attempt /\ room[i] \in Nat /\ reply[i].attempt \in Nat
        /\ (reply[i].phase = "none" => reply[i].attempt = 0)
        /\ (cons.event.id = i => room[i] + 1 <= reply[i].attempt)
    BY SMT, <1>0, <1>1 DEF AttemptsCount, ReplyRow
  <2>2. room'[i] = room[i] \/ (i = cons.event.id /\ room'[i] = room[i] + 1)
    BY SMT, <1>1, <1>7
  <2> QED
    BY <2>1, <2>2
<1> QED
  BY <1>0, <1>1, <1>6, <1>7, <1>8, <1>9, ConsumerKeeps DEF Resting, Answering

\* finish_outbound writes the phase, never the count.
LEMMA FinishSteps ==
    ASSUME GatewayInv, FinishPosted \/ FinishUnposted
    PROVE  GatewayInv'
<1>0. /\ GwTyped /\ Alive /\ ShownWasHanded /\ cons.pc \in {"posted", "unposted"}
      /\ UNCHANGED <<envs, adm, queue, room, life>>
  BY DEF GatewayInv, FinishPosted, FinishUnposted
<1>1. room' \in [Accepted -> Nat] /\ reply \in [Accepted -> ReplyRow] /\ HandedKept
  BY <1>0 DEF GwTyped, HandedKept
<1>2. cons \in Working /\ cons.event.id \in Accepted
  BY <1>0, ConsumerWorks DEF Resting
<1>3. ShownWasHanded'
  BY <1>0, <1>1, ShownFrame
<1>4. PICK old : old = reply[cons.event.id]
  OBVIOUS
<1>5. PICK phase \in {"transport_acked", "send_unknown", "recovery_needed"} :
        reply' = [reply EXCEPT ![cons.event.id] = finish_outbound(old, phase)]
  BY <1>1, <1>4 DEF FinishPosted, FinishUnposted, AfterFailure
<1>6. PICK row : row = finish_outbound(old, phase)
  OBVIOUS
<1>7. row = [phase |-> phase, attempt |-> old.attempt, rev |-> old.rev + 1, owner |-> old.owner]
  BY ZenonT(60), <1>1, <1>2, <1>4, <1>6 DEF finish_outbound, ReplyRow
<1>8. row \in ReplyRow /\ row.attempt = old.attempt /\ row.phase # "none"
  BY SMT, <1>1, <1>2, <1>4, <1>7 DEF ReplyRow
<1>9. /\ reply' \in [Accepted -> ReplyRow] /\ reply'[cons.event.id] = row
      /\ \A j \in Accepted : j # cons.event.id => reply'[j] = reply[j]
  BY <1>0, <1>2, <1>5, <1>6, <1>8, ReplyWritten
<1>10. \/ cons' = NoEvent
       \/ cons' \in Working /\ cons'.event = cons.event /\ cons'.pc = "attempt"
  <2>1. cons' = NoEvent \/ Consumer("attempt")
    BY DEF FinishPosted, FinishUnposted
  <2> QED
    BY <1>2, <2>1, ConsumerMoves DEF Answering
<1>11. AttemptsCount'
  <2>1. \A i \in Accepted : /\ reply'[i].attempt = reply[i].attempt
                            /\ reply'[i].phase = "none" => reply[i].phase = "none"
    BY <1>4, <1>8, <1>9
  <2> QED
    BY SMT, <1>0, <1>10, <2>1, CountsKept DEF NoEvent
<1> QED
  BY <1>0, <1>1, <1>3, <1>9, <1>10, <1>11, ConsumerKeeps DEF Resting, Answering

-----------------------------------------------------------------------------
(* Admission and handoff.                                                  *)

\* A request is stored under an id that no envelope has, with a row of its own; a
\* replay names the envelope that is stored.
LEMMA AdmitStep ==
    ASSUME GatewayInv, admit_task_ready
    PROVE  GatewayInv'
<1> USE DEF Resting, Admitted, Answering
<1>0. /\ GwTyped /\ Alive /\ cons.pc = "admit" /\ UNCHANGED <<reply, queue, room, life>>
      /\ QueuedWasHanded /\ EnqueuedIsKnown /\ IdsUnique /\ ShownWasHanded /\ AttemptsCount
  BY DEF GatewayInv, admit_task_ready
<1>1. PICK e : e = cons.event
  OBVIOUS
<1>2. cons \in Working /\ e \in GwEvent /\ e.task \in GwTask /\ e.id \in Accepted
  BY <1>0, <1>1, ConsumerWorks
<1>3. CASE SyncStops /\ UNCHANGED <<envs, adm>>
  <2>1. AttemptsCount'
    BY <1>0, <1>3, CountsKept DEF SyncStops
  <2>2. ShownWasHanded'
    BY <1>0, <1>3, ShownFrame DEF HandedKept
  <2> QED
    BY <1>0, <1>3, <2>1, <2>2, ConsumerKeeps DEF GwTyped
<1>4. ASSUME Consumer("ready"), IdsUnique', envs \subseteq envs', envs' \subseteq GwEvent,
             \E o \in envs' : o.id = e.id /\ o.task = e.task,
             adm' \in [GwTask -> AdmRow],
             \A t \in GwTask : adm'[t] = adm[t] \/ (adm[t].state = "none" /\ adm'[t].state = "ready")
      PROVE  GatewayInv'
  <2>1. cons' \in Working /\ cons'.event = e /\ cons'.pc = "ready"
    BY <1>1, <1>2, <1>4, ConsumerMoves
  <2>2. HandedKept
    BY <1>0, <1>4 DEF HandedKept, QueuedWasHanded
  <2>3. GwTyped' /\ NothingInMemory' /\ HandoffOwnsRow'
    BY <1>0, <1>4, <2>1 DEF GwTyped, NothingInMemory, HandoffOwnsRow, Alive
  <2>4. QueuedWasHanded'
    <3>1. queue' = queue /\ queue \subseteq GwTask
      BY <1>0 DEF GwTyped
    <3>2. \A t \in GwTask : adm[t].handed => adm'[t] = adm[t]
      BY <1>0, <1>4 DEF QueuedWasHanded
    <3>3. \A t \in GwTask : adm'[t].handed => adm'[t].state # "none"
      BY <1>0, <1>4 DEF QueuedWasHanded
    <3> QED
      BY <1>0, <3>1, <3>2, <3>3 DEF QueuedWasHanded
  <2>5. EnqueuedIsKnown'
    BY <1>0, <1>4, <2>1 DEF EnqueuedIsKnown, Alive
  <2>6. ConsumerAdmitted'
    BY <1>4, <2>1 DEF ConsumerAdmitted
  <2>7. ShownWasHanded'
    BY <1>0, <1>4, <2>2, ShownFrame
  <2>8. AttemptsCount'
    BY <1>0, <2>1, CountsKept
  <2> QED
    BY <1>4, <2>3, <2>4, <2>5, <2>6, <2>7, <2>8 DEF GatewayInv
<1>5. CASE /\ Existing(e) # {} /\ \A o \in Existing(e) : o.task = e.task
           /\ \E o \in Existing(e) : o.id = e.id
           /\ Consumer("ready") /\ UNCHANGED <<envs, adm>>
  <2>1. \E o \in envs : o.id = e.id /\ o.task = e.task
    BY <1>5 DEF Existing
  <2> QED
    BY <1>0, <1>4, <1>5, <2>1 DEF GwTyped, IdsUnique
<1>6. CASE /\ adm[e.task].state = "none" /\ \A o \in envs : o.id # e.id
           /\ envs' = envs \cup {e}
           /\ adm' = [adm EXCEPT ![e.task] = [state |-> "ready", rev |-> 0, owner |-> life.now,
                                              handed |-> FALSE]]
           /\ Consumer("ready")
  <2>1. PICK row : row = [state |-> "ready", rev |-> 0, owner |-> life.now, handed |-> FALSE]
    OBVIOUS
  <2>2. row \in AdmRow /\ row.state = "ready"
    BY <1>0, <2>1 DEF AdmRow, GwTyped
  <2>3. adm' \in [GwTask -> AdmRow] /\ adm'[e.task] = row /\ \A u \in GwTask : u # e.task => adm'[u] = adm[u]
    BY <1>0, <1>2, <1>6, <2>1, <2>2, AdmWritten
  <2>4. IdsUnique' /\ envs' \subseteq GwEvent
    BY <1>0, <1>2, <1>6 DEF IdsUnique, GwTyped
  <2> QED
    BY <1>4, <1>6, <2>2, <2>3, <2>4
<1> QED
  BY <1>1, <1>3, <1>5, <1>6 DEF admit_task_ready, SiblingsWhole

\* One row is written, nobody's handoff is taken back, and no envelope changes: what
\* is left to show is who holds the row.
LEMMA RowWritten ==
    ASSUME GatewayInv, Alive, UNCHANGED <<envs, reply, room, life>>, queue' \subseteq GwTask,
           cons' \in Working \/ cons' \in [pc : Resting], cons'.pc \notin {"admit", "post"},
           cons'.pc \in Admitted \cup Answering => cons.pc \in Admitted \cup Answering /\ cons'.event = cons.event,
           cons'.pc \in Answering => adm'[cons'.event.task].handed,
           NEW t \in GwTask, NEW row \in AdmRow, adm' = [adm EXCEPT ![t] = row],
           adm[t].handed => row.handed, row.state # "none",
           QueuedWasHanded', HandoffOwnsRow', EnqueuedIsKnown'
    PROVE  GatewayInv'
<1>0. GwTyped /\ ShownWasHanded /\ IdsUnique /\ ConsumerAdmitted
  BY DEF GatewayInv
<1>1. adm' \in [GwTask -> AdmRow] /\ adm'[t] = row /\ \A u \in GwTask : u # t => adm'[u] = adm[u]
  BY <1>0, AdmWritten
<1>2. HandedKept
  BY <1>1 DEF HandedKept
<1>3. ShownWasHanded'
  BY <1>0, <1>2, ShownFrame
<1>4. GwTyped'
  BY <1>0, <1>1 DEF GwTyped
<1>5. AttemptsCount'
  BY CountsKept
<1>6. NothingInMemory' /\ IdsUnique'
  BY <1>0 DEF NothingInMemory, IdsUnique, Alive
<1>7. ConsumerAdmitted'
  BY <1>0 DEF ConsumerAdmitted
<1> QED
  BY <1>3, <1>4, <1>5, <1>6, <1>7 DEF GatewayInv

\* enqueue_ready takes a row that is ready, so that the task is not in the channel.
LEMMA EnqueueStep ==
    ASSUME GatewayInv, HandoffEnqueue
    PROVE  GatewayInv'
<1> USE DEF Resting, Admitted, Answering
<1>0. /\ GwTyped /\ Alive /\ cons.pc = "enqueue" /\ UNCHANGED <<envs, reply, queue, room, life>>
      /\ QueuedWasHanded /\ EnqueuedIsKnown /\ ShownWasHanded
  BY DEF GatewayInv, HandoffEnqueue
<1>1. PICK t : t = cons.event.task
  OBVIOUS
<1>2. cons \in Working /\ t \in GwTask /\ cons.rev \in Nat
  BY <1>0, <1>1, ConsumerWorks
<1>3. CASE SyncStops /\ UNCHANGED adm
  <2>1. AttemptsCount'
    BY <1>0, <1>3, CountsKept DEF SyncStops
  <2>2. ShownWasHanded'
    BY <1>0, <1>3, ShownFrame DEF HandedKept
  <2> QED
    BY <1>0, <1>3, <2>1, <2>2, ConsumerKeeps DEF GwTyped
<1>4. CASE /\ Enqueues(adm[t], life.now, cons.rev)
           /\ adm' = [adm EXCEPT ![t] = enqueue_ready(@)] /\ Consumer("send")
  <2>1. cons' \in Working /\ cons'.event = cons.event /\ cons'.pc = "send" /\ cons'.rev = cons.rev
    BY <1>2, <1>4, ConsumerMoves
  <2>2. adm[t] \in AdmRow
    BY <1>0, <1>2 DEF GwTyped
  <2>3. PICK row : row = enqueue_ready(adm[t])
    OBVIOUS
  <2>4. row = [state |-> "enqueued", rev |-> adm[t].rev + 1, owner |-> adm[t].owner, handed |-> adm[t].handed]
    BY <2>2, <2>3 DEF enqueue_ready, AdmRow
  <2>5. row \in AdmRow
    BY SMT, <2>2, <2>4 DEF AdmRow
  <2>6. adm' = [adm EXCEPT ![t] = row]
    BY <1>4, <2>3
  <2>7. adm' \in [GwTask -> AdmRow] /\ adm'[t] = row /\ \A u \in GwTask : u # t => adm'[u] = adm[u]
    BY <1>0, <1>2, <2>5, <2>6, AdmWritten
  <2>8. t \notin queue
    BY <1>0, <1>4 DEF QueuedWasHanded, Enqueues
  <2>9. QueuedWasHanded'
    <3>1. queue' = queue /\ \A u \in queue : u \in GwTask /\ u # t
      BY <1>0, <2>8 DEF GwTyped
    <3>2. adm'[t].state = "enqueued"
      BY SMT, <2>4, <2>7
    <3> QED
      BY <1>0, <2>7, <3>1, <3>2 DEF QueuedWasHanded
  <2>10. HandoffOwnsRow'
    BY SMT, <1>0, <1>1, <1>4, <2>1, <2>4, <2>7, <2>8 DEF HandoffOwnsRow, Enqueues
  <2>11. EnqueuedIsKnown'
    BY <1>0, <1>1, <2>1, <2>7 DEF EnqueuedIsKnown, Alive
  <2>12. row.state # "none" /\ (adm[t].handed => row.handed)
    BY <2>4
  <2> QED
    BY <1>0, <1>2, <2>1, <2>5, <2>6, <2>9, <2>10, <2>11, <2>12, RowWritten DEF GwTyped
<1> QED
  BY <1>1, <1>3, <1>4 DEF HandoffEnqueue

\* try_send: the task is in the channel, or the consumer knows that it is not.
LEMMA SendStep ==
    ASSUME GatewayInv, HandoffSend
    PROVE  GatewayInv'
<1> USE DEF Resting, Admitted, Answering
<1>0. /\ GwTyped /\ Alive /\ cons.pc = "send" /\ UNCHANGED <<envs, reply, room, life>>
      /\ QueuedWasHanded /\ HandoffOwnsRow /\ EnqueuedIsKnown /\ ShownWasHanded
  BY DEF GatewayInv, HandoffSend
<1>1. PICK t : t = cons.event.task
  OBVIOUS
<1>2. cons \in Working /\ t \in GwTask /\ adm[t] \in AdmRow
  BY <1>0, <1>1, ConsumerWorks DEF GwTyped
<1>3. CASE Consumer("restore") /\ UNCHANGED <<queue, adm>>
  <2>1. cons' \in Working /\ cons'.event = cons.event /\ cons'.pc = "restore" /\ cons'.rev = cons.rev
    BY <1>2, <1>3, ConsumerMoves
  <2>2. adm' = [adm EXCEPT ![t] = adm[t]]
    BY <1>0, <1>2, <1>3 DEF GwTyped
  <2>3. QueuedWasHanded' /\ EnqueuedIsKnown'
    BY <1>0, <1>3, <2>1 DEF QueuedWasHanded, EnqueuedIsKnown, Alive
  <2>4. HandoffOwnsRow' /\ adm[t].state # "none"
    BY <1>0, <1>1, <1>3, <2>1 DEF HandoffOwnsRow
  <2> QED
    BY <1>0, <1>2, <1>3, <2>1, <2>2, <2>3, <2>4, RowWritten DEF GwTyped
<1>4. CASE queue' = queue \cup {t} /\ adm' = [adm EXCEPT ![t].handed = TRUE] /\ Consumer("reserve")
  <2>1. cons' \in Working /\ cons'.event = cons.event /\ cons'.pc = "reserve"
    BY <1>2, <1>4, ConsumerMoves
  <2>2. PICK row : row = [adm[t] EXCEPT !.handed = TRUE]
    OBVIOUS
  <2>3. row \in AdmRow /\ row.handed /\ row.state = "enqueued"
    <3>1. row = [state |-> adm[t].state, rev |-> adm[t].rev, owner |-> adm[t].owner, handed |-> TRUE]
      BY <1>2, <2>2 DEF AdmRow
    <3> QED
      BY <1>0, <1>1, <1>2, <3>1 DEF AdmRow, HandoffOwnsRow
  <2>5. adm' = [adm EXCEPT ![t] = row]
    BY <1>4, <2>2
  <2>6. adm' \in [GwTask -> AdmRow] /\ adm'[t] = row /\ \A u \in GwTask : u # t => adm'[u] = adm[u]
    BY <1>0, <1>2, <2>3, <2>5, AdmWritten
  <2>7. QueuedWasHanded'
    BY <1>0, <1>4, <2>3, <2>6 DEF QueuedWasHanded, GwTyped
  <2>8. HandoffOwnsRow' /\ EnqueuedIsKnown'
    BY <1>0, <1>1, <1>4, <2>1, <2>6 DEF HandoffOwnsRow, EnqueuedIsKnown, Alive
  <2>9. queue' \subseteq GwTask /\ adm'[cons'.event.task].handed
    BY <1>0, <1>1, <1>2, <1>4, <2>1, <2>3, <2>6 DEF GwTyped
  <2> QED
    BY <1>0, <1>2, <2>1, <2>3, <2>5, <2>7, <2>8, <2>9, RowWritten
<1> QED
  BY <1>1, <1>3, <1>4 DEF HandoffSend

\* restore_ready finds the row it left, because nobody moves a row between the
\* handoff's two writes.
LEMMA RestoreStep ==
    ASSUME GatewayInv, HandoffRestore
    PROVE  GatewayInv'
<1> USE DEF Resting, Admitted, Answering
<1>0. /\ GwTyped /\ Alive /\ cons.pc = "restore" /\ UNCHANGED <<envs, reply, queue, room, life>>
      /\ QueuedWasHanded /\ HandoffOwnsRow /\ EnqueuedIsKnown /\ ShownWasHanded
  BY DEF GatewayInv, HandoffRestore
<1>1. PICK t : t = cons.event.task
  OBVIOUS
<1>2. cons \in Working /\ t \in GwTask /\ adm[t] \in AdmRow
  BY <1>0, <1>1, ConsumerWorks DEF GwTyped
<1>3. CASE cons' = [pc |-> "lost"] /\ UNCHANGED adm
  <2>1. cons' \in [pc : Resting] /\ cons'.pc = "lost"
    BY <1>3
  <2>2. adm' = [adm EXCEPT ![t] = adm[t]]
    BY <1>0, <1>2, <1>3 DEF GwTyped
  <2>3. QueuedWasHanded' /\ EnqueuedIsKnown' /\ HandoffOwnsRow'
    BY <1>0, <1>3, <2>1 DEF QueuedWasHanded, EnqueuedIsKnown, HandoffOwnsRow
  <2>4. adm[t].state # "none"
    BY <1>0, <1>1 DEF HandoffOwnsRow
  <2> QED
    BY <1>0, <1>2, <2>1, <2>2, <2>3, <2>4, RowWritten DEF GwTyped
<1>4. CASE adm' = [adm EXCEPT ![t] = Restored(@, cons.rev)] /\ SyncStops
  <2>1. cons' \in [pc : Resting] /\ cons'.pc = "stopped"
    BY <1>4 DEF SyncStops
  <2>2. adm[t].state = "enqueued" /\ adm[t].owner = life.now /\ adm[t].rev = cons.rev + 1 /\ t \notin queue
    BY <1>0, <1>1 DEF HandoffOwnsRow
  <2>3. PICK row : row = [adm[t] EXCEPT !.state = "ready", !.rev = @ + 1]
    OBVIOUS
  <2>4. Restored(adm[t], cons.rev) = row
    BY <2>2, <2>3 DEF Restored
  <2>10. row = [state |-> "ready", rev |-> adm[t].rev + 1, owner |-> adm[t].owner, handed |-> adm[t].handed]
    BY <1>2, <2>3 DEF AdmRow
  <2>5. row \in AdmRow /\ row.state = "ready" /\ row.handed = adm[t].handed
    BY SMT, <1>2, <2>10 DEF AdmRow
  <2>6. adm' = [adm EXCEPT ![t] = row]
    BY <1>4, <2>4
  <2>7. adm' \in [GwTask -> AdmRow] /\ adm'[t] = row /\ \A u \in GwTask : u # t => adm'[u] = adm[u]
    BY <1>0, <1>2, <2>5, <2>6, AdmWritten
  <2>8. QueuedWasHanded' /\ HandoffOwnsRow'
    BY SMT, <1>0, <2>1, <2>2, <2>5, <2>7 DEF QueuedWasHanded, HandoffOwnsRow, GwTyped
  <2>9. EnqueuedIsKnown'
    BY <1>0, <1>1, <2>1, <2>5, <2>7 DEF EnqueuedIsKnown, Alive
  <2> QED
    BY <1>0, <1>2, <2>1, <2>5, <2>6, <2>8, <2>9, RowWritten DEF GwTyped
<1> QED
  BY <1>1, <1>3, <1>4 DEF HandoffRestore

-----------------------------------------------------------------------------
(* The worker and the runtimes.                                            *)

\* The worker moves on a row whose task it has, and no handoff waits for that row.
LEMMA WorkerSteps ==
    ASSUME GatewayInv, NEW t \in GwTask, WorkerTakes(t) \/ WorkerEnds(t)
    PROVE  GatewayInv'
<1> USE DEF Resting, Admitted, Answering
<1>0. /\ GwTyped /\ Alive /\ UNCHANGED <<envs, reply, room, life, cons>>
      /\ QueuedWasHanded /\ HandoffOwnsRow /\ EnqueuedIsKnown /\ ShownWasHanded /\ IdsUnique
      /\ ConsumerAdmitted /\ AttemptsCount /\ adm[t] \in AdmRow
  BY DEF GatewayInv, WorkerTakes, WorkerEnds, GwTyped
<1>1. PICK new \in {"running", "terminal"} :
        adm' = [adm EXCEPT ![t].state = new, ![t].rev = @ + 1]
  BY DEF WorkerTakes, WorkerEnds
<1>2. \/ t \in queue /\ queue' = queue \ {t}
      \/ adm[t].state = "running" /\ queue' = queue
  BY DEF WorkerTakes, WorkerEnds
<1>3. t \notin queue' /\ queue' = queue \ {t} /\ adm[t].state # "none"
  BY <1>0, <1>2 DEF QueuedWasHanded
<1>4. PICK row : row = [adm[t] EXCEPT !.state = new, !.rev = @ + 1]
  OBVIOUS
<1>5. row = [state |-> new, rev |-> adm[t].rev + 1, owner |-> adm[t].owner, handed |-> adm[t].handed]
  BY <1>0, <1>4 DEF AdmRow
<1>6. row \in AdmRow /\ row.state \in {"running", "terminal"} /\ row.handed = adm[t].handed
  BY SMT, <1>0, <1>5 DEF AdmRow
<1>7. adm' = [adm EXCEPT ![t] = row]
  BY <1>0, <1>1, <1>4 DEF GwTyped
<1>8. adm' \in [GwTask -> AdmRow] /\ adm'[t] = row /\ \A u \in GwTask : u # t => adm'[u] = adm[u]
  BY <1>0, <1>6, <1>7, AdmWritten
<1>9. \A u \in GwTask : adm'[u].handed = adm[u].handed
  BY <1>6, <1>8
<1>10. QueuedWasHanded'
  <2>1. \A u \in queue' : u \in queue /\ u \in GwTask /\ u # t
    BY <1>0, <1>3 DEF GwTyped
  <2>2. \A u \in queue' : adm'[u].state = "enqueued" /\ adm'[u].handed
    BY <1>0, <1>8, <2>1 DEF QueuedWasHanded
  <2>3. ASSUME NEW u \in GwTask, adm'[u].handed PROVE adm'[u].state # "none"
    <3>1. CASE u = t
      BY <1>6, <1>8, <3>1
    <3>2. CASE u # t
      BY <1>0, <1>8, <2>3, <3>2 DEF QueuedWasHanded
    <3> QED BY <3>1, <3>2
  <2> QED BY <2>2, <2>3 DEF QueuedWasHanded
<1>11. HandoffOwnsRow'
  <2> SUFFICES ASSUME cons.pc \in {"send", "restore"} PROVE HandoffOwnsRow'
    BY <1>0 DEF HandoffOwnsRow
  <2>1. PICK u \in GwTask : u = cons.event.task
    BY <1>0, ConsumerWorks
  <2>2. u # t
    BY <1>0, <1>2, <2>1 DEF HandoffOwnsRow
  <2> QED
    BY <1>0, <1>3, <1>8, <2>1, <2>2 DEF HandoffOwnsRow
<1>12. EnqueuedIsKnown'
  BY <1>0, <1>3, <1>6, <1>8 DEF EnqueuedIsKnown, Alive
<1>13. ConsumerAdmitted'
  <2>1. cons.pc \in Answering => cons.event.task \in GwTask
    BY <1>0, ConsumerWorks
  <2> QED
    BY <1>0, <1>9, <2>1 DEF ConsumerAdmitted
<1>14. ShownWasHanded'
  BY <1>0, <1>9, ShownFrame DEF HandedKept
<1>15. GwTyped' /\ NothingInMemory'
  BY <1>0, <1>3, <1>8 DEF GwTyped, NothingInMemory, Alive
<1>16. IdsUnique' /\ AttemptsCount'
  BY <1>0 DEF IdsUnique, AttemptsCount
<1> QED
  BY <1>10, <1>11, <1>12, <1>13, <1>14, <1>15, <1>16 DEF GatewayInv

\* A step that changes none of these variables.
LEMMA NothingMoves ==
    ASSUME GatewayInv, UNCHANGED <<envs, reply, adm, queue, cons, room, life>>
    PROVE  GatewayInv'
<1>1. GwTyped' /\ NothingInMemory' /\ QueuedWasHanded'
  BY DEF GatewayInv, GwTyped, NothingInMemory, QueuedWasHanded, Alive
<1>2. HandoffOwnsRow' /\ EnqueuedIsKnown'
  BY DEF GatewayInv, HandoffOwnsRow, EnqueuedIsKnown, Alive
<1>3. IdsUnique' /\ ConsumerAdmitted' /\ ShownWasHanded' /\ AttemptsCount'
  BY DEF GatewayInv, IdsUnique, ConsumerAdmitted, ShownWasHanded, AttemptsCount
<1> QED
  BY <1>1, <1>2, <1>3 DEF GatewayInv

\* The cleanup finds nothing: no envelope leaves the state it was received in.
LEMMA SweepStep ==
    ASSUME GatewayInv, GwSweep
    PROVE  GatewayInv'
<1>1. Expired = {}
  BY DEF Expired, EnvelopeState
<1>2. UNCHANGED <<envs, reply, adm, queue, cons, room, life>>
  BY <1>1 DEF GwSweep
<1> QED
  BY <1>2, NothingMoves

\* A process that comes or goes, or is told to stop, and leaves the rows alone.
LEMMA LifeMoves ==
    ASSUME GatewayInv, UNCHANGED <<envs, reply, adm, room>>,
           life' \in [phase : {"down", "up", "stopping", "held", "refused", "unhanded"}, now : Nat,
                      row : [1 .. GwRuntimes -> {"absent", "active", "stopping", "stopped"}]],
           \/ ~Alive' /\ queue' = {} /\ cons' = NoEvent
           \/ Alive /\ Alive' /\ life'.now = life.now /\ UNCHANGED <<queue, cons>>
    PROVE  GatewayInv'
<1>0. /\ GwTyped /\ NothingInMemory /\ QueuedWasHanded /\ HandoffOwnsRow /\ EnqueuedIsKnown
      /\ IdsUnique /\ ConsumerAdmitted /\ ShownWasHanded /\ AttemptsCount
  BY DEF GatewayInv
<1>1. GwTyped'
  BY SMT, <1>0 DEF GwTyped, NoEvent, Resting
<1>2. NothingInMemory' /\ QueuedWasHanded' /\ HandoffOwnsRow'
  BY SMT, <1>0 DEF NothingInMemory, QueuedWasHanded, HandoffOwnsRow, NoEvent
<1>3. EnqueuedIsKnown'
  BY <1>0 DEF EnqueuedIsKnown
<1>4. IdsUnique' /\ ConsumerAdmitted' /\ ShownWasHanded' /\ AttemptsCount'
  BY SMT, <1>0 DEF IdsUnique, ConsumerAdmitted, ShownWasHanded, AttemptsCount, NoEvent, Admitted, Answering
<1> QED
  BY <1>0, <1>1, <1>2, <1>3, <1>4 DEF GatewayInv

\* Stops, crashes, and starts that fail.
LEMMA LifeSteps ==
    ASSUME GatewayInv, GwStartOver \/ GwStop \/ GwStopped \/ GwCrash
    PROVE  GatewayInv'
<1>0. /\ life \in [phase : {"down", "up", "stopping", "held", "refused", "unhanded"}, now : Nat,
                   row : [1 .. GwRuntimes -> {"absent", "active", "stopping", "stopped"}]]
      /\ NothingInMemory /\ UNCHANGED <<envs, reply, adm, room>>
  BY DEF GatewayInv, GwTyped, GwStartOver, GwStop, GwStopped, GwCrash
<1>1. CASE GwStartOver
  BY <1>0, <1>1, LifeMoves DEF GwStartOver, NothingInMemory, Alive
<1>2. CASE GwStop
  BY <1>0, <1>2, LifeMoves DEF GwStop, Alive
<1>3. CASE GwStopped \/ GwCrash
  <2>1. GwGone("stopped")
    BY <1>3 DEF GwStopped, GwCrash
  <2>2. /\ life' \in [phase : {"down", "up", "stopping", "held", "refused", "unhanded"}, now : Nat,
                      row : [1 .. GwRuntimes -> {"absent", "active", "stopping", "stopped"}]]
        /\ life'.phase = "down"
    BY <1>0, <2>1 DEF GwGone
  <2> QED
    BY <1>0, <2>1, <2>2, LifeMoves DEF GwGone, Alive
<1> QED
  BY <1>1, <1>2, <1>3

\* A start hands over every unfinished task, or none.
LEMMA StartStep ==
    ASSUME GatewayInv, GwStart
    PROVE  GatewayInv'
<1>0. /\ GwTyped /\ QueuedWasHanded /\ ShownWasHanded /\ IdsUnique /\ AttemptsCount
      /\ UNCHANGED <<envs, reply, cons, room>> /\ life.phase = "down" /\ life.now < GwRuntimes
      /\ NothingInMemory
  BY DEF GatewayInv, GwStart
<1>1. PICK r : r = life.now + 1
  OBVIOUS
<1>2. life.now \in Nat /\ r \in Nat /\ r \in 1 .. GwRuntimes /\ ~Alive /\ queue = {} /\ cons = NoEvent
  BY SMT, <1>0, <1>1, GatewayAssumption DEF GwTyped, Alive, NothingInMemory
<1>3. ASSUME NEW phase \in {"held", "refused", "unhanded"},
             life' = [life EXCEPT !.now = r, !.row[r] = "stopped", !.phase = phase], UNCHANGED <<adm, queue>>
      PROVE  GatewayInv'
  <2>1. life' \in [phase : {"down", "up", "stopping", "held", "refused", "unhanded"}, now : Nat,
                   row : [1 .. GwRuntimes -> {"absent", "active", "stopping", "stopped"}]]
        /\ life'.phase = phase
    BY <1>0, <1>2, <1>3 DEF GwTyped
  <2> QED
    BY <1>0, <1>2, <1>3, <2>1, LifeMoves DEF Alive
<1>4. CASE /\ life' = [life EXCEPT !.now = r, !.row[r] = "active", !.phase = "up"]
           /\ adm' = [t \in GwTask |-> IF t \in Unfinished
                                       THEN [enqueue_ready(adm[t]) EXCEPT !.handed = TRUE]
                                       ELSE adm[t]]
           /\ queue' = Unfinished
  <2>1. life' \in [phase : {"down", "up", "stopping", "held", "refused", "unhanded"}, now : Nat,
                   row : [1 .. GwRuntimes -> {"absent", "active", "stopping", "stopped"}]]
        /\ life'.phase = "up"
    BY <1>0, <1>2, <1>4 DEF GwTyped
  <2>2. \A t \in GwTask : /\ adm'[t] \in AdmRow
                          /\ t \in Unfinished => adm'[t].state = "enqueued" /\ adm'[t].handed
                          /\ t \notin Unfinished => adm'[t] = adm[t] /\ adm[t].state \in {"none", "terminal"}
    <3> SUFFICES ASSUME NEW t \in GwTask
                  PROVE  /\ adm'[t] \in AdmRow
                         /\ t \in Unfinished => adm'[t].state = "enqueued" /\ adm'[t].handed
                         /\ t \notin Unfinished => adm'[t] = adm[t] /\ adm[t].state \in {"none", "terminal"}
      OBVIOUS
    <3>0. adm[t] \in AdmRow
      BY <1>0 DEF GwTyped
    <3>1. CASE t \notin Unfinished
      BY <1>4, <3>0, <3>1 DEF Unfinished
    <3>2. CASE t \in Unfinished
      <4>1. adm'[t] = [enqueue_ready(adm[t]) EXCEPT !.handed = TRUE]
        BY <1>4, <3>2
      <4>2. PICK mid : mid = enqueue_ready(adm[t])
        OBVIOUS
      <4>3. mid = [state |-> "enqueued", rev |-> adm[t].rev + 1, owner |-> adm[t].owner, handed |-> adm[t].handed]
        BY <3>0, <4>2 DEF enqueue_ready, AdmRow
      <4>4. mid \in AdmRow /\ mid.state = "enqueued"
        BY SMT, <3>0, <4>3 DEF AdmRow
      <4>5. PICK row : row = [mid EXCEPT !.handed = TRUE]
        OBVIOUS
      <4>6. row = [state |-> mid.state, rev |-> mid.rev, owner |-> mid.owner, handed |-> TRUE]
        BY <4>4, <4>5 DEF AdmRow
      <4>7. row \in AdmRow /\ row.state = "enqueued" /\ row.handed
        BY <4>4, <4>6 DEF AdmRow
      <4> QED
        BY <3>2, <4>1, <4>2, <4>5, <4>7
    <3> QED
      BY <3>1, <3>2
  <2>3. adm' \in [GwTask -> AdmRow]
    BY <1>4, <2>2
  <2>4. queue' \subseteq GwTask
    BY <1>4 DEF Unfinished
  <2>5. GwTyped'
    BY <1>0, <2>1, <2>3, <2>4 DEF GwTyped
  <2>6. QueuedWasHanded'
    BY <1>0, <1>4, <2>2, <2>4 DEF QueuedWasHanded
  <2>7. EnqueuedIsKnown'
    BY <1>4, <2>2 DEF EnqueuedIsKnown
  <2>8. NothingInMemory' /\ HandoffOwnsRow' /\ IdsUnique' /\ ConsumerAdmitted' /\ AttemptsCount'
    BY <1>0, <1>2, <2>1 DEF NothingInMemory, HandoffOwnsRow, IdsUnique, ConsumerAdmitted, AttemptsCount, Alive,
                            NoEvent, Admitted, Answering
  <2>9. HandedKept
    BY <2>2 DEF HandedKept
  <2>10. ShownWasHanded'
    BY <1>0, <2>9, ShownFrame
  <2> QED
    BY <2>5, <2>6, <2>7, <2>8, <2>10 DEF GatewayInv
<1> QED
  BY <1>1, <1>3, <1>4 DEF GwStart

-----------------------------------------------------------------------------
(* The theorem.                                                            *)

\* Every reachable state satisfies the inductive invariant.
LEMMA GatewayInvariant == GatewaySpec => []GatewayInv
<1>1. GatewayInit => GatewayInv
  <2> SUFFICES ASSUME GatewayInit PROVE GatewayInv
    OBVIOUS
  <2>1. GwTyped
    BY SMT DEF GatewayInit, GwTyped, NoReply, NoAdm, NoEvent, ReplyRow, AdmRow, Resting
  <2>2. cons.pc = "idle" /\ envs = {} /\ queue = {} /\ cons = NoEvent /\ ~Alive
    BY DEF GatewayInit, NoEvent, Alive
  <2>3. NothingInMemory /\ HandoffOwnsRow /\ EnqueuedIsKnown /\ IdsUnique /\ ConsumerAdmitted
    BY <2>2 DEF NothingInMemory, HandoffOwnsRow, EnqueuedIsKnown, IdsUnique, ConsumerAdmitted, Admitted, Answering
  <2>4. QueuedWasHanded /\ ShownWasHanded /\ AttemptsCount
    BY SMT, <2>2 DEF GatewayInit, QueuedWasHanded, ShownWasHanded, AttemptsCount, NoAdm, NoReply
  <2> QED
    BY <2>1, <2>3, <2>4 DEF GatewayInv
<1>2. GatewayInv /\ [GatewayNext]_gwVars => GatewayInv'
  <2> SUFFICES ASSUME GatewayInv, [GatewayNext]_gwVars PROVE GatewayInv'
    OBVIOUS
  <2>1. CASE \E e \in GwEvent : GwReceive(e)
    BY <2>1, ReceiveStep
  <2>2. CASE admit_task_ready
    BY <2>2, AdmitStep
  <2>3. CASE ready_revision \/ ReserveAcceptance \/ ConsumerFails
    BY <2>3, QuietSteps
  <2>4. CASE HandoffEnqueue
    BY <2>4, EnqueueStep
  <2>5. CASE HandoffSend
    BY <2>5, SendStep
  <2>6. CASE HandoffRestore
    BY <2>6, RestoreStep
  <2>7. CASE BeginAttempt
    BY <2>7, BeginAttemptStep
  <2>8. CASE PostAcceptance
    BY <2>8, PostStep
  <2>9. CASE FinishPosted \/ FinishUnposted
    BY <2>9, FinishSteps
  <2>10. CASE \E t \in GwTask : WorkerTakes(t) \/ WorkerEnds(t)
    BY <2>10, WorkerSteps
  <2>11. CASE GwSweep
    BY <2>11, SweepStep
  <2>12. CASE GwStart
    BY <2>12, StartStep
  <2>13. CASE GwStartOver \/ GwStop \/ GwStopped \/ GwCrash
    BY <2>13, LifeSteps
  <2>14. CASE UNCHANGED gwVars
    BY <2>14, NothingMoves DEF gwVars
  <2> QED
    BY <2>1, <2>2, <2>3, <2>4, <2>5, <2>6, <2>7, <2>8, <2>9, <2>10, <2>11, <2>12, <2>13, <2>14 DEF GatewayNext
<1> QED
  BY <1>1, <1>2, PTL DEF GatewaySpec

\* Whatever is sent, repeated, refused or lost, and however often the runtime stops
\* or dies: the peer is told of an acceptance only for a task that the worker was
\* given, at most twice, and a row that says enqueued by the runtime that is up is
\* in its channel unless a handoff is at work on it (admit, handoff, send_acceptance).
THEOREM HandoffStaysKept == GatewaySpec => []HandoffKept
<1>1. GatewayInv => HandoffKept
  <2> SUFFICES ASSUME GatewayInv PROVE HandoffKept
    OBVIOUS
  <2>0. GwTyped /\ EnqueuedIsKnown /\ IdsUnique /\ ShownWasHanded /\ AttemptsCount
    BY DEF GatewayInv
  <2>1. AcceptedWasHanded
    <3> SUFFICES ASSUME NEW e \in envs, room[e.id] > 0 PROVE room[e.id] <= 2 /\ adm[e.task].handed
      BY DEF AcceptedWasHanded
    <3>1. e.id \in Accepted
      BY <2>0 DEF GwTyped, Accepted
    <3>2. room[e.id] \in Nat /\ reply[e.id].attempt \in 0 .. 2 /\ room[e.id] <= reply[e.id].attempt
      BY <2>0, <3>1 DEF GwTyped, ReplyRow, AttemptsCount
    <3>3. PICK o \in envs : o.id = e.id /\ adm[o.task].handed
      BY <2>0, <3>1 DEF ShownWasHanded
    <3>4. o = e
      BY <2>0, <3>3 DEF IdsUnique
    <3> QED
      BY SMT, <3>2, <3>3, <3>4
  <2>2. EnqueuedIsInChannel
    BY <2>0 DEF EnqueuedIsKnown, EnqueuedIsInChannel, Alive
  <2> QED
    BY <2>1, <2>2 DEF HandoffKept
<1> QED
  BY <1>1, GatewayInvariant, PTL

=============================================================================
