--------------------------- MODULE ExecutionLease ---------------------------
(***************************************************************************)
(* The durable execution leases, workspace claims and continuations of     *)
(* SqliteRuntimeStore (src/src/runtime/mod.rs).                            *)
(*                                                                         *)
(* A dispatcher acquires the lease of an execution resource (agent plus    *)
(* workspace) for a task, claims the workspace paths, opens a continuation *)
(* row and then alternates claim_turn / record_continue until the turn is  *)
(* finished or finalized.  Every call is one SQLite transaction, so every  *)
(* action here is one call that succeeds; a call that fails a guard rolls  *)
(* back and changes nothing.  A Lease value is cloned freely by the code   *)
(* (pending map, supervisors, guards), so any Lease ever granted may be    *)
(* presented again at any later time: `handles` only grows.                *)
(***************************************************************************)
EXTENDS Integers, FiniteSets

CONSTANTS
    Resource,      \* ExecutionResourceKey values
    Task,          \* TaskId values
    Owner,         \* owner tokens; Uuid::now_v7() never returns one twice
    None,          \* the columns of a row that does not exist
    Overlaps,      \* pairs of resources with equal or nested workspace paths
    FinishStates,  \* the states finish_with_generation is called with
    TTL,           \* policy.lease_ttl
    MaxTime,       \* bound on the clock
    MaxFence,      \* bound on the fence of one resource
    MaxTurns       \* policy.max_turns

ASSUME BoundsAssumption ==
    /\ TTL \in Nat /\ MaxTime \in Nat /\ MaxFence \in Nat /\ MaxTurns \in Nat

ASSUME NamesAssumption ==
    /\ None \notin Task \cup Owner \cup Resource
    /\ FinishStates \subseteq {"recovery_needed", "blocked", "terminal"}

ASSUME OverlapsAssumption ==
    /\ Overlaps \subseteq Resource \X Resource
    /\ \A r \in Resource : <<r, r>> \in Overlaps
    /\ \A r, s \in Resource : <<r, s>> \in Overlaps => <<s, r>> \in Overlaps

VARIABLES
    now,       \* the wall clock read by RuntimeClock::now
    lease,     \* execution_leases, one row per resource
    cont,      \* task_continuations, one row per task
    receipts,  \* continuation_response_receipts
    claims,    \* workspace_claims
    handles,   \* every Lease value handed to a caller
    used,      \* owner tokens already generated
    fresh      \* owners whose deliver has not yet called claim_workspaces

vars == <<now, lease, cont, receipts, claims, handles, used, fresh>>

LeaseState == {"absent", "active", "recovery_needed", "released"}
Open == {"ready", "in_flight"}
Final == {"recovery_needed", "blocked", "terminal"}

LeaseRow ==
    [state : LeaseState, task : Task \cup {None}, owner : Owner \cup {None},
     fence : Nat, expires : Nat]

ContRow ==
    [state : {"absent"} \cup Open \cup Final, resource : Resource \cup {None}, fence : Nat,
     revision : Nat, next_turn : Nat, completed : Nat]

Handle ==
    [resource : Resource, task : Task, owner : Owner, fence : Nat, expires : Nat]

Claim ==
    [resource : Resource, task : Task, owner : Owner, fence : Nat,
     state : {"active", "recovery_needed"}]

\* A receipt: which identifier its idempotency key holds, the revision in the key and
\* the revision its row stores.
Receipt ==
    [task : Task, id : {"delivery", "event"}, fence : Nat, key : Nat, revision : Nat]

Init ==
    /\ now = 0
    /\ lease = [r \in Resource |->
                  [state |-> "absent", task |-> None, owner |-> None,
                   fence |-> 0, expires |-> 0]]
    /\ cont = [t \in Task |->
                 [state |-> "absent", resource |-> None, fence |-> 0,
                  revision |-> 0, next_turn |-> 0, completed |-> 0]]
    /\ receipts = {}
    /\ claims = {}
    /\ handles = {}
    /\ used = {}
    /\ fresh = {}

-----------------------------------------------------------------------------
(* The two guards every write repeats in SQL. *)

\* resource_key=? AND owner_token=? AND fence=? AND state='active'
Holds(h) ==
    /\ lease[h.resource].state = "active"
    /\ lease[h.resource].owner = h.owner
    /\ lease[h.resource].fence = h.fence

\* ... AND task_id=? AND expires_at>now
Live(h) ==
    /\ Holds(h)
    /\ lease[h.resource].task = h.task
    /\ lease[h.resource].expires > now

\* The continuation row a Lease and a caller's revision select.
Selects(h, rev) ==
    /\ cont[h.task].resource = h.resource
    /\ cont[h.task].fence = h.fence
    /\ cont[h.task].revision = rev

\* UPDATE execution_leases SET state=s, expires_at=now for the handle's row.
CloseRow(h, s) ==
    lease' = [lease EXCEPT ![h.resource] =
                [state |-> s, task |-> @.task, owner |-> @.owner,
                 fence |-> @.fence, expires |-> now]]

OwnClaim(h, c) ==
    /\ c.owner = h.owner /\ c.task = h.task /\ c.fence = h.fence
    /\ c.state = "active"

\* DELETE FROM workspace_claims of this lease.
DropClaims(h) == {c \in claims : ~OwnClaim(h, c)}

\* UPDATE workspace_claims SET state='recovery_needed' of this lease.
FreezeClaims(h) ==
    {IF OwnClaim(h, c) THEN [c EXCEPT !.state = "recovery_needed"] ELSE c :
        c \in claims}

-----------------------------------------------------------------------------
\* The wall clock advances.
Tick ==
    /\ now < MaxTime
    /\ now' = now + 1
    /\ UNCHANGED <<lease, cont, receipts, claims, handles, used, fresh>>

\* Mutant: a re-acquired row keeps its fence.
AcquireSameFence(r, t, o) ==
    /\ o \notin used
    /\ lease[r].state \in {"absent", "released"}
    /\ lease' = [lease EXCEPT ![r] =
                   [state |-> "active", task |-> t, owner |-> o,
                    fence |-> @.fence, expires |-> now + TTL]]
    /\ handles' = handles \cup
         {[resource |-> r, task |-> t, owner |-> o, fence |-> lease[r].fence, expires |-> now + TTL]}
    /\ used' = used \cup {o}
    /\ fresh' = fresh \cup {o}
    /\ UNCHANGED <<now, cont, receipts, claims>>

\* Mutant: a row that awaits recovery is granted again.
AcquireQuarantined(r, t, o) ==
    /\ o \notin used
    /\ lease[r].state # "active"
    /\ lease[r].fence < MaxFence
    /\ lease' = [lease EXCEPT ![r] =
                   [state |-> "active", task |-> t, owner |-> o,
                    fence |-> @.fence + 1, expires |-> now + TTL]]
    /\ handles' = handles \cup
         {[resource |-> r, task |-> t, owner |-> o,
           fence |-> lease[r].fence + 1, expires |-> now + TTL]}
    /\ used' = used \cup {o}
    /\ fresh' = fresh \cup {o}
    /\ UNCHANGED <<now, cont, receipts, claims>>

\* acquire: no row, or a released one, is granted to a fresh owner token with
\* the next fence.
Acquire(r, t, o) ==
    /\ o \notin used
    /\ lease[r].state \in {"absent", "released"}
    /\ lease[r].fence < MaxFence
    /\ lease' = [lease EXCEPT ![r] =
                   [state |-> "active", task |-> t, owner |-> o,
                    fence |-> @.fence + 1, expires |-> now + TTL]]
    /\ handles' = handles \cup
         {[resource |-> r, task |-> t, owner |-> o,
           fence |-> lease[r].fence + 1, expires |-> now + TTL]}
    /\ used' = used \cup {o}
    /\ fresh' = fresh \cup {o}
    /\ UNCHANGED <<now, cont, receipts, claims>>

\* acquire: an expired active row is marked recovery_needed, never taken over.
AcquireExpired(r) ==
    /\ lease[r].state = "active"
    /\ lease[r].expires <= now
    /\ lease' = [lease EXCEPT ![r].state = "recovery_needed"]
    /\ UNCHANGED <<now, cont, receipts, claims, handles, used, fresh>>

\* renew: refused once the caller's own copy or the stored row has expired.
Renew(h) ==
    /\ now < h.expires
    /\ Holds(h)
    /\ lease[h.resource].expires > now
    /\ lease' = [lease EXCEPT ![h.resource].expires = now + TTL]
    /\ handles' = handles \cup {[h EXCEPT !.expires = now + TTL]}
    /\ UNCHANGED <<now, cont, receipts, claims, used, fresh>>

\* Mutant: only an equal workspace conflicts, not a nested one.
ClaimWorkspacesEqualOnly(h) ==
    /\ h.owner \in fresh
    /\ \A c \in claims : c.state = "active" => c.resource # h.resource
    /\ claims' = claims \cup
         {[resource |-> h.resource, task |-> h.task, owner |-> h.owner,
           fence |-> h.fence, state |-> "active"]}
    /\ fresh' = fresh \ {h.owner}
    /\ UNCHANGED <<now, lease, cont, receipts, handles, used>>

\* claim_workspaces: refused while any active claim overlaps.  deliver calls
\* it once, with the Lease it has just acquired; the lease is not re-read.
ClaimWorkspaces(h) ==
    /\ h.owner \in fresh
    /\ \A c \in claims : c.state = "active" => <<c.resource, h.resource>> \notin Overlaps
    /\ claims' = claims \cup
         {[resource |-> h.resource, task |-> h.task, owner |-> h.owner,
           fence |-> h.fence, state |-> "active"]}
    /\ fresh' = fresh \ {h.owner}
    /\ UNCHANGED <<now, lease, cont, receipts, handles, used>>

\* release: needs the owner and fence of an active row, but not its expiry.
Release(h, s) ==
    /\ Holds(h)
    /\ CloseRow(h, s)
    /\ claims' = IF s = "released" THEN DropClaims(h) ELSE FreezeClaims(h)
    /\ fresh' = fresh \ {h.owner}
    /\ UNCHANGED <<now, cont, receipts, handles, used>>

\* begin_continuation: deliver opens the row after the workspace claim; the
\* primary key admits one continuation per task.
BeginContinuation(h) ==
    /\ h.owner \notin fresh
    /\ Live(h)
    /\ cont[h.task].state = "absent"
    /\ cont' = [cont EXCEPT ![h.task] =
                  [state |-> "ready", resource |-> h.resource, fence |-> h.fence,
                   revision |-> 1, next_turn |-> 1, completed |-> 0]]
    /\ UNCHANGED <<now, lease, receipts, claims, handles, used, fresh>>

\* claim_turn_with_generation
ClaimTurn(h, rev) ==
    /\ Selects(h, rev)
    /\ Live(h)
    /\ cont[h.task].state = "ready"
    /\ cont' = [cont EXCEPT ![h.task].state = "in_flight",
                            ![h.task].revision = @ + 1]
    /\ UNCHANGED <<now, lease, receipts, claims, handles, used, fresh>>

\* The receipt of the turn in flight.  Its key has the revision the caller presents,
\* its row the one before the update of the continuation.
Answer(h, rev, id) ==
    [task |-> h.task, id |-> id, fence |-> h.fence, key |-> rev,
     revision |-> cont[h.task].revision]

\* Mutant: the answered turn is not counted.
RecordContinueUncounted(h, rev) ==
    /\ Selects(h, rev)
    /\ Live(h)
    /\ cont[h.task].state = "in_flight"
    /\ cont[h.task].next_turn <= MaxTurns
    /\ cont' = [cont EXCEPT ![h.task].state = "ready",
                            ![h.task].revision = @ + 1,
                            ![h.task].next_turn = @ + 1]
    /\ receipts' = receipts \cup {Answer(h, rev, "delivery")}
    /\ UNCHANGED <<now, lease, claims, handles, used, fresh>>

\* record_continue_with_receipt: the next turn becomes ready and the answer
\* leaves one receipt, keyed by the delivery; a key in use rolls the call back.
RecordContinue(h, rev) ==
    /\ Selects(h, rev)
    /\ Live(h)
    /\ cont[h.task].state = "in_flight"
    /\ cont[h.task].next_turn <= MaxTurns
    /\ \A x \in receipts :
         <<x.task, x.id, x.fence, x.key>> # <<h.task, "delivery", h.fence, rev>>
    /\ cont' = [cont EXCEPT ![h.task].state = "ready",
                            ![h.task].revision = @ + 1,
                            ![h.task].next_turn = @ + 1,
                            ![h.task].completed = @ + 1]
    /\ receipts' = receipts \cup {Answer(h, rev, "delivery")}
    /\ UNCHANGED <<now, lease, claims, handles, used, fresh>>

\* The continuation update shared by finish and finalize_terminal.
FinishTurn(h, rev, s) ==
    /\ Selects(h, rev)
    /\ Live(h)
    /\ cont[h.task].state = "in_flight"
    /\ cont' = [cont EXCEPT ![h.task].state = s,
                            ![h.task].revision = @ + 1,
                            ![h.task].completed = @ + 1]

\* finish_with_generation: closes the lease, leaves the workspace claims and records
\* no answer.
Finish(h, rev, s) ==
    /\ FinishTurn(h, rev, s)
    /\ CloseRow(h, IF s = "recovery_needed" THEN "recovery_needed" ELSE "released")
    /\ UNCHANGED <<now, receipts, claims, handles, used, fresh>>

\* finalize_terminal: records the answer, keyed by the terminal event, closes the
\* lease and drops the workspace claims in the transaction that appends the event.
\* The key of a receipt fixes its event and with it the hash, so a receipt that is
\* already there is the same one; one with another hash rolls the call back.
FinalizeTerminal(h, rev, s) ==
    /\ FinishTurn(h, rev, s)
    /\ CloseRow(h, "released")
    /\ receipts' = receipts \cup {Answer(h, rev, "event")}
    /\ claims' = DropClaims(h)
    /\ UNCHANGED <<now, handles, used, fresh>>

Next ==
    \/ Tick
    \/ \E r \in Resource, t \in Task, o \in Owner : Acquire(r, t, o)
    \/ \E r \in Resource : AcquireExpired(r)
    \/ \E h \in handles :
         \/ Renew(h)
         \/ ClaimWorkspaces(h)
         \/ \E s \in {"released", "recovery_needed"} : Release(h, s)
         \/ BeginContinuation(h)
         \/ \E rev \in 1 .. cont[h.task].revision :
              \/ ClaimTurn(h, rev)
              \/ RecordContinue(h, rev)
              \/ \E s \in FinishStates : Finish(h, rev, s)
              \/ \E s \in {"blocked", "terminal"} : FinalizeTerminal(h, rev, s)

Spec == Init /\ [][Next]_vars

-----------------------------------------------------------------------------
(* Type invariant. *)

\* Every table and every Lease value stays within its schema.
TypeOK ==
    /\ now \in Nat
    /\ lease \in [Resource -> LeaseRow]
    /\ cont \in [Task -> ContRow]
    /\ receipts \subseteq Receipt
    /\ claims \subseteq Claim
    /\ handles \subseteq Handle
    /\ used \subseteq Owner
    /\ fresh \subseteq used

(* Safety. *)

\* Fencing: a fence names one grant.  Two Lease values for the same resource
\* with the same fence come from the same acquire, and no Lease carries a fence
\* the stored row has not reached, so a stale Lease can never pass the
\* owner_token/fence guards of a later grant.
FenceIdentifiesGrant ==
    /\ \A h \in handles : h.fence <= lease[h.resource].fence
    /\ \A h, k \in handles :
         h.resource = k.resource /\ h.fence = k.fence =>
            h.owner = k.owner /\ h.task = k.task

\* finish and finalize_terminal close the turn and the lease in one
\* transaction: a finished continuation never leaves the lease it ran under
\* active.
FinishedTurnHoldsNoLease ==
    \A t \in Task :
        cont[t].state \in Final =>
            ~ /\ lease[cont[t].resource].fence = cont[t].fence
              /\ lease[cont[t].resource].state = "active"

\* The revision compare-and-set loses and repeats no turn: the revision, the
\* next turn and the completed turns of a continuation always agree.
TurnAccounting ==
    \A t \in Task :
        LET c == cont[t] IN
        /\ c.state = "ready" =>
             c.revision = 2 * c.completed + 1 /\ c.next_turn = c.completed + 1
        /\ c.state = "in_flight" =>
             c.revision = 2 * c.completed + 2 /\ c.next_turn = c.completed + 1
        /\ c.state \in Final =>
             c.revision = 2 * c.completed + 1 /\ c.next_turn = c.completed

\* The revisions at which answers are recorded for a task.
AnsweredAt(t) == {x.revision : x \in {y \in receipts : y.task = t}}

\* Every completed turn left one receipt, under the fence and the revision the turn ran
\* at: the key a caller computed before the transaction is the revision the transaction
\* stored, and no answer was recorded against a later turn.  The one exception is a last
\* turn that finish_with_generation closed, which a turn given up for recovery always
\* is.  A receipt keyed by an event is the terminal answer, and there is no other
\* answer to the last turn.
ReceiptPerTurn ==
    /\ \A x \in receipts :
         LET c == cont[x.task] IN
         /\ x.key = x.revision /\ x.fence = c.fence
         /\ x.id = "event" <=> c.state \in Final /\ x.revision = 2 * c.completed
    /\ \A t \in Task :
         LET c == cont[t]
             turns == {2 * k : k \in 1 .. c.completed}
         IN /\ \/ AnsweredAt(t) = turns
               \/ c.state \in FinishStates /\ AnsweredAt(t) = turns \ {2 * c.completed}
            /\ c.state = "recovery_needed" => 2 * c.completed \notin AnsweredAt(t)

\* The record of a continuation is complete: no turn is lost, repeated, answered twice
\* or finished with its lease still active.
TurnsRecorded == TurnAccounting /\ ReceiptPerTurn /\ FinishedTurnHoldsNoLease

\* claim_workspaces keeps the active claims of different leases disjoint.
ActiveClaimsDisjoint ==
    \A c, d \in claims :
        c.state = "active" /\ d.state = "active" /\ <<c.resource, d.resource>> \in Overlaps
            => c = d

\* No workspace stays claimed by a lease that was given back: an active claim
\* belongs to the current grant of its resource, and that grant is not released.
ClaimsFollowLease ==
    \A c \in claims :
        c.state = "active" =>
            /\ lease[c.resource].owner = c.owner
            /\ lease[c.resource].fence = c.fence
            /\ lease[c.resource].state \in {"active", "recovery_needed"}

\* A workspace is claimed by at most one lease, and only while that lease may run.
ClaimsSound == ActiveClaimsDisjoint /\ ClaimsFollowLease

(* Action properties. *)

\* An expired lease is never revived: once expires_at has passed, no renew
\* moves it and the row can only be given back or marked for recovery.
ExpiredNeverRevived ==
    [][\A r \in Resource :
         lease[r].state = "active" /\ lease[r].expires <= now =>
            \/ lease'[r] = lease[r]
            \/ lease'[r].state \in {"released", "recovery_needed"}]_vars

\* A finished continuation is final: no later call, with any Lease and any
\* revision, changes its row.
FinalIsFinal ==
    [][\A t \in Task : cont[t].state \in Final => cont'[t] = cont[t]]_vars

(* Refinement. *)

Mode(s) ==
    CASE s \in {"absent", "released"} -> "free"
      [] s = "active" -> "held"
      [] s = "recovery_needed" -> "quarantined"

Fenced == INSTANCE FencedResource WITH
    mode <- [r \in Resource |-> Mode(lease[r].state)],
    holder <- [r \in Resource |-> lease[r].owner],
    fence <- [r \in Resource |-> lease[r].fence]

\* The lease table implements the abstract fenced resource: expiry, renewal,
\* stale handles and continuation writes never grant a held or quarantined
\* resource and never reuse a fence.
ImplementsFencedResource == Fenced!Spec
=============================================================================
