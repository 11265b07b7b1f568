---------------------------- MODULE Cancellation ----------------------------
(***************************************************************************)
(* The cancellation handle shared by the operator surfaces and the bus     *)
(* worker (src/bus/control.rs).  One mutex guards three tables and a       *)
(* global reason; a watch counter wakes the worker.                        *)
(*                                                                         *)
(* A caller records its reason under the mutex and bumps the counter only  *)
(* after it has released the mutex, so a recorded reason and its wake-up   *)
(* are two steps here, and other callers and the worker run in between.    *)
(*                                                                         *)
(* The two capped maps are kept in the order of their insertion counters   *)
(* (next_pending_seq, next_retired_seq): the oldest entry is the head.     *)
(***************************************************************************)
EXTENDS Naturals, FiniteSets, Sequences, SequencesExt

CONSTANTS
    Task,                       \* task ids
    Reason,                     \* cancellation reasons
    None,                       \* no reason, no task
    MAX_PENDING_CANCELLATIONS,  \* cap of the pre-arm table (1024 in the code)
    MAX_RETIRED_TASKS,          \* cap of the retirement table (1024 in the code)
    MaxCallers                  \* model bound: callers between record and bump

ASSUME CapsAssumption ==
    /\ MAX_PENDING_CANCELLATIONS \in Nat \ {0}
    /\ MAX_RETIRED_TASKS \in Nat \ {0}
    /\ MaxCallers \in Nat \ {0}

ASSUME NoneAssumption == None \notin Reason /\ None \notin Task

VARIABLES
    global,     \* reason given to cancel_all, or None
    active,     \* tasks the worker owns: a reason, None (owned, no reason)
    owned,      \* the key set of the active table
    pending,    \* pre-arm table: [task, reason] records, oldest first
    retired,    \* retirement table: task ids, oldest first
    bumping,    \* callers that have recorded and not yet bumped
    rx          \* the worker's watch receiver: none, or its version is seen or unseen

cancelVars == <<global, active, owned, pending, retired, bumping, rx>>

PendingEntry == [task : Task, reason : Reason]

\* One type invariant for the handle: the caps are part of the tables' type.
CancelTypeOK ==
    /\ global \in Reason \cup {None}
    /\ owned \subseteq Task
    /\ active \in [Task -> Reason \cup {None}]
    /\ pending \in BoundedSeq(PendingEntry, MAX_PENDING_CANCELLATIONS)
    /\ retired \in BoundedSeq(Task, MAX_RETIRED_TASKS)
    /\ bumping \in 0 .. MaxCallers
    /\ rx \in {"none", "seen", "unseen"}

CancelInit ==
    /\ global = None
    /\ active = [t \in Task |-> None]
    /\ owned = {}
    /\ pending = <<>>
    /\ retired = <<>>
    /\ bumping = 0
    /\ rx = "none"

-----------------------------------------------------------------------------
\* The tables.

IsPending(t) == \E i \in DOMAIN pending : pending[i].task = t

PendingReason(t) ==
    IF IsPending(t)
    THEN pending[CHOOSE i \in DOMAIN pending : pending[i].task = t].reason
    ELSE None

IsRetired(t) == t \in Range(retired)

\* What a targeted cancellation left for t, in whichever table it sits.
OwnReason(t) == IF t \in owned THEN active[t] ELSE PendingReason(t)

\* A targeted reason is reported in preference to the global one.
ReasonFor(t) ==
    IF t \in owned /\ active[t] # None THEN active[t]
    ELSE IF IsPending(t) THEN PendingReason(t)
    ELSE global

WithoutPending(t) == SelectSeq(pending, LAMBDA e : e.task # t)

WithoutRetired(t) == SelectSeq(retired, LAMBDA u : u # t)

\* The oldest entry is displaced when the table is full, then the new one goes in.
RememberPending(t, r) ==
    Append(IF Len(pending) >= MAX_PENDING_CANCELLATIONS THEN Tail(pending) ELSE pending,
           [task |-> t, reason |-> r])

\* The oldest id is displaced when the table is full; re-inserting a present
\* id refreshes its counter.
RememberRetired(t) ==
    LET kept == IF Len(retired) >= MAX_RETIRED_TASKS THEN Tail(retired) ELSE retired
    IN  Append(SelectSeq(kept, LAMBDA u : u # t), t)

-----------------------------------------------------------------------------
\* Operations.

\* Mutant: the latest reason replaces the one an owned task already carries.
CancelOverwriting(t, r) ==
    /\ bumping < MaxCallers
    /\ bumping' = bumping + 1
    /\ active' = IF t \in owned THEN [active EXCEPT ![t] = r] ELSE active
    /\ pending' = IF t \notin owned /\ ~IsRetired(t) /\ ~IsPending(t)
                  THEN RememberPending(t, r)
                  ELSE pending
    /\ UNCHANGED <<global, owned, retired, rx>>

\* cancel, up to the release of the mutex.
Cancel(t, r) ==
    /\ bumping < MaxCallers
    /\ bumping' = bumping + 1
    /\ active' = IF t \in owned /\ active[t] = None THEN [active EXCEPT ![t] = r] ELSE active
    /\ pending' = IF t \notin owned /\ ~IsRetired(t) /\ ~IsPending(t)
                  THEN RememberPending(t, r)
                  ELSE pending
    /\ UNCHANGED <<global, owned, retired, rx>>

\* cancel_all, up to the release of the mutex.
CancelAll(r) ==
    /\ bumping < MaxCallers
    /\ bumping' = bumping + 1
    /\ global' = IF global = None THEN r ELSE global
    /\ UNCHANGED <<active, owned, pending, retired, rx>>

\* The version bump that ends either call: every receiver sees it.
Bump ==
    /\ bumping > 0
    /\ bumping' = bumping - 1
    /\ rx' = IF rx = "none" THEN "none" ELSE "unseen"
    /\ UNCHANGED <<global, active, owned, pending, retired>>

\* Mutant: the pre-armed reason is dropped when ownership is taken.
ActivateForgettingReason(t) ==
    /\ owned' = owned \cup {t}
    /\ pending' = WithoutPending(t)
    /\ retired' = WithoutRetired(t)
    /\ UNCHANGED <<global, active, bumping, rx>>

\* The worker takes ownership of t: a pre-armed reason moves with it.
Activate(t) ==
    /\ owned' = owned \cup {t}
    /\ active' = IF t \in owned THEN active ELSE [active EXCEPT ![t] = PendingReason(t)]
    /\ pending' = WithoutPending(t)
    /\ retired' = WithoutRetired(t)
    /\ UNCHANGED <<global, bumping, rx>>

\* A receiver starts from the current version.
Subscribe ==
    /\ rx' = "seen"
    /\ UNCHANGED <<global, active, owned, pending, retired, bumping>>

\* t reached a terminal transition: nothing is kept but the bounded memory of
\* its id.  The process call ends here, and its receiver with it.
Retire(t) ==
    /\ owned' = owned \ {t}
    /\ active' = [active EXCEPT ![t] = None]
    /\ pending' = WithoutPending(t)
    /\ retired' = RememberRetired(t)
    /\ rx' = "none"
    /\ UNCHANGED <<global, bumping>>

-----------------------------------------------------------------------------
\* The handle on its own: any callers, and a worker that may activate and
\* retire any id (a duplicate submission reuses an id).

CancelNext ==
    \/ \E t \in Task, r \in Reason : Cancel(t, r)
    \/ \E r \in Reason : CancelAll(r)
    \/ Bump
    \/ Subscribe
    \/ \E t \in Task : Activate(t)
    \/ \E t \in owned : Retire(t)

CancelSpec == CancelInit /\ [][CancelNext]_cancelVars

-----------------------------------------------------------------------------
\* Properties.

\* A retained reason changes only by being forgotten, and it is forgotten only by the
\* task's retirement or by displacement from a full pre-arm table in which it is the
\* oldest entry.
ReasonKept ==
    \A t \in Task :
       OwnReason(t) # None /\ OwnReason(t)' # OwnReason(t)
       => /\ OwnReason(t)' = None
          /\ \/ t \in owned /\ IsRetired(t)'
             \/ /\ t \notin owned
                /\ Len(pending) = MAX_PENDING_CANCELLATIONS
                /\ Head(pending).task = t

=============================================================================
