--------------------------- MODULE FencedResource ---------------------------
(***************************************************************************)
(* What the execution lease promises its users, without SQL rows, clocks,  *)
(* handles or continuations: a resource is free, held by one grant, or     *)
(* quarantined until an operator intervenes.  Every grant carries a higher *)
(* fence than all grants before it, only a free resource is granted, and a *)
(* quarantined one is never handed to anybody.                             *)
(***************************************************************************)
EXTENDS Naturals

CONSTANTS Resource, Owner, None

VARIABLES
    mode,    \* "free", "held" or "quarantined"
    holder,  \* the owner token of the latest grant
    fence    \* the number of grants so far

vars == <<mode, holder, fence>>

Init ==
    /\ mode = [r \in Resource |-> "free"]
    /\ holder = [r \in Resource |-> None]
    /\ fence = [r \in Resource |-> 0]

Grant(r, o) ==
    /\ mode[r] = "free"
    /\ mode' = [mode EXCEPT ![r] = "held"]
    /\ holder' = [holder EXCEPT ![r] = o]
    /\ fence' = [fence EXCEPT ![r] = @ + 1]

GiveBack(r) ==
    /\ mode[r] = "held"
    /\ mode' = [mode EXCEPT ![r] = "free"]
    /\ UNCHANGED <<holder, fence>>

Quarantine(r) ==
    /\ mode[r] = "held"
    /\ mode' = [mode EXCEPT ![r] = "quarantined"]
    /\ UNCHANGED <<holder, fence>>

Next ==
    \E r \in Resource :
        \/ \E o \in Owner : Grant(r, o)
        \/ GiveBack(r)
        \/ Quarantine(r)

Spec == Init /\ [][Next]_vars
=============================================================================
