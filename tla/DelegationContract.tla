-------------------------- MODULE DelegationContract --------------------------
(***************************************************************************)
(* What delegation.AsyncBackend and its WorkSource promise to a caller who *)
(* only knows Submit and Status (core/delegation/service.go, delegation.go *)
(* lines 183-190), without cards, leases, eviction or tombstones.          *)
(*                                                                         *)
(* An operation is accepted once, may run and be put back, and settles on  *)
(* one terminal response that never changes.  Within the retention window  *)
(* after that, its response stays queryable and its idempotency key stays  *)
(* bound to it; an operation that has not settled is never forgotten and   *)
(* never loses its key.                                                    *)
(***************************************************************************)
EXTENDS Integers

CONSTANTS Operations, Keys, Retention, NoOperation

VARIABLES now,       \* the clock
          status,    \* what Status answers for each operation
          settledAt, \* when an operation settled
          owner      \* the operation a Submit with each key replays

vars == <<now, status, settledAt, owner>>

Terminal == {"succeeded", "failed", "canceled"}
Moves == ({"accepted"} \X ({"running"} \cup Terminal))
         \cup ({"running"} \X ({"accepted"} \cup Terminal))
         \cup {<<"unborn", "accepted">>}

Init ==
    /\ now = 0
    /\ status = [o \in Operations |-> "unborn"]
    /\ settledAt = [o \in Operations |-> 0]
    /\ owner = [k \in Keys |-> NoOperation]

\* the retention window of a settled operation is over
Lapsed(o) == status[o] \in Terminal \cup {"forgotten"} /\ now' >= settledAt[o] + Retention

OperationStep(o) ==
    /\ \/ status'[o] = status[o]
       \/ <<status[o], status'[o]>> \in Moves
       \/ status'[o] = "forgotten" /\ Lapsed(o)
    /\ settledAt'[o] = IF status[o] \notin Terminal /\ status'[o] \in Terminal
                       THEN now ELSE settledAt[o]

KeyStep(k) ==
    \/ owner'[k] = owner[k]
    \/ /\ owner[k] = NoOperation \/ Lapsed(owner[k])
       /\ owner'[k] = NoOperation \/ <<status[owner'[k]], status'[owner'[k]]>> = <<"unborn", "accepted">>

Next ==
    /\ now' \in {now, now + 1}
    /\ \A o \in Operations : OperationStep(o)
    /\ \A k \in Keys : KeyStep(k)
    /\ DOMAIN status' = Operations /\ DOMAIN settledAt' = Operations /\ DOMAIN owner' = Keys

Spec == Init /\ [][Next]_vars
=============================================================================
