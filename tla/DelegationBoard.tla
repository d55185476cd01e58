---------------------------- MODULE DelegationBoard ----------------------------
(***************************************************************************)
(* The in-memory backend of asynchronous delegation:                       *)
(* core/delegation/kanban/kanban.go.  Everything Board.mu guards is one    *)
(* record, and every critical section of the board is an operator from the *)
(* record before to the record after, so that sections made of several     *)
(* steps (evict, admit, evict again) compose.                              *)
(*                                                                         *)
(* A card is named after the Delegate call whose submission created it.    *)
(* The slice b.cards is only ever appended to and filtered, so it is the   *)
(* set of its cards, each with the number of its admission.                *)
(* Time is a small clock.  Watchers, events, metrics and run ids are left  *)
(* out: they observe transitions and guard none.                           *)
(***************************************************************************)
EXTENDS Integers, FiniteSets

CONSTANTS
    Calls,         \* Delegate calls, and the cards they create
    Keys,          \* idempotency keys
    MaxPending,    \* WithMaxPending; 0 is unlimited
    MaxCards,      \* WithMaxCards; 0 is unlimited
    CardTTL,       \* WithCardTTL; 0 is for ever
    Retention      \* WithIdempotencyRetention

ASSUME BoardConstants ==
    /\ Calls \subseteq Nat \ {0} /\ Keys \subseteq Nat \ {0}
    /\ MaxPending \in Nat /\ MaxCards \in Nat /\ CardTTL \in Nat
    /\ Retention \in Nat \ {0}

VARIABLES
    now,           \* time.Now()
    board          \* what Board.mu guards

None == 0
NoKey == 0
TerminalStatus == {"done", "failed", "canceled"}
Statuses == {"pending", "claimed", "suspended"} \cup TerminalStatus
IsTerminal(b, c) == b.card[c].status \in TerminalStatus
Indexed(b, c) == c \in b.cards

\* c comes first among cs in the slice
IsFirst(b, cs, c) == c \in cs /\ \A d \in cs : b.card[c].number <= b.card[d].number

\* The states of a board, up to the invariants of DelegationService.
Cards == [status : Statuses \cup {"unborn"}, key : Keys \cup {NoKey},
          request : Nat \X (Calls \cup {None}), updated : Nat, number : Nat]
Boards == [closed : BOOLEAN, done : BOOLEAN, cards : SUBSET Calls, card : [Calls -> Cards],
           idempotency : [Keys -> Calls \cup {None}], tombstones : [Calls -> Nat],
           count : [Statuses -> Nat], leases : [Calls -> Nat],
           live : SUBSET Nat, cancels : SUBSET Nat, tokens : Nat, admitted : Nat]

BoardInit ==
    /\ now = 0
    /\ board = [closed |-> FALSE,
                done |-> FALSE,                           \* b.ctx is cancelled
                cards |-> {},                             \* b.cards, and b.index
                card |-> [c \in Calls |-> [status |-> "unborn", key |-> NoKey, request |-> <<None, None>>,
                                           updated |-> 0, number |-> 0]],
                idempotency |-> [k \in Keys |-> None],    \* the id of the retained operation
                tombstones |-> [c \in Calls |-> None],    \* when the retained response expires
                count |-> [s \in Statuses |-> 0],         \* statusCount
                leases |-> [c \in Calls |-> None],        \* the token of the current lease
                live |-> {},                              \* tokens whose context is not cancelled
                cancels |-> {},                           \* tokens whose cancel is about to be called
                tokens |-> 0,                             \* tokens handed out so far
                admitted |-> 0]                           \* cards admitted so far

-----------------------------------------------------------------------------
(***************************************************************************)
(* retainTerminalLocked, for one card or in slice order for several: the   *)
(* response outlives the card for the retention, and so does its key.      *)
(***************************************************************************)
RetainTerminal(b, cs) ==
    LET kept == {c \in cs : now < b.card[c].updated + Retention}
        keptFor(k) == {c \in kept : b.card[c].key = k}
    IN  [b EXCEPT !.tombstones = [c \in Calls |-> IF c \in kept THEN b.card[c].updated + Retention
                                                 ELSE b.tombstones[c]],
                  !.idempotency = [k \in Keys |->
                      IF b.idempotency[k] = None /\ keptFor(k) # {}
                      THEN CHOOSE c \in keptFor(k) : IsFirst(b, keptFor(k), c)
                      ELSE b.idempotency[k]]]

(***************************************************************************)
(* finishTransitionLocked, with the lease that the transition takes away:  *)
(* its context is cancelled only after Board.mu is released.               *)
(***************************************************************************)
MoveTo(b, c, status) ==
    LET from == b.card[c].status
        taken == IF from = "claimed" THEN {b.leases[c]} \ {None} ELSE {}
        moved == [b EXCEPT !.card[c].status = status,
                           !.card[c].updated = now,
                           !.count = [s \in Statuses |-> b.count[s] - (IF s = from THEN 1 ELSE 0)
                                                                   + (IF s = status THEN 1 ELSE 0)],
                           !.leases[c] = IF from = "claimed" THEN None ELSE @,
                           !.cancels = @ \cup taken]
    IN  IF status \in TerminalStatus THEN RetainTerminal(moved, {c}) ELSE moved

CallCancel(b, tokens) == [b EXCEPT !.live = @ \ tokens, !.cancels = @ \ tokens]

(***************************************************************************)
(* evictLocked: retained operations whose window is over, then terminal    *)
(* cards older than the TTL, then the oldest terminal cards over the cap.  *)
(***************************************************************************)
ExpireRetained(b) ==
    LET gone == {c \in Calls : b.tombstones[c] # None /\ now >= b.tombstones[c]}
    IN  [b EXCEPT !.tombstones = [c \in Calls |-> IF c \in gone THEN None ELSE b.tombstones[c]],
                  !.idempotency = [k \in Keys |->
                      IF b.idempotency[k] \in gone THEN None ELSE b.idempotency[k]]]

\* removeCardLocked and the count, for every card a sweep does not keep
RemoveCards(b, cs) ==
    IF cs = {} THEN b
    ELSE RetainTerminal([b EXCEPT !.cards = @ \ cs,
                                  !.count = [s \in Statuses |->
                                      @[s] - Cardinality({c \in cs : b.card[c].status = s})]], cs)

Settled(b) == {c \in b.cards : IsTerminal(b, c)}

Aged(b) ==
    IF CardTTL = 0 THEN {} ELSE {c \in Settled(b) : now - b.card[c].updated > CardTTL}

Capped(b, aged) ==
    LET excess == Cardinality(b.cards \ aged) - MaxCards
        before(c) == {d \in Settled(b) \ aged : b.card[d].number < b.card[c].number}
    IN  IF MaxCards = 0 THEN {} ELSE {c \in Settled(b) \ aged : Cardinality(before(c)) < excess}

Evict(b) ==
    LET aged == Aged(b)
    IN  RemoveCards(ExpireRetained(b), aged \cup Capped(b, aged))

(***************************************************************************)
(* idempotentSubmissionLocked on a board just evicted: the operation found *)
(* under the key, which replays if its fingerprint is the same.            *)
(***************************************************************************)

Found(b, key) == IF key = NoKey THEN None ELSE b.idempotency[key]

(***************************************************************************)
(* The admission at the end of Submit.                                     *)
(***************************************************************************)
Admit(b, c, key, request) ==
    Evict([b EXCEPT !.cards = @ \cup {c},
                    !.card[c] = [status |-> "pending", key |-> key, request |-> request,
                                 updated |-> now, number |-> b.admitted + 1],
                    !.admitted = @ + 1,
                    !.idempotency = [k \in Keys |-> IF k = key THEN c ELSE b.idempotency[k]],
                    !.count["pending"] = @ + 1])

PendingLimit(b) == MaxPending > 0 /\ b.count["pending"] >= MaxPending

(***************************************************************************)
(* Claim: a pending card, the first of the slice, with a lease of its own. *)
(* ClaimCard is the operational claim of one card, without a lease.        *)
(***************************************************************************)
PendingCards(b) == {c \in b.cards : b.card[c].status = "pending"}

Claim(b, c) ==
    LET token == b.tokens + 1
    IN  [MoveTo(b, c, "claimed") EXCEPT !.leases[c] = token,
                                        !.live = @ \cup {token},
                                        !.tokens = token]

\* Mutant: the token is not compared with the current lease.
CompleteAnyLease(b, c, token, status) ==
    IF Indexed(b, c) /\ b.leases[c] # None /\ b.card[c].status = "claimed"
    THEN CallCancel(MoveTo(b, c, status), {token})
    ELSE b

(***************************************************************************)
(* Complete: ignored unless the token is the card's current lease.  The    *)
(* cancel that follows ends a context whose run is over.                   *)
(***************************************************************************)
CompleteLease(b, c, token, status) ==
    IF Indexed(b, c) /\ b.leases[c] = token /\ b.card[c].status = "claimed"
    THEN CallCancel(MoveTo(b, c, status), {token})
    ELSE b

(***************************************************************************)
(* Close drops every lease, then cancels them and the board's context;     *)
(* cards stay as they are.                                                 *)
(***************************************************************************)
CloseBoard(b) ==
    [b EXCEPT !.closed = TRUE,
              !.leases = [c \in Calls |-> None],
              !.cancels = @ \cup ({b.leases[c] : c \in Calls} \ {None})]

(***************************************************************************)
(* Status: from the card while it is indexed, else from the tombstone.     *)
(***************************************************************************)
Status(b, c) ==
    IF b.card[c].status = "unborn" THEN "unborn"
    ELSE IF ~Indexed(b, c) /\ (b.tombstones[c] = None \/ now >= b.tombstones[c]) THEN "forgotten"
    ELSE CASE b.card[c].status \in {"pending", "suspended"} -> "accepted"
           [] b.card[c].status = "claimed" -> "running"
           [] b.card[c].status = "done" -> "succeeded"
           [] OTHER -> b.card[c].status
=============================================================================
