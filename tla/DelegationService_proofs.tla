---------------------- MODULE DelegationService_proofs ----------------------
(***************************************************************************)
(* Proofs about DelegationService, for every set of calls, keys, workers   *)
(* and surroundings, every limit, TTL and retention: the types; the counts *)
(* of the board are exact; a card has one current run; no worker sleeps on *)
(* pending work; what the service replays can be asked about; the first    *)
(* run of a streaming delegation has its sinks; and the service keeps the  *)
(* contract of AsyncBackend.                                               *)
(*                                                                         *)
(* The board comes first.  Its critical sections are operators on one      *)
(* record, so each is shown, once, to keep BoardInv and to be one of five  *)
(* relations between two boards: an eviction, a transition, a claim, an    *)
(* admission, or a change of leases and contexts only.  The steps of the   *)
(* service and the refinement then rest on these relations.                *)
(***************************************************************************)
EXTENDS DelegationService, FiniteSetTheorems, TLAPS

-----------------------------------------------------------------------------
(* The inductive invariant. *)

\* The response or the key of the operation is still owed to callers.
Owed(b, c) == b.card[c].status # "unborn" /\ (IsTerminal(b, c) => b.tombstones[c] # None)

\* Cards and tombstones: an unsettled card is indexed, a settled one has its tombstone for
\* the whole retention.
CardInv(b, t) ==
    \A c \in Calls :
        /\ b.card[c].status = "unborn" => c \notin b.cards
        /\ b.card[c].status \notin TerminalStatus \cup {"unborn"} => c \in b.cards
        /\ b.card[c].updated <= t
        /\ b.tombstones[c] # None => IsTerminal(b, c) /\ b.tombstones[c] = b.card[c].updated + Retention
        /\ IsTerminal(b, c) /\ t < b.card[c].updated + Retention => b.tombstones[c] # None

\* A key is bound to the operation it names as long as that is owed, and only so long.
KeyInv(b) ==
    /\ \A k \in Keys : b.idempotency[k] # None =>
          b.card[b.idempotency[k]].key = k /\ Owed(b, b.idempotency[k])
    /\ \A c \in Calls : b.card[c].key # NoKey /\ Owed(b, c) => b.idempotency[b.card[c].key] = c

\* Leases are of claimed cards, live, not about to be cancelled and nobody else's; tokens
\* are never handed out twice.
LeaseInv(b) ==
    /\ \A c \in Calls : b.leases[c] # None =>
          b.card[c].status = "claimed" /\ b.leases[c] \in b.live \ b.cancels
    /\ \A c, d \in Calls : b.leases[c] # None /\ b.leases[c] = b.leases[d] => c = d
    /\ \A n \in b.live \cup b.cancels : n \in 1..b.tokens
    /\ b.closed => \A c \in Calls : b.leases[c] = None

\* The counters agree with the cards.
CountInv(b) ==
    /\ IsFiniteSet(b.cards)
    /\ \A s \in Statuses : b.count[s] = Cardinality({c \in b.cards : b.card[c].status = s})

\* The board as a whole, at time t.
BoardInv(b, t) == CardInv(b, t) /\ KeyInv(b) /\ LeaseInv(b) /\ CountInv(b)

\* Calls: what is submitted was not admitted before, only calls of the service are on its
\* map, and nothing is cached for longer than the board retains it.
CallInv ==
    /\ \A c \in Calls :
        /\ call[c].pc \in {"idle", "single", "waiting", "store", "submit", "validate", "release"} =>
              board.card[c].status = "unborn"
        /\ call[c].pc = "waiting" => call[c].follows \in Calls
        /\ call[c].pc = "single" => Key(c) \in Keys /\ c \notin env.direct
    /\ \A k \in Keys :
        /\ cache[k].expires <= cache[k].at + Retention
        /\ inflight[k] # None => Key(inflight[k]) = k /\ inflight[k] \notin env.direct

\* Workers that have claimed a card and not yet left it.
Owning == {w \in Workers : worker[w].pc \in {"claimed", "running", "completing", "release", "stop"}}

\* Workers: every claim has its own token, and a first run that is current is the only run.
WorkerInv ==
    /\ \A w \in Workers :
        /\ w \notin env.workers => worker[w].pc = "claim"
        /\ worker[w].token <= board.tokens
        /\ w \in Owning => /\ worker[w].token # None
                           /\ worker[w].card \in Calls
                           /\ board.card[worker[w].card].status # "unborn"
                           /\ lastRun[worker[w].card] # None
        /\ worker[w].pc = "completing" => worker[w].response \in TerminalStatus
        /\ w \in Owning /\ worker[w].first /\ lastRun[worker[w].card] = worker[w].token =>
              \A v \in Owning : worker[v].card = worker[w].card => v = w
    /\ \A v, w \in Workers : worker[v].token = worker[w].token /\ worker[w].token # None => v = w
    /\ \A c \in Calls : lastRun[c] <= board.tokens

\* The sinks of the call are in escrow, or their TTL is over.
EscrowOK(c) == escrow[c] # None \/ now > storedAt[c] + EscrowTTL

\* The sinks are in escrow from before the admission until the first run takes them.
StreamInv ==
    /\ \A c \in Calls : escrow[c] # None => escrow[c] > storedAt[c] + EscrowTTL
    /\ \A c \in Calls : storedAt[c] <= now
    /\ \A c \in env.stream :
          /\ \/ call[c].pc \in {"submit", "validate"}
             \/ board.card[c].status # "unborn" /\ lastRun[c] = None
          /\ service.closing # "done"
          => EscrowOK(c)
    /\ \A w \in Workers :
          /\ worker[w].pc = "claimed" /\ worker[w].first
          /\ worker[w].card \in env.stream /\ lastRun[worker[w].card] = worker[w].token
          => EscrowOK(worker[w].card)

\* When Close has returned, the service's calls and workers are over.
CloseInv ==
    /\ service.closing # "open" => service.closed
    /\ service.closing = "done" =>
          /\ \A w \in env.workers : worker[w].pc = "exited"
          /\ \A c \in Calls \ env.direct : call[c].pc \in {"idle", "returned"}

\* The inductive invariant.
IndInv ==
    /\ TypeOK
    /\ BoardInv(board, now)
    /\ CallInv /\ WorkerInv /\ StreamInv /\ CloseInv
    /\ OneCurrentRun /\ NoSleepOnPendingWork /\ FirstRunHasSinks

-----------------------------------------------------------------------------
(* Evictions. *)

\* Same board but for what eviction may change.
SameWork(b, e) ==
    /\ e.closed = b.closed /\ e.done = b.done /\ e.card = b.card /\ e.leases = b.leases
    /\ e.live = b.live /\ e.cancels = b.cancels /\ e.tokens = b.tokens /\ e.admitted = b.admitted

\* The retention windows that are over at t.
Over(b, t, c) == b.tombstones[c] # None /\ t >= b.tombstones[c]

\* e is b after an eviction at t.
EvictRel(b, e, t) ==
    /\ SameWork(b, e)
    /\ e.cards \subseteq b.cards /\ \A c \in b.cards \ e.cards : IsTerminal(b, c)
    /\ \A c \in Calls : e.tombstones[c] = IF Over(b, t, c) THEN None ELSE b.tombstones[c]
    /\ \A k \in Keys : e.idempotency[k] =
          IF b.idempotency[k] # None /\ Over(b, t, b.idempotency[k]) THEN None ELSE b.idempotency[k]

\* What the assumptions say of the constants.
LEMMA ConstantTypes ==
    /\ Calls \subseteq Nat /\ None \notin Calls /\ Keys \subseteq Nat /\ NoKey \notin Keys
    /\ None = 0 /\ NoKey = 0 /\ Retention \in Nat \ {0} /\ None \in Nat
    BY BoardConstants DEF None, NoKey

\* Expiring ends the retention windows that are over, with their keys, and nothing else.
LEMMA ExpireEffect ==
    ASSUME NEW b \in Boards, now \in Nat
    PROVE  LET x == ExpireRetained(b) IN
           /\ x \in Boards /\ SameWork(b, x) /\ x.cards = b.cards /\ x.count = b.count
           /\ \A c \in Calls : x.tombstones[c] = IF Over(b, now, c) THEN None ELSE b.tombstones[c]
           /\ \A k \in Keys : x.idempotency[k] =
                IF b.idempotency[k] # None /\ Over(b, now, b.idempotency[k]) THEN None ELSE b.idempotency[k]
<1> DEFINE gone == {c \in Calls : b.tombstones[c] # None /\ now >= b.tombstones[c]}
           T == [c \in Calls |-> IF c \in gone THEN None ELSE b.tombstones[c]]
           I == [k \in Keys |-> IF b.idempotency[k] \in gone THEN None ELSE b.idempotency[k]]
           x == ExpireRetained(b)
<1>1. x = [b EXCEPT !.tombstones = T, !.idempotency = I]
    BY DEF ExpireRetained
<1>2. T \in [Calls -> Nat] /\ I \in [Keys -> Calls \cup {None}]
    BY ConstantTypes DEF Boards
<1>3. \A c \in Calls : T[c] = IF Over(b, now, c) THEN None ELSE b.tombstones[c]
    BY DEF Over
<1>4. \A k \in Keys :
        I[k] = IF b.idempotency[k] # None /\ Over(b, now, b.idempotency[k]) THEN None ELSE b.idempotency[k]
    BY ConstantTypes DEF Over, Boards
<1> HIDE DEF T, I, gone, x
<1>5. x \in Boards /\ x.tombstones = T /\ x.idempotency = I
    BY <1>1, <1>2 DEF Boards
<1>6. SameWork(b, x) /\ x.cards = b.cards /\ x.count = b.count
    BY <1>1 DEF Boards, SameWork
<1> QED BY <1>3, <1>4, <1>5, <1>6 DEF x

\* The count of a status after some cards are removed.
LEMMA CountRemove ==
    ASSUME NEW b \in Boards, CountInv(b), NEW cs \in SUBSET b.cards, NEW s \in Statuses
    PROVE  LET Of(S) == {c \in S : b.card[c].status = s} IN
           /\ IsFiniteSet(b.cards \ cs)
           /\ b.count[s] - Cardinality(Of(cs)) = Cardinality(Of(b.cards \ cs))
           /\ Cardinality(Of(b.cards \ cs)) \in Nat
<1> DEFINE Of(S) == {c \in S : b.card[c].status = s}
<1>1. IsFiniteSet(b.cards) /\ b.count[s] = Cardinality(Of(b.cards))
    BY DEF CountInv
<1>2. IsFiniteSet(Of(b.cards))
    BY <1>1, FS_Subset
<1>3. Of(b.cards \ cs) = Of(b.cards) \ Of(cs) /\ Of(b.cards) \cap Of(cs) = Of(cs)
    OBVIOUS
<1>4. IsFiniteSet(b.cards \ cs)
    BY <1>1, FS_Difference
<1>5. IsFiniteSet(Of(b.cards) \ Of(cs))
      /\ Cardinality(Of(b.cards) \ Of(cs)) = Cardinality(Of(b.cards)) - Cardinality(Of(b.cards) \cap Of(cs))
    BY <1>2, FS_Difference
<1>6. Cardinality(Of(b.cards) \ Of(cs)) \in Nat
    BY <1>5, FS_CardinalityType
<1> QED BY <1>1, <1>3, <1>4, <1>5, <1>6

\* Removing settled cards keeps the counts exact; their responses and keys are retained
\* already.
LEMMA RemoveEffect ==
    ASSUME NEW b \in Boards, now \in Nat, CardInv(b, now), KeyInv(b), CountInv(b),
           NEW cs \in SUBSET b.cards, \A c \in cs : IsTerminal(b, c)
    PROVE  LET x == RemoveCards(b, cs) IN
           /\ x \in Boards /\ CountInv(x) /\ SameWork(b, x) /\ x.cards = b.cards \ cs
           /\ x.tombstones = b.tombstones /\ x.idempotency = b.idempotency
<1> DEFINE N == [s \in Statuses |-> b.count[s] - Cardinality({c \in cs : b.card[c].status = s})]
           r == [b EXCEPT !.cards = b.cards \ cs, !.count = N]
           kept == {c \in cs : now < r.card[c].updated + Retention}
           KF(k) == {c \in kept : r.card[c].key = k}
           T == [c \in Calls |-> IF c \in kept THEN r.card[c].updated + Retention ELSE r.tombstones[c]]
           I == [k \in Keys |-> IF r.idempotency[k] = None /\ KF(k) # {}
                                THEN CHOOSE c \in KF(k) : IsFirst(r, KF(k), c) ELSE r.idempotency[k]]
<1>1. CASE cs = {}
    BY <1>1 DEF RemoveCards, SameWork
<1>2. CASE cs # {}
  <2>1. N \in [Statuses -> Nat] /\ IsFiniteSet(b.cards \ cs)
        /\ \A s \in Statuses : N[s] = Cardinality({c \in b.cards \ cs : b.card[c].status = s})
    <3>1. \A s \in Statuses : /\ b.count[s] - Cardinality({c \in cs : b.card[c].status = s})
                                   = Cardinality({c \in b.cards \ cs : b.card[c].status = s})
                              /\ Cardinality({c \in b.cards \ cs : b.card[c].status = s}) \in Nat
        BY CountRemove
    <3>2. IsFiniteSet(b.cards \ cs)
        BY FS_Difference DEF CountInv
    <3> QED BY <3>1, <3>2
  <2> HIDE DEF N
  <2>2. /\ r \in Boards /\ r.cards = b.cards \ cs /\ r.count = N /\ SameWork(b, r)
        /\ r.tombstones = b.tombstones /\ r.idempotency = b.idempotency
      BY <2>1 DEF Boards, SameWork
  <2>3. CountInv(r)
      BY <2>1, <2>2 DEF CountInv, SameWork
  <2>4. RemoveCards(b, cs) = [r EXCEPT !.tombstones = T, !.idempotency = I]
      BY <1>2 DEF RemoveCards, RetainTerminal, N
  <2> HIDE DEF r
  <2>5. \A c \in kept : c \in Calls /\ b.tombstones[c] # None
                        /\ b.tombstones[c] = b.card[c].updated + Retention /\ r.card[c] = b.card[c]
      BY <2>2 DEF CardInv, Boards, SameWork
  <2>6. \A k \in Keys : b.idempotency[k] = None => KF(k) = {}
    <3> SUFFICES ASSUME NEW k \in Keys, NEW c \in KF(k), b.idempotency[k] = None PROVE FALSE
        OBVIOUS
    <3>1. c \in kept /\ b.card[c].key = k /\ c \in Calls /\ c \in cs
        BY <2>5
    <3>2. Owed(b, c)
        BY <2>5 DEF Owed, IsTerminal, TerminalStatus
    <3>3. b.idempotency[k] = c
        BY <3>1, <3>2, ConstantTypes DEF KeyInv
    <3> QED BY <3>3, <3>1, ConstantTypes
  <2>7. T = r.tombstones
      BY <2>5, <2>2 DEF Boards
  <2>8. I = r.idempotency
      BY <2>6, <2>2 DEF Boards
  <2>9. [r EXCEPT !.tombstones = r.tombstones, !.idempotency = r.idempotency] = r
      BY <2>2 DEF Boards
  <2>10. RemoveCards(b, cs) = r
      BY <2>4, <2>7, <2>8, <2>9
  <2> QED BY <2>10, <2>2, <2>3
<1> QED BY <1>1, <1>2

\* An eviction keeps the invariants of the cards and of the keys.
LEMMA EvictKeeps ==
    ASSUME NEW b \in Boards, NEW e \in Boards, NEW t \in Nat, CardInv(b, t), KeyInv(b), EvictRel(b, e, t)
    PROVE  CardInv(e, t) /\ KeyInv(e)
<1>1. CardInv(e, t)
  <2> SUFFICES ASSUME NEW c \in Calls
               PROVE  /\ e.card[c].status = "unborn" => c \notin e.cards
                      /\ e.card[c].status \notin TerminalStatus \cup {"unborn"} => c \in e.cards
                      /\ e.card[c].updated <= t
                      /\ e.tombstones[c] # None =>
                         IsTerminal(e, c) /\ e.tombstones[c] = e.card[c].updated + Retention
                      /\ IsTerminal(e, c) /\ t < e.card[c].updated + Retention => e.tombstones[c] # None
      BY DEF CardInv
  <2>1. e.tombstones[c] = IF Over(b, t, c) THEN None ELSE b.tombstones[c]
      BY DEF EvictRel
  <2>2. b.card[c].updated \in Nat /\ b.tombstones[c] \in Nat
      BY DEF Boards, Cards
  <2>3. e.card = b.card
      BY DEF EvictRel, SameWork
  <2> QED BY <2>1, <2>2, <2>3 DEF EvictRel, CardInv, IsTerminal, Over
<1>2. KeyInv(e)
  <2>1. ASSUME NEW k \in Keys, e.idempotency[k] # None
        PROVE  e.card[e.idempotency[k]].key = k /\ Owed(e, e.idempotency[k])
    <3>1. e.idempotency[k] = b.idempotency[k] /\ b.idempotency[k] \in Calls /\ ~Over(b, t, b.idempotency[k])
        BY <2>1, ConstantTypes DEF Boards, EvictRel
    <3>2. e.card = b.card /\ e.tombstones[b.idempotency[k]] = b.tombstones[b.idempotency[k]]
        BY <3>1 DEF EvictRel, SameWork
    <3>3. b.card[b.idempotency[k]].key = k /\ Owed(b, b.idempotency[k])
        BY <2>1, <3>1 DEF KeyInv
    <3> QED BY <3>1, <3>2, <3>3 DEF Owed, IsTerminal
  <2>2. ASSUME NEW c \in Calls, e.card[c].key # NoKey, Owed(e, c)
        PROVE  e.idempotency[e.card[c].key] = c
    <3>1. e.card = b.card /\ b.card[c].key \in Keys
        BY <2>2 DEF EvictRel, SameWork, Boards, Cards
    <3>2. Owed(b, c) /\ ~Over(b, t, c)
        BY <2>2, <3>1 DEF EvictRel, Owed, IsTerminal, Over, CardInv
    <3>3. b.idempotency[b.card[c].key] = c
        BY <3>1, <3>2, <2>2 DEF KeyInv
    <3> QED BY <3>1, <3>2, <3>3 DEF EvictRel
  <2> QED BY <2>1, <2>2 DEF KeyInv
<1> QED BY <1>1, <1>2

\* evictLocked removes settled cards only, and forgets only what is over.
LEMMA EvictEffect ==
    ASSUME NEW b \in Boards, now \in Nat, CardInv(b, now), KeyInv(b), CountInv(b)
    PROVE  Evict(b) \in Boards /\ EvictRel(b, Evict(b), now) /\ CountInv(Evict(b))
<1> DEFINE x == ExpireRetained(b)
           cs == Aged(b) \cup Capped(b, Aged(b))
<1>1. /\ x \in Boards /\ SameWork(b, x) /\ x.cards = b.cards /\ x.count = b.count
      /\ \A c \in Calls : x.tombstones[c] = IF Over(b, now, c) THEN None ELSE b.tombstones[c]
      /\ \A k \in Keys : x.idempotency[k] =
           IF b.idempotency[k] # None /\ Over(b, now, b.idempotency[k]) THEN None ELSE b.idempotency[k]
    BY ExpireEffect
<1>2. Evict(b) = RemoveCards(x, cs)
    BY DEF Evict
<1>3. cs \subseteq b.cards /\ \A c \in cs : IsTerminal(b, c)
  <2>1. Aged(b) \subseteq Settled(b)
      BY DEF Aged
  <2>2. Capped(b, Aged(b)) \subseteq Settled(b)
      BY DEF Capped
  <2> QED BY <2>1, <2>2 DEF Settled
<1> HIDE DEF x, cs
<1>4. EvictRel(b, x, now)
    BY <1>1 DEF EvictRel
<1>5. CardInv(x, now) /\ KeyInv(x)
    BY <1>1, <1>4, EvictKeeps
<1>6. CountInv(x)
    BY <1>1 DEF CountInv, SameWork
<1>7. cs \in SUBSET x.cards /\ \A c \in cs : IsTerminal(x, c)
    BY <1>1, <1>3 DEF SameWork, IsTerminal
<1>8. LET e == RemoveCards(x, cs) IN
      /\ e \in Boards /\ CountInv(e) /\ SameWork(x, e) /\ e.cards = x.cards \ cs
      /\ e.tombstones = x.tombstones /\ e.idempotency = x.idempotency
    BY <1>1, <1>5, <1>6, <1>7, RemoveEffect
<1>9. EvictRel(b, RemoveCards(x, cs), now)
    BY <1>1, <1>3, <1>8 DEF EvictRel, SameWork
<1> QED BY <1>2, <1>8, <1>9

-----------------------------------------------------------------------------
(* Transitions, claims, closing and admissions. *)

\* One card moved to a status, and nothing else but what that entails.
MoveRel(b, m, c, s, t) ==
    /\ m.closed = b.closed /\ m.done = b.done /\ m.cards = b.cards /\ m.live = b.live
    /\ m.idempotency = b.idempotency /\ m.tokens = b.tokens /\ m.admitted = b.admitted
    /\ \A d \in Calls \ {c} : /\ m.card[d] = b.card[d] /\ m.tombstones[d] = b.tombstones[d]
                              /\ m.leases[d] = b.leases[d]
    /\ m.card[c].status = s /\ m.card[c].updated = t /\ m.card[c].key = b.card[c].key
    /\ m.card[c].request = b.card[c].request
    /\ m.tombstones[c] = IF s \in TerminalStatus THEN t + Retention ELSE b.tombstones[c]
    /\ m.leases[c] = None
    /\ m.cancels = b.cancels \cup ({b.leases[c]} \ {None})

\* The statuses an operator or a worker moves a card from.
Unsettled == {"pending", "claimed", "suspended"}

\* The counts after one card has changed its status.
LEMMA CountMove ==
    ASSUME NEW b \in Boards, CountInv(b), NEW c \in b.cards, NEW s \in Statuses,
           b.card[c].status \in Statuses, s # b.card[c].status,
           NEW K, K[c].status = s, \A d \in Calls \ {c} : K[d] = b.card[d], NEW q \in Statuses
    PROVE  /\ b.count[q] - (IF q = b.card[c].status THEN 1 ELSE 0) + (IF q = s THEN 1 ELSE 0)
                = Cardinality({d \in b.cards : K[d].status = q})
           /\ Cardinality({d \in b.cards : K[d].status = q}) \in Nat
<1> DEFINE B == {d \in b.cards : b.card[d].status = q}
           M == {d \in b.cards : K[d].status = q}
<1>1. IsFiniteSet(b.cards) /\ b.count[q] = Cardinality(B)
    BY DEF CountInv
<1>2. IsFiniteSet(B)
    BY <1>1, FS_Subset
<1>3. b.cards \subseteq Calls /\ c \in Calls
    BY DEF Boards
<1>4. Cardinality(B) \in Nat
    BY <1>2, FS_CardinalityType
<1> SUFFICES /\ Cardinality(B) - (IF q = b.card[c].status THEN 1 ELSE 0) + (IF q = s THEN 1 ELSE 0)
                  = Cardinality(M)
             /\ Cardinality(M) \in Nat
    BY <1>1
<1>5. CASE q = s
  <2>1. M = B \cup {c} /\ c \notin B
      BY <1>3, <1>5
  <2>2. Cardinality(B \cup {c}) = Cardinality(B) + 1
      BY <1>2, <2>1, FS_AddElement
  <2> HIDE DEF B, M
  <2>3. Cardinality(M) = Cardinality(B) + 1
      BY <2>1, <2>2
  <2> QED BY <1>4, <1>5, <2>3
<1>6. CASE q # s /\ q = b.card[c].status
  <2>1. M = B \ {c} /\ c \in B
      BY <1>3, <1>6
  <2>2. IsFiniteSet(B \ {c}) /\ Cardinality(B \ {c}) = Cardinality(B) - 1
      BY <1>2, <2>1, FS_RemoveElement
  <2>3. Cardinality(B \ {c}) \in Nat
      BY <2>2, FS_CardinalityType
  <2> HIDE DEF B, M
  <2>4. Cardinality(M) = Cardinality(B) - 1 /\ Cardinality(M) \in Nat
      BY <2>1, <2>2, <2>3
  <2> QED BY <1>4, <1>6, <2>4
<1>7. CASE q # s /\ q # b.card[c].status
  <2>1. M = B
      BY <1>3, <1>7
  <2> HIDE DEF B, M
  <2> QED BY <1>4, <1>7, <2>1
<1> QED BY <1>5, <1>6, <1>7

\* What finishTransitionLocked does to the board.
LEMMA MoveEffect ==
    ASSUME NEW b \in Boards, now \in Nat, KeyInv(b), CountInv(b), LeaseInv(b), NEW c \in b.cards,
           b.card[c].status \in Unsettled, NEW s \in Statuses, s # b.card[c].status
    PROVE  LET m == MoveTo(b, c, s) IN m \in Boards /\ MoveRel(b, m, c, s, now) /\ CountInv(m)
<1> DEFINE from == b.card[c].status
           taken == IF from = "claimed" THEN {b.leases[c]} \ {None} ELSE {}
           N == [q \in Statuses |-> b.count[q] - (IF q = from THEN 1 ELSE 0) + (IF q = s THEN 1 ELSE 0)]
           K == [b.card EXCEPT ![c].status = s, ![c].updated = now]
           L == [b.leases EXCEPT ![c] = IF from = "claimed" THEN None ELSE @]
           moved == [b EXCEPT !.card[c].status = s, !.card[c].updated = now, !.count = N,
                              !.leases[c] = IF from = "claimed" THEN None ELSE @,
                              !.cancels = @ \cup taken]
<1>1. c \in Calls /\ from \in Statuses /\ now \in Nat /\ None \in Nat /\ b.leases \in [Calls -> Nat]
      /\ b.card \in [Calls -> Cards] /\ b.cancels \in SUBSET Nat
    BY ConstantTypes DEF Boards, Unsettled, Statuses
<1>2. K \in [Calls -> Cards] /\ K[c].status = s /\ K[c].updated = now /\ K[c].key = b.card[c].key
      /\ K[c].request = b.card[c].request /\ \A d \in Calls \ {c} : K[d] = b.card[d]
    BY <1>1 DEF Cards
<1>3. L \in [Calls -> Nat] /\ L[c] = None /\ \A d \in Calls \ {c} : L[d] = b.leases[d]
    BY <1>1 DEF LeaseInv
<1>4. taken = {b.leases[c]} \ {None} /\ taken \in SUBSET Nat
    BY <1>1 DEF LeaseInv
<1>5. N \in [Statuses -> Nat]
      /\ \A q \in Statuses : N[q] = Cardinality({d \in b.cards : K[d].status = q})
  <2> HIDE DEF K
  <2>1. \A q \in Statuses :
          /\ b.count[q] - (IF q = b.card[c].status THEN 1 ELSE 0) + (IF q = s THEN 1 ELSE 0)
                = Cardinality({d \in b.cards : K[d].status = q})
          /\ Cardinality({d \in b.cards : K[d].status = q}) \in Nat
      BY <1>1, <1>2, CountMove
  <2> QED BY <2>1
<1>6. moved = [b EXCEPT !.card = K, !.count = N, !.leases = L, !.cancels = b.cancels \cup taken]
    BY <1>1 DEF Boards
<1> HIDE DEF from, taken, N, K, L, moved
<1>7. /\ moved \in Boards /\ moved.card = K /\ moved.count = N /\ moved.leases = L
      /\ moved.cancels = b.cancels \cup taken
      /\ moved.closed = b.closed /\ moved.done = b.done /\ moved.cards = b.cards /\ moved.live = b.live
      /\ moved.idempotency = b.idempotency /\ moved.tokens = b.tokens /\ moved.admitted = b.admitted
      /\ moved.tombstones = b.tombstones
    BY <1>2, <1>3, <1>4, <1>5, <1>6 DEF Boards
<1>8. CountInv(moved)
    BY <1>5, <1>7 DEF CountInv
<1>9. CASE s \notin TerminalStatus
  <2>1. MoveTo(b, c, s) = moved
      BY <1>9 DEF MoveTo, moved, N, taken, from
  <2> QED BY <2>1, <1>1, <1>2, <1>3, <1>4, <1>7, <1>8, <1>9 DEF MoveRel
<1>10. CASE s \in TerminalStatus
  <2> DEFINE kept == {d \in {c} : now < moved.card[d].updated + Retention}
             KF(k) == {d \in kept : moved.card[d].key = k}
             T == [d \in Calls |-> IF d \in kept THEN moved.card[d].updated + Retention ELSE moved.tombstones[d]]
             I == [k \in Keys |-> IF moved.idempotency[k] = None /\ KF(k) # {}
                                  THEN CHOOSE d \in KF(k) : IsFirst(moved, KF(k), d) ELSE moved.idempotency[k]]
  <2>1. MoveTo(b, c, s) = [moved EXCEPT !.tombstones = T, !.idempotency = I]
    <3>1. MoveTo(b, c, s) = RetainTerminal(moved, {c})
        BY <1>10 DEF MoveTo, moved, N, taken, from
    <3> QED BY <3>1 DEF RetainTerminal
  <2>2. kept = {c}
      BY <1>2, <1>7, ConstantTypes
  <2>3. \A k \in Keys : b.idempotency[k] = None => KF(k) = {}
    <3>1. ASSUME NEW k \in Keys, NEW d \in KF(k), b.idempotency[k] = None PROVE FALSE
      <4>1. d = c /\ b.card[c].key = k
          BY <2>2, <3>1, <1>2, <1>7
      <4>2. Owed(b, c)
          BY DEF Owed, IsTerminal, Unsettled, TerminalStatus
      <4>3. b.idempotency[k] = c
          BY <4>1, <4>2, <1>1, ConstantTypes DEF KeyInv
      <4> QED BY <4>3, <3>1, <1>1, ConstantTypes
    <3> QED BY <3>1
  <2>4. I = moved.idempotency
      BY <2>3, <1>7 DEF Boards
  <2>5. T \in [Calls -> Nat] /\ T[c] = now + Retention /\ \A d \in Calls \ {c} : T[d] = b.tombstones[d]
      BY <1>2, <1>7, ConstantTypes DEF Boards
  <2> HIDE DEF T, I, kept
  <2>6. MoveTo(b, c, s) = [moved EXCEPT !.tombstones = T]
      BY <2>1, <2>4, <1>7 DEF Boards
  <2> DEFINE m == [moved EXCEPT !.tombstones = T]
  <2>7. /\ m \in Boards /\ m.tombstones = T /\ m.card = K /\ m.count = N /\ m.leases = L
        /\ m.cancels = b.cancels \cup taken
        /\ m.closed = b.closed /\ m.done = b.done /\ m.cards = b.cards /\ m.live = b.live
        /\ m.idempotency = b.idempotency /\ m.tokens = b.tokens /\ m.admitted = b.admitted
      BY <1>7, <2>5 DEF Boards
  <2> HIDE DEF m
  <2>8. CountInv(m)
    <3>1. m.cards = moved.cards /\ m.card = moved.card /\ m.count = moved.count
        BY <1>7, <2>7
    <3> QED BY <1>8, <3>1 DEF CountInv
  <2>9. MoveRel(b, m, c, s, now)
      BY <2>7, <2>5, <1>2, <1>3, <1>4, <1>10 DEF MoveRel
  <2> QED BY <2>6, <2>7, <2>8, <2>9 DEF m
<1> QED BY <1>9, <1>10

\* A transition keeps the invariants of cards, keys and leases.
LEMMA MoveKeeps ==
    ASSUME NEW b \in Boards, NEW m \in Boards, NEW t \in Nat, CardInv(b, t), KeyInv(b), LeaseInv(b),
           NEW c \in b.cards, b.card[c].status \in Unsettled, NEW s \in Statuses, MoveRel(b, m, c, s, t)
    PROVE  CardInv(m, t) /\ KeyInv(m) /\ LeaseInv(m)
<1>1. c \in Calls /\ b.tombstones[c] = None /\ ~IsTerminal(b, c) /\ Owed(b, c)
    BY DEF Boards, CardInv, IsTerminal, Unsettled, TerminalStatus, Owed
<1>2. \A d \in Calls : Owed(b, d) <=> Owed(m, d)
  <2>1. Owed(m, c)
      BY ConstantTypes DEF MoveRel, Owed, IsTerminal, Statuses, TerminalStatus
  <2>2. \A d \in Calls \ {c} : Owed(b, d) <=> Owed(m, d)
      BY DEF MoveRel, Owed, IsTerminal
  <2> QED BY <2>1, <2>2, <1>1
<1>3. \A d \in Calls : m.card[d].key = b.card[d].key
    BY DEF MoveRel
<1>4. CardInv(m, t)
  <2> SUFFICES ASSUME NEW d \in Calls
               PROVE  /\ m.card[d].status = "unborn" => d \notin m.cards
                      /\ m.card[d].status \notin TerminalStatus \cup {"unborn"} => d \in m.cards
                      /\ m.card[d].updated <= t
                      /\ m.tombstones[d] # None =>
                         IsTerminal(m, d) /\ m.tombstones[d] = m.card[d].updated + Retention
                      /\ IsTerminal(m, d) /\ t < m.card[d].updated + Retention => m.tombstones[d] # None
      BY DEF CardInv
  <2>1. CASE d = c
      BY <2>1, <1>1, ConstantTypes DEF MoveRel, IsTerminal, Statuses, TerminalStatus
  <2>2. CASE d # c
      BY <2>2 DEF MoveRel, IsTerminal, CardInv
  <2> QED BY <2>1, <2>2
<1>5. KeyInv(m)
  <2>1. m.idempotency = b.idempotency
      BY DEF MoveRel
  <2>2. \A k \in Keys : m.idempotency[k] # None =>
          m.card[m.idempotency[k]].key = k /\ Owed(m, m.idempotency[k])
    <3>1. \A k \in Keys : b.idempotency[k] # None => b.idempotency[k] \in Calls
        BY DEF Boards
    <3> QED BY <2>1, <3>1, <1>2, <1>3 DEF KeyInv
  <2>3. \A d \in Calls : m.card[d].key # NoKey /\ Owed(m, d) => m.idempotency[m.card[d].key] = d
      BY <2>1, <1>2, <1>3 DEF KeyInv
  <2> QED BY <2>2, <2>3 DEF KeyInv
<1>6. LeaseInv(m)
    BY <1>1 DEF LeaseInv, MoveRel
<1> QED BY <1>4, <1>5, <1>6

\* The same board but for leases, tokens and contexts.
SameCards(b, y) ==
    /\ y.cards = b.cards /\ y.card = b.card /\ y.idempotency = b.idempotency
    /\ y.tombstones = b.tombstones /\ y.count = b.count /\ y.admitted = b.admitted

\* The invariants that depend on the cards only.
LEMMA SameCardsKeeps ==
    ASSUME NEW b, NEW y, NEW t, SameCards(b, y), CardInv(b, t), KeyInv(b), CountInv(b)
    PROVE  CardInv(y, t) /\ KeyInv(y) /\ CountInv(y)
<1>1. CardInv(y, t)
    BY DEF SameCards, CardInv, IsTerminal
<1>2. KeyInv(y)
    BY DEF SameCards, KeyInv, Owed, IsTerminal
<1>3. CountInv(y)
    BY DEF SameCards, CountInv
<1> QED BY <1>1, <1>2, <1>3

\* An eviction keeps the invariant of the board.
LEMMA EvictBoard ==
    ASSUME NEW b \in Boards, now \in Nat, BoardInv(b, now)
    PROVE  Evict(b) \in Boards /\ EvictRel(b, Evict(b), now) /\ BoardInv(Evict(b), now)
<1>1. Evict(b) \in Boards /\ EvictRel(b, Evict(b), now) /\ CountInv(Evict(b))
    BY EvictEffect DEF BoardInv
<1>2. CardInv(Evict(b), now) /\ KeyInv(Evict(b))
    BY <1>1, EvictKeeps DEF BoardInv
<1>3. LeaseInv(Evict(b))
    BY <1>1 DEF BoardInv, LeaseInv, EvictRel, SameWork
<1> QED BY <1>1, <1>2, <1>3 DEF BoardInv

\* A transition of an unsettled card keeps the invariant of the board.
LEMMA MoveBoard ==
    ASSUME NEW b \in Boards, now \in Nat, BoardInv(b, now), NEW c \in b.cards,
           b.card[c].status \in Unsettled, NEW s \in Statuses, s # b.card[c].status
    PROVE  /\ MoveTo(b, c, s) \in Boards /\ MoveRel(b, MoveTo(b, c, s), c, s, now)
           /\ BoardInv(MoveTo(b, c, s), now)
<1>1. MoveTo(b, c, s) \in Boards /\ MoveRel(b, MoveTo(b, c, s), c, s, now) /\ CountInv(MoveTo(b, c, s))
    BY MoveEffect DEF BoardInv
<1>2. CardInv(MoveTo(b, c, s), now) /\ KeyInv(MoveTo(b, c, s)) /\ LeaseInv(MoveTo(b, c, s))
    BY <1>1, MoveKeeps DEF BoardInv
<1> QED BY <1>1, <1>2 DEF BoardInv

\* Calling the cancel of tokens that are nobody's lease keeps the invariant of the board.
LEMMA CancelBoard ==
    ASSUME NEW b \in Boards, NEW t, BoardInv(b, t), NEW toks, \A c \in Calls : b.leases[c] \notin toks
    PROVE  LET y == CallCancel(b, toks) IN
           /\ y \in Boards /\ SameCards(b, y) /\ BoardInv(y, t)
           /\ y.closed = b.closed /\ y.done = b.done /\ y.leases = b.leases /\ y.tokens = b.tokens
           /\ y.live = b.live \ toks /\ y.cancels = b.cancels \ toks
<1> DEFINE y == CallCancel(b, toks)
<1>1. /\ y \in Boards /\ SameCards(b, y)
      /\ y.closed = b.closed /\ y.done = b.done /\ y.leases = b.leases /\ y.tokens = b.tokens
      /\ y.live = b.live \ toks /\ y.cancels = b.cancels \ toks
    BY DEF CallCancel, Boards, SameCards
<1> HIDE DEF y
<1>2. CardInv(y, t) /\ KeyInv(y) /\ CountInv(y)
    BY <1>1, SameCardsKeeps DEF BoardInv
<1>3. LeaseInv(y)
    BY <1>1 DEF BoardInv, LeaseInv, SameCards
<1>4. BoardInv(y, t)
    BY <1>2, <1>3 DEF BoardInv
<1> QED BY <1>1, <1>4 DEF y

\* A claim keeps the invariant of the board and hands out a fresh token.
LEMMA ClaimBoard ==
    ASSUME NEW b \in Boards, now \in Nat, BoardInv(b, now), ~b.closed, NEW c \in PendingCards(b)
    PROVE  LET m == Claim(b, c) IN
           /\ m \in Boards /\ BoardInv(m, now)
           /\ m.closed = b.closed /\ m.done = b.done /\ m.cards = b.cards
           /\ m.idempotency = b.idempotency /\ \A d \in Calls : m.tombstones[d] = b.tombstones[d]
           /\ \A d \in Calls \ {c} : m.card[d] = b.card[d] /\ m.leases[d] = b.leases[d]
           /\ m.card[c].status = "claimed" /\ m.card[c].key = b.card[c].key
           /\ m.card[c].request = b.card[c].request
           /\ m.leases[c] = b.tokens + 1 /\ m.tokens = b.tokens + 1
           /\ m.live = b.live \cup {b.tokens + 1} /\ m.cancels = b.cancels
<1> DEFINE x == MoveTo(b, c, "claimed")
           token == b.tokens + 1
           L == [x.leases EXCEPT ![c] = token]
           m == Claim(b, c)
<1>1. c \in b.cards /\ c \in Calls /\ b.card[c].status = "pending" /\ b.tokens \in Nat
    BY DEF PendingCards, Boards
<1>2. x \in Boards /\ MoveRel(b, x, c, "claimed", now) /\ BoardInv(x, now)
    BY <1>1, MoveBoard DEF Unsettled, Statuses
<1>3. m = [x EXCEPT !.leases[c] = token, !.live = x.live \cup {token}, !.tokens = token]
    BY DEF Claim
<1> HIDE DEF x, m
<1>4. L \in [Calls -> Nat] /\ token \in Nat /\ L[c] = token /\ \A d \in Calls \ {c} : L[d] = x.leases[d]
    BY <1>1, <1>2 DEF Boards
<1>5. /\ m \in Boards /\ SameCards(x, m) /\ m.closed = x.closed /\ m.done = x.done
      /\ m.leases = L /\ m.live = x.live \cup {token} /\ m.tokens = token /\ m.cancels = x.cancels
    BY <1>2, <1>3, <1>4 DEF Boards, SameCards
<1> HIDE DEF L
<1>6. CardInv(m, now) /\ KeyInv(m) /\ CountInv(m)
    BY <1>2, <1>5, SameCardsKeeps DEF BoardInv
<1>7. b.leases[c] = None /\ x.cancels = b.cancels /\ x.live = b.live /\ x.tokens = b.tokens
      /\ x.card[c].status = "claimed"
    BY <1>1, <1>2 DEF BoardInv, LeaseInv, MoveRel
<1>8. token \notin b.live /\ token \notin b.cancels
    BY <1>1 DEF BoardInv, LeaseInv
<1>9. LeaseInv(m)
  <2>1. \A d \in Calls :
          m.leases[d] # None => m.card[d].status = "claimed" /\ m.leases[d] \in m.live \ m.cancels
      BY <1>2, <1>4, <1>5, <1>7, <1>8 DEF BoardInv, LeaseInv, SameCards
  <2>2. \A d, e \in Calls : m.leases[d] # None /\ m.leases[d] = m.leases[e] => d = e
    <3>1. \A d \in Calls \ {c} : m.leases[d] # None => m.leases[d] \in b.live
        BY <1>2, <1>4, <1>5, <1>7 DEF BoardInv, LeaseInv
    <3>2. m.leases[c] = token
        BY <1>4, <1>5
    <3>3. \A d, e \in Calls \ {c} : m.leases[d] # None /\ m.leases[d] = m.leases[e] => d = e
        BY <1>2, <1>4, <1>5 DEF BoardInv, LeaseInv
    <3> QED BY <3>1, <3>2, <3>3, <1>8
  <2>3. \A n \in m.live \cup m.cancels : n \in 1..m.tokens
      BY <1>5, <1>7 DEF BoardInv, LeaseInv, Boards
  <2>4. ~m.closed
      BY <1>2, <1>5 DEF MoveRel
  <2> QED BY <2>1, <2>2, <2>3, <2>4 DEF LeaseInv
<1>10. BoardInv(m, now)
    BY <1>6, <1>9 DEF BoardInv
<1>11. \A d \in Calls : m.tombstones[d] = b.tombstones[d]
    BY <1>2, <1>5 DEF MoveRel, SameCards, TerminalStatus
<1> QED BY <1>1, <1>2, <1>4, <1>5, <1>7, <1>10, <1>11 DEF MoveRel, SameCards, m

\* A card joined the board.
AdmitRel(b, a, c, key, t) ==
    /\ a.closed = b.closed /\ a.done = b.done /\ a.tombstones = b.tombstones /\ a.leases = b.leases
    /\ a.live = b.live /\ a.cancels = b.cancels /\ a.tokens = b.tokens
    /\ a.cards = b.cards \cup {c}
    /\ \A d \in Calls \ {c} : a.card[d] = b.card[d]
    /\ a.card[c].status = "pending" /\ a.card[c].key = key /\ a.card[c].updated = t
    /\ \A k \in Keys : a.idempotency[k] = IF k = key THEN c ELSE b.idempotency[k]

\* The board of Admit before its eviction.
Joined(b, c, key, request) ==
    [b EXCEPT !.cards = @ \cup {c},
              !.card[c] = [status |-> "pending", key |-> key, request |-> request,
                           updated |-> now, number |-> b.admitted + 1],
              !.admitted = @ + 1,
              !.idempotency = [k \in Keys |-> IF k = key THEN c ELSE b.idempotency[k]],
              !.count["pending"] = @ + 1]

\* A new card under a free key keeps the invariant of the board.
LEMMA JoinBoard ==
    ASSUME NEW b \in Boards, now \in Nat, BoardInv(b, now), NEW c \in Calls,
           b.card[c].status = "unborn", NEW key \in Keys \cup {NoKey}, Found(b, key) = None,
           NEW request \in Nat \X (Calls \cup {None})
    PROVE  LET a == Joined(b, c, key, request) IN
           a \in Boards /\ AdmitRel(b, a, c, key, now) /\ BoardInv(a, now)
<1> DEFINE a == Joined(b, c, key, request)
           r == [status |-> "pending", key |-> key, request |-> request,
                 updated |-> now, number |-> b.admitted + 1]
           K == [b.card EXCEPT ![c] = r]
           I == [k \in Keys |-> IF k = key THEN c ELSE b.idempotency[k]]
           N == [b.count EXCEPT !["pending"] = @ + 1]
<1>1. c \notin b.cards /\ b.tombstones[c] = None /\ ~Owed(b, c) /\ b.leases[c] = None
    BY DEF BoardInv, CardInv, LeaseInv, IsTerminal, TerminalStatus, Owed
<1>2. r \in Cards
    BY DEF Cards, Statuses, Boards
<1>3. K \in [Calls -> Cards] /\ K[c] = r /\ \A d \in Calls \ {c} : K[d] = b.card[d]
    BY <1>2 DEF Boards
<1>4. I \in [Keys -> Calls \cup {None}]
    BY DEF Boards
<1>5. N \in [Statuses -> Nat] /\ \A q \in Statuses : N[q] = b.count[q] + (IF q = "pending" THEN 1 ELSE 0)
    BY DEF Boards, Statuses
<1>6. a = [b EXCEPT !.cards = b.cards \cup {c}, !.card = K, !.admitted = b.admitted + 1,
        !.idempotency = I, !.count = N]
    BY DEF Joined
<1>7. r.status = "pending" /\ r.key = key /\ r.updated = now
    OBVIOUS
<1> HIDE DEF a, r, K, I, N
<1>8. /\ a \in Boards /\ a.cards = b.cards \cup {c} /\ a.card = K /\ a.count = N /\ a.idempotency = I
      /\ a.closed = b.closed /\ a.done = b.done /\ a.tombstones = b.tombstones /\ a.leases = b.leases
      /\ a.live = b.live /\ a.cancels = b.cancels /\ a.tokens = b.tokens
  <2>1. /\ a.cards = b.cards \cup {c} /\ a.card = K /\ a.count = N /\ a.idempotency = I
        /\ a.closed = b.closed /\ a.done = b.done /\ a.tombstones = b.tombstones /\ a.leases = b.leases
        /\ a.live = b.live /\ a.cancels = b.cancels /\ a.tokens = b.tokens
      BY <1>6 DEF Boards
  <2>2. b.admitted + 1 \in Nat /\ b.cards \cup {c} \in SUBSET Calls
      BY DEF Boards
  <2>3. a \in Boards
      BY <1>3, <1>4, <1>5, <1>6, <2>2 DEF Boards
  <2> QED BY <2>1, <2>3
<1>9. AdmitRel(b, a, c, key, now)
    BY <1>3, <1>7, <1>8 DEF AdmitRel, I
<1>10. CountInv(a)
  <2>1. CountInv(b) /\ K[c].status = "pending"
      BY <1>3, <1>7 DEF BoardInv
  <2>2. c \notin b.cards /\ K \in [Calls -> Cards] /\ a.cards = b.cards \cup {c} /\ a.cards \in SUBSET Calls
        /\ \A d \in Calls \ {c} : K[d] = b.card[d]
      BY <1>1, <1>3, <1>8 DEF Boards
  <2>3. ASSUME NEW q \in Statuses
        PROVE  b.count[q] + (IF q = "pending" THEN 1 ELSE 0) =
                   Cardinality({d \in a.cards : K[d].status = q})
    <3> DEFINE B == {d \in b.cards : b.card[d].status = q}
               M == {d \in a.cards : K[d].status = q}
    <3>1. IsFiniteSet(b.cards) /\ b.count[q] = Cardinality(B)
        BY <2>1 DEF CountInv
    <3>2. IsFiniteSet(B)
        BY <3>1, FS_Subset
    <3>3. Cardinality(B) \in Nat
        BY <3>2, FS_CardinalityType
    <3> SUFFICES Cardinality(B) + (IF q = "pending" THEN 1 ELSE 0) = Cardinality(M)
        BY <3>1
    <3>4. CASE q = "pending"
      <4>1. M = B \cup {c} /\ c \notin B
          BY <2>1, <2>2, <3>4
      <4>2. Cardinality(B \cup {c}) = Cardinality(B) + 1
          BY <3>2, <4>1, FS_AddElement
      <4> HIDE DEF B, M
      <4> QED BY <3>4, <4>1, <4>2
    <3>5. CASE q # "pending"
      <4>1. M = B
          BY <2>1, <2>2, <3>5
      <4> HIDE DEF B, M
      <4> QED BY <3>3, <3>5, <4>1
    <3> QED BY <3>4, <3>5
  <2>4. IsFiniteSet(a.cards)
      BY <2>1, <2>2, FS_AddElement DEF CountInv
  <2> QED BY <2>3, <2>4, <1>5, <1>8 DEF CountInv
<1>11. CardInv(a, now)
  <2> SUFFICES ASSUME NEW d \in Calls
               PROVE  /\ a.card[d].status = "unborn" => d \notin a.cards
                      /\ a.card[d].status \notin TerminalStatus \cup {"unborn"} => d \in a.cards
                      /\ a.card[d].updated <= now
                      /\ a.tombstones[d] # None =>
                         IsTerminal(a, d) /\ a.tombstones[d] = a.card[d].updated + Retention
                      /\ IsTerminal(a, d) /\ now < a.card[d].updated + Retention => a.tombstones[d] # None
      BY DEF CardInv
  <2>1. CASE d = c
      BY <2>1, <1>1, <1>9 DEF AdmitRel, IsTerminal, TerminalStatus
  <2>2. CASE d # c
      BY <2>2, <1>9 DEF AdmitRel, IsTerminal, CardInv, BoardInv
  <2> QED BY <2>1, <2>2
<1>12. KeyInv(a)
  <2>1. \A d \in Calls \ {c} : Owed(a, d) <=> Owed(b, d)
      BY <1>9 DEF AdmitRel, Owed, IsTerminal
  <2>2. Owed(a, c)
      BY <1>9 DEF AdmitRel, Owed, IsTerminal, TerminalStatus
  <2>3. ASSUME NEW k \in Keys, a.idempotency[k] # None
        PROVE  a.card[a.idempotency[k]].key = k /\ Owed(a, a.idempotency[k])
    <3>1. CASE k = key
        BY <3>1, <2>2, <1>9 DEF AdmitRel
    <3>2. CASE k # key
      <4>1. a.idempotency[k] = b.idempotency[k] /\ b.idempotency[k] \in Calls
          BY <3>2, <2>3, <1>9 DEF AdmitRel, Boards
      <4>2. b.card[b.idempotency[k]].key = k /\ Owed(b, b.idempotency[k])
          BY <2>3, <4>1 DEF BoardInv, KeyInv
      <4> QED BY <4>1, <4>2, <1>1, <2>1, <1>9 DEF AdmitRel
    <3> QED BY <3>1, <3>2
  <2>4. ASSUME NEW d \in Calls, a.card[d].key # NoKey, Owed(a, d)
        PROVE  a.idempotency[a.card[d].key] = d
    <3>1. CASE d = c
        BY <3>1, <2>4, <1>9 DEF AdmitRel
    <3>2. CASE d # c
      <4>1. a.card[d] = b.card[d] /\ Owed(b, d) /\ b.card[d].key \in Keys
          BY <3>2, <2>1, <2>4, <1>9 DEF AdmitRel, Boards, Cards
      <4>2. b.idempotency[b.card[d].key] = d
          BY <4>1, <2>4 DEF BoardInv, KeyInv
      <4>3. b.card[d].key # key
          BY <4>1, <4>2, ConstantTypes DEF Found
      <4> QED BY <4>1, <4>2, <4>3, <1>9 DEF AdmitRel
    <3> QED BY <3>1, <3>2
  <2> QED BY <2>3, <2>4 DEF KeyInv
<1>13. LeaseInv(a)
  <2>1. \A d \in Calls : a.leases[d] # None => a.card[d] = b.card[d]
      BY <1>1, <1>9 DEF AdmitRel
  <2> QED BY <2>1, <1>8 DEF BoardInv, LeaseInv
<1> QED BY <1>8, <1>9, <1>10, <1>11, <1>12, <1>13 DEF BoardInv, a

\* Close of the board keeps its invariant.
LEMMA CloseKeeps ==
    ASSUME NEW b \in Boards, NEW t, BoardInv(b, t)
    PROVE  LET y == CloseBoard(b) IN
           /\ y \in Boards /\ SameCards(b, y) /\ BoardInv(y, t) /\ y.closed /\ y.done = b.done
           /\ y.tokens = b.tokens
<1> DEFINE y == CloseBoard(b)
           C == b.cancels \cup ({b.leases[c] : c \in Calls} \ {None})
<1>1. C \in SUBSET Nat
    BY DEF Boards
<1>2. \A n \in C : n \in 1..b.tokens
    BY DEF BoardInv, LeaseInv
<1>3. y = [b EXCEPT !.closed = TRUE, !.leases = [c \in Calls |-> None], !.cancels = C]
    BY DEF CloseBoard
<1> HIDE DEF y, C
<1>4. /\ y \in Boards /\ SameCards(b, y) /\ y.closed = TRUE /\ y.done = b.done /\ y.tokens = b.tokens
      /\ y.leases = [c \in Calls |-> None] /\ y.cancels = C /\ y.live = b.live
    BY <1>1, <1>3, ConstantTypes DEF Boards, SameCards
<1>5. LeaseInv(y)
    BY <1>2, <1>4 DEF BoardInv, LeaseInv
<1>6. BoardInv(y, t)
    BY <1>4, <1>5, SameCardsKeeps DEF BoardInv
<1> QED BY <1>4, <1>6 DEF y

\* The end of the board's context keeps its invariant.
LEMMA EndKeeps ==
    ASSUME NEW b \in Boards, NEW t, BoardInv(b, t), b.closed
    PROVE  LET y == [b EXCEPT !.done = TRUE, !.live = {}, !.cancels = {}] IN
           /\ y \in Boards /\ SameCards(b, y) /\ BoardInv(y, t) /\ y.closed
           /\ y.tokens = b.tokens
<1> DEFINE y == [b EXCEPT !.done = TRUE, !.live = {}, !.cancels = {}]
<1>1. /\ y \in Boards /\ SameCards(b, y) /\ y.closed = b.closed /\ y.tokens = b.tokens
      /\ y.leases = b.leases /\ y.cancels = {} /\ y.live = {}
    BY DEF Boards, SameCards
<1> HIDE DEF y
<1>2. LeaseInv(y)
    BY <1>1 DEF BoardInv, LeaseInv
<1>3. BoardInv(y, t)
    BY <1>1, <1>2, SameCardsKeeps DEF BoardInv
<1> QED BY <1>1, <1>3 DEF y

\* The admission is a new card followed by an eviction.
LEMMA AdmitBoard ==
    ASSUME NEW b \in Boards, now \in Nat, BoardInv(b, now), NEW c \in Calls,
           b.card[c].status = "unborn", NEW key \in Keys \cup {NoKey}, Found(b, key) = None,
           NEW request \in Nat \X (Calls \cup {None})
    PROVE  LET a == Joined(b, c, key, request)
               e == Admit(b, c, key, request) IN
           /\ a \in Boards /\ AdmitRel(b, a, c, key, now) /\ BoardInv(a, now)
           /\ e \in Boards /\ EvictRel(a, e, now) /\ BoardInv(e, now)
<1> DEFINE a == Joined(b, c, key, request)
<1>1. a \in Boards /\ AdmitRel(b, a, c, key, now) /\ BoardInv(a, now)
    BY JoinBoard
<1>2. Admit(b, c, key, request) = Evict(a)
    BY DEF Admit, Joined
<1> HIDE DEF a
<1>3. Evict(a) \in Boards /\ EvictRel(a, Evict(a), now) /\ BoardInv(Evict(a), now)
    BY <1>1, EvictBoard
<1> QED BY <1>1, <1>2, <1>3 DEF a

-----------------------------------------------------------------------------
(* Steps of calls, workers, janitors and Close that leave the board alone. *)

\* What the types say of the surroundings.
LEMMA EnvTypes ==
    ASSUME TypeOK
    PROVE  /\ now \in Nat /\ board \in Boards /\ env \in Environments
           /\ env.calls \subseteq Calls /\ env.stream \subseteq Calls /\ env.workers \subseteq Workers
           /\ env.direct \cap env.stream = {}
           /\ env.responses \subseteq TerminalStatus /\ env.ticks \in Nat /\ env.operations \in Nat
           /\ \A c \in Calls : Key(c) \in Keys \cup {NoKey} /\ Request(c) \in Nat
           /\ EscrowTTL \in Nat /\ ServiceRetention \in Nat /\ AsyncRetention \in Nat
           /\ AsyncRetention <= Retention
    BY ServiceConstants, ConstantTypes DEF TypeOK, Key, Request, AsyncRetention

\* The program counters, spelled out.
LEMMA PcTypes ==
    /\ CallPcs = {"idle", "single", "waiting", "returned", "store", "submit", "validate",
       "rearm", "release", "settle"}
    /\ WorkerPcs = {"claim", "blocked", "claimed", "running", "completing", "release", "stop",
       "record", "exited"}
    /\ InFlight = {"store", "submit", "validate", "rearm", "release", "settle"}
    BY DEF CallPcs, WorkerPcs, InFlight

\* What a call knows at the steps where it uses its key or the call it follows.
LEMMA CallFacts ==
    ASSUME IndInv, NEW c \in Calls
    PROVE  /\ call[c].pc = "single" => Key(c) \in Keys
           /\ call[c].pc = "waiting" => call[c].follows \in Calls
           /\ Key(c) # NoKey => Key(c) \in Keys
    BY EnvTypes DEF IndInv, CallInv

\* The parts of TypeOK.
CallRecs == [Calls -> [pc : CallPcs, result : Calls \cup {None, Error}, follows : Calls \cup {None}]]
CacheRecs == [Keys -> [id : Calls \cup {None}, request : Nat, at : Nat, expires : Nat]]
WorkerRecs == [Workers -> [pc : WorkerPcs, card : Calls \cup {None}, token : Nat,
                           response : TerminalStatus \cup {"none"}, first : BOOLEAN,
                           took : BOOLEAN, at : Nat]]
InflightOK ==
    /\ inflight \in [Keys -> Calls \cup {None}]
    /\ \A k \in Keys : inflight[k] # None => call[inflight[k]].pc \in InFlight
RestType ==
    /\ env \in Environments
    /\ now \in 0..env.ticks
    /\ board \in Boards
    /\ ready \subseteq Workers
    /\ escrow \in [Calls -> Nat] /\ storedAt \in [Calls -> Nat]
    /\ lastRun \in [Calls -> Nat \cup {Parked}]
    /\ service \in [closed : BOOLEAN, cancelled : BOOLEAN, closing : {"open", "cancel", "wait", "done"}]
    /\ operations \in 0..env.operations

\* The type invariant in parts.
LEMMA TypeParts ==
    /\ TypeOK <=> call \in CallRecs /\ cache \in CacheRecs /\ InflightOK /\ worker \in WorkerRecs /\ RestType
    /\ TypeOK' <=> /\ (call \in CallRecs)' /\ (cache \in CacheRecs)' /\ InflightOK'
                   /\ (worker \in WorkerRecs)' /\ RestType'
    BY DEF TypeOK, CallRecs, CacheRecs, InflightOK, WorkerRecs, RestType

\* A call that sets its result.
LEMMA OutcomeType ==
    ASSUME call \in CallRecs, NEW c \in Calls, NEW result \in Calls \cup {None, Error}, NEW pc \in CallPcs,
           Outcome(c, result, pc)
    PROVE  (call \in CallRecs)'
    BY DEF Outcome, CallRecs

\* Sweeping drops the entries that are out of date.
LEMMA SweptFacts ==
    ASSUME RestType
    PROVE  /\ Swept \in [Calls -> Nat]
           /\ \A c \in Calls : Swept[c] = IF escrow[c] # None /\ now >= escrow[c] THEN None ELSE escrow[c]
    BY ConstantTypes DEF RestType, Swept

\* An escrow entry goes only when it is out of date, and is stored or refreshed for the whole TTL.
EscrowMove(c) ==
    /\ escrow'[c] = None => escrow[c] = None \/ now >= escrow[c]
    /\ escrow'[c] # None => escrow'[c] = escrow[c] \/ escrow'[c] = now + EscrowTTL + 1

\* An entry that moves this way is still there within its TTL.
LEMMA EscrowKeepsOne ==
    ASSUME IndInv, NEW c \in Calls, EscrowMove(c), storedAt'[c] = storedAt[c], now' = now
    PROVE  /\ EscrowOK(c) => EscrowOK(c)'
           /\ escrow'[c] # None => escrow'[c] > storedAt'[c] + EscrowTTL
           /\ storedAt'[c] <= now'
<1>1. now \in Nat /\ EscrowTTL \in Nat /\ storedAt[c] \in Nat /\ escrow[c] \in Nat
    BY EnvTypes DEF IndInv, TypeOK
<1>2. storedAt[c] <= now /\ (escrow[c] # None => escrow[c] > storedAt[c] + EscrowTTL)
    BY DEF IndInv, StreamInv
<1> QED BY <1>1, <1>2 DEF EscrowMove, EscrowOK

\* So a step that only refreshes or sweeps the escrow loses no sinks in time.
LEMMA EscrowKeeps ==
    ASSUME IndInv, \A c \in Calls : EscrowMove(c), storedAt' = storedAt, now' = now, env' = env,
           \A c \in Calls : board'.card[c].status # "unborn" /\ lastRun'[c] = None =>
               \/ board.card[c].status # "unborn" /\ lastRun[c] = None
               \/ call[c].pc \in {"submit", "validate"},
           \A c \in Calls : call'[c].pc \in {"submit", "validate"} => call[c].pc \in {"submit", "validate"},
           service'.closing = service.closing,
           \A w \in Workers :
               /\ worker'[w].pc = "claimed" /\ worker'[w].first /\ lastRun'[worker'[w].card] = worker'[w].token
               => /\ worker'[w].card \in Calls
                  /\ \/ worker[w].pc = "claimed" /\ worker[w].first /\ worker'[w].card = worker[w].card
                        /\ lastRun[worker[w].card] = worker[w].token
                     \/ /\ board.card[worker'[w].card].status # "unborn" /\ lastRun[worker'[w].card] = None
                        /\ service.closing # "done"
    PROVE  StreamInv'
<1>1. \A c \in Calls : /\ EscrowOK(c) => EscrowOK(c)'
                       /\ escrow'[c] # None => escrow'[c] > storedAt'[c] + EscrowTTL
                       /\ storedAt'[c] <= now'
    BY EscrowKeepsOne
<1>2. env.stream \subseteq Calls
    BY EnvTypes DEF IndInv
<1>3. ASSUME NEW c \in env.stream,
             \/ call'[c].pc \in {"submit", "validate"}
             \/ board'.card[c].status # "unborn" /\ lastRun'[c] = None,
             service'.closing # "done"
      PROVE  EscrowOK(c)'
    BY <1>1, <1>2, <1>3 DEF IndInv, StreamInv
<1>4. ASSUME NEW w \in Workers, worker'[w].pc = "claimed", worker'[w].first,
             worker'[w].card \in env.stream, lastRun'[worker'[w].card] = worker'[w].token
      PROVE  (EscrowOK(worker[w].card))'
  <2>1. EscrowOK(worker'[w].card)
      BY <1>4 DEF IndInv, StreamInv
  <2>2. escrow'[worker'[w].card] # None \/ now' > storedAt'[worker'[w].card] + EscrowTTL
      BY <1>1, <1>4, <2>1 DEF EscrowOK
  <2> QED BY <2>2 DEF EscrowOK
<1> QED BY <1>1, <1>3, <1>4 DEF StreamInv

\* Delegate begins keeps the invariant.
LEMMA BeginKeeps ==
    ASSUME IndInv, NEW c \in Calls, Begin(c)
    PROVE  IndInv'
<1>1. TypeOK /\ call \in CallRecs /\ cache \in CacheRecs /\ InflightOK /\ worker \in WorkerRecs /\ RestType
    BY TypeParts DEF IndInv
<1>2. TypeOK'
  <2>1. (call \in CallRecs)'
      BY <1>1, PcTypes DEF CallRecs, Begin, Outcome, Goto
  <2>2. InflightOK'
      BY <1>1, PcTypes DEF InflightOK, CallRecs, Begin, Outcome, Goto
  <2>3. (cache \in CacheRecs)' /\ (worker \in WorkerRecs)'
      BY <1>1 DEF Begin, workVars
  <2>4. RestType'
      BY <1>1 DEF RestType, Begin, workVars
  <2> QED BY <2>1, <2>2, <2>3, <2>4, TypeParts
<1>3. (BoardInv(board, now))'
    BY DEF IndInv, Begin
<1>4. CallInv'
    BY <1>1, EnvTypes DEF IndInv, CallInv, CallRecs, Key, Begin, Outcome, Goto
<1>5. WorkerInv'
    BY DEF IndInv, WorkerInv, Owning, Begin, workVars
<1>6. StreamInv'
    BY <1>1, EnvTypes, ConstantTypes DEF IndInv, StreamInv, EscrowOK, CallRecs, Begin,
       Outcome, Goto, workVars
<1>7. CloseInv'
    BY <1>1 DEF IndInv, CloseInv, CallRecs, Begin, Outcome, workVars
<1>8. OneCurrentRun'
    BY DEF IndInv, OneCurrentRun, Holding, Begin, workVars
<1>9. NoSleepOnPendingWork'
    BY DEF IndInv, NoSleepOnPendingWork, Begin, workVars
<1>10. FirstRunHasSinks'
    BY DEF IndInv, FirstRunHasSinks, Holding, Begin, workVars
<1> QED BY <1>2, <1>3, <1>4, <1>5, <1>6, <1>7, <1>8, <1>9, <1>10 DEF IndInv

\* A submission on the board itself begins: it has no sinks to be kept.
LEMMA SubmitDirectlyKeeps ==
    ASSUME IndInv, NEW c \in Calls, SubmitDirectly(c)
    PROVE  IndInv'
<1>1. TypeOK /\ call \in CallRecs /\ cache \in CacheRecs /\ InflightOK /\ worker \in WorkerRecs /\ RestType
    BY TypeParts DEF IndInv
<1>2. TypeOK'
  <2>1. (call \in CallRecs)'
      BY <1>1, PcTypes DEF CallRecs, SubmitDirectly, Goto
  <2>2. InflightOK'
      BY <1>1, PcTypes DEF InflightOK, CallRecs, SubmitDirectly, Goto
  <2>3. (cache \in CacheRecs)' /\ (worker \in WorkerRecs)'
      BY <1>1 DEF SubmitDirectly, workVars
  <2>4. RestType'
      BY <1>1 DEF RestType, SubmitDirectly, workVars
  <2> QED BY <2>1, <2>2, <2>3, <2>4, TypeParts
<1>3. (BoardInv(board, now))'
    BY DEF IndInv, SubmitDirectly
<1>4. CallInv'
    BY <1>1, EnvTypes DEF IndInv, CallInv, CallRecs, Key, SubmitDirectly, Goto
<1>5. WorkerInv'
    BY DEF IndInv, WorkerInv, Owning, SubmitDirectly, workVars
<1>6. StreamInv'
    BY <1>1, EnvTypes, ConstantTypes DEF IndInv, StreamInv, EscrowOK, CallRecs, SubmitDirectly,
       Goto, workVars
<1>7. CloseInv'
    BY <1>1 DEF IndInv, CloseInv, CallRecs, SubmitDirectly, Goto, workVars
<1>8. OneCurrentRun'
    BY DEF IndInv, OneCurrentRun, Holding, SubmitDirectly, workVars
<1>9. NoSleepOnPendingWork'
    BY DEF IndInv, NoSleepOnPendingWork, SubmitDirectly, workVars
<1>10. FirstRunHasSinks'
    BY DEF IndInv, FirstRunHasSinks, Holding, SubmitDirectly, workVars
<1> QED BY <1>2, <1>3, <1>4, <1>5, <1>6, <1>7, <1>8, <1>9, <1>10 DEF IndInv

\* A replay from the cache keeps the invariant.
LEMMA ReplayCachedKeeps ==
    ASSUME IndInv, NEW c \in Calls, ReplayCached(c)
    PROVE  IndInv'
<1>1. TypeOK /\ call \in CallRecs /\ cache \in CacheRecs /\ InflightOK /\ worker \in WorkerRecs /\ RestType
    BY TypeParts DEF IndInv
<1>2. TypeOK'
  <2>0. call[c].pc = "single" /\ Key(c) \in Keys
          /\ Outcome(c, IF cache[Key(c)].request = Request(c) THEN cache[Key(c)].id ELSE Error,
                        "returned")
      BY CallFacts DEF ReplayCached
  <2>1. (call \in CallRecs)'
      BY <1>1, <2>0, PcTypes, OutcomeType DEF CacheRecs
  <2>2. (cache \in CacheRecs)'
      BY <1>1 DEF CacheRecs, ReplayCached, Unexpired
  <2>3. InflightOK'
      BY <1>1, PcTypes DEF InflightOK, CallRecs, ReplayCached, Outcome
  <2>4. (worker \in WorkerRecs)'
      BY <1>1 DEF ReplayCached, workVars
  <2>5. RestType'
      BY <1>1 DEF RestType, ReplayCached, workVars
  <2> QED BY <2>1, <2>2, <2>3, <2>4, <2>5, TypeParts
<1>3. (BoardInv(board, now))'
    BY DEF IndInv, ReplayCached
<1>4. CallInv'
    BY <1>1 DEF IndInv, CallInv, CallRecs, Key, ReplayCached, Unexpired, Outcome
<1>5. WorkerInv'
    BY DEF IndInv, WorkerInv, Owning, ReplayCached, workVars
<1>6. StreamInv'
    BY <1>1, EnvTypes DEF IndInv, StreamInv, EscrowOK, CallRecs, ReplayCached, Outcome, workVars
<1>7. CloseInv'
    BY <1>1 DEF IndInv, CloseInv, CallRecs, ReplayCached, Outcome, workVars
<1>8. OneCurrentRun'
    BY DEF IndInv, OneCurrentRun, Holding, ReplayCached, workVars
<1>9. NoSleepOnPendingWork'
    BY DEF IndInv, NoSleepOnPendingWork, ReplayCached, workVars
<1>10. FirstRunHasSinks'
    BY DEF IndInv, FirstRunHasSinks, Holding, ReplayCached, workVars
<1> QED BY <1>2, <1>3, <1>4, <1>5, <1>6, <1>7, <1>8, <1>9, <1>10 DEF IndInv

\* Joining a call in flight keeps the invariant.
LEMMA JoinCallKeeps ==
    ASSUME IndInv, NEW c \in Calls, JoinCall(c)
    PROVE  IndInv'
<1>1. TypeOK /\ call \in CallRecs /\ cache \in CacheRecs /\ InflightOK /\ worker \in WorkerRecs /\ RestType
    BY TypeParts DEF IndInv
<1>2. TypeOK'
  <2>1. (call \in CallRecs)'
      BY <1>1, PcTypes, CallFacts, EnvTypes DEF CallRecs, JoinCall, Outcome
  <2>2. (cache \in CacheRecs)'
      BY <1>1 DEF CacheRecs, JoinCall, Unexpired
  <2>3. InflightOK'
      BY <1>1, PcTypes DEF InflightOK, CallRecs, JoinCall, Outcome
  <2>4. (worker \in WorkerRecs)'
      BY <1>1 DEF JoinCall, workVars
  <2>5. RestType'
      BY <1>1 DEF RestType, JoinCall, workVars
  <2> QED BY <2>1, <2>2, <2>3, <2>4, <2>5, TypeParts
<1>3. (BoardInv(board, now))'
    BY DEF IndInv, JoinCall
<1>4. CallInv'
    BY <1>1, ConstantTypes DEF IndInv, CallInv, CallRecs, Key, JoinCall, Unexpired, Outcome
<1>5. WorkerInv'
    BY DEF IndInv, WorkerInv, Owning, JoinCall, workVars
<1>6. StreamInv'
    BY <1>1, EnvTypes DEF IndInv, StreamInv, EscrowOK, CallRecs, JoinCall, Outcome, workVars
<1>7. CloseInv'
    BY <1>1 DEF IndInv, CloseInv, CallRecs, JoinCall, Outcome, workVars
<1>8. OneCurrentRun'
    BY DEF IndInv, OneCurrentRun, Holding, JoinCall, workVars
<1>9. NoSleepOnPendingWork'
    BY DEF IndInv, NoSleepOnPendingWork, JoinCall, workVars
<1>10. FirstRunHasSinks'
    BY DEF IndInv, FirstRunHasSinks, Holding, JoinCall, workVars
<1> QED BY <1>2, <1>3, <1>4, <1>5, <1>6, <1>7, <1>8, <1>9, <1>10 DEF IndInv

\* Leading a key keeps the invariant.
LEMMA LeadCallKeeps ==
    ASSUME IndInv, NEW c \in Calls, LeadCall(c)
    PROVE  IndInv'
<1>1. TypeOK /\ call \in CallRecs /\ cache \in CacheRecs /\ InflightOK /\ worker \in WorkerRecs /\ RestType
    BY TypeParts DEF IndInv
<1>2. TypeOK'
  <2>1. (call \in CallRecs)'
      BY <1>1, PcTypes, CallFacts, EnvTypes DEF CallRecs, LeadCall, Goto
  <2>2. (cache \in CacheRecs)'
      BY <1>1 DEF CacheRecs, LeadCall, Unexpired
  <2>3. InflightOK'
      BY <1>1, PcTypes DEF InflightOK, CallRecs, LeadCall, Goto
  <2>4. (worker \in WorkerRecs)'
      BY <1>1 DEF LeadCall, workVars
  <2>5. RestType'
      BY <1>1 DEF RestType, LeadCall, workVars
  <2> QED BY <2>1, <2>2, <2>3, <2>4, <2>5, TypeParts
<1>3. (BoardInv(board, now))'
    BY DEF IndInv, LeadCall
<1>4. CallInv'
    BY DEF IndInv, CallInv, Key, LeadCall, Unexpired, Goto
<1>5. WorkerInv'
    BY DEF IndInv, WorkerInv, Owning, LeadCall, workVars
<1>6. StreamInv'
    BY DEF IndInv, StreamInv, EscrowOK, LeadCall, Goto, workVars
<1>7. CloseInv'
    BY <1>1 DEF IndInv, CloseInv, CallRecs, LeadCall, Goto, workVars
<1>8. OneCurrentRun'
    BY DEF IndInv, OneCurrentRun, Holding, LeadCall, workVars
<1>9. NoSleepOnPendingWork'
    BY DEF IndInv, NoSleepOnPendingWork, LeadCall, workVars
<1>10. FirstRunHasSinks'
    BY DEF IndInv, FirstRunHasSinks, Holding, LeadCall, workVars
<1> QED BY <1>2, <1>3, <1>4, <1>5, <1>6, <1>7, <1>8, <1>9, <1>10 DEF IndInv

\* The return of a waiter keeps the invariant.
LEMMA WaiterReturnsKeeps ==
    ASSUME IndInv, NEW c \in Calls, WaiterReturns(c)
    PROVE  IndInv'
<1>1. TypeOK /\ call \in CallRecs /\ cache \in CacheRecs /\ InflightOK /\ worker \in WorkerRecs /\ RestType
    BY TypeParts DEF IndInv
<1>2. TypeOK'
  <2>1. (call \in CallRecs)'
    <3>1. call[c].follows \in Calls
        BY CallFacts DEF WaiterReturns
    <3>2. call[call[c].follows].result \in Calls \cup {None, Error}
        BY <1>1, <3>1 DEF CallRecs
    <3> QED BY <1>1, <3>2, PcTypes, OutcomeType DEF WaiterReturns
  <2>2. InflightOK'
      BY <1>1, PcTypes DEF InflightOK, CallRecs, WaiterReturns, Outcome
  <2>3. (cache \in CacheRecs)' /\ (worker \in WorkerRecs)'
      BY <1>1 DEF WaiterReturns, workVars
  <2>4. RestType'
      BY <1>1 DEF RestType, WaiterReturns, workVars
  <2> QED BY <2>1, <2>2, <2>3, <2>4, TypeParts
<1>3. (BoardInv(board, now))'
    BY DEF IndInv, WaiterReturns
<1>4. CallInv'
    BY <1>1 DEF IndInv, CallInv, CallRecs, Key, WaiterReturns, Outcome
<1>5. WorkerInv'
    BY DEF IndInv, WorkerInv, Owning, WaiterReturns, workVars
<1>6. StreamInv'
    BY <1>1, EnvTypes DEF IndInv, StreamInv, EscrowOK, CallRecs, WaiterReturns, Outcome,
       workVars
<1>7. CloseInv'
    BY <1>1 DEF IndInv, CloseInv, CallRecs, WaiterReturns, Outcome, workVars
<1>8. OneCurrentRun'
    BY DEF IndInv, OneCurrentRun, Holding, WaiterReturns, workVars
<1>9. NoSleepOnPendingWork'
    BY DEF IndInv, NoSleepOnPendingWork, WaiterReturns, workVars
<1>10. FirstRunHasSinks'
    BY DEF IndInv, FirstRunHasSinks, Holding, WaiterReturns, workVars
<1> QED BY <1>2, <1>3, <1>4, <1>5, <1>6, <1>7, <1>8, <1>9, <1>10 DEF IndInv

\* A waiter that gives up keeps the invariant.
LEMMA WaiterGivesUpKeeps ==
    ASSUME IndInv, NEW c \in Calls, WaiterGivesUp(c)
    PROVE  IndInv'
<1>1. TypeOK /\ call \in CallRecs /\ cache \in CacheRecs /\ InflightOK /\ worker \in WorkerRecs /\ RestType
    BY TypeParts DEF IndInv
<1>2. TypeOK'
  <2>1. (call \in CallRecs)'
      BY <1>1, OutcomeType, PcTypes DEF WaiterGivesUp
  <2>2. InflightOK'
      BY <1>1, PcTypes DEF InflightOK, CallRecs, WaiterGivesUp, Outcome
  <2>3. (cache \in CacheRecs)' /\ (worker \in WorkerRecs)'
      BY <1>1 DEF WaiterGivesUp, workVars
  <2>4. RestType'
      BY <1>1 DEF RestType, WaiterGivesUp, workVars
  <2> QED BY <2>1, <2>2, <2>3, <2>4, TypeParts
<1>3. (BoardInv(board, now))'
    BY DEF IndInv, WaiterGivesUp
<1>4. CallInv'
    BY <1>1 DEF IndInv, CallInv, CallRecs, Key, WaiterGivesUp, Outcome
<1>5. WorkerInv'
    BY DEF IndInv, WorkerInv, Owning, WaiterGivesUp, workVars
<1>6. StreamInv'
    BY <1>1, EnvTypes DEF IndInv, StreamInv, EscrowOK, CallRecs, WaiterGivesUp, Outcome,
       workVars
<1>7. CloseInv'
    BY <1>1 DEF IndInv, CloseInv, CallRecs, WaiterGivesUp, Outcome, workVars
<1>8. OneCurrentRun'
    BY DEF IndInv, OneCurrentRun, Holding, WaiterGivesUp, workVars
<1>9. NoSleepOnPendingWork'
    BY DEF IndInv, NoSleepOnPendingWork, WaiterGivesUp, workVars
<1>10. FirstRunHasSinks'
    BY DEF IndInv, FirstRunHasSinks, Holding, WaiterGivesUp, workVars
<1> QED BY <1>2, <1>3, <1>4, <1>5, <1>6, <1>7, <1>8, <1>9, <1>10 DEF IndInv

\* A failed lookup keeps the invariant.
LEMMA LookupFailsKeeps ==
    ASSUME IndInv, NEW c \in Calls, LookupFails(c)
    PROVE  IndInv'
<1>1. TypeOK /\ call \in CallRecs /\ cache \in CacheRecs /\ InflightOK /\ worker \in WorkerRecs /\ RestType
    BY TypeParts DEF IndInv
<1>2. TypeOK'
  <2>1. (call \in CallRecs)'
      BY <1>1, PcTypes, OutcomeType DEF LookupFails
  <2>2. InflightOK'
      BY <1>1, PcTypes DEF InflightOK, CallRecs, LookupFails, Outcome
  <2>3. (cache \in CacheRecs)' /\ (worker \in WorkerRecs)'
      BY <1>1 DEF LookupFails, workVars
  <2>4. RestType'
      BY <1>1 DEF RestType, LookupFails, workVars
  <2> QED BY <2>1, <2>2, <2>3, <2>4, TypeParts
<1>3. (BoardInv(board, now))'
    BY DEF IndInv, LookupFails
<1>4. CallInv'
    BY <1>1 DEF IndInv, CallInv, CallRecs, Key, LookupFails, Outcome
<1>5. WorkerInv'
    BY DEF IndInv, WorkerInv, Owning, LookupFails, workVars
<1>6. StreamInv'
    BY <1>1, EnvTypes DEF IndInv, StreamInv, EscrowOK, CallRecs, LookupFails, Outcome, workVars
<1>7. CloseInv'
    BY <1>1 DEF IndInv, CloseInv, CallRecs, LookupFails, Outcome, workVars
<1>8. OneCurrentRun'
    BY DEF IndInv, OneCurrentRun, Holding, LookupFails, workVars
<1>9. NoSleepOnPendingWork'
    BY DEF IndInv, NoSleepOnPendingWork, LookupFails, workVars
<1>10. FirstRunHasSinks'
    BY DEF IndInv, FirstRunHasSinks, Holding, LookupFails, workVars
<1> QED BY <1>2, <1>3, <1>4, <1>5, <1>6, <1>7, <1>8, <1>9, <1>10 DEF IndInv

\* Storing the sinks, for the whole TTL, keeps the invariant.
LEMMA StoreEscrowKeeps ==
    ASSUME IndInv, NEW c \in Calls, StoreEscrow(c)
    PROVE  IndInv'
<1>1. TypeOK /\ call \in CallRecs /\ cache \in CacheRecs /\ InflightOK /\ worker \in WorkerRecs /\ RestType
    BY TypeParts DEF IndInv
<1>2. TypeOK'
  <2>1. (call \in CallRecs)'
      BY <1>1, PcTypes DEF CallRecs, StoreEscrow, Goto
  <2>2. InflightOK'
      BY <1>1, PcTypes DEF InflightOK, StoreEscrow, Goto
  <2>3. (cache \in CacheRecs)' /\ (worker \in WorkerRecs)'
      BY <1>1 DEF StoreEscrow, workVars
  <2>4. RestType'
    <3>1. now + EscrowTTL + 1 \in Nat
        BY <1>1, EnvTypes
    <3>2. escrow' \in [Calls -> Nat] /\ storedAt' \in [Calls -> Nat]
      <4>1. CASE c \in env.stream
        <5>1. escrow' = [Swept EXCEPT ![c] = now + EscrowTTL + 1] /\ storedAt' = [storedAt EXCEPT ![c] = now]
            BY <4>1 DEF StoreEscrow
        <5> QED BY <5>1, <3>1, <1>1, SweptFacts DEF RestType
      <4>2. CASE c \notin env.stream
          BY <4>2, <1>1 DEF StoreEscrow, RestType
      <4> QED BY <4>1, <4>2
    <3> QED BY <1>1, <3>2 DEF RestType, StoreEscrow, workVars
  <2> QED BY <2>1, <2>2, <2>3, <2>4, TypeParts
<1>3. (BoardInv(board, now))'
    BY DEF IndInv, StoreEscrow
<1>4. CallInv'
    BY DEF IndInv, CallInv, Key, StoreEscrow, Goto
<1>5. WorkerInv'
    BY DEF IndInv, WorkerInv, Owning, StoreEscrow, workVars
<1>6. StreamInv'
  <2>1. board.card[c].status = "unborn"
      BY DEF IndInv, CallInv, StoreEscrow
  <2>2. \A v \in Workers : worker[v].pc = "claimed" => worker[v].card # c /\ worker[v].card \in Calls
      BY <2>1 DEF IndInv, WorkerInv, Owning
  <2>3. call'[c].pc = "submit" /\ \A d \in Calls \ {c} : call'[d] = call[d]
      BY <1>1 DEF CallRecs, StoreEscrow, Goto
  <2>4. now + EscrowTTL + 1 \in Nat \ {0} /\ now \in Nat /\ EscrowTTL \in Nat
      BY <1>1, EnvTypes
  <2>5. \A d \in Calls \ {c} : EscrowMove(d) /\ storedAt'[d] = storedAt[d]
      BY <1>1, SweptFacts DEF RestType, StoreEscrow, EscrowMove
  <2>6. \A d \in Calls \ {c} : /\ EscrowOK(d) => EscrowOK(d)'
                               /\ escrow'[d] # None => escrow'[d] > storedAt'[d] + EscrowTTL
                               /\ storedAt'[d] <= now'
      BY <2>5, EscrowKeepsOne DEF StoreEscrow
  <2>7. CASE c \in env.stream
    <3>1. escrow'[c] = now + EscrowTTL + 1 /\ storedAt'[c] = now
        BY <2>7, <1>1, SweptFacts DEF StoreEscrow, RestType
    <3>2. EscrowOK(c)' /\ escrow'[c] > storedAt'[c] + EscrowTTL /\ storedAt'[c] <= now'
        BY <3>1, <2>4, ConstantTypes DEF EscrowOK, StoreEscrow
    <3> QED BY <3>2, <2>1, <2>2, <2>3, <2>6, EnvTypes, <1>1 DEF StreamInv, IndInv, StoreEscrow,
               callVars, workVars
  <2>8. CASE c \notin env.stream
    <3>1. escrow' = escrow /\ storedAt' = storedAt
        BY <2>8 DEF StoreEscrow
    <3> QED BY <3>1, <2>8, <2>1, <2>2, <2>3, <2>6, EnvTypes, <1>1 DEF StreamInv, IndInv,
               StoreEscrow, callVars, workVars
  <2> QED BY <2>7, <2>8
<1>7. CloseInv'
    BY <1>1 DEF IndInv, CloseInv, CallRecs, StoreEscrow, Goto, workVars
<1>8. OneCurrentRun'
    BY DEF IndInv, OneCurrentRun, Holding, StoreEscrow, workVars
<1>9. NoSleepOnPendingWork'
    BY DEF IndInv, NoSleepOnPendingWork, StoreEscrow, workVars
<1>10. FirstRunHasSinks'
  <2>1. board.card[c].status = "unborn"
      BY DEF IndInv, CallInv, StoreEscrow
  <2>2. \A v \in Holding : worker[v].card # c /\ worker[v].card \in Calls
      BY <2>1 DEF IndInv, WorkerInv, Owning, Holding
  <2>3. \A d \in Calls \ {c} : storedAt'[d] = storedAt[d]
      BY <1>1 DEF RestType, StoreEscrow
  <2> QED BY <2>2, <2>3 DEF IndInv, FirstRunHasSinks, Holding, StoreEscrow, workVars
<1> QED BY <1>2, <1>3, <1>4, <1>5, <1>6, <1>7, <1>8, <1>9, <1>10 DEF IndInv

\* A rejected submission keeps the invariant.
LEMMA ValidatorRejectsKeeps ==
    ASSUME IndInv, NEW c \in Calls, ValidatorRejects(c)
    PROVE  IndInv'
<1>1. TypeOK /\ call \in CallRecs /\ cache \in CacheRecs /\ InflightOK /\ worker \in WorkerRecs /\ RestType
    BY TypeParts DEF IndInv
<1>2. TypeOK'
  <2>1. (call \in CallRecs)'
      BY <1>1, PcTypes, OutcomeType DEF ValidatorRejects, AfterSubmit
  <2>2. InflightOK'
      BY <1>1, PcTypes DEF InflightOK, CallRecs, ValidatorRejects, Outcome, AfterSubmit, IndInv, CallInv
  <2>3. (cache \in CacheRecs)' /\ (worker \in WorkerRecs)'
      BY <1>1 DEF ValidatorRejects, workVars
  <2>4. RestType'
      BY <1>1 DEF RestType, ValidatorRejects, workVars
  <2> QED BY <2>1, <2>2, <2>3, <2>4, TypeParts
<1>3. (BoardInv(board, now))'
    BY DEF IndInv, ValidatorRejects
<1>4. CallInv'
    BY <1>1 DEF IndInv, CallInv, CallRecs, Key, ValidatorRejects, Outcome, AfterSubmit
<1>5. WorkerInv'
    BY DEF IndInv, WorkerInv, Owning, ValidatorRejects, workVars
<1>6. StreamInv'
    BY <1>1, EnvTypes DEF IndInv, StreamInv, EscrowOK, CallRecs, ValidatorRejects, Outcome,
       workVars
<1>7. CloseInv'
    BY <1>1 DEF IndInv, CloseInv, CallRecs, ValidatorRejects, Outcome, workVars
<1>8. OneCurrentRun'
    BY DEF IndInv, OneCurrentRun, Holding, ValidatorRejects, workVars
<1>9. NoSleepOnPendingWork'
    BY DEF IndInv, NoSleepOnPendingWork, ValidatorRejects, workVars
<1>10. FirstRunHasSinks'
    BY DEF IndInv, FirstRunHasSinks, Holding, ValidatorRejects, workVars
<1> QED BY <1>2, <1>3, <1>4, <1>5, <1>6, <1>7, <1>8, <1>9, <1>10 DEF IndInv

\* Re-arming the sinks keeps the invariant.
LEMMA RearmKeeps ==
    ASSUME IndInv, NEW c \in Calls, Rearm(c)
    PROVE  IndInv'
<1>1. TypeOK /\ call \in CallRecs /\ cache \in CacheRecs /\ InflightOK /\ worker \in WorkerRecs /\ RestType
    BY TypeParts DEF IndInv
<1>2. TypeOK'
  <2>1. (call \in CallRecs)'
      BY <1>1, PcTypes DEF CallRecs, Rearm, Goto
  <2>2. InflightOK'
      BY <1>1, PcTypes DEF InflightOK, Rearm, Goto
  <2>3. (cache \in CacheRecs)' /\ (worker \in WorkerRecs)'
      BY <1>1 DEF Rearm, workVars
  <2>4. RestType'
      BY <1>1, EnvTypes DEF RestType, Rearm, workVars
  <2> QED BY <2>1, <2>2, <2>3, <2>4, TypeParts
<1>3. (BoardInv(board, now))'
    BY DEF IndInv, Rearm
<1>4. CallInv'
    BY DEF IndInv, CallInv, Key, Rearm, Goto
<1>5. WorkerInv'
    BY DEF IndInv, WorkerInv, Owning, Rearm, workVars
<1>6. StreamInv'
    BY <1>1, EnvTypes, ConstantTypes DEF IndInv, RestType, StreamInv, EscrowOK, Rearm, Goto,
       workVars
<1>7. CloseInv'
    BY <1>1 DEF IndInv, CloseInv, CallRecs, Rearm, Goto, workVars
<1>8. OneCurrentRun'
    BY DEF IndInv, OneCurrentRun, Holding, Rearm, workVars
<1>9. NoSleepOnPendingWork'
    BY DEF IndInv, NoSleepOnPendingWork, Rearm, workVars
<1>10. FirstRunHasSinks'
    BY DEF IndInv, FirstRunHasSinks, Holding, Rearm, workVars
<1> QED BY <1>2, <1>3, <1>4, <1>5, <1>6, <1>7, <1>8, <1>9, <1>10 DEF IndInv

\* Releasing the sinks of a failed submission keeps the invariant.
LEMMA ReleaseFailedKeeps ==
    ASSUME IndInv, NEW c \in Calls, ReleaseFailed(c)
    PROVE  IndInv'
<1>1. TypeOK /\ call \in CallRecs /\ cache \in CacheRecs /\ InflightOK /\ worker \in WorkerRecs /\ RestType
    BY TypeParts DEF IndInv
<1>2. TypeOK'
  <2>1. (call \in CallRecs)'
      BY <1>1, PcTypes DEF CallRecs, ReleaseFailed, Goto
  <2>2. InflightOK'
      BY <1>1, PcTypes DEF InflightOK, ReleaseFailed, Goto
  <2>3. (cache \in CacheRecs)' /\ (worker \in WorkerRecs)'
      BY <1>1 DEF ReleaseFailed, workVars
  <2>4. RestType'
      BY <1>1, ConstantTypes DEF RestType, ReleaseFailed, workVars
  <2> QED BY <2>1, <2>2, <2>3, <2>4, TypeParts
<1>3. (BoardInv(board, now))'
    BY DEF IndInv, ReleaseFailed
<1>4. CallInv'
    BY DEF IndInv, CallInv, Key, ReleaseFailed, Goto
<1>5. WorkerInv'
    BY DEF IndInv, WorkerInv, Owning, ReleaseFailed, workVars
<1>6. StreamInv'
    BY DEF IndInv, StreamInv, EscrowOK, CallInv, WorkerInv, Owning, ReleaseFailed, Goto,
       workVars
<1>7. CloseInv'
    BY <1>1 DEF IndInv, CloseInv, CallRecs, ReleaseFailed, Goto, workVars
<1>8. OneCurrentRun'
    BY DEF IndInv, OneCurrentRun, Holding, ReleaseFailed, workVars
<1>9. NoSleepOnPendingWork'
    BY DEF IndInv, NoSleepOnPendingWork, ReleaseFailed, workVars
<1>10. FirstRunHasSinks'
    BY DEF IndInv, FirstRunHasSinks, Holding, ReleaseFailed, workVars
<1> QED BY <1>2, <1>3, <1>4, <1>5, <1>6, <1>7, <1>8, <1>9, <1>10 DEF IndInv

\* Settling the single flight keeps the invariant.
LEMMA SettleKeeps ==
    ASSUME IndInv, NEW c \in Calls, Settle(c)
    PROVE  IndInv'
<1>1. TypeOK /\ call \in CallRecs /\ cache \in CacheRecs /\ InflightOK /\ worker \in WorkerRecs /\ RestType
    BY TypeParts DEF IndInv
<1>2. TypeOK'
  <2>1. (call \in CallRecs)'
      BY <1>1, PcTypes DEF CallRecs, Settle, Goto
  <2>2. (cache \in CacheRecs)'
      BY <1>1, EnvTypes DEF CallRecs, CacheRecs, Settle
  <2>3. InflightOK'
      BY <1>1, ConstantTypes DEF IndInv, CallInv, InflightOK, Settle, Goto
  <2>4. (worker \in WorkerRecs)'
      BY <1>1 DEF Settle, workVars
  <2>5. RestType'
      BY <1>1 DEF RestType, Settle, workVars
  <2> QED BY <2>1, <2>2, <2>3, <2>4, <2>5, TypeParts
<1>3. (BoardInv(board, now))'
    BY DEF IndInv, Settle
<1>4. CallInv'
  <2>1. call'[c].pc = "returned" /\ \A d \in Calls \ {c} : call'[d] = call[d]
      BY <1>1 DEF CallRecs, Settle, Goto
  <2>2. ASSUME NEW k \in Keys PROVE cache'[k].expires <= cache'[k].at + Retention
    <3>1. now \in Nat /\ AsyncRetention \in Nat /\ AsyncRetention <= Retention /\
            cache[k].expires <= cache[k].at + Retention
        BY <1>1, EnvTypes DEF IndInv, CallInv
    <3>2. cache'[k] = cache[k] \/ (cache'[k].at = now /\ cache'[k].expires = now + AsyncRetention)
        BY <1>1 DEF Settle, CacheRecs
    <3> QED BY <3>1, <3>2, ConstantTypes
  <2>3. \A k \in Keys : inflight'[k] = inflight[k] \/ inflight'[k] = None
      BY <1>1 DEF Settle, InflightOK
  <2>4. board' = board /\ env' = env
      BY DEF Settle
  <2>5. \A d \in Calls : /\ call'[d].pc \in {"idle", "single", "waiting", "store", "submit", "validate", "release"} =>
                              board'.card[d].status = "unborn"
                         /\ call'[d].pc = "waiting" => call'[d].follows \in Calls
                         /\ call'[d].pc = "single" => env'.key[d] \in Keys /\ d \notin env'.direct
      BY <2>1, <2>4 DEF IndInv, CallInv, Key
  <2>6. \A k \in Keys : inflight'[k] # None => env'.key[inflight'[k]] = k /\ inflight'[k] \notin env'.direct
      BY <2>3, <2>4 DEF IndInv, CallInv, Key
  <2> QED BY <2>2, <2>5, <2>6 DEF CallInv, Key
<1>5. WorkerInv'
    BY DEF IndInv, WorkerInv, Owning, Settle, workVars
<1>6. StreamInv'
    BY DEF IndInv, StreamInv, EscrowOK, Settle, Goto, workVars
<1>7. CloseInv'
    BY <1>1 DEF IndInv, CloseInv, CallRecs, Settle, Goto, workVars
<1>8. OneCurrentRun'
    BY DEF IndInv, OneCurrentRun, Holding, Settle, workVars
<1>9. NoSleepOnPendingWork'
    BY DEF IndInv, NoSleepOnPendingWork, Settle, workVars
<1>10. FirstRunHasSinks'
    BY DEF IndInv, FirstRunHasSinks, Holding, Settle, workVars
<1> QED BY <1>2, <1>3, <1>4, <1>5, <1>6, <1>7, <1>8, <1>9, <1>10 DEF IndInv

\* A worker that finds nothing pending and blocks keeps the invariant.
LEMMA WorkerBlocksKeeps ==
    ASSUME IndInv, NEW w \in Workers, WorkerBlocks(w)
    PROVE  IndInv'
<1>1. TypeOK /\ call \in CallRecs /\ cache \in CacheRecs /\ InflightOK /\ worker \in WorkerRecs /\ RestType
    BY TypeParts DEF IndInv
<1>2. TypeOK'
  <2>1. (worker \in WorkerRecs)'
      BY <1>1, PcTypes DEF WorkerRecs, WorkerBlocks
  <2>2. (call \in CallRecs)' /\ (cache \in CacheRecs)' /\ InflightOK'
      BY <1>1 DEF InflightOK, WorkerBlocks, callVars, workVars
  <2>3. RestType'
      BY <1>1 DEF RestType, WorkerBlocks
  <2> QED BY <2>1, <2>2, <2>3, TypeParts
<1>3. (BoardInv(board, now))'
    BY DEF IndInv, WorkerBlocks, callVars, workVars
<1>4. CallInv'
    BY DEF IndInv, CallInv, Key, WorkerBlocks, callVars
<1>5. WorkerInv'
    BY DEF IndInv, WorkerInv, Owning, WorkerBlocks
<1>6. StreamInv'
    BY DEF IndInv, StreamInv, EscrowOK, WorkerBlocks, callVars
<1>7. CloseInv'
    BY DEF IndInv, CloseInv, WorkerBlocks
<1>8. OneCurrentRun'
    BY DEF IndInv, OneCurrentRun, Holding, WorkerBlocks
<1>9. NoSleepOnPendingWork'
    BY DEF NoSleepOnPendingWork, WorkerBlocks
<1>10. FirstRunHasSinks'
    BY DEF IndInv, FirstRunHasSinks, Holding, WorkerBlocks
<1> QED BY <1>2, <1>3, <1>4, <1>5, <1>6, <1>7, <1>8, <1>9, <1>10 DEF IndInv

\* A worker that wakes keeps the invariant.
LEMMA WorkerWakesKeeps ==
    ASSUME IndInv, NEW w \in Workers, WorkerWakes(w)
    PROVE  IndInv'
<1>1. TypeOK /\ call \in CallRecs /\ cache \in CacheRecs /\ InflightOK /\ worker \in WorkerRecs /\ RestType
    BY TypeParts DEF IndInv
<1>2. TypeOK'
  <2>1. (worker \in WorkerRecs)'
      BY <1>1, PcTypes DEF WorkerRecs, WorkerWakes
  <2>2. (call \in CallRecs)' /\ (cache \in CacheRecs)' /\ InflightOK'
      BY <1>1 DEF InflightOK, WorkerWakes, callVars, workVars
  <2>3. RestType'
      BY <1>1 DEF RestType, WorkerWakes
  <2> QED BY <2>1, <2>2, <2>3, TypeParts
<1>3. (BoardInv(board, now))'
    BY DEF IndInv, WorkerWakes, callVars, workVars
<1>4. CallInv'
    BY DEF IndInv, CallInv, Key, WorkerWakes, callVars
<1>5. WorkerInv'
    BY DEF IndInv, WorkerInv, Owning, WorkerWakes
<1>6. StreamInv'
    BY DEF IndInv, StreamInv, EscrowOK, WorkerWakes, callVars
<1>7. CloseInv'
    BY DEF IndInv, CloseInv, WorkerWakes, callVars
<1>8. OneCurrentRun'
    BY DEF IndInv, OneCurrentRun, Holding, WorkerWakes
<1>9. NoSleepOnPendingWork'
    BY <1>1 DEF IndInv, NoSleepOnPendingWork, WorkerRecs, WorkerWakes
<1>10. FirstRunHasSinks'
    BY DEF IndInv, FirstRunHasSinks, Holding, WorkerWakes
<1> QED BY <1>2, <1>3, <1>4, <1>5, <1>6, <1>7, <1>8, <1>9, <1>10 DEF IndInv

\* A worker that exits keeps the invariant.
LEMMA WorkerExitsKeeps ==
    ASSUME IndInv, NEW w \in Workers, WorkerExits(w)
    PROVE  IndInv'
<1>1. TypeOK /\ call \in CallRecs /\ cache \in CacheRecs /\ InflightOK /\ worker \in WorkerRecs /\ RestType
    BY TypeParts DEF IndInv
<1>2. TypeOK'
  <2>1. (worker \in WorkerRecs)'
      BY <1>1, PcTypes DEF WorkerRecs, WorkerExits
  <2>2. (call \in CallRecs)' /\ (cache \in CacheRecs)' /\ InflightOK'
      BY <1>1 DEF InflightOK, WorkerExits, callVars, workVars
  <2>3. RestType'
      BY <1>1 DEF RestType, WorkerExits
  <2> QED BY <2>1, <2>2, <2>3, TypeParts
<1>3. (BoardInv(board, now))'
    BY DEF IndInv, WorkerExits, callVars, workVars
<1>4. CallInv'
    BY DEF IndInv, CallInv, Key, WorkerExits, callVars
<1>5. WorkerInv'
    BY DEF IndInv, WorkerInv, Owning, WorkerExits
<1>6. StreamInv'
    BY DEF IndInv, StreamInv, EscrowOK, WorkerExits, callVars
<1>7. CloseInv'
    BY DEF IndInv, CloseInv, WorkerExits
<1>8. OneCurrentRun'
    BY DEF IndInv, OneCurrentRun, Holding, WorkerExits
<1>9. NoSleepOnPendingWork'
    BY <1>1 DEF IndInv, NoSleepOnPendingWork, WorkerRecs, WorkerExits
<1>10. FirstRunHasSinks'
    BY DEF IndInv, FirstRunHasSinks, Holding, WorkerExits
<1> QED BY <1>2, <1>3, <1>4, <1>5, <1>6, <1>7, <1>8, <1>9, <1>10 DEF IndInv

\* Taking the sinks from the escrow keeps the invariant.
LEMMA TakeStreamsKeeps ==
    ASSUME IndInv, NEW w \in Workers, TakeStreams(w)
    PROVE  IndInv'
<1>1. TypeOK /\ call \in CallRecs /\ cache \in CacheRecs /\ InflightOK /\ worker \in WorkerRecs /\ RestType
    BY TypeParts DEF IndInv
<1>0. /\ (worker \in WorkerRecs)' /\ worker[w].card \in Calls /\ worker[w].pc = "claimed"
      /\ \A v \in Workers \ {w} : worker'[v] = worker[v]
      /\ worker'[w].pc = "running" /\ worker'[w].card = worker[w].card /\ worker'[w].token = worker[w].token
      /\ worker'[w].first = worker[w].first /\ worker'[w].at = now
      /\ worker'[w].took <=> Swept[worker[w].card] # None
      /\ (escrow \in [Calls -> Nat])'
      /\ \A d \in Calls : EscrowMove(d)
  <2> DEFINE c == worker[w].card
  <2>1. c \in Calls /\ now \in Nat /\ EscrowTTL \in Nat
      BY EnvTypes DEF IndInv, WorkerInv, Owning, TakeStreams
  <2> HIDE DEF c
  <2>2. worker' = [worker EXCEPT ![w].pc = "running", ![w].took = Swept[c] # None, ![w].at = now]
      BY DEF TakeStreams, c
  <2>3. (Swept[c] # None) \in BOOLEAN /\ "running" \in WorkerPcs
      BY PcTypes
  <2>4. /\ worker' \in WorkerRecs
        /\ \A v \in Workers \ {w} : worker'[v] = worker[v]
        /\ worker'[w].pc = "running" /\ worker'[w].card = worker[w].card /\ worker'[w].token = worker[w].token
        /\ worker'[w].first = worker[w].first /\ worker'[w].at = now
        /\ worker'[w].took <=> Swept[c] # None
    <3> DEFINE t == Swept[c] # None
    <3>1. worker' = [worker EXCEPT ![w].pc = "running", ![w].took = t, ![w].at = now]
        BY <2>2
    <3>2. t \in BOOLEAN
        BY <2>3
    <3> HIDE DEF t
    <3> DEFINE Rec == [pc : WorkerPcs, card : Calls \cup {None}, token : Nat,
                      response : TerminalStatus \cup {"none"}, first : BOOLEAN,
                      took : BOOLEAN, at : Nat]
               r == [worker[w] EXCEPT !.pc = "running", !.took = t, !.at = now]
    <3>3. worker \in [Workers -> Rec] /\ worker[w] \in Rec
        BY <1>1 DEF WorkerRecs
    <3>4. /\ r \in Rec /\ r.pc = "running" /\ r.took = t /\ r.at = now
          /\ r.card = worker[w].card /\ r.token = worker[w].token /\ r.first = worker[w].first
        BY <2>1, <2>3, <3>2, <3>3
    <3> HIDE DEF Rec, r
    <3>5. worker' = [worker EXCEPT ![w] = r]
        BY <3>1 DEF r
    <3>6. /\ worker' \in [Workers -> Rec] /\ worker'[w] = r
          /\ \A v \in Workers \ {w} : worker'[v] = worker[v]
        BY <3>3, <3>4, <3>5
    <3>7. worker' \in WorkerRecs
        BY <3>6 DEF WorkerRecs, Rec
    <3>8. worker'[w].took <=> Swept[c] # None
        BY <3>4, <3>6 DEF t
    <3> QED BY <3>4, <3>6, <3>7, <3>8
  <2>5. escrow' = escrow \/ escrow' = Swept \/ escrow' = [Swept EXCEPT ![c] = now + EscrowTTL + 1]
      BY DEF TakeStreams, c
  <2>6. now + EscrowTTL + 1 \in Nat \ {0}
      BY <2>1
  <2>7. (escrow \in [Calls -> Nat])' /\ \A d \in Calls : EscrowMove(d)
    <3>1. escrow \in [Calls -> Nat] /\ Swept \in [Calls -> Nat]
          /\ \A d \in Calls : Swept[d] = IF escrow[d] # None /\ now >= escrow[d] THEN None ELSE escrow[d]
        BY <1>1, SweptFacts DEF RestType
    <3>2. CASE escrow' = escrow
        BY <3>1, <3>2 DEF EscrowMove
    <3>3. CASE escrow' = Swept
        BY <3>1, <3>3 DEF EscrowMove
    <3>4. CASE escrow' = [Swept EXCEPT ![c] = now + EscrowTTL + 1]
      <4>1. escrow' \in [Calls -> Nat]
          BY <3>1, <3>4, <2>6
      <4>2. \A d \in Calls \ {c} : escrow'[d] = Swept[d]
          BY <3>1, <3>4
      <4>3. escrow'[c] = now + EscrowTTL + 1
          BY <3>1, <3>4, <2>1
      <4> QED BY <4>1, <4>2, <4>3, <3>1, <2>6, ConstantTypes DEF EscrowMove
    <3> QED BY <2>5, <3>2, <3>3, <3>4
  <2> QED BY <2>1, <2>4, <2>7 DEF TakeStreams, c
<1>2. TypeOK'
  <2>1. (worker \in WorkerRecs)'
      BY <1>1, <1>0
  <2>2. (call \in CallRecs)' /\ (cache \in CacheRecs)' /\ InflightOK'
      BY <1>1 DEF InflightOK, TakeStreams, callVars
  <2>3. RestType'
      BY <1>1, <1>0 DEF RestType, TakeStreams
  <2> QED BY <2>1, <2>2, <2>3, TypeParts
<1>3. (BoardInv(board, now))'
    BY DEF IndInv, TakeStreams
<1>4. CallInv'
    BY DEF IndInv, CallInv, Key, TakeStreams, callVars
<1>5. WorkerInv'
  <2>1. \A v \in Workers : /\ worker'[v].card = worker[v].card /\ worker'[v].token = worker[v].token
                           /\ worker'[v].first = worker[v].first /\ (v \in Owning' <=> v \in Owning)
                           /\ (worker'[v].pc = "completing" =>
                              worker[v].pc = "completing" /\ worker'[v].response = worker[v].response)
                           /\ (worker'[v].pc = "claim" <=> worker[v].pc = "claim")
      BY <1>0 DEF Owning
  <2>2. board' = board /\ env' = env /\ lastRun' = lastRun
      BY DEF TakeStreams
  <2>3. Owning \subseteq Workers /\ Owning' \subseteq Workers
      BY DEF Owning
  <2> QED BY <2>1, <2>2, <2>3 DEF IndInv, WorkerInv
<1>6. StreamInv'
  <2>1. storedAt' = storedAt /\ now' = now /\ env' = env /\ board' = board /\ lastRun' = lastRun /\ call' = call
        /\ service' = service
      BY DEF TakeStreams, callVars
  <2>2. \A v \in Workers : worker'[v].pc = "claimed" => worker'[v] = worker[v] /\ worker[v].card \in Calls
      BY <1>0 DEF IndInv, WorkerInv, Owning
  <2> QED BY <1>0, <2>1, <2>2, EscrowKeeps
<1>7. CloseInv'
    BY <1>1, EnvTypes DEF IndInv, CloseInv, WorkerRecs, TakeStreams, callVars
<1>8. OneCurrentRun'
  <2>1. Holding' = Holding
      BY <1>0 DEF Holding
  <2>2. \A v \in Workers : worker'[v].card = worker[v].card /\ worker'[v].token = worker[v].token
      BY <1>0
  <2> QED BY <2>1, <2>2 DEF IndInv, OneCurrentRun, Holding, TakeStreams
<1>9. NoSleepOnPendingWork'
    BY <1>1, EnvTypes DEF IndInv, NoSleepOnPendingWork, WorkerRecs, TakeStreams
<1>10. FirstRunHasSinks'
  <2>1. ASSUME worker[w].token = lastRun[worker[w].card], worker[w].first, worker[w].card \in env.stream,
               Swept[worker[w].card] = None
        PROVE  now > storedAt[worker[w].card] + EscrowTTL
    <3>1. EscrowOK(worker[w].card)
        BY <2>1, <1>0 DEF IndInv, StreamInv
    <3>2. storedAt[worker[w].card] \in Nat /\ escrow[worker[w].card] \in Nat /\ EscrowTTL \in Nat /\ now \in Nat
        BY <1>0, <1>1, EnvTypes DEF RestType
    <3> QED BY <2>1, <1>0, <3>1, <3>2, SweptFacts, <1>1 DEF IndInv, StreamInv, EscrowOK
  <2>2. Holding' = Holding
      BY <1>0 DEF Holding
  <2> SUFFICES ASSUME NEW v \in Holding, worker'[v].pc # "claimed",
        worker'[v].token = lastRun[worker'[v].card],
                      worker'[v].first, worker'[v].card \in env.stream, ~worker'[v].took
               PROVE  worker'[v].at > storedAt[worker'[v].card] + EscrowTTL
      BY <2>2 DEF FirstRunHasSinks, TakeStreams
  <2>3. CASE v = w
      BY <2>1, <2>3, <1>0
  <2>4. CASE v # w
      BY <2>4, <1>0 DEF IndInv, FirstRunHasSinks, Holding
  <2> QED BY <2>3, <2>4
<1> QED BY <1>2, <1>3, <1>4, <1>5, <1>6, <1>7, <1>8, <1>9, <1>10 DEF IndInv

\* A completion that fails keeps the invariant.
LEMMA CompleteFailsKeeps ==
    ASSUME IndInv, NEW w \in Workers, CompleteFails(w)
    PROVE  IndInv'
<1>1. TypeOK /\ call \in CallRecs /\ cache \in CacheRecs /\ InflightOK /\ worker \in WorkerRecs /\ RestType
    BY TypeParts DEF IndInv
<1>2. TypeOK'
  <2>1. (worker \in WorkerRecs)'
      BY <1>1, PcTypes DEF WorkerRecs, CompleteFails
  <2>2. (call \in CallRecs)' /\ (cache \in CacheRecs)' /\ InflightOK'
      BY <1>1 DEF InflightOK, CompleteFails, callVars, workVars
  <2>3. RestType'
      BY <1>1 DEF RestType, CompleteFails
  <2> QED BY <2>1, <2>2, <2>3, TypeParts
<1>3. (BoardInv(board, now))'
    BY DEF IndInv, CompleteFails, callVars, workVars
<1>4. CallInv'
    BY DEF IndInv, CallInv, Key, CompleteFails, callVars
<1>5. WorkerInv'
    BY DEF IndInv, WorkerInv, Owning, CompleteFails
<1>6. StreamInv'
    BY DEF IndInv, StreamInv, EscrowOK, CompleteFails, callVars
<1>7. CloseInv'
    BY DEF IndInv, CloseInv, CompleteFails, callVars
<1>8. OneCurrentRun'
    BY DEF IndInv, OneCurrentRun, Holding, CompleteFails
<1>9. NoSleepOnPendingWork'
    BY DEF IndInv, NoSleepOnPendingWork, CompleteFails
<1>10. FirstRunHasSinks'
    BY DEF IndInv, FirstRunHasSinks, Holding, CompleteFails
<1> QED BY <1>2, <1>3, <1>4, <1>5, <1>6, <1>7, <1>8, <1>9, <1>10 DEF IndInv

\* Releasing the sinks of a run keeps the invariant.
LEMMA WorkerReleasesKeeps ==
    ASSUME IndInv, NEW w \in Workers, WorkerReleases(w)
    PROVE  IndInv'
<1>1. TypeOK /\ call \in CallRecs /\ cache \in CacheRecs /\ InflightOK /\ worker \in WorkerRecs /\ RestType
    BY TypeParts DEF IndInv
<1>2. TypeOK'
  <2>1. (worker \in WorkerRecs)'
      BY <1>1, PcTypes DEF WorkerRecs, WorkerReleases
  <2>2. (call \in CallRecs)' /\ (cache \in CacheRecs)' /\ InflightOK'
      BY <1>1 DEF InflightOK, WorkerReleases, callVars, workVars
  <2>3. RestType'
      BY <1>1, ConstantTypes DEF RestType, WorkerReleases
  <2> QED BY <2>1, <2>2, <2>3, TypeParts
<1>3. (BoardInv(board, now))'
    BY DEF IndInv, WorkerReleases, callVars, workVars
<1>4. CallInv'
    BY DEF IndInv, CallInv, Key, WorkerReleases, callVars
<1>5. WorkerInv'
    BY DEF IndInv, WorkerInv, Owning, WorkerReleases
<1>6. StreamInv'
    BY DEF IndInv, StreamInv, EscrowOK, CallInv, WorkerInv, Owning, WorkerReleases, callVars
<1>7. CloseInv'
    BY DEF IndInv, CloseInv, WorkerReleases, callVars
<1>8. OneCurrentRun'
    BY DEF IndInv, OneCurrentRun, Holding, WorkerReleases
<1>9. NoSleepOnPendingWork'
    BY DEF IndInv, NoSleepOnPendingWork, WorkerReleases
<1>10. FirstRunHasSinks'
    BY DEF IndInv, FirstRunHasSinks, Holding, WorkerReleases
<1> QED BY <1>2, <1>3, <1>4, <1>5, <1>6, <1>7, <1>8, <1>9, <1>10 DEF IndInv

\* Recording a worker error keeps the invariant.
LEMMA WorkerRecordsKeeps ==
    ASSUME IndInv, NEW w \in Workers, WorkerRecords(w)
    PROVE  IndInv'
<1>1. TypeOK /\ call \in CallRecs /\ cache \in CacheRecs /\ InflightOK /\ worker \in WorkerRecs /\ RestType
    BY TypeParts DEF IndInv
<1>2. TypeOK'
  <2>1. (worker \in WorkerRecs)'
      BY <1>1, PcTypes DEF WorkerRecs, WorkerRecords
  <2>2. (call \in CallRecs)' /\ (cache \in CacheRecs)' /\ InflightOK'
      BY <1>1 DEF InflightOK, WorkerRecords, callVars, workVars
  <2>3. RestType'
      BY <1>1 DEF RestType, WorkerRecords
  <2> QED BY <2>1, <2>2, <2>3, TypeParts
<1>3. (BoardInv(board, now))'
    BY DEF IndInv, WorkerRecords, callVars, workVars
<1>4. CallInv'
    BY DEF IndInv, CallInv, Key, WorkerRecords, callVars
<1>5. WorkerInv'
    BY DEF IndInv, WorkerInv, Owning, WorkerRecords
<1>6. StreamInv'
    BY DEF IndInv, StreamInv, EscrowOK, WorkerRecords, callVars
<1>7. CloseInv'
    BY DEF IndInv, CloseInv, WorkerRecords, callVars
<1>8. OneCurrentRun'
    BY DEF IndInv, OneCurrentRun, Holding, WorkerRecords
<1>9. NoSleepOnPendingWork'
    BY DEF IndInv, NoSleepOnPendingWork, WorkerRecords
<1>10. FirstRunHasSinks'
    BY DEF IndInv, FirstRunHasSinks, Holding, WorkerRecords
<1> QED BY <1>2, <1>3, <1>4, <1>5, <1>6, <1>7, <1>8, <1>9, <1>10 DEF IndInv

\* The end of a run keeps the invariant.
LEMMA RunEndsKeeps ==
    ASSUME IndInv, NEW w \in Workers, NEW r \in env.responses, RunEnds(w, r)
    PROVE  IndInv'
<1>1. TypeOK /\ call \in CallRecs /\ cache \in CacheRecs /\ InflightOK /\ worker \in WorkerRecs /\ RestType
    BY TypeParts DEF IndInv
<1>0. /\ (worker \in WorkerRecs)' /\ worker[w].pc = "running"
      /\ \A v \in Workers \ {w} : worker'[v] = worker[v]
      /\ worker'[w].pc = "completing" /\ worker'[w].card = worker[w].card /\ worker'[w].token = worker[w].token
      /\ worker'[w].first = worker[w].first /\ worker'[w].at = worker[w].at /\ worker'[w].took = worker[w].took
      /\ worker'[w].response \in TerminalStatus
  <2>1. PICK q \in {r, "canceled"} : worker' = [worker EXCEPT ![w].pc = "completing", ![w].response = q]
      BY DEF RunEnds
  <2>2. q \in TerminalStatus /\ "completing" \in WorkerPcs
      BY <1>1, EnvTypes, PcTypes DEF TerminalStatus
  <2>3. worker[w].pc = "running"
      BY DEF RunEnds
  <2>4. /\ worker' \in WorkerRecs /\ \A v \in Workers \ {w} : worker'[v] = worker[v]
        /\ worker'[w].pc = "completing" /\ worker'[w].card = worker[w].card /\ worker'[w].token = worker[w].token
        /\ worker'[w].first = worker[w].first /\ worker'[w].at = worker[w].at /\ worker'[w].took = worker[w].took
        /\ worker'[w].response = q
      BY <1>1, <2>1, <2>2 DEF WorkerRecs
  <2> QED BY <2>2, <2>3, <2>4
<1>2. TypeOK'
  <2>1. (worker \in WorkerRecs)'
      BY <1>1, <1>0
  <2>2. (call \in CallRecs)' /\ (cache \in CacheRecs)' /\ InflightOK'
      BY <1>1 DEF InflightOK, RunEnds, callVars, workVars
  <2>3. RestType'
      BY <1>1 DEF RestType, RunEnds
  <2> QED BY <2>1, <2>2, <2>3, TypeParts
<1>3. (BoardInv(board, now))'
    BY DEF IndInv, RunEnds, callVars, workVars
<1>4. CallInv'
    BY DEF IndInv, CallInv, Key, RunEnds, callVars
<1>5. WorkerInv'
    BY <1>0 DEF IndInv, WorkerInv, WorkerRecs, Owning, RunEnds
<1>6. StreamInv'
    BY <1>1 DEF IndInv, StreamInv, EscrowOK, WorkerRecs, RunEnds, callVars
<1>7. CloseInv'
    BY <1>1, EnvTypes DEF IndInv, CloseInv, WorkerRecs, RunEnds, callVars
<1>8. OneCurrentRun'
    BY <1>1 DEF IndInv, OneCurrentRun, Holding, WorkerRecs, RunEnds
<1>9. NoSleepOnPendingWork'
    BY <1>1, EnvTypes DEF IndInv, NoSleepOnPendingWork, WorkerRecs, RunEnds
<1>10. FirstRunHasSinks'
    BY <1>1 DEF IndInv, FirstRunHasSinks, Holding, WorkerRecs, RunEnds
<1> QED BY <1>2, <1>3, <1>4, <1>5, <1>6, <1>7, <1>8, <1>9, <1>10 DEF IndInv

\* Time keeps the invariant.
LEMMA TickKeeps ==
    ASSUME IndInv, Tick
    PROVE  IndInv'
<1>1. TypeOK /\ call \in CallRecs /\ cache \in CacheRecs /\ InflightOK /\ worker \in WorkerRecs /\ RestType
    BY TypeParts DEF IndInv
<1>2. TypeOK'
  <2>1. (call \in CallRecs)' /\ (cache \in CacheRecs)' /\ InflightOK' /\ (worker \in WorkerRecs)'
      BY <1>1 DEF InflightOK, Tick, callVars, workVars
  <2>2. RestType'
      BY <1>1, EnvTypes DEF RestType, Tick, workVars
  <2> QED BY <2>1, <2>2, TypeParts
<1>3. (BoardInv(board, now))'
  <2>1. CardInv(board, now + 1)
      BY EnvTypes, ConstantTypes DEF IndInv, BoardInv, CardInv, Boards, Cards
  <2>2. BoardInv(board, now + 1)
      BY <2>1 DEF IndInv, BoardInv
  <2> QED BY <2>2 DEF Tick
<1>4. CallInv'
    BY DEF IndInv, CallInv, Key, Tick, callVars
<1>5. WorkerInv'
    BY DEF IndInv, WorkerInv, Owning, Tick, workVars
<1>6. StreamInv'
  <2>1. now \in Nat /\ now' = now + 1 /\ EscrowTTL \in Nat /\ storedAt \in [Calls -> Nat]
      BY <1>1, EnvTypes DEF Tick, RestType
  <2>2. \A c \in Calls : EscrowOK(c) => EscrowOK(c)'
      BY <2>1 DEF EscrowOK, Tick
  <2>3. \A c \in Calls : storedAt[c] <= now => storedAt[c] <= now + 1
      BY <2>1
  <2>4. \A w \in Workers : worker[w].pc = "claimed" => worker[w].card \in Calls
      BY DEF IndInv, WorkerInv, Owning
  <2> QED BY <1>1, <2>1, <2>2, <2>3, <2>4, EnvTypes DEF IndInv, StreamInv, Tick, callVars, workVars
<1>7. CloseInv'
    BY DEF IndInv, CloseInv, Tick, callVars, workVars
<1>8. OneCurrentRun'
    BY DEF IndInv, OneCurrentRun, Holding, Tick, workVars
<1>9. NoSleepOnPendingWork'
    BY DEF IndInv, NoSleepOnPendingWork, Tick, workVars
<1>10. FirstRunHasSinks'
    BY DEF IndInv, FirstRunHasSinks, Holding, Tick, workVars
<1> QED BY <1>2, <1>3, <1>4, <1>5, <1>6, <1>7, <1>8, <1>9, <1>10 DEF IndInv

\* The sweeps of cache and escrow keeps the invariant.
LEMMA ServiceJanitorsKeeps ==
    ASSUME IndInv, ServiceJanitors
    PROVE  IndInv'
<1>1. TypeOK /\ call \in CallRecs /\ cache \in CacheRecs /\ InflightOK /\ worker \in WorkerRecs /\ RestType
    BY TypeParts DEF IndInv
<1>2. TypeOK'
  <2>1. (cache \in CacheRecs)'
      BY <1>1 DEF CacheRecs, ServiceJanitors, Unexpired
  <2>2. (call \in CallRecs)' /\ InflightOK' /\ (worker \in WorkerRecs)'
      BY <1>1 DEF InflightOK, ServiceJanitors, workVars
  <2>3. RestType'
      BY <1>1, ConstantTypes DEF RestType, ServiceJanitors, Swept, workVars
  <2> QED BY <2>1, <2>2, <2>3, TypeParts
<1>3. (BoardInv(board, now))'
    BY DEF IndInv, ServiceJanitors
<1>4. CallInv'
    BY <1>1 DEF IndInv, CallInv, CacheRecs, Key, ServiceJanitors, Unexpired
<1>5. WorkerInv'
    BY DEF IndInv, WorkerInv, Owning, ServiceJanitors, workVars
<1>6. StreamInv'
    BY <1>1, EnvTypes DEF IndInv, RestType, StreamInv, EscrowOK, ServiceJanitors, Swept,
       workVars
<1>7. CloseInv'
    BY DEF IndInv, CloseInv, ServiceJanitors, workVars
<1>8. OneCurrentRun'
    BY DEF IndInv, OneCurrentRun, Holding, ServiceJanitors, workVars
<1>9. NoSleepOnPendingWork'
    BY DEF IndInv, NoSleepOnPendingWork, ServiceJanitors, workVars
<1>10. FirstRunHasSinks'
    BY DEF IndInv, FirstRunHasSinks, Holding, ServiceJanitors, workVars
<1> QED BY <1>2, <1>3, <1>4, <1>5, <1>6, <1>7, <1>8, <1>9, <1>10 DEF IndInv

\* The begin of Close keeps the invariant.
LEMMA ServiceCloseKeeps ==
    ASSUME IndInv, ServiceClose
    PROVE  IndInv'
<1>1. TypeOK /\ call \in CallRecs /\ cache \in CacheRecs /\ InflightOK /\ worker \in WorkerRecs /\ RestType
    BY TypeParts DEF IndInv
<1>2. TypeOK'
  <2>1. (call \in CallRecs)' /\ (cache \in CacheRecs)' /\ InflightOK' /\ (worker \in WorkerRecs)'
      BY <1>1 DEF InflightOK, ServiceClose, callVars, workVars
  <2>2. RestType'
      BY <1>1 DEF RestType, ServiceClose, workVars
  <2> QED BY <2>1, <2>2, TypeParts
<1>3. (BoardInv(board, now))'
    BY DEF IndInv, ServiceClose, callVars, workVars
<1>4. CallInv'
    BY DEF IndInv, CallInv, Key, ServiceClose, callVars
<1>5. WorkerInv'
    BY DEF IndInv, WorkerInv, Owning, ServiceClose, workVars
<1>6. StreamInv'
    BY DEF IndInv, StreamInv, EscrowOK, ServiceClose, callVars, workVars
<1>7. CloseInv'
    BY DEF CloseInv, ServiceClose
<1>8. OneCurrentRun'
    BY DEF IndInv, OneCurrentRun, Holding, ServiceClose, workVars
<1>9. NoSleepOnPendingWork'
    BY DEF IndInv, NoSleepOnPendingWork, ServiceClose, workVars
<1>10. FirstRunHasSinks'
    BY DEF IndInv, FirstRunHasSinks, Holding, ServiceClose, workVars
<1> QED BY <1>2, <1>3, <1>4, <1>5, <1>6, <1>7, <1>8, <1>9, <1>10 DEF IndInv

\* The cancellation in Close keeps the invariant.
LEMMA CloseCancelsKeeps ==
    ASSUME IndInv, CloseCancels
    PROVE  IndInv'
<1>1. TypeOK /\ call \in CallRecs /\ cache \in CacheRecs /\ InflightOK /\ worker \in WorkerRecs /\ RestType
    BY TypeParts DEF IndInv
<1>2. TypeOK'
  <2>1. (call \in CallRecs)' /\ (cache \in CacheRecs)' /\ InflightOK' /\ (worker \in WorkerRecs)'
      BY <1>1 DEF InflightOK, CloseCancels, callVars, workVars
  <2>2. RestType'
      BY <1>1 DEF RestType, CloseCancels, workVars
  <2> QED BY <2>1, <2>2, TypeParts
<1>3. (BoardInv(board, now))'
    BY DEF IndInv, CloseCancels, callVars, workVars
<1>4. CallInv'
    BY DEF IndInv, CallInv, Key, CloseCancels, callVars
<1>5. WorkerInv'
    BY DEF IndInv, WorkerInv, Owning, CloseCancels, workVars
<1>6. StreamInv'
    BY DEF IndInv, StreamInv, EscrowOK, CloseCancels, callVars, workVars
<1>7. CloseInv'
    BY DEF IndInv, CloseInv, CloseCancels
<1>8. OneCurrentRun'
    BY DEF IndInv, OneCurrentRun, Holding, CloseCancels, workVars
<1>9. NoSleepOnPendingWork'
    BY DEF IndInv, NoSleepOnPendingWork, CloseCancels, workVars
<1>10. FirstRunHasSinks'
    BY DEF IndInv, FirstRunHasSinks, Holding, CloseCancels, workVars
<1> QED BY <1>2, <1>3, <1>4, <1>5, <1>6, <1>7, <1>8, <1>9, <1>10 DEF IndInv

\* The return of Close keeps the invariant.
LEMMA CloseReturnsKeeps ==
    ASSUME IndInv, CloseReturns
    PROVE  IndInv'
<1>1. TypeOK /\ call \in CallRecs /\ cache \in CacheRecs /\ InflightOK /\ worker \in WorkerRecs /\ RestType
    BY TypeParts DEF IndInv
<1>2. TypeOK'
  <2>1. (call \in CallRecs)' /\ (cache \in CacheRecs)' /\ InflightOK' /\ (worker \in WorkerRecs)'
      BY <1>1 DEF InflightOK, CloseReturns, callVars, workVars
  <2>2. RestType'
      BY <1>1, ConstantTypes DEF RestType, CloseReturns, workVars
  <2> QED BY <2>1, <2>2, TypeParts
<1>3. (BoardInv(board, now))'
    BY DEF IndInv, CloseReturns, callVars, workVars
<1>4. CallInv'
    BY DEF IndInv, CallInv, Key, CloseReturns, callVars
<1>5. WorkerInv'
    BY DEF IndInv, WorkerInv, Owning, CloseReturns, workVars
<1>6. StreamInv'
    BY DEF IndInv, StreamInv, WorkerInv, CloseReturns, workVars
<1>7. CloseInv'
    BY DEF IndInv, CloseInv, CloseReturns, callVars, workVars
<1>8. OneCurrentRun'
    BY DEF IndInv, OneCurrentRun, Holding, CloseReturns, workVars
<1>9. NoSleepOnPendingWork'
    BY DEF NoSleepOnPendingWork, CloseReturns, workVars
<1>10. FirstRunHasSinks'
    BY DEF IndInv, FirstRunHasSinks, Holding, CloseReturns, workVars
<1> QED BY <1>2, <1>3, <1>4, <1>5, <1>6, <1>7, <1>8, <1>9, <1>10 DEF IndInv

-----------------------------------------------------------------------------
(* Steps of the board. *)

\* The board moved on without touching a card that exists, a lease or a context.
WorkSame(b, e) ==
    /\ e.closed = b.closed /\ e.leases = b.leases /\ e.live = b.live /\ e.cancels = b.cancels
    /\ e.tokens = b.tokens
    /\ \A c \in Calls : b.card[c].status # "unborn" => e.card[c] = b.card[c]
    /\ \A c \in Calls : b.card[c].status = "claimed" /\ c \in b.cards => c \in e.cards

\* The invariant of the workers under a step that leaves them alone; an operator may take
\* a card from its run.
LEMMA WorkerFrame ==
    ASSUME IndInv, env' = env, worker' = worker, board'.tokens = board.tokens,
           \A c \in Calls : board.card[c].status # "unborn" => board'.card[c].status # "unborn",
           \A c \in Calls : \/ lastRun'[c] = lastRun[c]
                            \/ lastRun[c] # None /\ lastRun'[c] = Parked
    PROVE  WorkerInv'
<1>1. \A w \in Workers : worker[w].token \in Nat /\ board.tokens \in Nat
    BY TypeParts DEF IndInv, WorkerRecs, RestType, Boards
<1>2. Owning' = Owning /\ Owning \subseteq Workers
    BY DEF Owning
<1>3. \A c \in Calls : lastRun'[c] # lastRun[c] => lastRun'[c] = -1 /\ lastRun'[c] # None
    BY DEF Parked, None
<1>4. \A c \in Calls : lastRun'[c] <= board.tokens
    BY <1>3, TypeParts DEF IndInv, WorkerInv, RestType, Boards
<1>5. \A w \in Workers : /\ w \notin env.workers => worker[w].pc = "claim"
                         /\ worker[w].token <= board.tokens
                         /\ worker[w].pc = "completing" => worker[w].response \in TerminalStatus
    BY DEF IndInv, WorkerInv
<1>6. \A w \in Owning : /\ worker[w].token # None /\ worker[w].card \in Calls
                        /\ board'.card[worker[w].card].status # "unborn" /\ lastRun'[worker[w].card] # None
    BY <1>2, <1>3 DEF IndInv, WorkerInv
<1>7. ASSUME NEW w \in Owning, worker[w].first, lastRun'[worker[w].card] = worker[w].token,
             NEW v \in Owning, worker[v].card = worker[w].card
      PROVE  v = w
  <2>1. worker[w].token \in Nat /\ worker[w].card \in Calls
      BY <1>1, <1>2, <1>6
  <2>2. lastRun[worker[w].card] = worker[w].token
      BY <2>1, <1>3, <1>7
  <2> QED BY <2>2, <1>2, <1>7 DEF IndInv, WorkerInv
<1>8. \A v, w \in Workers : worker[v].token = worker[w].token /\ worker[w].token # None => v = w
    BY DEF IndInv, WorkerInv
<1> QED BY <1>2, <1>4, <1>5, <1>6, <1>7, <1>8 DEF WorkerInv

\* Workers, and the current run of every card, under a step that leaves their work alone.
LEMMA WorkFrame ==
    ASSUME IndInv, WorkSame(board, board'), env' = env, worker' = worker, lastRun' = lastRun
    PROVE  WorkerInv' /\ OneCurrentRun'
<1>1. WorkerInv'
    BY WorkerFrame DEF WorkSame
<1>2. OneCurrentRun'
  <2>1. Holding' = Holding
      BY DEF Holding
  <2>2. \A w \in Holding : worker[w].card \in Calls /\ board.card[worker[w].card].status # "unborn"
      BY DEF IndInv, WorkerInv, Owning, Holding
  <2> QED BY <2>1, <2>2 DEF IndInv, OneCurrentRun, WorkSame, Indexed
<1> QED BY <1>1, <1>2

\* An eviction touches no work.
LEMMA EvictSame ==
    ASSUME NEW b \in Boards, NEW e \in Boards, NEW t, EvictRel(b, e, t)
    PROVE  /\ WorkSame(b, e) /\ e.card = b.card /\ PendingCards(e) = PendingCards(b)
           /\ e.closed = b.closed
    BY DEF EvictRel, SameWork, WorkSame, PendingCards, IsTerminal, TerminalStatus

\* What leaves calls, streams and the closing of the service alone.
LEMMA CallFrame ==
    ASSUME IndInv, env' = env, call' = call, cache' = cache, inflight' = inflight,
           \A c \in Calls : board.card[c].status = "unborn" => board'.card[c].status = "unborn"
    PROVE  CallInv'
    BY DEF IndInv, CallInv, Key

\* The sinks of first runs under a step that leaves workers alone.
LEMMA SinksFrame ==
    ASSUME IndInv, worker' = worker, env' = env, storedAt' = storedAt,
           \A c \in Calls : \/ lastRun'[c] = lastRun[c]
                            \/ lastRun[c] # None /\ lastRun'[c] = Parked
    PROVE  FirstRunHasSinks'
<1>1. Holding' = Holding
    BY DEF Holding
<1>2. \A w \in Holding : worker[w].token \in Nat /\ worker[w].card \in Calls
    BY TypeParts DEF IndInv, WorkerRecs, Holding, WorkerInv, Owning
<1>3. \A w \in Holding : worker[w].token = lastRun'[worker[w].card] =>
        worker[w].token = lastRun[worker[w].card]
    BY <1>2 DEF Parked
<1> QED BY <1>1, <1>2, <1>3 DEF IndInv, FirstRunHasSinks

\* A step of the board that changes nothing of calls, workers and streams.
LEMMA BoardFrame ==
    ASSUME IndInv, env' = env, call' = call, cache' = cache, inflight' = inflight, worker' = worker,
           lastRun' = lastRun, escrow' = escrow, storedAt' = storedAt, service' = service, now' = now,
           operations' = operations, ready' = ready, board' \in Boards, board'.tokens = board.tokens,
           \A c \in Calls : board'.card[c].status = "unborn" <=> board.card[c].status = "unborn",
           ~board'.closed => ~board.closed /\ PendingCards(board') \subseteq PendingCards(board)
    PROVE  /\ TypeOK' /\ CallInv' /\ WorkerInv' /\ StreamInv' /\ CloseInv'
           /\ NoSleepOnPendingWork' /\ FirstRunHasSinks'
<1>1. TypeOK'
    BY TypeParts DEF IndInv, InflightOK, RestType
<1>2. CallInv'
    BY CallFrame
<1>3. WorkerInv'
    BY WorkerFrame
<1>4. \A c \in Calls : EscrowMove(c)
    BY DEF EscrowMove
<1>5. \A w \in Workers : worker[w].pc = "claimed" => worker[w].card \in Calls
    BY DEF IndInv, WorkerInv, Owning
<1>6. StreamInv'
    BY <1>4, <1>5, EscrowKeeps
<1>7. CloseInv'
    BY DEF IndInv, CloseInv
<1>8. NoSleepOnPendingWork'
    BY DEF IndInv, NoSleepOnPendingWork
<1>9. FirstRunHasSinks'
    BY SinksFrame
<1> QED BY <1>1, <1>2, <1>3, <1>6, <1>7, <1>8, <1>9

\* The board's janitor keeps the invariant.
LEMMA BoardJanitorKeeps ==
    ASSUME IndInv, BoardJanitor
    PROVE  IndInv'
<1>1. now \in Nat /\ board \in Boards /\ BoardInv(board, now) /\ now' = now
    BY EnvTypes DEF IndInv, BoardJanitor
<1>2. board' \in Boards /\ EvictRel(board, board', now) /\ BoardInv(board', now')
    BY <1>1, EvictBoard DEF BoardJanitor
<1>3. /\ WorkSame(board, board') /\ board'.card = board.card /\ PendingCards(board') = PendingCards(board)
      /\ board'.closed = board.closed /\ board'.tokens = board.tokens
    BY <1>1, <1>2, EvictSame DEF WorkSame
<1>4. OneCurrentRun'
    BY <1>3, WorkFrame DEF BoardJanitor, workVars
<1>5. /\ TypeOK' /\ CallInv' /\ WorkerInv' /\ StreamInv' /\ CloseInv'
      /\ NoSleepOnPendingWork' /\ FirstRunHasSinks'
    BY <1>2, <1>3, BoardFrame DEF BoardJanitor, callVars, workVars
<1> QED BY <1>2, <1>4, <1>5 DEF IndInv

\* A cancel called late keeps the invariant.
LEMMA CancelLeaseKeeps ==
    ASSUME IndInv, NEW token \in board.cancels, CancelLease(token)
    PROVE  IndInv'
<1>1. now \in Nat /\ board \in Boards /\ BoardInv(board, now) /\ now' = now
    BY EnvTypes DEF IndInv, CancelLease
<1>2. \A c \in Calls : board.leases[c] \notin {token}
  <2>1. token # None
      BY <1>1, ConstantTypes DEF BoardInv, LeaseInv
  <2> QED BY <1>1, <2>1 DEF BoardInv, LeaseInv
<1>3. /\ board' \in Boards /\ SameCards(board, board') /\ BoardInv(board', now')
      /\ board'.closed = board.closed /\ board'.leases = board.leases /\ board'.tokens = board.tokens
      /\ board'.live = board.live \ {token} /\ board'.cancels = board.cancels \ {token}
    BY <1>1, <1>2, CancelBoard DEF CancelLease
<1>4. OneCurrentRun'
  <2>1. Holding' = Holding
      BY DEF Holding, CancelLease, workVars
  <2>2. board'.live \ board'.cancels = (board.live \ board.cancels) \ {token}
      BY <1>3
  <2>3. token \notin board.live \ board.cancels
      OBVIOUS
  <2> QED BY <1>3, <2>1, <2>2, <2>3 DEF IndInv, OneCurrentRun, SameCards, Indexed, CancelLease, workVars
<1>5. /\ TypeOK' /\ CallInv' /\ WorkerInv' /\ StreamInv' /\ CloseInv'
      /\ NoSleepOnPendingWork' /\ FirstRunHasSinks'
    BY <1>3, BoardFrame DEF CancelLease, callVars, workVars, SameCards, PendingCards
<1> QED BY <1>3, <1>4, <1>5 DEF IndInv

\* Close of the board keeps the invariant.
LEMMA BoardCloseKeeps ==
    ASSUME IndInv, BoardClose
    PROVE  IndInv'
<1>1. now \in Nat /\ board \in Boards /\ BoardInv(board, now) /\ now' = now
    BY EnvTypes DEF IndInv, BoardClose
<1>2. /\ board' \in Boards /\ SameCards(board, board') /\ BoardInv(board', now') /\ board'.closed
      /\ board'.tokens = board.tokens
    BY <1>1, CloseKeeps DEF BoardClose
<1>3. OneCurrentRun'
    BY <1>2 DEF OneCurrentRun
<1>4. /\ TypeOK' /\ CallInv' /\ WorkerInv' /\ StreamInv' /\ CloseInv'
      /\ NoSleepOnPendingWork' /\ FirstRunHasSinks'
    BY <1>2, BoardFrame DEF BoardClose, callVars, workVars, SameCards
<1> QED BY <1>2, <1>3, <1>4 DEF IndInv

\* The end of the board's context keeps the invariant.
LEMMA BoardContextEndsKeeps ==
    ASSUME IndInv, BoardContextEnds
    PROVE  IndInv'
<1>1. now \in Nat /\ board \in Boards /\ BoardInv(board, now) /\ now' = now
    BY EnvTypes DEF IndInv, BoardContextEnds
<1>2. /\ board' \in Boards /\ SameCards(board, board') /\ BoardInv(board', now') /\ board'.closed
      /\ board'.tokens = board.tokens
    BY <1>1, EndKeeps DEF BoardContextEnds
<1>3. OneCurrentRun'
    BY <1>2 DEF OneCurrentRun
<1>4. /\ TypeOK' /\ CallInv' /\ WorkerInv' /\ StreamInv' /\ CloseInv'
      /\ NoSleepOnPendingWork' /\ FirstRunHasSinks'
    BY <1>2, BoardFrame DEF BoardContextEnds, callVars, workVars
<1> QED BY <1>2, <1>3, <1>4 DEF IndInv

\* How an operator's step leaves the run of each card.
ParkStep(c) ==
    \A d \in Calls : \/ lastRun'[d] = lastRun[d] /\
                        (d = c => board.card[c].status # "claimed" \/ lastRun[c] = None)
                     \/ d = c /\ lastRun[d] # None /\ lastRun'[d] = Parked

\* An operator's transition: the lease it takes away is the one whose cancel is due, so the
\* run it parks is no longer current, and no other run loses its lease.
LEMMA OperateKeeps ==
    ASSUME IndInv, NEW c \in Calls, NEW from \in SUBSET Unsettled, NEW to \in Statuses, to \notin from,
           Operate(c, from, to), ParkStep(c), lastRun' \in [Calls -> Nat \cup {Parked}],
           (ready' = ready /\ to # "pending") \/ SignalWork
    PROVE  IndInv'
<1>1. now \in Nat /\ board \in Boards /\ BoardInv(board, now) /\ now' = now /\ env' = env /\ call' = call
      /\ cache' = cache /\ inflight' = inflight /\ worker' = worker /\ escrow' = escrow
      /\ storedAt' = storedAt /\ service' = service
    BY EnvTypes DEF IndInv, Operate, callVars
<1>2. c \in board.cards /\ board.card[c].status \in Unsettled /\ to # board.card[c].status
      /\ board' = MoveTo(board, c, to)
    BY DEF Operate, Indexed
<1>3. board' \in Boards /\ MoveRel(board, board', c, to, now) /\ BoardInv(board', now')
    BY <1>1, <1>2, MoveBoard
<1>4. \A d \in Calls : board'.card[d].status = "unborn" <=> board.card[d].status = "unborn"
    BY <1>2, <1>3 DEF MoveRel, Unsettled, Statuses, TerminalStatus
<1>5. TypeOK'
  <2>1. ready' \subseteq Workers
      BY TypeParts DEF IndInv, RestType, SignalWork
  <2>2. operations' \in 0..env.operations
      BY EnvTypes, TypeParts DEF IndInv, RestType, Operate
  <2> QED BY <1>1, <1>3, <2>1, <2>2, TypeParts DEF IndInv, InflightOK, RestType
<1>6. CallInv'
    BY <1>1, <1>4, CallFrame
<1>7. \A d \in Calls : lastRun'[d] = lastRun[d] \/ (lastRun[d] # None /\ lastRun'[d] = Parked)
    BY DEF ParkStep
<1>8. WorkerInv'
    BY <1>1, <1>3, <1>4, <1>7, WorkerFrame DEF MoveRel
<1>9. StreamInv'
  <2>1. \A d \in Calls : EscrowMove(d)
      BY <1>1 DEF EscrowMove
  <2>2. \A w \in Workers : worker[w].pc = "claimed" => worker[w].card \in Calls /\ worker[w].token \in Nat
      BY TypeParts DEF IndInv, WorkerInv, Owning, WorkerRecs
  <2>3. \A d \in Calls : /\ lastRun'[d] = None => lastRun[d] = None
                         /\ lastRun'[d] \in Nat => lastRun'[d] = lastRun[d]
      BY <1>7 DEF Parked, None
  <2> QED BY <1>1, <1>4, <2>1, <2>2, <2>3, EscrowKeeps
<1>10. CloseInv'
    BY <1>1 DEF IndInv, CloseInv
<1>11. OneCurrentRun'
  <2> SUFFICES ASSUME ~board.closed, NEW w \in Holding
               PROVE  IF lastRun'[worker[w].card] = worker[w].token
                      THEN /\ worker[w].card \in board'.cards /\ board'.card[worker[w].card].status = "claimed"
                           /\ board'.leases[worker[w].card] = worker[w].token
                           /\ worker[w].token \in board'.live \ board'.cancels
                      ELSE worker[w].token \notin board'.live \ board'.cancels
      BY <1>1, <1>3 DEF OneCurrentRun, Holding, Indexed, MoveRel
  <2> DEFINE d == worker[w].card
             n == worker[w].token
  <2>1. d \in Calls /\ n \in Nat \ {0} /\ lastRun[d] # None
      BY TypeParts DEF IndInv, WorkerInv, Owning, Holding, WorkerRecs, None
  <2>2. IF lastRun[d] = n
        THEN /\ d \in board.cards /\ board.card[d].status = "claimed"
             /\ board.leases[d] = n /\ n \in board.live \ board.cancels
        ELSE n \notin board.live \ board.cancels
      BY DEF IndInv, OneCurrentRun, Indexed
  <2> HIDE DEF d, n
  <2>3. board'.live = board.live /\ board'.cards = board.cards
        /\ board'.cancels = board.cancels \cup ({board.leases[c]} \ {None})
      BY <1>3 DEF MoveRel
  <2>4. CASE d = c
    <3>1. lastRun'[d] # n
        BY <2>1, <2>2, <2>4 DEF ParkStep, Parked
    <3>2. n \notin board'.live \ board'.cancels
        BY <2>1, <2>2, <2>3, <2>4
    <3> QED BY <3>1, <3>2 DEF d, n
  <2>5. CASE d # c
    <3>1. lastRun'[d] = lastRun[d] /\ board'.card[d] = board.card[d] /\ board'.leases[d] = board.leases[d]
        BY <2>1, <2>5, <1>3 DEF ParkStep, MoveRel
    <3>2. lastRun[d] = n => board.leases[c] # n
        BY <2>1, <2>2, <2>5, <1>1 DEF BoardInv, LeaseInv
    <3> QED BY <3>1, <3>2, <2>2, <2>3 DEF d, n
  <2> QED BY <2>4, <2>5
<1>12. NoSleepOnPendingWork'
  <2>1. CASE SignalWork
      BY <2>1, <1>1, EnvTypes DEF SignalWork, NoSleepOnPendingWork, IndInv
  <2>2. CASE ready' = ready /\ to # "pending"
    <3>1. PendingCards(board') \subseteq PendingCards(board) /\ board'.closed = board.closed
        BY <2>2, <1>3 DEF PendingCards, MoveRel, Boards
    <3> QED BY <3>1, <2>2, <1>1 DEF NoSleepOnPendingWork, IndInv
  <2> QED BY <2>1, <2>2
<1>13. FirstRunHasSinks'
    BY <1>1, <1>7, SinksFrame
<1> QED BY <1>3, <1>5, <1>6, <1>8, <1>9, <1>10, <1>11, <1>12, <1>13 DEF IndInv

\* The four operator actions are such transitions.
LEMMA OperatorsKeep ==
    ASSUME IndInv, NEW c \in Calls, Operators(c)
    PROVE  IndInv'
<1>1. lastRun \in [Calls -> Nat \cup {Parked}]
    BY TypeParts DEF IndInv, RestType
<1>2. Park(c) => ParkStep(c) /\ lastRun' \in [Calls -> Nat \cup {Parked}]
    BY <1>1, ConstantTypes DEF Park, ParkStep
<1>3. CASE ClaimCard(c)
  <2>1. ParkStep(c) /\ lastRun' = lastRun /\ ready' = ready /\ Operate(c, {"pending"}, "claimed")
      BY <1>3 DEF ClaimCard, ParkStep, Operate
  <2> QED BY <1>1, <2>1, OperateKeeps DEF Unsettled, Statuses
<1>4. CASE Suspend(c)
  <2>1. Park(c) /\ ready' = ready /\ Operate(c, {"claimed"}, "suspended")
      BY <1>4 DEF Suspend
  <2> QED BY <1>2, <2>1, OperateKeeps DEF Unsettled, Statuses
<1>5. CASE Resume(c)
  <2>1. ParkStep(c) /\ lastRun' = lastRun /\ SignalWork /\ Operate(c, {"suspended"}, "pending")
      BY <1>5 DEF Resume, ParkStep, Operate
  <2> QED BY <1>1, <2>1, OperateKeeps DEF Unsettled, Statuses
<1>6. CASE Cancel(c)
  <2>1. Park(c) /\ ready' = ready /\ Operate(c, {"pending", "claimed", "suspended"}, "canceled")
      BY <1>6 DEF Cancel
  <2> QED BY <1>2, <2>1, OperateKeeps DEF Unsettled, Statuses, TerminalStatus
<1> QED BY <1>3, <1>4, <1>5, <1>6 DEF Operators

\* What both critical sections of Submit keep, whether they refuse, replay or admit.
LEMMA SubmitFrame ==
    ASSUME IndInv, NEW c \in Calls, call[c].pc \in {"submit", "validate"},
           (call \in CallRecs)',
           \/ call'[c].pc \in {"validate", "rearm", "release", "settle"}
           \/ call'[c].pc = "returned" /\ c \in env.direct,
           \A d \in Calls \ {c} : call'[d] = call[d],
           now' = now, env' = env, cache' = cache, inflight' = inflight, worker' = worker,
           lastRun' = lastRun, escrow' = escrow, storedAt' = storedAt, service' = service,
           operations' = operations,
           board' \in Boards, BoardInv(board', now), WorkSame(board, board'),
           call'[c].pc \in {"validate", "release"} => board'.card[c].status = "unborn",
           \A d \in Calls \ {c} : board.card[d].status = "unborn" => board'.card[d].status = "unborn",
           \/ ready' = ready /\ PendingCards(board') \subseteq PendingCards(board)
           \/ SignalWork
    PROVE  IndInv'
<1>1. call \in CallRecs /\ InflightOK /\ TypeOK
    BY TypeParts DEF IndInv
<1>2. TypeOK'
  <2>1. InflightOK'
      BY <1>1 DEF InflightOK, InFlight, IndInv, CallInv
  <2>2. ready' \subseteq Workers
      BY TypeParts DEF IndInv, RestType, SignalWork
  <2> QED BY <2>1, <2>2, TypeParts DEF IndInv, RestType
<1>3. (BoardInv(board, now))'
    OBVIOUS
<1>4. CallInv'
  <2>1. ASSUME NEW d \in Calls
        PROVE  /\ call'[d].pc \in {"idle", "single", "waiting", "store", "submit", "validate", "release"} =>
                     board'.card[d].status = "unborn"
               /\ call'[d].pc = "waiting" => call'[d].follows \in Calls
               /\ call'[d].pc = "single" => Key(d) \in Keys /\ d \notin env.direct
    <3>1. CASE d = c
        BY <3>1
    <3>2. CASE d # c
        BY <3>2 DEF IndInv, CallInv
    <3> QED BY <3>1, <3>2
  <2> QED BY <2>1 DEF IndInv, CallInv, Key
<1>5. WorkerInv' /\ OneCurrentRun'
    BY WorkFrame
<1>6. StreamInv'
  <2>1. \A d \in Calls : EscrowMove(d)
      BY DEF EscrowMove
  <2>2. \A w \in Workers : worker[w].pc = "claimed" => worker[w].card \in Calls
      BY DEF IndInv, WorkerInv, Owning
  <2>3. \A d \in Calls : call'[d].pc \in {"submit", "validate"} => call[d].pc \in {"submit", "validate"}
      OBVIOUS
  <2>4. \A d \in Calls : board'.card[d].status # "unborn" =>
                             board.card[d].status # "unborn" \/ call[d].pc \in {"submit", "validate"}
      OBVIOUS
  <2> QED BY <2>1, <2>2, <2>3, <2>4, EscrowKeeps
<1>7. CloseInv'
    BY DEF IndInv, CloseInv
<1>8. NoSleepOnPendingWork'
  <2>1. CASE SignalWork
      BY <2>1, EnvTypes DEF SignalWork, NoSleepOnPendingWork, IndInv
  <2>2. CASE ready' = ready /\ PendingCards(board') \subseteq PendingCards(board)
      BY <2>2 DEF NoSleepOnPendingWork, IndInv, WorkSame
  <2> QED BY <2>1, <2>2
<1>9. FirstRunHasSinks'
    BY SinksFrame
<1> QED BY <1>2, <1>3, <1>4, <1>5, <1>6, <1>7, <1>8, <1>9 DEF IndInv

\* The board that Submit decides on.
LEMMA EvictedFacts ==
    ASSUME IndInv, NEW c \in Calls
    PROVE  /\ Evicted \in Boards /\ BoardInv(Evicted, now) /\ WorkSame(board, Evicted)
           /\ Evicted.card = board.card /\ PendingCards(Evicted) = PendingCards(board)
           /\ Found(Evicted, Key(c)) \in Calls \cup {None}
           /\ Fingerprint(c) \in Nat \X (Calls \cup {None})
<1>1. now \in Nat /\ board \in Boards /\ BoardInv(board, now)
    BY EnvTypes DEF IndInv
<1>2. /\ Evicted \in Boards /\ BoardInv(Evicted, now) /\ WorkSame(board, Evicted)
      /\ Evicted.card = board.card /\ PendingCards(Evicted) = PendingCards(board)
  <2>1. CASE board.closed
      BY <1>1, <2>1 DEF Evicted, WorkSame
  <2>2. CASE ~board.closed
    <3>1. Evict(board) \in Boards /\ EvictRel(board, Evict(board), now) /\ BoardInv(Evict(board), now)
        BY <1>1, EvictBoard
    <3> QED BY <1>1, <2>2, <3>1, EvictSame DEF Evicted
  <2> QED BY <2>1, <2>2
<1>3. Found(Evicted, Key(c)) \in Calls \cup {None}
    BY <1>2, EnvTypes DEF IndInv, Found, Boards
<1>4. Fingerprint(c) \in Nat \X (Calls \cup {None})
    BY EnvTypes DEF IndInv, Fingerprint
<1> QED BY <1>2, <1>3, <1>4

\* The first critical section of Submit keeps the invariant.
LEMMA SubmitChecksKeeps ==
    ASSUME IndInv, NEW c \in Calls, SubmitChecks(c)
    PROVE  IndInv'
<1> DEFINE f == Found(Evicted, Key(c))
<1>1. /\ call[c].pc = "submit" /\ board' = Evicted /\ board.card[c].status = "unborn"
      /\ now' = now /\ env' = env /\ cache' = cache /\ inflight' = inflight /\ worker' = worker
      /\ lastRun' = lastRun /\ escrow' = escrow /\ storedAt' = storedAt /\ service' = service
      /\ operations' = operations /\ ready' = ready
    BY DEF SubmitChecks, workVars, IndInv, CallInv
<1>2. f \in Calls \cup {None}
    BY EvictedFacts
<1>3. call \in CallRecs
    BY TypeParts DEF IndInv
<1>4. \/ Outcome(c, Error, "release") \/ Outcome(c, Error, "settle")
      \/ Outcome(c, f, "rearm") \/ Outcome(c, f, "settle") \/ Goto(c, "validate")
      \/ c \in env.direct /\ (Outcome(c, Error, "returned") \/ Outcome(c, f, "returned"))
    BY DEF SubmitChecks, AfterSubmit
<1> HIDE DEF f
<1>5. /\ \/ call'[c].pc \in {"validate", "rearm", "release", "settle"}
         \/ call'[c].pc = "returned" /\ c \in env.direct
      /\ (call \in CallRecs)'
      /\ \A d \in Calls \ {c} : call'[d] = call[d]
  <2>1. ASSUME NEW r \in Calls \cup {None, Error}, NEW pc \in {"rearm", "release", "settle", "returned"},
          Outcome(c, r, pc)
        PROVE  /\ call'[c].pc = pc /\ (call \in CallRecs)'
               /\ \A d \in Calls \ {c} : call'[d] = call[d]
      BY <1>3, <2>1, PcTypes, OutcomeType DEF Outcome, CallRecs
  <2>2. CASE Goto(c, "validate")
      BY <1>3, <2>2, PcTypes DEF Goto, CallRecs
  <2> QED BY <1>2, <1>4, <2>1, <2>2
<1> QED BY <1>1, <1>5, EvictedFacts, SubmitFrame

\* The second critical section of Submit keeps the invariant.
LEMMA SubmitAdmitsKeeps ==
    ASSUME IndInv, NEW c \in Calls, SubmitAdmits(c)
    PROVE  IndInv'
<1> DEFINE b == Evicted
           f == Found(b, Key(c))
<1>1. /\ call[c].pc = "validate" /\ board.card[c].status = "unborn"
      /\ now' = now /\ env' = env /\ cache' = cache /\ inflight' = inflight /\ worker' = worker
      /\ lastRun' = lastRun /\ escrow' = escrow /\ storedAt' = storedAt /\ service' = service
      /\ operations' = operations
    BY DEF SubmitAdmits, IndInv, CallInv
<1>2. /\ b \in Boards /\ BoardInv(b, now) /\ WorkSame(board, b) /\ b.card = board.card
      /\ PendingCards(b) = PendingCards(board) /\ f \in Calls \cup {None}
      /\ Fingerprint(c) \in Nat \X (Calls \cup {None})
    BY EvictedFacts
<1>3. call \in CallRecs /\ now \in Nat /\ Key(c) \in Keys \cup {NoKey}
    BY TypeParts, EnvTypes DEF IndInv
<1>4. ASSUME NEW r \in Calls \cup {None, Error}, NEW pc \in {"rearm", "release", "settle", "returned"},
             Outcome(c, r, pc)
      PROVE  /\ call'[c].pc = pc /\ (call \in CallRecs)'
             /\ \A d \in Calls \ {c} : call'[d] = call[d]
    BY <1>3, <1>4, PcTypes, OutcomeType DEF Outcome, CallRecs
<1>5. CASE Refused(b, c) \/ Replays(b, c) \/ PendingLimit(b)
  <2>1. board' = b /\ ready' = ready
        /\ (\/ Outcome(c, Error, "release") \/ Outcome(c, Error, "settle")
            \/ Outcome(c, f, "rearm") \/ Outcome(c, f, "settle")
            \/ c \in env.direct /\ (Outcome(c, Error, "returned") \/ Outcome(c, f, "returned")))
      BY <1>5 DEF SubmitAdmits, AfterSubmit
  <2> HIDE DEF f, b
  <2>2. /\ \/ call'[c].pc \in {"validate", "rearm", "release", "settle"}
           \/ call'[c].pc = "returned" /\ c \in env.direct
        /\ (call \in CallRecs)'
        /\ \A d \in Calls \ {c} : call'[d] = call[d]
      BY <1>2, <1>4, <2>1
  <2> QED BY <1>1, <1>2, <2>1, <2>2, SubmitFrame
<1>6. CASE ~(Refused(b, c) \/ Replays(b, c) \/ PendingLimit(b))
  <2>1. /\ board' = Admit(b, c, Key(c), Fingerprint(c)) /\ SignalWork
        /\ \/ Outcome(c, c, "rearm") \/ Outcome(c, c, "settle")
           \/ c \in env.direct /\ Outcome(c, c, "returned")
        /\ f = None
      BY <1>6 DEF SubmitAdmits, AfterSubmit, Replays
  <2> HIDE DEF f, b
  <2>2. PICK a \in Boards : /\ AdmitRel(b, a, c, Key(c), now) /\ board' \in Boards
                            /\ EvictRel(a, board', now) /\ BoardInv(board', now)
      BY <1>1, <1>2, <1>3, <2>1, AdmitBoard DEF f
  <2>3. /\ \/ call'[c].pc \in {"rearm", "settle"}
           \/ call'[c].pc = "returned" /\ c \in env.direct
        /\ (call \in CallRecs)'
        /\ \A d \in Calls \ {c} : call'[d] = call[d]
      BY <1>4, <2>1
  <2>4. WorkSame(a, board') /\ board'.card = a.card
      BY <2>2, EvictSame
  <2>5. WorkSame(b, a)
      BY <1>1, <1>2, <2>2 DEF AdmitRel, WorkSame
  <2>6. WorkSame(board, board')
      BY <1>2, <2>4, <2>5 DEF WorkSame
  <2>7. \A d \in Calls \ {c} : board.card[d].status = "unborn" => board'.card[d].status = "unborn"
      BY <1>2, <2>2, <2>4 DEF AdmitRel
  <2> QED BY <1>1, <2>1, <2>2, <2>3, <2>6, <2>7, SubmitFrame
<1> QED BY <1>5, <1>6

\* Complete takes effect only under the current lease, and disturbs no other card or token.
LEMMA CompleteBoard ==
    ASSUME IndInv, NEW w \in Workers, WorkerCompletes(w)
    PROVE  /\ board' \in Boards /\ BoardInv(board', now) /\ board'.closed = board.closed
           /\ board'.tokens = board.tokens /\ board'.cards = board.cards
           /\ PendingCards(board') \subseteq PendingCards(board)
           /\ \A d \in Calls : board'.card[d].status = "unborn" <=> board.card[d].status = "unborn"
           /\ \A d \in Calls \ {worker[w].card} :
              board'.card[d] = board.card[d] /\ board'.leases[d] = board.leases[d]
           /\ \/ board' = board
              \/ board.leases[worker[w].card] = worker[w].token
           /\ \A n \in Nat \ {worker[w].token} : n \in board'.live \ board'.cancels <=>
              n \in board.live \ board.cancels
<1> DEFINE c == worker[w].card
           n == worker[w].token
           r == worker[w].response
           x == MoveTo(board, c, r)
<1>1. now \in Nat /\ board \in Boards /\ BoardInv(board, now)
    BY EnvTypes DEF IndInv
<1>2. c \in Calls /\ n # None /\ r \in TerminalStatus
    BY DEF IndInv, WorkerInv, Owning, WorkerCompletes
<1>3. board' = IF c \in board.cards /\ board.leases[c] = n /\ board.card[c].status = "claimed"
               THEN CallCancel(x, {n}) ELSE board
    BY DEF WorkerCompletes, CompleteLease, Indexed
<1>4. CASE ~(c \in board.cards /\ board.leases[c] = n /\ board.card[c].status = "claimed")
    BY <1>1, <1>3, <1>4
<1>5. CASE c \in board.cards /\ board.leases[c] = n /\ board.card[c].status = "claimed"
  <2> HIDE DEF c, n, r
  <2>1. r \in Statuses /\ r # "claimed" /\ r # "pending" /\ r # "unborn"
      BY <1>2 DEF TerminalStatus, Statuses
  <2>2. x \in Boards /\ MoveRel(board, x, c, r, now) /\ BoardInv(x, now)
      BY <1>1, <1>5, <2>1, MoveBoard DEF Unsettled
  <2> HIDE DEF x
  <2>3. \A d \in Calls : x.leases[d] \notin {n}
      BY <1>2, <1>5, <2>2 DEF MoveRel, BoardInv, LeaseInv
  <2>4. /\ board' \in Boards /\ SameCards(x, board') /\ BoardInv(board', now)
        /\ board'.closed = x.closed /\ board'.leases = x.leases /\ board'.tokens = x.tokens
        /\ board'.live = x.live \ {n} /\ board'.cancels = x.cancels \ {n}
      BY <1>3, <1>5, <2>2, <2>3, CancelBoard
  <2>5. board'.closed = board.closed /\ board'.tokens = board.tokens /\ board'.cards = board.cards
      BY <2>2, <2>4 DEF MoveRel, SameCards
  <2>6. \A d \in Calls \ {c} : board'.card[d] = board.card[d] /\ board'.leases[d] = board.leases[d]
      BY <2>2, <2>4 DEF MoveRel, SameCards
  <2>7. board'.card[c].status = r
      BY <2>2, <2>4 DEF MoveRel, SameCards
  <2>8. PendingCards(board') \subseteq PendingCards(board)
      BY <1>1, <2>1, <2>5, <2>6, <2>7 DEF PendingCards, Boards
  <2>9. \A d \in Calls : board'.card[d].status = "unborn" <=> board.card[d].status = "unborn"
      BY <1>5, <2>1, <2>6, <2>7
  <2>10. \A m \in Nat \ {n} : m \in board'.live \ board'.cancels <=> m \in board.live \ board.cancels
      BY <1>5, <2>2, <2>4 DEF MoveRel
  <2> QED BY <1>5, <2>4, <2>5, <2>6, <2>8, <2>9, <2>10 DEF c, n
<1> QED BY <1>4, <1>5

\* A completion keeps the invariant.
LEMMA WorkerCompletesKeeps ==
    ASSUME IndInv, NEW w \in Workers, WorkerCompletes(w)
    PROVE  IndInv'
<1>1. /\ board' \in Boards /\ BoardInv(board', now) /\ board'.closed = board.closed
      /\ board'.tokens = board.tokens /\ board'.cards = board.cards
      /\ PendingCards(board') \subseteq PendingCards(board)
      /\ \A d \in Calls : board'.card[d].status = "unborn" <=> board.card[d].status = "unborn"
      /\ \A d \in Calls \ {worker[w].card} :
         board'.card[d] = board.card[d] /\ board'.leases[d] = board.leases[d]
      /\ \/ board' = board
         \/ board.leases[worker[w].card] = worker[w].token
      /\ \A n \in Nat \ {worker[w].token} : n \in board'.live \ board'.cancels <=>
         n \in board.live \ board.cancels
    BY CompleteBoard
<1>2. /\ worker[w].pc = "completing" /\ now' = now /\ env' = env /\ call' = call /\ cache' = cache
      /\ inflight' = inflight /\ ready' = ready /\ lastRun' = lastRun /\ escrow' = escrow
      /\ storedAt' = storedAt /\ service' = service /\ operations' = operations
    BY DEF WorkerCompletes, callVars
<1>3. worker \in WorkerRecs
    BY TypeParts DEF IndInv
<1>4. /\ (worker \in WorkerRecs)' /\ worker'[w].pc \in {"release", "claim"}
      /\ worker'[w].card = worker[w].card /\ worker'[w].token = worker[w].token
      /\ worker'[w].first = worker[w].first
      /\ \A v \in Workers \ {w} : worker'[v] = worker[v]
    BY <1>3, PcTypes DEF WorkerCompletes, WorkerRecs
<1>5. TypeOK'
    BY <1>1, <1>2, <1>4, TypeParts DEF IndInv, InflightOK, RestType
<1>6. CallInv'
    BY <1>1, <1>2, CallFrame
<1>7. w \in env.workers
    BY <1>2 DEF IndInv, WorkerInv
<1>8. WorkerInv'
  <2>1. Owning' \subseteq Owning /\ Owning \subseteq Workers
      BY <1>2, <1>4 DEF Owning
  <2>2. \A v \in Workers : /\ worker'[v].card = worker[v].card /\ worker'[v].token = worker[v].token
                           /\ worker'[v].first = worker[v].first
                           /\ worker'[v].pc = "completing" =>
                              worker[v].pc = "completing" /\ worker'[v] = worker[v]
                           /\ v \notin env.workers => worker'[v].pc = worker[v].pc
      BY <1>4, <1>7
  <2> QED BY <1>1, <1>2, <2>1, <2>2 DEF IndInv, WorkerInv
<1>9. StreamInv'
  <2>1. \A d \in Calls : EscrowMove(d)
      BY <1>2 DEF EscrowMove
  <2>2. \A v \in Workers : worker'[v].pc = "claimed" => worker'[v] = worker[v] /\ worker[v].card \in Calls
      BY <1>4 DEF IndInv, WorkerInv, Owning
  <2> QED BY <1>1, <1>2, <2>1, <2>2, EscrowKeeps
<1>10. CloseInv'
    BY <1>2, <1>7 DEF IndInv, CloseInv
<1>11. OneCurrentRun'
  <2> SUFFICES ASSUME ~board.closed, NEW v \in Workers \ {w}, v \in Holding
               PROVE  IF lastRun[worker[v].card] = worker[v].token
                      THEN /\ worker[v].card \in board'.cards /\ board'.card[worker[v].card].status = "claimed"
                           /\ board'.leases[worker[v].card] = worker[v].token
                           /\ worker[v].token \in board'.live \ board'.cancels
                      ELSE worker[v].token \notin board'.live \ board'.cancels
      BY <1>1, <1>2, <1>4 DEF OneCurrentRun, Holding, Indexed
  <2> DEFINE d == worker[v].card
             n == worker[v].token
  <2>1. d \in Calls /\ n \in Nat \ {0} /\ n # worker[w].token
      BY <1>3 DEF IndInv, WorkerInv, Owning, Holding, WorkerRecs, None
  <2>2. IF lastRun[d] = n
        THEN /\ d \in board.cards /\ board.card[d].status = "claimed"
             /\ board.leases[d] = n /\ n \in board.live \ board.cancels
        ELSE n \notin board.live \ board.cancels
      BY DEF IndInv, OneCurrentRun, Indexed
  <2> HIDE DEF d, n
  <2>3. CASE d = worker[w].card
      BY <1>1, <2>1, <2>2 DEF d, n
  <2>4. CASE d # worker[w].card
      BY <1>1, <2>1, <2>2 DEF d, n
  <2> QED BY <2>3, <2>4
<1>12. NoSleepOnPendingWork'
    BY <1>1, <1>2, <1>4, EnvTypes DEF IndInv, NoSleepOnPendingWork
<1>13. FirstRunHasSinks'
  <2>1. Holding' \subseteq Holding \ {w} /\ Holding \subseteq Workers
      BY <1>4 DEF Holding
  <2> QED BY <1>2, <1>4, <2>1 DEF IndInv, FirstRunHasSinks
<1> QED BY <1>1, <1>2, <1>5, <1>6, <1>8, <1>9, <1>10, <1>11, <1>12, <1>13 DEF IndInv

\* A claim keeps the invariant.
LEMMA WorkerClaimsKeeps ==
    ASSUME IndInv, NEW w \in Workers, WorkerClaims(w)
    PROVE  IndInv'
<1> DEFINE n == board.tokens + 1
<1>1. /\ w \in env.workers /\ worker[w].pc = "claim" /\ ~board.closed
      /\ now' = now /\ env' = env /\ call' = call /\ cache' = cache
      /\ inflight' = inflight /\ ready' = ready /\ escrow' = escrow
      /\ storedAt' = storedAt /\ service' = service /\ operations' = operations
    BY DEF WorkerClaims, callVars
<1>2. PICK c \in PendingCards(board) :
          /\ board' = Claim(board, c)
          /\ worker' = [worker EXCEPT ![w] = [pc |-> "claimed", card |-> c, token |-> n,
                                              response |-> "none", first |-> lastRun[c] = None,
                                              took |-> FALSE, at |-> 0]]
          /\ lastRun' = [lastRun EXCEPT ![c] = n]
    BY DEF WorkerClaims
<1>3. now \in Nat /\ board \in Boards /\ BoardInv(board, now) /\ worker \in WorkerRecs
      /\ lastRun \in [Calls -> Nat \cup {Parked}]
    BY EnvTypes, TypeParts DEF IndInv, RestType
<1>4. c \in Calls /\ c \in board.cards /\ board.card[c].status = "pending" /\ n \in Nat \ {0}
      /\ board.tokens \in Nat /\ n > board.tokens
    BY <1>3 DEF PendingCards, Boards
<1>5. /\ board' \in Boards /\ BoardInv(board', now)
      /\ board'.closed = board.closed /\ board'.cards = board.cards
      /\ \A d \in Calls \ {c} : board'.card[d] = board.card[d] /\ board'.leases[d] = board.leases[d]
      /\ board'.card[c].status = "claimed"
      /\ board'.leases[c] = n /\ board'.tokens = n
      /\ board'.live = board.live \cup {n} /\ board'.cancels = board.cancels
    BY <1>1, <1>2, <1>3, ClaimBoard
<1> HIDE DEF n
<1>6. /\ worker'[w].pc = "claimed" /\ worker'[w].card = c /\ worker'[w].token = n
      /\ worker'[w].first = (lastRun[c] = None) /\ \A v \in Workers \ {w} : worker'[v] = worker[v]
    BY <1>2, <1>3 DEF WorkerRecs
<1>7. lastRun'[c] = n /\ \A d \in Calls \ {c} : lastRun'[d] = lastRun[d]
    BY <1>2, <1>3, <1>4
<1>8. \A d \in Calls : board'.card[d].status = "unborn" <=> board.card[d].status = "unborn"
    BY <1>4, <1>5
<1>9. TypeOK'
  <2>1. (worker \in WorkerRecs)'
      BY <1>2, <1>3, <1>4, PcTypes DEF WorkerRecs
  <2>2. lastRun' \in [Calls -> Nat \cup {Parked}]
      BY <1>2, <1>3, <1>4
  <2> QED BY <1>1, <1>5, <2>1, <2>2, TypeParts DEF IndInv, InflightOK, RestType
<1>10. CallInv'
    BY <1>1, <1>8, CallFrame
<1>11. \A v \in Workers : worker[v].token <= board.tokens /\ worker[v].token \in Nat
                          /\ worker[v].token # n
    BY <1>3, <1>4 DEF IndInv, WorkerInv, WorkerRecs
<1>12. Owning' = Owning \cup {w} /\ w \notin Owning /\ Owning \subseteq Workers
    BY <1>1, <1>6 DEF Owning
<1>13. WorkerInv'
  <2>1. \A v \in Workers : /\ v \notin env.workers => worker'[v].pc = "claim"
                           /\ worker'[v].token <= board'.tokens
                           /\ worker'[v].pc = "completing" => worker'[v].response \in TerminalStatus
      BY <1>1, <1>4, <1>5, <1>6, <1>11 DEF IndInv, WorkerInv
  <2>2. \A v \in Owning' : /\ worker'[v].token # None /\ worker'[v].card \in Calls
                           /\ board'.card[worker'[v].card].status # "unborn"
                           /\ lastRun'[worker'[v].card] # None
    <3>1. ASSUME NEW v \in Owning
          PROVE  /\ worker'[v] = worker[v] /\ worker[v].token # None /\ worker[v].card \in Calls
                 /\ board.card[worker[v].card].status # "unborn" /\ lastRun[worker[v].card] # None
        BY <1>6, <1>12 DEF IndInv, WorkerInv
    <3> QED BY <1>4, <1>5, <1>6, <1>7, <1>8, <1>12, <3>1 DEF None
  <2>3. ASSUME NEW v \in Owning', worker'[v].first, lastRun'[worker'[v].card] = worker'[v].token,
               NEW u \in Owning', worker'[u].card = worker'[v].card
        PROVE  u = v
    <3>1. CASE v = w
      <4>1. lastRun[c] = None
          BY <1>6, <2>3, <3>1
      <4>2. u \notin Owning
          BY <1>6, <1>12, <2>3, <3>1, <4>1 DEF IndInv, WorkerInv
      <4> QED BY <1>12, <3>1, <4>2
    <3>2. CASE v # w
      <4>1. v \in Owning /\ worker'[v] = worker[v] /\ worker[v].token # n
          BY <1>6, <1>11, <1>12, <3>2
      <4>2. worker[v].card \in Calls /\ worker[v].card # c
          BY <1>7, <1>12, <2>3, <4>1 DEF IndInv, WorkerInv
      <4>3. u \in Owning /\ worker'[u] = worker[u]
          BY <1>6, <1>12, <2>3, <4>1, <4>2
      <4> QED BY <1>7, <1>12, <2>3, <4>1, <4>2, <4>3 DEF IndInv, WorkerInv
    <3> QED BY <3>1, <3>2
  <2>4. \A v, u \in Workers : worker'[v].token = worker'[u].token /\ worker'[u].token # None => v = u
      BY <1>6, <1>11 DEF IndInv, WorkerInv
  <2>5. \A d \in Calls : lastRun'[d] <= board'.tokens
    <3>1. \A d \in Calls : lastRun[d] <= board.tokens /\ lastRun[d] \in Int
        BY <1>3 DEF IndInv, WorkerInv, Parked
    <3> QED BY <1>4, <1>5, <1>7, <3>1
  <2> QED BY <1>1, <1>12, <2>1, <2>2, <2>3, <2>4, <2>5 DEF WorkerInv
<1>14. service.closing # "done"
    BY <1>1 DEF IndInv, CloseInv
<1>15. StreamInv'
  <2>1. \A d \in Calls : EscrowMove(d)
      BY <1>1 DEF EscrowMove
  <2>2. ASSUME NEW v \in Workers, worker'[v].pc = "claimed", worker'[v].first,
               lastRun'[worker'[v].card] = worker'[v].token
        PROVE  /\ worker'[v].card \in Calls
               /\ \/ worker[v].pc = "claimed" /\ worker[v].first /\ worker'[v].card = worker[v].card
                     /\ lastRun[worker[v].card] = worker[v].token
                  \/ /\ board.card[worker'[v].card].status # "unborn" /\ lastRun[worker'[v].card] = None
                     /\ service.closing # "done"
    <3>1. CASE v = w
        BY <1>4, <1>6, <1>14, <2>2, <3>1
    <3>2. CASE v # w
      <4>1. worker'[v] = worker[v] /\ worker[v].token # n /\ v \in Owning
          BY <1>6, <1>11, <2>2, <3>2 DEF Owning
      <4>2. worker[v].card \in Calls /\ worker[v].card # c
          BY <1>7, <2>2, <4>1 DEF IndInv, WorkerInv
      <4> QED BY <1>7, <2>2, <4>1, <4>2
    <3> QED BY <3>1, <3>2
  <2>3. \A d \in Calls : board'.card[d].status # "unborn" /\ lastRun'[d] = None =>
                             board.card[d].status # "unborn" /\ lastRun[d] = None
      BY <1>4, <1>7, <1>8 DEF None
  <2> QED BY <1>1, <2>1, <2>2, <2>3, EscrowKeeps
<1>16. CloseInv'
    BY <1>1, <1>14 DEF IndInv, CloseInv
<1>17. OneCurrentRun'
  <2>1. n \notin board.live \cup board.cancels
      BY <1>3, <1>4 DEF BoardInv, LeaseInv
  <2>2. ASSUME NEW v \in Holding, v # w
        PROVE  IF lastRun'[worker[v].card] = worker[v].token
               THEN /\ worker[v].card \in board'.cards /\ board'.card[worker[v].card].status = "claimed"
                    /\ board'.leases[worker[v].card] = worker[v].token
                    /\ worker[v].token \in board'.live \ board'.cancels
               ELSE worker[v].token \notin board'.live \ board'.cancels
    <3> DEFINE d == worker[v].card
               m == worker[v].token
    <3>1. d \in Calls /\ m # n
        BY <1>11 DEF IndInv, WorkerInv, Owning, Holding
    <3>2. IF lastRun[d] = m
          THEN /\ d \in board.cards /\ board.card[d].status = "claimed"
               /\ board.leases[d] = m /\ m \in board.live \ board.cancels
          ELSE m \notin board.live \ board.cancels
        BY <1>1 DEF IndInv, OneCurrentRun, Indexed
    <3> HIDE DEF d, m
    <3>3. CASE d = c
        BY <1>4, <1>5, <1>7, <3>1, <3>2 DEF d, m
    <3>4. CASE d # c
        BY <1>5, <1>7, <3>1, <3>2, <3>4 DEF d, m
    <3> QED BY <3>3, <3>4
  <2>3. ASSUME NEW v \in Holding'
        PROVE  IF lastRun'[worker'[v].card] = worker'[v].token
               THEN /\ worker'[v].card \in board'.cards /\ board'.card[worker'[v].card].status = "claimed"
                    /\ board'.leases[worker'[v].card] = worker'[v].token
                    /\ worker'[v].token \in board'.live \ board'.cancels
               ELSE worker'[v].token \notin board'.live \ board'.cancels
    <3>1. CASE v = w
        BY <1>4, <1>5, <1>6, <1>7, <2>1, <3>1
    <3>2. CASE v # w
      <4>1. v \in Holding /\ worker'[v] = worker[v]
          BY <1>6, <3>2 DEF Holding
      <4> QED BY <2>2, <3>2, <4>1
    <3> QED BY <3>1, <3>2
  <2> QED BY <2>3 DEF OneCurrentRun, Indexed
<1>18. NoSleepOnPendingWork'
  <2>1. PendingCards(board') \subseteq PendingCards(board)
      BY <1>3, <1>5 DEF PendingCards, Boards
  <2> QED BY <1>1, <1>5, <1>6, <2>1, EnvTypes DEF IndInv, NoSleepOnPendingWork
<1>19. FirstRunHasSinks'
  <2>1. ASSUME NEW v \in Holding', worker'[v].pc # "claimed", worker'[v].token = lastRun'[worker'[v].card]
        PROVE  v \in Holding /\ worker'[v] = worker[v] /\ worker[v].token = lastRun[worker[v].card]
    <3>1. v \in Holding /\ worker'[v] = worker[v] /\ v \in Workers
        BY <1>6, <2>1 DEF Holding
    <3>2. worker[v].card \in Calls /\ worker[v].token # n
        BY <1>11, <3>1 DEF IndInv, WorkerInv, Owning, Holding
    <3> QED BY <1>7, <2>1, <3>1, <3>2
  <2> QED BY <1>1, <2>1 DEF IndInv, FirstRunHasSinks
<1> QED BY <1>1, <1>5, <1>9, <1>10, <1>13, <1>15, <1>16, <1>17, <1>18, <1>19 DEF IndInv

-----------------------------------------------------------------------------
(* The invariant and what follows from it. *)

\* The invariant holds initially.
LEMMA InitHolds ==
    ASSUME Init
    PROVE  IndInv
<1>1. /\ board.cards = {} /\ board.closed = FALSE /\ board.tokens = 0 /\ now = 0
      /\ board.live = {} /\ board.cancels = {}
      /\ \A c \in Calls : /\ board.card[c].status = "unborn" /\ board.card[c].updated = 0
                          /\ board.card[c].key = NoKey
                          /\ board.tombstones[c] = None /\ board.leases[c] = None
      /\ \A k \in Keys : board.idempotency[k] = None
      /\ \A s \in Statuses : board.count[s] = 0
    BY DEF Init, BoardInit
<1>2. board \in Boards
    BY ConstantTypes DEF Init, BoardInit, Boards, Cards
<1>3. TypeOK
  <2>1. call \in CallRecs /\ cache \in CacheRecs /\ InflightOK /\ worker \in WorkerRecs
      BY PcTypes, ConstantTypes DEF Init, CallRecs, CacheRecs, InflightOK, WorkerRecs
  <2>2. RestType
      BY <1>1, <1>2, ServiceConstants, ConstantTypes DEF Init, RestType
  <2> QED BY <2>1, <2>2, TypeParts
<1>4. BoardInv(board, now)
  <2>1. CardInv(board, now)
    <3>1. ASSUME NEW c \in Calls
          PROVE  board.card[c].status = "unborn" /\ ~IsTerminal(board, c) /\ c \notin board.cards
                 /\ board.tombstones[c] = None /\ board.card[c].updated <= now
        BY <1>1 DEF IsTerminal, TerminalStatus
    <3> QED BY <3>1 DEF CardInv
  <2>2. KeyInv(board)
      BY <1>1 DEF KeyInv
  <2>3. LeaseInv(board)
      BY <1>1 DEF LeaseInv
  <2>4. CountInv(board)
    <3>1. \A s \in Statuses : {c \in board.cards : board.card[c].status = s} = {}
        BY <1>1
    <3> QED BY <1>1, <3>1, FS_EmptySet DEF CountInv
  <2> QED BY <2>1, <2>2, <2>3, <2>4 DEF BoardInv
<1>5. CallInv
    BY <1>1, ConstantTypes DEF Init, CallInv
<1>6. WorkerInv
  <2>1. \A w \in Workers : worker[w].pc = "claim" /\ worker[w].token = None
      BY DEF Init
  <2>2. Owning = {}
      BY <2>1 DEF Owning
  <2> QED BY <1>1, <2>1, <2>2 DEF Init, WorkerInv, None
<1>7. StreamInv
  <2>1. env.stream \subseteq Calls
      BY <1>3, EnvTypes
  <2> QED BY <1>1, <2>1 DEF Init, StreamInv
<1>8. CloseInv
    BY DEF Init, CloseInv
<1>9. OneCurrentRun /\ FirstRunHasSinks
  <2>1. Holding = {}
      BY DEF Init, Holding
  <2> QED BY <2>1 DEF OneCurrentRun, FirstRunHasSinks
<1>10. NoSleepOnPendingWork
    BY <1>1 DEF NoSleepOnPendingWork, PendingCards
<1> QED BY <1>3, <1>4, <1>5, <1>6, <1>7, <1>8, <1>9, <1>10 DEF IndInv

\* Every step keeps the invariant.
LEMMA NextKeeps ==
    ASSUME IndInv, [Next]_vars
    PROVE  IndInv'
<1>1. CASE UNCHANGED vars
  <2>1. TypeOK'
      BY <1>1, TypeParts DEF IndInv, vars, callVars, workVars, InflightOK, RestType
  <2>2. (BoardInv(board, now))' /\ CallInv' /\ WorkerInv' /\ StreamInv' /\ CloseInv'
      BY <1>1 DEF IndInv, vars, callVars, workVars, CallInv, WorkerInv, StreamInv, CloseInv,
         Owning, EscrowOK, Key
  <2>3. OneCurrentRun' /\ NoSleepOnPendingWork' /\ FirstRunHasSinks'
      BY <1>1 DEF IndInv, vars, workVars, OneCurrentRun, NoSleepOnPendingWork,
         FirstRunHasSinks, Holding
  <2> QED BY <2>1, <2>2, <2>3 DEF IndInv
<1>2. ASSUME NEW c \in Calls,
             Begin(c) \/ SubmitDirectly(c) \/ CallSteps(c) \/ WaiterGivesUp(c) \/ Operators(c)
      PROVE  IndInv'
    BY <1>2, BeginKeeps, SubmitDirectlyKeeps, ReplayCachedKeeps, JoinCallKeeps, LeadCallKeeps, WaiterReturnsKeeps,
       WaiterGivesUpKeeps, LookupFailsKeeps, StoreEscrowKeeps, SubmitChecksKeeps,
       ValidatorRejectsKeeps, SubmitAdmitsKeeps, RearmKeeps, ReleaseFailedKeeps, SettleKeeps,
       OperatorsKeep DEF CallSteps
<1>3. ASSUME NEW w \in Workers, WorkerSteps(w)
      PROVE  IndInv'
    BY <1>3, WorkerClaimsKeeps, WorkerBlocksKeeps, WorkerWakesKeeps, WorkerExitsKeeps,
       TakeStreamsKeeps, WorkerCompletesKeeps, CompleteFailsKeeps, WorkerReleasesKeeps,
       WorkerRecordsKeeps DEF WorkerSteps
<1>4. ASSUME NEW w \in Workers, NEW r \in env.responses, RunEnds(w, r)
      PROVE  IndInv'
    BY <1>4, RunEndsKeeps
<1>5. ASSUME CancelSteps \/ Tick \/ BoardJanitor \/ ServiceJanitors
             \/ ServiceClose \/ CloseCancels \/ CloseReturns \/ BoardClose
      PROVE  IndInv'
    BY <1>5, CancelLeaseKeeps, BoardContextEndsKeeps, TickKeeps, BoardJanitorKeeps,
       ServiceJanitorsKeeps, ServiceCloseKeeps, CloseCancelsKeeps, CloseReturnsKeeps,
       BoardCloseKeeps DEF CancelSteps
<1> QED BY <1>1, <1>2, <1>3, <1>4, <1>5 DEF Next

\* IndInv holds in every reachable state.
THEOREM Invariance == Spec => []IndInv
<1>1. Init => IndInv
    BY InitHolds
<1>2. IndInv /\ [Next]_vars => IndInv'
    BY NextKeeps
<1> QED BY <1>1, <1>2, PTL DEF Spec

\* Every variable keeps its type, and the map of calls in flight names only calls that are
\* in flight: no retry with a key ever waits for a submission that is over.
THEOREM TypeCorrect == Spec => []TypeOK
<1>1. IndInv => TypeOK
    BY DEF IndInv
<1> QED BY <1>1, Invariance, PTL

\* statusCount is the number of cards of each status after any sequence of admissions,
\* transitions and evictions, so that the pending limit is applied to the real number.
THEOREM CountsExact == Spec => []CountsAreExact
<1>1. IndInv => CountsAreExact
    BY DEF IndInv, BoardInv, CountInv, CountsAreExact
<1> QED BY <1>1, Invariance, PTL

\* A card has one current run, for any number of workers, claims, suspensions, resumptions
\* and stale completions: it keeps card, lease and live context, and every earlier run has
\* its context cancelled or about to be.
THEOREM CurrentRun == Spec => []OneCurrentRun
<1>1. IndInv => OneCurrentRun
    BY DEF IndInv
<1> QED BY <1>1, Invariance, PTL

\* No worker sleeps in Claim while a card is pending without having been woken.
THEOREM NoLostWakeup == Spec => []NoSleepOnPendingWork
<1>1. IndInv => NoSleepOnPendingWork
    BY DEF IndInv
<1> QED BY <1>1, Invariance, PTL

\* The current first run of a streaming delegation has found the caller's sinks, unless they
\* were stored longer ago than the escrow's TTL.
THEOREM SinksReachFirstRun == Spec => []FirstRunHasSinks
<1>1. IndInv => FirstRunHasSinks
    BY DEF IndInv
<1> QED BY <1>1, Invariance, PTL

\* What the service replays from its cache can still be asked of the backend: the retention
\* counted from the acceptance ends before the one counted from the settlement.
THEOREM CachedQueryable == Spec => []CachedIsQueryable
<1>1. ASSUME IndInv, NEW k \in Keys, cache[k].id # None, now < cache[k].expires,
             board.card[cache[k].id].updated >= cache[k].at
      PROVE  Status(board, cache[k].id) # "forgotten"
  <2> DEFINE c == cache[k].id
             u == board.card[c].updated
  <2>1. /\ c \in Calls /\ cache[k].at \in Nat /\ cache[k].expires \in Nat /\ now \in Nat
        /\ Retention \in Nat /\ board \in Boards
      BY <1>1, TypeParts, EnvTypes, ConstantTypes DEF IndInv, CacheRecs
  <2>2. u \in Nat /\ board.card[c].status \in Statuses \cup {"unborn"} /\ board.tombstones[c] \in Nat
      BY <2>1 DEF Boards, Cards
  <2>3. cache[k].expires <= cache[k].at + Retention
      BY <1>1 DEF IndInv, CallInv
  <2>4. now < u + Retention
      BY <1>1, <2>1, <2>2, <2>3
  <2>5. /\ board.card[c].status \notin TerminalStatus \cup {"unborn"} => c \in board.cards
        /\ board.tombstones[c] # None => board.tombstones[c] = u + Retention
        /\ board.card[c].status \in TerminalStatus => board.tombstones[c] # None
      BY <1>1, <2>1, <2>4 DEF IndInv, BoardInv, CardInv, IsTerminal
  <2> HIDE DEF c, u
  <2>6. board.card[c].status = "unborn" \/ c \in board.cards
        \/ (board.tombstones[c] # None /\ ~(now >= board.tombstones[c]))
      BY <2>1, <2>2, <2>4, <2>5
  <2>7. Status(board, c) # "forgotten"
      BY <2>2, <2>6 DEF Status, Indexed, Statuses, TerminalStatus
  <2> QED BY <2>7 DEF c
<1>2. IndInv => CachedIsQueryable
    BY <1>1 DEF CachedIsQueryable
<1> QED BY <1>2, Invariance, PTL

-----------------------------------------------------------------------------
(* The contract. *)

\* What Status answers, when an operation settled and what a key replays, on a board at a time.
Answer(b, t, c) ==
    IF b.card[c].status = "unborn" THEN "unborn"
    ELSE IF c \notin b.cards /\ (b.tombstones[c] = None \/ t >= b.tombstones[c]) THEN "forgotten"
    ELSE CASE b.card[c].status \in {"pending", "suspended"} -> "accepted"
           [] b.card[c].status = "claimed" -> "running"
           [] b.card[c].status = "done" -> "succeeded"
           [] OTHER -> b.card[c].status

Settlement(b, c) == IF IsTerminal(b, c) THEN b.card[c].updated ELSE 0

Replay(b, t, k) ==
    LET o == b.idempotency[k]
    IN  IF o # None /\ b.tombstones[o] # None /\ t >= b.tombstones[o] THEN None ELSE o

\* The terminal answers.
Answers == {"succeeded", "failed", "canceled"}

\* The retention window of c is over at u.
LapsedAt(b, t, u, c) == Answer(b, t, c) \in Answers \cup {"forgotten"} /\ u >= Settlement(b, c) + Retention

\* A step from b at t to e at u as callers see it: of one operation, of one key and of all.
CallView(b, t, e, u, c) ==
    /\ \/ Answer(e, u, c) = Answer(b, t, c)
       \/ Answer(b, t, c) = "accepted" /\ Answer(e, u, c) \in {"running"} \cup Answers
       \/ Answer(b, t, c) = "running" /\ Answer(e, u, c) \in {"accepted"} \cup Answers
       \/ Answer(b, t, c) = "unborn" /\ Answer(e, u, c) = "accepted"
       \/ Answer(e, u, c) = "forgotten" /\ LapsedAt(b, t, u, c)
    /\ Settlement(e, c) = IF Answer(b, t, c) \notin Answers /\ Answer(e, u, c) \in Answers
                          THEN t ELSE Settlement(b, c)

KeyView(b, t, e, u, k) ==
    \/ Replay(e, u, k) = Replay(b, t, k)
    \/ /\ Replay(b, t, k) = None \/ LapsedAt(b, t, u, Replay(b, t, k))
       /\ \/ Replay(e, u, k) = None
          \/ Answer(b, t, Replay(e, u, k)) = "unborn" /\ Answer(e, u, Replay(e, u, k)) = "accepted"

ViewStep(b, t, e, u) ==
    /\ \A c \in Calls : CallView(b, t, e, u, c)
    /\ \A k \in Keys : KeyView(b, t, e, u, k)

\* An eviction as callers see it.
SweepView(b, e, t) ==
    /\ \A c \in Calls : /\ \/ Answer(e, t, c) = Answer(b, t, c)
                           \/ Answer(e, t, c) = "forgotten" /\ LapsedAt(b, t, t, c)
                        /\ Settlement(e, c) = Settlement(b, c)
    /\ \A k \in Keys : Replay(e, t, k) = Replay(b, t, k)

\* The answer of Status tells the status of the card.
LEMMA AnswerCases ==
    ASSUME NEW b \in Boards, NEW t \in Nat, NEW c \in Calls
    PROVE  /\ Answer(b, t, c) \in {"unborn", "forgotten", "accepted", "running"} \cup Answers
           /\ b.card[c].status = "unborn" <=> Answer(b, t, c) = "unborn"
           /\ b.card[c].status # "unborn" =>
                 (Answer(b, t, c) = "forgotten" <=>
                     c \notin b.cards /\ (b.tombstones[c] = None \/ t >= b.tombstones[c]))
           /\ Answer(b, t, c) \in Answers => IsTerminal(b, c)
           /\ IsTerminal(b, c) => Answer(b, t, c) \in Answers \cup {"forgotten"}
           /\ Answer(b, t, c) = "accepted" => b.card[c].status \in {"pending", "suspended"}
           /\ Answer(b, t, c) = "running" => b.card[c].status = "claimed"
           /\ c \in b.cards /\ b.card[c].status \in {"pending", "suspended"} => Answer(b, t, c) = "accepted"
           /\ c \in b.cards /\ b.card[c].status = "claimed" => Answer(b, t, c) = "running"
           /\ c \in b.cards /\ IsTerminal(b, c) => Answer(b, t, c) \in Answers
<1>1. b.card[c].status \in {"pending", "claimed", "suspended", "done", "failed", "canceled", "unborn"}
    BY DEF Boards, Cards, Statuses, TerminalStatus
<1> QED BY <1>1 DEF Answer, Answers, IsTerminal, TerminalStatus

\* The answer depends on the status of the card and on whether it is still known.
LEMMA AnswerSame ==
    ASSUME NEW b, NEW e, NEW t, NEW u, NEW c \in Calls, e.card[c].status = b.card[c].status,
           c \notin e.cards /\ (e.tombstones[c] = None \/ u >= e.tombstones[c])
              <=> c \notin b.cards /\ (b.tombstones[c] = None \/ t >= b.tombstones[c])
    PROVE  Answer(e, u, c) = Answer(b, t, c)
    BY DEF Answer

\* As time passes, operations are forgotten and keys released only when their window is over.
LEMMA TickView ==
    ASSUME NEW b \in Boards, NEW t \in Nat, BoardInv(b, t)
    PROVE  ViewStep(b, t, b, t + 1)
<1>1. ASSUME NEW c \in Calls
      PROVE  CallView(b, t, b, t + 1, c)
  <2>1. b.tombstones[c] \in Nat /\ b.card[c].updated \in Nat /\ Retention \in Nat
      BY ConstantTypes DEF Boards, Cards
  <2>2. b.tombstones[c] # None => IsTerminal(b, c) /\ b.tombstones[c] = b.card[c].updated + Retention
      BY DEF BoardInv, CardInv
  <2>3. CASE ~(c \notin b.cards /\ b.tombstones[c] # None /\ ~(t >= b.tombstones[c]) /\ t + 1 >= b.tombstones[c])
    <3>1. Answer(b, t + 1, c) = Answer(b, t, c)
        BY <2>1, <2>3, AnswerSame
    <3> QED BY <3>1 DEF CallView
  <2>4. CASE c \notin b.cards /\ b.tombstones[c] # None /\ ~(t >= b.tombstones[c]) /\ t + 1 >= b.tombstones[c]
    <3>1. b.card[c].status # "unborn"
        BY <2>2, <2>4 DEF IsTerminal, TerminalStatus
    <3>2. Answer(b, t + 1, c) = "forgotten" /\ Answer(b, t, c) \in Answers
        BY <2>2, <2>4, <3>1, AnswerCases
    <3>3. LapsedAt(b, t, t + 1, c)
        BY <2>2, <2>4, <3>2 DEF LapsedAt, Settlement
    <3> QED BY <3>2, <3>3 DEF CallView, Answers
  <2> QED BY <2>3, <2>4
<1>2. ASSUME NEW k \in Keys, Replay(b, t + 1, k) # Replay(b, t, k)
      PROVE  Replay(b, t + 1, k) = None /\ LapsedAt(b, t, t + 1, Replay(b, t, k))
  <2> DEFINE o == b.idempotency[k]
  <2>1. o # None /\ b.tombstones[o] # None
      BY <1>2 DEF Replay
  <2>2. o \in Calls /\ b.tombstones[o] \in Nat
      BY <2>1 DEF Boards
  <2>a. t + 1 >= b.tombstones[o] /\ ~(t >= b.tombstones[o])
      BY <1>2, <2>1, <2>2 DEF Replay
  <2>b. Replay(b, t + 1, k) = None /\ Replay(b, t, k) = o
      BY <2>1, <2>a DEF Replay
  <2>3. IsTerminal(b, o) /\ b.tombstones[o] = b.card[o].updated + Retention
      BY <2>1, <2>2 DEF BoardInv, CardInv
  <2>4. Answer(b, t, o) \in Answers \cup {"forgotten"}
      BY <2>2, <2>3, AnswerCases
  <2> QED BY <2>a, <2>b, <2>3, <2>4 DEF LapsedAt, Settlement
<1> QED BY <1>1, <1>2 DEF ViewStep, KeyView

\* An eviction forgets only operations whose window is over, and changes what no key replays.
LEMMA SweepKeepsView ==
    ASSUME NEW b \in Boards, NEW e \in Boards, NEW t \in Nat, BoardInv(b, t), EvictRel(b, e, t)
    PROVE  SweepView(b, e, t)
<1>1. ASSUME NEW c \in Calls
      PROVE  /\ \/ Answer(e, t, c) = Answer(b, t, c)
                \/ Answer(e, t, c) = "forgotten" /\ LapsedAt(b, t, t, c)
             /\ Settlement(e, c) = Settlement(b, c)
  <2>1. b.tombstones[c] \in Nat /\ b.card[c].updated \in Nat /\ Retention \in Nat
      BY ConstantTypes DEF Boards, Cards
  <2>2. /\ b.tombstones[c] # None => IsTerminal(b, c) /\ b.tombstones[c] = b.card[c].updated + Retention
        /\ IsTerminal(b, c) /\ t < b.card[c].updated + Retention => b.tombstones[c] # None
        /\ b.card[c].status = "unborn" => c \notin b.cards
      BY DEF BoardInv, CardInv
  <2>3. /\ e.card[c] = b.card[c] /\ (c \in e.cards => c \in b.cards)
        /\ c \in b.cards /\ c \notin e.cards => IsTerminal(b, c)
        /\ e.tombstones[c] = IF b.tombstones[c] # None /\ t >= b.tombstones[c]
           THEN None ELSE b.tombstones[c]
      BY DEF EvictRel, SameWork, Over
  <2>4. Settlement(e, c) = Settlement(b, c)
      BY DEF EvictRel, SameWork, Settlement, IsTerminal
  <2>5. e.card[c].status = b.card[c].status
      BY DEF EvictRel, SameWork
  <2>6. CASE (c \in e.cards <=> c \in b.cards) \/ (e.tombstones[c] # None /\ ~(t >= e.tombstones[c]))
    <3>1. c \notin e.cards /\ (e.tombstones[c] = None \/ t >= e.tombstones[c])
              <=> c \notin b.cards /\ (b.tombstones[c] = None \/ t >= b.tombstones[c])
        BY <2>3, <2>6
    <3>2. Answer(e, t, c) = Answer(b, t, c)
        BY <2>5, <3>1, AnswerSame
    <3> QED BY <2>4, <3>2
  <2>7. CASE c \in b.cards /\ c \notin e.cards /\ (e.tombstones[c] = None \/ t >= e.tombstones[c])
    <3>1. IsTerminal(b, c) /\ b.card[c].status # "unborn"
        BY <2>3, <2>7 DEF IsTerminal, TerminalStatus
    <3>2. Answer(e, t, c) = "forgotten" /\ Answer(b, t, c) \in Answers
        BY <2>5, <2>7, <3>1, AnswerCases
    <3>3. t >= b.card[c].updated + Retention
        BY <2>1, <2>2, <2>3, <2>7
    <3> QED BY <2>4, <3>1, <3>2, <3>3 DEF LapsedAt, Settlement
  <2> QED BY <2>3, <2>6, <2>7
<1>2. ASSUME NEW k \in Keys
      PROVE  Replay(e, t, k) = Replay(b, t, k)
  <2> DEFINE o == b.idempotency[k]
  <2>1. o \in Calls \cup {None}
      BY DEF Boards
  <2>2. CASE o = None
      BY <2>2 DEF EvictRel, Replay
  <2>3. CASE o \in Calls
    <3>1. e.tombstones[o] = IF Over(b, t, o) THEN None ELSE b.tombstones[o]
        BY <2>3 DEF EvictRel
    <3>2. e.idempotency[k] = IF Over(b, t, o) THEN None ELSE o
        BY <2>3, ConstantTypes DEF EvictRel
    <3> QED BY <3>1, <3>2, <2>3 DEF Over, Replay
  <2> QED BY <2>1, <2>2, <2>3
<1> QED BY <1>1, <1>2 DEF SweepView

\* So it is a step of the contract.
LEMMA SweepStep ==
    ASSUME NEW b \in Boards, NEW e, NEW t \in Nat, SweepView(b, e, t)
    PROVE  ViewStep(b, t, e, t)
<1>1. ASSUME NEW c \in Calls
      PROVE  CallView(b, t, e, t, c)
    BY DEF SweepView, CallView, LapsedAt, Answers
<1> QED BY <1>1 DEF SweepView, ViewStep, KeyView

\* A card that moves, as a caller of Status and Submit sees it.
MoveView(b, m, c, s, t) ==
    /\ m.cards = b.cards /\ m.idempotency = b.idempotency
    /\ \A d \in Calls \ {c} : m.card[d] = b.card[d] /\ m.tombstones[d] = b.tombstones[d]
    /\ m.card[c].status = s
    /\ IF s \in TerminalStatus THEN m.card[c].updated = t /\ m.tombstones[c] = t + Retention
       ELSE m.tombstones[c] = b.tombstones[c]

\* A transition of an unsettled card is a step of the contract.
LEMMA MoveStep ==
    ASSUME NEW b \in Boards, NEW m \in Boards, NEW t \in Nat, BoardInv(b, t), NEW c \in b.cards,
           b.card[c].status \in Unsettled, NEW s \in Statuses, MoveView(b, m, c, s, t)
    PROVE  ViewStep(b, t, m, t)
<1>1. c \in Calls /\ ~IsTerminal(b, c) /\ b.card[c].status # "unborn" /\ c \in m.cards
    BY DEF Boards, Unsettled, IsTerminal, TerminalStatus, MoveView
<1>2. b.tombstones[c] = None
    BY <1>1 DEF BoardInv, CardInv
<1>3. CallView(b, t, m, t, c)
  <2>1. Answer(b, t, c) \in {"accepted", "running"} /\ Settlement(b, c) = 0
      BY <1>1, AnswerCases DEF Settlement, Unsettled
  <2>2. CASE s \in TerminalStatus
    <3>1. IsTerminal(m, c)
        BY <2>2 DEF IsTerminal, MoveView
    <3>2. Answer(m, t, c) \in Answers /\ Settlement(m, c) = t
        BY <1>1, <2>2, <3>1, AnswerCases DEF Settlement, MoveView
    <3> QED BY <2>1, <3>2 DEF CallView, Answers
  <2>3. CASE s \in Unsettled
    <3>1. m.card[c].status = s /\ ~IsTerminal(m, c)
        BY <2>3 DEF IsTerminal, MoveView, Unsettled, TerminalStatus
    <3>2. Answer(m, t, c) \in {"accepted", "running"} /\ Settlement(m, c) = 0
        BY <1>1, <2>3, <3>1, AnswerCases DEF Settlement, Unsettled
    <3> QED BY <2>1, <3>2 DEF CallView, Answers
  <2> QED BY <2>2, <2>3 DEF Statuses, Unsettled
<1>4. ASSUME NEW d \in Calls, d # c
      PROVE  CallView(b, t, m, t, d)
  <2>1. /\ m.card[d] = b.card[d] /\ m.tombstones[d] = b.tombstones[d] /\ m.cards = b.cards
        /\ m.card[d].status = b.card[d].status
      BY <1>4 DEF MoveView
  <2>2. Answer(m, t, d) = Answer(b, t, d)
      BY <2>1, AnswerSame
  <2>3. Settlement(m, d) = Settlement(b, d)
      BY <2>1 DEF Settlement, IsTerminal
  <2> QED BY <2>2, <2>3 DEF CallView
<1>5. ASSUME NEW k \in Keys
      PROVE  Replay(m, t, k) = Replay(b, t, k)
  <2> DEFINE o == b.idempotency[k]
  <2>1. m.idempotency[k] = o /\ o \in Calls \cup {None}
      BY DEF MoveView, Boards
  <2>2. CASE o = c
    <3>1. m.tombstones[c] = None \/ ~(t >= m.tombstones[c])
        BY <1>2, ConstantTypes DEF MoveView
    <3> QED BY <1>2, <2>1, <2>2, <3>1 DEF Replay
  <2>3. CASE o # c
      BY <2>1, <2>3 DEF Replay, MoveView
  <2> QED BY <2>2, <2>3
<1> QED BY <1>3, <1>4, <1>5 DEF ViewStep, KeyView

\* A new card is an accepted operation, under a key that replayed nothing.
LEMMA AdmitView ==
    ASSUME NEW b \in Boards, NEW a \in Boards, NEW t \in Nat, BoardInv(b, t), NEW c \in Calls,
           b.card[c].status = "unborn", NEW key \in Keys \cup {NoKey}, Found(b, key) = None,
           AdmitRel(b, a, c, key, t)
    PROVE  /\ Answer(b, t, c) = "unborn" /\ Answer(a, t, c) = "accepted"
           /\ \A d \in Calls : Settlement(a, d) = Settlement(b, d)
           /\ \A d \in Calls \ {c} : Answer(a, t, d) = Answer(b, t, d)
           /\ \A k \in Keys : \/ Replay(a, t, k) = Replay(b, t, k)
                              \/ Replay(b, t, k) = None /\ Replay(a, t, k) = c
<1>1. c \in a.cards /\ a.card[c].status = "pending"
    BY DEF AdmitRel
<1>2. Answer(b, t, c) = "unborn" /\ Answer(a, t, c) = "accepted"
    BY <1>1, AnswerCases
<1>3. b.tombstones[c] = None /\ a.tombstones = b.tombstones
    BY DEF BoardInv, CardInv, IsTerminal, TerminalStatus, AdmitRel
<1>4. ASSUME NEW d \in Calls
      PROVE  Settlement(a, d) = Settlement(b, d)
  <2>1. CASE d = c
      BY <1>1, <2>1 DEF Settlement, IsTerminal, TerminalStatus
  <2>2. CASE d # c
      BY <2>2 DEF Settlement, IsTerminal, AdmitRel
  <2> QED BY <2>1, <2>2
<1>5. ASSUME NEW d \in Calls, d # c
      PROVE  Answer(a, t, d) = Answer(b, t, d)
  <2>1. a.card[d].status = b.card[d].status /\ (d \in a.cards <=> d \in b.cards)
      BY <1>5 DEF AdmitRel
  <2> QED BY <1>3, <2>1, AnswerSame
<1>6. ASSUME NEW k \in Keys
      PROVE  \/ Replay(a, t, k) = Replay(b, t, k)
             \/ Replay(b, t, k) = None /\ Replay(a, t, k) = c
  <2>1. CASE k = key
    <3>1. b.idempotency[k] = None /\ a.idempotency[k] = c
        BY <2>1, ConstantTypes DEF Found, AdmitRel
    <3> QED BY <1>3, <3>1 DEF Replay
  <2>2. CASE k # key
    <3>1. a.idempotency[k] = b.idempotency[k]
        BY <2>2 DEF AdmitRel
    <3> QED BY <1>3, <3>1 DEF Replay
  <2> QED BY <2>1, <2>2
<1> QED BY <1>2, <1>4, <1>5, <1>6

\* An eviction, an admission and another eviction.
LEMMA AdmitStep ==
    ASSUME NEW x \in Boards, NEW b \in Boards, NEW a \in Boards, NEW e \in Boards, NEW t \in Nat,
           BoardInv(b, t), NEW c \in Calls, b.card[c].status = "unborn",
           NEW key \in Keys \cup {NoKey}, Found(b, key) = None,
           SweepView(x, b, t), AdmitRel(b, a, c, key, t), SweepView(a, e, t)
    PROVE  ViewStep(x, t, e, t)
<1>1. /\ Answer(b, t, c) = "unborn" /\ Answer(a, t, c) = "accepted"
      /\ \A d \in Calls : Settlement(a, d) = Settlement(b, d)
      /\ \A d \in Calls \ {c} : Answer(a, t, d) = Answer(b, t, d)
      /\ \A k \in Keys : \/ Replay(a, t, k) = Replay(b, t, k)
                         \/ Replay(b, t, k) = None /\ Replay(a, t, k) = c
    BY AdmitView
<1>2. Answer(x, t, c) = "unborn" /\ Answer(e, t, c) = "accepted"
    BY <1>1 DEF SweepView, LapsedAt, Answers
<1>3. \A d \in Calls : Settlement(e, d) = Settlement(x, d)
    BY <1>1 DEF SweepView
<1>4. ASSUME NEW d \in Calls
      PROVE  CallView(x, t, e, t, d)
  <2>1. CASE d = c
      BY <1>2, <1>3, <2>1 DEF CallView, Answers
  <2>2. CASE d # c
    <3>1. Answer(b, t, d) = Answer(x, t, d) \/ (Answer(b, t, d) = "forgotten" /\ LapsedAt(x, t, t, d))
        BY DEF SweepView
    <3>2. Answer(e, t, d) = Answer(b, t, d)
          \/ (Answer(e, t, d) = "forgotten" /\ Answer(b, t, d) \in Answers \cup {"forgotten"}
              /\ t >= Settlement(x, d) + Retention)
        BY <1>1, <2>2 DEF SweepView, LapsedAt
    <3>3. Answer(e, t, d) = Answer(x, t, d) \/ (Answer(e, t, d) = "forgotten" /\ LapsedAt(x, t, t, d))
        BY <3>1, <3>2 DEF LapsedAt
    <3> QED BY <1>3, <3>3 DEF CallView, Answers
  <2> QED BY <2>1, <2>2
<1>5. ASSUME NEW k \in Keys
      PROVE  KeyView(x, t, e, t, k)
    BY <1>1, <1>2 DEF KeyView, SweepView
<1> QED BY <1>4, <1>5 DEF ViewStep

\* What callers see depends on the cards only.
LEMMA SameView ==
    ASSUME NEW b, NEW x, NEW y, NEW t, NEW u, ViewStep(b, t, x, u), SameCards(x, y)
    PROVE  ViewStep(b, t, y, u)
<1>1. \A c \in Calls : Answer(y, u, c) = Answer(x, u, c)
    BY DEF SameCards, Answer
<1>2. \A c \in Calls : Settlement(y, c) = Settlement(x, c)
    BY DEF SameCards, Settlement, IsTerminal
<1>3. \A k \in Keys : Replay(y, u, k) = Replay(x, u, k)
    BY DEF SameCards, Replay
<1>4. \A k \in Keys : Answer(y, u, Replay(x, u, k)) = Answer(x, u, Replay(x, u, k))
    BY DEF SameCards, Answer
<1> QED BY <1>1, <1>2, <1>3, <1>4 DEF ViewStep, CallView, KeyView

\* Nothing seen is a step of the contract.
LEMMA StillView ==
    ASSUME NEW b, NEW t
    PROVE  ViewStep(b, t, b, t)
<1>1. ASSUME NEW c \in Calls
      PROVE  CallView(b, t, b, t, c)
    BY DEF CallView
<1> QED BY <1>1 DEF ViewStep, KeyView

\* Steps as callers see them are steps of DelegationContract.
LEMMA ViewIsContract ==
    ASSUME TypeOK, board' \in Boards, ViewStep(board, now, board', now'), now' \in {now, now + 1}
    PROVE  Contract!Next
<1> DEFINE S == [c \in Calls |-> Status(board, c)]
           A == [c \in Calls |-> IF IsTerminal(board, c) THEN board.card[c].updated ELSE 0]
           W == [k \in Keys |-> Replayed(k)]
<1>1. /\ \A c \in Calls : S[c] = Answer(board, now, c) /\ S'[c] = Answer(board', now', c)
      /\ DOMAIN S' = Calls
    BY DEF Status, Indexed, Answer
<1>2. /\ \A c \in Calls : A[c] = Settlement(board, c) /\ A'[c] = Settlement(board', c)
      /\ DOMAIN A' = Calls
    BY DEF Settlement, IsTerminal
<1>3. /\ \A k \in Keys : W[k] = Replay(board, now, k) /\ W'[k] = Replay(board', now', k)
      /\ DOMAIN W' = Keys
    BY DEF Replayed, Replay
<1>4. \A k \in Keys : W[k] \in Calls \cup {None} /\ W'[k] \in Calls \cup {None}
    BY <1>3, EnvTypes DEF Replay, Boards
<1>5. Answers = Contract!Terminal
    BY DEF Answers, Contract!Terminal
<1> HIDE DEF S, A, W
<1>6. ASSUME NEW o \in Calls
      PROVE  /\ \/ S'[o] = S[o]
                \/ <<S[o], S'[o]>> \in Contract!Moves
                \/ S'[o] = "forgotten" /\ S[o] \in Contract!Terminal \cup {"forgotten"}
                   /\ now' >= A[o] + Retention
             /\ A'[o] = IF S[o] \notin Contract!Terminal /\ S'[o] \in Contract!Terminal
                        THEN now ELSE A[o]
  <2>1. CallView(board, now, board', now', o)
      BY DEF ViewStep
  <2> QED BY <1>1, <1>2, <1>5, <2>1 DEF CallView, LapsedAt, Contract!Moves
<1>7. ASSUME NEW k \in Keys
      PROVE  \/ W'[k] = W[k]
             \/ /\ \/ W[k] = None
                   \/ S[W[k]] \in Contract!Terminal \cup {"forgotten"} /\ now' >= A[W[k]] + Retention
                /\ W'[k] = None \/ <<S[W'[k]], S'[W'[k]]>> = <<"unborn", "accepted">>
  <2>1. KeyView(board, now, board', now', k)
      BY DEF ViewStep
  <2> QED BY <1>1, <1>2, <1>3, <1>4, <1>5, <2>1 DEF KeyView, LapsedAt
<1>8. ASSUME NEW o \in Calls
      PROVE  Contract!OperationStep(o)
    BY <1>6 DEF Contract!OperationStep, Contract!Lapsed, S, A
<1>9. ASSUME NEW k \in Keys
      PROVE  Contract!KeyStep(k)
    BY <1>7 DEF Contract!KeyStep, Contract!Lapsed, S, A, W
<1> QED BY <1>1, <1>2, <1>3, <1>8, <1>9 DEF Contract!Next

\* The steps that neither touch the board nor let time pass.
LEMMA StutterStep ==
    ASSUME board' = board, now' = now
    PROVE  UNCHANGED Contract!vars
    BY DEF Contract!vars, Status, Replayed

\* A step of the board while no time passes.
LEMMA BoardStep ==
    ASSUME IndInv, board' \in Boards, now' = now, ViewStep(board, now, board', now)
    PROVE  Contract!Next
    BY ViewIsContract DEF IndInv

\* Both critical sections of Submit are steps of the contract.
LEMMA SubmitStep ==
    ASSUME IndInv, NEW c \in Calls, SubmitChecks(c) \/ SubmitAdmits(c)
    PROVE  Contract!Next
<1> DEFINE b == Evicted
<1>1. now \in Nat /\ board \in Boards /\ BoardInv(board, now) /\ Key(c) \in Keys \cup {NoKey}
    BY EnvTypes DEF IndInv
<1>2. now' = now /\ call[c].pc \in {"submit", "validate"} /\ board.card[c].status = "unborn"
    BY DEF SubmitChecks, SubmitAdmits, IndInv, CallInv
<1>3. b \in Boards /\ BoardInv(b, now) /\ b.card = board.card
      /\ Fingerprint(c) \in Nat \X (Calls \cup {None})
    BY EvictedFacts
<1>4. SweepView(board, b, now)
  <2>1. CASE board.closed
      BY <2>1 DEF Evicted, SweepView
  <2>2. CASE ~board.closed
    <3>1. Evict(board) \in Boards /\ EvictRel(board, Evict(board), now)
        BY <1>1, EvictBoard
    <3> QED BY <1>1, <2>2, <3>1, SweepKeepsView DEF Evicted
  <2> QED BY <2>1, <2>2
<1>5. CASE board' = b
    BY <1>1, <1>2, <1>3, <1>4, <1>5, SweepStep, BoardStep
<1>6. CASE board' # b
  <2>1. board' = Admit(b, c, Key(c), Fingerprint(c)) /\ Found(b, Key(c)) = None
      BY <1>6 DEF SubmitChecks, SubmitAdmits, Replays
  <2> HIDE DEF b
  <2>2. PICK a \in Boards : /\ AdmitRel(b, a, c, Key(c), now) /\ BoardInv(a, now) /\ board' \in Boards
                            /\ EvictRel(a, board', now)
      BY <1>1, <1>2, <1>3, <2>1, AdmitBoard
  <2>3. SweepView(a, board', now)
      BY <1>1, <2>2, SweepKeepsView
  <2>4. ViewStep(board, now, board', now)
      BY <1>1, <1>2, <1>3, <1>4, <2>1, <2>2, <2>3, AdmitStep
  <2> QED BY <1>2, <2>2, <2>4, BoardStep
<1> QED BY <1>5, <1>6

\* Operators move operations as the contract allows.
LEMMA OperateStep ==
    ASSUME IndInv, NEW c \in Calls, Operators(c)
    PROVE  Contract!Next
<1>1. PICK to \in Statuses : /\ c \in board.cards /\ board.card[c].status \in Unsettled
                             /\ to # board.card[c].status
                             /\ board' = MoveTo(board, c, to) /\ now' = now
    BY DEF Operators, ClaimCard, Suspend, Resume, Cancel, Operate, Indexed, Unsettled,
       Statuses, TerminalStatus
<1>2. now \in Nat /\ board \in Boards /\ BoardInv(board, now)
    BY EnvTypes DEF IndInv
<1>3. board' \in Boards /\ MoveRel(board, board', c, to, now)
    BY <1>1, <1>2, MoveBoard
<1>4. MoveView(board, board', c, to, now)
    BY <1>3 DEF MoveRel, MoveView
<1>5. ViewStep(board, now, board', now)
    BY <1>1, <1>2, <1>3, <1>4, MoveStep
<1> QED BY <1>1, <1>3, <1>5, BoardStep

\* A claim makes an accepted operation run.
LEMMA ClaimStep ==
    ASSUME IndInv, NEW w \in Workers, WorkerClaims(w)
    PROVE  Contract!Next
<1>1. PICK c \in PendingCards(board) : board' = Claim(board, c) /\ now' = now /\ ~board.closed
    BY DEF WorkerClaims
<1>2. now \in Nat /\ board \in Boards /\ BoardInv(board, now)
    BY EnvTypes DEF IndInv
<1>3. c \in board.cards /\ board.card[c].status = "pending" /\ c \in Calls
    BY <1>2 DEF PendingCards, Boards
<1>4. board' \in Boards /\ MoveView(board, board', c, "claimed", now)
    BY <1>1, <1>2, <1>3, ClaimBoard DEF MoveView, TerminalStatus
<1>5. ViewStep(board, now, board', now)
    BY <1>2, <1>3, <1>4, MoveStep DEF Unsettled, Statuses
<1> QED BY <1>1, <1>4, <1>5, BoardStep

\* Complete settles a running operation, or changes nothing when its lease is stale.
LEMMA CompleteStep ==
    ASSUME IndInv, NEW w \in Workers, WorkerCompletes(w)
    PROVE  [Contract!Next]_(Contract!vars)
<1> DEFINE c == worker[w].card
           n == worker[w].token
           r == worker[w].response
           x == MoveTo(board, c, r)
<1>1. now \in Nat /\ board \in Boards /\ BoardInv(board, now) /\ now' = now /\ board' \in Boards
    BY EnvTypes, CompleteBoard DEF IndInv, WorkerCompletes
<1>2. c \in Calls /\ n # None /\ r \in TerminalStatus
    BY DEF IndInv, WorkerInv, Owning, WorkerCompletes
<1>3. board' = IF c \in board.cards /\ board.leases[c] = n /\ board.card[c].status = "claimed"
               THEN CallCancel(x, {n}) ELSE board
    BY DEF WorkerCompletes, CompleteLease, Indexed
<1>4. CASE board' = board
    BY <1>1, <1>4, StutterStep
<1>5. CASE c \in board.cards /\ board.leases[c] = n /\ board.card[c].status = "claimed"
  <2> HIDE DEF c, n, r
  <2>1. r \in Statuses /\ r # "claimed"
      BY <1>2 DEF TerminalStatus, Statuses
  <2>2. x \in Boards /\ MoveRel(board, x, c, r, now)
      BY <1>1, <1>5, <2>1, MoveBoard DEF Unsettled
  <2>3. MoveView(board, x, c, r, now)
      BY <2>2 DEF MoveRel, MoveView
  <2>4. ViewStep(board, now, x, now)
      BY <1>1, <1>5, <2>1, <2>2, <2>3, MoveStep DEF Unsettled
  <2>5. SameCards(x, board')
      BY <1>3, <1>5 DEF CallCancel, SameCards
  <2>6. ViewStep(board, now, board', now)
      BY <2>4, <2>5, SameView
  <2> QED BY <1>1, <2>6, BoardStep
<1> QED BY <1>3, <1>4, <1>5

\* Janitor, cancels, closing and time.
LEMMA OtherBoardStep ==
    ASSUME IndInv, CancelSteps \/ BoardJanitor \/ BoardClose \/ Tick
    PROVE  Contract!Next
<1>1. now \in Nat /\ board \in Boards /\ BoardInv(board, now)
    BY EnvTypes DEF IndInv
<1>2. CASE Tick
  <2>1. ViewStep(board, now, board', now')
      BY <1>1, <1>2, TickView DEF Tick
  <2> QED BY <1>1, <1>2, <2>1, ViewIsContract DEF IndInv, Tick
<1>3. CASE BoardJanitor
  <2>1. board' \in Boards /\ EvictRel(board, board', now) /\ now' = now
      BY <1>1, <1>3, EvictBoard DEF BoardJanitor
  <2>2. ViewStep(board, now, board', now)
      BY <1>1, <2>1, SweepKeepsView, SweepStep
  <2> QED BY <2>1, <2>2, BoardStep
<1>4. CASE CancelSteps \/ BoardClose
  <2>1. SameCards(board, board') /\ board' \in Boards /\ now' = now
    <3>1. CASE BoardClose
        BY <1>1, <3>1, CloseKeeps DEF BoardClose
    <3>2. CASE BoardContextEnds
        BY <1>1, <3>2, EndKeeps DEF BoardContextEnds
    <3>3. ASSUME NEW token \in board.cancels, CancelLease(token)
          PROVE  SameCards(board, board') /\ board' \in Boards /\ now' = now
        BY <1>1, <3>3 DEF CancelLease, CallCancel, SameCards, Boards
    <3> QED BY <1>4, <3>1, <3>2, <3>3 DEF CancelSteps
  <2>2. ViewStep(board, now, board', now)
      BY <2>1, StillView, SameView
  <2> QED BY <2>1, <2>2, BoardStep
<1> QED BY <1>2, <1>3, <1>4

\* Every step is a step of the contract, or changes nothing of it.
LEMMA ContractStep ==
    ASSUME IndInv, [Next]_vars
    PROVE  [Contract!Next]_(Contract!vars)
<1>1. CASE board' = board /\ now' = now
    BY <1>1, StutterStep
<1>2. CASE ~(board' = board /\ now' = now)
  <2>1. \/ \E c \in Calls : SubmitChecks(c) \/ SubmitAdmits(c) \/ Operators(c)
        \/ \E w \in Workers : WorkerClaims(w) \/ WorkerCompletes(w)
        \/ CancelSteps \/ BoardJanitor \/ BoardClose \/ Tick
    <3>1. Next
        BY <1>2 DEF vars
    <3>2. ASSUME NEW c \in Calls, Begin(c) \/ SubmitDirectly(c) \/ CallSteps(c) \/ WaiterGivesUp(c)
          PROVE  SubmitChecks(c) \/ SubmitAdmits(c)
        BY <1>2, <3>2 DEF CallSteps, Begin, SubmitDirectly, ReplayCached, JoinCall, LeadCall, WaiterReturns,
           WaiterGivesUp, LookupFails, StoreEscrow, ValidatorRejects, Rearm, ReleaseFailed,
           Settle
    <3>3. ASSUME NEW w \in Workers, WorkerSteps(w)
          PROVE  WorkerClaims(w) \/ WorkerCompletes(w)
        BY <1>2, <3>3 DEF WorkerSteps, WorkerBlocks, WorkerWakes, WorkerExits, TakeStreams,
           CompleteFails, WorkerReleases, WorkerRecords
    <3>4. ~(ServiceJanitors \/ ServiceClose \/ CloseCancels \/ CloseReturns)
        BY <1>2 DEF ServiceJanitors, ServiceClose, CloseCancels, CloseReturns
    <3>5. ASSUME NEW w \in Workers, NEW r
          PROVE  ~RunEnds(w, r)
        BY <1>2 DEF RunEnds
    <3> QED BY <3>1, <3>2, <3>3, <3>4, <3>5 DEF Next
  <2> QED BY <2>1, SubmitStep, OperateStep, ClaimStep, CompleteStep, OtherBoardStep
<1> QED BY <1>1, <1>2

\* The service on its board keeps the contract of AsyncBackend: an operation is accepted once
\* and settles on one response that never changes; within the retention window after that its
\* response stays queryable and its key bound to it, through evictions by age and by number,
\* stale completions and both critical sections of concurrent submissions.
THEOREM KeepsContract == Spec => ImplementsContract
<1>1. Init => Contract!Init
  <2> SUFFICES ASSUME Init PROVE Contract!Init
      OBVIOUS
  <2>1. [c \in Calls |-> Status(board, c)] = [c \in Calls |-> "unborn"]
      BY DEF Init, BoardInit, Status
  <2>2. [c \in Calls |-> IF IsTerminal(board, c) THEN board.card[c].updated ELSE 0] = [c \in Calls |-> 0]
      BY DEF Init, BoardInit, IsTerminal, TerminalStatus
  <2>3. [k \in Keys |-> Replayed(k)] = [k \in Keys |-> None]
      BY DEF Init, BoardInit, Replayed
  <2> QED BY <2>1, <2>2, <2>3 DEF Init, BoardInit, Contract!Init
<1>2. IndInv /\ [Next]_vars => [Contract!Next]_(Contract!vars)
    BY ContractStep
<1> QED BY <1>1, <1>2, Invariance, PTL DEF Spec, ImplementsContract, Contract!Spec

=============================================================================
