------------------------ MODULE SessionStream_proofs ------------------------
(***************************************************************************)
(* Proofs about SessionStream, for every set of branches and sink          *)
(* specifications, every buffer and queue size and any number of attempts  *)
(* and events: the types; what an interrupted turn commits is a prefix of  *)
(* the attempt's output and was taken by the client; the cursors of an     *)
(* attached sink have no gaps; finalize does not miss the run end.         *)
(*                                                                         *)
(* The prefix needs most.  The coordinator works behind the engine, so an  *)
(* invariant must say that what is still on the bus leads from the one to  *)
(* the other: ReplayInv replays it.  With it, the acknowledged prefix and  *)
(* the texts at the cursors that wait, in the order of the cursors, begin  *)
(* the output (PrefixInv).                                                 *)
(***************************************************************************)
EXTENDS SessionStream, FiniteSetTheorems, WellFoundedInduction, TLAPS

\* Where finish is: a finalized stream waits for its sink or is over.
PhaseInv == finalized => phase \in {"waiting", "done"}

\* The queue continues what was offered, up to the end of the log for a sink that is attached.
QueueInv ==
    /\ inCall = offered
    /\ \A i \in DOMAIN queue : queue[i] = offered + i
    /\ offered + Len(queue) <= Len(log)
    /\ detached = "no" => offered + Len(queue) = Len(log)
    /\ call \in {"calling", "returned", "overrun", "ending"} => offered > 0
    /\ delivered <= offered /\ acked <= offered

\* The logical run end comes last, and only a sink that was given it ends in good order.
EndInv ==
    /\ \A c \in 1..Len(log) : log[c] = End => finalized /\ c = Len(log)
    /\ call = "ending" => log[offered] = End
    /\ detached = "end" => call = "stopped" /\ finalized /\ offered = Len(log) /\ log[offered] = End

\* The tokens kept for the prefix are texts that were not acknowledged; none are
\* kept while the prefix is frozen, and none that a detached sink might still deliver.
Waiting == {c \in 1..Len(log) : <<c, attempt>> \in tokens}
TokenInv ==
    /\ frozen => tokens = {}
    /\ \A c \in Waiting : c > acked /\ log[c] > 0
    /\ detached # "no" => \A c \in Waiting : c > offered + Len(queue)

\* What OnDelta has returned nil for.
Returned == IF call = "calling" THEN offered - 1 ELSE offered

\* With AckOnDelivery, what may be acknowledged next has been heard.
TakenInv ==
    /\ \A i \in DOMAIN ackedPrefix : ackedPrefix[i] \in heard
    /\ \A i \in DOMAIN frozenPrefix : frozenPrefix[i] \in heard
    /\ ~spec.explicit => \A c \in Waiting : c <= Returned => log[c] \in heard

\* A branch holds text only while it is open.
BufferInv ==
    /\ IsFiniteSet(Buffered)
    /\ \A b \in Branches : branches[b].state # "open" => branches[b].items = <<>>

Upto(S, c) == {x \in S : x <= c}

\* A text begins another one.
Opens(s, t) == Len(s) <= Len(t) /\ \A i \in 1..Len(s) : s[i] = t[i]

\* A prefix and the texts at the cursors W of a log, in order, begin the text o.
BeginsWith(prefix, W, entries, o) ==
    /\ Len(prefix) + Cardinality(W) <= Len(o)
    /\ \A i \in 1..Len(prefix) : prefix[i] = o[i]
    /\ \A c \in W : entries[c] = o[Len(prefix) + Cardinality(Upto(W, c))]

Begins(o) == BeginsWith(ackedPrefix, Waiting, log, o)

\* ... and are all of it.
ExactWith(prefix, W, entries, o) ==
    BeginsWith(prefix, W, entries, o) /\ Len(prefix) + Cardinality(W) = Len(o)

Exact(o) == ExactWith(ackedPrefix, Waiting, log, o)

\* What is confirmed and not yet acknowledged can only complete the acknowledged
\* prefix to more of the attempt's output.
PrefixInv ==
    /\ \A a \in attempt + 1 .. MaxAttempts : output[a] = <<>>
    /\ frozen => Opens(frozenPrefix, output[attempt])
    /\ ~frozen => Begins(output[attempt])
    /\ cAttempt < attempt => tokens = {} /\ ackedPrefix = <<>>

\* The attempt, the text and the branches of the stream after each event of the bus.
Follows(e, at0, out0, items0, at1, out1, items1) ==
    CASE e.type = "text" -> at1 = at0 /\ out1 = Append(out0, e.id) /\ items1 = items0
      [] e.type = "speculative" -> /\ at1 = at0 /\ out1 = out0
                                   /\ items1 = [items0 EXCEPT ![e.branch] = Append(@, e.id)]
      [] e.type = "accept" -> /\ at1 = at0 /\ out1 = out0 \o items0[e.branch]
                              /\ items1 = [items0 EXCEPT ![e.branch] = <<>>]
      [] e.type = "cancel" -> at1 = at0 /\ out1 = out0 /\ items1 = [items0 EXCEPT ![e.branch] = <<>>]
      [] e.type = "end" -> at1 = at0 + 1 /\ out1 = <<>> /\ items1 = [b \in Branches |-> <<>>]

Held == [Branches -> Seq(Tokens)]

NoneHeld == [b \in Branches |-> <<>>]

\* The stream before the first event of the bus.
Starts(at, out, items) ==
    /\ cAttempt <= at
    /\ ~finalized => at = cAttempt
    /\ ~finalized /\ ~dead => \A b \in Branches : items[b] = branches[b].items
    /\ ~finalized /\ ~dead /\ ~frozen /\ cAttempt = attempt => Exact(out)

\* The stream at some event of the bus.
Passes(at, out, items) ==
    /\ at <= attempt + 1
    /\ at = attempt => Opens(out, output[attempt])
    /\ at > attempt => phase # "running" /\ out = <<>> /\ items = NoneHeld

\* The stream after the last event of the bus is where the engine is.
Arrives(at, out, items) ==
    phase = "running" /\ at = attempt => out = output[attempt] /\ items = held

Replays(at, out, items) ==
    LET n == Len(bus) IN
    /\ Starts(at[0], out[0], items[0])
    /\ \A i \in 1..n : Follows(bus[i], at[i - 1], out[i - 1], items[i - 1], at[i], out[i], items[i])
    /\ \A i \in 0..n : Passes(at[i], out[i], items[i])
    /\ Arrives(at[n], out[n], items[n])

\* Replaying the bus from the state of the coordinator leads to the engine's.
ReplayInv ==
    \E at \in [0..Len(bus) -> Nat], out \in [0..Len(bus) -> Seq(Tokens)], items \in [0..Len(bus) -> Held] :
       Replays(at, out, items)

IndInv ==
    /\ TypeOK /\ PhaseInv /\ NoLostWakeup /\ QueueInv /\ EndInv /\ TokenInv /\ TakenInv /\ BufferInv
    /\ PrefixInv /\ ReplayInv

-----------------------------------------------------------------------------
Entries == Tokens \cup {0, End}

\* Concatenation, element by element.
LEMMA Extended ==
    ASSUME NEW S, NEW s \in Seq(S), NEW t \in Seq(S)
    PROVE  /\ s \o t \in Seq(S) /\ Len(s \o t) = Len(s) + Len(t)
           /\ \A i \in 1..Len(s) : (s \o t)[i] = s[i]
           /\ \A i \in 1..Len(t) : (s \o t)[Len(s) + i] = t[i]
  OBVIOUS

\* A sequence is one over any set that holds its elements.
LEMMA Narrowed ==
    ASSUME NEW S, NEW T, NEW s \in Seq(S), \A i \in 1..Len(s) : s[i] \in T
    PROVE  s \in Seq(T)
  OBVIOUS

\* freezeLocked forgets the tokens of the prefix.
LEMMA FreezeEffect ==
    ASSUME TypeOK, TokenInv, Freeze
    PROVE  /\ frozen' = TRUE /\ tokens' = {} /\ ackedPrefix' = ackedPrefix
           /\ frozenPrefix' = IF frozen THEN frozenPrefix ELSE ackedPrefix
  BY DEF Freeze, TokenInv, TypeOK

\* Detaching counts once and freezes the prefix; the cursors stay.
LEMMA DetachEffect ==
    ASSUME TypeOK, TokenInv, NEW reason \in Reasons \ {"no"}, Detach(reason)
    PROVE  \/ /\ detached # "no" /\ UNCHANGED <<detached, tokens, ackedPrefix, frozen,
                                                frozenPrefix>>
           \/ /\ detached = "no" /\ detached' = reason /\ frozen' = TRUE /\ tokens' = {}
              /\ ackedPrefix' = ackedPrefix
              /\ frozenPrefix' = IF frozen THEN frozenPrefix ELSE ackedPrefix
  BY FreezeEffect DEF Detach, prefixVars

\* Emitting appends to the log, and either reaches the queue of an attached sink with
\* every cursor or detaches the sink.
LEMMA EmitEffect ==
    ASSUME TypeOK, QueueInv, TokenInv, NEW ids \in Seq(Entries), Emit(ids)
    PROVE  /\ log' \in Seq(Entries) /\ Len(log') = Len(log) + Len(ids)
           /\ \A c \in 1..Len(log) : log'[c] = log[c]
           /\ \A i \in 1..Len(ids) : log'[Len(log) + i] = ids[i]
           /\ queue' \in Seq(1..Len(log')) /\ Len(queue') <= QueueSize
           /\ \A i \in DOMAIN queue' : queue'[i] = offered + i
           /\ offered + Len(queue') <= Len(log')
           /\ \/ /\ UNCHANGED <<detached, ackedPrefix, frozen, frozenPrefix>>
                 /\ tokens' = tokens \cup Recorded(ids)
                 /\ detached = "no" => offered + Len(queue') = Len(log')
                 /\ detached # "no" => queue' = queue
              \/ /\ detached = "no" /\ detached' = "full" /\ frozen' = TRUE /\ tokens' = {}
                 /\ ackedPrefix' = ackedPrefix
                 /\ frozenPrefix' = IF frozen THEN frozenPrefix ELSE ackedPrefix
<1> DEFINE room == QueueSize - Len(queue)
           n == IF Len(ids) < room THEN Len(ids) ELSE room
           fits == [i \in 1..n |-> Len(log) + i]
<1>1. Len(queue) \in Nat /\ room \in Nat /\ Len(ids) \in Nat /\ n \in 0..room /\ n <= Len(ids)
  <2>1. Len(queue) \in Nat /\ Len(ids) \in Nat /\ QueueSize \in Nat /\ Len(queue) <= QueueSize
    BY StreamAssumption, SMTT(30) DEF TypeOK
  <2> QED
    BY <2>1
<1>2. log \in Seq(Entries) /\ log' = log \o ids /\ Len(log) \in Nat
  BY DEF Emit, TypeOK, Entries
<1>3. /\ log' \in Seq(Entries) /\ Len(log') = Len(log) + Len(ids)
      /\ \A c \in 1..Len(log) : log'[c] = log[c]
      /\ \A i \in 1..Len(ids) : log'[Len(log) + i] = ids[i]
  BY <1>2, Extended
<1>4. /\ queue' = IF detached = "no" THEN queue \o fits ELSE queue
      /\ \/ /\ detached # "no" \/ Len(ids) <= room
            /\ UNCHANGED <<detached, ackedPrefix, frozen, frozenPrefix>>
            /\ tokens' = tokens \cup Recorded(ids)
         \/ /\ ~(detached # "no" \/ Len(ids) <= room) /\ detached' = "full" /\ Freeze
  BY DEF Emit
<1>5. fits \in Seq(1..Len(log')) /\ Len(fits) = n /\ \A i \in 1..n : fits[i] = Len(log) + i
  <2> HIDE DEF n
  <2>1. \A i \in 1..n : Len(log) + i \in 1..Len(log')
    BY <1>1, <1>2, <1>3
  <2> QED
    BY <2>1, <1>1
<1>6. queue \in Seq(1..Len(log'))
  <2>1. \A i \in 1..Len(queue) : queue[i] \in 1..Len(log)
    BY SMTT(30) DEF TypeOK
  <2>2. \A i \in 1..Len(queue) : queue[i] \in 1..Len(log')
    BY <2>1, <1>1, <1>2, <1>3
  <2>3. queue \in Seq(1..Len(log))
    BY DEF TypeOK
  <2> QED
    BY <2>2, <2>3, Narrowed
<1>6a. Len(ids) <= room => n = Len(ids)
  BY <1>1
<1> HIDE DEF fits, n
<1>6b. n \in Nat /\ Len(queue) \in Nat /\ Len(ids) \in Nat /\ Len(log) \in Nat
  BY <1>1, <1>2
<1>7. CASE detached # "no"
  BY <1>1, <1>3, <1>4, <1>6, <1>7, <1>2, SMTT(30) DEF TypeOK, QueueInv
<1>8. CASE detached = "no"
  <2>1. queue' = queue \o fits
    BY <1>4, <1>8
  <2>2. /\ queue' \in Seq(1..Len(log')) /\ Len(queue') = Len(queue) + n
        /\ \A i \in 1..Len(queue) : queue'[i] = queue[i]
        /\ \A i \in 1..n : queue'[Len(queue) + i] = fits[i]
    <3> DEFINE S == 1..Len(log')
    <3>1. queue \in Seq(S) /\ fits \in Seq(S) /\ Len(fits) = n
      BY <1>5, <1>6
    <3> HIDE DEF S
    <3>2. /\ queue \o fits \in Seq(S) /\ Len(queue \o fits) = Len(queue) + Len(fits)
          /\ \A i \in 1..Len(queue) : (queue \o fits)[i] = queue[i]
          /\ \A i \in 1..Len(fits) : (queue \o fits)[Len(queue) + i] = fits[i]
      BY <3>1, SMTT(30)
    <3> QED
      BY <3>1, <3>2, <2>1, Zenon DEF S
  <2>3. offered + Len(queue) = Len(log) /\ offered \in Nat
    BY <1>8, <1>2 DEF QueueInv, TypeOK
  <2>4. \A i \in DOMAIN queue' : queue'[i] = offered + i
    <3> SUFFICES ASSUME NEW i \in 1..(Len(queue) + n) PROVE queue'[i] = offered + i
      BY <2>2
    <3>1. CASE i <= Len(queue)
      <4>1. i \in 1..Len(queue) /\ DOMAIN queue = 1..Len(queue)
        BY <3>1, <1>1 DEF TypeOK
      <4> QED
        BY <4>1, <2>2 DEF QueueInv
    <3>2. CASE i > Len(queue)
      <4>1. PICK k \in 1..n : i = Len(queue) + k
        <5>1. i - Len(queue) \in 1..n /\ i = Len(queue) + (i - Len(queue))
          BY <3>2, <1>1
        <5> QED
          BY <5>1
      <4>2. queue'[i] = Len(log) + k
        BY <4>1, <2>2, <1>5
      <4> QED
        BY <4>1, <4>2, <2>3, <1>6b
    <3> QED
      BY <3>1, <3>2, <1>1
  <2>5. Len(queue') <= QueueSize /\ offered + Len(queue') <= Len(log')
    BY <2>2, <2>3, <1>1, <1>2, <1>3, StreamAssumption
  <2>6. ASSUME Len(ids) <= room PROVE offered + Len(queue') = Len(log')
    <3>1. n = Len(ids)
      BY <2>6, <1>6a
    <3>2. Len(queue') = Len(queue) + Len(ids)
      BY <3>1, <2>2
    <3>3. Len(log') = Len(log) + Len(ids)
      BY <1>3
    <3> QED
      BY <3>2, <3>3, <2>3, <1>6b
  <2> QED
    BY <2>2, <2>4, <2>5, <2>6, <1>3, <1>4, <1>8, FreezeEffect
<1> QED
  BY <1>7, <1>8

\* A set of recorded cursors is finite.
LEMMA TokensFinite ==
    ASSUME NEW n \in Nat, NEW a, NEW S \in SUBSET ((1..n) \X {a})
    PROVE  IsFiniteSet(S) /\ Cardinality(S) \in Nat
<1>1. IsFiniteSet(1..n) /\ IsFiniteSet({a})
  <2>1. 1 \in Int /\ n \in Int
    OBVIOUS
  <2> QED
    BY <2>1, FS_Interval, FS_Singleton, Zenon
<1>2. IsFiniteSet((1..n) \X {a})
  BY <1>1, FS_Product
<1> QED
  BY <1>2, FS_Subset, FS_CardinalityType

\* What emitting records: the cursors of its texts, for an attempt that is not frozen.
LEMMA RecordedEffect ==
    ASSUME TypeOK, NEW ids \in Seq(Entries)
    PROVE  /\ \A r \in Recorded(ids) : \E i \in 1..Len(ids) : r = <<Len(log) + i,
                                                                    attempt>> /\ ids[i] > 0
           /\ ~frozen /\ cAttempt = attempt =>
                 \A i \in 1..Len(ids) : ids[i] > 0 => <<Len(log) + i, attempt>> \in Recorded(ids)
           /\ frozen => Recorded(ids) = {}
           /\ cAttempt # attempt => Recorded(ids) = {}
<1> DEFINE T == {j \in DOMAIN ids : IsText(ids[j])}
<1>1. \A j \in T : j \in 1..Len(ids) /\ ids[j] > 0
  BY DEF IsText
<1>2. \A j \in 1..Len(ids) : ids[j] > 0 => j \in T
  BY DEF IsText
<1>3. Recorded(ids) = IF frozen \/ cAttempt # attempt THEN {}
                      ELSE {<<Len(log) + i, cAttempt>> : i \in T}
  BY DEF Recorded, TypeOK
<1> HIDE DEF T
<1>4. CASE frozen \/ cAttempt # attempt
  BY <1>3, <1>4
<1>5. CASE ~(frozen \/ cAttempt # attempt)
  <2>1. Recorded(ids) = {<<Len(log) + i, attempt>> : i \in T}
    BY <1>3, <1>5
  <2> QED
    BY <2>1, <1>1, <1>2, <1>5
<1> QED
  BY <1>4, <1>5

-----------------------------------------------------------------------------
(* Cursors in order. *)

Increasing(cs) == \A i, j \in DOMAIN cs : i < j => cs[i] < cs[j]

\* Every set of cursors has a least one.
LEMMA Least ==
    ASSUME NEW S \in SUBSET Nat, S # {}
    PROVE  \E m \in S : \A x \in S : m <= x
<1>1. PICK m \in S : \A x \in S : ~ (<<x, m>> \in OpToRel(<, Nat))
  BY NatLessThanWellFounded, WFMin
<1>2. \A x \in S : ~ (x < m)
  BY <1>1 DEF OpToRel
<1> QED
  BY <1>2

\* A finite set of cursors can be put in order: by well-founded induction, the least
\* of a least counterexample is removed.
LEMMA OrderExists ==
    ASSUME NEW S \in SUBSET Nat, IsFiniteSet(S)
    PROVE  \E cs \in [1..Cardinality(S) -> S] : Increasing(cs)
<1> DEFINE Ordered(T) == \E cs \in [1..Cardinality(T) -> T] : Increasing(cs)
           Bad == {n \in Nat : \E T \in SUBSET Nat : IsFiniteSet(T) /\ Cardinality(T) = n /\ ~Ordered(T)}
<1>1. SUFFICES ASSUME ~Ordered(S) PROVE FALSE
  OBVIOUS
<1>2. Bad # {} /\ Bad \in SUBSET Nat
  BY <1>1, FS_CardinalityType
<1>3. PICK n \in Bad : \A m \in Bad : n <= m
  <2> HIDE DEF Bad
  <2> QED
    BY <1>2, Least
<1>4. PICK T \in SUBSET Nat : IsFiniteSet(T) /\ Cardinality(T) = n /\ ~Ordered(T)
  BY <1>3
<1>5. T # {}
  <2> SUFFICES ASSUME T = {} PROVE FALSE
    OBVIOUS
  <2>1. Cardinality(T) = 0
    BY FS_EmptySet
  <2>2. [i \in 1..0 |-> i] \in [1..Cardinality(T) -> T] /\ Increasing([i \in 1..0 |-> i])
    BY <2>1 DEF Increasing
  <2> QED
    BY <2>2, <1>4
<1>6. PICK m \in T : \A x \in T : m <= x
  BY <1>5, Least
<1>7. /\ IsFiniteSet(T \ {m}) /\ T \ {m} \in SUBSET Nat
      /\ Cardinality(T \ {m}) = n - 1 /\ n \in Nat /\ n - 1 \in Nat
  <2>1. IsFiniteSet(T \ {m}) /\ Cardinality(T \ {m}) = n - 1
    BY <1>4, <1>6, FS_RemoveElement
  <2>2. Cardinality(T \ {m}) \in Nat
    BY <2>1, FS_CardinalityType
  <2> QED
    BY <2>1, <2>2, <1>2, <1>3
<1>8. Ordered(T \ {m})
  <2>1. n - 1 \notin Bad
    <3> HIDE DEF Bad
    <3> QED
      BY <1>3, <1>7
  <2> QED
    BY <2>1, <1>7
<1>9. PICK cs \in [1..(n - 1) -> T \ {m}] : Increasing(cs)
  BY <1>7, <1>8
<1> DEFINE ds == [i \in 1..n |-> IF i = 1 THEN m ELSE cs[i - 1]]
<1>10. ds \in [1..n -> T]
  <2> SUFFICES ASSUME NEW i \in 1..n, i # 1 PROVE cs[i - 1] \in T
    OBVIOUS
  <2>1. i - 1 \in 1..(n - 1)
    BY <1>7
  <2> QED
    BY <2>1, <1>9
<1>11. ASSUME NEW i \in 1..n, NEW j \in 1..n, i < j PROVE ds[i] < ds[j]
  <2>1. j - 1 \in 1..(n - 1) /\ ds[j] = cs[j - 1] /\ cs[j - 1] \in T \ {m}
    BY <1>11, <1>9, <1>7
  <2>2. CASE i = 1
    <3>1. ds[i] = m /\ m <= cs[j - 1] /\ m # cs[j - 1] /\ m \in Nat /\ cs[j - 1] \in Nat
      BY <2>1, <2>2, <1>6, <1>4
    <3> QED
      BY <3>1, <2>1
  <2>3. CASE i # 1
    <3>1. i - 1 \in 1..(n - 1) /\ ds[i] = cs[i - 1] /\ i - 1 < j - 1
      BY <1>11, <1>7, <2>3
    <3> QED
      BY <3>1, <2>1, <1>9 DEF Increasing
  <2> QED
    BY <2>2, <2>3
<1>12. Increasing(ds)
  BY <1>11 DEF Increasing
<1> QED
  BY <1>10, <1>12, <1>4

\* InOrder enumerates a set of cursors, each at its rank.
LEMMA InOrderRanks ==
    ASSUME NEW S \in SUBSET Nat, IsFiniteSet(S)
    PROVE  /\ Cardinality(S) \in Nat
           /\ InOrder(S) \in [1..Cardinality(S) -> S]
           /\ \A i \in 1..Cardinality(S) : Cardinality(Upto(S, InOrder(S)[i])) = i
<1> DEFINE n == Cardinality(S)
           cs == InOrder(S)
<1>1. n \in Nat
  BY FS_CardinalityType
<1>2. cs \in [1..n -> S] /\ Increasing(cs)
  BY OrderExists DEF InOrder, Increasing
<1> HIDE DEF n, cs
<1>3. IsInjective(cs)
  <2> SUFFICES ASSUME NEW i \in 1..n, NEW j \in 1..n, cs[i] = cs[j] PROVE i = j
    BY <1>2 DEF IsInjective
  <2>1. cs[i] \in Nat /\ cs[j] \in Nat
    BY <1>2
  <2>2. ~ (i < j) /\ ~ (j < i)
    BY <2>1, <1>2 DEF Increasing
  <2> QED
    BY <2>2, <1>1
<1>4. cs \in Injection(1..n, S)
  BY <1>2, <1>3 DEF Injection
<1>5. IsFiniteSet(1..n) /\ Cardinality(1..n) = n
  BY <1>1, FS_Interval
<1>6. cs \in Surjection(1..n, S)
  BY <1>4, <1>5, FS_Injection DEF n
<1>7. ASSUME NEW i \in 1..n PROVE Cardinality(Upto(S, cs[i])) = i
  <2> DEFINE U == Upto(S, cs[i])
             f == [j \in 1..i |-> cs[j]]
  <2>1. i \in Nat /\ 1..i \subseteq 1..n
    BY <1>1
  <2>2. ASSUME NEW j \in 1..i PROVE cs[j] \in U
    <3>1. j \in 1..n /\ cs[j] \in S /\ cs[j] \in Nat /\ cs[i] \in Nat /\ (j = i \/ j < i)
      <4>1. j \in 1..n /\ (j = i \/ j < i)
        BY <2>1, <1>1
      <4> QED
        BY <4>1, <1>2
    <3>2. j < i => cs[j] < cs[i]
      BY <3>1, <1>2 DEF Increasing
    <3>3. cs[j] <= cs[i]
      BY <3>1, <3>2
    <3> QED
      BY <3>1, <3>3 DEF Upto
  <2>3. ASSUME NEW x \in U PROVE \E j \in 1..i : cs[j] = x
    <3>1. PICK j \in 1..n : cs[j] = x
      BY <1>6 DEF Surjection, Upto
    <3>2. ~ (i < j)
      <4>1. x <= cs[i] /\ cs[i] \in Nat /\ cs[j] \in Nat
        BY <1>2 DEF Upto
      <4>2. i < j => cs[i] < cs[j]
        BY <1>2 DEF Increasing
      <4> QED
        BY <3>1, <4>1, <4>2
    <3> QED
      BY <3>1, <3>2, <1>1
  <2> HIDE DEF U
  <2>4. f \in [1..i -> U]
    BY <2>2
  <2>5. f \in Injection(1..i, U)
    BY <2>4, <2>1, <1>3, <1>2 DEF Injection, IsInjective
  <2>6. f \in Surjection(1..i, U)
    BY <2>4, <2>3 DEF Surjection
  <2> HIDE DEF f
  <2>7. IsFiniteSet(1..i) /\ Cardinality(1..i) = i
    BY <2>1, FS_Interval
  <2>8. Cardinality(U) = Cardinality(1..i)
    BY <2>5, <2>6, <2>7, FS_Bijection DEF ExistsBijection, Bijection
  <2> QED
    BY <2>7, <2>8 DEF U
<1> QED
  BY <1>1, <1>2, <1>7 DEF n, cs

\* Splitting a set at a cursor splits its size and its ranks.
LEMMA RankSplit ==
    ASSUME NEW S \in SUBSET Nat, IsFiniteSet(S), NEW c \in Nat
    PROVE  LET A == Upto(S, c)
               B == S \ Upto(S, c)
           IN  /\ IsFiniteSet(A) /\ IsFiniteSet(B)
               /\ Cardinality(A) \in Nat /\ Cardinality(B) \in Nat
               /\ Cardinality(S) = Cardinality(A) + Cardinality(B)
               /\ \A x \in A : Upto(S, x) = Upto(A, x)
               /\ \A x \in B : Cardinality(Upto(S, x)) = Cardinality(A) + Cardinality(Upto(B, x))
<1> DEFINE A == Upto(S, c)
           B == S \ Upto(S, c)
<1>0. A = Upto(S, c) /\ B = S \ A
  OBVIOUS
<1> HIDE DEF A, B
<1>1. A \in SUBSET S /\ B \in SUBSET S
  BY <1>0 DEF Upto
<1>2. ASSUME NEW U, NEW V, IsFiniteSet(U), IsFiniteSet(V), U \cap V = {}
      PROVE  Cardinality(U \cup V) = Cardinality(U) + Cardinality(V)
  <2>1. Cardinality(U) \in Nat /\ Cardinality(V) \in Nat /\ Cardinality(U \cap V) = 0
    BY <1>2, FS_CardinalityType, FS_EmptySet
  <2>2. Cardinality(U \cup V) = Cardinality(U) + Cardinality(V) - Cardinality(U \cap V)
    BY <1>2, FS_Union
  <2> QED
    BY <2>1, <2>2
<1>3. IsFiniteSet(A) /\ IsFiniteSet(B) /\ Cardinality(A) \in Nat /\ Cardinality(B) \in Nat
  BY <1>1, FS_Subset, FS_CardinalityType
<1>4. S = A \cup B /\ A \cap B = {}
  BY <1>0, <1>1
<1>5. ASSUME NEW x \in A PROVE Upto(S, x) = Upto(A, x)
  <2>1. x \in Nat /\ x <= c
    BY <1>0 DEF Upto
  <2>2. ASSUME NEW y \in S, y <= x PROVE y <= c
    <3>1. y \in Nat
      OBVIOUS
    <3> QED
      BY <3>1, <2>1, <2>2
  <2> QED
    BY <2>2, <1>0 DEF Upto
<1>6. ASSUME NEW x \in B PROVE Cardinality(Upto(S, x)) = Cardinality(A) + Cardinality(Upto(B, x))
  <2>1. Upto(B, x) \in SUBSET B
    BY DEF Upto
  <2>2. IsFiniteSet(Upto(B, x))
    BY <2>1, <1>3, FS_Subset
  <2>3. Upto(S, x) = A \cup Upto(B, x) /\ A \cap Upto(B, x) = {}
    <3>1. x \in Nat /\ c < x
      BY <1>0, <1>6 DEF Upto
    <3>2. ASSUME NEW y \in A PROVE y \in Upto(S, x)
      BY <3>1, <1>0 DEF Upto
    <3>3. \A y \in Upto(B, x) : y \in Upto(S, x) /\ y \notin A
      BY <1>0 DEF Upto
    <3>4. \A y \in Upto(S, x) : y \notin A => y \in Upto(B, x)
      BY <1>0 DEF Upto
    <3> QED
      BY <3>2, <3>3, <3>4
  <2> QED
    BY <2>2, <2>3, <1>2, <1>3
<1>7. Cardinality(S) = Cardinality(A) + Cardinality(B)
  BY <1>2, <1>3, <1>4
<1> QED
  BY <1>3, <1>5, <1>6, <1>7 DEF A, B

\* Cursors n + lo up to n + k come after the ones up to n.
Grown(S, n, lo, k) == S \cup ((n + lo)..(n + k))

\* The size of a set of cursors after an emission.
LEMMA GrownSize ==
    ASSUME NEW n \in Nat, NEW S \in SUBSET (1..n), NEW lo \in {1, 2}, NEW i \in Int, lo - 1 <= i
    PROVE  Cardinality(S \cup ((n + lo)..(n + i))) = Cardinality(S) + (i + 1 - lo)
<1>1. IsFiniteSet(S) /\ Cardinality(S) \in Nat
  <2>1. IsFiniteSet(1..n)
    BY FS_Interval
  <2> QED
    BY <2>1, FS_Subset, FS_CardinalityType
<1> DEFINE I == (n + lo)..(n + i)
<1>2. n + lo \in Int /\ n + i \in Int /\ i + 1 - lo \in Nat
  OBVIOUS
<1>3. IsFiniteSet(I) /\ Cardinality(I) = IF n + lo > n + i THEN 0 ELSE (n + i) - (n + lo) + 1
  BY <1>2, FS_Interval
<1>4. Cardinality(I) = i + 1 - lo
  BY <1>2, <1>3
<1>5. S \cap I = {}
  OBVIOUS
<1> HIDE DEF I
<1>6. Cardinality(S \cup I) = Cardinality(S) + Cardinality(I) - Cardinality(S \cap I)
  BY <1>1, <1>3, FS_Union
<1>7. Cardinality(S \cap I) = 0
  BY <1>5, FS_EmptySet
<1> QED
  BY <1>2, <1>4, <1>6, <1>7, <1>1 DEF I

\* New cursors leave the ranks of the old ones alone ...
LEMMA RankAppend ==
    ASSUME NEW n \in Nat, NEW S \in SUBSET (1..n), NEW lo \in {1, 2}, NEW k \in Nat, lo <= k + 1
    PROVE  /\ Cardinality(Grown(S, n, lo, k)) = Cardinality(S) + (k + 1 - lo)
           /\ \A x \in S : Upto(Grown(S, n, lo, k), x) = Upto(S, x)
<1>1. Cardinality(Grown(S, n, lo, k)) = Cardinality(S) + (k + 1 - lo)
  <2>1. k \in Int /\ lo - 1 <= k
    OBVIOUS
  <2> QED
    BY <2>1, GrownSize DEF Grown
<1>2. \A x \in S : Upto(Grown(S, n, lo, k), x) = Upto(S, x)
  BY DEF Upto, Grown
<1> QED
  BY <1>1, <1>2

\* ... and come after them.
LEMMA RankAppended ==
    ASSUME NEW n \in Nat, NEW S \in SUBSET (1..n), NEW lo \in {1, 2}, NEW k \in Nat,
    NEW i \in lo..k
    PROVE  Cardinality(Upto(Grown(S, n, lo, k), n + i)) = Cardinality(S) + (i + 1 - lo)
<1>1. ASSUME NEW x PROVE x \in Upto(Grown(S, n, lo, k), n + i) <=> x \in S \/ x \in (n + lo)..(n + i)
  <2>1. CASE x \in S
    BY <2>1 DEF Upto, Grown
  <2>2. CASE x \notin S
    BY <2>2 DEF Upto, Grown
  <2> QED
    BY <2>1, <2>2
<1>2. Upto(Grown(S, n, lo, k), n + i) = S \cup ((n + lo)..(n + i))
  BY <1>1
<1>3. i \in Nat /\ lo <= i + 1
  OBVIOUS
<1>4. Cardinality(Grown(S, n, lo, i)) = Cardinality(S) + (i + 1 - lo)
  BY <1>3, RankAppend
<1> QED
  BY <1>2, <1>4 DEF Grown

-----------------------------------------------------------------------------
(* What the steps do. *)

\* The cursors that wait are finitely many cursors of the log.
LEMMA WaitingFinite ==
    ASSUME TypeOK
    PROVE  /\ Waiting \in SUBSET (1..Len(log)) /\ Waiting \in SUBSET Nat /\ IsFiniteSet(Waiting)
           /\ Cardinality(Waiting) \in Nat /\ Len(log) \in Nat
<1>1. Len(log) \in Nat
  BY DEF TypeOK
<1>2. IsFiniteSet(1..Len(log))
  BY <1>1, FS_Interval
<1>3. Waiting \in SUBSET (1..Len(log))
  BY DEF Waiting
<1> QED
  <2>1. IsFiniteSet(Waiting)
    BY <1>2, <1>3, FS_Subset
  <2>2. Waiting \in SUBSET Nat
    BY <1>1, <1>3
  <2> QED
    BY <2>1, <2>2, <1>1, <1>3, FS_CardinalityType

\* What the prefix gains are the texts waiting up to the cursor, each at its rank.
LEMMA GainedEffect ==
    ASSUME TypeOK, TokenInv, NEW cursor \in 1..Len(log), cursor > acked,
           NEW A, A = Upto(Waiting, cursor)
    PROVE  /\ Cardinality(A) \in Nat
           /\ Gained(cursor) \in Seq(Tokens) /\ Len(Gained(cursor)) = Cardinality(A)
           /\ \A i \in 1..Cardinality(A) :
                 \E c \in A : Gained(cursor)[i] = log[c] /\ Cardinality(Upto(A, c)) = i
<1>1. A \in SUBSET Nat /\ IsFiniteSet(A)
  BY WaitingFinite, FS_Subset DEF Upto
<1>2. A = {c \in acked + 1 .. cursor : <<c, commitAttempt>> \in tokens}
  <2>1. commitAttempt = attempt /\ acked \in Nat /\ Len(log) \in Nat
    BY DEF TypeOK
  <2>2. ASSUME NEW c PROVE c \in A <=> c \in acked + 1 .. cursor /\ <<c, attempt>> \in tokens
    <3>1. ASSUME c \in A PROVE c \in acked + 1 .. cursor /\ <<c, attempt>> \in tokens
      BY <3>1, <2>1 DEF TokenInv, Waiting, Upto
    <3>2. ASSUME c \in acked + 1 .. cursor, <<c, attempt>> \in tokens PROVE c \in A
      BY <3>2, <2>1 DEF Waiting, Upto
    <3> QED
      BY <3>1, <3>2
  <2> QED
    BY <2>1, <2>2
<1> DEFINE cs == InOrder(A)
           n == Cardinality(A)
<1>3. Gained(cursor) = [i \in DOMAIN cs |-> log[cs[i]]]
  BY <1>2 DEF Gained
<1>4. n \in Nat /\ cs \in [1..n -> A] /\ \A i \in 1..n : Cardinality(Upto(A, cs[i])) = i
  BY <1>1, InOrderRanks
<1> HIDE DEF cs, n
<1>5. \A c \in A : log[c] \in Tokens
  <2>1. \A c \in A : c \in 1..Len(log) /\ log[c] > 0
    BY DEF TokenInv, Waiting, Upto
  <2>2. \A d \in 1..Len(log) : log[d] \in Tokens \cup {0, End}
    BY DEF TypeOK
  <2>3. ~(End > 0) /\ ~(0 > 0)
    BY DEF End
  <2> QED
    BY <2>1, <2>2, <2>3
<1>6. Gained(cursor) = [i \in 1..n |-> log[cs[i]]]
  BY <1>3, <1>4
<1>7. Gained(cursor) \in Seq(Tokens) /\ Len(Gained(cursor)) = n
  BY <1>4, <1>5, <1>6
<1>8. ASSUME NEW i \in 1..n
      PROVE  \E c \in A : Gained(cursor)[i] = log[c] /\ Cardinality(Upto(A, c)) = i
  <2>1. cs[i] \in A /\ Gained(cursor)[i] = log[cs[i]]
    BY <1>4, <1>6
  <2> QED
    BY <2>1, <1>4
<1> QED
  BY <1>4, <1>7, <1>8 DEF n

\* advanceAckLocked moves the prefix over the tokens up to the cursor.
LEMMA AdvanceEffect ==
    ASSUME TypeOK, TokenInv, NEW cursor \in 1..Len(log), cursor > acked, AdvanceAck(cursor),
           UNCHANGED <<log, attempt>>
    PROVE  /\ acked' = cursor /\ ackedPrefix' = ackedPrefix \o Gained(cursor)
           /\ tokens' \subseteq tokens
           /\ Waiting' = Waiting \ Upto(Waiting, cursor)
<1>1. /\ acked' = cursor /\ ackedPrefix' = ackedPrefix \o Gained(cursor)
      /\ tokens' = {r \in tokens : r[1] > cursor}
  BY DEF AdvanceAck
<1>2. ASSUME NEW c \in 1..Len(log)
      PROVE  <<c, attempt>> \in tokens' <=> <<c, attempt>> \in tokens /\ ~ (c <= cursor)
  BY <1>1
<1> QED
  BY <1>1, <1>2 DEF Waiting, Upto

\* Nothing waits without tokens.
LEMMA NoneWaiting == (tokens = {} => Waiting = {}) /\ (tokens' = {} => Waiting' = {})
  BY DEF Waiting

\* After an emission its texts wait behind what waited before.
LEMMA EmitWaits ==
    ASSUME TypeOK, QueueInv, TokenInv, NEW ids \in Seq(Entries), Emit(ids), attempt' = attempt,
           tokens' = tokens \cup Recorded(ids)
    PROVE  /\ frozen \/ cAttempt # attempt => Waiting' = Waiting
           /\ \A c \in Waiting : c \in Waiting'
           /\ \A c \in Waiting' : c \in Waiting \/ \E i \in 1..Len(ids) : c = Len(log) + i /\ ids[i] > 0
           /\ ~frozen /\ cAttempt = attempt =>
                 \A i \in 1..Len(ids) : ids[i] > 0 => Len(log) + i \in Waiting'
<1>1. Len(log) \in Nat /\ Len(ids) \in Nat /\ Len(log') = Len(log) + Len(ids)
  <2>1. Len(log') = Len(log) + Len(ids)
    BY EmitEffect
  <2> QED
    BY <2>1 DEF TypeOK
<1>2. tokens \subseteq (1..Len(log)) \X {attempt}
  BY DEF TypeOK
<1>3. ASSUME NEW c, <<c, attempt>> \in tokens PROVE c \in Waiting
  BY <1>2, <1>3 DEF Waiting
<1>4. \A c \in Waiting : c \in Waiting'
  BY <1>1 DEF Waiting
<1>5. ASSUME NEW c \in Waiting', c \notin Waiting
      PROVE  \E i \in 1..Len(ids) : c = Len(log) + i /\ ids[i] > 0
  <2>1. <<c, attempt>> \in Recorded(ids)
    BY <1>3, <1>5 DEF Waiting
  <2> QED
    BY <2>1, RecordedEffect
<1>6. ASSUME frozen \/ cAttempt # attempt PROVE Waiting' = Waiting
  <2>1. Recorded(ids) = {}
    BY <1>6, RecordedEffect
  <2> QED
    BY <2>1, <1>3, <1>4 DEF Waiting
<1>7. ASSUME ~frozen, cAttempt = attempt, NEW i \in 1..Len(ids), ids[i] > 0
      PROVE  Len(log) + i \in Waiting'
  <2>1. <<Len(log) + i, attempt>> \in tokens'
    BY <1>7, RecordedEffect
  <2>2. Len(log) + i \in 1..Len(log')
    BY <1>1
  <2> QED
    BY <2>1, <2>2 DEF Waiting
<1> QED
  BY <1>4, <1>5, <1>6, <1>7

-----------------------------------------------------------------------------
(* The cases of OnDelta. *)

NoBranches == [b \in Branches |-> NoBranch]
coordinated == <<branches, cAttempt, dead, signal>>
streamed == <<log, queue, detached, tokens, ackedPrefix, frozen, frozenPrefix>>

\* An event after the end, an event of a stream given up, or a decision that is repeated.
DeltaSkips(e) ==
    /\ finalized \/ e.type # "end"
    /\ finalized \/ dead \/ (e.type \in {"accept", "cancel"} /\ branches[e.branch].state = e.type)
    /\ UNCHANGED coordinated /\ UNCHANGED streamed

DeltaFails(e) ==
    /\ ~finalized /\ dead' = TRUE /\ branches' = NoBranches
    /\ Detach("failed") /\ UNCHANGED <<log, queue>>
    /\ IF e.type = "end" THEN cAttempt' = cAttempt + 1 /\ signal' = TRUE
       ELSE UNCHANGED <<cAttempt, signal>>

DeltaEnds(e) ==
    /\ ~finalized /\ e.type = "end"
    /\ branches' = NoBranches /\ cAttempt' = cAttempt + 1 /\ signal' = TRUE
    /\ UNCHANGED dead /\ UNCHANGED streamed

DeltaBuffers(e) ==
    /\ ~finalized /\ ~dead /\ e.type = "speculative" /\ Pending + 1 <= MaxEvents
    /\ branches[e.branch].state \in {"none", "open"}
    /\ branches' = [branches EXCEPT ![e.branch] =
                      [state |-> "open", items |-> Append(branches[e.branch].items, e.id)]]
    /\ UNCHANGED <<cAttempt, dead, signal>> /\ UNCHANGED streamed

\* What an event confirms.
Confirms(e) == IF e.type = "text" THEN <<e.id>>
               ELSE IF e.type = "accept" THEN <<0>> \o branches[e.branch].items
               ELSE <<0>>

DeltaEmits(e) ==
    /\ ~finalized /\ ~dead /\ e.type \in {"text", "accept", "cancel"}
    /\ IF e.type = "text" THEN UNCHANGED branches
       ELSE branches' = [branches EXCEPT ![e.branch] = [state |-> e.type, items |-> <<>>]]
    /\ UNCHANGED <<cAttempt, dead, signal>>
    /\ Emit(Confirms(e))

\* OnDelta skips its event, fails the stream, ends it, buffers the event or emits.
LEMMA DeltaCases ==
    ASSUME TypeOK, BufferInv, OnDelta
    PROVE  /\ bus # <<>> /\ bus' = Tail(bus) /\ phase # "done" /\ Head(bus) \in Events
           /\ UNCHANGED <<engineVars, finalized, spec, inCall, call, turnVars, heard>>
           /\ LET e == Head(bus) IN
              \/ DeltaSkips(e) \/ DeltaFails(e) \/ DeltaEnds(e) \/ DeltaBuffers(e) \/ DeltaEmits(e)
<1> DEFINE e == Head(bus)
<1>1. /\ bus # <<>> /\ bus' = Tail(bus) /\ phase # "done" /\ e \in Events
      /\ UNCHANGED <<engineVars, finalized, spec, inCall, call, turnVars, heard>>
  <2>1. bus \in Seq(Events)
    BY DEF TypeOK
  <2> QED
    BY <2>1 DEF OnDelta
<1>2. e.type \in {"text", "speculative", "accept", "cancel", "end"}
  BY <1>1 DEF Events
<1> HIDE DEF e
<1>3. CASE finalized
  <2>1. Unaffected /\ UNCHANGED <<cAttempt, signal>>
    BY <1>3 DEF OnDelta
  <2> QED
    BY <2>1, <1>1, <1>3 DEF Unaffected, DeltaSkips, coordinated, streamed, prefixVars, e
<1>4. CASE ~finalized /\ e.type = "end"
  <2>1. OnRunEnd
    BY <1>4 DEF OnDelta, e
  <2> QED
    BY <2>1, <1>1, <1>4 DEF OnRunEnd, FinishAttempt, FailConfirmed, DeltaFails, DeltaEnds,
       NoBranches,
       streamed, prefixVars, e
<1>5. CASE ~finalized /\ e.type # "end" /\ dead
  <2>1. Unaffected /\ UNCHANGED <<cAttempt, signal>>
    BY <1>5 DEF OnDelta, e
  <2> QED
    BY <2>1, <1>1, <1>5 DEF Unaffected, DeltaSkips, coordinated, streamed, prefixVars, e
<1>6. CASE ~finalized /\ ~dead /\ e.type = "speculative"
  <2>1. Speculate(e) /\ UNCHANGED <<cAttempt, signal>>
    BY <1>6 DEF OnDelta, e
  <2>2. e.branch \in Branches
    BY <1>1, <1>6 DEF Events
  <2>3. CASE FailConfirmed
    BY <2>1, <2>3, <1>1, <1>6 DEF FailConfirmed, DeltaFails, NoBranches, e
  <2>4. CASE ~FailConfirmed
    <3>1. /\ ~(branches[e.branch].state \in {"accept", "cancel"}) /\ ~(Pending + 1 > MaxEvents)
          /\ branches' = [branches EXCEPT ![e.branch] =
                            [state |-> "open", items |-> Append(branches[e.branch].items, e.id)]]
          /\ UNCHANGED <<dead, log, queue, detached, prefixVars>>
      BY <2>1, <2>4 DEF Speculate
    <3>2. branches[e.branch].state \in {"none", "open"}
      BY <2>2, <3>1 DEF TypeOK, BranchStates
    <3>3. Pending + 1 <= MaxEvents
      BY <3>1, StreamAssumption, FS_CardinalityType DEF BufferInv, Pending
    <3> QED
      BY <2>1, <3>1, <3>2, <3>3, <1>1, <1>6 DEF DeltaBuffers, streamed, prefixVars, e
  <2> QED
    BY <2>3, <2>4
<1>7. CASE ~finalized /\ ~dead /\ e.type \in {"accept", "cancel"}
  <2>1. Decide(e) /\ UNCHANGED <<cAttempt, signal>>
    BY <1>7 DEF OnDelta, e
  <2>2. CASE branches[e.branch].state = e.type
    <3>1. Unaffected
      BY <2>1, <2>2 DEF Decide
    <3> QED
      BY <3>1, <2>1, <2>2, <1>1, <1>7 DEF Unaffected, DeltaSkips, coordinated, streamed,
         prefixVars, e
  <2>3. CASE FailConfirmed
    BY <2>1, <2>3, <1>1, <1>7 DEF FailConfirmed, DeltaFails, NoBranches, e
  <2>4. CASE branches[e.branch].state # e.type /\ ~FailConfirmed
    <3>1. /\ branches' = [branches EXCEPT ![e.branch] = [state |-> e.type, items |-> <<>>]]
          /\ Emit(<<0>> \o (IF e.type = "accept" THEN branches[e.branch].items ELSE <<>>))
          /\ UNCHANGED dead
      BY <2>1, <2>4 DEF Decide
    <3>2. <<0>> \o <<>> = <<0>>
      OBVIOUS
    <3>3. Emit(Confirms(e))
      BY <3>1, <3>2, <1>7 DEF Confirms
    <3> QED
      BY <2>1, <3>1, <3>3, <1>1, <1>7 DEF DeltaEmits, e
  <2> QED
    BY <2>2, <2>3, <2>4
<1>8. CASE ~finalized /\ ~dead /\ e.type = "text"
  <2>1. Emit(<<e.id>>) /\ UNCHANGED <<dead, branches>> /\ UNCHANGED <<cAttempt, signal>>
    BY <1>8 DEF OnDelta, e
  <2> QED
    BY <2>1, <1>1, <1>8 DEF DeltaEmits, Confirms, e
<1> QED
  BY <1>2, <1>3, <1>4, <1>5, <1>6, <1>7, <1>8

\* The engine leaves everything but its own output and the bus alone.
LEMMA EngineFrame ==
    ASSUME EngineStep
    PROVE  /\ UNCHANGED <<coordVars, spec, sinkVars, detached, turnVars, prefixVars, heard,
                          attempt>>
           /\ UNCHANGED <<committed, view, saved>> /\ phase = "running" /\ phase' \in {"running", "ended"}
  BY DEF EngineStep, PublishText, PublishSpeculative, PublishAccept, PublishCancel,
     Publishes, EndAttempt

\* finalize emits the logical end, or skips it because the stream failed.
LEMMA FinalizeCases ==
    ASSUME TypeOK, FinalizeEmits
    PROVE  /\ phase = "checking" /\ phase' = "waiting" /\ cAttempt > attempt /\ finalized' = TRUE
           /\ UNCHANGED <<attempt, status, published, output, held, committed, view, saved,
                          bus, cAttempt, signal, inCall, call, turnVars, heard>>
           /\ branches' = NoBranches
           /\ \/ UNCHANGED streamed /\ UNCHANGED dead
              \/ UNCHANGED <<log, queue>> /\ Detach("failed") /\ dead' = TRUE
              \/ Emit(<<End>>) /\ UNCHANGED dead
  BY DEF FinalizeEmits, FinishAttempt, FailConfirmed, NoBranches, streamed, prefixVars

\* A step that leaves the stream of the sink alone, detaches or freezes it, or emits.
LEMMA StreamCases ==
    ASSUME IndInv, UNCHANGED spec, OnDelta \/ FinalizeEmits
    PROVE  \/ UNCHANGED streamed
           \/ UNCHANGED <<log, queue>> /\ Detach("failed")
           \/ \E ids \in Seq(Tokens \cup {0}) : Emit(ids) /\ ~finalized
           \/ Emit(<<End>>) /\ ~finalized /\ finalized'
<1>1. CASE FinalizeEmits
  BY <1>1, FinalizeCases DEF IndInv, PhaseInv
<1>2. CASE OnDelta
  <2> DEFINE e == Head(bus)
  <2>1. \/ DeltaSkips(e) \/ DeltaFails(e) \/ DeltaEnds(e) \/ DeltaBuffers(e) \/ DeltaEmits(e)
    BY <1>2, DeltaCases DEF IndInv
  <2>2. e \in Events
    BY <1>2, DeltaCases DEF IndInv
  <2> HIDE DEF e
  <2>3. ASSUME DeltaEmits(e) PROVE Confirms(e) \in Seq(Tokens \cup {0})
    <3>1. e.type = "text" => e.id \in Tokens
      BY <2>2 DEF Events
    <3>2. e.type = "accept" => branches[e.branch].items \in Seq(Tokens)
      BY <2>2 DEF Events, IndInv, TypeOK, BranchStates
    <3>3. CASE e.type = "text"
      BY <3>1, <3>3 DEF Confirms
    <3>4. CASE e.type = "accept"
      BY <3>2, <3>4 DEF Confirms
    <3>5. CASE e.type = "cancel"
      BY <3>5 DEF Confirms
    <3> QED
      BY <2>3, <3>3, <3>4, <3>5 DEF DeltaEmits
  <2> QED
    BY <2>1, <2>3 DEF DeltaSkips, DeltaFails, DeltaEnds, DeltaBuffers, DeltaEmits
<1> QED
  BY <1>1, <1>2

\* Only finalize, on its way to waiting, finalizes the stream.
LEMMA PhaseStep ==
    ASSUME IndInv, Next PROVE PhaseInv'
<1>1. CASE UNCHANGED <<finalized, phase>>
  BY <1>1 DEF IndInv, PhaseInv
<1>2. CASE EngineStep
  BY <1>2, EngineFrame DEF IndInv, PhaseInv, coordVars
<1>3. CASE FinishStep
  BY <1>3, FinalizeCases DEF FinishStep, OnRunRevise, Settle, FinalizeSleeps, FinalizeWakes,
     FinalizeTimesOut,
     FinishTurn, coordVars, IndInv, PhaseInv
<1>4. CASE SinkStep
  BY <1>1, <1>4 DEF SinkStep, Offer, CallReturns, CallFails, CallAbandoned, SinkDelivered,
     DetachOverrun,
     DetachAtEnd, SinkStops, engineVars, coordVars
<1> QED
  BY <1>1, <1>2, <1>3, <1>4 DEF Next, OnDelta, Interrupt, Ack, engineVars, coordVars

\* The coordinator signals whenever it passes an attempt.
LEMMA WakeupStep ==
    ASSUME IndInv, Next PROVE NoLostWakeup'
<1>1. CASE UNCHANGED <<phase, cAttempt, attempt, signal>>
  BY <1>1 DEF IndInv, NoLostWakeup
<1>2. CASE EngineStep
  BY <1>2, EngineFrame DEF IndInv, NoLostWakeup
<1>3. CASE FinishStep
  BY <1>3, FinalizeCases DEF FinishStep, OnRunRevise, Settle, FinalizeSleeps, FinalizeWakes,
     FinalizeTimesOut,
     FinishTurn, coordVars, IndInv, NoLostWakeup, TypeOK
<1>4. CASE SinkStep
  BY <1>1, <1>4 DEF SinkStep, Offer, CallReturns, CallFails, CallAbandoned, SinkDelivered,
     DetachOverrun,
     DetachAtEnd, SinkStops, engineVars, coordVars
<1>5. CASE OnDelta
  BY <1>5, DeltaCases DEF DeltaSkips, DeltaFails, DeltaEnds, DeltaBuffers, DeltaEmits,
     coordinated, engineVars,
     IndInv, NoLostWakeup
<1> QED
  BY <1>1, <1>2, <1>3, <1>4, <1>5 DEF Next, Interrupt, Ack, engineVars, coordVars

-----------------------------------------------------------------------------
\* An emission keeps the queue contiguous.
LEMMA EmitQueue ==
    ASSUME IndInv, NEW ids \in Seq(Entries), Emit(ids), UNCHANGED <<inCall, call, turnVars>>
    PROVE  QueueInv'
<1>1. /\ Len(log') = Len(log) + Len(ids) /\ Len(log) \in Nat /\ Len(ids) \in Nat
      /\ \A i \in DOMAIN queue' : queue'[i] = offered + i
      /\ offered + Len(queue') <= Len(log')
      /\ detached' = "no" => offered + Len(queue') = Len(log')
  <2>1. Len(log) \in Nat /\ Len(ids) \in Nat /\ TypeOK /\ QueueInv /\ TokenInv
    <3>1. log \in Seq(Entries)
      BY DEF IndInv, TypeOK, Entries
    <3> QED
      BY <3>1 DEF IndInv
  <2> QED
    BY <2>1, EmitEffect
<1> QED
  BY <1>1 DEF IndInv, QueueInv, turnVars

\* Every step keeps the queue contiguous with what was offered.
LEMMA QueueStep ==
    ASSUME IndInv, Next PROVE QueueInv'
<1>1. CASE UNCHANGED <<inCall, offered, queue, log, detached, call, delivered, acked>>
  BY <1>1 DEF IndInv, QueueInv
<1>2. CASE EngineStep
  BY <1>1, <1>2, EngineFrame DEF coordVars, sinkVars, turnVars
<1>3. ASSUME NEW reason \in Reasons \ {"no"}, Detach(reason), UNCHANGED <<log, queue, inCall, turnVars>>,
             call' = call \/ call' \in {"idle", "stopped"} \/ (call = "overrun" /\ call' = "ending")
      PROVE  QueueInv'
  BY <1>3, DetachEffect DEF IndInv, QueueInv, turnVars, Reasons
<1>4. ASSUME UNCHANGED <<log, queue, inCall, detached, turnVars>>,
             call' = call \/ call' \in {"idle", "stopped"} \/ (call = "calling" /\ call' = "returned")
      PROVE  QueueInv'
  BY <1>4 DEF IndInv, QueueInv, turnVars
<1>5. CASE FinishStep
  <2>1. CASE OnRunRevise
    BY <2>1 DEF OnRunRevise, IndInv, QueueInv, coordVars, sinkVars
  <2>2. CASE Settle
    BY <2>2, <1>3, <1>4 DEF Settle, coordVars, sinkVars, Reasons
  <2>3. CASE FinalizeSleeps \/ FinalizeWakes \/ FinishTurn
    BY <2>3, <1>4 DEF FinalizeSleeps, FinalizeWakes, FinishTurn, coordVars, sinkVars
  <2>4. CASE FinalizeTimesOut
    BY <2>4, <1>3 DEF FinalizeTimesOut, coordVars, sinkVars, Reasons
  <2>5. CASE FinalizeEmits
    <3>1. <<End>> \in Seq(Entries)
      BY DEF Entries
    <3> QED
      BY <2>5, <3>1, <1>3, <1>4, FinalizeCases, EmitQueue DEF streamed, Reasons, IndInv
  <2> QED
    BY <1>5, <2>1, <2>2, <2>3, <2>4, <2>5 DEF FinishStep
<1>6. CASE OnDelta
  <2>1. UNCHANGED <<spec, inCall, call, turnVars>>
    BY <1>6, DeltaCases DEF IndInv
  <2>2. \A ids \in Seq(Tokens \cup {0}) : ids \in Seq(Entries)
    BY DEF Entries
  <2>3. <<End>> \in Seq(Entries)
    BY DEF Entries
  <2> QED
    BY <1>6, <2>1, <2>2, <2>3, <1>3, <1>4, StreamCases, EmitQueue DEF streamed, Reasons
<1>7. CASE SinkStep
  <2>1. CASE Offer
    <3>1. /\ queue # <<>> /\ queue' = Tail(queue) /\ inCall' = Head(queue) /\ offered' = Head(queue)
          /\ UNCHANGED <<log, detached, delivered, acked>>
      BY <2>1 DEF Offer, coordVars
    <3>2. /\ Len(queue) \in Nat /\ Len(queue) > 0 /\ DOMAIN queue = 1..Len(queue)
          /\ queue' \in Seq(1..Len(log)) /\ Len(queue') = Len(queue) - 1
          /\ Head(queue) = queue[1] /\ \A i \in 1..(Len(queue) - 1) : queue'[i] = queue[i + 1]
      BY <3>1 DEF IndInv, TypeOK
    <3>3. offered \in Nat /\ Len(log) \in Nat /\ delivered \in Nat /\ acked \in Nat
      BY DEF IndInv, TypeOK
    <3>4. \A i \in 1..Len(queue) : queue[i] = offered + i
      BY <3>2 DEF IndInv, QueueInv
    <3>5. offered' = offered + 1
      BY <3>1, <3>2, <3>3, <3>4
    <3>6. ASSUME NEW i \in 1..(Len(queue) - 1) PROVE queue'[i] = offered' + i
      <4>1. i + 1 \in 1..Len(queue)
        BY <3>2
      <4> QED
        BY <4>1, <3>2, <3>3, <3>4, <3>5
    <3>7. DOMAIN queue' = 1..(Len(queue) - 1)
      BY <3>2
    <3>8. inCall' = offered'
      BY <3>1
    <3> QED
      BY <3>1, <3>2, <3>3, <3>5, <3>6, <3>7, <3>8, SMTT(30) DEF IndInv, QueueInv
  <2>2. CASE CallReturns \/ CallAbandoned \/ SinkStops
    BY <2>2, <1>4 DEF CallReturns, CallAbandoned, SinkStops, coordVars
  <2>3. CASE CallFails \/ DetachOverrun
    BY <2>3, <1>3 DEF CallFails, DetachOverrun, coordVars, Reasons
  <2>4. CASE DetachAtEnd
    BY <2>4, <1>3 DEF DetachAtEnd, coordVars, Reasons
  <2>5. CASE SinkDelivered
    BY <2>5 DEF SinkDelivered, AdvanceAck, IndInv, TypeOK, QueueInv, coordVars
  <2> QED
    BY <1>7, <2>1, <2>2, <2>3, <2>4, <2>5 DEF SinkStep
<1>8. CASE Interrupt
  BY <1>1, <1>8 DEF Interrupt, coordVars, sinkVars
<1>9. ASSUME NEW c \in 1..Len(log), Ack(c) PROVE QueueInv'
  BY <1>9 DEF Ack, AdvanceAck, IndInv, QueueInv, coordVars, sinkVars
<1> QED
  BY <1>2, <1>5, <1>6, <1>7, <1>8, <1>9 DEF Next

-----------------------------------------------------------------------------
\* What OnDelta emits are texts and controls; what finalize emits is the end.
LEMMA EntryTypes ==
    /\ \A ids \in Seq(Tokens \cup {0}) : /\ ids \in Seq(Entries)
                                         /\ \A i \in 1..Len(ids) : ids[i] \in Nat /\ ids[i] # End
    /\ <<End>> \in Seq(Entries) /\ Len(<<End>>) = 1 /\ <<End>>[1] = End /\ ~(End > 0)
  BY DEF Entries, Tokens, End

\* Every cursor is one of the log.
LEMMA CursorTypes ==
    ASSUME IndInv
    PROVE  /\ Len(log) \in Nat /\ Len(queue) \in Nat /\ offered \in Nat /\ acked \in Nat /\ delivered \in Nat
           /\ inCall = offered /\ offered + Len(queue) <= Len(log) /\ offered <= Len(log)
           /\ acked <= offered /\ delivered <= offered
<1>1. Len(log) \in Nat /\ Len(queue) \in Nat /\ offered \in Nat /\ acked \in Nat /\ delivered \in Nat
  BY DEF IndInv, TypeOK
<1> QED
  BY <1>1 DEF IndInv, QueueInv

\* Nothing is emitted after the end, and a sink is detached as ended only there.
LEMMA EndStep ==
    ASSUME IndInv, Next PROVE EndInv'
<1>0. call = "ending" => /\ offered \in 1..Len(log) /\ log[offered] = End
                         /\ finalized /\ offered = Len(log)
  <2> SUFFICES ASSUME call = "ending" PROVE offered \in 1..Len(log) /\ log[offered] = End
    BY DEF IndInv, EndInv
  <2>1. offered > 0 /\ log[offered] = End
    BY DEF IndInv, EndInv, QueueInv
  <2> QED
    BY <2>1, CursorTypes
<1>1. CASE UNCHANGED <<log, finalized, call, offered, detached>>
  BY <1>1 DEF IndInv, EndInv
<1>2. CASE EngineStep
  BY <1>1, <1>2, EngineFrame DEF coordVars, sinkVars, turnVars
<1>3. ASSUME NEW reason \in Reasons \ {"no", "end"}, Detach(reason),
             UNCHANGED <<log, offered>>, finalized' = finalized \/ (finalized' /\ ~finalized),
             call' = call \/ call' = "stopped"
                \/ (call = "overrun" /\ (call' = "idle" \/ (call' = "ending" /\ log[offered] = End)))
      PROVE  EndInv'
  <2>1. detached' = "end" <=> detached = "end"
    BY <1>3, DetachEffect DEF IndInv
  <2> QED
    BY <1>3, <2>1 DEF IndInv, EndInv
<1>4. ASSUME UNCHANGED <<log, offered, detached>>, finalized' = finalized \/ (finalized' /\ ~finalized),
             call' = call \/ call' = "stopped" \/ (call # "stopped" /\ call' \notin {"stopped", "ending"})
      PROVE  EndInv'
  BY <1>4 DEF IndInv, EndInv
<1>5. ASSUME NEW ids \in Seq(Tokens \cup {0}), Emit(ids), ~finalized,
             UNCHANGED <<finalized, inCall, call, turnVars>>
      PROVE  EndInv'
  <2>1. ids \in Seq(Entries) /\ \A i \in 1..Len(ids) : ids[i] # End
    BY EntryTypes
  <2>2. /\ \A c \in 1..Len(log) : log'[c] = log[c]
        /\ \A i \in 1..Len(ids) : log'[Len(log) + i] = ids[i]
        /\ Len(log') = Len(log) + Len(ids) /\ detached' \in {detached, "full"}
    BY <1>5, <2>1, EmitEffect DEF IndInv
  <2>3. ASSUME NEW c \in 1..Len(log') PROVE log'[c] # End
    <3>1. CASE c <= Len(log)
      BY <3>1, <2>2, <1>5, CursorTypes DEF IndInv, EndInv
    <3>2. CASE c > Len(log)
      <4>1. c - Len(log) \in 1..Len(ids) /\ c = Len(log) + (c - Len(log))
        BY <3>2, <2>2, CursorTypes
      <4> QED
        BY <4>1, <2>1, <2>2
    <3> QED
      BY <3>1, <3>2, <2>2, CursorTypes
  <2>4. call' # "ending" /\ detached' # "end"
    BY <1>5, <1>0, <2>2 DEF IndInv, EndInv
  <2> QED
    BY <2>3, <2>4 DEF EndInv
<1>6. ASSUME Emit(<<End>>), ~finalized, finalized', UNCHANGED <<inCall, call, turnVars>>
      PROVE  EndInv'
  <2>1. /\ \A c \in 1..Len(log) : log'[c] = log[c]
        /\ Len(log') = Len(log) + 1 /\ detached' \in {detached, "full"}
    BY <1>6, EntryTypes, EmitEffect DEF IndInv
  <2>2. ASSUME NEW c \in 1..Len(log'), log'[c] = End PROVE c = Len(log')
    BY <2>1, <2>2, <1>6, CursorTypes DEF IndInv, EndInv
  <2>3. call' # "ending" /\ detached' # "end"
    BY <1>6, <1>0, <2>1 DEF IndInv, EndInv
  <2> QED
    BY <2>2, <2>3, <1>6 DEF EndInv
<1>7. CASE FinishStep
  <2>1. CASE OnRunRevise \/ FinalizeSleeps \/ FinalizeWakes \/ FinishTurn
    BY <2>1, <1>1 DEF OnRunRevise, FinalizeSleeps, FinalizeWakes, FinishTurn, coordVars,
       sinkVars, turnVars
  <2>2. CASE Settle
    BY <2>2, <1>1, <1>3 DEF Settle, coordVars, sinkVars, turnVars, Reasons
  <2>4. CASE FinalizeTimesOut
    BY <2>4, <1>3 DEF FinalizeTimesOut, coordVars, sinkVars, turnVars, Reasons
  <2>5. CASE FinalizeEmits
    <3>1. ~finalized
      BY <2>5, FinalizeCases DEF IndInv, PhaseInv
    <3> QED
      BY <2>5, <3>1, <1>3, <1>4, <1>6, FinalizeCases DEF streamed, Reasons, IndInv, turnVars
  <2> QED
    BY <1>7, <2>1, <2>2, <2>4, <2>5 DEF FinishStep
<1>8. CASE OnDelta
  <2>1. UNCHANGED <<finalized, spec, inCall, call, turnVars>>
    BY <1>8, DeltaCases DEF IndInv
  <2> QED
    <3>1. CASE UNCHANGED streamed
      BY <3>1, <2>1, <1>4 DEF streamed, turnVars
    <3>2. CASE UNCHANGED <<log, queue>> /\ Detach("failed")
      BY <3>2, <2>1, <1>3 DEF turnVars, Reasons
    <3>3. ASSUME NEW ids \in Seq(Tokens \cup {0}), Emit(ids), ~finalized PROVE EndInv'
      BY <3>3, <2>1, <1>5
    <3> QED
      BY <1>8, <2>1, <3>1, <3>2, <3>3, StreamCases
<1>9. CASE SinkStep
  <2>1. CASE Offer
    BY <2>1 DEF Offer, coordVars, IndInv, EndInv
  <2>2. CASE CallReturns \/ CallAbandoned \/ SinkStops
    BY <2>2, <1>4 DEF CallReturns, CallAbandoned, SinkStops, coordVars, turnVars
  <2>3. CASE CallFails \/ DetachOverrun
    BY <2>3, <1>3, CursorTypes DEF CallFails, DetachOverrun, coordVars, turnVars, Reasons,
       Ending
  <2>4. CASE DetachAtEnd
    BY <2>4, <1>0, DetachEffect DEF DetachAtEnd, coordVars, turnVars, Reasons, IndInv, EndInv
  <2>5. CASE SinkDelivered
    BY <2>5, CursorTypes DEF SinkDelivered, IndInv, EndInv, coordVars, Ending
  <2> QED
    BY <1>9, <2>1, <2>2, <2>3, <2>4, <2>5 DEF SinkStep
<1>10. CASE Interrupt
  BY <1>1, <1>10 DEF Interrupt, coordVars, sinkVars
<1>11. ASSUME NEW c \in 1..Len(log), Ack(c) PROVE EndInv'
  BY <1>1, <1>11 DEF Ack, coordVars, sinkVars
<1> QED
  BY <1>2, <1>7, <1>8, <1>9, <1>10, <1>11 DEF Next

-----------------------------------------------------------------------------
\* No token of an attempt is recorded before the attempt begins.
LEMMA AttemptTokens ==
    ASSUME TypeOK PROVE {r \in tokens : r[2] = attempt + 1} = {}
  BY DEF TypeOK

\* Every step keeps the recorded tokens unacknowledged and within reach of the sink.
LEMMA TokenStep ==
    ASSUME IndInv, Next PROVE TokenInv'
<1>1. CASE UNCHANGED <<frozen, tokens, log, acked, attempt, detached, offered, queue>>
  BY <1>1 DEF IndInv, TokenInv, Waiting
<1>2. CASE EngineStep
  BY <1>1, <1>2, EngineFrame DEF coordVars, sinkVars, turnVars, prefixVars
<1>3. ASSUME NEW reason \in Reasons \ {"no"}, Detach(reason),
             UNCHANGED <<log, queue, offered, acked, attempt>>
      PROVE  TokenInv'
  BY <1>1, <1>3, DetachEffect, NoneWaiting DEF IndInv, TokenInv
<1>4. ASSUME Freeze, UNCHANGED <<log, queue, detached, offered, acked, attempt>>
      PROVE  TokenInv'
  BY <1>4, FreezeEffect, NoneWaiting DEF IndInv, TokenInv
<1>5. ASSUME NEW ids \in Seq(Entries), Emit(ids), UNCHANGED <<turnVars, attempt>>
      PROVE  TokenInv'
  <2>1. CASE tokens' = {}
    BY <2>1, NoneWaiting DEF TokenInv
  <2>2. CASE tokens' # {}
    <3>1. /\ \A c \in 1..Len(log) : log'[c] = log[c]
          /\ \A i \in 1..Len(ids) : log'[Len(log) + i] = ids[i]
          /\ UNCHANGED <<detached, frozen>> /\ tokens' = tokens \cup Recorded(ids)
          /\ detached # "no" => queue' = queue
      BY <1>5, <2>2, EmitEffect DEF IndInv
    <3>2. \A c \in Waiting' : c \in Waiting \/ \E i \in 1..Len(ids) : c = Len(log) + i /\ ids[i] > 0
      BY <1>5, <3>1, EmitWaits DEF IndInv
    <3>3. ~frozen
      BY <2>2, <3>1, RecordedEffect DEF IndInv, TokenInv
    <3>4. ASSUME NEW c \in Waiting'
          PROVE  c > acked /\ log'[c] > 0 /\ (detached # "no" => c > offered + Len(queue))
      <4>1. CASE c \in Waiting
        BY <4>1, <3>1 DEF IndInv, TokenInv, Waiting
      <4>2. ASSUME NEW i \in 1..Len(ids), c = Len(log) + i, ids[i] > 0
            PROVE  c > acked /\ log'[c] > 0 /\ (detached # "no" => c > offered + Len(queue))
        BY <4>2, <3>1, CursorTypes
      <4> QED
        BY <3>2, <4>1, <4>2
    <3> QED
      BY <3>1, <3>3, <3>4, <1>5 DEF TokenInv, turnVars
  <2> QED
    BY <2>1, <2>2
<1>6. ASSUME NEW cursor \in 1..Len(log), AdvanceAck(cursor), ~frozen,
             UNCHANGED <<frozen, log, queue, detached, offered, attempt>>
      PROVE  TokenInv'
  <2>1. CASE cursor > acked
    BY <2>1, <1>6, AdvanceEffect, WaitingFinite, CursorTypes DEF IndInv, TokenInv, Upto
  <2>2. CASE ~(cursor > acked)
    BY <1>1, <1>6, <2>2 DEF AdvanceAck
  <2> QED
    BY <2>1, <2>2
<1>7. CASE FinishStep
  <2>1. CASE FinalizeSleeps \/ FinalizeWakes \/ FinishTurn
    BY <2>1, <1>1 DEF FinalizeSleeps, FinalizeWakes, FinishTurn, coordVars, sinkVars,
       turnVars, prefixVars
  <2>2. CASE Settle
    BY <2>2, <1>1, <1>3, <1>4 DEF Settle, coordVars, sinkVars, turnVars, prefixVars, Reasons
  <2>3. CASE OnRunRevise
    <3>1. tokens' = {}
      BY <2>3, AttemptTokens DEF OnRunRevise, IndInv
    <3> QED
      BY <3>1, NoneWaiting DEF TokenInv
  <2>4. CASE FinalizeTimesOut
    BY <2>4, <1>3 DEF FinalizeTimesOut, coordVars, sinkVars, turnVars, Reasons
  <2>5. CASE FinalizeEmits
    BY <2>5, <1>1, <1>3, <1>5, EntryTypes, FinalizeCases DEF streamed, Reasons, IndInv, turnVars
  <2> QED
    BY <1>7, <2>1, <2>2, <2>3, <2>4, <2>5 DEF FinishStep
<1>8. CASE OnDelta
  <2>1. UNCHANGED <<spec, turnVars, attempt>>
    BY <1>8, DeltaCases DEF IndInv, engineVars
  <2>2. CASE UNCHANGED streamed
    BY <2>1, <2>2, <1>1 DEF streamed, turnVars
  <2>3. CASE UNCHANGED <<log, queue>> /\ Detach("failed")
    BY <2>1, <2>3, <1>3 DEF turnVars, Reasons
  <2>4. ASSUME NEW ids \in Seq(Tokens \cup {0}), Emit(ids) PROVE TokenInv'
    BY <2>1, <2>4, <1>5, EntryTypes
  <2>5. CASE Emit(<<End>>)
    BY <2>1, <2>5, <1>5, EntryTypes
  <2> QED
    BY <1>8, <2>1, <2>2, <2>3, <2>4, <2>5, StreamCases
<1>9. CASE SinkStep
  <2>1. CASE Offer
    <3>1. Len(queue') = Len(queue) - 1 /\ offered' = offered + 1
          /\ UNCHANGED <<frozen, tokens, log, acked, attempt, detached>>
      <4>1. queue # <<>> /\ queue' = Tail(queue) /\ offered' = Head(queue)
            /\ UNCHANGED <<frozen, tokens, log, acked, attempt, detached>>
        BY <2>1 DEF Offer, coordVars, engineVars, prefixVars
      <4>2. 1 \in DOMAIN queue /\ Head(queue) = queue[1] /\ Len(Tail(queue)) = Len(queue) - 1
        BY <4>1 DEF IndInv, TypeOK
      <4> QED
        BY <4>1, <4>2 DEF IndInv, QueueInv
    <3>2. offered' + Len(queue') = offered + Len(queue)
      BY <3>1, CursorTypes
    <3>3. Waiting' = Waiting
      BY <3>1 DEF Waiting
    <3> QED
      BY <3>1, <3>2, <3>3 DEF IndInv, TokenInv
  <2>2. CASE CallReturns \/ CallAbandoned \/ SinkStops
    BY <2>2, <1>1 DEF CallReturns, CallAbandoned, SinkStops, coordVars, engineVars, turnVars,
       prefixVars
  <2>3. CASE CallFails \/ DetachOverrun \/ DetachAtEnd
    BY <2>3, <1>3 DEF CallFails, DetachOverrun, DetachAtEnd, coordVars, engineVars, turnVars,
       Reasons
  <2>5. CASE SinkDelivered
    <3>1. inCall \in 1..Len(log)
      BY <2>5, CursorTypes DEF SinkDelivered, IndInv, QueueInv
    <3>2. CASE spec.explicit \/ frozen
      BY <3>2, <2>5, <1>1 DEF SinkDelivered, coordVars, engineVars
    <3>3. CASE ~(spec.explicit \/ frozen)
      BY <3>1, <3>3, <2>5, <1>6 DEF SinkDelivered, coordVars, engineVars
    <3> QED
      BY <3>2, <3>3
  <2> QED
    BY <1>9, <2>1, <2>2, <2>3, <2>5 DEF SinkStep
<1>10. CASE Interrupt
  BY <1>4, <1>10 DEF Interrupt, coordVars, sinkVars, engineVars
<1>11. ASSUME NEW c \in 1..Len(log), Ack(c) PROVE TokenInv'
  BY <1>6, <1>11 DEF Ack, coordVars, sinkVars, engineVars
<1> QED
  BY <1>2, <1>7, <1>8, <1>9, <1>10, <1>11 DEF Next

-----------------------------------------------------------------------------
\* Every step that acknowledges acknowledges what the client has taken.
LEMMA TakenStep ==
    ASSUME IndInv, Next PROVE TakenInv'
<1>0. /\ \A i \in DOMAIN ackedPrefix : ackedPrefix[i] \in heard
      /\ \A i \in DOMAIN frozenPrefix : frozenPrefix[i] \in heard
      /\ ~spec.explicit => \A c \in Waiting : c <= Returned => log[c] \in heard
      /\ Returned \in Int /\ Returned <= offered
      /\ detached # "no" => \A c \in Waiting : c > offered
  <2>1. \A c \in Waiting : c \in Nat
    BY WaitingFinite DEF IndInv
  <2> QED
    BY <2>1, CursorTypes DEF IndInv, TakenInv, Returned, TokenInv
<1>1. CASE UNCHANGED <<ackedPrefix, frozenPrefix, heard, spec, tokens, log, attempt, call, offered>>
  BY <1>1 DEF IndInv, TakenInv, Waiting, Returned
<1>2. CASE EngineStep
  BY <1>1, <1>2, EngineFrame DEF coordVars, sinkVars, turnVars, prefixVars
<1>3. ASSUME NEW reason \in Reasons \ {"no"}, Detach(reason),
             UNCHANGED <<log, offered, attempt, heard, spec>>
      PROVE  TakenInv'
  <2>1. CASE detached # "no" /\ UNCHANGED <<tokens, ackedPrefix, frozenPrefix>>
    <3>1. Waiting' = Waiting /\ Returned' <= offered /\ Returned' \in Int
      BY <2>1, <1>3, CursorTypes DEF Waiting, Returned
    <3>2. \A c \in Waiting : ~(c <= Returned')
      <4>1. \A c \in Waiting : c \in Nat /\ c > offered
        BY <1>0, <2>1, WaitingFinite DEF IndInv
      <4> QED
        BY <4>1, <3>1, CursorTypes
    <3> QED
      BY <2>1, <3>1, <3>2, <1>0, <1>3 DEF TakenInv
  <2>2. CASE tokens' = {} /\ ackedPrefix' = ackedPrefix /\ frozenPrefix' \in {frozenPrefix, ackedPrefix}
    BY <2>2, <1>0, <1>3, NoneWaiting DEF TakenInv
  <2> QED
    BY <2>1, <2>2, <1>3, DetachEffect DEF IndInv
<1>4. ASSUME Freeze, UNCHANGED heard PROVE TakenInv'
  <2>1. tokens' = {} /\ ackedPrefix' = ackedPrefix /\ frozenPrefix' \in {frozenPrefix, ackedPrefix}
    BY <1>4, FreezeEffect DEF IndInv
  <2> QED
    BY <2>1, <1>0, <1>4, NoneWaiting DEF TakenInv
<1>5. ASSUME NEW ids \in Seq(Entries), Emit(ids), UNCHANGED <<turnVars, attempt, call, heard, spec>>
      PROVE  TakenInv'
  <2>1. CASE tokens' = {}
    <3>1. ackedPrefix' = ackedPrefix /\ frozenPrefix' \in {frozenPrefix, ackedPrefix}
      BY <1>5, EmitEffect DEF IndInv
    <3> QED
      BY <2>1, <3>1, <1>0, <1>5, NoneWaiting DEF TakenInv
  <2>2. CASE tokens' # {}
    <3>1. /\ \A c \in 1..Len(log) : log'[c] = log[c]
          /\ UNCHANGED <<ackedPrefix, frozenPrefix>> /\ tokens' = tokens \cup Recorded(ids)
      BY <1>5, <2>2, EmitEffect DEF IndInv
    <3>2. \A c \in Waiting' : c \in Waiting \/ \E i \in 1..Len(ids) : c = Len(log) + i /\ ids[i] > 0
      BY <1>5, <3>1, EmitWaits DEF IndInv
    <3>3. Returned' = Returned
      BY <1>5 DEF Returned, turnVars
    <3>4. ASSUME NEW c \in Waiting', c <= Returned PROVE c \in Waiting /\ log'[c] = log[c]
      <4>1. CASE c \in Waiting
        BY <4>1, <3>1 DEF Waiting
      <4>2. ASSUME NEW i \in 1..Len(ids), c = Len(log) + i PROVE FALSE
        BY <4>2, <3>4, <1>0, CursorTypes
      <4> QED
        BY <3>2, <4>1, <4>2
    <3> QED
      BY <3>1, <3>3, <3>4, <1>0, <1>5 DEF TakenInv
  <2> QED
    BY <2>1, <2>2
<1>6. ASSUME NEW cursor \in 1..Len(log), AdvanceAck(cursor), cursor > acked,
             UNCHANGED <<frozenPrefix, log, attempt, offered, spec>>,
             \A c \in Upto(Waiting, cursor) : log[c] \in heard', heard \subseteq heard',
             Returned' = Returned
      PROVE  TakenInv'
  <2> DEFINE A == Upto(Waiting, cursor)
             g == Gained(cursor)
  <2>1. ackedPrefix' = ackedPrefix \o g /\ Waiting' = Waiting \ A
    BY <1>6, AdvanceEffect DEF IndInv
  <2>2. g \in Seq(Tokens) /\ \A i \in 1..Len(g) : \E c \in A : g[i] = log[c]
    BY <1>6, GainedEffect DEF IndInv
  <2>3. \A i \in 1..Len(g) : g[i] \in heard'
    BY <2>2, <1>6
  <2> HIDE DEF g
  <2>4. ackedPrefix \in Seq(heard') /\ g \in Seq(heard')
    <3>1. ackedPrefix \in Seq(Tokens) /\ \A i \in 1..Len(ackedPrefix) : ackedPrefix[i] \in heard'
      BY <1>0, <1>6 DEF IndInv, TypeOK
    <3>2. ASSUME NEW s \in Seq(Tokens), NEW S, \A i \in 1..Len(s) : s[i] \in S PROVE s \in Seq(S)
      BY <3>2
    <3> QED
      BY <2>2, <2>3, <3>1, <3>2
  <2>5. ackedPrefix' \in Seq(heard')
    BY <2>1, <2>4
  <2>6. \A i \in DOMAIN ackedPrefix' : ackedPrefix'[i] \in heard'
    BY <2>5
  <2> QED
    BY <2>1, <2>6, <1>0, <1>6 DEF TakenInv
<1>7. CASE FinishStep
  <2>1. CASE FinalizeSleeps \/ FinalizeWakes \/ FinishTurn
    BY <2>1, <1>1, <1>7 DEF FinishStep, FinalizeSleeps, FinalizeWakes, FinishTurn, coordVars,
       sinkVars,
       turnVars, prefixVars
  <2>2. CASE Settle
    BY <2>2, <1>1, <1>3, <1>4, <1>7 DEF FinishStep, Settle, coordVars, sinkVars, turnVars,
       prefixVars, Reasons
  <2>3. CASE OnRunRevise
    <3>1. tokens' = {} /\ ackedPrefix' = <<>> /\ frozenPrefix' = <<>>
      BY <2>3, AttemptTokens DEF OnRunRevise, IndInv
    <3> QED
      BY <3>1, NoneWaiting DEF TakenInv
  <2>4. CASE FinalizeTimesOut
    BY <2>4, <1>3, <1>7 DEF FinishStep, FinalizeTimesOut, coordVars, sinkVars, turnVars, Reasons
  <2>5. CASE FinalizeEmits
    BY <2>5, <1>1, <1>3, <1>5, <1>7, EntryTypes, FinalizeCases
       DEF FinishStep, streamed, Reasons, IndInv, turnVars
  <2> QED
    BY <1>7, <2>1, <2>2, <2>3, <2>4, <2>5 DEF FinishStep
<1>8. CASE OnDelta
  <2>1. UNCHANGED <<spec, turnVars, attempt, call, heard>>
    BY <1>8, DeltaCases DEF IndInv, engineVars
  <2>2. CASE UNCHANGED streamed
    BY <2>1, <2>2, <1>1 DEF streamed, turnVars
  <2>3. CASE UNCHANGED <<log, queue>> /\ Detach("failed")
    BY <2>1, <2>3, <1>3 DEF turnVars, Reasons
  <2>4. ASSUME NEW ids \in Seq(Tokens \cup {0}), Emit(ids) PROVE TakenInv'
    BY <2>1, <2>4, <1>5, EntryTypes
  <2>5. CASE Emit(<<End>>)
    BY <2>1, <2>5, <1>5, EntryTypes
  <2> QED
    BY <1>8, <2>1, <2>2, <2>3, <2>4, <2>5, StreamCases
<1>9. CASE SinkStep
  <2>0. UNCHANGED spec
    BY <1>9 DEF SinkStep
  <2>1. CASE Offer
    <3>1. /\ call = "idle" /\ call' = "calling" /\ queue # <<>> /\ offered' = Head(queue)
          /\ UNCHANGED <<frozenPrefix, ackedPrefix, tokens, log, attempt, heard>>
      BY <2>1 DEF Offer, coordVars, engineVars, prefixVars
    <3>2. 1 \in DOMAIN queue /\ Head(queue) = queue[1]
      BY <3>1 DEF IndInv, TypeOK
    <3>3. offered' = offered + 1
      BY <3>1, <3>2 DEF IndInv, QueueInv
    <3>4. Waiting' = Waiting /\ Returned' = Returned
      BY <3>1, <3>3, CursorTypes DEF Waiting, Returned
    <3> QED
      BY <3>1, <3>4, <2>0, <1>0 DEF TakenInv
  <2>2. CASE CallReturns
    <3>1. /\ call = "calling" /\ call' = "returned"
          /\ heard' = IF spec.explicit THEN heard ELSE heard \cup {log[offered]}
          /\ UNCHANGED <<frozenPrefix, ackedPrefix, tokens, log, attempt, offered>>
      BY <2>2, CursorTypes DEF CallReturns, coordVars, engineVars, prefixVars, turnVars
    <3>2. Waiting' = Waiting /\ Returned' = offered /\ Returned = offered - 1
      BY <3>1 DEF Waiting, Returned
    <3>3. \A c \in Waiting : c \in Nat
      BY WaitingFinite DEF IndInv
    <3>4. ASSUME NEW c \in Waiting, c <= offered PROVE c <= Returned \/ c = offered
      BY <3>2, <3>3, <3>4, CursorTypes
    <3> QED
      BY <3>1, <3>2, <3>4, <2>0, <1>0 DEF TakenInv
  <2>3. CASE CallAbandoned \/ SinkStops
    <3>1. /\ detached # "no"
          /\ UNCHANGED <<frozenPrefix, ackedPrefix, tokens, log, attempt, offered, heard>>
      BY <2>3 DEF CallAbandoned, SinkStops, coordVars, engineVars, prefixVars, turnVars
    <3>2. Waiting' = Waiting /\ Returned' <= offered /\ Returned' \in Int
      BY <3>1, CursorTypes DEF Waiting, Returned
    <3>3. \A c \in Waiting : ~(c <= Returned')
      <4>1. \A c \in Waiting : c \in Nat /\ c > offered
        BY <1>0, <3>1, WaitingFinite DEF IndInv
      <4> QED
        BY <4>1, <3>2, CursorTypes
    <3> QED
      BY <3>1, <3>2, <3>3, <1>0, <2>0 DEF TakenInv
  <2>4. CASE CallFails \/ DetachOverrun \/ DetachAtEnd
    BY <2>0, <2>4, <1>3 DEF CallFails, DetachOverrun, DetachAtEnd, coordVars, engineVars,
       turnVars, Reasons
  <2>5. CASE SinkDelivered
    <3>1. inCall \in 1..Len(log) /\ Returned = offered /\ inCall = offered
      BY <2>5, CursorTypes DEF SinkDelivered, IndInv, QueueInv, Returned
    <3>2. Returned' = Returned
      BY <3>1, <2>5 DEF SinkDelivered, Returned
    <3>3. UNCHANGED <<heard, frozenPrefix, log, attempt, offered>>
      BY <2>5 DEF SinkDelivered, coordVars, engineVars
    <3>4. CASE UNCHANGED <<acked, ackedPrefix, tokens>>
      <4>1. Waiting' = Waiting
        BY <3>3, <3>4 DEF Waiting
      <4> QED
        BY <4>1, <3>2, <3>3, <3>4, <2>0, <1>0 DEF TakenInv
    <3>5. CASE ~spec.explicit /\ AdvanceAck(inCall) /\ inCall > acked
      <4>1. \A c \in Upto(Waiting, inCall) : log[c] \in heard
        BY <3>1, <3>5, <1>0 DEF Upto
      <4> QED
        BY <4>1, <3>1, <3>2, <3>3, <3>5, <2>0, <1>6
    <3> QED
      BY <3>4, <3>5, <2>5 DEF SinkDelivered, AdvanceAck
  <2> QED
    BY <1>9, <2>1, <2>2, <2>3, <2>4, <2>5 DEF SinkStep
<1>10. CASE Interrupt
  BY <1>4, <1>10 DEF Interrupt
<1>11. ASSUME NEW c \in 1..Len(log), Ack(c) PROVE TakenInv'
  <2>1. /\ AdvanceAck(c) /\ c > acked /\ UNCHANGED <<frozenPrefix, log, attempt, offered, spec, call>>
        /\ heard' = heard \cup {log[d] : d \in 1..c}
    BY <1>11 DEF Ack, coordVars, sinkVars, engineVars
  <2>2. Returned' = Returned
    BY <2>1 DEF Returned
  <2>3. \A d \in Upto(Waiting, c) : log[d] \in heard'
    <3>1. \A d \in Upto(Waiting, c) : d \in 1..c
      BY WaitingFinite DEF IndInv, Upto
    <3> QED
      BY <2>1, <3>1
  <2> QED
    BY <2>1, <2>2, <2>3, <1>6
<1> QED
  BY <1>2, <1>7, <1>8, <1>9, <1>10, <1>11 DEF Next

-----------------------------------------------------------------------------
\* Every step keeps the buffered events finite and within maxEvents.
LEMMA BufferStep ==
    ASSUME IndInv, Next PROVE BufferInv' /\ Pending' <= MaxEvents
<1>0. IsFiniteSet(Buffered) /\ Pending \in Nat /\ Pending <= MaxEvents /\ MaxEvents \in Nat
  BY StreamAssumption, FS_CardinalityType DEF IndInv, BufferInv, TypeOK, Pending
<1>1. ASSUME branches' = branches PROVE BufferInv' /\ Pending' <= MaxEvents
  <2>1. Buffered' = Buffered
    BY <1>1 DEF Buffered
  <2> QED
    BY <2>1, <1>0, <1>1 DEF BufferInv, IndInv, Pending
<1>2. ASSUME Buffered' \subseteq Buffered PROVE IsFiniteSet(Buffered') /\ Pending' <= MaxEvents
  <2>1. IsFiniteSet(Buffered') /\ Cardinality(Buffered') <= Cardinality(Buffered)
    BY <1>0, <1>2, FS_Subset
  <2>2. Pending' \in Nat
    BY <2>1, FS_CardinalityType DEF Pending
  <2> QED
    BY <2>1, <2>2, <1>0 DEF Pending
<1>3. ASSUME branches' = NoBranches PROVE BufferInv' /\ Pending' <= MaxEvents
  <2>1. Buffered' \subseteq Buffered
    BY <1>3 DEF NoBranches, NoBranch, Buffered
  <2> QED
    BY <2>1, <1>2, <1>3 DEF BufferInv, NoBranches, NoBranch
<1>4. CASE OnDelta
  <2> DEFINE e == Head(bus)
  <2>1. \/ DeltaSkips(e) \/ DeltaFails(e) \/ DeltaEnds(e) \/ DeltaBuffers(e) \/ DeltaEmits(e)
    BY <1>4, DeltaCases DEF IndInv
  <2>2. e \in Events
    BY <1>4, DeltaCases DEF IndInv
  <2> HIDE DEF e
  <2>3. CASE DeltaSkips(e)
    BY <2>3, <1>1 DEF DeltaSkips, coordinated
  <2>4. CASE DeltaFails(e) \/ DeltaEnds(e)
    BY <2>4, <1>3 DEF DeltaFails, DeltaEnds
  <2>5. CASE DeltaBuffers(e)
    <3>1. e.branch \in Branches /\ e.id \in Tokens
      BY <2>2, <2>5 DEF Events, DeltaBuffers
    <3> DEFINE b == e.branch
               n == Len(branches[b].items)
    <3>2. /\ branches \in [Branches -> BranchStates] /\ branches[b].items \in Seq(Tokens) /\ n \in Nat
          /\ branches' = [branches EXCEPT ![b] = [state |-> "open", items |-> Append(branches[b].items, e.id)]]
      BY <2>5, <3>1, SMTT(30) DEF DeltaBuffers, IndInv, TypeOK, BranchStates
    <3> HIDE DEF b, n
    <3>3. DOMAIN branches[b].items = 1..n /\ DOMAIN Append(branches[b].items, e.id) = 1..(n + 1)
      BY <3>1, <3>2 DEF n
    <3>4. \A d \in Branches : DOMAIN branches'[d].items = IF d = b THEN 1..(n + 1) ELSE DOMAIN branches[d].items
      BY <3>2, <3>3
    <3>5. 1..(n + 1) = (1..n) \cup {n + 1}
      BY <3>2
    <3>6. Buffered' = Buffered \cup {<<b, n + 1>>}
      <4>1. b \in Branches
        BY <3>1 DEF b
      <4>2. ASSUME NEW x \in Buffered' PROVE x \in Buffered \cup {<<b, n + 1>>}
        <5>1. PICK d \in Branches : x \in {d} \X DOMAIN branches'[d].items
          BY DEF Buffered
        <5>2. PICK j \in DOMAIN branches'[d].items : x = <<d, j>>
          BY <5>1
        <5>3. j \in DOMAIN branches[d].items \/ (d = b /\ j = n + 1)
          BY <5>2, <3>3, <3>4, <3>5
        <5>4. j \in DOMAIN branches[d].items => <<d, j>> \in Buffered
          BY DEF Buffered
        <5> QED
          BY <5>2, <5>3, <5>4
      <4>3. ASSUME NEW x \in Buffered PROVE x \in Buffered'
        <5>1. PICK d \in Branches : x \in {d} \X DOMAIN branches[d].items
          BY DEF Buffered
        <5>2. PICK j \in DOMAIN branches[d].items : x = <<d, j>>
          BY <5>1
        <5>3. j \in DOMAIN branches'[d].items
          BY <5>2, <3>3, <3>4, <3>5
        <5> QED
          BY <5>2, <5>3 DEF Buffered
      <4>4. <<b, n + 1>> \in Buffered'
        BY <4>1, <3>4, <3>5 DEF Buffered
      <4> QED
        BY <4>2, <4>3, <4>4
    <3>7. IsFiniteSet(Buffered') /\ Pending' <= Pending + 1
      <4>1. /\ IsFiniteSet(Buffered \cup {<<b, n + 1>>})
            /\ \/ Cardinality(Buffered \cup {<<b, n + 1>>}) = Cardinality(Buffered)
               \/ Cardinality(Buffered \cup {<<b, n + 1>>}) = Cardinality(Buffered) + 1
        BY <1>0, FS_AddElement
      <4> QED
        BY <4>1, <3>6, <1>0 DEF Pending
    <3>8. Pending' \in Nat
      BY <3>7, FS_CardinalityType DEF Pending
    <3>9. Pending' <= MaxEvents
      BY <3>7, <3>8, <1>0, <2>5 DEF DeltaBuffers
    <3>10. ASSUME NEW d \in Branches, branches'[d].state # "open" PROVE branches'[d].items = <<>>
      BY <3>2, <3>10 DEF IndInv, BufferInv
    <3> QED
      BY <3>7, <3>9, <3>10 DEF BufferInv
  <2>6. CASE DeltaEmits(e)
    <3>1. CASE e.type = "text"
      BY <2>6, <3>1, <1>1 DEF DeltaEmits
    <3>2. CASE e.type # "text"
      <4>1. /\ branches \in [Branches -> BranchStates]
            /\ branches' = [branches EXCEPT ![e.branch] = [state |-> e.type, items |-> <<>>]]
        BY <2>6, <3>2 DEF DeltaEmits, IndInv, TypeOK
      <4>2. \A d \in Branches : branches'[d] = branches[d] \/ branches'[d].items = <<>>
        BY <4>1
      <4>3. Buffered' \subseteq Buffered
        BY <4>2 DEF Buffered
      <4> QED
        BY <4>2, <4>3, <1>2 DEF BufferInv, IndInv
    <3> QED
      BY <3>1, <3>2
  <2> QED
    BY <2>1, <2>3, <2>4, <2>5, <2>6
<1>5. CASE FinalizeEmits
  BY <1>5, <1>3, FinalizeCases DEF IndInv
<1>6. CASE UNCHANGED branches
  BY <1>1, <1>6
<1> QED
  <2>1. CASE EngineStep
    BY <2>1, <1>6, EngineFrame DEF coordVars
  <2>2. CASE FinishStep
    BY <2>2, <1>5, <1>6 DEF FinishStep, OnRunRevise, Settle, FinalizeSleeps, FinalizeWakes,
       FinalizeTimesOut,
       FinishTurn, coordVars
  <2>3. CASE SinkStep
    BY <2>3, <1>6 DEF SinkStep, Offer, CallReturns, CallFails, CallAbandoned, SinkDelivered,
       DetachOverrun,
       DetachAtEnd, SinkStops, coordVars
  <2> QED
    BY <1>4, <1>6, <2>1, <2>2, <2>3 DEF Next, Interrupt, Ack, coordVars

-----------------------------------------------------------------------------
(* Prefixes of the output. *)

\* Opens is IsPrefix.
LEMMA OpensIsPrefix ==
    ASSUME NEW S, NEW s \in Seq(S), NEW t \in Seq(S), Opens(s, t) PROVE IsPrefix(s, t)
<1>1. SubSeq(s, 1, Len(s)) = SubSeq(t, 1, Len(s))
  BY DEF Opens
<1> QED
  BY <1>1 DEF Opens, IsPrefix

\* Texts begin their continuations.
LEMMA OpensFacts ==
    ASSUME NEW S, NEW s \in Seq(S), NEW t \in Seq(S)
    PROVE  /\ Opens(s, s) /\ Opens(s, s \o t) /\ Opens(<<>>, s)
           /\ \A x \in S : Opens(s, Append(s, x))
           /\ \A r \in Seq(S) : Opens(r, s) /\ Opens(s, t) => Opens(r, t)
<1>1. Opens(s, s) /\ Opens(<<>>, s) /\ \A x \in S : Opens(s, Append(s, x))
  BY DEF Opens
<1>2. Opens(s, s \o t)
  BY Extended DEF Opens
<1>3. ASSUME NEW r \in Seq(S), Opens(r, s), Opens(s, t) PROVE Opens(r, t)
  <2>1. Len(r) \in Nat /\ Len(s) \in Nat /\ Len(t) \in Nat /\ Len(r) <= Len(s) /\ Len(s) <= Len(t)
    BY <1>3 DEF Opens
  <2>2. \A i \in 1..Len(r) : i \in 1..Len(s)
    BY <2>1
  <2>3. Len(r) <= Len(t)
    BY <2>1
  <2> QED
    BY <2>2, <2>3, <1>3 DEF Opens
<1> QED
  BY <1>1, <1>2, <1>3

\* The rank of a member of a finite set.
LEMMA RankBounds ==
    ASSUME NEW W \in SUBSET Nat, IsFiniteSet(W), NEW c \in W
    PROVE  Cardinality(Upto(W, c)) \in 1..Cardinality(W)
<1>1. Upto(W, c) \in SUBSET W /\ c \in Upto(W, c)
  BY DEF Upto
<1>2. IsFiniteSet(Upto(W, c)) /\ Cardinality(Upto(W, c)) <= Cardinality(W)
  BY <1>1, FS_Subset
<1>3. Cardinality(Upto(W, c)) \in Nat /\ Cardinality(W) \in Nat /\ Cardinality(Upto(W, c)) # 0
  BY <1>1, <1>2, FS_CardinalityType, FS_EmptySet
<1> QED
  BY <1>2, <1>3

\* A longer text begins the same way.
LEMMA BeginsLonger ==
    ASSUME NEW prefix \in Seq(Tokens), NEW W \in SUBSET Nat, IsFiniteSet(W), NEW entries,
           NEW o \in Seq(Tokens), NEW p \in Seq(Tokens), Opens(o, p), BeginsWith(prefix, W,
           entries, o)
    PROVE  BeginsWith(prefix, W, entries, p)
<1>1. /\ Len(prefix) \in Nat /\ Len(o) \in Nat /\ Len(p) \in Nat /\ Cardinality(W) \in Nat
      /\ Len(prefix) + Cardinality(W) <= Len(o) /\ Len(o) <= Len(p)
  BY FS_CardinalityType DEF BeginsWith, Opens
<1>2. Len(prefix) + Cardinality(W) <= Len(p)
  BY <1>1
<1>3. ASSUME NEW i \in 1..Len(prefix) PROVE prefix[i] = p[i]
  <2>1. i \in 1..Len(o)
    BY <1>1
  <2> QED
    BY <2>1 DEF BeginsWith, Opens
<1>4. ASSUME NEW c \in W PROVE entries[c] = p[Len(prefix) + Cardinality(Upto(W, c))]
  <2>1. Cardinality(Upto(W, c)) \in 1..Cardinality(W)
    BY RankBounds
  <2>2. Len(prefix) + Cardinality(Upto(W, c)) \in 1..Len(o)
    BY <2>1, <1>1
  <2> QED
    BY <2>2 DEF BeginsWith, Opens
<1> QED
  BY <1>2, <1>3, <1>4 DEF BeginsWith

\* The acknowledged prefix itself begins the text.
LEMMA BeginsOpens ==
    ASSUME NEW prefix \in Seq(Tokens), NEW W \in SUBSET Nat, IsFiniteSet(W), NEW entries,
           NEW o \in Seq(Tokens), BeginsWith(prefix, W, entries, o)
    PROVE  Opens(prefix, o)
<1>1. Len(prefix) \in Nat /\ Len(o) \in Nat /\ Cardinality(W) \in Nat /\ Len(prefix) + Cardinality(W) <= Len(o)
  BY FS_CardinalityType DEF BeginsWith
<1>2. Len(prefix) <= Len(o)
  BY <1>1
<1> QED
  BY <1>2 DEF BeginsWith, Opens

\* An empty prefix, with nothing waiting, begins every text.
LEMMA BeginsEmpty ==
    ASSUME NEW entries, NEW o \in Seq(Tokens)
    PROVE  BeginsWith(<<>>, {}, entries, o) /\ Len(<<>>) + Cardinality({}) = 0
  BY FS_EmptySet DEF BeginsWith

\* The texts at the cursors A, in order.
Orders(g, A, entries) ==
    /\ Len(g) = Cardinality(A)
    /\ \A i \in 1..Cardinality(A) : \E d \in A : g[i] = entries[d] /\ Cardinality(Upto(A, d)) = i

\* Acknowledging moves what waits into the prefix, in its place.
LEMMA BeginsAdvance ==
    ASSUME NEW prefix \in Seq(Tokens), NEW W \in SUBSET Nat, IsFiniteSet(W), NEW entries,
           NEW c \in Nat, NEW A, A = Upto(W, c), NEW g \in Seq(Tokens), Orders(g, A, entries),
           NEW o \in Seq(Tokens)
    PROVE  /\ BeginsWith(prefix, W, entries, o) => BeginsWith(prefix \o g, W \ A, entries, o)
           /\ ExactWith(prefix, W, entries, o) => ExactWith(prefix \o g, W \ A, entries, o)
<1>a. /\ Len(g) = Cardinality(A)
      /\ \A i \in 1..Cardinality(A) : \E d \in A : g[i] = entries[d] /\ Cardinality(Upto(A, d)) = i
  BY DEF Orders
<1> DEFINE B == W \ A
<1>0. B = W \ A
  OBVIOUS
<1>2. A \in SUBSET W /\ B \in SUBSET W /\ B \in SUBSET Nat
  BY DEF Upto
<1> HIDE DEF B
<1>1. /\ IsFiniteSet(A) /\ IsFiniteSet(B)
      /\ Cardinality(A) \in Nat /\ Cardinality(B) \in Nat
      /\ Cardinality(W) = Cardinality(A) + Cardinality(B)
      /\ \A x \in A : Upto(W, x) = Upto(A, x)
      /\ \A x \in B : Cardinality(Upto(W, x)) = Cardinality(A) + Cardinality(Upto(B, x))
  <2> DEFINE C == Upto(W, c)
             D == W \ Upto(W, c)
  <2>1. /\ IsFiniteSet(C) /\ IsFiniteSet(D)
        /\ Cardinality(C) \in Nat /\ Cardinality(D) \in Nat
        /\ Cardinality(W) = Cardinality(C) + Cardinality(D)
        /\ \A x \in C : Upto(W, x) = Upto(C, x)
        /\ \A x \in D : Cardinality(Upto(W, x)) = Cardinality(C) + Cardinality(Upto(D, x))
    BY RankSplit, Zenon
  <2>2. A = C /\ B = D
    BY <1>0
  <2> HIDE DEF C, D
  <2> QED
    BY <2>1, <2>2
<1>3. /\ prefix \o g \in Seq(Tokens) /\ Len(prefix \o g) = Len(prefix) + Cardinality(A)
      /\ \A i \in 1..Len(prefix) : (prefix \o g)[i] = prefix[i]
      /\ \A i \in 1..Cardinality(A) : (prefix \o g)[Len(prefix) + i] = g[i]
  <2>1. /\ prefix \o g \in Seq(Tokens) /\ Len(prefix \o g) = Len(prefix) + Len(g)
        /\ \A i \in 1..Len(prefix) : (prefix \o g)[i] = prefix[i]
        /\ \A i \in 1..Len(g) : (prefix \o g)[Len(prefix) + i] = g[i]
    BY SMTT(30)
  <2> QED
    BY <2>1, <1>a, Zenon
<1>4. Len(prefix) \in Nat /\ Len(prefix \o g) + Cardinality(B) = Len(prefix) + Cardinality(W)
  <2>1. Len(prefix) \in Nat
    OBVIOUS
  <2> QED
    BY <1>1, <1>3, <2>1
<1>5. ASSUME BeginsWith(prefix, W, entries, o)
      PROVE  BeginsWith(prefix \o g, B, entries, o)
  <2>1. Len(prefix \o g) + Cardinality(B) <= Len(o)
    BY <1>4, <1>5 DEF BeginsWith
  <2>2. ASSUME NEW i \in 1..Len(prefix \o g) PROVE (prefix \o g)[i] = o[i]
    <3>1. CASE i <= Len(prefix)
      <4>1. i \in 1..Len(prefix)
        BY <3>1, <1>4
      <4> QED
        BY <4>1, <1>3, <1>5 DEF BeginsWith
    <3>2. CASE i > Len(prefix)
      <4>1. PICK k \in 1..Cardinality(A) : i = Len(prefix) + k
        <5>1. i - Len(prefix) \in 1..Cardinality(A) /\ i = Len(prefix) + (i - Len(prefix))
          BY <3>2, <1>1, <1>3, <1>4
        <5> QED
          BY <5>1
      <4>2. PICK d \in A : g[k] = entries[d] /\ Cardinality(Upto(A, d)) = k
        BY <1>a
      <4>3. entries[d] = o[Len(prefix) + Cardinality(Upto(W, d))] /\ Upto(W, d) = Upto(A, d)
        BY <1>1, <1>2, <1>5 DEF BeginsWith
      <4> QED
        BY <4>1, <4>2, <4>3, <1>3
    <3> QED
      BY <3>1, <3>2, <1>1, <1>3, <1>4
  <2>3. ASSUME NEW d \in B PROVE entries[d] = o[Len(prefix \o g) + Cardinality(Upto(B, d))]
    <3>1. entries[d] = o[Len(prefix) + Cardinality(Upto(W, d))]
      BY <1>2, <1>5 DEF BeginsWith
    <3>2. Cardinality(Upto(B, d)) \in Nat
      <4>1. Cardinality(Upto(B, d)) \in 1..Cardinality(B)
        BY <1>1, <1>2, RankBounds
      <4> QED
        BY <4>1, <1>1
    <3>3. Len(prefix \o g) + Cardinality(Upto(B, d)) = Len(prefix) + Cardinality(Upto(W, d))
      BY <1>1, <1>3, <1>4, <3>2
    <3> QED
      BY <3>1, <3>3
  <2> QED
    BY <2>1, <2>2, <2>3 DEF BeginsWith
<1> QED
  BY <1>4, <1>5 DEF B, ExactWith

\* The log grows from n entries, and the text t, from n + lo on, to what waits.
Grows(n, W, entries, V, more, lo, t) ==
    /\ V = W \cup ((n + lo)..(n + lo - 1 + Len(t)))
    /\ \A c \in 1..n : more[c] = entries[c]
    /\ \A j \in 1..Len(t) : more[n + lo - 1 + j] = t[j]

\* Text that is confirmed waits behind everything else.
LEMMA BeginsAppend ==
    ASSUME NEW prefix \in Seq(Tokens), NEW n \in Nat, NEW W \in SUBSET (1..n), NEW entries,
    NEW more,
           NEW lo \in {1, 2}, NEW t \in Seq(Tokens), NEW V, NEW o \in Seq(Tokens),
           Grows(n, W, entries, V, more, lo, t), ExactWith(prefix, W, entries, o)
    PROVE  ExactWith(prefix, V, more, o \o t)
<1>a. /\ V = W \cup ((n + lo)..(n + lo - 1 + Len(t)))
      /\ \A c \in 1..n : more[c] = entries[c]
      /\ \A j \in 1..Len(t) : more[n + lo - 1 + j] = t[j]
      /\ BeginsWith(prefix, W, entries, o)
  BY DEF Grows, ExactWith
<1>d. PICK k \in Nat : k = Len(t) + lo - 1
  <2>1. Len(t) \in Nat
    OBVIOUS
  <2>2. Len(t) + lo - 1 \in Nat
    BY <2>1
  <2> QED
    BY <2>2
<1>1. Len(t) \in Nat /\ k \in Nat /\ lo <= k + 1 /\ n + lo - 1 + Len(t) = n + k /\ k + 1 - lo = Len(t)
  <2>1. Len(t) \in Nat
    OBVIOUS
  <2> QED
    BY <2>1, <1>d
<1>2. Len(prefix) \in Nat /\ Len(o) \in Nat
  OBVIOUS
<1>3. o \o t \in Seq(Tokens) /\ Len(o \o t) = Len(o) + Len(t)
      /\ (\A i \in 1..Len(o) : (o \o t)[i] = o[i]) /\ \A i \in 1..Len(t) : (o \o t)[Len(o) + i] = t[i]
  BY Extended
<1>4. IsFiniteSet(W) /\ Cardinality(W) \in Nat /\ W \in SUBSET Nat
  <2>0. 1 \in Int /\ n \in Int
    OBVIOUS
  <2>1. IsFiniteSet(1..n)
    BY <2>0, FS_Interval
  <2>2. IsFiniteSet(W)
    BY <2>1, FS_Subset
  <2> QED
    BY <2>2, FS_CardinalityType
<1> DEFINE u == o \o t
<1>c. u \in Seq(Tokens) /\ Len(u) = Len(o) + Len(t)
      /\ (\A i \in 1..Len(o) : u[i] = o[i]) /\ \A i \in 1..Len(t) : u[Len(o) + i] = t[i]
  BY <1>3
<1> HIDE DEF u
<1>b. Len(prefix) + Cardinality(W) = Len(o)
  BY DEF ExactWith
<1>5. V = W \cup ((n + lo)..(n + k)) /\ V = Grown(W, n, lo, k)
  BY <1>1, <1>a DEF Grown
<1>6. /\ Cardinality(V) = Cardinality(W) + (k + 1 - lo)
      /\ \A x \in W : Upto(V, x) = Upto(W, x)
      /\ \A i \in lo..k : Cardinality(Upto(V, n + i)) = Cardinality(W) + (i + 1 - lo)
  <2>1. V = Grown(W, n, lo, k) /\ k \in Nat
    BY <1>1, <1>5
  <2>2. lo <= k + 1
    BY <1>1
  <2> QED
    BY <2>1, <2>2, RankAppend, RankAppended
<1>7. Len(prefix) + Cardinality(V) = Len(u)
  <2>1. Len(u) = Len(o) + Len(t) /\ Cardinality(V) = Cardinality(W) + Len(t)
    BY <1>1, <1>c, <1>6
  <2>2. Len(prefix) + (Cardinality(W) + Len(t)) = (Len(prefix) + Cardinality(W)) + Len(t)
    BY <1>1, <1>2, <1>4
  <2> QED
    BY <2>1, <2>2, <1>b
<1>8. ASSUME NEW i \in 1..Len(prefix) PROVE prefix[i] = u[i]
  <2>1. i \in 1..Len(o)
    BY <1>b, <1>2, <1>4
  <2> QED
    BY <2>1, <1>a, <1>c DEF BeginsWith
<1>9. ASSUME NEW c \in V PROVE more[c] = u[Len(prefix) + Cardinality(Upto(V, c))]
  <2>1. CASE c \in W
    <3>1. Cardinality(Upto(W, c)) \in 1..Cardinality(W)
      BY <2>1, <1>4, RankBounds
    <3>2. Len(prefix) + Cardinality(Upto(W, c)) \in 1..Len(o)
      BY <3>1, <1>b, <1>2, <1>4
    <3>3. more[c] = entries[c] /\ entries[c] = o[Len(prefix) + Cardinality(Upto(W, c))]
      BY <2>1, <1>a DEF BeginsWith
    <3> QED
      BY <2>1, <3>2, <3>3, <1>c, <1>6
  <2>2. CASE c \notin W
    <3>1. c \in (n + lo)..(n + k)
      BY <2>2, <1>5
    <3>2. PICK j \in 1..Len(t) : c = n + lo - 1 + j
      <4>1. c - (n + lo - 1) \in 1..Len(t) /\ c = n + lo - 1 + (c - (n + lo - 1))
        BY <3>1, <1>1
      <4> QED
        BY <4>1
    <3>3. lo - 1 + j \in lo..k /\ c = n + (lo - 1 + j) /\ (lo - 1 + j) + 1 - lo = j
      BY <3>2, <1>1
    <3>4. Cardinality(Upto(V, c)) = Cardinality(W) + j
      BY <3>3, <1>6
    <3>5. Len(prefix) + Cardinality(Upto(V, c)) = Len(o) + j
      <4>1. j \in Nat /\ Cardinality(W) \in Nat
        BY <1>1, <1>4
      <4>2. Len(prefix) + (Cardinality(W) + j) = (Len(prefix) + Cardinality(W)) + j
        BY <4>1, <1>2
      <4> QED
        BY <4>2, <3>4, <1>b
    <3> QED
      BY <3>2, <3>5, <1>a, <1>c
  <2> QED
    BY <2>1, <2>2
<1> QED
  <2>1. Len(prefix) + Cardinality(V) <= Len(u)
    <3>1. Len(u) \in Nat
      BY <1>c
    <3> QED
      BY <1>7, <3>1
  <2> QED
    BY <2>1, <1>7, <1>8, <1>9 DEF BeginsWith, ExactWith, u

-----------------------------------------------------------------------------
(* The events on their way to the coordinator. *)

\* What an event of each type does to the stream.
LEMMA FollowsCases ==
    ASSUME NEW e \in Events, NEW a0, NEW o0, NEW i0, NEW a1, NEW o1, NEW i1,
           Follows(e, a0, o0, i0, a1, o1, i1)
    PROVE  /\ e.type \in {"text", "speculative", "accept", "cancel", "end"}
           /\ e.type = "text" => a1 = a0 /\ o1 = Append(o0, e.id) /\ i1 = i0 /\ e.id \in Tokens
           /\ e.type = "speculative" => /\ a1 = a0 /\ o1 = o0 /\ e.branch \in Branches /\ e.id \in Tokens
                                        /\ i1 = [i0 EXCEPT ![e.branch] = Append(@, e.id)]
           /\ e.type = "accept" => /\ a1 = a0 /\ o1 = o0 \o i0[e.branch] /\ e.branch \in Branches
                                   /\ i1 = [i0 EXCEPT ![e.branch] = <<>>]
           /\ e.type = "cancel" => /\ a1 = a0 /\ o1 = o0 /\ e.branch \in Branches
                                   /\ i1 = [i0 EXCEPT ![e.branch] = <<>>]
           /\ e.type = "end" => a1 = a0 + 1 /\ o1 = <<>> /\ i1 = NoneHeld
<1>1. e.type \in {"text", "speculative", "accept", "cancel", "end"}
  BY DEF Events
<1>2. CASE e.type = "text"
  BY <1>2 DEF Follows, Events
<1>3. CASE e.type = "speculative"
  BY <1>3 DEF Follows, Events
<1>4. CASE e.type = "accept"
  BY <1>4 DEF Follows, Events
<1>5. CASE e.type = "cancel"
  BY <1>5 DEF Follows, Events
<1>6. CASE e.type = "end"
  BY <1>6 DEF Follows, NoneHeld
<1> QED
  BY <1>1, <1>2, <1>3, <1>4, <1>5, <1>6

\* What is recorded while nothing is frozen keeps the stream exact.
LEMMA EmitExact ==
    ASSUME IndInv, NEW ids \in Seq(Entries), Emit(ids), attempt' = attempt, ~frozen',
    cAttempt = attempt,
           NEW lo \in {1, 2}, NEW t \in Seq(Tokens), Len(ids) = lo - 1 + Len(t),
           \A j \in 1..Len(t) : ids[lo - 1 + j] = t[j], lo = 2 => ids[1] = 0,
           NEW o \in Seq(Tokens), Exact(o)
    PROVE  Exact(o \o t)'
<1> DEFINE n == Len(log)
<1>1. /\ ~frozen /\ tokens' = tokens \cup Recorded(ids) /\ ackedPrefix' = ackedPrefix
      /\ \A c \in 1..Len(log) : log'[c] = log[c]
      /\ \A i \in 1..Len(ids) : log'[Len(log) + i] = ids[i]
  BY EmitEffect DEF IndInv
<1>2. Len(log) \in Nat /\ Len(t) \in Nat /\ Len(ids) \in Nat
  <2>1. log \in Seq(Entries)
    BY DEF IndInv, TypeOK, Entries
  <2> QED
    BY <2>1
<1>3. ASSUME NEW j \in 1..Len(t) PROVE lo - 1 + j \in 1..Len(ids) /\ ids[lo - 1 + j] = t[j] /\ t[j] > 0
  <2>1. lo - 1 + j \in 1..Len(ids)
    BY <1>2
  <2>2. t[j] > 0
    BY DEF Tokens
  <2> QED
    BY <2>1, <2>2
<1>4. ASSUME NEW i \in 1..Len(ids), ids[i] > 0 PROVE Len(log) + i \in (n + lo)..(n + lo - 1 + Len(t))
  <2>1. i >= lo
    BY <1>4
  <2> QED
    BY <2>1, <1>2
<1>5. Waiting' = Waiting \cup ((n + lo)..(n + lo - 1 + Len(t)))
  <2>1. /\ \A c \in Waiting : c \in Waiting'
        /\ \A c \in Waiting' : c \in Waiting \/ \E i \in 1..Len(ids) : c = Len(log) + i /\ ids[i] > 0
        /\ \A i \in 1..Len(ids) : ids[i] > 0 => Len(log) + i \in Waiting'
    BY <1>1, EmitWaits DEF IndInv
  <2>2. ASSUME NEW c \in (n + lo)..(n + lo - 1 + Len(t)) PROVE c \in Waiting'
    <3>1. PICK j \in 1..Len(t) : c = n + (lo - 1 + j)
      <4>1. c - (n + lo - 1) \in 1..Len(t) /\ c = n + (lo - 1 + (c - (n + lo - 1)))
        BY <1>2
      <4> QED
        BY <4>1
    <3>2. lo - 1 + j \in 1..Len(ids) /\ ids[lo - 1 + j] > 0
      BY <1>3
    <3> QED
      BY <3>1, <3>2, <2>1
  <2> QED
    BY <2>1, <2>2, <1>4
<1>6. ASSUME NEW j \in 1..Len(t) PROVE log'[n + lo - 1 + j] = t[j]
  <2>1. n + lo - 1 + j = Len(log) + (lo - 1 + j)
    BY <1>2
  <2> QED
    BY <2>1, <1>1, <1>3
<1>7. Waiting \in SUBSET (1..n) /\ ackedPrefix \in Seq(Tokens) /\ n \in Nat
  BY WaitingFinite, <1>2 DEF IndInv, TypeOK
<1>8. ExactWith(ackedPrefix, Waiting, log, o)
  BY DEF Exact
<1>9. \A c \in 1..n : log'[c] = log[c]
  BY <1>1
<1>10. Grows(n, Waiting, log, Waiting', log', lo, t)
  BY <1>5, <1>6, <1>9 DEF Grows
<1> HIDE DEF n
<1>11. ExactWith(ackedPrefix, Waiting', log', o \o t)
  BY <1>7, <1>8, <1>10, BeginsAppend
<1> QED
  BY <1>1, <1>11 DEF Exact

\* A stream that is left alone stays exact.
LEMMA ExactStays ==
    ASSUME UNCHANGED <<ackedPrefix, tokens, log, attempt>>, NEW o
    PROVE  (Exact(o) => Exact(o)') /\ (Begins(o) => Begins(o)') /\ Waiting' = Waiting
<1>1. Waiting' = Waiting
  BY DEF Waiting
<1> QED
  BY <1>1 DEF Exact, Begins

\* With nothing acknowledged and nothing waiting, the stream is at the empty text.
LEMMA ExactNothing ==
    ASSUME tokens' = {}, ackedPrefix' = <<>>, NEW o \in Seq(Tokens)
    PROVE  Begins(o)' /\ (o = <<>> => Exact(o)')
<1>1. Waiting' = {}
  BY NoneWaiting
<1>2. BeginsWith(<<>>, {}, log', o) /\ Len(<<>>) + Cardinality({}) = 0
  BY BeginsEmpty
<1> QED
  BY <1>1, <1>2 DEF Exact, ExactWith, Begins

\* The coordinator follows the stream over the first event of the bus.
LEMMA StartsNext ==
    ASSUME IndInv, OnDelta, NEW a0 \in Nat, NEW o0 \in Seq(Tokens), NEW i0 \in Held,
           NEW a1 \in Nat, NEW o1 \in Seq(Tokens), NEW i1 \in Held,
           Starts(a0, o0, i0), Follows(Head(bus), a0, o0, i0, a1, o1, i1)
    PROVE  Starts(a1, o1, i1)'
<1> DEFINE e == Head(bus)
<1>1. /\ \/ DeltaSkips(e) \/ DeltaFails(e) \/ DeltaEnds(e) \/ DeltaBuffers(e) \/ DeltaEmits(e)
      /\ e \in Events /\ finalized' = finalized /\ attempt' = attempt
  BY DeltaCases DEF IndInv, engineVars
<1>2. Follows(e, a0, o0, i0, a1, o1, i1)
  OBVIOUS
<1> HIDE DEF e
<1>3. cAttempt \in Nat /\ branches \in [Branches -> BranchStates] /\ a0 <= a1 /\ dead \in BOOLEAN
  <2>1. a0 <= a1
    BY <1>1, <1>2, FollowsCases
  <2> QED
    BY <2>1 DEF IndInv, TypeOK
<1>4. ASSUME NEW o, UNCHANGED streamed, Exact(o) PROVE Exact(o)'
  BY <1>1, <1>4, ExactStays DEF streamed
<1>5. CASE finalized
  BY <1>1, <1>3, <1>5 DEF DeltaSkips, DeltaFails, DeltaEnds, DeltaBuffers, DeltaEmits,
     coordinated, Starts
<1>6. CASE ~finalized /\ DeltaSkips(e)
  <2>1. e.type # "end" /\ UNCHANGED <<branches, cAttempt, dead>> /\ UNCHANGED streamed
    BY <1>6 DEF DeltaSkips, coordinated
  <2>2. a1 = a0
    BY <2>1, <1>1, <1>2, FollowsCases
  <2>3. CASE dead
    BY <2>1, <2>2, <2>3, <1>1, <1>6 DEF Starts
  <2>4. CASE ~dead
    <3>1. e.type \in {"accept", "cancel"} /\ branches[e.branch].state = e.type
      BY <2>4, <1>6 DEF DeltaSkips
    <3>2. e.branch \in Branches
      BY <3>1, <1>1, <1>2, FollowsCases
    <3>3. i0[e.branch] = <<>>
      BY <3>1, <3>2, <2>4, <1>6 DEF Starts, IndInv, BufferInv
    <3>4. i1 = i0
      <4>1. i1 = [i0 EXCEPT ![e.branch] = <<>>]
        BY <3>1, <1>1, <1>2, FollowsCases
      <4> QED
        BY <4>1, <3>2, <3>3 DEF Held
    <3>5. o1 = o0
      <4>1. o1 = o0 \/ o1 = o0 \o i0[e.branch]
        BY <3>1, <1>1, <1>2, FollowsCases
      <4> QED
        BY <4>1, <3>3
    <3> QED
      BY <2>1, <2>2, <2>4, <3>4, <3>5, <1>1, <1>4, <1>6 DEF Starts, streamed
  <2> QED
    BY <2>3, <2>4, <1>3
<1>7. CASE DeltaFails(e)
  <2>1. a1 = cAttempt' /\ dead'
    BY <1>1, <1>2, <1>7, FollowsCases DEF DeltaFails, Starts
  <2> QED
    BY <2>1, <1>3 DEF Starts
<1>8. CASE DeltaEnds(e)
  <2>1. /\ ~finalized /\ branches' = NoBranches /\ cAttempt' = cAttempt + 1 /\ UNCHANGED streamed
        /\ e.type = "end" /\ dead' = dead
    BY <1>8 DEF DeltaEnds
  <2>2. a1 = cAttempt' /\ o1 = <<>> /\ i1 = NoneHeld
    BY <2>1, <1>1, <1>2, FollowsCases DEF Starts
  <2>3. \A b \in Branches : i1[b] = branches'[b].items
    BY <2>1, <2>2 DEF NoneHeld, NoBranches, NoBranch
  <2>4. ASSUME cAttempt' = attempt PROVE Exact(o1)'
    <3>1. cAttempt < attempt
      BY <2>1, <2>4, <1>3
    <3>2. tokens' = {} /\ ackedPrefix' = <<>>
      BY <2>1, <3>1 DEF IndInv, PrefixInv, streamed
    <3> QED
      BY <3>2, <2>2, ExactNothing
  <2> QED
    BY <2>1, <2>2, <2>3, <2>4, <1>1, <1>3 DEF Starts
<1>9. CASE DeltaBuffers(e)
  <2>1. /\ ~finalized /\ ~dead /\ e.type = "speculative" /\ UNCHANGED <<cAttempt, dead>> /\ UNCHANGED streamed
        /\ branches' = [branches EXCEPT ![e.branch] =
                          [state |-> "open", items |-> Append(branches[e.branch].items, e.id)]]
    BY <1>9 DEF DeltaBuffers
  <2>2. a1 = a0 /\ o1 = o0 /\ e.branch \in Branches /\ i1 = [i0 EXCEPT ![e.branch] = Append(i0[e.branch], e.id)]
    BY <2>1, <1>1, <1>2, FollowsCases
  <2>3. \A b \in Branches : i0[b] = branches[b].items
    BY <2>1 DEF Starts
  <2>4. \A b \in Branches : i1[b] = branches'[b].items
    BY <2>1, <2>2, <2>3, <1>3 DEF Held
  <2> QED
    BY <2>1, <2>2, <2>4, <1>1, <1>4 DEF Starts, streamed
<1>10. CASE DeltaEmits(e)
  <2>1. /\ ~finalized /\ ~dead /\ e.type \in {"text", "accept", "cancel"} /\ UNCHANGED <<cAttempt, dead>>
        /\ Emit(Confirms(e))
        /\ IF e.type = "text" THEN UNCHANGED branches
           ELSE branches' = [branches EXCEPT ![e.branch] = [state |-> e.type, items |-> <<>>]]
    BY <1>10 DEF DeltaEmits
  <2>2. a1 = a0 /\ (e.type # "text" => e.branch \in Branches)
    BY <2>1, <1>1, <1>2, FollowsCases
  <2>3. \A b \in Branches : i0[b] = branches[b].items
    BY <2>1 DEF Starts
  <2>4. \A b \in Branches : i1[b] = branches'[b].items
    <3>1. CASE e.type = "text"
      BY <3>1, <2>1, <2>3, <1>1, <1>2, FollowsCases
    <3>2. CASE e.type # "text"
      <4>1. i1 = [i0 EXCEPT ![e.branch] = <<>>]
        BY <3>2, <2>1, <1>1, <1>2, FollowsCases
      <4> QED
        BY <4>1, <3>2, <2>1, <2>2, <2>3, <1>3 DEF Held
    <3> QED
      BY <3>1, <3>2
  <2>5. ASSUME ~frozen', cAttempt = attempt PROVE Exact(o1)'
    <3>0. Exact(o0)
      <4>1. ~frozen
        <5>1. Confirms(e) \in Seq(Entries)
          <6>1. e.type = "text" => e.id \in Tokens
            BY <1>1, <1>2, FollowsCases
          <6>2. e.type = "accept" => branches[e.branch].items \in Seq(Tokens)
            BY <2>2, <1>3 DEF BranchStates
          <6>3. CASE e.type = "text"
            BY <6>1, <6>3 DEF Confirms, Entries
          <6>4. CASE e.type = "accept"
            BY <6>2, <6>4 DEF Confirms, Entries
          <6>5. CASE e.type = "cancel"
            BY <6>5 DEF Confirms, Entries
          <6> QED
            BY <2>1, <6>3, <6>4, <6>5
        <5> QED
          BY <5>1, <2>1, <2>5, EmitEffect DEF IndInv
      <4> QED
        BY <4>1, <2>1, <2>5 DEF Starts
    <3>1. CASE e.type = "text"
      <4>1. Confirms(e) = <<e.id>> /\ e.id \in Tokens /\ o1 = Append(o0, e.id)
        BY <3>1, <1>1, <1>2, FollowsCases DEF Confirms
      <4> DEFINE t == <<e.id>>
      <4>2. /\ t \in Seq(Entries) /\ t \in Seq(Tokens) /\ Len(t) = 1 - 1 + Len(t)
            /\ \A j \in 1..Len(t) : t[1 - 1 + j] = t[j]
        BY <4>1 DEF Entries
      <4>3. o1 = o0 \o t
        BY <4>1
      <4>4. Emit(t)
        BY <4>1, <2>1
      <4> HIDE DEF t
      <4> QED
        BY <4>2, <4>3, <4>4, <3>0, <2>5, <1>1, EmitExact
    <3>2. CASE e.type \in {"accept", "cancel"}
      <4> DEFINE t == IF e.type = "accept" THEN branches[e.branch].items ELSE <<>>
                 ids == <<0>> \o t
      <4>1. t \in Seq(Tokens)
        BY <3>2, <2>2, <1>3 DEF BranchStates
      <4>2. Confirms(e) = ids
        <5>1. <<0>> \o <<>> = <<0>>
          OBVIOUS
        <5> QED
          BY <3>2, <5>1 DEF Confirms
      <4>3. o1 = o0 \o t
        <5>1. CASE e.type = "accept"
          <6>1. o1 = o0 \o i0[e.branch]
            BY <5>1, <1>1, <1>2, FollowsCases
          <6> QED
            BY <5>1, <6>1, <2>2, <2>3
        <5>2. CASE e.type = "cancel"
          BY <5>2, <1>1, <1>2, FollowsCases
        <5> QED
          BY <3>2, <5>1, <5>2
      <4> HIDE DEF t
      <4>4. /\ ids \in Seq(Entries) /\ Len(ids) = 2 - 1 + Len(t) /\ ids[1] = 0
            /\ \A j \in 1..Len(t) : ids[2 - 1 + j] = t[j]
        <5>1. <<0>> \in Seq(Entries) /\ t \in Seq(Entries) /\ Len(<<0>>) = 1 /\ <<0>>[1] = 0
          BY <4>1 DEF Entries
        <5>2. /\ ids \in Seq(Entries) /\ Len(ids) = 1 + Len(t)
              /\ \A i \in 1..1 : ids[i] = <<0>>[i]
              /\ \A i \in 1..Len(t) : ids[1 + i] = t[i]
          BY <5>1, Extended
        <5> HIDE DEF ids
        <5>3. ids[1] = 0
          BY <5>1, <5>2
        <5> QED
          BY <5>2, <5>3
      <4>5. Emit(ids)
        BY <4>2, <2>1
      <4> HIDE DEF ids
      <4> QED
        BY <4>1, <4>3, <4>4, <4>5, <3>0, <2>5, <1>1, EmitExact
    <3> QED
      BY <2>1, <3>1, <3>2
  <2> QED
    BY <2>1, <2>2, <2>4, <2>5, <1>1 DEF Starts
<1> QED
  BY <1>1, <1>5, <1>6, <1>7, <1>8, <1>9, <1>10

-----------------------------------------------------------------------------
\* A step that leaves the bus and the engine alone.
LEMMA ReplayKeeps ==
    ASSUME IndInv, UNCHANGED <<bus, cAttempt, attempt, output, held>>,
           phase' = "running" => phase = "running", ~finalized' => ~finalized,
           ~finalized' /\ ~dead' =>
              /\ ~dead /\ \A b \in Branches : branches'[b].items = branches[b].items
              /\ ~frozen' => ~frozen /\ \A o \in Seq(Tokens) : Exact(o) => Exact(o)'
    PROVE  ReplayInv'
<1>1. PICK at \in [0..Len(bus) -> Nat], out \in [0..Len(bus) -> Seq(Tokens)], items \in [0..Len(bus) -> Held] :
         Replays(at, out, items)
  BY DEF IndInv, ReplayInv
<1>2. Len(bus) \in Nat /\ 0 \in 0..Len(bus)
  <2>1. Len(bus) \in Nat
    BY DEF IndInv, TypeOK
  <2> QED
    BY <2>1
<1>3. Starts(at[0], out[0], items[0])'
  <2>1. out[0] \in Seq(Tokens) /\ Starts(at[0], out[0], items[0])
    BY <1>1, <1>2 DEF Replays
  <2> QED
    BY <2>1 DEF Starts
<1>4. ASSUME NEW i \in 0..Len(bus) PROVE Passes(at[i], out[i], items[i])'
  <2>1. Passes(at[i], out[i], items[i])
    BY <1>1 DEF Replays
  <2> QED
    BY <2>1 DEF Passes
<1>5. Arrives(at[Len(bus)], out[Len(bus)], items[Len(bus)])'
  <2>1. Arrives(at[Len(bus)], out[Len(bus)], items[Len(bus)])
    BY <1>1 DEF Replays
  <2> QED
    BY <2>1 DEF Arrives
<1>6. Replays(at, out, items)'
  <2>1. \A i \in 1..Len(bus) :
           Follows(bus[i], at[i - 1], out[i - 1], items[i - 1], at[i], out[i], items[i])
    BY <1>1 DEF Replays
  <2> QED
    BY <2>1, <1>3, <1>4, <1>5 DEF Replays
<1> QED
  BY <1>1, <1>6 DEF ReplayInv

\* OnDelta takes the first event of the bus.
LEMMA ReplayShifts ==
    ASSUME IndInv, OnDelta
    PROVE  /\ ReplayInv'
           /\ \E o \in Seq(Tokens) : /\ cAttempt = attempt /\ cAttempt' = attempt /\ ~finalized /\ ~dead' /\ ~frozen'
                                           => Exact(o)' /\ Opens(o, output[attempt])
           /\ cAttempt' <= attempt + 1
<1>1. PICK at \in [0..Len(bus) -> Nat], out \in [0..Len(bus) -> Seq(Tokens)], items \in [0..Len(bus) -> Held] :
         Replays(at, out, items)
  BY DEF IndInv, ReplayInv
<1>2. /\ bus # <<>> /\ bus' = Tail(bus) /\ Head(bus) \in Events
      /\ UNCHANGED <<phase, attempt, output, held, finalized>>
  BY DeltaCases DEF IndInv, engineVars
<1>3. /\ Len(bus) \in Nat /\ Len(bus) >= 1 /\ Len(bus') = Len(bus) - 1 /\ Head(bus) = bus[1]
      /\ \A i \in 1..(Len(bus) - 1) : bus'[i] = bus[i + 1]
  BY <1>2 DEF IndInv, TypeOK
<1>4. PICK m \in Nat : Len(bus') = m /\ Len(bus) = m + 1
  <2>1. Len(bus) - 1 \in Nat /\ Len(bus) = (Len(bus) - 1) + 1
    BY <1>3
  <2> QED
    BY <2>1, <1>3
<1> DEFINE at1 == [i \in 0..m |-> at[i + 1]]
           out1 == [i \in 0..m |-> out[i + 1]]
           items1 == [i \in 0..m |-> items[i + 1]]
<1>5. /\ at1 \in [0..m -> Nat] /\ out1 \in [0..m -> Seq(Tokens)] /\ items1 \in [0..m -> Held]
      /\ \A i \in 0..m : at1[i] = at[i + 1] /\ out1[i] = out[i + 1] /\ items1[i] = items[i + 1]
  <2>1. \A i \in 0..m : i + 1 \in 0..Len(bus)
    BY <1>4
  <2> QED
    BY <2>1
<1> HIDE DEF at1, out1, items1
<1>6. /\ Starts(at[0], out[0], items[0])
      /\ \A i \in 1..(m + 1) : Follows(bus[i], at[i - 1], out[i - 1], items[i - 1], at[i], out[i], items[i])
      /\ \A i \in 0..(m + 1) : Passes(at[i], out[i], items[i])
      /\ Arrives(at[m + 1], out[m + 1], items[m + 1])
  BY <1>1, <1>4 DEF Replays
<1>7. Starts(at1[0], out1[0], items1[0])'
  <2>1. 0 \in 0..Len(bus) /\ 1 \in 0..Len(bus) /\ 0 \in 0..m /\ 1 \in 1..(m + 1) /\ 0 + 1 = 1 /\ 1 - 1 = 0
    BY <1>4
  <2>2. /\ at[0] \in Nat /\ out[0] \in Seq(Tokens) /\ items[0] \in Held
        /\ at[1] \in Nat /\ out[1] \in Seq(Tokens) /\ items[1] \in Held
    BY <2>1
  <2>3. Follows(Head(bus), at[0], out[0], items[0], at[1], out[1], items[1])
    BY <2>1, <1>3, <1>6
  <2>4. Starts(at[1], out[1], items[1])'
    BY <2>2, <2>3, <1>6, StartsNext
  <2> QED
    BY <2>1, <2>4, <1>5
<1>8. ASSUME NEW i \in 1..m
      PROVE  Follows(bus'[i], at1[i - 1], out1[i - 1], items1[i - 1], at1[i], out1[i],
      items1[i])
  <2>1. /\ i + 1 \in 1..(m + 1) /\ i - 1 \in 0..m /\ i \in 0..m /\ (i - 1) + 1 = i /\ (i + 1) - 1 = i
        /\ i \in 1..(Len(bus) - 1)
    BY <1>4
  <2>2. Follows(bus[i + 1], at[(i + 1) - 1], out[(i + 1) - 1], items[(i + 1) - 1], at[i + 1], out[i + 1], items[i + 1])
    BY <2>1, <1>6
  <2> QED
    BY <2>1, <2>2, <1>3, <1>5
<1>9. ASSUME NEW i \in 0..m PROVE Passes(at1[i], out1[i], items1[i]) /\ Passes(at1[i], out1[i], items1[i])'
  <2>1. i + 1 \in 0..(m + 1)
    BY <1>4
  <2>2. Passes(at1[i], out1[i], items1[i])
    BY <2>1, <1>5, <1>6
  <2> QED
    BY <2>2, <1>2 DEF Passes
<1>10. Arrives(at1[m], out1[m], items1[m])'
  <2>1. m \in 0..m
    OBVIOUS
  <2>2. Arrives(at1[m], out1[m], items1[m])
    BY <2>1, <1>5, <1>6
  <2> QED
    BY <2>2, <1>2 DEF Arrives
<1>11. Replays(at1, out1, items1)'
  BY <1>4, <1>7, <1>8, <1>9, <1>10 DEF Replays
<1>12. ReplayInv'
  BY <1>4, <1>5, <1>11 DEF ReplayInv
<1>13. 0 \in 0..m /\ at1[0] \in Nat /\ out1[0] \in Seq(Tokens)
  BY <1>5
<1>14. ASSUME cAttempt = attempt, cAttempt' = attempt, ~finalized, ~dead', ~frozen'
       PROVE  Exact(out1[0])' /\ Opens(out1[0], output[attempt])
  <2>1. Passes(at1[0], out1[0], items1[0])
    BY <1>9, <1>13
  <2> QED
    BY <2>1, <1>2, <1>7, <1>14 DEF Starts, Passes
<1>15. cAttempt' <= attempt + 1
  <2>1. cAttempt' <= at1[0]
    BY <1>7 DEF Starts
  <2>2. at1[0] <= attempt + 1
    BY <1>9, <1>13 DEF Passes
  <2>3. cAttempt' \in Nat /\ attempt \in Nat
    <3>1. cAttempt \in Nat /\ attempt \in Nat
      BY DEF IndInv, TypeOK
    <3> DEFINE e == Head(bus)
    <3>2. \/ DeltaSkips(e) \/ DeltaFails(e) \/ DeltaEnds(e) \/ DeltaBuffers(e) \/ DeltaEmits(e)
      BY DeltaCases DEF IndInv
    <3> HIDE DEF e
    <3>3. cAttempt' = cAttempt \/ cAttempt' = cAttempt + 1
      BY <3>2 DEF DeltaSkips, DeltaFails, DeltaEnds, DeltaBuffers, DeltaEmits, coordinated
    <3> QED
      BY <3>1, <3>3
  <2> QED
    BY <2>1, <2>2, <2>3, <1>13
<1> QED
  BY <1>12, <1>13, <1>14, <1>15

\* The engine publishes an event.
LEMMA ReplayAppends ==
    ASSUME IndInv, NEW e \in Events, bus' = Append(bus, e), phase = "running",
           UNCHANGED <<coordVars, prefixVars, attempt>>,
           Opens(output[attempt], output'[attempt]), output'[attempt] \in Seq(Tokens),
           \A a0 \in Nat, o0 \in Seq(Tokens), i0 \in Held :
              a0 <= attempt /\ (a0 = attempt => o0 = output[attempt] /\ i0 = held) =>
              \E a1 \in Nat, o1 \in Seq(Tokens), i1 \in Held :
                 /\ Follows(e, a0, o0, i0, a1, o1, i1)
                 /\ Passes(a1, o1, i1)' /\ Arrives(a1, o1, i1)'
    PROVE  ReplayInv'
<1>1. PICK at \in [0..Len(bus) -> Nat], out \in [0..Len(bus) -> Seq(Tokens)], items \in [0..Len(bus) -> Held] :
         Replays(at, out, items)
  BY DEF IndInv, ReplayInv
<1>2. PICK n \in Nat : Len(bus) = n
  BY DEF IndInv, TypeOK
<1>3. /\ Len(bus') = n + 1 /\ bus'[n + 1] = e /\ \A i \in 1..n : bus'[i] = bus[i]
  <2>1. bus \in Seq(Events)
    BY DEF IndInv, TypeOK
  <2> QED
    BY <2>1, <1>2
<1>4. /\ Starts(at[0], out[0], items[0])
      /\ \A i \in 1..n : Follows(bus[i], at[i - 1], out[i - 1], items[i - 1], at[i], out[i], items[i])
      /\ \A i \in 0..n : Passes(at[i], out[i], items[i])
      /\ Arrives(at[n], out[n], items[n])
  BY <1>1, <1>2 DEF Replays
<1>5. \A i \in 0..n : at[i] \in Nat /\ out[i] \in Seq(Tokens) /\ items[i] \in Held
  BY <1>2
<1>6. n \in 0..n /\ 0 \in 0..n /\ attempt \in Nat /\ output[attempt] \in Seq(Tokens)
  <2>1. attempt \in Nat /\ output[attempt] \in Seq(Tokens)
    BY DEF IndInv, TypeOK
  <2> QED
    BY <2>1
<1>7. at[n] <= attempt /\ (at[n] = attempt => out[n] = output[attempt] /\ items[n] = held)
  <2>1. Passes(at[n], out[n], items[n])
    BY <1>4, <1>6
  <2>2. ~(at[n] > attempt)
    BY <2>1 DEF Passes
  <2>3. at[n] \in Nat
    BY <1>5, <1>6
  <2> QED
    BY <2>2, <2>3, <1>4, <1>6 DEF Arrives
<1>8. PICK a1 \in Nat, o1 \in Seq(Tokens), i1 \in Held :
         /\ Follows(e, at[n], out[n], items[n], a1, o1, i1)
         /\ Passes(a1, o1, i1)' /\ Arrives(a1, o1, i1)'
  BY <1>5, <1>6, <1>7
<1> DEFINE at1 == [i \in 0..(n + 1) |-> IF i = n + 1 THEN a1 ELSE at[i]]
           out1 == [i \in 0..(n + 1) |-> IF i = n + 1 THEN o1 ELSE out[i]]
           items1 == [i \in 0..(n + 1) |-> IF i = n + 1 THEN i1 ELSE items[i]]
<1>9. /\ at1 \in [0..(n + 1) -> Nat] /\ out1 \in [0..(n + 1) -> Seq(Tokens)] /\ items1 \in [0..(n + 1) -> Held]
      /\ \A i \in 0..n : at1[i] = at[i] /\ out1[i] = out[i] /\ items1[i] = items[i]
      /\ at1[n + 1] = a1 /\ out1[n + 1] = o1 /\ items1[n + 1] = i1
  <2>1. \A i \in 0..(n + 1) : i # n + 1 => i \in 0..n
    OBVIOUS
  <2>2. \A i \in 0..n : i \in 0..(n + 1) /\ i # n + 1
    OBVIOUS
  <2>3. n + 1 \in 0..(n + 1)
    OBVIOUS
  <2> QED
    BY <2>1, <2>2, <2>3, <1>5
<1> HIDE DEF at1, out1, items1
<1>10. Starts(at1[0], out1[0], items1[0])'
  <2>1. \A o : Exact(o) => Exact(o)'
    BY ExactStays DEF coordVars, prefixVars
  <2>2. Starts(at[0], out[0], items[0])'
    BY <2>1, <1>4 DEF Starts, coordVars, prefixVars
  <2> QED
    BY <2>2, <1>6, <1>9
<1>11. ASSUME NEW i \in 1..(n + 1)
       PROVE  Follows(bus'[i], at1[i - 1], out1[i - 1], items1[i - 1], at1[i], out1[i],
       items1[i])
  <2>1. CASE i = n + 1
    <3>1. i - 1 = n
      BY <2>1
    <3> QED
      BY <2>1, <3>1, <1>3, <1>6, <1>8, <1>9
  <2>2. CASE i # n + 1
    <3>1. i \in 1..n /\ i \in 0..n /\ i - 1 \in 0..n
      BY <2>2
    <3> QED
      BY <3>1, <1>3, <1>4, <1>9
  <2> QED
    BY <2>1, <2>2
<1>12. ASSUME NEW i \in 0..(n + 1) PROVE Passes(at1[i], out1[i], items1[i])'
  <2>1. CASE i = n + 1
    BY <2>1, <1>8, <1>9
  <2>2. CASE i # n + 1
    <3>1. i \in 0..n
      BY <2>2
    <3>2. Passes(at[i], out[i], items[i]) /\ out[i] \in Seq(Tokens)
      BY <3>1, <1>4, <1>5
    <3>3. Opens(out[i], output[attempt]) => Opens(out[i], output'[attempt])
      BY <3>2, <1>6, OpensFacts
    <3>4. Passes(at[i], out[i], items[i])'
      BY <3>2, <3>3 DEF Passes
    <3> QED
      BY <3>1, <3>4, <1>9
  <2> QED
    BY <2>1, <2>2
<1>13. Arrives(at1[n + 1], out1[n + 1], items1[n + 1])'
  BY <1>8, <1>9
<1>14. Replays(at1, out1, items1)'
  BY <1>3, <1>10, <1>11, <1>12, <1>13 DEF Replays
<1> QED
  BY <1>3, <1>9, <1>14 DEF ReplayInv

-----------------------------------------------------------------------------
\* Acknowledging keeps the stream exact.
LEMMA AdvanceExact ==
    ASSUME IndInv, NEW cursor \in 1..Len(log), AdvanceAck(cursor), UNCHANGED <<log, attempt>>,
           NEW o \in Seq(Tokens)
    PROVE  (Exact(o) => Exact(o)') /\ (Begins(o) => Begins(o)')
<1>1. CASE ~(cursor > acked)
  <2>1. UNCHANGED <<ackedPrefix, tokens>>
    BY <1>1 DEF AdvanceAck
  <2> QED
    BY <2>1, ExactStays
<1>2. CASE cursor > acked
  <2> DEFINE A == Upto(Waiting, cursor)
             g == Gained(cursor)
  <2>1. ackedPrefix' = ackedPrefix \o g /\ Waiting' = Waiting \ A
    BY <1>2, AdvanceEffect DEF IndInv
  <2>2. /\ g \in Seq(Tokens) /\ Len(g) = Cardinality(A)
        /\ \A i \in 1..Cardinality(A) : \E c \in A : g[i] = log[c] /\ Cardinality(Upto(A, c)) = i
    BY <1>2, GainedEffect DEF IndInv
  <2>3. Waiting \in SUBSET Nat /\ IsFiniteSet(Waiting) /\ ackedPrefix \in Seq(Tokens) /\ cursor \in Nat
    BY WaitingFinite DEF IndInv, TypeOK
  <2>4. A = Upto(Waiting, cursor)
    OBVIOUS
  <2>5. Orders(g, A, log)
    BY <2>2 DEF Orders
  <2> HIDE DEF A, g
  <2>6. /\ BeginsWith(ackedPrefix, Waiting, log, o) => BeginsWith(ackedPrefix \o g, Waiting \ A, log, o)
        /\ ExactWith(ackedPrefix, Waiting, log, o) => ExactWith(ackedPrefix \o g, Waiting \ A, log, o)
    BY <2>2, <2>3, <2>4, <2>5, BeginsAdvance
  <2> QED
    BY <2>1, <2>6 DEF Exact, Begins
<1> QED
  BY <1>1, <1>2

\* What the engine does when it publishes e.
EngineEffect(e) ==
    /\ bus' = Append(bus, e)
    /\ e.type = "end" => output' = output /\ held' = held /\ phase' = "ended"
    /\ e.type # "end" => phase' = "running"
    /\ e.type = "text" => /\ output' = [output EXCEPT ![attempt] = Append(output[attempt], e.id)]
                          /\ held' = held
    /\ e.type = "speculative" => /\ held' = [held EXCEPT ![e.branch] = Append(held[e.branch], e.id)]
                                 /\ output' = output
    /\ e.type = "accept" => /\ output' = [output EXCEPT ![attempt] = output[attempt] \o held[e.branch]]
                            /\ held' = [held EXCEPT ![e.branch] = <<>>]
    /\ e.type = "cancel" => held' = [held EXCEPT ![e.branch] = <<>>] /\ output' = output

\* The engine publishes an event, with its effect on output and branches, or ends.
LEMMA EngineCases ==
    ASSUME IndInv, EngineStep
    PROVE  \/ bus' = bus /\ output' = output /\ held' = held /\ phase' = "ended"
           \/ \E e \in Events : EngineEffect(e)
<1>0. published + 1 \in Tokens
  BY DEF IndInv, TypeOK, Tokens
<1>1. CASE PublishText
  <2>1. Text(published + 1) \in Events
    BY <1>0 DEF Text, Events
  <2>2. EngineEffect(Text(published + 1))
    BY <1>1 DEF PublishText, Publishes, EngineEffect, Text
  <2> QED
    BY <2>1, <2>2
<1>2. ASSUME NEW b \in Branches, PublishSpeculative(b) PROVE \E e \in Events : EngineEffect(e)
  <2> DEFINE e == [type |-> "speculative", id |-> published + 1, branch |-> b]
  <2>1. e \in Events
    BY <1>0 DEF Events
  <2>2. EngineEffect(e)
    BY <1>2 DEF PublishSpeculative, Publishes, EngineEffect
  <2> QED
    BY <2>1, <2>2
<1>3. ASSUME NEW b \in Branches, PublishAccept(b) PROVE \E e \in Events : EngineEffect(e)
  <2>1. On("accept", b) \in Events
    BY DEF Events, On
  <2>2. EngineEffect(On("accept", b))
    BY <1>3 DEF PublishAccept, Publishes, EngineEffect, On
  <2> QED
    BY <2>1, <2>2
<1>4. ASSUME NEW b \in Branches, PublishCancel(b) PROVE \E e \in Events : EngineEffect(e)
  <2>1. On("cancel", b) \in Events
    BY DEF Events, On
  <2>2. EngineEffect(On("cancel", b))
    BY <1>4 DEF PublishCancel, Publishes, EngineEffect, On
  <2> QED
    BY <2>1, <2>2
<1>5. ASSUME NEW s, NEW runEnd \in BOOLEAN, EndAttempt(s, runEnd)
      PROVE  \/ bus' = bus /\ output' = output /\ held' = held /\ phase' = "ended"
             \/ \E e \in Events : EngineEffect(e)
  <2>1. CASE ~runEnd
    BY <1>5, <2>1 DEF EndAttempt
  <2>2. CASE runEnd
    <3>1. [type |-> "end"] \in Events
      BY DEF Events
    <3>2. EngineEffect([type |-> "end"])
      BY <1>5, <2>2 DEF EndAttempt, EngineEffect
    <3> QED
      BY <3>1, <3>2
  <2> QED
    BY <2>1, <2>2
<1> QED
  BY <1>1, <1>2, <1>3, <1>4, <1>5 DEF EngineStep

\* The output and the open branches keep their types; the output only grows.
LEMMA EngineGrows ==
    ASSUME IndInv, EngineStep
    PROVE  /\ output' \in [1..MaxAttempts -> Seq(Tokens)] /\ held' \in [Branches -> Seq(Tokens)]
           /\ bus' \in Seq(Events)
           /\ Opens(output[attempt], output'[attempt])
           /\ \A a \in 1..MaxAttempts : a # attempt => output'[a] = output[a]
<1>1. /\ attempt \in 1..MaxAttempts /\ output \in [1..MaxAttempts -> Seq(Tokens)]
      /\ held \in [Branches -> Seq(Tokens)] /\ bus \in Seq(Events)
  BY DEF IndInv, TypeOK
<1>2. output[attempt] \in Seq(Tokens)
  BY <1>1
<1>3. Opens(output[attempt], output[attempt])
  BY <1>2, OpensFacts
<1>4. CASE bus' = bus /\ output' = output /\ held' = held
  BY <1>1, <1>3, <1>4
<1>5. ASSUME NEW e \in Events, EngineEffect(e)
      PROVE  /\ output' \in [1..MaxAttempts -> Seq(Tokens)] /\ held' \in [Branches -> Seq(Tokens)]
             /\ bus' \in Seq(Events)
             /\ Opens(output[attempt], output'[attempt])
             /\ \A a \in 1..MaxAttempts : a # attempt => output'[a] = output[a]
  <2>0. bus' \in Seq(Events)
    BY <1>1, <1>5 DEF EngineEffect
  <2>1. CASE e.type = "text"
    <3>1. e.id \in Tokens /\ output' = [output EXCEPT ![attempt] = Append(output[attempt], e.id)] /\ held' = held
      BY <1>5, <2>1 DEF EngineEffect, Events
    <3>2. Append(output[attempt], e.id) \in Seq(Tokens) /\ Opens(output[attempt], Append(output[attempt], e.id))
      BY <1>2, <3>1, OpensFacts
    <3> QED
      BY <2>0, <3>1, <3>2, <1>1
  <2>2. CASE e.type = "speculative"
    <3>1. /\ e.id \in Tokens /\ e.branch \in Branches /\ output' = output
          /\ held' = [held EXCEPT ![e.branch] = Append(held[e.branch], e.id)]
      BY <1>5, <2>2 DEF EngineEffect, Events
    <3>2. Append(held[e.branch], e.id) \in Seq(Tokens)
      BY <3>1, <1>1
    <3> QED
      BY <2>0, <3>1, <3>2, <1>1, <1>3
  <2>3. CASE e.type = "accept"
    <3>1. /\ e.branch \in Branches /\ held' = [held EXCEPT ![e.branch] = <<>>]
          /\ output' = [output EXCEPT ![attempt] = output[attempt] \o held[e.branch]]
      BY <1>5, <2>3 DEF EngineEffect, Events
    <3>2. held[e.branch] \in Seq(Tokens) /\ <<>> \in Seq(Tokens)
      BY <3>1, <1>1
    <3>3. /\ output[attempt] \o held[e.branch] \in Seq(Tokens)
          /\ Opens(output[attempt], output[attempt] \o held[e.branch])
      BY <1>2, <3>2, OpensFacts
    <3> QED
      BY <2>0, <3>1, <3>2, <3>3, <1>1
  <2>4. CASE e.type = "cancel"
    <3>1. e.branch \in Branches /\ held' = [held EXCEPT ![e.branch] = <<>>] /\ output' = output
      BY <1>5, <2>4 DEF EngineEffect, Events
    <3>2. <<>> \in Seq(Tokens)
      OBVIOUS
    <3> QED
      BY <2>0, <3>1, <3>2, <1>1, <1>3
  <2>5. CASE e.type = "end"
    BY <2>0, <2>5, <1>1, <1>3, <1>5 DEF EngineEffect
  <2>6. e.type \in {"text", "speculative", "accept", "cancel", "end"}
    BY DEF Events
  <2> QED
    BY <2>1, <2>2, <2>3, <2>4, <2>5, <2>6
<1> QED
  BY <1>4, <1>5, EngineCases

\* A step of the engine extends the replay by its event, if it publishes one.
LEMMA ReplayEngine ==
    ASSUME IndInv, EngineStep PROVE ReplayInv'
<1>1. UNCHANGED <<coordVars, prefixVars, attempt>> /\ phase = "running"
  BY EngineFrame
<1>2. /\ output' \in [1..MaxAttempts -> Seq(Tokens)] /\ Opens(output[attempt], output'[attempt])
      /\ output'[attempt] \in Seq(Tokens) /\ attempt \in 1..MaxAttempts /\ attempt \in Nat
      /\ output \in [1..MaxAttempts -> Seq(Tokens)] /\ held \in [Branches -> Seq(Tokens)]
  <2>1. attempt \in 1..MaxAttempts /\ attempt \in Nat /\ output \in [1..MaxAttempts -> Seq(Tokens)]
        /\ held \in [Branches -> Seq(Tokens)]
    BY DEF IndInv, TypeOK
  <2>2. output' \in [1..MaxAttempts -> Seq(Tokens)] /\ Opens(output[attempt], output'[attempt])
    BY EngineGrows
  <2> QED
    BY <2>1, <2>2
<1>3. CASE bus' = bus /\ output' = output /\ held' = held /\ phase' = "ended"
  <2>1. \A o : Exact(o) => Exact(o)'
    BY <1>1, ExactStays DEF coordVars, prefixVars
  <2> QED
    BY <2>1, <1>1, <1>3, ReplayKeeps DEF coordVars, prefixVars
<1>4. ASSUME NEW e \in Events, EngineEffect(e) PROVE ReplayInv'
  <2>1. ASSUME NEW a0 \in Nat, NEW o0 \in Seq(Tokens), NEW i0 \in Held, a0 <= attempt,
               a0 = attempt => o0 = output[attempt] /\ i0 = held
        PROVE  \E a1 \in Nat, o1 \in Seq(Tokens), i1 \in Held :
                  /\ Follows(e, a0, o0, i0, a1, o1, i1)
                  /\ Passes(a1, o1, i1)' /\ Arrives(a1, o1, i1)'
    <3>0. ASSUME NEW o1 \in Seq(Tokens), NEW i1 \in Held, Follows(e, a0, o0, i0, a0, o1, i1),
                 a0 = attempt => o1 = output'[attempt] /\ i1 = held'
          PROVE  \E a1 \in Nat, o2 \in Seq(Tokens), i2 \in Held :
                    /\ Follows(e, a0, o0, i0, a1, o2, i2)
                    /\ Passes(a1, o2, i2)' /\ Arrives(a1, o2, i2)'
      <4>1. Passes(a0, o1, i1)'
        <5>1. a0 <= attempt + 1 /\ ~(a0 > attempt)
          BY <1>2, <2>1
        <5>2. Opens(output'[attempt], output'[attempt])
          BY <1>2, OpensFacts
        <5> QED
          BY <5>1, <5>2, <3>0, <1>1 DEF Passes
      <4>2. Arrives(a0, o1, i1)'
        BY <3>0, <1>1 DEF Arrives
      <4> QED
        BY <3>0, <4>1, <4>2
    <3>1. CASE e.type = "text"
      <4>1. /\ e.id \in Tokens /\ output' = [output EXCEPT ![attempt] = Append(output[attempt], e.id)]
            /\ held' = held
        BY <1>4, <3>1 DEF EngineEffect, Events
      <4>2. Append(o0, e.id) \in Seq(Tokens) /\ Follows(e, a0, o0, i0, a0, Append(o0, e.id), i0)
        BY <4>1, <3>1 DEF Follows
      <4>3. output'[attempt] = Append(output[attempt], e.id)
        BY <4>1, <1>2
      <4> QED
        BY <4>1, <4>2, <4>3, <2>1, <3>0
    <3>2. CASE e.type = "speculative"
      <4> DEFINE i1 == [i0 EXCEPT ![e.branch] = Append(i0[e.branch], e.id)]
      <4>1. /\ e.id \in Tokens /\ e.branch \in Branches /\ output' = output
            /\ held' = [held EXCEPT ![e.branch] = Append(held[e.branch], e.id)]
        BY <1>4, <3>2 DEF EngineEffect, Events
      <4>2. i1 \in Held
        BY <4>1 DEF Held
      <4>3. Follows(e, a0, o0, i0, a0, o0, i1)
        BY <3>2 DEF Follows
      <4>4. a0 = attempt => i1 = held'
        BY <4>1, <2>1
      <4> HIDE DEF i1
      <4> QED
        BY <4>1, <4>2, <4>3, <4>4, <2>1, <3>0
    <3>3. CASE e.type = "accept"
      <4> DEFINE i1 == [i0 EXCEPT ![e.branch] = <<>>]
                 o1 == o0 \o i0[e.branch]
      <4>1. /\ e.branch \in Branches /\ held' = [held EXCEPT ![e.branch] = <<>>]
            /\ output' = [output EXCEPT ![attempt] = output[attempt] \o held[e.branch]]
        BY <1>4, <3>3 DEF EngineEffect, Events
      <4>2. i1 \in Held /\ i0[e.branch] \in Seq(Tokens)
        BY <4>1 DEF Held
      <4>3. Follows(e, a0, o0, i0, a0, o1, i1)
        BY <3>3 DEF Follows
      <4>4. a0 = attempt => i1 = held' /\ o1 = output'[attempt]
        BY <4>1, <2>1, <1>2
      <4>5. o1 \in Seq(Tokens)
        BY <4>2
      <4> HIDE DEF i1, o1
      <4> QED
        BY <4>2, <4>3, <4>4, <4>5, <3>0
    <3>4. CASE e.type = "cancel"
      <4> DEFINE i1 == [i0 EXCEPT ![e.branch] = <<>>]
      <4>1. e.branch \in Branches /\ output' = output /\ held' = [held EXCEPT ![e.branch] = <<>>]
        BY <1>4, <3>4 DEF EngineEffect, Events
      <4>2. i1 \in Held
        BY <4>1 DEF Held
      <4>3. Follows(e, a0, o0, i0, a0, o0, i1)
        BY <3>4 DEF Follows
      <4>4. a0 = attempt => i1 = held'
        BY <4>1, <2>1
      <4> HIDE DEF i1
      <4> QED
        BY <4>1, <4>2, <4>3, <4>4, <2>1, <3>0
    <3>5. CASE e.type = "end"
      <4>1. NoneHeld \in Held /\ <<>> \in Seq(Tokens) /\ a0 + 1 \in Nat
        BY DEF NoneHeld, Held
      <4>2. Follows(e, a0, o0, i0, a0 + 1, <<>>, NoneHeld)
        BY <3>5 DEF Follows, NoneHeld
      <4>3. phase' = "ended" /\ output' = output
        BY <3>5, <1>4 DEF EngineEffect
      <4>4. Passes(a0 + 1, <<>>, NoneHeld)'
        <5>1. a0 + 1 <= attempt + 1
          BY <2>1, <1>2
        <5>2. Opens(<<>>, output'[attempt])
          BY <1>2, OpensFacts
        <5> QED
          BY <5>1, <5>2, <4>3, <1>1 DEF Passes
      <4>5. Arrives(a0 + 1, <<>>, NoneHeld)'
        BY <4>3 DEF Arrives
      <4> QED
        BY <4>1, <4>2, <4>4, <4>5
    <3>6. e.type \in {"text", "speculative", "accept", "cancel", "end"}
      BY DEF Events
    <3> QED
      BY <3>1, <3>2, <3>3, <3>4, <3>5, <3>6
  <2>2. bus' = Append(bus, e)
    BY <1>4 DEF EngineEffect
  <2> QED
    BY <2>1, <2>2, <1>1, <1>2, ReplayAppends
<1> QED
  BY <1>3, <1>4, EngineCases

-----------------------------------------------------------------------------
\* A revision moves the engine to the attempt that the replay already ends in.
LEMMA ReplayRevises ==
    ASSUME IndInv, OnRunRevise PROVE ReplayInv'
<1>1. PICK at \in [0..Len(bus) -> Nat], out \in [0..Len(bus) -> Seq(Tokens)], items \in [0..Len(bus) -> Held] :
         Replays(at, out, items)
  BY DEF IndInv, ReplayInv
<1>2. /\ UNCHANGED <<bus, cAttempt, finalized, dead, branches, output>> /\ attempt' = attempt + 1
      /\ held' = NoneHeld /\ tokens' = {} /\ ackedPrefix' = <<>> /\ attempt < MaxAttempts
  BY AttemptTokens DEF OnRunRevise, coordVars, NoneHeld, IndInv
<1>3. Len(bus) \in Nat /\ attempt \in Nat /\ MaxAttempts \in Nat /\ <<>> \in Seq(Tokens)
  BY StreamAssumption DEF IndInv, TypeOK
<1>4. 0 \in 0..Len(bus) /\ Len(bus) \in 0..Len(bus) /\ attempt + 1 \in attempt + 1 .. MaxAttempts
  BY <1>2, <1>3
<1>5. output[attempt + 1] = <<>>
  BY <1>4 DEF IndInv, PrefixInv
<1>6. \A i \in 0..Len(bus) : at[i] \in Nat /\ out[i] \in Seq(Tokens) /\ Passes(at[i], out[i], items[i])
  BY <1>1 DEF Replays
<1>7. \A i \in 0..Len(bus) : at[i] <= attempt + 1 /\ (at[i] = attempt + 1 => out[i] = <<>> /\ items[i] = NoneHeld)
  <2>1. ASSUME NEW i \in 0..Len(bus), at[i] = attempt + 1 PROVE at[i] > attempt
    BY <2>1, <1>3
  <2> QED
    BY <2>1, <1>6 DEF Passes
<1>8. Starts(at[0], out[0], items[0])'
  <2>1. Starts(at[0], out[0], items[0])
    BY <1>1 DEF Replays
  <2>2. Exact(<<>>)'
    BY <1>2, <1>3, ExactNothing
  <2>3. ASSUME ~finalized, cAttempt = attempt + 1 PROVE out[0] = <<>>
    BY <2>1, <2>3, <1>4, <1>7 DEF Starts
  <2> QED
    BY <2>1, <2>2, <2>3, <1>2 DEF Starts
<1>9. ASSUME NEW i \in 0..Len(bus) PROVE Passes(at[i], out[i], items[i])'
  <2>1. at[i] \in Nat /\ at[i] <= attempt + 1 /\ (at[i] = attempt + 1 => out[i] = <<>>)
    BY <1>6, <1>7
  <2>2. Opens(<<>>, <<>>)
    BY <1>3, OpensFacts
  <2>3. at[i] <= attempt' + 1 /\ ~(at[i] > attempt')
    BY <2>1, <1>2, <1>3
  <2> QED
    BY <2>1, <2>2, <2>3, <1>2, <1>5 DEF Passes
<1>10. Arrives(at[Len(bus)], out[Len(bus)], items[Len(bus)])'
  BY <1>2, <1>4, <1>5, <1>7 DEF Arrives
<1>11. Replays(at, out, items)'
  <2>1. \A i \in 1..Len(bus) :
           Follows(bus[i], at[i - 1], out[i - 1], items[i - 1], at[i], out[i], items[i])
    BY <1>1 DEF Replays
  <2> QED
    BY <2>1, <1>2, <1>8, <1>9, <1>10 DEF Replays
<1> QED
  BY <1>1, <1>2, <1>11 DEF ReplayInv

\* Every step keeps the bus a replay from the coordinator to the engine.
LEMMA ReplayStep ==
    ASSUME IndInv, Next PROVE ReplayInv'
<1>1. ASSUME UNCHANGED <<bus, attempt, output, held, branches, cAttempt, dead, finalized, log>>,
             phase' = "running" => phase = "running",
             \/ UNCHANGED prefixVars \/ Freeze
             \/ \E reason \in Reasons \ {"no"} : Detach(reason)
             \/ ~frozen /\ \E c \in 1..Len(log) : AdvanceAck(c)
      PROVE  ReplayInv'
  <2>1. CASE UNCHANGED prefixVars
    <3>1. \A o : Exact(o) => Exact(o)'
      BY <1>1, <2>1, ExactStays DEF prefixVars
    <3> QED
      BY <3>1, <1>1, <2>1, ReplayKeeps DEF prefixVars
  <2>2. CASE frozen'
    BY <2>2, <1>1, ReplayKeeps
  <2>3. ASSUME ~frozen, NEW c \in 1..Len(log), AdvanceAck(c) PROVE ReplayInv'
    <3>1. \A o \in Seq(Tokens) : Exact(o) => Exact(o)'
      BY <1>1, <2>3, AdvanceExact
    <3> QED
      BY <3>1, <1>1, <2>3, ReplayKeeps
  <2> QED
    BY <1>1, <2>1, <2>2, <2>3 DEF Freeze, Detach
<1>2. CASE FinishStep
  <2>1. CASE FinalizeSleeps \/ FinalizeWakes \/ FinishTurn
    BY <2>1, <1>1 DEF FinalizeSleeps, FinalizeWakes, FinishTurn, coordVars
  <2>2. CASE Settle
    BY <2>2, <1>1 DEF Settle, coordVars, Reasons
  <2>3. CASE OnRunRevise
    BY <2>3, ReplayRevises
  <2>4. CASE FinalizeTimesOut
    BY <2>4, <1>1 DEF FinalizeTimesOut, coordVars, Reasons
  <2>5. CASE FinalizeEmits
    BY <2>5, FinalizeCases, ReplayKeeps DEF IndInv
  <2> QED
    BY <1>2, <2>1, <2>2, <2>3, <2>4, <2>5 DEF FinishStep
<1>3. CASE SinkStep
  <2>1. CASE Offer \/ CallReturns \/ CallAbandoned \/ SinkStops
    BY <2>1, <1>1 DEF Offer, CallReturns, CallAbandoned, SinkStops, coordVars, engineVars
  <2>2. CASE CallFails \/ DetachOverrun \/ DetachAtEnd
    BY <2>2, <1>1 DEF CallFails, DetachOverrun, DetachAtEnd, coordVars, engineVars, Reasons
  <2>3. CASE SinkDelivered
    <3>1. inCall \in 1..Len(log)
      BY <2>3, CursorTypes DEF SinkDelivered, IndInv, QueueInv
    <3> QED
      BY <2>3, <3>1, <1>1 DEF SinkDelivered, coordVars, engineVars, prefixVars
  <2> QED
    BY <1>3, <2>1, <2>2, <2>3 DEF SinkStep
<1>4. CASE Interrupt
  BY <1>1, <1>4 DEF Interrupt, coordVars, engineVars
<1>5. ASSUME NEW c \in 1..Len(log), Ack(c) PROVE ReplayInv'
  BY <1>1, <1>5 DEF Ack, coordVars, engineVars
<1> QED
  BY <1>2, <1>3, <1>4, <1>5, ReplayEngine, ReplayShifts DEF Next

-----------------------------------------------------------------------------
\* Every step keeps what is acknowledged or waiting a beginning of the output.
LEMMA PrefixStep ==
    ASSUME IndInv, Next PROVE PrefixInv'
<1>0. /\ attempt \in 1..MaxAttempts /\ attempt \in Nat /\ cAttempt \in Nat /\ MaxAttempts \in Nat
      /\ output[attempt] \in Seq(Tokens) /\ ackedPrefix \in Seq(Tokens) /\ frozenPrefix \in Seq(Tokens)
      /\ Waiting \in SUBSET Nat /\ IsFiniteSet(Waiting)
  <2>1. attempt \in 1..MaxAttempts /\ cAttempt \in Nat /\ MaxAttempts \in Nat
    BY StreamAssumption DEF IndInv, TypeOK
  <2>2. output[attempt] \in Seq(Tokens) /\ ackedPrefix \in Seq(Tokens) /\ frozenPrefix \in Seq(Tokens)
    BY <2>1 DEF IndInv, TypeOK
  <2>3. Waiting \in SUBSET Nat /\ IsFiniteSet(Waiting)
    BY WaitingFinite DEF IndInv
  <2> QED
    BY <2>1, <2>2, <2>3
<1>1. ASSUME UNCHANGED <<attempt, output, frozen, frozenPrefix>>, ~frozen => Begins(output[attempt])',
             cAttempt' < attempt => cAttempt < attempt,
             cAttempt < attempt => UNCHANGED <<tokens, ackedPrefix>>
      PROVE  PrefixInv'
  BY <1>1 DEF IndInv, PrefixInv
<1>2. ASSUME UNCHANGED <<attempt, output>>, cAttempt' < attempt => cAttempt < attempt, frozen' = TRUE,
             tokens' = {}, ackedPrefix' = ackedPrefix,
             frozenPrefix' = IF frozen THEN frozenPrefix ELSE ackedPrefix
      PROVE  PrefixInv'
  <2>1. ~frozen => Opens(ackedPrefix, output[attempt])
    BY <1>0, BeginsOpens DEF IndInv, PrefixInv, Begins
  <2>2. Opens(frozenPrefix', output[attempt])
    BY <2>1, <1>2 DEF IndInv, PrefixInv
  <2> QED
    BY <2>2, <1>2 DEF IndInv, PrefixInv
<1>3. ASSUME UNCHANGED <<attempt, output, frozen, frozenPrefix, tokens, ackedPrefix, log>>,
             cAttempt' < attempt => cAttempt < attempt
      PROVE  PrefixInv'
  <2>1. Begins(output[attempt]) => Begins(output[attempt])'
    <3>1. \A o : Begins(o) => BeginsWith(ackedPrefix', Waiting', log', o)
      BY <1>3, ExactStays DEF Begins
    <3> QED
      BY <3>1, <1>3 DEF Begins
  <2> QED
    BY <2>1, <1>1, <1>3 DEF IndInv, PrefixInv
<1>4. ASSUME NEW reason \in Reasons \ {"no"}, Detach(reason), UNCHANGED <<attempt, output, log>>,
             cAttempt' < attempt => cAttempt < attempt
      PROVE  PrefixInv'
  BY <1>2, <1>3, <1>4, DetachEffect DEF IndInv
<1>5. ASSUME Freeze, UNCHANGED <<attempt, output, cAttempt>> PROVE PrefixInv'
  BY <1>2, <1>5, FreezeEffect DEF IndInv
<1>6. ASSUME NEW c \in 1..Len(log), AdvanceAck(c), ~frozen,
             UNCHANGED <<attempt, output, cAttempt, log, frozen, frozenPrefix>>
      PROVE  PrefixInv'
  <2>1. Begins(output[attempt])'
    <3>1. \A o \in Seq(Tokens) : Begins(o) => BeginsWith(ackedPrefix', Waiting', log', o)
      BY <1>6, AdvanceExact DEF Begins
    <3>2. Begins(output[attempt])
      BY <1>6 DEF IndInv, PrefixInv
    <3> QED
      BY <3>1, <3>2, <1>0, <1>6 DEF Begins
  <2>2. ASSUME cAttempt < attempt PROVE tokens' = tokens /\ ackedPrefix' = ackedPrefix
    <3>1. tokens = {} /\ ackedPrefix = <<>>
      BY <2>2 DEF IndInv, PrefixInv
    <3>2. CASE c > acked
      <4>1. /\ ackedPrefix' = ackedPrefix \o Gained(c) /\ tokens' \subseteq tokens
        BY <3>2, <1>6, AdvanceEffect DEF IndInv
      <4>2. Gained(c) \in Seq(Tokens) /\ Len(Gained(c)) = Cardinality(Upto(Waiting, c))
        BY <3>2, <1>6, GainedEffect DEF IndInv
      <4>3. Upto(Waiting, c) = {}
        BY <3>1, NoneWaiting DEF Upto
      <4>4. Len(Gained(c)) = 0
        BY <4>2, <4>3, FS_EmptySet
      <4>5. Gained(c) = <<>>
        BY <4>2, <4>4
      <4> QED
        BY <4>1, <4>5, <3>1
    <3>3. CASE ~(c > acked)
      BY <3>3, <1>6 DEF AdvanceAck
    <3> QED
      BY <3>2, <3>3
  <2> QED
    BY <2>1, <2>2, <1>1, <1>6
<1>7. ASSUME NEW ids \in Seq(Entries), Emit(ids), cAttempt # attempt, UNCHANGED <<attempt, output, cAttempt>>
      PROVE  PrefixInv'
  <2>1. CASE frozen' = TRUE /\ tokens' = {} /\ ackedPrefix' = ackedPrefix
              /\ frozenPrefix' = IF frozen THEN frozenPrefix ELSE ackedPrefix
    BY <2>1, <1>2, <1>7
  <2>2. CASE UNCHANGED <<ackedPrefix, frozen, frozenPrefix>> /\ tokens' = tokens \cup Recorded(ids)
    <3>1. Recorded(ids) = {} /\ Waiting' = Waiting
      BY <2>2, <1>7, EmitWaits, RecordedEffect DEF IndInv
    <3>2. \A c \in 1..Len(log) : log'[c] = log[c]
      BY <1>7, EmitEffect DEF IndInv
    <3>3. \A c \in Waiting : log'[c] = log[c]
      BY <3>2 DEF Waiting
    <3>4. ~frozen => Begins(output[attempt])'
      <4>1. ~frozen => BeginsWith(ackedPrefix, Waiting, log, output[attempt])
        BY DEF IndInv, PrefixInv, Begins
      <4>2. ~frozen => BeginsWith(ackedPrefix, Waiting, log', output[attempt])
        BY <4>1, <3>3 DEF BeginsWith
      <4> QED
        BY <4>2, <3>1, <2>2, <1>7 DEF Begins
    <3> QED
      BY <3>1, <3>4, <2>2, <1>1, <1>7
  <2> QED
    BY <2>1, <2>2, <1>7, EmitEffect DEF IndInv
<1>8. CASE FinishStep
  <2>1. CASE FinalizeSleeps \/ FinalizeWakes \/ FinishTurn
    BY <2>1, <1>3 DEF FinalizeSleeps, FinalizeWakes, FinishTurn, coordVars, prefixVars
  <2>2. CASE Settle
    BY <2>2, <1>3, <1>4, <1>5 DEF Settle, coordVars, prefixVars, Reasons
  <2>3. CASE OnRunRevise
    <3>1. /\ attempt' = attempt + 1 /\ UNCHANGED <<output, cAttempt>> /\ tokens' = {} /\ ackedPrefix' = <<>>
          /\ frozen' = FALSE /\ attempt < MaxAttempts
      BY <2>3, AttemptTokens DEF OnRunRevise, coordVars, IndInv
    <3>2. attempt + 1 \in 1..MaxAttempts /\ output[attempt + 1] \in Seq(Tokens)
      <4>1. attempt + 1 \in 1..MaxAttempts
        BY <3>1, <1>0
      <4> QED
        BY <4>1 DEF IndInv, TypeOK
    <3>3. \A o \in Seq(Tokens) : BeginsWith(ackedPrefix', Waiting', log', o)
      BY <3>1, ExactNothing DEF Begins
    <3>4. Begins(output[attempt])'
      BY <3>1, <3>2, <3>3 DEF Begins
    <3>5. \A a \in attempt' + 1 .. MaxAttempts : output'[a] = <<>>
      <4>1. \A a \in attempt' + 1 .. MaxAttempts : a \in attempt + 1 .. MaxAttempts
        BY <3>1, <1>0
      <4> QED
        BY <4>1, <3>1 DEF IndInv, PrefixInv
    <3> QED
      BY <3>1, <3>4, <3>5 DEF PrefixInv
  <2>4. CASE FinalizeTimesOut
    BY <2>4, <1>4 DEF FinalizeTimesOut, coordVars, Reasons
  <2>5. CASE FinalizeEmits
    <3>1. UNCHANGED <<attempt, output, cAttempt>> /\ cAttempt # attempt
      BY <2>5, <1>0, FinalizeCases DEF IndInv
    <3>2. CASE UNCHANGED streamed
      BY <3>1, <3>2, <1>3 DEF streamed
    <3>3. CASE UNCHANGED <<log, queue>> /\ Detach("failed")
      BY <3>1, <3>3, <1>4 DEF Reasons
    <3>4. CASE Emit(<<End>>)
      BY <3>1, <3>4, <1>7, EntryTypes
    <3> QED
      BY <2>5, <3>2, <3>3, <3>4, FinalizeCases DEF IndInv
  <2> QED
    BY <1>8, <2>1, <2>2, <2>3, <2>4, <2>5 DEF FinishStep
<1>9. CASE SinkStep
  <2>1. CASE Offer \/ CallReturns \/ CallAbandoned \/ SinkStops
    BY <2>1, <1>3 DEF Offer, CallReturns, CallAbandoned, SinkStops, coordVars, engineVars,
       prefixVars
  <2>2. CASE CallFails \/ DetachOverrun \/ DetachAtEnd
    BY <2>2, <1>4 DEF CallFails, DetachOverrun, DetachAtEnd, coordVars, engineVars, Reasons
  <2>3. CASE SinkDelivered
    <3>1. inCall \in 1..Len(log)
      BY <2>3, CursorTypes DEF SinkDelivered, IndInv, QueueInv
    <3> QED
      BY <2>3, <3>1, <1>3, <1>6 DEF SinkDelivered, coordVars, engineVars
  <2> QED
    BY <1>9, <2>1, <2>2, <2>3 DEF SinkStep
<1>10. CASE EngineStep
  <2>1. UNCHANGED <<coordVars, prefixVars, attempt>>
    BY <1>10, EngineFrame
  <2>2. /\ output' \in [1..MaxAttempts -> Seq(Tokens)] /\ Opens(output[attempt], output'[attempt])
        /\ \A a \in 1..MaxAttempts : a # attempt => output'[a] = output[a]
    BY <1>10, EngineGrows
  <2>3. output'[attempt] \in Seq(Tokens)
    BY <2>2, <1>0
  <2>4. frozen => Opens(frozenPrefix, output'[attempt])
    <3>1. frozen => Opens(frozenPrefix, output[attempt])
      BY DEF IndInv, PrefixInv
    <3> QED
      BY <3>1, <2>2, <2>3, <1>0, OpensFacts
  <2>5. ~frozen => Begins(output[attempt])'
    <3>1. ~frozen => BeginsWith(ackedPrefix, Waiting, log, output[attempt])
      BY DEF IndInv, PrefixInv, Begins
    <3>2. ~frozen => BeginsWith(ackedPrefix, Waiting, log, output'[attempt])
      BY <3>1, <2>2, <2>3, <1>0, BeginsLonger
    <3>3. UNCHANGED <<ackedPrefix, log, tokens>> /\ Waiting' = Waiting
      BY <2>1 DEF coordVars, prefixVars, Waiting
    <3> QED
      BY <3>2, <3>3, <2>1 DEF Begins
  <2>6. \A a \in attempt + 1 .. MaxAttempts : output'[a] = <<>>
    <3>1. \A a \in attempt + 1 .. MaxAttempts : a \in 1..MaxAttempts /\ a # attempt
      BY <1>0
    <3> QED
      BY <3>1, <2>2 DEF IndInv, PrefixInv
  <2> QED
    BY <2>1, <2>4, <2>5, <2>6 DEF IndInv, PrefixInv, coordVars, prefixVars
<1>11. CASE OnDelta
  <2> DEFINE e == Head(bus)
  <2>1. \/ DeltaSkips(e) \/ DeltaFails(e) \/ DeltaEnds(e) \/ DeltaBuffers(e) \/ DeltaEmits(e)
    BY <1>11, DeltaCases DEF IndInv
  <2>2. UNCHANGED <<attempt, output, spec>>
    BY <1>11, DeltaCases DEF IndInv, engineVars
  <2> HIDE DEF e
  <2>3. cAttempt' < attempt => cAttempt < attempt
    <3>1. cAttempt' = cAttempt \/ cAttempt' = cAttempt + 1
      BY <2>1 DEF DeltaSkips, DeltaFails, DeltaEnds, DeltaBuffers, DeltaEmits, coordinated
    <3> QED
      BY <3>1, <1>0
  <2>4. CASE DeltaSkips(e) \/ DeltaEnds(e) \/ DeltaBuffers(e)
    BY <2>2, <2>3, <2>4, <1>3 DEF DeltaSkips, DeltaEnds, DeltaBuffers, streamed
  <2>5. CASE DeltaFails(e)
    BY <2>2, <2>3, <2>5, <1>4 DEF DeltaFails, Reasons
  <2>6. CASE DeltaEmits(e)
    <3>1. /\ ~finalized /\ ~dead /\ UNCHANGED <<cAttempt, dead>> /\ Emit(Confirms(e))
      BY <2>6 DEF DeltaEmits
    <3>2. Confirms(e) \in Seq(Entries)
      <4>1. e \in Events
        BY <1>11, DeltaCases DEF IndInv, e
      <4>2. e.type = "text" => e.id \in Tokens
        BY <4>1 DEF Events
      <4>3. e.type = "accept" => branches[e.branch].items \in Seq(Tokens)
        BY <4>1 DEF Events, IndInv, TypeOK, BranchStates
      <4>4. CASE e.type = "text"
        BY <4>2, <4>4 DEF Confirms, Entries
      <4>5. CASE e.type = "accept"
        BY <4>3, <4>5 DEF Confirms, Entries
      <4>6. CASE e.type = "cancel"
        BY <4>6 DEF Confirms, Entries
      <4> QED
        BY <2>6, <4>4, <4>5, <4>6 DEF DeltaEmits
    <3>3. CASE cAttempt # attempt
      BY <3>1, <3>2, <3>3, <2>2, <1>7
    <3>4. CASE cAttempt = attempt
      <4>1. PICK o \in Seq(Tokens) : ~frozen' => Exact(o)' /\ Opens(o, output[attempt])
        BY <3>1, <3>4, <1>11, ReplayShifts
      <4>2. CASE frozen' = TRUE /\ tokens' = {} /\ ackedPrefix' = ackedPrefix
                  /\ frozenPrefix' = IF frozen THEN frozenPrefix ELSE ackedPrefix
        BY <4>2, <3>1, <2>2, <1>2
      <4>3. CASE UNCHANGED <<ackedPrefix, frozen, frozenPrefix>>
        <5>1. ASSUME ~frozen PROVE Begins(output[attempt])'
          <6>1. BeginsWith(ackedPrefix, Waiting', log', o) /\ Opens(o, output[attempt])
            BY <4>1, <4>3, <5>1 DEF Exact, ExactWith
          <6>2. Waiting' \in SUBSET Nat /\ IsFiniteSet(Waiting')
            <7>1. Len(log') \in Nat
              <8>1. log' \in Seq(Entries)
                BY <3>1, <3>2, EmitEffect DEF IndInv
              <8> QED
                BY <8>1
            <7>2. 1 \in Int /\ Len(log') \in Int
              BY <7>1
            <7>3. IsFiniteSet(1..Len(log')) /\ 1..Len(log') \subseteq Nat
              BY <7>1, <7>2, FS_Interval
            <7>4. Waiting' \in SUBSET (1..Len(log'))
              BY DEF Waiting
            <7> QED
              BY <7>3, <7>4, FS_Subset
          <6>3. BeginsWith(ackedPrefix, Waiting', log', output[attempt])
            BY <6>1, <6>2, <1>0, BeginsLonger
          <6> QED
            BY <6>3, <4>3, <2>2 DEF Begins
        <5> QED
          BY <5>1, <4>3, <3>1, <3>4, <2>2, <1>0, <1>1
      <4> QED
        BY <4>2, <4>3, <3>1, <3>2, EmitEffect DEF IndInv
    <3> QED
      BY <3>3, <3>4
  <2> QED
    BY <2>1, <2>4, <2>5, <2>6
<1>12. CASE Interrupt
  BY <1>5, <1>12 DEF Interrupt, coordVars, engineVars
<1>13. ASSUME NEW c \in 1..Len(log), Ack(c) PROVE PrefixInv'
  BY <1>6, <1>13 DEF Ack, coordVars, engineVars
<1> QED
  BY <1>8, <1>9, <1>10, <1>11, <1>12, <1>13 DEF Next

-----------------------------------------------------------------------------
(* The types. *)

EngineType ==
    /\ spec \in SinkSpecs /\ phase \in Phases /\ status \in Statuses
    /\ attempt \in 1..MaxAttempts /\ commitAttempt = attempt
    /\ interrupted \in BOOLEAN /\ committed \in BOOLEAN
    /\ published \in Nat /\ bus \in Seq(Events)
    /\ output \in [1..MaxAttempts -> Seq(Tokens)] /\ held \in [Branches -> Seq(Tokens)]
    /\ view \in Seq(Tokens) /\ saved \in Seq(Tokens)

CoordType ==
    /\ cAttempt \in 1..MaxAttempts + 1
    /\ dead \in BOOLEAN /\ finalized \in BOOLEAN /\ signal \in BOOLEAN
    /\ branches \in [Branches -> BranchStates]

LogType ==
    /\ log \in Seq(Entries)
    /\ inCall \in 0..Len(log) /\ offered \in 0..Len(log)
    /\ delivered \in 0..Len(log) /\ acked \in 0..Len(log)
    /\ queue \in Seq(1..Len(log)) /\ Len(queue) <= QueueSize
    /\ tokens \subseteq (1..Len(log)) \X {attempt}

SinkType ==
    /\ detached \in Reasons /\ frozen \in BOOLEAN
    /\ call \in {"idle", "calling", "returned", "overrun", "ending", "stopped"}
    /\ ackedPrefix \in Seq(Tokens) /\ frozenPrefix \in Seq(Tokens)
    /\ heard \subseteq Entries

\* The parts make up TypeOK.
LEMMA TypeParts ==
    TypeOK <=> EngineType /\ CoordType /\ Pending <= MaxEvents /\ LogType /\ SinkType
  BY DEF TypeOK, EngineType, CoordType, LogType, SinkType, Entries

\* Every step keeps the types of the engine.
LEMMA EngineTypeStep ==
    ASSUME IndInv, Next PROVE EngineType'
<1>a. EngineType /\ frozenPrefix \in Seq(Tokens) /\ ackedPrefix \in Seq(Tokens)
  BY TypeParts DEF IndInv, SinkType
<1>b. output[attempt] \in Seq(Tokens)
  <2>1. output \in [1..MaxAttempts -> Seq(Tokens)] /\ attempt \in 1..MaxAttempts
    BY <1>a DEF EngineType
  <2> QED
    BY <2>1
<1>c. <<>> \in Seq(Tokens)
  OBVIOUS
<1>0. EngineType /\ output[attempt] \in Seq(Tokens) /\ <<>> \in Seq(Tokens)
      /\ frozenPrefix \in Seq(Tokens) /\ ackedPrefix \in Seq(Tokens)
  BY <1>a, <1>b, <1>c
<1>1. CASE EngineStep
  <2>1. /\ output' \in [1..MaxAttempts -> Seq(Tokens)] /\ held' \in [Branches -> Seq(Tokens)]
        /\ bus' \in Seq(Events)
    BY <1>1, EngineGrows
  <2>2. /\ UNCHANGED <<spec, turnVars, attempt, committed, view, saved>> /\ phase' \in {"running", "ended"}
    BY <1>1, EngineFrame
  <2>3. published' \in Nat /\ status' \in Statuses
    <3>0. published \in Nat /\ status \in Statuses
      BY <1>0 DEF EngineType
    <3>1. CASE published' = published + 1 /\ status' = status
      BY <3>0, <3>1
    <3>2. CASE \E s \in Statuses : published' = published /\ status' = s
      BY <3>0, <3>2
    <3>3. ASSUME NEW e, Publishes(e) PROVE published' = published + 1 /\ status' = status
      BY <3>3 DEF Publishes
    <3>4. ASSUME NEW s \in Statuses \ {"none"}, NEW runEnd \in BOOLEAN, EndAttempt(s, runEnd)
          PROVE  published' = published /\ status' = s
      BY <3>4 DEF EndAttempt
    <3> QED
      BY <1>1, <3>1, <3>2, <3>3, <3>4 DEF EngineStep, PublishText, PublishSpeculative,
         PublishAccept, PublishCancel
  <2> QED
    BY <2>1, <2>2, <2>3, <1>0 DEF EngineType, turnVars, Phases
<1>2. CASE OnDelta
  <2>1. /\ UNCHANGED <<engineVars, spec, turnVars>> /\ bus # <<>> /\ bus' = Tail(bus)
    BY <1>2, DeltaCases DEF IndInv
  <2>2. bus' \in Seq(Events)
    BY <2>1, <1>0 DEF EngineType
  <2> QED
    BY <2>1, <2>2, <1>0 DEF EngineType, engineVars, turnVars
<1>3. CASE FinishStep
  <2>0. UNCHANGED spec
    BY <1>3 DEF FinishStep
  <2>1. CASE OnRunRevise
    <3>1. attempt + 1 \in 1..MaxAttempts
      BY <2>1, <1>0, StreamAssumption DEF OnRunRevise, EngineType
    <3>2. [b \in Branches |-> <<>>] \in [Branches -> Seq(Tokens)]
      BY <1>0
    <3> QED
      BY <2>0, <2>1, <3>1, <3>2, <1>0 DEF OnRunRevise, EngineType, Phases
  <2>2. CASE Settle
    <3>1. committed' \in BOOLEAN /\ view' \in Seq(Tokens)
      <4>1. committed' \in BOOLEAN
        BY <2>2 DEF Settle, Accepted
      <4>2. view' \in {frozenPrefix, ackedPrefix, output[attempt]}
        BY <2>2 DEF Settle, CommitView, Committable
      <4> QED
        BY <4>1, <4>2, <1>0
    <3> QED
      BY <2>0, <2>2, <3>1, <1>0 DEF Settle, EngineType, turnVars, Phases
  <2>3. CASE FinalizeSleeps \/ FinalizeWakes \/ FinalizeTimesOut
    BY <2>0, <2>3, <1>0 DEF FinalizeSleeps, FinalizeWakes, FinalizeTimesOut, EngineType,
       turnVars, Phases
  <2>4. CASE FinalizeEmits
    BY <2>0, <2>4, <1>0, FinalizeCases DEF EngineType, turnVars, Phases, IndInv
  <2>5. CASE FinishTurn
    <3>1. saved' \in Seq(Tokens)
      BY <2>5, <1>0 DEF FinishTurn
    <3> QED
      BY <2>0, <2>5, <3>1, <1>0 DEF FinishTurn, EngineType, turnVars, Phases
  <2> QED
    BY <1>3, <2>1, <2>2, <2>3, <2>4, <2>5 DEF FinishStep
<1>4. CASE UNCHANGED <<spec, engineVars, bus, commitAttempt>> /\ interrupted' \in BOOLEAN
  BY <1>4, <1>0 DEF EngineType, engineVars
<1>5. CASE SinkStep
  BY <1>4, <1>5, <1>0 DEF SinkStep, Offer, CallReturns, CallFails, CallAbandoned,
     SinkDelivered, DetachOverrun,
     DetachAtEnd, SinkStops, turnVars, EngineType
<1> QED
  BY <1>0, <1>1, <1>2, <1>3, <1>4, <1>5 DEF Next, Interrupt, Ack, turnVars, EngineType

\* Every step keeps the types of the coordinator.
LEMMA CoordTypeStep ==
    ASSUME IndInv, Next PROVE CoordType'
<1>0. CoordType /\ attempt \in 1..MaxAttempts /\ MaxAttempts \in Nat
  BY StreamAssumption DEF IndInv, TypeOK, CoordType
<1>1. NoBranches \in [Branches -> BranchStates]
  <2>1. NoBranch \in BranchStates
    BY DEF NoBranch, BranchStates
  <2> QED
    BY <2>1 DEF NoBranches
<1>2. CASE OnDelta
  <2> DEFINE e == Head(bus)
  <2>1. \/ DeltaSkips(e) \/ DeltaFails(e) \/ DeltaEnds(e) \/ DeltaBuffers(e) \/ DeltaEmits(e)
    BY <1>2, DeltaCases DEF IndInv
  <2>2. e \in Events /\ finalized' = finalized /\ attempt' = attempt
    BY <1>2, DeltaCases DEF IndInv, engineVars
  <2> HIDE DEF e
  <2>3. cAttempt' \in 1..MaxAttempts + 1
    <3>1. cAttempt' <= attempt + 1
      BY <1>2, ReplayShifts
    <3>2. cAttempt' = cAttempt \/ cAttempt' = cAttempt + 1
      BY <2>1 DEF DeltaSkips, DeltaFails, DeltaEnds, DeltaBuffers, DeltaEmits, coordinated
    <3>3. cAttempt \in 1..MaxAttempts + 1
      BY <1>0 DEF CoordType
    <3> QED
      BY <3>1, <3>2, <3>3, <1>0
  <2>4. dead' \in BOOLEAN /\ signal' \in BOOLEAN
    BY <2>1, <1>0 DEF DeltaSkips, DeltaFails, DeltaEnds, DeltaBuffers, DeltaEmits,
       coordinated, CoordType
  <2>5. branches' \in [Branches -> BranchStates]
    <3>0. branches \in [Branches -> BranchStates]
      BY <1>0 DEF CoordType
    <3>1. CASE DeltaSkips(e)
      BY <3>0, <3>1 DEF DeltaSkips, coordinated
    <3>2. CASE DeltaFails(e) \/ DeltaEnds(e)
      BY <3>2, <1>1 DEF DeltaFails, DeltaEnds
    <3>3. CASE DeltaBuffers(e)
      <4>1. e.branch \in Branches /\ e.id \in Tokens
        BY <2>2, <3>3 DEF DeltaBuffers, Events
      <4>2. [state |-> "open", items |-> Append(branches[e.branch].items, e.id)] \in BranchStates
        <5>1. branches[e.branch].items \in Seq(Tokens)
          BY <3>0, <4>1 DEF BranchStates
        <5>2. Append(branches[e.branch].items, e.id) \in Seq(Tokens)
          BY <4>1, <5>1
        <5> QED
          BY <5>2 DEF BranchStates
      <4> QED
        BY <3>0, <3>3, <4>1, <4>2 DEF DeltaBuffers
    <3>4. CASE DeltaEmits(e)
      <4>1. CASE e.type = "text"
        BY <3>0, <3>4, <4>1 DEF DeltaEmits
      <4>2. CASE e.type # "text"
        <5>1. e.branch \in Branches /\ e.type \in {"accept", "cancel"}
          BY <2>2, <3>4, <4>2 DEF DeltaEmits, Events
        <5>2. [state |-> e.type, items |-> <<>>] \in BranchStates
          BY <5>1 DEF BranchStates
        <5> QED
          BY <3>0, <3>4, <4>2, <5>1, <5>2 DEF DeltaEmits
      <4> QED
        BY <4>1, <4>2
    <3> QED
      BY <2>1, <3>1, <3>2, <3>3, <3>4
  <2> QED
    BY <2>2, <2>3, <2>4, <2>5, <1>0 DEF CoordType
<1>3. CASE FinalizeEmits
  <2>1. dead' \in BOOLEAN /\ UNCHANGED <<cAttempt, signal>> /\ finalized' = TRUE /\ branches' = NoBranches
    BY <1>3, <1>0, FinalizeCases DEF IndInv, CoordType
  <2> QED
    BY <2>1, <1>0, <1>1 DEF CoordType
<1>4. CASE UNCHANGED <<branches, cAttempt, dead, finalized>> /\ signal' \in BOOLEAN
  BY <1>4, <1>0 DEF CoordType
<1>5. CASE UNCHANGED coordVars
  BY <1>0, <1>5 DEF CoordType, coordVars
<1> QED
  <2>1. CASE EngineStep
    BY <2>1, <1>5, EngineFrame
  <2>2. CASE FinishStep
    BY <2>2, <1>3, <1>4, <1>5 DEF FinishStep, OnRunRevise, Settle, FinalizeSleeps,
       FinalizeWakes,
       FinalizeTimesOut, FinishTurn
  <2>3. CASE SinkStep
    BY <2>3, <1>5 DEF SinkStep, Offer, CallReturns, CallFails, CallAbandoned, SinkDelivered,
       DetachOverrun,
       DetachAtEnd, SinkStops
  <2> QED
    BY <1>2, <1>5, <2>1, <2>2, <2>3 DEF Next, Interrupt, Ack

\* Every step keeps the types of the log and its cursors.
LEMMA LogTypeStep ==
    ASSUME IndInv, Next PROVE LogType'
<1>0. LogType /\ attempt \in Nat /\ Len(log) \in Nat
  BY DEF IndInv, TypeOK, LogType, Entries
<1>1. ASSUME UNCHANGED <<log, queue, attempt>>, tokens' \subseteq tokens,
             inCall' \in 0..Len(log), offered' \in 0..Len(log), delivered' \in 0..Len(log), acked' \in 0..Len(log)
      PROVE  LogType'
  BY <1>0, <1>1 DEF LogType
<1>2. ASSUME UNCHANGED <<log, queue, attempt, inCall, offered, delivered, acked>>, tokens' \subseteq tokens
      PROVE  LogType'
  BY <1>1, <1>2, <1>0 DEF LogType
<1>3. ASSUME NEW reason \in Reasons \ {"no"}, Detach(reason),
             UNCHANGED <<log, queue, attempt, inCall, offered, delivered, acked>>
      PROVE  LogType'
  BY <1>2, <1>3, DetachEffect DEF IndInv
<1>4. ASSUME NEW ids \in Seq(Entries), Emit(ids), UNCHANGED <<attempt, inCall, turnVars>>
      PROVE  LogType'
  <2>1. /\ log' \in Seq(Entries) /\ Len(log') = Len(log) + Len(ids)
        /\ queue' \in Seq(1..Len(log')) /\ Len(queue') <= QueueSize
        /\ tokens' = {} \/ tokens' = tokens \cup Recorded(ids)
    BY <1>4, EmitEffect DEF IndInv
  <2>2. Len(ids) \in Nat
    OBVIOUS
  <2>3. \A c \in 0..Len(log) : c \in 0..Len(log')
    BY <2>1, <2>2, <1>0
  <2>4. inCall \in 0..Len(log') /\ offered \in 0..Len(log') /\ delivered \in 0..Len(log') /\ acked \in 0..Len(log')
    BY <2>3, <1>0 DEF LogType
  <2>5. ASSUME NEW r \in tokens' PROVE r \in (1..Len(log')) \X {attempt}
    <3>1. CASE r \in tokens
      <4>1. PICK c \in 1..Len(log) : r = <<c, attempt>>
        BY <3>1, <1>0 DEF LogType
      <4>2. c \in 1..Len(log')
        BY <2>1, <2>2, <1>0
      <4> QED
        BY <4>1, <4>2
    <3>2. CASE r \in Recorded(ids)
      <4>1. PICK i \in 1..Len(ids) : r = <<Len(log) + i, attempt>>
        BY <3>2, RecordedEffect DEF IndInv
      <4>2. Len(log) + i \in 1..Len(log')
        BY <2>1, <2>2, <1>0
      <4> QED
        BY <4>1, <4>2
    <3> QED
      BY <2>1, <3>1, <3>2
  <2> QED
    BY <2>1, <2>4, <2>5, <1>4 DEF LogType, turnVars
<1>5. CASE FinishStep
  <2>1. CASE FinalizeSleeps \/ FinalizeWakes \/ FinishTurn
    BY <2>1, <1>2 DEF FinalizeSleeps, FinalizeWakes, FinishTurn, coordVars, sinkVars,
       turnVars, prefixVars
  <2>2. CASE Settle
    <3>1. CASE status \in RunEndFailures /\ detached = "no"
      BY <2>2, <3>1, <1>3 DEF Settle, coordVars, sinkVars, turnVars, Reasons
    <3>2. CASE ~(status \in RunEndFailures /\ detached = "no")
      <4>1. tokens' \subseteq tokens
        BY <2>2, <3>2, FreezeEffect DEF Settle, prefixVars, IndInv
      <4> QED
        BY <2>2, <3>2, <4>1, <1>2 DEF Settle, coordVars, sinkVars, turnVars
    <3> QED
      BY <3>1, <3>2
  <2>3. CASE OnRunRevise
    <3>1. tokens' = {}
      BY <2>3, AttemptTokens DEF OnRunRevise, IndInv
    <3> QED
      BY <3>1, <2>3, <1>0 DEF OnRunRevise, LogType, coordVars, sinkVars
  <2>4. CASE FinalizeTimesOut
    BY <2>4, <1>3 DEF FinalizeTimesOut, coordVars, sinkVars, turnVars, Reasons
  <2>5. CASE FinalizeEmits
    BY <2>5, <1>2, <1>3, <1>4, FinalizeCases, EntryTypes DEF IndInv, streamed, turnVars, Reasons
  <2> QED
    BY <1>5, <2>1, <2>2, <2>3, <2>4, <2>5 DEF FinishStep
<1>6. CASE OnDelta
  <2>1. UNCHANGED <<spec, inCall, turnVars, attempt>>
    BY <1>6, DeltaCases DEF IndInv, engineVars
  <2>2. CASE UNCHANGED streamed
    BY <2>1, <2>2, <1>2 DEF streamed, turnVars
  <2>3. CASE UNCHANGED <<log, queue>> /\ Detach("failed")
    BY <2>1, <2>3, <1>3 DEF turnVars, Reasons
  <2>4. ASSUME NEW ids \in Seq(Tokens \cup {0}), Emit(ids) PROVE LogType'
    BY <2>1, <2>4, <1>4, EntryTypes
  <2>5. CASE Emit(<<End>>)
    BY <2>1, <2>5, <1>4, EntryTypes
  <2> QED
    BY <1>6, <2>1, <2>2, <2>3, <2>4, <2>5, StreamCases
<1>7. CASE SinkStep
  <2>1. CASE Offer
    <3>1. /\ queue # <<>> /\ queue' = Tail(queue) /\ inCall' = Head(queue) /\ offered' = Head(queue)
          /\ UNCHANGED <<log, attempt, delivered, acked, tokens>>
      BY <2>1 DEF Offer, coordVars, engineVars, prefixVars
    <3>2. /\ Tail(queue) \in Seq(1..Len(log)) /\ Len(Tail(queue)) = Len(queue) - 1
          /\ Head(queue) \in 1..Len(log) /\ Len(queue) \in Nat
      BY <3>1, <1>0 DEF LogType
    <3>3. Head(queue) \in 0..Len(log) /\ Len(queue') <= QueueSize
      BY <3>1, <3>2, <1>0, StreamAssumption DEF LogType
    <3> QED
      BY <3>1, <3>2, <3>3, <1>0 DEF LogType
  <2>2. CASE CallReturns \/ CallAbandoned \/ SinkStops
    BY <2>2, <1>2 DEF CallReturns, CallAbandoned, SinkStops, coordVars, engineVars, turnVars,
       prefixVars
  <2>3. CASE CallFails \/ DetachOverrun \/ DetachAtEnd
    BY <2>3, <1>3 DEF CallFails, DetachOverrun, DetachAtEnd, coordVars, engineVars, turnVars,
       Reasons
  <2>4. CASE SinkDelivered
    BY <2>4, <1>0, <1>1 DEF SinkDelivered, AdvanceAck, LogType, coordVars, engineVars
  <2> QED
    BY <1>7, <2>1, <2>2, <2>3, <2>4 DEF SinkStep
<1>8. CASE Interrupt
  <2>1. tokens' \subseteq tokens
    BY <1>8, FreezeEffect DEF Interrupt, IndInv
  <2> QED
    BY <2>1, <1>2, <1>8 DEF Interrupt, coordVars, sinkVars, engineVars
<1>9. ASSUME NEW c \in 1..Len(log), Ack(c) PROVE LogType'
  BY <1>0, <1>1, <1>9 DEF Ack, AdvanceAck, LogType, coordVars, sinkVars, engineVars
<1>10. CASE EngineStep
  BY <1>2, <1>10, EngineFrame DEF coordVars, sinkVars, turnVars, prefixVars
<1> QED
  BY <1>5, <1>6, <1>7, <1>8, <1>9, <1>10 DEF Next

\* Every step keeps the types of the sink and its prefix.
LEMMA SinkTypeStep ==
    ASSUME IndInv, Next PROVE SinkType'
<1>0. /\ SinkType /\ log \in Seq(Entries) /\ Len(log) \in Nat
      /\ \A c \in 1..Len(log) : log[c] \in Entries
  BY DEF IndInv, TypeOK, SinkType, Entries
<1> DEFINE Calls == {"idle", "calling", "returned", "overrun", "ending", "stopped"}
<1>1. ASSUME UNCHANGED prefixVars \/ Freeze, UNCHANGED detached, call' \in Calls, heard' \subseteq Entries
      PROVE  SinkType'
  BY <1>0, <1>1 DEF SinkType, Freeze, prefixVars
<1>2. ASSUME NEW reason \in Reasons \ {"no"}, Detach(reason), call' \in Calls, UNCHANGED heard
      PROVE  SinkType'
  BY <1>0, <1>2 DEF SinkType, Detach, Freeze, prefixVars
<1>3. ASSUME NEW ids \in Seq(Entries), Emit(ids), UNCHANGED <<call, heard>> PROVE SinkType'
  <2>1. /\ frozen' \in BOOLEAN /\ detached' \in Reasons
        /\ ackedPrefix' = ackedPrefix /\ frozenPrefix' \in {frozenPrefix, ackedPrefix}
    BY <1>0, <1>3, EmitEffect DEF IndInv, SinkType, Reasons
  <2> QED
    BY <2>1, <1>0, <1>3 DEF SinkType
<1>4. ASSUME NEW c \in 1..Len(log), AdvanceAck(c), UNCHANGED <<log, attempt, detached, frozen, frozenPrefix>>,
             call' \in Calls, heard' \subseteq Entries
      PROVE  SinkType'
  <2>1. ackedPrefix' \in Seq(Tokens)
    <3>1. CASE c > acked
      <4>1. ackedPrefix' = ackedPrefix \o Gained(c)
        BY <3>1, <1>4, AdvanceEffect DEF IndInv
      <4>2. Gained(c) \in Seq(Tokens)
        BY <3>1, <1>4, GainedEffect DEF IndInv
      <4>3. ackedPrefix \in Seq(Tokens)
        BY <1>0 DEF SinkType
      <4> QED
        BY <4>1, <4>2, <4>3
    <3>2. CASE ~(c > acked)
      BY <3>2, <1>0, <1>4 DEF AdvanceAck, SinkType
    <3> QED
      BY <3>1, <3>2
  <2> QED
    BY <2>1, <1>0, <1>4 DEF SinkType
<1>5. call \in Calls /\ heard \subseteq Entries
  BY <1>0 DEF SinkType
<1>6. CASE FinishStep
  <2>1. CASE FinalizeSleeps \/ FinalizeWakes \/ FinishTurn
    BY <2>1, <1>1, <1>5 DEF FinalizeSleeps, FinalizeWakes, FinishTurn, sinkVars
  <2>2. CASE Settle
    BY <2>2, <1>1, <1>2, <1>5 DEF Settle, sinkVars, Reasons
  <2>3. CASE OnRunRevise
    <3>1. /\ ackedPrefix' = <<>> /\ frozenPrefix' = <<>> /\ frozen' = FALSE
          /\ UNCHANGED <<detached, call, heard>>
      BY <2>3 DEF OnRunRevise, sinkVars
    <3>2. <<>> \in Seq(Tokens)
      OBVIOUS
    <3> QED
      BY <3>1, <3>2, <1>0 DEF SinkType
  <2>4. CASE FinalizeTimesOut
    BY <2>4, <1>2, <1>5 DEF FinalizeTimesOut, sinkVars, Reasons
  <2>5. CASE FinalizeEmits
    BY <2>5, <1>1, <1>2, <1>3, <1>5, FinalizeCases, EntryTypes DEF IndInv, streamed,
       prefixVars, Reasons
  <2> QED
    BY <1>6, <2>1, <2>2, <2>3, <2>4, <2>5 DEF FinishStep
<1>7. CASE OnDelta
  <2>1. UNCHANGED <<spec, call, heard>>
    BY <1>7, DeltaCases DEF IndInv
  <2>2. CASE UNCHANGED streamed
    BY <2>1, <2>2, <1>1, <1>5 DEF streamed, prefixVars
  <2>3. CASE UNCHANGED <<log, queue>> /\ Detach("failed")
    BY <2>1, <2>3, <1>2, <1>5 DEF Reasons
  <2>4. ASSUME NEW ids \in Seq(Tokens \cup {0}), Emit(ids) PROVE SinkType'
    BY <2>1, <2>4, <1>3, EntryTypes
  <2>5. CASE Emit(<<End>>)
    BY <2>1, <2>5, <1>3, EntryTypes
  <2> QED
    BY <1>7, <2>1, <2>2, <2>3, <2>4, <2>5, StreamCases
<1>8. CASE SinkStep
  <2>1. CASE Offer \/ CallAbandoned \/ SinkStops
    BY <2>1, <1>1, <1>5 DEF Offer, CallAbandoned, SinkStops
  <2>2. CASE CallReturns
    <3>1. inCall \in 1..Len(log)
      BY <2>2, CursorTypes DEF CallReturns, IndInv, QueueInv
    <3>2. heard' \subseteq Entries
      BY <2>2, <3>1, <1>0, <1>5 DEF CallReturns
    <3> QED
      BY <2>2, <3>2, <1>1 DEF CallReturns
  <2>3. CASE CallFails \/ DetachOverrun \/ DetachAtEnd
    BY <2>3, <1>2, <1>5 DEF CallFails, DetachOverrun, DetachAtEnd, Reasons
  <2>4. CASE SinkDelivered
    <3>1. inCall \in 1..Len(log)
      BY <2>4, CursorTypes DEF SinkDelivered, IndInv, QueueInv
    <3>2. CASE UNCHANGED <<acked, ackedPrefix, tokens>>
      BY <2>4, <3>2, <1>1, <1>5 DEF SinkDelivered, prefixVars
    <3>3. CASE AdvanceAck(inCall)
      BY <2>4, <3>1, <3>3, <1>4, <1>5 DEF SinkDelivered, coordVars, engineVars
    <3> QED
      BY <2>4, <3>2, <3>3 DEF SinkDelivered
  <2> QED
    BY <1>8, <2>1, <2>2, <2>3, <2>4 DEF SinkStep
<1>9. CASE Interrupt
  BY <1>1, <1>5, <1>9 DEF Interrupt, sinkVars
<1>10. ASSUME NEW c \in 1..Len(log), Ack(c) PROVE SinkType'
  <2>1. heard' \subseteq Entries
    <3>1. \A d \in 1..c : d \in 1..Len(log)
      BY <1>0
    <3> QED
      BY <3>1, <1>0, <1>5, <1>10 DEF Ack
  <2> QED
    BY <2>1, <1>4, <1>5, <1>10 DEF Ack, coordVars, sinkVars, engineVars
<1>11. CASE EngineStep
  BY <1>1, <1>5, <1>11, EngineFrame DEF sinkVars
<1> QED
  BY <1>6, <1>7, <1>8, <1>9, <1>10, <1>11 DEF Next

-----------------------------------------------------------------------------
\* The invariant holds initially.
LEMMA InitHolds ==
    ASSUME Init PROVE IndInv
<1>0. /\ <<>> \in Seq(Tokens) /\ <<>> \in Seq(Entries) /\ <<>> \in Seq(Events) /\ <<>> \in Seq(1..0)
      /\ Len(<<>>) = 0 /\ MaxAttempts \in Nat /\ MaxAttempts >= 1 /\ 1 \in 1..MaxAttempts
      /\ QueueSize \in Nat /\ MaxEvents \in Nat
  BY StreamAssumption
<1>1. branches = NoBranches /\ Buffered = {}
  <2>1. branches = NoBranches
    BY DEF Init, NoBranches
  <2> QED
    BY <2>1 DEF Buffered, NoBranches, NoBranch
<1>2. IsFiniteSet(Buffered) /\ Pending = 0
  BY <1>1, FS_EmptySet DEF Pending
<1>3. TypeOK
  <2>1. EngineType
    BY <1>0 DEF Init, EngineType, Phases, Statuses
  <2>2. CoordType
    <3>1. NoBranch \in BranchStates
      BY <1>0 DEF NoBranch, BranchStates
    <3>2. branches \in [Branches -> BranchStates]
      BY <3>1, <1>1 DEF NoBranches
    <3>3. cAttempt \in 1..MaxAttempts + 1
      BY <1>0 DEF Init
    <3> QED
      BY <3>2, <3>3 DEF Init, CoordType
  <2>3. LogType
    BY <1>0 DEF Init, LogType
  <2>4. SinkType
    BY <1>0 DEF Init, SinkType, Reasons
  <2> QED
    BY <2>1, <2>2, <2>3, <2>4, <1>0, <1>2, TypeParts
<1>4. PhaseInv /\ NoLostWakeup
  BY DEF Init, PhaseInv, NoLostWakeup
<1>5. Waiting = {}
  BY NoneWaiting DEF Init
<1>6. QueueInv /\ EndInv
  BY <1>0 DEF Init, QueueInv, EndInv
<1>7. TokenInv /\ TakenInv
  BY <1>5 DEF Init, TokenInv, TakenInv
<1>8. BufferInv
  BY <1>1, <1>2 DEF BufferInv, NoBranches, NoBranch
<1>9. \A o \in Seq(Tokens) : Begins(o) /\ (o = <<>> => Exact(o))
  <2>1. ASSUME NEW o \in Seq(Tokens)
        PROVE  BeginsWith(<<>>, {}, <<>>, o) /\ Len(<<>>) + Cardinality({}) = 0
    BY BeginsEmpty
  <2> QED
    BY <2>1, <1>0, <1>5 DEF Init, Begins, Exact, ExactWith
<1>10. PrefixInv
  <2>1. \A a \in 1..MaxAttempts : output[a] = <<>>
    BY DEF Init
  <2>2. \A a \in attempt + 1 .. MaxAttempts : a \in 1..MaxAttempts
    BY <1>0 DEF Init
  <2>3. Begins(output[attempt])
    BY <2>1, <1>0, <1>9 DEF Init
  <2> QED
    BY <2>1, <2>2, <2>3, <1>0 DEF Init, PrefixInv
<1>11. ReplayInv
  <2> DEFINE at == [i \in 0..0 |-> 1]
             out == [i \in 0..0 |-> <<>>]
             items == [i \in 0..0 |-> NoneHeld]
  <2>1. NoneHeld \in Held
    BY <1>0 DEF NoneHeld, Held
  <2>2. at \in [0..0 -> Nat] /\ out \in [0..0 -> Seq(Tokens)] /\ items \in [0..0 -> Held]
    BY <2>1, <1>0
  <2>3. at[0] = 1 /\ out[0] = <<>> /\ items[0] = NoneHeld /\ \A i \in 0..0 : i = 0
    OBVIOUS
  <2> HIDE DEF at, out, items
  <2>4. Starts(1, <<>>, NoneHeld)
    <3>1. \A b \in Branches : NoneHeld[b] = branches[b].items
      BY <1>1 DEF NoneHeld, NoBranches, NoBranch
    <3>2. Exact(<<>>)
      BY <1>0, <1>9
    <3>3. cAttempt = 1
      BY DEF Init
    <3> QED
      BY <3>1, <3>2, <3>3 DEF Starts
  <2>5. Passes(1, <<>>, NoneHeld)
    <3>1. Opens(<<>>, output[1])
      BY <1>0, OpensFacts DEF Init
    <3> QED
      BY <3>1 DEF Init, Passes
  <2>6. Arrives(1, <<>>, NoneHeld)
    BY <1>0 DEF Init, Arrives, NoneHeld
  <2>7. bus = <<>> /\ Len(bus) = 0
    BY DEF Init
  <2>8. Replays(at, out, items)
    BY <2>3, <2>4, <2>5, <2>6, <2>7 DEF Replays
  <2> QED
    BY <2>2, <2>7, <2>8 DEF ReplayInv
<1> QED
  BY <1>3, <1>4, <1>6, <1>7, <1>8, <1>10, <1>11 DEF IndInv

\* Every step keeps the invariant.
LEMMA StepKeeps ==
    ASSUME IndInv, [Next]_vars PROVE IndInv'
<1>1. CASE Next
  <2>1. TypeOK'
    <3>1. EngineType' /\ CoordType' /\ LogType' /\ SinkType'
      BY <1>1, EngineTypeStep, CoordTypeStep, LogTypeStep, SinkTypeStep
    <3>2. Pending' <= MaxEvents
      BY <1>1, BufferStep
    <3> QED
      BY <3>1, <3>2 DEF TypeOK, EngineType, CoordType, LogType, SinkType, Entries
  <2> QED
    BY <1>1, <2>1, PhaseStep, WakeupStep, QueueStep, EndStep, TokenStep, TakenStep,
       BufferStep, PrefixStep,
       ReplayStep DEF IndInv
<1>2. CASE UNCHANGED vars
  <2>1. UNCHANGED <<phase, attempt, status, published, output, held, committed, view, saved, bus, branches,
                    cAttempt, dead, finalized, signal, log, spec, queue, inCall, call, detached, offered,
                    delivered, acked, commitAttempt, interrupted, tokens, ackedPrefix, frozen, frozenPrefix, heard>>
    BY <1>2 DEF vars, engineVars, coordVars, sinkVars, turnVars, prefixVars
  <2>2. Waiting' = Waiting /\ Buffered' = Buffered /\ Returned' = Returned
    BY <2>1 DEF Waiting, Buffered, Returned
  <2>3. (TypeOK /\ PhaseInv /\ NoLostWakeup)'
    BY <2>1, <2>2 DEF IndInv, TypeOK, PhaseInv, NoLostWakeup, Pending
  <2>4. (QueueInv /\ EndInv)'
    BY <2>1 DEF IndInv, QueueInv, EndInv
  <2>5. (TokenInv /\ TakenInv /\ BufferInv)'
    BY <2>1, <2>2 DEF IndInv, TokenInv, TakenInv, BufferInv
  <2>6. PrefixInv'
    BY <2>1, <2>2 DEF IndInv, PrefixInv, Begins
  <2>7. ReplayInv'
    <3>1. \A o : Exact(o) => Exact(o)'
      BY <2>1, ExactStays
    <3> QED
      BY <2>1, <3>1, ReplayKeeps
  <2> QED
    BY <2>3, <2>4, <2>5, <2>6, <2>7 DEF IndInv
<1> QED
  BY <1>1, <1>2

\* IndInv holds in every reachable state.
THEOREM Inductive == Spec => []IndInv
<1>1. Init => IndInv
  BY InitHolds
<1>2. IndInv /\ [Next]_vars => IndInv'
  BY StepKeeps
<1> QED
  BY <1>1, <1>2, PTL DEF Spec

\* Every variable keeps its type: the sink's queue and the speculative buffer stay within
\* their limits, and every cursor is one the coordinator has assigned.
THEOREM TypeCorrect == Spec => []TypeOK
<1>1. IndInv => TypeOK
  BY DEF IndInv
<1> QED
  BY <1>1, Inductive, PTL

\* What CommitView commits is a prefix of the assistant's output of the attempt, without
\* gaps and without cancelled or abandoned text, for any order of bus, sink,
\* acknowledgements, interrupt and revision.
THEOREM PrefixOfOutput == Spec => []PrefixMatchesOutput
<1>1. IndInv => PrefixMatchesOutput
  <2> SUFFICES ASSUME IndInv PROVE PrefixMatchesOutput
    OBVIOUS
  <2>1. output[attempt] \in Seq(Tokens) /\ ackedPrefix \in Seq(Tokens) /\ frozenPrefix \in Seq(Tokens)
    BY DEF IndInv, TypeOK
  <2>2. Waiting \in SUBSET Nat /\ IsFiniteSet(Waiting)
    BY WaitingFinite DEF IndInv
  <2>3. Opens(Committable, output[attempt])
    BY <2>1, <2>2, BeginsOpens DEF IndInv, PrefixInv, Begins, Committable
  <2>4. Committable \in Seq(Tokens)
    BY <2>1 DEF Committable
  <2> QED
    BY <2>1, <2>3, <2>4, OpensIsPrefix DEF PrefixMatchesOutput
<1> QED
  BY <1>1, Inductive, PTL

\* Only text that the client has taken is ever committed: what OnDelta returned nil for
\* or what was acknowledged explicitly, before the prefix was frozen.
THEOREM OnlyTakenCommitted == Spec => []CommittableWasTaken
<1>1. IndInv => CommittableWasTaken
  BY DEF IndInv, TakenInv, CommittableWasTaken, Committable, ToSet
<1> QED
  BY <1>1, Inductive, PTL

\* The subtraction of sinkDelivered never wraps: no acknowledgement is ahead of the
\* delivery that is being recorded, across revisions too.
THEOREM AckBehindDelivery == Spec => []AckNotAhead
<1>1. IndInv => AckNotAhead
  BY DEF IndInv, QueueInv, AckNotAhead
<1> QED
  BY <1>1, Inductive, PTL

\* An attached sink has every confirmed event it was not offered in its queue, in order,
\* and a sink that ended in good order was offered the whole stream.
THEOREM NoGaps == Spec => []AttachedSinkMissesNothing
<1>1. IndInv => AttachedSinkMissesNothing
  <2> SUFFICES ASSUME IndInv PROVE AttachedSinkMissesNothing
    OBVIOUS
  <2>1. ASSUME detached = "no" PROVE queue = [i \in 1..(Len(log) - offered) |-> offered + i]
    <3>1. Len(queue) = Len(log) - offered
      BY <2>1, CursorTypes DEF IndInv, QueueInv
    <3>a. queue \in Seq(1..Len(log))
      BY DEF IndInv, TypeOK
    <3>2. queue \in Seq(1..Len(log)) /\ \A i \in 1..Len(queue) : queue[i] = offered + i
      BY <3>a DEF IndInv, QueueInv
    <3> QED
      BY <3>1, <3>2
  <2> QED
    BY <2>1 DEF AttachedSinkMissesNothing, IndInv, EndInv
<1> QED
  BY <1>1, Inductive, PTL

\* finalize never sleeps while the run end it waits for has passed without a signal.
THEOREM NoSleepThroughEnd == Spec => []NoLostWakeup
<1>1. IndInv => NoLostWakeup
  BY DEF IndInv
<1> QED
  BY <1>1, Inductive, PTL
=============================================================================
