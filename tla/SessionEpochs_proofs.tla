------------------------- MODULE SessionEpochs_proofs -------------------------
(***************************************************************************)
(* TLAPS proofs about SessionEpochs, for every finite set of attempts,     *)
(* every set of sessions and every number of swaps.                        *)
(*                                                                         *)
(* HookExactlyOnce and ExactUnlessStartFailed are not inductive: that a    *)
(* removed epoch's hook is never taken again needs the shape of the epoch  *)
(* table (an epoch other than the current one is in the map only while     *)
(* retired and referenced), and that needs the reference counts, which in  *)
(* turn need to know on which epochs a failed Start still has its second   *)
(* release to make.  IndInv joins the three.                               *)
(***************************************************************************)
EXTENDS SessionEpochs, FiniteSetTheorems, TLAPS

\* The epoch table: which epochs are in the map, and in which state.
TableInv ==
    /\ epochSeq \in live
    /\ epochSeq \notin retired
    /\ \A e \in Epochs :
          /\ e > epochSeq => e \notin live /\ refs[e] = 0 /\ e \notin retired
          /\ e < epochSeq /\ e \in live => e \in retired /\ refs[e] > 0
          /\ e \notin live => refs[e] = 0

\* The attempts: what they captured and what a failed one still owes.
AttemptInv ==
    \A t \in Attempts :
        /\ epoch[t] <= epochSeq
        /\ phase[t] = "unwinding" => epoch[t] \in failed

\* Reference counts against the attempts that hold them.
CountInv ==
    \A e \in Epochs :
        /\ refs[e] <= Cardinality(Holders(e))
        /\ e \notin failed => refs[e] = Cardinality(Holders(e))

IndInv ==
    /\ TypeOK
    /\ HookExactlyOnce
    /\ TableInv
    /\ AttemptInv
    /\ CountInv

-----------------------------------------------------------------------------

\* Holders of an epoch are finitely many, and their number is a natural.
LEMMA HoldersFinite ==
    ASSUME NEW e
    PROVE  IsFiniteSet(Holders(e)) /\ Cardinality(Holders(e)) \in Nat
<1>1. Holders(e) \subseteq Attempts
  BY DEF Holders
<1>2. IsFiniteSet(Holders(e))
  BY <1>1, FS_Subset, EpochAssumption
<1> QED
  BY <1>2, FS_CardinalityType

\* beginEpoch adds one holder to the current epoch and none to the others.
LEMMA HolderJoins ==
    ASSUME TypeOK, NEW t \in Attempts, NEW s \in Sessions, BeginEpoch(t, s),
           NEW e \in Epochs
    PROVE  Cardinality(Holders(e)') =
             Cardinality(Holders(e)) + (IF e = epochSeq THEN 1 ELSE 0)
<1>1. CASE e = epochSeq
  <2>1. Holders(e)' = Holders(e) \cup {t}
    BY <1>1 DEF Holders, BeginEpoch, TypeOK, Holding
  <2>2. t \notin Holders(e)
    BY DEF Holders, BeginEpoch, Holding
  <2> QED
    BY <1>1, <2>1, <2>2, HoldersFinite, FS_AddElement
<1>2. CASE e # epochSeq
  <2>1. Holders(e)' = Holders(e)
    BY <1>2 DEF Holders, BeginEpoch, TypeOK, Holding
  <2> QED
    BY <1>2, <2>1, HoldersFinite
<1> QED
  BY <1>1, <1>2

\* An attempt that stops holding its epoch leaves that epoch with one holder
\* less and the others as they were.
LEMMA HolderLeaves ==
    ASSUME TypeOK, NEW t \in Attempts, phase[t] \in Holding,
           epoch' = epoch, NEW p \in Phases \ Holding,
           phase' = [phase EXCEPT ![t] = p],
           NEW e \in Epochs
    PROVE  /\ Cardinality(Holders(e)') =
                Cardinality(Holders(e)) - (IF e = epoch[t] THEN 1 ELSE 0)
           /\ e = epoch[t] => Cardinality(Holders(e)) > 0
<1>1. CASE e = epoch[t]
  <2>1. Holders(e)' = Holders(e) \ {t}
    BY <1>1 DEF Holders, TypeOK
  <2>2. t \in Holders(e)
    BY <1>1 DEF Holders
  <2>3. Cardinality(Holders(e)) # 0
    BY <2>2, HoldersFinite, FS_EmptySet
  <2>4. Cardinality(Holders(e)') = Cardinality(Holders(e)) - 1
    BY <2>1, <2>2, HoldersFinite, FS_RemoveElement
  <2> QED
    BY <1>1, <2>3, <2>4, HoldersFinite
<1>2. CASE e # epoch[t]
  <2>1. Holders(e)' = Holders(e)
    BY <1>2 DEF Holders, TypeOK
  <2> QED
    BY <1>2, <2>1, HoldersFinite
<1> QED
  BY <1>1, <1>2

\* Phase changes that keep an attempt on the same side leave holders alone.
LEMMA HoldersSame ==
    ASSUME TypeOK, NEW t \in Attempts, NEW p \in Phases,
           phase[t] \in Holding <=> p \in Holding,
           phase' = [phase EXCEPT ![t] = p], epoch' = epoch,
           NEW e \in Epochs
    PROVE  Holders(e)' = Holders(e)
  BY DEF Holders, TypeOK

\* endEpoch keeps the table's shape and the hook accounts, whoever calls it;
\* it takes one reference from its epoch when there is one to take.
LEMMA EndEpochStep ==
    ASSUME TypeOK, HookExactlyOnce, TableInv, NEW x \in Epochs, EndEpoch(x)
    PROVE  /\ HookExactlyOnce' /\ TableInv'
           /\ live' \subseteq Epochs /\ due' \in [Epochs -> Nat]
           /\ refs' = [refs EXCEPT ![x] = IF @ > 0 THEN @ - 1 ELSE 0]
<1>0. /\ UNCHANGED <<epochSeq, retired, ran>>
      /\ epochSeq \in Nat /\ x \in Nat
      /\ refs[x] \in Nat /\ due[x] \in Nat /\ ran[x] \in Nat
  <2>1. UNCHANGED <<epochSeq, retired, ran>>
    BY DEF EndEpoch
  <2> QED
    BY <2>1, EpochAssumption DEF TypeOK, Epochs
<1>1. CASE x \in live /\ refs[x] > 0 /\ ~(refs[x] > 1 \/ x \notin retired)
  <2>1. /\ refs' = [refs EXCEPT ![x] = @ - 1] /\ refs[x] = 1
        /\ live' = live \ {x}
        /\ due' = [due EXCEPT ![x] = @ + 1]
    BY <1>0, <1>1 DEF EndEpoch
  <2>2. x < epochSeq /\ x \in live
    BY <1>0, <1>1 DEF TableInv
  <2>3. HookExactlyOnce'
    BY <1>0, <2>1, <2>2 DEF HookExactlyOnce, TypeOK
  <2>4. TableInv'
    BY <1>0, <2>1, <2>2 DEF TableInv, TypeOK
  <2> QED
    BY <2>1, <2>3, <2>4 DEF TypeOK
<1>2. CASE x \in live /\ refs[x] > 0 /\ (refs[x] > 1 \/ x \notin retired)
  <2>1. /\ refs' = [refs EXCEPT ![x] = @ - 1]
        /\ UNCHANGED <<live, due>>
    BY <1>2 DEF EndEpoch
  <2>2. x < epochSeq => refs[x] - 1 > 0
    BY <1>0, <1>2 DEF TableInv
  <2>3. HookExactlyOnce'
    BY <1>0, <2>1 DEF HookExactlyOnce
  <2>4. TableInv'
    BY <1>0, <1>2, <2>1, <2>2 DEF TableInv, TypeOK
  <2> QED
    BY <1>2, <2>1, <2>3, <2>4 DEF TypeOK
<1>3. CASE ~(x \in live /\ refs[x] > 0)
  <2>1. UNCHANGED <<live, due, refs>> /\ refs[x] = 0
    BY <1>0, <1>3 DEF EndEpoch, TableInv
  <2>2. refs' = [refs EXCEPT ![x] = IF @ > 0 THEN @ - 1 ELSE 0]
    BY <2>1 DEF TypeOK
  <2>3. HookExactlyOnce' /\ TableInv'
    BY <1>0, <2>1 DEF HookExactlyOnce, TableInv
  <2> QED
    BY <2>1, <2>2, <2>3 DEF TypeOK
<1> QED
  BY <1>1, <1>2, <1>3

\* Releasing a reference one holds keeps the counts.
LEMMA ReleaseKeepsCounts ==
    ASSUME TypeOK, HookExactlyOnce, TableInv, CountInv,
           NEW t \in Attempts, phase[t] \in Holding, EndEpoch(epoch[t]),
           NEW p \in Phases \ Holding, phase' = [phase EXCEPT ![t] = p],
           epoch' = epoch, failed \subseteq failed'
    PROVE  CountInv'
<1>1. epoch[t] \in Epochs
  BY DEF TypeOK
<1>2. refs' = [refs EXCEPT ![epoch[t]] = IF @ > 0 THEN @ - 1 ELSE 0]
  BY <1>1, EndEpochStep
<1>3. SUFFICES ASSUME NEW e \in Epochs
               PROVE  /\ refs'[e] <= Cardinality(Holders(e)')
                      /\ e \notin failed' => refs'[e] = Cardinality(Holders(e)')
  BY DEF CountInv
<1>4. /\ Cardinality(Holders(e)') =
            Cardinality(Holders(e)) - (IF e = epoch[t] THEN 1 ELSE 0)
      /\ e = epoch[t] => Cardinality(Holders(e)) > 0
  BY HolderLeaves
<1>5. /\ refs[e] <= Cardinality(Holders(e))
      /\ e \notin failed => refs[e] = Cardinality(Holders(e))
      /\ refs[e] \in Nat
  BY DEF CountInv, TypeOK
<1>6. Cardinality(Holders(e)) \in Nat
  BY HoldersFinite
<1>7. refs'[e] = IF e = epoch[t] /\ refs[e] > 0 THEN refs[e] - 1 ELSE refs[e]
  BY <1>2, <1>5 DEF TypeOK
<1> QED
  BY <1>4, <1>5, <1>6, <1>7

-----------------------------------------------------------------------------

LEMMA InitIndInv == Init => IndInv
<1> SUFFICES ASSUME Init PROVE IndInv
  OBVIOUS
<1>0. 1 \in Epochs
  BY EpochAssumption DEF Epochs
<1>1. TypeOK
  BY <1>0 DEF Init, TypeOK, Phases
<1>4. TableInv
  BY <1>0 DEF Init, TableInv, Epochs
<1>5. AttemptInv
  BY DEF Init, AttemptInv
<1>6. HookExactlyOnce
  BY <1>0 DEF Init, HookExactlyOnce, Epochs
<1>2. \A e \in Epochs : Holders(e) = {}
  BY DEF Init, Holders, Holding
<1>3. CountInv
  BY <1>2, FS_EmptySet DEF Init, CountInv
<1> QED
  BY <1>1, <1>3, <1>4, <1>5, <1>6 DEF IndInv

\* Steps of one attempt.
LEMMA AttemptStepIndInv ==
    ASSUME IndInv, NEW t \in Attempts, AttemptStep(t)
    PROVE  IndInv'
<1> USE DEF IndInv
<1>0. epoch[t] \in Epochs /\ epochSeq \in Epochs
  BY DEF TypeOK
<1>1. ASSUME NEW p \in Phases, phase[t] \in Holding <=> p \in Holding,
             p # "unwinding", phase' = [phase EXCEPT ![t] = p],
             UNCHANGED <<epochVars, epoch, owner, failed>>
      PROVE  IndInv'
  <2>1. \A e \in Epochs : Holders(e)' = Holders(e)
    BY <1>1, HoldersSame
  <2>2. CountInv'
    BY <1>1, <2>1 DEF CountInv, epochVars
  <2>3. TypeOK' /\ HookExactlyOnce' /\ TableInv'
    BY <1>1 DEF TypeOK, HookExactlyOnce, TableInv, epochVars
  <2>4. AttemptInv'
    BY <1>1 DEF AttemptInv, TypeOK, epochVars
  <2> QED
    BY <2>2, <2>3, <2>4
<1>2. ASSUME NEW p \in Phases \ Holding, phase[t] \in Holding,
             EndEpoch(epoch[t]), phase' = [phase EXCEPT ![t] = p],
             owner' \in [Attempts -> Sessions \cup {None}], epoch' = epoch,
             failed' = IF p = "unwinding" THEN failed \cup {epoch[t]} ELSE failed
      PROVE  IndInv'
  <2>1. /\ HookExactlyOnce' /\ TableInv'
        /\ live' \subseteq Epochs /\ due' \in [Epochs -> Nat]
        /\ refs' = [refs EXCEPT ![epoch[t]] = IF @ > 0 THEN @ - 1 ELSE 0]
    BY <1>0, <1>2, EndEpochStep
  <2>2. TypeOK'
    BY <1>0, <1>2, <2>1 DEF TypeOK, EndEpoch
  <2>3. CountInv'
    BY <1>2, ReleaseKeepsCounts
  <2>4. AttemptInv'
    BY <1>2 DEF AttemptInv, TypeOK, EndEpoch
  <2> QED
    BY <2>1, <2>2, <2>3, <2>4
<1>3. CASE InterruptActive(t)
  BY <1>3, <1>1 DEF InterruptActive, Phases, Holding
<1>4. CASE InstallTurn(t)
  BY <1>4, <1>1 DEF InstallTurn, Phases, Holding
<1>5. CASE FinishTurn(t)
  BY <1>5, <1>1 DEF FinishTurn, Phases, Holding
<1>6. CASE AbandonStart(t)
  <2>1. owner' \in [Attempts -> Sessions \cup {None}]
    BY <1>6 DEF AbandonStart, TypeOK
  <2> QED
    BY <1>6, <1>2, <2>1 DEF AbandonStart, Phases, Holding
<1>7. CASE FailStartTurn(t)
  <2>1. owner' \in [Attempts -> Sessions \cup {None}]
    BY <1>7 DEF FailStartTurn, TypeOK
  <2> QED
    BY <1>7, <1>2, <2>1 DEF FailStartTurn, Phases, Holding
<1>8. CASE ReleaseTurn(t)
  <2>1. owner' \in [Attempts -> Sessions \cup {None}]
    BY <1>8 DEF ReleaseTurn, TypeOK
  <2> QED
    BY <1>8, <1>2, <2>1 DEF ReleaseTurn, Phases, Holding
<1>9. CASE UnwindStart(t)
  <2>1. /\ HookExactlyOnce' /\ TableInv'
        /\ live' \subseteq Epochs /\ due' \in [Epochs -> Nat]
        /\ refs' = [refs EXCEPT ![epoch[t]] = IF @ > 0 THEN @ - 1 ELSE 0]
    BY <1>0, <1>9, EndEpochStep DEF UnwindStart
  <2>2. TypeOK'
    BY <1>0, <1>9, <2>1 DEF TypeOK, EndEpoch, UnwindStart, Phases
  <2>3. ASSUME NEW e \in Epochs
        PROVE  /\ refs'[e] <= Cardinality(Holders(e)')
               /\ e \notin failed' => refs'[e] = Cardinality(Holders(e)')
    <3>1. Holders(e)' = Holders(e)
      BY <1>9 DEF UnwindStart, Holders, Holding, TypeOK
    <3>2. epoch[t] \in failed /\ failed' = failed
      BY <1>9 DEF UnwindStart, AttemptInv
    <3>3. /\ refs[e] <= Cardinality(Holders(e)) /\ refs[e] \in Nat
          /\ e \notin failed => refs[e] = Cardinality(Holders(e))
      BY DEF CountInv, TypeOK
    <3>4. /\ refs'[e] <= refs[e] /\ refs'[e] \in Nat
          /\ e # epoch[t] => refs'[e] = refs[e]
      BY <2>1, <3>3, <2>2 DEF TypeOK
    <3> QED
      BY <3>1, <3>2, <3>3, <3>4, HoldersFinite
  <2>4. AttemptInv'
    BY <1>9 DEF AttemptInv, TypeOK, EndEpoch, UnwindStart
  <2>5. CountInv'
    BY <2>3 DEF CountInv
  <2> QED
    BY <2>1, <2>2, <2>4, <2>5
<1> QED
  BY <1>3, <1>4, <1>5, <1>6, <1>7, <1>8, <1>9 DEF AttemptStep

\* beginEpoch.
LEMMA BeginEpochIndInv ==
    ASSUME IndInv, NEW t \in Attempts, NEW s \in Sessions, BeginEpoch(t, s)
    PROVE  IndInv'
<1> USE DEF IndInv
<1>1. TypeOK'
  BY DEF TypeOK, BeginEpoch, Phases
<1>2. HookExactlyOnce'
  BY DEF HookExactlyOnce, BeginEpoch
<1>3. TableInv'
  BY DEF TableInv, TypeOK, BeginEpoch, Epochs
<1>4. AttemptInv'
  BY DEF AttemptInv, TypeOK, BeginEpoch, Epochs
<1>5. ASSUME NEW e \in Epochs
      PROVE  /\ refs'[e] <= Cardinality(Holders(e)')
             /\ e \notin failed' => refs'[e] = Cardinality(Holders(e)')
  <2>1. Cardinality(Holders(e)') =
          Cardinality(Holders(e)) + (IF e = epochSeq THEN 1 ELSE 0)
    BY HolderJoins
  <2>2. /\ refs[e] <= Cardinality(Holders(e)) /\ refs[e] \in Nat
        /\ e \notin failed => refs[e] = Cardinality(Holders(e))
    BY DEF CountInv, TypeOK
  <2>3. /\ refs'[e] = refs[e] + (IF e = epochSeq THEN 1 ELSE 0)
        /\ failed' = failed
    BY <2>2 DEF BeginEpoch, TypeOK
  <2> QED
    BY <2>1, <2>2, <2>3, HoldersFinite
<1>6. CountInv'
  BY <1>5 DEF CountInv
<1> QED
  BY <1>1, <1>2, <1>3, <1>4, <1>6

\* SwapDeps.
LEMMA SwapDepsIndInv ==
    ASSUME IndInv, SwapDeps
    PROVE  IndInv'
<1> USE DEF IndInv
<1>1. \A e \in Epochs : Holders(e)' = Holders(e)
  BY DEF Holders, SwapDeps, attemptVars
<1>2. CountInv'
  BY <1>1 DEF CountInv, SwapDeps
<1>3. AttemptInv'
  BY DEF AttemptInv, SwapDeps, attemptVars, TypeOK, Epochs
<1>4. /\ epochSeq \in live /\ epochSeq \in Epochs /\ epochSeq + 1 \in Epochs
      /\ epochSeq' = epochSeq + 1
      /\ retired' = retired \cup {epochSeq}
      /\ UNCHANGED <<refs, ran>>
      /\ due[epochSeq] = 0 /\ ran[epochSeq] = 0
  BY EpochAssumption DEF SwapDeps, TypeOK, HookExactlyOnce, Epochs
<1>5. CASE refs[epochSeq] = 0
  <2>1. /\ live' = (live \cup {epochSeq + 1}) \ {epochSeq}
        /\ due' = [due EXCEPT ![epochSeq] = @ + 1]
    BY <1>4, <1>5 DEF SwapDeps
  <2>2. TypeOK'
    BY <1>4, <2>1 DEF TypeOK, SwapDeps, attemptVars
  <2>3. HookExactlyOnce'
    BY <1>4, <2>1 DEF TypeOK, HookExactlyOnce, Epochs
  <2>4. TableInv'
    BY <1>4, <1>5, <2>1 DEF TypeOK, TableInv, Epochs
  <2> QED
    BY <1>2, <1>3, <2>2, <2>3, <2>4
<1>6. CASE refs[epochSeq] # 0
  <2>1. live' = live \cup {epochSeq + 1} /\ due' = due
    BY <1>4, <1>6 DEF SwapDeps
  <2>2. TypeOK'
    BY <1>4, <2>1 DEF TypeOK, SwapDeps, attemptVars
  <2>3. HookExactlyOnce'
    BY <1>4, <2>1 DEF TypeOK, HookExactlyOnce, Epochs
  <2>4. refs[epochSeq] > 0 /\ epochSeq \in Nat
    BY <1>4, <1>6, EpochAssumption DEF TypeOK, Epochs
  <2>5. TableInv'
    BY <1>4, <2>1, <2>4 DEF TableInv, Epochs
  <2> QED
    BY <1>2, <1>3, <2>2, <2>3, <2>5
<1> QED
  BY <1>5, <1>6

\* Steps that leave the table, the counts and the attempts alone.
LEMMA OtherStepIndInv ==
    ASSUME IndInv,
           \/ \E e \in Epochs : RunOnRetired(e)
           \/ Drain
           \/ CloseManager
           \/ UNCHANGED vars
    PROVE  IndInv'
<1> USE DEF IndInv
<1>1. /\ UNCHANGED <<epochSeq, live, refs, retired, phase, epoch, owner, failed>>
      /\ draining' \in BOOLEAN /\ closed' \in BOOLEAN
  BY DEF RunOnRetired, Drain, CloseManager, vars, epochVars, attemptVars, TypeOK
<1>2. /\ due' \in [Epochs -> Nat] /\ ran' \in [Epochs -> Nat]
      /\ \A e \in Epochs : due'[e] + ran'[e] = due[e] + ran[e]
  <2>1. CASE \E e \in Epochs : RunOnRetired(e)
    BY <2>1 DEF RunOnRetired, TypeOK
  <2>2. CASE UNCHANGED <<due, ran>>
    BY <2>2 DEF TypeOK
  <2> QED
    BY <2>1, <2>2 DEF Drain, CloseManager, vars, epochVars
<1>3. TypeOK'
  BY <1>1, <1>2 DEF TypeOK
<1>4. HookExactlyOnce'
  BY <1>1, <1>2 DEF HookExactlyOnce
<1>5. TableInv' /\ AttemptInv'
  BY <1>1 DEF TableInv, AttemptInv
<1>6. CountInv'
  BY <1>1 DEF CountInv, Holders
<1> QED
  BY <1>3, <1>4, <1>5, <1>6

LEMMA NextIndInv == IndInv /\ [Next]_vars => IndInv'
  BY BeginEpochIndInv, AttemptStepIndInv, SwapDepsIndInv, OtherStepIndInv DEF Next

THEOREM Inductive == Spec => []IndInv
  BY InitIndInv, NextIndInv, PTL DEF Spec

\* The epoch table and the attempts keep their types.
THEOREM TypeCorrect == Spec => []TypeOK
<1>1. IndInv => TypeOK
  BY DEF IndInv
<1> QED
  BY Inductive, <1>1, PTL

\* SwapDeps and endEpoch: a retired epoch's hook is taken exactly once, and
\* never for the epoch that is serving.
THEOREM HookOnce == Spec => []HookExactlyOnce
<1>1. IndInv => HookExactlyOnce
  BY DEF IndInv
<1> QED
  BY Inductive, <1>1, PTL

\* No reference is ever left behind: refs never exceeds the holders.
THEOREM NoLeaks == Spec => []NoReferenceLeaks
<1>1. IndInv => NoReferenceLeaks
  BY DEF IndInv, CountInv, NoReferenceLeaks, TypeOK
<1> QED
  BY Inductive, <1>1, PTL

\* beginEpoch/endEpoch: an epoch on which no startTurnLocked failed is alive
\* for every Start and turn that captured it.
THEOREM Exact == Spec => []ExactUnlessStartFailed
<1>1. ASSUME IndInv PROVE ExactUnlessStartFailed
  <2>1. SUFFICES ASSUME NEW e \in Epochs \ failed
                 PROVE  /\ refs[e] = Cardinality(Holders(e))
                        /\ Holders(e) # {} => e \in live
    BY DEF ExactUnlessStartFailed
  <2>2. refs[e] = Cardinality(Holders(e))
    BY <1>1 DEF IndInv, CountInv
  <2>3. Holders(e) # {} => refs[e] # 0
    BY <2>2, HoldersFinite, FS_EmptySet
  <2> QED
    BY <1>1, <2>2, <2>3 DEF IndInv, TableInv
<1> QED
  BY Inductive, <1>1, PTL

=============================================================================
