------------------------- MODULE TurnPrompts_proofs -------------------------
(***************************************************************************)
(* TLAPS proofs about TurnPrompts, for every finite set of askUser and     *)
(* Reply calls and every limit of the steer queue.                         *)
(*                                                                         *)
(* ResolvedOnce counts claims; what is inductive is who owns them.  An     *)
(* entry leaves the pending state once, its status tells which kind of     *)
(* caller took it there (OwnerInv, ReplierInv), that caller alone has      *)
(* something left to announce, and the channel and the return value of     *)
(* askUser hold what it decided (ReturnInv).  The count of prompts is      *)
(* proved apart (CountMoves): each step gives a slot, takes one or passes  *)
(* one on from a call to its prompt or from a prompt to its resolver.      *)
(***************************************************************************)
EXTENDS TurnPrompts, FiniteSetTheorems, SequenceTheorems, TLAPS

\* The Reply whose answer was accepted for a prompt.
Accepted(r, a) == reply[r].prompt = a /\ reply[r].pc \in {"won", "announcing", "replied"}

\* What the winner of the race for a prompt decided.
Decided(a, v) == IF prompts[a] = "replied" THEN v \in Repliers /\ Accepted(v, a)
                                           ELSE v = prompts[a]

\* A prompt nobody has resolved: nothing was sent or announced.
OpenInv ==
    \A a \in Askers : prompts[a] \in {"absent", "pending"} =>
        outcome[a] = <<>> /\ published[a] = <<>>

\* The entry of a prompt follows its askUser call.
AskerInv ==
    \A a \in Askers :
        /\ asker[a] \in {"idle", "counted", "refused"} => prompts[a] = "absent"
        /\ asker[a] \in {"publishing", "waiting", "receiving"} => prompts[a] # "absent"
        /\ asker[a] = "returned" => prompts[a] # "pending"
        /\ a \in announced => prompts[a] # "absent"

\* Each kind of resolver owns the statuses it sets, and announces them once.
OwnerInv ==
    \A a \in Askers :
        /\ asker[a] \in {"won", "announcing"} =>
              /\ prompts[a] \in {"closed", "expired"} /\ published[a] = <<>>
              /\ a \notin finisher.resolved
        /\ a \in interrupter.resolved => prompts[a] = "interrupted" /\ published[a] = <<>>
        /\ a \in finisher.resolved => prompts[a] = "closed" /\ published[a] = <<>>
        /\ published[a] # <<>> => published[a] = <<prompts[a]>>

\* The same for Reply, of which one is accepted per prompt.
ReplierInv ==
    /\ \A r \in Repliers :
        /\ reply[r].pc \in {"won", "announcing", "replied"} =>
              reply[r].prompt \in Askers /\ prompts[reply[r].prompt] = "replied"
        /\ reply[r].pc \in {"won", "announcing"} => published[reply[r].prompt] = <<>>
    /\ \A r, q \in Repliers, a \in Askers : Accepted(r, a) /\ Accepted(q, a) => r = q

\* What askUser returns, or will receive, is what the winner decided.
Answered(a) ==
    /\ outcome[a] # <<>> => Decided(a, outcome[a][1])
    /\ asker[a] \in {"won", "announcing", "returned"} /\ prompts[a] \in Resolved =>
          returned[a] = "publishError" \/ Decided(a, returned[a])
    /\ asker[a] \in {"publishing", "waiting", "receiving"} /\ prompts[a] \in Resolved =>
          outcome[a] # <<>>
ReturnInv == \A a \in Askers : Answered(a)

\* How far finish has come, and what is pending once the turn is over.
TurnInv ==
    /\ Terminal <=> finisher.pc # "idle"
    /\ state = "interrupting" => Interrupted
    /\ done => Terminal
    /\ Terminal \/ Interrupted => Pending = {}
    /\ \A a \in Askers : asker[a] = "receiving" => prompts[a] \in Resolved

\* The steer queue and what finish records of it.
SteerInv ==
    /\ accepted = drained \o steer
    /\ finisher.pc \in {"idle", "record"} => recorded = None
    /\ finisher.pc = "record" => finisher.pending = leftover
    /\ recorded # None => recorded = leftover
    /\ finisher.pc \notin {"idle", "record"} /\ finisher.result /\ leftover > 0 =>
          recorded = leftover

ShapeInv ==
    /\ TypeOK /\ OpenInv /\ AskerInv /\ OwnerInv
    /\ ReplierInv /\ ReturnInv /\ TurnInv /\ SteerInv
IndInv == ShapeInv /\ PromptActivityIsExact

-----------------------------------------------------------------------------
(* What the steps shared by several calls do. *)

\* changeActivity leaves a count, and the clamp does nothing as long as no more
\* slots are given back than are held.
LEMMA ActivityEffect ==
    ASSUME activePrompts \in Nat, NEW delta \in Int, Activity(delta)
    PROVE  /\ activePrompts' \in Nat
           /\ activePrompts + delta >= 0 => activePrompts' = activePrompts + delta
  BY DEF Activity

\* A resolution of pending prompts fills their channels, empty until then, with
\* one value, and touches no other prompt.
LEMMA ResolveEffect ==
    ASSUME TypeOK, OpenInv, NEW as \in SUBSET Pending, NEW status \in Resolved,
           NEW value \in Resolved \cup Repliers, Resolve(as, status, value)
    PROVE  /\ prompts' \in [Askers -> {"absent", "pending"} \cup Resolved]
           /\ outcome' \in [Askers -> Seq(Resolved \cup Repliers)]
           /\ \A a \in as : prompts'[a] = status /\ outcome'[a] # <<>> /\ outcome'[a][1] = value
           /\ \A a \in Askers \ as : prompts'[a] = prompts[a] /\ outcome'[a] = outcome[a]
           /\ \A a \in Askers : Len(outcome'[a]) <= 1
<1>1. \A a \in as : a \in Askers /\ outcome[a] = <<>>
  BY DEF OpenInv, Pending
<1>2. \A a \in as : prompts'[a] = status /\ outcome'[a] = <<value>>
  <2>1. Append(<<>>, value) = <<value>>
    OBVIOUS
  <2> QED
    BY <1>1, <2>1, Zenon DEF Resolve
<1>3. \A a \in Askers \ as : prompts'[a] = prompts[a] /\ outcome'[a] = outcome[a]
  BY DEF Resolve
<1>4. prompts' \in [Askers -> {"absent", "pending"} \cup Resolved]
  BY <1>1 DEF Resolve, TypeOK
<1>5. <<value>> \in Seq(Resolved \cup Repliers)
  OBVIOUS
<1>6. outcome' \in [Askers -> Seq(Resolved \cup Repliers)]
  <2>1. outcome' = [a \in Askers |-> outcome'[a]]
    BY DEF Resolve
  <2>2. \A a \in Askers : outcome'[a] \in Seq(Resolved \cup Repliers)
    BY <1>2, <1>3, <1>5 DEF TypeOK
  <2> QED
    BY <2>1, <2>2
<1>7. \A a \in Askers : Len(outcome'[a]) <= 1
  <2>1. Len(<<value>>) <= 1
    OBVIOUS
  <2> QED
    BY <1>2, <1>3, <2>1, Zenon DEF TypeOK
<1>8. \A a \in as : outcome'[a] # <<>> /\ outcome'[a][1] = value
  <2>1. <<value>> # <<>> /\ <<value>>[1] = value
    OBVIOUS
  <2> QED
    BY <1>2, <2>1, Zenon
<1> QED
  BY <1>2, <1>3, <1>4, <1>6, <1>7, <1>8, Zenon

\* A resolver that nobody has forestalled announces its status or nothing.
LEMMA PublishEffect ==
    ASSUME TypeOK, NEW a \in Askers, NEW status \in Resolved,
           published[a] = <<>>, PublishResolved(a, status)
    PROVE  /\ published' \in [Askers -> Seq(Resolved)]
           /\ published'[a] \in {<<>>, <<status>>}
           /\ \A b \in Askers \ {a} : published'[b] = published[b]
<1>1. CASE UNCHANGED published
  BY <1>1 DEF TypeOK
<1>2. CASE published' = [published EXCEPT ![a] = Append(@, status)]
  BY <1>2 DEF TypeOK
<1> QED
  BY <1>1, <1>2 DEF PublishResolved

\* Nobody but its askUser call waits for a pending prompt.
LEMMA PendingIsAsked ==
    ASSUME ShapeInv
    PROVE  \A b \in Askers : prompts[b] = "pending" =>
               asker[b] \notin {"won", "announcing", "returned"}
  BY DEF ShapeInv, AskerInv, OwnerInv

-----------------------------------------------------------------------------
(* Every step keeps the shape of prompts, calls and queue. *)

\* PublishFails resolves the prompt.
LEMMA PublishFailsWins ==
    ASSUME ShapeInv, NEW a \in Askers, PublishFails(a), prompts[a] = "pending"
    PROVE  ShapeInv'
<1>1. /\ prompts' \in [Askers -> {"absent", "pending"} \cup Resolved]
      /\ outcome' \in [Askers -> Seq(Resolved \cup Repliers)]
      /\ \A b \in {a} : prompts'[b] = "closed" /\ outcome'[b] # <<>> /\ outcome'[b][1] = "closed"
      /\ \A b \in Askers \ {a} : prompts'[b] = prompts[b] /\ outcome'[b] = outcome[b]
      /\ \A b \in Askers : Len(outcome'[b]) <= 1
  BY ResolveEffect DEF ShapeInv, PublishFails, GiveUp, Pending, Resolved
<1>2. /\ asker[a] \in {"publishing", "waiting"} /\ asker' = [asker EXCEPT ![a] = "won"]
      /\ returned' = [returned EXCEPT ![a] = "publishError"]
      /\ UNCHANGED <<announced, published, reply, turnVars, steerVars, activePrompts>>
  BY DEF PublishFails, GiveUp
<1>b. \A b \in {a} : b \in Askers /\ asker[b] \notin {"won", "announcing", "returned"}
  BY <1>2, PendingIsAsked DEF Pending
<1> USE PromptConstants
    DEF ShapeInv, TypeOK, OpenInv, AskerInv, OwnerInv, ReplierInv, ReturnInv, Answered,
        TurnInv, SteerInv, Accepted, Decided, AskerStates, ReplyStates, Resolved, Pending,
        Terminal, Interrupted, None, Unset, promptVars, callVars, turnVars, steerVars
<1>3. TypeOK'
  BY <1>1, <1>2
<1>4. OpenInv'
  BY <1>1, <1>2
<1>5. AskerInv' /\ TurnInv' /\ SteerInv'
  BY <1>1, <1>2
<1>6. OwnerInv'
  BY <1>1, <1>2
<1>7. ReplierInv'
  BY <1>1, <1>2
<1>8. ReturnInv'
  <2>1. ASSUME NEW b \in {a} PROVE Answered(b)'
    <3>1. b \in Askers /\ asker[b] \notin {"won", "announcing", "returned"}
      BY <1>b, <2>1
    <3>2. prompts'[b] = "closed" /\ outcome'[b] # <<>> /\ outcome'[b][1] = "closed"
      BY <1>1, <2>1
    <3> QED
      BY <1>2, <3>1, <3>2
  <2>2. ASSUME NEW b \in Askers \ {a} PROVE Answered(b)'
    BY <1>1, <1>2, <2>2
  <2> HIDE DEF Answered
  <2> QED
    BY <2>1, <2>2
<1> QED
  BY <1>3, <1>4, <1>5, <1>6, <1>7, <1>8

\* ContextEnds resolves the prompt.
LEMMA ContextEndsWins ==
    ASSUME ShapeInv, NEW a \in Askers, ContextEnds(a), prompts[a] = "pending"
    PROVE  ShapeInv'
<1>1. /\ prompts' \in [Askers -> {"absent", "pending"} \cup Resolved]
      /\ outcome' \in [Askers -> Seq(Resolved \cup Repliers)]
      /\ \A b \in {a} : prompts'[b] = "expired" /\ outcome'[b] # <<>> /\ outcome'[b][1] = "expired"
      /\ \A b \in Askers \ {a} : prompts'[b] = prompts[b] /\ outcome'[b] = outcome[b]
      /\ \A b \in Askers : Len(outcome'[b]) <= 1
  BY ResolveEffect DEF ShapeInv, ContextEnds, GiveUp, Pending, Resolved
<1>2. /\ asker[a] \in {"publishing", "waiting"} /\ asker' = [asker EXCEPT ![a] = "won"]
      /\ returned' = [returned EXCEPT ![a] = "expired"]
      /\ UNCHANGED <<announced, published, reply, turnVars, steerVars, activePrompts>>
  BY DEF ContextEnds, GiveUp
<1>b. \A b \in {a} : b \in Askers /\ asker[b] \notin {"won", "announcing", "returned"}
  BY <1>2, PendingIsAsked DEF Pending
<1> USE PromptConstants
    DEF ShapeInv, TypeOK, OpenInv, AskerInv, OwnerInv, ReplierInv, ReturnInv, Answered,
        TurnInv, SteerInv, Accepted, Decided, AskerStates, ReplyStates, Resolved, Pending,
        Terminal, Interrupted, None, Unset, promptVars, callVars, turnVars, steerVars
<1>3. TypeOK'
  BY <1>1, <1>2
<1>4. OpenInv'
  BY <1>1, <1>2
<1>5. AskerInv' /\ TurnInv' /\ SteerInv'
  BY <1>1, <1>2
<1>6. OwnerInv'
  BY <1>1, <1>2
<1>7. ReplierInv'
  BY <1>1, <1>2
<1>8. ReturnInv'
  <2>1. ASSUME NEW b \in {a} PROVE Answered(b)'
    <3>1. b \in Askers /\ asker[b] \notin {"won", "announcing", "returned"}
      BY <1>b, <2>1
    <3>2. prompts'[b] = "expired" /\ outcome'[b] # <<>> /\ outcome'[b][1] = "expired"
      BY <1>1, <2>1
    <3> QED
      BY <1>2, <3>1, <3>2
  <2>2. ASSUME NEW b \in Askers \ {a} PROVE Answered(b)'
    BY <1>1, <1>2, <2>2
  <2> HIDE DEF Answered
  <2> QED
    BY <2>1, <2>2
<1> QED
  BY <1>3, <1>4, <1>5, <1>6, <1>7, <1>8

\* Reply.
LEMMA ReplyWins ==
    ASSUME ShapeInv, NEW r \in Repliers, NEW a \in Askers, Reply(r, a)
    PROVE  ShapeInv'
<1>1. /\ prompts' \in [Askers -> {"absent", "pending"} \cup Resolved]
      /\ outcome' \in [Askers -> Seq(Resolved \cup Repliers)]
      /\ \A b \in {a} : prompts'[b] = "replied" /\ outcome'[b] # <<>> /\ outcome'[b][1] = r
      /\ \A b \in Askers \ {a} : prompts'[b] = prompts[b] /\ outcome'[b] = outcome[b]
      /\ \A b \in Askers : Len(outcome'[b]) <= 1
  BY ResolveEffect DEF ShapeInv, Reply, Pending, Resolved
<1>2. /\ reply[r].pc = "idle" /\ reply' = [reply EXCEPT ![r] = [pc |-> "won", prompt |-> a]]
      /\ prompts[a] = "pending"
      /\ UNCHANGED <<asker, returned, announced, published, turnVars, steerVars, activePrompts>>
  BY DEF Reply
<1>b. \A b \in {a} : b \in Askers /\ asker[b] \notin {"won", "announcing", "returned"}
  BY <1>2, PendingIsAsked DEF Pending
<1> USE PromptConstants
    DEF ShapeInv, TypeOK, OpenInv, AskerInv, OwnerInv, ReplierInv, ReturnInv, Answered,
        TurnInv, SteerInv, Accepted, Decided, AskerStates, ReplyStates, Resolved, Pending,
        Terminal, Interrupted, None, Unset, promptVars, callVars, turnVars, steerVars
<1>3. TypeOK'
  BY <1>1, <1>2
<1>4. OpenInv'
  BY <1>1, <1>2
<1>5. AskerInv' /\ TurnInv' /\ SteerInv'
  BY <1>1, <1>2
<1>6. OwnerInv'
  BY <1>1, <1>2
<1>7. ReplierInv'
  BY <1>1, <1>2
<1>8. ReturnInv'
  <2>1. ASSUME NEW b \in {a} PROVE Answered(b)'
    <3>1. b \in Askers /\ asker[b] \notin {"won", "announcing", "returned"}
      BY <1>b, <2>1
    <3>2. prompts'[b] = "replied" /\ outcome'[b] # <<>> /\ outcome'[b][1] = r
      BY <1>1, <2>1
    <3> QED
      BY <1>2, <3>1, <3>2
  <2>2. ASSUME NEW b \in Askers \ {a} PROVE Answered(b)'
    BY <1>1, <1>2, <2>2
  <2> HIDE DEF Answered
  <2> QED
    BY <2>1, <2>2
<1> QED
  BY <1>3, <1>4, <1>5, <1>6, <1>7, <1>8

\* Interrupt.
LEMMA InterruptShape ==
    ASSUME ShapeInv, Interrupt
    PROVE  ShapeInv'
<1>1. /\ prompts' \in [Askers -> {"absent", "pending"} \cup Resolved]
      /\ outcome' \in [Askers -> Seq(Resolved \cup Repliers)]
      /\ \A b \in Pending : prompts'[b] = "interrupted" /\ outcome'[b] # <<>> /\ outcome'[b][1] = "interrupted"
      /\ \A b \in Askers \ Pending : prompts'[b] = prompts[b] /\ outcome'[b] = outcome[b]
      /\ \A b \in Askers : Len(outcome'[b]) <= 1
  BY ResolveEffect DEF ShapeInv, Interrupt, Pending, Resolved
<1>2. /\ ~Terminal /\ ~Interrupted /\ state' = "interrupting"
      /\ interrupter' = [pc |-> "uncount", resolved |-> Pending]
      /\ UNCHANGED <<callVars, use, finisher, done, steerVars, activePrompts>>
  BY DEF Interrupt
<1>b. \A b \in Pending : b \in Askers /\ asker[b] \notin {"won", "announcing", "returned"}
  BY <1>2, PendingIsAsked DEF Pending
<1> USE PromptConstants
    DEF ShapeInv, TypeOK, OpenInv, AskerInv, OwnerInv, ReplierInv, ReturnInv, Answered,
        TurnInv, SteerInv, Accepted, Decided, AskerStates, ReplyStates, Resolved, Pending,
        Terminal, Interrupted, None, Unset, promptVars, callVars, turnVars, steerVars
<1>3. TypeOK'
  BY <1>1, <1>2
<1>4. OpenInv'
  BY <1>1, <1>2
<1>5. AskerInv' /\ TurnInv' /\ SteerInv'
  BY <1>1, <1>2
<1>6. OwnerInv'
  BY <1>1, <1>2
<1>7. ReplierInv'
  BY <1>1, <1>2
<1>8. ReturnInv'
  <2>1. ASSUME NEW b \in Pending PROVE Answered(b)'
    <3>1. b \in Askers /\ asker[b] \notin {"won", "announcing", "returned"}
      BY <1>b, <2>1
    <3>2. prompts'[b] = "interrupted" /\ outcome'[b] # <<>> /\ outcome'[b][1] = "interrupted"
      BY <1>1, <2>1
    <3> QED
      BY <1>2, <3>1, <3>2
  <2>2. ASSUME NEW b \in Askers \ Pending PROVE Answered(b)'
    BY <1>1, <1>2, <2>2
  <2> HIDE DEF Answered
  <2> QED
    BY <2>1, <2>2
<1> QED
  BY <1>3, <1>4, <1>5, <1>6, <1>7, <1>8

\* finish.
LEMMA FinishShape ==
    ASSUME ShapeInv, NEW result \in BOOLEAN, Finish(result)
    PROVE  ShapeInv'
<1>1. /\ prompts' \in [Askers -> {"absent", "pending"} \cup Resolved]
      /\ outcome' \in [Askers -> Seq(Resolved \cup Repliers)]
      /\ \A b \in Pending : prompts'[b] = "closed" /\ outcome'[b] # <<>> /\ outcome'[b][1] = "closed"
      /\ \A b \in Askers \ Pending : prompts'[b] = prompts[b] /\ outcome'[b] = outcome[b]
      /\ \A b \in Askers : Len(outcome'[b]) <= 1
  BY ResolveEffect DEF ShapeInv, Finish, Pending, Resolved
<1>2. /\ ~Terminal /\ state' = "terminal"
      /\ finisher' = [pc |-> "record", resolved |-> Pending,
                      pending |-> Len(steer), result |-> result]
      /\ leftover' = Len(steer)
      /\ UNCHANGED <<callVars, use, interrupter, done, steer, accepted, drained, recorded,
                     activePrompts>>
  BY DEF Finish
<1>b. \A b \in Pending : b \in Askers /\ asker[b] \notin {"won", "announcing", "returned"}
  BY <1>2, PendingIsAsked DEF Pending
<1> USE PromptConstants
    DEF ShapeInv, TypeOK, OpenInv, AskerInv, OwnerInv, ReplierInv, ReturnInv, Answered,
        TurnInv, SteerInv, Accepted, Decided, AskerStates, ReplyStates, Resolved, Pending,
        Terminal, Interrupted, None, Unset, promptVars, callVars, turnVars, steerVars
<1>3. TypeOK'
  BY <1>1, <1>2
<1>4. OpenInv'
  BY <1>1, <1>2
<1>5. AskerInv' /\ TurnInv' /\ SteerInv'
  BY <1>1, <1>2
<1>6. OwnerInv'
  BY <1>1, <1>2
<1>7. ReplierInv'
  BY <1>1, <1>2
<1>8. ReturnInv'
  <2>1. ASSUME NEW b \in Pending PROVE Answered(b)'
    <3>1. b \in Askers /\ asker[b] \notin {"won", "announcing", "returned"}
      BY <1>b, <2>1
    <3>2. prompts'[b] = "closed" /\ outcome'[b] # <<>> /\ outcome'[b][1] = "closed"
      BY <1>1, <2>1
    <3> QED
      BY <1>2, <3>1, <3>2
  <2>2. ASSUME NEW b \in Askers \ Pending PROVE Answered(b)'
    BY <1>1, <1>2, <2>2
  <2> HIDE DEF Answered
  <2> QED
    BY <2>1, <2>2
<1> QED
  BY <1>3, <1>4, <1>5, <1>6, <1>7, <1>8

\* PublishFails on a prompt another resolver has taken.
LEMMA PublishFailsLoses ==
    ASSUME ShapeInv, NEW a \in Askers, PublishFails(a), prompts[a] # "pending"
    PROVE  ShapeInv'
<1>1. /\ asker[a] \in {"publishing", "waiting"} /\ asker' = [asker EXCEPT ![a] = "returned"]
      /\ returned' = [returned EXCEPT ![a] = "publishError"]
      /\ UNCHANGED <<promptVars, announced, published, reply, turnVars, steerVars,
                     activePrompts>>
  BY DEF PublishFails, GiveUp
<1> USE PromptConstants
    DEF ShapeInv, TypeOK, OpenInv, AskerInv, OwnerInv, ReplierInv, ReturnInv, Answered,
        TurnInv, SteerInv, Accepted, Decided, AskerStates, ReplyStates, Resolved, Pending,
        Terminal, Interrupted, None, Unset, promptVars, callVars, turnVars, steerVars
<1>2. TypeOK'
  BY <1>1
<1>3. OpenInv' /\ AskerInv' /\ OwnerInv' /\ ReplierInv'
      /\ ReturnInv' /\ TurnInv' /\ SteerInv'
  BY <1>1
<1> QED
  BY <1>2, <1>3

\* ContextEnds on a prompt another resolver has taken.
LEMMA ContextEndsLoses ==
    ASSUME ShapeInv, NEW a \in Askers, ContextEnds(a), prompts[a] # "pending"
    PROVE  ShapeInv'
<1>1. /\ asker[a] \in {"publishing", "waiting"} /\ asker' = [asker EXCEPT ![a] = "receiving"]
      /\ returned' = [returned EXCEPT ![a] = returned[a]]
      /\ UNCHANGED <<promptVars, announced, published, reply, turnVars, steerVars,
                     activePrompts>>
  BY DEF ContextEnds, GiveUp
<1> USE PromptConstants
    DEF ShapeInv, TypeOK, OpenInv, AskerInv, OwnerInv, ReplierInv, ReturnInv, Answered,
        TurnInv, SteerInv, Accepted, Decided, AskerStates, ReplyStates, Resolved, Pending,
        Terminal, Interrupted, None, Unset, promptVars, callVars, turnVars, steerVars
<1>2. TypeOK'
  BY <1>1
<1>3. OpenInv' /\ AskerInv' /\ OwnerInv' /\ ReplierInv'
      /\ ReturnInv' /\ TurnInv' /\ SteerInv'
  BY <1>1
<1> QED
  BY <1>2, <1>3

\* askUser announces its own resolution.
LEMMA WinnerPublishesShape ==
    ASSUME ShapeInv, NEW a \in Askers, WinnerPublishes(a)
    PROVE  ShapeInv'
<1>1. a \in Askers /\ prompts[a] \in Resolved /\ published[a] = <<>>
  BY DEF ShapeInv, TypeOK, OwnerInv, ReplierInv, Resolved, WinnerPublishes
<1>2. /\ published' \in [Askers -> Seq(Resolved)] /\ published'[a] \in {<<>>, <<prompts[a]>>}
      /\ \A b \in Askers \ {a} : published'[b] = published[b]
  BY <1>1, PublishEffect DEF ShapeInv, WinnerPublishes
<1>3. /\ asker[a] = "announcing" /\ asker' = [asker EXCEPT ![a] = "returned"]
      /\ UNCHANGED <<promptVars, returned, announced, reply, turnVars, steerVars,
                     activePrompts>>
  BY DEF WinnerPublishes, ShapeInv, TypeOK, ReplyStates
<1> USE PromptConstants
    DEF ShapeInv, TypeOK, OpenInv, AskerInv, OwnerInv, ReplierInv, ReturnInv, Answered,
        TurnInv, SteerInv, Accepted, Decided, AskerStates, ReplyStates, Resolved, Pending,
        Terminal, Interrupted, None, Unset, promptVars, callVars, turnVars, steerVars
<1>4. TypeOK'
  BY <1>1, <1>2, <1>3
<1>5. OpenInv'
  BY <1>1, <1>2, <1>3
<1>6. AskerInv' /\ TurnInv' /\ SteerInv'
  BY <1>1, <1>2, <1>3
<1>7. OwnerInv'
  BY <1>1, <1>2, <1>3, SMTT(20)
<1>8. ReplierInv'
  BY <1>1, <1>2, <1>3
<1>9. ReturnInv'
  BY <1>1, <1>2, <1>3
<1> QED
  BY <1>4, <1>5, <1>6, <1>7, <1>8, <1>9

\* The Reply accepted for a prompt stays the one while it returns.
LEMMA ReplyReturns ==
    ASSUME ShapeInv, NEW r \in Repliers, ReplyUncounts(r) \/ ReplyPublishes(r)
    PROVE  /\ reply[r].pc \in {"won", "announcing"} /\ reply[r].prompt \in Askers
           /\ prompts[reply[r].prompt] = "replied" /\ published[reply[r].prompt] = <<>>
           /\ reply' \in [Repliers -> [pc : ReplyStates, prompt : Askers \cup {None}]]
           /\ \A q \in Repliers \ {r} : reply'[q] = reply[q]
           /\ reply'[r].prompt = reply[r].prompt
           /\ reply'[r].pc = (IF reply[r].pc = "won" THEN "announcing" ELSE "replied")
           /\ \A q \in Repliers, b \in Askers : Accepted(q, b)' <=> Accepted(q, b)
           /\ UNCHANGED <<promptVars, asker, returned, announced, turnVars, steerVars>>
<1>1. /\ reply[r].pc \in {"won", "announcing"} /\ reply[r].prompt \in Askers
      /\ prompts[reply[r].prompt] = "replied" /\ published[reply[r].prompt] = <<>>
  BY DEF ShapeInv, ReplierInv, ReplyUncounts, ReplyPublishes
<1>2. CASE ReplyUncounts(r)
  BY <1>1, <1>2 DEF ReplyUncounts, ShapeInv, TypeOK, ReplyStates, Accepted
<1>3. CASE ReplyPublishes(r)
  BY <1>1, <1>3 DEF ReplyPublishes, ShapeInv, TypeOK, ReplyStates, Accepted
<1> QED
  BY <1>2, <1>3

\* Reply gives its slot back and announces its resolution.
LEMMA ReplyReturnsShape ==
    ASSUME ShapeInv, NEW r \in Repliers, ReplyUncounts(r) \/ ReplyPublishes(r)
    PROVE  ShapeInv'
<1> DEFINE p == reply[r].prompt
<1>1. /\ reply[r].pc \in {"won", "announcing"} /\ p \in Askers
      /\ prompts[p] = "replied" /\ published[p] = <<>>
      /\ reply' \in [Repliers -> [pc : ReplyStates, prompt : Askers \cup {None}]]
      /\ \A q \in Repliers \ {r} : reply'[q] = reply[q]
      /\ reply'[r].prompt = reply[r].prompt
      /\ reply'[r].pc = (IF reply[r].pc = "won" THEN "announcing" ELSE "replied")
  BY ReplyReturns
<1>2. UNCHANGED <<promptVars, asker, returned, announced, turnVars, steerVars>>
  BY ReplyReturns
<1>3. \A q \in Repliers, b \in Askers : Accepted(q, b)' <=> Accepted(q, b)
  BY ReplyReturns
<1>4. /\ published' \in [Askers -> Seq(Resolved)]
      /\ published'[p] \in {<<>>, <<"replied">>}
      /\ \A b \in Askers \ {p} : published'[b] = published[b]
      /\ reply[r].pc = "won" => UNCHANGED published
  <2>1. CASE ReplyUncounts(r)
    BY <1>1, <2>1 DEF ReplyUncounts, ShapeInv, TypeOK
  <2>2. CASE ReplyPublishes(r)
    BY <1>1, <2>2, PublishEffect DEF ReplyPublishes, ShapeInv, Resolved
  <2> QED
    BY <2>1, <2>2
<1>5. activePrompts' \in Nat
  BY ActivityEffect DEF ReplyUncounts, ReplyPublishes, ShapeInv, TypeOK
<1> HIDE DEF p
<1>6. TypeOK'
  BY <1>1, <1>2, <1>4, <1>5
     DEF ShapeInv, TypeOK, promptVars, turnVars, steerVars
<1>7. OpenInv' /\ AskerInv' /\ TurnInv' /\ SteerInv'
  BY <1>1, <1>2, <1>4
     DEF ShapeInv, TypeOK, OpenInv, AskerInv, TurnInv, SteerInv, Terminal, Interrupted,
         Pending, promptVars, turnVars, steerVars
<1>8. OwnerInv'
  <2>1. ASSUME NEW b \in Askers, b = p
        PROVE  b \notin interrupter.resolved /\ b \notin finisher.resolved
               /\ asker[b] \notin {"won", "announcing"}
    BY <1>1, <2>1 DEF ShapeInv, OwnerInv
  <2> QED
    BY <1>1, <1>2, <1>4, <2>1 DEF ShapeInv, OwnerInv, promptVars, turnVars
<1>9. ReplierInv'
  <2>1. \A q \in Repliers :
            reply'[q].pc \in {"won", "announcing", "replied"} =>
                reply'[q].prompt \in Askers /\ prompts'[reply'[q].prompt] = "replied"
    BY <1>1, <1>2 DEF ShapeInv, ReplierInv, promptVars
  <2>2. \A q \in Repliers :
            reply'[q].pc \in {"won", "announcing"} => published'[reply'[q].prompt] = <<>>
    <3> SUFFICES ASSUME NEW q \in Repliers, reply'[q].pc \in {"won", "announcing"}
                 PROVE  published'[reply'[q].prompt] = <<>>
      OBVIOUS
    <3>1. CASE q = r
      BY <1>1, <1>4, <3>1 DEF p
    <3>2. CASE q # r
      <4>1. reply'[q] = reply[q] /\ published[reply[q].prompt] = <<>>
            /\ reply[q].prompt \in Askers
        BY <1>1, <3>2 DEF ShapeInv, ReplierInv
      <4>2. reply[q].prompt # p
        BY <1>1, <3>2, <4>1 DEF ShapeInv, ReplierInv, Accepted, p
      <4> QED
        BY <1>4, <4>1, <4>2
    <3> QED
      BY <3>1, <3>2
  <2>3. \A q, s \in Repliers, a \in Askers : Accepted(q, a)' /\ Accepted(s, a)' => q = s
    BY <1>3 DEF ShapeInv, ReplierInv
  <2> QED
    BY <2>1, <2>2, <2>3 DEF ReplierInv
<1>10. ReturnInv'
  <2>1. \A b \in Askers : \A v : Decided(b, v)' <=> Decided(b, v)
    BY <1>2, <1>3 DEF Decided, promptVars
  <2> QED
    BY <1>2, <2>1 DEF ShapeInv, ReturnInv, Answered, promptVars
<1> QED
  BY <1>6, <1>7, <1>8, <1>9, <1>10 DEF ShapeInv

\* Interrupt announces a resolution.
LEMMA InterruptPublishesShape ==
    ASSUME ShapeInv, NEW a \in Askers, InterruptPublishes(a)
    PROVE  ShapeInv'
<1>1. a \in Askers /\ "interrupted" \in Resolved /\ published[a] = <<>>
  BY DEF ShapeInv, TypeOK, OwnerInv, ReplierInv, Resolved, InterruptPublishes
<1>2. /\ published' \in [Askers -> Seq(Resolved)] /\ published'[a] \in {<<>>, <<"interrupted">>}
      /\ \A b \in Askers \ {a} : published'[b] = published[b]
  BY <1>1, PublishEffect DEF ShapeInv, InterruptPublishes
<1>3. /\ interrupter.pc = "publish" /\ a \in interrupter.resolved
      /\ interrupter' = [interrupter EXCEPT !.resolved = @ \ {a}]
      /\ UNCHANGED <<promptVars, asker, returned, announced, reply, use, state, finisher, done,
                     steerVars, activePrompts>>
  BY DEF InterruptPublishes, ShapeInv, TypeOK, ReplyStates
<1> USE PromptConstants
    DEF ShapeInv, TypeOK, OpenInv, AskerInv, OwnerInv, ReplierInv, ReturnInv, Answered,
        TurnInv, SteerInv, Accepted, Decided, AskerStates, ReplyStates, Resolved, Pending,
        Terminal, Interrupted, None, Unset, promptVars, callVars, turnVars, steerVars
<1>4. TypeOK'
  BY <1>1, <1>2, <1>3
<1>5. OpenInv'
  BY <1>1, <1>2, <1>3
<1>6. AskerInv' /\ TurnInv' /\ SteerInv'
  BY <1>1, <1>2, <1>3
<1>7. OwnerInv'
  BY <1>1, <1>2, <1>3, SMTT(20)
<1>8. ReplierInv'
  BY <1>1, <1>2, <1>3
<1>9. ReturnInv'
  BY <1>1, <1>2, <1>3
<1> QED
  BY <1>4, <1>5, <1>6, <1>7, <1>8, <1>9

\* finish announces a resolution.
LEMMA FinishPublishesShape ==
    ASSUME ShapeInv, NEW a \in Askers, FinishPublishes(a)
    PROVE  ShapeInv'
<1>1. a \in Askers /\ "closed" \in Resolved /\ published[a] = <<>>
  BY DEF ShapeInv, TypeOK, OwnerInv, ReplierInv, Resolved, FinishPublishes
<1>2. /\ published' \in [Askers -> Seq(Resolved)] /\ published'[a] \in {<<>>, <<"closed">>}
      /\ \A b \in Askers \ {a} : published'[b] = published[b]
  BY <1>1, PublishEffect DEF ShapeInv, FinishPublishes
<1>3. /\ finisher.pc = "publish" /\ a \in finisher.resolved
      /\ finisher' = [finisher EXCEPT !.resolved = @ \ {a}]
      /\ UNCHANGED <<promptVars, asker, returned, announced, reply, use, state, interrupter,
                     done,
                     steerVars, activePrompts>>
  BY DEF FinishPublishes, ShapeInv, TypeOK, ReplyStates
<1> USE PromptConstants
    DEF ShapeInv, TypeOK, OpenInv, AskerInv, OwnerInv, ReplierInv, ReturnInv, Answered,
        TurnInv, SteerInv, Accepted, Decided, AskerStates, ReplyStates, Resolved, Pending,
        Terminal, Interrupted, None, Unset, promptVars, callVars, turnVars, steerVars
<1>4. TypeOK'
  BY <1>1, <1>2, <1>3
<1>5. OpenInv'
  BY <1>1, <1>2, <1>3
<1>6. AskerInv' /\ TurnInv' /\ SteerInv'
  BY <1>1, <1>2, <1>3
<1>7. OwnerInv'
  BY <1>1, <1>2, <1>3, SMTT(20)
<1>8. ReplierInv'
  BY <1>1, <1>2, <1>3
<1>9. ReturnInv'
  BY <1>1, <1>2, <1>3
<1> QED
  BY <1>4, <1>5, <1>6, <1>7, <1>8, <1>9

\* askUser, but for the steps that resolve or announce its prompt.
LEMMA AskShape ==
    ASSUME ShapeInv, NEW a \in Askers, 
           \/ AskCount(a) \/ AskRefused(a) \/ AskUncount(a) \/ AskRegister(a)
           \/ PromptSeen(a) \/ PublishReturns(a) \/ WinnerUncounts(a)
           \/ TurnDoneSeen(a) \/ Receive(a)
    PROVE  ShapeInv'
<1> USE PromptConstants
    DEF ShapeInv, TypeOK, OpenInv, AskerInv, OwnerInv, ReplierInv, ReturnInv, Answered,
        TurnInv, SteerInv, Accepted, Decided, AskerStates, ReplyStates, Resolved, Pending,
        Terminal, Interrupted, None, Unset, promptVars, callVars, turnVars, steerVars
<1>1. CASE AskCount(a)
  <2>1. TypeOK'
    BY <1>1 DEF AskCount, Activity
  <2>2. OpenInv' /\ AskerInv' /\ OwnerInv' /\ ReplierInv' /\ ReturnInv' /\ TurnInv' /\ SteerInv'
    BY <1>1 DEF AskCount, Activity
  <2> QED
    BY <2>1, <2>2
<1>2. CASE AskRefused(a)
  <2>1. TypeOK'
    BY <1>2 DEF AskRefused
  <2>2. OpenInv' /\ AskerInv' /\ OwnerInv' /\ ReplierInv' /\ ReturnInv' /\ TurnInv' /\ SteerInv'
    BY <1>2 DEF AskRefused
  <2> QED
    BY <2>1, <2>2
<1>3. CASE AskUncount(a)
  <2>1. TypeOK'
    BY <1>3 DEF AskUncount, Activity
  <2>2. OpenInv' /\ AskerInv' /\ OwnerInv' /\ ReplierInv' /\ ReturnInv' /\ TurnInv' /\ SteerInv'
    BY <1>3 DEF AskUncount, Activity
  <2> QED
    BY <2>1, <2>2
<1>4. CASE AskRegister(a)
  <2>1. TypeOK'
    BY <1>4 DEF AskRegister
  <2>2. OpenInv' /\ AskerInv' /\ OwnerInv' /\ ReplierInv' /\ ReturnInv' /\ TurnInv' /\ SteerInv'
    BY <1>4 DEF AskRegister
  <2> QED
    BY <2>1, <2>2
<1>5. CASE PromptSeen(a)
  <2>1. TypeOK'
    BY <1>5 DEF PromptSeen
  <2>2. OpenInv' /\ AskerInv' /\ OwnerInv' /\ ReplierInv' /\ ReturnInv' /\ TurnInv' /\ SteerInv'
    BY <1>5 DEF PromptSeen
  <2> QED
    BY <2>1, <2>2
<1>6. CASE PublishReturns(a)
  <2>1. TypeOK'
    BY <1>6 DEF PublishReturns
  <2>2. OpenInv' /\ AskerInv' /\ OwnerInv' /\ ReplierInv' /\ ReturnInv' /\ TurnInv' /\ SteerInv'
    BY <1>6 DEF PublishReturns
  <2> QED
    BY <2>1, <2>2
<1>7. CASE WinnerUncounts(a)
  <2>1. TypeOK'
    BY <1>7 DEF WinnerUncounts, Activity
  <2>2. OpenInv' /\ AskerInv' /\ OwnerInv' /\ ReplierInv' /\ ReturnInv' /\ TurnInv' /\ SteerInv'
    BY <1>7 DEF WinnerUncounts, Activity
  <2> QED
    BY <2>1, <2>2
<1>8. CASE TurnDoneSeen(a)
  <2>1. TypeOK'
    BY <1>8 DEF TurnDoneSeen
  <2>2. OpenInv' /\ AskerInv' /\ OwnerInv' /\ ReplierInv' /\ ReturnInv' /\ TurnInv' /\ SteerInv'
    BY <1>8 DEF TurnDoneSeen
  <2> QED
    BY <2>1, <2>2
<1>9. CASE Receive(a)
  <2>1. TypeOK'
    BY <1>9 DEF Receive
  <2>2. OpenInv' /\ AskerInv' /\ OwnerInv' /\ ReplierInv' /\ ReturnInv' /\ TurnInv' /\ SteerInv'
    BY <1>9 DEF Receive
  <2> QED
    BY <2>1, <2>2
<1> QED
  BY <1>1, <1>2, <1>3, <1>4, <1>5, <1>6, <1>7, <1>8, <1>9

\* A Reply that comes too late.
LEMMA ReplyRefusedShape ==
    ASSUME ShapeInv, NEW r \in Repliers, NEW a \in Askers, ReplyRefused(r, a)
    PROVE  ShapeInv'
<1> USE PromptConstants
    DEF ShapeInv, TypeOK, OpenInv, AskerInv, OwnerInv, ReplierInv, ReturnInv, Answered,
        TurnInv, SteerInv, Accepted, Decided, AskerStates, ReplyStates, Resolved, Pending,
        Terminal, Interrupted, None, Unset, promptVars, callVars, turnVars, steerVars
<1>1. CASE ReplyRefused(r, a)
  <2>1. TypeOK'
    BY <1>1 DEF ReplyRefused
  <2>2. OpenInv' /\ AskerInv' /\ OwnerInv' /\ ReplierInv' /\ ReturnInv' /\ TurnInv' /\ SteerInv'
    BY <1>1, SMTT(20) DEF ReplyRefused
  <2> QED
    BY <2>1, <2>2
<1> QED
  BY <1>1

\* Interrupt and finish give the slots of their prompts back.
LEMMA UncountShape ==
    ASSUME ShapeInv, InterruptUncounts \/ FinishUncounts
    PROVE  ShapeInv'
<1>1. Cardinality(interrupter.resolved) \in Nat /\ Cardinality(finisher.resolved) \in Nat
  BY PromptConstants, FS_Subset, FS_CardinalityType DEF ShapeInv, TypeOK
<1>2. activePrompts' \in Nat
  BY <1>1, ActivityEffect DEF ShapeInv, TypeOK, InterruptUncounts, FinishUncounts
<1> USE PromptConstants
    DEF ShapeInv, TypeOK, OpenInv, AskerInv, OwnerInv, ReplierInv, ReturnInv, Answered,
        TurnInv, SteerInv, Accepted, Decided, AskerStates, ReplyStates, Resolved, Pending,
        Terminal, Interrupted, None, Unset, promptVars, callVars, turnVars, steerVars
<1>3. CASE InterruptUncounts
  <2>1. TypeOK'
    BY <1>2, <1>3 DEF InterruptUncounts
  <2>2. OpenInv' /\ AskerInv' /\ OwnerInv' /\ ReplierInv' /\ ReturnInv' /\ TurnInv' /\ SteerInv'
    BY <1>3 DEF InterruptUncounts
  <2> QED
    BY <2>1, <2>2
<1>4. CASE FinishUncounts
  <2>1. TypeOK'
    BY <1>2, <1>4 DEF FinishUncounts
  <2>2. OpenInv' /\ AskerInv' /\ OwnerInv' /\ ReplierInv' /\ ReturnInv' /\ TurnInv' /\ SteerInv'
    BY <1>4 DEF FinishUncounts
  <2> QED
    BY <2>1, <2>2
<1> QED
  BY <1>3, <1>4

\* The rest of finish.
LEMMA FinishStepShape ==
    ASSUME ShapeInv, FinishRecords \/ FinishDone
    PROVE  ShapeInv'
<1> USE PromptConstants
    DEF ShapeInv, TypeOK, OpenInv, AskerInv, OwnerInv, ReplierInv, ReturnInv, Answered,
        TurnInv, SteerInv, Accepted, Decided, AskerStates, ReplyStates, Resolved, Pending,
        Terminal, Interrupted, None, Unset, promptVars, callVars, turnVars, steerVars
<1>1. CASE FinishRecords
  <2>1. TypeOK'
    BY <1>1 DEF FinishRecords
  <2>2. OpenInv' /\ AskerInv' /\ OwnerInv' /\ ReplierInv' /\ ReturnInv' /\ TurnInv' /\ SteerInv'
    BY <1>1 DEF FinishRecords
  <2> QED
    BY <2>1, <2>2
<1>2. CASE FinishDone
  <2>1. TypeOK'
    BY <1>2 DEF FinishDone
  <2>2. OpenInv' /\ AskerInv' /\ OwnerInv' /\ ReplierInv' /\ ReturnInv' /\ TurnInv' /\ SteerInv'
    BY <1>2 DEF FinishDone
  <2> QED
    BY <2>1, <2>2
<1> QED
  BY <1>1, <1>2

\* Steer and DrainSteer.
LEMMA SteerShape ==
    ASSUME ShapeInv, Steer \/ DrainSteer
    PROVE  ShapeInv'
<1>1. /\ steer \in Seq(Nat) /\ drained \in Seq(Nat) /\ accepted \in Seq(Nat)
      /\ accepted = drained \o steer
  BY DEF ShapeInv, TypeOK, SteerInv
<1>2. accepted' = drained' \o steer'
  <2>1. CASE Steer
    <3>1. Len(accepted) + 1 \in Nat
      BY <1>1
    <3> DEFINE e == <<Len(accepted) + 1>>
    <3>2. Append(steer, Len(accepted) + 1) = steer \o e
      BY <1>1, <3>1, AppendIsConcat
    <3>3. Append(accepted, Len(accepted) + 1) = accepted \o e
      BY <1>1, <3>1, AppendIsConcat
    <3>4. e \in Seq(Nat)
      BY <3>1
    <3> HIDE DEF e
    <3>5. (drained \o steer) \o e = drained \o (steer \o e)
      BY <1>1, <3>4, ConcatAssociative
    <3> QED
      BY <1>1, <2>1, <3>2, <3>3, <3>5 DEF Steer
  <2>2. CASE DrainSteer
    BY <1>1, <2>2, ConcatEmptySeq, ConcatProperties DEF DrainSteer
  <2> QED
    BY <2>1, <2>2
<1> USE PromptConstants
    DEF ShapeInv, TypeOK, OpenInv, AskerInv, OwnerInv, ReplierInv, ReturnInv, Answered,
        TurnInv, SteerInv, Accepted, Decided, AskerStates, ReplyStates, Resolved, Pending,
        Terminal, Interrupted, None, Unset, promptVars, callVars, turnVars, steerVars
<1>3. CASE Steer
  <2>1. TypeOK'
    BY <1>3 DEF Steer
  <2>2. OpenInv' /\ AskerInv' /\ OwnerInv' /\ ReplierInv' /\ ReturnInv' /\ TurnInv' /\ SteerInv'
    BY <1>2, <1>3 DEF Steer
  <2> QED
    BY <2>1, <2>2
<1>4. CASE DrainSteer
  <2>1. TypeOK'
    BY <1>4 DEF DrainSteer
  <2>2. OpenInv' /\ AskerInv' /\ OwnerInv' /\ ReplierInv' /\ ReturnInv' /\ TurnInv' /\ SteerInv'
    BY <1>2, <1>4, SMTT(20) DEF DrainSteer
  <2> QED
    BY <2>1, <2>2
<1> QED
  BY <1>3, <1>4

-----------------------------------------------------------------------------
(* The session's count of prompts. *)

\* The calls and prompts that hold a slot.
Holders == {a \in Askers : asker[a] \in {"counted", "refused", "won"}}
Winners == {r \in Repliers : reply[r].pc = "won"}
Interrupting == IF interrupter.pc = "uncount" THEN Cardinality(interrupter.resolved) ELSE 0
Finishing == IF finisher.pc \in {"record", "uncount"} THEN Cardinality(finisher.resolved) ELSE 0

\* An element more, or less, in a finite set.
LEMMA OneMore ==
    ASSUME NEW S, IsFiniteSet(S), NEW x
    PROVE  /\ x \notin S => Cardinality(S \cup {x}) = Cardinality(S) + 1
           /\ x \in S => /\ Cardinality(S \ {x}) = Cardinality(S) - 1
                         /\ Cardinality(S) >= 1
<1>1. Cardinality(S) \in Nat
  BY FS_CardinalityType
<1>2. CASE x \notin S
  BY <1>2, FS_AddElement
<1>3. CASE x \in S
  <2>1. Cardinality(S \ {x}) = Cardinality(S) - 1 /\ IsFiniteSet(S \ {x})
    BY <1>3, FS_RemoveElement
  <2>2. Cardinality(S \ {x}) \in Nat
    BY <2>1, FS_CardinalityType
  <2> QED
    BY <1>1, <1>3, <2>1, <2>2
<1> QED
  BY <1>2, <1>3

\* The slots are finitely many, and counted by kind.
LEMMA SlotsCounted ==
    ASSUME ShapeInv
    PROVE  /\ IsFiniteSet(Holders) /\ IsFiniteSet(Pending) /\ IsFiniteSet(Winners)
           /\ Cardinality(Holders) \in Nat /\ Cardinality(Pending) \in Nat
           /\ Cardinality(Winners) \in Nat
           /\ Interrupting \in Nat /\ Finishing \in Nat
           /\ activePrompts \in Nat
           /\ PromptActivityIsExact <=>
                activePrompts = Cardinality(Holders) + Cardinality(Pending)
                                + Cardinality(Winners) + Interrupting + Finishing
<1>1. IsFiniteSet(Holders) /\ IsFiniteSet(Pending) /\ IsFiniteSet(Winners)
  BY PromptConstants, FS_Subset DEF Holders, Pending, Winners
<1>2. IsFiniteSet(interrupter.resolved) /\ IsFiniteSet(finisher.resolved)
  BY PromptConstants, FS_Subset DEF ShapeInv, TypeOK
<1>3. activePrompts \in Nat
  BY DEF ShapeInv, TypeOK
<1> QED
  BY <1>1, <1>2, <1>3, FS_CardinalityType
     DEF Interrupting, Finishing, PromptActivityIsExact, Holders, Winners

\* The steps that give or take no slot.
LEMMA QuietCount ==
    ASSUME IndInv,
           \/ \E a \in Askers :
                 \/ AskRefused(a) \/ PromptSeen(a) \/ PublishReturns(a) \/ WinnerPublishes(a)
                 \/ TurnDoneSeen(a) \/ Receive(a) \/ InterruptPublishes(a) \/ FinishPublishes(a)
                 \/ (PublishFails(a) \/ ContextEnds(a)) /\ prompts[a] # "pending"
           \/ \E r \in Repliers : (\E a \in Askers : ReplyRefused(r, a)) \/ ReplyPublishes(r)
           \/ FinishRecords \/ FinishDone \/ Steer \/ DrainSteer
    PROVE  PromptActivityIsExact'
<1> SUFFICES /\ UNCHANGED <<Holders, Pending, Winners, Interrupting, Finishing, activePrompts>>
  BY DEF IndInv, PromptActivityIsExact, Holders, Winners, Interrupting, Finishing
<1> USE DEF IndInv, ShapeInv, TypeOK, Holders, Pending, Winners, Interrupting, Finishing,
            promptVars, callVars, turnVars, steerVars
<1>1. ASSUME NEW a \in Askers, AskRefused(a) \/ PromptSeen(a) \/ PublishReturns(a)
      PROVE  UNCHANGED <<Holders, Pending, Winners, Interrupting, Finishing, activePrompts>>
  BY <1>1 DEF AskRefused, PromptSeen, PublishReturns
<1>2. ASSUME NEW a \in Askers, WinnerPublishes(a) \/ TurnDoneSeen(a) \/ Receive(a)
      PROVE  UNCHANGED <<Holders, Pending, Winners, Interrupting, Finishing, activePrompts>>
  BY <1>2 DEF WinnerPublishes, TurnDoneSeen, Receive
<1>3. ASSUME NEW a \in Askers, InterruptPublishes(a) \/ FinishPublishes(a)
      PROVE  UNCHANGED <<Holders, Pending, Winners, Interrupting, Finishing, activePrompts>>
  BY <1>3 DEF InterruptPublishes, FinishPublishes
<1>4. ASSUME NEW a \in Askers, PublishFails(a) \/ ContextEnds(a), prompts[a] # "pending"
      PROVE  UNCHANGED <<Holders, Pending, Winners, Interrupting, Finishing, activePrompts>>
  BY <1>4 DEF PublishFails, ContextEnds, GiveUp
<1>5. ASSUME NEW r \in Repliers, (\E a \in Askers : ReplyRefused(r, a)) \/ ReplyPublishes(r)
      PROVE  UNCHANGED <<Holders, Pending, Winners, Interrupting, Finishing, activePrompts>>
  <2>1. \A q \in Repliers : reply'[q].pc = "won" <=> reply[q].pc = "won"
    <3>1. ASSUME NEW a \in Askers, ReplyRefused(r, a)
          PROVE  reply'[r].pc # "won" /\ reply[r].pc = "idle"
      BY <3>1 DEF ReplyRefused
    <3>2. CASE ReplyPublishes(r)
      BY <3>2 DEF ReplyPublishes
    <3>3. \A q \in Repliers \ {r} : reply'[q] = reply[q]
      BY <1>5 DEF ReplyRefused, ReplyPublishes
    <3> QED
      BY <1>5, <3>1, <3>2, <3>3
  <2> QED
    BY <1>5, <2>1 DEF ReplyRefused, ReplyPublishes
<1>6. CASE FinishRecords \/ FinishDone \/ Steer \/ DrainSteer
  BY <1>6 DEF FinishRecords, FinishDone, Steer, DrainSteer
<1> QED
  BY <1>1, <1>2, <1>3, <1>4, <1>5, <1>6

\* The steps that give a slot, take one or pass one on.
LEMMA CountMoves ==
    ASSUME IndInv,
           \/ \E a \in Askers :
                 \/ AskCount(a) \/ AskUncount(a) \/ AskRegister(a) \/ WinnerUncounts(a)
                 \/ (PublishFails(a) \/ ContextEnds(a)) /\ prompts[a] = "pending"
           \/ \E r \in Repliers : (\E a \in Askers : Reply(r, a)) \/ ReplyUncounts(r)
           \/ Interrupt \/ InterruptUncounts \/ FinishUncounts
           \/ \E result \in BOOLEAN : Finish(result)
    PROVE  PromptActivityIsExact'
<1> DEFINE Slots == Cardinality(Holders) + Cardinality(Pending) + Cardinality(Winners)
                    + Interrupting + Finishing
<1>a. /\ IsFiniteSet(Holders) /\ IsFiniteSet(Pending) /\ IsFiniteSet(Winners)
      /\ Cardinality(Holders) \in Nat /\ Cardinality(Pending) \in Nat
      /\ Cardinality(Winners) \in Nat /\ Interrupting \in Nat /\ Finishing \in Nat
      /\ activePrompts \in Nat /\ activePrompts = Slots
  BY SlotsCounted DEF IndInv
<1> SUFFICES activePrompts' = Slots'
  BY DEF PromptActivityIsExact, Holders, Winners, Interrupting, Finishing
<1>1. ASSUME NEW a \in Askers, AskCount(a) PROVE activePrompts' = Slots'
  <2>1. /\ Holders' = Holders \cup {a} /\ a \notin Holders
        /\ UNCHANGED <<Pending, Winners, Interrupting, Finishing>>
    BY <1>1 DEF IndInv, ShapeInv, TypeOK, AskCount, Holders, Pending, Winners, Interrupting,
                Finishing, promptVars, turnVars
  <2>2. activePrompts' = activePrompts + 1
    BY <1>a, <1>1, ActivityEffect DEF AskCount
  <2> QED
    BY <1>a, <2>1, <2>2, OneMore
<1>2. ASSUME NEW a \in Askers, AskUncount(a) \/ WinnerUncounts(a) PROVE activePrompts' = Slots'
  <2>1. /\ Holders' = Holders \ {a} /\ a \in Holders
        /\ UNCHANGED <<Pending, Winners, Interrupting, Finishing>>
    BY <1>2 DEF IndInv, ShapeInv, TypeOK, AskUncount, WinnerUncounts, Holders, Pending, Winners,
                Interrupting, Finishing, promptVars, turnVars
  <2>2. Cardinality(Holders') = Cardinality(Holders) - 1 /\ Cardinality(Holders) >= 1
    BY <1>a, <2>1, OneMore
  <2>3. activePrompts' = activePrompts + (-1)
    BY <1>a, <1>2, <2>2, ActivityEffect DEF AskUncount, WinnerUncounts
  <2> QED
    BY <1>a, <2>1, <2>2, <2>3
<1>3. ASSUME NEW a \in Askers, AskRegister(a) PROVE activePrompts' = Slots'
  <2>1. /\ Holders' = Holders \ {a} /\ a \in Holders
        /\ Pending' = Pending \cup {a} /\ a \notin Pending
        /\ UNCHANGED <<Winners, Interrupting, Finishing, activePrompts>>
    BY <1>3 DEF IndInv, ShapeInv, TypeOK, AskerInv, AskRegister, Holders, Pending, Winners,
                Interrupting, Finishing, turnVars
  <2> QED
    BY <1>a, <2>1, OneMore
<1>4. ASSUME NEW a \in Askers, PublishFails(a) \/ ContextEnds(a), prompts[a] = "pending"
      PROVE  activePrompts' = Slots'
  <2>1. /\ Holders' = Holders \cup {a} /\ a \notin Holders
        /\ Pending' = Pending \ {a} /\ a \in Pending
        /\ UNCHANGED <<Winners, Interrupting, Finishing, activePrompts>>
    <3>1. /\ asker[a] \in {"publishing", "waiting"} /\ asker' = [asker EXCEPT ![a] = "won"]
          /\ \E status \in Resolved :
                prompts' = [b \in Askers |-> IF b \in {a} THEN status ELSE prompts[b]]
          /\ UNCHANGED <<reply, interrupter, finisher, activePrompts>>
      BY <1>4 DEF PublishFails, ContextEnds, GiveUp, Resolve, Resolved, turnVars
    <3> QED
      BY <1>4, <3>1 DEF IndInv, ShapeInv, TypeOK, Resolved, Holders, Pending, Winners,
                        Interrupting, Finishing
  <2> QED
    BY <1>a, <2>1, OneMore
<1>5. ASSUME NEW r \in Repliers, NEW a \in Askers, Reply(r, a) PROVE activePrompts' = Slots'
  <2>1. /\ Winners' = Winners \cup {r} /\ r \notin Winners
        /\ Pending' = Pending \ {a} /\ a \in Pending
        /\ UNCHANGED <<Holders, Interrupting, Finishing, activePrompts>>
    <3>1. /\ Pending' = Pending \ {a} /\ a \in Pending
          /\ UNCHANGED <<Holders, Interrupting, Finishing, activePrompts>>
      BY <1>5 DEF Reply, Resolve, Holders, Pending, Interrupting, Finishing, turnVars
    <3>2. Winners' = Winners \cup {r} /\ r \notin Winners
      BY <1>5 DEF IndInv, ShapeInv, TypeOK, Reply, Winners
    <3> QED
      BY <3>1, <3>2
  <2>2. Cardinality(Winners \cup {r}) = Cardinality(Winners) + 1
    BY <1>a, <2>1, OneMore
  <2>3. Cardinality(Pending \ {a}) = Cardinality(Pending) - 1
    BY <1>a, <2>1, OneMore
  <2>4. /\ Cardinality(Winners') = Cardinality(Winners) + 1
        /\ Cardinality(Pending') = Cardinality(Pending) - 1
        /\ Cardinality(Holders') = Cardinality(Holders)
        /\ Interrupting' = Interrupting /\ Finishing' = Finishing
        /\ activePrompts' = activePrompts
    BY <2>1, <2>2, <2>3
  <2> QED
    BY <1>a, <2>4
<1>6. ASSUME NEW r \in Repliers, ReplyUncounts(r) PROVE activePrompts' = Slots'
  <2>1. /\ Winners' = Winners \ {r} /\ r \in Winners
        /\ UNCHANGED <<Holders, Pending, Interrupting, Finishing>>
    BY <1>6 DEF IndInv, ShapeInv, TypeOK, ReplyUncounts, Holders, Pending, Winners,
                Interrupting, Finishing, turnVars, promptVars
  <2>2. Cardinality(Winners') = Cardinality(Winners) - 1 /\ Cardinality(Winners) >= 1
    BY <1>a, <2>1, OneMore
  <2>3. activePrompts' = activePrompts + (-1)
    BY <1>a, <1>6, <2>2, ActivityEffect DEF ReplyUncounts
  <2> QED
    BY <1>a, <2>1, <2>2, <2>3
<1>7. CASE Interrupt
  <2>1. /\ Pending' = {} /\ Interrupting = 0 /\ Interrupting' = Cardinality(Pending)
        /\ UNCHANGED <<Holders, Winners, Finishing, activePrompts>>
    BY <1>7 DEF Interrupt, Interrupted, Resolve, Holders, Pending, Winners, Interrupting,
                Finishing, callVars
  <2> QED
    BY <1>a, <2>1, FS_EmptySet
<1>8. ASSUME NEW result \in BOOLEAN, Finish(result) PROVE activePrompts' = Slots'
  <2>1. /\ Pending' = {} /\ Finishing = 0 /\ Finishing' = Cardinality(Pending)
        /\ UNCHANGED <<Holders, Winners, Interrupting, activePrompts>>
    BY <1>8 DEF IndInv, ShapeInv, TurnInv, Finish, Resolve, Holders, Pending, Winners,
                Interrupting, Finishing, callVars
  <2> QED
    BY <1>a, <2>1, FS_EmptySet
<1>9. CASE InterruptUncounts
  <2>1. /\ Interrupting = Cardinality(interrupter.resolved) /\ Interrupting' = 0
        /\ UNCHANGED <<Holders, Pending, Winners, Finishing>>
    BY <1>9 DEF IndInv, ShapeInv, TypeOK, InterruptUncounts, Holders, Pending, Winners,
                Interrupting, Finishing, callVars, promptVars
  <2>2. activePrompts' = activePrompts - Interrupting
    BY <1>a, <1>9, <2>1, ActivityEffect DEF InterruptUncounts
  <2> QED
    BY <1>a, <2>1, <2>2
<1>10. CASE FinishUncounts
  <2>1. /\ Finishing = Cardinality(finisher.resolved) /\ Finishing' = 0
        /\ UNCHANGED <<Holders, Pending, Winners, Interrupting>>
    BY <1>10 DEF IndInv, ShapeInv, TypeOK, FinishUncounts, Holders, Pending, Winners,
                 Interrupting, Finishing, callVars, promptVars
  <2>2. activePrompts' = activePrompts - Finishing
    BY <1>a, <1>10, <2>1, ActivityEffect DEF FinishUncounts
  <2> QED
    BY <1>a, <2>1, <2>2
<1> QED
  BY <1>1, <1>2, <1>3, <1>4, <1>5, <1>6, <1>7, <1>8, <1>9, <1>10

-----------------------------------------------------------------------------

\* The initial state satisfies the invariant.
LEMMA InitIndInv == Init => IndInv
<1> SUFFICES ASSUME Init PROVE IndInv
  OBVIOUS
<1>1. TypeOK
  <2>1. /\ use \in Uses /\ outcome \in [Askers -> Seq(Resolved \cup Repliers)]
        /\ published \in [Askers -> Seq(Resolved)] /\ \A a \in Askers : Len(outcome[a]) <= 1
    BY DEF Init
  <2>2. /\ steer \in Seq(Nat) /\ accepted \in Seq(Nat) /\ drained \in Seq(Nat)
        /\ Len(steer) <= QueueLimit
    BY PromptConstants DEF Init
  <2>3. reply \in [Repliers -> [pc : ReplyStates, prompt : Askers \cup {None}]]
    BY DEF Init, ReplyStates
  <2> QED
    BY <2>1, <2>2, <2>3 DEF Init, TypeOK, AskerStates, Resolved, Unset, None
<1>2. OpenInv /\ AskerInv /\ OwnerInv /\ ReplierInv
  BY DEF Init, OpenInv, AskerInv, OwnerInv, ReplierInv, Accepted
<1>3. ReturnInv /\ TurnInv
  BY DEF Init, ReturnInv, Answered, TurnInv, Terminal, Interrupted, Pending, Resolved
<1>4. SteerInv
  BY DEF Init, SteerInv
<1>s. ShapeInv
  BY <1>1, <1>2, <1>3, <1>4 DEF ShapeInv
<1>5. PromptActivityIsExact
  <2>1. Holders = {} /\ Pending = {} /\ Winners = {}
    BY DEF Init, Holders, Pending, Winners
  <2>2. Interrupting = 0 /\ Finishing = 0 /\ activePrompts = 0
    BY DEF Init, Interrupting, Finishing
  <2>3. activePrompts = Cardinality(Holders) + Cardinality(Pending) + Cardinality(Winners)
                        + Interrupting + Finishing
    BY <2>1, <2>2, FS_EmptySet
  <2> QED
    BY <1>s, <2>3, SlotsCounted
<1> QED
  BY <1>s, <1>5 DEF IndInv

\* Every step keeps the shape.
LEMMA NextShape ==
    ASSUME ShapeInv, Next
    PROVE  ShapeInv'
<1>1. ASSUME NEW a \in Askers, AskerNext(a) PROVE ShapeInv'
  <2>1. CASE PublishFails(a) \/ ContextEnds(a)
    BY <2>1, PublishFailsWins, PublishFailsLoses, ContextEndsWins, ContextEndsLoses
  <2>2. CASE WinnerPublishes(a)
    BY <2>2, WinnerPublishesShape
  <2> QED
    BY <1>1, <2>1, <2>2, AskShape DEF AskerNext
<1>2. ASSUME NEW r \in Repliers,
             \/ \E a \in Askers : Reply(r, a) \/ ReplyRefused(r, a)
             \/ ReplyUncounts(r) \/ ReplyPublishes(r)
      PROVE  ShapeInv'
  BY <1>2, ReplyWins, ReplyRefusedShape, ReplyReturnsShape
<1>3. ASSUME NEW a \in Askers, InterruptPublishes(a) \/ FinishPublishes(a) PROVE ShapeInv'
  BY <1>3, InterruptPublishesShape, FinishPublishesShape
<1>4. CASE Interrupt \/ \E result \in BOOLEAN : Finish(result)
  BY <1>4, InterruptShape, FinishShape
<1>5. CASE InterruptUncounts \/ FinishUncounts
  BY <1>5, UncountShape
<1>6. CASE FinishRecords \/ FinishDone \/ Steer \/ DrainSteer
  BY <1>6, FinishStepShape, SteerShape
<1> QED
  BY <1>1, <1>2, <1>3, <1>4, <1>5, <1>6 DEF Next

\* Every step, and every stuttering step, keeps the invariant.
LEMMA NextIndInv == IndInv /\ [Next]_vars => IndInv'
<1> SUFFICES ASSUME IndInv, [Next]_vars PROVE IndInv'
  OBVIOUS
<1>1. CASE UNCHANGED vars
  BY <1>1 DEF vars, promptVars, callVars, turnVars, steerVars,
              IndInv, ShapeInv, TypeOK, OpenInv, AskerInv, OwnerInv, ReplierInv, ReturnInv,
              Answered, Decided, Accepted, TurnInv, SteerInv, PromptActivityIsExact, Pending,
              Terminal, Interrupted
<1>2. CASE Next
  <2>1. ShapeInv'
    BY <1>2, NextShape DEF IndInv
  <2>2. PromptActivityIsExact'
    BY <1>2, QuietCount, CountMoves DEF Next, AskerNext
  <2> QED
    BY <2>1, <2>2 DEF IndInv
<1> QED
  BY <1>1, <1>2

\* The inductive invariant holds in every reachable state.
THEOREM Inductive == Spec => []IndInv
  BY InitIndInv, NextIndInv, PTL DEF Spec

\* Types, and with them that no channel is ever sent a second value: no sender
\* blocks with the turn's lock held.
THEOREM TypeCorrect == Spec => []TypeOK
<1>1. IndInv => TypeOK
  BY DEF IndInv, ShapeInv
<1> QED
  BY <1>1, Inductive, PTL

\* One resolver announces a prompt's resolution, and askUser returns what the
\* winner of the race decided.
THEOREM OneResolution == Spec => []ResolvedOnce
<1>1. ASSUME IndInv PROVE ResolvedOnce
  <2> SUFFICES ASSUME NEW a \in Askers
               PROVE  /\ Claims(a) <= 1
                      /\ \A i \in DOMAIN published[a] : published[a][i] = prompts[a]
                      /\ asker[a] = "returned" /\ returned[a] # "publishError"
                           /\ prompts[a] \in Resolved =>
                            IF prompts[a] = "replied"
                            THEN \E r \in Repliers :
                                    /\ returned[a] = r
                                    /\ reply[r].prompt = a
                                    /\ reply[r].pc \in {"won", "announcing", "replied"}
                            ELSE returned[a] = prompts[a]
    BY DEF ResolvedOnce
  <2>1. Cardinality(Replying(a)) = 0 \/ Cardinality(Replying(a)) = 1
    <3>1. CASE Replying(a) = {}
      BY <3>1, FS_EmptySet
    <3>2. ASSUME NEW r \in Replying(a) PROVE Replying(a) = {r}
      BY <1>1, <3>2 DEF IndInv, ShapeInv, ReplierInv, Replying, Accepted
    <3> QED
      BY <3>1, <3>2, FS_Singleton
  <2>2. Replying(a) # {} => prompts[a] = "replied" /\ published[a] = <<>>
    BY <1>1 DEF IndInv, ShapeInv, ReplierInv, Replying
  <2>3. published[a] = <<>> \/ published[a] = <<prompts[a]>>
    BY <1>1 DEF IndInv, ShapeInv, OwnerInv
  <2>4. Len(<<>>) = 0 /\ Len(<<prompts[a]>>) = 1
    OBVIOUS
  <2>5. Len(published[a]) \in {0, 1} /\ (published[a] = <<>> => Len(published[a]) = 0)
    BY <2>3, <2>4, Zenon
  <2>6. Claims(a) <= 1
    <3>1. Cardinality(Replying(a)) = 1 => Replying(a) # {}
      BY FS_EmptySet
    <3>2. /\ asker[a] \in {"won", "announcing"} =>
                /\ prompts[a] \in {"closed", "expired"} /\ Len(published[a]) = 0
                /\ a \notin finisher.resolved
          /\ a \in interrupter.resolved =>
                prompts[a] = "interrupted" /\ Len(published[a]) = 0
          /\ a \in finisher.resolved => prompts[a] = "closed" /\ Len(published[a]) = 0
      BY <1>1, <2>5 DEF IndInv, ShapeInv, OwnerInv
    <3>3. Cardinality(Replying(a)) = 1 => prompts[a] = "replied" /\ Len(published[a]) = 0
      BY <2>2, <2>5, <3>1
    <3>4. Len(published[a]) \in {0, 1}
      BY <2>5
    <3> DEFINE len == Len(published[a])
               rep == Cardinality(Replying(a))
               ask == IF asker[a] \in {"won", "announcing"} THEN 1 ELSE 0
               int == IF a \in interrupter.resolved THEN 1 ELSE 0
               fin == IF a \in finisher.resolved THEN 1 ELSE 0
    <3>5. len \in {0, 1} /\ rep \in {0, 1} /\ ask \in {0, 1} /\ int \in {0, 1} /\ fin \in {0, 1}
      BY <2>1, <3>4
    <3>6. /\ rep = 1 => len = 0 /\ ask = 0 /\ int = 0 /\ fin = 0
          /\ ask = 1 => len = 0 /\ int = 0 /\ fin = 0
          /\ int = 1 => len = 0 /\ fin = 0
          /\ fin = 1 => len = 0
      BY <3>2, <3>3
    <3>7. Claims(a) = len + rep + ask + int + fin
      BY DEF Claims
    <3> HIDE DEF len, rep, ask, int, fin
    <3> QED
      BY <3>5, <3>6, <3>7
  <2>7. \A i \in DOMAIN published[a] : published[a][i] = prompts[a]
    BY <2>3
  <2> QED
    BY <1>1, <2>6, <2>7 DEF IndInv, ShapeInv, ReturnInv, Answered, Decided, Accepted
<1> QED
  BY <1>1, Inductive, PTL

\* The session's count of prompts is exact, whoever resolves them.
THEOREM PromptsCounted == Spec => []PromptActivityIsExact
<1>1. IndInv => PromptActivityIsExact
  BY DEF IndInv
<1> QED
  BY <1>1, Inductive, PTL

\* No message Steer accepted is lost, drained twice or reordered, and the count
\* in the turn's result is that of the messages the turn left behind.
THEOREM SteerAccounted == Spec => []SteerIsAccountedFor
<1>1. IndInv => SteerIsAccountedFor
  BY DEF IndInv, ShapeInv, SteerInv, SteerIsAccountedFor
<1> QED
  BY <1>1, Inductive, PTL

\* A call of askUser that only waits for its channel, because it lost the race
\* for its prompt or saw the turn end, finds a value there: it is never stuck.
ReceiverIsServed == \A a \in Askers : asker[a] = "receiving" => outcome[a] # <<>>

\* askUser never hangs on its own channel, in any interleaving of the resolvers.
THEOREM NoAskerIsStuck == Spec => []ReceiverIsServed
<1>1. IndInv => ReceiverIsServed
  BY DEF IndInv, ShapeInv, TurnInv, ReturnInv, Answered, ReceiverIsServed
<1> QED
  BY <1>1, Inductive, PTL
=============================================================================
