----------------------------- MODULE TurnPrompts -----------------------------
(***************************************************************************)
(* The questions a turn asks its user and the messages the user steers it  *)
(* with: core/runtime/session/prompt.go and the parts of turn.go that use  *)
(* the same lock.  Several askUser calls of one engine run at a time, each *)
(* in a goroutine of its own that may outlive Execute.  A prompt leaves    *)
(* the pending state by a Reply, by the end of the asker's context, by a   *)
(* publication that failed, by Interrupt or by finish; all five race for   *)
(* it under the turn's lock, and what follows the unlock (the activity     *)
(* slot of the session, the PromptResolved event) is a step of its own.    *)
(***************************************************************************)
EXTENDS Integers, Sequences, FiniteSets

CONSTANTS
    Askers,        \* calls of Turn.askUser; each registers a prompt of its own
    Repliers,      \* calls of Turn.Reply; the caller stands for its answer
    QueueLimit,    \* maxSteerQueue
    Uses           \* bounds on a turn: [askers, repliers, messages accepted by Steer]

ASSUME PromptConstants ==
    /\ QueueLimit \in Nat \ {0}
    /\ Uses \subseteq [askers : SUBSET Askers, repliers : SUBSET Repliers, messages : Nat]
    /\ Askers \cap Repliers = {}
    /\ IsFiniteSet(Askers) /\ IsFiniteSet(Repliers)

VARIABLES
    use,           \* the bounds of this behaviour
    state,         \* Turn.state: "running", "interrupting" or "terminal"
    prompts,       \* state of each asker's entry in Turn.prompts
    outcome,       \* the entry's channel, of capacity 1
    asker,         \* where each askUser call stands
    returned,      \* what each askUser call returned
    announced,     \* prompts whose PromptRequested reached a subscriber
    published,     \* the PromptResolved statuses published for each prompt
    reply,         \* each Reply call: [pc, prompt]
    interrupter,   \* the Interrupt call that won: [pc, resolved prompts]
    finisher,      \* the goroutine in Turn.finish: [pc, resolved, pending, result]
    done,          \* Turn.done is closed and the run context cancelled
    activePrompts, \* Session.activePrompts
    steer,         \* Turn.steer
    accepted,      \* history: messages Steer accepted, in order
    drained,       \* history: messages DrainSteer returned, in order
    leftover,      \* history: messages not drained when the turn ended
    recorded       \* result.State[steerPendingStateKey], or None

promptVars == <<prompts, outcome>>
callVars == <<asker, returned, announced, published, reply>>
turnVars == <<use, state, interrupter, finisher, done>>
steerVars == <<steer, accepted, drained, leftover, recorded>>
vars == <<promptVars, callVars, turnVars, steerVars, activePrompts>>

None == -1
Unset == "unset"
Resolved == {"replied", "expired", "interrupted", "closed"}
Terminal == state = "terminal"
Interrupted == interrupter.pc # "idle"
Pending == {a \in Askers : prompts[a] = "pending"}

(***************************************************************************)
(* Session.changeActivity(activityPrompt, delta), with its clamp at zero.  *)
(***************************************************************************)
Activity(delta) ==
    activePrompts' = IF activePrompts + delta < 0 THEN 0 ELSE activePrompts + delta

(***************************************************************************)
(* Entries leave the pending state and their outcome is sent, in one       *)
(* critical section.  A send on a full channel would block with the lock   *)
(* held; TypeOK says that it never happens.                                *)
(***************************************************************************)
Resolve(as, status, value) ==
    /\ prompts' = [a \in Askers |-> IF a \in as THEN status ELSE prompts[a]]
    /\ outcome' = [a \in Askers |-> IF a \in as THEN Append(outcome[a], value) ELSE outcome[a]]

(***************************************************************************)
(* publishPromptResolved, after the unlock: best effort, within 2 seconds. *)
(***************************************************************************)
PublishResolved(a, status) ==
    \/ published' = [published EXCEPT ![a] = Append(@, status)]
    \/ UNCHANGED published

-----------------------------------------------------------------------------
(***************************************************************************)
(* askUser.                                                                *)
(***************************************************************************)
AskCount(a) ==
    /\ a \in use.askers
    /\ asker[a] = "idle"
    /\ asker' = [asker EXCEPT ![a] = "counted"]
    /\ Activity(1)
    /\ UNCHANGED <<promptVars, returned, announced, published, reply, turnVars, steerVars>>

AskRefused(a) ==
    /\ asker[a] = "counted"
    /\ Terminal \/ Interrupted
    /\ asker' = [asker EXCEPT ![a] = "refused"]
    /\ returned' = [returned EXCEPT ![a] = IF Terminal THEN "closed" ELSE "interrupted"]
    /\ UNCHANGED <<promptVars, announced, published, reply, turnVars, steerVars, activePrompts>>

\* Mutant: a refused call returns without giving its slot back.
AskUncountForgotten(a) ==
    /\ asker[a] = "refused"
    /\ asker' = [asker EXCEPT ![a] = "returned"]
    /\ UNCHANGED <<promptVars, returned, announced, published, reply, turnVars, steerVars,
                   activePrompts>>

AskUncount(a) ==
    /\ asker[a] = "refused"
    /\ asker' = [asker EXCEPT ![a] = "returned"]
    /\ Activity(-1)
    /\ UNCHANGED <<promptVars, returned, announced, published, reply, turnVars, steerVars>>

\* Mutant: the turn's end is not checked when the prompt is registered.
AskRegisterLate(a) ==
    /\ asker[a] = "counted"
    /\ ~Interrupted
    /\ prompts' = [prompts EXCEPT ![a] = "pending"]
    /\ asker' = [asker EXCEPT ![a] = "publishing"]
    /\ UNCHANGED <<outcome, returned, announced, published, reply, turnVars, steerVars,
                   activePrompts>>

AskRegister(a) ==
    /\ asker[a] = "counted"
    /\ ~Terminal /\ ~Interrupted
    /\ prompts' = [prompts EXCEPT ![a] = "pending"]
    /\ asker' = [asker EXCEPT ![a] = "publishing"]
    /\ UNCHANGED <<outcome, returned, announced, published, reply, turnVars, steerVars,
                   activePrompts>>

\* PromptRequested reaches a subscriber while Publish is still under way
PromptSeen(a) ==
    /\ asker[a] = "publishing"
    /\ a \notin announced
    /\ announced' = announced \union {a}
    /\ UNCHANGED <<promptVars, asker, returned, published, reply, turnVars, steerVars, activePrompts>>

PublishReturns(a) ==
    /\ asker[a] = "publishing"
    /\ asker' = [asker EXCEPT ![a] = "waiting"]
    /\ UNCHANGED <<promptVars, returned, announced, published, reply, turnVars, steerVars, activePrompts>>

\* Mutant: resolvePrompt does not look at the entry's state.
GiveUpAlways(a, status, lostTo) ==
    /\ Resolve({a}, status, status)
    /\ asker' = [asker EXCEPT ![a] = "won"]

\* the call gives its prompt up: resolvePrompt, won or lost
GiveUp(a, status, lostTo) ==
    IF prompts[a] = "pending"
    THEN /\ Resolve({a}, status, status)
         /\ asker' = [asker EXCEPT ![a] = "won"]
    ELSE /\ asker' = [asker EXCEPT ![a] = lostTo]
         /\ UNCHANGED promptVars

PublishFails(a) ==
    /\ asker[a] = "publishing"
    /\ returned' = [returned EXCEPT ![a] = "publishError"]
    /\ GiveUp(a, "closed", "returned")
    /\ UNCHANGED <<announced, published, reply, turnVars, steerVars, activePrompts>>

\* the winner of resolvePrompt frees the slot, publishes and returns its own error
WinnerUncounts(a) ==
    /\ asker[a] = "won"
    /\ asker' = [asker EXCEPT ![a] = "announcing"]
    /\ Activity(-1)
    /\ UNCHANGED <<promptVars, returned, announced, published, reply, turnVars, steerVars>>

WinnerPublishes(a) ==
    /\ asker[a] = "announcing"
    /\ asker' = [asker EXCEPT ![a] = "returned"]
    /\ PublishResolved(a, prompts[a])
    /\ UNCHANGED <<promptVars, returned, announced, reply, turnVars, steerVars, activePrompts>>

\* Mutant: the context's error is returned although another resolver won.
ContextEndsAlways(a) ==
    /\ asker[a] = "waiting"
    /\ GiveUp(a, "expired", "returned")
    /\ returned' = [returned EXCEPT ![a] = "expired"]
    /\ UNCHANGED <<announced, published, reply, turnVars, steerVars, activePrompts>>

ContextEnds(a) ==
    /\ asker[a] = "waiting"
    /\ GiveUp(a, "expired", "receiving")
    /\ returned' = [returned EXCEPT ![a] = IF prompts[a] = "pending" THEN "expired" ELSE @]
    /\ UNCHANGED <<announced, published, reply, turnVars, steerVars, activePrompts>>

TurnDoneSeen(a) ==
    /\ asker[a] = "waiting"
    /\ done
    /\ asker' = [asker EXCEPT ![a] = "receiving"]
    /\ UNCHANGED <<promptVars, returned, announced, published, reply, turnVars, steerVars, activePrompts>>

Receive(a) ==
    /\ asker[a] \in {"waiting", "receiving"}
    /\ outcome[a] # <<>>
    /\ returned' = [returned EXCEPT ![a] = Head(outcome[a])]
    /\ outcome' = [outcome EXCEPT ![a] = Tail(@)]
    /\ asker' = [asker EXCEPT ![a] = "returned"]
    /\ UNCHANGED <<prompts, announced, published, reply, turnVars, steerVars, activePrompts>>

-----------------------------------------------------------------------------
(***************************************************************************)
(* Reply.  Its caller knows the prompt's random id from PromptRequested.   *)
(***************************************************************************)
Reply(r, a) ==
    /\ r \in use.repliers
    /\ reply[r].pc = "idle"
    /\ a \in announced
    /\ prompts[a] = "pending"
    /\ Resolve({a}, "replied", r)
    /\ reply' = [reply EXCEPT ![r] = [pc |-> "won", prompt |-> a]]
    /\ UNCHANGED <<asker, returned, announced, published, turnVars, steerVars, activePrompts>>

\* ErrPromptDuplicate or ErrPromptClosed
ReplyRefused(r, a) ==
    /\ r \in use.repliers
    /\ reply[r].pc = "idle"
    /\ a \in announced
    /\ prompts[a] \in Resolved
    /\ reply' = [reply EXCEPT ![r] = [pc |-> IF prompts[a] = "replied" THEN "duplicate" ELSE "closed",
                                      prompt |-> a]]
    /\ UNCHANGED <<promptVars, asker, returned, announced, published, turnVars, steerVars, activePrompts>>

ReplyUncounts(r) ==
    /\ reply[r].pc = "won"
    /\ reply' = [reply EXCEPT ![r].pc = "announcing"]
    /\ Activity(-1)
    /\ UNCHANGED <<promptVars, asker, returned, announced, published, turnVars, steerVars>>

ReplyPublishes(r) ==
    /\ reply[r].pc = "announcing"
    /\ reply' = [reply EXCEPT ![r].pc = "replied"]
    /\ PublishResolved(reply[r].prompt, "replied")
    /\ UNCHANGED <<promptVars, asker, returned, announced, turnVars, steerVars, activePrompts>>

-----------------------------------------------------------------------------
(***************************************************************************)
(* Interrupt: the first cause wins, and later calls find it set.           *)
(***************************************************************************)
Interrupt ==
    /\ ~Terminal /\ ~Interrupted
    /\ state' = "interrupting"
    /\ interrupter' = [pc |-> "uncount", resolved |-> Pending]
    /\ Resolve(Pending, "interrupted", "interrupted")
    /\ UNCHANGED <<callVars, use, finisher, done, steerVars, activePrompts>>

\* finishPromptActivity
InterruptUncounts ==
    /\ interrupter.pc = "uncount"
    /\ interrupter' = [interrupter EXCEPT !.pc = "publish"]
    /\ Activity(-Cardinality(interrupter.resolved))
    /\ UNCHANGED <<promptVars, callVars, use, state, finisher, done, steerVars>>

\* one by one, in the order of the map's iteration
InterruptPublishes(a) ==
    /\ interrupter.pc = "publish"
    /\ a \in interrupter.resolved
    /\ interrupter' = [interrupter EXCEPT !.resolved = @ \ {a}]
    /\ PublishResolved(a, "interrupted")
    /\ UNCHANGED <<promptVars, asker, returned, announced, reply, use, state, finisher, done, steerVars,
                   activePrompts>>

(***************************************************************************)
(* finish: Execute has returned, with a result or with an error only.      *)
(***************************************************************************)
Finish(result) ==
    /\ ~Terminal
    /\ state' = "terminal"
    /\ finisher' = [pc |-> "record", resolved |-> Pending,
                    pending |-> Len(steer), result |-> result]
    /\ leftover' = Len(steer)
    /\ Resolve(Pending, "closed", "closed")
    /\ UNCHANGED <<callVars, use, interrupter, done, steer, accepted, drained, recorded,
                   activePrompts>>

\* Mutant: the queue is counted again after the unlock.
FinishRecordsLate ==
    /\ finisher.pc = "record"
    /\ recorded' = IF finisher.pending > 0 /\ finisher.result THEN Len(steer) ELSE recorded
    /\ finisher' = [finisher EXCEPT !.pc = "uncount"]
    /\ UNCHANGED <<promptVars, callVars, use, state, interrupter, done, steer, accepted, drained,
                   leftover, activePrompts>>

\* recordPendingSteer
FinishRecords ==
    /\ finisher.pc = "record"
    /\ recorded' = IF finisher.pending > 0 /\ finisher.result THEN finisher.pending ELSE recorded
    /\ finisher' = [finisher EXCEPT !.pc = "uncount"]
    /\ UNCHANGED <<promptVars, callVars, use, state, interrupter, done, steer, accepted, drained,
                   leftover, activePrompts>>

FinishUncounts ==
    /\ finisher.pc = "uncount"
    /\ finisher' = [finisher EXCEPT !.pc = "publish"]
    /\ Activity(-Cardinality(finisher.resolved))
    /\ UNCHANGED <<promptVars, callVars, use, state, interrupter, done, steerVars>>

FinishPublishes(a) ==
    /\ finisher.pc = "publish"
    /\ a \in finisher.resolved
    /\ finisher' = [finisher EXCEPT !.resolved = @ \ {a}]
    /\ PublishResolved(a, "closed")
    /\ UNCHANGED <<promptVars, asker, returned, announced, reply, use, state, interrupter, done, steerVars,
                   activePrompts>>

\* sinks and session are settled; close(t.done) and the deferred cancel
FinishDone ==
    /\ finisher.pc = "publish"
    /\ finisher.resolved = {}
    /\ finisher' = [finisher EXCEPT !.pc = "returned"]
    /\ done' = TRUE
    /\ UNCHANGED <<promptVars, callVars, use, state, interrupter, steerVars, activePrompts>>

-----------------------------------------------------------------------------
(***************************************************************************)
(* Steer and DrainSteer.  Messages are numbered in the order accepted.     *)
(***************************************************************************)
Steer ==
    /\ ~Terminal /\ ~Interrupted
    /\ Len(steer) < QueueLimit
    /\ Len(accepted) < use.messages
    /\ steer' = Append(steer, Len(accepted) + 1)
    /\ accepted' = Append(accepted, Len(accepted) + 1)
    /\ UNCHANGED <<promptVars, callVars, turnVars, drained, leftover, recorded, activePrompts>>

\* callable by the engine and, once the turn is over, by its owner
DrainSteer ==
    /\ steer # <<>>
    /\ drained' = drained \o steer
    /\ steer' = <<>>
    /\ UNCHANGED <<promptVars, callVars, turnVars, accepted, leftover, recorded, activePrompts>>

-----------------------------------------------------------------------------
Init ==
    /\ use \in Uses
    /\ state = "running"
    /\ prompts = [a \in Askers |-> "absent"]
    /\ outcome = [a \in Askers |-> <<>>]
    /\ asker = [a \in Askers |-> "idle"]
    /\ returned = [a \in Askers |-> Unset]
    /\ announced = {}
    /\ reply = [r \in Repliers |-> [pc |-> "idle", prompt |-> None]]
    /\ interrupter = [pc |-> "idle", resolved |-> {}]
    /\ finisher = [pc |-> "idle", resolved |-> {}, pending |-> 0, result |-> FALSE]
    /\ done = FALSE
    /\ activePrompts = 0
    /\ published = [a \in Askers |-> <<>>]
    /\ steer = <<>>
    /\ accepted = <<>>
    /\ drained = <<>>
    /\ leftover = 0
    /\ recorded = None

AskerNext(a) ==
    \/ AskCount(a) \/ AskRefused(a) \/ AskUncount(a) \/ AskRegister(a)
    \/ PromptSeen(a) \/ PublishReturns(a) \/ PublishFails(a) \/ WinnerUncounts(a) \/ WinnerPublishes(a)
    \/ ContextEnds(a) \/ TurnDoneSeen(a) \/ Receive(a)

Next ==
    \/ \E a \in Askers : AskerNext(a)
    \/ \E r \in Repliers :
          \/ \E a \in Askers : Reply(r, a) \/ ReplyRefused(r, a)
          \/ ReplyUncounts(r) \/ ReplyPublishes(r)
    \/ Interrupt \/ InterruptUncounts
    \/ \E a \in Askers : InterruptPublishes(a) \/ FinishPublishes(a)
    \/ \E result \in BOOLEAN : Finish(result)
    \/ FinishRecords \/ FinishUncounts \/ FinishDone
    \/ Steer \/ DrainSteer

(***************************************************************************)
(* A goroutine that can run does, and finish bounds each of its waits.     *)
(* Publish of PromptRequested waits for slow subscribers as long as its    *)
(* context lives, so it has to return only after the run context is        *)
(* cancelled; nobody has to reply, to interrupt, or to end the turn.       *)
(***************************************************************************)
Fairness ==
    /\ \A a \in Askers :
          /\ WF_vars(AskRefused(a) \/ AskUncount(a) \/ AskRegister(a))
          /\ WF_vars(done /\ PublishFails(a))
          /\ WF_vars(WinnerUncounts(a) \/ WinnerPublishes(a))
          /\ WF_vars(Receive(a) \/ TurnDoneSeen(a))
    /\ \A r \in Repliers : WF_vars(ReplyUncounts(r))
    /\ WF_vars(InterruptUncounts)
    /\ WF_vars(FinishRecords \/ FinishUncounts \/ FinishDone \/ \E a \in Askers : FinishPublishes(a))

Spec == Init /\ [][Next]_vars /\ Fairness

-----------------------------------------------------------------------------
AskerStates == {"idle", "counted", "refused", "publishing", "waiting", "won", "announcing",
                "receiving", "returned"}
ReplyStates == {"idle", "won", "announcing", "replied", "duplicate", "closed"}

(***************************************************************************)
(* Types.  Each outcome channel holds at most the one value it has room    *)
(* for: no sender blocks with the turn's lock held (prompt.go:73, 163).    *)
(***************************************************************************)
TypeOK ==
    /\ use \in Uses
    /\ state \in {"running", "interrupting", "terminal"}
    /\ prompts \in [Askers -> {"absent", "pending"} \union Resolved]
    /\ outcome \in [Askers -> Seq(Resolved \union Repliers)]
    /\ \A a \in Askers : Len(outcome[a]) <= 1
    /\ asker \in [Askers -> AskerStates]
    /\ returned \in [Askers -> Resolved \union Repliers \union {Unset, "publishError"}]
    /\ announced \subseteq Askers
    /\ published \in [Askers -> Seq(Resolved)]
    /\ reply \in [Repliers -> [pc : ReplyStates, prompt : Askers \union {None}]]
    /\ interrupter \in [pc : {"idle", "uncount", "publish"}, resolved : SUBSET Askers]
    /\ finisher \in [pc : {"idle", "record", "uncount", "publish", "returned"},
                     resolved : SUBSET Askers, pending : Nat, result : BOOLEAN]
    /\ done \in BOOLEAN
    /\ activePrompts \in Nat
    /\ steer \in Seq(Nat) /\ accepted \in Seq(Nat) /\ drained \in Seq(Nat)
    /\ Len(steer) <= QueueLimit
    /\ leftover \in Nat
    /\ recorded \in Nat \union {None}

Replying(a) == {r \in Repliers : reply[r].prompt = a /\ reply[r].pc \in {"won", "announcing"}}
Claims(a) ==
    Len(published[a]) + Cardinality(Replying(a))
    + (IF asker[a] \in {"won", "announcing"} THEN 1 ELSE 0)
    + (IF a \in interrupter.resolved THEN 1 ELSE 0)
    + (IF a \in finisher.resolved THEN 1 ELSE 0)

(***************************************************************************)
(* A prompt is resolved once.  However Reply, Interrupt, finish, the end   *)
(* of the asker's context and a failed publication race for it, one of     *)
(* them announces the resolution, the announced status is the entry's, and *)
(* askUser returns what the winner decided, the reply of the one caller    *)
(* whose Reply was accepted included; only a call whose PromptRequested    *)
(* could not be published returns that error (prompt.go:51-165).           *)
(***************************************************************************)
ResolvedOnce ==
    \A a \in Askers :
        /\ Claims(a) <= 1
        /\ \A i \in DOMAIN published[a] : published[a][i] = prompts[a]
        /\ asker[a] = "returned" /\ returned[a] # "publishError" /\ prompts[a] \in Resolved =>
              IF prompts[a] = "replied"
              THEN \E r \in Repliers : /\ returned[a] = r
                                       /\ reply[r].prompt = a
                                       /\ reply[r].pc \in {"won", "announcing", "replied"}
              ELSE returned[a] = prompts[a]

(***************************************************************************)
(* The session's count of prompts is exact, so that the session is not     *)
(* reclaimed while a prompt waits for its user and is not kept for ever by *)
(* one that was resolved: a slot is held by each asker before it has       *)
(* registered, by each pending prompt, and by each resolver until it gives *)
(* the slot back.  The clamp of changeActivity never bites.                *)
(***************************************************************************)
PromptActivityIsExact ==
    activePrompts =
        Cardinality({a \in Askers : asker[a] \in {"counted", "refused", "won"}})
        + Cardinality(Pending)
        + Cardinality({r \in Repliers : reply[r].pc = "won"})
        + (IF interrupter.pc = "uncount" THEN Cardinality(interrupter.resolved) ELSE 0)
        + (IF finisher.pc \in {"record", "uncount"} THEN Cardinality(finisher.resolved) ELSE 0)

(***************************************************************************)
(* Every message Steer accepted is either returned by exactly one drain or *)
(* still queued, in the order accepted; and the count recorded in the      *)
(* turn's result is the number of messages that no drain had returned when *)
(* the turn ended, also when its owner drains them while finish runs       *)
(* (turn.go:26-38, 280, 516).                                              *)
(***************************************************************************)
SteerIsAccountedFor ==
    /\ accepted = drained \o steer
    /\ recorded # None => recorded = leftover
    /\ finisher.pc \notin {"idle", "record"} /\ finisher.result /\ leftover > 0 => recorded = leftover

(***************************************************************************)
(* Once the turn has ended, every askUser call returns and the session     *)
(* holds no slot for a prompt: a call that lost the race for its prompt,   *)
(* or that saw the turn's end first, finds an outcome to receive           *)
(* (prompt.go:145, 148), and none registers where nobody will resolve it.  *)
(***************************************************************************)
PromptsSettle ==
    Terminal ~> /\ activePrompts = 0
                /\ \A a \in Askers : asker[a] \in {"idle", "returned"}
=============================================================================
