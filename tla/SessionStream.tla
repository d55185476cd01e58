--------------------------- MODULE SessionStream ---------------------------
(***************************************************************************)
(* The stream of one turn (core/runtime/session: coordinator.go, sink.go   *)
(* and the delivery cursors of turn.go), with one confirmed authoritative  *)
(* sink.                                                                   *)
(*                                                                         *)
(* The engine publishes events on the bus.  The coordinator holds back     *)
(* speculative branches until they are accepted, gives every confirmed     *)
(* event the next cursor and puts it on the sink's bounded queue.  The     *)
(* sink's goroutine calls the client; the turn follows how far deliveries  *)
(* were offered, delivered and acknowledged, and freezes the acknowledged  *)
(* prefix when it is interrupted or its sink detaches.  That prefix is     *)
(* what an interrupted turn commits.                                       *)
(*                                                                         *)
(* A text token is a number, unique within the turn.  Cursor c is the      *)
(* position c of log, which holds the token emitted there.                 *)
(***************************************************************************)
EXTENDS Integers, Sequences, SequencesExt, FiniteSets

CONSTANTS
    Branches,      \* speculative branches, (ForkID, BranchID)
    MaxEvents,     \* streamCoordinator.maxEvents
    QueueSize,     \* capacity of queuedSink.queue
    SinkSpecs,     \* the SinkSpecs a turn may be started with
    MaxAttempts,   \* agent.WithMaxRevise
    MaxPublished   \* bound: events published up to an attempt, per SinkSpec

ASSUME StreamAssumption ==
    /\ MaxEvents \in Nat \ {0} /\ QueueSize \in Nat \ {0} /\ MaxAttempts \in Nat \ {0}
    /\ MaxPublished \in [SinkSpecs \X (1..MaxAttempts) -> Nat]
    /\ SinkSpecs \subseteq [explicit : BOOLEAN, maxUnacked : Nat]
    /\ \A c \in SinkSpecs : c.maxUnacked > 0 => c.explicit     \* SinkSpec.Validate

VARIABLES
    \* engine and agent.Execute
    phase,       \* where the turn is
    attempt,     \* attempt agent.Execute is in
    status,      \* Result.Status of the last attempt
    published,   \* events published
    output,      \* history: assistant text per attempt
    held,        \* history: text of the engine's open branches
    \* the bus subscription of the coordinator
    bus,
    \* streamCoordinator
    branches, cAttempt, dead, finalized, signal,
    log,         \* confirmed events; Len(log) is nextCursor
    \* queuedSink
    spec,        \* its SinkSpec: AckMode is AckExplicit, MaxUnacked (0: queue size)
    queue,       \* cursors waiting
    inCall,      \* the cursor the goroutine is at, 0 for none
    call,        \* phase of that delivery
    detached,    \* why the sink is detached, "no" while it is not
    \* Turn
    offered, delivered, acked,
    commitAttempt,
    tokens,      \* tokenByCursor
    ackedPrefix, frozen, frozenPrefix, interrupted,
    heard,       \* history: tokens the client has taken
    committed,   \* Result.Committed
    view,        \* the board handed to the Committers
    saved        \* the board afterTurn saves

engineVars == <<phase, attempt, status, published, output, held, committed, view, saved>>
coordVars == <<branches, cAttempt, dead, finalized, signal, log>>
sinkVars == <<queue, inCall, call>>
turnVars == <<offered, delivered, acked, commitAttempt, interrupted>>
prefixVars == <<tokens, ackedPrefix, frozen, frozenPrefix>>
vars == <<engineVars, bus, coordVars, spec, sinkVars, detached, turnVars, prefixVars, heard>>

Phases == {"running", "ended", "checking", "sleeping", "waiting", "done"}
Statuses == {"none", "completed", "interrupted", "failed", "runEndFailed", "interruptedRunEndFailed"}
Interruptions == {"interrupted", "interruptedRunEndFailed"}
RunEndFailures == {"runEndFailed", "interruptedRunEndFailed"}
Reasons == {"no", "end", "full", "failed", "window", "drain"}
NoBranch == [state |-> "none", items |-> <<>>]
End == -1                \* the logical run end, as a log entry; 0 is a control event
IsText(id) == id > 0
Text(n) == [type |-> "text", id |-> n]
On(t, b) == [type |-> t, branch |-> b]

Init ==
    /\ spec \in SinkSpecs
    /\ phase = "running" /\ attempt = 1 /\ status = "none" /\ published = 0
    /\ output = [a \in 1..MaxAttempts |-> <<>>]
    /\ held = [b \in Branches |-> <<>>]
    /\ bus = <<>>
    /\ branches = [b \in Branches |-> NoBranch]
    /\ cAttempt = 1 /\ dead = FALSE /\ finalized = FALSE /\ signal = FALSE
    /\ log = <<>>
    /\ queue = <<>> /\ inCall = 0 /\ call = "idle" /\ detached = "no"
    /\ offered = 0 /\ delivered = 0 /\ acked = 0 /\ commitAttempt = 1
    /\ tokens = {} /\ ackedPrefix = <<>>
    /\ frozen = FALSE /\ frozenPrefix = <<>> /\ interrupted = FALSE
    /\ heard = {}
    /\ committed = FALSE /\ view = <<>> /\ saved = <<>>

-----------------------------------------------------------------------------
(* The turn's cursors. *)

\* A set of cursors, in order.
InOrder(S) == CHOOSE cs \in [1..Cardinality(S) -> S] : \A i, j \in DOMAIN cs : i < j => cs[i] < cs[j]

\* advanceAckLocked: what the prefix gains.
Gained(cursor) ==
    LET cs == InOrder({c \in acked + 1 .. cursor : <<c, commitAttempt>> \in tokens})
    IN  [i \in DOMAIN cs |-> log[cs[i]]]

AdvanceAck(cursor) ==
    IF cursor > acked
    THEN /\ acked' = cursor
         /\ ackedPrefix' = ackedPrefix \o Gained(cursor)
         /\ tokens' = {r \in tokens : r[1] > cursor}
    ELSE UNCHANGED <<acked, ackedPrefix, tokens>>

\* freezeLocked, on prefix variables that tokens and ackedPrefix leave alone.
Freeze ==
    /\ frozen' = TRUE
    /\ frozenPrefix' = IF frozen THEN frozenPrefix ELSE ackedPrefix
    /\ tokens' = IF frozen THEN tokens ELSE {}
    /\ UNCHANGED ackedPrefix

\* detach and markDetachedLocked: the first reason counts; sinkDetached freezes.
Detach(reason) ==
    IF detached = "no"
    THEN detached' = reason /\ Freeze
    ELSE UNCHANGED <<detached, prefixVars>>

\* Turn.Interrupt
Interrupt ==
    /\ phase \in {"running", "ended"}
    /\ ~interrupted
    /\ interrupted' = TRUE
    /\ Freeze
    /\ UNCHANGED <<engineVars, bus, coordVars, spec, sinkVars, detached, offered,
                   delivered, acked, commitAttempt, heard>>

\* Mutant: what was emitted may be acknowledged before it is offered.
AckBeyondOffered(cursor) ==
    /\ spec.explicit
    /\ cursor > acked
    /\ ~frozen
    /\ AdvanceAck(cursor)
    /\ heard' = heard \cup {log[c] : c \in 1..cursor}
    /\ UNCHANGED <<engineVars, bus, coordVars, spec, sinkVars, detached, offered,
                   delivered, commitAttempt, interrupted, frozen, frozenPrefix>>

\* Turn.Ack, from inside OnDelta or from anywhere else.
Ack(cursor) ==
    /\ spec.explicit
    /\ cursor > acked
    /\ ~frozen
    /\ cursor <= offered
    /\ AdvanceAck(cursor)
    /\ heard' = heard \cup {log[c] : c \in 1..cursor}
    /\ UNCHANGED <<engineVars, bus, coordVars, spec, sinkVars, detached, offered,
                   delivered, commitAttempt, interrupted, frozen, frozenPrefix>>

-----------------------------------------------------------------------------
(* The engine (external) and agent.Execute. *)

Publishes(e) ==
    /\ phase = "running"
    /\ published < MaxPublished[spec, attempt]
    /\ published' = published + 1
    /\ bus' = Append(bus, e)
    /\ UNCHANGED <<phase, attempt, status, committed, view, saved, coordVars,
                   sinkVars, detached, turnVars, prefixVars, heard>>

PublishText ==
    /\ Publishes(Text(published + 1))
    /\ output' = [output EXCEPT ![attempt] = Append(@, published + 1)]
    /\ UNCHANGED held

PublishSpeculative(b) ==
    /\ Publishes([type |-> "speculative", id |-> published + 1, branch |-> b])
    /\ held' = [held EXCEPT ![b] = Append(@, published + 1)]
    /\ UNCHANGED output

PublishAccept(b) ==
    /\ Publishes(On("accept", b))
    /\ output' = [output EXCEPT ![attempt] = @ \o held[b]]
    /\ held' = [held EXCEPT ![b] = <<>>]

PublishCancel(b) ==
    /\ Publishes(On("cancel", b))
    /\ held' = [held EXCEPT ![b] = <<>>]
    /\ UNCHANGED output

\* An attempt ends.  The engine publishes its run end; if it does not, that only
\* shows when finalize waits for it.  "runEndFailed" is a result that says that
\* publishing failed, or no result at all; that error may be joined to the
\* interrupt's.
EndAttempt(s, runEnd) ==
    /\ phase = "running"
    /\ s \in Interruptions => interrupted
    /\ s \in RunEndFailures => ~runEnd
    /\ phase' = "ended"
    /\ status' = s
    /\ bus' = IF runEnd THEN Append(bus, [type |-> "end"]) ELSE bus
    /\ UNCHANGED <<attempt, published, output, held, committed, view, saved,
                   coordVars, sinkVars, detached, turnVars, prefixVars, heard>>

\* A referee asks for another attempt: Turn.OnRunRevise, then the engine again.
OnRunRevise ==
    /\ phase = "ended" /\ status = "completed" /\ attempt < MaxAttempts
    /\ phase' = "running"
    /\ attempt' = attempt + 1
    /\ held' = [b \in Branches |-> <<>>]
    /\ commitAttempt' = attempt + 1
    /\ acked' = delivered
    /\ ackedPrefix' = <<>>
    /\ frozen' = FALSE /\ frozenPrefix' = <<>>
    /\ tokens' = {r \in tokens : r[2] = attempt + 1}
    /\ UNCHANGED <<status, published, output, committed, view, saved, bus,
                   coordVars, sinkVars, detached, offered, delivered,
                   interrupted, heard>>

\* The text an interrupted turn would commit now.
Committable == IF frozen THEN frozenPrefix ELSE ackedPrefix

\* Result.Committed: completed, or accepted by the interruption referee.
Accepted ==
    \/ status = "completed"
    \/ status \in Interruptions /\ Committable # <<>>

\* Turn.CommitView: what an interrupted turn has on its board is cut to the prefix.
CommitView == IF status \in Interruptions THEN Committable ELSE output[attempt]

\* The last attempt: Turn.After and Turn.CommitView, then finish, which makes
\* the turn terminal.  A result without a run end detaches the sink at once.
Settle ==
    /\ phase = "ended"
    /\ committed' = Accepted
    /\ view' = CommitView
    /\ phase' = IF status \in RunEndFailures THEN "waiting" ELSE "checking"
    /\ IF status \in RunEndFailures /\ detached = "no"
       THEN Detach("drain")
       ELSE /\ IF status \in Interruptions THEN Freeze ELSE UNCHANGED prefixVars
            /\ UNCHANGED detached
    /\ UNCHANGED <<attempt, status, published, output, held, saved, bus, coordVars,
                   sinkVars, turnVars, heard>>

-----------------------------------------------------------------------------
(* streamCoordinator.OnDelta, one bus event per step. *)

\* Mutant: tokens are recorded whichever attempt they belong to.
RecordedForAnyAttempt(ids) ==
    IF frozen THEN {}
    ELSE {<<Len(log) + i, commitAttempt>> : i \in {j \in DOMAIN ids : IsText(ids[j])}}

\* recordConfirmed: which of the new cursors are kept for the prefix.
Recorded(ids) ==
    IF frozen \/ cAttempt # commitAttempt THEN {}
    ELSE {<<Len(log) + i, cAttempt>> : i \in {j \in DOMAIN ids : IsText(ids[j])}}

\* Mutant: an event that does not fit is lost and the sink stays attached.
EmitDropsOverflow(ids) ==
    LET cursors == [i \in DOMAIN ids |-> Len(log) + i]
    IN  /\ log' = log \o ids
        /\ tokens' = tokens \cup Recorded(ids)
        /\ queue' = IF detached = "no" /\ Len(queue \o ids) <= QueueSize
                    THEN queue \o cursors ELSE queue
        /\ UNCHANGED <<detached, ackedPrefix, frozen, frozenPrefix>>

\* emitConfirmedLocked for a run of events: each gets the next cursor and is
\* queued for the sink; the first that finds the queue full detaches it.
Emit(ids) ==
    LET room == QueueSize - Len(queue)
        fits == [i \in 1..(IF Len(ids) < room THEN Len(ids) ELSE room) |-> Len(log) + i]
    IN  /\ log' = log \o ids
        /\ queue' = IF detached = "no" THEN queue \o fits ELSE queue
        /\ IF detached # "no" \/ Len(ids) <= room
           THEN /\ tokens' = tokens \cup Recorded(ids)
                /\ UNCHANGED <<detached, ackedPrefix, frozen, frozenPrefix>>
           ELSE detached' = "full" /\ Freeze

\* failConfirmedLocked: the confirmed stream is given up.
FailConfirmed ==
    /\ dead' = TRUE
    /\ branches' = [b \in Branches |-> NoBranch]
    /\ Detach("failed")
    /\ UNCHANGED <<log, queue>>

Unaffected == UNCHANGED <<dead, branches, log, queue, detached, prefixVars>>

Buffered == UNION {{b} \X DOMAIN branches[b].items : b \in Branches}
Pending == Cardinality(Buffered)
Known == {b \in Branches : branches[b].state # "none"}

\* Mutant: the buffer of speculative events has no limit.
SpeculateUnbounded(e) ==
    IF branches[e.branch].state \in {"accept", "cancel"}
    THEN FailConfirmed
    ELSE /\ branches' = [branches EXCEPT ![e.branch] =
                            [state |-> "open", items |-> Append(@.items, e.id)]]
         /\ UNCHANGED <<dead, log, queue, detached, prefixVars>>

\* A speculative event is buffered, within the limits, until its branch ends.
Speculate(e) ==
    IF \/ branches[e.branch].state = "none" /\ Cardinality(Known) >= MaxEvents
       \/ branches[e.branch].state \in {"accept", "cancel"}
       \/ Pending + 1 > MaxEvents
    THEN FailConfirmed
    ELSE /\ branches' = [branches EXCEPT ![e.branch] =
                            [state |-> "open", items |-> Append(@.items, e.id)]]
         /\ UNCHANGED <<dead, log, queue, detached, prefixVars>>

\* A branch is accepted or cancelled, once; what it held follows the event.
Decide(e) ==
    LET b == branches[e.branch] IN
    IF b.state = e.type
    THEN Unaffected
    ELSE IF \/ b.state = "none" /\ Cardinality(Known) >= MaxEvents
            \/ b.state \in {"accept", "cancel"}
         THEN FailConfirmed
         ELSE /\ branches' = [branches EXCEPT ![e.branch] =
                                 [state |-> e.type, items |-> <<>>]]
              /\ Emit(<<0>> \o (IF e.type = "accept" THEN b.items ELSE <<>>))
              /\ UNCHANGED dead

\* finishAttemptLocked: every branch must have been decided.
FinishAttempt ==
    IF ~dead /\ \E b \in Branches : branches[b].state = "open"
    THEN FailConfirmed
    ELSE /\ branches' = [b \in Branches |-> NoBranch]
         /\ UNCHANGED <<dead, log, queue, detached, prefixVars>>

\* Mutant: a run end that fails the confirmed stream does not wake finalize.
OnRunEndForgetsSignal ==
    /\ FinishAttempt
    /\ cAttempt' = cAttempt + 1
    /\ signal' = (signal \/ dead' = dead)

\* A run end delimits an attempt and wakes finalize, which may not wait yet.
OnRunEnd ==
    /\ FinishAttempt
    /\ cAttempt' = cAttempt + 1
    /\ signal' = TRUE

OnDelta ==
    /\ bus # <<>>
    /\ phase # "done"                       \* coordinatorDetach
    /\ bus' = Tail(bus)
    /\ LET e == Head(bus) IN
       IF finalized
       THEN Unaffected /\ UNCHANGED <<cAttempt, signal>>
       ELSE IF e.type = "end"
       THEN OnRunEnd
       ELSE /\ UNCHANGED <<cAttempt, signal>>
            /\ IF dead THEN Unaffected
               ELSE CASE e.type = "speculative" -> Speculate(e)
                      [] e.type \in {"accept", "cancel"} -> Decide(e)
                      [] e.type = "text" -> Emit(<<e.id>>) /\ UNCHANGED <<dead, branches>>
    /\ UNCHANGED <<engineVars, finalized, spec, inCall, call, turnVars, heard>>

-----------------------------------------------------------------------------
(* Turn.finish: streamCoordinator.finalize, then the wait for the sink. *)

FinalizeSleeps ==
    /\ phase = "checking"
    /\ cAttempt <= attempt
    /\ phase' = "sleeping"
    /\ UNCHANGED <<attempt, status, published, output, held, committed, view, saved,
                   bus, coordVars, sinkVars, detached, turnVars, prefixVars, heard>>

FinalizeWakes ==
    /\ phase = "sleeping"
    /\ signal
    /\ signal' = FALSE
    /\ phase' = "checking"
    /\ UNCHANGED <<attempt, status, published, output, held, committed, view, saved,
                   bus, branches, cAttempt, dead, finalized, log, sinkVars,
                   detached, turnVars, prefixVars, heard>>

\* defaultAttemptDrainTimeout: the sink is detached without a run end.
FinalizeTimesOut ==
    /\ phase = "sleeping"
    /\ phase' = "waiting"
    /\ Detach("drain")
    /\ UNCHANGED <<attempt, status, published, output, held, committed, view, saved,
                   bus, coordVars, sinkVars, turnVars, heard>>

\* The one logical run end.
FinalizeEmits ==
    /\ phase = "checking"
    /\ cAttempt > attempt
    /\ phase' = "waiting"
    /\ finalized' = TRUE
    /\ IF dead \/ \E b \in Branches : branches[b].state = "open"
       THEN FinishAttempt
       ELSE /\ branches' = [b \in Branches |-> NoBranch]
            /\ Emit(<<End>>)
            /\ UNCHANGED dead
    /\ UNCHANGED <<attempt, status, published, output, held, committed, view, saved,
                   bus, cAttempt, signal, inCall, call, turnVars, heard>>

\* The sink is done: the coordinator leaves the bus, afterTurn saves the board.
FinishTurn ==
    /\ phase = "waiting"
    /\ detached # "no"
    /\ phase' = "done"
    /\ saved' = IF committed THEN output[attempt] ELSE <<>>
    /\ UNCHANGED <<attempt, status, published, output, held, committed, view, bus,
                   coordVars, sinkVars, detached, turnVars, prefixVars, heard>>

-----------------------------------------------------------------------------
(* queuedSink.start: the delivery goroutine. *)

\* Mutant: AckOnDelivery acknowledges what it is about to deliver.
OfferAcknowledges ==
    /\ call = "idle" /\ queue # <<>>
    /\ queue' = Tail(queue)
    /\ inCall' = Head(queue)
    /\ call' = "calling"
    /\ offered' = Head(queue)
    /\ IF spec.explicit \/ frozen THEN UNCHANGED <<acked, prefixVars>>
       ELSE AdvanceAck(Head(queue)) /\ UNCHANGED <<frozen, frozenPrefix>>
    /\ UNCHANGED <<engineVars, bus, coordVars, detached, delivered, commitAttempt,
                   interrupted, heard>>

\* The next item is taken and OnDelta is called; with the sink detached the
\* select may still prefer the queue to stop.
Offer ==
    /\ call = "idle" /\ queue # <<>>
    /\ queue' = Tail(queue)
    /\ inCall' = Head(queue)
    /\ call' = "calling"
    /\ offered' = Head(queue)
    /\ UNCHANGED <<engineVars, bus, coordVars, detached, delivered, acked,
                   commitAttempt, interrupted, prefixVars, heard>>

\* OnDelta returns nil.
CallReturns ==
    /\ call = "calling"
    /\ call' = "returned"
    /\ heard' = IF spec.explicit THEN heard ELSE heard \cup {log[inCall]}
    /\ UNCHANGED <<engineVars, bus, coordVars, queue, inCall, detached, turnVars,
                   prefixVars>>

\* Mutant: a failed delivery ends the goroutine but leaves the sink attached.
CallFailsStaysAttached ==
    /\ call = "calling"
    /\ call' = "stopped"
    /\ UNCHANGED <<engineVars, bus, coordVars, queue, inCall, detached, turnVars,
                   prefixVars, heard>>

\* OnDelta returns an error, panics or exceeds DeliveryTimeout.
CallFails ==
    /\ call = "calling"
    /\ call' = "stopped"
    /\ Detach("failed")
    /\ UNCHANGED <<engineVars, bus, coordVars, queue, inCall, turnVars, heard>>

Ending(c) == log[c] = End

\* stop wins over the result of the call.
CallAbandoned ==
    /\ call = "calling"
    /\ detached # "no"
    /\ call' = IF Ending(inCall) THEN "stopped" ELSE "idle"
    /\ UNCHANGED <<engineVars, bus, coordVars, queue, inCall, detached, turnVars,
                   prefixVars, heard>>

\* authorityMax
Window == IF spec.maxUnacked = 0 THEN QueueSize ELSE spec.maxUnacked

\* Turn.sinkDelivered
SinkDelivered ==
    /\ call = "returned"
    /\ delivered' = inCall
    /\ IF spec.explicit \/ frozen
       THEN UNCHANGED <<acked, ackedPrefix, tokens>>
       ELSE AdvanceAck(inCall)
    /\ call' = IF inCall - acked' > Window THEN "overrun"
               ELSE IF Ending(inCall) THEN "ending" ELSE "idle"
    /\ UNCHANGED <<engineVars, bus, coordVars, queue, inCall, detached, offered,
                   commitAttempt, interrupted, frozen, frozenPrefix, heard>>

\* sinkDelivered, after t.mu: the window is exceeded.
DetachOverrun ==
    /\ call = "overrun"
    /\ call' = IF Ending(inCall) THEN "ending" ELSE "idle"
    /\ Detach("window")
    /\ UNCHANGED <<engineVars, bus, coordVars, queue, inCall, turnVars, heard>>

DetachAtEnd ==
    /\ call = "ending"
    /\ call' = "stopped"
    /\ Detach("end")
    /\ UNCHANGED <<engineVars, bus, coordVars, queue, inCall, turnVars, heard>>

SinkStops ==
    /\ call = "idle"
    /\ detached # "no"
    /\ call' = "stopped"
    /\ UNCHANGED <<engineVars, bus, coordVars, queue, inCall, detached, turnVars,
                   prefixVars, heard>>

-----------------------------------------------------------------------------

EngineStep ==
    /\ UNCHANGED spec
    /\ \/ PublishText
       \/ \E b \in Branches : PublishSpeculative(b) \/ PublishAccept(b) \/ PublishCancel(b)
       \/ \E s \in Statuses \ {"none"}, runEnd \in BOOLEAN : EndAttempt(s, runEnd)

FinishStep ==
    /\ UNCHANGED spec
    /\ \/ OnRunRevise \/ Settle
       \/ FinalizeSleeps \/ FinalizeWakes \/ FinalizeTimesOut \/ FinalizeEmits
       \/ FinishTurn

SinkStep ==
    /\ UNCHANGED spec
    /\ \/ Offer \/ CallReturns \/ CallFails \/ CallAbandoned
       \/ SinkDelivered \/ DetachOverrun \/ DetachAtEnd \/ SinkStops

Next ==
    \/ EngineStep \/ OnDelta \/ FinishStep \/ SinkStep
    \/ Interrupt
    \/ \E c \in 1..Len(log) : Ack(c)

Spec == Init /\ [][Next]_vars

\* The goroutines keep running: the bus delivers, finish goes on, and OnDelta
\* returns or exceeds its timeout.  The engine may run for ever.
FairSpec == Spec /\ WF_vars(OnDelta) /\ WF_vars(FinishStep) /\ WF_vars(SinkStep)

-----------------------------------------------------------------------------

\* The types; the buffer of speculative events and the sink's queue keep within
\* their limits.
Tokens == Nat \ {0}
Events == [type : {"text"}, id : Tokens] \cup [type : {"speculative"}, id : Tokens, branch : Branches]
          \cup [type : {"accept", "cancel"}, branch : Branches] \cup [type : {"end"}]
BranchStates == [state : {"none", "open", "accept", "cancel"}, items : Seq(Tokens)]

TypeOK ==
    /\ spec \in SinkSpecs
    /\ phase \in Phases /\ status \in Statuses /\ detached \in Reasons
    /\ attempt \in 1..MaxAttempts /\ cAttempt \in 1..MaxAttempts + 1
    /\ commitAttempt = attempt
    /\ dead \in BOOLEAN /\ finalized \in BOOLEAN /\ signal \in BOOLEAN
    /\ frozen \in BOOLEAN /\ interrupted \in BOOLEAN /\ committed \in BOOLEAN
    /\ call \in {"idle", "calling", "returned", "overrun", "ending", "stopped"}
    /\ published \in Nat /\ bus \in Seq(Events)
    /\ output \in [1..MaxAttempts -> Seq(Tokens)] /\ held \in [Branches -> Seq(Tokens)]
    /\ branches \in [Branches -> BranchStates] /\ Pending <= MaxEvents
    /\ log \in Seq(Tokens \cup {0, End})
    /\ inCall \in 0..Len(log) /\ offered \in 0..Len(log)
    /\ delivered \in 0..Len(log) /\ acked \in 0..Len(log)
    /\ queue \in Seq(1..Len(log)) /\ Len(queue) <= QueueSize
    /\ tokens \subseteq (1..Len(log)) \X {attempt}
    /\ ackedPrefix \in Seq(Tokens) /\ frozenPrefix \in Seq(Tokens)
    /\ view \in Seq(Tokens) /\ saved \in Seq(Tokens)
    /\ heard \subseteq Tokens \cup {0, End}

\* CommitView never finds an acknowledged prefix that is not a prefix of the
\* assistant's output: whatever order bus, sink, acknowledgements, interrupt
\* and revision come in, the prefix has no gaps and nothing of a cancelled
\* branch or of an attempt that was given up.
PrefixMatchesOutput == IsPrefix(Committable, output[attempt])

\* Only what the client has taken is committed: with AckOnDelivery what its
\* OnDelta returned nil for ("If the turn is interrupted while the callback is
\* still running, that delivery is outside the frozen acknowledged prefix"),
\* with AckExplicit what it acknowledged.
CommittableWasTaken == ToSet(Committable) \subseteq heard

\* sinkDelivered subtracts the acknowledged cursor from the one it records,
\* unsigned: an acknowledgement, from inside the callback or beside it, across
\* revisions too, is never ahead of the delivery that is being recorded.
AckNotAhead == call = "returned" => acked <= inCall

\* Cursors are contiguous for a sink that is attached: what it was not offered
\* yet is in its queue, without gaps, and a clean end comes after everything.
AttachedSinkMissesNothing ==
    /\ detached = "no" => queue = [i \in 1..(Len(log) - offered) |-> offered + i]
    /\ detached = "end" => offered = Len(log) /\ log[offered] = End

\* finalize never sleeps through the run end it waits for, however the signal
\* and its check of the attempt interleave.
NoLostWakeup == phase = "sleeping" /\ cAttempt > attempt => signal

\* A turn whose last attempt is over finishes: neither finalize nor the wait for
\* the sink's run end can block it for good.
TurnFinishes == phase \in {"checking", "waiting"} ~> phase = "done"
=============================================================================
