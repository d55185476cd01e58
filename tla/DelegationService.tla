--------------------------- MODULE DelegationService ---------------------------
(***************************************************************************)
(* Asynchronous delegation: core/delegation/service.go on the board of     *)
(* kanban.go.  Delegate calls with an idempotency key share one submission *)
(* (delegateIdempotent); a submission puts the caller's stream sinks into  *)
(* an escrow, which the worker that claims the card takes them from;       *)
(* workers claim, run, complete and release; operators suspend, resume,    *)
(* cancel and claim cards; the janitors evict; service and board close.    *)
(*                                                                         *)
(* The run itself is a session's turn (SessionManager, SessionStream): it  *)
(* ends with some response, at any time.  Synchronous delegation is such a *)
(* turn in the caller's goroutine and touches nothing modelled here.       *)
(***************************************************************************)
EXTENDS DelegationBoard

CONSTANTS
    Workers,           \* maxConcurrency worker goroutines
    ServiceRetention,  \* the service's own idempotency retention
    EscrowTTL,         \* streamEscrowTTL
    Environments       \* [calls, direct, key, request, stream, workers, responses, faults,
                       \*  operations, ticks, closing]

ASSUME ServiceConstants ==
    /\ ServiceRetention \in Nat /\ EscrowTTL \in Nat
    /\ \A e \in Environments :
          /\ e.calls \subseteq Calls /\ e.stream \subseteq Calls /\ e.workers \subseteq Workers
          /\ e.direct \subseteq Calls \ e.stream
          /\ e.key \in [Calls -> Keys \cup {NoKey}] /\ e.request \in [Calls -> Nat]
          /\ e.responses \subseteq TerminalStatus
          /\ e.operations \in Nat /\ e.ticks \in Nat

VARIABLES
    env,           \* what surrounds the service in this behaviour
    call,          \* each call of Delegate, or of Board.Submit itself: [pc, result, follows]
    cache,         \* idempotencyCache: [id, request, at, expires]
    inflight,      \* idempotencyCalls: the call that leads each key
    worker,        \* each worker: [pc, card, token, response, first, took, at]
    ready,         \* workers whose workReady channel was closed
    escrow,        \* streamEscrow: the first moment each call's entry is out of date
    storedAt,      \* history: when each call's sinks were stored
    lastRun,       \* history: the token of each card's current run
    service,       \* [closed, cancelled, closing]
    operations     \* operator actions so far

callVars == <<call, cache, inflight>>
workVars == <<worker, ready, lastRun>>
vars == <<now, board, env, callVars, workVars, escrow, storedAt, service, operations>>

Error == -1
Parked == -1    \* an operator took the card from its run
Key(c) == env.key[c]
Request(c) == env.request[c]
\* the fingerprint covers the stream reference, which is fresh for every call
Fingerprint(c) == <<Request(c), IF c \in env.stream THEN c ELSE None>>

Goto(c, pc) == call' = [call EXCEPT ![c].pc = pc]
Outcome(c, result, pc) == call' = [call EXCEPT ![c].pc = pc, ![c].result = result]
SignalWork == ready' = {w \in Workers : worker[w].pc = "blocked"}

\* Mutant: the backend's declared retention is not consulted.
AsyncRetentionOwn == ServiceRetention

\* NewService: the shorter of the service's and the backend's retention
AsyncRetention == IF Retention < ServiceRetention THEN Retention ELSE ServiceRetention

-----------------------------------------------------------------------------
(***************************************************************************)
(* Delegate: begin, then the single flight of delegateIdempotent.          *)
(***************************************************************************)
Begin(c) ==
    /\ c \in env.calls \ env.direct
    /\ call[c].pc = "idle"
    /\ IF service.closed THEN Outcome(c, Error, "returned")
       ELSE Goto(c, IF Key(c) = NoKey THEN "store" ELSE "single")
    /\ UNCHANGED <<now, board, env, cache, inflight, workVars, escrow, storedAt, service, operations>>

\* expireIdempotencyResults
Unexpired == [k \in Keys |-> IF cache[k].id # None /\ now >= cache[k].expires
                             THEN [cache[k] EXCEPT !.id = None] ELSE cache[k]]

ReplayCached(c) ==
    /\ call[c].pc = "single"
    /\ Unexpired[Key(c)].id # None
    /\ cache' = Unexpired
    /\ Outcome(c, IF cache[Key(c)].request = Request(c) THEN cache[Key(c)].id ELSE Error, "returned")
    /\ UNCHANGED <<now, board, env, inflight, workVars, escrow, storedAt, service, operations>>

JoinCall(c) ==
    /\ call[c].pc = "single"
    /\ Unexpired[Key(c)].id = None
    /\ inflight[Key(c)] # None
    /\ cache' = Unexpired
    /\ IF Request(inflight[Key(c)]) = Request(c)
       THEN call' = [call EXCEPT ![c].pc = "waiting", ![c].follows = inflight[Key(c)]]
       ELSE Outcome(c, Error, "returned")
    /\ UNCHANGED <<now, board, env, inflight, workVars, escrow, storedAt, service, operations>>

LeadCall(c) ==
    /\ call[c].pc = "single"
    /\ Unexpired[Key(c)].id = None
    /\ inflight[Key(c)] = None
    /\ cache' = Unexpired
    /\ inflight' = [inflight EXCEPT ![Key(c)] = c]
    /\ Goto(c, "store")
    /\ UNCHANGED <<now, board, env, workVars, escrow, storedAt, service, operations>>

WaiterReturns(c) ==
    /\ call[c].pc = "waiting"
    /\ call[call[c].follows].pc = "returned"
    /\ Outcome(c, call[call[c].follows].result, "returned")
    /\ UNCHANGED <<now, board, env, cache, inflight, workVars, escrow, storedAt, service, operations>>

\* the waiter's own context ended
WaiterGivesUp(c) ==
    /\ call[c].pc = "waiting"
    /\ Outcome(c, Error, "returned")
    /\ UNCHANGED <<now, board, env, cache, inflight, workVars, escrow, storedAt, service, operations>>

-----------------------------------------------------------------------------
(***************************************************************************)
(* delegate in async mode.                                                 *)
(***************************************************************************)
Swept == [c \in Calls |-> IF escrow[c] # None /\ now >= escrow[c] THEN None ELSE escrow[c]]

LookupFails(c) ==
    /\ env.faults
    /\ call[c].pc = "store"
    /\ Outcome(c, Error, "settle")
    /\ UNCHANGED <<now, board, env, cache, inflight, workVars, escrow, storedAt, service, operations>>

\* Mutant: the sinks are stored only once the work is queued (Rearm stores them).
StoreEscrowLater(c) ==
    /\ call[c].pc = "store"
    /\ Goto(c, "submit")
    /\ UNCHANGED <<now, board, env, cache, inflight, workVars, escrow, storedAt, service, operations>>

StoreEscrow(c) ==
    /\ call[c].pc = "store"
    /\ IF c \in env.stream
       THEN /\ escrow' = [Swept EXCEPT ![c] = now + EscrowTTL + 1]
            /\ storedAt' = [storedAt EXCEPT ![c] = now]
       ELSE UNCHANGED <<escrow, storedAt>>
    /\ Goto(c, "submit")
    /\ UNCHANGED <<now, board, env, cache, inflight, workVars, service, operations>>

\* Board.Submit, called by the board's owner and not by the service: no single flight
\* keeps two such submissions of one key apart
SubmitDirectly(c) ==
    /\ c \in env.calls \cap env.direct
    /\ call[c].pc = "idle"
    /\ Goto(c, "submit")
    /\ UNCHANGED <<now, board, env, cache, inflight, workVars, escrow, storedAt, service, operations>>

\* a call without sinks has nothing to re-arm or to release
AfterSubmit(c, pc) ==
    IF c \in env.direct THEN "returned" ELSE IF c \in env.stream THEN pc ELSE "settle"

\* what both critical sections of Submit begin with, on the board they evicted from
Evicted == IF board.closed THEN board ELSE Evict(board)
Refused(b, c) == b.closed \/ (Found(b, Key(c)) # None /\ b.card[Found(b, Key(c))].request # Fingerprint(c))
Replays(b, c) == ~Refused(b, c) /\ Found(b, Key(c)) # None

SubmitChecks(c) ==
    /\ call[c].pc = "submit"
    /\ LET b == Evicted IN
          /\ board' = b
          /\ IF Refused(b, c) THEN Outcome(c, Error, AfterSubmit(c, "release"))
             ELSE IF Replays(b, c) THEN Outcome(c, Found(b, Key(c)), AfterSubmit(c, "rearm"))
             ELSE Goto(c, "validate")
    /\ UNCHANGED <<now, env, cache, inflight, workVars, escrow, storedAt, service, operations>>

ValidatorRejects(c) ==
    /\ env.faults
    /\ call[c].pc = "validate"
    /\ Outcome(c, Error, AfterSubmit(c, "release"))
    /\ UNCHANGED <<now, board, env, cache, inflight, workVars, escrow, storedAt, service, operations>>

\* Mutant: the key is not looked up again after the validator has run.
SubmitAdmitsUnchecked(c) ==
    /\ call[c].pc = "validate"
    /\ LET b == Evicted IN
          IF b.closed \/ PendingLimit(b)
          THEN /\ board' = b
               /\ Outcome(c, Error, AfterSubmit(c, "release"))
               /\ UNCHANGED ready
          ELSE /\ board' = Admit(b, c, Key(c), Fingerprint(c))
               /\ Outcome(c, c, AfterSubmit(c, "rearm"))
               /\ SignalWork
    /\ UNCHANGED <<now, env, cache, inflight, worker, lastRun, escrow, storedAt, service, operations>>

SubmitAdmits(c) ==
    /\ call[c].pc = "validate"
    /\ LET b == Evicted IN
          IF Refused(b, c) \/ Replays(b, c) \/ PendingLimit(b)
          THEN /\ board' = b
               /\ IF Replays(b, c) THEN Outcome(c, Found(b, Key(c)), AfterSubmit(c, "rearm"))
                  ELSE Outcome(c, Error, AfterSubmit(c, "release"))
               /\ UNCHANGED ready
          ELSE /\ board' = Admit(b, c, Key(c), Fingerprint(c))
               /\ Outcome(c, c, AfterSubmit(c, "rearm"))
               /\ SignalWork
    /\ UNCHANGED <<now, env, cache, inflight, worker, lastRun, escrow, storedAt, service, operations>>

\* rearmStreamEscrow, and the release of a submission that failed
Rearm(c) ==
    /\ call[c].pc = "rearm"
    /\ escrow' = [escrow EXCEPT ![c] = now + EscrowTTL + 1]
    /\ Goto(c, "settle")
    /\ UNCHANGED <<now, board, env, cache, inflight, workVars, storedAt, service, operations>>

ReleaseFailed(c) ==
    /\ call[c].pc = "release"
    /\ escrow' = [escrow EXCEPT ![c] = None]
    /\ Goto(c, "settle")
    /\ UNCHANGED <<now, board, env, cache, inflight, workVars, storedAt, service, operations>>

\* Mutant: a failed submission does not take the call off the map.
SettleForgetsFailure(c) ==
    /\ call[c].pc = "settle"
    /\ IF Key(c) = NoKey \/ call[c].result = Error THEN UNCHANGED <<cache, inflight>>
       ELSE /\ inflight' = [inflight EXCEPT ![Key(c)] = None]
            /\ cache' = [cache EXCEPT ![Key(c)] =
                             [id |-> call[c].result, request |-> Request(c), at |-> now,
                              expires |-> now + AsyncRetention]]
    /\ Goto(c, "returned")
    /\ UNCHANGED <<now, board, env, workVars, escrow, storedAt, service, operations>>

Settle(c) ==
    /\ call[c].pc = "settle"
    /\ IF Key(c) = NoKey THEN UNCHANGED <<cache, inflight>>
       ELSE /\ inflight' = [inflight EXCEPT ![Key(c)] = None]
            /\ cache' = IF call[c].result = Error THEN cache
                        ELSE [cache EXCEPT ![Key(c)] =
                                 [id |-> call[c].result, request |-> Request(c), at |-> now,
                                  expires |-> now + AsyncRetention]]
    /\ Goto(c, "returned")
    /\ UNCHANGED <<now, board, env, workVars, escrow, storedAt, service, operations>>

-----------------------------------------------------------------------------
(***************************************************************************)
(* worker.                                                                 *)
(***************************************************************************)
WorkerClaims(w) ==
    /\ w \in env.workers
    /\ worker[w].pc = "claim"
    /\ ~board.closed
    /\ \E c \in PendingCards(board) :
          /\ IsFirst(board, PendingCards(board), c)
          /\ board' = Claim(board, c)
          /\ worker' = [worker EXCEPT ![w] = [pc |-> "claimed", card |-> c, token |-> board.tokens + 1,
                                              response |-> "none", first |-> lastRun[c] = None,
                                              took |-> FALSE, at |-> 0]]
          /\ lastRun' = [lastRun EXCEPT ![c] = board.tokens + 1]
    /\ UNCHANGED <<now, env, callVars, ready, escrow, storedAt, service, operations>>

WorkerBlocks(w) ==
    /\ w \in env.workers
    /\ worker[w].pc = "claim"
    /\ ~board.closed
    /\ PendingCards(board) = {}
    /\ worker' = [worker EXCEPT ![w].pc = "blocked"]
    /\ UNCHANGED <<now, board, env, callVars, ready, lastRun, escrow, storedAt, service, operations>>

WorkerWakes(w) ==
    /\ worker[w].pc = "blocked"
    /\ w \in ready
    /\ worker' = [worker EXCEPT ![w].pc = "claim"]
    /\ ready' = ready \ {w}
    /\ UNCHANGED <<now, board, env, callVars, lastRun, escrow, storedAt, service, operations>>

\* Mutant: a blocked Claim does not look at its context.
WorkerExitsOnBoardClose(w) ==
    /\ w \in env.workers
    /\ \/ worker[w].pc = "claim" /\ board.closed
       \/ worker[w].pc = "blocked" /\ board.done
    /\ worker' = [worker EXCEPT ![w].pc = "exited"]
    /\ ready' = ready \ {w}
    /\ UNCHANGED <<now, board, env, callVars, lastRun, escrow, storedAt, service, operations>>

\* Claim fails: the board is closed, or the worker's context ends while it waits
WorkerExits(w) ==
    /\ w \in env.workers
    /\ \/ worker[w].pc = "claim" /\ board.closed
       \/ worker[w].pc = "blocked" /\ (board.done \/ service.cancelled)
    /\ worker' = [worker EXCEPT ![w].pc = "exited"]
    /\ ready' = ready \ {w}
    /\ UNCHANGED <<now, board, env, callVars, lastRun, escrow, storedAt, service, operations>>

\* inheritAsyncStreams: takeStreamEscrow refreshes the entry it finds
TakeStreams(w) ==
    LET c == worker[w].card IN
    /\ worker[w].pc = "claimed"
    /\ worker' = [worker EXCEPT ![w].pc = "running", ![w].took = Swept[c] # None, ![w].at = now]
    /\ escrow' = IF c \notin env.stream THEN escrow
                 ELSE IF Swept[c] = None THEN Swept
                 ELSE [Swept EXCEPT ![c] = now + EscrowTTL + 1]
    /\ UNCHANGED <<now, board, env, callVars, ready, lastRun, storedAt, service, operations>>

(***************************************************************************)
(* The context of claimedWorkContext ends with the lease, and some time    *)
(* after the worker's context; a run that has it cancelled is canceled.    *)
(***************************************************************************)
WorkLive(w) == worker[w].token \in board.live /\ ~service.cancelled

RunEnds(w, response) ==
    /\ worker[w].pc = "running"
    /\ \E r \in {response, "canceled"} :
          /\ r = "canceled" \/ worker[w].token \in board.live
          /\ r = response \/ ~WorkLive(w)
          /\ worker' = [worker EXCEPT ![w].pc = "completing", ![w].response = r]
    /\ UNCHANGED <<now, board, env, callVars, ready, lastRun, escrow, storedAt, service, operations>>

WorkerCompletes(w) ==
    /\ worker[w].pc = "completing"
    /\ board' = CompleteLease(board, worker[w].card, worker[w].token, worker[w].response)
    /\ worker' = [worker EXCEPT ![w].pc = IF worker[w].card \in env.stream THEN "release" ELSE "claim"]
    /\ UNCHANGED <<now, env, callVars, ready, lastRun, escrow, storedAt, service, operations>>

\* three attempts failed: the worker's error stops the service
CompleteFails(w) ==
    /\ env.faults
    /\ worker[w].pc = "completing"
    /\ worker' = [worker EXCEPT ![w].pc = "stop"]
    /\ UNCHANGED <<now, board, env, callVars, ready, lastRun, escrow, storedAt, service, operations>>

WorkerReleases(w) ==
    /\ worker[w].pc \in {"release", "stop"}
    /\ escrow' = [escrow EXCEPT ![worker[w].card] = None]
    /\ worker' = [worker EXCEPT ![w].pc = IF @ = "stop" THEN "record" ELSE "claim"]
    /\ UNCHANGED <<now, board, env, callVars, ready, lastRun, storedAt, service, operations>>

\* recordWorkerError
WorkerRecords(w) ==
    /\ worker[w].pc = "record"
    /\ service' = [service EXCEPT !.closed = TRUE, !.cancelled = TRUE]
    /\ worker' = [worker EXCEPT ![w].pc = "exited"]
    /\ UNCHANGED <<now, board, env, callVars, ready, lastRun, escrow, storedAt, operations>>

-----------------------------------------------------------------------------
(***************************************************************************)
(* Operators of the board.                                                 *)
(***************************************************************************)
Operate(c, from, to) ==
    /\ operations < env.operations
    /\ operations' = operations + 1
    /\ Indexed(board, c)
    /\ board.card[c].status \in from
    /\ board' = MoveTo(board, c, to)
    /\ UNCHANGED <<now, env, callVars, worker, escrow, storedAt, service>>

Park(c) == lastRun' = [lastRun EXCEPT ![c] = IF @ = None THEN None ELSE Parked]

ClaimCard(c) == Operate(c, {"pending"}, "claimed") /\ UNCHANGED <<ready, lastRun>>

Suspend(c) == Operate(c, {"claimed"}, "suspended") /\ Park(c) /\ UNCHANGED ready

\* Mutant: a resumed card does not wake the workers.
ResumeQuietly(c) == Operate(c, {"suspended"}, "pending") /\ UNCHANGED <<ready, lastRun>>

Resume(c) == Operate(c, {"suspended"}, "pending") /\ SignalWork /\ UNCHANGED lastRun

Cancel(c) ==
    Operate(c, {"pending", "claimed", "suspended"}, "canceled") /\ Park(c) /\ UNCHANGED ready

\* the operator's goroutine cancels the lease it took
CancelLease(token) ==
    /\ token \in board.cancels
    /\ board' = CallCancel(board, {token})
    /\ UNCHANGED <<now, env, callVars, workVars, escrow, storedAt, service, operations>>

(***************************************************************************)
(* Time and the janitors of the board, the cache and the escrow.           *)
(***************************************************************************)
Tick ==
    /\ now < env.ticks
    /\ now' = now + 1
    /\ UNCHANGED <<board, env, callVars, workVars, escrow, storedAt, service, operations>>

BoardJanitor ==
    /\ ~board.closed
    /\ board' = Evict(board) /\ board' # board
    /\ UNCHANGED <<now, env, callVars, workVars, escrow, storedAt, service, operations>>

ServiceJanitors ==
    /\ ~service.cancelled
    /\ \/ cache' = Unexpired /\ cache' # cache /\ UNCHANGED escrow
       \/ escrow' = Swept /\ escrow' # escrow /\ UNCHANGED cache
    /\ UNCHANGED <<now, board, env, call, inflight, workVars, storedAt, service, operations>>

(***************************************************************************)
(* Close of the service, in its steps, and of the board.                   *)
(***************************************************************************)
ServiceClose ==
    /\ "service" \in env.closing
    /\ service.closing = "open"
    /\ service' = [service EXCEPT !.closed = TRUE, !.closing = "cancel"]
    /\ UNCHANGED <<now, board, env, callVars, workVars, escrow, storedAt, operations>>

CloseCancels ==
    /\ service.closing = "cancel"
    /\ service' = [service EXCEPT !.cancelled = TRUE, !.closing = "wait"]
    /\ UNCHANGED <<now, board, env, callVars, workVars, escrow, storedAt, operations>>

CloseReturns ==
    /\ service.closing = "wait"
    /\ \A w \in env.workers : worker[w].pc = "exited"
    /\ \A c \in Calls \ env.direct : call[c].pc \in {"idle", "returned"}
    /\ service' = [service EXCEPT !.closing = "done"]
    /\ escrow' = [c \in Calls |-> None]
    /\ UNCHANGED <<now, board, env, callVars, workVars, storedAt, operations>>

BoardClose ==
    /\ "board" \in env.closing
    /\ ~board.closed
    /\ board' = CloseBoard(board)
    /\ UNCHANGED <<now, env, callVars, workVars, escrow, storedAt, service, operations>>

BoardContextEnds ==
    /\ board.closed /\ ~board.done
    /\ board' = [board EXCEPT !.done = TRUE, !.live = {}, !.cancels = {}]
    /\ UNCHANGED <<now, env, callVars, workVars, escrow, storedAt, service, operations>>

-----------------------------------------------------------------------------
Init ==
    /\ BoardInit
    /\ env \in Environments
    /\ call = [c \in Calls |-> [pc |-> "idle", result |-> None, follows |-> None]]
    /\ cache = [k \in Keys |-> [id |-> None, request |-> None, at |-> 0, expires |-> 0]]
    /\ inflight = [k \in Keys |-> None]
    /\ worker = [w \in Workers |-> [pc |-> "claim", card |-> None, token |-> None, response |-> "none",
                                    first |-> FALSE, took |-> FALSE, at |-> 0]]
    /\ ready = {}
    /\ escrow = [c \in Calls |-> None]
    /\ storedAt = [c \in Calls |-> 0]
    /\ lastRun = [c \in Calls |-> None]
    /\ service = [closed |-> FALSE, cancelled |-> FALSE, closing |-> "open"]
    /\ operations = 0

CallSteps(c) ==
    \/ ReplayCached(c) \/ JoinCall(c) \/ LeadCall(c) \/ WaiterReturns(c)
    \/ LookupFails(c) \/ StoreEscrow(c) \/ SubmitChecks(c) \/ ValidatorRejects(c) \/ SubmitAdmits(c)
    \/ Rearm(c) \/ ReleaseFailed(c) \/ Settle(c)

WorkerSteps(w) ==
    \/ WorkerClaims(w) \/ WorkerBlocks(w) \/ WorkerWakes(w) \/ WorkerExits(w) \/ TakeStreams(w)
    \/ WorkerCompletes(w) \/ CompleteFails(w) \/ WorkerReleases(w) \/ WorkerRecords(w)

Operators(c) == ClaimCard(c) \/ Suspend(c) \/ Resume(c) \/ Cancel(c)

CancelSteps == BoardContextEnds \/ \E t \in board.cancels : CancelLease(t)

Next ==
    \/ \E c \in Calls : Begin(c) \/ SubmitDirectly(c) \/ CallSteps(c) \/ WaiterGivesUp(c) \/ Operators(c)
    \/ \E w \in Workers : WorkerSteps(w) \/ \E r \in env.responses : RunEnds(w, r)
    \/ CancelSteps \/ Tick \/ BoardJanitor \/ ServiceJanitors
    \/ ServiceClose \/ CloseCancels \/ CloseReturns \/ BoardClose

(***************************************************************************)
(* Goroutines of the service run.  A turn has to end only once its context *)
(* is cancelled: waitTurnCancelOnDone then gives up after five seconds.    *)
(***************************************************************************)
Progress ==
    \/ \E c \in Calls : CallSteps(c)
    \/ \E w \in Workers : WorkerSteps(w) \/ (~WorkLive(w) /\ RunEnds(w, "failed"))
    \/ CancelSteps \/ CloseCancels \/ CloseReturns

Spec == Init /\ [][Next]_vars /\ WF_vars(Progress)

-----------------------------------------------------------------------------
(***************************************************************************)
(* Types.  The map of calls in flight names calls that are in flight: a    *)
(* call that left it behind would make every retry with its key wait for a *)
(* submission that is over (service.go:640-659).                           *)
(***************************************************************************)
InFlight == {"store", "submit", "validate", "rearm", "release", "settle"}
CallPcs == {"idle", "single", "waiting", "returned"} \cup InFlight
WorkerPcs == {"claim", "blocked", "claimed", "running", "completing", "release", "stop", "record", "exited"}

TypeOK ==
    /\ env \in Environments
    /\ now \in 0..env.ticks
    /\ board \in Boards
    /\ call \in [Calls -> [pc : CallPcs, result : Calls \cup {None, Error}, follows : Calls \cup {None}]]
    /\ cache \in [Keys -> [id : Calls \cup {None}, request : Nat, at : Nat, expires : Nat]]
    /\ inflight \in [Keys -> Calls \cup {None}]
    /\ \A k \in Keys : inflight[k] # None => call[inflight[k]].pc \in InFlight
    /\ worker \in [Workers -> [pc : WorkerPcs, card : Calls \cup {None}, token : Nat,
                               response : TerminalStatus \cup {"none"}, first : BOOLEAN,
                               took : BOOLEAN, at : Nat]]
    /\ ready \subseteq Workers
    /\ escrow \in [Calls -> Nat] /\ storedAt \in [Calls -> Nat]
    /\ lastRun \in [Calls -> Nat \cup {Parked}]
    /\ service \in [closed : BOOLEAN, cancelled : BOOLEAN, closing : {"open", "cancel", "wait", "done"}]
    /\ operations \in 0..env.operations

(***************************************************************************)
(* The board's counters agree with its cards.  Submit refuses by the count *)
(* of pending cards, which is kept by hand at the admission, at every      *)
(* transition and in both sweeps of the eviction: a step that missed it    *)
(* would refuse work for ever, or admit it without a limit                 *)
(* (kanban.go:259, 278, 656, 701, 720).                                    *)
(***************************************************************************)
CountsAreExact ==
    \A s \in Statuses :
        board.count[s] = Cardinality({c \in board.cards : board.card[c].status = s})

(***************************************************************************)
(* A card has one current run.  The run of the latest claim keeps its      *)
(* lease, its live context and the card until its worker completes it, an  *)
(* operator takes the card or the board closes: no earlier run that comes  *)
(* back with a stale lease settles the card for it.  And such an earlier   *)
(* run has its context cancelled, or about to be: Suspend and Cancel call  *)
(* cancel after they release Board.mu, when a resumed card may already run *)
(* again (kanban.go:429-433, 638-649).                                     *)
(***************************************************************************)
Holding == {w \in Workers : worker[w].pc \in {"claimed", "running", "completing"}}
OneCurrentRun ==
    ~board.closed =>
        \A w \in Holding : LET c == worker[w].card IN
            IF lastRun[c] = worker[w].token
            THEN /\ Indexed(board, c) /\ board.card[c].status = "claimed"
                 /\ board.leases[c] = worker[w].token /\ worker[w].token \in board.live \ board.cancels
            ELSE worker[w].token \notin board.live \ board.cancels

(***************************************************************************)
(* No worker sleeps on pending work: whenever a card is pending, a worker  *)
(* blocked in Claim has been woken, by a submission or by a resumption     *)
(* (kanban.go:385-395, 643).                                               *)
(***************************************************************************)
NoSleepOnPendingWork ==
    ~board.closed /\ PendingCards(board) # {} =>
        \A w \in env.workers : worker[w].pc = "blocked" => w \in ready

(***************************************************************************)
(* A response the service replays from its cache names an operation that   *)
(* the backend can still be asked about, although the service counts the   *)
(* retention from the acceptance, the board from the settlement, and cards *)
(* are evicted in between (service.go:424-429, 682).  It is said of work   *)
(* that settled after its acceptance was cached.                           *)
(***************************************************************************)
CachedIsQueryable ==
    \A k \in Keys : LET e == cache[k] IN
        e.id # None /\ now < e.expires /\ board.card[e.id].updated >= e.at
            => Status(board, e.id) # "forgotten"

(***************************************************************************)
(* The first run of a streaming delegation, as long as it is the current   *)
(* one, has found the caller's sinks, however early its worker claimed the *)
(* card, unless they were stored longer ago than the escrow's TTL          *)
(* (service.go:576-582, 1317-1346).                                        *)
(***************************************************************************)
FirstRunHasSinks ==
    \A w \in Holding : LET c == worker[w].card IN
        (/\ worker[w].pc # "claimed" /\ worker[w].token = lastRun[c]
         /\ worker[w].first /\ c \in env.stream /\ ~worker[w].took)
            => worker[w].at > storedAt[c] + EscrowTTL

(***************************************************************************)
(* Close of the service returns: its workers come to an end, also those    *)
(* blocked in Claim and those that still find pending work, and so does    *)
(* every admitted call, also one that waits for another (service.go:814).  *)
(***************************************************************************)
ServiceCloseReturns == service.closing = "cancel" ~> service.closing = "done"

(***************************************************************************)
(* The board keeps the contract of AsyncBackend: see DelegationContract.   *)
(* A card evicted without its tombstone, a stale completion that changes a *)
(* settled response, a key released while its operation runs or replayed   *)
(* to another operation would all break it.                                *)
(***************************************************************************)
Replayed(k) ==
    LET o == board.idempotency[k]
    IN  IF o # None /\ board.tombstones[o] # None /\ now >= board.tombstones[o] THEN None ELSE o

Contract == INSTANCE DelegationContract WITH
    Operations <- Calls,
    NoOperation <- None,
    status <- [c \in Calls |-> Status(board, c)],
    settledAt <- [c \in Calls |-> IF IsTerminal(board, c) THEN board.card[c].updated ELSE 0],
    owner <- [k \in Keys |-> Replayed(k)]

ImplementsContract == Contract!Spec
=============================================================================
