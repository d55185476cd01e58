# FlowCraft's concurrent core: TLA+ models, checks and proofs

This directory holds TLA+ models of the concurrent core of FlowCraft: the
session layer of the runtime (`core/runtime/session`), which shares
conversations between callers, starts and replaces turns on them, streams a
turn's output to its clients and asks its user questions; the reload of the
deployment underneath (`core/runtime`); the event bus and router that carry the
events (`core/event`); and asynchronous delegation between agents with its board
(`core/delegation`). TLC checks the models on small instances; TLAPS proves the
safety properties of all of them, the two refinements included, for every instance.
`PROJECT.json` links every definition to the lines it models.

## The system

FlowCraft is a Go toolkit for agent applications. A *runtime* is assembled from
a document; it owns agents, an event bus and a *session manager*. A caller opens
a *lease* on the session of a key (agent, conversation), and calls `Start` (or
`Resume`) on it. `Start` interrupts the session's previous turn, waits for it,
and installs a new *turn*, whose goroutine runs the agent. The agent's engine
publishes events on the bus; the turn's *stream coordinator* turns them into an
ordered stream for the turn's *sinks*. When the engine is done, the turn settles
the stream, saves the session's state and gives its resources back. Meanwhile
the runtime may be reloaded, drained or closed, an agent removed, a
conversation deleted.

| Component | State | Operations | Hard behaviour |
|---|---|---|---|
| session manager (`manager.go`, `lease.go`) | entries by key, leases, idle timers, tombstones, drain and close flags | open, release, reclaim, RemoveAgent, ReopenAgent, DeleteSession, Drain, Close | poll-then-lock races, timers stopped too late, calls that give up half way |
| session (`session.go`) | active turn, start lock, activity counts, closing, parked run | start, resume, interruptActive, afterTurn, turnFinished, close | a Start overlapping with close, drain and deletion; activity reports sent after the lock is released |
| epochs (`epoch.go`) | current epoch, references per epoch, retired hooks | beginEpoch, endEpoch, SwapDeps | a generation must not be closed while a turn uses it, and must be closed afterwards |
| turn stream (`coordinator.go`, `sink.go`, `turn.go`) | speculative branches, cursors, queue, acknowledged prefix | OnDelta, finalize, deliver, detach, Ack, Interrupt, OnRunRevise, CommitView | an unreliable client, a bounded queue, interrupts and revisions while events of an older attempt are under way |
| agent execution (`core/agent/execute.go`) | attempt, result | attempts, referees, commit projection | what is committed against what was delivered |
| turn prompts and steering (`prompt.go`) | pending prompts, steer queue | askUser, Reply, Steer, DrainSteer | reply, interrupt and end of turn race for a prompt |
| runtime reload, lifecycle (`core/runtime`) | generations, registry | Reload, RegisterAgent, UnregisterAgent, Drain, Close | a swap with rollback at each step, resolvers of retired generations |
| event bus and router (`core/event`) | subscriptions, routes, attachments | Publish, Subscribe, Attach, AddBus, Close | blocking publishers against closing subscriptions |
| delegation service (`core/delegation/service.go`) | calls in flight and cached by key, stream escrow, workers | Delegate, worker loop, janitors, Close | retries, a worker faster than the submission that feeds it, closing with work queued |
| delegation board (`core/delegation/kanban`) | cards, leases, retained responses, keys | Submit, Status, Claim, Complete, ClaimCard, Suspend, Resume, Cancel, eviction, Close | stale completions, lost wake-ups, eviction of what callers may still ask for |
| craft pool (`craft/pool`) | member per key, references, replacements | Ensure, Acquire, Release, Invalidate | retiring a member that is in use |

The remaining parts (graph engine, inference, tools, sandbox, deployment,
drivers, backends, craft plugins, release tooling, examples) are listed in
`PROJECT.json` with the reason they are left out: they are data transformation,
wire formats or operating system I/O, or systems of their own.

What makes each component correct:

* **manager**: a leased session is not taken away; an idle unleased one is; no
  turn escapes close; after a drain nothing runs; what was deleted stays deleted.
* **epochs**: an old generation is closed exactly once, when its last turn ends.
* **stream**: a client sees every confirmed event in order or is detached; an
  interrupted turn commits exactly a prefix the client took; a turn always ends.
* **prompts**: a prompt is resolved once, and everyone who waits for it hears the
  same; a steered message is read by the engine once or recorded with the turn.
* **bus**: what `event.Bus` promises (module `BusContract`), and a Close that ends.
* **reload**: attachments outlive generations; a reload that fails at any step
  leaves one consistent generation; no agent instance leaks.
* **delegation**: what `AsyncBackend` promises (module `DelegationContract`); one
  current run per card; Close ends.

## Modules

| Module | Models | Proved or checked |
|---|---|---|
| `SessionEpochs` | `epoch.go`, and the order in which `start`, `resume`, `startTurnLocked` and `Turn.finish` call it | TLC and TLAPS |
| `SessionManager` | `manager.go`, `lease.go`, and start, end and close of `session.go` | TLC and TLAPS |
| `SessionStream` | `coordinator.go`, `sink.go`, the cursors of `turn.go`, and what `agent/execute.go` decides about a turn | TLC and TLAPS |
| `TurnPrompts` | `prompt.go`, with Interrupt, finish and the steer queue of `turn.go` | TLC and TLAPS |
| `BusContract` | what `event.Bus` promises, abstractly | refined by `EventBus`, TLC and TLAPS |
| `EventBus` | `core/event/memory.go` | TLC and TLAPS |
| `EventRouter` | `core/event/router.go`; a part of the next one, without a specification of its own | TLC and TLAPS |
| `RuntimeReload` | `reload.go`, `generation.go`, `lifecycle.go`, `registry.go`, `runtime.go`, on `EventRouter` | TLC and TLAPS |
| `SessionEpochs_proofs`, `SessionManager_proofs`, `SessionStream_proofs`, `TurnPrompts_proofs`, `EventBus_proofs`, `RuntimeReload_proofs`, `DelegationService_proofs` | theorems about the module each is named after | TLAPS |
| `DelegationContract` | what `delegation.AsyncBackend` promises, abstractly | refined by `DelegationService`, TLC and TLAPS |
| `DelegationBoard` | `kanban.go`, as operators on what `Board.mu` guards | TLC and TLAPS |
| `DelegationService` | `service.go` on that board | TLC and TLAPS |
| `MC*` | instances for TLC | |

The first four look at the same turn from four sides and abstract the others.
In `SessionEpochs` the phases of a Start and its turn are those at which the
reference is taken or given back. `SessionManager` has no epochs and sees of a
turn whether it is running, told to stop, or has saved its state.
`SessionStream` is one turn with its stream, `TurnPrompts` one turn with its
questions. `RuntimeReload` composes the reload with the router and takes the
references of an epoch from what `SessionEpochs` proves about them.

### SessionEpochs

A reload calls `SwapDeps`: the current epoch is retired, and its `onRetired` hook
(which closes the old generation) must be called when the last reference goes.
One element of `Attempts` is one execution of Start or Resume with the turn it
installs; it is reused once that turn is gone. Each critical section of
`Manager.mu` is one step; the hook, which the code calls after unlocking, is
counted in `due` when it is taken and in `ran` when it is called. `failed`
remembers on which epochs `startTurnLocked` has failed, because those Starts give
the reference back twice (see the findings).

### SessionManager

Session objects are distinct from keys: an entry may be dropped and its key
opened again while the old object and its turn still exist. Every critical
section of `Manager.mu` or `Session.mu` that changes state is one step; what the
code does between two of them (an idle poll and the lock that follows, the
activity notification sent after `Session.mu` is released, the budgeted wait of
`Session.close`) is a phase of the caller. A timer callback that could not be
stopped is `fresh` or `stale`, which is all `idleGeneration` is used for. Timeouts
and contexts that expire are steps that may be taken at any time while the wait
lasts. The checkpoint store is the set of keys it has state for.

An assumption on callers: a lease is closed after the `Start` called through it
has returned (`InUse`). Without it, `reclaim` may drop the session under a Start
that has not yet reserved its activity slot; the repository's callers keep this
order.

`MaxSessions` is a constant. In the code `UpdateTunables` (`config.go:56`), which a
reload calls, changes it on a live manager. A limit lowered below the number of
sessions closes none of them and only refuses further opens until enough are gone;
that transition is not modelled, and `TypeOK` is about a limit that stays.

### SessionStream

One turn with one confirmed authoritative sink. The engine publishes text,
speculative text on a branch, accepts and cancels, in any order, also wrong
ones; it may end an attempt with or without a run end, and a failed publication of
the run end may be joined to an interrupt, which is then still accepted
(`graph/execute.go:116`). The bus is an ordered
queue without loss: the coordinator attaches with Block backpressure. A text is
a number unique in the turn, so that a prefix says exactly what it contains.
`OnDelta` processes one event per step, under the coordinator's lock, with
everything it sets off (the queue, `recordConfirmed`, detaching and freezing).
The sink's goroutine takes separate steps to take an item and call the client,
to get the result, to record the delivery, to detach: the client may acknowledge
and the turn be interrupted or revised between any two of them. `finalize` is
split where it checks the attempt, sleeps on `attemptEnded` and emits.
`output`, `held` and `heard` are history variables: what the engine produced and
what the client has taken.

### TurnPrompts

A prompt leaves the pending state by a Reply, by the end of the asker's context,
by a failed publication, by Interrupt or by finish; all five race for it under
the turn's lock, and what each does after unlocking (the session's activity slot,
the PromptResolved event, the wake-up of the asker) is a step of its own. Steered
messages are numbered in the order they were accepted.

### BusContract and EventBus

`EventBus` has a step for every moment at which `bus.mu` is held or given up: a
Publish gives it up around each Block send and goes on with the subscribers it
matched before; the phases of `memSub.Close` (off the bus, `done`, wait for the
senders, close the channel) are separate. A pattern is the set of subjects it
matches, a predicate the set of publishers it lets through, and a scan visits its
subscribers in any order (a Go map). `BusContract` knows only open
subscriptions, what they may not lose, what they were given, and how a Publish
returned; `Contract` in `EventBus` is the refinement mapping (a channel's history
is the log, the set matched by the scan is what the call owes).

### EventRouter and RuntimeReload

Generation `g` is epoch `g` and owns bus `g`. `lifecycleMu` serializes Reload,
RegisterAgent, UnregisterAgent and Close, so one variable holds the operation in
progress and its phase; every phase of a reload may fail and is then unwound as
the code does. The exceptions are the rollbacks after `UpdateTunables` or `SwapDeps`
(`reload.go:609-619`), and with them the `RemoveBus` of a bus already attached: both
calls fail only on a session manager that somebody else than the runtime has closed.
A name may be both registered and deployed: `RegisterAgent` refuses a name only while
it is deployed, and a reload does not look. `removed` are the session manager's
tombstones, `drained` those whose sessions a drain has closed, and `unregistered`
remembers which ones `UnregisterAgent` set. `RemoveAgent` may give up waiting, or
fail after it has closed the sessions (`DrainError`). A lease opened earlier may start
turns on a tombstoned agent, and after Close; once its session is drained such a Start
gets no further than `interruptActive`. Starts capture an epoch, resolve their agent through the resolver
that epoch was installed with, attach to the router and run; retirement takes no
lock and interleaves with everything. A Start that fails in `startTurnLocked`
taints its epoch: its references are no longer exact (theorem `Exact`).

### DelegationContract, DelegationBoard and DelegationService

A card is named after the call that created it; the clock is a small number. Every
critical section of the board is an operator from the guarded record before to the
record after, including the evictions around an admission. The slice of cards is
only appended to and filtered, so it is a set of cards with the numbers of their
admissions: the first pending card is the pending one with the least number, and the
cap removes the settled cards before which fewer settled ones are left than there are
cards too many. Both sweeps of an eviction are one removal, as the key of a card that
is evicted within its window is still bound to it. A lease is a token;
the transition takes it under the lock, its context is cancelled by a later step
(`CancelLease`), as `transition` does after unlocking. A Delegate call passes
through the single flight, the escrow, the two critical sections of Submit with the
validator in between, the re-arming of the escrow and the settling of the flight.
The board's owner may also call `Submit` itself (`SubmitDirectly`), as the
repository's tests do; no single flight keeps such submissions of one key apart,
so both may pass the first critical section.
A worker's run is a session's turn and ends with any response at any time.
`DelegationContract` is about `Submit` and `Status` only: an operation moves from
accepted to running and back, settles once, and stays queryable, with its key bound,
for the retention window. In the refinement the status is what `Status` answers, and
the owner of a key what `Submit` would replay.

## Runs

| Run | Bounds | Shows |
|---|---|---|
| `epoch_safety` | 2 sessions, 2 attempts, 3 epochs | hook exactly once, references never leak and are exact where no Start failed; every retired epoch is eventually closed |
| `manager` | three environments: 2 keys and 2 objects for 1 slot, 2 leases, no calls; 1 key, 1 object, 2 leases, every call; 1 key, 2 objects, DeleteSession and Close | a leased session is kept; a returned Drain is final; activity is exact; idle sessions stay reclaimable; close reaches every turn; what was purged stays purged unless an entry was dropped under a turn |
| `stream_delivery` | AckOnDelivery, and AckExplicit with window 1; 1 branch, 1 buffered event, queue of 2, 2 attempts, 2 or 3 publications | the committable prefix matches the output and was taken; no gaps; no lost wake-up; the turn finishes |
| `turn_prompts` | 2 askers and 2 repliers; 1 asker and 1 replier beside 3 messages for a queue of 2 | resolved once and as announced; exact activity; steering accounted for; everyone returns |
| `bus_publish` | 2 publishers, a Block and a DropOldest or Sample subscription, buffer 1, route cache 1, a closer each, Close of the bus | the bus implements `BusContract`; no silent loss; Close returns |
| `reload` | 2 documents, one of which deploys a name that is also registered; 2 generations, 1 dynamic agent with 2 instances, 1 Start, 1 external attachment | attachments survive; a settled runtime is consistent; instances are owned; generations are released |
| `delegation` | 3 calls, 1 key, 2 workers, 1 pending card, 1 retained card; six environments (`MCDelegation`) | the board keeps `DelegationContract`; one current run; no worker sleeps on work; cached acceptances are queryable; first runs have their sinks; Close returns |
| `epoch_double_release`, `manager_resurrection`, `bus_closed_send`, `reload_resolver`, `reload_shadowed` | those of the passing run, or smaller | the findings below |

A run explores several *environments* where one instance with everything in it
would be too large: the initial state chooses what surrounds the component
(which calls there are, how many objects, which acknowledgement mode), and the
specification is the same for all of them.

Why the bounds are enough. Races in the epoch table need two Starts on one
epoch and two swaps (a retired epoch, its successor, and a swap while both are
in the map); the proofs cover the rest. Of the manager, every race is between a
key's session and at most one of each administrative call; a second object is
needed when a key is opened again while its old session lives, a second key when
the limit counts. `turns` never exceeds three: a Start, a turn, and a turn that
has been replaced and still holds its slot. Of the stream, three publications are
enough for a text before, in and after a branch, or across a revision; a queue of
two overflows when an accepted branch is emitted; the speculative buffer of one
overflows with the second event. Of the prompts, two callers of each kind race for
one prompt or for two. Of the bus, one buffered envelope makes the second Publish
block or evict, and each subscription is closed while another Publish is inside
its scan; a DropOldest retry that finds the channel filled again (`memory.go:435`)
takes a third envelope and is left to the theorem `NothingLostSilently`. Of the
reload, the second generation is the one under construction and the first the one in
use; a dynamic agent has an instance in each, and a reload may deploy its name. Of delegation,
the third call is what evicts a settled card by the cap of one; two units of
retention put a tick inside the window and one at its end; two operator actions
suspend and resume a card under its first run; two workers then run the same card;
two submissions of one key on the board itself, and one of the service with another
request under that key, decide each outcome of the second lookup in `Submit`.
`CHECK_DEADLOCK FALSE` is set because the systems may really stop: a closed
manager, a finished turn, a publisher nobody reads from, the bounds themselves.

Fairness. `SessionEpochs`: a Start returns and an installed turn finishes (an
engine that never returns keeps its generation alive, by design), and a hook
that was taken is called. `SessionStream`: the bus delivers what was published,
`finish` keeps running, and a client's `OnDelta` returns or exceeds its delivery
timeout, which the code enforces. The engine is not assumed to end, nor the
client to acknowledge; `TurnFinishes` starts when the engine has returned.
`TurnPrompts`: every goroutine goes on when it can; a Publish that blocks returns
once the turn is done, which cancels its context. `EventBus`, `RuntimeReload` and
`DelegationService` have one weak fairness condition over all steps of the code
(`Progress`), weaker than one per goroutine: in these models no step can be
repeated for ever, so it is enough. Consumers are never obliged to read, so a
blocked publisher is freed only by a close; an application need not call anything;
a delegated run has to end only once its context is cancelled
(`waitTurnCancelOnDone` gives up after a bounded wait).

Each property of a passing run has a *mutant* in the modules (named in
`PROJECT.json`): the definition with a plausible mistake, which TLC must find to
violate the property.

## Proofs

Each `*_proofs` module proves `Spec => []IndInv` for an inductive invariant of its
component (theorem `Inductive`: the initial states satisfy it, every step keeps it)
and derives the properties from it. The theorems hold for every value of the
constants under the assumptions named below, so for any number of sessions, turns,
calls, events and generations; the bounds of the runs play no part. TLC has checked
every part of each `IndInv` on the instances of the runs. The proof that steps keep
a part has one case per action that touches it; what a step does that several
actions share (`endEpoch`, `Detach`, `Emit`, `Resolve`) is stated once
in a lemma.

### Epochs

`SessionEpochs_proofs`, from `EpochAssumption` (the bound on swaps is positive,
attempts are finite, `None` is no session):

* `TypeCorrect`: `TypeOK`; no reference count goes below zero;
* `HookOnce`: `HookExactlyOnce`;
* `NoLeaks`: `NoReferenceLeaks`;
* `Exact`: `ExactUnlessStartFailed`.

None of the four is inductive by itself. `IndInv` adds `TableInv` (an epoch other
than the current one is in the map only while it is retired and referenced; one
outside has no references), `AttemptInv` (nobody captured a future epoch; a Start
that still owes its second release is on a failed epoch) and `CountInv` (references
never exceed the holders, and equal them on epochs without failures). The argument:
`endEpoch` takes the hook only with the last reference, which by `TableInv` means
the epoch is still in the map, so the hook was not taken before; a release lowers
the count with the holder that leaves (`HolderLeaves`), except the second release
of a failed Start, which is on a failed epoch and can only lower it further.

### Manager

`SessionManager_proofs`, from `ManagerAssumption` (a key has an agent, the limit on
sessions is positive, an environment has at least one lease per session, `None` is
neither session nor key):

* `TypeCorrect`: `TypeOK`; the limit on sessions is kept;
* `LeaseProtects`: `LeasedSessionIsKept`;
* `CloseStopsTurns`: `CloseReachesEveryTurn`;
* `DrainIsFinal`: `DrainedStaysQuiet`;
* `ActivityCounted`: `ActivityIsExact`;
* `DeleteIsFinal`: `DeletedUnlessOrphaned`;
* `IdleIsSeenTo`: `IdleSessionsReclaimed`.

What joins them is who may still touch a session once its entry is gone.
`EntryInv` and `UnusedInv` say which object a key names; `StartInv` and `CloserInv`
how a Start and `Session.close` exclude each other: once the closer has had
`startMu`, every Start is before the check of `closing`. `TargetInv` and `DeleteInv`
are what a `DeleteSession` may rely on in each of its phases although it holds no
lock between them; `GoneInv` says that a session without an entry writes nothing
unless its key is orphaned, which is where `manager_resurrection` comes from;
`DrainInv` that no Start of a live session is beyond its second look at `draining`.

### Stream

`SessionStream_proofs`, from `StreamAssumption` (positive limits, and what
`SinkSpec.Validate` refuses):

* `TypeCorrect`: `TypeOK`; queue and speculative buffer stay within their limits;
* `PrefixOfOutput`: `PrefixMatchesOutput`;
* `OnlyTakenCommitted`: `CommittableWasTaken`;
* `AckBehindDelivery`: `AckNotAhead`;
* `NoGaps`: `AttachedSinkMissesNothing`;
* `NoSleepThroughEnd`: `NoLostWakeup`.

`QueueInv` (the queue continues what was offered; cursors are ordered), `EndInv`
(nothing follows the run end), `TokenInv` (which tokens a prefix may still gain),
`TakenInv` (they have been heard when they are acknowledged) and `BufferInv` carry
all but the first of these. That the prefix matches the output needs more, since
the coordinator confirms what the engine published some time ago, possibly in an
attempt that is over. `PrefixInv` says that the acknowledged prefix followed by the
texts at the cursors that wait, in their order, begins the attempt's output. It is
kept because of `ReplayInv`: there is a sequence of attempt, text and open branches,
one for each event still on the bus, that starts where the coordinator is, follows
the events, and arrives where the engine is. An event the engine publishes extends
the sequence, `OnDelta` removes its first element, and a revision finds that the
last one is already the start of the new attempt. The order in which `Gained` reads
the cursors is a `CHOOSE`; `OrderExists` and `InOrderRanks` show that it exists and
puts each cursor at its rank.

### Prompts

`TurnPrompts_proofs`, from `PromptConstants` (a positive queue limit; askers and
repliers are finite and distinct):

* `TypeCorrect`: `TypeOK`;
* `OneResolution`: `ResolvedOnce`;
* `PromptsCounted`: `PromptActivityIsExact`;
* `SteerAccounted`: `SteerIsAccountedFor`;
* `NoAskerIsStuck`: a call that only waits for its channel finds a value in it, the
  safety half of `PromptsSettle`.

`ResolvedOnce` counts announcements; inductive is who owns them. A prompt leaves the
pending state once and its status tells which kind of caller did it (`OwnerInv`,
`ReplierInv`); that caller alone has something left to announce; the channel and the
return value of `askUser` hold what it decided (`ReturnInv`). The count is proved
apart: each step takes a slot, gives one back, or passes one from a call to its prompt
or from a prompt to its resolver.

### Bus

`EventBus_proofs`, from `BusAssumption` (finitely many publishers; a subscription is
not opened with the value that stands for no configuration):

* `TypeCorrect`: `TypeOK`; senders are counted exactly, no channel exceeds its buffer;
* `KeepsContract`: the bus implements `BusContract`;
* `NothingLostSilently`: `NoSilentLoss`.

The refinement is proved step by step: every step of a Publish, of a close or of a
reader is one of the contract's steps or leaves its variables alone. It needs
`MustInv` (a lossless subscription that a call owes its envelope has it, or is still
on the call's list), `OnceInv` (an envelope is in no channel its call has still to
visit), `CallInv` (a call visits only what was on the bus during it), `RouteInv` (a
cached route is what a scan would find: both ways of filling and dropping the cache)
and `StopInv`, `CloserInv` (a subscription is shut down only after it left the bus).

### Reload

`RuntimeReload_proofs`, from `ReloadAssumption` (at least one generation; bus `g`
belongs to generation `g`; names of registered and of deployed agents may coincide):

* `TypeCorrect`: `TypeOK`; no instance is closed twice;
* `NoInstanceLeaks`: `InstancesAreOwned`;
* `ReloadSettles`: `SettledRuntimeIsConsistent`;
* `SubscribersKeepHearing`: `AttachmentsSurviveReload`.

`GenInv` says which generation the registry, the manager and the router serve at each
point of a reload; `OpInv`, `AsideInv` and `RemovedInv` what the operation has set
aside and will take back: of the agents deployed now, only those are refused that the
reload in progress is draining or that `UnregisterAgent` was called for; `AdoptInv`, `NameInv`, `BoundInv` and `ServeInv` to whom each
instance belongs, so that no two parties close it; `HoldInv`, `BusInv`, `LinkInv` and
`LoopInv` which buses the router carries and who is subscribed on them. A failure at
any phase leads to a rollback or an abort, and these say what each finds there.

### Delegation

`DelegationService_proofs`, from `BoardConstants` (calls and keys are positive numbers,
limits and TTLs natural ones, the retention is not zero: `New` refuses it) and
`ServiceConstants` (the shape of an environment: which calls, keys, workers and
responses there are):

* `TypeCorrect`: `TypeOK`; what is on the map of calls in flight is in flight;
* `CountsExact`: `CountsAreExact` (the counters of the board; no run lists it);
* `CurrentRun`: `OneCurrentRun`;
* `NoLostWakeup`: `NoSleepOnPendingWork`;
* `SinksReachFirstRun`: `FirstRunHasSinks`;
* `CachedQueryable`: `CachedIsQueryable`;
* `KeepsContract`: the service implements `DelegationContract`.

The board is treated first and once. Every critical section is an operator on the
guarded record; a lemma shows for each that it keeps `BoardInv` and that board before
and after are in one of a few relations: an eviction (`EvictRel`), a transition
(`MoveRel`), a claim, an admission (`AdmitRel`), or a change of leases and contexts
only (`SameCards`). `BoardInv` has four parts. `CardInv`: an unsettled card is in the
index, and a settled one has its tombstone exactly until its retention is over. That
is what makes eviction harmless. `KeyInv`: a key is bound to the operation that names
it as long as that operation is owed to callers, and only so long; so an admission
finds its key free. `LeaseInv`: the lease of a card is of a claimed card, live, and
nobody else's. `CountInv`: the counters, by adding and removing elements of finite
sets. Of the service, `CallInv` says that a call that has yet to be admitted has no
card, that the map of calls in flight has none that bypassed the service, and that
nothing is cached for longer than the board retains it; `WorkerInv`
that every claim has its own token and that a current first run is the only run of
its card; `StreamInv` that the sinks are in escrow, or older than their TTL, from
before the admission until the first run takes them; `CloseInv` that Close returns
after everyone. `OneCurrentRun`, `NoSleepOnPendingWork` and `FirstRunHasSinks` are
conjuncts of the invariant themselves; `CountsAreExact` and `CachedIsQueryable`
follow from it.

For the refinement the relations between boards are translated to what a caller of
`Status` and `Submit` sees (`ViewStep`), each by itself: an eviction forgets only
operations whose window is over and releases no other key (`SweepKeepsView`), time
likewise (`TickView`), a transition moves an operation as the contract allows
(`MoveStep`), and an admission between its two evictions accepts an operation under
a key that replayed nothing (`AdmitStep`).

### Only model-checked

Liveness under fairness (`RetiredEpochIsClosed`, `TurnFinishes`, `PromptsSettle`,
`CloseReturns`, `GenerationsAreReleased`, `ServiceCloseReturns`) is out of the
prover's reach and stays with TLC, as do the expected violations. Every safety
property of a passing run, and both refinements, are proved.

## Findings

* `epoch_double_release`: a Start that fails in `startTurnLocked` calls
  `epochRelease` twice. The second call takes the reference of another turn on
  the same epoch; the next reload then closes the generation under that turn.
  `ExactUnlessStartFailed` and its proof say that this is the only way it happens.
* `manager_resurrection`: `RemoveAgent` drops a session's entry although a Start
  on an open lease has installed a turn after the last poll. A `DeleteSession`
  that follows finds nothing to wait for, purges the store and returns; the turn
  then saves its state. `DeletedUnlessOrphaned` (passing) says that dropping an
  entry under a turn or a Start is the only way. The same race makes
  `RemoveAgent` close a session over an active turn instead of letting it finish.
  It needs the agent to be resolvable during the removal, as when a reload drains
  an agent that the new document no longer has.
* `bus_closed_send`: after a Block send, Publish continues with the subscribers it
  matched before it gave the lock up. One of them may have been taken off the bus
  since; the check of `done` and the send are not atomic with its closing, so the
  send can meet a closed channel.
* `reload_resolver`: `freeze` replaces the resolver of the retired generation, but
  the epoch holds a copy of the value from before. A Start that captured the old
  epoch therefore resolves a dynamic agent in the live registry, and may run on an
  instance of the new generation that a rollback, or the next reload, closes.
* `reload_shadowed`: deployed agents are said not to be removable at runtime
  (`lifecycle.go:199`). `RegisterAgent` refuses only names that are deployed at that
  moment, a reload does not look at the registrations, and `UnregisterAgent` deletes
  the registration before it would look for a deployed agent. Registering a name,
  reloading to a document that deploys it and unregistering it leaves the deployed
  agent tombstoned until the next reload. `SettledRuntimeIsConsistent` (passing, and
  proved) says that this is the only way a deployed agent is refused.

Observations without a run of their own:

* An interrupted turn hands the acknowledged prefix to the Committers, while the
  session's board is saved from the unprojected result (`session.go:803`). The docs of
  `CommitView` and `Committer` (`core/agent/lifecycle.go:292` and 337) and
  `TestRun_CommitViewVisibleOnlyToCommitter` intend this; one comment
  (`core/agent/execute.go:360-362`) disagrees with them: "the committed view and the
  returned result never diverge".
* When a name is both registered and deployed and a reload drops it from the document,
  the reload drains and tombstones the name although the registration is still
  resolvable; it is served again once it is unregistered and registered anew, or
  deployed by another document.
* `WithMaxPending` is said to cap the delegations waiting to be claimed
  (`kanban.go:84`). Only `Submit` looks at it; a card that was claimed, suspended and
  resumed comes on top of what was admitted in the meantime.
* `IdleSessionsReclaimed` excepts agents that were reopened: `RemoveAgent` stops
  the idle timers of the agent's sessions, and a `ReopenAgent` after a removal that
  timed out arms none, so an unleased idle session stays until it is used again.
* A session left closing by an incomplete deletion never counts as idle for
  `agentIdle` (manager.go:783); `keyIdle` and `allIdleLocked` have an exception for
  it. Removing its agent can only time out.
* An interrupt freezes the acknowledged prefix while deliveries go on, and the
  window check (turn.go:579), which contracts.go:140 describes for AckExplicit, then
  detaches an AckOnDelivery sink before the logical run end.
* `OnRunRevise` sets the acknowledged cursor to the delivered one, which takes back
  an explicit acknowledgement made from inside the callback that is still running;
  the client's next acknowledgement makes up for it.
* A prompt is registered before PromptRequested is published (prompt.go:114), so
  its PromptResolved may be published first.
* `Board.Claim` scans the cards before it looks at its context: workers of a service
  being closed claim every pending card and complete it as canceled. The canceled
  response that replaces a run's own (service.go:861) has no run id.
* `NoteRunID` has no lease token, so a parked run may overwrite the run id of the
  card's next run.
* A worker releases the escrow also after a stale completion (service.go:879), so a
  card that was suspended and resumed may run without its stream; and it may release
  before the submitting call re-arms, which then stores the entry again until its
  TTL, although the comment of `rearmStreamEscrow` knows only of expiry.
* The board's fingerprint covers the stream reference, which is new for every call: a
  keyed retry of a streaming delegation conflicts once the service's cache expired.
* An acceptance cached after its work has settled may outlive the board's retention
  by the time between the two; `CachedIsQueryable` excepts it.

## Plan

Everything planned for the modelled components is checked and, but for liveness,
proved. What would come next: the craft pool (one member per key across generations),
and the waves and parallel branches of the graph engine, which `SessionStream` takes
as any sequence of publications.

## Not modelled

Of the modelled parts: the contents of boards, requests and journals; raw and
observing sinks; byte limits (event limits stand for them); observers,
telemetry and callbacks of the application; watchers, events and run ids of the
delegation board; synchronous delegation (a turn in the caller's goroutine),
delegation depth and slots; a backend of another process. Of the rest of the
repository (among it provider drivers, the memory backend with its evaluation
harness, plugin installation, release tooling and examples), see the
components in `PROJECT.json`: data transformation, wire formats, operating system
I/O, or systems of their own.
