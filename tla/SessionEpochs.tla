---------------------------- MODULE SessionEpochs ----------------------------
(***************************************************************************)
(* Epoch reference counting of the session manager                         *)
(* (core/runtime/session/epoch.go and its callers in session.go, turn.go). *)
(*                                                                         *)
(* A generation reload swaps the manager's dependencies (SwapDeps): the    *)
(* previous epoch is retired and its onRetired hook, which closes the old  *)
(* generation, must run once no turn uses it any more.  A Start (or        *)
(* Resume) captures the current epoch, and the turn it installs gives the  *)
(* reference back when it finishes.                                        *)
(*                                                                         *)
(* One element of Attempts is one execution of Start or Resume together    *)
(* with the turn it installs; it is reused once that turn is gone, so      *)
(* Attempts bounds how many are under way at the same time.                *)
(***************************************************************************)
EXTENDS Integers, FiniteSets

CONSTANTS
    Sessions,   \* session keys
    Attempts,   \* Start/Resume calls that may be under way together
    None,       \* owner of an attempt that is not under way
    MaxEpoch    \* bound: SwapDeps runs at most MaxEpoch - 1 times

ASSUME EpochAssumption ==
    /\ MaxEpoch \in Nat \ {0}
    /\ IsFiniteSet(Attempts)
    /\ None \notin Sessions

Epochs == 1..MaxEpoch

VARIABLES
    epochSeq,   \* Manager.epochSeq: the current epoch
    live,       \* the keys of Manager.epochs
    refs,       \* epochState.refs
    retired,    \* the epochs with epochState.retired
    due,        \* onRetired calls the code has committed to and not yet made
    ran,        \* onRetired calls made
    draining,   \* Manager.draining
    closed,     \* Manager.closed
    phase,      \* where an attempt is in start/startTurnLocked/finish
    epoch,      \* the epoch an attempt captured
    owner,      \* the session an attempt belongs to
    failed      \* history: epochs on which startTurnLocked has failed

epochVars == <<epochSeq, live, refs, retired, due, ran, draining, closed>>
attemptVars == <<phase, epoch, owner>>
vars == <<epochVars, attemptVars, failed>>

(***************************************************************************)
(* "captured"  : beginEpoch has returned, interruptActive has not          *)
(* "admitted"  : the previous turn is out of the way, no turn yet          *)
(* "unwinding" : startTurnLocked failed and has called epochRelease; the   *)
(*               deferred call of start/resume is still to come            *)
(* "running"   : the turn is the session's active turn                     *)
(* "finishing" : turnFinished has cleared s.active, release not yet called *)
(***************************************************************************)
Phases == {"idle", "captured", "admitted", "unwinding", "running", "finishing"}
InStart == {"captured", "admitted", "unwinding"}
Holding == {"captured", "admitted", "running", "finishing"}

\* The attempts that rely on epoch e being alive.
Holders(e) == {t \in Attempts : phase[t] \in Holding /\ epoch[t] = e}

Init ==
    /\ epochSeq = 1
    /\ live = {1}
    /\ refs = [e \in Epochs |-> 0]
    /\ retired = {}
    /\ due = [e \in Epochs |-> 0]
    /\ ran = [e \in Epochs |-> 0]
    /\ draining = FALSE
    /\ closed = FALSE
    /\ phase = [t \in Attempts |-> "idle"]
    /\ epoch = [t \in Attempts |-> 1]
    /\ owner = [t \in Attempts |-> None]
    /\ failed = {}

-----------------------------------------------------------------------------
(* The manager's three operations, each one critical section of m.mu. *)

BeginEpoch(t, s) ==
    /\ phase[t] = "idle"
    /\ \A u \in Attempts : owner[u] = s => phase[u] \notin InStart   \* startMu
    /\ ~draining
    /\ epochSeq \in live
    /\ refs' = [refs EXCEPT ![epochSeq] = @ + 1]
    /\ phase' = [phase EXCEPT ![t] = "captured"]
    /\ epoch' = [epoch EXCEPT ![t] = epochSeq]
    /\ owner' = [owner EXCEPT ![t] = s]
    /\ UNCHANGED <<epochSeq, live, retired, due, ran, draining, closed, failed>>

\* Mutant: the last reference retires the epoch even while it is current.
EndEpochIgnoresRetired(e) ==
    /\ UNCHANGED <<epochSeq, retired, ran, draining, closed>>
    /\ IF e \in live /\ refs[e] > 0
       THEN /\ refs' = [refs EXCEPT ![e] = @ - 1]
            /\ IF refs[e] > 1
               THEN UNCHANGED <<live, due>>
               ELSE live' = live \ {e} /\ due' = [due EXCEPT ![e] = @ + 1]
       ELSE UNCHANGED <<refs, live, due>>

\* Mutant: a retired epoch whose last reference goes is not handed to its hook.
EndEpochForgetsHook(e) ==
    /\ UNCHANGED <<epochSeq, retired, ran, draining, closed, due, live>>
    /\ refs' = IF e \in live /\ refs[e] > 0 THEN [refs EXCEPT ![e] = @ - 1] ELSE refs

\* Mutant: the guard on a count that is already zero is dropped.
EndEpochUnderflows(e) ==
    /\ UNCHANGED <<epochSeq, retired, ran, draining, closed, live, due>>
    /\ refs' = IF e \in live THEN [refs EXCEPT ![e] = @ - 1] ELSE refs

EndEpoch(e) ==
    /\ UNCHANGED <<epochSeq, retired, ran, draining, closed>>
    /\ IF e \in live /\ refs[e] > 0
       THEN /\ refs' = [refs EXCEPT ![e] = @ - 1]
            /\ IF refs[e] > 1 \/ e \notin retired
               THEN UNCHANGED <<live, due>>
               ELSE live' = live \ {e} /\ due' = [due EXCEPT ![e] = @ + 1]
       ELSE UNCHANGED <<refs, live, due>>

\* Mutant: the previous epoch is retired at once, referenced or not.
SwapDepsRetiresAtOnce ==
    /\ ~closed /\ epochSeq < MaxEpoch
    /\ epochSeq' = epochSeq + 1
    /\ retired' = retired \cup {epochSeq}
    /\ live' = (live \cup {epochSeq + 1}) \ {epochSeq}
    /\ due' = [due EXCEPT ![epochSeq] = @ + 1]
    /\ UNCHANGED <<refs, ran, draining, closed, attemptVars, failed>>

SwapDeps ==
    /\ ~closed
    /\ epochSeq < MaxEpoch
    /\ epochSeq' = epochSeq + 1
    /\ IF epochSeq \in live
       THEN /\ retired' = retired \cup {epochSeq}
            /\ IF refs[epochSeq] = 0
               THEN /\ live' = (live \cup {epochSeq + 1}) \ {epochSeq}
                    /\ due' = [due EXCEPT ![epochSeq] = @ + 1]
               ELSE live' = live \cup {epochSeq + 1} /\ due' = due
       ELSE live' = live \cup {epochSeq + 1} /\ UNCHANGED <<retired, due>>
    /\ UNCHANGED <<refs, ran, draining, closed, attemptVars, failed>>

\* The hook runs after m.mu is released, on the goroutine that took it.
RunOnRetired(e) ==
    /\ due[e] > 0
    /\ due' = [due EXCEPT ![e] = @ - 1]
    /\ ran' = [ran EXCEPT ![e] = @ + 1]
    /\ UNCHANGED <<epochSeq, live, refs, retired, draining, closed, attemptVars, failed>>

-----------------------------------------------------------------------------
(* Start and Resume, between beginEpoch and the installed turn. *)

\* interruptActive: the session's running turn, if any, has left s.active.
InterruptActive(t) ==
    /\ phase[t] = "captured"
    /\ \A u \in Attempts : owner[u] = owner[t] => phase[u] # "running"
    /\ phase' = [phase EXCEPT ![t] = "admitted"]
    /\ UNCHANGED <<epochVars, epoch, owner, failed>>

\* Mutant: the deferred release is forgotten on the early error paths.
AbandonStartKeepsReference(t) ==
    /\ phase[t] \in {"captured", "admitted"}
    /\ phase' = [phase EXCEPT ![t] = "idle"]
    /\ owner' = [owner EXCEPT ![t] = None]
    /\ UNCHANGED <<epochVars, epoch, failed>>

\* An error before startTurnLocked (draining, closing, context, no state to
\* load or resume): only the deferred release of start/resume runs.
AbandonStart(t) ==
    /\ phase[t] \in {"captured", "admitted"}
    /\ EndEpoch(epoch[t])
    /\ phase' = [phase EXCEPT ![t] = "idle"]
    /\ owner' = [owner EXCEPT ![t] = None]
    /\ UNCHANGED <<epoch, failed>>

\* startTurnLocked succeeds: the turn takes over the reference.
InstallTurn(t) ==
    /\ phase[t] = "admitted"
    /\ phase' = [phase EXCEPT ![t] = "running"]
    /\ UNCHANGED <<epochVars, epoch, owner, failed>>

\* startTurnLocked fails (agent not deployed, catalog, host, attach, closing):
\* it calls epochRelease itself ...
FailStartTurn(t) ==
    /\ phase[t] = "admitted"
    /\ EndEpoch(epoch[t])
    /\ phase' = [phase EXCEPT ![t] = "unwinding"]
    /\ failed' = failed \cup {epoch[t]}
    /\ UNCHANGED <<epoch, owner>>

\* ... and the caller's deferred function, epochHeld still set, calls it again.
UnwindStart(t) ==
    /\ phase[t] = "unwinding"
    /\ EndEpoch(epoch[t])
    /\ phase' = [phase EXCEPT ![t] = "idle"]
    /\ owner' = [owner EXCEPT ![t] = None]
    /\ UNCHANGED <<epoch, failed>>

-----------------------------------------------------------------------------
(* The end of a turn, and the manager's shutdown flags. *)

\* Turn.finish: afterTurn and turnFinished, which clears s.active.
FinishTurn(t) ==
    /\ phase[t] = "running"
    /\ phase' = [phase EXCEPT ![t] = "finishing"]
    /\ UNCHANGED <<epochVars, epoch, owner, failed>>

\* Turn.finish: the epoch reference is released, done is closed.
ReleaseTurn(t) ==
    /\ phase[t] = "finishing"
    /\ EndEpoch(epoch[t])
    /\ phase' = [phase EXCEPT ![t] = "idle"]
    /\ owner' = [owner EXCEPT ![t] = None]
    /\ UNCHANGED <<epoch, failed>>

Drain ==
    /\ ~draining
    /\ ~closed
    /\ draining' = TRUE
    /\ UNCHANGED <<epochSeq, live, refs, retired, due, ran, closed, attemptVars, failed>>

CloseManager ==
    /\ ~closed
    /\ closed' = TRUE
    /\ UNCHANGED <<epochSeq, live, refs, retired, due, ran, draining, attemptVars, failed>>

-----------------------------------------------------------------------------

AttemptStep(t) ==
    \/ InterruptActive(t)
    \/ AbandonStart(t)
    \/ InstallTurn(t)
    \/ FailStartTurn(t)
    \/ UnwindStart(t)
    \/ FinishTurn(t)
    \/ ReleaseTurn(t)

Next ==
    \/ \E t \in Attempts, s \in Sessions : BeginEpoch(t, s)
    \/ \E t \in Attempts : AttemptStep(t)
    \/ SwapDeps
    \/ \E e \in Epochs : RunOnRetired(e)
    \/ Drain
    \/ CloseManager

\* Every goroutine keeps running: a Start returns, a turn that was installed
\* finishes, a hook that was taken is called.
Fairness ==
    /\ \A t \in Attempts : WF_vars(AttemptStep(t))
    /\ \A e \in Epochs : WF_vars(RunOnRetired(e))

Spec == Init /\ [][Next]_vars

FairSpec == Spec /\ Fairness

-----------------------------------------------------------------------------

\* The types of the manager's epoch table and of the attempts.
TypeOK ==
    /\ epochSeq \in Epochs
    /\ live \subseteq Epochs
    /\ refs \in [Epochs -> Nat]
    /\ retired \subseteq Epochs
    /\ due \in [Epochs -> Nat]
    /\ ran \in [Epochs -> Nat]
    /\ draining \in BOOLEAN
    /\ closed \in BOOLEAN
    /\ phase \in [Attempts -> Phases]
    /\ epoch \in [Attempts -> Epochs]
    /\ owner \in [Attempts -> Sessions \cup {None}]
    /\ failed \subseteq Epochs

\* SwapDeps: the onRetired hook of an epoch is taken exactly once, when the
\* epoch leaves the map, and never for the epoch that is current: the old
\* generation is closed once and the serving one is not closed.  The current
\* epoch is in the map, so beginEpoch never reports it missing.
HookExactlyOnce ==
    /\ epochSeq \in live
    /\ \A e \in Epochs :
          due[e] + ran[e] = (IF e <= epochSeq /\ e \notin live THEN 1 ELSE 0)

\* endEpoch can release too much (see RetiredEpochStaysAlive) but never too
\* little: an epoch is never counted as used by more turns than use it.  A
\* surplus reference would leak the generation for ever.
NoReferenceLeaks ==
    \A e \in live : refs[e] <= Cardinality(Holders(e))

\* On an epoch where no startTurnLocked call has failed the count is exact, so
\* the epoch is alive for every Start and turn that captured it.
ExactUnlessStartFailed ==
    \A e \in Epochs \ failed :
        /\ refs[e] = Cardinality(Holders(e))
        /\ Holders(e) # {} => e \in live

\* What epoch.go says of every epoch: "A retired epoch stays alive until its
\* refs drop to zero", with refs "the references held by in-flight turns".
\* The second release of a failed Start takes another turn's reference.
RetiredEpochStaysAlive ==
    \A t \in Attempts : phase[t] \in {"running", "finishing"} => epoch[t] \in live

\* "is invoked exactly once when the retired epoch's references reach zero":
\* every retired epoch is eventually handed to its hook, however many Starts
\* fail or turns are replaced meanwhile.
RetiredEpochIsClosed ==
    \A e \in Epochs : e \in retired ~> ran[e] = 1
=============================================================================
