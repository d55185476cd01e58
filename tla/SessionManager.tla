--------------------------- MODULE SessionManager ---------------------------
(***************************************************************************)
(* The session manager (core/runtime/session/manager.go) and the part of a *)
(* Session it depends on (session.go: Start up to the installed turn, the  *)
(* end of a turn, activity accounting, close).                             *)
(*                                                                         *)
(* Session objects are distinct from keys: once the manager has dropped an *)
(* entry the same key can be opened again while the old object, and a turn *)
(* it did not manage to stop, are still around.  An object is reused once  *)
(* nothing refers to it.                                                   *)
(*                                                                         *)
(* Every critical section of Manager.mu or Session.mu that changes state   *)
(* is one step.  What the code does between two of them (an idle poll and  *)
(* the lock taken after it, the activity notification sent after           *)
(* Session.mu is released, the budgeted wait of Session.close) is a phase  *)
(* of the caller.                                                          *)
(*                                                                         *)
(* idleGeneration only ever serves to tell whether a timer callback is the *)
(* latest one, so a callback that has fired is "fresh" or "stale", and     *)
(* what increments the generation turns "fresh" into "stale".              *)
(***************************************************************************)
EXTENDS Naturals, FiniteSets

CONSTANTS
    Keys,          \* (agent id, context id) pairs
    Agents,        \* agent ids
    AgentOf,       \* the agent of a key
    Sessions,      \* Session objects alive at the same time (bound)
    None,
    MaxSessions,   \* Manager.maxSessions; fixed here, although UpdateTunables may change it:
                   \* a lower limit removes no session, it only refuses further opens
    Environments   \* bound: what the callers do, [keys they use, objects: Session
                   \* objects alive, leases: open Lease values per Session, calls:
                   \* administrative calls they make]

ASSUME ManagerAssumption ==
    /\ AgentOf \in [Keys -> Agents]
    /\ None \notin Sessions \cup Keys
    /\ MaxSessions \in Nat \ {0}
    /\ Environments \subseteq
          [keys : SUBSET Keys, objects : Nat, leases : Nat \ {0},
           calls : SUBSET {"remove", "delete", "drain", "close"}]

VARIABLES
    env,        \* the environment the manager runs in
    \* Manager
    entries,    \* Manager.entries: the Session kept under a key
    armed,      \* Sessions whose entry has a pending idle timer
    fired,      \* timer callbacks that run reclaim: "fresh", "stale"
    draining, closed, removed, deleting,
    \* Session
    keyOf,      \* Session.key, None for an unused object
    leases,     \* open Lease values
    closing,    \* Sessions with Session.closing
    turns,      \* Session.activeTurns
    start,      \* phase of the Start that holds startMu
    turn,       \* phase of Session.active
    leaving,    \* Sessions whose last turn still holds its activity slot
    closer,     \* phase of Session.close
    notices,    \* activityChanged calls not yet made, by caller
    \* operations under way
    remover,    \* phase of RemoveAgent, per agent
    deleter,    \* phase of DeleteSession, per key
    target,     \* the Session DeleteSession is closing
    drained,    \* waitIdle has returned nil to Drain
    \* the checkpoint store, and what has been promised about it
    store,      \* keys the store has state for
    purged,     \* history: keys deleted and not opened since
    orphaned,   \* history: keys whose entry went under a turn or a Start
    reopened    \* history: agents ReopenAgent has been called for

managerVars == <<entries, armed, fired, draining, closed, removed, deleting>>
sessionVars == <<keyOf, leases, closing, turns, start, turn, leaving,
                 closer, notices>>
callVars == <<remover, deleter, target, drained>>
historyVars == <<purged, orphaned, reopened>>
vars == <<env, managerVars, sessionVars, callVars, store, historyVars>>

StartPhases == {"none", "captured", "reserved", "checked", "waiting", "ready",
                "parked", "cleared"}
TurnPhases == {"none", "running", "stopping", "saved"}
CloserPhases == {"none", "begin", "marked", "waiting", "closed"}
RemoverPhases == {"none", "draining", "busySeen", "idleSeen"}
DeleterPhases == {"none", "refused", "draining", "busySeen", "idleSeen",
                  "closing", "dropping", "purging", "unmarking"}

Init ==
    /\ env \in Environments
    /\ entries = [k \in Keys |-> None]
    /\ armed = {}
    /\ fired = [s \in Sessions |-> {}]
    /\ draining = FALSE
    /\ closed = FALSE
    /\ removed = {}
    /\ deleting = {}
    /\ keyOf = [s \in Sessions |-> None]
    /\ leases = [s \in Sessions |-> 0]
    /\ closing = {}
    /\ turns = [s \in Sessions |-> 0]
    /\ start = [s \in Sessions |-> "none"]
    /\ turn = [s \in Sessions |-> "none"]
    /\ leaving = {}
    /\ closer = [s \in Sessions |-> "none"]
    /\ notices = [s \in Sessions |-> {}]
    /\ remover = [a \in Agents |-> "none"]
    /\ deleter = [k \in Keys |-> "none"]
    /\ target = [k \in Keys |-> None]
    /\ drained = FALSE
    /\ store = {}
    /\ purged = {}
    /\ orphaned = {}
    /\ reopened = {}

-----------------------------------------------------------------------------
(* Helpers. *)

Live == {s \in Sessions : \E k \in Keys : entries[k] = s}
InMemory == {s \in Sessions : keyOf[s] # None}
LiveOf(a) == {s \in Live : AgentOf[keyOf[s]] = a}
Active(s) == turn[s] # "none"                        \* hasActiveTurn

\* A turn or a Start that can still save the session's state.
MayWrite(s) == Active(s) \/ start[s] # "none"

\* idleLocked.  Prompts and sinks are given back before the turn's own slot,
\* but for the goroutine that completes the detach of an overflowing sink: it
\* only delays the last decrement, as leaving does.
Idle(s) == s \notin closing /\ turns[s] = 0

\* keyIdle, agentIdle, allIdleLocked.
Stopped(s) == Idle(s) \/ (s \in closing /\ ~Active(s))
KeyIdle(k) == entries[k] # None => Stopped(entries[k])
AgentIdle(a) == \A s \in LiveOf(a) : Idle(s)
AllIdle == \A s \in Live : Stopped(s)

\* idleGeneration++ and timer.Stop() for the sessions S.
Invalidate(S) ==
    /\ armed' = armed \ S
    /\ fired' = [s \in Sessions |->
                    IF s \in S /\ fired[s] # {} THEN {"stale"} ELSE fired[s]]

\* The same, followed by scheduleIdleTimerLocked when cond holds.
InvalidateAndArm(s, cond) ==
    /\ armed' = IF cond THEN armed \cup {s} ELSE armed \ {s}
    /\ fired' = [fired EXCEPT ![s] = IF @ # {} THEN {"stale"} ELSE {}]

\* changeActivity(activityTurn, d): the notification is owed by who.
ChangeTurns(s, n, who) ==
    /\ turns' = [turns EXCEPT ![s] = n]
    /\ notices' = [notices EXCEPT ![s] =
          IF s \notin closing /\ (turns[s] = 0) # (n = 0) THEN @ \cup {who} ELSE @]

-----------------------------------------------------------------------------
(* Open and Lease.Close. *)

\* An existing, open entry: one more lease; its timer no longer counts.
OpenExisting(k) ==
    LET s == entries[k] IN
    /\ ~closed /\ ~draining /\ k \notin deleting /\ AgentOf[k] \notin removed
    /\ s # None
    /\ s \notin closing
    /\ leases[s] < env.leases
    /\ leases' = [leases EXCEPT ![s] = @ + 1]
    /\ Invalidate({s})
    /\ purged' = purged \ {k}
    /\ UNCHANGED <<entries, draining, closed, removed, deleting, keyOf, closing,
                   turns, start, turn, closer, leaving, notices, callVars, store,
                   orphaned, reopened>>

\* Mutant: max_sessions is compared with the wrong bound.
OpenNewIgnoresLimit(k, s) ==
    /\ ~closed /\ ~draining /\ k \notin deleting /\ AgentOf[k] \notin removed
    /\ entries[k] = None
    /\ keyOf[s] = None /\ k \in env.keys /\ Cardinality(InMemory) < env.objects
    /\ entries' = [entries EXCEPT ![k] = s]
    /\ keyOf' = [keyOf EXCEPT ![s] = k]
    /\ leases' = [leases EXCEPT ![s] = 1]
    /\ purged' = purged \ {k}
    /\ UNCHANGED <<armed, fired, draining, closed, removed, deleting, closing,
                   turns, start, turn, closer, leaving, notices, callVars, store,
                   orphaned, reopened>>

\* No entry: a new Session unless the limit is reached.
OpenNew(k, s) ==
    /\ ~closed /\ ~draining /\ k \notin deleting /\ AgentOf[k] \notin removed
    /\ entries[k] = None
    /\ Cardinality(Live) < MaxSessions
    /\ keyOf[s] = None /\ k \in env.keys /\ Cardinality(InMemory) < env.objects
    /\ entries' = [entries EXCEPT ![k] = s]
    /\ keyOf' = [keyOf EXCEPT ![s] = k]
    /\ leases' = [leases EXCEPT ![s] = 1]
    /\ purged' = purged \ {k}
    /\ UNCHANGED <<armed, fired, draining, closed, removed, deleting, closing,
                   turns, start, turn, closer, leaving, notices, callVars, store,
                   orphaned, reopened>>

\* The lease a Start in progress was called through: callers close a Lease
\* after Start has returned.
InUse(s) == IF start[s] = "none" THEN 0 ELSE 1

\* Mutant: the last release of an idle session does not arm its timer.
ReleaseForgetsTimer(s) ==
    /\ leases[s] > InUse(s)
    /\ leases' = [leases EXCEPT ![s] = @ - 1]
    /\ UNCHANGED <<managerVars, keyOf, closing, turns, start, turn, closer,
                   leaving, notices, callVars, store, historyVars>>

\* Lease.Close: once the last lease of an idle Session is gone its timer runs.
Release(s) ==
    /\ leases[s] > InUse(s)
    /\ leases' = [leases EXCEPT ![s] = @ - 1]
    /\ IF s \in Live /\ leases[s] = 1 /\ Idle(s) /\ AgentOf[keyOf[s]] \notin removed
       THEN InvalidateAndArm(s, TRUE)
       ELSE UNCHANGED <<armed, fired>>
    /\ UNCHANGED <<entries, draining, closed, removed, deleting, keyOf, closing,
                   turns, start, turn, closer, leaving, notices, callVars, store, historyVars>>

-----------------------------------------------------------------------------
(* Idle reclamation. *)

\* activityChanged, called after Session.mu is released.
ActivityChanged(s, who) ==
    /\ who \in notices[s]
    /\ notices' = [notices EXCEPT ![s] = @ \ {who}]
    /\ IF ~closed /\ s \in Live
       THEN InvalidateAndArm(s, /\ AgentOf[keyOf[s]] \notin removed
                                /\ leases[s] = 0
                                /\ Idle(s))
       ELSE UNCHANGED <<armed, fired>>
    /\ UNCHANGED <<entries, draining, closed, removed, deleting, keyOf, leases,
                   closing, turns, start, turn, closer, callVars, store, historyVars, leaving>>

\* The timer expires; Stop comes too late for the callback it starts.
TimerFires(s) ==
    /\ s \in armed
    /\ armed' = armed \ {s}
    /\ fired' = [fired EXCEPT ![s] = @ \cup {"fresh"}]
    /\ UNCHANGED <<entries, draining, closed, removed, deleting, sessionVars,
                   callVars, store, historyVars>>

\* Mutant: the callback does not compare its generation with the entry's.
ReclaimIgnoresGeneration(s, c) ==
    /\ c \in fired[s]
    /\ fired' = [fired EXCEPT ![s] = @ \ {c}]
    /\ IF ~closed /\ s \in Live /\ AgentOf[keyOf[s]] \notin removed
       THEN /\ entries' = [entries EXCEPT ![keyOf[s]] = None]
            /\ armed' = armed \ {s}
            /\ closer' = [closer EXCEPT ![s] = IF @ = "none" THEN "begin" ELSE @]
       ELSE UNCHANGED <<entries, armed, closer>>
    /\ UNCHANGED <<draining, closed, removed, deleting, keyOf, leases, closing,
                   turns, start, turn, leaving, notices, callVars, store, historyVars>>

\* reclaim: the entry is dropped first, the Session is closed after.
Reclaim(s, c) ==
    /\ c \in fired[s]
    /\ fired' = [fired EXCEPT ![s] = @ \ {c}]
    /\ IF /\ ~closed /\ s \in Live /\ c = "fresh"
          /\ leases[s] = 0 /\ Idle(s) /\ AgentOf[keyOf[s]] \notin removed
       THEN /\ entries' = [entries EXCEPT ![keyOf[s]] = None]
            /\ armed' = armed \ {s}
            /\ closer' = [closer EXCEPT ![s] = "begin"]
       ELSE UNCHANGED <<entries, armed, closer>>
    /\ UNCHANGED <<draining, closed, removed, deleting, keyOf, leases, closing,
                   turns, start, turn, leaving, notices, callVars, store, historyVars>>

-----------------------------------------------------------------------------
(* Session.start under startMu, called through an open Lease. *)

\* startMu is held by a Start or by close's second half.
StartMuFree(s) == start[s] = "none" /\ closer[s] # "waiting"

\* beginEpoch: the first draining check.
BeginStart(s) ==
    /\ leases[s] > 0
    /\ StartMuFree(s)
    /\ ~draining
    /\ start' = [start EXCEPT ![s] = "captured"]
    /\ UNCHANGED <<managerVars, keyOf, leases, closing, turns, turn, closer,
                   leaving, notices, callVars, store, historyVars>>

\* interruptActive reserves an activity slot before anything else.
ReserveActivity(s) ==
    /\ start[s] = "captured"
    /\ start' = [start EXCEPT ![s] = "reserved"]
    /\ ChangeTurns(s, turns[s] + 1, "start")
    /\ UNCHANGED <<managerVars, keyOf, leases, closing, turn, closer, callVars,
                   store, historyVars, leaving>>

\* Mutant: draining is not checked again once the slot is reserved.
CheckDrainingForgotten(s) ==
    /\ start[s] = "reserved" /\ "start" \notin notices[s]
    /\ start' = [start EXCEPT ![s] = "checked"]
    /\ UNCHANGED <<managerVars, keyOf, leases, closing, turns, turn, leaving,
                   closer, notices, callVars, store, historyVars>>

\* isDraining, for the second time.
CheckDraining(s) ==
    /\ start[s] = "reserved" /\ "start" \notin notices[s]
    /\ ~draining
    /\ start' = [start EXCEPT ![s] = "checked"]
    /\ UNCHANGED <<managerVars, keyOf, leases, closing, turns, turn, leaving,
                   closer, notices, callVars, store, historyVars>>

Interrupted(s) == [turn EXCEPT ![s] = IF @ = "running" THEN "stopping" ELSE @]

\* The active turn, if there is one, is interrupted and waited for.
InterruptActive(s) ==
    /\ start[s] = "checked"
    /\ s \notin closing
    /\ start' = [start EXCEPT ![s] = IF Active(s) THEN "waiting" ELSE "ready"]
    /\ turn' = Interrupted(s)
    /\ UNCHANGED <<managerVars, keyOf, leases, closing, turns, leaving, closer,
                   notices, callVars, store, historyVars>>

\* old.Wait returns: done is closed after turnFinished has returned.
WaitPrevious(s) ==
    /\ start[s] = "waiting"
    /\ ~Active(s) /\ s \notin leaving /\ "turn" \notin notices[s]
    /\ start' = [start EXCEPT ![s] = "ready"]
    /\ UNCHANGED <<managerVars, keyOf, leases, closing, turns, turn, leaving,
                   closer, notices, callVars, store, historyVars>>

\* Mutant: the turn is installed without looking at closing.
InstallTurnIgnoresClosing(s) ==
    /\ start[s] \in {"ready", "parked"}
    /\ start' = [start EXCEPT ![s] = "none"]
    /\ turn' = [turn EXCEPT ![s] = "running"]
    /\ UNCHANGED <<managerVars, keyOf, leases, closing, turns, leaving, closer,
                   notices, callVars, store, historyVars>>

\* startTurnLocked, last critical section.
InstallTurn(s) ==
    /\ start[s] \in {"ready", "parked"}
    /\ s \notin closing
    /\ start' = [start EXCEPT ![s] = "none"]
    /\ turn' = [turn EXCEPT ![s] = "running"]
    /\ UNCHANGED <<managerVars, keyOf, leases, closing, turns, leaving, closer,
                   notices, callVars, store, historyVars>>

\* resume: the store has state for the key and names a parked run.
LoadParkedRun(s) ==
    /\ start[s] = "ready"
    /\ keyOf[s] \in store
    /\ start' = [start EXCEPT ![s] = "parked"]
    /\ UNCHANGED <<managerVars, keyOf, leases, closing, turns, turn, leaving,
                   closer, notices, callVars, store, historyVars>>

\* The parked run's checkpoint is gone: the state is saved without its marker,
\* and the Start fails.
ClearParkedRun(s) ==
    /\ start[s] = "parked"
    /\ start' = [start EXCEPT ![s] = "cleared"]
    /\ store' = store \cup {keyOf[s]}
    /\ UNCHANGED <<managerVars, keyOf, leases, closing, turns, turn, leaving,
                   closer, notices, callVars, historyVars>>

\* Any error: the slot is given back.  It is the only outcome once the manager
\* drains (before the interrupt) or the session is closing.
FailStart(s) ==
    /\ start[s] \in StartPhases \ {"none", "captured"} /\ "start" \notin notices[s]
    /\ start' = [start EXCEPT ![s] = "none"]
    /\ ChangeTurns(s, turns[s] - 1, "start")
    /\ UNCHANGED <<managerVars, keyOf, leases, closing, turn, leaving, closer,
                   callVars, store, historyVars>>

-----------------------------------------------------------------------------
(* The end of a turn. *)

\* finish: afterTurn.  The save is best effort and skipped by ephemeral
\* sessions, so the store may be left as it is.
AfterTurn(s) ==
    /\ turn[s] \in {"running", "stopping"}
    /\ turn' = [turn EXCEPT ![s] = "saved"]
    /\ store' \in {store, store \cup {keyOf[s]}}
    /\ UNCHANGED <<managerVars, keyOf, leases, closing, turns, start, leaving,
                   closer, notices, callVars, historyVars>>

\* turnFinished, first half: s.active is cleared.  At most one turn per Session
\* is between the two halves (bound).
TurnFinished(s) ==
    /\ turn[s] = "saved" /\ s \notin leaving
    /\ turn' = [turn EXCEPT ![s] = "none"]
    /\ leaving' = leaving \cup {s}
    /\ UNCHANGED <<managerVars, keyOf, leases, closing, turns, start, closer,
                   notices, callVars, store, historyVars>>

\* Mutant: the activity slot of a finished turn is not given back.
ReleaseActivityForgotten(s) ==
    /\ s \in leaving /\ "turn" \notin notices[s]
    /\ leaving' = leaving \ {s}
    /\ UNCHANGED <<managerVars, keyOf, leases, closing, turns, notices, turn,
                   start, closer, callVars, store, historyVars>>

\* turnFinished, second half: the activity slot is given back.
ReleaseActivity(s) ==
    /\ s \in leaving /\ "turn" \notin notices[s]
    /\ leaving' = leaving \ {s}
    /\ ChangeTurns(s, turns[s] - 1, "turn")
    /\ UNCHANGED <<managerVars, keyOf, leases, closing, turn, start, closer,
                   callVars, store, historyVars>>

-----------------------------------------------------------------------------
(* Session.close (closeOnce). *)

\* beginClose and the first shutdown of the active turn.
CloseBegins(s) ==
    /\ closer[s] = "begin"
    /\ closing' = closing \cup {s}
    /\ turn' = Interrupted(s)
    /\ closer' = [closer EXCEPT ![s] = "marked"]
    /\ UNCHANGED <<managerVars, keyOf, leases, turns, start, leaving, notices, callVars,
                   store, historyVars>>

\* startMu is taken: no Start is under way, and the turn one of them may have
\* installed meanwhile is shut down too.
CloseTakesStartMu(s) ==
    /\ closer[s] = "marked"
    /\ start[s] = "none"
    /\ turn' = Interrupted(s)
    /\ closer' = [closer EXCEPT ![s] = "waiting"]
    /\ UNCHANGED <<managerVars, keyOf, leases, closing, turns, start, leaving, notices,
                   callVars, store, historyVars>>

\* The turn is done, or the budget (sessionCloseTurnTimeout) is used up.
CloseEnds(s) ==
    /\ closer[s] = "waiting"
    /\ closer' = [closer EXCEPT ![s] = "closed"]
    /\ UNCHANGED <<managerVars, keyOf, leases, closing, turns, start, turn,
                   leaving, notices, callVars, store, historyVars>>

\* Nothing refers to the object any more.
Forget(s) ==
    /\ keyOf[s] # None
    /\ s \notin Live /\ closer[s] = "closed" /\ ~Active(s) /\ s \notin leaving
    /\ start[s] = "none"
    /\ leases[s] = 0 /\ fired[s] = {} /\ notices[s] = {}
    /\ \A k \in Keys : target[k] # s
    /\ keyOf' = [keyOf EXCEPT ![s] = None]
    /\ closing' = closing \ {s}
    /\ turns' = [turns EXCEPT ![s] = 0]
    /\ closer' = [closer EXCEPT ![s] = "none"]
    /\ UNCHANGED <<managerVars, leases, start, turn, leaving, notices, callVars, store,
                   historyVars>>

-----------------------------------------------------------------------------
(* RemoveAgent and ReopenAgent. *)

\* The tombstone; idle timers of the agent's sessions are stopped.
RemoveBegins(a) ==
    /\ "remove" \in env.calls
    /\ ~closed
    /\ remover[a] = "none"
    /\ remover' = [remover EXCEPT ![a] = "draining"]
    /\ removed' = removed \cup {a}
    /\ Invalidate(LiveOf(a))
    /\ UNCHANGED <<entries, draining, closed, deleting, sessionVars, deleter,
                   target, drained, store, historyVars>>

\* One poll of awaitAgentIdle; m.mu is released afterwards.
RemovePolls(a) ==
    /\ remover[a] \in {"draining", "busySeen"}
    /\ remover' = [remover EXCEPT ![a] =
                      IF AgentIdle(a) THEN "idleSeen" ELSE "busySeen"]
    /\ UNCHANGED <<managerVars, sessionVars, deleter, target, drained, store,
                   historyVars>>

\* The context ends between two polls: the tombstone stays.
RemoveExpires(a) ==
    /\ remover[a] = "busySeen"
    /\ remover' = [remover EXCEPT ![a] = "none"]
    /\ UNCHANGED <<managerVars, sessionVars, deleter, target, drained, store,
                   historyVars>>

\* The sessions are marked closing and their entries dropped; the calls of
\* Session.close that follow are phases of the sessions.
RemoveDropsEntries(a) ==
    /\ remover[a] = "idleSeen"
    /\ remover' = [remover EXCEPT ![a] = "none"]
    /\ entries' = [k \in Keys |-> IF AgentOf[k] = a THEN None ELSE entries[k]]
    /\ closing' = closing \cup LiveOf(a)
    /\ closer' = [s \in Sessions |->
          IF s \in LiveOf(a) \ closing THEN "begin" ELSE closer[s]]
    /\ armed' = armed \ LiveOf(a)
    /\ orphaned' = orphaned \cup {keyOf[s] : s \in {t \in LiveOf(a) : MayWrite(t)}}
    /\ UNCHANGED <<fired, draining, closed, removed, deleting, keyOf, leases,
                   turns, start, turn, leaving, notices, deleter, target, drained, store,
                   purged, reopened>>

\* ReopenAgent: re-registration, or the abort of a reload that tried to drain.
ReopenAgent(a) ==
    /\ a \in removed
    /\ remover[a] = "none"
    /\ removed' = removed \ {a}
    /\ reopened' = reopened \cup {a}
    /\ UNCHANGED <<entries, armed, fired, draining, closed, deleting, sessionVars,
                   callVars, store, purged, orphaned>>

-----------------------------------------------------------------------------
(* DeleteSession. *)

\* The marker; a session that is closing with a turn is refused.
DeleteBegins(k) ==
    LET s == entries[k] IN
    /\ "delete" \in env.calls /\ k \in env.keys
    /\ ~closed
    /\ k \notin deleting
    /\ deleting' = deleting \cup {k}
    /\ IF s = None THEN UNCHANGED <<armed, fired>> ELSE Invalidate({s})
    /\ deleter' = [deleter EXCEPT ![k] =
          IF s # None /\ s \in closing /\ Active(s) THEN "refused" ELSE "draining"]
    /\ UNCHANGED <<entries, draining, closed, removed, sessionVars, remover,
                   target, drained, store, historyVars>>

\* Roll back the marker and return a retryable error.
DeleteRefused(k) ==
    /\ deleter[k] = "refused"
    /\ deleter' = [deleter EXCEPT ![k] = "none"]
    /\ deleting' = deleting \ {k}
    /\ UNCHANGED <<entries, armed, fired, draining, closed, removed, sessionVars,
                   remover, target, drained, store, historyVars>>

\* One poll of awaitKeyIdle; m.mu is released afterwards.
DeletePolls(k) ==
    /\ deleter[k] \in {"draining", "busySeen"}
    /\ deleter' = [deleter EXCEPT ![k] =
                      IF KeyIdle(k) THEN "idleSeen" ELSE "busySeen"]
    /\ UNCHANGED <<managerVars, sessionVars, remover, target, drained, store,
                   historyVars>>

\* awaitKeyIdle expires: roll back and re-arm the idle timer if idle.
DeleteExpires(k) ==
    LET s == entries[k] IN
    /\ deleter[k] = "busySeen"
    /\ deleter' = [deleter EXCEPT ![k] = "none"]
    /\ deleting' = deleting \ {k}
    /\ IF s # None /\ ~closed /\ AgentOf[k] \notin removed /\ leases[s] = 0 /\ Idle(s)
       THEN InvalidateAndArm(s, TRUE)
       ELSE UNCHANGED <<armed, fired>>
    /\ UNCHANGED <<entries, draining, closed, removed, sessionVars, remover,
                   target, drained, store, historyVars>>

\* markClosing: the first to mark closes the session, the entry stays.
DeleteMarks(k) ==
    LET s == entries[k]
        mine == s # None /\ s \notin closing
    IN  /\ deleter[k] = "idleSeen"
        /\ deleter' = [deleter EXCEPT ![k] = IF mine THEN "closing" ELSE "dropping"]
        /\ target' = [target EXCEPT ![k] = IF mine THEN s ELSE None]
        /\ closing' = IF mine THEN closing \cup {s} ELSE closing
        /\ closer' = IF mine THEN [closer EXCEPT ![s] = "begin"] ELSE closer
        /\ UNCHANGED <<managerVars, keyOf, leases, turns, start, turn, leaving, notices,
                       remover, drained, store, historyVars>>

\* Mutant: close is trusted to have stopped the turn.
DeleteClosedTrustsClose(k) ==
    /\ deleter[k] = "closing"
    /\ closer[target[k]] = "closed"
    /\ target' = [target EXCEPT ![k] = None]
    /\ deleter' = [deleter EXCEPT ![k] = "dropping"]
    /\ UNCHANGED <<managerVars, sessionVars, remover, drained, store, historyVars>>

\* close has returned; a turn that outlived its budget stops the deletion.
DeleteClosed(k) ==
    /\ deleter[k] = "closing"
    /\ closer[target[k]] = "closed"
    /\ target' = [target EXCEPT ![k] = None]
    /\ IF Active(target[k])
       THEN /\ deleter' = [deleter EXCEPT ![k] = "none"]
            /\ deleting' = deleting \ {k}
       ELSE /\ deleter' = [deleter EXCEPT ![k] = "dropping"]
            /\ UNCHANGED deleting
    /\ UNCHANGED <<entries, armed, fired, draining, closed, removed, sessionVars,
                   remover, drained, store, historyVars>>

DeleteDropsEntry(k) ==
    /\ deleter[k] = "dropping"
    /\ deleter' = [deleter EXCEPT ![k] = "purging"]
    /\ entries' = [entries EXCEPT ![k] = None]
    /\ armed' = armed \ {entries[k]}
    /\ UNCHANGED <<fired, draining, closed, removed, deleting, sessionVars,
                   remover, target, drained, store, historyVars>>

\* deletePersistedState succeeds.
DeletePurges(k) ==
    /\ deleter[k] = "purging"
    /\ deleter' = [deleter EXCEPT ![k] = "unmarking"]
    /\ store' = store \ {k}
    /\ UNCHANGED <<managerVars, sessionVars, remover, target, drained, historyVars>>

\* deletePersistedState fails: the marker goes, the caller gets the error.
DeletePurgeFails(k) ==
    /\ deleter[k] = "purging"
    /\ deleter' = [deleter EXCEPT ![k] = "none"]
    /\ deleting' = deleting \ {k}
    /\ UNCHANGED <<entries, armed, fired, draining, closed, removed, sessionVars,
                   remover, target, drained, store, historyVars>>

\* Opens are admitted again and DeleteSession returns nil.
DeleteReturns(k) ==
    /\ deleter[k] = "unmarking"
    /\ deleter' = [deleter EXCEPT ![k] = "none"]
    /\ deleting' = deleting \ {k}
    /\ purged' = purged \cup {k}
    /\ UNCHANGED <<entries, armed, fired, draining, closed, removed, sessionVars,
                   remover, target, drained, store, orphaned, reopened>>

-----------------------------------------------------------------------------
(* Drain and Close. *)

Drain ==
    /\ "drain" \in env.calls
    /\ ~closed
    /\ ~draining
    /\ draining' = TRUE
    /\ UNCHANGED <<entries, armed, fired, closed, removed, deleting, sessionVars,
                   callVars, store, historyVars>>

\* waitIdle's poll succeeds and Drain returns nil.
DrainReturns ==
    /\ draining /\ ~drained
    /\ AllIdle
    /\ drained' = TRUE
    /\ UNCHANGED <<managerVars, sessionVars, remover, deleter, target, store,
                   historyVars>>

\* Manager.Close (closeOnce).
CloseManager ==
    /\ "close" \in env.calls
    /\ ~closed
    /\ closed' = TRUE
    /\ entries' = [k \in Keys |-> None]
    /\ closing' = closing \cup Live
    /\ closer' = [s \in Sessions |->
          IF s \in Live /\ closer[s] = "none" THEN "begin" ELSE closer[s]]
    /\ Invalidate(Live)
    /\ orphaned' = orphaned \cup {keyOf[s] : s \in {t \in Live : MayWrite(t)}}
    /\ UNCHANGED <<draining, removed, deleting, keyOf, leases, turns, start, turn,
                   leaving, notices, callVars, store, purged, reopened>>

-----------------------------------------------------------------------------

SessionStep(s) ==
    \/ BeginStart(s) \/ ReserveActivity(s) \/ CheckDraining(s)
    \/ InterruptActive(s) \/ WaitPrevious(s) \/ LoadParkedRun(s)
    \/ ClearParkedRun(s) \/ InstallTurn(s) \/ FailStart(s)
    \/ AfterTurn(s) \/ TurnFinished(s) \/ ReleaseActivity(s)
    \/ CloseBegins(s) \/ CloseTakesStartMu(s) \/ CloseEnds(s)

TimerStep(s) ==
    \/ TimerFires(s)
    \/ \E c \in {"fresh", "stale"} : Reclaim(s, c)
    \/ \E who \in {"start", "turn"} : ActivityChanged(s, who)

RemoveStep(a) ==
    \/ RemoveBegins(a) \/ RemovePolls(a) \/ RemoveExpires(a)
    \/ RemoveDropsEntries(a) \/ ReopenAgent(a)

DeleteStep(k) ==
    \/ DeleteBegins(k) \/ DeleteRefused(k) \/ DeletePolls(k)
    \/ DeleteExpires(k) \/ DeleteMarks(k) \/ DeleteClosed(k)
    \/ DeleteDropsEntry(k) \/ DeletePurges(k) \/ DeletePurgeFails(k)
    \/ DeleteReturns(k)

Next ==
    /\ UNCHANGED env
    /\ \/ \E k \in Keys : OpenExisting(k) \/ \E s \in Sessions : OpenNew(k, s)
       \/ \E s \in Sessions : Release(s) \/ SessionStep(s) \/ TimerStep(s) \/ Forget(s)
       \/ \E a \in Agents : RemoveStep(a)
       \/ \E k \in Keys : DeleteStep(k)
       \/ Drain \/ DrainReturns \/ CloseManager

Spec == Init /\ [][Next]_vars

-----------------------------------------------------------------------------

\* The types of the manager's tables and of the callers' phases; at most
\* maxSessions entries are kept.
TypeOK ==
    /\ env \in Environments
    /\ entries \in [Keys -> Sessions \cup {None}]
    /\ Cardinality(Live) <= MaxSessions
    /\ armed \subseteq Sessions
    /\ fired \in [Sessions -> SUBSET {"fresh", "stale"}]
    /\ {draining, closed, drained} \subseteq BOOLEAN
    /\ removed \subseteq Agents
    /\ deleting \subseteq Keys
    /\ keyOf \in [Sessions -> Keys \cup {None}]
    /\ leases \in [Sessions -> 0..env.leases]
    /\ closing \subseteq Sessions
    /\ turns \in [Sessions -> 0..3]
    /\ start \in [Sessions -> StartPhases]
    /\ turn \in [Sessions -> TurnPhases]
    /\ leaving \subseteq Sessions
    /\ closer \in [Sessions -> CloserPhases]
    /\ notices \in [Sessions -> SUBSET {"start", "turn"}]
    /\ remover \in [Agents -> RemoverPhases]
    /\ deleter \in [Keys -> DeleterPhases]
    /\ target \in [Keys -> Sessions \cup {None}]
    /\ store \subseteq Keys
    /\ purged \subseteq Keys
    /\ orphaned \subseteq Keys
    /\ reopened \subseteq Agents

\* A leased Session stays the one its key names until somebody decides to
\* close it: idle reclamation, with its timers stopped too late, never takes a
\* Session from under a Lease, and a key's open Sessions are never two.
LeasedSessionIsKept ==
    \A s \in Sessions :
        leases[s] > 0 /\ s \notin closing => entries[keyOf[s]] = s

\* From its first shutdown on, Session.close leaves no turn that has not been
\* told to stop, whatever a Start that was already under way does, before or
\* after startMu; and a turn whose entry is gone has a close that deals with it.
CloseReachesEveryTurn ==
    \A s \in Sessions :
        /\ closer[s] \in {"marked", "waiting", "closed"} => turn[s] # "running"
        /\ Active(s) /\ s \notin Live => closer[s] # "none"

\* "new session leases and new turns on already-open leases are refused": once
\* Drain has returned nil no live Session ever has an active turn again,
\* although a Start may have passed the first draining check long before.
DrainedStaysQuiet ==
    drained => \A s \in Live : ~Active(s)

\* The activity count is exact, so an idle Session is never thought busy (and
\* kept for ever) nor a busy one idle (and reclaimed).
ActivityIsExact ==
    \A s \in Sessions :
        turns[s] = (IF start[s] \in {"none", "captured"} THEN 0 ELSE 1)
                     + (IF Active(s) THEN 1 ELSE 0)
                     + (IF s \in leaving THEN 1 ELSE 0)

\* DeleteSession: "after it returns, the checkpoint store no longer carries
\* the session's committed board" until the key is opened again, on every key
\* whose entry was never dropped under a turn or a Start by RemoveAgent or Close.
DeletedUnlessOrphaned ==
    \A k \in purged \ orphaned : k \notin store

\* The same for every key, as manager.go states it: "a turn that started in
\* the drain window cannot resurrect state underneath the delete".
DeletedStaysDeleted ==
    \A k \in purged : k \notin store

\* A Session that nobody leases and nothing keeps busy is on its way out.
OnItsWayOut(s) ==
    \/ s \in armed
    \/ "fresh" \in fired[s]
    \/ notices[s] # {}
    \/ keyOf[s] \in deleting
    \/ AgentOf[keyOf[s]] \in removed
    \/ closed

\* "Manager shares Sessions by Key and reclaims unleased idle Sessions": an
\* unleased idle Session is never without a timer, a callback or a caller that
\* will see to it, unless its agent's removal was given up and reopened.
IdleSessionsReclaimed ==
    \A s \in Live :
        leases[s] = 0 /\ Idle(s) /\ AgentOf[keyOf[s]] \notin reopened => OnItsWayOut(s)
=============================================================================
