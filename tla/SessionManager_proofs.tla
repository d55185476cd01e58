------------------------ MODULE SessionManager_proofs -----------------------
(***************************************************************************)
(* TLAPS proofs about SessionManager, for every set of keys, agents and    *)
(* Session objects, every limit on sessions and every environment.         *)
(*                                                                         *)
(* None of the invariants is inductive alone.  What joins them is who may  *)
(* still touch a Session once its entry is gone: EntryInv and UnusedInv    *)
(* say which object a key names, StartInv and CloserInv how a Start and    *)
(* Session.close exclude each other through startMu and closing, DeleteInv *)
(* what a deletion under way knows of its entry, and GoneInv that nothing  *)
(* but an orphaned Session writes behind the manager's back.               *)
(***************************************************************************)
EXTENDS SessionManager, FiniteSetTheorems, TLAPS

\* A Start that has not yet looked at closing.
Early == {"none", "captured", "reserved", "checked"}

\* The entries: a key names a Session of that key, and finitely many are kept.
EntryInv ==
    /\ \A k \in Keys : entries[k] # None => keyOf[entries[k]] = k
    /\ IsFiniteSet(Live)
    /\ armed \subseteq Live

\* An unused Session object is in its initial state.
UnusedInv ==
    \A s \in Sessions : keyOf[s] = None =>
        /\ leases[s] = 0 /\ s \notin closing /\ closer[s] = "none"
        /\ start[s] = "none" /\ turn[s] = "none" /\ s \notin leaving
        /\ notices[s] = {} /\ fired[s] = {}

\* A Start holds a Lease, and installs its turn where there is none.
StartInv ==
    \A s \in Sessions :
        /\ start[s] # "none" => leases[s] > 0
        /\ start[s] \in {"ready", "parked", "cleared"} => ~Active(s)

\* Session.close: closing is set by whoever makes the session be closed, and
\* once startMu has been taken no Start gets past closing.
CloserInv ==
    \A s \in Sessions :
        /\ s \in closing => closer[s] # "none"
        /\ closer[s] \in {"marked", "waiting", "closed"} => s \in closing
        /\ s \in Live /\ closer[s] # "none" => s \in closing
        /\ closer[s] \in {"waiting", "closed"} => start[s] \in Early
        /\ keyOf[s] # None /\ s \notin Live => closer[s] # "none"

\* DeleteSession: what it knows of the entry and of the Session it closes.
TargetInv ==
    \A k \in Keys :
        /\ deleter[k] = "closing" =>
              /\ target[k] \in closing /\ keyOf[target[k]] = k
              /\ entries[k] \in {None, target[k]}
        /\ deleter[k] # "closing" => target[k] = None

DeleteInv ==
    \A k \in Keys :
        /\ deleter[k] # "none" => k \in deleting
        /\ deleter[k] \in {"refused", "dropping"} => entries[k] \in closing \cup {None}
        /\ deleter[k] = "idleSeen" /\ entries[k] \in closing => ~Active(entries[k])
        /\ deleter[k] = "dropping" /\ entries[k] # None =>
              closer[entries[k]] = "closed" /\ ~Active(entries[k])
        /\ deleter[k] \in {"purging", "unmarking"} => entries[k] = None
        /\ entries[k] \in closing /\ deleter[k] # "closing" => closer[entries[k]] = "closed"

\* A Session without an entry writes nothing, unless its key is orphaned.
GoneInv ==
    \A s \in Sessions :
        keyOf[s] # None /\ s \notin Live /\ keyOf[s] \notin orphaned =>
            ~Active(s) /\ start[s] \in Early

\* A deleted key has no entry and, unless it is orphaned, no stored state.
PurgeInv ==
    /\ \A k \in purged : entries[k] = None
    /\ \A k \in Keys : deleter[k] = "unmarking" /\ k \notin orphaned => k \notin store

\* After Drain no Start of a live Session gets past its second check.
DrainInv ==
    drained => /\ draining
               /\ \A s \in Live : /\ ~Active(s)
                                  /\ \/ s \in closing
                                     \/ start[s] \in {"none", "captured", "reserved"}

IndInv ==
    /\ TypeOK
    /\ EntryInv
    /\ UnusedInv
    /\ StartInv
    /\ CloserInv
    /\ TargetInv
    /\ DeleteInv
    /\ GoneInv
    /\ PurgeInv
    /\ DrainInv
    /\ ActivityIsExact
    /\ LeasedSessionIsKept
    /\ CloseReachesEveryTurn
    /\ DeletedUnlessOrphaned
    /\ IdleSessionsReclaimed

-----------------------------------------------------------------------------

\* Entries that only go away keep to the limit.
LEMMA FewerEntries ==
    ASSUME TypeOK, EntryInv, Live' \subseteq Live
    PROVE  IsFiniteSet(Live') /\ Cardinality(Live') <= MaxSessions
<1>1. /\ IsFiniteSet(Live') /\ Cardinality(Live') <= Cardinality(Live)
      /\ Cardinality(Live') \in Nat /\ Cardinality(Live) \in Nat
  BY FS_Subset, FS_CardinalityType DEF EntryInv
<1> QED
  BY <1>1, ManagerAssumption DEF TypeOK

\* The initial states satisfy the invariant.
LEMMA InitIndInv == Init => IndInv
<1> SUFFICES ASSUME Init PROVE IndInv
  OBVIOUS
<1>1. Live = {}
  BY ManagerAssumption DEF Init, Live
<1>2. TypeOK
  <2>1. Cardinality(Live) <= MaxSessions
    BY <1>1, ManagerAssumption, FS_EmptySet
  <2>2. env \in Environments /\ leases \in [Sessions -> 0..env.leases]
    BY ManagerAssumption DEF Init
  <2>3. {draining, closed, drained} \subseteq BOOLEAN
    BY DEF Init
  <2>4. /\ start \in [Sessions -> StartPhases] /\ turn \in [Sessions -> TurnPhases]
        /\ closer \in [Sessions -> CloserPhases] /\ remover \in [Agents -> RemoverPhases]
        /\ deleter \in [Keys -> DeleterPhases]
    BY DEF Init, StartPhases, TurnPhases, CloserPhases, RemoverPhases, DeleterPhases
  <2>5. turns \in [Sessions -> 0..3] /\ fired \in [Sessions -> SUBSET {"fresh", "stale"}]
    BY DEF Init
  <2> QED
    BY <2>1, <2>2, <2>3, <2>4, <2>5 DEF Init, TypeOK
<1>3. EntryInv
  BY <1>1, FS_EmptySet DEF Init, EntryInv
<1>4. UnusedInv /\ StartInv /\ CloserInv
  BY DEF Init, UnusedInv, StartInv, CloserInv
<1>5. TargetInv /\ DeleteInv /\ GoneInv /\ PurgeInv /\ DrainInv
  BY DEF Init, TargetInv, DeleteInv, GoneInv, PurgeInv, DrainInv
<1>6. ActivityIsExact /\ LeasedSessionIsKept /\ CloseReachesEveryTurn
  BY DEF Init, ActivityIsExact, LeasedSessionIsKept, CloseReachesEveryTurn, Active
<1>7. DeletedUnlessOrphaned /\ IdleSessionsReclaimed
  BY <1>1 DEF Init, DeletedUnlessOrphaned, IdleSessionsReclaimed
<1> QED
  BY <1>2, <1>3, <1>4, <1>5, <1>6, <1>7 DEF IndInv

\* Session.start, up to the installed turn or the failure.
LEMMA StartPreserves ==
    ASSUME IndInv, UNCHANGED env, NEW s \in Sessions,
           \/ BeginStart(s) \/ ReserveActivity(s) \/ CheckDraining(s)
           \/ InterruptActive(s) \/ WaitPrevious(s) \/ LoadParkedRun(s)
           \/ ClearParkedRun(s) \/ InstallTurn(s) \/ FailStart(s)
    PROVE  IndInv'
<1> USE ManagerAssumption
    DEF IndInv, TypeOK, EntryInv, UnusedInv, StartInv, CloserInv, TargetInv, DeleteInv,
        GoneInv, PurgeInv, DrainInv, ActivityIsExact, LeasedSessionIsKept,
        CloseReachesEveryTurn, DeletedUnlessOrphaned, IdleSessionsReclaimed,
        managerVars, sessionVars, callVars, historyVars,
        Live, Active, Early, Idle, OnItsWayOut, StartPhases, TurnPhases
<1>1. CASE BeginStart(s)
  BY <1>1 DEF BeginStart, StartMuFree
<1>2. CASE ReserveActivity(s)
  BY <1>2 DEF ReserveActivity, ChangeTurns
<1>3. CASE CheckDraining(s)
  BY <1>3 DEF CheckDraining
<1>4. CASE InterruptActive(s)
  BY <1>4 DEF InterruptActive, Interrupted
<1>5. CASE WaitPrevious(s)
  BY <1>5 DEF WaitPrevious
<1>6. CASE LoadParkedRun(s)
  BY <1>6 DEF LoadParkedRun
<1>7. CASE ClearParkedRun(s)
  BY <1>7 DEF ClearParkedRun
<1>8. CASE InstallTurn(s)
  BY <1>8 DEF InstallTurn
<1>9. CASE FailStart(s)
  BY <1>9 DEF FailStart, ChangeTurns
<1> QED
  BY <1>1, <1>2, <1>3, <1>4, <1>5, <1>6, <1>7, <1>8, <1>9

\* The end of a turn and Session.close.
LEMMA TurnEndPreserves ==
    ASSUME IndInv, UNCHANGED env, NEW s \in Sessions,
           \/ AfterTurn(s) \/ TurnFinished(s) \/ ReleaseActivity(s)
           \/ CloseBegins(s) \/ CloseTakesStartMu(s) \/ CloseEnds(s) \/ Forget(s)
    PROVE  IndInv'
<1> USE ManagerAssumption
    DEF IndInv, TypeOK, EntryInv, UnusedInv, StartInv, CloserInv, TargetInv, DeleteInv,
        GoneInv, PurgeInv, DrainInv, ActivityIsExact, LeasedSessionIsKept,
        CloseReachesEveryTurn, DeletedUnlessOrphaned, IdleSessionsReclaimed,
        managerVars, sessionVars, callVars, historyVars,
        Live, Active, Early, Idle, OnItsWayOut, StartPhases, TurnPhases, CloserPhases
<1>1. CASE AfterTurn(s)
  BY <1>1 DEF AfterTurn
<1>2. CASE TurnFinished(s)
  BY <1>2 DEF TurnFinished
<1>3. CASE ReleaseActivity(s)
  BY <1>3 DEF ReleaseActivity, ChangeTurns
<1>4. CASE CloseBegins(s)
  BY <1>4 DEF CloseBegins, Interrupted
<1>5. CASE CloseTakesStartMu(s)
  BY <1>5 DEF CloseTakesStartMu, Interrupted
<1>6. CASE CloseEnds(s)
  BY <1>6 DEF CloseEnds
<1>7. CASE Forget(s)
  BY <1>7 DEF Forget
<1> QED
  BY <1>1, <1>2, <1>3, <1>4, <1>5, <1>6, <1>7

\* DeleteSession, but for the step that drops the entry.
LEMMA DeletePreserves ==
    ASSUME IndInv, UNCHANGED env, NEW k \in Keys,
           DeleteStep(k), ~DeleteDropsEntry(k)
    PROVE  IndInv'
<1> USE ManagerAssumption
    DEF IndInv, TypeOK, EntryInv, UnusedInv, StartInv, CloserInv, TargetInv, DeleteInv,
        GoneInv, PurgeInv, DrainInv, ActivityIsExact, LeasedSessionIsKept,
        CloseReachesEveryTurn, DeletedUnlessOrphaned, IdleSessionsReclaimed,
        managerVars, sessionVars, callVars, historyVars,
        Live, Active, Early, Idle, OnItsWayOut, DeleterPhases, CloserPhases
<1>1. CASE DeleteBegins(k)
  BY <1>1 DEF DeleteBegins, Invalidate
<1>2. CASE DeleteRefused(k)
  BY <1>2 DEF DeleteRefused
<1>3. CASE DeletePolls(k)
  BY <1>3 DEF DeletePolls, KeyIdle, Stopped
<1>4. CASE DeleteExpires(k)
  BY <1>4, SMTT(20) DEF DeleteExpires, InvalidateAndArm
<1>5. CASE DeleteMarks(k)
  BY <1>5 DEF DeleteMarks
<1>6. CASE DeleteClosed(k)
  BY <1>6 DEF DeleteClosed
<1>7. CASE DeletePurges(k)
  BY <1>7 DEF DeletePurges
<1>8. CASE DeletePurgeFails(k)
  BY <1>8 DEF DeletePurgeFails
<1>9. CASE DeleteReturns(k)
  BY <1>9 DEF DeleteReturns
<1> QED
  BY <1>1, <1>2, <1>3, <1>4, <1>5, <1>6, <1>7, <1>8, <1>9 DEF DeleteStep

\* RemoveAgent, but for the step that drops entries, and ReopenAgent.
LEMMA RemovePreserves ==
    ASSUME IndInv, UNCHANGED env, NEW a \in Agents,
           RemoveStep(a), ~RemoveDropsEntries(a)
    PROVE  IndInv'
<1> USE ManagerAssumption
    DEF IndInv, TypeOK, EntryInv, UnusedInv, StartInv, CloserInv, TargetInv, DeleteInv,
        GoneInv, PurgeInv, DrainInv, ActivityIsExact, LeasedSessionIsKept,
        CloseReachesEveryTurn, DeletedUnlessOrphaned, IdleSessionsReclaimed,
        managerVars, sessionVars, callVars, historyVars,
        Live, Active, Early, Idle, OnItsWayOut, RemoverPhases
<1>1. CASE RemoveBegins(a)
  BY <1>1 DEF RemoveBegins, Invalidate, LiveOf
<1>2. CASE RemovePolls(a)
  BY <1>2 DEF RemovePolls
<1>3. CASE RemoveExpires(a)
  BY <1>3 DEF RemoveExpires
<1>4. CASE ReopenAgent(a)
  BY <1>4 DEF ReopenAgent
<1> QED
  BY <1>1, <1>2, <1>3, <1>4 DEF RemoveStep

\* Lease.Close and the timers leave the entries alone.
LEMMA ReleasePreserves ==
    ASSUME IndInv, UNCHANGED env, NEW s \in Sessions,
           \/ Release(s) \/ TimerFires(s)
           \/ \E who \in {"start", "turn"} : ActivityChanged(s, who)
    PROVE  IndInv'
<1> USE ManagerAssumption
    DEF IndInv, TypeOK, EntryInv, UnusedInv, StartInv, CloserInv, TargetInv, DeleteInv,
        GoneInv, PurgeInv, DrainInv, ActivityIsExact, LeasedSessionIsKept,
        CloseReachesEveryTurn, DeletedUnlessOrphaned, IdleSessionsReclaimed,
        managerVars, sessionVars, callVars, historyVars,
        Live, Active, Early, Idle, OnItsWayOut
<1>1. CASE Release(s)
  BY <1>1, SMTT(20) DEF Release, InUse, InvalidateAndArm
<1>2. CASE TimerFires(s)
  BY <1>2 DEF TimerFires
<1>3. CASE \E who \in {"start", "turn"} : ActivityChanged(s, who)
  BY <1>3 DEF InvalidateAndArm, ActivityChanged
<1> QED
  BY <1>1, <1>2, <1>3

\* Open of a key with an entry.
LEMMA OpenExistingPreserves ==
    ASSUME IndInv, UNCHANGED env, NEW k \in Keys, OpenExisting(k)
    PROVE  IndInv'
  BY ManagerAssumption
     DEF IndInv, TypeOK, EntryInv, UnusedInv, StartInv, CloserInv, TargetInv, DeleteInv,
         GoneInv, PurgeInv, DrainInv, ActivityIsExact, LeasedSessionIsKept,
         CloseReachesEveryTurn, DeletedUnlessOrphaned, IdleSessionsReclaimed, callVars,
         Live, Active, Early, Idle, OnItsWayOut, OpenExisting, Invalidate

\* Drain: what makes its poll final is the second check of a Start.
LEMMA DrainPreserves ==
    ASSUME IndInv, UNCHANGED env, Drain \/ DrainReturns
    PROVE  IndInv'
<1> USE ManagerAssumption
    DEF IndInv, TypeOK, EntryInv, UnusedInv, StartInv, CloserInv, TargetInv, DeleteInv,
        GoneInv, PurgeInv, DrainInv, ActivityIsExact, LeasedSessionIsKept,
        CloseReachesEveryTurn, DeletedUnlessOrphaned, IdleSessionsReclaimed,
        managerVars, sessionVars, callVars, historyVars,
        Live, Active, Early, Idle, OnItsWayOut
<1>1. CASE Drain
  BY <1>1 DEF Drain
<1>2. CASE DrainReturns
  <2>1. DrainInv'
    BY <1>2 DEF DrainReturns, AllIdle, Stopped
  <2> QED
    BY <1>2, <2>1 DEF DrainReturns
<1> QED
  BY <1>1, <1>2

\* Open of a key without an entry.
LEMMA OpenNewPreserves ==
    ASSUME IndInv, UNCHANGED env, NEW k \in Keys, NEW s \in Sessions, OpenNew(k, s)
    PROVE  IndInv'
<1>1. /\ entries[k] = None /\ entries' = [entries EXCEPT ![k] = s]
      /\ keyOf[s] = None /\ keyOf' = [keyOf EXCEPT ![s] = k]
      /\ leases' = [leases EXCEPT ![s] = 1]
      /\ k \notin deleting
  BY DEF OpenNew
<1>2. s \notin Live
  BY <1>1, ManagerAssumption DEF IndInv, EntryInv, Live
<1>3. Live' = Live \cup {s}
  BY <1>1, ManagerAssumption DEF IndInv, TypeOK, Live
<1>4. IsFiniteSet(Live') /\ Cardinality(Live') <= MaxSessions
  <2>1. IsFiniteSet(Live) /\ Cardinality(Live) \in Nat
    BY FS_CardinalityType DEF IndInv, EntryInv
  <2>2. IsFiniteSet(Live') /\ Cardinality(Live') = Cardinality(Live) + 1
    BY <1>2, <1>3, <2>1, FS_AddElement
  <2> QED
    BY <2>1, <2>2, ManagerAssumption DEF OpenNew
<1>5. TypeOK'
  BY <1>1, <1>4, ManagerAssumption DEF OpenNew, callVars, IndInv, TypeOK
<1>6. EntryInv'
  <2>1. armed' \subseteq Live'
    BY <1>3 DEF OpenNew, IndInv, EntryInv
  <2>2. ASSUME NEW l \in Keys, entries'[l] # None PROVE keyOf'[entries'[l]] = l
    <3>1. CASE l = k
      BY <1>1, <3>1 DEF IndInv, TypeOK
    <3>2. CASE l # k
      <4>1. entries'[l] = entries[l] /\ entries[l] \in Live
        BY <1>1, <2>2, <3>2, ManagerAssumption DEF IndInv, TypeOK, Live
      <4> QED
        BY <1>1, <1>2, <2>2, <4>1 DEF IndInv, TypeOK, EntryInv
    <3> QED
      BY <3>1, <3>2
  <2> QED
    BY <1>4, <2>1, <2>2 DEF EntryInv
<1>7. UnusedInv' /\ StartInv' /\ CloserInv' /\ ActivityIsExact' /\ LeasedSessionIsKept'
  BY <1>1, <1>3, ManagerAssumption
     DEF OpenNew, IndInv, TypeOK, UnusedInv, StartInv, CloserInv, ActivityIsExact,
         LeasedSessionIsKept, Active
<1>8. TargetInv' /\ DeleteInv' /\ GoneInv' /\ PurgeInv'
  BY <1>1, <1>3, ManagerAssumption
     DEF OpenNew, callVars, IndInv, TypeOK, UnusedInv, TargetInv, DeleteInv, GoneInv,
         PurgeInv, Active
<1>9. DrainInv' /\ CloseReachesEveryTurn' /\ DeletedUnlessOrphaned'
  BY <1>1, <1>3
     DEF OpenNew, callVars, IndInv, TypeOK, UnusedInv, DrainInv, CloseReachesEveryTurn,
         DeletedUnlessOrphaned, Active
<1>10. IdleSessionsReclaimed'
  BY <1>1, <1>2, <1>3
     DEF OpenNew, IndInv, TypeOK, EntryInv, IdleSessionsReclaimed, OnItsWayOut, Idle
<1> QED
  BY <1>5, <1>6, <1>7, <1>8, <1>9, <1>10 DEF IndInv

\* reclaim drops the entry of an idle Session nobody leases.
LEMMA ReclaimPreserves ==
    ASSUME IndInv, UNCHANGED env, NEW s \in Sessions,
           NEW c \in {"fresh", "stale"}, Reclaim(s, c)
    PROVE  IndInv'
<1> USE ManagerAssumption
    DEF IndInv, TypeOK, EntryInv, UnusedInv, StartInv, CloserInv, TargetInv, DeleteInv,
        GoneInv, PurgeInv, DrainInv, ActivityIsExact, LeasedSessionIsKept,
        CloseReachesEveryTurn, DeletedUnlessOrphaned, IdleSessionsReclaimed,
        Reclaim, sessionVars, callVars, Live, Active, Early, Idle, OnItsWayOut, historyVars,
        CloserPhases
<1>1. Live' \subseteq Live
  OBVIOUS
<1>2. IsFiniteSet(Live') /\ Cardinality(Live') <= MaxSessions
  BY <1>1, FewerEntries
<1>3. TypeOK'
  BY <1>2, SMTT(20)
<1>4. EntryInv' /\ UnusedInv' /\ StartInv' /\ CloserInv' /\ TargetInv' /\ DeleteInv'
  BY <1>2, SMTT(20)
<1>5. GoneInv' /\ PurgeInv' /\ DrainInv'
  OBVIOUS
<1>6. ActivityIsExact' /\ LeasedSessionIsKept' /\ CloseReachesEveryTurn'
  OBVIOUS
<1>7. DeletedUnlessOrphaned' /\ IdleSessionsReclaimed'
  OBVIOUS
<1> QED
  BY <1>3, <1>4, <1>5, <1>6, <1>7

\* RemoveAgent drops the entries of its agent.
LEMMA RemoveDropsPreserves ==
    ASSUME IndInv, UNCHANGED env, NEW a \in Agents, RemoveDropsEntries(a)
    PROVE  IndInv'
<1> USE ManagerAssumption
    DEF IndInv, TypeOK, EntryInv, UnusedInv, StartInv, CloserInv, TargetInv, DeleteInv,
        GoneInv, PurgeInv, DrainInv, ActivityIsExact, LeasedSessionIsKept,
        CloseReachesEveryTurn, DeletedUnlessOrphaned, IdleSessionsReclaimed,
        RemoveDropsEntries, sessionVars, callVars, Live, Active, Early, Idle, OnItsWayOut,
        LiveOf, MayWrite, CloserPhases, RemoverPhases
<1>1. Live' \subseteq Live
  OBVIOUS
<1>2. IsFiniteSet(Live') /\ Cardinality(Live') <= MaxSessions
  BY <1>1, FewerEntries
<1>3. TypeOK'
  BY <1>2, SMTT(20)
<1>4. EntryInv' /\ UnusedInv' /\ StartInv' /\ CloserInv' /\ TargetInv' /\ DeleteInv'
  BY <1>2, SMTT(20)
<1>5. GoneInv' /\ PurgeInv' /\ DrainInv'
  OBVIOUS
<1>6. ActivityIsExact' /\ LeasedSessionIsKept' /\ CloseReachesEveryTurn'
  OBVIOUS
<1>7. DeletedUnlessOrphaned' /\ IdleSessionsReclaimed'
  OBVIOUS
<1> QED
  BY <1>3, <1>4, <1>5, <1>6, <1>7

\* DeleteSession drops the entry it has closed.
LEMMA DeleteDropsPreserves ==
    ASSUME IndInv, UNCHANGED env, NEW k \in Keys, DeleteDropsEntry(k)
    PROVE  IndInv'
<1> USE ManagerAssumption
    DEF IndInv, TypeOK, EntryInv, UnusedInv, StartInv, CloserInv, TargetInv, DeleteInv,
        GoneInv, PurgeInv, DrainInv, ActivityIsExact, LeasedSessionIsKept,
        CloseReachesEveryTurn, DeletedUnlessOrphaned, IdleSessionsReclaimed,
        DeleteDropsEntry, sessionVars, callVars, Live, Active, Early, Idle, OnItsWayOut,
        historyVars, DeleterPhases
<1>1. Live' \subseteq Live
  OBVIOUS
<1>2. IsFiniteSet(Live') /\ Cardinality(Live') <= MaxSessions
  BY <1>1, FewerEntries
<1>3. TypeOK'
  BY <1>2, SMTT(20)
<1>4. EntryInv' /\ UnusedInv' /\ StartInv' /\ CloserInv' /\ TargetInv' /\ DeleteInv'
  BY <1>2, SMTT(20)
<1>5. GoneInv' /\ PurgeInv' /\ DrainInv'
  OBVIOUS
<1>6. ActivityIsExact' /\ LeasedSessionIsKept' /\ CloseReachesEveryTurn'
  OBVIOUS
<1>7. DeletedUnlessOrphaned' /\ IdleSessionsReclaimed'
  OBVIOUS
<1> QED
  BY <1>3, <1>4, <1>5, <1>6, <1>7

\* Close drops every entry.
LEMMA CloseManagerPreserves ==
    ASSUME IndInv, UNCHANGED env, CloseManager
    PROVE  IndInv'
<1> USE ManagerAssumption
    DEF IndInv, TypeOK, EntryInv, UnusedInv, StartInv, CloserInv, TargetInv, DeleteInv,
        GoneInv, PurgeInv, DrainInv, ActivityIsExact, LeasedSessionIsKept,
        CloseReachesEveryTurn, DeletedUnlessOrphaned, IdleSessionsReclaimed,
        CloseManager, sessionVars, callVars, Live, Active, Early, Idle, OnItsWayOut,
        Invalidate, MayWrite, CloserPhases
<1>1. Live' \subseteq Live
  OBVIOUS
<1>2. IsFiniteSet(Live') /\ Cardinality(Live') <= MaxSessions
  BY <1>1, FewerEntries
<1>3. TypeOK'
  BY <1>2, SMTT(20)
<1>4. EntryInv' /\ UnusedInv' /\ StartInv' /\ CloserInv' /\ TargetInv' /\ DeleteInv'
  BY <1>2, SMTT(20)
<1>5. GoneInv' /\ PurgeInv' /\ DrainInv'
  OBVIOUS
<1>6. ActivityIsExact' /\ LeasedSessionIsKept' /\ CloseReachesEveryTurn'
  OBVIOUS
<1>7. DeletedUnlessOrphaned' /\ IdleSessionsReclaimed'
  OBVIOUS
<1> QED
  BY <1>3, <1>4, <1>5, <1>6, <1>7

-----------------------------------------------------------------------------

\* Every step of the manager, and every stuttering step, keeps the invariant.
LEMMA NextIndInv == IndInv /\ [Next]_vars => IndInv'
<1> SUFFICES ASSUME IndInv, [Next]_vars PROVE IndInv'
  OBVIOUS
<1>1. CASE UNCHANGED vars
  BY <1>1
     DEF vars, managerVars, sessionVars, callVars, historyVars,
         IndInv, TypeOK, EntryInv, UnusedInv, StartInv, CloserInv, TargetInv, DeleteInv,
         GoneInv, PurgeInv, DrainInv, ActivityIsExact, LeasedSessionIsKept,
         CloseReachesEveryTurn, DeletedUnlessOrphaned, IdleSessionsReclaimed,
         Live, Active, Early, Idle, OnItsWayOut
<1>2. CASE Next
  <2> USE <1>2 DEF Next
  <2>1. UNCHANGED env
    OBVIOUS
  <2>2. ASSUME NEW k \in Keys, OpenExisting(k) \/ \E s \in Sessions : OpenNew(k, s)
        PROVE  IndInv'
    BY <2>1, <2>2, OpenExistingPreserves, OpenNewPreserves
  <2>3. ASSUME NEW s \in Sessions, Release(s) \/ SessionStep(s) \/ TimerStep(s) \/ Forget(s)
        PROVE  IndInv'
    <3>1. CASE Release(s) \/ TimerStep(s)
      BY <2>1, <3>1, ReleasePreserves, ReclaimPreserves DEF TimerStep
    <3>2. CASE SessionStep(s) \/ Forget(s)
      BY <2>1, <3>2, StartPreserves, TurnEndPreserves DEF SessionStep
    <3> QED
      BY <2>3, <3>1, <3>2
  <2>4. ASSUME NEW a \in Agents, RemoveStep(a) PROVE IndInv'
    BY <2>1, <2>4, RemovePreserves, RemoveDropsPreserves
  <2>5. ASSUME NEW k \in Keys, DeleteStep(k) PROVE IndInv'
    BY <2>1, <2>5, DeletePreserves, DeleteDropsPreserves
  <2>6. CASE Drain \/ DrainReturns
    BY <2>1, <2>6, DrainPreserves
  <2>7. CASE CloseManager
    BY <2>1, <2>7, CloseManagerPreserves
  <2> QED
    BY <2>2, <2>3, <2>4, <2>5, <2>6, <2>7
<1> QED
  BY <1>1, <1>2

\* The inductive invariant holds in every reachable state.
THEOREM Inductive == Spec => []IndInv
  BY InitIndInv, NextIndInv, PTL DEF Spec

\* The tables and the callers' phases keep their types, and Open never lets the
\* entries grow past maxSessions.
THEOREM TypeCorrect == Spec => []TypeOK
<1>1. IndInv => TypeOK
  BY DEF IndInv
<1> QED
  BY <1>1, Inductive, PTL

\* Idle reclamation, with timers that are stopped too late, never takes a
\* Session from under a Lease.
THEOREM LeaseProtects == Spec => []LeasedSessionIsKept
<1>1. IndInv => LeasedSessionIsKept
  BY DEF IndInv
<1> QED
  BY <1>1, Inductive, PTL

\* Session.close tells every turn to stop, also one that a Start installs
\* between its two shutdowns.
THEOREM CloseStopsTurns == Spec => []CloseReachesEveryTurn
<1>1. IndInv => CloseReachesEveryTurn
  BY DEF IndInv
<1> QED
  BY <1>1, Inductive, PTL

\* Once Drain has returned nil no live Session has an active turn again.
THEOREM DrainIsFinal == Spec => []DrainedStaysQuiet
<1>1. IndInv => DrainedStaysQuiet
  BY DEF IndInv, DrainInv, DrainedStaysQuiet
<1> QED
  BY <1>1, Inductive, PTL

\* activeTurns counts the Start, the turn and the turn that is leaving.
THEOREM ActivityCounted == Spec => []ActivityIsExact
<1>1. IndInv => ActivityIsExact
  BY DEF IndInv
<1> QED
  BY <1>1, Inductive, PTL

\* What DeleteSession has deleted stays deleted until the key is opened again,
\* unless RemoveAgent or Close dropped the entry under a turn or a Start.
THEOREM DeleteIsFinal == Spec => []DeletedUnlessOrphaned
<1>1. IndInv => DeletedUnlessOrphaned
  BY DEF IndInv
<1> QED
  BY <1>1, Inductive, PTL

\* No unleased idle Session is forgotten by the timers, the callbacks and the
\* callers that may have to reclaim it.
THEOREM IdleIsSeenTo == Spec => []IdleSessionsReclaimed
<1>1. IndInv => IdleSessionsReclaimed
  BY DEF IndInv
<1> QED
  BY <1>1, Inductive, PTL
=============================================================================
