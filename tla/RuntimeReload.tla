--------------------------- MODULE RuntimeReload ---------------------------
(***************************************************************************)
(* runtime.Runtime: Reload, RegisterAgent, UnregisterAgent and Close, the  *)
(* generations they build and retire, and the Starts that run against them *)
(* (src/core/runtime/reload.go, generation.go, lifecycle.go, registry.go,  *)
(* runtime.go), composed with the event router (EventRouter).              *)
(*                                                                         *)
(* Generation g is epoch g of the session manager and owns bus g.  A Start *)
(* captures an epoch, later looks its agent up through the resolver that   *)
(* epoch was installed with, attaches its coordinator to the router and    *)
(* runs.  The references of an epoch are the Starts and turns that hold    *)
(* it: SessionEpochs shows the count to be exact as long as no             *)
(* startTurnLocked call failed on the epoch, and tainted records where one *)
(* did.                                                                    *)
(*                                                                         *)
(* lifecycleMu serializes the lifecycle operations: op is the one running. *)
(* Retiring a generation takes no lock, so it interleaves with all of it.  *)
(* Tool catalogs, host factories, target views and the retained inputs     *)
(* follow the generation and are not distinguished from it.                *)
(***************************************************************************)
EXTENDS EventRouter

CONSTANTS Turns,         \* Start calls
          External,      \* attachments of Runtime.Attach
          DynNames,      \* names used with RegisterAgent
          DepNames,      \* names documents deploy
          Documents,     \* the agent sets of the documents to choose from
          MaxGen,        \* bound: generation ids
          MaxInst        \* bound: dynamic agent instances bound

ASSUME ReloadAssumption ==
  /\ Attachments = Turns \cup External /\ Turns \cap External = {}
  /\ Documents \subseteq SUBSET DepNames
  /\ MaxGen \in Nat \ {0} /\ MaxInst \in Nat /\ Buses = 1..MaxGen

Gens == 1..MaxGen
Inst == 1..MaxInst
Names == DynNames \cup DepNames

VARIABLES
  current,     \* r.current (and r.result, r.bus, which are set with it)
  epoch,       \* the manager's current epoch
  doc,         \* the agents the document of each generation deploys
  genState,    \* none, built, live, retiring (turns hold it),
               \* retired (the hook runs), unrouted, closed
  nextGen,     \* r.nextGenID + 1
  adopted,     \* the instances frozen into each generation
  dyn,         \* registry.agents: name -> instance, 0 when absent
  deployed,    \* registry.deployed: the generation served as fallback
  bound,       \* the generation each instance was bound to, 0 before
  closes,      \* how often each instance was closed
  removed,     \* the manager's tombstones
  drained,     \* the ones whose sessions a drain has closed
  unregistered,\* history: the ones UnregisterAgent has set
  op,          \* where the holder of lifecycleMu is, or idle
  opName,      \* the agent it is draining
  entries,     \* the registry entries a reload or a removal set aside
  rebound,     \* reload: the instances bound to the new generation
  drains,      \* reload: removed agents still to drain, and drainAttempted
  rt,          \* the runtime: open, closing, closed
  pc,          \* where each Start or turn is
  agentOf,     \* the agent it is for
  held,        \* the epoch it captured, 0 when none
  uses,        \* the instance it resolved, 0 for a deployed agent
  doomed,      \* Starts whose session was closed by a drain
  tainted,     \* epochs on which a startTurnLocked call failed
  ext          \* each external attachment: new, on, off

genVars  == <<current, epoch, doc, genState, nextGen, adopted>>
regVars  == <<dyn, deployed, bound, closes>>
opVars   == <<op, opName, entries, rebound, drains>>
tombs    == <<removed, drained, unregistered>>
turnVars == <<pc, agentOf, held, uses, doomed, tainted>>
vars == <<routerVars, genVars, regVars, tombs, opVars, rt, turnVars, ext>>

NoEntries == [n \in DynNames |-> 0]
Instances(es) == {es[n] : n \in DynNames} \ {0}
Fresh == {i \in Inst : bound[i] = 0}

Init ==
  /\ \E ds \in Documents : doc = [g \in Gens |-> IF g = 1 THEN ds ELSE {}]
  /\ RouterInit(1)
  /\ current = 1 /\ epoch = 1 /\ nextGen = 2 /\ deployed = 1
  /\ genState = [g \in Gens |-> IF g = 1 THEN "live" ELSE "none"]
  /\ adopted = [g \in Gens |-> {}]
  /\ dyn = NoEntries
  /\ bound = [i \in Inst |-> 0] /\ closes = [i \in Inst |-> 0]
  /\ removed = {} /\ drained = {} /\ unregistered = {}
  /\ op = "idle" /\ opName = "none" /\ entries = NoEntries /\ rebound = NoEntries
  /\ drains = [todo |-> {}, attempted |-> {}]
  /\ rt = "open"
  /\ pc = [t \in Turns |-> "idle"]
  /\ agentOf = [t \in Turns |-> "none"]
  /\ held = [t \in Turns |-> 0]
  /\ uses = [t \in Turns |-> 0]
  /\ doomed = {} /\ tainted = {}
  /\ ext = [a \in External |-> "new"]

CloseAll(is) == closes' = [i \in Inst |-> IF i \in is THEN closes[i] + 1 ELSE closes[i]]

-----------------------------------------------------------------------------
(* Starts and turns *)

(* generationResolver.Instance: freeze gives the retired generation a      *)
(* resolver of its own, but the epoch's Deps hold the value from before,   *)
(* which serves dynamic agents from the live registry.                     *)
Dynamic(n) == IF n \in DynNames THEN dyn[n] ELSE 0
Resolvable(n, g) == Dynamic(n) # 0 \/ n \in doc[g]

Holding(g) == {t \in Turns : held[t] = g}

(* Start on the lease of an open session, then beginEpoch, which looks at   *)
(* neither tombstones nor closed sessions: a lease opened before the agent *)
(* was tombstoned still starts turns until the drain has closed the        *)
(* session, and from then on only as far as interruptActive.               *)
Capture(t, n) ==
  /\ pc[t] = "idle"
  /\ n \in removed \/ Resolvable(n, epoch)
  /\ pc' = [pc EXCEPT ![t] = "captured"]
  /\ agentOf' = [agentOf EXCEPT ![t] = n]
  /\ held' = [held EXCEPT ![t] = epoch]
  /\ doomed' = IF n \in drained THEN doomed \cup {t} ELSE doomed
  /\ UNCHANGED <<routerVars, genVars, regVars, tombs, opVars, rt, uses, tainted, ext>>

(* interruptActive: wait for the previous turn, reserve the activity. *)
Reserve(t) ==
  /\ pc[t] = "captured" /\ t \notin doomed /\ rt = "open"
  /\ pc' = [pc EXCEPT ![t] = "reserved"]
  /\ UNCHANGED <<routerVars, genVars, regVars, tombs, opVars, rt, agentOf, held, uses,
                 doomed, tainted, ext>>

Resolve(t) ==
  /\ pc[t] = "reserved" /\ Resolvable(agentOf[t], held[t])
  /\ uses' = [uses EXCEPT ![t] = Dynamic(agentOf[t])]
  /\ pc' = [pc EXCEPT ![t] = "resolved"]
  /\ UNCHANGED <<routerVars, genVars, regVars, tombs, opVars, rt, agentOf, held,
                 doomed, tainted, ext>>

(* router.Attach of the coordinator, then the turn runs. *)
RunTurn(t) ==
  /\ pc[t] = "resolved" /\ rt = "open"
  /\ Attach(t)
  /\ pc' = [pc EXCEPT ![t] = "running"]
  /\ UNCHANGED <<genVars, regVars, tombs, opVars, rt, agentOf, held, uses, doomed, tainted, ext>>

(* Mutant: the last reference of a retired epoch forgets the hook. *)
ReleaseForgetsHook(t) ==
  /\ pc' = [pc EXCEPT ![t] = "done"]
  /\ agentOf' = [agentOf EXCEPT ![t] = "none"]
  /\ uses' = [uses EXCEPT ![t] = 0]
  /\ doomed' = doomed \ {t}
  /\ held' = [held EXCEPT ![t] = 0]
  /\ UNCHANGED genState

(* endEpoch: the last reference of a retired epoch runs its hook. *)
Release(t) ==
  LET g == held[t] IN
  /\ pc' = [pc EXCEPT ![t] = "done"]
  /\ agentOf' = [agentOf EXCEPT ![t] = "none"]
  /\ uses' = [uses EXCEPT ![t] = 0]
  /\ doomed' = doomed \ {t}
  /\ held' = [held EXCEPT ![t] = 0]
  /\ genState' = IF genState[g] = "retiring" /\ Holding(g) = {t}
                   THEN [genState EXCEPT ![g] = "retired"] ELSE genState

(* Start fails before startTurnLocked. *)
AbandonStart(t) ==
  /\ pc[t] = "captured"
  /\ Release(t)
  /\ UNCHANGED <<routerVars, current, epoch, doc, nextGen, adopted, regVars, tombs, opVars,
                 rt, tainted, ext>>

FailStartTurn(t) ==
  /\ pc[t] \in {"reserved", "resolved"}
  /\ Release(t)
  /\ tainted' = tainted \cup {held[t]}
  /\ UNCHANGED <<routerVars, current, epoch, doc, nextGen, adopted, regVars, tombs, opVars,
                 rt, ext>>

(* Turn.finish detaches the coordinator and, once that has closed the      *)
(* subscriptions, releases the epoch.                                      *)
FinishTurn(t) ==
  /\ pc[t] = "running"
  /\ Stop(t)
  /\ pc' = [pc EXCEPT ![t] = "finishing"]
  /\ UNCHANGED <<genVars, regVars, tombs, opVars, rt, agentOf, held, uses, doomed, tainted, ext>>

ReleaseTurn(t) ==
  /\ pc[t] = "finishing" /\ \A x \in toClose : x[1] # t
  /\ Release(t)
  /\ UNCHANGED <<routerVars, current, epoch, doc, nextGen, adopted, regVars, tombs, opVars,
                 rt, tainted, ext>>

-----------------------------------------------------------------------------
(* RegisterAgent and UnregisterAgent *)

NoDrains == [todo |-> {}, attempted |-> {}]

Goto(place) == op' = place /\ UNCHANGED <<opName, entries, rebound, drains>>

(* The operation returns and lets go of lifecycleMu. *)
Unlock == /\ op' = "idle" /\ opName' = "none"
          /\ entries' = NoEntries /\ rebound' = NoEntries /\ drains' = NoDrains

(* Manager.RemoveAgent's tombstone, and ReopenAgent for some names *)
Tombstone(n) == removed' = removed \cup {n} /\ UNCHANGED drained
Reopen(ns) == /\ removed' = removed \ ns /\ drained' = drained \ ns
              /\ unregistered' = unregistered \ ns

(* A name deployed now is refused.  A later document may still deploy it:  *)
(* Reload does not look, and the registration goes on to be served first.  *)
RegisterAgent(n) ==
  /\ op = "idle" /\ rt = "open" /\ dyn[n] = 0 /\ n \notin doc[current] /\ Fresh # {}
  /\ LET i == CHOOSE i \in Fresh : \A j \in Fresh : i <= j IN
       /\ bound' = [bound EXCEPT ![i] = current]
       /\ dyn' = [dyn EXCEPT ![n] = i]
  /\ Reopen({n})
  /\ UNCHANGED <<routerVars, genVars, deployed, closes, opVars, rt, turnVars, ext>>

UnregisterAgent(n) ==
  /\ op = "idle" /\ rt = "open" /\ dyn[n] # 0
  /\ op' = "unregister" /\ opName' = n
  /\ entries' = dyn
  /\ dyn' = [dyn EXCEPT ![n] = 0]
  /\ Tombstone(n) /\ unregistered' = unregistered \cup {n}
  /\ UNCHANGED <<routerVars, genVars, deployed, bound, closes, rebound, drains, rt, turnVars, ext>>

(* RemoveAgent has waited until no turn of the agent is active; a Start    *)
(* that has not reserved its activity yet finds its session closed.        *)
AgentIdle(n) == \A t \in Turns : agentOf[t] = n => pc[t] \notin {"reserved", "resolved", "running"}
ClosesSessions(n) ==
  /\ drained' = drained \cup {n} /\ UNCHANGED <<removed, unregistered>>
  /\ doomed' = doomed \cup {t \in Turns : agentOf[t] = n /\ pc[t] = "captured"}

UnregisterDrained ==
  /\ op = "unregister" /\ AgentIdle(opName)
  /\ ClosesSessions(opName)
  /\ CloseAll({entries[opName]})
  /\ Unlock
  /\ UNCHANGED <<routerVars, genVars, dyn, deployed, bound, rt, pc, agentOf, held, uses, tainted, ext>>

(* RemoveAgent gives up waiting, or reports an error of closing the        *)
(* sessions after it has closed them.                                      *)
DrainError(n) == \/ UNCHANGED <<tombs, doomed>>
                 \/ AgentIdle(n) /\ ClosesSessions(n)

UnregisterFails ==
  /\ op = "unregister" /\ DrainError(opName)
  /\ dyn' = entries
  /\ Unlock
  /\ UNCHANGED <<routerVars, genVars, deployed, bound, closes, rt, pc, agentOf, held, uses, tainted, ext>>

-----------------------------------------------------------------------------
(* Reload.  NewGen is the id the attempt was given. *)

NewGen == nextGen - 1

ReloadStart(ds) ==
  /\ op = "idle" /\ rt = "open" /\ nextGen <= MaxGen
  /\ doc' = [doc EXCEPT ![nextGen] = ds]
  /\ nextGen' = nextGen + 1
  /\ Goto("build")
  /\ UNCHANGED <<routerVars, current, epoch, genState, adopted, regVars, tombs, rt, turnVars, ext>>

(* prepare and build; a failure leaves nothing to unwind. *)
ReloadBuild ==
  /\ op = "build"
  /\ \/ Unlock /\ UNCHANGED genState
     \/ Goto("resolve") /\ genState' = [genState EXCEPT ![NewGen] = "built"]
  /\ UNCHANGED <<routerVars, current, epoch, doc, nextGen, adopted, regVars, tombs, rt, turnVars, ext>>

(* bind, resolveValues, resolveHostFactory, resolveCatalog *)
ReloadResolve ==
  /\ op = "resolve"
  /\ Goto("rebind") \/ Goto("abort")
  /\ UNCHANGED <<routerVars, genVars, regVars, tombs, rt, turnVars, ext>>

(* Mutant: the abort does not reopen the agents it tried to drain. *)
AbortClosingKeepsTombstones(bs) ==
  /\ genState' = [genState EXCEPT ![NewGen] = "closed"]
  /\ BusCloses(bs)
  /\ Unlock
  /\ UNCHANGED <<current, epoch, doc, nextGen, adopted, regVars, tombs, rt, turnVars, ext>>

(* abort: reopen the agents it tried to drain, close the new deployment    *)
(* with the buses it owns.                                                 *)
AbortClosing(bs) ==
  /\ Reopen(drains.attempted)
  /\ genState' = [genState EXCEPT ![NewGen] = "closed"]
  /\ BusCloses(bs)
  /\ Unlock
  /\ UNCHANGED <<current, epoch, doc, nextGen, adopted, regVars, rt, turnVars, ext>>

(* Mutant: abort closes the rebound agents again. *)
ReloadAbortClosesRebound ==
  /\ op = "abort"
  /\ Reopen(drains.attempted)
  /\ genState' = [genState EXCEPT ![NewGen] = "closed"]
  /\ BusCloses({NewGen})
  /\ CloseAll(Instances(rebound))
  /\ Unlock
  /\ UNCHANGED <<current, epoch, doc, nextGen, adopted, dyn, deployed, bound, rt, turnVars, ext>>

ReloadAbort == op = "abort" /\ AbortClosing({NewGen})

(* The event_bus factory returned the current generation's bus: it is      *)
(* detached from the new deployment before the abort closes that.          *)
ReloadSharedBus == op = "resolve" /\ AbortClosing({})

(* Rebinds the dynamic agents; a failure closes the ones bound so far. *)
ReloadRebind ==
  /\ op = "rebind"
  /\ LET names == {n \in DynNames : dyn[n] # 0} IN
     \E done \in SUBSET names, f \in [DynNames -> Inst \cup {0}] :
       /\ \A n \in DynNames : IF n \in done THEN f[n] \in Fresh ELSE f[n] = 0
       /\ \A n, k \in done : f[n] = f[k] => n = k
       /\ bound' = [i \in Inst |-> IF i \in Instances(f) THEN NewGen ELSE bound[i]]
       /\ rebound' = f
       /\ \/ /\ done = names
             /\ drains' = [todo |-> doc[current] \ doc[NewGen], attempted |-> {}]
             /\ op' = "drain" /\ UNCHANGED closes
          \/ CloseAll(Instances(f)) /\ op' = "abort" /\ UNCHANGED drains
  /\ entries' = dyn /\ UNCHANGED opName
  /\ UNCHANGED <<routerVars, genVars, dyn, deployed, tombs, rt, turnVars, ext>>

DrainRemoved(n) ==
  /\ op = "drain" /\ n \in drains.todo
  /\ Tombstone(n) /\ UNCHANGED unregistered
  /\ drains' = [todo |-> drains.todo \ {n}, attempted |-> drains.attempted \cup {n}]
  /\ op' = "draining" /\ opName' = n
  /\ UNCHANGED <<routerVars, genVars, regVars, entries, rebound, rt, turnVars, ext>>

RemovedDrained ==
  /\ op = "draining" /\ AgentIdle(opName)
  /\ ClosesSessions(opName)
  /\ Goto("drain")
  /\ UNCHANGED <<routerVars, genVars, regVars, rt,
                 pc, agentOf, held, uses, tainted, ext>>

DrainFails ==
  /\ op = "draining" /\ DrainError(opName)
  /\ CloseAll(Instances(rebound))
  /\ Goto("abort")
  /\ UNCHANGED <<routerVars, genVars, dyn, deployed, bound, rt, pc, agentOf, held, uses, tainted, ext>>

ReloadReopen ==
  /\ op = "drain" /\ drains.todo = {}
  /\ Reopen(doc[NewGen])
  /\ Goto("replace")
  /\ UNCHANGED <<routerVars, genVars, regVars, rt, turnVars, ext>>

(* Mutant: the old generation is not frozen before the registry is swapped. *)
ReloadReplaceWithoutFreeze ==
  /\ op = "replace"
  /\ dyn' = rebound /\ deployed' = NewGen
  /\ Goto("addbus")
  /\ UNCHANGED <<routerVars, genVars, bound, closes, tombs, rt, turnVars, ext>>

(* commit: freeze the old generation, swap the live view *)
ReloadReplace ==
  /\ op = "replace"
  /\ adopted' = [adopted EXCEPT ![current] = Instances(entries)]
  /\ dyn' = rebound /\ deployed' = NewGen
  /\ Goto("addbus")
  /\ UNCHANGED <<routerVars, current, epoch, doc, genState, nextGen, bound, closes, tombs,
                 rt, turnVars, ext>>

ReloadAddBus ==
  /\ op = "addbus"
  /\ \/ AddBus(NewGen) /\ Goto("swap")
     \/ AddBusFails(NewGen) /\ Goto("rollback")
  /\ UNCHANGED <<genVars, regVars, tombs, rt, turnVars, ext>>

(* rollbackTo after a failed AddBus: the bus was not added, so RemoveBus   *)
(* has nothing to do.  Its other two callers, a failed UpdateTunables or   *)
(* SwapDeps, need a manager that somebody else than the runtime has closed *)
(* and are left out.                                                       *)
RollbackTo ==
  /\ op = "rollback"
  /\ adopted' = [adopted EXCEPT ![current] = {}]
  /\ dyn' = entries /\ deployed' = current
  /\ CloseAll(Instances(rebound))
  /\ Goto("abort")
  /\ UNCHANGED <<routerVars, current, epoch, doc, genState, nextGen, bound, tombs, rt, turnVars, ext>>

(* UpdateTunables and SwapDeps, which succeed on an open manager: without  *)
(* references the hook runs inside the call.                               *)
ReloadSwap ==
  /\ op = "swap"
  /\ epoch' = NewGen
  /\ LET busy == Holding(current) # {} IN
       /\ genState' = [genState EXCEPT ![NewGen] = "live",
                                       ![current] = IF busy THEN "retiring" ELSE "retired"]
       /\ Goto(IF busy THEN "finish" ELSE "retire")
  /\ UNCHANGED <<routerVars, current, doc, nextGen, adopted, regVars, tombs, rt, turnVars, ext>>

ReloadFinish ==
  /\ op = "finish" \/ (op = "retire" /\ genState[current] = "closed")
  /\ current' = NewGen
  /\ Unlock
  /\ UNCHANGED <<routerVars, epoch, doc, genState, nextGen, adopted, regVars, tombs, rt, turnVars, ext>>

-----------------------------------------------------------------------------
(* Retirement, in the goroutine that released the last reference *)

RetireUnroute(g) ==
  /\ genState[g] = "retired"
  /\ RemoveBus(g)
  /\ genState' = [genState EXCEPT ![g] = "unrouted"]
  /\ UNCHANGED <<current, epoch, doc, nextGen, adopted, regVars, tombs, opVars, rt, turnVars, ext>>

(* Generation.close: the deployment with its bus, then what it adopted. *)
CloseGeneration(g) ==
  /\ BusCloses({g})
  /\ genState' = [genState EXCEPT ![g] = "closed"]
  /\ CloseAll(adopted[g])

RetireClose(g) ==
  /\ genState[g] = "unrouted" /\ \A x \in toClose : x[2] # g
  /\ CloseGeneration(g)
  /\ UNCHANGED <<current, epoch, doc, nextGen, adopted, dyn, deployed, bound, tombs, opVars,
                 rt, turnVars, ext>>

-----------------------------------------------------------------------------
(* Runtime.Close *)

(* Freeze the current generation; manager.Close, which interrupts the      *)
(* turns and waits for them within a budget.                               *)
RuntimeClose ==
  /\ op = "idle" /\ rt = "open"
  /\ rt' = "closing"
  /\ adopted' = [adopted EXCEPT ![current] = Instances(dyn)]
  /\ UNCHANGED <<routerVars, current, epoch, doc, genState, nextGen, regVars, tombs, opVars,
                 turnVars, ext>>

CloseRouter ==
  /\ rt = "closing"
  /\ RouterClose
  /\ UNCHANGED <<genVars, regVars, tombs, opVars, rt, turnVars, ext>>

RouterDrained ==
  /\ RouterCloseReturns
  /\ UNCHANGED <<genVars, regVars, tombs, opVars, rt, turnVars, ext>>

CloseCurrent ==
  /\ rt = "closing" /\ routerState = "closed"
  /\ rt' = "closed"
  /\ CloseGeneration(current)
  /\ UNCHANGED <<current, epoch, doc, nextGen, adopted, dyn, deployed, bound, tombs, opVars,
                 turnVars, ext>>

-----------------------------------------------------------------------------
(* External attachments and the router's goroutines *)

AttachExternal(a) ==
  /\ ext[a] = "new" /\ rt = "open"
  /\ Attach(a)
  /\ ext' = [ext EXCEPT ![a] = "on"]
  /\ UNCHANGED <<genVars, regVars, tombs, opVars, rt, turnVars>>

(* Its owner stops it, its ctx ends, or its sink returns an error. *)
LeaveExternal(a) ==
  /\ ext[a] = "on"
  /\ \/ Stop(a)
     \/ CancelCtx(a)
     \/ \E b \in Buses : chan[<<a, b>>] = "open" /\ LoopDetaches(<<a, b>>)
  /\ ext' = [ext EXCEPT ![a] = "off"]
  /\ UNCHANGED <<genVars, regVars, tombs, opVars, rt, turnVars>>

RunRouter ==
  /\ \E x \in SubIds : RouterStep(x)
  /\ UNCHANGED <<genVars, regVars, tombs, opVars, rt, turnVars, ext>>

-----------------------------------------------------------------------------

TurnStep == \E t \in Turns : \/ Reserve(t) \/ Resolve(t) \/ RunTurn(t)
                             \/ AbandonStart(t) \/ FailStartTurn(t)
                             \/ FinishTurn(t) \/ ReleaseTurn(t)

LifecycleStep ==
  \/ UnregisterDrained
  \/ ReloadBuild \/ ReloadResolve \/ ReloadSharedBus \/ ReloadAbort \/ ReloadRebind
  \/ \E n \in DepNames : DrainRemoved(n)
  \/ RemovedDrained \/ ReloadReopen \/ ReloadReplace \/ ReloadAddBus \/ RollbackTo
  \/ ReloadSwap \/ ReloadFinish
  \/ CloseRouter \/ RouterDrained \/ CloseCurrent

RetireStep == \E g \in Gens : RetireUnroute(g) \/ RetireClose(g)

Next ==
  \/ \E t \in Turns, n \in Names : Capture(t, n)
  \/ TurnStep
  \/ \E n \in DynNames : RegisterAgent(n) \/ UnregisterAgent(n)
  \/ UnregisterFails \/ DrainFails
  \/ \E ds \in Documents : ReloadStart(ds)
  \/ LifecycleStep
  \/ RetireStep
  \/ RuntimeClose
  \/ \E a \in External : AttachExternal(a) \/ LeaveExternal(a)
  \/ RunRouter

(* Turns end (an engine returns), a lifecycle call that can go on does, and *)
(* the router's goroutines and the retire hooks run.                        *)
Progress == TurnStep \/ LifecycleStep \/ RetireStep \/ RunRouter

Fairness == WF_vars(Progress)

Spec == Init /\ [][Next]_vars /\ Fairness

-----------------------------------------------------------------------------
(* Properties *)

(* Every variable keeps its type, and no instance is closed twice. *)
TypeOK ==
  /\ current \in Gens /\ epoch \in Gens /\ deployed \in Gens /\ nextGen \in 2..(MaxGen + 1)
  /\ doc \in [Gens -> SUBSET DepNames]
  /\ genState \in [Gens -> {"none", "built", "live", "retiring", "retired", "unrouted", "closed"}]
  /\ adopted \in [Gens -> SUBSET Inst]
  /\ dyn \in [DynNames -> Inst \cup {0}] /\ bound \in [Inst -> Gens \cup {0}]
  /\ closes \in [Inst -> 0..1]
  /\ removed \subseteq Names /\ drained \subseteq Names /\ unregistered \subseteq removed
  /\ op \in {"idle", "unregister", "build", "resolve", "rebind", "drain", "draining", "replace",
             "addbus", "swap", "finish", "retire", "rollback", "abort"}
  /\ (op = "unregister" => opName \in DynNames) /\ (op = "draining" => opName \in DepNames)
  /\ entries \in [DynNames -> Inst \cup {0}] /\ rebound \in [DynNames -> Inst \cup {0}]
  /\ rt \in {"open", "closing", "closed"}
  /\ pc \in [Turns -> {"idle", "captured", "reserved", "resolved", "running", "finishing", "done"}]
  /\ held \in [Turns -> Gens \cup {0}] /\ uses \in [Turns -> Inst \cup {0}]
  /\ doomed \subseteq Turns /\ tainted \subseteq Gens \cup {0}
  /\ ext \in [External -> {"new", "on", "off"}]
  /\ buses \subseteq Buses /\ busDown \subseteq Buses
  /\ attached \subseteq Attachments /\ ctxDone \subseteq Attachments
  /\ linked \subseteq SubIds /\ toClose \subseteq SubIds
  /\ chan \in [SubIds -> {"none", "open", "closed"}]
  /\ loop \in [SubIds -> {"none", "running", "exiting", "done"}]
  /\ routerState \in {"open", "closing", "closed"}

(* Subscriptions survive reloads: whoever attached and did not leave is     *)
(* subscribed, with a running loop, on the bus of every generation it can   *)
(* hear from - a turn on the bus of the epoch it runs on (unless a failed   *)
(* Start has upset that epoch's references), an external attachment on the  *)
(* bus of the generation that serves.                                       *)
Hears(a, g) == /\ g \notin busDown
               /\ <<a, g>> \in linked
               /\ chan[<<a, g>>] = "open" /\ loop[<<a, g>>] = "running"

AttachmentsSurviveReload ==
  rt = "open" =>
    /\ \A t \in Turns : pc[t] = "running" /\ held[t] \notin tainted => Hears(t, held[t])
    /\ \A a \in External : ext[a] = "on" => Hears(a, epoch)

(* Between lifecycle operations the parts of the runtime agree on one       *)
(* generation, also after a reload that failed half-way: the registry's     *)
(* dynamic agents are open and bound to it, nothing of it is adopted, its   *)
(* bus is routed, the other buses of the router belong to generations not   *)
(* closed yet, and none of its deployed agents is left refused by a reload: *)
(* only UnregisterAgent, called for a registration of the same name, does   *)
(* that (DeployedAgentIsServed).                                            *)
SettledRuntimeIsConsistent ==
  op = "idle" /\ rt = "open" =>
    /\ epoch = current /\ deployed = current
    /\ genState[current] = "live" /\ adopted[current] = {}
    /\ current \in buses
    /\ \A g \in buses : genState[g] \in {"live", "retiring", "retired"}
    /\ \A n \in DynNames : dyn[n] # 0 => bound[dyn[n]] = current /\ closes[dyn[n]] = 0
    /\ removed \cap doc[current] \subseteq unregistered

(* No dynamic agent instance is leaked: one that is open is registered, set *)
(* aside by the operation in progress, or adopted by a generation that will *)
(* close it.                                                                *)
InstancesAreOwned ==
  \A i \in Inst : bound[i] # 0 /\ closes[i] = 0 =>
    \/ i \in Instances(dyn)
    \/ op # "idle" /\ i \in Instances(entries) \cup Instances(rebound)
    \/ \E g \in Gens : i \in adopted[g] /\ genState[g] # "closed"

(* A retired generation is closed once its turns have ended, and a closed   *)
(* runtime has released every generation, instance and loop.                *)
Settled == /\ \A g \in Gens : genState[g] \in {"none", "live", "closed"}
           /\ rt = "open" \/ /\ rt = "closed"
                             /\ \A g \in Gens : genState[g] # "live"
                             /\ \A i \in Inst : bound[i] # 0 => closes[i] = 1
                             /\ \A x \in SubIds : loop[x] # "running"

GenerationsAreReleased == <>[]Settled

(* lifecycle.go, of UnregisterAgent: "deployed (static) agents cannot be    *)
(* removed at runtime".  So no agent the serving generation deploys is      *)
(* refused by the session manager.                                          *)
DeployedAgentIsServed ==
  op = "idle" /\ rt = "open" => removed \cap doc[current] = {}

(* reload.go: "In-flight turns always complete on the generation they       *)
(* started on"; generation.go: a Start that captured the retired epoch      *)
(* "still resolves the exact instances that generation served".  So the     *)
(* agent instance a turn runs on is not closed under it.                    *)
InFlightInstanceIsOpen ==
  rt = "open" => \A t \in Turns :
    pc[t] = "running" /\ uses[t] # 0 /\ held[t] \notin tainted => closes[uses[t]] = 0
=============================================================================
