------------------------ MODULE RuntimeReload_proofs ------------------------
(***************************************************************************)
(* Proofs about RuntimeReload, for every set of Starts, attachments, names *)
(* and documents and for any number of generations and agent instances:    *)
(* the types; a runtime between two lifecycle operations is consistent,    *)
(* whichever step of a reload failed before; no dynamic agent instance is  *)
(* leaked or closed twice; attachments hear every generation in use.       *)
(*                                                                         *)
(* None of these is inductive.  IndInv says where each part of the runtime *)
(* stands at each point of a reload, to which generation every instance    *)
(* belongs, and which generations the router carries.  Every part of it is *)
(* proved by a lemma of its own, one step per action that touches it.      *)
(***************************************************************************)
EXTENDS RuntimeReload, WellFoundedInduction, TLAPS

-----------------------------------------------------------------------------
(* The parts of TypeOK, by component. *)

States == {"none", "built", "live", "retiring", "retired", "unrouted", "closed"}

GenType ==
  /\ current \in Gens /\ epoch \in Gens /\ deployed \in Gens /\ nextGen \in 2..(MaxGen + 1)
  /\ doc \in [Gens -> SUBSET DepNames] /\ genState \in [Gens -> States]
  /\ adopted \in [Gens -> SUBSET Inst]
RegType ==
  /\ dyn \in [DynNames -> Inst \cup {0}] /\ bound \in [Inst -> Gens \cup {0}]
  /\ closes \in [Inst -> 0..1]
TombType == removed \subseteq Names /\ drained \subseteq Names /\ unregistered \subseteq removed
OpType ==
  /\ op \in {"idle", "unregister", "build", "resolve", "rebind", "drain", "draining", "replace",
             "addbus", "swap", "finish", "retire", "rollback", "abort"}
  /\ (op = "unregister" => opName \in DynNames) /\ (op = "draining" => opName \in DepNames)
  /\ entries \in [DynNames -> Inst \cup {0}] /\ rebound \in [DynNames -> Inst \cup {0}]
TurnType ==
  /\ rt \in {"open", "closing", "closed"}
  /\ pc \in [Turns ->
              {"idle", "captured", "reserved", "resolved", "running", "finishing", "done"}]
  /\ held \in [Turns -> Gens \cup {0}] /\ uses \in [Turns -> Inst \cup {0}]
  /\ doomed \subseteq Turns /\ tainted \subseteq Gens \cup {0}
  /\ ext \in [External -> {"new", "on", "off"}]
RouterType ==
  /\ buses \subseteq Buses /\ busDown \subseteq Buses
  /\ attached \subseteq Attachments /\ ctxDone \subseteq Attachments
  /\ linked \subseteq SubIds /\ toClose \subseteq SubIds
  /\ chan \in [SubIds -> {"none", "open", "closed"}]
  /\ loop \in [SubIds -> {"none", "running", "exiting", "done"}]
  /\ routerState \in {"open", "closing", "closed"}

-----------------------------------------------------------------------------
(* The inductive invariant. *)

\* Where a reload is: it has built the new generation and not yet swapped it in;
\* the registry serves it; the manager serves it.
Building == {"resolve", "rebind", "drain", "draining", "replace", "addbus", "swap", "rollback",
             "abort"}
Replaced == {"addbus", "swap", "rollback", "finish", "retire"}
Swapped == {"finish", "retire"}

\* Which generation the parts of the runtime serve at each point of a reload.
GenInv ==
    /\ current < nextGen
    /\ \A g \in Gens : g >= nextGen => genState[g] = "none"
    /\ op \in Building \cup {"build"} => current # NewGen
    /\ op \in Building => genState[NewGen] = "built"
    /\ op = "build" => genState[NewGen] = "none"
    /\ \A g \in Gens : genState[g] = "built" => op \in Building /\ g = NewGen
    /\ epoch = IF op \in Swapped THEN NewGen ELSE current
    /\ op \in Swapped => current # NewGen
    /\ deployed = IF op \in Replaced THEN NewGen ELSE current
    /\ genState[epoch] = IF rt = "closed" THEN "closed" ELSE "live"
    /\ \A g \in Gens : genState[g] = "live" => g = epoch
    /\ rt # "open" => op = "idle"

\* What an operation has set aside.
OpInv ==
    /\ op \in {"idle", "build", "resolve", "rebind"} => entries = NoEntries
    /\ op \in {"idle", "unregister", "build", "resolve", "rebind"} =>
          rebound = NoEntries /\ drains = NoDrains
    /\ op = "unregister" => /\ dyn[opName] = 0 /\ entries[opName] # 0
                            /\ \A n \in DynNames \ {opName} : dyn[n] = entries[n]
    /\ op \in {"drain", "draining", "replace"} => entries = dyn
    /\ op = "abort" => entries \in {dyn, NoEntries}
    /\ op \in Replaced => dyn = rebound /\ adopted[current] = Instances(entries)

\* A tombstone on an agent that the serving generation deploys is one the reload
\* in progress has set and will take back, or one of UnregisterAgent.
RemovedInv ==
    /\ removed \cap doc[current] \subseteq drains.attempted \cup unregistered
    /\ op \in {"replace", "addbus", "swap", "finish", "retire"} => removed \cap doc[NewGen] = {}

\* An instance that was never bound was never closed.
BoundInv == \A i \in Inst : bound[i] = 0 => closes[i] = 0

\* What a generation adopted is bound to it and is closed with it, so no two
\* generations close the same instance.
AdoptInv == \A g \in Gens : \A i \in adopted[g] :
    /\ bound[i] = g /\ (closes[i] = 1 <=> genState[g] = "closed")
    /\ genState[g] \notin {"none", "built"}
    /\ genState[g] = "live" => op \in {"addbus", "swap", "rollback"} \/ rt = "closing"

\* No instance serves two names.
OneName(es) == \A n, k \in DynNames : es[n] = es[k] /\ es[n] # 0 => n = k
NameInv == OneName(dyn) /\ OneName(entries) /\ OneName(rebound)

\* The registry serves open instances of the generation it deploys.
ServeInv ==
    /\ rt # "closed" =>
          \A n \in DynNames : dyn[n] # 0 => bound[dyn[n]] = deployed /\ closes[dyn[n]] = 0
    /\ rt # "open" => Instances(dyn) = adopted[current]

\* What an operation has set aside is still open; what it has rebound is closed
\* when it aborts.
AsideInv ==
    /\ op \notin Swapped =>
          \A n \in DynNames : entries[n] # 0 => bound[entries[n]] = current /\ closes[entries[n]] = 0
    /\ \A n \in DynNames : rebound[n] # 0 =>
          bound[rebound[n]] = NewGen /\ (closes[rebound[n]] = 1 <=> op = "abort")

\* A generation that a turn holds is not retired.
HoldInv ==
    /\ \A t \in Turns : held[t] = 0 <=> pc[t] \in {"idle", "done"}
    /\ rt # "closed" => \A t \in Turns : held[t] # 0 => genState[held[t]] \in {"live", "retiring"}

\* The router's buses are those of the generations in use.
BusInv ==
    /\ rt = "open" => routerState = "open"
    /\ rt = "closed" => routerState = "closed"
    /\ routerState # "open" => buses = {}
    /\ \A g \in buses :
          genState[g] \in {"live", "retiring", "retired"} \/ (op = "swap" /\ g = NewGen)
    /\ op = "swap" => NewGen \in buses
    /\ routerState = "open" =>
          \A g \in Gens : genState[g] \in {"live", "retiring", "retired"} => g \in buses
    /\ \A g \in busDown : genState[g] = "closed"
    /\ \A x \in SubIds : chan[x] # "none" =>
          \/ genState[x[2]] \notin {"none", "built"}
          \/ x[2] = NewGen /\ op \in {"swap", "rollback", "abort"}

\* Who is attached is subscribed, with a running loop, on every bus of the router.
LinkInv ==
    /\ \A x \in SubIds : x[1] \in attached /\ x[2] \in buses =>
          /\ x \in linked /\ x \notin toClose
          /\ chan[x] = "open" /\ loop[x] = "running"
    /\ \A x \in linked : x[1] \in attached /\ (x[2] \in buses \/ loop[x] = "none")
    /\ \A x \in linked \cup toClose : chan[x] # "none"
    /\ \A a \in ctxDone : a \in External /\ ext[a] = "off"
    /\ rt = "open" => /\ \A t \in Turns : pc[t] = "running" => t \in attached
                      /\ \A a \in External : ext[a] = "on" => a \in attached

\* A loop runs on a subscription that was opened.
LoopInv == \A x \in SubIds : chan[x] = "none" => loop[x] = "none"

\* The inductive invariant.
IndInv ==
    /\ TypeOK
    /\ GenInv /\ OpInv /\ RemovedInv
    /\ BoundInv /\ AdoptInv /\ NameInv /\ ServeInv /\ AsideInv /\ InstancesAreOwned
    /\ HoldInv /\ BusInv /\ LinkInv /\ LoopInv

-----------------------------------------------------------------------------
(* What the operators do. *)

\* The generation under construction is one of the generations.
LEMMA NewGenType == ASSUME TypeOK PROVE NewGen \in Gens
  BY ReloadAssumption DEF TypeOK, NewGen, Gens

\* Instances(es): the instances that entries es hold.
LEMMA InstancesOf ==
    ASSUME NEW es \in [DynNames -> Inst \cup {0}]
    PROVE  /\ Instances(es) \subseteq Inst
           /\ \A i \in Inst : i \in Instances(es) <=> \E n \in DynNames : es[n] = i
           /\ \A n \in DynNames : es[n] # 0 => es[n] \in Instances(es)
  BY ReloadAssumption DEF Instances, Inst

\* Empty entries hold no instance.
LEMMA NoInstances == Instances(NoEntries) = {} /\ NoEntries \in [DynNames -> Inst \cup {0}]
  BY ReloadAssumption DEF Instances, NoEntries, Inst

\* A turn that has started and not ended holds a generation.
LEMMA HeldType ==
    ASSUME IndInv, NEW t \in Turns, pc[t] \notin {"idle", "done"}
    PROVE  held[t] \in Gens
  BY DEF IndInv, TypeOK, HoldInv

\* Release, without its IF: a generation changes only from retiring to retired,
\* and only with its last holder.
LEMMA ReleaseEffect ==
    ASSUME IndInv, NEW t \in Turns, Release(t), held[t] \in Gens
    PROVE  /\ genState' \in [Gens -> States]
           /\ \A g \in Gens : \/ genState'[g] = genState[g]
                              \/ /\ genState[g] = "retiring" /\ genState'[g] = "retired"
                                 /\ Holding(g) = {t}
           /\ held' = [held EXCEPT ![t] = 0] /\ pc' = [pc EXCEPT ![t] = "done"]
  BY DEF Release, IndInv, TypeOK, States

\* ReloadSwap, without its IF: the new generation is live, the old one retired,
\* or retiring while somebody holds it.
LEMMA SwapEffect ==
    ASSUME IndInv, ReloadSwap
    PROVE  /\ genState' \in [Gens -> States]
           /\ genState'[NewGen] = "live" /\ genState'[current] \in {"retiring", "retired"}
           /\ Holding(current) # {} => genState'[current] = "retiring"
           /\ \A g \in Gens \ {NewGen, current} : genState'[g] = genState[g]
           /\ op = "swap" /\ op' \in Swapped /\ epoch' = NewGen
<1>1. NewGen \in Gens /\ current \in Gens /\ NewGen # current /\ genState \in [Gens -> States]
  BY NewGenType DEF ReloadSwap, IndInv, TypeOK, GenInv, Building, States
<1>2. op = "swap" /\ op' \in Swapped /\ epoch' = NewGen
  BY DEF ReloadSwap, Goto, Swapped
<1>3. genState' = [genState EXCEPT ![NewGen] = "live",
                     ![current] = IF Holding(current) # {} THEN "retiring" ELSE "retired"]
  BY DEF ReloadSwap
<1>4. CASE Holding(current) # {}
  <2>1. genState' = [genState EXCEPT ![NewGen] = "live", ![current] = "retiring"]
    BY <1>3, <1>4
  <2> QED
    BY <1>1, <1>2, <1>4, <2>1 DEF States
<1>5. CASE Holding(current) = {}
  <2>1. genState' = [genState EXCEPT ![NewGen] = "live", ![current] = "retired"]
    BY <1>3, <1>5
  <2> QED
    BY <1>1, <1>2, <1>5, <2>1 DEF States
<1> QED
  BY <1>4, <1>5

\* RegisterAgent binds an instance that was never bound: its CHOOSE has a witness,
\* because a nonempty set of numbers has a least element.
LEMMA LeastFresh ==
    ASSUME TypeOK, NEW n \in DynNames, RegisterAgent(n)
    PROVE  \E i \in Inst : /\ bound[i] = 0
                           /\ bound' = [bound EXCEPT ![i] = current]
                           /\ dyn' = [dyn EXCEPT ![n] = i]
<1>1. Fresh \subseteq Nat /\ Fresh # {}
  BY ReloadAssumption DEF Fresh, Inst, RegisterAgent
<1>2. PICK i \in Fresh : \A j \in Fresh : ~ (<<j, i>> \in OpToRel(<, Nat))
  BY <1>1, NatLessThanWellFounded, WFMin
<1>3. \A j \in Fresh : ~ (j < i)
  BY <1>1, <1>2 DEF OpToRel
<1>4. \E k \in Fresh : \A j \in Fresh : k <= j
  BY <1>1, <1>3
<1> DEFINE k == CHOOSE k \in Fresh : \A j \in Fresh : k <= j
<1>5. k \in Fresh
  BY <1>4
<1>6. bound' = [bound EXCEPT ![k] = current] /\ dyn' = [dyn EXCEPT ![n] = k]
  BY DEF RegisterAgent
<1> QED
  BY <1>5, <1>6 DEF Fresh

\* A subscription is a pair of an attachment and a bus.
LEMMA SubIdType == \A x \in SubIds : x[1] \in Attachments /\ x[2] \in Gens
  BY ReloadAssumption DEF SubIds, Gens

\* Membership in a product, by coordinates.
LEMMA InProduct == \A x \in SubIds : \A A, B : x \in A \X B <=> x[1] \in A /\ x[2] \in B
  BY ReloadAssumption DEF SubIds, Gens

\* Attach, subscription by subscription.
LEMMA AttachEffect ==
    ASSUME TypeOK, NEW a \in Attachments, Attach(a)
    PROVE  /\ linked' \subseteq SubIds
           /\ chan' \in [SubIds -> {"none", "open", "closed"}]
           /\ loop' \in [SubIds -> {"none", "running", "exiting", "done"}]
           /\ \A x \in SubIds : x[1] = a /\ x[2] \in buses =>
                x \in linked' /\ chan'[x] = "open" /\ loop'[x] = "running"
           /\ \A x \in SubIds : ~(x[1] = a /\ x[2] \in buses) =>
                (x \in linked' <=> x \in linked) /\ chan'[x] = chan[x] /\ loop'[x] = loop[x]
<1> DEFINE xs == {a} \X buses
<1>1. xs \subseteq SubIds
  BY DEF SubIds, TypeOK
<1>2. \A x \in SubIds : x \in xs <=> x[1] = a /\ x[2] \in buses
  BY InProduct
<1>3. Opened(xs)
  BY DEF Attach
<1> HIDE DEF xs
<1> QED
  BY <1>1, <1>2, <1>3 DEF Opened, TypeOK

\* AddBus, subscription by subscription.
LEMMA AddBusEffect ==
    ASSUME TypeOK, NEW b \in Buses, AddBus(b)
    PROVE  /\ linked' \subseteq SubIds
           /\ chan' \in [SubIds -> {"none", "open", "closed"}]
           /\ loop' \in [SubIds -> {"none", "running", "exiting", "done"}]
           /\ \A x \in SubIds : x[1] \in attached /\ x[2] = b =>
                x \in linked' /\ chan'[x] = "open" /\ loop'[x] = "running"
           /\ \A x \in SubIds : ~(x[1] \in attached /\ x[2] = b) =>
                (x \in linked' <=> x \in linked) /\ chan'[x] = chan[x] /\ loop'[x] = loop[x]
<1> DEFINE xs == attached \X {b}
<1>1. xs \subseteq SubIds
  BY DEF SubIds, TypeOK
<1>2. \A x \in SubIds : x \in xs <=> x[1] \in attached /\ x[2] = b
  BY InProduct
<1>3. Opened(xs)
  BY DEF AddBus
<1> HIDE DEF xs
<1> QED
  BY <1>1, <1>2, <1>3 DEF Opened, TypeOK

\* AddBusFails, subscription by subscription.
LEMMA AddBusFailsEffect ==
    ASSUME TypeOK, NEW b \in Buses, AddBusFails(b)
    PROVE  /\ linked' \subseteq SubIds
           /\ chan' \in [SubIds -> {"none", "open", "closed"}]
           /\ \A x \in SubIds : \/ (x \in linked' <=> x \in linked) /\ chan'[x] = chan[x]
                                \/ x[1] \in attached /\ x[2] = b /\ x \in linked' /\ chan'[x] = "closed"
<1>1. PICK before \in SUBSET attached :
         /\ linked' = linked \cup (before \X {b})
         /\ chan' = [x \in SubIds |-> IF x \in before \X {b} THEN "closed" ELSE chan[x]]
  BY DEF AddBusFails
<1> DEFINE xs == before \X {b}
<1>2. xs \subseteq SubIds
  BY DEF SubIds, TypeOK
<1>3. \A x \in SubIds : x \in xs => x[1] \in attached /\ x[2] = b
  BY InProduct
<1>4. linked' = linked \cup xs /\ chan' = [x \in SubIds |-> IF x \in xs THEN "closed" ELSE chan[x]]
  BY <1>1
<1> HIDE DEF xs
<1> QED
  BY <1>2, <1>3, <1>4 DEF TypeOK

\* What detaching an attachment unlinks and leaves to be closed.
LEMMA DetachEffect ==
    ASSUME TypeOK, NEW a, Detached(a)
    PROVE  /\ attached' = attached \ {a} /\ linked' \subseteq SubIds /\ toClose' \subseteq SubIds
           /\ \A x \in SubIds : x \in linked' <=> x \in linked /\ x[1] # a
           /\ \A x \in SubIds : x \in toClose' <=> (x \in toClose \/ (x \in linked /\ x[1] = a))
  BY DEF Detached, Unlink, SubsOf, TypeOK

\* A loop that detaches its attachment keeps the types of the router.
LEMMA LoopDetachesType ==
    ASSUME IndInv, NEW x \in SubIds, LoopDetaches(x)
    PROVE  RouterType'
<1>1. linked' \subseteq SubIds /\ toClose' \subseteq SubIds /\ attached' \subseteq Attachments
  BY DetachEffect DEF LoopDetaches, IndInv, TypeOK
<1> QED
  BY <1>1 DEF LoopDetaches, IndInv, TypeOK, RouterType

\* CloseAll on instances that are open.
LEMMA CloseEffect ==
    ASSUME TypeOK, NEW S \in SUBSET Inst, \A i \in S : closes[i] = 0, CloseAll(S)
    PROVE  /\ closes' \in [Inst -> 0..1]
           /\ \A i \in S : closes'[i] = 1
           /\ \A i \in Inst \ S : closes'[i] = closes[i]
  BY DEF TypeOK, CloseAll

\* ReloadRebind binds fresh instances to the new generation, and closes them again
\* when it fails.
LEMMA RebindEffect ==
    ASSUME IndInv, ReloadRebind
    PROVE  /\ op = "rebind" /\ op' \in {"drain", "abort"}
           /\ rebound' \in [DynNames -> Inst \cup {0}] /\ OneName(rebound')
           /\ bound' \in [Inst -> Gens \cup {0}] /\ closes' \in [Inst -> 0..1]
           /\ \A i \in Instances(rebound') : bound[i] = 0 /\ bound'[i] = NewGen
           /\ op' = "drain" => \A i \in Instances(rebound') : closes'[i] = 0
           /\ op' = "abort" => \A i \in Instances(rebound') : closes'[i] = 1
           /\ \A i \in Inst \ Instances(rebound') : bound'[i] = bound[i] /\ closes'[i] = closes[i]
<1>1. PICK done \in SUBSET DynNames, f \in [DynNames -> Inst \cup {0}] :
        /\ \A n \in DynNames : IF n \in done THEN f[n] \in Fresh ELSE f[n] = 0
        /\ \A n, k \in done : f[n] = f[k] => n = k
        /\ bound' = [i \in Inst |-> IF i \in Instances(f) THEN NewGen ELSE bound[i]]
        /\ rebound' = f
        /\ (op' = "drain" /\ UNCHANGED closes) \/ (op' = "abort" /\ CloseAll(Instances(f)))
  BY DEF ReloadRebind
<1>2. Instances(f) \in SUBSET Inst /\ \A i \in Instances(f) : bound[i] = 0 /\ closes[i] = 0
  <2>1. \A n \in DynNames : f[n] # 0 => f[n] \in Fresh
    BY <1>1
  <2>2. \A i \in Inst : bound[i] = 0 => closes[i] = 0
    BY DEF IndInv, BoundInv
  <2> QED
    BY <2>1, <2>2 DEF Instances, Fresh
<1>3. OneName(f)
  BY <1>1 DEF OneName
<1>4. NewGen \in Gens /\ op = "rebind" /\ TypeOK
  BY NewGenType DEF ReloadRebind, IndInv
<1>5. /\ bound' \in [Inst -> Gens \cup {0}]
      /\ \A i \in Instances(f) : bound'[i] = NewGen
      /\ \A i \in Inst \ Instances(f) : bound'[i] = bound[i]
  BY <1>1, <1>2, <1>4 DEF TypeOK
<1>6. CASE op' = "drain" /\ UNCHANGED closes
  BY <1>1, <1>2, <1>3, <1>4, <1>5, <1>6 DEF TypeOK
<1>7. CASE op' = "abort" /\ CloseAll(Instances(f))
  <2>1. /\ closes' \in [Inst -> 0..1] /\ \A i \in Instances(f) : closes'[i] = 1
        /\ \A i \in Inst \ Instances(f) : closes'[i] = closes[i]
    BY <1>2, <1>4, <1>7, CloseEffect
  <2> QED
    BY <1>1, <1>2, <1>3, <1>4, <1>5, <1>7, <2>1
<1> QED
  BY <1>1, <1>6, <1>7

\* Undoing a reload closes the rebound instances, which nobody else holds.
LEMMA UndoEffect ==
    ASSUME IndInv, op \in {"draining", "rollback"}, CloseAll(Instances(rebound))
    PROVE  /\ closes' \in [Inst -> 0..1]
           /\ \A n \in DynNames : rebound[n] # 0 => /\ rebound[n] \in Instances(rebound)
                                                    /\ closes'[rebound[n]] = 1
           /\ \A i \in Instances(rebound) : i \in Inst /\ bound[i] = NewGen /\ closes'[i] = 1
           /\ \A i \in Inst \ Instances(rebound) : closes'[i] = closes[i]
           /\ \A i \in Inst : bound[i] # NewGen => closes'[i] = closes[i]
<1>1. /\ Instances(rebound) \in SUBSET Inst
      /\ \A n \in DynNames : rebound[n] # 0 => rebound[n] \in Instances(rebound)
  BY InstancesOf DEF IndInv, TypeOK
<1>2. \A i \in Instances(rebound) : bound[i] = NewGen /\ closes[i] = 0
  BY DEF IndInv, AsideInv, Instances, TypeOK
<1>3. /\ closes' \in [Inst -> 0..1] /\ \A i \in Instances(rebound) : closes'[i] = 1
      /\ \A i \in Inst \ Instances(rebound) : closes'[i] = closes[i]
  BY <1>1, <1>2, CloseEffect DEF IndInv
<1> QED
  BY <1>1, <1>2, <1>3

\* UnregisterDrained closes the instance set aside, which the registry no longer has.
LEMMA DrainedEffect ==
    ASSUME IndInv, UnregisterDrained
    PROVE  /\ closes' \in [Inst -> 0..1]
           /\ entries[opName] \in Inst /\ bound[entries[opName]] = current
           /\ closes'[entries[opName]] = 1
           /\ \A i \in Inst \ {entries[opName]} : closes'[i] = closes[i]
           /\ \A n \in DynNames : dyn[n] # entries[opName]
           /\ op = "unregister" /\ rt = "open"
<1>1. op = "unregister" /\ opName \in DynNames /\ rt = "open"
  BY DEF UnregisterDrained, IndInv, TypeOK, GenInv
<1>2. /\ entries[opName] \in Inst /\ bound[entries[opName]] = current
      /\ closes[entries[opName]] = 0
  BY <1>1 DEF IndInv, TypeOK, OpInv, AsideInv, Swapped
<1>3. {entries[opName]} \in SUBSET Inst /\ \A i \in {entries[opName]} : closes[i] = 0
  BY <1>2
<1>4. /\ closes' \in [Inst -> 0..1] /\ \A i \in {entries[opName]} : closes'[i] = 1
      /\ \A i \in Inst \ {entries[opName]} : closes'[i] = closes[i]
  BY <1>3, CloseEffect DEF UnregisterDrained, IndInv
<1>5. ASSUME NEW n \in DynNames PROVE dyn[n] # entries[opName]
  <2>1. dyn[opName] = 0 /\ entries[opName] # 0 /\ (n # opName => dyn[n] = entries[n])
    BY <1>1 DEF IndInv, OpInv
  <2> QED
    BY <1>1, <2>1 DEF IndInv, NameInv, OneName
<1> QED
  BY <1>1, <1>2, <1>4, <1>5

\* Closing a generation closes what it adopted, for the first time.
LEMMA CloseGenEffect ==
    ASSUME IndInv, NEW g \in Gens, CloseGeneration(g), genState[g] # "closed"
    PROVE  /\ closes' \in [Inst -> 0..1] /\ genState'[g] = "closed"
           /\ \A h \in Gens \ {g} : genState'[h] = genState[h]
           /\ \A i \in adopted[g] : closes'[i] = 1
           /\ \A i \in Inst \ adopted[g] : closes'[i] = closes[i]
           /\ \A i \in adopted[g] : bound[i] = g /\ i \in Inst
<1>1. adopted[g] \in SUBSET Inst /\ \A i \in adopted[g] : closes[i] = 0 /\ bound[i] = g
  BY DEF IndInv, TypeOK, AdoptInv
<1>2. /\ closes' \in [Inst -> 0..1] /\ \A i \in adopted[g] : closes'[i] = 1
      /\ \A i \in Inst \ adopted[g] : closes'[i] = closes[i]
  BY <1>1, CloseEffect DEF IndInv, CloseGeneration
<1> QED
  BY <1>1, <1>2 DEF CloseGeneration, IndInv, TypeOK

-----------------------------------------------------------------------------
(* Every step keeps every part of the invariant. *)

\* GenInv: a reload moves current, the registry and the manager in order.
LEMMA KeptGenInv == ASSUME IndInv, Next PROVE GenInv'
<1> USE ReloadAssumption DEF Gens, Inst, Names
<1>1. ASSUME UNCHANGED <<current, nextGen, genState, op, epoch, deployed, rt>>
      PROVE  GenInv'
  BY <1>1 DEF IndInv, GenInv, NewGen, Building, Replaced, Swapped
<1>2. ASSUME NEW t \in Turns, NEW n \in Names, Capture(t, n) PROVE GenInv'
  BY <1>1, <1>2 DEF Capture, genVars, regVars, opVars
<1>3. ASSUME NEW t \in Turns,
             Reserve(t) \/ Resolve(t) \/ RunTurn(t) \/ FinishTurn(t)
      PROVE  GenInv'
  BY <1>1, <1>3 DEF Reserve, Resolve, RunTurn, FinishTurn, genVars, regVars, opVars
<1>4. ASSUME NEW m \in DynNames, RegisterAgent(m) PROVE GenInv'
  BY <1>1, <1>4 DEF RegisterAgent, genVars, opVars
<1>5. ASSUME CloseRouter \/ RouterDrained \/ RunRouter PROVE GenInv'
  BY <1>1, <1>5 DEF CloseRouter, RouterDrained, RunRouter, genVars, regVars, opVars
<1>6. ASSUME NEW a \in External, AttachExternal(a) \/ LeaveExternal(a) PROVE GenInv'
  BY <1>1, <1>6 DEF AttachExternal, LeaveExternal, genVars, regVars, opVars
<1>7. ASSUME NEW t \in Turns, AbandonStart(t) PROVE GenInv'
  BY <1>7 DEF AbandonStart, Release, regVars, opVars, IndInv, GenInv, NewGen
<1>8. ASSUME NEW t \in Turns, FailStartTurn(t) PROVE GenInv'
  BY <1>8 DEF FailStartTurn, Release, regVars, opVars, IndInv, GenInv, NewGen
<1>9. ASSUME NEW t \in Turns, ReleaseTurn(t) PROVE GenInv'
  BY <1>9 DEF ReleaseTurn, Release, regVars, opVars, IndInv, GenInv, NewGen
<1>10. ASSUME NEW m \in DynNames, UnregisterAgent(m) PROVE GenInv'
  BY <1>10 DEF UnregisterAgent, genVars, IndInv, GenInv, Building, Replaced, Swapped
<1>11. ASSUME UnregisterDrained PROVE GenInv'
  BY <1>11 DEF UnregisterDrained, Unlock, genVars, IndInv, GenInv, Building, Replaced, Swapped
<1>12. ASSUME UnregisterFails PROVE GenInv'
  BY <1>12 DEF UnregisterFails, Unlock, genVars, IndInv, GenInv, Building, Replaced, Swapped
<1>13. ASSUME NEW ds \in Documents, ReloadStart(ds) PROVE GenInv'
  BY <1>13 DEF ReloadStart, Goto, regVars, IndInv, TypeOK, GenInv, NewGen, Building,
     Replaced, Swapped
<1>14. ASSUME ReloadBuild PROVE GenInv'
  <2>1. /\ NewGen \in Gens /\ op = "build" /\ rt = "open" /\ genState[NewGen] = "none" /\ epoch = current
        /\ deployed = current /\ NewGen # epoch /\ UNCHANGED <<current, nextGen, epoch, deployed, rt>>
    BY <1>14, NewGenType DEF ReloadBuild, IndInv, TypeOK, GenInv, Swapped, Replaced, regVars
  <2>2. CASE Unlock /\ UNCHANGED genState
    BY <2>1, <2>2 DEF Unlock, IndInv, GenInv, Building, Replaced, Swapped
  <2>3. CASE Goto("resolve") /\ genState' = [genState EXCEPT ![NewGen] = "built"]
    <3>1. /\ op' = "resolve" /\ genState'[NewGen] = "built"
          /\ \A g \in Gens \ {NewGen} : genState'[g] = genState[g]
      BY <2>1, <2>3 DEF Goto, IndInv, TypeOK
    <3>2. NewGen' = NewGen /\ NewGen < nextGen /\ nextGen \in Nat /\ epoch \in Gens
      BY <2>1 DEF NewGen, IndInv, TypeOK
    <3> QED
      BY <2>1, <3>1, <3>2 DEF IndInv, GenInv, Building, Replaced, Swapped
  <2> QED
    BY <1>14, <2>2, <2>3 DEF ReloadBuild
<1>15. ASSUME ReloadResolve PROVE GenInv'
  BY <1>15 DEF ReloadResolve, Goto, genVars, regVars, IndInv, GenInv, NewGen, Building,
     Replaced, Swapped
<1>16. ASSUME ReloadSharedBus PROVE GenInv'
  BY <1>16 DEF ReloadSharedBus, AbortClosing, Unlock, regVars, IndInv, TypeOK, GenInv,
     Building, Replaced, Swapped
<1>17. ASSUME ReloadAbort PROVE GenInv'
  BY <1>17 DEF ReloadAbort, AbortClosing, Unlock, regVars, IndInv, TypeOK, GenInv, Building,
     Replaced, Swapped
<1>18. ASSUME ReloadRebind PROVE GenInv'
  BY <1>18 DEF ReloadRebind, genVars, IndInv, GenInv, NewGen, Building, Replaced, Swapped
<1>19. ASSUME NEW d \in DepNames, DrainRemoved(d) PROVE GenInv'
  BY <1>19 DEF DrainRemoved, genVars, regVars, IndInv, GenInv, NewGen, Building, Replaced,
     Swapped
<1>20. ASSUME RemovedDrained PROVE GenInv'
  BY <1>20 DEF RemovedDrained, Goto, genVars, regVars, IndInv, GenInv, NewGen, Building,
     Replaced, Swapped
<1>21. ASSUME DrainFails PROVE GenInv'
  BY <1>21 DEF DrainFails, Goto, genVars, IndInv, GenInv, NewGen, Building, Replaced, Swapped
<1>22. ASSUME ReloadReopen PROVE GenInv'
  BY <1>22 DEF ReloadReopen, Goto, genVars, regVars, IndInv, GenInv, NewGen, Building,
     Replaced, Swapped
<1>23. ASSUME ReloadReplace PROVE GenInv'
  BY <1>23 DEF ReloadReplace, Goto, IndInv, GenInv, NewGen, Building, Replaced, Swapped
<1>24. ASSUME ReloadAddBus PROVE GenInv'
  BY <1>24 DEF ReloadAddBus, Goto, genVars, regVars, IndInv, GenInv, NewGen, Building,
     Replaced, Swapped
<1>25. ASSUME RollbackTo PROVE GenInv'
  BY <1>25 DEF RollbackTo, Goto, IndInv, GenInv, NewGen, Building, Replaced, Swapped
<1>26. ASSUME ReloadSwap PROVE GenInv'
  <2>1. NewGen \in Gens /\ UNCHANGED <<routerVars, current, nextGen, regVars, rt, turnVars>>
    BY <1>26, NewGenType DEF ReloadSwap, IndInv
  <2> QED
    <3>1. doc \in [Gens -> SUBSET DepNames] /\ current \in Gens /\ nextGen \in 2..(MaxGen + 1)
      BY DEF IndInv, TypeOK
    <3> QED
      BY <1>26, <2>1, <3>1, SwapEffect DEF ReloadSwap, IndInv, regVars, NewGen, GenInv,
         Building, Replaced, Swapped
<1>27. ASSUME ReloadFinish PROVE GenInv'
  BY <1>27 DEF ReloadFinish, Unlock, regVars, IndInv, TypeOK, GenInv, Building, Replaced,
     Swapped
<1>28. ASSUME NEW g \in Gens, RetireUnroute(g) PROVE GenInv'
  <2>1. /\ genState[g] = "retired" /\ genState'[g] = "unrouted"
        /\ \A h \in Gens \ {g} : genState'[h] = genState[h]
    BY <1>28 DEF RetireUnroute, CloseGeneration, IndInv, TypeOK
  <2>2. UNCHANGED <<current, nextGen, op, epoch, deployed, rt>>
    BY <1>28 DEF RetireUnroute, opVars, regVars
  <2>3. g # epoch /\ epoch \in Gens /\ NewGen \in Gens
    BY <2>1, NewGenType DEF GenInv, IndInv, TypeOK
  <2> QED
    BY <2>1, <2>2, <2>3 DEF IndInv, GenInv, NewGen
<1>29. ASSUME NEW g \in Gens, RetireClose(g) PROVE GenInv'
  <2>1. /\ genState[g] = "unrouted" /\ genState'[g] = "closed"
        /\ \A h \in Gens \ {g} : genState'[h] = genState[h]
    BY <1>29 DEF RetireClose, CloseGeneration, IndInv, TypeOK
  <2>2. UNCHANGED <<current, nextGen, op, epoch, deployed, rt>>
    BY <1>29 DEF RetireClose, opVars, regVars
  <2>3. g # epoch /\ epoch \in Gens /\ NewGen \in Gens
    BY <2>1, NewGenType DEF GenInv, IndInv, TypeOK
  <2> QED
    BY <2>1, <2>2, <2>3 DEF IndInv, GenInv, NewGen
<1>30. ASSUME RuntimeClose PROVE GenInv'
  BY <1>30 DEF RuntimeClose, regVars, opVars, IndInv, GenInv, NewGen
<1>31. ASSUME CloseCurrent PROVE GenInv'
  BY <1>31 DEF CloseCurrent, CloseGeneration, opVars, IndInv, TypeOK, GenInv, NewGen, Swapped
<1> QED
  BY <1>1, <1>2, <1>3, <1>4, <1>5, <1>6, <1>7, <1>8, <1>9, <1>10, <1>11, <1>12, <1>13, <1>14,
     <1>15, <1>16, <1>17, <1>18, <1>19, <1>20, <1>21, <1>22, <1>23, <1>24, <1>25, <1>26,
     <1>27, <1>28, <1>29, <1>30, <1>31 DEF Next, TurnStep, LifecycleStep, RetireStep

\* OpInv: entries and rebound instances follow the phase of the operation.
LEMMA KeptOpInv == ASSUME IndInv, Next PROVE OpInv'
<1> USE ReloadAssumption DEF Gens, Inst, Names
<1>1. ASSUME UNCHANGED <<op, opName, entries, rebound, drains, dyn, adopted, current>>
      PROVE  OpInv'
  BY <1>1 DEF IndInv, OpInv, NewGen, Building, Replaced, NoEntries, NoDrains, Instances, Fresh
<1>2. ASSUME NEW t \in Turns, NEW n \in Names, Capture(t, n) PROVE OpInv'
  BY <1>1, <1>2 DEF Capture, genVars, regVars, opVars
<1>3. ASSUME NEW t \in Turns,
             \/ Reserve(t) \/ Resolve(t) \/ RunTurn(t) \/ AbandonStart(t)
             \/ FailStartTurn(t) \/ FinishTurn(t) \/ ReleaseTurn(t)
      PROVE  OpInv'
  BY <1>1, <1>3 DEF Reserve, Resolve, RunTurn, AbandonStart, FailStartTurn, FinishTurn,
     ReleaseTurn, genVars, regVars, opVars
<1>4. ASSUME NEW g \in Gens, RetireUnroute(g) \/ RetireClose(g) PROVE OpInv'
  BY <1>1, <1>4 DEF RetireUnroute, RetireClose, CloseGeneration, regVars, opVars
<1>5. ASSUME CloseRouter \/ RouterDrained \/ CloseCurrent \/ RunRouter PROVE OpInv'
  BY <1>1, <1>5 DEF CloseRouter, RouterDrained, CloseCurrent, CloseGeneration, RunRouter,
     genVars, regVars, opVars
<1>6. ASSUME NEW a \in External, AttachExternal(a) \/ LeaveExternal(a) PROVE OpInv'
  BY <1>1, <1>6 DEF AttachExternal, LeaveExternal, genVars, regVars, opVars
<1>7. ASSUME NEW m \in DynNames, RegisterAgent(m) PROVE OpInv'
  BY <1>7 DEF RegisterAgent, genVars, opVars, IndInv, OpInv, Replaced
<1>8. ASSUME NEW m \in DynNames, UnregisterAgent(m) PROVE OpInv'
  BY <1>8 DEF UnregisterAgent, genVars, IndInv, TypeOK, OpInv, Replaced
<1>9. ASSUME UnregisterDrained PROVE OpInv'
  BY <1>9 DEF UnregisterDrained, Unlock, genVars, IndInv, OpInv, Replaced
<1>10. ASSUME UnregisterFails PROVE OpInv'
  BY <1>10 DEF UnregisterFails, Unlock, genVars, IndInv, OpInv, Replaced
<1>11. ASSUME NEW ds \in Documents, ReloadStart(ds) PROVE OpInv'
  BY <1>11 DEF ReloadStart, Goto, regVars, IndInv, OpInv, Replaced
<1>12. ASSUME ReloadBuild PROVE OpInv'
  BY <1>12 DEF ReloadBuild, Unlock, Goto, regVars, IndInv, OpInv, Replaced
<1>13. ASSUME ReloadResolve PROVE OpInv'
  BY <1>13 DEF ReloadResolve, Goto, genVars, regVars, IndInv, OpInv, Replaced
<1>14. ASSUME ReloadSharedBus PROVE OpInv'
  BY <1>14 DEF ReloadSharedBus, AbortClosing, Unlock, regVars, IndInv, OpInv, Replaced
<1>15. ASSUME ReloadAbort PROVE OpInv'
  BY <1>15 DEF ReloadAbort, AbortClosing, Unlock, regVars, IndInv, OpInv, Replaced
<1>16. ASSUME ReloadRebind PROVE OpInv'
  BY <1>16 DEF ReloadRebind, genVars, IndInv, OpInv, Replaced
<1>17. ASSUME NEW d \in DepNames, DrainRemoved(d) PROVE OpInv'
  BY <1>17 DEF DrainRemoved, genVars, regVars, IndInv, OpInv, Replaced
<1>18. ASSUME RemovedDrained PROVE OpInv'
  BY <1>18 DEF RemovedDrained, Goto, genVars, regVars, IndInv, OpInv, Replaced
<1>19. ASSUME DrainFails PROVE OpInv'
  BY <1>19 DEF DrainFails, Goto, genVars, IndInv, OpInv, Replaced
<1>20. ASSUME ReloadReopen PROVE OpInv'
  BY <1>20 DEF ReloadReopen, Goto, genVars, regVars, IndInv, OpInv, Replaced
<1>21. ASSUME ReloadReplace PROVE OpInv'
  BY <1>21 DEF ReloadReplace, Goto, IndInv, TypeOK, OpInv
<1>22. ASSUME ReloadAddBus PROVE OpInv'
  BY <1>22 DEF ReloadAddBus, Goto, genVars, regVars, IndInv, OpInv, Replaced
<1>23. ASSUME RollbackTo PROVE OpInv'
  BY <1>23 DEF RollbackTo, Goto, IndInv, OpInv, Replaced
<1>24. ASSUME ReloadSwap PROVE OpInv'
  BY <1>24 DEF ReloadSwap, Goto, regVars, IndInv, OpInv, Replaced
<1>25. ASSUME ReloadFinish PROVE OpInv'
  BY <1>25 DEF ReloadFinish, Unlock, regVars, IndInv, OpInv, Replaced
<1>26. ASSUME RuntimeClose PROVE OpInv'
  BY <1>26 DEF RuntimeClose, regVars, opVars, IndInv, OpInv
<1> QED
  BY <1>1, <1>2, <1>3, <1>4, <1>5, <1>6, <1>7, <1>8, <1>9, <1>10, <1>11, <1>12, <1>13, <1>14,
     <1>15, <1>16, <1>17, <1>18, <1>19, <1>20, <1>21, <1>22, <1>23, <1>24, <1>25, <1>26 DEF
     Next, TurnStep, LifecycleStep, RetireStep

\* RemovedInv: an abort takes back the tombstones it attempted, a commit has none left.
LEMMA KeptRemovedInv == ASSUME IndInv, Next PROVE RemovedInv'
<1> USE ReloadAssumption DEF Gens, Inst, Names
<1>1. ASSUME UNCHANGED <<removed, unregistered, doc, current, drains, op, nextGen>>
      PROVE  RemovedInv'
  BY <1>1 DEF IndInv, RemovedInv, NewGen, NoDrains
<1>2. ASSUME NEW t \in Turns, NEW n \in Names, Capture(t, n) PROVE RemovedInv'
  BY <1>1, <1>2 DEF tombs, Capture, genVars, opVars
<1>3. ASSUME NEW t \in Turns,
             \/ Reserve(t) \/ Resolve(t) \/ RunTurn(t) \/ AbandonStart(t)
             \/ FailStartTurn(t) \/ FinishTurn(t) \/ ReleaseTurn(t)
      PROVE  RemovedInv'
  BY <1>1, <1>3 DEF tombs, Reserve, Resolve, RunTurn, AbandonStart, FailStartTurn, FinishTurn,
     ReleaseTurn, genVars, opVars
<1>4. ASSUME NEW g \in Gens, RetireUnroute(g) \/ RetireClose(g) PROVE RemovedInv'
  BY <1>1, <1>4 DEF tombs, RetireUnroute, RetireClose, CloseGeneration, opVars
<1>5. ASSUME \/ RuntimeClose \/ CloseRouter \/ RouterDrained \/ CloseCurrent
             \/ RunRouter
      PROVE  RemovedInv'
  BY <1>1, <1>5 DEF tombs, RuntimeClose, CloseRouter, RouterDrained, CloseCurrent, CloseGeneration,
     RunRouter, genVars, opVars
<1>6. ASSUME NEW a \in External,
             AttachExternal(a) \/ LeaveExternal(a)
      PROVE  RemovedInv'
  BY <1>1, <1>6 DEF tombs, AttachExternal, LeaveExternal, genVars, opVars
<1>7. ASSUME NEW m \in DynNames, RegisterAgent(m) PROVE RemovedInv'
  BY <1>7 DEF Reopen, RegisterAgent, genVars, opVars, IndInv, RemovedInv
<1>8. ASSUME NEW m \in DynNames, UnregisterAgent(m) PROVE RemovedInv'
  BY <1>8 DEF Tombstone, UnregisterAgent, genVars, IndInv, TypeOK, RemovedInv
<1>9. ASSUME UnregisterDrained PROVE RemovedInv'
  BY <1>9 DEF ClosesSessions, UnregisterDrained, Unlock, genVars, IndInv, RemovedInv, OpInv
<1>10. ASSUME UnregisterFails PROVE RemovedInv'
  BY <1>10 DEF DrainError, ClosesSessions, tombs, UnregisterFails, Unlock, genVars, IndInv, RemovedInv, OpInv
<1>11. ASSUME NEW ds \in Documents, ReloadStart(ds) PROVE RemovedInv'
  BY <1>11 DEF tombs, ReloadStart, Goto, IndInv, TypeOK, RemovedInv, GenInv
<1>12. ASSUME ReloadBuild PROVE RemovedInv'
  BY <1>12 DEF tombs, ReloadBuild, Unlock, Goto, IndInv, RemovedInv, OpInv
<1>13. ASSUME ReloadResolve PROVE RemovedInv'
  BY <1>13 DEF tombs, ReloadResolve, Goto, genVars, IndInv, RemovedInv
<1>14. ASSUME ReloadSharedBus PROVE RemovedInv'
  BY <1>14 DEF Reopen, ReloadSharedBus, AbortClosing, Unlock, IndInv, RemovedInv
<1>15. ASSUME ReloadAbort PROVE RemovedInv'
  BY <1>15 DEF Reopen, ReloadAbort, AbortClosing, Unlock, IndInv, RemovedInv
<1>16. ASSUME ReloadRebind PROVE RemovedInv'
  BY <1>16 DEF tombs, ReloadRebind, genVars, IndInv, RemovedInv, OpInv, NoDrains
<1>17. ASSUME NEW d \in DepNames, DrainRemoved(d) PROVE RemovedInv'
  BY <1>17 DEF Tombstone, DrainRemoved, genVars, IndInv, RemovedInv
<1>18. ASSUME RemovedDrained PROVE RemovedInv'
  BY <1>18 DEF ClosesSessions, RemovedDrained, Goto, genVars, IndInv, RemovedInv
<1>19. ASSUME DrainFails PROVE RemovedInv'
  BY <1>19 DEF DrainError, ClosesSessions, tombs, DrainFails, Goto, genVars, IndInv, RemovedInv
<1>20. ASSUME ReloadReopen PROVE RemovedInv'
  BY <1>20 DEF Reopen, ReloadReopen, Goto, genVars, IndInv, RemovedInv, NewGen
<1>21. ASSUME ReloadReplace PROVE RemovedInv'
  BY <1>21 DEF tombs, ReloadReplace, Goto, IndInv, RemovedInv, NewGen
<1>22. ASSUME ReloadAddBus PROVE RemovedInv'
  BY <1>22 DEF tombs, ReloadAddBus, Goto, genVars, IndInv, RemovedInv, NewGen
<1>23. ASSUME RollbackTo PROVE RemovedInv'
  BY <1>23 DEF tombs, RollbackTo, Goto, IndInv, RemovedInv
<1>24. ASSUME ReloadSwap PROVE RemovedInv'
  BY <1>24 DEF tombs, ReloadSwap, Goto, IndInv, RemovedInv, NewGen
<1>25. ASSUME ReloadFinish PROVE RemovedInv'
  BY <1>25 DEF tombs, ReloadFinish, Unlock, IndInv, RemovedInv
<1> QED
  BY <1>1, <1>2, <1>3, <1>4, <1>5, <1>6, <1>7, <1>8, <1>9, <1>10, <1>11, <1>12, <1>13, <1>14,
     <1>15, <1>16, <1>17, <1>18, <1>19, <1>20, <1>21, <1>22, <1>23, <1>24, <1>25 DEF Next,
     TurnStep, LifecycleStep, RetireStep

\* BoundInv: only bound instances are closed.
LEMMA KeptBoundInv == ASSUME IndInv, Next PROVE BoundInv'
<1> USE ReloadAssumption DEF Gens, Inst, Names
<1>1. ASSUME UNCHANGED <<bound, closes>>
      PROVE  BoundInv'
  BY <1>1 DEF IndInv, BoundInv
<1>2. ASSUME NEW t \in Turns, NEW n \in Names, Capture(t, n) PROVE BoundInv'
  BY <1>1, <1>2 DEF Capture, regVars
<1>3. ASSUME NEW t \in Turns,
             \/ Reserve(t) \/ Resolve(t) \/ RunTurn(t) \/ AbandonStart(t)
             \/ FailStartTurn(t) \/ FinishTurn(t) \/ ReleaseTurn(t)
      PROVE  BoundInv'
  BY <1>1, <1>3 DEF Reserve, Resolve, RunTurn, AbandonStart, FailStartTurn, FinishTurn,
     ReleaseTurn, regVars
<1>4. ASSUME NEW m \in DynNames, UnregisterAgent(m) PROVE BoundInv'
  BY <1>1, <1>4 DEF UnregisterAgent
<1>5. ASSUME \/ UnregisterFails \/ ReloadBuild \/ ReloadResolve \/ ReloadSharedBus
             \/ ReloadAbort \/ RemovedDrained \/ ReloadReopen \/ ReloadReplace
             \/ ReloadAddBus \/ ReloadSwap \/ ReloadFinish \/ RuntimeClose
             \/ CloseRouter \/ RouterDrained \/ RunRouter
      PROVE  BoundInv'
  BY <1>1, <1>5 DEF UnregisterFails, ReloadBuild, ReloadResolve, ReloadSharedBus,
     AbortClosing, ReloadAbort, RemovedDrained, ReloadReopen, ReloadReplace, ReloadAddBus,
     ReloadSwap, ReloadFinish, RuntimeClose, CloseRouter, RouterDrained, RunRouter, regVars
<1>6. ASSUME NEW ds \in Documents, ReloadStart(ds) PROVE BoundInv'
  BY <1>1, <1>6 DEF ReloadStart, regVars
<1>7. ASSUME NEW d \in DepNames, DrainRemoved(d) PROVE BoundInv'
  BY <1>1, <1>7 DEF DrainRemoved, regVars
<1>8. ASSUME NEW g \in Gens, RetireUnroute(g) PROVE BoundInv'
  BY <1>1, <1>8 DEF RetireUnroute, regVars
<1>9. ASSUME NEW a \in External, AttachExternal(a) \/ LeaveExternal(a) PROVE BoundInv'
  BY <1>1, <1>9 DEF AttachExternal, LeaveExternal, regVars
<1>10. ASSUME NEW m \in DynNames, RegisterAgent(m) PROVE BoundInv'
  BY <1>10 DEF RegisterAgent, IndInv, TypeOK, BoundInv
<1>11. ASSUME UnregisterDrained PROVE BoundInv'
  <2>1. UNCHANGED bound /\ current # 0
    BY <1>11 DEF UnregisterDrained, IndInv, TypeOK, Gens
  <2> QED
    BY <1>11, <2>1, DrainedEffect DEF IndInv, BoundInv
<1>12. ASSUME ReloadRebind PROVE BoundInv'
  <2>1. NewGen # 0
    BY NewGenType DEF IndInv, Gens
  <2> QED
    BY <1>12, <2>1, RebindEffect DEF IndInv, BoundInv
<1>13. ASSUME DrainFails PROVE BoundInv'
  <2>1. op \in {"draining", "rollback"} /\ CloseAll(Instances(rebound)) /\ UNCHANGED bound
    BY <1>13 DEF DrainFails, regVars
  <2>2. NewGen # 0
    BY NewGenType DEF IndInv, Gens
  <2> QED
    BY <2>1, <2>2, UndoEffect DEF IndInv, TypeOK, BoundInv
<1>14. ASSUME RollbackTo PROVE BoundInv'
  <2>1. op \in {"draining", "rollback"} /\ CloseAll(Instances(rebound)) /\ UNCHANGED bound
    BY <1>14 DEF RollbackTo, regVars
  <2>2. NewGen # 0
    BY NewGenType DEF IndInv, Gens
  <2> QED
    BY <2>1, <2>2, UndoEffect DEF IndInv, TypeOK, BoundInv
<1>15. ASSUME NEW g \in Gens, RetireClose(g) PROVE BoundInv'
  BY <1>15 DEF RetireClose, CloseGeneration, CloseAll, IndInv, BoundInv, AdoptInv
<1>16. ASSUME CloseCurrent PROVE BoundInv'
  BY <1>16 DEF CloseCurrent, CloseGeneration, CloseAll, IndInv, TypeOK, BoundInv, AdoptInv
<1> QED
  BY <1>1, <1>2, <1>3, <1>4, <1>5, <1>6, <1>7, <1>8, <1>9, <1>10, <1>11, <1>12, <1>13, <1>14,
     <1>15, <1>16 DEF Next, TurnStep, LifecycleStep, RetireStep

\* AdoptInv: freezing adopts what is bound to the generation, a rollback gives it back.
LEMMA KeptAdoptInv == ASSUME IndInv, Next PROVE AdoptInv'
<1> USE ReloadAssumption DEF Gens, Inst, Names
<1>1. ASSUME UNCHANGED <<adopted, bound, closes, genState, op, rt>>
      PROVE  AdoptInv'
  BY <1>1 DEF IndInv, AdoptInv, NewGen, Building, Swapped
<1>2. ASSUME NEW t \in Turns, NEW n \in Names, Capture(t, n) PROVE AdoptInv'
  BY <1>1, <1>2 DEF Capture, genVars, regVars, opVars
<1>3. ASSUME NEW t \in Turns,
             Reserve(t) \/ Resolve(t) \/ RunTurn(t) \/ FinishTurn(t)
      PROVE  AdoptInv'
  BY <1>1, <1>3 DEF Reserve, Resolve, RunTurn, FinishTurn, genVars, regVars, opVars
<1>4. ASSUME CloseRouter \/ RouterDrained \/ RunRouter PROVE AdoptInv'
  BY <1>1, <1>4 DEF CloseRouter, RouterDrained, RunRouter, genVars, regVars, opVars
<1>5. ASSUME NEW a \in External, AttachExternal(a) \/ LeaveExternal(a) PROVE AdoptInv'
  BY <1>1, <1>5 DEF AttachExternal, LeaveExternal, genVars, regVars, opVars
<1>6. ASSUME NEW t \in Turns, AbandonStart(t) PROVE AdoptInv'
  <2>1. Release(t) /\ UNCHANGED <<adopted, bound, closes, op, rt>>
    BY <1>6 DEF AbandonStart, opVars, regVars
  <2>2. held[t] \in Gens
    BY <1>6, HeldType DEF AbandonStart
  <2> QED
    BY <2>1, <2>2, ReleaseEffect DEF IndInv, AdoptInv
<1>7. ASSUME NEW t \in Turns, FailStartTurn(t) PROVE AdoptInv'
  <2>1. Release(t) /\ UNCHANGED <<adopted, bound, closes, op, rt>>
    BY <1>7 DEF FailStartTurn, opVars, regVars
  <2>2. held[t] \in Gens
    BY <1>7, HeldType DEF FailStartTurn
  <2> QED
    BY <2>1, <2>2, ReleaseEffect DEF IndInv, AdoptInv
<1>8. ASSUME NEW t \in Turns, ReleaseTurn(t) PROVE AdoptInv'
  <2>1. Release(t) /\ UNCHANGED <<adopted, bound, closes, op, rt>>
    BY <1>8 DEF ReleaseTurn, opVars, regVars
  <2>2. held[t] \in Gens
    BY <1>8, HeldType DEF ReleaseTurn
  <2> QED
    BY <2>1, <2>2, ReleaseEffect DEF IndInv, AdoptInv
<1>9. ASSUME NEW m \in DynNames, RegisterAgent(m) PROVE AdoptInv'
  <2>1. op = "idle" /\ rt = "open" /\ dyn[m] = 0 /\ TypeOK
        /\ UNCHANGED <<current, closes, deployed, adopted, genState, op, rt, entries, rebound>>
    BY <1>9 DEF RegisterAgent, IndInv, genVars, opVars
  <2>2. PICK i \in Inst : /\ bound[i] = 0 /\ bound' = [bound EXCEPT ![i] = current]
                         /\ dyn' = [dyn EXCEPT ![m] = i]
    BY <1>9, <2>1, LeastFresh
  <2>3. \A g \in Gens : \A k \in adopted[g] : k \in Inst /\ k # i
    BY <2>1, <2>2 DEF IndInv, TypeOK, AdoptInv, Gens
  <2> QED
    BY <2>1, <2>2, <2>3 DEF IndInv, TypeOK, AdoptInv
<1>10. ASSUME NEW m \in DynNames, UnregisterAgent(m) PROVE AdoptInv'
  BY <1>10 DEF UnregisterAgent, genVars, IndInv, AdoptInv
<1>11. ASSUME UnregisterDrained PROVE AdoptInv'
  <2>1. UNCHANGED <<adopted, bound, genState, rt>> /\ genState[current] = "live"
    BY <1>11, DrainedEffect DEF UnregisterDrained, genVars, IndInv, GenInv, Swapped
  <2>2. \A g \in Gens : adopted[g] # {} => genState[g] \notin {"none", "built", "live"}
    BY <1>11, DrainedEffect DEF IndInv, AdoptInv
  <2>3. \A g \in Gens : \A i \in adopted[g] : i \in Inst /\ bound[i] # current
    BY <2>1, <2>2 DEF IndInv, TypeOK, AdoptInv
  <2> QED
    BY <1>11, <2>1, <2>2, <2>3, DrainedEffect, SMTT(30) DEF IndInv, TypeOK, AdoptInv
<1>12. ASSUME UnregisterFails PROVE AdoptInv'
  BY <1>12 DEF UnregisterFails, genVars, IndInv, AdoptInv
<1>13. ASSUME NEW ds \in Documents, ReloadStart(ds) PROVE AdoptInv'
  BY <1>13 DEF ReloadStart, regVars, IndInv, AdoptInv
<1>14. ASSUME ReloadBuild PROVE AdoptInv'
  <2>1. NewGen \in Gens /\ op = "build" /\ genState[NewGen] = "none" /\ rt = "open"
    BY <1>14, NewGenType DEF ReloadBuild, IndInv, TypeOK, GenInv
  <2>2. UNCHANGED <<adopted, bound, closes, rt>> /\ genState' \in {genState, [genState EXCEPT ![NewGen] = "built"]}
    BY <1>14 DEF ReloadBuild, regVars
  <2>3. \A g \in Gens : \A i \in adopted[g] : g # NewGen /\ genState[g] # "live"
    BY <2>1 DEF IndInv, AdoptInv
  <2>4. \A g \in Gens \ {NewGen} : genState'[g] = genState[g]
    BY <2>2 DEF IndInv, TypeOK
  <2> QED
    BY <2>2, <2>3, <2>4 DEF IndInv, AdoptInv
<1>15. ASSUME ReloadResolve PROVE AdoptInv'
  BY <1>15 DEF ReloadResolve, genVars, regVars, IndInv, AdoptInv
<1>16. ASSUME ReloadSharedBus PROVE AdoptInv'
  <2>1. NewGen \in Gens /\ genState[NewGen] = "built" /\ rt = "open" /\ op \in {"abort", "resolve"}
    BY <1>16, NewGenType DEF ReloadSharedBus, IndInv, TypeOK, GenInv, Building
  <2>2. UNCHANGED <<adopted, bound, closes, rt>> /\ genState' = [genState EXCEPT ![NewGen] = "closed"]
    BY <1>16 DEF ReloadSharedBus, AbortClosing, regVars
  <2>3. \A g \in Gens : \A i \in adopted[g] : g # NewGen /\ genState[g] # "live"
    BY <2>1 DEF IndInv, AdoptInv
  <2> QED
    BY <2>1, <2>2, <2>3 DEF IndInv, TypeOK, AdoptInv
<1>17. ASSUME ReloadAbort PROVE AdoptInv'
  <2>1. NewGen \in Gens /\ genState[NewGen] = "built" /\ rt = "open" /\ op \in {"abort", "resolve"}
    BY <1>17, NewGenType DEF ReloadAbort, IndInv, TypeOK, GenInv, Building
  <2>2. UNCHANGED <<adopted, bound, closes, rt>> /\ genState' = [genState EXCEPT ![NewGen] = "closed"]
    BY <1>17 DEF ReloadAbort, AbortClosing, regVars
  <2>3. \A g \in Gens : \A i \in adopted[g] : g # NewGen /\ genState[g] # "live"
    BY <2>1 DEF IndInv, AdoptInv
  <2> QED
    BY <2>1, <2>2, <2>3 DEF IndInv, TypeOK, AdoptInv
<1>18. ASSUME ReloadRebind PROVE AdoptInv'
  <2>1. UNCHANGED <<adopted, genState, rt>> /\ rt = "open"
    BY <1>18 DEF ReloadRebind, genVars, IndInv, GenInv
  <2>2. \A g \in Gens : \A i \in adopted[g] : i \in Inst /\ bound[i] # 0 /\ genState[g] # "live"
    BY <1>18, <2>1, RebindEffect, SMTT(30) DEF IndInv, TypeOK, AdoptInv, Gens
  <2>3. \A i \in Inst : bound[i] # 0 => bound'[i] = bound[i] /\ closes'[i] = closes[i]
    BY <1>18, RebindEffect
  <2> QED
    BY <2>1, <2>2, <2>3 DEF IndInv, AdoptInv
<1>19. ASSUME NEW d \in DepNames, DrainRemoved(d) PROVE AdoptInv'
  BY <1>19 DEF DrainRemoved, genVars, regVars, IndInv, AdoptInv
<1>20. ASSUME RemovedDrained PROVE AdoptInv'
  BY <1>20 DEF RemovedDrained, genVars, regVars, IndInv, AdoptInv
<1>21. ASSUME DrainFails PROVE AdoptInv'
  <2>1. op \in {"draining", "rollback"} /\ CloseAll(Instances(rebound)) /\ UNCHANGED bound
    BY <1>21 DEF DrainFails, regVars
  <2>2. NewGen \in Gens /\ current \in Gens /\ current # NewGen /\ adopted[NewGen] = {}
    BY <2>1, NewGenType DEF IndInv, TypeOK, GenInv, AdoptInv, Building
  <2>3. UNCHANGED <<genState, rt>> /\ (adopted' = adopted \/ adopted' = [adopted EXCEPT ![current] = {}])
    BY <1>21 DEF DrainFails, genVars
  <2>4. \A i \in Inst : bound[i] # NewGen => closes'[i] = closes[i]
    BY <2>1, UndoEffect
  <2>5. \A g \in Gens : \A i \in adopted'[g] : i \in adopted[g]
    BY <2>2, <2>3 DEF IndInv, TypeOK
  <2>6. \A g \in Gens \ {NewGen} : \A i \in adopted[g] : i \in Inst /\ bound[i] # NewGen
    BY <2>2 DEF IndInv, TypeOK, AdoptInv
  <2>7. \A g \in Gens : adopted'[g] # {} => genState[g] # "live"
    BY <1>21, <2>2, <2>3 DEF DrainFails, IndInv, TypeOK, GenInv, AdoptInv, Swapped
  <2> QED
    BY <2>1, <2>2, <2>3, <2>4, <2>5, <2>6, <2>7 DEF IndInv, AdoptInv
<1>22. ASSUME ReloadReopen PROVE AdoptInv'
  BY <1>22 DEF ReloadReopen, genVars, regVars, IndInv, AdoptInv
<1>23. ASSUME ReloadReplace PROVE AdoptInv'
  <2>1. current \in Gens /\ genState[current] = "live" /\ rt = "open"
        /\ UNCHANGED <<bound, closes, genState>>
    BY <1>23 DEF ReloadReplace, IndInv, TypeOK, GenInv, Swapped, regVars
  <2>2. adopted' = [adopted EXCEPT ![current] = Instances(entries)]
    BY <1>23 DEF ReloadReplace
  <2>3. \A i \in Instances(entries) : bound[i] = current /\ closes[i] = 0
    BY <1>23, <2>1 DEF ReloadReplace, Instances, IndInv, TypeOK, GenInv, AsideInv, Replaced,
       Swapped
  <2>4. \A g \in Gens : \A i \in adopted[g] : genState[g] # "live"
    BY <1>23, <2>1 DEF ReloadReplace, IndInv, AdoptInv
  <2>5. \A g \in Gens : \A i \in adopted'[g] :
            (g = current /\ i \in Instances(entries)) \/ (g # current /\ i \in adopted[g])
    BY <2>2 DEF IndInv, TypeOK
  <2>6. op' = "addbus"
    BY <1>23 DEF ReloadReplace, Goto
  <2> QED
    BY <2>1, <2>3, <2>4, <2>5, <2>6 DEF IndInv, AdoptInv
<1>24. ASSUME ReloadAddBus PROVE AdoptInv'
  BY <1>24 DEF ReloadAddBus, Goto, genVars, regVars, IndInv, AdoptInv
<1>25. ASSUME RollbackTo PROVE AdoptInv'
  <2>1. op \in {"draining", "rollback"} /\ CloseAll(Instances(rebound)) /\ UNCHANGED bound
    BY <1>25 DEF RollbackTo, regVars
  <2>2. NewGen \in Gens /\ current \in Gens /\ current # NewGen /\ adopted[NewGen] = {}
    BY <2>1, NewGenType DEF IndInv, TypeOK, GenInv, AdoptInv, Building
  <2>3. UNCHANGED <<genState, rt>> /\ (adopted' = adopted \/ adopted' = [adopted EXCEPT ![current] = {}])
    BY <1>25 DEF RollbackTo, genVars
  <2>4. \A i \in Inst : bound[i] # NewGen => closes'[i] = closes[i]
    BY <2>1, UndoEffect
  <2>5. \A g \in Gens : \A i \in adopted'[g] : i \in adopted[g]
    BY <2>2, <2>3 DEF IndInv, TypeOK
  <2>6. \A g \in Gens \ {NewGen} : \A i \in adopted[g] : i \in Inst /\ bound[i] # NewGen
    BY <2>2 DEF IndInv, TypeOK, AdoptInv
  <2>7. \A g \in Gens : adopted'[g] # {} => genState[g] # "live"
    BY <1>25, <2>2, <2>3 DEF RollbackTo, IndInv, TypeOK, GenInv, AdoptInv, Swapped
  <2> QED
    BY <2>1, <2>2, <2>3, <2>4, <2>5, <2>6, <2>7 DEF IndInv, AdoptInv
<1>26. ASSUME ReloadSwap PROVE AdoptInv'
  <2>1. /\ NewGen \in Gens /\ current \in Gens /\ current # NewGen /\ genState[NewGen] = "built"
        /\ genState[current] = "live" /\ rt = "open" /\ UNCHANGED <<adopted, bound, closes, rt>>
    BY <1>26, NewGenType DEF ReloadSwap, IndInv, TypeOK, GenInv, Building, Swapped, regVars
  <2>2. /\ genState'[current] \in {"retiring", "retired"}
        /\ \A g \in Gens \ {NewGen, current} : genState'[g] = genState[g]
    BY <1>26, SwapEffect
  <2>3. \A g \in Gens : \A i \in adopted[g] : g # NewGen /\ (g # current => genState[g] # "live")
    BY <2>1 DEF IndInv, AdoptInv, GenInv, Swapped
  <2> QED
    BY <2>1, <2>2, <2>3 DEF IndInv, AdoptInv
<1>27. ASSUME ReloadFinish PROVE AdoptInv'
  BY <1>27 DEF ReloadFinish, regVars, IndInv, AdoptInv
<1>28. ASSUME NEW g \in Gens, RetireUnroute(g) PROVE AdoptInv'
  BY <1>28 DEF RetireUnroute, regVars, opVars, IndInv, AdoptInv
<1>29. ASSUME NEW g \in Gens, RetireClose(g) PROVE AdoptInv'
  BY <1>29 DEF RetireClose, CloseGeneration, CloseAll, opVars, IndInv, TypeOK, AdoptInv
<1>30. ASSUME RuntimeClose PROVE AdoptInv'
  <2>1. current \in Gens /\ genState[current] = "live" /\ rt = "open"
        /\ UNCHANGED <<bound, closes, genState>>
    BY <1>30 DEF RuntimeClose, IndInv, TypeOK, GenInv, Swapped, regVars
  <2>2. adopted' = [adopted EXCEPT ![current] = Instances(dyn)]
    BY <1>30 DEF RuntimeClose
  <2>3. \A i \in Instances(dyn) : bound[i] = current /\ closes[i] = 0
    BY <1>30, <2>1 DEF RuntimeClose, Instances, IndInv, TypeOK, GenInv, ServeInv, Replaced,
       Swapped
  <2>4. \A g \in Gens : \A i \in adopted[g] : genState[g] # "live"
    BY <1>30, <2>1 DEF RuntimeClose, IndInv, AdoptInv
  <2>5. \A g \in Gens : \A i \in adopted'[g] :
            (g = current /\ i \in Instances(dyn)) \/ (g # current /\ i \in adopted[g])
    BY <2>2 DEF IndInv, TypeOK
  <2>6. rt' = "closing"
    BY <1>30 DEF RuntimeClose, Goto
  <2> QED
    BY <2>1, <2>3, <2>4, <2>5, <2>6 DEF IndInv, AdoptInv
<1>31. ASSUME CloseCurrent PROVE AdoptInv'
  BY <1>31 DEF CloseCurrent, CloseGeneration, CloseAll, opVars, IndInv, TypeOK, AdoptInv,
     GenInv, Swapped
<1> QED
  BY <1>1, <1>2, <1>3, <1>4, <1>5, <1>6, <1>7, <1>8, <1>9, <1>10, <1>11, <1>12, <1>13, <1>14,
     <1>15, <1>16, <1>17, <1>18, <1>19, <1>20, <1>21, <1>22, <1>23, <1>24, <1>25, <1>26,
     <1>27, <1>28, <1>29, <1>30, <1>31 DEF Next, TurnStep, LifecycleStep, RetireStep

\* NameInv: instances are given to one name only.
LEMMA KeptNameInv == ASSUME IndInv, Next PROVE NameInv'
<1> USE ReloadAssumption DEF Gens, Inst, Names
<1>1. ASSUME UNCHANGED <<dyn, entries, rebound>>
      PROVE  NameInv'
  BY <1>1 DEF IndInv, NameInv, NoEntries, OneName
<1>2. ASSUME NEW t \in Turns, NEW n \in Names, Capture(t, n) PROVE NameInv'
  BY <1>1, <1>2 DEF Capture, regVars, opVars
<1>3. ASSUME NEW t \in Turns,
             \/ Reserve(t) \/ Resolve(t) \/ RunTurn(t) \/ AbandonStart(t)
             \/ FailStartTurn(t) \/ FinishTurn(t) \/ ReleaseTurn(t)
      PROVE  NameInv'
  BY <1>1, <1>3 DEF Reserve, Resolve, RunTurn, AbandonStart, FailStartTurn, FinishTurn,
     ReleaseTurn, regVars, opVars
<1>4. ASSUME NEW ds \in Documents, ReloadStart(ds) PROVE NameInv'
  BY <1>1, <1>4 DEF ReloadStart, Goto, regVars
<1>5. ASSUME \/ ReloadResolve \/ RemovedDrained \/ DrainFails \/ ReloadReopen
             \/ ReloadAddBus \/ ReloadSwap \/ RuntimeClose \/ CloseRouter
             \/ RouterDrained \/ CloseCurrent \/ RunRouter
      PROVE  NameInv'
  BY <1>1, <1>5 DEF ReloadResolve, Goto, RemovedDrained, DrainFails, ReloadReopen,
     ReloadAddBus, ReloadSwap, RuntimeClose, CloseRouter, RouterDrained, CloseCurrent,
     CloseGeneration, RunRouter, regVars, opVars
<1>6. ASSUME NEW d \in DepNames, DrainRemoved(d) PROVE NameInv'
  BY <1>1, <1>6 DEF DrainRemoved, regVars
<1>7. ASSUME NEW g \in Gens, RetireUnroute(g) \/ RetireClose(g) PROVE NameInv'
  BY <1>1, <1>7 DEF RetireUnroute, RetireClose, CloseGeneration, regVars, opVars
<1>8. ASSUME NEW a \in External, AttachExternal(a) \/ LeaveExternal(a) PROVE NameInv'
  BY <1>1, <1>8 DEF AttachExternal, LeaveExternal, regVars, opVars
<1>9. ASSUME NEW m \in DynNames, RegisterAgent(m) PROVE NameInv'
  <2>1. op = "idle" /\ rt = "open" /\ dyn[m] = 0 /\ TypeOK
        /\ UNCHANGED <<current, closes, deployed, adopted, genState, op, rt, entries, rebound>>
    BY <1>9 DEF RegisterAgent, IndInv, genVars, opVars
  <2>2. PICK i \in Inst : /\ bound[i] = 0 /\ bound' = [bound EXCEPT ![i] = current]
                         /\ dyn' = [dyn EXCEPT ![m] = i]
    BY <1>9, <2>1, LeastFresh
  <2>a. 0 \notin Inst /\ deployed # 0
    BY DEF IndInv, TypeOK, Gens, Inst
  <2>3. \A n \in DynNames : dyn[n] # i
    BY <2>1, <2>2, <2>a DEF IndInv, ServeInv
  <2> QED
    BY <2>1, <2>2, <2>3 DEF IndInv, TypeOK, NameInv, OneName
<1>10. ASSUME NEW m \in DynNames, UnregisterAgent(m) PROVE NameInv'
  BY <1>10 DEF UnregisterAgent, IndInv, NameInv, OneName
<1>11. ASSUME UnregisterDrained PROVE NameInv'
  BY <1>11 DEF UnregisterDrained, Unlock, IndInv, NameInv, NoEntries, OneName
<1>12. ASSUME UnregisterFails PROVE NameInv'
  BY <1>12 DEF UnregisterFails, Unlock, IndInv, NameInv, NoEntries, OneName
<1>13. ASSUME ReloadBuild PROVE NameInv'
  BY <1>13 DEF ReloadBuild, Unlock, Goto, regVars, IndInv, NameInv, NoEntries, OneName
<1>14. ASSUME ReloadSharedBus PROVE NameInv'
  BY <1>14 DEF ReloadSharedBus, AbortClosing, Unlock, regVars, IndInv, NameInv, NoEntries,
     OneName
<1>15. ASSUME ReloadAbort PROVE NameInv'
  BY <1>15 DEF ReloadAbort, AbortClosing, Unlock, regVars, IndInv, NameInv, NoEntries, OneName
<1>16. ASSUME ReloadRebind PROVE NameInv'
  BY <1>16 DEF ReloadRebind, IndInv, NameInv, OneName
<1>17. ASSUME ReloadReplace PROVE NameInv'
  BY <1>17 DEF ReloadReplace, Goto, IndInv, NameInv
<1>18. ASSUME RollbackTo PROVE NameInv'
  BY <1>18 DEF RollbackTo, Goto, IndInv, NameInv
<1>19. ASSUME ReloadFinish PROVE NameInv'
  BY <1>19 DEF ReloadFinish, Unlock, regVars, IndInv, NameInv, NoEntries, OneName
<1> QED
  BY <1>1, <1>2, <1>3, <1>4, <1>5, <1>6, <1>7, <1>8, <1>9, <1>10, <1>11, <1>12, <1>13, <1>14,
     <1>15, <1>16, <1>17, <1>18, <1>19 DEF Next, TurnStep, LifecycleStep, RetireStep

\* ServeInv: the registry is swapped and restored together with the generation.
LEMMA KeptServeInv == ASSUME IndInv, Next PROVE ServeInv'
<1> USE ReloadAssumption DEF Gens, Inst, Names
<1>1. ASSUME UNCHANGED <<dyn, bound, closes, deployed, rt, adopted, current>>
      PROVE  ServeInv'
  BY <1>1 DEF IndInv, ServeInv, NewGen, Building, Replaced, Swapped
<1>2. ASSUME NEW t \in Turns, NEW n \in Names, Capture(t, n) PROVE ServeInv'
  BY <1>1, <1>2 DEF Capture, genVars, regVars
<1>3. ASSUME NEW t \in Turns,
             \/ Reserve(t) \/ Resolve(t) \/ RunTurn(t) \/ AbandonStart(t)
             \/ FailStartTurn(t) \/ FinishTurn(t) \/ ReleaseTurn(t)
      PROVE  ServeInv'
  BY <1>1, <1>3 DEF Reserve, Resolve, RunTurn, AbandonStart, FailStartTurn, FinishTurn,
     ReleaseTurn, genVars, regVars
<1>4. ASSUME NEW ds \in Documents, ReloadStart(ds) PROVE ServeInv'
  BY <1>1, <1>4 DEF ReloadStart, regVars
<1>5. ASSUME \/ ReloadBuild \/ ReloadResolve \/ ReloadSharedBus \/ ReloadAbort
             \/ RemovedDrained \/ ReloadReopen \/ ReloadAddBus \/ ReloadSwap
             \/ CloseRouter \/ RouterDrained \/ RunRouter
      PROVE  ServeInv'
  BY <1>1, <1>5 DEF ReloadBuild, ReloadResolve, ReloadSharedBus, AbortClosing, ReloadAbort,
     RemovedDrained, ReloadReopen, ReloadAddBus, ReloadSwap, CloseRouter, RouterDrained,
     RunRouter, genVars, regVars
<1>6. ASSUME NEW d \in DepNames, DrainRemoved(d) PROVE ServeInv'
  BY <1>1, <1>6 DEF DrainRemoved, genVars, regVars
<1>7. ASSUME NEW g \in Gens, RetireUnroute(g) PROVE ServeInv'
  BY <1>1, <1>7 DEF RetireUnroute, regVars
<1>8. ASSUME NEW a \in External, AttachExternal(a) \/ LeaveExternal(a) PROVE ServeInv'
  BY <1>1, <1>8 DEF AttachExternal, LeaveExternal, genVars, regVars
<1>9. ASSUME NEW m \in DynNames, RegisterAgent(m) PROVE ServeInv'
  <2>1. op = "idle" /\ rt = "open" /\ dyn[m] = 0 /\ TypeOK
        /\ UNCHANGED <<current, closes, deployed, adopted, genState, op, rt, entries, rebound>>
    BY <1>9 DEF RegisterAgent, IndInv, genVars, opVars
  <2>2. PICK i \in Inst : /\ bound[i] = 0 /\ bound' = [bound EXCEPT ![i] = current]
                         /\ dyn' = [dyn EXCEPT ![m] = i]
    BY <1>9, <2>1, LeastFresh
  <2>a. 0 \notin Inst /\ deployed # 0
    BY DEF IndInv, TypeOK, Gens, Inst
  <2>3. \A n \in DynNames : dyn[n] # i
    BY <2>1, <2>2, <2>a DEF IndInv, ServeInv
  <2>4. deployed = current /\ closes[i] = 0
    BY <2>1, <2>2 DEF IndInv, GenInv, Replaced, BoundInv
  <2> QED
    BY <1>9, <2>1, <2>2, <2>3, <2>4 DEF IndInv, TypeOK, ServeInv
<1>10. ASSUME NEW m \in DynNames, UnregisterAgent(m) PROVE ServeInv'
  BY <1>10 DEF UnregisterAgent, genVars, IndInv, ServeInv
<1>11. ASSUME UnregisterDrained PROVE ServeInv'
  <2>1. UNCHANGED <<dyn, bound, deployed, rt, adopted, current>>
    BY <1>11 DEF UnregisterDrained, genVars
  <2> QED
    BY <1>11, <2>1, DrainedEffect, SMTT(30) DEF IndInv, TypeOK, ServeInv
<1>12. ASSUME UnregisterFails PROVE ServeInv'
  BY <1>12 DEF UnregisterFails, genVars, IndInv, ServeInv, GenInv, AsideInv, Replaced,
     Swapped
<1>13. ASSUME ReloadRebind PROVE ServeInv'
  <2>1. UNCHANGED <<dyn, deployed, rt, adopted, current>> /\ rt = "open" /\ deployed # 0
    BY <1>13 DEF ReloadRebind, genVars, IndInv, GenInv, TypeOK, Gens
  <2>2. \A n \in DynNames : dyn[n] # 0 => /\ dyn[n] \in Inst /\ closes[dyn[n]] = 0
                                         /\ bound[dyn[n]] = deployed
    BY <2>1 DEF IndInv, TypeOK, ServeInv
  <2> QED
    BY <1>13, <2>1, <2>2, RebindEffect DEF ServeInv
<1>14. ASSUME DrainFails PROVE ServeInv'
  <2>1. op \in {"draining", "rollback"} /\ CloseAll(Instances(rebound)) /\ UNCHANGED bound
    BY <1>14 DEF DrainFails, regVars
  <2>2. NewGen # current /\ rt = "open" /\ deployed' = current /\ dyn' = entries /\ UNCHANGED rt
    BY <1>14, <2>1 DEF DrainFails, IndInv, GenInv, OpInv, Building, Replaced
  <2>3. \A n \in DynNames : entries[n] # 0 => /\ entries[n] \in Inst
                                             /\ bound[entries[n]] = current /\ closes[entries[n]] = 0
    BY <2>1 DEF IndInv, AsideInv, TypeOK, Swapped
  <2> QED
    BY <2>1, <2>2, <2>3, UndoEffect DEF ServeInv
<1>15. ASSUME ReloadReplace PROVE ServeInv'
  BY <1>15 DEF ReloadReplace, IndInv, TypeOK, ServeInv, GenInv, AsideInv
<1>16. ASSUME RollbackTo PROVE ServeInv'
  <2>1. op \in {"draining", "rollback"} /\ CloseAll(Instances(rebound)) /\ UNCHANGED bound
    BY <1>16 DEF RollbackTo, regVars
  <2>2. NewGen # current /\ rt = "open" /\ deployed' = current /\ dyn' = entries /\ UNCHANGED rt
    BY <1>16, <2>1 DEF RollbackTo, IndInv, GenInv, OpInv, Building, Replaced
  <2>3. \A n \in DynNames : entries[n] # 0 => /\ entries[n] \in Inst
                                             /\ bound[entries[n]] = current /\ closes[entries[n]] = 0
    BY <2>1 DEF IndInv, AsideInv, TypeOK, Swapped
  <2> QED
    BY <2>1, <2>2, <2>3, UndoEffect DEF ServeInv
<1>17. ASSUME ReloadFinish PROVE ServeInv'
  BY <1>17 DEF ReloadFinish, regVars, IndInv, ServeInv, GenInv
<1>18. ASSUME NEW g \in Gens, RetireClose(g) PROVE ServeInv'
  BY <1>18 DEF RetireClose, CloseGeneration, CloseAll, IndInv, TypeOK, ServeInv, GenInv,
     AdoptInv, Building, Replaced, Swapped
<1>19. ASSUME RuntimeClose PROVE ServeInv'
  BY <1>19 DEF RuntimeClose, regVars, IndInv, TypeOK, ServeInv
<1>20. ASSUME CloseCurrent PROVE ServeInv'
  BY <1>20 DEF CloseCurrent, CloseGeneration, IndInv, ServeInv
<1> QED
  BY <1>1, <1>2, <1>3, <1>4, <1>5, <1>6, <1>7, <1>8, <1>9, <1>10, <1>11, <1>12, <1>13, <1>14,
     <1>15, <1>16, <1>17, <1>18, <1>19, <1>20 DEF Next, TurnStep, LifecycleStep, RetireStep

\* AsideInv: only an abort closes what was rebound.
LEMMA KeptAsideInv == ASSUME IndInv, Next PROVE AsideInv'
<1> USE ReloadAssumption DEF Gens, Inst, Names
<1>1. ASSUME UNCHANGED <<entries, rebound, bound, closes, current, nextGen, op>>
      PROVE  AsideInv'
  BY <1>1 DEF IndInv, AsideInv, NoEntries, NewGen, Building, Replaced, Swapped
<1>2. ASSUME NEW t \in Turns, NEW n \in Names, Capture(t, n) PROVE AsideInv'
  BY <1>1, <1>2 DEF Capture, genVars, regVars, opVars
<1>3. ASSUME NEW t \in Turns,
             \/ Reserve(t) \/ Resolve(t) \/ RunTurn(t) \/ AbandonStart(t)
             \/ FailStartTurn(t) \/ FinishTurn(t) \/ ReleaseTurn(t)
      PROVE  AsideInv'
  BY <1>1, <1>3 DEF Reserve, Resolve, RunTurn, AbandonStart, FailStartTurn, FinishTurn,
     ReleaseTurn, genVars, regVars, opVars
<1>4. ASSUME NEW g \in Gens, RetireUnroute(g) PROVE AsideInv'
  BY <1>1, <1>4 DEF RetireUnroute, regVars, opVars
<1>5. ASSUME RuntimeClose \/ CloseRouter \/ RouterDrained \/ RunRouter
      PROVE  AsideInv'
  BY <1>1, <1>5 DEF RuntimeClose, CloseRouter, RouterDrained, RunRouter, genVars, regVars,
     opVars
<1>6. ASSUME NEW a \in External, AttachExternal(a) \/ LeaveExternal(a) PROVE AsideInv'
  BY <1>1, <1>6 DEF AttachExternal, LeaveExternal, genVars, regVars, opVars
<1>7. ASSUME NEW m \in DynNames, RegisterAgent(m) PROVE AsideInv'
  BY <1>7 DEF RegisterAgent, genVars, opVars, IndInv, AsideInv, OpInv, NoEntries
<1>8. ASSUME NEW m \in DynNames, UnregisterAgent(m) PROVE AsideInv'
  BY <1>8 DEF UnregisterAgent, genVars, IndInv, AsideInv, GenInv, ServeInv, NewGen, Replaced
<1>9. ASSUME UnregisterDrained PROVE AsideInv'
  BY <1>9 DEF UnregisterDrained, Unlock, genVars, IndInv, AsideInv, NoEntries
<1>10. ASSUME UnregisterFails PROVE AsideInv'
  BY <1>10 DEF UnregisterFails, Unlock, genVars, IndInv, AsideInv, NoEntries
<1>11. ASSUME NEW ds \in Documents, ReloadStart(ds) PROVE AsideInv'
  BY <1>11 DEF ReloadStart, Goto, regVars, IndInv, AsideInv, OpInv, NoEntries
<1>12. ASSUME ReloadBuild PROVE AsideInv'
  BY <1>12 DEF ReloadBuild, Unlock, Goto, regVars, IndInv, AsideInv, NoEntries, NewGen, Swapped
<1>13. ASSUME ReloadResolve PROVE AsideInv'
  BY <1>13 DEF ReloadResolve, Goto, genVars, regVars, IndInv, AsideInv, OpInv, NoEntries
<1>14. ASSUME ReloadSharedBus PROVE AsideInv'
  BY <1>14 DEF ReloadSharedBus, AbortClosing, Unlock, regVars, IndInv, AsideInv, NoEntries
<1>15. ASSUME ReloadAbort PROVE AsideInv'
  BY <1>15 DEF ReloadAbort, AbortClosing, Unlock, regVars, IndInv, AsideInv, NoEntries
<1>16. ASSUME ReloadRebind PROVE AsideInv'
  <2>1. UNCHANGED <<current, nextGen>> /\ entries' = dyn /\ rt = "open" /\ deployed = current /\ current # 0
    BY <1>16 DEF ReloadRebind, genVars, IndInv, GenInv, TypeOK, Gens, Replaced
  <2>2. \A n \in DynNames : dyn[n] # 0 => /\ dyn[n] \in Inst /\ closes[dyn[n]] = 0
                                         /\ bound[dyn[n]] = current
    BY <2>1 DEF IndInv, TypeOK, ServeInv
  <2>3. rebound' \in [DynNames -> Inst \cup {0}] /\ op' \in {"drain", "abort"}
    BY <1>16, RebindEffect
  <2>4. \A n \in DynNames : rebound'[n] # 0 => rebound'[n] \in Instances(rebound')
    BY <2>3, InstancesOf
  <2>5. \A n \in DynNames : rebound'[n] # 0 =>
           bound'[rebound'[n]] = NewGen /\ (closes'[rebound'[n]] = 1 <=> op' = "abort")
    BY <1>16, <2>3, <2>4, RebindEffect
  <2>6. \A n \in DynNames : dyn[n] # 0 => bound'[dyn[n]] = current /\ closes'[dyn[n]] = 0
    BY <1>16, <2>1, <2>2, RebindEffect
  <2> QED
    BY <2>1, <2>5, <2>6 DEF AsideInv, NewGen
<1>17. ASSUME NEW d \in DepNames, DrainRemoved(d) PROVE AsideInv'
  BY <1>17 DEF DrainRemoved, genVars, regVars, IndInv, AsideInv, NewGen, Swapped
<1>18. ASSUME RemovedDrained PROVE AsideInv'
  BY <1>18 DEF RemovedDrained, Goto, genVars, regVars, IndInv, AsideInv, NewGen, Swapped
<1>19. ASSUME DrainFails PROVE AsideInv'
  <2>1. op \in {"draining", "rollback"} /\ CloseAll(Instances(rebound)) /\ UNCHANGED bound
    BY <1>19 DEF DrainFails, regVars
  <2>2. NewGen # current /\ op' = "abort" /\ UNCHANGED <<entries, rebound, current, nextGen>>
    BY <1>19, <2>1 DEF DrainFails, Goto, genVars, IndInv, GenInv, Building
  <2>3. \A n \in DynNames : entries[n] # 0 => /\ entries[n] \in Inst
                                             /\ bound[entries[n]] = current /\ closes[entries[n]] = 0
    BY <2>1 DEF IndInv, AsideInv, TypeOK, Swapped
  <2> QED
    BY <2>1, <2>2, <2>3, UndoEffect DEF AsideInv, NewGen, Swapped
<1>20. ASSUME ReloadReopen PROVE AsideInv'
  BY <1>20 DEF ReloadReopen, Goto, genVars, regVars, IndInv, AsideInv, NewGen, Swapped
<1>21. ASSUME ReloadReplace PROVE AsideInv'
  BY <1>21 DEF ReloadReplace, Goto, IndInv, AsideInv, NewGen, Swapped
<1>22. ASSUME ReloadAddBus PROVE AsideInv'
  BY <1>22 DEF ReloadAddBus, Goto, genVars, regVars, IndInv, AsideInv, NewGen, Swapped
<1>23. ASSUME RollbackTo PROVE AsideInv'
  <2>1. op \in {"draining", "rollback"} /\ CloseAll(Instances(rebound)) /\ UNCHANGED bound
    BY <1>23 DEF RollbackTo, regVars
  <2>2. NewGen # current /\ op' = "abort" /\ UNCHANGED <<entries, rebound, current, nextGen>>
    BY <1>23, <2>1 DEF RollbackTo, Goto, genVars, IndInv, GenInv, Building
  <2>3. \A n \in DynNames : entries[n] # 0 => /\ entries[n] \in Inst
                                             /\ bound[entries[n]] = current /\ closes[entries[n]] = 0
    BY <2>1 DEF IndInv, AsideInv, TypeOK, Swapped
  <2> QED
    BY <2>1, <2>2, <2>3, UndoEffect DEF AsideInv, NewGen, Swapped
<1>24. ASSUME ReloadSwap PROVE AsideInv'
  BY <1>24 DEF ReloadSwap, Goto, regVars, IndInv, AsideInv, NewGen, Swapped
<1>25. ASSUME ReloadFinish PROVE AsideInv'
  BY <1>25 DEF ReloadFinish, Unlock, regVars, IndInv, AsideInv, NoEntries
<1>26. ASSUME NEW g \in Gens, RetireClose(g) PROVE AsideInv'
  BY <1>26 DEF RetireClose, CloseGeneration, CloseAll, opVars, IndInv, TypeOK, AsideInv,
     GenInv, OpInv, AdoptInv, NoEntries, NewGen, Building, Swapped
<1>27. ASSUME CloseCurrent PROVE AsideInv'
  BY <1>27 DEF CloseCurrent, CloseGeneration, opVars, IndInv, AsideInv, GenInv, OpInv, NoEntries
<1> QED
  BY <1>1, <1>2, <1>3, <1>4, <1>5, <1>6, <1>7, <1>8, <1>9, <1>10, <1>11, <1>12, <1>13, <1>14,
     <1>15, <1>16, <1>17, <1>18, <1>19, <1>20, <1>21, <1>22, <1>23, <1>24, <1>25, <1>26,
     <1>27 DEF Next, TurnStep, LifecycleStep, RetireStep

\* HoldInv: a generation is retired when nobody holds it, and nobody captures it then.
LEMMA KeptHoldInv == ASSUME IndInv, Next PROVE HoldInv'
<1> USE ReloadAssumption DEF Gens, Inst, Names
<1>1. ASSUME UNCHANGED <<held, pc, rt, genState>>
      PROVE  HoldInv'
  BY <1>1 DEF IndInv, HoldInv, Building, NewGen
<1>2. ASSUME NEW m \in DynNames, RegisterAgent(m) \/ UnregisterAgent(m) PROVE HoldInv'
  BY <1>1, <1>2 DEF RegisterAgent, UnregisterAgent, genVars, turnVars
<1>3. ASSUME \/ UnregisterDrained \/ UnregisterFails \/ ReloadResolve
             \/ ReloadRebind \/ RemovedDrained \/ DrainFails \/ ReloadReopen
             \/ ReloadReplace \/ ReloadAddBus \/ RollbackTo \/ ReloadFinish
             \/ CloseRouter \/ RouterDrained \/ RunRouter
      PROVE  HoldInv'
  BY <1>1, <1>3 DEF UnregisterDrained, UnregisterFails, ReloadResolve, ReloadRebind,
     RemovedDrained, DrainFails, ReloadReopen, ReloadReplace, ReloadAddBus, RollbackTo,
     ReloadFinish, CloseRouter, RouterDrained, RunRouter, genVars, turnVars
<1>4. ASSUME NEW ds \in Documents, ReloadStart(ds) PROVE HoldInv'
  BY <1>1, <1>4 DEF ReloadStart, turnVars
<1>5. ASSUME NEW d \in DepNames, DrainRemoved(d) PROVE HoldInv'
  BY <1>1, <1>5 DEF DrainRemoved, genVars, turnVars
<1>6. ASSUME NEW a \in External, AttachExternal(a) \/ LeaveExternal(a) PROVE HoldInv'
  BY <1>1, <1>6 DEF AttachExternal, LeaveExternal, genVars, turnVars
<1>7. ASSUME NEW t \in Turns, NEW n \in Names, Capture(t, n) PROVE HoldInv'
  BY <1>7 DEF Capture, genVars, IndInv, TypeOK, HoldInv, GenInv
<1>8. ASSUME NEW t \in Turns, Reserve(t) PROVE HoldInv'
  BY <1>8 DEF Reserve, genVars, IndInv, HoldInv
<1>9. ASSUME NEW t \in Turns, Resolve(t) PROVE HoldInv'
  BY <1>9 DEF Resolve, genVars, IndInv, HoldInv
<1>10. ASSUME NEW t \in Turns, RunTurn(t) PROVE HoldInv'
  BY <1>10 DEF RunTurn, genVars, IndInv, HoldInv
<1>11. ASSUME NEW t \in Turns, AbandonStart(t) PROVE HoldInv'
  BY <1>11 DEF AbandonStart, Release, Holding, IndInv, TypeOK, HoldInv
<1>12. ASSUME NEW t \in Turns, FailStartTurn(t) PROVE HoldInv'
  BY <1>12 DEF FailStartTurn, Release, Holding, IndInv, TypeOK, HoldInv
<1>13. ASSUME NEW t \in Turns, FinishTurn(t) PROVE HoldInv'
  BY <1>13 DEF FinishTurn, genVars, IndInv, HoldInv
<1>14. ASSUME NEW t \in Turns, ReleaseTurn(t) PROVE HoldInv'
  BY <1>14 DEF ReleaseTurn, Release, Holding, IndInv, TypeOK, HoldInv
<1>15. ASSUME ReloadBuild PROVE HoldInv'
  <2>0. NewGen \in Gens /\ op = "build" /\ genState[NewGen] = "none" /\ rt = "open"
    BY <1>15, NewGenType DEF ReloadBuild, IndInv, TypeOK, GenInv, Building
  <2>1. CASE Unlock /\ UNCHANGED genState
    BY <1>15, <2>0, <2>1 DEF ReloadBuild, Unlock, IndInv, turnVars, NewGen, HoldInv
  <2>2. CASE Goto("resolve") /\ genState' = [genState EXCEPT ![NewGen] = "built"]
    BY <1>15, <2>0, <2>2 DEF ReloadBuild, Goto, IndInv, TypeOK, turnVars, NewGen, HoldInv
  <2> QED
    BY <1>15, <2>1, <2>2 DEF ReloadBuild
<1>16. ASSUME ReloadSharedBus PROVE HoldInv'
  BY <1>16 DEF ReloadSharedBus, AbortClosing, turnVars, IndInv, HoldInv, GenInv, Building
<1>17. ASSUME ReloadAbort PROVE HoldInv'
  BY <1>17 DEF ReloadAbort, AbortClosing, turnVars, IndInv, HoldInv, GenInv, Building
<1>18. ASSUME ReloadSwap PROVE HoldInv'
  <2>1. /\ NewGen \in Gens /\ current \in Gens /\ current # NewGen /\ genState[NewGen] = "built"
        /\ rt = "open" /\ UNCHANGED <<held, pc, rt>>
    BY <1>18, NewGenType DEF ReloadSwap, IndInv, TypeOK, GenInv, Building, turnVars
  <2>2. ASSUME NEW t \in Turns, held[t] # 0 PROVE genState'[held[t]] \in {"live", "retiring"}
    <3>1. held[t] \in Gens /\ genState[held[t]] \in {"live", "retiring"}
      BY <2>1, <2>2 DEF IndInv, TypeOK, HoldInv
    <3>2. held[t] = current => genState'[current] = "retiring"
      BY <1>18, SwapEffect DEF Holding
    <3> QED
      BY <1>18, <2>1, <3>1, <3>2, SwapEffect
  <2> QED
    BY <2>1, <2>2 DEF IndInv, HoldInv
<1>19. ASSUME NEW g \in Gens, RetireUnroute(g) PROVE HoldInv'
  BY <1>19 DEF RetireUnroute, turnVars, IndInv, HoldInv
<1>20. ASSUME NEW g \in Gens, RetireClose(g) PROVE HoldInv'
  BY <1>20 DEF RetireClose, CloseGeneration, turnVars, IndInv, HoldInv
<1>21. ASSUME RuntimeClose PROVE HoldInv'
  BY <1>21 DEF RuntimeClose, turnVars, IndInv, HoldInv
<1>22. ASSUME CloseCurrent PROVE HoldInv'
  BY <1>22 DEF CloseCurrent, CloseGeneration, turnVars, IndInv, HoldInv
<1> QED
  BY <1>1, <1>2, <1>3, <1>4, <1>5, <1>6, <1>7, <1>8, <1>9, <1>10, <1>11, <1>12, <1>13, <1>14,
     <1>15, <1>16, <1>17, <1>18, <1>19, <1>20, <1>21, <1>22 DEF Next, TurnStep,
     LifecycleStep, RetireStep

\* BusInv: buses are added before the swap and removed before they are closed.
LEMMA KeptBusInv == ASSUME IndInv, Next PROVE BusInv'
<1> USE ReloadAssumption DEF Gens, Inst, Names
<1>1. ASSUME UNCHANGED <<rt, routerState, buses, genState, op, nextGen, busDown, chan>>
      PROVE  BusInv'
  BY <1>1 DEF IndInv, BusInv, NewGen, Building, Swapped
<1>2. ASSUME NEW t \in Turns, NEW n \in Names, Capture(t, n) PROVE BusInv'
  BY <1>1, <1>2 DEF Capture, routerVars, genVars, opVars
<1>3. ASSUME NEW t \in Turns, Reserve(t) \/ Resolve(t) \/ FinishTurn(t) PROVE BusInv'
  BY <1>1, <1>3 DEF Reserve, Resolve, FinishTurn, Stop, Detached, routerVars, genVars, opVars
<1>4. ASSUME NEW m \in DynNames, RegisterAgent(m) PROVE BusInv'
  BY <1>1, <1>4 DEF RegisterAgent, routerVars, genVars, opVars
<1>5. ASSUME NEW a \in External, LeaveExternal(a) PROVE BusInv'
  BY <1>1, <1>5 DEF LeaveExternal, Stop, CancelCtx, LoopDetaches, Detached, genVars, opVars
<1>6. ASSUME NEW t \in Turns, RunTurn(t) PROVE BusInv'
  <2>1. /\ t \in Attachments /\ Attach(t)
        /\ UNCHANGED <<rt, routerState, buses, genState, op, nextGen, busDown>>
    BY <1>6, ReloadAssumption DEF RunTurn, Attach, genVars, opVars
  <2>2. \A x \in SubIds : chan'[x] = chan[x] \/ x[2] \in buses
    BY <2>1, AttachEffect DEF IndInv
  <2> QED
    BY <2>1, <2>2, SubIdType DEF IndInv, BusInv, NewGen
<1>7. ASSUME NEW t \in Turns, AbandonStart(t) PROVE BusInv'
  BY <1>7 DEF AbandonStart, Release, routerVars, opVars, IndInv, BusInv, NewGen
<1>8. ASSUME NEW t \in Turns, FailStartTurn(t) PROVE BusInv'
  BY <1>8 DEF FailStartTurn, Release, routerVars, opVars, IndInv, BusInv, NewGen
<1>9. ASSUME NEW t \in Turns, ReleaseTurn(t) PROVE BusInv'
  BY <1>9 DEF ReleaseTurn, Release, routerVars, opVars, IndInv, BusInv, NewGen
<1>10. ASSUME NEW m \in DynNames, UnregisterAgent(m) PROVE BusInv'
  BY <1>10 DEF UnregisterAgent, routerVars, genVars, IndInv, BusInv
<1>11. ASSUME UnregisterDrained PROVE BusInv'
  BY <1>11 DEF UnregisterDrained, Unlock, routerVars, genVars, IndInv, BusInv
<1>12. ASSUME UnregisterFails PROVE BusInv'
  BY <1>12 DEF UnregisterFails, Unlock, routerVars, genVars, IndInv, BusInv
<1>13. ASSUME NEW ds \in Documents, ReloadStart(ds) PROVE BusInv'
  BY <1>13 DEF ReloadStart, Goto, routerVars, IndInv, BusInv
<1>14. ASSUME ReloadBuild PROVE BusInv'
  <2>0. NewGen \in Gens /\ op = "build" /\ genState[NewGen] = "none" /\ rt = "open"
    BY <1>14, NewGenType DEF ReloadBuild, IndInv, TypeOK, GenInv, Building
  <2>1. CASE Unlock /\ UNCHANGED genState
    BY <1>14, <2>0, <2>1 DEF ReloadBuild, Unlock, IndInv, turnVars, NewGen, BusInv, routerVars
  <2>2. CASE Goto("resolve") /\ genState' = [genState EXCEPT ![NewGen] = "built"]
    BY <1>14, <2>0, <2>2 DEF ReloadBuild, Goto, IndInv, TypeOK, turnVars, NewGen, BusInv,
       routerVars
  <2> QED
    BY <1>14, <2>1, <2>2 DEF ReloadBuild
<1>15. ASSUME ReloadResolve PROVE BusInv'
  BY <1>15 DEF ReloadResolve, Goto, routerVars, genVars, IndInv, BusInv
<1>16. ASSUME ReloadSharedBus PROVE BusInv'
  BY <1>16 DEF ReloadSharedBus, AbortClosing, Unlock, BusCloses, IndInv, BusInv, GenInv,
     Building, Swapped
<1>17. ASSUME ReloadAbort PROVE BusInv'
  BY <1>17 DEF ReloadAbort, AbortClosing, Unlock, BusCloses, IndInv, TypeOK, BusInv, GenInv,
     NewGen, Building
<1>18. ASSUME ReloadRebind PROVE BusInv'
  BY <1>18 DEF ReloadRebind, routerVars, genVars, IndInv, BusInv
<1>19. ASSUME NEW d \in DepNames, DrainRemoved(d) PROVE BusInv'
  BY <1>19 DEF DrainRemoved, routerVars, genVars, IndInv, BusInv
<1>20. ASSUME RemovedDrained PROVE BusInv'
  BY <1>20 DEF RemovedDrained, Goto, routerVars, genVars, IndInv, BusInv
<1>21. ASSUME DrainFails PROVE BusInv'
  BY <1>21 DEF DrainFails, Goto, routerVars, genVars, IndInv, BusInv
<1>22. ASSUME ReloadReopen PROVE BusInv'
  BY <1>22 DEF ReloadReopen, Goto, routerVars, genVars, IndInv, BusInv
<1>23. ASSUME ReloadReplace PROVE BusInv'
  BY <1>23 DEF ReloadReplace, Goto, routerVars, IndInv, BusInv
<1>24. ASSUME ReloadAddBus PROVE BusInv'
  <2>0. /\ op = "addbus" /\ NewGen \in Gens /\ genState[NewGen] = "built"
        /\ UNCHANGED <<rt, genState, nextGen, routerState, busDown>>
    BY <1>24, NewGenType DEF ReloadAddBus, AddBus, AddBusFails, genVars, IndInv, GenInv,
       Building
  <2>1. CASE AddBus(NewGen) /\ Goto("swap")
    <3>1. buses' = buses \cup {NewGen} /\ op' = "swap" /\ NewGen \in Buses /\ routerState = "open"
      BY <2>0, <2>1, ReloadAssumption DEF AddBus, Goto, Gens
    <3>2. \A x \in SubIds : chan'[x] = chan[x] \/ x[2] = NewGen
      BY <2>1, <3>1, AddBusEffect DEF IndInv
    <3>3. NewGen' = NewGen
      BY <2>0 DEF NewGen
    <3> QED
      BY <2>0, <3>1, <3>2, <3>3, SubIdType DEF IndInv, BusInv
  <2>2. CASE AddBusFails(NewGen) /\ Goto("rollback")
    <3>1. buses' = buses /\ op' = "rollback"
      BY <2>2 DEF AddBusFails, Goto
    <3>2. ASSUME NEW x \in SubIds PROVE chan'[x] = chan[x] \/ x[2] = NewGen
      BY <2>2, InProduct DEF AddBusFails
    <3> QED
      BY <2>0, <3>1, <3>2, SubIdType DEF IndInv, BusInv, NewGen
  <2> QED
    BY <1>24, <2>1, <2>2 DEF ReloadAddBus
<1>25. ASSUME RollbackTo PROVE BusInv'
  BY <1>25 DEF RollbackTo, Goto, routerVars, IndInv, BusInv, NewGen
<1>26. ASSUME ReloadSwap PROVE BusInv'
  <2>1. /\ NewGen \in Gens /\ current \in Gens /\ current # NewGen /\ genState[NewGen] = "built"
        /\ genState[current] = "live" /\ rt = "open"
        /\ UNCHANGED <<routerState, buses, busDown, chan, rt, nextGen>>
    BY <1>26, NewGenType DEF ReloadSwap, IndInv, TypeOK, GenInv, Building, Swapped, routerVars
  <2>2. op = "swap" /\ op' \in Swapped
    BY <1>26, SwapEffect
  <2>3. /\ genState'[NewGen] = "live" /\ genState'[current] \in {"retiring", "retired"}
        /\ \A g \in Gens \ {NewGen, current} : genState'[g] = genState[g]
    BY <1>26, SwapEffect
  <2>4. buses \subseteq Gens /\ busDown \subseteq Gens /\ NewGen' = NewGen
    BY <2>1, ReloadAssumption DEF IndInv, TypeOK, Gens, NewGen
  <2> QED
    BY <2>1, <2>2, <2>3, <2>4, SubIdType DEF IndInv, BusInv, Swapped
<1>27. ASSUME ReloadFinish PROVE BusInv'
  BY <1>27 DEF ReloadFinish, Unlock, routerVars, IndInv, BusInv
<1>28. ASSUME NEW g \in Gens, RetireUnroute(g) PROVE BusInv'
  <2>1. /\ genState[g] = "retired" /\ genState'[g] = "unrouted"
        /\ \A h \in Gens \ {g} : genState'[h] = genState[h]
    BY <1>28 DEF RetireUnroute, IndInv, TypeOK
  <2>2. buses' = buses \ {g} /\ UNCHANGED <<rt, routerState, op, nextGen, busDown, chan>>
    BY <1>28 DEF RetireUnroute, RemoveBus, opVars
  <2>3. buses \subseteq Gens /\ busDown \subseteq Gens /\ (op = "swap" => g # NewGen)
    BY <2>1, ReloadAssumption DEF IndInv, TypeOK, Gens, GenInv, Building
  <2>4. NewGen' = NewGen
    BY <2>2 DEF NewGen
  <2>5. \A x \in SubIds : chan[x] # "none" =>
          \/ genState'[x[2]] \notin {"none", "built"}
          \/ x[2] = NewGen /\ op \in {"swap", "rollback", "abort"}
    BY <2>1, SubIdType DEF IndInv, BusInv
  <2>6. \A h \in busDown : genState'[h] = "closed"
    BY <2>1, <2>3 DEF IndInv, BusInv
  <2> QED
    BY <2>1, <2>2, <2>3, <2>4, <2>5, <2>6 DEF IndInv, BusInv
<1>29. ASSUME NEW g \in Gens, RetireClose(g) PROVE BusInv'
  BY <1>29 DEF RetireClose, CloseGeneration, BusCloses, opVars, IndInv, TypeOK, BusInv, NewGen
<1>30. ASSUME RuntimeClose PROVE BusInv'
  BY <1>30 DEF RuntimeClose, routerVars, opVars, IndInv, BusInv
<1>31. ASSUME CloseRouter PROVE BusInv'
  BY <1>31 DEF CloseRouter, RouterClose, genVars, opVars, IndInv, BusInv, GenInv
<1>32. ASSUME RouterDrained PROVE BusInv'
  BY <1>32 DEF RouterDrained, RouterCloseReturns, genVars, opVars, IndInv, BusInv, NewGen
<1>33. ASSUME CloseCurrent PROVE BusInv'
  BY <1>33 DEF CloseCurrent, CloseGeneration, BusCloses, opVars, IndInv, TypeOK, BusInv, NewGen
<1>34. ASSUME NEW a \in External, AttachExternal(a) PROVE BusInv'
  <2>1. /\ a \in Attachments /\ Attach(a)
        /\ UNCHANGED <<rt, routerState, buses, genState, op, nextGen, busDown>>
    BY <1>34, ReloadAssumption DEF AttachExternal, Attach, genVars, opVars
  <2>2. \A x \in SubIds : chan'[x] = chan[x] \/ x[2] \in buses
    BY <2>1, AttachEffect DEF IndInv
  <2> QED
    BY <2>1, <2>2, SubIdType DEF IndInv, BusInv, NewGen
<1>35. ASSUME RunRouter PROVE BusInv'
  <2>1. UNCHANGED <<buses, busDown, routerState, rt, genState, op, nextGen>>
    BY <1>35 DEF RunRouter, RouterStep, CloseSub, LoopSubEnded, LoopExit, LoopDetaches,
       genVars, opVars
  <2>2. \A x \in SubIds : chan'[x] = chan[x] \/ x \in toClose
    BY <1>35 DEF RunRouter, RouterStep, CloseSub, LoopSubEnded, LoopExit, LoopDetaches,
       IndInv, TypeOK
  <2> QED
    BY <2>1, <2>2, SubIdType DEF IndInv, TypeOK, BusInv, LinkInv, NewGen
<1> QED
  BY <1>1, <1>2, <1>3, <1>4, <1>5, <1>6, <1>7, <1>8, <1>9, <1>10, <1>11, <1>12, <1>13, <1>14,
     <1>15, <1>16, <1>17, <1>18, <1>19, <1>20, <1>21, <1>22, <1>23, <1>24, <1>25, <1>26,
     <1>27, <1>28, <1>29, <1>30, <1>31, <1>32, <1>33, <1>34, <1>35 DEF Next, TurnStep,
     LifecycleStep, RetireStep

\* LinkInv: no loop of an attachment in place ever finds its channel closed, so none
\* detaches it while the runtime is open.
LEMMA KeptLinkInv == ASSUME IndInv, Next PROVE LinkInv'
<1> USE ReloadAssumption DEF Gens, Inst, Names
<1>1. ASSUME UNCHANGED <<attached, buses, linked, toClose, chan, loop, ctxDone, ext, rt, pc>>
      PROVE  LinkInv'
  BY <1>1 DEF IndInv, LinkInv, Building
<1>2. ASSUME NEW m \in DynNames, RegisterAgent(m) \/ UnregisterAgent(m) PROVE LinkInv'
  BY <1>1, <1>2 DEF RegisterAgent, UnregisterAgent, routerVars, turnVars
<1>3. ASSUME \/ UnregisterDrained \/ UnregisterFails \/ ReloadBuild \/ ReloadResolve
             \/ ReloadRebind \/ RemovedDrained \/ DrainFails \/ ReloadReopen
             \/ ReloadReplace \/ RollbackTo \/ ReloadSwap \/ ReloadFinish
             \/ RouterDrained
      PROVE  LinkInv'
  BY <1>1, <1>3 DEF UnregisterDrained, UnregisterFails, ReloadBuild, ReloadResolve,
     ReloadRebind, RemovedDrained, DrainFails, ReloadReopen, ReloadReplace, RollbackTo,
     ReloadSwap, ReloadFinish, RouterDrained, RouterCloseReturns, routerVars, turnVars
<1>4. ASSUME NEW ds \in Documents, ReloadStart(ds) PROVE LinkInv'
  BY <1>1, <1>4 DEF ReloadStart, routerVars, turnVars
<1>5. ASSUME NEW d \in DepNames, DrainRemoved(d) PROVE LinkInv'
  BY <1>1, <1>5 DEF DrainRemoved, routerVars, turnVars
<1>6. ASSUME NEW t \in Turns, NEW n \in Names, Capture(t, n) PROVE LinkInv'
  BY <1>6 DEF Capture, routerVars, IndInv, LinkInv
<1>7. ASSUME NEW t \in Turns, Reserve(t) PROVE LinkInv'
  BY <1>7 DEF Reserve, routerVars, IndInv, LinkInv
<1>8. ASSUME NEW t \in Turns, Resolve(t) PROVE LinkInv'
  BY <1>8 DEF Resolve, routerVars, IndInv, LinkInv
<1>9. ASSUME NEW t \in Turns, RunTurn(t) PROVE LinkInv'
  <2>1. /\ t \in Attachments /\ Attach(t)
        /\ t \notin attached /\ attached' = attached \cup {t}
        /\ UNCHANGED <<rt, buses, toClose, ctxDone>>
    BY <1>9, ReloadAssumption DEF RunTurn, Attach
  <2>2. /\ linked' \subseteq SubIds /\ toClose \subseteq SubIds
        /\ \A x \in SubIds : x[1] = t /\ x[2] \in buses =>
              x \in linked' /\ chan'[x] = "open" /\ loop'[x] = "running" /\ x \notin toClose
        /\ \A x \in SubIds : ~(x[1] = t /\ x[2] \in buses) =>
              (x \in linked' <=> x \in linked) /\ chan'[x] = chan[x] /\ loop'[x] = loop[x]
    <3>1. \A x \in SubIds : x[1] = t => x \notin toClose
      BY <2>1 DEF Attach, IndInv, LinkInv
    <3> QED
      BY <2>1, <3>1, AttachEffect DEF IndInv, TypeOK
  <2>3. UNCHANGED ext /\ \A s \in Turns : pc'[s] = "running" => s = t \/ pc[s] = "running"
    BY <1>9 DEF RunTurn, IndInv, TypeOK
  <2>4. linked \subseteq SubIds
    BY DEF IndInv, TypeOK
  <2> QED
    BY <2>1, <2>2, <2>3, <2>4 DEF IndInv, LinkInv
<1>10. ASSUME NEW t \in Turns, AbandonStart(t) PROVE LinkInv'
  BY <1>10 DEF AbandonStart, Release, routerVars, IndInv, LinkInv
<1>11. ASSUME NEW t \in Turns, FailStartTurn(t) PROVE LinkInv'
  BY <1>11 DEF FailStartTurn, Release, routerVars, IndInv, LinkInv
<1>12. ASSUME NEW t \in Turns, FinishTurn(t) PROVE LinkInv'
  BY <1>12 DEF FinishTurn, Stop, Detached, Unlink, SubsOf, IndInv, TypeOK, LinkInv
<1>13. ASSUME NEW t \in Turns, ReleaseTurn(t) PROVE LinkInv'
  BY <1>13 DEF ReleaseTurn, Release, routerVars, IndInv, LinkInv
<1>14. ASSUME ReloadSharedBus PROVE LinkInv'
  BY <1>14 DEF ReloadSharedBus, AbortClosing, BusCloses, turnVars, IndInv, TypeOK, LinkInv
<1>15. ASSUME ReloadAbort PROVE LinkInv'
  <2>1. NewGen \notin buses /\ UNCHANGED <<attached, buses, linked, toClose, loop, ctxDone, ext, rt, pc>>
    BY <1>15, NewGenType, ReloadAssumption DEF ReloadAbort, AbortClosing, CloseGeneration,
       BusCloses, turnVars, IndInv, TypeOK, GenInv, BusInv, Building
  <2>2. \A x \in SubIds : chan'[x] = chan[x] \/ (chan'[x] = "closed" /\ x[2] = NewGen)
    BY <1>15 DEF ReloadAbort, AbortClosing, CloseGeneration, BusCloses, IndInv, TypeOK
  <2> QED
    BY <2>1, <2>2 DEF IndInv, TypeOK, LinkInv
<1>16. ASSUME ReloadAddBus PROVE LinkInv'
  <2>0. /\ UNCHANGED <<attached, toClose, ctxDone, ext, rt, pc>>
        /\ NewGen \in Buses /\ NewGen \notin buses /\ op = "addbus" /\ genState[NewGen] = "built"
    BY <1>16, NewGenType, ReloadAssumption DEF ReloadAddBus, AddBus, AddBusFails, turnVars,
       IndInv, TypeOK, GenInv, Building, Gens
  <2>1. \A x \in SubIds : x[2] = NewGen => chan[x] = "none" /\ x \notin linked /\ x \notin toClose
    BY <2>0 DEF IndInv, BusInv, LinkInv
  <2>2. CASE AddBus(NewGen)
    <3>1. /\ buses' = buses \cup {NewGen} /\ linked' \subseteq SubIds
          /\ \A x \in SubIds : x[1] \in attached /\ x[2] = NewGen =>
                x \in linked' /\ chan'[x] = "open" /\ loop'[x] = "running"
          /\ \A x \in SubIds : ~(x[1] \in attached /\ x[2] = NewGen) =>
                (x \in linked' <=> x \in linked) /\ chan'[x] = chan[x] /\ loop'[x] = loop[x]
      BY <2>0, <2>2, AddBusEffect DEF IndInv, AddBus
    <3>2. ASSUME NEW x \in SubIds, x[1] \in attached', x[2] \in buses'
          PROVE  x \in linked' /\ x \notin toClose' /\ chan'[x] = "open" /\ loop'[x] = "running"
      BY <2>0, <2>1, <3>1, <3>2 DEF IndInv, LinkInv
    <3>3. ASSUME NEW x \in linked'
          PROVE  x[1] \in attached' /\ (x[2] \in buses' \/ loop'[x] = "none")
      BY <2>0, <2>1, <3>1, <3>3 DEF IndInv, LinkInv
    <3>4. ASSUME NEW x \in linked' \cup toClose' PROVE chan'[x] # "none"
      BY <2>0, <2>1, <3>1, <3>4 DEF IndInv, TypeOK, LinkInv
    <3> QED
      BY <2>0, <3>2, <3>3, <3>4 DEF IndInv, LinkInv
  <2>3. CASE AddBusFails(NewGen)
    <3>1. /\ UNCHANGED <<buses, loop>> /\ linked' \subseteq SubIds
          /\ \A x \in SubIds : \/ (x \in linked' <=> x \in linked) /\ chan'[x] = chan[x]
                               \/ x[1] \in attached /\ x[2] = NewGen /\ chan'[x] = "closed" /\ x \in linked'
      BY <2>0, <2>3, AddBusFailsEffect DEF IndInv, AddBusFails
    <3>2. \A x \in SubIds : x[2] = NewGen => loop[x] = "none"
      BY <2>1 DEF IndInv, LoopInv
    <3> QED
      BY <2>0, <2>1, <3>1, <3>2 DEF IndInv, TypeOK, LinkInv
  <2> QED
    BY <1>16, <2>2, <2>3 DEF ReloadAddBus
<1>17. ASSUME NEW g \in Gens, RetireUnroute(g) PROVE LinkInv'
  <2>1. /\ buses' = buses \ {g} /\ linked' \subseteq linked /\ toClose' \subseteq toClose \cup linked
        /\ \A x \in linked : x \in linked' \/ (x[2] = g /\ x[1] \in attached)
        /\ \A x \in toClose' : x \in toClose \/ x[2] = g
        /\ \A x \in linked' : ~(x[2] = g /\ x[1] \in attached /\ g \in buses)
    BY <1>17 DEF RetireUnroute, RemoveBus, Unlink
  <2>2. UNCHANGED <<attached, chan, loop, ctxDone, ext, rt, pc>>
    BY <1>17 DEF RetireUnroute, RemoveBus, turnVars
  <2> QED
    BY <2>1, <2>2 DEF IndInv, TypeOK, LinkInv
<1>18. ASSUME NEW g \in Gens, RetireClose(g) PROVE LinkInv'
  <2>1. g \notin buses /\ UNCHANGED <<attached, buses, linked, toClose, loop, ctxDone, ext, rt, pc>>
    BY <1>18, ReloadAssumption DEF RetireClose, AbortClosing, CloseGeneration, BusCloses,
       turnVars, IndInv, TypeOK, GenInv, BusInv, Building
  <2>2. \A x \in SubIds : chan'[x] = chan[x] \/ (chan'[x] = "closed" /\ x[2] = g)
    BY <1>18 DEF RetireClose, AbortClosing, CloseGeneration, BusCloses, IndInv, TypeOK
  <2> QED
    BY <2>1, <2>2 DEF IndInv, TypeOK, LinkInv
<1>19. ASSUME RuntimeClose PROVE LinkInv'
  BY <1>19 DEF RuntimeClose, routerVars, turnVars, IndInv, LinkInv
<1>20. ASSUME CloseRouter PROVE LinkInv'
  BY <1>20 DEF CloseRouter, RouterClose, Unlink, turnVars, IndInv, LinkInv
<1>21. ASSUME CloseCurrent PROVE LinkInv'
  BY <1>21 DEF CloseCurrent, CloseGeneration, BusCloses, turnVars, IndInv, TypeOK, LinkInv,
     BusInv
<1>22. ASSUME NEW a \in External, AttachExternal(a) PROVE LinkInv'
  <2>1. /\ a \in Attachments /\ Attach(a)
        /\ a \notin attached /\ attached' = attached \cup {a}
        /\ UNCHANGED <<rt, buses, toClose, ctxDone>>
    BY <1>22, ReloadAssumption DEF AttachExternal, Attach
  <2>2. /\ linked' \subseteq SubIds /\ toClose \subseteq SubIds
        /\ \A x \in SubIds : x[1] = a /\ x[2] \in buses =>
              x \in linked' /\ chan'[x] = "open" /\ loop'[x] = "running" /\ x \notin toClose
        /\ \A x \in SubIds : ~(x[1] = a /\ x[2] \in buses) =>
              (x \in linked' <=> x \in linked) /\ chan'[x] = chan[x] /\ loop'[x] = loop[x]
    <3>1. \A x \in SubIds : x[1] = a => x \notin toClose
      BY <2>1 DEF Attach, IndInv, LinkInv
    <3> QED
      BY <2>1, <3>1, AttachEffect DEF IndInv, TypeOK
  <2>3. /\ UNCHANGED pc /\ ext[a] = "new"
        /\ \A s \in External \ {a} : ext'[s] = ext[s]
    BY <1>22 DEF AttachExternal, turnVars, IndInv, TypeOK
  <2>4. linked \subseteq SubIds
    BY DEF IndInv, TypeOK
  <2> QED
    BY <2>1, <2>2, <2>3, <2>4 DEF IndInv, LinkInv
<1>23. ASSUME NEW a \in External, LeaveExternal(a) PROVE LinkInv'
  <2>0. /\ ext[a] = "on" /\ ext' = [ext EXCEPT ![a] = "off"] /\ UNCHANGED <<rt, pc>>
        /\ a \notin Turns
    BY <1>23, ReloadAssumption DEF LeaveExternal, turnVars
  <2>1. CASE Stop(a)
    <3>1. Detached(a) /\ UNCHANGED <<buses, chan, loop, ctxDone>>
      BY <2>1 DEF Stop
    <3> QED
      BY <2>0, <3>1, DetachEffect, SMTT(30) DEF IndInv, TypeOK, LinkInv
  <2>2. CASE CancelCtx(a)
    BY <2>0, <2>2 DEF CancelCtx, IndInv, TypeOK, LinkInv
  <2>3. ASSUME NEW b \in Buses, LoopDetaches(<<a, b>>) PROVE LinkInv'
    <3>1. PICK x \in SubIds : x[1] = a /\ LoopDetaches(x)
      BY <2>3, ReloadAssumption DEF SubIds
    <3>2. /\ Detached(a) /\ UNCHANGED <<buses, chan, ctxDone>>
          /\ \A y \in SubIds : y[1] # a => loop'[y] = loop[y]
      BY <3>1 DEF LoopDetaches, IndInv, TypeOK
    <3> QED
      BY <2>0, <3>2, DetachEffect DEF IndInv, TypeOK, LinkInv
  <2> QED
    BY <1>23, <2>1, <2>2, <2>3 DEF LeaveExternal
<1>24. ASSUME RunRouter PROVE LinkInv'
  <2>0. UNCHANGED <<rt, pc, ext>>
    BY <1>24 DEF RunRouter, turnVars
  <2>1. PICK x \in SubIds : RouterStep(x)
    BY <1>24 DEF RunRouter
  <2>2. CASE CloseSub(x)
    BY <2>0, <2>2 DEF CloseSub, IndInv, TypeOK, LinkInv
  <2>3. CASE LoopSubEnded(x)
    <3>1. x \notin linked
      BY <2>3 DEF LoopSubEnded, IndInv, LinkInv
    <3> QED
      BY <2>0, <2>3, <3>1 DEF LoopSubEnded, IndInv, TypeOK, LinkInv
  <2>4. CASE LoopExit(x)
    BY <2>0, <2>4 DEF LoopExit, IndInv, TypeOK, LinkInv
  <2>5. CASE x[1] \in ctxDone /\ LoopDetaches(x)
    <3>1. x[1] \in External /\ x[1] \notin Turns /\ ext[x[1]] = "off"
      BY <2>5, ReloadAssumption DEF IndInv, LinkInv
    <3>2. /\ Detached(x[1]) /\ UNCHANGED <<buses, chan, ctxDone>>
          /\ \A y \in SubIds : y[1] # x[1] => loop'[y] = loop[y]
      BY <2>5 DEF LoopDetaches, IndInv, TypeOK
    <3> QED
      BY <2>0, <3>1, <3>2, DetachEffect DEF IndInv, TypeOK, LinkInv
  <2> QED
    BY <2>1, <2>2, <2>3, <2>4, <2>5 DEF RouterStep
<1> QED
  BY <1>1, <1>2, <1>3, <1>4, <1>5, <1>6, <1>7, <1>8, <1>9, <1>10, <1>11, <1>12, <1>13, <1>14,
     <1>15, <1>16, <1>17, <1>18, <1>19, <1>20, <1>21, <1>22, <1>23, <1>24 DEF Next,
     TurnStep, LifecycleStep, RetireStep

\* LoopInv: loops are started with their subscription.
LEMMA KeptLoopInv == ASSUME IndInv, Next PROVE LoopInv'
<1> USE ReloadAssumption DEF Gens, Inst, Names
<1>1. ASSUME UNCHANGED <<chan, loop>>
      PROVE  LoopInv'
  BY <1>1 DEF IndInv, LoopInv
<1>2. ASSUME NEW t \in Turns, NEW n \in Names, Capture(t, n) PROVE LoopInv'
  BY <1>1, <1>2 DEF Capture, routerVars
<1>3. ASSUME NEW t \in Turns,
             \/ Reserve(t) \/ Resolve(t) \/ AbandonStart(t) \/ FailStartTurn(t)
             \/ FinishTurn(t) \/ ReleaseTurn(t)
      PROVE  LoopInv'
  BY <1>1, <1>3 DEF Reserve, Resolve, AbandonStart, FailStartTurn, FinishTurn, Stop,
     Detached, ReleaseTurn, routerVars
<1>4. ASSUME NEW m \in DynNames, RegisterAgent(m) \/ UnregisterAgent(m) PROVE LoopInv'
  BY <1>1, <1>4 DEF RegisterAgent, UnregisterAgent, routerVars
<1>5. ASSUME \/ UnregisterDrained \/ UnregisterFails \/ ReloadBuild \/ ReloadResolve
             \/ ReloadRebind \/ RemovedDrained \/ DrainFails \/ ReloadReopen
             \/ ReloadReplace \/ RollbackTo \/ ReloadSwap \/ ReloadFinish
             \/ RuntimeClose \/ CloseRouter \/ RouterDrained
      PROVE  LoopInv'
  BY <1>1, <1>5 DEF UnregisterDrained, UnregisterFails, ReloadBuild, ReloadResolve,
     ReloadRebind, RemovedDrained, DrainFails, ReloadReopen, ReloadReplace, RollbackTo,
     ReloadSwap, ReloadFinish, RuntimeClose, CloseRouter, RouterClose, RouterDrained,
     RouterCloseReturns, routerVars
<1>6. ASSUME NEW ds \in Documents, ReloadStart(ds) PROVE LoopInv'
  BY <1>1, <1>6 DEF ReloadStart, routerVars
<1>7. ASSUME NEW d \in DepNames, DrainRemoved(d) PROVE LoopInv'
  BY <1>1, <1>7 DEF DrainRemoved, routerVars
<1>8. ASSUME NEW g \in Gens, RetireUnroute(g) PROVE LoopInv'
  BY <1>1, <1>8 DEF RetireUnroute, RemoveBus
<1>9. ASSUME NEW t \in Turns, RunTurn(t) PROVE LoopInv'
  <2>1. t \in Attachments /\ Attach(t)
    BY <1>9, ReloadAssumption DEF RunTurn
  <2> QED
    BY <2>1, AttachEffect DEF IndInv, LoopInv
<1>10. ASSUME ReloadSharedBus PROVE LoopInv'
  BY <1>10 DEF ReloadSharedBus, AbortClosing, BusCloses, IndInv, LoopInv
<1>11. ASSUME ReloadAbort PROVE LoopInv'
  BY <1>11 DEF ReloadAbort, AbortClosing, BusCloses, IndInv, LoopInv
<1>12. ASSUME ReloadAddBus PROVE LoopInv'
  <2>0. NewGen \in Buses
    BY <1>12, NewGenType, ReloadAssumption DEF IndInv, Gens
  <2>1. CASE AddBus(NewGen)
    BY <2>0, <2>1, AddBusEffect DEF IndInv, LoopInv
  <2>2. CASE AddBusFails(NewGen)
    <3>1. UNCHANGED loop
      BY <2>2 DEF AddBusFails
    <3> QED
      BY <2>0, <2>2, <3>1, AddBusFailsEffect DEF IndInv, LoopInv
  <2> QED
    BY <1>12, <2>1, <2>2 DEF ReloadAddBus
<1>13. ASSUME NEW g \in Gens, RetireClose(g) PROVE LoopInv'
  BY <1>13 DEF RetireClose, CloseGeneration, BusCloses, IndInv, LoopInv
<1>14. ASSUME CloseCurrent PROVE LoopInv'
  BY <1>14 DEF CloseCurrent, CloseGeneration, BusCloses, IndInv, LoopInv
<1>15. ASSUME NEW a \in External, AttachExternal(a) PROVE LoopInv'
  <2>1. a \in Attachments /\ Attach(a)
    BY <1>15, ReloadAssumption DEF AttachExternal
  <2> QED
    BY <2>1, AttachEffect DEF IndInv, LoopInv
<1>16. ASSUME NEW a \in External, LeaveExternal(a) PROVE LoopInv'
  BY <1>16 DEF LeaveExternal, Stop, CancelCtx, LoopDetaches, IndInv, TypeOK, LoopInv
<1>17. ASSUME RunRouter PROVE LoopInv'
  BY <1>17 DEF RunRouter, RouterStep, CloseSub, LoopSubEnded, LoopExit, LoopDetaches, IndInv,
     TypeOK, LoopInv, LinkInv
<1> QED
  BY <1>1, <1>2, <1>3, <1>4, <1>5, <1>6, <1>7, <1>8, <1>9, <1>10, <1>11, <1>12, <1>13, <1>14,
     <1>15, <1>16, <1>17 DEF Next, TurnStep, LifecycleStep, RetireStep

\* The types of the generations.
LEMMA KeptGenType == ASSUME IndInv, Next PROVE GenType'
<1> USE ReloadAssumption DEF Gens, Inst, Names
<1>1. ASSUME UNCHANGED <<current, epoch, deployed, nextGen, doc, genState, adopted>>
      PROVE  GenType'
  BY <1>1 DEF IndInv, GenType, NewGen, States, TypeOK
<1>2. ASSUME NEW t \in Turns, NEW n \in Names, Capture(t, n) PROVE GenType'
  BY <1>1, <1>2 DEF Capture, genVars, regVars
<1>3. ASSUME NEW t \in Turns,
             Reserve(t) \/ Resolve(t) \/ RunTurn(t) \/ FinishTurn(t)
      PROVE  GenType'
  BY <1>1, <1>3 DEF Reserve, Resolve, RunTurn, FinishTurn, genVars, regVars
<1>4. ASSUME NEW m \in DynNames, RegisterAgent(m) \/ UnregisterAgent(m) PROVE GenType'
  BY <1>1, <1>4 DEF RegisterAgent, UnregisterAgent, genVars
<1>5. ASSUME \/ UnregisterDrained \/ UnregisterFails \/ ReloadResolve
             \/ ReloadRebind \/ RemovedDrained \/ DrainFails \/ ReloadReopen
             \/ ReloadAddBus \/ CloseRouter \/ RouterDrained \/ RunRouter
      PROVE  GenType'
  BY <1>1, <1>5 DEF UnregisterDrained, UnregisterFails, ReloadResolve, ReloadRebind,
     RemovedDrained, DrainFails, ReloadReopen, ReloadAddBus, CloseRouter, RouterDrained,
     RunRouter, genVars, regVars
<1>6. ASSUME NEW d \in DepNames, DrainRemoved(d) PROVE GenType'
  BY <1>1, <1>6 DEF DrainRemoved, genVars, regVars
<1>7. ASSUME NEW a \in External, AttachExternal(a) \/ LeaveExternal(a) PROVE GenType'
  BY <1>1, <1>7 DEF AttachExternal, LeaveExternal, genVars, regVars
<1>8. ASSUME NEW t \in Turns, AbandonStart(t) PROVE GenType'
  BY <1>8 DEF AbandonStart, Release, regVars, IndInv, TypeOK, GenType, States
<1>9. ASSUME NEW t \in Turns, FailStartTurn(t) PROVE GenType'
  BY <1>9 DEF FailStartTurn, Release, regVars, IndInv, TypeOK, GenType, States
<1>10. ASSUME NEW t \in Turns, ReleaseTurn(t) PROVE GenType'
  BY <1>10 DEF ReleaseTurn, Release, regVars, IndInv, TypeOK, GenType, States
<1>11. ASSUME NEW ds \in Documents, ReloadStart(ds) PROVE GenType'
  BY <1>11 DEF ReloadStart, regVars, IndInv, TypeOK, GenType, States
<1>12. ASSUME ReloadBuild PROVE GenType'
  <2>1. NewGen \in Gens
    BY NewGenType DEF IndInv
  <2>2. genState' \in [Gens -> States] /\ UNCHANGED <<current, epoch, deployed, nextGen, doc, adopted>>
    BY <1>12, <2>1 DEF ReloadBuild, regVars, IndInv, TypeOK, States
  <2> QED
    BY <2>2 DEF IndInv, TypeOK, GenType
<1>13. ASSUME ReloadSharedBus PROVE GenType'
  BY <1>13 DEF ReloadSharedBus, AbortClosing, regVars, IndInv, TypeOK, GenType, States
<1>14. ASSUME ReloadAbort PROVE GenType'
  BY <1>14 DEF ReloadAbort, AbortClosing, regVars, IndInv, TypeOK, GenType, States
<1>15. ASSUME ReloadReplace PROVE GenType'
  <2>1. Instances(entries) \subseteq Inst /\ NewGen \in Gens
    BY InstancesOf, NewGenType DEF IndInv, TypeOK
  <2>2. adopted' \in [Gens -> SUBSET Inst]
    BY <1>15, <2>1 DEF ReloadReplace, IndInv, TypeOK
  <2> QED
    BY <1>15, <2>1, <2>2 DEF ReloadReplace, regVars, IndInv, TypeOK, GenType, States
<1>16. ASSUME RollbackTo PROVE GenType'
  BY <1>16 DEF RollbackTo, IndInv, TypeOK, GenType, States
<1>17. ASSUME ReloadSwap PROVE GenType'
  <2>1. NewGen \in Gens
    BY NewGenType DEF IndInv
  <2> QED
    BY <1>17, <2>1, SwapEffect DEF ReloadSwap, regVars, IndInv, TypeOK, GenType
<1>18. ASSUME ReloadFinish PROVE GenType'
  BY <1>18 DEF ReloadFinish, regVars, IndInv, TypeOK, GenType, NewGen, States
<1>19. ASSUME NEW g \in Gens, RetireUnroute(g) PROVE GenType'
  BY <1>19 DEF RetireUnroute, regVars, IndInv, TypeOK, GenType, States
<1>20. ASSUME NEW g \in Gens, RetireClose(g) PROVE GenType'
  BY <1>20 DEF RetireClose, CloseGeneration, IndInv, TypeOK, GenType, States
<1>21. ASSUME RuntimeClose PROVE GenType'
  <2>1. Instances(dyn) \subseteq Inst /\ NewGen \in Gens
    BY InstancesOf, NewGenType DEF IndInv, TypeOK
  <2>2. adopted' \in [Gens -> SUBSET Inst]
    BY <1>21, <2>1 DEF RuntimeClose, IndInv, TypeOK
  <2> QED
    BY <1>21, <2>1, <2>2 DEF RuntimeClose, regVars, IndInv, TypeOK, GenType, States
<1>22. ASSUME CloseCurrent PROVE GenType'
  BY <1>22 DEF CloseCurrent, CloseGeneration, IndInv, TypeOK, GenType, States
<1> QED
  BY <1>1, <1>2, <1>3, <1>4, <1>5, <1>6, <1>7, <1>8, <1>9, <1>10, <1>11, <1>12, <1>13, <1>14,
     <1>15, <1>16, <1>17, <1>18, <1>19, <1>20, <1>21, <1>22 DEF Next, TurnStep,
     LifecycleStep, RetireStep

\* The types of the registry; no instance is closed twice.
LEMMA KeptRegType == ASSUME IndInv, Next PROVE RegType'
<1> USE ReloadAssumption DEF Gens, Inst, Names
<1>1. ASSUME UNCHANGED <<dyn, bound, closes>>
      PROVE  RegType'
  BY <1>1 DEF IndInv, RegType, Fresh, Names, TypeOK
<1>2. ASSUME NEW t \in Turns, NEW n \in Names, Capture(t, n) PROVE RegType'
  BY <1>1, <1>2 DEF Capture, regVars
<1>3. ASSUME NEW t \in Turns,
             \/ Reserve(t) \/ Resolve(t) \/ RunTurn(t) \/ AbandonStart(t)
             \/ FailStartTurn(t) \/ FinishTurn(t) \/ ReleaseTurn(t)
      PROVE  RegType'
  BY <1>1, <1>3 DEF Reserve, Resolve, RunTurn, AbandonStart, FailStartTurn, FinishTurn,
     ReleaseTurn, regVars
<1>4. ASSUME NEW ds \in Documents, ReloadStart(ds) PROVE RegType'
  BY <1>1, <1>4 DEF ReloadStart, regVars
<1>5. ASSUME \/ ReloadBuild \/ ReloadResolve \/ RemovedDrained \/ ReloadAddBus
             \/ ReloadSwap \/ ReloadFinish \/ RuntimeClose \/ CloseRouter
             \/ RouterDrained \/ RunRouter
      PROVE  RegType'
  BY <1>1, <1>5 DEF ReloadBuild, ReloadResolve, RemovedDrained, ReloadAddBus, ReloadSwap,
     ReloadFinish, RuntimeClose, CloseRouter, RouterDrained, RunRouter, regVars
<1>6. ASSUME NEW g \in Gens, RetireUnroute(g) PROVE RegType'
  BY <1>1, <1>6 DEF RetireUnroute, regVars
<1>7. ASSUME NEW a \in External, AttachExternal(a) \/ LeaveExternal(a) PROVE RegType'
  BY <1>1, <1>7 DEF AttachExternal, LeaveExternal, regVars
<1>8. ASSUME NEW m \in DynNames, RegisterAgent(m) PROVE RegType'
  <2>1. UNCHANGED closes /\ TypeOK
    BY <1>8 DEF RegisterAgent, IndInv
  <2>2. PICK i \in Inst : /\ bound' = [bound EXCEPT ![i] = current]
                         /\ dyn' = [dyn EXCEPT ![m] = i]
    BY <1>8, <2>1, LeastFresh
  <2> QED
    BY <1>8, <2>1, <2>2 DEF TypeOK, RegType
<1>9. ASSUME NEW m \in DynNames, UnregisterAgent(m) PROVE RegType'
  BY <1>9 DEF UnregisterAgent, IndInv, TypeOK, RegType
<1>10. ASSUME UnregisterDrained PROVE RegType'
  <2>1. {entries[opName]} \in SUBSET Inst /\ \A i \in {entries[opName]} : closes[i] = 0
    BY <1>10 DEF UnregisterDrained, IndInv, TypeOK, OpInv, AsideInv, Swapped
  <2>2. CloseAll({entries[opName]}) /\ UNCHANGED <<dyn, bound>> /\ TypeOK
    BY <1>10 DEF UnregisterDrained, IndInv
  <2>3. closes' \in [Inst -> 0..1]
    BY <2>1, <2>2, CloseEffect
  <2> QED
    BY <2>2, <2>3 DEF TypeOK, RegType
<1>11. ASSUME UnregisterFails PROVE RegType'
  BY <1>11 DEF UnregisterFails, IndInv, TypeOK, RegType
<1>12. ASSUME ReloadSharedBus PROVE RegType'
  BY <1>12 DEF ReloadSharedBus, AbortClosing, regVars, IndInv, TypeOK, RegType
<1>13. ASSUME ReloadAbort PROVE RegType'
  BY <1>13 DEF ReloadAbort, AbortClosing, regVars, IndInv, TypeOK, RegType
<1>14. ASSUME ReloadRebind PROVE RegType'
  BY <1>14, RebindEffect DEF ReloadRebind, IndInv, TypeOK, RegType
<1>15. ASSUME NEW d \in DepNames, DrainRemoved(d) PROVE RegType'
  BY <1>15 DEF DrainRemoved, regVars, IndInv, TypeOK, RegType
<1>16. ASSUME DrainFails PROVE RegType'
  <2>1. Instances(rebound) \in SUBSET Inst /\ \A i \in Instances(rebound) : closes[i] = 0
    BY <1>16 DEF DrainFails, IndInv, TypeOK, AsideInv, Instances
  <2>2. CloseAll(Instances(rebound)) /\ UNCHANGED bound /\ dyn' \in {dyn, entries} /\ TypeOK
    BY <1>16 DEF DrainFails, IndInv
  <2>3. closes' \in [Inst -> 0..1]
    BY <2>1, <2>2, CloseEffect
  <2> QED
    BY <2>2, <2>3 DEF TypeOK, RegType
<1>17. ASSUME ReloadReopen PROVE RegType'
  BY <1>17 DEF ReloadReopen, regVars, IndInv, TypeOK, RegType
<1>18. ASSUME ReloadReplace PROVE RegType'
  BY <1>18 DEF ReloadReplace, IndInv, TypeOK, RegType
<1>19. ASSUME RollbackTo PROVE RegType'
  <2>1. Instances(rebound) \in SUBSET Inst /\ \A i \in Instances(rebound) : closes[i] = 0
    BY <1>19 DEF RollbackTo, IndInv, TypeOK, AsideInv, Instances
  <2>2. CloseAll(Instances(rebound)) /\ UNCHANGED bound /\ dyn' \in {dyn, entries} /\ TypeOK
    BY <1>19 DEF RollbackTo, IndInv
  <2>3. closes' \in [Inst -> 0..1]
    BY <2>1, <2>2, CloseEffect
  <2> QED
    BY <2>2, <2>3 DEF TypeOK, RegType
<1>20. ASSUME NEW g \in Gens, RetireClose(g) PROVE RegType'
  <2>1. adopted[g] \in SUBSET Inst /\ \A i \in adopted[g] : closes[i] = 0
    BY <1>20 DEF RetireClose, IndInv, TypeOK, GenInv, AdoptInv, Swapped
  <2>2. CloseAll(adopted[g]) /\ UNCHANGED <<dyn, bound>> /\ TypeOK
    BY <1>20 DEF RetireClose, CloseGeneration, IndInv
  <2>3. closes' \in [Inst -> 0..1]
    BY <2>1, <2>2, CloseEffect
  <2> QED
    BY <2>2, <2>3 DEF TypeOK, RegType
<1>21. ASSUME CloseCurrent PROVE RegType'
  <2>1. adopted[current] \in SUBSET Inst /\ \A i \in adopted[current] : closes[i] = 0
    BY <1>21 DEF CloseCurrent, IndInv, TypeOK, GenInv, AdoptInv, Swapped
  <2>2. CloseAll(adopted[current]) /\ UNCHANGED <<dyn, bound>> /\ TypeOK
    BY <1>21 DEF CloseCurrent, CloseGeneration, IndInv
  <2>3. closes' \in [Inst -> 0..1]
    BY <2>1, <2>2, CloseEffect
  <2> QED
    BY <2>2, <2>3 DEF TypeOK, RegType
<1> QED
  BY <1>1, <1>2, <1>3, <1>4, <1>5, <1>6, <1>7, <1>8, <1>9, <1>10, <1>11, <1>12, <1>13, <1>14,
     <1>15, <1>16, <1>17, <1>18, <1>19, <1>20, <1>21 DEF Next, TurnStep, LifecycleStep,
     RetireStep

\* The types of the tombstones.
LEMMA KeptTombType == ASSUME IndInv, Next PROVE TombType'
<1> USE ReloadAssumption DEF Gens, Inst, Names
<1>1. ASSUME UNCHANGED <<removed, drained, unregistered>>
      PROVE  TombType'
  BY <1>1 DEF IndInv, TypeOK, TombType
<1>2. ASSUME NEW t \in Turns, NEW n \in Names, Capture(t, n) PROVE TombType'
  BY <1>1, <1>2 DEF Capture, tombs
<1>3. ASSUME NEW t \in Turns,
             \/ Reserve(t) \/ Resolve(t) \/ RunTurn(t) \/ AbandonStart(t)
             \/ FailStartTurn(t) \/ FinishTurn(t) \/ ReleaseTurn(t)
      PROVE  TombType'
  BY <1>1, <1>3 DEF tombs, Reserve, Resolve, RunTurn, AbandonStart, FailStartTurn, FinishTurn,
     ReleaseTurn
<1>4. ASSUME NEW g \in Gens, RetireUnroute(g) \/ RetireClose(g) PROVE TombType'
  BY <1>1, <1>4 DEF tombs, RetireUnroute, RetireClose, CloseGeneration
<1>5. ASSUME \/ RuntimeClose \/ CloseRouter \/ RouterDrained \/ CloseCurrent
             \/ RunRouter
      PROVE  TombType'
  BY <1>1, <1>5 DEF tombs, RuntimeClose, CloseRouter, RouterDrained, CloseCurrent, CloseGeneration,
     RunRouter
<1>6. ASSUME NEW a \in External,
             AttachExternal(a) \/ LeaveExternal(a)
      PROVE  TombType'
  BY <1>1, <1>6 DEF tombs, AttachExternal, LeaveExternal
<1>7. ASSUME NEW m \in DynNames, RegisterAgent(m) PROVE TombType'
  BY <1>7 DEF RegisterAgent, Reopen, IndInv, TypeOK, TombType
<1>8. ASSUME NEW m \in DynNames, UnregisterAgent(m) PROVE TombType'
  BY <1>8 DEF UnregisterAgent, Tombstone, IndInv, TypeOK, TombType
<1>9. ASSUME UnregisterDrained PROVE TombType'
  BY <1>9 DEF UnregisterDrained, ClosesSessions, IndInv, TypeOK, TombType
<1>10. ASSUME UnregisterFails PROVE TombType'
  BY <1>10 DEF UnregisterFails, DrainError, ClosesSessions, tombs, IndInv, TypeOK, TombType
<1>11. ASSUME NEW ds \in Documents, ReloadStart(ds) PROVE TombType'
  BY <1>1, <1>11 DEF ReloadStart, tombs
<1>12. ASSUME ReloadBuild PROVE TombType'
  BY <1>1, <1>12 DEF ReloadBuild, tombs
<1>13. ASSUME ReloadResolve PROVE TombType'
  BY <1>1, <1>13 DEF ReloadResolve, tombs
<1>14. ASSUME ReloadSharedBus PROVE TombType'
  BY <1>14 DEF ReloadSharedBus, AbortClosing, Reopen, IndInv, TypeOK, TombType
<1>15. ASSUME ReloadAbort PROVE TombType'
  BY <1>15 DEF ReloadAbort, AbortClosing, Reopen, IndInv, TypeOK, TombType
<1>16. ASSUME ReloadRebind PROVE TombType'
  BY <1>1, <1>16 DEF ReloadRebind, tombs
<1>17. ASSUME NEW d \in DepNames, DrainRemoved(d) PROVE TombType'
  BY <1>17 DEF DrainRemoved, Tombstone, IndInv, TypeOK, TombType
<1>18. ASSUME RemovedDrained PROVE TombType'
  BY <1>18 DEF RemovedDrained, ClosesSessions, IndInv, TypeOK, TombType
<1>19. ASSUME DrainFails PROVE TombType'
  BY <1>19 DEF DrainFails, DrainError, ClosesSessions, tombs, IndInv, TypeOK, TombType
<1>20. ASSUME ReloadReopen PROVE TombType'
  BY <1>20 DEF ReloadReopen, Reopen, IndInv, TypeOK, TombType
<1>21. ASSUME ReloadReplace PROVE TombType'
  BY <1>1, <1>21 DEF ReloadReplace, tombs
<1>22. ASSUME ReloadAddBus PROVE TombType'
  BY <1>1, <1>22 DEF ReloadAddBus, tombs
<1>23. ASSUME RollbackTo PROVE TombType'
  BY <1>1, <1>23 DEF RollbackTo, tombs
<1>24. ASSUME ReloadSwap PROVE TombType'
  BY <1>1, <1>24 DEF ReloadSwap, tombs
<1>25. ASSUME ReloadFinish PROVE TombType'
  BY <1>1, <1>25 DEF ReloadFinish, tombs
<1> QED
  BY <1>1, <1>2, <1>3, <1>4, <1>5, <1>6, <1>7, <1>8, <1>9, <1>10, <1>11, <1>12, <1>13, <1>14,
     <1>15, <1>16, <1>17, <1>18, <1>19, <1>20, <1>21, <1>22, <1>23, <1>24, <1>25 DEF Next,
     TurnStep, LifecycleStep, RetireStep

\* The types of the operation in progress.
LEMMA KeptOpType == ASSUME IndInv, Next PROVE OpType'
<1> USE ReloadAssumption DEF Gens, Inst, Names
<1>1. ASSUME UNCHANGED <<op, opName, entries, rebound>>
      PROVE  OpType'
  BY <1>1 DEF IndInv, OpType, NoEntries, TypeOK
<1>2. ASSUME NEW t \in Turns, NEW n \in Names, Capture(t, n) PROVE OpType'
  BY <1>1, <1>2 DEF Capture, opVars
<1>3. ASSUME NEW t \in Turns,
             \/ Reserve(t) \/ Resolve(t) \/ RunTurn(t) \/ AbandonStart(t)
             \/ FailStartTurn(t) \/ FinishTurn(t) \/ ReleaseTurn(t)
      PROVE  OpType'
  BY <1>1, <1>3 DEF Reserve, Resolve, RunTurn, AbandonStart, FailStartTurn, FinishTurn,
     ReleaseTurn, opVars
<1>4. ASSUME NEW m \in DynNames, RegisterAgent(m) PROVE OpType'
  BY <1>1, <1>4 DEF RegisterAgent, opVars
<1>5. ASSUME NEW g \in Gens, RetireUnroute(g) \/ RetireClose(g) PROVE OpType'
  BY <1>1, <1>5 DEF RetireUnroute, RetireClose, CloseGeneration, opVars
<1>6. ASSUME \/ RuntimeClose \/ CloseRouter \/ RouterDrained \/ CloseCurrent
             \/ RunRouter
      PROVE  OpType'
  BY <1>1, <1>6 DEF RuntimeClose, CloseRouter, RouterDrained, CloseCurrent, CloseGeneration,
     RunRouter, opVars
<1>7. ASSUME NEW a \in External, AttachExternal(a) \/ LeaveExternal(a) PROVE OpType'
  BY <1>1, <1>7 DEF AttachExternal, LeaveExternal, opVars
<1>8. ASSUME NEW m \in DynNames, UnregisterAgent(m) PROVE OpType'
  BY <1>8 DEF UnregisterAgent, IndInv, TypeOK, OpType
<1>9. ASSUME UnregisterDrained PROVE OpType'
  BY <1>9 DEF UnregisterDrained, Unlock, IndInv, OpType, NoEntries
<1>10. ASSUME UnregisterFails PROVE OpType'
  BY <1>10 DEF UnregisterFails, Unlock, IndInv, OpType, NoEntries
<1>11. ASSUME NEW ds \in Documents, ReloadStart(ds) PROVE OpType'
  BY <1>11 DEF ReloadStart, Goto, IndInv, TypeOK, OpType
<1>12. ASSUME ReloadBuild PROVE OpType'
  BY <1>12 DEF ReloadBuild, Unlock, Goto, IndInv, TypeOK, OpType, NoEntries
<1>13. ASSUME ReloadResolve PROVE OpType'
  BY <1>13 DEF ReloadResolve, Goto, IndInv, TypeOK, OpType
<1>14. ASSUME ReloadSharedBus PROVE OpType'
  BY <1>14 DEF ReloadSharedBus, AbortClosing, Unlock, IndInv, OpType, NoEntries
<1>15. ASSUME ReloadAbort PROVE OpType'
  BY <1>15 DEF ReloadAbort, AbortClosing, Unlock, IndInv, OpType, NoEntries
<1>16. ASSUME ReloadRebind PROVE OpType'
  BY <1>16 DEF ReloadRebind, IndInv, TypeOK, OpType
<1>17. ASSUME NEW d \in DepNames, DrainRemoved(d) PROVE OpType'
  BY <1>17 DEF DrainRemoved, IndInv, TypeOK, OpType
<1>18. ASSUME RemovedDrained PROVE OpType'
  BY <1>18 DEF RemovedDrained, Goto, IndInv, TypeOK, OpType
<1>19. ASSUME DrainFails PROVE OpType'
  BY <1>19 DEF DrainFails, Goto, IndInv, TypeOK, OpType
<1>20. ASSUME ReloadReopen PROVE OpType'
  BY <1>20 DEF ReloadReopen, Goto, IndInv, TypeOK, OpType
<1>21. ASSUME ReloadReplace PROVE OpType'
  BY <1>21 DEF ReloadReplace, Goto, IndInv, TypeOK, OpType
<1>22. ASSUME ReloadAddBus PROVE OpType'
  BY <1>22 DEF ReloadAddBus, Goto, IndInv, TypeOK, OpType
<1>23. ASSUME RollbackTo PROVE OpType'
  BY <1>23 DEF RollbackTo, Goto, IndInv, TypeOK, OpType
<1>24. ASSUME ReloadSwap PROVE OpType'
  BY <1>24 DEF ReloadSwap, Goto, IndInv, TypeOK, OpType
<1>25. ASSUME ReloadFinish PROVE OpType'
  BY <1>25 DEF ReloadFinish, Unlock, IndInv, OpType, NoEntries
<1> QED
  BY <1>1, <1>2, <1>3, <1>4, <1>5, <1>6, <1>7, <1>8, <1>9, <1>10, <1>11, <1>12, <1>13, <1>14,
     <1>15, <1>16, <1>17, <1>18, <1>19, <1>20, <1>21, <1>22, <1>23, <1>24, <1>25 DEF Next,
     TurnStep, LifecycleStep, RetireStep

\* The types of Starts, turns and external attachments.
LEMMA KeptTurnType == ASSUME IndInv, Next PROVE TurnType'
<1> USE ReloadAssumption DEF Gens, Inst, Names
<1>1. ASSUME UNCHANGED <<rt, pc, held, uses, doomed, tainted, ext>>
      PROVE  TurnType'
  BY <1>1 DEF IndInv, TurnType, TypeOK
<1>2. ASSUME NEW m \in DynNames,
             RegisterAgent(m) \/ UnregisterAgent(m)
      PROVE  TurnType'
  BY <1>1, <1>2 DEF RegisterAgent, UnregisterAgent, turnVars
<1>3. ASSUME \/ ReloadBuild \/ ReloadResolve \/ ReloadSharedBus
             \/ ReloadAbort \/ ReloadRebind \/ ReloadReopen
             \/ ReloadReplace \/ ReloadAddBus \/ RollbackTo \/ ReloadSwap
             \/ ReloadFinish \/ CloseRouter \/ RouterDrained \/ RunRouter
      PROVE  TurnType'
  BY <1>1, <1>3 DEF ReloadBuild, ReloadResolve, ReloadSharedBus,
     AbortClosing, ReloadAbort, ReloadRebind, ReloadReopen, ReloadReplace,
     ReloadAddBus, RollbackTo, ReloadSwap, ReloadFinish, CloseRouter, RouterDrained,
     RunRouter, turnVars
<1>4. ASSUME NEW ds \in Documents, ReloadStart(ds) PROVE TurnType'
  BY <1>1, <1>4 DEF ReloadStart, turnVars
<1>5. ASSUME NEW d \in DepNames, DrainRemoved(d) PROVE TurnType'
  BY <1>1, <1>5 DEF DrainRemoved, turnVars
<1>6. ASSUME NEW g \in Gens, RetireUnroute(g) \/ RetireClose(g) PROVE TurnType'
  BY <1>1, <1>6 DEF RetireUnroute, RetireClose, CloseGeneration, turnVars
<1>7. ASSUME NEW t \in Turns, NEW n \in Names, Capture(t, n) PROVE TurnType'
  BY <1>7 DEF Capture, IndInv, TypeOK, TurnType
<1>8. ASSUME NEW t \in Turns, Reserve(t) PROVE TurnType'
  BY <1>8 DEF Reserve, IndInv, TypeOK, TurnType
<1>9. ASSUME NEW t \in Turns, Resolve(t) PROVE TurnType'
  BY <1>9 DEF Resolve, Dynamic, IndInv, TypeOK, TurnType
<1>10. ASSUME NEW t \in Turns, RunTurn(t) PROVE TurnType'
  BY <1>10 DEF RunTurn, IndInv, TypeOK, TurnType
<1>11. ASSUME NEW t \in Turns, AbandonStart(t) PROVE TurnType'
  BY <1>11 DEF AbandonStart, Release, IndInv, TypeOK, TurnType
<1>12. ASSUME NEW t \in Turns, FailStartTurn(t) PROVE TurnType'
  <2>1. /\ pc' = [pc EXCEPT ![t] = "done"] /\ uses' = [uses EXCEPT ![t] = 0]
        /\ held' = [held EXCEPT ![t] = 0] /\ doomed' \subseteq doomed
        /\ tainted' = tainted \cup {held[t]} /\ UNCHANGED <<rt, ext>>
    BY <1>12 DEF FailStartTurn, Release
  <2>2. held[t] \in Gens \cup {0}
    BY DEF IndInv, TypeOK
  <2> QED
    BY <2>1, <2>2 DEF IndInv, TypeOK, TurnType
<1>13. ASSUME NEW t \in Turns, FinishTurn(t) PROVE TurnType'
  BY <1>13 DEF FinishTurn, IndInv, TypeOK, TurnType
<1>14. ASSUME NEW t \in Turns, ReleaseTurn(t) PROVE TurnType'
  BY <1>14 DEF ReleaseTurn, Release, IndInv, TypeOK, TurnType
<1>15. ASSUME UnregisterDrained \/ UnregisterFails PROVE TurnType'
  BY <1>15 DEF UnregisterDrained, UnregisterFails, DrainError, ClosesSessions, IndInv, TypeOK, TurnType
<1>16. ASSUME RemovedDrained \/ DrainFails PROVE TurnType'
  BY <1>16 DEF RemovedDrained, DrainFails, DrainError, ClosesSessions, IndInv, TypeOK, TurnType
<1>17. ASSUME RuntimeClose PROVE TurnType'
  BY <1>17 DEF RuntimeClose, turnVars, IndInv, TypeOK, TurnType
<1>18. ASSUME CloseCurrent PROVE TurnType'
  BY <1>18 DEF CloseCurrent, CloseGeneration, turnVars, IndInv, TypeOK, TurnType
<1>19. ASSUME NEW a \in External, AttachExternal(a) PROVE TurnType'
  BY <1>19 DEF AttachExternal, turnVars, IndInv, TypeOK, TurnType
<1>20. ASSUME NEW a \in External, LeaveExternal(a) PROVE TurnType'
  BY <1>20 DEF LeaveExternal, turnVars, IndInv, TypeOK, TurnType
<1> QED
  BY <1>1, <1>2, <1>3, <1>4, <1>5, <1>6, <1>7, <1>8, <1>9, <1>10, <1>11, <1>12, <1>13, <1>14,
     <1>15, <1>16, <1>17, <1>18, <1>19, <1>20 DEF Next, TurnStep, LifecycleStep, RetireStep

\* The types of the router.
LEMMA KeptRouterType == ASSUME IndInv, Next PROVE RouterType'
<1> USE ReloadAssumption DEF Gens, Inst, Names
<1>1. ASSUME UNCHANGED <<buses, busDown, attached, ctxDone, linked, toClose, chan, loop, routerState>>
      PROVE  RouterType'
  BY <1>1 DEF IndInv, RouterType, TypeOK
<1>2. ASSUME NEW t \in Turns, NEW n \in Names, Capture(t, n) PROVE RouterType'
  BY <1>1, <1>2 DEF Capture, routerVars
<1>3. ASSUME NEW t \in Turns,
             \/ Reserve(t) \/ Resolve(t) \/ AbandonStart(t) \/ FailStartTurn(t)
             \/ ReleaseTurn(t)
      PROVE  RouterType'
  BY <1>1, <1>3 DEF Reserve, Resolve, AbandonStart, FailStartTurn, ReleaseTurn, routerVars
<1>4. ASSUME NEW m \in DynNames,
             RegisterAgent(m) \/ UnregisterAgent(m)
      PROVE  RouterType'
  BY <1>1, <1>4 DEF RegisterAgent, UnregisterAgent, routerVars
<1>5. ASSUME \/ UnregisterDrained \/ UnregisterFails \/ ReloadBuild \/ ReloadResolve
             \/ ReloadRebind \/ RemovedDrained \/ DrainFails \/ ReloadReopen
             \/ ReloadReplace \/ RollbackTo \/ ReloadSwap \/ ReloadFinish
             \/ RuntimeClose
      PROVE  RouterType'
  BY <1>1, <1>5 DEF UnregisterDrained, UnregisterFails, ReloadBuild, ReloadResolve,
     ReloadRebind, RemovedDrained, DrainFails, ReloadReopen, ReloadReplace, RollbackTo,
     ReloadSwap, ReloadFinish, RuntimeClose, routerVars
<1>6. ASSUME NEW ds \in Documents, ReloadStart(ds) PROVE RouterType'
  BY <1>1, <1>6 DEF ReloadStart, routerVars
<1>7. ASSUME NEW d \in DepNames, DrainRemoved(d) PROVE RouterType'
  BY <1>1, <1>7 DEF DrainRemoved, routerVars
<1>8. ASSUME NEW t \in Turns, RunTurn(t) PROVE RouterType'
  <2>1. t \in Attachments /\ Attach(t)
    BY <1>8, ReloadAssumption DEF RunTurn
  <2> QED
    BY <2>1, AttachEffect DEF Attach, IndInv, TypeOK, RouterType
<1>9. ASSUME NEW t \in Turns, FinishTurn(t) PROVE RouterType'
  BY <1>9 DEF FinishTurn, Stop, Detached, Unlink, SubsOf, IndInv, TypeOK, RouterType
<1>10. ASSUME ReloadSharedBus PROVE RouterType'
  BY <1>10 DEF ReloadSharedBus, AbortClosing, BusCloses, IndInv, TypeOK, RouterType
<1>11. ASSUME ReloadAbort PROVE RouterType'
  <2>1. NewGen \in Buses
    BY NewGenType, ReloadAssumption DEF IndInv, Gens
  <2> QED
    BY <1>11, <2>1 DEF ReloadAbort, AbortClosing, BusCloses, IndInv, TypeOK, RouterType
<1>12. ASSUME ReloadAddBus PROVE RouterType'
  <2>0. NewGen \in Buses
    BY <1>12, NewGenType, ReloadAssumption DEF IndInv, Gens
  <2>1. CASE AddBus(NewGen)
    BY <2>0, <2>1, AddBusEffect DEF AddBus, IndInv, TypeOK, RouterType
  <2>2. CASE AddBusFails(NewGen)
    <3>1. UNCHANGED <<buses, attached, loop, toClose, ctxDone, busDown, routerState>>
      BY <2>2 DEF AddBusFails
    <3> QED
      BY <2>0, <2>2, <3>1, AddBusFailsEffect DEF IndInv, TypeOK, RouterType
  <2> QED
    BY <1>12, <2>1, <2>2 DEF ReloadAddBus
<1>13. ASSUME NEW g \in Gens, RetireUnroute(g) PROVE RouterType'
  <2>1. /\ buses' \subseteq buses /\ linked' \subseteq linked /\ toClose' \subseteq toClose \cup linked
        /\ UNCHANGED <<attached, chan, loop, ctxDone, busDown, routerState>>
    BY <1>13 DEF RetireUnroute, RemoveBus, Unlink
  <2> QED
    BY <2>1 DEF IndInv, TypeOK, RouterType
<1>14. ASSUME NEW g \in Gens, RetireClose(g) PROVE RouterType'
  BY <1>14 DEF RetireClose, CloseGeneration, BusCloses, IndInv, TypeOK, RouterType
<1>15. ASSUME CloseRouter PROVE RouterType'
  BY <1>15 DEF CloseRouter, RouterClose, Unlink, IndInv, TypeOK, RouterType
<1>16. ASSUME RouterDrained PROVE RouterType'
  BY <1>16 DEF RouterDrained, RouterCloseReturns, IndInv, TypeOK, RouterType
<1>17. ASSUME CloseCurrent PROVE RouterType'
  BY <1>17 DEF CloseCurrent, CloseGeneration, BusCloses, IndInv, TypeOK, RouterType
<1>18. ASSUME NEW a \in External, AttachExternal(a) PROVE RouterType'
  <2>1. a \in Attachments /\ Attach(a)
    BY <1>18, ReloadAssumption DEF AttachExternal
  <2> QED
    BY <2>1, AttachEffect DEF Attach, IndInv, TypeOK, RouterType
<1>19. ASSUME NEW a \in External, LeaveExternal(a) PROVE RouterType'
  <2>1. CASE Stop(a)
    <3>1. linked' \subseteq SubIds /\ toClose' \subseteq SubIds /\ attached' \subseteq Attachments
      BY <2>1, DetachEffect DEF Stop, IndInv, TypeOK
    <3> QED
      BY <2>1, <3>1 DEF Stop, IndInv, TypeOK, RouterType
  <2>2. CASE CancelCtx(a)
    BY <2>2 DEF CancelCtx, IndInv, TypeOK, RouterType
  <2>3. ASSUME NEW b \in Buses, LoopDetaches(<<a, b>>) PROVE RouterType'
    <3>1. <<a, b>> \in SubIds
      BY ReloadAssumption DEF SubIds
    <3> QED
      BY <2>3, <3>1, LoopDetachesType
  <2> QED
    BY <1>19, <2>1, <2>2, <2>3 DEF LeaveExternal
<1>20. ASSUME RunRouter PROVE RouterType'
  <2> SUFFICES ASSUME NEW x \in SubIds, RouterStep(x) PROVE RouterType'
    BY <1>20 DEF RunRouter
  <2>1. CASE CloseSub(x)
    BY <2>1 DEF CloseSub, IndInv, TypeOK, RouterType
  <2>2. CASE LoopSubEnded(x)
    <3>1. linked' \subseteq SubIds /\ toClose' \subseteq SubIds /\ attached' \subseteq Attachments
      BY <2>2, DetachEffect DEF LoopSubEnded, IndInv, TypeOK
    <3> QED
      BY <2>2, <3>1 DEF LoopSubEnded, IndInv, TypeOK, RouterType
  <2>3. CASE LoopExit(x)
    BY <2>3 DEF LoopExit, IndInv, TypeOK, RouterType
  <2>4. CASE LoopDetaches(x)
    BY <2>4, LoopDetachesType
  <2> QED
    BY <2>1, <2>2, <2>3, <2>4 DEF RouterStep
<1> QED
  BY <1>1, <1>2, <1>3, <1>4, <1>5, <1>6, <1>7, <1>8, <1>9, <1>10, <1>11, <1>12, <1>13, <1>14,
     <1>15, <1>16, <1>17, <1>18, <1>19, <1>20 DEF Next, TurnStep, LifecycleStep, RetireStep

\* InstancesAreOwned: whenever an operation lets go of an instance, it has closed it or
\* somebody else has it.
LEMMA KeptInstancesAreOwned == ASSUME IndInv, Next PROVE InstancesAreOwned'
<1> USE ReloadAssumption DEF Gens, Inst, Names
<1>1. ASSUME UNCHANGED <<bound, closes, dyn, op, entries, rebound, adopted, genState>>
      PROVE  InstancesAreOwned'
  BY <1>1 DEF IndInv, InstancesAreOwned, Swapped, Replaced
<1>2. ASSUME NEW t \in Turns, NEW n \in Names, Capture(t, n) PROVE InstancesAreOwned'
  BY <1>1, <1>2 DEF Capture, genVars, regVars, opVars
<1>3. ASSUME NEW t \in Turns,
             Reserve(t) \/ Resolve(t) \/ RunTurn(t) \/ FinishTurn(t)
      PROVE  InstancesAreOwned'
  BY <1>1, <1>3 DEF Reserve, Resolve, RunTurn, FinishTurn, genVars, regVars, opVars
<1>4. ASSUME CloseRouter \/ RouterDrained \/ RunRouter PROVE InstancesAreOwned'
  BY <1>1, <1>4 DEF CloseRouter, RouterDrained, RunRouter, genVars, regVars, opVars
<1>5. ASSUME NEW a \in External,
             AttachExternal(a) \/ LeaveExternal(a)
      PROVE  InstancesAreOwned'
  BY <1>1, <1>5 DEF AttachExternal, LeaveExternal, genVars, regVars, opVars
<1>6. ASSUME NEW t \in Turns, AbandonStart(t) PROVE InstancesAreOwned'
  <2>1. Release(t)
    BY <1>6 DEF AbandonStart
  <2>2. held[t] \in Gens
    BY <1>6, HeldType DEF AbandonStart
  <2> QED
    BY <1>6, <2>1, <2>2, ReleaseEffect DEF AbandonStart, InstancesAreOwned, IndInv, opVars,
       regVars
<1>7. ASSUME NEW t \in Turns, FailStartTurn(t) PROVE InstancesAreOwned'
  <2>1. Release(t)
    BY <1>7 DEF FailStartTurn
  <2>2. held[t] \in Gens
    BY <1>7, HeldType DEF FailStartTurn
  <2> QED
    BY <1>7, <2>1, <2>2, ReleaseEffect DEF FailStartTurn, InstancesAreOwned, IndInv, opVars,
       regVars
<1>8. ASSUME NEW t \in Turns, ReleaseTurn(t) PROVE InstancesAreOwned'
  <2>1. Release(t)
    BY <1>8 DEF ReleaseTurn
  <2>2. held[t] \in Gens
    BY <1>8, HeldType DEF ReleaseTurn
  <2> QED
    BY <1>8, <2>1, <2>2, ReleaseEffect DEF ReleaseTurn, InstancesAreOwned, IndInv, opVars,
       regVars
<1>9. ASSUME NEW m \in DynNames, RegisterAgent(m) PROVE InstancesAreOwned'
  <2> SUFFICES ASSUME NEW i \in Inst, bound'[i] # 0, closes'[i] = 0
               PROVE  \/ i \in Instances(dyn')
                      \/ op' # "idle" /\ i \in Instances(entries') \cup Instances(rebound')
                      \/ \E h \in Gens : i \in adopted'[h] /\ genState'[h] # "closed"
    BY DEF InstancesAreOwned
  <2>1. op = "idle" /\ rt = "open" /\ dyn[m] = 0 /\ TypeOK
        /\ UNCHANGED <<current, closes, deployed, adopted, genState, op, rt, entries, rebound>>
    BY <1>9 DEF RegisterAgent, IndInv, genVars, opVars
  <2>2. PICK k \in Inst : /\ bound[k] = 0 /\ bound' = [bound EXCEPT ![k] = current]
                         /\ dyn' = [dyn EXCEPT ![m] = k]
    BY <1>9, <2>1, LeastFresh
  <2>0. dyn \in [DynNames -> Inst \cup {0}] /\ dyn' \in [DynNames -> Inst \cup {0}]
    BY <2>1, <2>2 DEF TypeOK
  <2>3. \A j \in Inst : j \in Instances(dyn') <=> \E n \in DynNames : dyn'[n] = j
    BY <2>0, InstancesOf
  <2>4. \A j \in Inst : j \in Instances(dyn) <=> \E n \in DynNames : dyn[n] = j
    BY <2>1, InstancesOf DEF TypeOK
  <2>5. CASE i = k
    <3>1. dyn'[m] = k
      BY <1>9, <2>0, <2>2
    <3> QED
      BY <1>9, <2>3, <2>5, <3>1
  <2>6. CASE i # k
    <3>1. bound[i] # 0 /\ closes[i] = 0 /\ 0 \notin Inst
      BY <2>1, <2>2, <2>6 DEF TypeOK, Inst
    <3>2. i \in Instances(dyn) \/ \E h \in Gens : i \in adopted[h] /\ genState[h] # "closed"
      BY <2>1, <3>1 DEF IndInv, InstancesAreOwned
    <3>3. i \in Instances(dyn) => i \in Instances(dyn')
      <4>1. \A n \in DynNames \ {m} : dyn'[n] = dyn[n]
        BY <2>0, <2>2
      <4> QED
        BY <2>1, <2>3, <2>4, <3>1, <4>1
    <3> QED
      BY <2>1, <3>2, <3>3
  <2> QED
    BY <2>5, <2>6
<1>10. ASSUME NEW m \in DynNames, UnregisterAgent(m) PROVE InstancesAreOwned'
  BY <1>10 DEF UnregisterAgent, genVars, IndInv, InstancesAreOwned
<1>11. ASSUME UnregisterDrained PROVE InstancesAreOwned'
  <2> SUFFICES ASSUME NEW i \in Inst, bound'[i] # 0, closes'[i] = 0
               PROVE  \/ i \in Instances(dyn')
                      \/ op' # "idle" /\ i \in Instances(entries') \cup Instances(rebound')
                      \/ \E h \in Gens : i \in adopted'[h] /\ genState'[h] # "closed"
    BY DEF InstancesAreOwned
  <2>1. /\ op = "unregister" /\ UNCHANGED <<dyn, bound, adopted, genState>>
        /\ Instances(rebound) = {} /\ TypeOK /\ opName \in DynNames
    BY <1>11, NoInstances DEF UnregisterDrained, genVars, IndInv, OpInv, TypeOK
  <2>2. i # entries[opName] /\ closes[i] = 0
    BY <1>11, DrainedEffect
  <2>3. i \in Instances(entries) => i \in Instances(dyn)
    BY <2>1, <2>2 DEF Instances, IndInv, OpInv
  <2> QED
    BY <2>1, <2>2, <2>3 DEF IndInv, InstancesAreOwned
<1>12. ASSUME UnregisterFails PROVE InstancesAreOwned'
  <2> SUFFICES ASSUME NEW i \in Inst, bound'[i] # 0, closes'[i] = 0
               PROVE  \/ i \in Instances(dyn')
                      \/ op' # "idle" /\ i \in Instances(entries') \cup Instances(rebound')
                      \/ \E h \in Gens : i \in adopted'[h] /\ genState'[h] # "closed"
    BY DEF InstancesAreOwned
  <2>1. /\ op = "unregister" /\ dyn' = entries /\ UNCHANGED <<bound, closes, adopted, genState>>
        /\ Instances(rebound) = {}
    BY <1>12, NoInstances DEF UnregisterFails, genVars, IndInv, OpInv
  <2>2. Instances(dyn) \subseteq Instances(entries)
    BY <2>1 DEF Instances, IndInv, OpInv
  <2> QED
    BY <2>1, <2>2 DEF IndInv, InstancesAreOwned
<1>13. ASSUME NEW ds \in Documents, ReloadStart(ds) PROVE InstancesAreOwned'
  BY <1>13 DEF ReloadStart, regVars, IndInv, InstancesAreOwned
<1>14. ASSUME ReloadBuild PROVE InstancesAreOwned'
  <2>0. NewGen \in Gens /\ op = "build" /\ genState[NewGen] = "none" /\ rt = "open"
    BY <1>14, NewGenType DEF ReloadBuild, IndInv, TypeOK, GenInv, Building
  <2>1. CASE Unlock /\ UNCHANGED genState
    BY <1>14, <2>0, <2>1, NoInstances DEF ReloadBuild, Unlock, IndInv, turnVars, NewGen,
       InstancesAreOwned, regVars, OpInv, AdoptInv
  <2>2. CASE Goto("resolve") /\ genState' = [genState EXCEPT ![NewGen] = "built"]
    BY <1>14, <2>0, <2>2, NoInstances DEF ReloadBuild, Goto, IndInv, TypeOK, turnVars,
       NewGen, InstancesAreOwned, regVars, OpInv, AdoptInv
  <2> QED
    BY <1>14, <2>1, <2>2 DEF ReloadBuild
<1>15. ASSUME ReloadResolve PROVE InstancesAreOwned'
  BY <1>15 DEF ReloadResolve, Goto, genVars, regVars, IndInv, InstancesAreOwned
<1>16. ASSUME ReloadSharedBus PROVE InstancesAreOwned'
  <2> SUFFICES ASSUME NEW i \in Inst, bound'[i] # 0, closes'[i] = 0
               PROVE  \/ i \in Instances(dyn')
                      \/ op' # "idle" /\ i \in Instances(entries') \cup Instances(rebound')
                      \/ \E h \in Gens : i \in adopted'[h] /\ genState'[h] # "closed"
    BY DEF InstancesAreOwned
  <2>1. NewGen \in Gens /\ genState[NewGen] = "built" /\ op \in {"abort", "resolve"} /\ TypeOK
    BY <1>16, NewGenType DEF ReloadSharedBus, IndInv, GenInv, Building
  <2>2. UNCHANGED <<dyn, adopted, bound, closes>> /\ genState' = [genState EXCEPT ![NewGen] = "closed"]
    BY <1>16 DEF ReloadSharedBus, AbortClosing, regVars
  <2>3. Instances(entries) \subseteq Instances(dyn)
    BY <2>1, NoInstances DEF IndInv, OpInv
  <2>4. i \notin Instances(rebound)
    BY <1>16, <2>1, <2>2, NoInstances DEF ReloadSharedBus, Instances, IndInv, OpInv, AsideInv
  <2>5. \A h \in Gens : i \in adopted[h] => h # NewGen
    BY <2>1 DEF IndInv, AdoptInv
  <2> QED
    BY <2>1, <2>2, <2>3, <2>4, <2>5 DEF IndInv, InstancesAreOwned, TypeOK
<1>17. ASSUME ReloadAbort PROVE InstancesAreOwned'
  <2> SUFFICES ASSUME NEW i \in Inst, bound'[i] # 0, closes'[i] = 0
               PROVE  \/ i \in Instances(dyn')
                      \/ op' # "idle" /\ i \in Instances(entries') \cup Instances(rebound')
                      \/ \E h \in Gens : i \in adopted'[h] /\ genState'[h] # "closed"
    BY DEF InstancesAreOwned
  <2>1. NewGen \in Gens /\ genState[NewGen] = "built" /\ op \in {"abort", "resolve"} /\ TypeOK
    BY <1>17, NewGenType DEF ReloadAbort, IndInv, GenInv, Building
  <2>2. UNCHANGED <<dyn, adopted, bound, closes>> /\ genState' = [genState EXCEPT ![NewGen] = "closed"]
    BY <1>17 DEF ReloadAbort, AbortClosing, regVars
  <2>3. Instances(entries) \subseteq Instances(dyn)
    BY <2>1, NoInstances DEF IndInv, OpInv
  <2>4. i \notin Instances(rebound)
    BY <1>17, <2>1, <2>2, NoInstances DEF ReloadAbort, Instances, IndInv, OpInv, AsideInv
  <2>5. \A h \in Gens : i \in adopted[h] => h # NewGen
    BY <2>1 DEF IndInv, AdoptInv
  <2> QED
    BY <2>1, <2>2, <2>3, <2>4, <2>5 DEF IndInv, InstancesAreOwned, TypeOK
<1>18. ASSUME ReloadRebind PROVE InstancesAreOwned'
  <2> SUFFICES ASSUME NEW i \in Inst, bound'[i] # 0, closes'[i] = 0
               PROVE  \/ i \in Instances(dyn')
                      \/ op' # "idle" /\ i \in Instances(entries') \cup Instances(rebound')
                      \/ \E h \in Gens : i \in adopted'[h] /\ genState'[h] # "closed"
    BY DEF InstancesAreOwned
  <2>1. /\ UNCHANGED <<dyn, adopted, genState>> /\ entries' = dyn /\ op = "rebind"
        /\ Instances(entries) = {} /\ Instances(rebound) = {}
    BY <1>18, NoInstances DEF ReloadRebind, genVars, IndInv, OpInv
  <2>2. op' # "idle" /\ (i \notin Instances(rebound') => bound[i] # 0 /\ closes[i] = 0)
    BY <1>18, RebindEffect
  <2> QED
    BY <2>1, <2>2 DEF IndInv, InstancesAreOwned
<1>19. ASSUME NEW d \in DepNames, DrainRemoved(d) PROVE InstancesAreOwned'
  BY <1>19 DEF DrainRemoved, genVars, regVars, IndInv, InstancesAreOwned
<1>20. ASSUME RemovedDrained PROVE InstancesAreOwned'
  BY <1>20 DEF RemovedDrained, Goto, genVars, regVars, IndInv, InstancesAreOwned
<1>21. ASSUME DrainFails PROVE InstancesAreOwned'
  BY <1>21 DEF DrainFails, Goto, CloseAll, genVars, IndInv, InstancesAreOwned
<1>22. ASSUME ReloadReopen PROVE InstancesAreOwned'
  BY <1>22 DEF ReloadReopen, Goto, genVars, regVars, IndInv, InstancesAreOwned
<1>23. ASSUME ReloadReplace PROVE InstancesAreOwned'
  BY <1>23 DEF ReloadReplace, Goto, IndInv, InstancesAreOwned, GenInv, OpInv, AdoptInv, Swapped
<1>24. ASSUME ReloadAddBus PROVE InstancesAreOwned'
  BY <1>24 DEF ReloadAddBus, Goto, genVars, regVars, IndInv, InstancesAreOwned
<1>25. ASSUME RollbackTo PROVE InstancesAreOwned'
  BY <1>25 DEF RollbackTo, Goto, CloseAll, IndInv, InstancesAreOwned, OpInv, Replaced
<1>26. ASSUME ReloadSwap PROVE InstancesAreOwned'
  BY <1>26 DEF ReloadSwap, Goto, regVars, IndInv, TypeOK, InstancesAreOwned
<1>27. ASSUME ReloadFinish PROVE InstancesAreOwned'
  BY <1>27 DEF ReloadFinish, regVars, IndInv, TypeOK, InstancesAreOwned, OpInv, AdoptInv,
     Replaced
<1>28. ASSUME NEW g \in Gens, RetireUnroute(g) PROVE InstancesAreOwned'
  BY <1>28 DEF RetireUnroute, regVars, opVars, IndInv, InstancesAreOwned
<1>29. ASSUME NEW g \in Gens, RetireClose(g) PROVE InstancesAreOwned'
  BY <1>29 DEF RetireClose, CloseGeneration, CloseAll, opVars, IndInv, TypeOK, InstancesAreOwned
<1>30. ASSUME RuntimeClose PROVE InstancesAreOwned'
  BY <1>30 DEF RuntimeClose, regVars, opVars, IndInv, InstancesAreOwned, GenInv, AdoptInv,
     Swapped
<1>31. ASSUME CloseCurrent PROVE InstancesAreOwned'
  BY <1>31 DEF CloseCurrent, CloseGeneration, CloseAll, opVars, IndInv, TypeOK,
     InstancesAreOwned
<1> QED
  BY <1>1, <1>2, <1>3, <1>4, <1>5, <1>6, <1>7, <1>8, <1>9, <1>10, <1>11, <1>12, <1>13, <1>14,
     <1>15, <1>16, <1>17, <1>18, <1>19, <1>20, <1>21, <1>22, <1>23, <1>24, <1>25, <1>26,
     <1>27, <1>28, <1>29, <1>30, <1>31 DEF Next, TurnStep, LifecycleStep, RetireStep

-----------------------------------------------------------------------------
(* The theorems. *)

\* The invariant holds initially.
LEMMA InitHolds == Init => IndInv
<1> SUFFICES ASSUME Init PROVE IndInv
  OBVIOUS
<1> USE ReloadAssumption DEF Gens, Inst, Names
<1>0. 1 \in Gens /\ 1 \in Buses
  OBVIOUS
<1>1. GenType
  BY <1>0 DEF Init, GenType, States
<1>2. RegType /\ TombType
  BY DEF Init, RegType, TombType, NoEntries
<1>3. OpType /\ TurnType
  BY DEF Init, OpType, TurnType, NoEntries
<1>4. RouterType
  BY <1>0 DEF Init, RouterInit, RouterType
<1>5. TypeOK
  BY <1>1, <1>2, <1>3, <1>4 DEF TypeOK, GenType, RegType, TombType, OpType, TurnType, RouterType, States
<1>6. GenInv
  BY <1>0 DEF Init, GenInv, Building, Replaced, Swapped
<1>7. OpInv /\ RemovedInv
  BY DEF Init, OpInv, RemovedInv, NoEntries, NoDrains, Replaced
<1>8. BoundInv /\ AdoptInv /\ NameInv /\ ServeInv /\ AsideInv
  BY DEF Init, BoundInv, AdoptInv, NameInv, OneName, ServeInv, AsideInv, NoEntries
<1>9. HoldInv
  BY DEF Init, HoldInv
<1>10. BusInv
  BY <1>0 DEF Init, RouterInit, BusInv
<1>11. LinkInv /\ LoopInv
  BY DEF Init, RouterInit, LinkInv, LoopInv
<1>12. InstancesAreOwned
  BY DEF Init, InstancesAreOwned
<1> QED
  BY <1>5, <1>6, <1>7, <1>8, <1>9, <1>10, <1>11, <1>12 DEF IndInv

\* Every step keeps the invariant.
LEMMA StepKeeps == IndInv /\ [Next]_vars => IndInv'
<1> SUFFICES ASSUME IndInv, [Next]_vars PROVE IndInv'
  OBVIOUS
<1>1. CASE Next
  <2>1. TypeOK'
    BY <1>1, KeptGenType, KeptRegType, KeptTombType, KeptOpType, KeptTurnType, KeptRouterType
       DEF TypeOK, GenType, RegType, TombType, OpType, TurnType, RouterType, States
  <2> QED
    BY <1>1, <2>1, KeptGenInv, KeptOpInv, KeptRemovedInv, KeptBoundInv, KeptAdoptInv,
       KeptNameInv,
       KeptServeInv, KeptAsideInv, KeptHoldInv, KeptBusInv, KeptLinkInv, KeptLoopInv,
       KeptInstancesAreOwned DEF IndInv
<1>2. CASE UNCHANGED vars
  <2>1. UNCHANGED <<current, epoch, doc, genState, nextGen, adopted, dyn, deployed, bound, closes,
                  removed, drained, unregistered>>
    BY <1>2 DEF vars, genVars, regVars, tombs
  <2>2. UNCHANGED <<op, opName, entries, rebound, drains, rt, pc, held, uses, doomed, tainted, ext>>
    BY <1>2 DEF vars, opVars, turnVars
  <2>3. UNCHANGED <<buses, attached, linked, chan, loop, toClose, ctxDone, busDown, routerState>>
    BY <1>2 DEF vars, routerVars
  <2>4. TypeOK'
    BY <2>1, <2>2, <2>3 DEF IndInv, TypeOK
  <2>5. GenInv' /\ OpInv' /\ RemovedInv' /\ HoldInv'
    BY <2>1, <2>2 DEF IndInv, GenInv, OpInv, RemovedInv, HoldInv, NewGen
  <2>6. BoundInv' /\ AdoptInv' /\ NameInv' /\ ServeInv' /\ AsideInv' /\ InstancesAreOwned'
    BY <2>1, <2>2 DEF IndInv, BoundInv, AdoptInv, NameInv, ServeInv, AsideInv,
       InstancesAreOwned, NewGen
  <2>7. BusInv' /\ LinkInv' /\ LoopInv'
    BY <2>1, <2>2, <2>3 DEF IndInv, BusInv, LinkInv, LoopInv, NewGen
  <2> QED
    BY <2>4, <2>5, <2>6, <2>7 DEF IndInv
<1> QED
  BY <1>1, <1>2

\* IndInv holds in every reachable state.
THEOREM Inductive == Spec => []IndInv
  BY InitHolds, StepKeeps, PTL DEF Spec

\* Every variable keeps its type, and no instance is closed twice: the drain, the
\* rollback, the abort and the retirement of a generation never meet on one.
THEOREM TypeCorrect == Spec => []TypeOK
<1>1. IndInv => TypeOK
  BY DEF IndInv
<1> QED
  BY <1>1, Inductive, PTL

\* No dynamic agent instance is leaked by RegisterAgent, UnregisterAgent, Reload in
\* any of its outcomes, retirement or Close.
THEOREM NoInstanceLeaks == Spec => []InstancesAreOwned
<1>1. IndInv => InstancesAreOwned
  BY DEF IndInv
<1> QED
  BY <1>1, Inductive, PTL

\* Between lifecycle operations registry, manager, router and tombstones agree on one
\* generation, whichever step of the reloads before has failed.
THEOREM ReloadSettles == Spec => []SettledRuntimeIsConsistent
<1>1. IndInv => SettledRuntimeIsConsistent
  <2> SUFFICES ASSUME IndInv, op = "idle", rt = "open"
               PROVE  /\ epoch = current /\ deployed = current
                      /\ genState[current] = "live" /\ adopted[current] = {}
                      /\ current \in buses
                      /\ \A g \in buses : genState[g] \in {"live", "retiring", "retired"}
                      /\ \A n \in DynNames : dyn[n] # 0 => bound[dyn[n]] = current /\ closes[dyn[n]] = 0
                      /\ removed \cap doc[current] \subseteq unregistered
    BY DEF SettledRuntimeIsConsistent
  <2>1. /\ epoch = current /\ deployed = current /\ genState[current] = "live" /\ current \in Gens
    BY DEF IndInv, TypeOK, GenInv, Swapped, Replaced
  <2>2. adopted[current] = {}
    BY <2>1 DEF IndInv, AdoptInv
  <2>3. current \in buses /\ \A g \in buses : genState[g] \in {"live", "retiring", "retired"}
    BY <2>1 DEF IndInv, BusInv
  <2>4. \A n \in DynNames : dyn[n] # 0 => bound[dyn[n]] = current /\ closes[dyn[n]] = 0
    BY <2>1 DEF IndInv, ServeInv
  <2>5. removed \cap doc[current] \subseteq unregistered
    BY DEF IndInv, RemovedInv, OpInv, NoDrains
  <2> QED
    BY <2>1, <2>2, <2>3, <2>4, <2>5
<1> QED
  BY <1>1, Inductive, PTL

\* Whoever attached and did not leave is subscribed, with a running loop, on the bus of
\* every generation it can hear from, through reloads, their failures and retirements.
THEOREM SubscribersKeepHearing == Spec => []AttachmentsSurviveReload
<1>1. IndInv => AttachmentsSurviveReload
  <2> SUFFICES ASSUME IndInv, rt = "open" PROVE AttachmentsSurviveReload
    BY DEF AttachmentsSurviveReload
  <2>1. ASSUME NEW a \in attached, NEW g \in Gens, genState[g] \in {"live", "retiring", "retired"}
        PROVE  Hears(a, g)
    <3>1. g \in buses /\ g \notin busDown
      BY <2>1 DEF IndInv, BusInv
    <3>2. <<a, g>> \in SubIds
      BY <3>1 DEF IndInv, TypeOK, SubIds
    <3> QED
      BY <3>1, <3>2, <2>1 DEF IndInv, LinkInv, Hears
  <2>2. ASSUME NEW t \in Turns, pc[t] = "running" PROVE Hears(t, held[t])
    <3>1. t \in attached /\ held[t] \in Gens /\ genState[held[t]] \in {"live", "retiring"}
      BY <2>2 DEF IndInv, TypeOK, LinkInv, HoldInv
    <3> QED
      BY <2>1, <3>1
  <2>3. ASSUME NEW a \in External, ext[a] = "on" PROVE Hears(a, epoch)
    <3>1. a \in attached /\ epoch \in Gens /\ genState[epoch] = "live"
      BY <2>3 DEF IndInv, TypeOK, LinkInv, GenInv
    <3> QED
      BY <2>1, <3>1
  <2> QED
    BY <2>2, <2>3 DEF AttachmentsSurviveReload
<1> QED
  BY <1>1, Inductive, PTL

=============================================================================
