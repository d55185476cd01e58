---------------------------- MODULE EventRouter ----------------------------
(***************************************************************************)
(* event.Router: one attachment is subscribed on every bus of the router,  *)
(* with one delivery loop per subscription (src/core/event/router.go).     *)
(*                                                                         *)
(* A subscription is named by the pair <<attachment, bus>>.  router.mu     *)
(* makes AddBus, RemoveBus, Attach, detach and the first phase of Close    *)
(* one step each; the subscriptions they unlink are closed afterwards,     *)
(* without the lock.  A loop learns that its subscription is gone from the *)
(* closed channel, and only then asks whether it is still linked.          *)
(***************************************************************************)
EXTENDS Naturals, FiniteSets

CONSTANTS Attachments, Buses

SubIds == Attachments \X Buses

VARIABLES
  buses,        \* r.buses
  attached,     \* the ids in r.attachments
  linked,       \* the union of every a.subs
  chan,         \* the channel of each subscription: none, open, closed
  loop,         \* its runBus goroutine: none, running, exiting, done
  toClose,      \* unlinked subscriptions whose Close is still to come
  ctxDone,      \* attachments whose ctx is cancelled
  busDown,      \* buses that have been closed
  routerState   \* open, closing (Close waits for the loops), closed

routerVars == <<buses, attached, linked, chan, loop, toClose, ctxDone, busDown, routerState>>

RouterInit(first) ==
  /\ buses = {first}
  /\ attached = {} /\ linked = {} /\ toClose = {} /\ ctxDone = {} /\ busDown = {}
  /\ chan = [x \in SubIds |-> "none"]
  /\ loop = [x \in SubIds |-> "none"]
  /\ routerState = "open"

SubsOf(a) == {x \in linked : x[1] = a}

Opened(xs) == /\ linked' = linked \cup xs
              /\ chan' = [x \in SubIds |-> IF x \in xs THEN "open" ELSE chan[x]]
              /\ loop' = [x \in SubIds |-> IF x \in xs THEN "running" ELSE loop[x]]

Unlink(xs) == /\ linked' = linked \ xs
              /\ toClose' = toClose \cup xs

-----------------------------------------------------------------------------

(* Subscribes a on every bus of the router, or on none: a bus that is down *)
(* refuses, and what was opened before it is closed again.                 *)
Attach(a) ==
  /\ routerState = "open"
  /\ a \notin attached /\ \A x \in SubIds : x[1] = a => chan[x] = "none"
  /\ buses \cap busDown = {}
  /\ attached' = attached \cup {a}
  /\ Opened({a} \X buses)
  /\ UNCHANGED <<buses, toClose, ctxDone, busDown, routerState>>

AddBus(b) ==
  /\ routerState = "open" /\ b \notin buses
  /\ buses' = buses \cup {b}
  /\ Opened(attached \X {b})
  /\ UNCHANGED <<attached, toClose, ctxDone, busDown, routerState>>

(* The Subscribe of a fails: those before it are closed again.  They stay  *)
(* in the subs of their attachments, without a loop.                       *)
AddBusFails(b) ==
  /\ routerState = "open" /\ b \notin buses
  /\ \E a \in attached : \E before \in SUBSET (attached \ {a}) :
       /\ linked' = linked \cup (before \X {b})
       /\ chan' = [x \in SubIds |-> IF x \in before \X {b} THEN "closed" ELSE chan[x]]
  /\ UNCHANGED <<buses, attached, loop, toClose, ctxDone, busDown, routerState>>

RemoveBus(b) ==
  /\ IF b \in buses
       THEN /\ buses' = buses \ {b}
            /\ Unlink({x \in linked : x[2] = b /\ x[1] \in attached})
       ELSE UNCHANGED <<buses, linked, toClose>>
  /\ UNCHANGED <<attached, chan, loop, ctxDone, busDown, routerState>>

(* The effect of detach on the router's own state. *)
Detached(a) == attached' = attached \ {a} /\ Unlink(SubsOf(a))

(* The stop function Attach returned. *)
Stop(a) == /\ Detached(a)
           /\ UNCHANGED <<buses, chan, loop, ctxDone, busDown, routerState>>

CloseSub(x) ==
  /\ x \in toClose
  /\ toClose' = toClose \ {x}
  /\ chan' = [chan EXCEPT ![x] = "closed"]
  /\ UNCHANGED <<buses, attached, linked, loop, ctxDone, busDown, routerState>>

(* A bus closes: it closes the channel of every subscription still on it. *)
BusCloses(bs) ==
  /\ busDown' = busDown \cup bs
  /\ chan' = [x \in SubIds |-> IF x[2] \in bs /\ chan[x] = "open" THEN "closed" ELSE chan[x]]
  /\ UNCHANGED <<buses, attached, linked, loop, toClose, ctxDone, routerState>>

CancelCtx(a) ==
  /\ a \in attached /\ a \notin ctxDone
  /\ ctxDone' = ctxDone \cup {a}
  /\ UNCHANGED <<buses, attached, linked, chan, loop, toClose, busDown, routerState>>

(* Mutant: a loop whose channel is closed does not ask whether the          *)
(* subscription is still linked.                                           *)
LoopSubEndedAlwaysDetaches(x) ==
  /\ loop[x] = "running" /\ chan[x] = "closed"
  /\ Detached(x[1])
  /\ loop' = [loop EXCEPT ![x] = "exiting"]
  /\ UNCHANGED <<buses, chan, ctxDone, busDown, routerState>>

(* runBus sees its channel closed.  Still linked, the bus itself has died  *)
(* and the whole attachment goes; unlinked, the loop exits quietly.        *)
LoopSubEnded(x) ==
  /\ loop[x] = "running" /\ chan[x] = "closed"
  /\ IF x \in linked THEN Detached(x[1]) ELSE UNCHANGED <<attached, linked, toClose>>
  /\ loop' = [loop EXCEPT ![x] = "exiting"]
  /\ UNCHANGED <<buses, chan, ctxDone, busDown, routerState>>

(* runBus sees the ctx cancelled, or its sink returns an error. *)
LoopDetaches(x) ==
  /\ loop[x] = "running"
  /\ Detached(x[1])
  /\ loop' = [loop EXCEPT ![x] = "exiting"]
  /\ UNCHANGED <<buses, chan, ctxDone, busDown, routerState>>

(* detach has closed the subscriptions of its attachment: wg.Done. *)
LoopExit(x) ==
  /\ loop[x] = "exiting"
  /\ \A y \in toClose : y[1] # x[1]
  /\ loop' = [loop EXCEPT ![x] = "done"]
  /\ UNCHANGED <<buses, attached, linked, chan, toClose, ctxDone, busDown, routerState>>

RouterClose ==
  /\ routerState = "open"
  /\ routerState' = "closing"
  /\ buses' = {} /\ attached' = {}
  /\ Unlink(linked)
  /\ UNCHANGED <<chan, loop, ctxDone, busDown>>

RouterCloseReturns ==
  /\ routerState = "closing"
  /\ \A x \in SubIds : loop[x] \in {"none", "done"}
  /\ routerState' = "closed"
  /\ UNCHANGED <<buses, attached, linked, chan, loop, toClose, ctxDone, busDown>>

(* What the router's own goroutines do. *)
RouterStep(x) == CloseSub(x) \/ LoopSubEnded(x) \/ LoopExit(x)
                 \/ (x[1] \in ctxDone /\ LoopDetaches(x))
=============================================================================
