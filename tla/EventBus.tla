------------------------------ MODULE EventBus ------------------------------
(***************************************************************************)
(* event.MemoryBus: concurrent Publish calls, subscriptions that come and  *)
(* go, and the shutdown of the bus (src/core/event/memory.go).             *)
(*                                                                         *)
(* bus.mu is a sync.RWMutex.  A Publish holds it in read mode over its scan *)
(* and its non-blocking sends and gives it up only around a Block send; a  *)
(* writer (Subscribe, removeSub, the first phase of Close) is one step     *)
(* that needs every reader gone.  Everything else in a shutdown - closing  *)
(* done, waiting for the senders, closing the channel - happens without    *)
(* the lock, so those are steps of their own.                              *)
(*                                                                         *)
(* A pattern is the set of subjects it matches and a predicate the set of  *)
(* publishers whose envelopes it lets through.  The order in which a scan  *)
(* visits its subscribers is that of a Go map: any order.  Ids, times and  *)
(* trace fields of an envelope and the observer callbacks are left out.    *)
(***************************************************************************)
EXTENDS Naturals, Sequences, FiniteSets

CONSTANTS Publishers,    \* goroutines that call Publish
          Subs,          \* subscription ids, each used once
          Subjects,
          SubConfigs,    \* SubConfigs[s]: the options Subscribe may open s with
          BufferSize,    \* WithBufferSize
          CacheCap,      \* WithRouteCacheSize; 0 turns the cache off
          Closers,       \* the callers of memSub.Close: <<subscription, who>>
          MaxPublish     \* bound: Publish calls per publisher

Envelopes == [pub : Publishers, n : 1..MaxPublish, subject : Subjects]
Configs == [policy  : {"Block", "DropNewest", "DropOldest", "Sample"},
            pattern : SUBSET Subjects,
            from    : SUBSET Publishers]

NoCall == [env |-> "none"]
NoConfig == [policy |-> "DropNewest", pattern |-> {}, from |-> {}]   \* not opened yet

ASSUME BusAssumption ==
  /\ BufferSize \in Nat /\ CacheCap \in Nat /\ MaxPublish \in Nat
  /\ IsFiniteSet(Publishers)
  /\ Closers \subseteq Subs \X {"owner", "ctx"}
  /\ SubConfigs \in [Subs -> SUBSET (Configs \ {NoConfig})]

VARIABLES
  closed,        \* b.closed
  subscribers,   \* the ids in b.subscribers
  cache,         \* b.routeCache: subject -> matched subscriptions
  dropped,       \* b.dropped
  config,        \* the options of each subscription
  done,          \* sub.done is closed
  senders,       \* sub.senders
  log,           \* every envelope ever accepted into sub.ch, in order
  head,          \* how many of them have left sub.ch
  chClosed,      \* sub.ch is closed
  pc,            \* where each publisher is in Publish
  call,          \* its envelope; must and seen are the contract's bookkeeping
  todo,          \* the part of matched its loop has not reached
  cur,           \* the subscription its loop is at
  sent,          \* Publish calls made so far
  result,        \* how the last call of each publisher ended
  closer,        \* where each caller of memSub.Close is
  busCloser,     \* where MemoryBus.Close is
  closing,       \* the subscriptions MemoryBus.Close took off the bus
  crashed,       \* a send hit a closed channel: the process panics
  offered,       \* audit: envelopes offered to non-blocking subscriptions
  received       \* audit: envelopes a consumer took from them

busVars  == <<closed, subscribers, cache, dropped>>
subVars  == <<config, done, senders, log, head, chClosed>>
pubVars  == <<pc, call, todo, cur, sent, result>>
stopVars == <<closer, busCloser, closing>>
auditVars == <<offered, received>>
vars == <<busVars, subVars, pubVars, stopVars, crashed, auditVars>>

(* Publish holds bus.mu in read mode at these places. *)
Reading == {"scan", "send", "evict", "retry"}
NoReader == \A p \in Publishers : pc[p] \notin Reading

(* b.inflight: registered under the first RLock, released on every return. *)
Inflight == {p \in Publishers : pc[p] # "idle"}

Buffered(s) == Len(log[s]) - head[s]
Full(s) == Buffered(s) >= BufferSize

Wants(s, e) == e.subject \in config[s].pattern /\ e.pub \in config[s].from
Owed(s) == IF config[s].policy = "Block" THEN {e \in Envelopes : Wants(s, e)} ELSE {}

Init ==
  /\ closed = FALSE /\ subscribers = {} /\ cache = [j \in {} |-> {}] /\ dropped = 0
  /\ config = [s \in Subs |-> NoConfig]
  /\ done = [s \in Subs |-> FALSE]
  /\ senders = [s \in Subs |-> 0]
  /\ log = [s \in Subs |-> <<>>]
  /\ head = [s \in Subs |-> 0]
  /\ chClosed = [s \in Subs |-> FALSE]
  /\ pc = [p \in Publishers |-> "idle"]
  /\ call = [p \in Publishers |-> NoCall]
  /\ todo = [p \in Publishers |-> {}]
  /\ cur = [p \in Publishers |-> "none"]
  /\ sent = [p \in Publishers |-> 0]
  /\ result = [p \in Publishers |-> "none"]
  /\ closer = [c \in Closers |-> "idle"]
  /\ busCloser = "idle" /\ closing = {}
  /\ crashed = FALSE
  /\ offered = 0 /\ received = 0

-----------------------------------------------------------------------------
(* The route cache *)

MatchedSubs(j) == {s \in subscribers : j \in config[s].pattern}

Matched(j) == IF j \in DOMAIN cache THEN cache[j] ELSE MatchedSubs(j)

StoreRoute(j) ==
  cache' = IF CacheCap = 0 \/ j \in DOMAIN cache THEN cache
           ELSE LET kept == IF Cardinality(DOMAIN cache) >= CacheCap THEN {} ELSE DOMAIN cache
                IN  [k \in kept \cup {j} |-> IF k = j THEN MatchedSubs(j) ELSE cache[k]]

(* Mutant: subscription churn leaves the cached routes in place. *)
KeepRouteCache == UNCHANGED cache

ClearRouteCache == cache' = [j \in {} |-> {}]

-----------------------------------------------------------------------------
(* Publish *)

PublishBegin(p, j) ==
  /\ pc[p] = "idle" /\ sent[p] < MaxPublish
  /\ sent' = [sent EXCEPT ![p] = @ + 1]
  /\ IF closed
       THEN /\ result' = [result EXCEPT ![p] = "closed"]
            /\ UNCHANGED <<pc, call>>
       ELSE LET e == [pub |-> p, n |-> sent[p] + 1, subject |-> j]
            IN  /\ pc' = [pc EXCEPT ![p] = "enter"]
                /\ call' = [call EXCEPT ![p] =
                              [env  |-> e,
                               must |-> {s \in subscribers : e \in Owed(s)},
                               seen |-> subscribers]]
                /\ result' = [result EXCEPT ![p] = "none"]
  /\ UNCHANGED <<busVars, subVars, todo, cur, stopVars, crashed, auditVars>>

(* Leaves Publish with r; the deferred inflight.Done is part of it. *)
ReturnWith(p, r) ==
  /\ pc' = [pc EXCEPT ![p] = "idle"]
  /\ call' = [call EXCEPT ![p] = NoCall]
  /\ todo' = [todo EXCEPT ![p] = {}]
  /\ cur' = [cur EXCEPT ![p] = "none"]
  /\ result' = [result EXCEPT ![p] = r]
  /\ UNCHANGED sent

PublishScan(p) ==
  /\ pc[p] = "enter"
  /\ IF closed
       THEN ReturnWith(p, "closed") /\ UNCHANGED cache
       ELSE /\ pc' = [pc EXCEPT ![p] = "scan"]
            /\ todo' = [todo EXCEPT ![p] = Matched(call[p].env.subject)]
            /\ StoreRoute(call[p].env.subject)
            /\ UNCHANGED <<call, cur, sent, result>>
  /\ UNCHANGED <<closed, subscribers, dropped, subVars, stopVars, crashed, auditVars>>

(* The head of the loop: the predicate, then the check of sub.done.  What  *)
(* passes both is sent in a later step.                                    *)
PublishVisit(p, s) ==
  /\ pc[p] = "scan" /\ s \in todo[p]
  /\ todo' = [todo EXCEPT ![p] = @ \ {s}]
  /\ IF Wants(s, call[p].env) /\ ~done[s]
       THEN /\ pc' = [pc EXCEPT ![p] = "send"]
            /\ cur' = [cur EXCEPT ![p] = s]
            /\ offered' = IF config[s].policy = "Block" THEN offered ELSE offered + 1
       ELSE UNCHANGED <<pc, cur, offered>>
  /\ UNCHANGED <<busVars, subVars, call, sent, result, stopVars, crashed, received>>

PublishReturn(p) ==
  /\ pc[p] = "scan" /\ todo[p] = {}
  /\ ReturnWith(p, "nil")
  /\ UNCHANGED <<busVars, subVars, stopVars, crashed, auditVars>>

(* sub.ch <- env: a send on a closed channel panics. *)
Put(p, s) ==
  /\ crashed' = chClosed[s]
  /\ log' = IF chClosed[s] THEN log ELSE [log EXCEPT ![s] = Append(@, call[p].env)]

NextSub(p) == /\ pc' = [pc EXCEPT ![p] = "scan"]
              /\ cur' = [cur EXCEPT ![p] = "none"]

(* Block: register on senders, then give up bus.mu for the send. *)
BlockPark(p) ==
  LET s == cur[p] IN
  /\ pc[p] = "send" /\ config[s].policy = "Block"
  /\ senders' = [senders EXCEPT ![s] = @ + 1]
  /\ pc' = [pc EXCEPT ![p] = "parked"]
  /\ UNCHANGED <<busVars, config, done, log, head, chClosed, call, todo, cur, sent, result,
                 stopVars, crashed, auditVars>>

(* Mutant: the select of the Block path forgets sub.done. *)
BlockWakeIgnoresDone(p) ==
  LET s == cur[p] IN
  /\ pc[p] = "parked" /\ (chClosed[s] \/ ~Full(s))
  /\ Put(p, s)
  /\ senders' = [senders EXCEPT ![s] = @ - 1]
  /\ pc' = [pc EXCEPT ![p] = "relock"]
  /\ UNCHANGED <<busVars, config, done, head, chClosed, call, todo, cur, sent, result,
                 stopVars, auditVars>>

(* The select of a parked sender: the channel takes the envelope, or the   *)
(* subscription closes.  Either way the sender deregisters and goes for    *)
(* bus.mu again.                                                           *)
BlockWake(p) ==
  LET s == cur[p] IN
  /\ pc[p] = "parked"
  /\ \/ /\ chClosed[s] \/ ~Full(s)
        /\ Put(p, s)
     \/ /\ done[s]
        /\ UNCHANGED <<crashed, log>>
  /\ senders' = [senders EXCEPT ![s] = @ - 1]
  /\ pc' = [pc EXCEPT ![p] = "relock"]
  /\ UNCHANGED <<busVars, config, done, head, chClosed, call, todo, cur, sent, result,
                 stopVars, auditVars>>

(* Mutant: the ctx branch returns without senders.Done. *)
BlockCancelKeepsSender(p) ==
  /\ pc[p] = "parked"
  /\ ReturnWith(p, "ctx")
  /\ UNCHANGED <<busVars, subVars, stopVars, crashed, auditVars>>

(* The caller's ctx ends while the send is parked. *)
BlockCancel(p) ==
  LET s == cur[p] IN
  /\ pc[p] = "parked"
  /\ senders' = [senders EXCEPT ![s] = @ - 1]
  /\ ReturnWith(p, "ctx")
  /\ UNCHANGED <<busVars, config, done, log, head, chClosed, stopVars, crashed, auditVars>>

BlockRelock(p) ==
  /\ pc[p] = "relock"
  /\ IF closed THEN ReturnWith(p, "closed")
               ELSE NextSub(p) /\ UNCHANGED <<call, todo, sent, result>>
  /\ UNCHANGED <<busVars, subVars, stopVars, crashed, auditVars>>

(* The first non-blocking send of DropNewest, DropOldest and Sample. *)
TrySend(p) ==
  LET s == cur[p] IN
  /\ pc[p] = "send" /\ config[s].policy # "Block"
  /\ IF ~Full(s) \/ chClosed[s]
       THEN Put(p, s) /\ NextSub(p) /\ UNCHANGED dropped
       ELSE /\ UNCHANGED <<log, crashed>>
            /\ IF config[s].policy = "DropOldest"
                 THEN /\ pc' = [pc EXCEPT ![p] = "evict"]
                      /\ UNCHANGED <<cur, dropped>>
                 ELSE NextSub(p) /\ dropped' = dropped + 1
  /\ UNCHANGED <<closed, subscribers, cache, config, done, senders, head, chClosed,
                 call, todo, sent, result, stopVars, auditVars>>

SampleOut(p) ==
  /\ pc[p] = "send" /\ config[cur[p]].policy = "Sample"
  /\ dropped' = dropped + 1
  /\ NextSub(p)
  /\ UNCHANGED <<closed, subscribers, cache, subVars, call, todo, sent, result,
                 stopVars, crashed, auditVars>>

(* Mutant: the evicted envelope is not counted. *)
EvictOldestUncounted(p) ==
  LET s == cur[p] IN
  /\ pc[p] = "evict"
  /\ head' = [head EXCEPT ![s] = IF Buffered(s) > 0 THEN @ + 1 ELSE @]
  /\ pc' = [pc EXCEPT ![p] = "retry"]
  /\ UNCHANGED <<busVars, config, done, senders, log, chClosed,
                 call, todo, cur, sent, result, stopVars, crashed, auditVars>>

(* DropOldest on a full buffer: take the oldest out (a consumer may have   *)
(* emptied the channel meanwhile), then try once more.                     *)
EvictOldest(p) ==
  LET s == cur[p] IN
  /\ pc[p] = "evict"
  /\ IF Buffered(s) > 0
       THEN head' = [head EXCEPT ![s] = @ + 1] /\ dropped' = dropped + 1
       ELSE UNCHANGED <<head, dropped>>
  /\ pc' = [pc EXCEPT ![p] = "retry"]
  /\ UNCHANGED <<closed, subscribers, cache, config, done, senders, log, chClosed,
                 call, todo, cur, sent, result, stopVars, crashed, auditVars>>

RetrySend(p) ==
  LET s == cur[p] IN
  /\ pc[p] = "retry"
  /\ IF ~Full(s) \/ chClosed[s] THEN Put(p, s) /\ UNCHANGED dropped
                                ELSE dropped' = dropped + 1 /\ UNCHANGED <<log, crashed>>
  /\ NextSub(p)
  /\ UNCHANGED <<closed, subscribers, cache, config, done, senders, head, chClosed,
                 call, todo, sent, result, stopVars, auditVars>>

-----------------------------------------------------------------------------
(* Subscriptions *)

Subscribe(s, c) ==
  /\ config[s] = NoConfig
  /\ NoReader /\ ~closed
  /\ ClearRouteCache
  /\ subscribers' = subscribers \cup {s}
  /\ config' = [config EXCEPT ![s] = c]
  /\ call' = [p \in Publishers |->
                IF call[p] = NoCall THEN NoCall
                ELSE [call[p] EXCEPT !.seen = @ \cup {s}]]
  /\ UNCHANGED <<closed, dropped, done, senders, log, head, chClosed,
                 pc, todo, cur, sent, result, stopVars, crashed, auditVars>>

(* A consumer takes the next envelope from sub.C(). *)
Receive(s) ==
  /\ Buffered(s) > 0
  /\ head' = [head EXCEPT ![s] = @ + 1]
  /\ received' = IF config[s].policy = "Block" THEN received ELSE received + 1
  /\ UNCHANGED <<busVars, config, done, senders, log, chClosed, pubVars, stopVars,
                 crashed, offered>>

Goto(c, place) == closer' = [closer EXCEPT ![c] = place]

(* memSub.Close, first step: removeSub under the write lock.  The caller   *)
(* is the owner, or the goroutine Subscribe starts, which waits for the    *)
(* ctx and gives up once done is closed.                                   *)
RemoveSub(c) ==
  /\ config[c[1]] # NoConfig /\ closer[c] = "idle"
  /\ c[2] = "ctx" => ~done[c[1]]
  /\ NoReader
  /\ IF c[1] \in subscribers
       THEN subscribers' = subscribers \ {c[1]} /\ ClearRouteCache
       ELSE UNCHANGED <<subscribers, cache>>
  /\ Goto(c, "removed")
  /\ UNCHANGED <<closed, dropped, subVars, pubVars, busCloser, closing, crashed, auditVars>>

SignalDone(c) ==
  /\ closer[c] = "removed"
  /\ done' = [done EXCEPT ![c[1]] = TRUE]
  /\ Goto(c, "signalled")
  /\ UNCHANGED <<busVars, config, senders, log, head, chClosed, pubVars, busCloser, closing,
                 crashed, auditVars>>

AwaitSenders(c) ==
  /\ closer[c] = "signalled" /\ senders[c[1]] = 0
  /\ Goto(c, "drained")
  /\ UNCHANGED <<busVars, subVars, pubVars, busCloser, closing, crashed, auditVars>>

CloseChannel(c) ==
  /\ closer[c] = "drained"
  /\ chClosed' = [chClosed EXCEPT ![c[1]] = TRUE]
  /\ Goto(c, "returned")
  /\ UNCHANGED <<busVars, config, done, senders, log, head, pubVars, busCloser, closing,
                 crashed, auditVars>>

-----------------------------------------------------------------------------
(* MemoryBus.Close *)

BusClose ==
  /\ busCloser = "idle" /\ NoReader
  /\ closed' = TRUE
  /\ closing' = subscribers
  /\ subscribers' = {}
  /\ ClearRouteCache
  /\ busCloser' = "signal"
  /\ UNCHANGED <<dropped, subVars, pubVars, closer, crashed, auditVars>>

BusSignal(s) ==
  /\ busCloser = "signal" /\ s \in closing /\ ~done[s]
  /\ done' = [done EXCEPT ![s] = TRUE]
  /\ UNCHANGED <<busVars, config, senders, log, head, chClosed, pubVars, stopVars,
                 crashed, auditVars>>

BusAwaitInflight ==
  /\ busCloser = "signal" /\ \A s \in closing : done[s]
  /\ Inflight = {}
  /\ busCloser' = "close"
  /\ UNCHANGED <<busVars, subVars, pubVars, closer, closing, crashed, auditVars>>

BusCloseChannel(s) ==
  /\ busCloser = "close" /\ s \in closing /\ senders[s] = 0
  /\ chClosed' = [chClosed EXCEPT ![s] = TRUE]
  /\ closing' = closing \ {s}
  /\ UNCHANGED <<busVars, config, done, senders, log, head, pubVars, closer, busCloser,
                 crashed, auditVars>>

BusCloseReturn ==
  /\ busCloser = "close" /\ closing = {}
  /\ busCloser' = "returned"
  /\ UNCHANGED <<busVars, subVars, pubVars, closer, closing, crashed, auditVars>>

-----------------------------------------------------------------------------

PublishStep(p) ==
  \/ PublishScan(p)
  \/ \E s \in Subs : PublishVisit(p, s)
  \/ PublishReturn(p)
  \/ BlockPark(p) \/ BlockWake(p) \/ BlockRelock(p)
  \/ TrySend(p) \/ EvictOldest(p) \/ RetrySend(p)

CloserStep(c) == SignalDone(c) \/ AwaitSenders(c) \/ CloseChannel(c)

BusCloserStep ==
  \/ \E s \in Subs : BusSignal(s) \/ BusCloseChannel(s)
  \/ BusAwaitInflight \/ BusCloseReturn

Next ==
  /\ ~crashed
  /\ \/ \E p \in Publishers :
          \/ \E j \in Subjects : PublishBegin(p, j)
          \/ PublishStep(p)
          \/ SampleOut(p)
          \/ BlockCancel(p)
     \/ \E s \in Subs : Receive(s) \/ \E c \in SubConfigs[s] : Subscribe(s, c)
     \/ \E c \in Closers : RemoveSub(c) \/ CloserStep(c)
     \/ BusClose
     \/ BusCloserStep

(* Publishers and closers that can run do run.  No consumer is obliged to  *)
(* read, no caller to call, and no ctx to end.                             *)
Progress == /\ ~crashed
            /\ \/ \E p \in Publishers : PublishStep(p)
               \/ \E c \in Closers : CloserStep(c)
               \/ BusCloserStep

Fairness == WF_vars(Progress)

Spec == Init /\ [][Next]_vars /\ Fairness

-----------------------------------------------------------------------------
(* Properties *)

(* Every variable keeps its type, and sub.senders counts exactly the        *)
(* publishers parked on the subscription (so it never goes negative).       *)
TypeOK ==
  /\ closed \in BOOLEAN /\ crashed \in BOOLEAN
  /\ subscribers \subseteq Subs /\ closing \subseteq Subs
  /\ \A j \in DOMAIN cache : j \in Subjects /\ cache[j] \subseteq Subs
  /\ config \in [Subs -> Configs]
  /\ \A s \in Subs : config[s] \in SubConfigs[s] \cup {NoConfig}
  /\ done \in [Subs -> BOOLEAN] /\ chClosed \in [Subs -> BOOLEAN]
  /\ senders \in [Subs -> Nat]
  /\ \A s \in Subs : senders[s] = Cardinality({p \in Publishers : pc[p] = "parked" /\ cur[p] = s})
  /\ log \in [Subs -> Seq(Envelopes)] /\ head \in [Subs -> Nat]
  /\ \A s \in Subs : Buffered(s) \in 0..BufferSize
  /\ pc \in [Publishers -> Reading \cup {"idle", "enter", "parked", "relock"}]
  /\ call \in [Publishers -> [env : Envelopes, must : SUBSET Subs, seen : SUBSET Subs] \cup {NoCall}]
  /\ todo \in [Publishers -> SUBSET Subs] /\ cur \in [Publishers -> Subs \cup {"none"}]
  /\ sent \in [Publishers -> 0..MaxPublish]
  /\ result \in [Publishers -> {"none", "nil", "closed", "ctx"}]
  /\ closer \in [Closers -> {"idle", "removed", "signalled", "drained", "returned"}]
  /\ busCloser \in {"idle", "signal", "close", "returned"}
  /\ dropped \in Nat /\ offered \in Nat /\ received \in Nat

(* The bus keeps the contract of event.Bus: see BusContract.  A stale route *)
(* cache, a subscription skipped or visited twice, an envelope put into a   *)
(* channel after its Publish returned would all break it.                   *)
Contract == INSTANCE BusContract WITH open <- subscribers, owed <- [s \in Subs |-> Owed(s)]

ImplementsContract == Contract!Spec

(* MemoryBus.Dropped and the channels between them account for every        *)
(* envelope offered to a non-blocking subscription: it was received, it is  *)
(* still buffered, it is counted as dropped (evicted, full or sampled out), *)
(* or a publisher still has it in hand.                                     *)
NonBlocking == {s \in Subs : config[s].policy # "Block"}

NoSilentLoss ==
  crashed \/ offered = received + dropped
            + Cardinality(UNION {{s} \X (head[s] + 1 .. Len(log[s])) : s \in NonBlocking})
            + Cardinality({p \in Publishers : /\ pc[p] \in {"send", "evict", "retry"}
                                              /\ cur[p] \in NonBlocking})

(* Close never hangs, whatever the consumers do: every MemoryBus.Close and  *)
(* memSub.Close that was called returns in the end, even though publishers  *)
(* are parked on full channels nobody reads.                                *)
Closing == \/ busCloser \in {"signal", "close"}
           \/ \E c \in Closers : closer[c] \in {"removed", "signalled", "drained"}

CloseReturns == <>[](~Closing \/ crashed)

(* memory.go: "close(s.ch) is now race-free", "the non-blocking ... paths   *)
(* ... cannot race with close(ch)": no Publish ever sends on a closed       *)
(* channel.                                                                 *)
NoSendOnClosedChannel == ~crashed
=============================================================================
