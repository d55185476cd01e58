--------------------------- MODULE EventBus_proofs --------------------------
(***************************************************************************)
(* TLAPS proofs about EventBus: the bus implements BusContract, for every  *)
(* set of publishers, subscriptions and subjects, every buffer and cache   *)
(* size and every combination of policies; its types hold; and Dropped     *)
(* accounts for every envelope a non-blocking subscription did not get.    *)
(***************************************************************************)
EXTENDS EventBus, FiniteSetTheorems, TLAPS

\* The loop of Publish is at a subscription it has taken off its list.
AtSub == {"send", "evict", "retry", "parked", "relock"}

\* The envelopes each channel has taken.
Taken == [s \in Subs |-> {log[s][i] : i \in DOMAIN log[s]}]

\* A call knows every subscription on the bus and visits only those it knows.
CallInv ==
    \A p \in Publishers :
        /\ pc[p] = "idle" <=> call[p] = NoCall
        /\ pc[p] \in {"idle", "enter"} => todo[p] = {}
        /\ pc[p] \in AtSub => cur[p] \in Subs
        /\ pc[p] \in AtSub => cur[p] \notin todo[p]
        /\ pc[p] # "idle" =>
              /\ call[p].env.pub = p /\ call[p].env.n = sent[p]
              /\ subscribers \subseteq call[p].seen /\ todo[p] \subseteq call[p].seen
              /\ pc[p] \in AtSub => cur[p] \in call[p].seen
              /\ \A s \in call[p].seen : config[s] # NoConfig

\* What is in a channel has been published.
LogInv ==
    \A s \in Subs : \A e \in Taken[s] : e \in Envelopes /\ e.n <= sent[e.pub]

\* An envelope is in no channel its call has still to visit.
OnceInv ==
    \A p \in Publishers, s \in Subs : pc[p] # "idle" /\ call[p].env \in Taken[s] =>
        /\ pc[p] # "enter"
        /\ s \notin todo[p]
        /\ s = cur[p] => pc[p] \notin {"send", "evict", "retry", "parked"}

\* A lossless subscription the call owes its envelope to has it, or will get it.
MustInv ==
    \A p \in Publishers : pc[p] # "idle" =>
        /\ \A s \in call[p].must : /\ config[s].policy = "Block" /\ Wants(s, call[p].env)
                                   /\ s \in call[p].seen
        /\ pc[p] # "enter" =>
              \A s \in call[p].must \cap subscribers :
                  \/ s \in todo[p]
                  \/ s = cur[p] /\ pc[p] \in {"send", "parked"}
                  \/ call[p].env \in Taken[s]
        /\ pc[p] \in {"evict", "retry"} => config[cur[p]].policy # "Block"
        /\ pc[p] = "parked" => config[cur[p]].policy = "Block"

\* Every cached route is the one a scan would find.
RouteInv == \A j \in DOMAIN cache : cache[j] = MatchedSubs(j)

\* A subscription is shut down after it has left the bus, for good.
StopInv ==
    /\ \A s \in Subs :
        /\ s \in subscribers => config[s] # NoConfig
        /\ done[s] => s \notin subscribers /\ config[s] # NoConfig
        /\ chClosed[s] => done[s]
        /\ s \in closing => s \notin subscribers /\ config[s] # NoConfig
        /\ busCloser = "close" /\ s \in closing => done[s]
    /\ closed => subscribers = {}
    /\ closed <=> busCloser # "idle"

\* So is one that a caller of memSub.Close shuts down.
CloserInv ==
    \A c \in Closers :
        /\ closer[c] # "idle" => c[1] \notin subscribers /\ config[c[1]] # NoConfig
        /\ closer[c] \in {"signalled", "drained", "returned"} => done[c[1]]

\* Nothing is in the channel of a subscription that was never opened.
FreshInv == \A s \in Subs : config[s] = NoConfig => Len(log[s]) = head[s]

\* The inductive invariant.
IndInv == TypeOK /\ CallInv /\ LogInv /\ OnceInv /\ MustInv /\ RouteInv /\ StopInv /\ CloserInv
          /\ FreshInv

\* A call in progress is told apart from no call at all.
LEMMA CallRecord ==
    \A r \in [env : Envelopes, must : SUBSET Subs, seen : SUBSET Subs] : r # NoCall
<1> TAKE r \in [env : Envelopes, must : SUBSET Subs, seen : SUBSET Subs]
<1>1. "must" \in DOMAIN r
  OBVIOUS
<1>2. "must" \notin DOMAIN NoCall
  BY DEF NoCall
<1> QED
  BY <1>1, <1>2

\* Publish registers its call: a fresh envelope, owed to the lossless subscriptions.
LEMMA StepBegin ==
    ASSUME IndInv, NEW p \in Publishers, NEW j \in Subjects, PublishBegin(p, j)
    PROVE  CallInv' /\ LogInv' /\ OnceInv' /\ MustInv'
<1> DEFINE e == [pub |-> p, n |-> sent[p] + 1, subject |-> j]
<1>1. /\ UNCHANGED <<closed, subscribers, cache, config, log, todo, cur, Taken>>
      /\ pc[p] = "idle" /\ sent[p] \in Nat /\ sent[p] + 1 \in 1..MaxPublish
      /\ sent'[p] = sent[p] + 1
      /\ \A q \in Publishers : sent[q] \in Nat /\ sent'[q] \in Nat /\ sent'[q] >= sent[q]
                               /\ (q # p => sent'[q] = sent[q])
  BY BusAssumption DEF PublishBegin, busVars, subVars, IndInv, TypeOK, Taken
<1>2. \A s \in Subs : \A x \in Taken[s] : x \in Envelopes /\ x.pub \in Publishers /\ x.n \in Nat
  BY DEF IndInv, LogInv, Envelopes
<1>3. LogInv'
  BY <1>1, <1>2 DEF IndInv, LogInv
<1>4. CASE closed
  <2>1. UNCHANGED <<pc, call>>
    BY <1>4 DEF PublishBegin
  <2> QED
    BY <1>1, <1>3, <2>1 DEF IndInv, CallInv, OnceInv, MustInv, AtSub, Wants
<1>5. CASE ~closed
  <2>1. e \in Envelopes /\ e.pub = p /\ e.n = sent[p] + 1 /\ e.subject = j
    BY <1>1 DEF Envelopes
  <2> HIDE DEF e
  <2>2. /\ pc' = [pc EXCEPT ![p] = "enter"]
        /\ call' = [call EXCEPT ![p] = [env  |-> e,
                                        must |-> {s \in subscribers : e \in Owed(s)},
                                        seen |-> subscribers]]
    BY <1>5 DEF PublishBegin, e
  <2>3. /\ pc'[p] = "enter" /\ call'[p].env = e /\ call'[p].seen = subscribers
        /\ call'[p].must = {s \in subscribers : e \in Owed(s)}
        /\ \A q \in Publishers : q # p => pc'[q] = pc[q] /\ call'[q] = call[q]
    BY <2>2 DEF IndInv, TypeOK
  <2>4. call'[p] # NoCall
    <3> subscribers \in SUBSET Subs /\ {s \in subscribers : e \in Owed(s)} \in SUBSET Subs
      BY DEF IndInv, TypeOK
    <3> QED
      BY <2>1, <2>2, CallRecord DEF IndInv, TypeOK
  <2>5. \A s \in Subs : e \notin Taken[s]
    BY <1>1, <2>1 DEF IndInv, LogInv
  <2>6. \A s \in subscribers : config[s] # NoConfig /\ s \in Subs
    BY DEF IndInv, StopInv, TypeOK
  <2>7. CallInv'
    BY <1>1, <2>1, <2>3, <2>4, <2>6 DEF IndInv, CallInv, AtSub
  <2>8. OnceInv'
    BY <1>1, <2>3, <2>5 DEF IndInv, OnceInv
  <2>9. MustInv'
    <3>1. \A s \in call'[p].must : config[s].policy = "Block" /\ Wants(s,
    e) /\ s \in subscribers
      BY <2>3 DEF Owed
    <3> QED
      BY <1>1, <2>3, <3>1 DEF IndInv, MustInv, Wants
  <2> QED
    BY <1>3, <2>7, <2>8, <2>9
<1> QED
  BY <1>4, <1>5

\* Leaving Publish forgets the call.
LEMMA StepReturn ==
    ASSUME IndInv, NEW p \in Publishers, NEW r, ReturnWith(p, r),
           UNCHANGED <<closed, subscribers, config, log>>
    PROVE  CallInv' /\ LogInv' /\ OnceInv' /\ MustInv'
<1>1. /\ pc'[p] = "idle" /\ call'[p] = NoCall /\ todo'[p] = {} /\ cur'[p] = "none"
      /\ \A q \in Publishers : q # p => /\ pc'[q] = pc[q] /\ call'[q] = call[q]
                                        /\ todo'[q] = todo[q] /\ cur'[q] = cur[q]
      /\ UNCHANGED <<sent, Taken>>
  BY DEF ReturnWith, IndInv, TypeOK, Taken
<1>2. CallInv'
  BY <1>1 DEF IndInv, CallInv, AtSub
<1>3. LogInv' /\ OnceInv'
  BY <1>1 DEF IndInv, LogInv, OnceInv
<1>4. MustInv'
  BY <1>1 DEF IndInv, MustInv, Wants
<1> QED
  BY <1>2, <1>3, <1>4

\* The scan takes its list from the route cache or from the subscribers.
LEMMA StepScan ==
    ASSUME IndInv, NEW p \in Publishers, PublishScan(p)
    PROVE  CallInv' /\ LogInv' /\ OnceInv' /\ MustInv' /\ RouteInv'
<1>1. UNCHANGED <<closed, subscribers, config, log, Taken>> /\ pc[p] = "enter"
  BY DEF PublishScan, subVars, Taken
<1>2. CASE closed
  BY <1>1, <1>2, StepReturn DEF PublishScan, IndInv, RouteInv, MatchedSubs
<1>3. CASE ~closed
  <2> DEFINE j == call[p].env.subject
  <2>1. /\ pc'[p] = "scan" /\ todo'[p] = Matched(j) /\ UNCHANGED <<call, cur, sent>>
        /\ \A q \in Publishers : q # p => pc'[q] = pc[q] /\ todo'[q] = todo[q]
        /\ StoreRoute(j)
    BY <1>3 DEF PublishScan, IndInv, TypeOK
  <2> HIDE DEF j
  <2>2. Matched(j) = MatchedSubs(j)
    BY DEF Matched, IndInv, RouteInv
  <2>3. RouteInv'
    <3>1. \A k : MatchedSubs(k)' = MatchedSubs(k)
      BY <1>1 DEF MatchedSubs
    <3>2. CASE CacheCap = 0 \/ j \in DOMAIN cache
      BY <2>1, <3>1, <3>2 DEF IndInv, RouteInv, StoreRoute
    <3>3. CASE ~(CacheCap = 0 \/ j \in DOMAIN cache)
      <4>1. PICK kept \in SUBSET DOMAIN cache :
                cache' = [k \in kept \cup {j} |-> IF k = j THEN MatchedSubs(j) ELSE cache[k]]
        BY <2>1, <3>3 DEF StoreRoute
      <4> QED
        BY <3>1, <4>1 DEF IndInv, RouteInv
    <3> QED
      BY <3>2, <3>3
  <2>4. Matched(j) \subseteq subscribers /\ subscribers \subseteq Subs
    BY <2>2 DEF MatchedSubs, IndInv, TypeOK
  <2>5. CallInv'
    BY <1>1, <2>1, <2>4 DEF IndInv, CallInv, AtSub
  <2>6. LogInv' /\ OnceInv'
    BY <1>1, <2>1 DEF IndInv, LogInv, OnceInv
  <2>7. MustInv'
    <3>1. \A s \in call[p].must \cap subscribers : s \in todo'[p]
      BY <1>1, <2>1, <2>2 DEF IndInv, MustInv, MatchedSubs, Wants, j
    <3> QED
      BY <1>1, <2>1, <3>1 DEF IndInv, MustInv, Wants
  <2> QED
    BY <2>3, <2>5, <2>6, <2>7
<1> QED
  BY <1>2, <1>3

\* After a Block send the loop goes on, or finds the bus closed.
LEMMA StepRelock ==
    ASSUME IndInv, NEW p \in Publishers, BlockRelock(p)
    PROVE  CallInv' /\ LogInv' /\ OnceInv' /\ MustInv'
<1>1. UNCHANGED <<closed, subscribers, config, log, Taken>> /\ pc[p] = "relock"
  BY DEF BlockRelock, busVars, subVars, Taken
<1>2. CASE closed
  BY <1>1, <1>2, StepReturn DEF BlockRelock
<1>3. CASE ~closed
  <2>1. /\ pc'[p] = "scan" /\ cur'[p] = "none" /\ UNCHANGED <<call, todo, sent>>
        /\ \A q \in Publishers : q # p => pc'[q] = pc[q] /\ cur'[q] = cur[q]
    BY <1>3 DEF BlockRelock, NextSub, IndInv, TypeOK
  <2>2. CallInv'
    BY <1>1, <2>1 DEF IndInv, CallInv, AtSub
  <2>3. LogInv'
    BY <1>1, <2>1 DEF IndInv, LogInv
  <2>4. OnceInv'
    BY <1>1, <2>1 DEF IndInv, OnceInv
  <2>5. MustInv'
    BY <1>1, <2>1 DEF IndInv, MustInv, Wants
  <2> QED
    BY <2>2, <2>3, <2>4, <2>5
<1> QED
  BY <1>2, <1>3

\* A new subscription is known to every call in progress.
LEMMA StepSubscribe ==
    ASSUME IndInv, NEW s \in Subs, NEW c \in SubConfigs[s], Subscribe(s, c)
    PROVE  CallInv' /\ StopInv'
<1>1. /\ UNCHANGED <<pc, todo, cur, sent, done, chClosed, closed, closing, busCloser>>
      /\ subscribers' = subscribers \cup {s}
      /\ config'[s] = c /\ \A t \in Subs : t # s => config'[t] = config[t]
      /\ config[s] = NoConfig /\ ~closed
  BY DEF Subscribe, stopVars, IndInv, TypeOK
<1>2. c # NoConfig
  BY BusAssumption
<1>3. ASSUME NEW q \in Publishers
      PROVE  /\ call[q] = NoCall => call'[q] = NoCall
             /\ call[q] # NoCall => /\ call'[q] # NoCall /\ call'[q].env = call[q].env
                                    /\ call'[q].seen = call[q].seen \cup {s}
                                    /\ call'[q].seen \subseteq Subs
  <2>1. CASE call[q] = NoCall
    BY <2>1 DEF Subscribe
  <2>2. CASE call[q] # NoCall
    <3>1. call[q] \in [env : Envelopes, must : SUBSET Subs, seen : SUBSET Subs]
      BY <2>2 DEF IndInv, TypeOK
    <3>2. call'[q] = [call[q] EXCEPT !.seen = @ \cup {s}]
      BY <2>2 DEF Subscribe
    <3>3. call'[q] \in [env : Envelopes, must : SUBSET Subs, seen : SUBSET Subs]
      BY <3>1, <3>2
    <3>4. call'[q] # NoCall
      BY <3>3, CallRecord
    <3> QED
      BY <2>2, <3>1, <3>2, <3>3, <3>4
  <2> QED
    BY <2>1, <2>2
<1>4. CallInv'
  <2> SUFFICES ASSUME NEW q \in Publishers PROVE CallInv!(q)'
    BY DEF CallInv
  <2>1. CallInv!(q)
    BY DEF IndInv, CallInv
  <2> QED
    BY <1>1, <1>2, <1>3, <2>1 DEF AtSub
<1>5. StopInv'
  BY <1>1, <1>2 DEF IndInv, StopInv
<1> QED
  BY <1>4, <1>5


\* sub.ch <- env adds the envelope to what the channel has taken.
LEMMA PutTakes ==
    ASSUME TypeOK, NEW p \in Publishers, NEW s \in Subs, call[p] # NoCall, Put(p, s)
    PROVE  \/ UNCHANGED log /\ chClosed[s]
           \/ /\ log' = [log EXCEPT ![s] = Append(@, call[p].env)] /\ ~chClosed[s]
              /\ Taken' = [Taken EXCEPT ![s] = @ \cup {call[p].env}]
<1>1. CASE chClosed[s]
  BY <1>1 DEF Put
<1>2. CASE ~chClosed[s]
  <2> DEFINE e == call[p].env
  <2>1. log \in [Subs -> Seq(Envelopes)] /\ e \in Envelopes
    BY DEF TypeOK
  <2> HIDE DEF e
  <2>2. log' = [log EXCEPT ![s] = Append(@, e)]
    BY <1>2 DEF Put, e
  <2>3. {Append(log[s], e)[i] : i \in DOMAIN Append(log[s],
  e)} = {log[s][i] : i \in DOMAIN log[s]} \cup {e}
    <3>1. /\ DOMAIN log[s] = 1..Len(log[s]) /\ DOMAIN Append(log[s], e) = 1..(Len(log[s]) + 1)
          /\ Len(log[s]) \in Nat
      BY <2>1
    <3>2. \A i \in 1..Len(log[s]) : Append(log[s], e)[i] = log[s][i]
      BY <2>1
    <3>3. Append(log[s], e)[Len(log[s]) + 1] = e
      BY <2>1
    <3> QED
      BY <3>1, <3>2, <3>3
  <2>4. Taken' = [Taken EXCEPT ![s] = @ \cup {e}]
    <3>1. ASSUME NEW t \in Subs PROVE Taken'[t] = [Taken EXCEPT ![s] = @ \cup {e}][t]
      BY <2>1, <2>2, <2>3 DEF Taken
    <3> QED
      BY <3>1 DEF Taken
  <2> QED
    BY <1>2, <2>2, <2>4 DEF e
<1> QED
  BY <1>1, <1>2

\* The send at the loop's subscription is over: the envelope went into the channel, or
\* the subscription may lose it.
LEMMA StepSent ==
    ASSUME IndInv, NEW p \in Publishers, pc[p] \in {"send", "retry", "parked"},
           pc'[p] \in {"scan", "relock"}, cur'[p] \in {cur[p], "none"},
           pc'[p] = "relock" => cur'[p] = cur[p],
           \A q \in Publishers : q # p => pc'[q] = pc[q] /\ cur'[q] = cur[q],
           UNCHANGED <<subscribers, config, head, call, todo, sent>>,
           \/ Put(p, cur[p])
           \/ UNCHANGED log /\ (config[cur[p]].policy # "Block" \/ done[cur[p]])
    PROVE  CallInv' /\ LogInv' /\ OnceInv' /\ MustInv' /\ FreshInv'
<1>0. /\ pc[p] # "idle" /\ cur[p] \in Subs /\ call[p] # NoCall /\ cur[p] \in call[p].seen
      /\ cur[p] \notin todo[p] /\ config[cur[p]] # NoConfig
  BY DEF IndInv, CallInv, AtSub
<1>1. CallInv'
  BY <1>0 DEF IndInv, CallInv, AtSub
<1>2. done[cur[p]] \/ chClosed[cur[p]] => cur[p] \notin subscribers
  BY <1>0 DEF IndInv, StopInv
<1>3. CASE UNCHANGED log /\ (config[cur[p]].policy # "Block" \/ cur[p] \notin subscribers)
  <2>1. UNCHANGED Taken
    BY <1>3 DEF Taken
  <2>2. LogInv'
    BY <2>1 DEF IndInv, LogInv
  <2>3. OnceInv'
    BY <2>1, <1>0 DEF IndInv, OnceInv
  <2>4. MustInv'
    BY <2>1, <1>0, <1>3 DEF IndInv, MustInv, Wants
  <2>5. FreshInv'
    BY <1>3 DEF IndInv, FreshInv
  <2> QED
    BY <1>1, <2>2, <2>3, <2>4, <2>5
<1>4. CASE /\ log' = [log EXCEPT ![cur[p]] = Append(@, call[p].env)]
           /\ Taken' = [Taken EXCEPT ![cur[p]] = @ \cup {call[p].env}]
  <2>1. /\ \A s \in Subs : s # cur[p] => Taken'[s] = Taken[s] /\ log'[s] = log[s]
        /\ Taken'[cur[p]] = Taken[cur[p]] \cup {call[p].env}
    <3>1. log \in [Subs -> Seq(Envelopes)]
      BY DEF IndInv, TypeOK
    <3>2. Taken \in [Subs -> {Taken[s] : s \in Subs}]
      BY DEF Taken
    <3> QED
      BY <1>0, <1>4, <3>1, <3>2
  <2>2. \A q \in Publishers : q # p /\ pc[q] # "idle" => call[q].env # call[p].env
    BY <1>0 DEF IndInv, CallInv
  <2>3. /\ call[p].env \in Envelopes /\ call[p].env.pub = p
        /\ call[p].env.n = sent[p] /\ sent[p] \in Nat
    BY <1>0 DEF IndInv, CallInv, TypeOK
  <2>4. LogInv'
    BY <1>0, <2>1, <2>3 DEF IndInv, LogInv
  <2>5. OnceInv'
    BY <1>0, <2>1, <2>2 DEF IndInv, OnceInv
  <2>6. MustInv'
    <3> SUFFICES ASSUME NEW q \in Publishers PROVE MustInv!(q)'
      BY DEF MustInv
    <3>1. MustInv!(q) /\ \A s \in Subs : Taken[s] \subseteq Taken'[s]
      BY <1>0, <2>1 DEF IndInv, MustInv
    <3>2. CASE q = p
      <4>1. call[p].must \cap subscribers \subseteq Subs
        BY DEF IndInv, TypeOK
      <4> QED
        BY <1>0, <2>1, <3>1, <3>2, <4>1 DEF Wants
    <3>3. CASE q # p
      <4>1. subscribers \subseteq Subs
        BY DEF IndInv, TypeOK
      <4> QED
        BY <3>1, <3>3, <4>1 DEF Wants
    <3> QED
      BY <3>2, <3>3
  <2>7. FreshInv'
    BY <1>0, <2>1 DEF IndInv, FreshInv
  <2> QED
    BY <1>1, <2>4, <2>5, <2>6, <2>7
<1> QED
  <2>1. CASE Put(p, cur[p]) /\ chClosed[cur[p]]
    BY <2>1, <1>2, <1>3 DEF Put
  <2>2. CASE Put(p, cur[p]) /\ ~chClosed[cur[p]]
    <3>1. TypeOK
      BY DEF IndInv
    <3> QED
      BY <2>2, <1>0, <1>4, <3>1, PutTakes
  <2> QED
    BY <1>2, <1>3, <2>1, <2>2

\* A parked sender wakes: the channel took the envelope or the subscription is done.
LEMMA StepWake ==
    ASSUME IndInv, NEW p \in Publishers, BlockWake(p)
    PROVE  CallInv' /\ LogInv' /\ OnceInv' /\ MustInv' /\ FreshInv'
<1>1. /\ pc[p] = "parked" /\ pc'[p] = "relock" /\ cur' = cur
      /\ \A q \in Publishers : q # p => pc'[q] = pc[q]
      /\ UNCHANGED <<subscribers, config, head, call, todo, sent>>
  BY DEF BlockWake, busVars, IndInv, TypeOK
<1>2. Put(p, cur[p]) \/ (done[cur[p]] /\ UNCHANGED log)
  BY DEF BlockWake
<1> QED
  BY <1>1, <1>2, StepSent

\* The first non-blocking send.
LEMMA StepTry ==
    ASSUME IndInv, NEW p \in Publishers, TrySend(p)
    PROVE  CallInv' /\ LogInv' /\ OnceInv' /\ MustInv' /\ FreshInv'
<1>1. /\ pc[p] = "send" /\ config[cur[p]].policy # "Block"
      /\ UNCHANGED <<subscribers, config, head, call, todo, sent>>
  BY DEF TrySend
<1>2. CASE NextSub(p)
  <2>1. /\ pc'[p] = "scan" /\ cur'[p] = "none"
        /\ \A q \in Publishers : q # p => pc'[q] = pc[q] /\ cur'[q] = cur[q]
    BY <1>2 DEF NextSub, IndInv, TypeOK
  <2>2. Put(p, cur[p]) \/ UNCHANGED log
    BY DEF TrySend
  <2> QED
    BY <1>1, <2>1, <2>2, StepSent
<1>3. CASE pc' = [pc EXCEPT ![p] = "evict"] /\ UNCHANGED <<cur, log>>
  <2>1. /\ pc'[p] = "evict" /\ \A q \in Publishers : q # p => pc'[q] = pc[q]
        /\ UNCHANGED Taken
    BY <1>3 DEF IndInv, TypeOK, Taken
  <2>2. CallInv'
    BY <1>1, <1>3, <2>1 DEF IndInv, CallInv, AtSub
  <2>3. LogInv' /\ FreshInv'
    BY <1>1, <1>3, <2>1 DEF IndInv, LogInv, FreshInv
  <2>4. OnceInv'
    BY <1>1, <1>3, <2>1 DEF IndInv, OnceInv
  <2>5. MustInv'
    BY <1>1, <1>3, <2>1 DEF IndInv, MustInv, Wants
  <2> QED
    BY <2>2, <2>3, <2>4, <2>5
<1> QED
  BY <1>2, <1>3 DEF TrySend

\* The send after an eviction.
LEMMA StepRetry ==
    ASSUME IndInv, NEW p \in Publishers, RetrySend(p)
    PROVE  CallInv' /\ LogInv' /\ OnceInv' /\ MustInv' /\ FreshInv'
<1>1. /\ pc[p] = "retry" /\ config[cur[p]].policy # "Block"
      /\ UNCHANGED <<subscribers, config, head, call, todo, sent>>
  BY DEF RetrySend, IndInv, MustInv
<1>2. /\ pc'[p] = "scan" /\ cur'[p] = "none"
      /\ \A q \in Publishers : q # p => pc'[q] = pc[q] /\ cur'[q] = cur[q]
  BY DEF RetrySend, NextSub, IndInv, TypeOK
<1>3. Put(p, cur[p]) \/ UNCHANGED log
  BY DEF RetrySend
<1> QED
  BY <1>1, <1>2, <1>3, StepSent

\* A consumer reads only from a subscription that was opened.
LEMMA StepTake ==
    ASSUME IndInv, NEW s \in Subs, Receive(s)
    PROVE  FreshInv'
<1>1. /\ Len(log[s]) \in Nat /\ head[s] \in Nat /\ Len(log[s]) - head[s] > 0
      /\ UNCHANGED <<config, log>>
      /\ head' = [head EXCEPT ![s] = @ + 1]
  BY DEF Receive, Buffered, IndInv, TypeOK
<1>2. \A t \in Subs : t # s => head'[t] = head[t]
  BY <1>1
<1> QED
  BY <1>1, <1>2 DEF IndInv, FreshInv


\* Its parts other than the types.
Parts == CallInv /\ LogInv /\ OnceInv /\ MustInv /\ RouteInv /\ StopInv /\ CloserInv /\ FreshInv

\* Closing a subscription off the bus does not concern the Publish calls.
LEMMA PartsFrame ==
    ASSUME IndInv, UNCHANGED <<pc, call, todo, cur, sent, subscribers, config, log, head,
                               cache>>
    PROVE  CallInv' /\ LogInv' /\ OnceInv' /\ MustInv' /\ RouteInv' /\ FreshInv'
<1>1. UNCHANGED Taken
  BY DEF Taken
<1>2. CallInv'
  BY DEF IndInv, CallInv
<1>3. LogInv' /\ OnceInv'
  BY <1>1 DEF IndInv, LogInv, OnceInv
<1>4. MustInv'
  BY <1>1 DEF IndInv, MustInv, Wants
<1>5. RouteInv' /\ FreshInv'
  BY DEF IndInv, RouteInv, MatchedSubs, FreshInv
<1> QED
  BY <1>2, <1>3, <1>4, <1>5

\* Every step keeps the parts.
LEMMA PartsKept ==
    ASSUME IndInv, Next PROVE Parts'
<1>cl. \A d \in Closers : d[1] \in Subs
  BY BusAssumption
<1>1. ASSUME NEW p \in Publishers, NEW j \in Subjects, PublishBegin(p, j) PROVE Parts'
  <2>1. CallInv' /\ LogInv' /\ OnceInv' /\ MustInv'
    BY <1>1, StepBegin
  <2>2. RouteInv' /\ StopInv'
    BY <1>1 DEF PublishBegin, Owed, busVars, subVars, pubVars, stopVars, IndInv, TypeOK,
       RouteInv, StopInv, MatchedSubs, CloserInv, Inflight
  <2>3. CloserInv' /\ FreshInv'
    BY <1>1, <1>cl DEF PublishBegin, Owed, busVars, subVars, pubVars, stopVars, IndInv,
       TypeOK, CloserInv, FreshInv, StopInv, CallInv, AtSub
  <2> QED
    BY <2>1, <2>2, <2>3 DEF Parts
<1>2. ASSUME NEW p \in Publishers, PublishScan(p) PROVE Parts'
  <2>1. CallInv' /\ LogInv' /\ OnceInv' /\ MustInv' /\ RouteInv'
    BY <1>2, StepScan
  <2>2. StopInv'
    BY <1>2 DEF PublishScan, ReturnWith, Matched, StoreRoute, MatchedSubs, busVars, subVars,
       pubVars, stopVars, IndInv, TypeOK, StopInv, CloserInv, Inflight
  <2>3. CloserInv' /\ FreshInv'
    BY <1>2, <1>cl DEF PublishScan, ReturnWith, Matched, StoreRoute, MatchedSubs, busVars,
       subVars, pubVars, stopVars, IndInv, TypeOK, CloserInv, FreshInv, StopInv, CallInv, AtSub
  <2> QED
    BY <2>1, <2>2, <2>3 DEF Parts
<1>3. ASSUME NEW p \in Publishers, NEW s \in Subs, PublishVisit(p, s) PROVE Parts'
  <2>1. UNCHANGED Taken
    BY <1>3 DEF PublishVisit, subVars, Taken
  <2>2. CallInv'
    BY <1>3 DEF PublishVisit, busVars, subVars, pubVars, stopVars, IndInv, TypeOK, CallInv,
       AtSub
  <2>3. LogInv' /\ OnceInv'
    <3>0. /\ pc \in [Publishers -> Reading \cup {"idle", "enter", "parked", "relock"}]
          /\ todo \in [Publishers -> SUBSET Subs]
          /\ cur \in [Publishers -> Subs \cup {"none"}]
      BY DEF IndInv, TypeOK
    <3>1. LogInv'
      BY <1>3, <2>1 DEF PublishVisit, IndInv, LogInv
    <3>2. /\ UNCHANGED call /\ pc[p] = "scan" /\ s \in todo[p] /\ todo'[p] = todo[p] \ {s}
          /\ \A q \in Publishers : q # p => todo'[q] = todo[q]
      BY <1>3, <3>0 DEF PublishVisit
    <3>3. \/ UNCHANGED <<pc, cur>>
          \/ pc' = [pc EXCEPT ![p] = "send"] /\ cur' = [cur EXCEPT ![p] = s]
      BY <1>3 DEF PublishVisit
    <3>4. /\ pc'[p] = "scan" \/ (pc'[p] = "send" /\ cur'[p] = s)
          /\ \A q \in Publishers : q # p => pc'[q] = pc[q] /\ cur'[q] = cur[q]
      BY <3>0, <3>2, <3>3
    <3>5. OnceInv'
      BY <2>1, <3>2, <3>4 DEF IndInv, OnceInv
    <3> QED
      BY <3>1, <3>5
  <2>4. MustInv'
    BY <1>3, <2>1, SMTT(20) DEF PublishVisit, busVars, subVars, pubVars, stopVars, IndInv, TypeOK,
       MustInv, AtSub, Wants, CallInv, StopInv
  <2>5. RouteInv' /\ StopInv'
    BY <1>3 DEF PublishVisit, busVars, subVars, pubVars, stopVars, IndInv, TypeOK, RouteInv,
       StopInv, MatchedSubs, CloserInv, Inflight
  <2>6. CloserInv' /\ FreshInv'
    BY <1>3, <1>cl DEF PublishVisit, busVars, subVars, pubVars, stopVars, IndInv, TypeOK,
       CloserInv, FreshInv, StopInv, CallInv, AtSub
  <2> QED
    BY <2>2, <2>3, <2>4, <2>5, <2>6 DEF Parts
<1>4. ASSUME NEW p \in Publishers, PublishReturn(p) PROVE Parts'
  <2>1. CallInv' /\ LogInv' /\ OnceInv' /\ MustInv'
    BY <1>4, StepReturn DEF PublishReturn, busVars, subVars
  <2>2. RouteInv' /\ StopInv'
    BY <1>4 DEF PublishReturn, ReturnWith, busVars, subVars, pubVars, stopVars, IndInv,
       TypeOK, RouteInv, StopInv, MatchedSubs, CloserInv, Inflight
  <2>3. CloserInv' /\ FreshInv'
    BY <1>4, <1>cl DEF PublishReturn, ReturnWith, busVars, subVars, pubVars, stopVars,
       IndInv, TypeOK, CloserInv, FreshInv, StopInv, CallInv, AtSub
  <2> QED
    BY <2>1, <2>2, <2>3 DEF Parts
<1>5. ASSUME NEW p \in Publishers, BlockPark(p) PROVE Parts'
  <2>1. UNCHANGED Taken
    BY <1>5 DEF BlockPark, subVars, Taken
  <2>2. CallInv'
    BY <1>5 DEF BlockPark, busVars, subVars, pubVars, stopVars, IndInv, TypeOK, CallInv, AtSub
  <2>3. LogInv' /\ OnceInv'
    BY <1>5, <2>1 DEF BlockPark, busVars, subVars, pubVars, stopVars, IndInv, TypeOK, LogInv,
       OnceInv, CallInv, AtSub
  <2>4. MustInv'
    BY <1>5, <2>1, SMTT(20) DEF BlockPark, busVars, subVars, pubVars, stopVars, IndInv, TypeOK,
       MustInv, AtSub, Wants, CallInv, StopInv
  <2>5. RouteInv' /\ StopInv'
    BY <1>5 DEF BlockPark, busVars, subVars, pubVars, stopVars, IndInv, TypeOK, RouteInv,
       StopInv, MatchedSubs, CloserInv, Inflight
  <2>6. CloserInv' /\ FreshInv'
    BY <1>5, <1>cl DEF BlockPark, busVars, subVars, pubVars, stopVars, IndInv, TypeOK,
       CloserInv, FreshInv, StopInv, CallInv, AtSub
  <2> QED
    BY <2>2, <2>3, <2>4, <2>5, <2>6 DEF Parts
<1>6. ASSUME NEW p \in Publishers, BlockWake(p) PROVE Parts'
  <2>1. CallInv' /\ LogInv' /\ OnceInv' /\ MustInv' /\ FreshInv'
    BY <1>6, StepWake
  <2>2. RouteInv' /\ StopInv'
    BY <1>6 DEF BlockWake, busVars, subVars, pubVars, stopVars, IndInv, TypeOK, RouteInv,
       StopInv, MatchedSubs, CloserInv, Inflight
  <2>3. CloserInv'
    BY <1>6, <1>cl DEF BlockWake, busVars, subVars, pubVars, stopVars, IndInv, TypeOK,
       CloserInv, StopInv, CallInv, AtSub
  <2> QED
    BY <2>1, <2>2, <2>3 DEF Parts
<1>7. ASSUME NEW p \in Publishers, BlockCancel(p) PROVE Parts'
  <2>1. CallInv' /\ LogInv' /\ OnceInv' /\ MustInv'
    BY <1>7, StepReturn DEF BlockCancel, busVars, subVars
  <2>2. RouteInv' /\ StopInv'
    BY <1>7 DEF BlockCancel, ReturnWith, busVars, subVars, pubVars, stopVars, IndInv, TypeOK,
       RouteInv, StopInv, MatchedSubs, CloserInv, Inflight
  <2>3. CloserInv' /\ FreshInv'
    BY <1>7, <1>cl DEF BlockCancel, ReturnWith, busVars, subVars, pubVars, stopVars, IndInv,
       TypeOK, CloserInv, FreshInv, StopInv, CallInv, AtSub
  <2> QED
    BY <2>1, <2>2, <2>3 DEF Parts
<1>8. ASSUME NEW p \in Publishers, BlockRelock(p) PROVE Parts'
  <2>1. CallInv' /\ LogInv' /\ OnceInv' /\ MustInv'
    BY <1>8, StepRelock
  <2>2. RouteInv' /\ StopInv'
    BY <1>8 DEF BlockRelock, ReturnWith, NextSub, busVars, subVars, pubVars, stopVars,
       IndInv, TypeOK, RouteInv, StopInv, MatchedSubs, CloserInv, Inflight
  <2>3. CloserInv' /\ FreshInv'
    BY <1>8, <1>cl DEF BlockRelock, ReturnWith, NextSub, busVars, subVars, pubVars, stopVars,
       IndInv, TypeOK, CloserInv, FreshInv, StopInv, CallInv, AtSub
  <2> QED
    BY <2>1, <2>2, <2>3 DEF Parts
<1>9. ASSUME NEW p \in Publishers, TrySend(p) PROVE Parts'
  <2>1. CallInv' /\ LogInv' /\ OnceInv' /\ MustInv' /\ FreshInv'
    BY <1>9, StepTry
  <2>2. RouteInv' /\ StopInv'
    BY <1>9 DEF TrySend, NextSub, busVars, subVars, pubVars, stopVars, IndInv, TypeOK,
       RouteInv, StopInv, MatchedSubs, CloserInv, Inflight
  <2>3. CloserInv'
    BY <1>9, <1>cl DEF TrySend, NextSub, busVars, subVars, pubVars, stopVars, IndInv, TypeOK,
       CloserInv, StopInv, CallInv, AtSub
  <2> QED
    BY <2>1, <2>2, <2>3 DEF Parts
<1>10. ASSUME NEW p \in Publishers, SampleOut(p) PROVE Parts'
  <2>1. UNCHANGED Taken
    BY <1>10 DEF SampleOut, subVars, Taken
  <2>2. CallInv'
    BY <1>10 DEF SampleOut, NextSub, busVars, subVars, pubVars, stopVars, IndInv, TypeOK,
       CallInv, AtSub
  <2>3. LogInv' /\ OnceInv'
    BY <1>10, <2>1 DEF SampleOut, NextSub, busVars, subVars, pubVars, stopVars, IndInv,
       TypeOK, LogInv, OnceInv, CallInv, AtSub
  <2>4. MustInv'
    BY <1>10, <2>1 DEF SampleOut, NextSub, busVars, subVars, pubVars, stopVars, IndInv,
       TypeOK, MustInv, AtSub, Wants, CallInv, StopInv
  <2>5. RouteInv' /\ StopInv'
    BY <1>10 DEF SampleOut, NextSub, busVars, subVars, pubVars, stopVars, IndInv, TypeOK,
       RouteInv, StopInv, MatchedSubs, CloserInv, Inflight
  <2>6. CloserInv' /\ FreshInv'
    BY <1>10, <1>cl DEF SampleOut, NextSub, busVars, subVars, pubVars, stopVars, IndInv,
       TypeOK, CloserInv, FreshInv, StopInv, CallInv, AtSub
  <2> QED
    BY <2>2, <2>3, <2>4, <2>5, <2>6 DEF Parts
<1>11. ASSUME NEW p \in Publishers, EvictOldest(p) PROVE Parts'
  <2>1. UNCHANGED Taken
    BY <1>11 DEF EvictOldest, subVars, Taken
  <2>2. CallInv'
    BY <1>11 DEF EvictOldest, busVars, subVars, pubVars, stopVars, IndInv, TypeOK, CallInv,
       AtSub
  <2>3. LogInv' /\ OnceInv'
    BY <1>11, <2>1 DEF EvictOldest, busVars, subVars, pubVars, stopVars, IndInv, TypeOK,
       LogInv, OnceInv, CallInv, AtSub
  <2>4. MustInv'
    BY <1>11, <2>1 DEF EvictOldest, busVars, subVars, pubVars, stopVars, IndInv, TypeOK,
       MustInv, AtSub, Wants, CallInv, StopInv
  <2>5. RouteInv' /\ StopInv'
    BY <1>11 DEF EvictOldest, busVars, subVars, pubVars, stopVars, IndInv, TypeOK, RouteInv,
       StopInv, MatchedSubs, CloserInv, Inflight
  <2>6. CloserInv'
    BY <1>11, <1>cl DEF EvictOldest, stopVars, IndInv, CloserInv
  <2>7. FreshInv'
    <3>1. config[cur[p]] # NoConfig
      BY <1>11 DEF EvictOldest, IndInv, CallInv, AtSub
    <3>2. UNCHANGED <<config, log>> /\ \A t \in Subs : t # cur[p] => head'[t] = head[t]
      BY <1>11 DEF EvictOldest, IndInv, TypeOK
    <3> QED
      BY <3>1, <3>2 DEF IndInv, FreshInv
  <2> QED
    BY <2>2, <2>3, <2>4, <2>5, <2>6, <2>7 DEF Parts
<1>12. ASSUME NEW p \in Publishers, RetrySend(p) PROVE Parts'
  <2>1. CallInv' /\ LogInv' /\ OnceInv' /\ MustInv' /\ FreshInv'
    BY <1>12, StepRetry
  <2>2. RouteInv' /\ StopInv'
    BY <1>12 DEF RetrySend, NextSub, busVars, subVars, pubVars, stopVars, IndInv, TypeOK,
       RouteInv, StopInv, MatchedSubs, CloserInv, Inflight
  <2>3. CloserInv'
    BY <1>12, <1>cl DEF RetrySend, NextSub, busVars, subVars, pubVars, stopVars, IndInv,
       TypeOK, CloserInv, StopInv, CallInv, AtSub
  <2> QED
    BY <2>1, <2>2, <2>3 DEF Parts
<1>13. ASSUME NEW s \in Subs, NEW c \in SubConfigs[s], Subscribe(s, c) PROVE Parts'
  <2>1. CallInv' /\ StopInv'
    BY <1>13, StepSubscribe
  <2>2. UNCHANGED Taken
    BY <1>13 DEF Subscribe, subVars, Taken
  <2>3. LogInv' /\ OnceInv'
    BY <1>13, <2>2 DEF Subscribe, ClearRouteCache, busVars, subVars, pubVars, stopVars,
       IndInv, TypeOK, LogInv, OnceInv, CallInv, AtSub
  <2>4. MustInv'
    BY <1>13, <2>2 DEF Subscribe, ClearRouteCache, busVars, subVars, pubVars, stopVars,
       IndInv, TypeOK, MustInv, AtSub, Wants, CallInv, StopInv
  <2>5. RouteInv'
    BY <1>13 DEF Subscribe, ClearRouteCache, busVars, subVars, pubVars, stopVars, IndInv,
       TypeOK, RouteInv, MatchedSubs
  <2>6. CloserInv' /\ FreshInv'
    BY <1>13, <1>cl DEF Subscribe, ClearRouteCache, busVars, subVars, pubVars, stopVars,
       IndInv, TypeOK, CloserInv, FreshInv, StopInv, CallInv, AtSub
  <2> QED
    BY <2>1, <2>3, <2>4, <2>5, <2>6 DEF Parts
<1>14. ASSUME NEW s \in Subs, Receive(s) PROVE Parts'
  <2>1. FreshInv'
    BY <1>14, StepTake
  <2>2. UNCHANGED Taken
    BY <1>14 DEF Receive, subVars, Taken
  <2>3. CallInv'
    BY <1>14 DEF Receive, busVars, subVars, pubVars, stopVars, IndInv, TypeOK, CallInv, AtSub
  <2>4. LogInv' /\ OnceInv'
    BY <1>14, <2>2 DEF Receive, busVars, subVars, pubVars, stopVars, IndInv, TypeOK, LogInv,
       OnceInv, CallInv, AtSub
  <2>5. MustInv'
    BY <1>14, <2>2 DEF Receive, busVars, subVars, pubVars, stopVars, IndInv, TypeOK, MustInv,
       AtSub, Wants, CallInv, StopInv
  <2>6. RouteInv' /\ StopInv'
    BY <1>14 DEF Receive, busVars, subVars, pubVars, stopVars, IndInv, TypeOK, RouteInv,
       StopInv, MatchedSubs, CloserInv, Inflight
  <2>7. CloserInv'
    BY <1>14, <1>cl DEF Receive, busVars, subVars, pubVars, stopVars, IndInv, TypeOK,
       CloserInv, StopInv, CallInv, AtSub
  <2> QED
    BY <2>1, <2>3, <2>4, <2>5, <2>6, <2>7 DEF Parts
<1>15. ASSUME NEW c \in Closers, RemoveSub(c) PROVE Parts'
  <2>1. UNCHANGED Taken
    BY <1>15 DEF RemoveSub, subVars, Taken
  <2>2. CallInv'
    BY <1>15 DEF RemoveSub, Goto, ClearRouteCache, busVars, subVars, pubVars, stopVars,
       IndInv, TypeOK, CallInv, AtSub
  <2>3. LogInv' /\ OnceInv'
    BY <1>15, <2>1 DEF RemoveSub, Goto, ClearRouteCache, busVars, subVars, pubVars, stopVars,
       IndInv, TypeOK, LogInv, OnceInv, CallInv, AtSub
  <2>4. MustInv'
    BY <1>15, <2>1 DEF RemoveSub, Goto, ClearRouteCache, busVars, subVars, pubVars, stopVars,
       IndInv, TypeOK, MustInv, AtSub, Wants, CallInv, StopInv
  <2>5. RouteInv' /\ StopInv'
    BY <1>15 DEF RemoveSub, Goto, ClearRouteCache, busVars, subVars, pubVars, stopVars,
       IndInv, TypeOK, RouteInv, StopInv, MatchedSubs, CloserInv, Inflight
  <2>6. CloserInv' /\ FreshInv'
    BY <1>15, <1>cl DEF RemoveSub, Goto, ClearRouteCache, busVars, subVars, pubVars,
       stopVars, IndInv, TypeOK, CloserInv, FreshInv, StopInv, CallInv, AtSub
  <2> QED
    BY <2>2, <2>3, <2>4, <2>5, <2>6 DEF Parts
<1>16. ASSUME NEW c \in Closers, SignalDone(c) PROVE Parts'
  <2>1. StopInv' /\ CloserInv'
    BY <1>16, <1>cl DEF SignalDone, Goto, busVars, subVars, stopVars, IndInv, TypeOK,
       StopInv, CloserInv
  <2> QED
    BY <1>16, <2>1, PartsFrame DEF SignalDone, busVars, subVars, pubVars, Parts
<1>17. ASSUME NEW c \in Closers, AwaitSenders(c) PROVE Parts'
  <2>1. StopInv' /\ CloserInv'
    BY <1>17, <1>cl DEF AwaitSenders, Goto, busVars, subVars, stopVars, IndInv, TypeOK,
       StopInv, CloserInv
  <2> QED
    BY <1>17, <2>1, PartsFrame DEF AwaitSenders, busVars, subVars, pubVars, Parts
<1>18. ASSUME NEW c \in Closers, CloseChannel(c) PROVE Parts'
  <2>1. StopInv' /\ CloserInv'
    BY <1>18, <1>cl DEF CloseChannel, Goto, busVars, subVars, stopVars, IndInv, TypeOK,
       StopInv, CloserInv
  <2> QED
    BY <1>18, <2>1, PartsFrame DEF CloseChannel, busVars, subVars, pubVars, Parts
<1>19. CASE BusClose
  <2>1. UNCHANGED Taken
    BY <1>19 DEF BusClose, subVars, Taken
  <2>2. CallInv'
    BY <1>19 DEF BusClose, ClearRouteCache, busVars, subVars, pubVars, stopVars, IndInv,
       TypeOK, CallInv, AtSub
  <2>3. LogInv' /\ OnceInv'
    BY <1>19, <2>1 DEF BusClose, ClearRouteCache, busVars, subVars, pubVars, stopVars,
       IndInv, TypeOK, LogInv, OnceInv, CallInv, AtSub
  <2>4. MustInv'
    BY <1>19, <2>1 DEF BusClose, ClearRouteCache, busVars, subVars, pubVars, stopVars,
       IndInv, TypeOK, MustInv, AtSub, Wants, CallInv, StopInv
  <2>5. RouteInv' /\ StopInv'
    BY <1>19 DEF BusClose, ClearRouteCache, busVars, subVars, pubVars, stopVars, IndInv,
       TypeOK, RouteInv, StopInv, MatchedSubs, CloserInv, Inflight
  <2>6. CloserInv' /\ FreshInv'
    BY <1>19, <1>cl DEF BusClose, ClearRouteCache, busVars, subVars, pubVars, stopVars,
       IndInv, TypeOK, CloserInv, FreshInv, StopInv, CallInv, AtSub
  <2> QED
    BY <2>2, <2>3, <2>4, <2>5, <2>6 DEF Parts
<1>20. ASSUME NEW s \in Subs, BusSignal(s) PROVE Parts'
  <2>1. StopInv' /\ CloserInv'
    BY <1>20, <1>cl DEF BusSignal, busVars, subVars, stopVars, IndInv, TypeOK, StopInv,
       CloserInv
  <2> QED
    BY <1>20, <2>1, PartsFrame DEF BusSignal, busVars, subVars, pubVars, Parts
<1>21. CASE BusAwaitInflight
  <2>1. StopInv' /\ CloserInv'
    BY <1>21, <1>cl DEF BusAwaitInflight, busVars, subVars, stopVars, IndInv, TypeOK,
       StopInv, CloserInv
  <2> QED
    BY <1>21, <2>1, PartsFrame DEF BusAwaitInflight, busVars, subVars, pubVars, Parts
<1>22. ASSUME NEW s \in Subs, BusCloseChannel(s) PROVE Parts'
  <2>1. StopInv' /\ CloserInv'
    BY <1>22, <1>cl DEF BusCloseChannel, busVars, subVars, stopVars, IndInv, TypeOK, StopInv,
       CloserInv
  <2> QED
    BY <1>22, <2>1, PartsFrame DEF BusCloseChannel, busVars, subVars, pubVars, Parts
<1>23. CASE BusCloseReturn
  <2>1. StopInv' /\ CloserInv'
    BY <1>23, <1>cl DEF BusCloseReturn, busVars, subVars, stopVars, IndInv, TypeOK, StopInv,
       CloserInv
  <2> QED
    BY <1>23, <2>1, PartsFrame DEF BusCloseReturn, busVars, subVars, pubVars, Parts
<1> QED
  BY <1>1, <1>2, <1>3, <1>4, <1>5, <1>6, <1>7, <1>8, <1>9, <1>10, <1>11, <1>12, <1>13, <1>14,
     <1>15, <1>16, <1>17, <1>18, <1>19, <1>20, <1>21, <1>22, <1>23 DEF Next, PublishStep,
     CloserStep, BusCloserStep

\* The publishers that wait to send to s.
Parked(s) == {p \in Publishers : pc[p] = "parked" /\ cur[p] = s}

\* sub.senders counts them.
SendersInv == \A s \in Subs : senders[s] \in Nat /\ senders[s] = Cardinality(Parked(s))

\* No channel holds more than its buffer.
BufferInv == \A s \in Subs : Buffered(s) \in 0..BufferSize

\* TypeOK in parts: subscriptions and shutdown, channels and counters, publishers, calls.
SubType ==
  /\ subscribers \subseteq Subs /\ closing \subseteq Subs
  /\ \A j \in DOMAIN cache : j \in Subjects /\ cache[j] \subseteq Subs
  /\ config \in [Subs -> Configs]
  /\ \A s \in Subs : config[s] \in SubConfigs[s] \cup {NoConfig}
  /\ done \in [Subs -> BOOLEAN] /\ chClosed \in [Subs -> BOOLEAN]
  /\ closer \in [Closers -> {"idle", "removed", "signalled", "drained", "returned"}]
  /\ busCloser \in {"idle", "signal", "close", "returned"}
  /\ closed \in BOOLEAN /\ crashed \in BOOLEAN

ChanType ==
  /\ log \in [Subs -> Seq(Envelopes)] /\ head \in [Subs -> Nat]
  /\ dropped \in Nat /\ offered \in Nat /\ received \in Nat

PubType ==
  /\ pc \in [Publishers -> Reading \cup {"idle", "enter", "parked", "relock"}]
  /\ todo \in [Publishers -> SUBSET Subs] /\ cur \in [Publishers -> Subs \cup {"none"}]
  /\ sent \in [Publishers -> 0..MaxPublish]
  /\ result \in [Publishers -> {"none", "nil", "closed", "ctx"}]

CallType ==
  call \in [Publishers -> [env : Envelopes, must : SUBSET Subs,
  seen : SUBSET Subs] \cup {NoCall}]

\* All of them.
TypeInv == /\ SubType /\ ChanType /\ PubType /\ CallType
           /\ senders \in [Subs -> Nat] /\ SendersInv /\ BufferInv

\* The parts are TypeOK.
LEMMA TypeParts == TypeOK <=> TypeInv
  BY DEF TypeOK, TypeInv, SubType, ChanType, PubType, CallType, SendersInv, BufferInv, Parked

\* Finitely many publishers wait on a subscription.
LEMMA ParkedFinite == \A s : IsFiniteSet(Parked(s)) /\ Cardinality(Parked(s)) \in Nat
<1> TAKE s
<1>1. Parked(s) \subseteq Publishers /\ IsFiniteSet(Publishers)
  BY BusAssumption DEF Parked
<1> QED
  BY <1>1, FS_Subset, FS_CardinalityType

\* A step that parks and wakes nobody keeps the count of senders.
LEMMA ParkedSame ==
    ASSUME SendersInv, UNCHANGED senders,
           \A q \in Publishers : /\ pc'[q] = "parked" <=> pc[q] = "parked"
                                 /\ pc[q] = "parked" => cur'[q] = cur[q]
    PROVE  SendersInv'
<1>1. \A s \in Subs : Parked(s)' = Parked(s)
  BY DEF Parked
<1> QED
  BY <1>1 DEF SendersInv

\* A publisher that parks is counted.
LEMMA ParkedMore ==
    ASSUME SendersInv, NEW p \in Publishers, NEW s \in Subs, senders \in [Subs -> Nat],
           pc[p] # "parked", pc'[p] = "parked", cur'[p] = s,
           \A q \in Publishers : q # p => pc'[q] = pc[q] /\ cur'[q] = cur[q],
           senders' = [senders EXCEPT ![s] = @ + 1]
    PROVE  SendersInv'
<1>1. Parked(s)' = Parked(s) \cup {p} /\ p \notin Parked(s)
  BY DEF Parked
<1>2. \A t \in Subs : t # s => Parked(t)' = Parked(t) /\ senders'[t] = senders[t]
  BY DEF Parked
<1>3. Cardinality(Parked(s)') = Cardinality(Parked(s)) + 1
  BY <1>1, ParkedFinite, FS_AddElement
<1> QED
  BY <1>2, <1>3, ParkedFinite DEF SendersInv

\* A publisher that wakes or is cancelled is counted off: senders.Done has a senders.Add.
LEMMA ParkedLess ==
    ASSUME SendersInv, NEW p \in Publishers, NEW s \in Subs, senders \in [Subs -> Nat],
           pc[p] = "parked", cur[p] = s, pc'[p] # "parked",
           \A q \in Publishers : q # p => pc'[q] = pc[q] /\ cur'[q] = cur[q],
           senders' = [senders EXCEPT ![s] = @ - 1]
    PROVE  SendersInv' /\ senders' \in [Subs -> Nat]
<1>1. Parked(s)' = Parked(s) \ {p} /\ p \in Parked(s)
  BY DEF Parked
<1>2. \A t \in Subs : t # s => Parked(t)' = Parked(t) /\ senders'[t] = senders[t]
  BY DEF Parked
<1>3. Cardinality(Parked(s)') = Cardinality(Parked(s)) - 1 /\ Cardinality(Parked(s)') \in Nat
  <2>1. IsFiniteSet(Parked(s) \ {p})
    BY ParkedFinite, FS_Subset
  <2> QED
    BY <1>1, <2>1, ParkedFinite, FS_RemoveElement, FS_CardinalityType
<1>4. SendersInv'
  BY <1>2, <1>3 DEF SendersInv
<1> QED
  BY <1>4 DEF SendersInv

\* A send keeps the channel's type and its bound.
LEMMA PutType ==
    ASSUME IndInv, NEW p \in Publishers, pc[p] \in AtSub, UNCHANGED head,
           \/ Put(p, cur[p]) /\ (chClosed[cur[p]] \/ ~Full(cur[p]))
           \/ UNCHANGED <<log, crashed>>
    PROVE  log' \in [Subs -> Seq(Envelopes)] /\ crashed' \in BOOLEAN /\ BufferInv'
<1>0. /\ cur[p] \in Subs /\ call[p] # NoCall /\ call[p].env \in Envelopes
      /\ log \in [Subs -> Seq(Envelopes)] /\ head \in [Subs -> Nat] /\ BufferSize \in Nat
      /\ crashed \in BOOLEAN /\ chClosed[cur[p]] \in BOOLEAN /\ BufferInv
  <2>1. pc[p] # "idle"
    BY DEF AtSub
  <2>2. cur[p] \in Subs /\ call[p] # NoCall
    BY <2>1 DEF IndInv, CallInv
  <2> QED
    BY <2>2, BusAssumption DEF IndInv, TypeOK, BufferInv
<1>1. CASE UNCHANGED <<log, crashed>>
  BY <1>0, <1>1 DEF BufferInv, Buffered
<1>2. CASE Put(p, cur[p]) /\ chClosed[cur[p]]
  BY <1>0, <1>2 DEF Put, BufferInv, Buffered
<1>3. CASE Put(p, cur[p]) /\ ~Full(cur[p]) /\ ~chClosed[cur[p]]
  <2>1. log' = [log EXCEPT ![cur[p]] = Append(@, call[p].env)] /\ crashed' \in BOOLEAN
    BY <1>0, <1>3 DEF Put
  <2>2. log' \in [Subs -> Seq(Envelopes)]
    BY <1>0, <2>1
  <2>3. Len(log'[cur[p]]) = Len(log[cur[p]]) + 1 /\ Len(log[cur[p]]) \in Nat
    BY <1>0, <2>1
  <2>4. \A s \in Subs : s # cur[p] => log'[s] = log[s]
    BY <1>0, <2>1
  <2>5. \A s \in Subs : Len(log[s]) \in Nat /\ Len(log[s]) - head[s] \in 0..BufferSize
    BY <1>0 DEF Buffered, BufferInv
  <2>6. Len(log[cur[p]]) - head[cur[p]] < BufferSize
    BY <1>0, <1>3, <2>5 DEF Full, Buffered
  <2>7. ASSUME NEW s \in Subs PROVE Len(log'[s]) - head'[s] \in 0..BufferSize
    <3>1. CASE s = cur[p]
      BY <1>0, <2>3, <2>5, <2>6, <3>1
    <3>2. CASE s # cur[p]
      BY <2>4, <2>5, <3>2
    <3> QED
      BY <3>1, <3>2
  <2>8. BufferInv'
    BY <2>7 DEF BufferInv, Buffered
  <2> QED
    BY <2>1, <2>2, <2>8
<1> QED
  BY <1>1, <1>2, <1>3

\* Neither does it change what the types of the Publish calls and the channels say.
LEMMA TypeFrame ==
    ASSUME TypeInv, SubType',
           UNCHANGED <<pc, call, todo, cur, sent, result, senders, log, head, dropped,
                       auditVars>>
    PROVE  TypeInv'
<1>1. ChanType' /\ PubType' /\ CallType' /\ BufferInv' /\ senders' \in [Subs -> Nat]
  BY DEF TypeInv, ChanType, PubType, CallType, BufferInv, Buffered, auditVars
<1>2. SendersInv'
  BY ParkedSame DEF TypeInv
<1> QED
  BY <1>1, <1>2 DEF TypeInv

\* Every step keeps the types.
LEMMA TypeKept ==
    ASSUME IndInv, Next PROVE TypeOK'
<1>cl. \A d \in Closers : d[1] \in Subs
  BY BusAssumption
<1>0. /\ TypeInv /\ SubType /\ ChanType /\ PubType /\ CallType
      /\ senders \in [Subs -> Nat] /\ SendersInv /\ BufferInv
  BY TypeParts DEF IndInv, TypeInv
<1>1. ASSUME NEW p \in Publishers, NEW j \in Subjects, PublishBegin(p, j) PROVE TypeInv'
  <2>1. SubType'
    BY <1>0, <1>cl, <1>1, BusAssumption DEF PublishBegin, Owed, busVars, subVars, pubVars,
       stopVars, auditVars, SubType, PubType, CallType, Envelopes
  <2>2. ChanType'
    BY <1>0, <1>1 DEF PublishBegin, Owed, busVars, subVars, pubVars, stopVars, auditVars,
       ChanType, PubType, CallType
  <2>3. PubType'
    <3>1. sent' \in [Publishers -> 0..MaxPublish]
      BY <1>0, <1>1, BusAssumption DEF PublishBegin, PubType
    <3>2. UNCHANGED <<todo, cur>>
      BY <1>1 DEF PublishBegin
    <3>3. (UNCHANGED pc \/ pc' = [pc EXCEPT ![p] = "enter"])
          /\ (result' = [result EXCEPT ![p] = "none"] \/ result' = [result EXCEPT ![p] = "closed"])
      BY <1>1 DEF PublishBegin
    <3> QED
      BY <1>0, <3>1, <3>2, <3>3 DEF PubType
  <2>4. CallType'
    <3> DEFINE e == [pub |-> p, n |-> sent[p] + 1, subject |-> j]
    <3>1. e \in Envelopes
      BY <1>0, <1>1, BusAssumption DEF PublishBegin, PubType, Envelopes
    <3>2. \/ UNCHANGED call
          \/ call' = [call EXCEPT ![p] = [env  |-> e,
                                          must |-> {s \in subscribers : e \in Owed(s)},
                                          seen |-> subscribers]]
      BY <1>1 DEF PublishBegin
    <3>3. {s \in subscribers : e \in Owed(s)} \in SUBSET Subs /\ subscribers \in SUBSET Subs
      BY <1>0 DEF SubType
    <3> HIDE DEF e
    <3> QED
      BY <1>0, <3>1, <3>2, <3>3 DEF CallType
  <2>5. SendersInv' /\ senders' \in [Subs -> Nat]
    BY <1>0, <1>1, ParkedSame DEF PublishBegin, Owed, busVars, subVars, pubVars, stopVars,
       auditVars, PubType, Reading
  <2>6. BufferInv'
    BY <1>0, <1>1 DEF PublishBegin, subVars, BufferInv, Buffered
  <2> QED
    BY <2>1, <2>2, <2>3, <2>4, <2>5, <2>6 DEF TypeInv
<1>2. ASSUME NEW p \in Publishers, PublishScan(p) PROVE TypeInv'
  <2>1. SubType'
    <3>1. UNCHANGED <<subscribers, closing, config, done, chClosed, closer, busCloser,
                      closed, crashed>>
      BY <1>2 DEF PublishScan, subVars, stopVars
    <3>2. call[p].env.subject \in Subjects
      BY <1>0, <1>2 DEF PublishScan, IndInv, CallInv, CallType, Envelopes
    <3>3. \A k \in Subjects : MatchedSubs(k) \subseteq Subs
      BY <1>0 DEF MatchedSubs, SubType
    <3>4. UNCHANGED cache \/ StoreRoute(call[p].env.subject)
      BY <1>2 DEF PublishScan
    <3>5. \A k \in DOMAIN cache' : k \in Subjects /\ cache'[k] \subseteq Subs
      BY <1>0, <3>2, <3>3, <3>4 DEF StoreRoute, SubType
    <3> QED
      BY <1>0, <3>1, <3>5 DEF SubType
  <2>2. ChanType'
    BY <1>0, <1>2 DEF PublishScan, ReturnWith, Matched, StoreRoute, MatchedSubs, busVars,
       subVars, pubVars, stopVars, auditVars, ChanType, PubType, CallType
  <2>3. PubType'
    BY <1>0, <1>2 DEF PublishScan, ReturnWith, Matched, StoreRoute, MatchedSubs, busVars,
       subVars, pubVars, stopVars, auditVars, PubType, SubType, Reading
  <2>4. CallType'
    BY <1>0, <1>2 DEF PublishScan, ReturnWith, Matched, StoreRoute, MatchedSubs, busVars,
       subVars, pubVars, stopVars, auditVars, CallType, PubType, SubType
  <2>5. SendersInv' /\ senders' \in [Subs -> Nat]
    BY <1>0, <1>2, ParkedSame DEF PublishScan, ReturnWith, Matched, StoreRoute, MatchedSubs,
       busVars, subVars, pubVars, stopVars, auditVars, PubType, Reading
  <2>6. BufferInv'
    BY <1>0, <1>2 DEF PublishScan, subVars, BufferInv, Buffered
  <2> QED
    BY <2>1, <2>2, <2>3, <2>4, <2>5, <2>6 DEF TypeInv
<1>3. ASSUME NEW p \in Publishers, NEW s \in Subs, PublishVisit(p, s) PROVE TypeInv'
  <2>1. SubType'
    BY <1>0, <1>cl, <1>3, BusAssumption DEF PublishVisit, busVars, subVars, pubVars,
       stopVars, auditVars, SubType, PubType, CallType, Envelopes
  <2>2. ChanType'
    BY <1>0, <1>3 DEF PublishVisit, busVars, subVars, pubVars, stopVars, auditVars, ChanType,
       PubType, CallType
  <2>3. PubType'
    BY <1>0, <1>3 DEF PublishVisit, busVars, subVars, pubVars, stopVars, auditVars, PubType,
       SubType, Reading
  <2>4. CallType'
    BY <1>0, <1>3 DEF PublishVisit, busVars, subVars, pubVars, stopVars, auditVars, CallType,
       PubType, SubType
  <2>5. SendersInv' /\ senders' \in [Subs -> Nat]
    BY <1>0, <1>3, ParkedSame DEF PublishVisit, busVars, subVars, pubVars, stopVars,
       auditVars, PubType, Reading
  <2>6. BufferInv'
    BY <1>0, <1>3 DEF PublishVisit, subVars, BufferInv, Buffered
  <2> QED
    BY <2>1, <2>2, <2>3, <2>4, <2>5, <2>6 DEF TypeInv
<1>4. ASSUME NEW p \in Publishers, PublishReturn(p) PROVE TypeInv'
  <2>1. SubType'
    BY <1>0, <1>cl, <1>4, BusAssumption DEF PublishReturn, ReturnWith, busVars, subVars,
       pubVars, stopVars, auditVars, SubType, PubType, CallType, Envelopes
  <2>2. ChanType'
    BY <1>0, <1>4 DEF PublishReturn, ReturnWith, busVars, subVars, pubVars, stopVars,
       auditVars, ChanType, PubType, CallType
  <2>3. PubType'
    BY <1>0, <1>4 DEF PublishReturn, ReturnWith, busVars, subVars, pubVars, stopVars,
       auditVars, PubType, SubType, Reading
  <2>4. CallType'
    BY <1>0, <1>4 DEF PublishReturn, ReturnWith, busVars, subVars, pubVars, stopVars,
       auditVars, CallType, PubType, SubType
  <2>5. SendersInv' /\ senders' \in [Subs -> Nat]
    BY <1>0, <1>4, ParkedSame DEF PublishReturn, ReturnWith, busVars, subVars, pubVars,
       stopVars, auditVars, PubType, Reading
  <2>6. BufferInv'
    BY <1>0, <1>4 DEF PublishReturn, subVars, BufferInv, Buffered
  <2> QED
    BY <2>1, <2>2, <2>3, <2>4, <2>5, <2>6 DEF TypeInv
<1>5. ASSUME NEW p \in Publishers, BlockPark(p) PROVE TypeInv'
  <2>1. SubType'
    BY <1>0, <1>cl, <1>5, BusAssumption DEF BlockPark, busVars, subVars, pubVars, stopVars,
       auditVars, SubType, PubType, CallType, Envelopes
  <2>2. ChanType'
    BY <1>0, <1>5 DEF BlockPark, busVars, subVars, pubVars, stopVars, auditVars, ChanType,
       PubType, CallType
  <2>3. PubType'
    BY <1>0, <1>5 DEF BlockPark, busVars, subVars, pubVars, stopVars, auditVars, PubType,
       SubType, Reading
  <2>4. CallType'
    BY <1>0, <1>5 DEF BlockPark, busVars, subVars, pubVars, stopVars, auditVars, CallType,
       PubType, SubType
  <2>5. SendersInv' /\ senders' \in [Subs -> Nat]
    <3>1. cur[p] \in Subs /\ pc \in [Publishers -> Reading \cup {"idle", "enter", "parked",
    "relock"}]
          /\ cur \in [Publishers -> Subs \cup {"none"}]
      BY <1>5, <1>0 DEF IndInv, CallInv, AtSub, BlockPark, PubType
    <3>2. /\ pc[p] # "parked" /\ pc'[p] = "parked" /\ cur'[p] = cur[p]
          /\ \A q \in Publishers : q # p => pc'[q] = pc[q] /\ cur'[q] = cur[q]
          /\ senders' = [senders EXCEPT ![cur[p]] = @ + 1]
      BY <3>1, <1>5 DEF BlockPark
    <3>3. SendersInv'
      BY <1>0, <3>1, <3>2, ParkedMore
    <3> QED
      BY <1>0, <3>2, <3>3 DEF SendersInv
  <2>6. BufferInv'
    BY <1>0, <1>5 DEF BlockPark, subVars, BufferInv, Buffered
  <2> QED
    BY <2>1, <2>2, <2>3, <2>4, <2>5, <2>6 DEF TypeInv
<1>6. ASSUME NEW p \in Publishers, BlockWake(p) PROVE TypeInv'
  <2>0. log' \in [Subs -> Seq(Envelopes)] /\ crashed' \in BOOLEAN /\ BufferInv'
    <3>1. pc[p] \in AtSub /\ UNCHANGED head
      BY <1>6 DEF BlockWake, AtSub
    <3>2. \/ Put(p, cur[p]) /\ (chClosed[cur[p]] \/ ~Full(cur[p]))
          \/ UNCHANGED <<log, crashed>>
      BY <1>6 DEF BlockWake
    <3> QED
      BY <3>1, <3>2, PutType
  <2>1. SubType'
    BY <1>0, <1>cl, <1>6, <2>0, BusAssumption DEF BlockWake, busVars, subVars, pubVars,
       stopVars, auditVars, SubType, PubType, CallType, Envelopes
  <2>2. ChanType'
    BY <1>0, <1>6, <2>0 DEF BlockWake, busVars, subVars, pubVars, stopVars, auditVars,
       ChanType, PubType, CallType
  <2>3. PubType'
    BY <1>0, <1>6, <2>0 DEF BlockWake, busVars, subVars, pubVars, stopVars, auditVars,
       PubType, SubType, Reading
  <2>4. CallType'
    BY <1>0, <1>6, <2>0 DEF BlockWake, busVars, subVars, pubVars, stopVars, auditVars,
       CallType, PubType, SubType
  <2>5. SendersInv' /\ senders' \in [Subs -> Nat]
    <3>1. cur[p] \in Subs /\ pc \in [Publishers -> Reading \cup {"idle", "enter", "parked",
    "relock"}]
          /\ cur \in [Publishers -> Subs \cup {"none"}]
      BY <1>6, <2>0, <1>0 DEF IndInv, CallInv, AtSub, BlockWake, PubType
    <3> QED
      BY <1>0, <3>1, <1>6, <2>0, ParkedLess DEF BlockWake
  <2>6. BufferInv'
    BY <2>0
  <2> QED
    BY <2>1, <2>2, <2>3, <2>4, <2>5, <2>6 DEF TypeInv
<1>7. ASSUME NEW p \in Publishers, BlockCancel(p) PROVE TypeInv'
  <2>1. SubType'
    BY <1>0, <1>cl, <1>7, BusAssumption DEF BlockCancel, ReturnWith, busVars, subVars,
       pubVars, stopVars, auditVars, SubType, PubType, CallType, Envelopes
  <2>2. ChanType'
    BY <1>0, <1>7 DEF BlockCancel, ReturnWith, busVars, subVars, pubVars, stopVars,
       auditVars, ChanType, PubType, CallType
  <2>3. PubType'
    BY <1>0, <1>7 DEF BlockCancel, ReturnWith, busVars, subVars, pubVars, stopVars,
       auditVars, PubType, SubType, Reading
  <2>4. CallType'
    BY <1>0, <1>7 DEF BlockCancel, ReturnWith, busVars, subVars, pubVars, stopVars,
       auditVars, CallType, PubType, SubType
  <2>5. SendersInv' /\ senders' \in [Subs -> Nat]
    <3>1. cur[p] \in Subs /\ pc \in [Publishers -> Reading \cup {"idle", "enter", "parked",
    "relock"}]
          /\ cur \in [Publishers -> Subs \cup {"none"}]
      BY <1>7, <1>0 DEF IndInv, CallInv, AtSub, BlockCancel, PubType
    <3> QED
      BY <1>0, <3>1, <1>7, ParkedLess DEF BlockCancel, ReturnWith
  <2>6. BufferInv'
    BY <1>0, <1>7 DEF BlockCancel, subVars, BufferInv, Buffered
  <2> QED
    BY <2>1, <2>2, <2>3, <2>4, <2>5, <2>6 DEF TypeInv
<1>8. ASSUME NEW p \in Publishers, BlockRelock(p) PROVE TypeInv'
  <2>1. SubType'
    BY <1>0, <1>cl, <1>8, BusAssumption DEF BlockRelock, ReturnWith, NextSub, busVars,
       subVars, pubVars, stopVars, auditVars, SubType, PubType, CallType, Envelopes
  <2>2. ChanType'
    BY <1>0, <1>8 DEF BlockRelock, ReturnWith, NextSub, busVars, subVars, pubVars, stopVars,
       auditVars, ChanType, PubType, CallType
  <2>3. PubType'
    BY <1>0, <1>8 DEF BlockRelock, ReturnWith, NextSub, busVars, subVars, pubVars, stopVars,
       auditVars, PubType, SubType, Reading
  <2>4. CallType'
    BY <1>0, <1>8 DEF BlockRelock, ReturnWith, NextSub, busVars, subVars, pubVars, stopVars,
       auditVars, CallType, PubType, SubType
  <2>5. SendersInv' /\ senders' \in [Subs -> Nat]
    BY <1>0, <1>8, ParkedSame DEF BlockRelock, ReturnWith, NextSub, busVars, subVars,
       pubVars, stopVars, auditVars, PubType, Reading
  <2>6. BufferInv'
    BY <1>0, <1>8 DEF BlockRelock, subVars, BufferInv, Buffered
  <2> QED
    BY <2>1, <2>2, <2>3, <2>4, <2>5, <2>6 DEF TypeInv
<1>9. ASSUME NEW p \in Publishers, TrySend(p) PROVE TypeInv'
  <2>0. log' \in [Subs -> Seq(Envelopes)] /\ crashed' \in BOOLEAN /\ BufferInv'
    <3>1. pc[p] \in AtSub /\ UNCHANGED head
      BY <1>9 DEF TrySend, AtSub
    <3>2. \/ Put(p, cur[p]) /\ (chClosed[cur[p]] \/ ~Full(cur[p]))
          \/ UNCHANGED <<log, crashed>>
      BY <1>9 DEF TrySend
    <3> QED
      BY <3>1, <3>2, PutType
  <2>1. SubType'
    BY <1>0, <1>cl, <1>9, <2>0, BusAssumption DEF TrySend, NextSub, busVars, subVars,
       pubVars, stopVars, auditVars, SubType, PubType, CallType, Envelopes
  <2>2. ChanType'
    BY <1>0, <1>9, <2>0 DEF TrySend, NextSub, busVars, subVars, pubVars, stopVars, auditVars,
       ChanType, PubType, CallType
  <2>3. PubType'
    BY <1>0, <1>9, <2>0 DEF TrySend, NextSub, busVars, subVars, pubVars, stopVars, auditVars,
       PubType, SubType, Reading
  <2>4. CallType'
    BY <1>0, <1>9, <2>0 DEF TrySend, NextSub, busVars, subVars, pubVars, stopVars, auditVars,
       CallType, PubType, SubType
  <2>5. SendersInv' /\ senders' \in [Subs -> Nat]
    BY <1>0, <1>9, <2>0, ParkedSame DEF TrySend, NextSub, busVars, subVars, pubVars,
       stopVars, auditVars, PubType, Reading
  <2>6. BufferInv'
    BY <2>0
  <2> QED
    BY <2>1, <2>2, <2>3, <2>4, <2>5, <2>6 DEF TypeInv
<1>10. ASSUME NEW p \in Publishers, SampleOut(p) PROVE TypeInv'
  <2>1. SubType'
    BY <1>0, <1>cl, <1>10, BusAssumption DEF SampleOut, NextSub, busVars, subVars, pubVars,
       stopVars, auditVars, SubType, PubType, CallType, Envelopes
  <2>2. ChanType'
    BY <1>0, <1>10 DEF SampleOut, NextSub, busVars, subVars, pubVars, stopVars, auditVars,
       ChanType, PubType, CallType
  <2>3. PubType'
    BY <1>0, <1>10 DEF SampleOut, NextSub, busVars, subVars, pubVars, stopVars, auditVars,
       PubType, SubType, Reading
  <2>4. CallType'
    BY <1>0, <1>10 DEF SampleOut, NextSub, busVars, subVars, pubVars, stopVars, auditVars,
       CallType, PubType, SubType
  <2>5. SendersInv' /\ senders' \in [Subs -> Nat]
    BY <1>0, <1>10, ParkedSame DEF SampleOut, NextSub, busVars, subVars, pubVars, stopVars,
       auditVars, PubType, Reading
  <2>6. BufferInv'
    BY <1>0, <1>10 DEF SampleOut, subVars, BufferInv, Buffered
  <2> QED
    BY <2>1, <2>2, <2>3, <2>4, <2>5, <2>6 DEF TypeInv
<1>11. ASSUME NEW p \in Publishers, EvictOldest(p) PROVE TypeInv'
  <2>1. SubType'
    BY <1>0, <1>cl, <1>11, BusAssumption DEF EvictOldest, busVars, subVars, pubVars,
       stopVars, auditVars, SubType, PubType, CallType, Envelopes
  <2>2. ChanType'
    BY <1>0, <1>11 DEF EvictOldest, busVars, subVars, pubVars, stopVars, auditVars, ChanType,
       PubType, CallType
  <2>3. PubType'
    BY <1>0, <1>11 DEF EvictOldest, busVars, subVars, pubVars, stopVars, auditVars, PubType,
       SubType, Reading
  <2>4. CallType'
    BY <1>0, <1>11 DEF EvictOldest, busVars, subVars, pubVars, stopVars, auditVars, CallType,
       PubType, SubType
  <2>5. SendersInv' /\ senders' \in [Subs -> Nat]
    BY <1>0, <1>11, ParkedSame DEF EvictOldest, busVars, subVars, pubVars, stopVars,
       auditVars, PubType, Reading
  <2>6. BufferInv'
    <3>1. UNCHANGED log /\ cur[p] \in Subs
      BY <1>11 DEF EvictOldest, IndInv, CallInv, AtSub
    <3>2. \A s \in Subs : /\ Len(log[s]) \in Nat /\ head[s] \in Nat
                          /\ Len(log[s]) - head[s] \in 0..BufferSize
      BY <1>0 DEF ChanType, BufferInv, Buffered
    <3>3. CASE Buffered(cur[p]) > 0
      <4>1. head' = [head EXCEPT ![cur[p]] = @ + 1]
        BY <1>11, <3>3 DEF EvictOldest
      <4>2. head'[cur[p]] = head[cur[p]] + 1 /\ \A s \in Subs : s # cur[p] => head'[s] = head[s]
        BY <1>0, <3>1, <4>1 DEF ChanType
      <4>3. Len(log[cur[p]]) - head[cur[p]] > 0
        BY <3>3 DEF Buffered
      <4>4. ASSUME NEW s \in Subs PROVE Len(log'[s]) - head'[s] \in 0..BufferSize
        <5>1. CASE s = cur[p]
          <6>1. BufferSize \in Nat
            BY BusAssumption
          <6>2. \A a, b \in Nat : a - b \in 0..BufferSize /\ a - b > 0
                                => a - (b + 1) \in 0..BufferSize
            BY <6>1
          <6> QED
            BY <3>1, <3>2, <4>2, <4>3, <5>1, <6>2
        <5>2. CASE s # cur[p]
          BY <3>1, <3>2, <4>2, <5>2
        <5> QED
          BY <5>1, <5>2
      <4> QED
        BY <4>4 DEF BufferInv, Buffered
    <3>4. CASE ~(Buffered(cur[p]) > 0)
      BY <1>0, <1>11, <3>4 DEF EvictOldest, BufferInv, Buffered
    <3> QED
      BY <3>3, <3>4
  <2> QED
    BY <2>1, <2>2, <2>3, <2>4, <2>5, <2>6 DEF TypeInv
<1>12. ASSUME NEW p \in Publishers, RetrySend(p) PROVE TypeInv'
  <2>0. log' \in [Subs -> Seq(Envelopes)] /\ crashed' \in BOOLEAN /\ BufferInv'
    <3>1. pc[p] \in AtSub /\ UNCHANGED head
      BY <1>12 DEF RetrySend, AtSub
    <3>2. \/ Put(p, cur[p]) /\ (chClosed[cur[p]] \/ ~Full(cur[p]))
          \/ UNCHANGED <<log, crashed>>
      BY <1>12 DEF RetrySend
    <3> QED
      BY <3>1, <3>2, PutType
  <2>1. SubType'
    BY <1>0, <1>cl, <1>12, <2>0, BusAssumption DEF RetrySend, NextSub, busVars, subVars,
       pubVars, stopVars, auditVars, SubType, PubType, CallType, Envelopes
  <2>2. ChanType'
    BY <1>0, <1>12, <2>0 DEF RetrySend, NextSub, busVars, subVars, pubVars, stopVars,
       auditVars, ChanType, PubType, CallType
  <2>3. PubType'
    BY <1>0, <1>12, <2>0 DEF RetrySend, NextSub, busVars, subVars, pubVars, stopVars,
       auditVars, PubType, SubType, Reading
  <2>4. CallType'
    BY <1>0, <1>12, <2>0 DEF RetrySend, NextSub, busVars, subVars, pubVars, stopVars,
       auditVars, CallType, PubType, SubType
  <2>5. SendersInv' /\ senders' \in [Subs -> Nat]
    BY <1>0, <1>12, <2>0, ParkedSame DEF RetrySend, NextSub, busVars, subVars, pubVars,
       stopVars, auditVars, PubType, Reading
  <2>6. BufferInv'
    BY <2>0
  <2> QED
    BY <2>1, <2>2, <2>3, <2>4, <2>5, <2>6 DEF TypeInv
<1>13. ASSUME NEW s \in Subs, NEW c \in SubConfigs[s], Subscribe(s, c) PROVE TypeInv'
  <2>1. SubType'
    BY <1>0, <1>cl, <1>13, BusAssumption DEF Subscribe, ClearRouteCache, busVars, subVars,
       pubVars, stopVars, auditVars, SubType, PubType, CallType, Envelopes
  <2>2. ChanType'
    BY <1>0, <1>13 DEF Subscribe, ClearRouteCache, busVars, subVars, pubVars, stopVars,
       auditVars, ChanType, PubType, CallType
  <2>3. PubType'
    BY <1>0, <1>13 DEF Subscribe, ClearRouteCache, busVars, subVars, pubVars, stopVars,
       auditVars, PubType, SubType, Reading
  <2>4. CallType'
    <3> DEFINE R == [env : Envelopes, must : SUBSET Subs, seen : SUBSET Subs]
    <3>1. ASSUME NEW q \in Publishers PROVE call'[q] \in R \cup {NoCall}
      <4>1. CASE call[q] = NoCall
        BY <1>13, <4>1 DEF Subscribe
      <4>2. CASE call[q] # NoCall
        <5>1. call[q] \in R /\ call'[q] = [call[q] EXCEPT !.seen = @ \cup {s}]
          BY <1>0, <1>13, <4>2 DEF Subscribe, CallType
        <5> QED
          BY <5>1, <1>13
      <4> QED
        BY <4>1, <4>2
    <3>2. call' = [q \in Publishers |-> call'[q]]
      BY <1>13 DEF Subscribe
    <3> QED
      BY <3>1, <3>2 DEF CallType
  <2>5. SendersInv' /\ senders' \in [Subs -> Nat]
    BY <1>0, <1>13, ParkedSame DEF Subscribe, ClearRouteCache, busVars, subVars, pubVars,
       stopVars, auditVars, PubType, Reading
  <2>6. BufferInv'
    BY <1>0, <1>13 DEF Subscribe, subVars, BufferInv, Buffered
  <2> QED
    BY <2>1, <2>2, <2>3, <2>4, <2>5, <2>6 DEF TypeInv
<1>14. ASSUME NEW s \in Subs, Receive(s) PROVE TypeInv'
  <2>1. SubType'
    BY <1>0, <1>cl, <1>14, BusAssumption DEF Receive, busVars, subVars, pubVars, stopVars,
       auditVars, SubType, PubType, CallType, Envelopes
  <2>2. ChanType'
    BY <1>0, <1>14 DEF Receive, busVars, subVars, pubVars, stopVars, auditVars, ChanType,
       PubType, CallType
  <2>3. PubType'
    BY <1>0, <1>14 DEF Receive, busVars, subVars, pubVars, stopVars, auditVars, PubType,
       SubType, Reading
  <2>4. CallType'
    BY <1>0, <1>14 DEF Receive, busVars, subVars, pubVars, stopVars, auditVars, CallType,
       PubType, SubType
  <2>5. SendersInv' /\ senders' \in [Subs -> Nat]
    BY <1>0, <1>14, ParkedSame DEF Receive, busVars, subVars, pubVars, stopVars, auditVars,
       PubType, Reading
  <2>6. BufferInv'
    BY <1>0, <1>14, BusAssumption DEF Receive, BufferInv, Buffered, Full, ChanType, SubType,
       IndInv, CallInv, AtSub
  <2> QED
    BY <2>1, <2>2, <2>3, <2>4, <2>5, <2>6 DEF TypeInv
<1>15. ASSUME NEW c \in Closers, RemoveSub(c) PROVE TypeInv'
  <2>1. SubType'
    BY <1>0, <1>cl, <1>15, BusAssumption DEF RemoveSub, Goto, ClearRouteCache, busVars,
       subVars, pubVars, stopVars, auditVars, SubType
  <2> QED
    BY <1>0, <1>15, <2>1, TypeFrame DEF RemoveSub, busVars, subVars, pubVars, auditVars
<1>16. ASSUME NEW c \in Closers, SignalDone(c) PROVE TypeInv'
  <2>1. SubType'
    BY <1>0, <1>cl, <1>16, BusAssumption DEF SignalDone, Goto, busVars, subVars, pubVars,
       stopVars, auditVars, SubType
  <2> QED
    BY <1>0, <1>16, <2>1, TypeFrame DEF SignalDone, busVars, subVars, pubVars, auditVars
<1>17. ASSUME NEW c \in Closers, AwaitSenders(c) PROVE TypeInv'
  <2>1. SubType'
    BY <1>0, <1>cl, <1>17, BusAssumption DEF AwaitSenders, Goto, busVars, subVars, pubVars,
       stopVars, auditVars, SubType
  <2> QED
    BY <1>0, <1>17, <2>1, TypeFrame DEF AwaitSenders, busVars, subVars, pubVars, auditVars
<1>18. ASSUME NEW c \in Closers, CloseChannel(c) PROVE TypeInv'
  <2>1. SubType'
    BY <1>0, <1>cl, <1>18, BusAssumption DEF CloseChannel, Goto, busVars, subVars, pubVars,
       stopVars, auditVars, SubType
  <2> QED
    BY <1>0, <1>18, <2>1, TypeFrame DEF CloseChannel, busVars, subVars, pubVars, auditVars
<1>19. ASSUME BusClose PROVE TypeInv'
  <2>1. SubType'
    BY <1>0, <1>cl, <1>19, BusAssumption DEF BusClose, ClearRouteCache, busVars, subVars,
       pubVars, stopVars, auditVars, SubType
  <2> QED
    BY <1>0, <1>19, <2>1, TypeFrame DEF BusClose, busVars, subVars, pubVars, auditVars
<1>20. ASSUME NEW s \in Subs, BusSignal(s) PROVE TypeInv'
  <2>1. SubType'
    BY <1>0, <1>cl, <1>20, BusAssumption DEF BusSignal, busVars, subVars, pubVars, stopVars,
       auditVars, SubType
  <2> QED
    BY <1>0, <1>20, <2>1, TypeFrame DEF BusSignal, busVars, subVars, pubVars, auditVars
<1>21. ASSUME BusAwaitInflight PROVE TypeInv'
  <2>1. SubType'
    BY <1>0, <1>cl, <1>21, BusAssumption DEF BusAwaitInflight, busVars, subVars, pubVars,
       stopVars, auditVars, SubType
  <2> QED
    BY <1>0, <1>21, <2>1, TypeFrame DEF BusAwaitInflight, busVars, subVars, pubVars, auditVars
<1>22. ASSUME NEW s \in Subs, BusCloseChannel(s) PROVE TypeInv'
  <2>1. SubType'
    BY <1>0, <1>cl, <1>22, BusAssumption DEF BusCloseChannel, busVars, subVars, pubVars,
       stopVars, auditVars, SubType
  <2> QED
    BY <1>0, <1>22, <2>1, TypeFrame DEF BusCloseChannel, busVars, subVars, pubVars, auditVars
<1>23. ASSUME BusCloseReturn PROVE TypeInv'
  <2>1. SubType'
    BY <1>0, <1>cl, <1>23, BusAssumption DEF BusCloseReturn, busVars, subVars, pubVars,
       stopVars, auditVars, SubType
  <2> QED
    BY <1>0, <1>23, <2>1, TypeFrame DEF BusCloseReturn, busVars, subVars, pubVars, auditVars
<1>24. TypeInv'
  BY <1>1, <1>2, <1>3, <1>4, <1>5, <1>6, <1>7, <1>8, <1>9, <1>10, <1>11, <1>12, <1>13, <1>14,
     <1>15, <1>16, <1>17, <1>18, <1>19, <1>20, <1>21, <1>22, <1>23 DEF Next, PublishStep,
     CloserStep, BusCloserStep
<1> QED
  BY <1>24 DEF TypeInv, TypeOK, SubType, ChanType, PubType, CallType, SendersInv, BufferInv,
     Parked


\* A step that touches none of what the contract sees is a stutter of the contract.
LEMMA Quiet ==
    ASSUME UNCHANGED <<subscribers, config, log, call, result>>
    PROVE  UNCHANGED Contract!vars
<1>1. UNCHANGED [s \in Subs |-> Owed(s)]
  BY DEF Owed, Wants
<1> QED
  BY <1>1 DEF Contract!vars

\* The contract's Has is membership in what the channel has taken.
LEMMA TakenIsHas ==
    ASSUME NEW s \in Subs, NEW e PROVE Contract!Has(s, e) <=> e \in Taken[s]
  BY DEF Contract!Has, Taken

\* A send is the contract's Accept, or nothing it sees: no envelope twice, none to a stranger.
LEMMA AcceptStep ==
    ASSUME IndInv, NEW p \in Publishers, pc[p] \in {"send", "retry", "parked"},
           Put(p, cur[p]) \/ UNCHANGED log, UNCHANGED <<subscribers, config, call, result>>
    PROVE  [Contract!Next]_(Contract!vars)
<1>1. CASE UNCHANGED log
  BY <1>1, Quiet
<1>2. CASE Put(p, cur[p]) /\ ~UNCHANGED log
  <2>1. /\ cur[p] \in Subs /\ call[p] # NoCall /\ cur[p] \in call[p].seen
    BY DEF IndInv, CallInv, AtSub
  <2>2. call[p].env \notin Taken[cur[p]]
    BY <2>1 DEF IndInv, OnceInv
  <2>3. log' = [log EXCEPT ![cur[p]] = Append(@, call[p].env)]
    BY <1>2 DEF Put
  <2>4. UNCHANGED [s \in Subs |-> Owed(s)]
    BY DEF Owed, Wants
  <2>5. Contract!Accept(p, cur[p])
    BY <2>1, <2>2, <2>3, <2>4, TakenIsHas DEF Contract!Accept
  <2> QED
    BY <2>1, <2>5 DEF Contract!Next
<1> QED
  BY <1>1, <1>2

\* An error return is the contract's Fail.
LEMMA FailStep ==
    ASSUME NEW p \in Publishers, NEW r \in {"closed", "ctx"}, ReturnWith(p, r),
           UNCHANGED <<subscribers, config, log>>
    PROVE  Contract!Next
<1>1. UNCHANGED [s \in Subs |-> Owed(s)]
  BY DEF Owed, Wants
<1>2. Contract!Fail(p, r)
  BY <1>1 DEF ReturnWith, Contract!Fail
<1> QED
  BY <1>2 DEF Contract!Next

\* Every step of the bus is a step or a stutter of the contract.
LEMMA ContractStep ==
    ASSUME IndInv, [Next]_vars PROVE [Contract!Next]_(Contract!vars)
<1> USE DEF busVars, subVars, pubVars, stopVars
<1>0. CASE UNCHANGED vars
  BY <1>0, Quiet DEF vars
<1>1. ASSUME NEW p \in Publishers, NEW j \in Subjects, PublishBegin(p, j)
      PROVE  Contract!Next
  <2>0. UNCHANGED [s \in Subs |-> Owed(s)]
    BY <1>1 DEF Owed, Wants, PublishBegin
  <2>1. call[p] = NoCall
    BY <1>1 DEF PublishBegin, IndInv, CallInv
  <2>2. CASE closed
    <3>1. call' = [call EXCEPT ![p] = NoCall]
      BY <1>1, <2>1, <2>2 DEF PublishBegin, IndInv, TypeOK
    <3>2. Contract!Fail(p, "closed")
      BY <1>1, <2>0, <2>2, <3>1 DEF PublishBegin, Contract!Fail
    <3> QED
      BY <3>2 DEF Contract!Next
  <2>3. CASE ~closed
    <3> DEFINE e == [pub |-> p, n |-> sent[p] + 1, subject |-> j]
    <3>1. e \in Envelopes
      BY <1>1, BusAssumption DEF PublishBegin, Envelopes, IndInv, TypeOK
    <3>2. call' = [call EXCEPT ![p] = [env |-> e, must |-> {s \in subscribers : e \in Owed(s)},
                                       seen |-> subscribers]]
      BY <1>1, <2>3 DEF PublishBegin
    <3>3. {s \in subscribers : e \in Owed(s)} =
            {s \in subscribers : e \in [t \in Subs |-> Owed(t)][s]}
      BY DEF IndInv, TypeOK
    <3> HIDE DEF e
    <3>4. Contract!Begin(p, e)
      BY <1>1, <2>0, <2>1, <2>3, <3>2, <3>3 DEF PublishBegin, Contract!Begin
    <3> QED
      BY <3>1, <3>4 DEF Contract!Next
  <2> QED
    BY <2>2, <2>3
<1>2. ASSUME NEW p \in Publishers, PublishScan(p) PROVE [Contract!Next]_(Contract!vars)
  <2>1. CASE closed
    BY <1>2, <2>1, FailStep DEF PublishScan
  <2>2. CASE ~closed
    BY <1>2, <2>2, Quiet DEF PublishScan
  <2> QED
    BY <2>1, <2>2
<1>3. ASSUME NEW p \in Publishers, NEW s \in Subs, PublishVisit(p, s)
      PROVE  [Contract!Next]_(Contract!vars)
  BY <1>3, Quiet DEF PublishVisit
<1>4. ASSUME NEW p \in Publishers, PublishReturn(p) PROVE Contract!Next
  <2>1. pc[p] # "idle" /\ pc[p] # "enter" /\ call[p] # NoCall /\ todo[p] = {} /\ pc[p] = "scan"
    BY <1>4 DEF PublishReturn, IndInv, CallInv
  <2>2. \A s \in call[p].must \cap subscribers : s \in Subs /\ call[p].env \in Taken[s]
    BY <2>1 DEF IndInv, MustInv, TypeOK
  <2>3. UNCHANGED [s \in Subs |-> Owed(s)]
    BY <1>4 DEF Owed, Wants, PublishReturn
  <2>4. Contract!Succeed(p)
    BY <1>4, <2>1, <2>2, <2>3, TakenIsHas DEF PublishReturn, ReturnWith, Contract!Succeed
  <2> QED
    BY <2>4 DEF Contract!Next
<1>5. ASSUME NEW p \in Publishers, BlockPark(p) PROVE [Contract!Next]_(Contract!vars)
  BY <1>5, Quiet DEF BlockPark
<1>6. ASSUME NEW p \in Publishers, BlockWake(p) PROVE [Contract!Next]_(Contract!vars)
  BY <1>6, AcceptStep DEF BlockWake
<1>7. ASSUME NEW p \in Publishers, BlockCancel(p) PROVE Contract!Next
  BY <1>7, FailStep DEF BlockCancel
<1>8. ASSUME NEW p \in Publishers, BlockRelock(p) PROVE [Contract!Next]_(Contract!vars)
  <2>1. CASE closed
    BY <1>8, <2>1, FailStep DEF BlockRelock
  <2>2. CASE ~closed
    BY <1>8, <2>2, Quiet DEF BlockRelock
  <2> QED
    BY <2>1, <2>2
<1>9. ASSUME NEW p \in Publishers, TrySend(p) PROVE [Contract!Next]_(Contract!vars)
  BY <1>9, AcceptStep DEF TrySend
<1>10. ASSUME NEW p \in Publishers, SampleOut(p) PROVE [Contract!Next]_(Contract!vars)
  BY <1>10, Quiet DEF SampleOut
<1>11. ASSUME NEW p \in Publishers, EvictOldest(p) PROVE [Contract!Next]_(Contract!vars)
  BY <1>11, Quiet DEF EvictOldest
<1>12. ASSUME NEW p \in Publishers, RetrySend(p) PROVE [Contract!Next]_(Contract!vars)
  BY <1>12, AcceptStep DEF RetrySend
<1>13. ASSUME NEW s \in Subs, NEW c \in SubConfigs[s], Subscribe(s, c) PROVE Contract!Next
  <2>1. s \notin subscribers /\ config \in [Subs -> Configs]
    BY <1>13 DEF Subscribe, IndInv, StopInv, TypeOK
  <2>2. \A t \in Subs : t # s => config'[t] = config[t]
    BY <1>13, <2>1 DEF Subscribe
  <2>3. \A t \in Subs : t # s => Owed(t)' = Owed(t)
    BY <2>2 DEF Owed, Wants
  <2>4. [t \in Subs |-> Owed(t)]' = [[t \in Subs |-> Owed(t)] EXCEPT ![s] = Owed(s)']
    BY <2>3
  <2>5. Owed(s)' \in SUBSET Envelopes
    BY DEF Owed
  <2>6. Contract!Join(s, Owed(s)')
    BY <1>13, <2>1, <2>4 DEF Subscribe, Contract!Join
  <2> QED
    BY <2>5, <2>6 DEF Contract!Next
<1>14. ASSUME NEW s \in Subs, Receive(s) PROVE [Contract!Next]_(Contract!vars)
  BY <1>14, Quiet DEF Receive
<1>15. ASSUME NEW c \in Closers, RemoveSub(c) PROVE [Contract!Next]_(Contract!vars)
  <2>1. CASE c[1] \in subscribers
    <3>1. UNCHANGED [s \in Subs |-> Owed(s)]
      BY <1>15 DEF Owed, Wants, RemoveSub
    <3>2. Contract!Leave({c[1]})
      BY <1>15, <2>1, <3>1 DEF RemoveSub, Contract!Leave
    <3> QED
      BY <2>1, <3>2 DEF Contract!Next
  <2>2. CASE c[1] \notin subscribers
    BY <1>15, <2>2, Quiet DEF RemoveSub
  <2> QED
    BY <2>1, <2>2
<1>16. ASSUME NEW c \in Closers, CloserStep(c) PROVE [Contract!Next]_(Contract!vars)
  BY <1>16, Quiet DEF CloserStep, SignalDone, AwaitSenders, CloseChannel
<1>17. CASE BusClose
  <2>1. UNCHANGED [s \in Subs |-> Owed(s)]
    BY <1>17 DEF Owed, Wants, BusClose
  <2>2. Contract!Leave(subscribers)
    BY <1>17, <2>1 DEF BusClose, Contract!Leave
  <2> QED
    BY <2>2 DEF Contract!Next
<1>18. CASE BusCloserStep
  BY <1>18, Quiet DEF BusCloserStep, BusSignal, BusCloseChannel, BusAwaitInflight,
     BusCloseReturn
<1> QED
  BY <1>0, <1>1, <1>2, <1>3, <1>4, <1>5, <1>6, <1>7, <1>8, <1>9, <1>10, <1>11, <1>12, <1>13,
     <1>14,
     <1>15, <1>16, <1>17, <1>18 DEF Next, PublishStep

\* The bus starts in the invariant.
LEMMA InitInv == Init => IndInv
<1> SUFFICES ASSUME Init PROVE IndInv
  OBVIOUS
<1> USE DEF Init
<1>1. TypeOK
  <2>1. NoConfig \in Configs
    BY DEF NoConfig, Configs
  <2>2. \A s \in Subs : Parked(s) = {}
    BY DEF Parked
  <2>3. SendersInv
    BY <2>2, FS_EmptySet DEF SendersInv
  <2>4. SubType
    BY <2>1 DEF SubType
  <2>5. ChanType /\ CallType
    BY DEF ChanType, CallType
  <2>6. PubType
    BY BusAssumption DEF PubType
  <2>7. BufferInv
    BY BusAssumption DEF BufferInv, Buffered
  <2> QED
    BY <2>3, <2>4, <2>5, <2>6, <2>7, TypeParts DEF TypeInv
<1>2. CallInv /\ MustInv
  BY DEF CallInv, MustInv, AtSub
<1>3. LogInv /\ OnceInv
  BY DEF LogInv, OnceInv, Taken
<1>4. RouteInv /\ StopInv /\ CloserInv
  BY DEF RouteInv, StopInv, CloserInv
<1>5. FreshInv
  BY DEF FreshInv
<1> QED
  BY <1>1, <1>2, <1>3, <1>4, <1>5 DEF IndInv

\* IndInv holds in every reachable state of the bus.
THEOREM Inductive == Spec => []IndInv
<1>1. IndInv /\ [Next]_vars => IndInv'
  <2> SUFFICES ASSUME IndInv, [Next]_vars PROVE IndInv'
    OBVIOUS
  <2>1. CASE Next
    BY <2>1, TypeKept, PartsKept DEF IndInv, Parts
  <2>2. CASE UNCHANGED vars
    <3> USE <2>2 DEF vars, busVars, subVars, pubVars, stopVars, auditVars
    <3>1. TypeOK'
      BY DEF IndInv, TypeOK, Buffered
    <3>2. CallInv'
      BY DEF IndInv, CallInv
    <3>3. LogInv' /\ OnceInv'
      BY DEF IndInv, LogInv, OnceInv, Taken
    <3>4. MustInv'
      <4>1. UNCHANGED Taken
        BY DEF Taken
      <4> QED
        BY <4>1 DEF IndInv, MustInv, Wants
    <3>5. RouteInv' /\ StopInv' /\ CloserInv' /\ FreshInv'
      BY DEF IndInv, RouteInv, MatchedSubs, StopInv, CloserInv, FreshInv
    <3> QED
      BY <3>1, <3>2, <3>3, <3>4, <3>5 DEF IndInv
  <2> QED
    BY <2>1, <2>2
<1> QED
  BY InitInv, <1>1, PTL DEF Spec

\* memory.go: every variable keeps its type; in particular sub.senders counts exactly the
\* publishers parked on the subscription and no channel exceeds its buffer.
THEOREM TypeCorrect == Spec => []TypeOK
  BY Inductive, PTL DEF IndInv

\* MemoryBus implements the contract of event.Bus: a Publish that returns nil has reached
\* every lossless subscription that was open when it began, wants the envelope and is still
\* open; no envelope enters a channel twice, after its call, or of a subscription that was
\* not open during it - for every buffer size, cache size and mix of policies, through
\* stale route caches, parked senders and concurrent shutdowns.
THEOREM KeepsContract == Spec => ImplementsContract
<1>1. Init => Contract!Init
  <2> SUFFICES ASSUME Init PROVE Contract!Init
    OBVIOUS
  <2>1. [s \in Subs |-> Owed(s)] = [s \in Subs |-> {}]
    BY DEF Init, Owed, NoConfig
  <2> QED
    BY <2>1 DEF Init, Contract!Init
<1>2. IndInv /\ [Next]_vars => [Contract!Next]_(Contract!vars)
  BY ContractStep
<1> QED
  BY <1>1, <1>2, Inductive, PTL DEF Spec, ImplementsContract, Contract!Spec

\* The positions h[s]+1 .. l[s] of the channels in N.
Positions(N, h, l) == UNION {{s} \X (h[s] + 1 .. l[s]) : s \in N}

\* What the channels of the non-blocking subscriptions hold, and the publishers that are
\* about to send to one.
Lens == [s \in Subs |-> Len(log[s])]
Held == Positions(NonBlocking, head, Lens)
InHand == {p \in Publishers : pc[p] \in {"send", "evict", "retry"} /\ cur[p] \in NonBlocking}

\* Finitely many envelopes are in the channels, and none is unaccounted for.
LossInv == IsFiniteSet(Held) /\ NoSilentLoss

\* A channel that takes an envelope has one position more.
LEMMA PositionAdded ==
    ASSUME NEW N \in SUBSET Subs, NEW h \in [Subs -> Nat], NEW l \in [Subs -> Nat],
           NEW s \in N, h[s] <= l[s], IsFiniteSet(Positions(N, h, l))
    PROVE  LET P == Positions(N, h, [l EXCEPT ![s] = @ + 1])
           IN  IsFiniteSet(P) /\ Cardinality(P) = Cardinality(Positions(N, h, l)) + 1
<1> DEFINE l2 == [l EXCEPT ![s] = @ + 1]
<1>1. /\ l2[s] = l[s] + 1 /\ \A t \in Subs : t # s => l2[t] = l[t]
      /\ l[s] \in Nat /\ h[s] \in Nat
  OBVIOUS
<1> HIDE DEF l2
<1>2. h[s] + 1 .. l[s] + 1 = (h[s] + 1 .. l[s]) \cup {l[s] + 1} /\ l[s] + 1 \notin h[s] + 1 .. l[s]
  BY <1>1
<1>3. Positions(N, h, l2) = Positions(N, h, l) \cup {<<s, l[s] + 1>>}
  BY <1>1, <1>2 DEF Positions
<1>4. <<s, l[s] + 1>> \notin Positions(N, h, l)
  BY <1>2 DEF Positions
<1>5. /\ IsFiniteSet(Positions(N, h, l2))
      /\ Cardinality(Positions(N, h, l2)) = Cardinality(Positions(N, h, l)) + 1
  <2> DEFINE P == Positions(N, h, l)
             x == <<s, l[s] + 1>>
  <2> HIDE DEF P, x
  <2>1. IsFiniteSet(P) /\ x \notin P
    BY <1>4 DEF P, x
  <2>2. IsFiniteSet(P \cup {x}) /\ Cardinality(P \cup {x}) = Cardinality(P) + 1
    BY <2>1, FS_AddElement
  <2> QED
    BY <1>3, <2>2 DEF P, x
<1> QED
  BY <1>5 DEF l2

\* A channel that gives one up has one less.
LEMMA PositionRemoved ==
    ASSUME NEW N \in SUBSET Subs, NEW h \in [Subs -> Nat], NEW l \in [Subs -> Nat],
           NEW s \in N, h[s] < l[s], IsFiniteSet(Positions(N, h, l))
    PROVE  LET P == Positions(N, [h EXCEPT ![s] = @ + 1], l)
           IN  IsFiniteSet(P) /\ Cardinality(P) = Cardinality(Positions(N, h, l)) - 1
<1> DEFINE h2 == [h EXCEPT ![s] = @ + 1]
<1>1. /\ h2[s] = h[s] + 1 /\ \A t \in Subs : t # s => h2[t] = h[t]
      /\ l[s] \in Nat /\ h[s] \in Nat
  OBVIOUS
<1> HIDE DEF h2
<1>2. (h[s] + 1) + 1 .. l[s] = (h[s] + 1 .. l[s]) \ {h[s] + 1} /\ h[s] + 1 \in h[s] + 1 .. l[s]
  BY <1>1
<1>3. Positions(N, h2, l) = Positions(N, h, l) \ {<<s, h[s] + 1>>}
  BY <1>1, <1>2 DEF Positions
<1>4. <<s, h[s] + 1>> \in Positions(N, h, l)
  BY <1>2 DEF Positions
<1>5. /\ IsFiniteSet(Positions(N, h2, l))
      /\ Cardinality(Positions(N, h2, l)) = Cardinality(Positions(N, h, l)) - 1
  BY <1>3, <1>4, FS_RemoveElement, FS_Subset
<1> QED
  BY <1>5 DEF h2

\* NoSilentLoss in these terms, and the numbers in it.
LEMMA LossParts ==
    /\ NoSilentLoss <=> \/ crashed
                        \/ offered = received + dropped + Cardinality(Held) + Cardinality(InHand)
    /\ IsFiniteSet(InHand) /\ Cardinality(InHand) \in Nat
    /\ TypeOK => Lens \in [Subs -> Nat] /\ head \in [Subs -> Nat]
                 /\ offered \in Nat /\ received \in Nat /\ dropped \in Nat
<1>1. \A s \in NonBlocking : Lens[s] = Len(log[s])
  BY DEF NonBlocking, Lens
<1>2. Held = UNION {{s} \X (head[s] + 1 .. Len(log[s])) : s \in NonBlocking}
  BY <1>1 DEF Held, Positions
<1>3. InHand \subseteq Publishers /\ IsFiniteSet(Publishers)
  BY BusAssumption DEF InHand
<1>4. IsFiniteSet(InHand) /\ Cardinality(InHand) \in Nat
  BY <1>3, FS_Subset, FS_CardinalityType
<1>5. TypeOK => Lens \in [Subs -> Nat] /\ head \in [Subs -> Nat]
                 /\ offered \in Nat /\ received \in Nat /\ dropped \in Nat
  BY DEF TypeOK, Lens
<1> QED
  BY <1>2, <1>4, <1>5 DEF NoSilentLoss, InHand

\* The same after a step.
LEMMA LossPrimed ==
    /\ NoSilentLoss' <=> \/ crashed'
                         \/ offered' = received' + dropped' + Cardinality(Held')
                                       + Cardinality(InHand')
    /\ IsFiniteSet(InHand') /\ Cardinality(InHand') \in Nat
<1>1. \A s \in NonBlocking' : Lens'[s] = Len(log'[s])
  BY DEF NonBlocking, Lens
<1>2. Held' = UNION {{s} \X (head'[s] + 1 .. Len(log'[s])) : s \in NonBlocking'}
  BY <1>1 DEF Held, Positions
<1>3. InHand' \subseteq Publishers /\ IsFiniteSet(Publishers)
  BY BusAssumption DEF InHand
<1>4. IsFiniteSet(InHand') /\ Cardinality(InHand') \in Nat
  BY <1>3, FS_Subset, FS_CardinalityType
<1> QED
  BY <1>2, <1>4 DEF NoSilentLoss, InHand

\* A publisher that is done with a non-blocking subscription has its envelope no longer in hand.
LEMMA HandLess ==
    ASSUME NEW p \in InHand, pc'[p] = "scan", UNCHANGED config,
           \A q \in Publishers : q # p => pc'[q] = pc[q] /\ cur'[q] = cur[q]
    PROVE  Cardinality(InHand') = Cardinality(InHand) - 1
<1>1. NonBlocking' = NonBlocking
  BY DEF NonBlocking
<1>2. InHand' = InHand \ {p}
  BY <1>1 DEF InHand
<1> QED
  BY <1>2, LossParts, FS_RemoveElement

\* No envelope of a non-blocking subscription moves.
LEMMA LossQuiet ==
    ASSUME IndInv, LossInv, ~crashed, UNCHANGED <<offered, received, dropped, Held, InHand>>
    PROVE  LossInv'
  BY LossParts, LossPrimed DEF LossInv

\* A publisher that leaves a non-blocking subscription: its envelope went into the
\* channel or was counted as dropped.
LEMMA LossLeave ==
    ASSUME IndInv, LossInv, ~crashed, NEW p \in Publishers, pc[p] \in {"send", "retry"},
           config[cur[p]].policy # "Block", pc'[p] = "scan",
           \A q \in Publishers : q # p => pc'[q] = pc[q] /\ cur'[q] = cur[q],
           UNCHANGED <<config, head, offered, received>>,
           \/ Put(p, cur[p]) /\ UNCHANGED dropped
           \/ UNCHANGED log /\ dropped' = dropped + 1
    PROVE  LossInv'
<1>1. cur[p] \in Subs /\ p \in InHand /\ cur[p] \in NonBlocking
  BY DEF IndInv, CallInv, AtSub, InHand, NonBlocking
<1>2. NonBlocking' = NonBlocking /\ NonBlocking \in SUBSET Subs
  BY DEF NonBlocking
<1>3. Cardinality(InHand') = Cardinality(InHand) - 1
  BY <1>1, HandLess
<1>4. /\ offered = received + dropped + Cardinality(Held) + Cardinality(InHand) /\ IsFiniteSet(Held)
      /\ offered \in Nat /\ received \in Nat /\ dropped \in Nat /\ Cardinality(InHand) \in Nat
      /\ Cardinality(Held) \in Nat
  BY LossParts, FS_CardinalityType DEF LossInv, IndInv
<1>5. CASE UNCHANGED log
  <2>1. UNCHANGED Held
    BY <1>2, <1>5 DEF Held, Lens
  <2>2. CASE dropped' = dropped + 1
    BY <1>3, <1>4, <2>1, <2>2, LossPrimed DEF LossInv
  <2>3. CASE Put(p, cur[p]) /\ chClosed[cur[p]]
    <3>1. crashed'
      BY <2>3 DEF Put
    <3> QED
      BY <1>4, <2>1, <3>1, LossPrimed DEF LossInv
  <2>4. CASE Put(p, cur[p]) /\ ~chClosed[cur[p]]
    <3>1. log' = [log EXCEPT ![cur[p]] = Append(@,
    call[p].env)] /\ log \in [Subs -> Seq(Envelopes)]
      BY <2>4 DEF Put, IndInv, TypeOK
    <3>2. Len(log'[cur[p]]) = Len(log[cur[p]]) + 1 /\ Len(log[cur[p]]) \in Nat
      BY <1>1, <3>1
    <3> QED
      BY <3>2, <1>5
  <2> QED
    BY <2>2, <2>3, <2>4
<1>6. CASE ~UNCHANGED log
  <2>1. /\ Put(p, cur[p]) /\ ~chClosed[cur[p]] /\ UNCHANGED dropped
        /\ log \in [Subs -> Seq(Envelopes)] /\ call[p].env \in Envelopes
        /\ Lens \in [Subs -> Nat] /\ head \in [Subs -> Nat]
    <3>1. call[p] # NoCall
      BY DEF IndInv, CallInv
    <3> QED
      BY <1>6, <3>1, LossParts DEF Put, IndInv, TypeOK
  <2>2. log' = [log EXCEPT ![cur[p]] = Append(@, call[p].env)]
    BY <2>1 DEF Put
  <2>3. Lens' = [Lens EXCEPT ![cur[p]] = @ + 1]
    <3>1. Len(log'[cur[p]]) = Len(log[cur[p]]) + 1
      BY <1>1, <2>1, <2>2
    <3>2. \A s \in Subs : s # cur[p] => log'[s] = log[s]
      BY <1>1, <2>1, <2>2
    <3> QED
      BY <1>1, <3>1, <3>2 DEF Lens
  <2>4. head[cur[p]] <= Lens[cur[p]]
    <3>1. Len(log[cur[p]]) - head[cur[p]] \in 0..BufferSize
      BY <1>1 DEF IndInv, TypeOK, Buffered
    <3>2. Len(log[cur[p]]) \in Nat /\ head[cur[p]] \in Nat
      BY <1>1, <2>1
    <3> QED
      BY <1>1, <3>1, <3>2, BusAssumption DEF Lens
  <2>5. Held' = Positions(NonBlocking, head, [Lens EXCEPT ![cur[p]] = @ + 1])
    BY <1>2, <2>3 DEF Held
  <2>6. IsFiniteSet(Held') /\ Cardinality(Held') = Cardinality(Held) + 1
    <3>1. IsFiniteSet(Positions(NonBlocking, head, Lens))
      BY <1>4 DEF Held
    <3>2. ASSUME NEW t \in NonBlocking, head[t] <= Lens[t]
          PROVE  LET P == Positions(NonBlocking, head, [Lens EXCEPT ![t] = @ + 1])
                 IN  IsFiniteSet(P) /\ Cardinality(P) = Cardinality(Positions(NonBlocking,
                 head, Lens)) + 1
      BY <1>2, <2>1, <3>1, <3>2, PositionAdded
    <3> QED
      BY <1>1, <2>4, <2>5, <3>2 DEF Held
  <2> QED
    BY <1>3, <1>4, <2>1, <2>6, LossPrimed DEF LossInv
<1> QED
  BY <1>5, <1>6

\* An envelope taken out of a channel was received or counted as evicted.
LEMMA LossTaken ==
    ASSUME IndInv, LossInv, ~crashed, NEW s \in Subs, Buffered(s) > 0,
           UNCHANGED <<config, log, offered, InHand>>,
           head' = [head EXCEPT ![s] = @ + 1],
           \/ /\ config[s].policy # "Block"
              /\ \/ received' = received + 1 /\ UNCHANGED dropped
                 \/ UNCHANGED received /\ dropped' = dropped + 1
           \/ config[s].policy = "Block" /\ UNCHANGED <<received, dropped>>
    PROVE  LossInv'
<1>1. NonBlocking' = NonBlocking /\ NonBlocking \in SUBSET Subs /\ Lens' = Lens
  BY DEF NonBlocking, Lens
<1>2. /\ offered = received + dropped + Cardinality(Held) + Cardinality(InHand) /\ IsFiniteSet(Held)
      /\ offered \in Nat /\ received \in Nat /\ dropped \in Nat /\ Cardinality(InHand) \in Nat
      /\ Cardinality(Held) \in Nat /\ Lens \in [Subs -> Nat] /\ head \in [Subs -> Nat]
  BY LossParts, FS_CardinalityType DEF LossInv, IndInv
<1>3. CASE config[s].policy # "Block"
  <2>1. s \in NonBlocking
    BY <1>3 DEF NonBlocking
  <2>2. Lens[s] - head[s] > 0
    BY DEF Lens, Buffered
  <2>3. head[s] < Lens[s]
    BY <1>2, <2>2
  <2>4. Held' = Positions(NonBlocking, [head EXCEPT ![s] = @ + 1], Lens)
    BY <1>1 DEF Held
  <2>5. IsFiniteSet(Held') /\ Cardinality(Held') = Cardinality(Held) - 1
    BY <1>1, <1>2, <2>1, <2>3, <2>4, PositionRemoved DEF Held
  <2> QED
    BY <1>2, <1>3, <2>5, LossPrimed DEF LossInv
<1>4. CASE config[s].policy = "Block"
  <2>1. s \notin NonBlocking
    BY <1>4 DEF NonBlocking
  <2>2. \A t \in NonBlocking : head'[t] = head[t]
    BY <1>1, <1>2, <2>1
  <2>3. Held' = Held
    BY <1>1, <2>2 DEF Held, Positions
  <2> QED
    BY <1>4, <2>3, LossQuiet
<1> QED
  BY <1>3, <1>4

\* Every step keeps the account.
LEMMA LossStep ==
    ASSUME IndInv, LossInv, Next PROVE LossInv'
<1> USE DEF busVars, subVars, pubVars, stopVars, auditVars
<1>0. ~crashed /\ pc \in [Publishers -> Reading \cup {"idle", "enter", "parked", "relock"}]
      /\ cur \in [Publishers -> Subs \cup {"none"}] /\ config \in [Subs -> Configs]
  BY DEF Next, IndInv, TypeOK
<1>a. ASSUME UNCHANGED <<config, log, head, offered, received, dropped>>,
             \A p \in Publishers :
                 \/ pc'[p] = pc[p] /\ cur'[p] = cur[p]
                 \/ /\ pc[p] \notin {"send", "evict", "retry"} \/ cur[p] \notin NonBlocking
                    /\ pc'[p] \notin {"send", "evict", "retry"} \/ cur'[p] \notin NonBlocking
      PROVE  LossInv'
  <2>1. NonBlocking' = NonBlocking
    BY <1>a DEF NonBlocking
  <2>2. UNCHANGED Held
    BY <1>a, <2>1 DEF Held, Lens
  <2>3. UNCHANGED InHand
    BY <1>a, <2>1 DEF InHand
  <2> QED
    BY <1>0, <1>a, <2>2, <2>3, LossQuiet
<1>1. ASSUME NEW p \in Publishers, NEW j \in Subjects, PublishBegin(p, j) PROVE LossInv'
  BY <1>0, <1>1, <1>a DEF PublishBegin
<1>2. ASSUME NEW p \in Publishers, PublishScan(p) PROVE LossInv'
  BY <1>0, <1>2, <1>a DEF PublishScan, ReturnWith
<1>3. ASSUME NEW p \in Publishers, NEW s \in Subs, PublishVisit(p, s) PROVE LossInv'
  <2>1. UNCHANGED <<config, log, head, received, dropped>> /\ pc[p] = "scan"
    BY <1>3 DEF PublishVisit
  <2>2. CASE Wants(s, call[p].env) /\ ~done[s] /\ config[s].policy # "Block"
    <3>1. /\ pc'[p] = "send" /\ cur'[p] = s /\ offered' = offered + 1
          /\ \A q \in Publishers : q # p => pc'[q] = pc[q] /\ cur'[q] = cur[q]
      BY <1>0, <1>3, <2>2 DEF PublishVisit
    <3>2. NonBlocking' = NonBlocking /\ s \in NonBlocking
      BY <2>1, <2>2 DEF NonBlocking
    <3>3. UNCHANGED Held
      BY <2>1, <3>2 DEF Held, Lens
    <3>4. InHand' = InHand \cup {p} /\ p \notin InHand
      BY <2>1, <3>1, <3>2 DEF InHand
    <3>5. Cardinality(InHand') = Cardinality(InHand) + 1
      BY <3>4, LossParts, FS_AddElement
    <3>6. /\ offered = received + dropped + Cardinality(Held) + Cardinality(InHand)
          /\ IsFiniteSet(Held) /\ offered \in Nat /\ received \in Nat /\ dropped \in Nat /\ Cardinality(InHand) \in Nat
          /\ Cardinality(Held) \in Nat
      BY <1>0, LossParts, FS_CardinalityType DEF LossInv, IndInv
    <3> QED
      BY <2>1, <3>1, <3>3, <3>5, <3>6, LossPrimed DEF LossInv
  <2>3. CASE Wants(s, call[p].env) /\ ~done[s] /\ config[s].policy = "Block"
    <3>1. /\ pc'[p] = "send" /\ cur'[p] = s /\ UNCHANGED offered
          /\ \A q \in Publishers : q # p => pc'[q] = pc[q] /\ cur'[q] = cur[q]
      BY <1>0, <1>3, <2>3 DEF PublishVisit
    <3>2. s \notin NonBlocking
      BY <2>3 DEF NonBlocking
    <3> QED
      BY <1>a, <2>1, <3>1, <3>2
  <2>4. CASE ~(Wants(s, call[p].env) /\ ~done[s])
    BY <1>3, <1>a, <2>1, <2>4 DEF PublishVisit
  <2> QED
    BY <2>2, <2>3, <2>4
<1>4. ASSUME NEW p \in Publishers, PublishReturn(p) PROVE LossInv'
  BY <1>0, <1>4, <1>a DEF PublishReturn, ReturnWith
<1>5. ASSUME NEW p \in Publishers, BlockPark(p) PROVE LossInv'
  <2>1. cur[p] \notin NonBlocking
    BY <1>5 DEF BlockPark, NonBlocking
  <2> QED
    BY <1>0, <1>5, <1>a, <2>1 DEF BlockPark
<1>6. ASSUME NEW p \in Publishers, BlockWake(p) PROVE LossInv'
  <2>1. /\ pc[p] = "parked" /\ pc'[p] = "relock" /\ cur' = cur
        /\ \A q \in Publishers : q # p => pc'[q] = pc[q]
        /\ UNCHANGED <<config, head, offered, received, dropped>>
    BY <1>0, <1>6 DEF BlockWake
  <2>2. cur[p] \notin NonBlocking /\ cur[p] \in Subs
    BY <2>1 DEF IndInv, MustInv, CallInv, AtSub, NonBlocking
  <2>3. NonBlocking' = NonBlocking /\ NonBlocking \subseteq Subs
    BY <2>1 DEF NonBlocking
  <2>4. UNCHANGED InHand
    BY <2>1, <2>3 DEF InHand
  <2>5. /\ log \in [Subs -> Seq(Envelopes)]
        /\ UNCHANGED log \/ log' = [log EXCEPT ![cur[p]] = Append(@, call[p].env)]
    BY <1>6 DEF BlockWake, Put, IndInv, TypeOK
  <2>6. \A s \in NonBlocking : log'[s] = log[s]
    BY <2>2, <2>3, <2>5
  <2>7. UNCHANGED Held
    BY <2>1, <2>3, <2>6 DEF Held, Lens, Positions
  <2> QED
    BY <1>0, <2>1, <2>4, <2>7, LossQuiet
<1>7. ASSUME NEW p \in Publishers, BlockCancel(p) PROVE LossInv'
  BY <1>0, <1>7, <1>a DEF BlockCancel, ReturnWith
<1>8. ASSUME NEW p \in Publishers, BlockRelock(p) PROVE LossInv'
  BY <1>0, <1>8, <1>a DEF BlockRelock, ReturnWith, NextSub
<1>9. ASSUME NEW p \in Publishers, TrySend(p) PROVE LossInv'
  <2>1. /\ pc[p] = "send" /\ config[cur[p]].policy # "Block"
        /\ UNCHANGED <<config, head, offered, received>>
    BY <1>9 DEF TrySend
  <2>2. CASE NextSub(p)
    <3>1. /\ pc'[p] = "scan" /\ \A q \in Publishers : q # p => pc'[q] = pc[q] /\ cur'[q] = cur[q]
      BY <1>0, <2>2 DEF NextSub
    <3>2. \/ Put(p, cur[p]) /\ UNCHANGED dropped
          \/ UNCHANGED log /\ dropped' = dropped + 1
      <4>1. pc' # [pc EXCEPT ![p] = "evict"]
        BY <1>0, <2>2, <3>1
      <4> QED
        BY <1>9, <4>1 DEF TrySend
    <3> QED
      BY <1>0, <2>1, <3>1, <3>2, LossLeave
  <2>3. CASE pc' = [pc EXCEPT ![p] = "evict"] /\ UNCHANGED <<cur, dropped, log>>
    <3>1. NonBlocking' = NonBlocking
      BY <2>1 DEF NonBlocking
    <3>2. UNCHANGED Held
      BY <2>1, <2>3, <3>1 DEF Held, Lens
    <3>3. UNCHANGED InHand
      BY <1>0, <2>1, <2>3, <3>1 DEF InHand
    <3> QED
      BY <1>0, <2>1, <2>3, <3>2, <3>3, LossQuiet
  <2> QED
    BY <1>9, <2>2, <2>3 DEF TrySend
<1>10. ASSUME NEW p \in Publishers, SampleOut(p) PROVE LossInv'
  <2>1. /\ pc[p] = "send" /\ config[cur[p]].policy # "Block" /\ pc'[p] = "scan"
        /\ \A q \in Publishers : q # p => pc'[q] = pc[q] /\ cur'[q] = cur[q]
        /\ UNCHANGED <<config, head, log, offered, received>> /\ dropped' = dropped + 1
    BY <1>0, <1>10 DEF SampleOut, NextSub
  <2> QED
    BY <1>0, <2>1, LossLeave
<1>11. ASSUME NEW p \in Publishers, EvictOldest(p) PROVE LossInv'
  <2>1. cur[p] \in Subs /\ config[cur[p]].policy # "Block" /\ UNCHANGED <<config, log,
                                                                          offered, received>>
    BY <1>11 DEF EvictOldest, IndInv, MustInv, CallInv, AtSub
  <2>2. UNCHANGED NonBlocking /\ UNCHANGED InHand
    BY <1>0, <1>11 DEF EvictOldest, InHand, NonBlocking
  <2>3. CASE Buffered(cur[p]) > 0
    BY <1>0, <1>11, <2>1, <2>2, <2>3, LossTaken DEF EvictOldest
  <2>4. CASE ~(Buffered(cur[p]) > 0)
    <3>1. UNCHANGED <<head, dropped>>
      BY <1>11, <2>4 DEF EvictOldest
    <3>2. UNCHANGED Held
      BY <2>1, <2>2, <3>1 DEF Held, Lens
    <3> QED
      BY <1>0, <2>1, <2>2, <3>1, <3>2, LossQuiet
  <2> QED
    BY <2>3, <2>4
<1>12. ASSUME NEW p \in Publishers, RetrySend(p) PROVE LossInv'
  <2>1. /\ pc[p] = "retry" /\ config[cur[p]].policy # "Block" /\ pc'[p] = "scan"
        /\ \A q \in Publishers : q # p => pc'[q] = pc[q] /\ cur'[q] = cur[q]
        /\ UNCHANGED <<config, head, offered, received>>
    BY <1>0, <1>12 DEF RetrySend, NextSub, IndInv, MustInv
  <2>2. \/ Put(p, cur[p]) /\ UNCHANGED dropped
        \/ UNCHANGED log /\ dropped' = dropped + 1
    BY <1>12 DEF RetrySend
  <2> QED
    BY <1>0, <2>1, <2>2, LossLeave
<1>13. ASSUME NEW s \in Subs, NEW c \in SubConfigs[s], Subscribe(s, c) PROVE LossInv'
  <2>1. /\ UNCHANGED <<log, head, pc, cur, offered, received, dropped>>
        /\ \A t \in Subs : t # s => config'[t] = config[t]
    BY <1>0, <1>13 DEF Subscribe
  <2>2. Len(log[s]) = head[s] /\ head[s] \in Nat
    BY <1>13 DEF Subscribe, IndInv, FreshInv, TypeOK
  <2>3. head[s] + 1 .. Lens[s] = {}
    BY <2>2 DEF Lens
  <2>4. \A t \in Subs : t # s => (t \in NonBlocking' <=> t \in NonBlocking)
    BY <2>1 DEF NonBlocking
  <2>5. UNCHANGED Held
    <3>1. Lens' = Lens /\ NonBlocking \subseteq Subs /\ NonBlocking' \subseteq Subs
      BY <2>1 DEF Lens, NonBlocking
    <3>2. Positions(NonBlocking, head, Lens) = Positions(NonBlocking', head, Lens)
      BY <2>3, <2>4, <3>1 DEF Positions
    <3> QED
      BY <2>1, <3>1, <3>2 DEF Held
  <2>6. \A q \in Publishers : pc[q] \in {"send", "evict",
  "retry"} => cur[q] # s /\ cur[q] \in Subs
    BY <1>13 DEF Subscribe, IndInv, CallInv, AtSub
  <2>7. UNCHANGED InHand
    BY <2>1, <2>4, <2>6 DEF InHand
  <2> QED
    BY <1>0, <2>1, <2>5, <2>7, LossQuiet
<1>14. ASSUME NEW s \in Subs, Receive(s) PROVE LossInv'
  <2>1. UNCHANGED InHand
    BY <1>14 DEF Receive, InHand, NonBlocking
  <2> QED
    BY <1>0, <1>14, <2>1, LossTaken DEF Receive
<1>15. ASSUME NEW c \in Closers, RemoveSub(c) PROVE LossInv'
  BY <1>15, <1>a DEF RemoveSub
<1>16. ASSUME NEW c \in Closers, CloserStep(c) PROVE LossInv'
  BY <1>16, <1>a DEF CloserStep, SignalDone, AwaitSenders, CloseChannel
<1>17. CASE BusClose
  BY <1>17, <1>a DEF BusClose
<1>18. CASE BusCloserStep
  BY <1>18, <1>a DEF BusCloserStep, BusSignal, BusCloseChannel, BusAwaitInflight, BusCloseReturn
<1> QED
  BY <1>1, <1>2, <1>3, <1>4, <1>5, <1>6, <1>7, <1>8, <1>9, <1>10, <1>11, <1>12, <1>13, <1>14,
     <1>15, <1>16, <1>17, <1>18 DEF Next, PublishStep

\* MemoryBus.Dropped accounts for every envelope a non-blocking subscription did not get: what
\* was offered was received, is buffered, is counted as dropped or is still in hand.
THEOREM NothingLostSilently == Spec => []NoSilentLoss
<1>1. Init => LossInv
  <2> SUFFICES ASSUME Init PROVE LossInv
    OBVIOUS
  <2>1. Held = {}
    BY DEF Init, Held, Positions, Lens, NonBlocking
  <2>2. InHand = {}
    BY DEF Init, InHand
  <2> QED
    BY <2>1, <2>2, LossParts, FS_EmptySet DEF Init, LossInv
<1>2. IndInv /\ LossInv /\ [Next]_vars => LossInv'
  <2> SUFFICES ASSUME IndInv, LossInv, UNCHANGED vars PROVE LossInv'
    BY LossStep
  <2> QED
    BY DEF LossInv, NoSilentLoss, Held, Lens, NonBlocking, vars, busVars, subVars, pubVars,
       auditVars
<1> QED
  BY <1>1, <1>2, Inductive, PTL DEF Spec, LossInv
=============================================================================
