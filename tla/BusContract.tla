---------------------------- MODULE BusContract ----------------------------
(***************************************************************************)
(* What event.Bus promises to a publisher and to a subscriber, without     *)
(* locks, route cache, backpressure or the phases of a shutdown.           *)
(*                                                                         *)
(* A subscription is open from Subscribe to the moment it is taken off the *)
(* bus.  log[s] is everything ever accepted into its channel.  A Publish   *)
(* call owes its envelope to the lossless subscriptions that were open     *)
(* when it began and that want it: it returns nil only when every one of   *)
(* them that is still open has it.  An envelope enters a channel at most   *)
(* once, only during its own Publish call (so one publisher's envelopes    *)
(* arrive in publishing order), and only if the subscription was open at   *)
(* some moment of that call.                                               *)
(***************************************************************************)
EXTENDS Sequences, Naturals

CONSTANTS Publishers, Subs, Envelopes,
          NoCall                   \* the call of a publisher outside Publish

VARIABLES open,                    \* subscriptions on the bus
          owed,                    \* owed[s]: the envelopes s may not lose
          log,                     \* log[s]: accepted into s's channel so far
          call,                    \* the Publish call each publisher is in
          result                   \* how each publisher's last call ended

vars == <<open, owed, log, call, result>>

Has(s, e) == \E i \in DOMAIN log[s] : log[s][i] = e

Init == /\ open = {}
        /\ owed = [s \in Subs |-> {}]
        /\ log = [s \in Subs |-> <<>>]
        /\ call = [p \in Publishers |-> NoCall]
        /\ result = [p \in Publishers |-> "none"]

Join(s, es) == /\ s \notin open
               /\ open' = open \cup {s}
               /\ owed' = [owed EXCEPT ![s] = es]
               /\ call' = [p \in Publishers |->
                             IF call[p] = NoCall THEN NoCall
                             ELSE [call[p] EXCEPT !.seen = @ \cup {s}]]
               /\ UNCHANGED <<log, result>>

Leave(S) == /\ open' = open \ S
            /\ UNCHANGED <<owed, log, call, result>>

Begin(p, e) == /\ call[p] = NoCall
               /\ call' = [call EXCEPT ![p] =
                             [env  |-> e,
                              must |-> {s \in open : e \in owed[s]},
                              seen |-> open]]
               /\ result' = [result EXCEPT ![p] = "none"]
               /\ UNCHANGED <<open, owed, log>>

Accept(p, s) == /\ call[p] # NoCall
                /\ s \in call[p].seen
                /\ ~Has(s, call[p].env)
                /\ log' = [log EXCEPT ![s] = Append(@, call[p].env)]
                /\ UNCHANGED <<open, owed, call, result>>

Succeed(p) == /\ call[p] # NoCall
              /\ \A s \in call[p].must \cap open : Has(s, call[p].env)
              /\ call' = [call EXCEPT ![p] = NoCall]
              /\ result' = [result EXCEPT ![p] = "nil"]
              /\ UNCHANGED <<open, owed, log>>

(* ErrBusClosed before or during the scan, or the error of the caller's ctx. *)
Fail(p, err) == /\ call' = [call EXCEPT ![p] = NoCall]
                /\ result' = [result EXCEPT ![p] = err]
                /\ UNCHANGED <<open, owed, log>>

Next == \/ \E s \in Subs, es \in SUBSET Envelopes : Join(s, es)
        \/ \E S \in SUBSET open : Leave(S)
        \/ \E p \in Publishers :
              \/ \E e \in Envelopes : Begin(p, e)
              \/ \E s \in Subs : Accept(p, s)
              \/ Succeed(p)
              \/ \E err \in {"closed", "ctx"} : Fail(p, err)

Spec == Init /\ [][Next]_vars
=============================================================================
