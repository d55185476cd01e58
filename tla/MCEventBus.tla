----------------------------- MODULE MCEventBus -----------------------------
(* Subscription s1 is lossless.  s2 evicts the oldest envelope when full,  *)
(* or samples what p1 publishes.                                           *)
EXTENDS EventBus

CONSTANTS p1, s1, s2

OneCloserEach == {<<s1, "ctx">>, <<s2, "owner">>}

LosslessAndLossy ==
  [s \in Subs |->
     IF s = s1
       THEN {[policy |-> "Block", pattern |-> Subjects, from |-> Publishers]}
       ELSE {[policy |-> "DropOldest", pattern |-> Subjects, from |-> Publishers],
             [policy |-> "Sample", pattern |-> Subjects, from |-> {p1}]}]
=============================================================================
