-------------------------- MODULE MCSessionStream --------------------------
(* Instances of SessionStream for TLC. *)
EXTENDS SessionStream

CONSTANTS b1

\* AckOnDelivery, and AckExplicit with a window of one delivery.
OnDelivery == [explicit |-> FALSE, maxUnacked |-> 0]
ExplicitAck == [explicit |-> TRUE, maxUnacked |-> 1]
BothModes == {OnDelivery, ExplicitAck}

\* Three publications let a branch be accepted after a later text; across two
\* attempts, and with acknowledgements at any moment, there are two.
Publications == [p \in SinkSpecs \X (1..MaxAttempts) |->
                    IF p[1].explicit \/ p[2] > 1 THEN 2 ELSE 3]
=============================================================================
