---------------------------- MODULE MCTurnPrompts ----------------------------
(***************************************************************************)
(* TurnPrompts on two prompts and two replies, which may go to the same    *)
(* prompt, and on one prompt beside a steer queue that fills up.           *)
(***************************************************************************)
EXTENDS TurnPrompts

CONSTANTS a1, a2, r1, r2

TwoPrompts == [askers |-> {a1, a2}, repliers |-> {r1, r2}, messages |-> 0]
PromptAndSteer == [askers |-> {a1}, repliers |-> {r1}, messages |-> 3]
BothUses == {TwoPrompts, PromptAndSteer}
=============================================================================
