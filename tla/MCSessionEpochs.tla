--------------------------- MODULE MCSessionEpochs ---------------------------
(* Instances of SessionEpochs for TLC. *)
EXTENDS SessionEpochs, TLC

CONSTANTS s1, s2, a1, a2

\* Sessions and attempts are interchangeable (sound for safety only).
Symmetry == Permutations(Sessions) \cup Permutations(Attempts)
=============================================================================
