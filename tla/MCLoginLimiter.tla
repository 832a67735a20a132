--------------------------- MODULE MCLoginLimiter ---------------------------
(* Small instances of LoginLimiter for TLC. *)
EXTENDS LoginLimiter, TLC

CONSTANTS a1, a2, a3

TwoAttempts == {a1, a2}
ThreeAttempts == {a1, a2, a3}
Symmetry == Permutations(Attempts)
=============================================================================
