--------------------------- MODULE MCTemporadas ----------------------------
(* Two seasons, two people and two requests: enough for two activations,  *)
(* a deletion against an activation, and two removals of each other.      *)
EXTENDS Temporadas, TLC

CONSTANTS r1, r2

RequestSymmetry == Permutations({r1, r2})
=============================================================================
