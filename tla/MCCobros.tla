------------------------------ MODULE MCCobros ------------------------------
(* Instances of Cobros for TLC: a sale of two, paid in parts, and one of one. *)
EXTENDS Cobros, TLC

CONSTANTS s1, s2
MCPrice == s1 :> 2 @@ s2 :> 1

\* Requests are interchangeable.
MCRequestSymmetry == Permutations(Requests)
=============================================================================
