------------------------------ MODULE MCPuerta ------------------------------
(* Instances of Puerta for TLC.                                             *)
EXTENDS Puerta, TLC

CONSTANTS t1, t2, s1
MCSaleOf == t1 :> s1 @@ t2 :> s1

\* Requests are interchangeable.
MCRequestSymmetry == Permutations(Requests)
=============================================================================
