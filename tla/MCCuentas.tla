------------------------------ MODULE MCCuentas ------------------------------
(* An instance of the accounts: two addresses, one of them that of the      *)
(* shared account of the demo, and one browser in which they take turns;    *)
(* a request goes on when its browser has changed hands.                    *)
EXTENDS Cuentas

\* Which request is which does not matter.
Symmetry == Permutations(Requests)
=============================================================================
