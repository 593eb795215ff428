------------------------------ MODULE MCCupos -------------------------------
(* Instances of Cupos for TLC: "ana" keeps her membership, "eva" does not.  *)
EXTENDS Cupos, TLC

MCUsers == {"ana", "eva"}
MCOneUser == {"ana"}
MCChurn == {"eva"}
MCSeasonOf == [f \in Functions |-> ActiveSeason]
MCRole0 == [s \in Seasons |-> [u \in Users |-> "seller"]]

\* Requests are interchangeable; used where no liveness is checked.
MCRequestSymmetry == Permutations(Requests)
=============================================================================
