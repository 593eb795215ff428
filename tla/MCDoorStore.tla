----------------------------- MODULE MCDoorStore -----------------------------
(* Instances of DoorStore for TLC.                                          *)
EXTENDS DoorStore, TLC

\* Tasks and calls are interchangeable, where no liveness is checked.
MCSymmetry == Permutations(Tasks) \cup Permutations(Calls)
=============================================================================
