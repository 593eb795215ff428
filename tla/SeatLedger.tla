----------------------------- MODULE SeatLedger -----------------------------
(***************************************************************************)
(* What the box office promises about the seats of a function (a show),    *)
(* with no requests, locks or statements in sight: every sale takes its    *)
(* seats in one atomic step, and only if they fit under the capacity of    *)
(* that very moment.  Cupos implements this with a row lock and several    *)
(* statements per sale.                                                    *)
(***************************************************************************)
EXTENDS Integers

CONSTANTS
    Functions,    \* the functions of the choir
    Resizable     \* those whose capacity an edit may change

VARIABLES
    capacity,     \* capacity[f], 0 while f does not exist
    seats         \* seats[f]: the live tickets of f

vars == <<capacity, seats>>

Init == /\ capacity = [f \in Functions |-> 0]
        /\ seats = [f \in Functions |-> 0]

\* Only the entry of f may change in the table, and to a member of S.
Becomes(table, new, f, S) == /\ new[f] \in S
                             /\ new = [table EXCEPT ![f] = new[f]]

Open(f) == /\ capacity[f] = 0
           /\ Becomes(capacity, capacity', f, Nat \ {0})
           /\ UNCHANGED seats

Take(f) == /\ Becomes(seats, seats', f, (seats[f] + 1)..capacity[f])
           /\ UNCHANGED capacity

Release(f) == /\ Becomes(seats, seats', f, 0..(seats[f] - 1))
              /\ UNCHANGED capacity

\* An edit is not checked against the seats taken: see Cupos!PatchWrite.
Resize(f) == /\ f \in Resizable
             /\ capacity[f] > 0
             /\ Becomes(capacity, capacity', f, Nat \ {0})
             /\ UNCHANGED seats

Close(f) == /\ seats[f] = 0
            /\ capacity' = [capacity EXCEPT ![f] = 0]
            /\ UNCHANGED seats

Next == \E f \in Functions :
           Open(f) \/ Take(f) \/ Release(f) \/ Resize(f) \/ Close(f)

Spec == Init /\ [][Next]_vars
=============================================================================
