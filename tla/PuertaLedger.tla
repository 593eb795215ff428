---------------------------- MODULE PuertaLedger -----------------------------
(***************************************************************************)
(* What the server promises the door about the tickets of a function: a    *)
(* ticket is let in at most once and stays in, an annulled ticket stays    *)
(* annulled.  No requests and no statements: Puerta implements this.       *)
(***************************************************************************)
CONSTANT Tickets

VARIABLES
    inside,    \* tickets that were let in
    annulled   \* tickets that were voided

vars == <<inside, annulled>>

Init == inside = {} /\ annulled = {}

Enter(t) == /\ t \notin inside
            /\ inside' = inside \cup {t}
            /\ UNCHANGED annulled

Annul(T) == /\ T \cap annulled = {}
            /\ annulled' = annulled \cup T
            /\ UNCHANGED inside

Next == \/ \E t \in Tickets : Enter(t)
        \/ \E T \in SUBSET Tickets : Annul(T)

Spec == Init /\ [][Next]_vars
=============================================================================
