---------------------------- MODULE MCPantallas -----------------------------
(* An instance of the screens: two functions of this season, one of them    *)
(* free, and one of the last season that is over; a seller with a quota,    *)
(* one of the direction who sells too, and a seller of the last season who  *)
(* was removed as he sold and still holds what he charged.                  *)
EXTENDS Pantallas

MCSeasonOf == [f \in Functions |-> IF f = "f3" THEN "past" ELSE "this"]
MCPrice == [f \in Functions |-> IF f = "f2" THEN 0 ELSE 1]
MCCapacity == [f \in Functions |-> IF f = "f1" THEN 3 ELSE 2]
\* 1: of last season; 2: two tickets of ana; 3: free, of eli; 4: complimentary
MCFunctionOf == <<"f3", "f1", "f2", "f1">>
MCSellerOf == <<"beto", "ana", "eli", "eli">>
MCSaleOf == [t \in Tickets |-> CASE t = "t1" -> 1 [] t \in {"t2", "t3"} -> 2
                                 [] t = "t4" -> 3 [] t = "t5" -> 4]
MCCharges == <<<<1>>, <<1>>, <<>>, <<>>>>
MCTeam == [se \in Seasons |-> [u \in Users |->
             CASE u = "eli" -> "admin"
               [] u = "ana" -> "seller"
               [] u = "beto" -> "none"]]
MCQuota == [f \in Functions |-> [u \in Users |->
             CASE f = "f1" /\ u = "ana" -> 2 [] f = "f3" /\ u = "beto" -> 1 [] OTHER -> 0]]
MCStart == [f \in Functions |-> CASE f = "f1" -> 1 [] f = "f2" -> 2 [] f = "f3" -> 0]
\* Another hour for the first function, as many seats as there are tickets of it, and
\* another price for the one that is free.
MCEdits ==
    {[function |-> "f1", start |-> h, capacity |-> 3, price |-> 1] : h \in {0, 3}}
    \cup {[function |-> "f1", start |-> 1, capacity |-> 2, price |-> 1],
          [function |-> "f2", start |-> 1, capacity |-> 2, price |-> 1]}
\* Everything, what is pending, and what narrows: a seller, a function, a text.
MCAsked ==
    {[season |-> NoFilter, seller |-> NoFilter, function |-> NoFilter, status |-> st, q |-> Sales] :
        st \in {"pending", NoFilter}}
    \cup {[season |-> "past", seller |-> "beto", function |-> NoFilter, status |-> NoFilter, q |-> Sales]}
    \cup {[season |-> "this", seller |-> NoFilter, function |-> "f1", status |-> "paid", q |-> Addressed]}
=============================================================================
