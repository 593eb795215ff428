------------------------------ MODULE MCAvisos ------------------------------
(* An instance of the mails: one function, a seller with two sales, the     *)
(* second to be made, and one of the direction with a sale without address. *)
EXTENDS Avisos

MCSeasonOf == [f \in Functions |-> "this"]
MCPrice == [f \in Functions |-> 1]
MCCapacity == [f \in Functions |-> 4]
MCFunctionOf == <<"f1", "f1", "f1">>
MCSellerOf == <<"ana", "eli", "ana">>
MCSaleOf == [t \in Tickets |-> CASE t \in {"t1", "t2"} -> 1 [] t = "t3" -> 2 [] t = "t4" -> 3]
MCCharges == <<<<1>>, <<1>>, <<>>>>
MCTeam == [s \in Seasons |-> [u \in Users |-> IF u = "eli" THEN "admin" ELSE "seller"]]
MCQuota == [f \in Functions |-> [u \in Users |-> IF u = "ana" THEN 3 ELSE 0]]
MCEdits == {}
MCStart == [f \in Functions |-> 1]
=============================================================================
