---------------------------- MODULE Cobros_proofs ---------------------------
(***************************************************************************)
(* Proofs about the payments of the sales, for any sales and prices and    *)
(* any finite number of requests at work at once.                          *)
(*                                                                         *)
(* The heart of it: a request that is alone on a sale, or works on a sale  *)
(* nobody has raced on, sees the payments it will commit, and the cache it *)
(* carries is their total.                                                 *)
(***************************************************************************)
EXTENDS Cobros, Sumas_proofs

---------------------------------------------------------------------------
(* The inductive invariant.                                                *)

Finite ==
    /\ IsFiniteSet(history)
    /\ \A r \in Requests : IsFiniteSet(req[r].new)

Charging(s) == {x \in Requests : s \in req[x].todo}

\* Every payment still to be inserted has a number left for it.
Room == \A s \in Sales : used[s] + Cardinality(Charging(s)) <= MaxPayments

\* No number is handed out twice.
Numbered ==
    /\ \A p \in history : p.id <= used[p.s]
    /\ \A r \in Requests : \A p \in req[r].new : p.id <= used[p.s]

\* Two requests that meet on a sale know of it: the sale is raced, neither is alone.
Meet ==
    \A x, y \in Requests : x # y =>
        /\ req[x].about \cap req[y].about \subseteq raced
        /\ req[x].alone => req[x].about \cap req[y].about = {}

InHand(q) == IF q.at \in {"sum", "write"} THEN {q.s} ELSE {}

\* What a request touches are the sales it is about, each of them in one way at a time:
\* still to charge, in hand, or with its row written.
ScopeOf(q) ==
    /\ q.at = "idle" => q.about = {} /\ q.new = {}
    /\ q.todo \subseteq q.about /\ q.rows \subseteq q.about /\ InHand(q) \subseteq q.about
    /\ q.todo \cap (q.rows \cup InHand(q)) = {}
    /\ q.rows \cap InHand(q) = {}
    /\ \A p \in q.new \cup q.gone : p.s \in q.rows \cup InHand(q)
    /\ \A s \in Sales : q.bill[s] # 0 => s \in q.todo
    /\ q.at \in {"delete", "clear"} => /\ q.about = {q.s} /\ q.todo = {}
                                       /\ q.rows = {} /\ q.new = {} /\ q.gone = {}
    /\ q.gone # {} => q.at \in {"sum", "write", "commit"} /\ q.todo = {}

Scope == \A r \in Requests : ScopeOf(req[r])

\* Nobody but r has been at work on s since r began.
Clean(r, s) == s \notin raced \/ req[r].alone

\* What a request has summed is what it will commit.
SummedOf(r) ==
    \A s \in req[r].about : Clean(r, s) =>
        /\ req[r].at = "write" /\ req[r].s = s => req[r].sum = Total(Visible(r), s)
        /\ s \in req[r].rows => req[r].cache[s] = Total(Visible(r), s)

Summed == \A r \in Requests : SummedOf(r)

\* What a request still charges is left to pay.
AffordableOf(r) ==
    \A s \in req[r].about \ raced :
        Total(Visible(r), s) + req[r].bill[s] <= Price[s]

Affordable == \A r \in Requests : AffordableOf(r)

\* A sale cancelled with nobody at work on it is not charged any more.
VoidIsQuiet ==
    \A s \in voided \ raced : \A r \in Requests :
        s \notin req[r].todo /\ Of(req[r].new, s) = {}

IInv ==
    /\ TypeOK /\ Finite /\ Room /\ Numbered
    /\ Meet /\ Scope /\ Summed /\ Affordable
    /\ VoidIsQuiet /\ OrderlySales

---------------------------------------------------------------------------
(* The total of the payments of a sale.                                    *)

Worth == [p \in Payments |-> p.cents]

\* The recursive function that MapThenSumSet chooses for Cents.
IsTotal(g, S) ==
    g = [t \in SUBSET S |->
           IF t = {} THEN 0
           ELSE LET p == CHOOSE p \in t : TRUE IN p.cents + g[t \ {p}]]

LEMMA WorthType ==
  ASSUME NEW p \in Payments
  PROVE  Worth[p] = p.cents /\ p.cents \in Nat
  BY DEF Worth, Payments

LEMMA TotalIsSum ==
  ASSUME NEW S, S \subseteq Payments, NEW g
  PROVE  IsTotal(g, S) <=> IsSum(g, Worth, S)
<1> DEFINE Choice(t) == CHOOSE p \in t : TRUE
<1>1. \A t \in SUBSET S : t # {} => Choice(t) \in t /\ Choice(t) \in Payments
  OBVIOUS
<1>2. \A t \in SUBSET S : t # {} => Choice(t).cents = Worth[Choice(t)]
  BY <1>1, WorthType
<1>3. [t \in SUBSET S |-> IF t = {} THEN 0 ELSE Choice(t).cents + g[t \ {Choice(t)}]]
        = [t \in SUBSET S |-> IF t = {} THEN 0 ELSE Worth[Choice(t)] + g[t \ {Choice(t)}]]
  <2> HIDE DEF Choice
  <2> QED
    BY <1>2
<1> QED
  BY <1>3 DEF IsTotal, IsSum

LEMMA SumOfCents ==
  ASSUME NEW S, S \subseteq Payments, IsFiniteSet(S)
  PROVE  MapThenSumSet(Cents, S) = Cardinality(Coins(Worth, S))
<1> DEFINE g == CHOOSE g : IsTotal(g, S)
<1>1. MapThenSumSet(Cents, S) = g[S]
  BY DEF MapThenSumSet, MapThenFoldSet, Cents, IsTotal
<1>2. \A x \in S : Worth[x] \in Nat
  BY WorthType
<1>3. IsSum([t \in SUBSET S |-> Cardinality(Coins(Worth, t))], Worth, S)
  BY <1>2, SumExists
<1>4. \E h : IsTotal(h, S)
  BY <1>3, TotalIsSum
<1>5. IsTotal(g, S)
  BY <1>4
<1> HIDE DEF g
<1>6. IsSum(g, Worth, S)
  BY <1>5, TotalIsSum
<1> QED
  BY <1>1, <1>2, <1>6, SumIsCoins

LEMMA TotalCoins ==
  ASSUME NEW rows, rows \subseteq Payments, IsFiniteSet(rows), NEW s
  PROVE  /\ Of(rows, s) \subseteq Payments
         /\ IsFiniteSet(Of(rows, s))
         /\ IsFiniteSet(Coins(Worth, Of(rows, s)))
         /\ Total(rows, s) = Cardinality(Coins(Worth, Of(rows, s)))
         /\ Total(rows, s) \in Nat
<1>1. Of(rows, s) \subseteq rows /\ Of(rows, s) \subseteq Payments
  BY DEF Of
<1>2. IsFiniteSet(Of(rows, s))
  BY <1>1, FS_Subset
<1>3. \A x \in Of(rows, s) : Worth[x] \in Nat
  BY <1>1, WorthType
<1>4. IsFiniteSet(Coins(Worth, Of(rows, s)))
  BY <1>2, <1>3, CoinsFinite
<1>5. Total(rows, s) = Cardinality(Coins(Worth, Of(rows, s)))
  BY <1>1, <1>2, SumOfCents DEF Total
<1>6. Cardinality(Coins(Worth, Of(rows, s))) \in Nat
  BY <1>4, FS_CardinalityType
<1> QED
  BY <1>1, <1>2, <1>4, <1>5, <1>6

LEMMA TotalNone ==
  ASSUME NEW s
  PROVE  Total({}, s) = 0
<1>1. Of({}, s) = {}
  BY DEF Of
<1>2. IsFiniteSet({}) /\ Cardinality({}) = 0
  BY FS_EmptySet
<1>3. Total({}, s) = Cardinality(Coins(Worth, {}))
  BY <1>1, <1>2, TotalCoins
<1> QED
  BY <1>2, <1>3, CoinsEmpty

\* Payments taken away do not raise the total.
LEMMA TotalLess ==
  ASSUME NEW A, NEW B, B \subseteq Payments, IsFiniteSet(B), NEW s,
         A \subseteq Payments, IsFiniteSet(A), Of(A, s) \subseteq Of(B, s)
  PROVE  Total(A, s) <= Total(B, s)
<1>1. Coins(Worth, Of(A, s)) \subseteq Coins(Worth, Of(B, s))
  BY DEF Coins
<1>2. IsFiniteSet(Coins(Worth, Of(B, s)))
  BY TotalCoins
<1>3. Cardinality(Coins(Worth, Of(A, s))) <= Cardinality(Coins(Worth, Of(B, s)))
  BY <1>1, <1>2, FS_Subset
<1> QED
  BY <1>3, TotalCoins

\* A new payment raises the total by its cents.
LEMMA TotalMore ==
  ASSUME NEW rows, rows \subseteq Payments, IsFiniteSet(rows),
         NEW p \in Payments, p \notin rows
  PROVE  Total(rows \cup {p}, p.s) = Total(rows, p.s) + p.cents
<1> DEFINE T == Of(rows, p.s)
<1>1. Of(rows \cup {p}, p.s) = T \cup {p} /\ p \notin T
  BY DEF Of
<1>2. IsFiniteSet(rows \cup {p}) /\ rows \cup {p} \subseteq Payments
  BY FS_AddElement
<1>3. Total(rows \cup {p}, p.s) = Cardinality(Coins(Worth, T \cup {p}))
  BY <1>1, <1>2, TotalCoins
<1>4. Total(rows, p.s) = Cardinality(Coins(Worth, T)) /\ IsFiniteSet(Coins(Worth, T))
  BY TotalCoins
<1>5. Worth[p] = p.cents /\ Worth[p] \in Nat
  BY WorthType
<1> HIDE DEF T
<1>6. Cardinality(Coins(Worth, T \cup {p})) = Cardinality(Coins(Worth, T)) + Worth[p]
  BY <1>1, <1>4, <1>5, CoinsAdd
<1> QED
  BY <1>3, <1>4, <1>5, <1>6

LEMMA TotalSame ==
  ASSUME NEW A, NEW B, NEW s, Of(A, s) = Of(B, s)
  PROVE  Total(A, s) = Total(B, s)
  BY DEF Total

---------------------------------------------------------------------------
(* What the actions do to the requests, field by field.                    *)

Becomes(r, q) ==
    /\ req' \in [Requests -> Request]
    /\ req'[r] = q
    /\ \A x \in Requests \ {r} : req'[x] = req[x]

LEMMA IdleType ==
  /\ Idle \in Request
  /\ Idle.at = "idle" /\ Idle.about = {} /\ Idle.bill = Nothing /\ Idle.todo = {}
  /\ Idle.id = 1 /\ Idle.sum = 0 /\ Idle.new = {} /\ Idle.gone = {}
  /\ Idle.cache = Nothing /\ Idle.rows = {} /\ Idle.s \in Sales
  /\ Nothing \in [Sales -> Nat]
<1>1. AnySale \in Sales
  BY CobrosAssumption DEF AnySale
<1>2. 1 \in Ids
  BY CobrosAssumption DEF Ids
<1>3. Nothing \in [Sales -> Nat]
  BY DEF Nothing
<1> QED
  BY <1>1, <1>2, <1>3 DEF Idle, Request, Steps

LEMMA FinishFacts ==
  ASSUME TypeOK, NEW r \in Requests, Finish(r)
  PROVE  Becomes(r, Idle)
  BY IdleType DEF TypeOK, Finish, Becomes

\* The request that begins and those it meets.
LEMMA BeginFacts ==
  ASSUME TypeOK, NEW r \in Requests, NEW S \in SUBSET Sales, NEW q \in Request,
         Begin(r, S, q)
  PROVE  /\ req' \in [Requests -> Request]
         /\ req[r].at = "idle"
         /\ req'[r] = [q EXCEPT !.about = S, !.alone = (Others(r, S) = {})]
         /\ \A x \in Others(r, S) : req'[x] = [req[x] EXCEPT !.alone = FALSE]
         /\ \A x \in Requests \ {r} : x \notin Others(r, S) => req'[x] = req[x]
<1> DEFINE lone == (Others(r, S) = {})
<1> DEFINE b == [q EXCEPT !.about = S, !.alone = lone]
<1>1. lone \in BOOLEAN
  OBVIOUS
<1>2. b \in Request
  <2> HIDE DEF lone
  <2> QED
    BY <1>1 DEF Request
<1>3. \A x \in Requests : req[x] \in Request /\ [req[x] EXCEPT !.alone = FALSE] \in Request
  BY DEF TypeOK, Request
<1>4. req' = [x \in Requests |->
          IF x = r THEN b
          ELSE IF x \in Others(r, S) THEN [req[x] EXCEPT !.alone = FALSE] ELSE req[x]]
  BY DEF Begin
<1> HIDE DEF b
<1>5. req' \in [Requests -> Request]
  BY <1>2, <1>3, <1>4
<1>6. req'[r] = b /\ req[r].at = "idle"
  BY <1>4 DEF Begin, At
<1>7. \A x \in Others(r, S) : x \in Requests /\ x # r
  BY DEF Others
<1>8. \A x \in Others(r, S) : req'[x] = [req[x] EXCEPT !.alone = FALSE]
  BY <1>4, <1>7
<1>9. \A x \in Requests \ {r} : x \notin Others(r, S) => req'[x] = req[x]
  BY <1>4
<1> QED
  BY <1>5, <1>6, <1>8, <1>9 DEF b

\* The ways a request begins: it charges the sales S, or undoes payments of one sale.
Undoing(q) ==
    /\ q.at \in {"delete", "clear"} /\ q.todo = {}
    /\ q.bill = Nothing /\ q.new = {} /\ q.gone = {} /\ q.rows = {}

ChargingAll(q, S) ==
    /\ q.at = "insert" /\ q.todo = S /\ q.new = {} /\ q.gone = {} /\ q.rows = {}
    /\ \A s \in S : s \notin voided /\ paid[s] + q.bill[s] <= Price[s]
    /\ \A s \in Sales \ S : q.bill[s] = 0
    /\ \A s \in S : used[s] + Cardinality(Charging(s)) < MaxPayments

Begins(r) == \E S \in SUBSET Sales : \E q \in Request :
    /\ Begin(r, S, q)
    /\ \/ Undoing(q) /\ S = {q.s}
       \/ ChargingAll(q, S)

LEMMA ChargeFacts ==
  ASSUME TypeOK, NEW r \in Requests, NEW S \in SUBSET Sales, NEW bill \in [Sales -> Nat],
         Charge(r, S, bill),
         \A s \in S : s \notin voided /\ paid[s] + bill[s] <= Price[s],
         \A s \in Sales \ S : bill[s] = 0
  PROVE  Begins(r)
<1> DEFINE q == [Idle EXCEPT !.at = "insert", !.bill = bill, !.todo = S]
<1>1. q \in Request
  BY IdleType DEF Request, Steps
<1>2. q.at = "insert" /\ q.todo = S /\ q.new = {} /\ q.gone = {} /\ q.rows = {} /\ q.bill = bill
  BY DEF Idle
<1>3. Begin(r, S, q) /\ \A s \in S : used[s] + Cardinality(Charging(s)) < MaxPayments
  BY DEF Charge, Charging
<1> HIDE DEF q
<1> QED
  BY <1>1, <1>2, <1>3 DEF Begins, ChargingAll

LEMMA StartBegins ==
  ASSUME TypeOK, NEW r \in Requests, Start(r)
  PROVE  Begins(r)
<1>1. \A s \in Sales : paid[s] \in Nat /\ Price[s] \in Nat
  BY CobrosAssumption DEF TypeOK
<1>2. CASE CreateSalePayment(r)
  <2>0. PICK s \in Sales :
          /\ s \notin voided /\ paid[s] < Price[s]
          /\ \E cents \in 1..Falta(s) : Charge(r, {s}, [Nothing EXCEPT ![s] = cents])
    BY <1>2 DEF CreateSalePayment
  <2>1. PICK cents \in 1..Falta(s) : Charge(r, {s}, [Nothing EXCEPT ![s] = cents])
    BY <2>0
  <2> DEFINE bill == [Nothing EXCEPT ![s] = cents]
  <2>2. cents \in Nat /\ paid[s] + cents <= Price[s]
    BY <1>1, <2>0, <2>1 DEF Falta
  <2>3. bill \in [Sales -> Nat] /\ bill[s] = cents /\ \A t \in Sales \ {s} : bill[t] = 0
    BY <2>2 DEF Nothing
  <2>4. Charge(r, {s}, bill) /\ s \notin voided
    BY <2>0, <2>1
  <2> HIDE DEF bill
  <2> QED
    BY <2>2, <2>3, <2>4, ChargeFacts
<1>3. CASE MarkPaid(r)
  <2>1. PICK s \in Sales :
          s \notin voided /\ paid[s] < Price[s] /\ Charge(r, {s}, [Nothing EXCEPT ![s] = Falta(s)])
    BY <1>3 DEF MarkPaid
  <2> DEFINE bill == [Nothing EXCEPT ![s] = Falta(s)]
  <2>2. Falta(s) \in Nat /\ paid[s] + Falta(s) <= Price[s]
    BY <1>1, <2>1 DEF Falta
  <2>3. bill \in [Sales -> Nat] /\ bill[s] = Falta(s) /\ \A t \in Sales \ {s} : bill[t] = 0
    BY <2>2 DEF Nothing
  <2>4. Charge(r, {s}, bill) /\ s \notin voided
    BY <2>1
  <2> HIDE DEF bill
  <2> QED
    BY <2>2, <2>3, <2>4, ChargeFacts
<1>4. CASE BulkPayment(r)
  <2>1. PICK S \in SUBSET Sales :
          LET due == {s \in S : s \notin voided /\ paid[s] < Price[s]} IN
            Charge(r, due, [s \in Sales |-> IF s \in due THEN Falta(s) ELSE 0])
    BY <1>4 DEF BulkPayment
  <2> DEFINE due == {s \in S : s \notin voided /\ paid[s] < Price[s]}
  <2> DEFINE bill == [s \in Sales |-> IF s \in due THEN Falta(s) ELSE 0]
  <2>2. \A s \in due : s \in Sales /\ s \notin voided /\ Falta(s) \in Nat /\ paid[s] + Falta(s) <= Price[s]
    BY <1>1 DEF Falta
  <2>3. Charge(r, due, bill)
    BY <2>1
  <2> HIDE DEF due
  <2>4. bill \in [Sales -> Nat]
    BY <2>2
  <2>5. \A s \in due : bill[s] = Falta(s)
    BY <2>2
  <2>6. \A s \in Sales \ due : bill[s] = 0
    OBVIOUS
  <2> HIDE DEF bill
  <2>7. due \in SUBSET Sales
    BY <2>2
  <2> QED
    BY <2>2, <2>3, <2>4, <2>5, <2>6, <2>7, ChargeFacts
<1>5. CASE MarkPending(r)
  <2>1. PICK s \in Sales : Begin(r, {s}, [Idle EXCEPT !.at = "clear", !.s = s])
    BY <1>5 DEF MarkPending
  <2> DEFINE q == [Idle EXCEPT !.at = "clear", !.s = s]
  <2>2. q \in Request
    BY IdleType DEF Request, Steps
  <2>3. Undoing(q) /\ q.s = s
    BY DEF Idle, Undoing
  <2>4. Begin(r, {s}, q)
    BY <2>1
  <2> HIDE DEF q
  <2> QED
    BY <2>2, <2>3, <2>4 DEF Begins
<1>6. CASE DeleteSalePayment(r)
  <2>1. PICK p \in history : Begin(r, {p.s}, [Idle EXCEPT !.at = "delete", !.s = p.s, !.id = p.id])
    BY <1>6 DEF DeleteSalePayment
  <2> DEFINE q == [Idle EXCEPT !.at = "delete", !.s = p.s, !.id = p.id]
  <2>2. p.s \in Sales /\ p.id \in Ids
    BY DEF TypeOK, Payments
  <2>3. q \in Request
    BY <2>2, IdleType DEF Request, Steps
  <2>4. Undoing(q) /\ q.s = p.s
    BY DEF Idle, Undoing
  <2>5. Begin(r, {p.s}, q)
    BY <2>1
  <2> HIDE DEF q
  <2> QED
    BY <2>2, <2>3, <2>4, <2>5 DEF Begins
<1> QED
  BY <1>2, <1>3, <1>4, <1>5, <1>6 DEF Start

\* The fields that a statement seldom changes.
SameSales(q, b) ==
    q.about = b.about /\ q.alone = b.alone /\ q.id = b.id

InsertOf(r, s, row, q) ==
    /\ Becomes(r, q) /\ q \in Request /\ row \in Payments
    /\ req[r].at = "insert" /\ s \in req[r].todo
    /\ row.id = used[s] + 1 /\ row.s = s /\ row.cents = req[r].bill[s]
    /\ used[s] + 1 <= MaxPayments
    /\ used' = [used EXCEPT ![s] = used[s] + 1]
    /\ SameSales(q, req[r])
    /\ q.at = "sum" /\ q.s = s /\ q.bill = [req[r].bill EXCEPT ![s] = 0]
    /\ q.todo = req[r].todo \ {s} /\ q.new = req[r].new \cup {row}
    /\ q.gone = req[r].gone /\ q.sum = req[r].sum
    /\ q.cache = req[r].cache /\ q.rows = req[r].rows

\* The sale in hand stays the same and so does what is still to charge.
SameWork(q, b) ==
    SameSales(q, b) /\ q.s = b.s /\ q.bill = b.bill /\ q.todo = b.todo /\ q.new = b.new

UndoOf(r, q) ==
    /\ Becomes(r, q) /\ q \in Request /\ SameWork(q, req[r])
    /\ req[r].at \in {"delete", "clear"} /\ q.at = "sum"
    /\ q.gone \subseteq Of(history, q.s)
    /\ q.sum = req[r].sum /\ q.cache = req[r].cache /\ q.rows = req[r].rows

SumOf(r, q) ==
    /\ Becomes(r, q) /\ q \in Request /\ SameWork(q, req[r])
    /\ req[r].at = "sum" /\ q.at = "write"
    /\ q.sum = Total(Visible(r), q.s)
    /\ q.gone = req[r].gone /\ q.cache = req[r].cache /\ q.rows = req[r].rows

WriteOf(r, q) ==
    /\ Becomes(r, q) /\ q \in Request /\ SameWork(q, req[r])
    /\ req[r].at = "write" /\ q.at = (IF q.todo = {} THEN "commit" ELSE "insert")
    /\ q.gone = req[r].gone
    /\ q.cache = [req[r].cache EXCEPT ![q.s] = req[r].sum]
    /\ q.rows = req[r].rows \cup {q.s}

LEMMA ChargingFinite ==
  ASSUME TypeOK, NEW s
  PROVE  IsFiniteSet(Charging(s)) /\ Cardinality(Charging(s)) \in Nat
<1>1. Charging(s) \subseteq Requests
  BY DEF Charging
<1> QED
  BY <1>1, CobrosAssumption, FS_Subset, FS_CardinalityType

LEMMA VisibleType ==
  ASSUME TypeOK, Finite, NEW r \in Requests
  PROVE  /\ Visible(r) \subseteq Payments /\ IsFiniteSet(Visible(r))
         /\ req[r] \in Request
<1>1. req[r] \in Request
  BY DEF TypeOK
<1>2. history \subseteq Payments /\ req[r].new \subseteq Payments
  BY <1>1 DEF TypeOK, Request
<1>3. IsFiniteSet(history \cup req[r].new)
  BY FS_Union DEF Finite
<1>4. Visible(r) \subseteq history \cup req[r].new
  BY DEF Visible
<1> QED
  BY <1>1, <1>2, <1>3, <1>4, FS_Subset

LEMMA InsertFacts ==
  ASSUME TypeOK, Room, NEW r \in Requests, Insert(r)
  PROVE  \E s \in Sales, row \in Payments, q \in Request : InsertOf(r, s, row, q)
<1>1. req[r] \in Request /\ req \in [Requests -> Request]
  BY DEF TypeOK
<1>2. PICK s \in req[r].todo :
        LET row == [id |-> used[s] + 1, s |-> s, cents |-> req[r].bill[s]] IN
        /\ used' = [used EXCEPT ![s] = row.id]
        /\ req' = [req EXCEPT ![r] = [req[r] EXCEPT
                       !.at = "sum", !.s = s, !.bill[s] = 0,
                       !.todo = @ \ {s}, !.new = @ \cup {row}]]
  BY DEF Insert
<1> DEFINE row == [id |-> used[s] + 1, s |-> s, cents |-> req[r].bill[s]]
<1> DEFINE q == [req[r] EXCEPT !.at = "sum", !.s = s, !.bill[s] = 0,
                       !.todo = @ \ {s}, !.new = @ \cup {row}]
<1>3. s \in Sales /\ req[r].bill \in [Sales -> Nat] /\ used[s] \in Nat
  BY <1>1 DEF Request, TypeOK
<1>4. used[s] + 1 <= MaxPayments
  <2>1. r \in Charging(s)
    BY <1>2 DEF Charging
  <2>2. Charging(s) # {} /\ IsFiniteSet(Charging(s)) /\ Cardinality(Charging(s)) \in Nat
    BY <2>1, ChargingFinite
  <2>3. Cardinality(Charging(s)) # 0
    BY <2>2, FS_EmptySet
  <2>4. used[s] + Cardinality(Charging(s)) <= MaxPayments
    BY <1>3 DEF Room
  <2> QED
    BY <1>3, <2>2, <2>3, <2>4, CobrosAssumption
<1>5. row \in Payments
  BY <1>3, <1>4 DEF Payments, Ids
<1>6. used' = [used EXCEPT ![s] = used[s] + 1] /\ req' = [req EXCEPT ![r] = q]
  BY <1>2
<1>7. row.id = used[s] + 1 /\ row.s = s /\ row.cents = req[r].bill[s]
  OBVIOUS
<1> HIDE DEF row
<1>8. q = [req[r] EXCEPT !.at = "sum", !.s = s, !.bill = [req[r].bill EXCEPT ![s] = 0],
                       !.todo = req[r].todo \ {s}, !.new = req[r].new \cup {row}]
  BY <1>1 DEF Request
<1> HIDE DEF q
<1>9. [req[r].bill EXCEPT ![s] = 0] \in [Sales -> Nat]
  BY <1>3
<1>10. q \in Request
  BY <1>1, <1>3, <1>5, <1>8, <1>9 DEF Request, Steps
<1>11. /\ q.at = "sum" /\ q.s = s /\ q.bill = [req[r].bill EXCEPT ![s] = 0]
       /\ q.todo = req[r].todo \ {s} /\ q.new = req[r].new \cup {row}
       /\ q.gone = req[r].gone /\ q.sum = req[r].sum
       /\ q.cache = req[r].cache /\ q.rows = req[r].rows
       /\ SameSales(q, req[r])
  BY <1>1, <1>8 DEF Request, SameSales
<1>12. Becomes(r, q)
  BY <1>1, <1>6, <1>10 DEF Becomes
<1>13. s \in req[r].todo /\ req[r].at = "insert"
  BY <1>2 DEF Insert, At
<1>14. used' = [used EXCEPT ![s] = used[s] + 1]
  BY <1>6
<1>15. InsertOf(r, s, row, q)
  BY <1>4, <1>5, <1>7, <1>10, <1>11, <1>12, <1>13, <1>14 DEF InsertOf
<1> QED
  BY <1>3, <1>5, <1>10, <1>15

LEMMA UndoFacts ==
  ASSUME TypeOK, NEW r \in Requests, Delete(r) \/ Clear(r)
  PROVE  \/ Becomes(r, Idle)
         \/ \E q \in Request : UndoOf(r, q)
<1>1. req[r] \in Request /\ req \in [Requests -> Request]
  BY DEF TypeOK
<1>2. ASSUME NEW G, G \subseteq Of(history, req[r].s), req[r].at \in {"delete", "clear"},
             req' = [req EXCEPT ![r] = [req[r] EXCEPT !.at = "sum", !.gone = G]]
      PROVE  \E q \in Request : UndoOf(r, q)
  <2> DEFINE q == [req[r] EXCEPT !.at = "sum", !.gone = G]
  <2>1. G \subseteq Payments
    BY <1>2 DEF Of, TypeOK
  <2>2. q \in Request
    BY <1>1, <2>1 DEF Request, Steps
  <2>3. /\ q.at = "sum" /\ q.gone = G /\ SameWork(q, req[r])
        /\ q.sum = req[r].sum /\ q.cache = req[r].cache /\ q.rows = req[r].rows
    BY <1>1 DEF Request, SameWork, SameSales
  <2>4. req' = [req EXCEPT ![r] = q]
    BY <1>2
  <2> HIDE DEF q
  <2>5. Becomes(r, q)
    BY <1>1, <2>2, <2>4 DEF Becomes
  <2>6. q.gone \subseteq Of(history, q.s)
    BY <1>2, <2>3 DEF SameWork
  <2> QED
    BY <1>2, <2>2, <2>3, <2>5, <2>6 DEF UndoOf
<1>3. CASE Delete(r)
  <2> DEFINE found == {p \in Of(history, req[r].s) : p.id = req[r].id}
  <2>1. CASE found = {}
    BY <1>3, <2>1, FinishFacts DEF Delete
  <2>2. CASE found # {}
    <3>1. req' = [req EXCEPT ![r] = [req[r] EXCEPT !.at = "sum", !.gone = found]]
      BY <1>3, <2>2 DEF Delete
    <3>2. found \subseteq Of(history, req[r].s) /\ req[r].at = "delete"
      BY <1>3 DEF Delete, At
    <3> HIDE DEF found
    <3> QED
      BY <1>2, <3>1, <3>2
  <2> QED
    BY <2>1, <2>2
<1>4. CASE Clear(r)
  BY <1>2, <1>4 DEF Clear, At
<1> QED
  BY <1>3, <1>4

LEMMA RecalcSumFacts ==
  ASSUME TypeOK, Finite, NEW r \in Requests, RecalcSum(r)
  PROVE  \E q \in Request : SumOf(r, q)
<1>1. req[r] \in Request /\ req \in [Requests -> Request] /\ req[r].s \in Sales
  BY DEF TypeOK, Request
<1> DEFINE t == Total(Visible(r), req[r].s)
<1> DEFINE q == [req[r] EXCEPT !.at = "write", !.sum = t]
<1>2. t \in Nat
  BY VisibleType, TotalCoins
<1>3. req' = [req EXCEPT ![r] = q] /\ req[r].at = "sum"
  BY DEF RecalcSum, At
<1> HIDE DEF t
<1>4. q \in Request
  BY <1>1, <1>2 DEF Request, Steps
<1>5. /\ q.at = "write" /\ q.sum = t /\ SameWork(q, req[r])
      /\ q.gone = req[r].gone /\ q.cache = req[r].cache /\ q.rows = req[r].rows
  BY <1>1 DEF Request, SameWork, SameSales
<1> HIDE DEF q
<1>6. Becomes(r, q)
  BY <1>1, <1>3, <1>4 DEF Becomes
<1>7. q.s = req[r].s
  BY <1>5 DEF SameWork
<1> QED
  BY <1>3, <1>4, <1>5, <1>6, <1>7 DEF SumOf, t

LEMMA RecalcWriteFacts ==
  ASSUME TypeOK, NEW r \in Requests, RecalcWrite(r)
  PROVE  \E q \in Request : WriteOf(r, q)
<1>1. req[r] \in Request /\ req \in [Requests -> Request]
  BY DEF TypeOK
<1>2. /\ req[r].cache \in [Sales -> Nat] /\ req[r].sum \in Nat /\ req[r].s \in Sales
      /\ req[r].rows \subseteq Sales
  BY <1>1 DEF Request
<1> DEFINE next == IF req[r].todo = {} THEN "commit" ELSE "insert"
<1> DEFINE q == [req[r] EXCEPT
                  !.cache[req[r].s] = req[r].sum, !.sum = 0, !.rows = @ \cup {req[r].s},
                  !.at = next]
<1>3. req' = [req EXCEPT ![r] = q] /\ req[r].at = "write"
  BY DEF RecalcWrite, At
<1>4. next \in Steps
  BY DEF Steps
<1> HIDE DEF next
<1>5. q = [req[r] EXCEPT !.cache = [req[r].cache EXCEPT ![req[r].s] = req[r].sum],
                  !.sum = 0, !.rows = req[r].rows \cup {req[r].s}, !.at = next]
  BY <1>1 DEF Request
<1> HIDE DEF q
<1>6. [req[r].cache EXCEPT ![req[r].s] = req[r].sum] \in [Sales -> Nat]
  BY <1>2
<1>7. q \in Request
  BY <1>1, <1>2, <1>4, <1>5, <1>6 DEF Request
<1>8. /\ q.at = next /\ q.cache = [req[r].cache EXCEPT ![req[r].s] = req[r].sum]
      /\ q.rows = req[r].rows \cup {req[r].s} /\ q.gone = req[r].gone
      /\ SameWork(q, req[r])
  BY <1>1, <1>5 DEF Request, SameWork, SameSales
<1>9. Becomes(r, q)
  BY <1>1, <1>3, <1>7 DEF Becomes
<1>10. q.s = req[r].s /\ q.todo = req[r].todo
  BY <1>8 DEF SameWork
<1> QED
  BY <1>3, <1>7, <1>8, <1>9, <1>10 DEF WriteOf, next

---------------------------------------------------------------------------
(* Preservation.  A step of a request disturbs the other requests little:  *)
(* only the commit of one that shares a sale with them, and then the sale  *)
(* is raced and they are not alone.                                        *)

\* x goes on undisturbed: its fields are the same, but that it may have company now, and
\* the payments of the sales that only it works on are the same.
Undisturbed(x) ==
    /\ req'[x].at = req[x].at /\ req'[x].about = req[x].about /\ req'[x].bill = req[x].bill
    /\ req'[x].todo = req[x].todo /\ req'[x].s = req[x].s /\ req'[x].sum = req[x].sum
    /\ req'[x].new = req[x].new /\ req'[x].gone = req[x].gone
    /\ req'[x].cache = req[x].cache /\ req'[x].rows = req[x].rows
    /\ req'[x].alone => req[x].alone
    /\ raced \subseteq raced'
    /\ \A s \in req[x].about : Clean(x, s) => Of(history', s) = Of(history, s)

LEMMA OthersGoOn ==
  ASSUME NEW x \in Requests, SummedOf(x), AffordableOf(x), ScopeOf(req[x]), Undisturbed(x)
  PROVE  SummedOf(x)' /\ AffordableOf(x)' /\ ScopeOf(req[x])'
<1>1. ASSUME NEW s \in req[x].about, Clean(x, s)
      PROVE  Total(Visible(x)', s) = Total(Visible(x), s)
  <2>1. Of(history', s) = Of(history, s)
    BY <1>1 DEF Undisturbed
  <2>2. Of(Visible(x)', s) = Of(Visible(x), s)
    BY <2>1 DEF Visible, Of, Undisturbed
  <2> QED
    BY <2>2, TotalSame
<1>2. SummedOf(x)'
  <2> SUFFICES ASSUME NEW s \in req'[x].about, Clean(x, s)'
               PROVE  /\ req'[x].at = "write" /\ req'[x].s = s => req'[x].sum = Total(Visible(x)', s)
                      /\ s \in req'[x].rows => req'[x].cache[s] = Total(Visible(x)', s)
    BY DEF SummedOf
  <2>1. s \in req[x].about /\ Clean(x, s)
    BY DEF Undisturbed, Clean
  <2>2. Total(Visible(x)', s) = Total(Visible(x), s)
    BY <1>1, <2>1
  <2> QED
    BY <2>1, <2>2 DEF Undisturbed, SummedOf
<1>3. AffordableOf(x)'
  <2> SUFFICES ASSUME NEW s \in req'[x].about \ raced'
               PROVE  Total(Visible(x)', s) + req'[x].bill[s] <= Price[s]
    BY DEF AffordableOf
  <2>1. s \in req[x].about \ raced /\ Clean(x, s)
    BY DEF Undisturbed, Clean
  <2>2. Total(Visible(x)', s) = Total(Visible(x), s)
    BY <1>1, <2>1
  <2> QED
    BY <2>1, <2>2 DEF Undisturbed, AffordableOf
<1>4. ScopeOf(req[x])'
  BY DEF ScopeOf, Undisturbed, InHand
<1> QED
  BY <1>2, <1>3, <1>4

\* A set of requests at work that only shrinks needs no more room.
LEMMA RoomKept ==
  ASSUME TypeOK, NEW s, Charging(s)' \subseteq Charging(s)
  PROVE  /\ Cardinality(Charging(s)') <= Cardinality(Charging(s))
         /\ Cardinality(Charging(s)') \in Nat
<1>1. IsFiniteSet(Charging(s))
  BY ChargingFinite
<1> QED
  BY <1>1, FS_Subset, FS_CardinalityType

\* A step of r that changes nothing but what r is at, and what it holds.
Calm(r, q) ==
    /\ Becomes(r, q) /\ q \in Request
    /\ UNCHANGED <<history, paid, voided, used, raced>>
    /\ q.todo \subseteq req[r].todo /\ q.new \subseteq req[r].new
    /\ q.about \subseteq req[r].about
    /\ q.alone => (req[r].alone \/ q.about = {})

LEMMA CalmStep ==
  ASSUME IInv, NEW r \in Requests, NEW q, Calm(r, q),
         ScopeOf(q), SummedOf(r)', AffordableOf(r)'
  PROVE  IInv'
<1>1. TypeOK'
  BY DEF IInv, TypeOK, Calm, Becomes
<1>2. Finite'
  <2>1. IsFiniteSet(q.new)
    BY FS_Subset DEF IInv, Finite, Calm
  <2> QED
    BY <2>1 DEF IInv, Finite, Calm, Becomes
<1>3. Room'
  <2> SUFFICES ASSUME NEW s \in Sales
               PROVE  used'[s] + Cardinality(Charging(s)') <= MaxPayments
    BY DEF Room
  <2>1. Charging(s)' \subseteq Charging(s)
    BY DEF Charging, Calm, Becomes
  <2>2. Cardinality(Charging(s)') <= Cardinality(Charging(s)) /\ Cardinality(Charging(s)') \in Nat
    BY <2>1, RoomKept DEF IInv
  <2>3. used' = used /\ used[s] + Cardinality(Charging(s)) <= MaxPayments
    BY DEF IInv, Room, Calm
  <2>4. used[s] \in Nat /\ Cardinality(Charging(s)) \in Nat /\ MaxPayments \in Nat
    BY ChargingFinite, CobrosAssumption DEF IInv, TypeOK
  <2> QED
    BY <2>2, <2>3, <2>4
<1>4. Numbered'
  BY DEF IInv, Numbered, Calm, Becomes
<1>5. Meet'
  <2> SUFFICES ASSUME NEW x \in Requests, NEW y \in Requests, x # y
               PROVE  /\ req'[x].about \cap req'[y].about \subseteq raced'
                      /\ req'[x].alone => req'[x].about \cap req'[y].about = {}
    BY DEF Meet
  <2>1. /\ req[x].about \cap req[y].about \subseteq raced
        /\ req[x].alone => req[x].about \cap req[y].about = {}
    BY DEF IInv, Meet
  <2>2. \A z \in Requests : /\ req'[z].about \subseteq req[z].about
                            /\ req'[z].alone => (req[z].alone \/ req'[z].about = {})
    BY DEF Calm, Becomes
  <2> QED
    BY <2>1, <2>2 DEF Calm
<1>6. \A x \in Requests \ {r} : SummedOf(x)' /\ AffordableOf(x)' /\ ScopeOf(req[x])'
  <2> TAKE x \in Requests \ {r}
  <2>1. Undisturbed(x)
    BY DEF Undisturbed, Calm, Becomes
  <2> QED
    BY <2>1, OthersGoOn DEF IInv, Summed, Affordable, Scope
<1>7. ScopeOf(req'[r])
  BY DEF Calm, Becomes
<1>8. Summed' /\ Affordable' /\ Scope'
  BY <1>6, <1>7 DEF Summed, Affordable, Scope
<1>9. VoidIsQuiet'
  BY DEF IInv, VoidIsQuiet, Calm, Becomes, Of
<1>10. OrderlySales'
  BY DEF IInv, OrderlySales, Calm
<1> QED
  BY <1>1, <1>2, <1>3, <1>4, <1>5, <1>8, <1>9, <1>10 DEF IInv

LEMMA FinishKeeps ==
  ASSUME IInv, NEW r \in Requests, Becomes(r, Idle),
         UNCHANGED <<history, paid, voided, used, raced>>
  PROVE  IInv'
<1>1. Calm(r, Idle)
  BY IdleType DEF Calm
<1>2. ScopeOf(Idle)
  BY IdleType DEF ScopeOf, InHand, Nothing
<1>3. SummedOf(r)' /\ AffordableOf(r)'
  BY IdleType DEF SummedOf, AffordableOf, Becomes
<1> QED
  BY <1>1, <1>2, <1>3, CalmStep

LEMMA UndoKeeps ==
  ASSUME IInv, NEW r \in Requests, NEW q, UndoOf(r, q),
         UNCHANGED <<history, paid, voided, used, raced>>
  PROVE  IInv'
<1>1. Calm(r, q)
  BY DEF UndoOf, Calm, SameWork, SameSales
<1>2. /\ req[r].about = {req[r].s} /\ req[r].rows = {} /\ req[r].new = {} /\ req[r].gone = {}
      /\ req[r].todo = {} /\ req[r].at # "idle" /\ \A s \in Sales : req[r].bill[s] = 0
  BY DEF IInv, Scope, ScopeOf, UndoOf
<1>3. ScopeOf(q)
  BY <1>2 DEF ScopeOf, InHand, UndoOf, SameWork, SameSales, Of
<1>4. SummedOf(r)'
  BY <1>2 DEF SummedOf, UndoOf, Becomes
<1>5. AffordableOf(r)'
  <2> SUFFICES ASSUME NEW s \in req'[r].about \ raced'
               PROVE  Total(Visible(r)', s) + req'[r].bill[s] <= Price[s]
    BY DEF AffordableOf
  <2>1. req'[r] = q /\ q.about = req[r].about /\ q.bill = req[r].bill /\ q.new = req[r].new
    BY DEF UndoOf, Becomes, SameWork, SameSales
  <2>2. Total(Visible(r), s) + req[r].bill[s] <= Price[s]
    BY <2>1 DEF IInv, Affordable, AffordableOf
  <2>3. Visible(r)' \subseteq Visible(r)
    BY <1>2, <2>1 DEF Visible
  <2>4. Visible(r) \subseteq Payments /\ IsFiniteSet(Visible(r)) /\ req[r] \in Request
    BY VisibleType DEF IInv
  <2>5. IsFiniteSet(Visible(r)') /\ Visible(r)' \subseteq Payments
    BY <2>3, <2>4, FS_Subset
  <2>6. Of(Visible(r)', s) \subseteq Of(Visible(r), s)
    BY <2>3 DEF Of
  <2>7. Total(Visible(r)', s) <= Total(Visible(r), s)
    BY <2>4, <2>5, <2>6, TotalLess
  <2>8. Total(Visible(r)', s) \in Nat /\ Total(Visible(r), s) \in Nat
    BY <2>4, <2>5, TotalCoins
  <2>9. s \in Sales /\ req[r].bill[s] \in Nat /\ Price[s] \in Nat
    BY <2>1, <2>4, CobrosAssumption DEF Request
  <2> QED
    BY <2>1, <2>2, <2>7, <2>8, <2>9
<1> QED
  BY <1>1, <1>3, <1>4, <1>5, CalmStep

LEMMA SumKeeps ==
  ASSUME IInv, NEW r \in Requests, NEW q, SumOf(r, q),
         UNCHANGED <<history, paid, voided, used, raced>>
  PROVE  IInv'
<1>1. Calm(r, q)
  BY DEF SumOf, Calm, SameWork, SameSales
<1>2. req'[r] = q /\ Visible(r)' = Visible(r)
  BY DEF SumOf, Becomes, SameWork, Visible
<1>3. ScopeOf(req[r]) /\ SummedOf(r) /\ AffordableOf(r)
  BY DEF IInv, Scope, Summed, Affordable
<1>4. ScopeOf(q)
  BY <1>3 DEF ScopeOf, InHand, SumOf, SameWork, SameSales
<1>5. SummedOf(r)'
  <2> SUFFICES ASSUME NEW s \in req'[r].about, Clean(r, s)'
               PROVE  /\ req'[r].at = "write" /\ req'[r].s = s => req'[r].sum = Total(Visible(r)', s)
                      /\ s \in req'[r].rows => req'[r].cache[s] = Total(Visible(r)', s)
    BY DEF SummedOf
  <2>1. s \in req[r].about /\ Clean(r, s)
    BY <1>2 DEF Clean, SumOf, SameWork, SameSales
  <2> QED
    BY <1>2, <1>3, <2>1 DEF SummedOf, SumOf, SameWork
<1>6. AffordableOf(r)'
  <2> SUFFICES ASSUME NEW s \in req'[r].about \ raced'
               PROVE  Total(Visible(r)', s) + req'[r].bill[s] <= Price[s]
    BY DEF AffordableOf
  <2> QED
    BY <1>2, <1>3 DEF AffordableOf, SumOf, SameWork, SameSales
<1> QED
  BY <1>1, <1>4, <1>5, <1>6, CalmStep

LEMMA WriteKeeps ==
  ASSUME IInv, NEW r \in Requests, NEW q, WriteOf(r, q),
         UNCHANGED <<history, paid, voided, used, raced>>
  PROVE  IInv'
<1>1. Calm(r, q)
  BY DEF WriteOf, Calm, SameWork, SameSales
<1>2. req'[r] = q /\ Visible(r)' = Visible(r)
  BY DEF WriteOf, Becomes, SameWork, Visible
<1>3. ScopeOf(req[r]) /\ SummedOf(r) /\ AffordableOf(r) /\ req[r] \in Request
  BY DEF IInv, Scope, Summed, Affordable, TypeOK
<1>4. ScopeOf(q)
  BY <1>3 DEF ScopeOf, InHand, WriteOf, SameWork, SameSales
<1>5. SummedOf(r)'
  <2> SUFFICES ASSUME NEW s \in req'[r].about, Clean(r, s)'
               PROVE  /\ req'[r].at = "write" /\ req'[r].s = s => req'[r].sum = Total(Visible(r)', s)
                      /\ s \in req'[r].rows => req'[r].cache[s] = Total(Visible(r)', s)
    BY DEF SummedOf
  <2>1. s \in req[r].about /\ Clean(r, s)
    BY <1>2 DEF Clean, WriteOf, SameWork, SameSales
  <2>2. q.at # "write"
    BY DEF WriteOf
  <2>3. s \in Sales /\ req[r].cache \in [Sales -> Nat]
    BY <1>3, <2>1 DEF Request
  <2>4. CASE s = req[r].s
    <3>1. q.cache[s] = req[r].sum
      BY <2>3, <2>4 DEF WriteOf, SameWork
    <3>2. req[r].sum = Total(Visible(r), s)
      BY <1>3, <2>1, <2>4 DEF SummedOf, WriteOf
    <3> QED
      BY <1>2, <2>2, <3>1, <3>2
  <2>5. CASE s # req[r].s
    <3>1. q.cache[s] = req[r].cache[s] /\ (s \in q.rows => s \in req[r].rows)
      BY <2>3, <2>5 DEF WriteOf, SameWork
    <3> QED
      BY <1>2, <1>3, <2>1, <2>2, <3>1 DEF SummedOf
  <2> QED
    BY <2>4, <2>5
<1>6. AffordableOf(r)'
  <2> SUFFICES ASSUME NEW s \in req'[r].about \ raced'
               PROVE  Total(Visible(r)', s) + req'[r].bill[s] <= Price[s]
    BY DEF AffordableOf
  <2> QED
    BY <1>2, <1>3 DEF AffordableOf, WriteOf, SameWork, SameSales
<1> QED
  BY <1>1, <1>4, <1>5, <1>6, CalmStep

LEMMA BeginKeeps ==
  ASSUME IInv, NEW r \in Requests, Begins(r)
  PROVE  IInv'
<1>1. PICK S \in SUBSET Sales, q \in Request :
        /\ Begin(r, S, q)
        /\ \/ Undoing(q) /\ S = {q.s}
           \/ ChargingAll(q, S)
  BY DEF Begins
<1> DEFINE b == req'[r]
<1>2. /\ req' \in [Requests -> Request]
      /\ req[r].at = "idle"
      /\ req'[r] = [q EXCEPT !.about = S, !.alone = (Others(r, S) = {})]
      /\ \A x \in Others(r, S) : req'[x] = [req[x] EXCEPT !.alone = FALSE]
      /\ \A x \in Requests \ {r} : x \notin Others(r, S) => req'[x] = req[x]
  BY <1>1, BeginFacts DEF IInv
<1>3. /\ b.about = S /\ (b.alone <=> Others(r, S) = {})
      /\ b.at = q.at /\ b.bill = q.bill /\ b.todo = q.todo /\ b.s = q.s
      /\ b.new = q.new /\ b.gone = q.gone /\ b.rows = q.rows
  BY <1>2 DEF Request
<1>4. /\ UNCHANGED <<history, paid, voided, used>>
      /\ raced' = raced \cup {s \in S : Others(r, {s}) # {}}
  BY <1>1 DEF Begin, tables
<1>5. b.new = {} /\ b.gone = {} /\ b.rows = {} /\ b.at \in {"insert", "delete", "clear"}
  BY <1>1, <1>3 DEF Undoing, ChargingAll
<1>6. \A x \in Requests \ {r} : Undisturbed(x) /\ (x \in Others(r, S) => ~req'[x].alone)
  <2> TAKE x \in Requests \ {r}
  <2>1. req[x] \in Request
    BY DEF IInv, TypeOK
  <2>2. raced \subseteq raced' /\ history' = history
    BY <1>4
  <2>3. CASE x \in Others(r, S)
    <3>1. req'[x] = [req[x] EXCEPT !.alone = FALSE]
      BY <1>2, <2>3
    <3> QED
      BY <2>1, <2>2, <3>1 DEF Request, Undisturbed
  <2>4. CASE x \notin Others(r, S)
    BY <1>2, <2>2, <2>4 DEF Undisturbed
  <2> QED
    BY <2>3, <2>4
<1> HIDE DEF b
<1>7. TypeOK'
  <2>1. raced' \subseteq Sales
    BY <1>4 DEF IInv, TypeOK
  <2> QED
    BY <1>2, <1>4, <2>1 DEF IInv, TypeOK
<1>8. Finite'
  <2>1. IsFiniteSet(history') /\ IsFiniteSet(req'[r].new)
    BY <1>4, <1>5, FS_EmptySet DEF IInv, Finite, b
  <2>2. \A x \in Requests \ {r} : IsFiniteSet(req'[x].new)
    BY <1>6 DEF IInv, Finite, Undisturbed
  <2> QED
    BY <2>1, <2>2 DEF Finite
<1>9. Room'
  <2> SUFFICES ASSUME NEW s \in Sales
               PROVE  used'[s] + Cardinality(Charging(s)') <= MaxPayments
    BY DEF Room
  <2>1. used' = used /\ used[s] \in Nat /\ MaxPayments \in Nat
        /\ IsFiniteSet(Charging(s)) /\ Cardinality(Charging(s)) \in Nat
    BY <1>4, ChargingFinite, CobrosAssumption DEF IInv, TypeOK
  <2>2. \A x \in Requests \ {r} : req'[x].todo = req[x].todo
    BY <1>6 DEF Undisturbed
  <2>3. CASE s \in b.todo
    <3>1. used[s] + Cardinality(Charging(s)) < MaxPayments
      BY <1>1, <1>3, <2>3 DEF Undoing, ChargingAll
    <3>2. Charging(s)' \subseteq Charging(s) \cup {r}
      BY <2>2 DEF Charging
    <3>3. /\ IsFiniteSet(Charging(s) \cup {r})
          /\ Cardinality(Charging(s) \cup {r}) <= Cardinality(Charging(s)) + 1
          /\ Cardinality(Charging(s) \cup {r}) \in Nat
      <4>1. /\ IsFiniteSet(Charging(s) \cup {r})
            /\ Cardinality(Charging(s) \cup {r}) =
                 IF r \in Charging(s) THEN Cardinality(Charging(s)) ELSE Cardinality(Charging(s)) + 1
        BY <2>1, FS_AddElement
      <4> QED
        BY <2>1, <4>1
    <3>4. /\ Cardinality(Charging(s)') <= Cardinality(Charging(s) \cup {r})
          /\ Cardinality(Charging(s)') \in Nat
      BY <3>2, <3>3, FS_Subset, FS_CardinalityType
    <3> QED
      BY <2>1, <3>1, <3>3, <3>4
  <2>4. CASE s \notin b.todo
    <3>1. Charging(s)' \subseteq Charging(s)
      BY <2>2, <2>4 DEF Charging, b
    <3>2. Cardinality(Charging(s)') <= Cardinality(Charging(s)) /\ Cardinality(Charging(s)') \in Nat
      BY <3>1, RoomKept DEF IInv
    <3>3. used[s] + Cardinality(Charging(s)) <= MaxPayments
      BY DEF IInv, Room
    <3> QED
      BY <2>1, <3>2, <3>3
  <2> QED
    BY <2>3, <2>4
<1>10. Numbered'
  BY <1>4, <1>5, <1>6 DEF IInv, Numbered, Undisturbed, b
<1>11. Meet'
  <2> SUFFICES ASSUME NEW x \in Requests, NEW y \in Requests, x # y
               PROVE  /\ req'[x].about \cap req'[y].about \subseteq raced'
                      /\ req'[x].alone => req'[x].about \cap req'[y].about = {}
    BY DEF Meet
  <2>1. /\ req[x].about \cap req[y].about \subseteq raced
        /\ req[x].alone => req[x].about \cap req[y].about = {}
    BY DEF IInv, Meet
  <2>2. ASSUME NEW z \in Requests \ {r}
        PROVE  /\ req'[z].about \cap S \subseteq raced'
               /\ b.alone \/ req'[z].alone => req'[z].about \cap S = {}
    <3>1. req'[z].about = req[z].about
      BY <1>6 DEF Undisturbed
    <3>2. \A s \in req[z].about \cap S : z \in Others(r, {s})
      BY DEF Others
    <3>3. req[z].about \cap S # {} => z \in Others(r, S) /\ ~req'[z].alone
      BY <1>6 DEF Others
    <3> QED
      BY <1>3, <1>4, <3>1, <3>2, <3>3
  <2>3. CASE x # r /\ y # r
    BY <1>4, <1>6, <2>1, <2>3 DEF Undisturbed
  <2>4. CASE x = r
    BY <1>3, <2>2, <2>4 DEF b
  <2>5. CASE y = r
    BY <1>3, <2>2, <2>5 DEF b
  <2> QED
    BY <2>3, <2>4, <2>5
<1>12. \A x \in Requests \ {r} : SummedOf(x)' /\ AffordableOf(x)' /\ ScopeOf(req[x])'
  BY <1>6, OthersGoOn DEF IInv, Summed, Affordable, Scope
<1>13. ScopeOf(b)
  BY <1>1, <1>3, <1>5 DEF ScopeOf, InHand, Undoing, ChargingAll, Nothing
<1>14. SummedOf(r)'
  BY <1>5 DEF SummedOf, b
<1>15. AffordableOf(r)'
  <2> SUFFICES ASSUME NEW s \in S \ raced'
               PROVE  Total(Visible(r)', s) + b.bill[s] <= Price[s]
    BY <1>3 DEF AffordableOf, b
  <2>1. Visible(r)' = history
    BY <1>4, <1>5 DEF Visible, b
  <2>2. s \in Sales /\ s \notin raced
    BY <1>4
  <2>3. paid[s] = Total(history, s) /\ Total(history, s) <= Price[s]
    BY <2>2 DEF IInv, OrderlySales
  <2>4. paid[s] \in Nat /\ Price[s] \in Nat
    BY <2>2, CobrosAssumption DEF IInv, TypeOK
  <2>5. (Undoing(q) /\ b.bill[s] = 0) \/ paid[s] + b.bill[s] <= Price[s]
    BY <1>1, <1>3, <2>2 DEF Undoing, ChargingAll, Nothing
  <2> QED
    BY <2>1, <2>3, <2>4, <2>5
<1>16. Summed' /\ Affordable' /\ Scope'
  BY <1>12, <1>13, <1>14, <1>15 DEF Summed, Affordable, Scope, b
<1>17. VoidIsQuiet'
  <2> SUFFICES ASSUME NEW s \in voided' \ raced', NEW x \in Requests
               PROVE  s \notin req'[x].todo /\ Of(req'[x].new, s) = {}
    BY DEF VoidIsQuiet, Of
  <2>1. s \in voided \ raced
    BY <1>4
  <2>2. CASE x = r
    BY <1>1, <1>3, <1>5, <2>1, <2>2 DEF Undoing, ChargingAll, Of, b
  <2>3. CASE x # r
    BY <1>6, <2>1, <2>3 DEF IInv, VoidIsQuiet, Undisturbed
  <2> QED
    BY <2>2, <2>3
<1>18. OrderlySales'
  <2> SUFFICES ASSUME NEW s \in Sales \ raced'
               PROVE  paid'[s] = Total(history', s) /\ Total(history', s) <= Price[s]
    BY DEF OrderlySales
  <2> QED
    BY <1>4 DEF IInv, OrderlySales
<1> QED
  BY <1>7, <1>8, <1>9, <1>10, <1>11, <1>16, <1>17, <1>18 DEF IInv

LEMMA InsertKeeps ==
  ASSUME IInv, NEW r \in Requests, NEW s \in Sales, NEW row, NEW q,
         InsertOf(r, s, row, q), UNCHANGED <<history, paid, voided, raced>>
  PROVE  IInv'
<1>1. ScopeOf(req[r]) /\ SummedOf(r) /\ AffordableOf(r) /\ req[r] \in Request
  BY DEF IInv, Scope, Summed, Affordable, TypeOK
<1>2. /\ req'[r] = q /\ \A x \in Requests \ {r} : req'[x] = req[x]
      /\ req[r].at = "insert" /\ s \in req[r].todo /\ s \in req[r].about
      /\ req[r].gone = {} /\ s \notin req[r].rows
  BY <1>1 DEF InsertOf, Becomes, ScopeOf
<1>3. used'[s] = used[s] + 1 /\ \A t \in Sales \ {s} : used'[t] = used[t]
  BY DEF InsertOf, IInv, TypeOK
<1>4. \A t \in Sales : used[t] \in Nat
  BY DEF IInv, TypeOK
<1>5. TypeOK'
  <2>1. used' \in [Sales -> 0..MaxPayments]
    BY <1>4, CobrosAssumption DEF InsertOf, IInv, TypeOK
  <2> QED
    BY <2>1 DEF IInv, TypeOK, InsertOf, Becomes
<1>6. Finite'
  <2>1. IsFiniteSet(req[r].new \cup {row})
    BY FS_AddElement DEF IInv, Finite
  <2>2. IsFiniteSet(q.new) /\ IsFiniteSet(history')
    BY <2>1 DEF InsertOf, IInv, Finite
  <2> QED
    BY <1>2, <2>2 DEF IInv, Finite
<1>7. Room'
  <2> SUFFICES ASSUME NEW t \in Sales
               PROVE  used'[t] + Cardinality(Charging(t)') <= MaxPayments
    BY DEF Room
  <2>1. /\ used[t] + Cardinality(Charging(t)) <= MaxPayments /\ MaxPayments \in Nat
        /\ IsFiniteSet(Charging(t)) /\ Cardinality(Charging(t)) \in Nat
    BY ChargingFinite, CobrosAssumption DEF IInv, Room
  <2>2. CASE t = s
    <3>1. Charging(t)' = Charging(t) \ {r} /\ r \in Charging(t)
      BY <1>2, <2>2 DEF Charging, InsertOf
    <3>2. Cardinality(Charging(t) \ {r}) = Cardinality(Charging(t)) - 1
      BY <2>1, <3>1, FS_RemoveElement
    <3> QED
      BY <1>3, <1>4, <2>1, <2>2, <3>1, <3>2
  <2>3. CASE t # s
    <3>1. Charging(t)' \subseteq Charging(t)
      BY <1>2, <2>3 DEF Charging, InsertOf
    <3>2. Cardinality(Charging(t)') <= Cardinality(Charging(t)) /\ Cardinality(Charging(t)') \in Nat
      BY <3>1, RoomKept DEF IInv
    <3> QED
      BY <1>3, <1>4, <2>1, <2>3, <3>2
  <2> QED
    BY <2>2, <2>3
<1>8. \A t \in Sales : used[t] <= used'[t] /\ used'[t] \in Nat
  BY <1>3, <1>4
<1>9. Numbered'
  <2>1. \A x \in Requests : req[x] \in Request
    BY DEF IInv, TypeOK
  <2>2. \A p \in Payments : p.s \in Sales /\ p.id \in Nat
    BY CobrosAssumption DEF Payments, Ids
  <2>3. history \subseteq Payments /\ \A x \in Requests : req[x].new \subseteq Payments
    BY <2>1 DEF IInv, TypeOK, Request
  <2>4. \A p \in history' : p.id <= used'[p.s]
    BY <1>4, <1>8, <2>2, <2>3 DEF IInv, Numbered
  <2>5. \A x \in Requests : \A p \in req[x].new : p.id <= used'[p.s]
    BY <1>4, <1>8, <2>2, <2>3 DEF IInv, Numbered
  <2>6. row.id <= used'[row.s]
    BY <1>3, <1>8 DEF InsertOf
  <2>7. \A p \in req'[r].new : p.id <= used'[p.s]
    BY <1>2, <2>5, <2>6 DEF InsertOf
  <2> QED
    BY <1>2, <2>4, <2>5, <2>7 DEF Numbered
<1>10. Meet'
  <2>1. \A x \in Requests : req'[x].about = req[x].about /\ req'[x].alone = req[x].alone
    BY <1>2 DEF InsertOf, SameSales
  <2> QED
    BY <2>1 DEF IInv, Meet
<1>11. \A x \in Requests \ {r} : SummedOf(x)' /\ AffordableOf(x)' /\ ScopeOf(req[x])'
  <2> TAKE x \in Requests \ {r}
  <2>1. Undisturbed(x)
    BY <1>2 DEF Undisturbed
  <2> QED
    BY <2>1, OthersGoOn DEF IInv, Summed, Affordable, Scope
<1>12. ScopeOf(q)
  <2>1. InHand(q) = {s} /\ InHand(req[r]) = {} /\ q.at = "sum"
    BY <1>2 DEF InsertOf, InHand
  <2>2. q.bill[s] = 0 /\ \A t \in Sales \ {s} : q.bill[t] = req[r].bill[t]
    BY <1>1 DEF InsertOf, Request
  <2>3. /\ q.todo = req[r].todo \ {s} /\ q.rows = req[r].rows /\ q.about = req[r].about
        /\ q.new = req[r].new \cup {row} /\ q.gone = {} /\ row.s = s
    BY <1>2 DEF InsertOf, SameSales
  <2>4. /\ q.todo \subseteq q.about /\ q.rows \subseteq q.about /\ InHand(q) \subseteq q.about
        /\ q.todo \cap (q.rows \cup InHand(q)) = {} /\ q.rows \cap InHand(q) = {}
    BY <1>1, <1>2, <2>1, <2>3 DEF ScopeOf
  <2>5. \A p \in q.new \cup q.gone : p.s \in q.rows \cup InHand(q)
    BY <1>1, <2>1, <2>3 DEF ScopeOf
  <2>6. \A t \in Sales : q.bill[t] # 0 => t \in q.todo
    BY <1>1, <2>2, <2>3 DEF ScopeOf
  <2> QED
    BY <2>1, <2>3, <2>4, <2>5, <2>6 DEF ScopeOf
<1>13. row \notin Visible(r) /\ Visible(r)' = Visible(r) \cup {row} /\ row.s = s
  <2>1. \A p \in history \cup req[r].new : p.id <= used[p.s]
    BY DEF IInv, Numbered
  <2>2. row \notin history \cup req[r].new
    BY <1>4, <2>1 DEF InsertOf
  <2> QED
    BY <1>2, <2>2 DEF Visible, InsertOf
<1>14. ASSUME NEW t, t # s
       PROVE  Total(Visible(r)', t) = Total(Visible(r), t)
  <2>1. Of(Visible(r)', t) = Of(Visible(r), t)
    BY <1>13, <1>14 DEF Of
  <2> QED
    BY <2>1, TotalSame
<1>15. SummedOf(r)'
  <2> SUFFICES ASSUME NEW t \in req'[r].about, Clean(r, t)'
               PROVE  /\ req'[r].at = "write" /\ req'[r].s = t => req'[r].sum = Total(Visible(r)', t)
                      /\ t \in req'[r].rows => req'[r].cache[t] = Total(Visible(r)', t)
    BY DEF SummedOf
  <2>1. t \in req[r].about /\ Clean(r, t)
    BY <1>2 DEF Clean, InsertOf, SameSales
  <2>2. req'[r].at # "write" /\ req'[r].rows = req[r].rows /\ req'[r].cache = req[r].cache
    BY <1>2 DEF InsertOf
  <2>3. t \in req[r].rows => req[r].cache[t] = Total(Visible(r), t) /\ t # s
    BY <1>1, <1>2, <2>1 DEF SummedOf
  <2> QED
    BY <1>14, <2>2, <2>3
<1>16. AffordableOf(r)'
  <2> SUFFICES ASSUME NEW t \in req'[r].about \ raced'
               PROVE  Total(Visible(r)', t) + req'[r].bill[t] <= Price[t]
    BY DEF AffordableOf
  <2>1. t \in req[r].about \ raced /\ t \in Sales
    BY <1>1, <1>2 DEF InsertOf, SameSales, Request
  <2>2. Total(Visible(r), t) + req[r].bill[t] <= Price[t]
    BY <1>1, <2>1 DEF AffordableOf
  <2>3. CASE t = s
    <3>1. Visible(r) \subseteq Payments /\ IsFiniteSet(Visible(r))
      BY VisibleType DEF IInv
    <3>2. row \in Payments /\ row.cents = req[r].bill[s]
      BY DEF InsertOf
    <3>3. Total(Visible(r)', s) = Total(Visible(r), s) + req[r].bill[s]
      BY <1>13, <3>1, <3>2, TotalMore
    <3>4. Total(Visible(r), s) \in Nat /\ req[r].bill[s] \in Nat
      BY <1>1, <3>1, TotalCoins DEF Request
    <3>5. req'[r].bill[s] = 0
      BY <1>1, <1>2 DEF InsertOf, Request
    <3> QED
      BY <2>2, <2>3, <3>3, <3>4, <3>5
  <2>4. CASE t # s
    <3>1. req'[r].bill[t] = req[r].bill[t]
      BY <1>1, <1>2, <2>1, <2>4 DEF InsertOf, Request
    <3> QED
      BY <1>14, <2>2, <2>4, <3>1
  <2> QED
    BY <2>3, <2>4
<1>17. Summed' /\ Affordable' /\ Scope'
  BY <1>2, <1>11, <1>12, <1>15, <1>16 DEF Summed, Affordable, Scope
<1>18. VoidIsQuiet'
  <2> SUFFICES ASSUME NEW t \in voided' \ raced', NEW x \in Requests
               PROVE  t \notin req'[x].todo /\ Of(req'[x].new, t) = {}
    BY DEF VoidIsQuiet, Of
  <2>1. t \in voided \ raced
    OBVIOUS
  <2>2. t \notin req[x].todo /\ Of(req[x].new, t) = {} /\ t # s
    BY <1>2, <2>1 DEF IInv, VoidIsQuiet
  <2>3. CASE x = r
    BY <1>2, <2>2, <2>3 DEF InsertOf, Of
  <2>4. CASE x # r
    BY <1>2, <2>2, <2>4
  <2> QED
    BY <2>3, <2>4
<1>19. OrderlySales'
  BY DEF IInv, OrderlySales
<1> QED
  BY <1>5, <1>6, <1>7, <1>9, <1>10, <1>17, <1>18, <1>19 DEF IInv

\* What a commit leaves: of a sale with its row written, the payments r saw and the cache
\* it carried; of any other, what there was.
LEMMA CommitFacts ==
  ASSUME IInv, NEW r \in Requests, Commit(r)
  PROVE  /\ Becomes(r, Idle) /\ UNCHANGED <<voided, used, raced>>
         /\ history' = Visible(r) /\ paid' \in [Sales -> Nat]
         /\ req[r].rows \subseteq req[r].about
         /\ \A s \in req[r].rows : s \in Sales /\ paid'[s] = req[r].cache[s]
         /\ \A s \in Sales \ req[r].rows : paid'[s] = paid[s]
         /\ \A s : s \notin req[r].rows => Of(history', s) = Of(history, s)
<1>1. Becomes(r, Idle)
  BY FinishFacts DEF IInv, Commit
<1>2. /\ UNCHANGED <<voided, used, raced>> /\ history' = Visible(r) /\ req[r].at = "commit"
      /\ paid' = [s \in Sales |-> IF s \in req[r].rows THEN req[r].cache[s] ELSE paid[s]]
  BY DEF Commit, At
<1>3. req[r].cache \in [Sales -> Nat] /\ paid \in [Sales -> Nat] /\ req[r].rows \subseteq Sales
  BY DEF IInv, TypeOK, Request
<1>4. /\ req[r].rows \subseteq req[r].about
      /\ \A p \in req[r].new \cup req[r].gone : p.s \in req[r].rows
  BY <1>2 DEF IInv, Scope, ScopeOf, InHand
<1>5. \A s : s \notin req[r].rows => Of(history', s) = Of(history, s)
  BY <1>2, <1>4 DEF Of, Visible
<1>6. paid' \in [Sales -> Nat]
  BY <1>2, <1>3
<1>7. /\ \A s \in req[r].rows : s \in Sales /\ paid'[s] = req[r].cache[s]
      /\ \A s \in Sales \ req[r].rows : paid'[s] = paid[s]
  BY <1>2, <1>3
<1> QED
  BY <1>1, <1>2, <1>4, <1>5, <1>6, <1>7

LEMMA CommitKeeps ==
  ASSUME IInv, NEW r \in Requests, Commit(r)
  PROVE  IInv'
<1>1. /\ Becomes(r, Idle) /\ UNCHANGED <<voided, used, raced>>
      /\ history' = Visible(r) /\ paid' \in [Sales -> Nat]
      /\ req[r].rows \subseteq req[r].about
      /\ \A s \in req[r].rows : s \in Sales /\ paid'[s] = req[r].cache[s]
      /\ \A s \in Sales \ req[r].rows : paid'[s] = paid[s]
      /\ \A s : s \notin req[r].rows => Of(history', s) = Of(history, s)
  BY CommitFacts
<1>2. Visible(r) \subseteq Payments /\ IsFiniteSet(Visible(r)) /\ req[r] \in Request
  BY VisibleType DEF IInv
<1>3. /\ req'[r] = Idle /\ Idle.about = {} /\ Idle.todo = {} /\ Idle.new = {}
      /\ \A x \in Requests \ {r} : req'[x] = req[x]
  BY <1>1, IdleType DEF Becomes
<1>4. TypeOK'
  BY <1>1, <1>2, IdleType DEF IInv, TypeOK, Becomes
<1>5. Finite'
  BY <1>1, <1>2, <1>3, FS_EmptySet DEF IInv, Finite
<1>6. Room'
  <2> SUFFICES ASSUME NEW s \in Sales
               PROVE  used'[s] + Cardinality(Charging(s)') <= MaxPayments
    BY DEF Room
  <2>1. Charging(s)' \subseteq Charging(s)
    BY <1>3 DEF Charging
  <2>2. Cardinality(Charging(s)') <= Cardinality(Charging(s)) /\ Cardinality(Charging(s)') \in Nat
    BY <2>1, RoomKept DEF IInv
  <2>3. used' = used /\ used[s] + Cardinality(Charging(s)) <= MaxPayments
    BY <1>1 DEF IInv, Room
  <2>4. used[s] \in Nat /\ Cardinality(Charging(s)) \in Nat /\ MaxPayments \in Nat
    BY ChargingFinite, CobrosAssumption DEF IInv, TypeOK
  <2> QED
    BY <2>2, <2>3, <2>4
<1>7. Numbered'
  BY <1>1, <1>3 DEF IInv, Numbered, Visible
<1>8. Meet'
  BY <1>1, <1>3 DEF IInv, Meet
<1>9. \A x \in Requests \ {r} : SummedOf(x)' /\ AffordableOf(x)' /\ ScopeOf(req[x])'
  <2> TAKE x \in Requests \ {r}
  <2>1. \A s \in req[x].about : Clean(x, s) => s \notin req[r].about
    BY DEF IInv, Meet, Clean
  <2>2. Undisturbed(x)
    BY <1>1, <1>3, <2>1 DEF Undisturbed
  <2> QED
    BY <2>2, OthersGoOn DEF IInv, Summed, Affordable, Scope
<1>10. ScopeOf(Idle)
  BY IdleType DEF ScopeOf, InHand, Nothing
<1>11. SummedOf(r)' /\ AffordableOf(r)'
  BY <1>3 DEF SummedOf, AffordableOf
<1>12. Summed' /\ Affordable' /\ Scope'
  BY <1>3, <1>9, <1>10, <1>11 DEF Summed, Affordable, Scope
<1>13. VoidIsQuiet'
  BY <1>1, <1>3 DEF IInv, VoidIsQuiet, Of
<1>14. OrderlySales'
  <2> SUFFICES ASSUME NEW s \in Sales \ raced'
               PROVE  paid'[s] = Total(history', s) /\ Total(history', s) <= Price[s]
    BY DEF OrderlySales
  <2>1. s \in Sales \ raced
    BY <1>1
  <2>2. CASE s \in req[r].rows
    <3>1. s \in req[r].about /\ Clean(r, s)
      BY <1>1, <2>1, <2>2 DEF Clean
    <3>2. req[r].cache[s] = Total(Visible(r), s)
      BY <2>2, <3>1 DEF IInv, Summed, SummedOf
    <3>3. Total(Visible(r), s) + req[r].bill[s] <= Price[s]
      BY <2>1, <3>1 DEF IInv, Affordable, AffordableOf
    <3>4. Total(Visible(r), s) \in Nat /\ req[r].bill[s] \in Nat /\ Price[s] \in Nat
      BY <1>2, TotalCoins, CobrosAssumption DEF Request
    <3> QED
      BY <1>1, <2>2, <3>2, <3>3, <3>4
  <2>3. CASE s \notin req[r].rows
    <3>1. paid[s] = Total(history, s) /\ Total(history, s) <= Price[s]
      BY <2>1 DEF IInv, OrderlySales
    <3>2. Total(history', s) = Total(history, s)
      BY <1>1, <2>3, TotalSame
    <3> QED
      BY <1>1, <2>1, <2>3, <3>1, <3>2
  <2> QED
    BY <2>2, <2>3
<1> QED
  BY <1>4, <1>5, <1>6, <1>7, <1>8, <1>12, <1>13, <1>14 DEF IInv

LEMMA VoidKeeps ==
  ASSUME IInv, NEW s \in Sales, VoidSale(s)
  PROVE  IInv'
<1>1. /\ UNCHANGED <<history, paid, used, req>> /\ voided' = voided \cup {s}
      /\ raced \subseteq raced' /\ raced' \subseteq raced \cup {s}
      /\ \A r \in Requests : s \in req[r].about => s \in raced'
  BY DEF VoidSale
<1>2. TypeOK' /\ Finite' /\ Numbered'
  BY <1>1 DEF IInv, TypeOK, Finite, Numbered
<1>3. Room'
  BY <1>1 DEF IInv, Room, Charging
<1>4. Meet'
  BY <1>1 DEF IInv, Meet
<1>5. \A x \in Requests : SummedOf(x)' /\ AffordableOf(x)' /\ ScopeOf(req[x])'
  <2> TAKE x \in Requests
  <2>1. Undisturbed(x)
    BY <1>1 DEF Undisturbed
  <2> QED
    BY <2>1, OthersGoOn DEF IInv, Summed, Affordable, Scope
<1>6. Summed' /\ Affordable' /\ Scope'
  BY <1>5 DEF Summed, Affordable, Scope
<1>7. VoidIsQuiet'
  <2> SUFFICES ASSUME NEW t \in voided' \ raced', NEW x \in Requests
               PROVE  t \notin req'[x].todo /\ Of(req'[x].new, t) = {}
    BY DEF VoidIsQuiet, Of
  <2>1. CASE t = s
    <3>1. s \notin req[x].about
      BY <1>1, <2>1
    <3>2. ScopeOf(req[x])
      BY DEF IInv, Scope
    <3> QED
      BY <1>1, <2>1, <3>1, <3>2 DEF ScopeOf, Of
  <2>2. CASE t # s
    BY <1>1, <2>2 DEF IInv, VoidIsQuiet
  <2> QED
    BY <2>1, <2>2
<1>8. OrderlySales'
  <2> SUFFICES ASSUME NEW t \in Sales \ raced'
               PROVE  paid'[t] = Total(history', t) /\ Total(history', t) <= Price[t]
    BY DEF OrderlySales
  <2> QED
    BY <1>1 DEF IInv, OrderlySales
<1> QED
  BY <1>2, <1>3, <1>4, <1>6, <1>7, <1>8 DEF IInv

LEMMA StutterKeeps ==
  ASSUME IInv, UNCHANGED vars
  PROVE  IInv'
<1>1. UNCHANGED <<history, paid, voided, used, raced, req>>
  BY DEF vars
<1>2. TypeOK' /\ Finite' /\ Numbered' /\ Meet' /\ VoidIsQuiet'
  BY <1>1 DEF IInv, TypeOK, Finite, Numbered, Meet, VoidIsQuiet, Of
<1>3. Room'
  BY <1>1 DEF IInv, Room, Charging
<1>4. \A x \in Requests : SummedOf(x)' /\ AffordableOf(x)' /\ ScopeOf(req[x])'
  <2> TAKE x \in Requests
  <2>1. Undisturbed(x)
    BY <1>1 DEF Undisturbed
  <2> QED
    BY <2>1, OthersGoOn DEF IInv, Summed, Affordable, Scope
<1>5. Summed' /\ Affordable' /\ Scope'
  BY <1>4 DEF Summed, Affordable, Scope
<1>6. OrderlySales'
  BY <1>1 DEF IInv, OrderlySales
<1> QED
  BY <1>2, <1>3, <1>5, <1>6 DEF IInv

---------------------------------------------------------------------------
(* The theorems.                                                           *)

LEMMA InitIInv == Init => IInv
<1> SUFFICES ASSUME Init PROVE IInv
  OBVIOUS
<1>1. history = {} /\ paid = Nothing /\ voided = {} /\ used = Nothing /\ raced = {}
  BY DEF Init
<1>2. req = [r \in Requests |-> Idle]
  BY DEF Init
<1>3. /\ \A r \in Requests : req[r] = Idle
      /\ \A s \in Sales : paid[s] = 0 /\ used[s] = 0
  BY <1>1, <1>2 DEF Nothing
<1>4. TypeOK
  <2>1. used \in [Sales -> 0..MaxPayments]
    BY <1>1, CobrosAssumption DEF Nothing
  <2> QED
    BY <1>1, <1>2, <2>1, IdleType DEF TypeOK
<1>5. Finite
  BY <1>1, <1>3, IdleType, FS_EmptySet DEF Finite
<1>6. Room
  <2>1. \A s \in Sales : Charging(s) = {}
    BY <1>3, IdleType DEF Charging
  <2>2. Cardinality({}) = 0
    BY FS_EmptySet
  <2> QED
    BY <1>3, <2>1, <2>2, CobrosAssumption DEF Room
<1>7. Numbered /\ Meet /\ VoidIsQuiet
  BY <1>1, <1>3, IdleType DEF Numbered, Meet, VoidIsQuiet
<1>8. Scope
  <2>1. ScopeOf(Idle)
    BY IdleType DEF ScopeOf, InHand, Nothing
  <2> QED
    BY <1>3, <2>1 DEF Scope
<1>9. Summed /\ Affordable
  BY <1>3, IdleType DEF Summed, SummedOf, Affordable, AffordableOf
<1>10. OrderlySales
  BY <1>1, <1>3, TotalNone, CobrosAssumption DEF OrderlySales
<1> QED
  BY <1>4, <1>5, <1>6, <1>7, <1>8, <1>9, <1>10 DEF IInv

LEMMA StepKeeps ==
  ASSUME IInv, NEW r \in Requests, Step(r)
  PROVE  IInv'
<1>1. CASE Insert(r)
  <2>1. PICK s \in Sales, row \in Payments, q \in Request : InsertOf(r, s, row, q)
    BY <1>1, InsertFacts DEF IInv
  <2>2. UNCHANGED <<history, paid, voided, raced>>
    BY <1>1 DEF Insert, tables
  <2> QED
    BY <2>1, <2>2, InsertKeeps
<1>2. CASE Delete(r) \/ Clear(r)
  <2>1. UNCHANGED <<history, paid, voided, used, raced>>
    BY <1>2 DEF Delete, Clear, tables
  <2>2. Becomes(r, Idle) \/ \E q \in Request : UndoOf(r, q)
    BY <1>2, UndoFacts DEF IInv
  <2> QED
    BY <2>1, <2>2, FinishKeeps, UndoKeeps
<1>3. CASE RecalcSum(r)
  <2>1. UNCHANGED <<history, paid, voided, used, raced>>
    BY <1>3 DEF RecalcSum, tables
  <2>2. PICK q \in Request : SumOf(r, q)
    BY <1>3, RecalcSumFacts DEF IInv
  <2> QED
    BY <2>1, <2>2, SumKeeps
<1>4. CASE RecalcWrite(r)
  <2>1. UNCHANGED <<history, paid, voided, used, raced>>
    BY <1>4 DEF RecalcWrite, tables
  <2>2. PICK q \in Request : WriteOf(r, q)
    BY <1>4, RecalcWriteFacts DEF IInv
  <2> QED
    BY <2>1, <2>2, WriteKeeps
<1>5. CASE Commit(r)
  BY <1>5, CommitKeeps
<1> QED
  BY <1>1, <1>2, <1>3, <1>4, <1>5 DEF Step

LEMMA NextIInv == IInv /\ [Next]_vars => IInv'
<1> SUFFICES ASSUME IInv, [Next]_vars PROVE IInv'
  OBVIOUS
<1>1. ASSUME NEW r \in Requests, Start(r) PROVE IInv'
  BY <1>1, StartBegins, BeginKeeps DEF IInv
<1>2. ASSUME NEW r \in Requests, Step(r) PROVE IInv'
  BY <1>2, StepKeeps
<1>3. ASSUME NEW r \in Requests, Abort(r) PROVE IInv'
  <2>1. Becomes(r, Idle) /\ UNCHANGED <<history, paid, voided, used, raced>>
    BY <1>3, FinishFacts DEF IInv, Abort, tables
  <2> QED
    BY <2>1, FinishKeeps
<1>4. ASSUME NEW s \in Sales, VoidSale(s) PROVE IInv'
  BY <1>4, VoidKeeps
<1>5. CASE UNCHANGED vars
  BY <1>5, StutterKeeps
<1> QED
  BY <1>1, <1>2, <1>3, <1>4, <1>5 DEF Next

LEMMA IInvAlways == Spec => []IInv
  BY InitIInv, NextIInv, PTL DEF Spec

\* The tables of the payments, their caches and the requests at work keep their types: no
\* payment is numbered beyond the bound, whatever requests begin together.
THEOREM CobrosTypeCorrect == Spec => []TypeOK
<1>1. IInv => TypeOK
  BY DEF IInv
<1> QED
  BY <1>1, IInvAlways, PTL

\* As long as no two requests have been at work on a sale at the same time, paid_cents is
\* the sum of its sale_payments and they are no more than the sale is worth.
THEOREM SalesStayOrderly == Spec => []OrderlySales
<1>1. IInv => OrderlySales
  BY DEF IInv
<1> QED
  BY <1>1, IInvAlways, PTL

\* A commit of a request that ran alone leaves the cache right whatever it was before, and
\* no commit charges a sale that was cancelled with nobody at work on it.
THEOREM CacheAlwaysHeals == Spec => CacheHeals
<1>1. IInv /\ [Next]_vars => [\A r \in Requests : Commit(r) =>
           /\ req[r].alone => \A s \in req[r].rows : paid'[s] = Total(history', s)
           /\ \A s \in voided \ raced : Of(req[r].new, s) = {}]_vars
  <2> SUFFICES ASSUME IInv, NEW r \in Requests, Commit(r)
               PROVE  /\ req[r].alone => \A s \in req[r].rows : paid'[s] = Total(history', s)
                      /\ \A s \in voided \ raced : Of(req[r].new, s) = {}
    OBVIOUS
  <2>1. /\ history' = Visible(r) /\ req[r].rows \subseteq req[r].about
        /\ \A s \in req[r].rows : paid'[s] = req[r].cache[s]
    BY CommitFacts
  <2>2. req[r].alone => \A s \in req[r].rows : req[r].cache[s] = Total(Visible(r), s)
    BY <2>1 DEF IInv, Summed, SummedOf, Clean
  <2>3. \A s \in voided \ raced : Of(req[r].new, s) = {}
    BY DEF IInv, VoidIsQuiet
  <2> QED
    BY <2>1, <2>2, <2>3
<1> QED
  BY <1>1, IInvAlways, PTL DEF Spec, CacheHeals

\* Whoever waits while it holds something that others wait for is at the row of a sale,
\* and if that something is a row, it is about several sales.
LEMMA HoldersWait ==
  ASSUME IInv, NEW x \in Requests, NEW y \in Requests, NEW z \in Requests,
         HeldBy(x, y), HeldBy(y, z)
  PROVE  /\ At(y, "write")
         /\ At(x, "write") => Several(y)
<1>1. ScopeOf(req[y]) /\ req[y] \in Request
  BY DEF IInv, Scope, TypeOK
<1>2. req[y].at \in {"write", "delete", "clear"}
  BY DEF HeldBy, At
<1>3. req[y].rows # {} \/ req[y].gone # {}
  BY DEF HeldBy, Of
<1>4. req[y].at = "write"
  BY <1>1, <1>2, <1>3 DEF ScopeOf
<1>5. req[y].s \in req[y].about /\ req[y].s \notin req[y].rows
  BY <1>1, <1>4 DEF ScopeOf, InHand
<1>6. ASSUME At(x, "write") PROVE Several(y)
  <2>1. req[x].s \in req[y].rows
    BY <1>6 DEF HeldBy, At
  <2>2. req[x].s \in req[y].about
    BY <1>1, <2>1 DEF ScopeOf
  <2> QED
    BY <1>5, <2>1, <2>2 DEF Several
<1> QED
  BY <1>4, <1>6 DEF At

\* Any requests that wait for one another contain selections of several sales that do:
\* the requests about a single sale are never what holds a deadlock together.
THEOREM OnlyBulksDeadlock == Spec => []OnlyBulkDeadlocks
<1>1. ASSUME IInv, NEW S \in SUBSET Requests, Deadlocked(S)
      PROVE  Deadlocked({r \in S : Several(r)})
  <2> DEFINE T == {r \in S : Several(r)}
  <2>1. \A x \in S : x \in Requests /\ \E y \in S : HeldBy(x, y)
    BY <1>1 DEF Deadlocked
  <2>2. T # {}
    <3>1. PICK x \in S : TRUE
      BY <1>1 DEF Deadlocked
    <3>2. PICK y \in S : HeldBy(x, y)
      BY <2>1
    <3>3. PICK z \in S : HeldBy(y, z)
      BY <2>1
    <3>4. PICK w \in S : HeldBy(z, w)
      BY <2>1
    <3>5. At(y, "write")
      BY <1>1, <2>1, <3>2, <3>3, HoldersWait
    <3>6. Several(z)
      BY <1>1, <2>1, <3>3, <3>4, <3>5, HoldersWait
    <3> QED
      BY <3>6
  <2>3. ASSUME NEW x \in T
        PROVE  \E y \in T : HeldBy(x, y)
    <3>1. PICK y \in S : HeldBy(x, y)
      BY <2>1
    <3>2. PICK z \in S : HeldBy(y, z)
      BY <2>1
    <3>3. At(x, "write")
      <4>1. ScopeOf(req[x])
        BY <1>1, <2>1 DEF IInv, Scope
      <4>2. req[x].at \in {"write", "delete", "clear"}
        BY <3>1 DEF HeldBy, At
      <4>3. \E s, t \in req[x].about : s # t
        BY <2>3 DEF Several
      <4> QED
        BY <4>1, <4>2, <4>3 DEF ScopeOf, At
    <3>4. Several(y)
      BY <1>1, <2>1, <3>1, <3>2, <3>3, HoldersWait
    <3> QED
      BY <3>1, <3>4
  <2> HIDE DEF T
  <2>4. Deadlocked(T)
    BY <2>2, <2>3 DEF Deadlocked
  <2> QED
    BY <2>4 DEF T
<1>2. IInv => OnlyBulkDeadlocks
  BY <1>1 DEF OnlyBulkDeadlocks
<1> QED
  BY <1>2, IInvAlways, PTL
=============================================================================
