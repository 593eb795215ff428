------------------------------- MODULE Libros -------------------------------
(***************************************************************************)
(* The books ("libros") the screens and the mails read: seasons and their  *)
(* teams, functions, quotas, sales with their tickets, payments and        *)
(* check-ins, and settlements, of one organization.                        *)
(*                                                                         *)
(* A writer is one atomic step here: how its statements interleave with    *)
(* those of other writers is the subject of Cupos, Puerta, Cobros and      *)
(* Temporadas.  Three outcomes of those races that the readers can see are *)
(* kept: a ticket can be cancelled under a check-in and a function edited  *)
(* after it was looked at, which take two steps for that, and a removal    *)
(* can miss a first sale.  A fourth, a paid_cents that is not the sum of   *)
(* the payments, is left to Cobros.                                        *)
(*                                                                         *)
(* What never changes of a row is a constant: the sales that may be made,  *)
(* each with its function, seller and tickets.                             *)
(***************************************************************************)
EXTENDS Integers, FiniteSets, FiniteSetsExt, Sequences, SequencesExt

CONSTANTS
    Seasons, ActiveSeason,
    Users,
    Functions, SeasonOf,
    Sales,          \* ids, handed out in order
    FunctionOf, SellerOf,
    Comps,          \* complimentary sales (is_comp)
    Addressed,      \* sales whose buyer left an email
    Tickets, SaleOf,
    FirstTeam, FirstStart, FirstCapacity, FirstPrice, FirstQuota,             \* the books
    FirstHour, FirstSales, FirstCharges,                                      \* at the start
    Edits,          \* bound: what PATCH /functions is asked to write
    Grace,          \* the hours a function that has begun is still current
    MaxTime,        \* bound: the clock
    MaxCents,       \* bound: the amount of one payment or settlement
    MaxWrites       \* bound: writes to the books in a behaviour

ASSUME LibrosAssumption ==
    /\ ActiveSeason \in Seasons
    /\ SeasonOf \in [Functions -> Seasons]
    /\ Sales \subseteq Nat
    /\ FunctionOf \in [Sales -> Functions]
    /\ SellerOf \in [Sales -> Users]
    /\ Comps \subseteq Sales
    /\ Addressed \subseteq Sales
    /\ SaleOf \in [Tickets -> Sales]
    /\ FirstTeam \in [Seasons -> [Users -> {"admin", "seller", "door", "none"}]]
    /\ FirstQuota \in [Functions -> [Users -> Nat]]
    /\ FirstStart \in [Functions -> 0..MaxTime] /\ FirstHour \in 0..MaxTime
    /\ FirstCapacity \in [Functions -> Nat \ {0}] /\ FirstPrice \in [Functions -> Nat]
    /\ Edits \subseteq [function : Functions, start : 0..MaxTime, capacity : Nat \ {0}, price : Nat]
    /\ FirstSales \subseteq Sales /\ FirstCharges \in [Sales -> Seq(0..MaxCents)]
    /\ \A s \in Sales \ FirstSales : FirstCharges[s] = <<>>
    /\ IsFiniteSet(Seasons) /\ IsFiniteSet(Users) /\ IsFiniteSet(Functions) /\ IsFiniteSet(FirstSales)
    /\ \A s \in Sales : IsFiniteSet({t \in Tickets : SaleOf[t] = s})
    /\ Grace \in Nat /\ MaxTime \in Nat /\ MaxCents \in Nat /\ MaxWrites \in Nat

VARIABLES
    role,      \* role[se][u]: the row of season_members, "none" without one
    left,      \* left[se]: those of them with left_at
    logged,    \* users with last_login_at
    start,     \* start[f]: functions.starts_at
    capacity,  \* capacity[f]: functions.capacity
    price,     \* price[f]: functions.price_cents
    editing,   \* what a PATCH has found it may write and not written yet
    now,       \* the clock
    quota,     \* quota[f][u]: allocations.quantity, 0 without a row
    sold,      \* the rows of sales
    made,      \* made[s]: their created_at
    worth,     \* worth[s]: their amount_cents, the price of the day they were made
    voided,    \* those with voided_at
    ticket,    \* ticket[t]: tickets.status, "none" before the sale
    arriving,  \* tickets a check-in has read as good and not inserted yet
    checkins,  \* tickets with a row in checkins
    charges,   \* charges[s]: the amounts of its rows in sale_payments
    settled,   \* settled[se][u]: the sum of her settlements
    writes     \* writes so far

team == <<role, left, logged>>
agenda == <<start, capacity, price, editing, now, quota>>
desk == <<sold, made, worth, voided, ticket, arriving, checkins>>
money == <<charges, settled>>
books == <<team, agenda, desk, money, writes>>

Roles == {"admin", "seller", "door"}

TicketsOf(s) == {t \in Tickets : SaleOf[t] = s}
Quantity(s) == Cardinality(TicketsOf(s))          \* sales.quantity: a voided ticket does not lower it
\* domain.SaleAmount: nothing for a complimentary sale.
SaleAmount(s, cents) == IF s \in Comps THEN 0 ELSE cents * Quantity(s)
Amount(s) == worth[s]                             \* sales.amount_cents
Plus(a, b) == a + b
Paid(s) == FoldLeft(Plus, 0, charges[s])          \* sales.paid_cents
Debt(s) == Amount(s) - Paid(s)

FirstWorth == [s \in Sales |-> IF s \in FirstSales THEN SaleAmount(s, FirstPrice[FunctionOf[s]]) ELSE 0]

\* The books at the start: no sale charged above its worth.
ASSUME FirstBooksAssumption == \A s \in Sales : FoldLeft(Plus, 0, FirstCharges[s]) <= FirstWorth[s]

\* RecalcSalePayment: a sale that is worth nothing is never "paid".
IsPaid(s) == Paid(s) >= Amount(s) /\ Paid(s) > 0

Alive(t) == ticket[t] \in {"issued", "checked_in"}   \* status <> 'void' of a row that exists
LiveTickets(S) == {t \in Tickets : SaleOf[t] \in S /\ Alive(t)}
OfSeason(se) == {s \in sold : SeasonOf[FunctionOf[s]] = se}
OfFunction(f) == {s \in sold : FunctionOf[s] = f}
By(u) == {s \in sold : SellerOf[s] = u}
Charged == sold \ (voided \cup Comps)              \* NOT is_comp AND voided_at IS NULL
FunctionsOf(se) == {f \in Functions : SeasonOf[f] = se}

\* season_members with role 'seller' and without left_at
Sellers(se) == {u \in Users : role[se][u] = "seller" /\ u \notin left[se]}

PaidOf(S) == MapThenSumSet(Paid, S)
DebtOf(S) == MapThenSumSet(Debt, S)
AmountOf(S) == MapThenSumSet(Amount, S)
QuantityOf(S) == MapThenSumSet(Quantity, S)
QuotaOf(f, U) == MapThenSumSet(LAMBDA u : quota[f][u], U)

\* No hour is further in the past than the grace of a function that has begun.
Passed(f) == start[f] < now - Grace
Future(f) == start[f] > now

Init ==
    /\ role = FirstTeam
    /\ left = [se \in Seasons |-> {}]
    /\ logged = {}
    /\ start = FirstStart /\ capacity = FirstCapacity /\ price = FirstPrice /\ editing = {}
    /\ now = FirstHour
    /\ quota = FirstQuota
    /\ sold = FirstSales
    /\ made = [s \in Sales |-> 0] /\ worth = FirstWorth
    /\ voided = {}
    /\ ticket = [t \in Tickets |-> IF SaleOf[t] \in FirstSales THEN "issued" ELSE "none"]
    /\ arriving = {} /\ checkins = {}
    /\ charges = FirstCharges
    /\ settled = [se \in Seasons |-> [u \in Users |-> 0]]
    /\ writes = 0

---------------------------------------------------------------------------
(* Writers.                                                                *)

Write == writes < MaxWrites /\ writes' = writes + 1

\* handleCreateSale: room in the function, and for a seller her quota of it.  The role
\* is that of the session, of the season in course, whichever the function is of.
MaySell(s) ==
    LET f == FunctionOf[s]  u == SellerOf[s] IN
    /\ Cardinality(LiveTickets(OfFunction(f))) + Quantity(s) <= capacity[f]
    /\ u \notin left[ActiveSeason]
    /\ \/ role[ActiveSeason][u] = "admin"
       \/ /\ role[ActiveSeason][u] = "seller" /\ s \notin Comps
          /\ Cardinality(LiveTickets((By(u) \cap OfFunction(f)) \ Comps)) + Quantity(s) <= quota[f][u]

\* The next id, worth what the function costs today.
CreateSale(s) ==
    /\ sold # Sales /\ s = Min(Sales \ sold)
    /\ MaySell(s)
    /\ sold' = sold \cup {s}
    /\ made' = [made EXCEPT ![s] = now]
    /\ worth' = [worth EXCEPT ![s] = SaleAmount(s, price[FunctionOf[s]])]
    /\ ticket' = [t \in Tickets |-> IF SaleOf[t] = s THEN "issued" ELSE ticket[t]]
    /\ Write /\ UNCHANGED <<team, agenda, voided, arriving, checkins, money>>

\* VoidTicket, of a ticket nobody has entered with.
VoidTicket(t) ==
    /\ ticket[t] = "issued"
    /\ ticket' = [ticket EXCEPT ![t] = "void"]
    /\ Write /\ UNCHANGED <<team, agenda, sold, made, worth, voided, arriving, checkins, money>>

\* handleVoidSale: the sale and every ticket of it, unless somebody has entered.
\* Its payments stay.
VoidSale(s) ==
    /\ s \in sold \ voided
    /\ \A t \in TicketsOf(s) : ticket[t] # "checked_in"
    /\ voided' = voided \cup {s}
    /\ ticket' = [t \in Tickets |-> IF SaleOf[t] = s THEN "void" ELSE ticket[t]]
    /\ Write /\ UNCHANGED <<team, agenda, sold, made, worth, arriving, checkins, money>>

\* GetTicketByCode and GetSale: the ticket is good.
Arrive(t) ==
    /\ ticket[t] = "issued" /\ t \notin checkins \cup arriving
    /\ arriving' = arriving \cup {t}
    /\ Write /\ UNCHANGED <<team, agenda, sold, made, worth, voided, ticket, checkins, money>>

\* InsertCheckin and MarkTicketCheckedIn, which marks only a ticket still issued.
InsertCheckin(t) ==
    /\ t \in arriving
    /\ arriving' = arriving \ {t}
    /\ checkins' = checkins \cup {t}
    /\ ticket' = IF ticket[t] = "issued" THEN [ticket EXCEPT ![t] = "checked_in"] ELSE ticket
    /\ Write /\ UNCHANGED <<team, agenda, sold, made, worth, voided, money>>

\* handleCreateSalePayment, handleUpdateSalePayment to "paid", one sale of a bulk.
CreateSalePayment(s, c) ==
    /\ s \in Charged /\ c \in 1..Debt(s)
    /\ charges' = [charges EXCEPT ![s] = Append(@, c)]
    /\ Write /\ UNCHANGED <<team, agenda, desk, settled>>

\* DELETE of one payment: the sale may be void by then.
DeleteSalePayment(s, i) ==
    /\ i \in DOMAIN charges[s]
    /\ charges' = [charges EXCEPT ![s] = RemoveAt(@, i)]
    /\ Write /\ UNCHANGED <<team, agenda, desk, settled>>

\* handleUpdateSalePayment back to "pending": every payment of the sale goes.
DeleteSalePayments(s) ==
    /\ s \in Charged /\ charges[s] # <<>>
    /\ charges' = [charges EXCEPT ![s] = <<>>]
    /\ Write /\ UNCHANGED <<team, agenda, desk, settled>>

\* handleCreateSettlement: any amount above zero, whatever the balance is.
CreateSettlement(se, u, c) ==
    /\ settled' = [settled EXCEPT ![se][u] = @ + c]
    /\ Write /\ UNCHANGED <<team, agenda, desk, charges>>

Joins(se, u, r) ==
    /\ role' = [role EXCEPT ![se][u] = r]
    /\ left' = [left EXCEPT ![se] = @ \ {u}]

\* handleAddMember: a new member, one who comes back, or another role for one who is there.
UpsertMembership(se, u, r) ==
    /\ Joins(se, u, r)
    /\ Write /\ UNCHANGED <<logged, agenda, desk, money>>

NoQuota(u) == [f \in Functions |-> [quota[f] EXCEPT ![u] = 0]]

\* PATCH /users, by a: her part in the season in course.  Whoever is no longer a seller
\* of it loses her quotas, and nobody of the direction takes herself out of it.
UpdateUser(a, u, r, stays) ==
    /\ role[ActiveSeason][a] = "admin" /\ a \notin left[ActiveSeason]
    /\ a = u => stays /\ r = "admin"
    /\ IF stays THEN Joins(ActiveSeason, u, r)
       ELSE /\ left' = [left EXCEPT ![ActiveSeason] =
                           IF role[ActiveSeason][u] = "none" THEN @ ELSE @ \cup {u}]
            /\ UNCHANGED role
    /\ quota' = IF stays /\ r = "seller" THEN quota ELSE NoQuota(u)
    /\ Write /\ UNCHANGED <<logged, start, capacity, price, editing, now, desk, money>>

\* handleRemoveMember: she leaves if she has sales in the season, and otherwise
\* her row goes; her quotas are dropped.  Not the last of the direction.  The row
\* goes too if her first sales have come after they were counted, just now.
RemoveMember(se, u) ==
    /\ role[se][u] # "none"
    /\ role[se][u] = "admin" => \E x \in Users \ {u} : role[se][x] = "admin" /\ x \notin left[se]
    /\ \/ /\ By(u) \cap OfSeason(se) # {}
          /\ left' = [left EXCEPT ![se] = @ \cup {u}] /\ UNCHANGED role
       \/ /\ \A s \in By(u) \cap OfSeason(se) : made[s] = now
          /\ role' = [role EXCEPT ![se][u] = "none"]
          /\ left' = [left EXCEPT ![se] = @ \ {u}]
    /\ quota' = NoQuota(u)
    /\ Write /\ UNCHANGED <<logged, start, capacity, price, editing, now, desk, money>>

\* TouchUserLogin
Login(u) ==
    /\ u \notin logged
    /\ logged' = logged \cup {u}
    /\ Write /\ UNCHANGED <<role, left, agenda, desk, money>>

\* handlePutAllocations, of one seller: never below what she has sold, nor the
\* total above the capacity, nor for a function that is over.
UpsertAllocation(f, u, n) ==
    LET se == SeasonOf[f] IN
    /\ ~Passed(f) /\ u \in Sellers(se)
    /\ n >= Cardinality(LiveTickets((By(u) \cap OfFunction(f)) \ Comps))
    /\ QuotaOf(f, Sellers(se) \ {u}) + n <= capacity[f]
    /\ quota' = [quota EXCEPT ![f][u] = n]
    /\ Write /\ UNCHANGED <<team, start, capacity, price, editing, now, desk, money>>

\* handleUpdateFunction looks: not once somebody has entered, nor to less seats than
\* there are tickets or quotas.
EditFunction(e) ==
    LET f == e.function IN
    /\ e \notin editing /\ \A t \in checkins : FunctionOf[SaleOf[t]] # f
    /\ e.capacity < capacity[f] =>
          /\ Cardinality(LiveTickets(OfFunction(f))) <= e.capacity
          /\ QuotaOf(f, Sellers(SeasonOf[f])) <= e.capacity
    /\ editing' = editing \cup {e}
    /\ Write /\ UNCHANGED <<team, start, capacity, price, now, quota, desk, money>>

\* And writes, whatever has been sold since.
UpdateFunction(e) ==
    LET f == e.function IN
    /\ e \in editing /\ editing' = editing \ {e}
    /\ start' = [start EXCEPT ![f] = e.start]
    /\ capacity' = [capacity EXCEPT ![f] = e.capacity]
    /\ price' = [price EXCEPT ![f] = e.price]
    /\ Write /\ UNCHANGED <<team, now, quota, desk, money>>

Tick ==
    /\ now < MaxTime
    /\ now' = now + 1
    /\ Write /\ UNCHANGED <<team, start, capacity, price, editing, quota, desk, money>>

Writer ==
    \/ \E s \in Sales : CreateSale(s) \/ VoidSale(s) \/ DeleteSalePayments(s)
    \/ \E s \in Sales, c \in 1..MaxCents : CreateSalePayment(s, c) \/ DeleteSalePayment(s, c)
    \/ \E t \in Tickets : VoidTicket(t) \/ Arrive(t) \/ InsertCheckin(t)
    \/ \E se \in Seasons, u \in Users :
          \/ RemoveMember(se, u)
          \/ \E c \in 1..MaxCents : CreateSettlement(se, u, c)
          \/ \E r \in Roles : UpsertMembership(se, u, r)
    \/ \E u \in Users : Login(u)
    \/ \E a, u \in Users, r \in Roles, stays \in BOOLEAN : UpdateUser(a, u, r, stays)
    \/ \E f \in Functions, u \in Users : \E n \in 0..capacity[f] : UpsertAllocation(f, u, n)
    \/ \E e \in Edits : EditFunction(e) \/ UpdateFunction(e)
    \/ Tick

---------------------------------------------------------------------------
\* The books keep their shape: a ticket exists with its sale, whoever left has a row,
\* and no sale is charged more than it is worth nor less than nothing, whichever
\* of its payments are deleted.
TypeOK ==
    /\ role \in [Seasons -> [Users -> Roles \cup {"none"}]]
    /\ left \in [Seasons -> SUBSET Users]
    /\ \A se \in Seasons : \A u \in left[se] : role[se][u] # "none"
    /\ logged \subseteq Users
    /\ start \in [Functions -> 0..MaxTime] /\ now \in 0..MaxTime
    /\ capacity \in [Functions -> Nat \ {0}] /\ price \in [Functions -> Nat]
    /\ editing \subseteq Edits
    /\ quota \in [Functions -> [Users -> Nat]]
    /\ sold \subseteq Sales /\ voided \subseteq sold
    /\ made \in [Sales -> 0..MaxTime] /\ worth \in [Sales -> Nat]
    /\ \A s \in Sales \ sold : worth[s] = 0
    /\ ticket \in [Tickets -> {"none", "issued", "checked_in", "void"}]
    /\ \A t \in Tickets : ticket[t] = "none" <=> SaleOf[t] \notin sold
    /\ arriving \subseteq Tickets /\ checkins \subseteq Tickets
    /\ charges \in [Sales -> Seq(0..MaxCents)]
    /\ \A s \in Sales : Paid(s) \in 0..Amount(s)
    /\ settled \in [Seasons -> [Users -> Nat]]
    /\ writes \in 0..MaxWrites
=============================================================================
