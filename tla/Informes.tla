------------------------------ MODULE Informes ------------------------------
(***************************************************************************)
(* The queries behind the screens ("informes"), each an operator over the  *)
(* books: a query is one statement, so it reads one state.  A row of the   *)
(* result is a record, or a function over what the rows are keyed by.      *)
(*                                                                         *)
(* Every query is limited to one season, or to the organization where its  *)
(* text has no season.  A query may filter by "u", a user or Everyone.     *)
(***************************************************************************)
EXTENDS Libros

Everyone == "everyone"

ASSUME EveryoneAssumption == Everyone \notin Users     \* a filter that is not given

Mine(S, u) == IF u = Everyone THEN S ELSE S \cap By(u)
Count(S) == Cardinality(S)

SumOver(S, Field(_)) == MapThenSumSet(Field, S)

---------------------------------------------------------------------------
(* Money.                                                                  *)

ChargedIn(se) == OfSeason(se) \cap Charged

\* Mutant: only the current sellers are listed.
SettlementsReport_SellersOnly(se) ==
    {[seller |-> u,
      collected |-> PaidOf(ChargedIn(se) \cap By(u)),
      pending |-> DebtOf(ChargedIn(se) \cap By(u)),
      settled |-> settled[se][u]] : u \in Sellers(se)}

\* Every seller of the season, gone or not, and whoever has moved money in it.
SettlementsReport(se) ==
    LET rows == {u \in Users : \/ role[se][u] = "seller"
                               \/ ChargedIn(se) \cap By(u) # {}
                               \/ settled[se][u] > 0}
    IN {[seller |-> u,
         collected |-> PaidOf(ChargedIn(se) \cap By(u)),
         pending |-> DebtOf(ChargedIn(se) \cap By(u)),
         settled |-> settled[se][u]] : u \in rows}

SettlementBalance(row) == row.collected - row.settled

\* Mutant: what was settled is not subtracted.
AttentionSettlements_Collected(se) ==
    {[seller |-> u, balance |-> PaidOf(ChargedIn(se) \cap By(u)),
      collected |-> PaidOf(ChargedIn(se) \cap By(u)), settled |-> settled[se][u]] :
        u \in {x \in Users : PaidOf(ChargedIn(se) \cap By(x)) > 0}}

\* Who has a balance above zero.
AttentionSettlements(se) ==
    LET collected(u) == PaidOf(ChargedIn(se) \cap By(u))
        owing == {u \in Users : ChargedIn(se) \cap By(u) # {} /\ collected(u) - settled[se][u] > 0}
    IN {[seller |-> u, balance |-> collected(u) - settled[se][u],
         collected |-> collected(u), settled |-> settled[se][u]] : u \in owing}

\* Mutant: cancelled sales count as sold.
SeasonMoney_Voided(se) ==
    LET S == OfSeason(se) \ Comps IN
    [sold |-> AmountOf(S), collected |-> PaidOf(S), uncollected |-> DebtOf(S),
     salesUncollected |-> Count({s \in S : Debt(s) > 0})]

SeasonMoney(se) ==
    [sold |-> AmountOf(ChargedIn(se)),
     collected |-> PaidOf(ChargedIn(se)),
     uncollected |-> DebtOf(ChargedIn(se)),
     salesUncollected |-> Count({s \in ChargedIn(se) : Debt(s) > 0})]

SeasonSettled(se) == SumOver(Users, LAMBDA u : settled[se][u])

MyCollectedInFunction(u, f) == PaidOf(OfFunction(f) \cap By(u) \cap Charged)

\* The sales she has charged, whether or not she has handed the money over.
SellerDebtSources(u, se) ==
    {[sale |-> s, paid |-> Paid(s)] : s \in {x \in ChargedIn(se) \cap By(u) : Paid(x) > 0}}

SellerSeasonStats(u, se) ==
    LET S == ChargedIn(se) \cap By(u) IN
    [paidSales |-> Count({s \in S : Paid(s) > 0}),
     ticketsSold |-> QuantityOf(S),
     uncollected |-> DebtOf(S),
     everPaid |-> \E s \in S : charges[s] # <<>>]     \* the sentinel date of "never"

\* Sales with a balance, of the whole organization whatever the season.
CountPendingSales(u) == Count({s \in Mine(Charged, u) : Debt(s) > 0})

\* What a seller has left to do: charge it, or share the link of a sale without
\* email while the function is to come.  The sales with money come first.
MyPendingSales(u, max) ==
    LET owed == {s \in By(u) \cap Charged : Debt(s) > 0}
        shared == {s \in (By(u) \cap Charged) \ owed :
                     s \notin Addressed /\ Future(FunctionOf[s])}
        Older(x, s) == made[x] < made[s] \/ (made[x] = made[s] /\ x < s)
        First(S, k) == {s \in S : Count({x \in S : Older(x, s)}) < k}
    IN First(owed, max) \cup First(shared, max - Count(owed))

---------------------------------------------------------------------------
(* Seats.                                                                  *)

\* Quotas of the sellers who are still in the season of the function.
Assigned(f) == QuotaOf(f, Sellers(SeasonOf[f]))

EnteredIn(f) == {t \in checkins : FunctionOf[SaleOf[t]] = f}

\* One row per function of the season.
FunctionsSummary(se) ==
    [f \in FunctionsOf(se) |->
       [capacity |-> capacity[f],
        price |-> price[f],
        sold |-> Count(LiveTickets(OfFunction(f))),
        collected |-> PaidOf(OfFunction(f) \cap Charged),
        assigned |-> Assigned(f),
        comps |-> Count(LiveTickets(OfFunction(f) \cap Comps)),
        entered |-> Count(EnteredIn(f))]]

\* The same counts for the list of functions, without any money.
ListFunctions(se) ==
    [f \in FunctionsOf(se) |->
       [sold |-> Count(LiveTickets(OfFunction(f))),
        entered |-> Count(EnteredIn(f)),
        assigned |-> Assigned(f),
        comps |-> Count(LiveTickets(OfFunction(f) \cap Comps)),
        sellers |-> Count({SellerOf[s] : s \in OfFunction(f) \ voided})]]

\* Mutant: cancelled tickets of a live sale are listed.
AttendanceBySale_Void(f) ==
    [s \in {x \in OfFunction(f) \ voided : TicketsOf(x) # {}} |->
       [tickets |-> TicketsOf(s), entered |-> TicketsOf(s) \cap checkins]]

\* The live tickets of the function with their check-in, grouped by sale.
AttendanceBySale(f) ==
    [s \in {x \in OfFunction(f) \ voided : LiveTickets({x}) # {}} |->
       [tickets |-> LiveTickets({s}), entered |-> LiveTickets({s}) \cap checkins]]

\* Tickets sold on each day from "since" on.
SalesTimeline(se, since) ==
    [d \in since..MaxTime |-> Count(LiveTickets({s \in OfSeason(se) \ voided : made[s] = d}))]

FunctionAllocationBoard(f) ==
    [u \in Sellers(SeasonOf[f]) |->
       [assigned |-> quota[f][u], sold |-> Count(LiveTickets((By(u) \cap OfFunction(f)) \ Comps))]]

\* The rows of a person, a seller of this season or not.
MyAllocations(u) ==
    [f \in {x \in Functions : quota[x][u] > 0} |->
       [assigned |-> quota[f][u], sold |-> Count(LiveTickets((By(u) \cap OfFunction(f)) \ Comps))]]

\* Functions that have not begun, with seats nobody may sell.
AttentionUnassigned(se) ==
    {[function |-> f, missing |-> capacity[f] - Assigned(f)] :
        f \in {x \in FunctionsOf(se) : Future(x) /\ capacity[x] > Assigned(x)}}

SeasonsOverview(se) ==
    LET F == FunctionsOf(se)  next == {f \in F : start[f] > now - Grace} IN
    [functions |-> Count(F),
     capacity |-> SumOver(F, LAMBDA f : capacity[f]),
     sold |-> Count(LiveTickets(OfSeason(se))),
     collected |-> PaidOf(ChargedIn(se)),
     assigned |-> SumOver(F, Assigned),
     sellers |-> Count({SellerOf[s] : s \in OfSeason(se) \ voided}),
     next |-> IF next = {} THEN -1 ELSE Min({start[f] : f \in next})]

---------------------------------------------------------------------------
(* People.                                                                 *)

Members(se) == {u \in Users : role[se][u] # "none"}

\* The whole team of a season, those who left included.
TeamForSeason(se) ==
    [u \in Members(se) |->
       [role |-> role[se][u],
        sold |-> Count(LiveTickets((By(u) \cap OfSeason(se)) \ Comps)),
        assigned |-> SumOver(FunctionsOf(se), LAMBDA f : quota[f][u]),
        balance |-> PaidOf(ChargedIn(se) \cap By(u)) - settled[se][u]]]

CountMembershipsOfUser(u) == Count({se \in Seasons : u \in Members(se)})

\* Members of another season who are not of this one.
FormerMembers(se) == {u \in Users \ Members(se) : CountMembershipsOfUser(u) > 0}

SeasonTeamSummary(se) ==
    [active |-> Count({u \in Members(se) \ left[se] : u \in logged}),
     pending |-> Count({u \in Members(se) \ left[se] : u \notin logged}),
     leftChoir |-> Count(left[se]),
     total |-> Count(Members(se))]

\* Members who have never entered the app.
AttentionPendingInvites(se) == {u \in Members(se) \ left[se] : u \notin logged}
=============================================================================
