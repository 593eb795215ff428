----------------------------- MODULE Pantallas ------------------------------
(***************************************************************************)
(* The screens ("pantallas") that put the queries together, and what their *)
(* numbers owe each other.  A screen is an operator over the books; its    *)
(* queries read one state here, because it is what the screens say of the  *)
(* same books that is compared.  Avisos looks at reads that interleave.    *)
(***************************************************************************)
EXTENDS Listado

CONSTANTS
    HomeToDoMax,        \* homeToDoMax, 50 in the program
    Low, Gap            \* asistenciaBaja and asistenciaBrecha, 60 and 15

ASSUME PantallasAssumption == HomeToDoMax \in Nat /\ Low \in 0..100 /\ Gap \in 0..100

---------------------------------------------------------------------------
(* Settlements.                                                            *)

\* handleSettlementsReport: the direction sees every row, anybody else her own.
SettlementsScreen(u, se) ==
    {[seller |-> r.seller, balance |-> SettlementBalance(r)] :
        r \in {x \in SettlementsReport(se) : role[ActiveSeason][u] = "admin" \/ x.seller = u}}

\* sellerDetail: not found for somebody without a row in the report.
SellerDetail(u, se) ==
    {[balance |-> SettlementBalance(r), rows |-> SellerDebtSources(u, se),
      stats |-> SellerSeasonStats(u, se)] :
        r \in {x \in SettlementsReport(se) : x.seller = u}}

---------------------------------------------------------------------------
(* Home.                                                                   *)

\* attentionAlerts, in the order of urgency of their kinds.
AttentionAlerts(se) ==
    [settlement |-> AttentionSettlements(se),
     allocation |-> AttentionUnassigned(se),
     invite |-> AttentionPendingInvites(se)]

First(F) == CHOOSE f \in F : \A x \in F : start[f] <= start[x]
Latest(F) == CHOOSE f \in F : \A x \in F : start[f] >= start[x]

\* Mutant: a function that has begun is no longer the next one.
ProximaFuncion_NoGrace(se) ==
    LET F == FunctionsOf(se)  next == {f \in F : start[f] > now} IN
    IF next # {} THEN First(next) ELSE Latest(F)

\* The first that has not begun more than the grace ago, or the last of all.
ProximaFuncion(se) ==
    LET F == FunctionsOf(se)  next == {f \in F : start[f] > now - Grace} IN
    IF next # {} THEN First(next) ELSE Latest(F)

\* The home of a seller: hers, and nothing of the organization.
SellerHome(u) ==
    LET own == {r \in SettlementsReport(ActiveSeason) : r.seller = u} IN
    [functions |-> [f \in FunctionsOf(ActiveSeason) |->
                      [noAllocation |-> f \notin DOMAIN MyAllocations(u)]],
     nextCollected |-> MyCollectedInFunction(u, ProximaFuncion(ActiveSeason)),
     toDo |-> MyPendingSales(u, HomeToDoMax),
     salesPending |-> CountPendingSales(u),
     balance |-> SumOver(own, SettlementBalance),   \* zero without a row
     paidSales |-> SellerSeasonStats(u, ActiveSeason).paidSales]

\* The home of the direction, of the season it has chosen.
DirectionHome(se) ==
    [functions |-> FunctionsSummary(se),
     alerts |-> AttentionAlerts(se),
     salesPending |-> CountPendingSales(Everyone),
     settlementsPending |-> Count(AttentionSettlements(se))]

---------------------------------------------------------------------------
(* Direction.                                                              *)

\* Rounded to the nearest, half up.
Porcentaje(part, total) == IF total <= 0 THEN 0 ELSE (200 * part + total) \div (2 * total)

\* Over by more than the grace.
Done(f) == Passed(f)

\* The functions of a season that are over, and how many of a hundred came.
AttendancePct(se, f) ==
    LET row == FunctionsSummary(se)[f] IN
    IF Done(f) THEN Porcentaje(row.entered, row.sold) ELSE -1

\* The first function, by its hour, that is not over.
InSale(se) == LET F == {f \in FunctionsOf(se) : ~Done(f)} IN
              IF F = {} THEN {} ELSE {First(F)}

\* hallazgos: the function with the worst attendance, if it is low and far from
\* the best; the seats of the one on sale nobody may sell; the free seats.
Findings(se) ==
    LET over == {f \in FunctionsOf(se) : Done(f)}
        P(f) == AttendancePct(se, f)
        worst == {f \in over : /\ \A x \in over : P(f) <= P(x)
                               /\ P(f) < Low
                               /\ \E x \in over : P(x) - P(f) >= Gap}
        idle == {f \in InSale(se) : capacity[f] > Assigned(f)}
    IN [attendance |-> IF worst = {} THEN {} ELSE {First(worst)},
        unassigned |-> {[function |-> f, missing |-> capacity[f] - Assigned(f)] : f \in idle},
        comps |-> SumOver(FunctionsOf(se), LAMBDA f : FunctionsSummary(se)[f].comps)]

\* handleDireccion: what was sold, split in what the direction has, what the
\* sellers hold and what the buyers owe.
Direccion(se) ==
    [sold |-> SeasonMoney(se).sold,
     inHand |-> SeasonSettled(se),
     unsettled |-> SeasonMoney(se).collected - SeasonSettled(se),
     uncollected |-> SeasonMoney(se).uncollected,
     sellersOwing |-> Count(AttentionSettlements(se)),
     findings |-> Findings(se)]

---------------------------------------------------------------------------
(* Attendance, rhythm and team.                                            *)

\* handleAttendanceReport: the heading is added up from the rows.
Attendance(f) ==
    LET rows == AttendanceBySale(f)
        Issued(s) == Count(rows[s].tickets)
        Entered(s) == Count(rows[s].entered)
    IN [issued |-> SumOver(DOMAIN rows, Issued),
        entered |-> SumOver(DOMAIN rows, Entered),
        buyers |-> Count(DOMAIN rows),
        complete |-> Count({s \in DOMAIN rows : Issued(s) = Entered(s)})]

\* handleSalesTimeline: "days" days up to today, and the last half of them
\* against the half before it; with an odd number the first day is left out.
Timeline(se, days) ==
    LET since == now - (days - 1)
        half == days \div 2
        At(i) == IF since + i < 0 THEN 0 ELSE SalesTimeline(se, 0)[since + i]
    IN [total |-> SumOver(0..(days - 1), At),
        delta |-> SumOver((days - half)..(days - 1), At)
                  - SumOver((days - 2 * half)..(days - half - 1), At)]

\* handleListUsers: only what somebody owes is added up, not what was overpaid.
Team(se) ==
    LET rows == TeamForSeason(se)
        Owed(u) == IF rows[u].balance > 0 THEN rows[u].balance ELSE 0
    IN [members |-> rows, former |-> FormerMembers(se), summary |-> SeasonTeamSummary(se),
        sold |-> SumOver(DOMAIN rows, LAMBDA u : rows[u].sold),
        balance |-> SumOver(DOMAIN rows, Owed)]

---------------------------------------------------------------------------
Spec == Init /\ [][Writer]_books

---------------------------------------------------------------------------
(* Properties.                                                             *)

Vendors(se) == {SellerOf[s] : s \in OfSeason(se)}

Balance(u, se) == SumOver({r \in SettlementsReport(se) : r.seller = u}, SettlementBalance)

\* What a seller owes is the same number wherever it is shown: her home, the
\* report and its detail, the alerts, the team and the counters of the direction
\* (handlers_home.go:285 "dos calculos distintos del mismo numero terminan
\* discrepando").  Four queries compute it, each with its own filters.  The team
\* alone does not list whoever sold and has no row (see RemoveMember and MaySell), so
\* that its heading can be less than the alerts next to it.
OneBalance ==
    \A se \in Seasons :
        LET alerts == AttentionSettlements(se)
            rows == Team(se)
            report == SettlementsReport(se)
        IN /\ \A u \in Users :
                 LET b == SumOver({r \in report : r.seller = u}, SettlementBalance) IN
                 /\ {a.balance : a \in {x \in alerts : x.seller = u}} = IF b > 0 THEN {b} ELSE {}
                 /\ u \in DOMAIN rows.members => rows.members[u].balance = b
                 /\ \A d \in SellerDetail(u, se) : d.balance = b
                 /\ \A r \in SettlementsScreen(u, se) : r.seller = u => r.balance = b
                 /\ se = ActiveSeason => SellerHome(u).balance = b
           /\ Direccion(se).sellersOwing = Count({r \in report : SettlementBalance(r) > 0})
           /\ DirectionHome(se).settlementsPending = Count(alerts)
           /\ Vendors(se) \subseteq Members(se)
                => rows.balance = SumOver(alerts, LAMBDA a : a.balance)

\* Every peso sold in a season is in one of three places, and the functions, the
\* sellers, the list and the index of seasons add up to the same: a cancelled sale
\* leaves all of them at once, and another season never shows up in them.
MoneyAddsUp ==
    \A se \in Seasons :
        LET d == Direccion(se)
            m == SeasonMoney(se)
            report == SettlementsReport(se)
            list == SalesSummary([season |-> se, seller |-> NoFilter, function |-> NoFilter, q |-> Sales])
        IN /\ d.sold = d.inHand + d.unsettled + d.uncollected
           /\ d.unsettled = SumOver(report, SettlementBalance)
           /\ d.inHand = SumOver(report, LAMBDA r : r.settled)
           /\ d.uncollected = SumOver(report, LAMBDA r : r.pending)
           /\ m.collected = SumOver(FunctionsOf(se), LAMBDA f : FunctionsSummary(se)[f].collected)
           /\ m.collected = SumOver(Users, LAMBDA u :
                                SumOver(FunctionsOf(se), LAMBDA f : MyCollectedInFunction(u, f)))
           /\ m.collected = SeasonsOverview(se).collected
           /\ list.money.paid = m.collected /\ list.money.pending = m.uncollected

\* The seats of a function are counted the same by the screens, up to two
\* differences that are the code's: the list adds up sales.quantity, which
\* cancelling one ticket does not lower, and the check-in of a ticket cancelled
\* while it was at the door is in the summary and not in the attendance, so that
\* only then more people can have entered than were sold.
SeatsAddUp ==
    /\ \A f \in Functions :
          LET row == FunctionsSummary(SeasonOf[f])[f]
              a == Attendance(f)
              ghosts == {t \in EnteredIn(f) : ticket[t] = "void"}
              board == FunctionAllocationBoard(f)
          IN /\ a.issued = row.sold
             /\ a.entered = row.entered - Count(ghosts)
             /\ row.entered > row.sold => ghosts # {}
             /\ row.assigned = SumOver(DOMAIN board, LAMBDA u : board[u].assigned)
             /\ SumOver(DOMAIN board, LAMBDA u : board[u].sold) + row.comps <= row.sold
             /\ ListFunctions(SeasonOf[f])[f].sold = row.sold
    /\ \A se \in Seasons :
          LET F == FunctionsOf(se)
              total == SumOver(F, LAMBDA f : FunctionsSummary(se)[f].sold)
              list == SalesSummary([season |-> se, seller |-> NoFilter, function |-> NoFilter, q |-> Sales])
              cancelled == {t \in Tickets : SaleOf[t] \in OfSeason(se) \ voided /\ ticket[t] = "void"}
          IN /\ SeasonsOverview(se).sold = total
             /\ Timeline(se, MaxTime + 1).total = total
             /\ Vendors(se) \subseteq Members(se)
                  => Team(se).sold + SumOver(F, LAMBDA f : FunctionsSummary(se)[f].comps) = total
             /\ list.money.tickets + list.compTickets = total + Count(cancelled)

\* "Su deuda no desaparece porque dejo el coro" (reports.sql): whoever joins, leaves
\* or changes her role, nobody's balance changes and whoever has one stays listed,
\* without a row in the team too.
DebtOutlivesMembership ==
    [][<<role, left>>' # <<role, left>> =>
          \A se \in Seasons :
              /\ AttentionSettlements(se)' = AttentionSettlements(se)
              /\ \A u \in Users : Balance(u, se)' = Balance(u, se)]_books

\* The counter of pending sales is of the whole organization, and is what the
\* lists of all the seasons mark as pending, except for the sales of a free
\* function: worth nothing, they never become "paid" (RecalcSalePayment) and stay
\* "Debe" in the list.  A seller's to-do list has every sale the counter counts,
\* as far as it reaches.
PendingAgrees ==
    \A u \in Users :
        LET asked(se) == [season |-> se, seller |-> u, function |-> NoFilter, q |-> Sales]
            free == {s \in By(u) \cap Charged : Amount(s) = 0}
            owed == {s \in MyPendingSales(u, HomeToDoMax) : Debt(s) > 0}
        IN /\ SumOver(Seasons, LAMBDA se : SalesSummary(asked(se)).pendingCount)
                = CountPendingSales(u) + Count(free)
           /\ Count(owed) = Min({CountPendingSales(u), HomeToDoMax})
           /\ Count(MyPendingSales(u, HomeToDoMax)) <= HomeToDoMax

NoDuplicates(seq) == Cardinality(Range(seq)) = Len(seq)

\* One filter.  The pages, one after another, are the rows of it, each once and in
\* order, and the export writes them all up to the pages it reads; the chips split the
\* scope; the strip, the headings and the menu of sellers add up what is listed.
WholeList(x) ==
    LET all == Listed(x)
        totals == SalesFunctionTotals(x)
        summary == SalesSummary(x)
        filtered == SalesFilteredSummary(x)
        menu == SellersWithSales(x.season, x.function)
    IN /\ \A k \in 0..MaxPages :
             LET walk == ExportWalk(x, k) IN
             /\ NoDuplicates(walk) /\ Range(walk) \subseteq all
             /\ Len(walk) = Min({Count(all), PageSize * k})
             /\ \A i, j \in DOMAIN walk : i < j => KeyBefore(Key(walk[i]), Key(walk[j]))
       /\ Count(all) <= PageSize * MaxPages =>
             /\ Export(x, {}) = all
             /\ Addressed # {} => Export(x, Addressed) = all \cap Addressed
       /\ \A s \in Scope(x) : {st \in Statuses : HasStatus(s, st)} = {Chip(s)}
       /\ summary.total = summary.pendingCount + summary.paidCount + summary.compCount
                          + Count(Scope(x) \cap voided)
       /\ filtered.total = SumOver(DOMAIN totals, LAMBDA f : totals[f].sales)
       /\ filtered.money.paid = SumOver(DOMAIN totals, LAMBDA f : totals[f].money.paid)
       /\ filtered.money.tickets = SumOver(DOMAIN totals, LAMBDA f : totals[f].money.tickets)
       /\ x.seller = NoFilter /\ x.q = Sales
            => summary.total = SumOver(DOMAIN menu, LAMBDA u : menu[u])

\* The list is whole for whoever asks for whatever filter.
ListIsWhole == \A x \in {Request(u, y) : u \in Users, y \in Asked} : WholeList(x)

\* An export goes on while sales are made, charged and cancelled and functions pass.
\* A sale it has not reached stays ahead of its cursor, whatever is written between
\* two pages, unless its function is moved to another hour: then it can be lost.
\* One write is enough: the cursor c stands for any page that has been read.
ExportKeepsUp ==
    [][\A c, s \in sold :
          KeyBefore(Key(c), Key(s)) /\ start'[FunctionOf[s]] = start[FunctionOf[s]]
            => KeyBefore(Key(c), Key(s)')]_books

\* Home, Direction, the index of seasons and the order of the list agree on which
\* function is the current one, except at the very end of its grace, where the
\* comparisons of home and of Direction differ: nothing of the season is listed
\* before its sales but those of another function at the same hour.  And what Direction
\* finds without seller is what the alerts name, once the function has not begun.
OneCurrentFunction ==
    \A se \in Seasons :
        LET atMark == \E f \in FunctionsOf(se) : start[f] = now - Grace
            onSale == InSale(se)
            next == ProximaFuncion(se)
            idle == Findings(se).unassigned
        IN /\ ~atMark /\ onSale # {} => /\ start[next] = start[First(onSale)]
                                        /\ SeasonsOverview(se).next = start[next]
           /\ onSale = {} => SeasonsOverview(se).next = -1 /\ next = Latest(FunctionsOf(se))
           /\ ~atMark => \A s \in OfFunction(next), x \in OfSeason(se) :
                            KeyBefore(Key(x), Key(s)) => start[FunctionOf[x]] = start[next]
           /\ \A i \in idle : Future(i.function) <=> i \in AttentionUnassigned(se)
=============================================================================
