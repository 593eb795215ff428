------------------------------ MODULE Listado -------------------------------
(***************************************************************************)
(* The list of sales ("listado"): its filters, its order, its pages, its   *)
(* totals and its export.  A filter is a record; the text search is the    *)
(* set of the sales it matches, because what it matches never changes.     *)
(***************************************************************************)
EXTENDS Informes

CONSTANTS
    PageSize,    \* salesPageSize, 50 in the program
    MaxPages,    \* pages the export reads at most, 200 in the program
    NoFilter,    \* a filter that is not given
    Asked        \* bound: the filters that are asked for

Statuses == {"pending", "paid", "comp", "void"}
Filters == [season : Seasons \cup {NoFilter}, seller : Users \cup {NoFilter},
            function : Functions \cup {NoFilter}, status : Statuses \cup {NoFilter}, q : SUBSET Sales]

ASSUME ListadoAssumption ==
    /\ PageSize \in Nat \ {0} /\ MaxPages \in Nat \ {0} /\ Asked \subseteq Filters
    /\ NoFilter \notin Seasons \cup Users \cup Functions \cup Statuses

\* Mutant: a cancelled sale keeps its status.
HasStatus_Void(s, st) ==
    CASE st = "pending" -> s \notin Comps /\ ~IsPaid(s)
      [] st = "paid" -> s \notin Comps /\ IsPaid(s)
      [] st = "comp" -> s \in Comps
      [] st = "void" -> s \in voided

\* The status filter of the queries.
HasStatus(s, st) ==
    CASE st = "pending" -> s \notin Comps /\ ~IsPaid(s) /\ s \notin voided
      [] st = "paid" -> s \notin Comps /\ IsPaid(s) /\ s \notin voided
      [] st = "comp" -> s \in Comps /\ s \notin voided
      [] st = "void" -> s \in voided

\* estadoDeVenta: what the chip of the row and the export say.
Chip(s) == IF s \in voided THEN "void"
           ELSE IF s \in Comps THEN "comp"
           ELSE IF IsPaid(s) THEN "paid" ELSE "pending"

\* Season, seller, function and text: what the filter is about, whatever the status.
Scope(x) == {s \in sold : /\ x.season \in {NoFilter, SeasonOf[FunctionOf[s]]}
                          /\ x.seller \in {NoFilter, SellerOf[s]}
                          /\ x.function \in {NoFilter, FunctionOf[s]}
                          /\ s \in x.q}
Listed(x) == {s \in Scope(x) : x.status = NoFilter \/ HasStatus(s, x.status)}

---------------------------------------------------------------------------
(* Order and pages.                                                        *)

\* Mutant: what has passed comes first, so that passing moves a sale backwards.
PastRank_First(s) == IF Passed(FunctionOf[s]) THEN 0 ELSE 1
PastRank(s) == IF Passed(FunctionOf[s]) THEN 1 ELSE 0

\* past_rank, fn_rank, id: the functions to come, the next one first, and then
\* those that are over, the last one first.
Key(s) == LET h == start[FunctionOf[s]] IN
          <<PastRank(s), IF Passed(FunctionOf[s]) THEN -h ELSE h, s>>

KeyBefore(a, b) ==
    \/ a[1] < b[1]
    \/ a[1] = b[1] /\ a[2] < b[2]
    \/ a[1] = b[1] /\ a[2] = b[2] /\ a[3] < b[3]

NoCursor == <<-1, 0, 0>>

\* The first rows after the cursor, in order.
ListSalesPage(x, cursor, size) ==
    LET S == {s \in Listed(x) : KeyBefore(cursor, Key(s))}
        Rank(s) == Count({y \in S : KeyBefore(Key(y), Key(s))})
    IN [i \in 1..Min({size, Count(S)}) |-> CHOOSE s \in S : Rank(s) = i - 1]

\* Mutant: the cursor is the first row of the page.
CursorAfter_First(page) == Key(Head(page))
CursorAfter(page) == Key(Last(page))

\* One page more of the export; one that is not full is the last.
ReadPage(x, w) ==
    LET page == ListSalesPage(x, w.cursor, PageSize) IN
    IF w.done THEN w
    ELSE [rows |-> w.rows \o page,
          cursor |-> IF page = <<>> THEN w.cursor ELSE CursorAfter(page),
          done |-> Len(page) < PageSize]

\* What the export has read after k pages.
ExportWalk(x, k) ==
    LET walk[i \in 0..k] == IF i = 0 THEN [rows |-> <<>>, cursor |-> NoCursor, done |-> FALSE]
                            ELSE ReadPage(x, walk[i - 1])
    IN walk[k].rows

\* handleExportSales: the rows it writes; with a selection, only those of it.
Export(x, ids) == {s \in Range(ExportWalk(x, MaxPages)) : ids = {} \/ s \in ids}

---------------------------------------------------------------------------
(* Totals.                                                                 *)

Money(S) == [tickets |-> QuantityOf(S \cap Charged),
             paid |-> PaidOf(S \cap Charged),
             pending |-> DebtOf(S \cap Charged)]

\* Over the scope, so that the chips keep their counts while one is chosen.
SalesSummary(x) ==
    LET S == Scope(x) IN
    [money |-> Money(S),
     compTickets |-> QuantityOf((S \cap Comps) \ voided),
     total |-> Count(S),
     pendingCount |-> Count({s \in S : HasStatus(s, "pending")}),
     paidCount |-> Count({s \in S : HasStatus(s, "paid")}),
     compCount |-> Count({s \in S : HasStatus(s, "comp")})]

\* Over the rows listed: the strip above them.
SalesFilteredSummary(x) ==
    LET S == Listed(x) IN
    [money |-> Money(S), compTickets |-> QuantityOf((S \cap Comps) \ voided), total |-> Count(S)]

\* The heading of each function, over every row listed of it.
SalesFunctionTotals(x) ==
    [f \in {FunctionOf[s] : s \in Listed(x)} |->
       LET S == Listed(x) \cap OfFunction(f) IN [sales |-> Count(S), money |-> Money(S)]]

\* The menu of sellers of the season or of one function.
SellersWithSales(season, function) ==
    LET S == Scope([season |-> season, seller |-> NoFilter, function |-> function, q |-> Sales]) IN
    [u \in {SellerOf[s] : s \in S} |-> Count(S \cap By(u))]

---------------------------------------------------------------------------
(* handleListSales.  Who asks is a user; only the direction sees the sales *)
(* of others.  Without a season it is the one in course.                   *)

Request(u, asked) ==
    [asked EXCEPT !.seller = IF role[ActiveSeason][u] # "admin" THEN u ELSE @,
                  !.season = IF @ = NoFilter THEN ActiveSeason ELSE @]

SalesList(u, asked, cursor) ==
    LET x == Request(u, asked)  page == ListSalesPage(x, cursor, PageSize) IN
    [sales |-> page,
     summary |-> SalesSummary(x),
     filtered |-> SalesFilteredSummary(x),
     totals |-> SalesFunctionTotals(x),
     next |-> IF Len(page) = PageSize THEN CursorAfter(page) ELSE NoCursor]
=============================================================================
