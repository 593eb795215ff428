------------------------------- MODULE Cobros -------------------------------
(***************************************************************************)
(* The payments ("cobros") of the sales: handlers that record, correct and *)
(* undo payments, one sale at a time or many, as concurrent requests over  *)
(* PostgreSQL in READ COMMITTED.  A step of a request is one statement.    *)
(*                                                                         *)
(* sales.paid_cents is a cache of the sum of sale_payments, and the status *)
(* and the last method are written from the same rows by the same UPDATE:  *)
(* only the sum is kept.  The UPDATE is two steps, because it sums the     *)
(* payments of the moment it starts and may then wait for the row.         *)
(*                                                                         *)
(* Complimentary sales refuse every payment and are left out.              *)
(***************************************************************************)
EXTENDS Naturals, FiniteSets, FiniteSetsExt

CONSTANTS
    Sales,
    Price,        \* Price[s]: sales.amount_cents
    Requests,     \* requests the server serves at the same time
    MaxPayments   \* bound: payments ever recorded of a sale

ASSUME CobrosAssumption ==
    /\ Sales # {} /\ Price \in [Sales -> Nat]
    /\ IsFiniteSet(Requests)
    /\ MaxPayments \in Nat \ {0}

Ids == 1..MaxPayments
Payments == [id : Ids, s : Sales, cents : Nat]

VARIABLES
    history,   \* the rows of sale_payments
    paid,      \* paid[s]: sales.paid_cents
    voided,    \* sales with voided_at
    used,      \* used[s]: ids handed out so far to payments of s
    raced,     \* sales on which two requests have ever been at work at once
    req        \* req[r]: the request r is serving and how far it got

vars == <<history, paid, voided, used, raced, req>>
tables == <<history, paid, voided>>

Steps == {"idle", "insert", "delete", "clear", "sum", "write", "commit"}

Request == [at : Steps,
            about : SUBSET Sales,   \* the sales it is about
            bill : [Sales -> Nat],  \* what it charges for each of them
            todo : SUBSET Sales,    \* those it has still to charge
            s : Sales,              \* the sale in hand
            id : Ids,               \* the payment to delete
            sum : Nat,              \* what its UPDATE has summed
            new : SUBSET Payments,  \* rows inserted and not committed
            gone : SUBSET Payments, \* rows deleted and not committed
            cache : [Sales -> Nat], \* paid_cents written and not committed
            rows : SUBSET Sales,    \* the sales it was written in
            alone : BOOLEAN]        \* nobody else has been at work on its sales

AnySale == CHOOSE s \in Sales : TRUE
Nothing == [s \in Sales |-> 0]
Idle == [at |-> "idle", about |-> {}, bill |-> Nothing, todo |-> {}, s |-> AnySale,
         id |-> 1, sum |-> 0, new |-> {}, gone |-> {}, cache |-> Nothing,
         rows |-> {}, alone |-> TRUE]

Of(rows, s) == {p \in rows : p.s = s}
Cents(p) == p.cents
Total(rows, s) == MapThenSumSet(Cents, Of(rows, s))

At(r, step) == req[r].at = step
Goto(r, step) == req' = [req EXCEPT ![r].at = step]
Finish(r) == req' = [req EXCEPT ![r] = Idle]

\* What r's statements see: what is committed and its own changes.
Visible(r) == (history \cup req[r].new) \ req[r].gone

\* Row locks: writers wait for whoever has changed the row and not committed.
HeldBy(r, x) == \/ x # r /\ At(r, "write") /\ req[r].s \in req[x].rows
                \/ x # r /\ At(r, "delete") /\ \E p \in Of(req[x].gone, req[r].s) : p.id = req[r].id
                \/ x # r /\ At(r, "clear") /\ Of(req[x].gone, req[r].s) # {}
Waits(r) == \E x \in Requests : HeldBy(r, x)

Init ==
    /\ history = {}
    /\ paid = Nothing
    /\ voided = {}
    /\ used = Nothing
    /\ raced = {}
    /\ req = [r \in Requests |-> Idle]

\* Requests at work on one of these sales, other than r.
Others(r, S) == {x \in Requests \ {r} : req[x].about \cap S # {}}

\* r has read the sales S and goes on with q.
Begin(r, S, q) ==
    /\ At(r, "idle")
    /\ req' = [x \in Requests |->
          IF x = r THEN [q EXCEPT !.about = S, !.alone = Others(r, S) = {}]
          ELSE IF x \in Others(r, S) THEN [req[x] EXCEPT !.alone = FALSE] ELSE req[x]]
    /\ raced' = raced \cup {s \in S : Others(r, {s}) # {}}
    /\ UNCHANGED <<tables, used>>

---------------------------------------------------------------------------
(* The requests, up to the first statement of their transaction.  What     *)
(* they read is decided upon, and not read again.                          *)

Falta(s) == Price[s] - paid[s]   \* only used when paid[s] < Price[s]

\* The payments of bill, one for each sale of S.
Charge(r, S, bill) ==
    /\ \A s \in S : used[s] + Cardinality({x \in Requests : s \in req[x].todo}) < MaxPayments
    /\ Begin(r, S, [Idle EXCEPT !.at = "insert", !.bill = bill, !.todo = S])

\* Mutant: a payment is compared with the price and not with what is left.
CreateSalePayment_WholePrice(r) == \E s \in Sales :
    /\ s \notin voided /\ paid[s] < Price[s]
    /\ \E cents \in 1..Price[s] : Charge(r, {s}, [Nothing EXCEPT ![s] = cents])

\* ValidateSalePayment: more than zero and no more than what is left to pay.
CreateSalePayment(r) == \E s \in Sales :
    /\ s \notin voided /\ paid[s] < Price[s]
    /\ \E cents \in 1..Falta(s) : Charge(r, {s}, [Nothing EXCEPT ![s] = cents])

\* PATCH to paid: one payment of what is left.
MarkPaid(r) == \E s \in Sales :
    /\ s \notin voided /\ paid[s] < Price[s]
    /\ Charge(r, {s}, [Nothing EXCEPT ![s] = Falta(s)])

\* POST bulk-payment: void and paid sales of the selection are skipped.
BulkPayment(r) == \E S \in SUBSET Sales :
    LET due == {s \in S : s \notin voided /\ paid[s] < Price[s]} IN
    /\ due # {}
    /\ Charge(r, due, [s \in Sales |-> IF s \in due THEN Falta(s) ELSE 0])

\* Mutant: the row of the sale is locked before its payments are deleted.
MarkPending_RowFirst(r) == \E s \in Sales :
    /\ s \notin voided /\ \A x \in Requests : s \notin req[x].rows
    /\ Begin(r, {s}, [Idle EXCEPT !.at = "clear", !.s = s, !.rows = {s}])

\* PATCH back to pending: all the payments go.
MarkPending(r) == \E s \in Sales :
    /\ s \notin voided
    /\ Begin(r, {s}, [Idle EXCEPT !.at = "clear", !.s = s])

\* DELETE of one payment, of a void sale too.
DeleteSalePayment(r) == \E p \in history :
    Begin(r, {p.s}, [Idle EXCEPT !.at = "delete", !.s = p.s, !.id = p.id])

---------------------------------------------------------------------------
(* The statements of a transaction.                                        *)

\* Nobody orders the sales of a selection: it is any of them next.
Insert(r) ==
    /\ At(r, "insert")
    /\ \E s \in req[r].todo :
         LET row == [id |-> used[s] + 1, s |-> s, cents |-> req[r].bill[s]] IN
         /\ used' = [used EXCEPT ![s] = row.id]
         /\ req' = [req EXCEPT ![r] = [req[r] EXCEPT
                       !.at = "sum", !.s = s, !.bill[s] = 0,
                       !.todo = @ \ {s}, !.new = @ \cup {row}]]
    /\ UNCHANGED <<tables, raced>>

Delete(r) ==
    LET found == {p \in Of(history, req[r].s) : p.id = req[r].id} IN
    /\ At(r, "delete") /\ ~Waits(r)
    /\ IF found = {} THEN Finish(r)
       ELSE req' = [req EXCEPT ![r] = [req[r] EXCEPT !.at = "sum", !.gone = found]]
    /\ UNCHANGED <<tables, used, raced>>

Clear(r) ==
    /\ At(r, "clear") /\ ~Waits(r)
    /\ req' = [req EXCEPT ![r] = [req[r] EXCEPT !.at = "sum", !.gone = Of(history, req[r].s)]]
    /\ UNCHANGED <<tables, used, raced>>

\* Mutant: the payments are added to the cache instead of summed.
RecalcSum_Added(r) ==
    LET s == req[r].s IN
    /\ At(r, "sum")
    /\ req' = [req EXCEPT ![r] = [req[r] EXCEPT !.at = "write",
                  !.sum = (paid[s] + Total(req[r].new, s)) - Total(req[r].gone, s)]]
    /\ UNCHANGED <<tables, used, raced>>

\* RecalcSalePayment starts: the sum of the payments it can see.
RecalcSum(r) ==
    /\ At(r, "sum")
    /\ req' = [req EXCEPT ![r] = [req[r] EXCEPT !.at = "write", !.sum = Total(Visible(r), req[r].s)]]
    /\ UNCHANGED <<tables, used, raced>>

\* It gets the row, which it may have waited for, and writes that sum.
RecalcWrite(r) ==
    LET q == req[r] IN
    /\ At(r, "write") /\ ~Waits(r)
    /\ req' = [req EXCEPT ![r] = [req[r] EXCEPT
                  !.cache[q.s] = q.sum, !.sum = 0, !.rows = @ \cup {q.s},
                  !.at = IF q.todo = {} THEN "commit" ELSE "insert"]]
    /\ UNCHANGED <<tables, used, raced>>

Commit(r) ==
    /\ At(r, "commit")
    /\ history' = Visible(r)
    /\ paid' = [s \in Sales |-> IF s \in req[r].rows THEN req[r].cache[s] ELSE paid[s]]
    /\ Finish(r)
    /\ UNCHANGED <<voided, used, raced>>

\* The request fails at any statement: its transaction is rolled back.
Abort(r) == ~At(r, "idle") /\ Finish(r) /\ UNCHANGED <<tables, used, raced>>

\* Requests that wait for each other: PostgreSQL fails one of them, an Abort.
Deadlocked(S) == S # {} /\ \A x \in S : \E y \in S : HeldBy(x, y)
Several(r) == \E s, t \in req[r].about : s # t

\* handleVoidSale, which leaves the payments alone and waits for the row.
VoidSale(s) ==
    /\ s \notin voided
    /\ \A r \in Requests : s \notin req[r].rows
    /\ voided' = voided \cup {s}
    /\ raced' = IF \E r \in Requests : s \in req[r].about THEN raced \cup {s} ELSE raced
    /\ UNCHANGED <<history, paid, used, req>>

---------------------------------------------------------------------------

Start(r) ==
    \/ CreateSalePayment(r) \/ MarkPaid(r) \/ BulkPayment(r)
    \/ MarkPending(r) \/ DeleteSalePayment(r)

Step(r) ==
    \/ Insert(r) \/ Delete(r) \/ Clear(r)
    \/ RecalcSum(r) \/ RecalcWrite(r) \/ Commit(r)

Next ==
    \/ \E r \in Requests : Start(r) \/ Step(r) \/ Abort(r)
    \/ \E s \in Sales : VoidSale(s)

Spec == Init /\ [][Next]_vars

---------------------------------------------------------------------------
(* Properties.                                                             *)

TypeOK ==
    /\ history \subseteq Payments
    /\ paid \in [Sales -> Nat]
    /\ voided \subseteq Sales /\ raced \subseteq Sales
    /\ used \in [Sales -> 0..MaxPayments]
    /\ req \in [Requests -> Request]

\* As long as no two requests have been at work on a sale at the same time, its cache
\* is the sum of its payments and no more is charged than the sale is worth, with
\* requests that fail at any statement and selections of many sales.
OrderlySales ==
    \A s \in Sales \ raced :
        /\ paid[s] = Total(history, s)
        /\ Total(history, s) <= Price[s]

\* "Se llama siempre entera, nunca sumando de a poco": a cache that two requests have
\* spoiled is right again after the next change made by one that ran alone, and a sale
\* that was cancelled with nobody at work on it is never charged again: only a payment
\* that had read it before is still recorded.
CacheHeals ==
    [][\A r \in Requests : Commit(r) =>
           /\ req[r].alone => \A s \in req[r].rows : paid'[s] = Total(history', s)
           /\ \A s \in voided \ raced : Of(req[r].new, s) = {}]_vars

\* Only selections of several sales, whose rows nobody orders, wait for each other in a
\* circle: all the others change payments first and the row of the sale last.  Take the
\* requests about a single sale out of a deadlock and it is still one: they can be held
\* up by it, and never be what holds it together.
OnlyBulkDeadlocks ==
    \A S \in SUBSET Requests : Deadlocked(S) => Deadlocked({r \in S : Several(r)})
=============================================================================
