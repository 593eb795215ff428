------------------------------- MODULE Puerta -------------------------------
(***************************************************************************)
(* The door as the server sees it: check-ins (one by one or in a batch of  *)
(* the offline queue), the cancellation of tickets and of whole sales, and *)
(* the snapshot a door device downloads.  A step of a request is one SQL   *)
(* statement: check-ins and the void of one ticket commit every statement, *)
(* the void of a sale is a transaction whose row locks last to COMMIT.     *)
(*                                                                         *)
(* A code of another function or of nobody is answered and changes nothing;*)
(* here it is a ticket that is still "absent".                             *)
(***************************************************************************)
EXTENDS Naturals, FiniteSets

CONSTANTS
    Sales,      \* sales of the function
    Tickets,    \* their tickets
    SaleOf,     \* SaleOf[t]: the sale of ticket t
    Requests    \* requests the server serves at the same time

ASSUME PuertaAssumption ==
    /\ SaleOf \in [Tickets -> Sales]
    /\ Tickets # {}

Statuses == {"absent", "issued", "checked_in", "void"}

VARIABLES
    status,     \* status[t]: the column of tickets, "absent" before the sale
    voided,     \* sales with voided_at
    checkins,   \* tickets with a row in checkins (UNIQUE ticket_id)
    greens,     \* greens[t]: how many requests have answered "ok" for t
    req         \* req[r]: the request r is serving and how far it got

vars == <<status, voided, checkins, greens, req>>
tables == <<status, voided, checkins>>

TicketsOf(s) == {t \in Tickets : SaleOf[t] = s}
With(st) == {t \in Tickets : status[t] = st}

---------------------------------------------------------------------------
(* Requests.  "at" is the statement the request runs next.                 *)

CheckinSteps == {"ci_ticket", "ci_sale", "ci_insert", "ci_mark"}
SaleVoidSteps == {"vs_sale", "vs_count", "vs_tickets", "vs_commit"}
Steps == {"idle", "vt_ticket", "vt_write", "snap_tickets", "snap_checkins", "snap_done"}
         \cup CheckinSteps \cup SaleVoidSteps

Request == [at : Steps,
            t : Tickets,              \* the ticket in hand
            todo : SUBSET Tickets,    \* the rest of the batch
            late : SUBSET Tickets,    \* tickets already void when the request began
            s : Sales,                \* the sale to void
            rows : SUBSET Tickets,    \* rows its transaction has updated and not committed
            seen : [Tickets -> Statuses],  \* the tickets of a snapshot
            entered : SUBSET Tickets] \* the check-ins of a snapshot

AnyTicket == CHOOSE t \in Tickets : TRUE
Idle == [at |-> "idle", t |-> AnyTicket, todo |-> {}, late |-> {}, s |-> SaleOf[AnyTicket],
         rows |-> {}, seen |-> [t \in Tickets |-> "absent"], entered |-> {}]

At(r, step) == req[r].at = step
Begin(r, q) == At(r, "idle") /\ req' = [req EXCEPT ![r] = q] /\ UNCHANGED <<tables, greens>>
Goto(r, step) == req' = [req EXCEPT ![r].at = step]
Finish(r) == req' = [req EXCEPT ![r] = Idle]

\* The rows another transaction has updated and not committed: writers wait for them.
RowFree(r, T) == \A x \in Requests \ {r} : req[x].rows \cap T = {}

Init ==
    /\ status = [t \in Tickets |-> "absent"]
    /\ voided = {}
    /\ checkins = {}
    /\ greens = [t \in Tickets |-> 0]
    /\ req = [r \in Requests |-> Idle]

\* handleCreateSale, seen from the door: a sale and its tickets appear at once.
Sell(s) ==
    /\ TicketsOf(s) # {}
    /\ TicketsOf(s) \subseteq With("absent")
    /\ status' = [t \in Tickets |-> IF SaleOf[t] = s THEN "issued" ELSE status[t]]
    /\ UNCHANGED <<voided, checkins, greens, req>>

---------------------------------------------------------------------------
(* POST /api/checkins (a batch of one) and POST /api/checkins/sync.        *)

CheckinStart(r) == \E T \in SUBSET Tickets : \E t \in T :
    Begin(r, [Idle EXCEPT !.at = "ci_ticket", !.t = t, !.todo = T \ {t}, !.late = With("void")])

\* The item is answered: take the next one of the batch, or reply.
NextItem(r) ==
    IF req[r].todo = {} THEN Finish(r)
    ELSE \E t \in req[r].todo :
           req' = [req EXCEPT ![r].at = "ci_ticket", ![r].t = t, ![r].todo = req[r].todo \ {t}]

\* Mutant: the status that was read is not looked at.
CheckinTicket_NoStatus(r) ==
    /\ At(r, "ci_ticket")
    /\ IF status[req[r].t] = "absent" THEN NextItem(r) ELSE Goto(r, "ci_sale")
    /\ UNCHANGED <<tables, greens>>

\* GetTicketByCode: an unknown code is invalid, a void ticket void.
CheckinTicket(r) ==
    /\ At(r, "ci_ticket")
    /\ IF status[req[r].t] \in {"absent", "void"} THEN NextItem(r) ELSE Goto(r, "ci_sale")
    /\ UNCHANGED <<tables, greens>>

\* GetSale and GetUserByID; the function of the sale never changes.
CheckinSale(r) ==
    /\ At(r, "ci_sale")
    /\ IF SaleOf[req[r].t] \in voided THEN NextItem(r) ELSE Goto(r, "ci_insert")
    /\ UNCHANGED <<tables, greens>>

\* Mutant: the conflict on the ticket is not noticed.
CheckinInsert_NoConflict(r) ==
    /\ At(r, "ci_insert")
    /\ checkins' = checkins \cup {req[r].t}
    /\ Goto(r, "ci_mark")
    /\ UNCHANGED <<status, voided, greens>>

\* InsertCheckin, ON CONFLICT DO NOTHING: of two at once exactly one inserts.
CheckinInsert(r) ==
    /\ At(r, "ci_insert")
    /\ checkins' = checkins \cup {req[r].t}
    /\ IF req[r].t \in checkins THEN NextItem(r) ELSE Goto(r, "ci_mark")
    /\ UNCHANGED <<status, voided, greens>>

\* Mutant: the UPDATE is not limited to issued tickets.
CheckinMark_AnyStatus(r) ==
    LET t == req[r].t IN
    /\ At(r, "ci_mark") /\ RowFree(r, {t})
    /\ status' = [status EXCEPT ![t] = "checked_in"]
    /\ greens' = [greens EXCEPT ![t] = @ + 1]
    /\ NextItem(r)
    /\ UNCHANGED <<voided, checkins>>

\* MarkTicketCheckedIn, and the answer "ok" whatever the UPDATE found.
CheckinMark(r) ==
    LET t == req[r].t IN
    /\ At(r, "ci_mark") /\ RowFree(r, {t})
    /\ status' = IF status[t] = "issued" THEN [status EXCEPT ![t] = "checked_in"] ELSE status
    /\ greens' = [greens EXCEPT ![t] = @ + 1]
    /\ NextItem(r)
    /\ UNCHANGED <<voided, checkins>>

---------------------------------------------------------------------------
(* POST /api/tickets/{id}/void: two statements, no transaction.            *)

VoidTicketStart(r) == \E t \in Tickets : Begin(r, [Idle EXCEPT !.at = "vt_ticket", !.t = t])

VoidTicketRead(r) ==
    /\ At(r, "vt_ticket")
    /\ IF status[req[r].t] = "issued" THEN Goto(r, "vt_write") ELSE Finish(r)
    /\ UNCHANGED <<tables, greens>>

\* The UPDATE has no condition on the status it was decided upon.
VoidTicketWrite(r) ==
    LET t == req[r].t IN
    /\ At(r, "vt_write") /\ RowFree(r, {t})
    /\ status' = [status EXCEPT ![t] = "void"]
    /\ Finish(r)
    /\ UNCHANGED <<voided, checkins, greens>>

---------------------------------------------------------------------------
(* POST /api/sales/{id}/void: one transaction, whose changes nobody sees   *)
(* and whose ticket rows nobody updates before COMMIT.                     *)

VoidSaleStart(r) == \E s \in Sales : Begin(r, [Idle EXCEPT !.at = "vs_sale", !.s = s])

\* GetSale: to void twice is not an error; a sale without tickets does not exist yet.
VoidSaleRead(r) ==
    /\ At(r, "vs_sale")
    /\ IF req[r].s \in voided \/ TicketsOf(req[r].s) \subseteq With("absent")
       THEN Finish(r) ELSE Goto(r, "vs_count")
    /\ UNCHANGED <<tables, greens>>

VoidSaleCount(r) ==
    /\ At(r, "vs_count")
    /\ IF TicketsOf(req[r].s) \cap With("checked_in") # {} THEN Finish(r) ELSE Goto(r, "vs_tickets")
    /\ UNCHANGED <<tables, greens>>

\* Mutant: no transaction, and the sale is marked before its tickets.
VoidSaleTickets_SaleFirst(r) ==
    LET T == TicketsOf(req[r].s) \cap With("issued") IN
    /\ At(r, "vs_tickets") /\ RowFree(r, T)
    /\ req' = [req EXCEPT ![r].at = "vs_commit", ![r].rows = T]
    /\ voided' = voided \cup {req[r].s}
    /\ UNCHANGED <<status, checkins, greens>>

\* VoidTicketsOfSale: the tickets of the sale that are issued.
VoidSaleTickets(r) ==
    LET T == TicketsOf(req[r].s) \cap With("issued") IN
    /\ At(r, "vs_tickets") /\ RowFree(r, T)
    /\ req' = [req EXCEPT ![r].at = "vs_commit", ![r].rows = T]
    /\ UNCHANGED <<tables, greens>>

\* VoidSale and COMMIT.
VoidSaleCommit(r) ==
    /\ At(r, "vs_commit")
    /\ status' = [t \in Tickets |-> IF t \in req[r].rows THEN "void" ELSE status[t]]
    /\ voided' = voided \cup {req[r].s}
    /\ Finish(r)
    /\ UNCHANGED <<checkins, greens>>

---------------------------------------------------------------------------
(* GET /api/functions/{id}/door-snapshot: two queries, no transaction.     *)

SnapshotStart(r) == Begin(r, [Idle EXCEPT !.at = "snap_tickets"])

ReadTickets(r, from, to) ==
    /\ At(r, from)
    /\ req' = [req EXCEPT ![r].at = to, ![r].seen = status]
    /\ UNCHANGED <<tables, greens>>

ReadCheckins(r, from, to) ==
    /\ At(r, from)
    /\ req' = [req EXCEPT ![r].at = to, ![r].entered = checkins]
    /\ UNCHANGED <<tables, greens>>

\* Mutant: the check-ins are read before the tickets.
SnapshotQuery_Swapped(r) ==
    \/ ReadCheckins(r, "snap_tickets", "snap_checkins")
    \/ ReadTickets(r, "snap_checkins", "snap_done")

\* DoorSnapshotTickets, then DoorSnapshotCheckins.
SnapshotQuery(r) ==
    \/ ReadTickets(r, "snap_tickets", "snap_checkins")
    \/ ReadCheckins(r, "snap_checkins", "snap_done")

SnapshotReply(r) == At(r, "snap_done") /\ Finish(r) /\ UNCHANGED <<tables, greens>>

---------------------------------------------------------------------------

\* The request ends here: the client goes away, the database or the process fails.
\* What it has committed stays; a transaction is rolled back.
Abort(r) == ~At(r, "idle") /\ Finish(r) /\ UNCHANGED <<tables, greens>>

Step(r) ==
    \/ CheckinTicket(r) \/ CheckinSale(r) \/ CheckinInsert(r) \/ CheckinMark(r)
    \/ VoidTicketRead(r) \/ VoidTicketWrite(r)
    \/ VoidSaleRead(r) \/ VoidSaleCount(r) \/ VoidSaleTickets(r) \/ VoidSaleCommit(r)
    \/ SnapshotQuery(r) \/ SnapshotReply(r)

Start(r) == CheckinStart(r) \/ VoidTicketStart(r) \/ VoidSaleStart(r) \/ SnapshotStart(r)

Next ==
    \/ \E r \in Requests : Start(r) \/ Step(r) \/ Abort(r)
    \/ \E s \in Sales : Sell(s)

Spec == Init /\ [][Next]_vars

---------------------------------------------------------------------------
(* Properties.                                                             *)

TypeOK ==
    /\ status \in [Tickets -> Statuses]
    /\ voided \subseteq Sales
    /\ checkins \subseteq Tickets
    /\ greens \in [Tickets -> Nat]
    /\ req \in [Requests -> Request]

\* However many devices scan a ticket and however often a batch is retried, "ok" is
\* answered at most once for it, and only for a ticket whose entry is recorded.
OneGreen ==
    \A t \in Tickets : greens[t] <= 1 /\ (greens[t] = 1 => t \in checkins)

\* A ticket that was void when the request arrived is not let in by it.
AnnulledStaysOut ==
    \A r \in Requests : req[r].at \in {"ci_insert", "ci_mark"} => req[r].t \notin req[r].late

\* A voided sale keeps no ticket that would still be valid, with check-ins and
\* cancellations of single tickets running at the same time.
VoidedSaleIsEmpty ==
    \A s \in voided : TicketsOf(s) \cap With("issued") = {}

\* A snapshot that shows a ticket as used also says when and by whom it was: its two
\* queries are not one transaction, but the check-ins are read after the tickets.
SnapshotNamesWhoEntered ==
    \A r \in Requests : At(r, "snap_done") =>
        \A t \in Tickets : req[r].seen[t] = "checked_in" => t \in req[r].entered

\* Entries and cancellations are for ever, and a ticket enters once.
Ledger == INSTANCE PuertaLedger WITH inside <- checkins, annulled <- With("void")
EntriesAreFinal == Ledger!Spec
=============================================================================
