-------------------------------- MODULE Avisos --------------------------------
(***************************************************************************)
(* The mails ("avisos") of tickets and of settlements: the mail of a sale  *)
(* that was just made, its resend, the resend of a selection, the reminder *)
(* of what a seller owes and the reminder to all who owe.                  *)
(*                                                                         *)
(* None of them runs in a transaction: each reads the books with several   *)
(* statements, sends, and then records what came of it, while the books    *)
(* are written.  A request may stop at any step (the client goes, the      *)
(* server restarts), a mail may fail, or leave although its answer is lost *)
(* (the 20 s of the context).  In the demo nothing leaves.                 *)
(***************************************************************************)
EXTENDS Informes

CONSTANTS
    MaxRows,        \* maxFilasRecordatorio, 20 in the program
    Requests        \* bound: each of them serves once

ASSUME AvisosAssumption == MaxRows \in Nat

VARIABLES
    demo,       \* the organization is the demo
    job,        \* job[p]: where the request is and what it has read
    outbox,     \* the mails that left
    attempts,   \* attempts[s]: status of its rows in email_sends
    reminders   \* reminders[u]: its rows in reminders, status and amount

mails == <<demo, job, outbox, attempts, reminders>>
vars == <<books, mails>>

\* "todo" is what is left of a selection or of a list, "of" the sale or the seller
\* being served; "gone" and "at" remember the cancelled tickets and the writes of
\* the books when the request began.
NewJob == [pc |-> "idle", what |-> "none", todo |-> {}, of |-> 0, codes |-> {},
           amount |-> 0, settled |-> 0, rows |-> {}, whole |-> TRUE, status |-> "none",
           listed |-> 0, gone |-> {}, at |-> 0]

AInit ==
    /\ Init
    /\ demo \in BOOLEAN
    /\ job = [p \in Requests |-> NewJob]
    /\ outbox = {}
    /\ attempts = [s \in Sales |-> <<>>]
    /\ reminders = [u \in Users |-> <<>>]

Cancelled == {t \in Tickets : ticket[t] = "void"}

Begin(p, what, todo) ==
    /\ job[p].pc = "idle"
    /\ job' = [job EXCEPT ![p] = [NewJob EXCEPT !.pc = "next", !.what = what, !.todo = todo,
                                                !.gone = Cancelled, !.at = writes]]

Quiet == UNCHANGED <<demo, outbox, attempts, reminders>>

---------------------------------------------------------------------------
(* Tickets.                                                                *)

\* handleCreateSale after its commit: the tickets are those of the transaction.
MailNewSale(p, s) ==
    /\ s \in Addressed /\ job[p].pc = "idle"
    /\ CreateSale(s)
    /\ job' = [job EXCEPT ![p] = [NewJob EXCEPT !.pc = "send", !.what = "tickets", !.of = s,
                                                !.codes = TicketsOf(s), !.at = writes]]
    /\ Quiet

\* handleResendEmail: not of a cancelled sale nor without an address.
ResendEmail(p, s) ==
    /\ s \in (sold \ voided) \cap Addressed
    /\ Begin(p, "tickets", {s})
    /\ Quiet /\ UNCHANGED books

\* handleBulkResend: those are left out of the selection, as it was read.
BulkResend(p, S) ==
    /\ S # {}
    /\ Begin(p, "tickets", (S \ voided) \cap Addressed)
    /\ Quiet /\ UNCHANGED books

\* Mutant: the codes of every ticket of the sale.
ReadTickets_All(p, s) ==
    /\ job[p].pc = "next" /\ job[p].what = "tickets" /\ s \in job[p].todo
    /\ job' = [job EXCEPT ![p].pc = "send", ![p].of = s, ![p].todo = job[p].todo \ {s},
                          ![p].codes = TicketsOf(s)]
    /\ Quiet /\ UNCHANGED books

\* ListTicketsBySale, and of them the ones that are not void.
ReadTickets(p, s) ==
    /\ job[p].pc = "next" /\ job[p].what = "tickets" /\ s \in job[p].todo
    /\ job' = [job EXCEPT ![p].pc = "send", ![p].of = s, ![p].todo = job[p].todo \ {s},
                          ![p].codes = LiveTickets({s})]
    /\ Quiet /\ UNCHANGED books

---------------------------------------------------------------------------
(* Reminders.                                                              *)

\* handleRemindSeller: whatever she owes.
RemindSeller(p, u) ==
    /\ Begin(p, "reminder", {[seller |-> u, balance |-> 0]})
    /\ Quiet /\ UNCHANGED books

\* handleRemindAll
RemindAll(p) ==
    /\ LET owing == AttentionSettlements(ActiveSeason) IN
       Begin(p, "reminders", {[seller |-> a.seller, balance |-> a.balance] : a \in owing})
    /\ Quiet /\ UNCHANGED books

\* Mutant: the amount is what she has charged.
ReadReport_Collected(p, d) ==
    /\ job[p].pc = "next" /\ job[p].what \in {"reminder", "reminders"} /\ d \in job[p].todo
    /\ \E r \in {x \in SettlementsReport(ActiveSeason) : x.seller = d.seller} :
          job' = [job EXCEPT ![p].pc = "sources", ![p].of = d.seller, ![p].todo = job[p].todo \ {d},
                             ![p].amount = r.collected, ![p].settled = r.settled,
                             ![p].listed = d.balance]
    /\ Quiet /\ UNCHANGED books

\* sellerDetail: her row of the report.
ReadReport(p, d) ==
    /\ job[p].pc = "next" /\ job[p].what \in {"reminder", "reminders"} /\ d \in job[p].todo
    /\ \E r \in {x \in SettlementsReport(ActiveSeason) : x.seller = d.seller} :
          job' = [job EXCEPT ![p].pc = "sources", ![p].of = d.seller, ![p].todo = job[p].todo \ {d},
                             ![p].amount = SettlementBalance(r), ![p].settled = r.settled,
                             ![p].listed = d.balance]
    /\ Quiet /\ UNCHANGED books

\* Without a row she is not found: one reminder ends there, the list goes on.
NoReport(p, d) ==
    /\ job[p].pc = "next" /\ job[p].what \in {"reminder", "reminders"} /\ d \in job[p].todo
    /\ \A r \in SettlementsReport(ActiveSeason) : r.seller # d.seller
    /\ job' = [job EXCEPT ![p].todo = job[p].todo \ {d}]
    /\ Quiet /\ UNCHANGED books

\* sellerDetail, the statements after the report; the mail has room for some of the
\* sources, the last ones charged.
ReadSources(p) ==
    /\ job[p].pc = "sources"
    /\ LET S == SellerDebtSources(job[p].of, ActiveSeason) IN
       \E R \in kSubset(Min({Count(S), MaxRows}), S) :
          job' = [job EXCEPT ![p].pc = "send", ![p].rows = R, ![p].whole = (R = S)]
    /\ Quiet /\ UNCHANGED books

---------------------------------------------------------------------------
(* Sending, recording and stopping.                                        *)

Mail(p) == [what |-> job[p].what, of |-> job[p].of, codes |-> job[p].codes, amount |-> job[p].amount,
            settled |-> job[p].settled, rows |-> job[p].rows, whole |-> job[p].whole, listed |-> job[p].listed,
            gone |-> job[p].gone, calm |-> job[p].at = writes]

Outcome(p, status, out) ==
    /\ job[p].pc = "send"
    /\ job' = [job EXCEPT ![p].pc = "record", ![p].status = status]
    /\ outbox' = outbox \cup out
    /\ UNCHANGED <<books, demo, attempts, reminders>>

\* Mutant: a mail that could not be sent counts as sent.
Send_Assumed(p) ==
    \/ demo /\ Outcome(p, "preview", {})
    \/ ~demo /\ (Outcome(p, "sent", {Mail(p)}) \/ Outcome(p, "sent", {}))

\* sendTicketEmail, recordarA: the demo only shows; otherwise it leaves, it fails,
\* or it leaves and the answer does not arrive in time.
Send(p) ==
    \/ demo /\ Outcome(p, "preview", {})
    \/ ~demo /\ \/ Outcome(p, "sent", {Mail(p)})
                \/ Outcome(p, "failed", {})
                \/ Outcome(p, "failed", {Mail(p)})

\* RecordEmailSend, CreateReminder.
Record(p) ==
    /\ job[p].pc = "record"
    /\ job' = [job EXCEPT ![p].pc = "next"]
    /\ IF job[p].what = "tickets"
       THEN /\ attempts' = [attempts EXCEPT ![job[p].of] = Append(@, job[p].status)]
            /\ UNCHANGED reminders
       ELSE /\ reminders' = [reminders EXCEPT ![job[p].of] =
                                Append(@, [status |-> job[p].status, amount |-> job[p].amount])]
            /\ UNCHANGED attempts
    /\ UNCHANGED <<books, demo, outbox>>

\* The row cannot be written: a bulk and a list go on, and nothing tells of the mail.
RecordFails(p) ==
    /\ job[p].pc = "record"
    /\ job' = [job EXCEPT ![p].pc = "next"]
    /\ Quiet /\ UNCHANGED books

\* The answer, or whatever ends the request before it.
Stop(p) ==
    /\ job[p].pc \notin {"idle", "done"}
    /\ job' = [job EXCEPT ![p] = [NewJob EXCEPT !.pc = "done"]]
    /\ Quiet /\ UNCHANGED books

Serve(p) ==
    \/ \E s \in Sales : MailNewSale(p, s) \/ ResendEmail(p, s) \/ ReadTickets(p, s)
    \/ \E S \in SUBSET sold : BulkResend(p, S)
    \/ \E u \in Users : RemindSeller(p, u)
    \/ RemindAll(p)
    \/ \E d \in job[p].todo : ReadReport(p, d) \/ NoReport(p, d)
    \/ ReadSources(p)
    \/ Send(p) \/ Record(p) \/ RecordFails(p)
    \/ Stop(p)

\* The writers that change what a mail says.
Meanwhile ==
    /\ \/ \E s \in Sales : CreateSale(s) \/ VoidSale(s) \/ DeleteSalePayments(s)
       \/ \E s \in Sales, c \in 1..MaxCents : CreateSalePayment(s, c)
       \/ \E t \in Tickets : VoidTicket(t)
       \/ \E u \in Users : RemoveMember(ActiveSeason, u)
       \/ \E u \in Users, c \in 1..MaxCents : CreateSettlement(ActiveSeason, u, c)
    /\ UNCHANGED mails

Next == Meanwhile \/ \E p \in Requests : Serve(p)

MailSpec == AInit /\ [][Next]_vars

---------------------------------------------------------------------------
\* entrega: what the column of the list says of the last attempt.
Entrega(s) == IF s \notin Addressed THEN "none"
              ELSE IF attempts[s] = <<>> THEN "failed"      \* never tried
              ELSE Last(attempts[s])

PaidOfRows(m) == SumOver(m.rows, LAMBDA r : r.paid)
RemindersSent == {m \in outbox : m.what # "tickets"}

\* A ticket that was cancelled before a mail was asked for is not in it, whichever
\* of the three ways asked; a mail without a single ticket leaves only when all the
\* tickets of the sale are cancelled: one by one, which does not cancel the sale and
\* does not stop a resend, or with it between the selection and its turn.
MailMatchesTickets ==
    \A m \in outbox : m.what = "tickets" =>
        /\ m.codes \cap m.gone = {}
        /\ m.codes # {} \/ \A t \in TicketsOf(m.of) : ticket[t] = "void"

\* Nobody is told that a mail was sent that did not leave, neither by the delivery
\* column nor by the history of reminders, and in the demo none leaves.  The
\* converse does not hold: a mail whose answer or whose row was lost is not told.
ToldAsSent ==
    /\ \A s \in Sales : Entrega(s) = "sent" => \E m \in outbox : m.what = "tickets" /\ m.of = s
    /\ \A u \in Users : \A i \in DOMAIN reminders[u] :
          reminders[u][i].status = "sent" =>
              \E m \in RemindersSent : m.of = u /\ m.amount = reminders[u][i].amount
    /\ demo => outbox = {}

\* If the books were still while it was prepared, a reminder of "remind all" claims
\* the balance for which the seller was listed, which is above zero, and the sales
\* it names are worth what she owes plus what she has settled, or less if they do not
\* all fit: the rows of the mail and its "Total" (compose.go:263) are the same number
\* only for who never settled.
\* Without that, the amount can be zero or less: she settled after the list was read.
ReminderIsTrue ==
    \A m \in RemindersSent : m.calm =>
        /\ m.what = "reminders" => m.amount = m.listed /\ m.amount > 0
        /\ IF m.whole THEN PaidOfRows(m) = m.amount + m.settled
                      ELSE PaidOfRows(m) < m.amount + m.settled
=============================================================================
