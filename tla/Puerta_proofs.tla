---------------------------- MODULE Puerta_proofs ----------------------------
(***************************************************************************)
(* Proofs about Puerta, for any number of sales, tickets and requests.     *)
(***************************************************************************)
EXTENDS Puerta, TLAPS

---------------------------------------------------------------------------
(* The inductive invariant.                                                *)

\* What a request has read and what the tables still owe to it.
Checked(r) == LET q == req[r] IN
    /\ q.at \in CheckinSteps => q.late \subseteq With("void")
    /\ q.at \in {"ci_sale", "ci_insert", "ci_mark"} => q.t \notin q.late
    /\ q.at = "ci_mark" => q.t \in checkins /\ greens[q.t] = 0
    /\ q.at = "vt_write" => status[q.t] # "absent"
    /\ q.at \in {"vs_count", "vs_tickets", "vs_commit"} =>
          \A t \in TicketsOf(q.s) : status[t] # "absent"
    /\ q.at = "vs_commit" =>
          /\ q.rows \subseteq TicketsOf(q.s)
          /\ TicketsOf(q.s) \cap With("issued") \subseteq q.rows
    /\ q.at = "snap_checkins" => \A t \in Tickets : q.seen[t] = "checked_in" => t \in checkins
    /\ q.at = "snap_done" => \A t \in Tickets : q.seen[t] = "checked_in" => t \in q.entered

\* Two requests never answer "ok" for the same ticket.
OneMarks == \A r, x \in Requests :
    At(r, "ci_mark") /\ At(x, "ci_mark") /\ req[r].t = req[x].t => r = x

\* The tables among themselves: a sale is there with all its tickets or not at all.
TablesInv ==
    /\ OneGreen
    /\ VoidedSaleIsEmpty
    /\ \A t \in Tickets : status[t] = "checked_in" => t \in checkins
    /\ \A t, u \in Tickets : SaleOf[t] = SaleOf[u] /\ status[t] = "absent" => status[u] = "absent"
    /\ \A t \in Tickets : SaleOf[t] \in voided => status[t] # "absent"

IInv == TypeOK /\ TablesInv /\ OneMarks /\ \A r \in Requests : Checked(r)

---------------------------------------------------------------------------
(* What a step does to its own request.                                    *)

\* Only the request r moves.
Alone(r) == req' \in [Requests -> Request] /\ \A x \in Requests \ {r} : req'[x] = req[x]

LEMMA IdleType == Idle \in Request /\ Idle.at = "idle"
<1>1. AnyTicket \in Tickets
  BY PuertaAssumption DEF AnyTicket
<1>2. SaleOf[AnyTicket] \in Sales
  BY <1>1, PuertaAssumption
<1>3. "idle" \in Steps /\ [t \in Tickets |-> "absent"] \in [Tickets -> Statuses]
  BY DEF Steps, Statuses
<1>4. QED
  BY <1>1, <1>2, <1>3 DEF Idle, Request

LEMMA GotoMoves ==
  ASSUME TypeOK, NEW r \in Requests, NEW step \in Steps, Goto(r, step)
  PROVE  /\ Alone(r)
         /\ req'[r] = [req[r] EXCEPT !.at = step]
<1>1. req[r] \in Request /\ req \in [Requests -> Request]
  BY DEF TypeOK
<1>2. req' = [req EXCEPT ![r] = [req[r] EXCEPT !.at = step]]
  BY <1>1 DEF Goto
<1>3. [req[r] EXCEPT !.at = step] \in Request
  BY <1>1 DEF Request
<1>4. QED
  BY <1>1, <1>2, <1>3 DEF Alone

LEMMA FinishMoves ==
  ASSUME TypeOK, NEW r \in Requests, Finish(r)
  PROVE  Alone(r) /\ req'[r] = Idle
  BY IdleType DEF Finish, TypeOK, Alone

LEMMA BeginMoves ==
  ASSUME TypeOK, NEW r \in Requests, NEW q \in Request, Begin(r, q)
  PROVE  Alone(r) /\ req'[r] = q
  BY DEF Begin, TypeOK, Alone

LEMMA NextItemMoves ==
  ASSUME TypeOK, NEW r \in Requests, NextItem(r)
  PROVE  /\ Alone(r)
         /\ \/ req'[r] = Idle
            \/ \E t \in req[r].todo :
                 req'[r] = [req[r] EXCEPT !.at = "ci_ticket", !.t = t, !.todo = req[r].todo \ {t}]
<1>1. req[r] \in Request /\ req \in [Requests -> Request]
  BY DEF TypeOK
<1>2. CASE req[r].todo = {}
  BY <1>2, FinishMoves DEF NextItem
<1>3. CASE req[r].todo # {}
  <2>1. PICK t \in req[r].todo :
          req' = [req EXCEPT ![r].at = "ci_ticket", ![r].t = t, ![r].todo = req[r].todo \ {t}]
    BY <1>3 DEF NextItem
  <2> DEFINE q == [req[r] EXCEPT !.at = "ci_ticket", !.t = t, !.todo = req[r].todo \ {t}]
  <2>2. req' = [req EXCEPT ![r] = q]
    BY <1>1, <2>1
  <2>3. q \in Request
    BY <1>1, <2>1 DEF Request, Steps, CheckinSteps
  <2>4. QED
    BY <1>1, <2>2, <2>3 DEF Alone
<1>4. QED
  BY <1>2, <1>3

---------------------------------------------------------------------------
(* What a step does to the other requests and to the tables.               *)

TypeTables ==
    /\ status \in [Tickets -> Statuses]
    /\ voided \subseteq Sales
    /\ checkins \subseteq Tickets
    /\ greens \in [Tickets -> Nat]

\* The only ways in which the tables ever change, as far as others have read them.
Grows == \A t \in Tickets :
    /\ status[t] = "void" => status'[t] = "void"
    /\ status'[t] = "absent" => status[t] = "absent"
    /\ status'[t] = "issued" => status[t] \in {"issued", "absent"}
    /\ t \in checkins => t \in checkins'

LEMMA OtherKeeps ==
  ASSUME TypeOK, NEW x \in Requests, Checked(x), req'[x] = req[x], Grows,
         At(x, "ci_mark") => greens'[req[x].t] = 0
  PROVE  Checked(x)'
<1> DEFINE q == req[x]
<1>1. /\ q \in Request /\ q.t \in Tickets /\ q.s \in Sales /\ q.late \subseteq Tickets
      /\ q.rows \subseteq Tickets
  BY DEF TypeOK, Request
<1>2. q.at \in CheckinSteps => q.late \subseteq With("void")'
  BY <1>1 DEF Checked, Grows, With
<1>3. q.at \in {"ci_sale", "ci_insert", "ci_mark"} => q.t \notin q.late
  BY DEF Checked
<1>4. q.at = "ci_mark" => q.t \in checkins' /\ greens'[q.t] = 0
  BY <1>1 DEF Checked, Grows, At
<1>5. q.at = "vt_write" => status'[q.t] # "absent"
  BY <1>1 DEF Checked, Grows
<1>6. q.at \in {"vs_count", "vs_tickets", "vs_commit"} =>
          \A t \in TicketsOf(q.s) : status'[t] # "absent"
  BY DEF Checked, Grows, TicketsOf
<1>7. q.at = "vs_commit" =>
          /\ q.rows \subseteq TicketsOf(q.s)
          /\ TicketsOf(q.s) \cap With("issued")' \subseteq q.rows
  BY DEF Checked, Grows, TicketsOf, With
<1>8. q.at = "snap_checkins" => \A t \in Tickets : q.seen[t] = "checked_in" => t \in checkins'
  BY DEF Checked, Grows
<1>9. q.at = "snap_done" => \A t \in Tickets : q.seen[t] = "checked_in" => t \in q.entered
  BY DEF Checked
<1>10. TicketsOf(q.s)' = TicketsOf(q.s)
  BY DEF TicketsOf
<1>11. QED
  BY <1>2, <1>3, <1>4, <1>5, <1>6, <1>7, <1>8, <1>9, <1>10 DEF Checked, TicketsOf

\* A step of r keeps the invariant if it keeps the tables and its own part.
LEMMA StepKeeps ==
  ASSUME IInv, NEW r \in Requests, Alone(r), Grows, TypeTables', TablesInv', Checked(r)',
         \A x \in Requests \ {r} : At(x, "ci_mark") =>
            /\ greens'[req[x].t] = 0
            /\ req'[r].at = "ci_mark" => req'[r].t # req[x].t
  PROVE  IInv'
<1>1. TypeOK'
  BY DEF TypeOK, TypeTables, Alone
<1>2. ASSUME NEW x \in Requests PROVE Checked(x)'
  <2>1. CASE x = r
    BY <2>1
  <2>2. CASE x # r
    BY <2>2, OtherKeeps DEF IInv, Alone
  <2>3. QED
    BY <2>1, <2>2
<1>3. OneMarks'
  BY DEF OneMarks, IInv, Alone, At
<1>4. QED
  BY <1>1, <1>2, <1>3 DEF IInv

\* A step that writes nothing.
LEMMA QuietKeeps ==
  ASSUME IInv, NEW r \in Requests, Alone(r), UNCHANGED <<tables, greens>>,
         Checked(r)', req'[r].at # "ci_mark"
  PROVE  IInv'
<1>1. Grows /\ TypeTables'
  BY DEF Grows, TypeTables, tables, IInv, TypeOK
<1>2. TablesInv'
  BY DEF IInv, TablesInv, OneGreen, VoidedSaleIsEmpty, TicketsOf, With, tables
<1>3. ASSUME NEW x \in Requests, At(x, "ci_mark") PROVE greens'[req[x].t] = 0
  BY <1>3 DEF IInv, Checked, At
<1>4. QED
  BY <1>1, <1>2, <1>3, StepKeeps

\* A request that has ended has nothing to keep.
LEMMA IdleChecked ==
  ASSUME NEW r \in Requests, req'[r] = Idle
  PROVE  Checked(r)' /\ req'[r].at # "ci_mark"
  BY IdleType DEF Checked, CheckinSteps

\* Nor does the next ticket of a batch bring anything but what was void before.
LEMMA NextItemChecked ==
  ASSUME IInv, NEW r \in Requests, req[r].at \in CheckinSteps, NextItem(r), Grows
  PROVE  Alone(r) /\ Checked(r)' /\ req'[r].at # "ci_mark"
<1>1. TypeOK /\ Checked(r) /\ req[r] \in Request
  BY DEF IInv, TypeOK
<1>2. Alone(r)
  BY <1>1, NextItemMoves
<1>3. CASE req'[r] = Idle
  BY <1>2, <1>3, IdleChecked
<1>4. ASSUME NEW t \in req[r].todo,
             req'[r] = [req[r] EXCEPT !.at = "ci_ticket", !.t = t, !.todo = req[r].todo \ {t}]
      PROVE  Checked(r)' /\ req'[r].at # "ci_mark"
  <2>1. req'[r].at = "ci_ticket" /\ req'[r].late = req[r].late /\ req[r].late \subseteq Tickets
    BY <1>1, <1>4 DEF Request
  <2>2. req'[r].late \subseteq With("void")'
    BY <1>1, <2>1 DEF Checked, Grows, With
  <2>3. QED
    BY <2>1, <2>2 DEF Checked
<1>5. QED
  BY <1>1, <1>2, <1>3, <1>4, NextItemMoves

---------------------------------------------------------------------------
(* One lemma per action.                                                   *)

LEMMA FinishKeeps ==
  ASSUME IInv, NEW r \in Requests, Finish(r), UNCHANGED <<tables, greens>>
  PROVE  IInv'
  BY FinishMoves, IdleChecked, QuietKeeps DEF IInv

LEMMA StartKeeps ==
  ASSUME IInv, NEW r \in Requests, Start(r)
  PROVE  IInv'
<1>1. ASSUME NEW q \in Request, Begin(r, q), q.late \subseteq With("void"),
             q.at \in {"ci_ticket", "vt_ticket", "vs_sale", "snap_tickets"}
      PROVE  IInv'
  <2>1. Alone(r) /\ req'[r] = q /\ UNCHANGED <<tables, greens>>
    BY <1>1, BeginMoves DEF IInv, Begin
  <2>2. With("void")' = With("void")
    BY <2>1 DEF With, tables
  <2>3. Checked(r)' /\ req'[r].at # "ci_mark"
    BY <1>1, <2>1, <2>2 DEF Checked
  <2>4. QED
    BY <2>1, <2>3, QuietKeeps
<1>2. Idle \in Request /\ Idle.late = {} /\ With("void") \subseteq Tickets
  BY IdleType DEF Idle, With
<1>3. CASE CheckinStart(r)
  <2>0. PICK T \in SUBSET Tickets : \E t \in T :
          Begin(r, [Idle EXCEPT !.at = "ci_ticket", !.t = t, !.todo = T \ {t}, !.late = With("void")])
    BY <1>3 DEF CheckinStart
  <2>1. PICK t \in T :
          Begin(r, [Idle EXCEPT !.at = "ci_ticket", !.t = t, !.todo = T \ {t}, !.late = With("void")])
    BY <2>0
  <2> DEFINE q == [Idle EXCEPT !.at = "ci_ticket", !.t = t, !.todo = T \ {t}, !.late = With("void")]
  <2>2. q \in Request /\ q.at = "ci_ticket" /\ q.late = With("void")
    BY <1>2, <2>1 DEF Request, Steps, CheckinSteps
  <2>3. QED
    BY <1>1, <2>1, <2>2
<1>4. CASE VoidTicketStart(r)
  <2>1. PICK t \in Tickets : Begin(r, [Idle EXCEPT !.at = "vt_ticket", !.t = t])
    BY <1>4 DEF VoidTicketStart
  <2> DEFINE q == [Idle EXCEPT !.at = "vt_ticket", !.t = t]
  <2>2. q \in Request /\ q.at = "vt_ticket" /\ q.late = {}
    BY <1>2, <2>1 DEF Request, Steps
  <2>3. QED
    BY <1>1, <2>1, <2>2
<1>5. CASE VoidSaleStart(r)
  <2>1. PICK s \in Sales : Begin(r, [Idle EXCEPT !.at = "vs_sale", !.s = s])
    BY <1>5 DEF VoidSaleStart
  <2> DEFINE q == [Idle EXCEPT !.at = "vs_sale", !.s = s]
  <2>2. q \in Request /\ q.at = "vs_sale" /\ q.late = {}
    BY <1>2, <2>1 DEF Request, Steps, SaleVoidSteps
  <2>3. QED
    BY <1>1, <2>1, <2>2
<1>6. CASE SnapshotStart(r)
  <2> DEFINE q == [Idle EXCEPT !.at = "snap_tickets"]
  <2>1. q \in Request /\ q.at = "snap_tickets" /\ q.late = {}
    BY <1>2 DEF Request, Steps
  <2>2. QED
    BY <1>1, <1>6, <2>1 DEF SnapshotStart
<1>7. QED
  BY <1>3, <1>4, <1>5, <1>6 DEF Start

LEMMA QuietGrows == UNCHANGED <<tables, greens>> => Grows
  BY DEF Grows, tables

\* A ticket that is let through was not void when it was read, so it was not before.
LEMMA CheckinTicketKeeps ==
  ASSUME IInv, NEW r \in Requests, CheckinTicket(r)
  PROVE  IInv'
<1>1. /\ req[r].at = "ci_ticket" /\ UNCHANGED <<tables, greens>> /\ req[r] \in Request
      /\ Checked(r) /\ TypeOK /\ Grows
  BY QuietGrows DEF CheckinTicket, At, IInv, TypeOK
<1>2. CASE NextItem(r)
  BY <1>1, <1>2, NextItemChecked, QuietKeeps DEF CheckinSteps
<1>3. CASE status[req[r].t] \notin {"absent", "void"} /\ Goto(r, "ci_sale")
  <2>1. Alone(r) /\ req'[r] = [req[r] EXCEPT !.at = "ci_sale"]
    BY <1>1, <1>3, GotoMoves DEF Steps, CheckinSteps
  <2>2. req'[r].at = "ci_sale" /\ req'[r].t = req[r].t /\ req'[r].late = req[r].late
    BY <1>1, <2>1 DEF Request
  <2>3. req[r].late \subseteq With("void") /\ req[r].t \notin req[r].late
    BY <1>1, <1>3 DEF Checked, CheckinSteps, With
  <2>4. With("void")' = With("void")
    BY <1>1 DEF With, tables
  <2>5. Checked(r)'
    BY <2>2, <2>3, <2>4 DEF Checked
  <2>6. QED
    BY <1>1, <2>1, <2>2, <2>5, QuietKeeps
<1>4. QED
  BY <1>1, <1>2, <1>3 DEF CheckinTicket

LEMMA CheckinSaleKeeps ==
  ASSUME IInv, NEW r \in Requests, CheckinSale(r)
  PROVE  IInv'
<1>1. /\ req[r].at = "ci_sale" /\ UNCHANGED <<tables, greens>> /\ req[r] \in Request
      /\ Checked(r) /\ TypeOK /\ Grows
  BY QuietGrows DEF CheckinSale, At, IInv, TypeOK
<1>2. CASE NextItem(r)
  BY <1>1, <1>2, NextItemChecked, QuietKeeps DEF CheckinSteps
<1>3. CASE Goto(r, "ci_insert")
  <2>1. Alone(r) /\ req'[r] = [req[r] EXCEPT !.at = "ci_insert"]
    BY <1>1, <1>3, GotoMoves DEF Steps, CheckinSteps
  <2>2. req'[r].at = "ci_insert" /\ req'[r].t = req[r].t /\ req'[r].late = req[r].late
    BY <1>1, <2>1 DEF Request
  <2>3. req[r].late \subseteq With("void") /\ req[r].t \notin req[r].late
    BY <1>1 DEF Checked, CheckinSteps
  <2>4. With("void")' = With("void")
    BY <1>1 DEF With, tables
  <2>5. Checked(r)'
    BY <2>2, <2>3, <2>4 DEF Checked
  <2>6. QED
    BY <1>1, <2>1, <2>2, <2>5, QuietKeeps
<1>4. QED
  BY <1>1, <1>2, <1>3 DEF CheckinSale

\* Who inserts the row is alone in marking the ticket, and nobody has answered for it.
LEMMA CheckinInsertKeeps ==
  ASSUME IInv, NEW r \in Requests, CheckinInsert(r)
  PROVE  IInv'
<1> DEFINE t == req[r].t
<1>1. /\ req[r].at = "ci_insert" /\ req[r] \in Request /\ t \in Tickets
      /\ Checked(r) /\ TypeOK /\ TablesInv
      /\ checkins' = checkins \cup {t} /\ UNCHANGED <<status, voided, greens>>
  BY DEF CheckinInsert, At, IInv, TypeOK, Request
<1>2. Grows /\ TypeTables'
  BY <1>1 DEF Grows, TypeTables, TypeOK
<1>3. TablesInv'
  BY <1>1 DEF TablesInv, OneGreen, VoidedSaleIsEmpty, TicketsOf, With
<1>4. ASSUME NEW x \in Requests, At(x, "ci_mark")
      PROVE  greens'[req[x].t] = 0 /\ req[x].t \in checkins
  BY <1>1, <1>4 DEF IInv, Checked, At
<1>5. CASE NextItem(r)
  <2>1. Alone(r) /\ Checked(r)' /\ req'[r].at # "ci_mark"
    BY <1>1, <1>2, <1>5, NextItemChecked DEF CheckinSteps
  <2>2. QED
    BY <1>2, <1>3, <1>4, <2>1, StepKeeps
<1>6. CASE t \notin checkins /\ Goto(r, "ci_mark")
  <2>1. Alone(r) /\ req'[r] = [req[r] EXCEPT !.at = "ci_mark"]
    BY <1>1, <1>6, GotoMoves DEF Steps, CheckinSteps
  <2>2. req'[r].at = "ci_mark" /\ req'[r].t = t /\ req'[r].late = req[r].late
    BY <1>1, <2>1 DEF Request
  <2>3. req[r].late \subseteq With("void") /\ t \notin req[r].late
    BY <1>1 DEF Checked, CheckinSteps
  <2>4. With("void")' = With("void")
    BY <1>1 DEF With
  <2>5. greens[t] = 0
    <3>1. greens[t] \in Nat /\ greens[t] <= 1 /\ greens[t] # 1
      BY <1>1, <1>6 DEF TablesInv, OneGreen, TypeOK
    <3>2. QED
      BY <3>1
  <2>6. Checked(r)'
    BY <1>1, <2>2, <2>3, <2>4, <2>5 DEF Checked
  <2>7. \A x \in Requests \ {r} : At(x, "ci_mark") => req'[r].t # req[x].t
    BY <1>4, <1>6, <2>2
  <2>8. QED
    BY <1>2, <1>3, <1>4, <2>1, <2>6, <2>7, StepKeeps
<1>7. QED
  BY <1>1, <1>5, <1>6 DEF CheckinInsert

LEMMA CheckinMarkKeeps ==
  ASSUME IInv, NEW r \in Requests, CheckinMark(r)
  PROVE  IInv'
<1> DEFINE t == req[r].t
<1>1. /\ req[r].at = "ci_mark" /\ req[r] \in Request /\ t \in Tickets
      /\ Checked(r) /\ TypeOK /\ TablesInv /\ OneMarks
      /\ NextItem(r) /\ UNCHANGED <<voided, checkins>>
      /\ status' = IF status[t] = "issued" THEN [status EXCEPT ![t] = "checked_in"] ELSE status
      /\ greens' = [greens EXCEPT ![t] = greens[t] + 1]
  BY DEF CheckinMark, At, IInv, TypeOK, Request
<1>2. t \in checkins /\ greens[t] = 0
  BY <1>1 DEF Checked
<1>3. Grows
  BY <1>1 DEF Grows, TypeOK
<1>4. TypeTables'
  <2>1. status' \in [Tickets -> Statuses]
    BY <1>1 DEF TypeOK, Statuses
  <2>2. greens' \in [Tickets -> Nat]
    BY <1>1 DEF TypeOK
  <2>3. QED
    BY <1>1, <2>1, <2>2 DEF TypeTables, TypeOK
<1>5. \A x \in Tickets : greens'[x] = IF x = t THEN 1 ELSE greens[x]
  BY <1>1, <1>2 DEF TypeOK
<1>6. \A x \in Tickets : status'[x] = IF x = t /\ status[x] = "issued" THEN "checked_in" ELSE status[x]
  BY <1>1 DEF TypeOK
<1>7. TablesInv'
  <2>1. OneGreen'
    BY <1>1, <1>2, <1>5 DEF TablesInv, OneGreen
  <2>2. VoidedSaleIsEmpty'
    BY <1>1, <1>6 DEF TablesInv, VoidedSaleIsEmpty, TicketsOf, With
  <2>3. QED
    BY <1>1, <1>2, <1>6, <2>1, <2>2 DEF TablesInv
<1>8. Alone(r) /\ Checked(r)' /\ req'[r].at # "ci_mark"
  BY <1>1, <1>3, NextItemChecked DEF CheckinSteps
<1>9. ASSUME NEW x \in Requests \ {r}, At(x, "ci_mark") PROVE greens'[req[x].t] = 0
  <2>1. req[x].t # t /\ req[x].t \in Tickets /\ greens[req[x].t] = 0
    BY <1>1, <1>9 DEF OneMarks, At, IInv, Checked, TypeOK, Request
  <2>2. QED
    BY <1>5, <2>1
<1>10. QED
  BY <1>3, <1>4, <1>7, <1>8, <1>9, StepKeeps

LEMMA VoidTicketReadKeeps ==
  ASSUME IInv, NEW r \in Requests, VoidTicketRead(r)
  PROVE  IInv'
<1>1. UNCHANGED <<tables, greens>> /\ req[r] \in Request /\ TypeOK
  BY DEF VoidTicketRead, IInv, TypeOK
<1>2. CASE Finish(r)
  BY <1>1, <1>2, FinishKeeps
<1>3. CASE status[req[r].t] = "issued" /\ Goto(r, "vt_write")
  <2>1. Alone(r) /\ req'[r] = [req[r] EXCEPT !.at = "vt_write"]
    BY <1>1, <1>3, GotoMoves DEF Steps
  <2>2. req'[r].at = "vt_write" /\ req'[r].t = req[r].t
    BY <1>1, <2>1 DEF Request
  <2>3. Checked(r)'
    BY <1>1, <1>3, <2>2 DEF Checked, CheckinSteps, tables
  <2>4. QED
    BY <1>1, <2>1, <2>2, <2>3, QuietKeeps
<1>4. QED
  BY <1>2, <1>3 DEF VoidTicketRead

\* The ticket may have entered since it was read: it becomes void all the same.
LEMMA VoidTicketWriteKeeps ==
  ASSUME IInv, NEW r \in Requests, VoidTicketWrite(r)
  PROVE  IInv'
<1> DEFINE t == req[r].t
<1>1. /\ req[r].at = "vt_write" /\ t \in Tickets /\ Checked(r) /\ TypeOK /\ TablesInv
      /\ Finish(r) /\ UNCHANGED <<voided, checkins, greens>>
      /\ status' = [status EXCEPT ![t] = "void"]
  BY DEF VoidTicketWrite, At, IInv, TypeOK, Request
<1>2. status[t] # "absent"
  BY <1>1 DEF Checked
<1>3. \A u \in Tickets : status'[u] = IF u = t THEN "void" ELSE status[u]
  BY <1>1 DEF TypeOK
<1>4. Grows
  BY <1>1, <1>2, <1>3 DEF Grows
<1>5. TypeTables'
  BY <1>1 DEF TypeOK, TypeTables, Statuses
<1>6. TablesInv'
  <2>1. OneGreen' /\ VoidedSaleIsEmpty'
    BY <1>1, <1>3 DEF TablesInv, OneGreen, VoidedSaleIsEmpty, TicketsOf, With
  <2>2. \A u \in Tickets : status'[u] = "checked_in" => u \in checkins'
    BY <1>1, <1>3 DEF TablesInv
  <2>3. \A u, w \in Tickets :
          SaleOf[u] = SaleOf[w] /\ status'[u] = "absent" => status'[w] = "absent"
    BY <1>1, <1>2, <1>3 DEF TablesInv
  <2>4. \A u \in Tickets : SaleOf[u] \in voided' => status'[u] # "absent"
    BY <1>1, <1>3 DEF TablesInv
  <2>5. QED
    BY <2>1, <2>2, <2>3, <2>4 DEF TablesInv
<1>7. Alone(r) /\ Checked(r)' /\ req'[r].at # "ci_mark"
  BY <1>1, FinishMoves, IdleChecked
<1>8. \A x \in Requests : At(x, "ci_mark") => greens'[req[x].t] = 0
  BY <1>1 DEF IInv, Checked, At
<1>9. QED
  BY <1>4, <1>5, <1>6, <1>7, <1>8, StepKeeps

\* A sale is there with all its tickets, so one that is not absent is enough.
LEMMA VoidSaleReadKeeps ==
  ASSUME IInv, NEW r \in Requests, VoidSaleRead(r)
  PROVE  IInv'
<1> DEFINE s == req[r].s
<1>1. UNCHANGED <<tables, greens>> /\ req[r] \in Request /\ TypeOK /\ TablesInv
  BY DEF VoidSaleRead, IInv, TypeOK
<1>2. CASE Finish(r)
  BY <1>1, <1>2, FinishKeeps
<1>3. CASE ~(TicketsOf(s) \subseteq With("absent")) /\ Goto(r, "vs_count")
  <2>1. Alone(r) /\ req'[r] = [req[r] EXCEPT !.at = "vs_count"]
    BY <1>1, <1>3, GotoMoves DEF Steps, SaleVoidSteps
  <2>2. req'[r].at = "vs_count" /\ req'[r].s = s
    BY <1>1, <2>1 DEF Request
  <2>3. \A t \in TicketsOf(s) : status[t] # "absent"
    BY <1>1, <1>3 DEF TablesInv, TicketsOf, With
  <2>4. Checked(r)'
    BY <1>1, <2>2, <2>3 DEF Checked, CheckinSteps, tables, TicketsOf
  <2>5. QED
    BY <1>1, <2>1, <2>2, <2>4, QuietKeeps
<1>4. QED
  BY <1>2, <1>3 DEF VoidSaleRead

LEMMA VoidSaleCountKeeps ==
  ASSUME IInv, NEW r \in Requests, VoidSaleCount(r)
  PROVE  IInv'
<1>1. /\ req[r].at = "vs_count" /\ UNCHANGED <<tables, greens>> /\ req[r] \in Request
      /\ TypeOK /\ Checked(r)
  BY DEF VoidSaleCount, At, IInv, TypeOK
<1>2. CASE Finish(r)
  BY <1>1, <1>2, FinishKeeps
<1>3. CASE Goto(r, "vs_tickets")
  <2>1. Alone(r) /\ req'[r] = [req[r] EXCEPT !.at = "vs_tickets"]
    BY <1>1, <1>3, GotoMoves DEF Steps, SaleVoidSteps
  <2>2. req'[r].at = "vs_tickets" /\ req'[r].s = req[r].s
    BY <1>1, <2>1 DEF Request
  <2>3. Checked(r)'
    BY <1>1, <2>2 DEF Checked, CheckinSteps, tables, TicketsOf
  <2>4. QED
    BY <1>1, <2>1, <2>2, <2>3, QuietKeeps
<1>4. QED
  BY <1>2, <1>3 DEF VoidSaleCount

\* From here on the transaction holds every ticket of the sale that is issued.
LEMMA VoidSaleTicketsKeeps ==
  ASSUME IInv, NEW r \in Requests, VoidSaleTickets(r)
  PROVE  IInv'
<1> DEFINE T == TicketsOf(req[r].s) \cap With("issued")
<1> DEFINE q == [req[r] EXCEPT !.at = "vs_commit", !.rows = T]
<1>1. /\ req[r].at = "vs_tickets" /\ UNCHANGED <<tables, greens>> /\ req[r] \in Request
      /\ req \in [Requests -> Request] /\ Checked(r)
      /\ req' = [req EXCEPT ![r].at = "vs_commit", ![r].rows = T]
  BY DEF VoidSaleTickets, At, IInv, TypeOK
<1>2. req' = [req EXCEPT ![r] = q]
  BY <1>1
<1>3. T \subseteq Tickets
  BY DEF TicketsOf
<1>4. q \in Request
  BY <1>1, <1>3 DEF Request, Steps, SaleVoidSteps
<1>5. Alone(r) /\ req'[r] = q
  BY <1>1, <1>2, <1>4 DEF Alone
<1>6. req'[r].at = "vs_commit" /\ req'[r].s = req[r].s /\ req'[r].rows = T
  BY <1>1, <1>5 DEF Request
<1>7. TicketsOf(req[r].s)' = TicketsOf(req'[r].s) /\ With("issued")' = With("issued")
  BY <1>1 DEF TicketsOf, With, tables
<1>8. Checked(r)'
  BY <1>1, <1>6, <1>7 DEF Checked, CheckinSteps, tables, TicketsOf
<1>9. QED
  BY <1>1, <1>5, <1>6, <1>8, QuietKeeps

\* What the transaction held is all that was left to annul of the sale.
LEMMA VoidSaleCommitKeeps ==
  ASSUME IInv, NEW r \in Requests, VoidSaleCommit(r)
  PROVE  IInv'
<1> DEFINE s == req[r].s
           T == req[r].rows
<1>1. /\ req[r].at = "vs_commit" /\ s \in Sales /\ T \subseteq Tickets
      /\ Checked(r) /\ TypeOK /\ TablesInv /\ Finish(r) /\ UNCHANGED <<checkins, greens>>
      /\ status' = [t \in Tickets |-> IF t \in T THEN "void" ELSE status[t]]
      /\ voided' = voided \cup {s}
  BY DEF VoidSaleCommit, At, IInv, TypeOK, Request
<1>2. /\ \A t \in TicketsOf(s) : status[t] # "absent"
      /\ T \subseteq TicketsOf(s)
      /\ \A t \in TicketsOf(s) : status[t] = "issued" => t \in T
  BY <1>1 DEF Checked, With, TicketsOf
<1>3. \A t \in Tickets : status'[t] = IF t \in T THEN "void" ELSE status[t]
  BY <1>1
<1>4. Grows
  BY <1>1, <1>2, <1>3 DEF Grows
<1>5. TypeTables'
  BY <1>1 DEF TypeOK, TypeTables, Statuses
<1>6. TablesInv'
  <2>1. OneGreen'
    BY <1>1 DEF TablesInv, OneGreen
  <2>2. VoidedSaleIsEmpty'
    BY <1>1, <1>2, <1>3 DEF TablesInv, VoidedSaleIsEmpty, TicketsOf, With
  <2>3. \A u \in Tickets : status'[u] = "checked_in" => u \in checkins'
    BY <1>1, <1>3 DEF TablesInv
  <2>4. \A u, w \in Tickets :
          SaleOf[u] = SaleOf[w] /\ status'[u] = "absent" => status'[w] = "absent"
    BY <1>1, <1>2, <1>3 DEF TablesInv, TicketsOf
  <2>5. \A u \in Tickets : SaleOf[u] \in voided' => status'[u] # "absent"
    BY <1>1, <1>2, <1>3 DEF TablesInv, TicketsOf
  <2>6. QED
    BY <2>1, <2>2, <2>3, <2>4, <2>5 DEF TablesInv
<1>7. Alone(r) /\ Checked(r)' /\ req'[r].at # "ci_mark"
  BY <1>1, FinishMoves, IdleChecked
<1>8. \A x \in Requests : At(x, "ci_mark") => greens'[req[x].t] = 0
  BY <1>1 DEF IInv, Checked, At
<1>9. QED
  BY <1>4, <1>5, <1>6, <1>7, <1>8, StepKeeps

\* The tickets first, the check-ins after: what shows as used has its row by then.
LEMMA SnapshotQueryKeeps ==
  ASSUME IInv, NEW r \in Requests, SnapshotQuery(r)
  PROVE  IInv'
<1>1. /\ UNCHANGED <<tables, greens>> /\ req[r] \in Request /\ req \in [Requests -> Request]
      /\ Checked(r) /\ TypeOK /\ TablesInv
  BY DEF SnapshotQuery, ReadTickets, ReadCheckins, IInv, TypeOK
<1>2. CASE ReadTickets(r, "snap_tickets", "snap_checkins")
  <2> DEFINE q == [req[r] EXCEPT !.at = "snap_checkins", !.seen = status]
  <2>1. req' = [req EXCEPT ![r] = q]
    BY <1>1, <1>2 DEF ReadTickets
  <2>2. q \in Request
    BY <1>1 DEF Request, Steps, TypeOK
  <2>3. Alone(r) /\ req'[r] = q
    BY <1>1, <2>1, <2>2 DEF Alone
  <2>4. req'[r].at = "snap_checkins" /\ req'[r].seen = status
    BY <1>1, <2>3 DEF Request
  <2>5. Checked(r)'
    BY <1>1, <2>4 DEF Checked, CheckinSteps, TablesInv, tables
  <2>6. QED
    BY <1>1, <2>3, <2>4, <2>5, QuietKeeps
<1>3. CASE ReadCheckins(r, "snap_checkins", "snap_done")
  <2> DEFINE q == [req[r] EXCEPT !.at = "snap_done", !.entered = checkins]
  <2>1. req' = [req EXCEPT ![r] = q] /\ req[r].at = "snap_checkins"
    BY <1>1, <1>3 DEF ReadCheckins, At
  <2>2. q \in Request
    BY <1>1 DEF Request, Steps, TypeOK
  <2>3. Alone(r) /\ req'[r] = q
    BY <1>1, <2>1, <2>2 DEF Alone
  <2>4. req'[r].at = "snap_done" /\ req'[r].seen = req[r].seen /\ req'[r].entered = checkins
    BY <1>1, <2>3 DEF Request
  <2>5. Checked(r)'
    BY <1>1, <2>1, <2>4 DEF Checked, CheckinSteps
  <2>6. QED
    BY <1>1, <2>3, <2>4, <2>5, QuietKeeps
<1>4. QED
  BY <1>2, <1>3 DEF SnapshotQuery

\* A sale of which nothing was there cannot have been voided, and nobody works on it.
LEMMA SellKeeps ==
  ASSUME IInv, NEW s \in Sales, Sell(s)
  PROVE  IInv'
<1>1. /\ TicketsOf(s) # {} /\ \A t \in TicketsOf(s) : status[t] = "absent"
      /\ status' = [t \in Tickets |-> IF SaleOf[t] = s THEN "issued" ELSE status[t]]
      /\ UNCHANGED <<voided, checkins, greens, req>> /\ TypeOK /\ TablesInv
  BY DEF Sell, IInv, With, TicketsOf
<1>2. \A t \in Tickets : status'[t] = IF SaleOf[t] = s THEN "issued" ELSE status[t]
  BY <1>1
<1>3. \A t \in Tickets : SaleOf[t] = s => status[t] = "absent"
  BY <1>1 DEF TicketsOf
<1>4. s \notin voided
  BY <1>1, <1>3 DEF TablesInv, TicketsOf
<1>5. Grows
  BY <1>1, <1>2, <1>3 DEF Grows
<1>6. TypeOK'
  BY <1>1 DEF TypeOK, Statuses
<1>7. TablesInv'
  <2>1. OneGreen'
    BY <1>1 DEF TablesInv, OneGreen
  <2>2. VoidedSaleIsEmpty'
    BY <1>1, <1>2, <1>4 DEF TablesInv, VoidedSaleIsEmpty, TicketsOf, With
  <2>3. \A u \in Tickets : status'[u] = "checked_in" => u \in checkins'
    BY <1>1, <1>2 DEF TablesInv
  <2>4. \A u, w \in Tickets :
          SaleOf[u] = SaleOf[w] /\ status'[u] = "absent" => status'[w] = "absent"
    BY <1>1, <1>2 DEF TablesInv
  <2>5. \A u \in Tickets : SaleOf[u] \in voided' => status'[u] # "absent"
    BY <1>1, <1>2 DEF TablesInv
  <2>6. QED
    BY <2>1, <2>2, <2>3, <2>4, <2>5 DEF TablesInv
<1>8. ASSUME NEW x \in Requests PROVE Checked(x)'
  BY <1>1, <1>5, OtherKeeps DEF IInv, Checked, At
<1>9. OneMarks'
  BY <1>1 DEF OneMarks, At, IInv
<1>10. QED
  BY <1>6, <1>7, <1>8, <1>9 DEF IInv

---------------------------------------------------------------------------
(* The invariant holds.                                                    *)

LEMMA IInvInit == Init => IInv
<1> SUFFICES ASSUME Init PROVE IInv
  OBVIOUS
<1>1. TypeOK
  BY IdleType DEF Init, TypeOK, Statuses
<1>2. TablesInv
  BY DEF Init, TablesInv, OneGreen, VoidedSaleIsEmpty
<1>3. \A r \in Requests : req[r] = Idle
  BY DEF Init
<1>4. OneMarks /\ \A r \in Requests : Checked(r)
  BY <1>3, IdleType DEF OneMarks, At, Checked, CheckinSteps
<1>5. QED
  BY <1>1, <1>2, <1>4 DEF IInv

LEMMA IInvNext == IInv /\ [Next]_vars => IInv'
<1> SUFFICES ASSUME IInv, [Next]_vars PROVE IInv'
  OBVIOUS
<1>1. ASSUME NEW r \in Requests, Start(r) PROVE IInv'
  BY <1>1, StartKeeps
<1>2. ASSUME NEW r \in Requests, Abort(r) \/ SnapshotReply(r) PROVE IInv'
  BY <1>2, FinishKeeps DEF Abort, SnapshotReply
<1>3. ASSUME NEW r \in Requests, Step(r) PROVE IInv'
  <2>1. CASE CheckinTicket(r) \/ CheckinSale(r) \/ CheckinInsert(r) \/ CheckinMark(r)
    BY <2>1, CheckinTicketKeeps, CheckinSaleKeeps, CheckinInsertKeeps, CheckinMarkKeeps
  <2>2. CASE VoidTicketRead(r) \/ VoidTicketWrite(r)
    BY <2>2, VoidTicketReadKeeps, VoidTicketWriteKeeps
  <2>3. CASE VoidSaleRead(r) \/ VoidSaleCount(r) \/ VoidSaleTickets(r) \/ VoidSaleCommit(r)
    BY <2>3, VoidSaleReadKeeps, VoidSaleCountKeeps, VoidSaleTicketsKeeps, VoidSaleCommitKeeps
  <2>4. CASE SnapshotQuery(r)
    BY <2>4, SnapshotQueryKeeps
  <2>5. QED
    BY <1>2, <1>3, <2>1, <2>2, <2>3, <2>4 DEF Step
<1>4. ASSUME NEW s \in Sales, Sell(s) PROVE IInv'
  BY <1>4, SellKeeps
<1>5. CASE UNCHANGED vars
  <2>1. TypeOK' /\ TablesInv' /\ OneMarks'
    BY <1>5 DEF vars, IInv, TypeOK, TablesInv, OneGreen, VoidedSaleIsEmpty, TicketsOf, With,
                OneMarks, At
  <2>2. ASSUME NEW x \in Requests PROVE Checked(x)'
    BY <1>5, OtherKeeps DEF vars, IInv, Grows, Checked, At
  <2>3. QED
    BY <2>1, <2>2 DEF IInv
<1>6. QED
  BY <1>1, <1>2, <1>3, <1>4, <1>5 DEF Next

LEMMA Invariant == Spec => []IInv
  BY IInvInit, IInvNext, PTL DEF Spec

---------------------------------------------------------------------------
(* What the door can rely on.                                              *)

\* The tables and the requests always have their types.
THEOREM DoorTypeCorrect == Spec => []TypeOK
<1>1. IInv => TypeOK
  BY DEF IInv
<1>2. QED
  BY <1>1, Invariant, PTL

\* However many devices scan a ticket and however often a batch is retried, "ok" is
\* answered for it once at most, and only when its entry is recorded.
THEOREM OneGreenPerTicket == Spec => []OneGreen
<1>1. IInv => OneGreen
  BY DEF IInv, TablesInv
<1>2. QED
  BY <1>1, Invariant, PTL

\* A request never lets in a ticket that was void when the request arrived.
THEOREM AnnulledNeverEnters == Spec => []AnnulledStaysOut
<1>1. IInv => AnnulledStaysOut
  BY DEF IInv, AnnulledStaysOut, Checked
<1>2. QED
  BY <1>1, Invariant, PTL

\* A sale that is voided while its tickets are scanned and annulled one by one keeps
\* none that would still be valid.
THEOREM VoidLeavesNoneValid == Spec => []VoidedSaleIsEmpty
<1>1. IInv => VoidedSaleIsEmpty
  BY DEF IInv, TablesInv
<1>2. QED
  BY <1>1, Invariant, PTL

\* The two queries of a snapshot agree on who entered, with entries between them.
THEOREM SnapshotAgrees == Spec => []SnapshotNamesWhoEntered
<1>1. IInv => SnapshotNamesWhoEntered
  BY DEF IInv, SnapshotNamesWhoEntered, Checked, At
<1>2. QED
  BY <1>1, Invariant, PTL

---------------------------------------------------------------------------
(* Puerta implements PuertaLedger.                                         *)

\* A step that lets nobody in annuls the tickets that become void, if any.
LEMMA LedgerAnnuls ==
  ASSUME checkins' = checkins, With("void") \subseteq With("void")'
  PROVE  Ledger!Next
<1> DEFINE T == With("void")' \ With("void")
<1>1. T \subseteq Tickets
  BY DEF With
<1>2. T \cap With("void") = {} /\ With("void")' = With("void") \cup T
  OBVIOUS
<1>3. Ledger!Annul(T)
  BY <1>2 DEF Ledger!Annul
<1>4. QED
  BY <1>1, <1>3 DEF Ledger!Next

LEMMA LedgerStutters ==
  ASSUME UNCHANGED tables
  PROVE  [Ledger!Next]_(Ledger!vars)
  BY DEF tables, With, Ledger!vars

LEMMA LedgerEnters ==
  ASSUME IInv, NEW r \in Requests, CheckinInsert(r)
  PROVE  [Ledger!Next]_(Ledger!vars)
<1> DEFINE t == req[r].t
<1>1. t \in Tickets /\ checkins' = checkins \cup {t} /\ With("void")' = With("void")
  BY DEF CheckinInsert, IInv, TypeOK, Request, With
<1>2. CASE t \in checkins
  BY <1>1, <1>2 DEF Ledger!vars
<1>3. CASE t \notin checkins
  BY <1>1, <1>3 DEF Ledger!Next, Ledger!Enter
<1>4. QED
  BY <1>2, <1>3

LEMMA LedgerStep == IInv /\ [Next]_vars => [Ledger!Next]_(Ledger!vars)
<1> SUFFICES ASSUME IInv, [Next]_vars PROVE [Ledger!Next]_(Ledger!vars)
  OBVIOUS
<1>1. status \in [Tickets -> Statuses]
  BY DEF IInv, TypeOK
<1>2. ASSUME NEW r \in Requests, Start(r) \/ Abort(r) PROVE [Ledger!Next]_(Ledger!vars)
  BY <1>2, LedgerStutters
     DEF Start, Abort, CheckinStart, VoidTicketStart, VoidSaleStart, SnapshotStart, Begin
<1>3. ASSUME NEW r \in Requests, Step(r) PROVE [Ledger!Next]_(Ledger!vars)
  <2>1. CASE CheckinInsert(r)
    BY <2>1, LedgerEnters
  <2>2. CASE CheckinMark(r)
    BY <1>1, <2>2, LedgerAnnuls DEF CheckinMark, With
  <2>3. CASE VoidTicketWrite(r)
    BY <1>1, <2>3, LedgerAnnuls DEF VoidTicketWrite, With
  <2>4. CASE VoidSaleCommit(r)
    BY <1>1, <2>4, LedgerAnnuls DEF VoidSaleCommit, With
  <2>5. CASE \/ CheckinTicket(r) \/ CheckinSale(r) \/ VoidTicketRead(r)
             \/ VoidSaleRead(r) \/ VoidSaleCount(r) \/ VoidSaleTickets(r)
    BY <2>5, LedgerStutters
       DEF CheckinTicket, CheckinSale, VoidTicketRead, VoidSaleRead, VoidSaleCount, VoidSaleTickets
  <2>6. CASE SnapshotQuery(r) \/ SnapshotReply(r)
    BY <2>6, LedgerStutters DEF SnapshotQuery, ReadTickets, ReadCheckins, SnapshotReply
  <2>7. QED
    BY <1>3, <2>1, <2>2, <2>3, <2>4, <2>5, <2>6 DEF Step
<1>4. ASSUME NEW s \in Sales, Sell(s) PROVE [Ledger!Next]_(Ledger!vars)
  BY <1>1, <1>4, LedgerAnnuls DEF Sell, With, TicketsOf
<1>5. CASE UNCHANGED vars
  BY <1>5, LedgerStutters DEF vars, tables
<1>6. QED
  BY <1>2, <1>3, <1>4, <1>5 DEF Next

\* With batches, retries, cancellations and failures at once, tickets enter one by one,
\* each at most once, and neither an entry nor a cancellation is ever undone.
THEOREM ImplementsDoorLedger == Spec => EntriesAreFinal
<1>1. Init => Ledger!Init
  BY DEF Init, Ledger!Init, With
<1>2. QED
  BY <1>1, Invariant, LedgerStep, PTL DEF Spec, Ledger!Spec, EntriesAreFinal
=============================================================================
