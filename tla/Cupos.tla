------------------------------- MODULE Cupos --------------------------------
(***************************************************************************)
(* Capacity ("cupo") of a function and personal quotas ("cupo personal")   *)
(* of the sellers: the handlers that sell, cancel, assign quotas, edit and *)
(* delete functions and change the team, run as concurrent requests over   *)
(* PostgreSQL in READ COMMITTED.  A step of a request is one statement of  *)
(* its handler (or a group of statements nothing can tell apart), so what  *)
(* other requests commit between two statements is seen or missed exactly  *)
(* as in the database.                                                     *)
(*                                                                         *)
(* The tickets are kept as the counts the queries return; "comp" counts    *)
(* complimentary tickets, which use capacity and no quota.                 *)
(***************************************************************************)
EXTENDS Integers, FiniteSets, FiniteSetsExt

CONSTANTS
    Functions,    \* functions (shows) of the organization
    Seasons,      \* its seasons
    ActiveSeason, \* the season in course
    SeasonOf,     \* SeasonOf[f]: the season of function f
    Users,        \* people who may sell
    Role0,        \* Role0[s][u]: u's role in season s at the start
    Churn,        \* people whose membership is edited
    Edited,       \* functions whose capacity is edited
    Requests,     \* requests the server serves at the same time
    MaxCapacity,  \* largest capacity a function is given
    MaxQuantity,  \* largest quantity of a sale
    Free          \* the value of a row lock nobody holds

Roles == {"seller", "admin", "none"}  \* "none": door staff, gone or never in
Comp == "comp"
Buckets == Users \cup {Comp}
Quotas == 0..MaxCapacity

ASSUME CuposAssumption ==
    /\ Functions # {} /\ IsFiniteSet(Users)
    /\ MaxCapacity \in Nat /\ MaxQuantity \in Nat
    /\ ActiveSeason \in Seasons
    /\ SeasonOf \in [Functions -> Seasons]
    /\ Role0 \in [Seasons -> [Users -> Roles]]
    /\ Churn \subseteq Users
    /\ Edited \subseteq Functions
    /\ Free \notin Requests
    /\ Comp \notin Users

VARIABLES
    capacity,   \* capacity[f], 0 while the row does not exist
    created,    \* ids handed out so far: an id is never used twice
    lock,       \* lock[f]: the request that holds the row lock of f, or Free
    issued,     \* issued[f]: live tickets of f (CountActiveTickets)
    tickets,    \* tickets[f][b]: live tickets of f sold by b (SoldBySellerInFunction)
    hasSales,   \* functions with some sale, voided ones included
    entered,    \* functions with some check-in
    alloc,      \* alloc[f][u]: the quota of u in f, 0 when there is no row
    role,       \* role[s][u]: membership of u in season s
    returned,   \* history: who sells again with the quotas of before she left
    req         \* req[r]: the request r is serving and how far it got

vars == <<capacity, created, lock, issued, tickets, hasSales, entered, alloc,
          role, returned, req>>
tables == <<capacity, created, issued, tickets, hasSales, entered, alloc, role, returned>>

---------------------------------------------------------------------------
(* Requests.  "at" is the statement the request runs next.                 *)

SaleSteps == {"sale_lock", "sale_room", "sale_quota", "sale_sold", "sale_insert"}
PutSteps == {"put_lock", "put_check", "put_apply"}
PatchSteps == {"patch_checkins", "patch_issued", "patch_assigned", "patch_write"}
DeleteSteps == {"del_sales", "del_allocs", "del_function"}
Steps == {"idle", "drop"} \cup SaleSteps \cup PutSteps \cup PatchSteps \cup DeleteSteps

\* The statements a request runs while it holds the row lock of its function.
LockedSteps == {"sale_room", "sale_quota", "sale_sold", "sale_insert",
                "put_check", "put_apply"}

Request == [at : Steps,
            f : Functions,              \* the function it is about
            who : Buckets,              \* seller, or whose quotas are dropped
            limited : BOOLEAN,          \* the sale is subject to a quota
            n : Nat,                    \* tickets of a sale, or the new capacity
            seen : Nat,                 \* the capacity, then the quota, it has read
            batch : SUBSET Users,       \* people of the batch (of a PUT), or
                                        \* whose rows a DELETE has removed
            todo : SUBSET Users,        \* those of the batch not yet checked
            want : [Users -> Quotas]]   \* the quota the batch gives to each

NoWant == [u \in Users |-> 0]
Idle == [at |-> "idle", f |-> CHOOSE f \in Functions : TRUE, who |-> Comp,
         limited |-> FALSE, n |-> 0, seen |-> 0, batch |-> {}, todo |-> {},
         want |-> NoWant]

At(r, step) == req[r].at = step
Begin(r, q) ==
    /\ At(r, "idle")
    /\ req' = [req EXCEPT ![r] = q]
    /\ UNCHANGED <<tables, lock>>
Goto(r, step) == req' = [req EXCEPT ![r].at = step]
GotoKnowing(r, step, m) == req' = [req EXCEPT ![r].at = step, ![r].seen = m]
Finish(r) == req' = [req EXCEPT ![r] = Idle]
Unlock(r) == lock' = [lock EXCEPT ![req[r].f] = Free]
Exists(f) == capacity[f] > 0

Init ==
    /\ capacity = [f \in Functions |-> 0]
    /\ created = {}
    /\ lock = [f \in Functions |-> Free]
    /\ issued = [f \in Functions |-> 0]
    /\ tickets = [f \in Functions |-> [b \in Buckets |-> 0]]
    /\ hasSales = {}
    /\ entered = {}
    /\ alloc = [f \in Functions |-> NoWant]
    /\ role = Role0
    /\ returned = {}
    /\ req = [r \in Requests |-> Idle]

---------------------------------------------------------------------------
(* POST /api/sales: one transaction that locks the row of the function     *)
(* first.  The role of the caller was resolved when the request arrived.   *)

NewSale(f, bucket, n, limited) ==
    [Idle EXCEPT !.at = "sale_lock", !.f = f, !.who = bucket, !.n = n, !.limited = limited]

SaleStart(r) ==
    \E f \in created, u \in Users, n \in 1..MaxQuantity :
        \/ /\ role[ActiveSeason][u] = "seller"
           /\ Begin(r, NewSale(f, u, n, TRUE))
        \/ /\ role[ActiveSeason][u] = "admin"
           /\ \E bucket \in {u, Comp} : Begin(r, NewSale(f, bucket, n, FALSE))

\* Mutant: the row is read without FOR UPDATE.
LockFunction_NoLock(r, from, to) ==
    LET f == req[r].f IN
    /\ At(r, from)
    /\ IF Exists(f) THEN GotoKnowing(r, to, capacity[f]) ELSE Finish(r)
    /\ UNCHANGED <<tables, lock>>

\* GetFunctionForUpdate: waits for the row, and finds it gone or locks it.
LockFunction(r, from, to) ==
    LET f == req[r].f IN
    /\ At(r, from)
    /\ lock[f] = Free
    /\ IF Exists(f)
       THEN /\ lock' = [lock EXCEPT ![f] = r]
            /\ GotoKnowing(r, to, capacity[f])
       ELSE /\ Finish(r)
            /\ UNCHANGED lock
    /\ UNCHANGED tables

SaleLock(r) == LockFunction(r, "sale_lock", "sale_room")

\* Mutant: the quantity is left out of the comparison.
FitsCapacity_NoQuantity(cap, active, quantity) == active <= cap

FitsCapacity(cap, active, quantity) == active + quantity <= cap

\* Mutant: the handler returns without the deferred rollback.
Rollback_Forgotten(r) == Finish(r) /\ UNCHANGED lock

\* A transaction that answers an error: the deferred rollback frees the row.
Rollback(r) == Finish(r) /\ Unlock(r)

SaleRoom(r) ==
    /\ At(r, "sale_room")
    /\ IF FitsCapacity(req[r].seen, issued[req[r].f], req[r].n)
       THEN /\ Goto(r, IF req[r].limited THEN "sale_quota" ELSE "sale_insert")
            /\ UNCHANGED lock
       ELSE Rollback(r)
    /\ UNCHANGED tables

SaleQuota(r) ==
    LET q == alloc[req[r].f][req[r].who] IN
    /\ At(r, "sale_quota")
    /\ IF q > 0
       THEN GotoKnowing(r, "sale_sold", q) /\ UNCHANGED lock
       ELSE Rollback(r)
    /\ UNCHANGED tables

\* Mutant: the seller may always sell while she is below her quota.
SaleSold_NoQuantity(r) ==
    /\ At(r, "sale_sold")
    /\ IF tickets[req[r].f][req[r].who] < req[r].seen
       THEN Goto(r, "sale_insert") /\ UNCHANGED lock
       ELSE Rollback(r)
    /\ UNCHANGED tables

SaleSold(r) ==
    /\ At(r, "sale_sold")
    /\ IF tickets[req[r].f][req[r].who] + req[r].n <= req[r].seen
       THEN Goto(r, "sale_insert") /\ UNCHANGED lock
       ELSE Rollback(r)
    /\ UNCHANGED tables

\* INSERT of the sale and of its tickets, and COMMIT: nobody sees the rows before.
SaleInsert(r) ==
    LET f == req[r].f IN
    /\ At(r, "sale_insert")
    /\ issued' = [issued EXCEPT ![f] = @ + req[r].n]
    /\ tickets' = [tickets EXCEPT ![f][req[r].who] = @ + req[r].n]
    /\ hasSales' = hasSales \cup {f}
    /\ Rollback(r)
    /\ UNCHANGED <<capacity, created, entered, alloc, role, returned>>

---------------------------------------------------------------------------
(* PUT /api/functions/{id}/allocations: one transaction under the same     *)
(* row lock.  That the function is over (starts_at + 3h) is not modelled:  *)
(* the refusal it causes is one of Abort.                                  *)

NewPut(f, batch, want) ==
    [Idle EXCEPT !.at = "put_lock", !.f = f, !.batch = batch, !.todo = batch, !.want = want]

PutStart(r) ==
    \E f \in created, batch \in SUBSET Users \ {{}} : \E w \in [batch -> Quotas] :
        Begin(r, NewPut(f, batch, [u \in Users |-> IF u \in batch THEN w[u] ELSE 0]))

PutLock(r) == LockFunction(r, "put_lock", "put_check")

\* Mutant: a quota may be lowered below what the person has sold.
PutCheck_RoleOnly(r) ==
    /\ At(r, "put_check")
    /\ \E u \in req[r].todo :
         IF role[SeasonOf[req[r].f]][u] = "seller"
         THEN /\ req' = [req EXCEPT
                   ![r].todo = @ \ {u},
                   ![r].at = IF req[r].todo = {u} THEN "put_apply" ELSE "put_check"]
              /\ UNCHANGED lock
         ELSE Rollback(r)
    /\ UNCHANGED tables

\* GetMembership and SoldBySellerInFunction of one person of the batch.
PutCheck(r) ==
    LET f == req[r].f IN
    /\ At(r, "put_check")
    /\ \E u \in req[r].todo :
         IF role[SeasonOf[f]][u] = "seller" /\ req[r].want[u] >= tickets[f][u]
         THEN /\ req' = [req EXCEPT
                   ![r].todo = @ \ {u},
                   ![r].at = IF req[r].todo = {u} THEN "put_apply" ELSE "put_check"]
              /\ UNCHANGED lock
         ELSE Rollback(r)
    /\ UNCHANGED tables

\* SumAllocations: the quotas of those who are sellers of the season right now.
SumAllocations(f, quota) ==
    MapThenSumSet(LAMBDA u : quota[u], {u \in Users : role[SeasonOf[f]][u] = "seller"})

\* A DELETE of f that is waiting for the row of f keeps the quota rows it has removed.
HeldByDelete(f, S) == \E d \in Requests :
    At(d, "del_function") /\ req[d].f = f /\ req[d].batch \cap S # {}

\* Mutant: each quota of the batch is compared with the capacity on its own.
PutApply_EachAlone(r) ==
    LET f == req[r].f
        q == [u \in Users |-> IF u \in req[r].batch THEN req[r].want[u] ELSE alloc[f][u]]
    IN
    /\ At(r, "put_apply")
    /\ ~HeldByDelete(f, req[r].batch)
    /\ alloc' = IF \A u \in req[r].batch : q[u] <= req[r].seen
                THEN [alloc EXCEPT ![f] = q] ELSE alloc
    /\ Rollback(r)
    /\ UNCHANGED <<capacity, created, issued, tickets, hasSales, entered, role, returned>>

\* The upserts and deletes of the batch, the check on the sum, and COMMIT.
PutApply(r) ==
    LET f == req[r].f
        q == [u \in Users |-> IF u \in req[r].batch THEN req[r].want[u] ELSE alloc[f][u]]
    IN
    /\ At(r, "put_apply")
    /\ ~HeldByDelete(f, req[r].batch)
    /\ alloc' = IF SumAllocations(f, q) <= req[r].seen
                THEN [alloc EXCEPT ![f] = q] ELSE alloc
    /\ Rollback(r)
    /\ UNCHANGED <<capacity, created, issued, tickets, hasSales, entered, role, returned>>

---------------------------------------------------------------------------
(* PATCH /api/functions/{id}: no transaction and no lock.  It checks what  *)
(* it read and rewrites every column, so a PATCH that only changes the     *)
(* name writes back the capacity it read at the start.                     *)

NewPatch(f, c) ==
    [Idle EXCEPT !.at = "patch_checkins", !.f = f, !.n = c, !.seen = capacity[f]]

PatchStart(r) ==
    \E f \in created :
        /\ Exists(f)
        /\ \E c \in IF f \in Edited THEN 1..MaxCapacity ELSE {capacity[f]} :
              Begin(r, NewPatch(f, c))

\* A check of the handler: go on, or answer 409 and end the request.
Check(r, from, ok, to) ==
    /\ At(r, from)
    /\ IF ok THEN Goto(r, to) ELSE Finish(r)
    /\ UNCHANGED <<tables, lock>>

PatchCheckins(r) == Check(r, "patch_checkins", req[r].f \notin entered,
                          IF req[r].n < req[r].seen THEN "patch_issued" ELSE "patch_write")

PatchIssued(r) == Check(r, "patch_issued", req[r].n >= issued[req[r].f], "patch_assigned")

PatchAssigned(r) == Check(r, "patch_assigned",
                          req[r].n >= SumAllocations(req[r].f, alloc[req[r].f]), "patch_write")

\* The UPDATE waits for whoever holds the row, and writes what it came with.
PatchWrite(r) ==
    LET f == req[r].f IN
    /\ At(r, "patch_write")
    /\ lock[f] = Free
    /\ capacity' = IF Exists(f) THEN [capacity EXCEPT ![f] = req[r].n] ELSE capacity
    /\ Finish(r)
    /\ UNCHANGED <<created, lock, issued, tickets, hasSales, entered, alloc, role, returned>>

---------------------------------------------------------------------------
(* DELETE /api/functions/{id}: the sales are counted outside the           *)
(* transaction; inside it, the foreign keys have the last word.            *)

NewDelete(f) == [Idle EXCEPT !.at = "del_sales", !.f = f]

DeleteStart(r) == \E f \in created : Exists(f) /\ Begin(r, NewDelete(f))

DeleteSales(r) == Check(r, "del_sales", req[r].f \notin hasSales, "del_allocs")

\* Removes the quota rows it sees; they stay visible to others until COMMIT.
DeleteAllocs(r) ==
    LET f == req[r].f
        rows == {u \in Users : alloc[f][u] > 0}
    IN
    /\ At(r, "del_allocs")
    /\ ~HeldByDelete(f, rows)
    /\ req' = [req EXCEPT ![r].at = "del_function", ![r].batch = rows]
    /\ UNCHANGED <<tables, lock>>

\* Mutant: the foreign key of the sales does not protect the function.
Referenced_NoSales(r) == \E u \in Users \ req[r].batch : alloc[req[r].f][u] > 0

\* A sale, or a quota row it has not removed, still refers to the function.
Referenced(r) == LET f == req[r].f IN
    f \in hasSales \/ \E u \in Users \ req[r].batch : alloc[f][u] > 0

DeleteFunction(r) ==
    LET f == req[r].f IN
    /\ At(r, "del_function")
    /\ lock[f] = Free
    /\ IF Referenced(r)
       THEN UNCHANGED <<capacity, alloc>>
       ELSE /\ capacity' = [capacity EXCEPT ![f] = 0]
            /\ alloc' = [alloc EXCEPT ![f] = NoWant]
    /\ Finish(r)
    /\ UNCHANGED <<created, lock, issued, tickets, hasSales, entered, role, returned>>

---------------------------------------------------------------------------
(* The team.  Changing a membership and dropping the quotas of that person *)
(* (in every function of every season) are two separate statements.  The   *)
(* rules about who may be removed are those of the team, not of the quotas.*)

NewDrop(u) == [Idle EXCEPT !.at = "drop", !.who = u]

\* Whoever is made a seller while rows of before are still there brings them back.
NowReturned(s, u, new) ==
    IF new = "seller" /\ role[s][u] # "seller" /\ \E f \in Functions : alloc[f][u] > 0
    THEN returned \cup {u} ELSE returned

\* auth.UpdateUser, on the season in course; "none" when she does not take part.
UpdateUser(r) ==
    /\ At(r, "idle")
    /\ \E u \in Churn, new \in Roles :
         /\ role' = [role EXCEPT ![ActiveSeason][u] = new]
         /\ returned' = NowReturned(ActiveSeason, u, new)
         /\ req' = IF new = "seller" THEN req
                   ELSE [req EXCEPT ![r] = NewDrop(u)]
    /\ UNCHANGED <<capacity, created, lock, issued, tickets, hasSales, entered, alloc>>

AddMember(s, u, new) ==
    /\ new # role[s][u]
    /\ role' = [role EXCEPT ![s][u] = new]
    /\ returned' = NowReturned(s, u, new)
    /\ UNCHANGED <<capacity, created, lock, issued, tickets, hasSales, entered, alloc, req>>

RemoveMember(r) ==
    /\ At(r, "idle")
    /\ \E s \in Seasons, u \in Churn :
         /\ role' = [role EXCEPT ![s][u] = "none"]
         /\ req' = [req EXCEPT ![r] = NewDrop(u)]
    /\ UNCHANGED <<capacity, created, lock, issued, tickets, hasSales, entered, alloc, returned>>

\* DeleteAllocationsForUser.
DropAllocations(r) ==
    LET u == req[r].who IN
    /\ At(r, "drop")
    /\ \A f \in Functions : ~HeldByDelete(f, {u})
    /\ alloc' = [f \in Functions |-> [alloc[f] EXCEPT ![u] = 0]]
    /\ returned' = returned \ {u}
    /\ Finish(r)
    /\ UNCHANGED <<capacity, created, lock, issued, tickets, hasSales, entered, role>>

---------------------------------------------------------------------------
(* Single-statement effects, and failures.                                 *)

CreateFunction(f, c) ==
    /\ f \notin created
    /\ created' = created \cup {f}
    /\ capacity' = [capacity EXCEPT ![f] = c]
    /\ UNCHANGED <<lock, issued, tickets, hasSales, entered, alloc, role, returned, req>>

\* Mutant: tickets that are void already are voided again.
Void_Twice(f, b, k) ==
    /\ f \in hasSales
    /\ issued' = [issued EXCEPT ![f] = @ - k]
    /\ tickets' = [tickets EXCEPT ![f][b] = @ - k]
    /\ UNCHANGED <<capacity, created, lock, hasSales, entered, alloc, role, returned, req>>

\* VoidTicket, or VoidSale with its k live tickets: neither locks the function.
Void(f, b, k) ==
    /\ k <= tickets[f][b]
    /\ k <= issued[f]             \* the tickets of b are some of those of f
    /\ issued' = [issued EXCEPT ![f] = @ - k]
    /\ tickets' = [tickets EXCEPT ![f][b] = @ - k]
    /\ UNCHANGED <<capacity, created, lock, hasSales, entered, alloc, role, returned, req>>

Checkin(f) ==
    /\ issued[f] > 0
    /\ f \notin entered
    /\ entered' = entered \cup {f}
    /\ UNCHANGED <<capacity, created, lock, issued, tickets, hasSales, alloc, role, returned, req>>

\* The request ends before its next statement (the client goes away, the
\* database fails, the function is over): its transaction rolls back, what
\* single statements have done stays done.
Abort(r) ==
    /\ ~At(r, "idle")
    /\ IF req[r].at \in LockedSteps THEN Unlock(r) ELSE UNCHANGED lock
    /\ Finish(r)
    /\ UNCHANGED tables

\* A PUT holds the function and waits for quota rows a DELETE has removed; the
\* DELETE waits for the function.  PostgreSQL ends one of the two.
DeadlockVictim(r) ==
    /\ \E p, d \in Requests :
         /\ r \in {p, d}
         /\ At(p, "put_apply")
         /\ At(d, "del_function") /\ req[d].f = req[p].f
         /\ req[d].batch \cap req[p].batch # {}
    /\ Abort(r)

\* The next statement of the request r is serving.
Step(r) ==
    \/ SaleLock(r) \/ SaleRoom(r) \/ SaleQuota(r) \/ SaleSold(r) \/ SaleInsert(r)
    \/ PutLock(r) \/ PutCheck(r) \/ PutApply(r)
    \/ PatchCheckins(r) \/ PatchIssued(r) \/ PatchAssigned(r) \/ PatchWrite(r)
    \/ DeleteSales(r) \/ DeleteAllocs(r) \/ DeleteFunction(r)
    \/ DropAllocations(r) \/ DeadlockVictim(r)

Start(r) ==
    \/ SaleStart(r) \/ PutStart(r) \/ PatchStart(r) \/ DeleteStart(r)
    \/ UpdateUser(r) \/ RemoveMember(r)

Next ==
    \/ \E r \in Requests : Start(r) \/ Step(r) \/ Abort(r)
    \/ \E f \in Functions, c \in 1..MaxCapacity : CreateFunction(f, c)
    \/ \E s \in Seasons, u \in Churn, new \in Roles : AddMember(s, u, new)
    \/ \E f \in Functions, b \in Buckets : \E k \in 1..MaxCapacity : Void(f, b, k)
    \/ \E f \in Functions : Checkin(f)

Spec == Init /\ [][Next]_vars

---------------------------------------------------------------------------
(* Properties.                                                             *)

TypeOK ==
    /\ capacity \in [Functions -> Nat]
    /\ created \subseteq Functions
    /\ lock \in [Functions -> Requests \cup {Free}]
    /\ issued \in [Functions -> Nat]
    /\ tickets \in [Functions -> [Buckets -> Nat]]
    /\ hasSales \subseteq Functions
    /\ entered \subseteq Functions
    /\ alloc \in [Functions -> [Users -> Quotas]]
    /\ role \in [Seasons -> [Users -> Roles]]
    /\ returned \subseteq Users
    /\ req \in [Requests -> Request]

\* A function whose capacity nobody edits never has more live tickets than seats,
\* whatever the sales, cancellations, quota changes and deletions running at once:
\* the row lock of handleCreateSale closes the gap between counting and inserting.
CapacityHolds ==
    \A f \in Functions \ Edited : issued[f] <= capacity[f]

\* A person who sells in the season in course, and whose membership nobody edits,
\* never has more live tickets in a function than her quota there: the quota is
\* checked by the sale, and not lowered below what is sold by the PUT.
QuotaHolds ==
    \A f \in Functions, u \in Users \ Churn :
        role[ActiveSeason][u] = "seller" => tickets[f][u] <= alloc[f][u]

\* The quotas of the sellers add up to no more than the capacity of a function whose
\* capacity nobody edits, with batches, deletions and changes of the team in between
\* (invariant 1 of handlePutAllocations).  Only whoever comes back to the role before
\* her old rows are deleted brings quotas no PUT has summed.
AssignedFits ==
    \A f \in Functions \ Edited :
        MapThenSumSet(LAMBDA u : alloc[f][u],
            {u \in Users \ returned : role[SeasonOf[f]][u] = "seller"}) <= capacity[f]

\* A function that does not exist has no ticket, no sale and no quota: the sale
\* or the quota that races its deletion makes the deletion fail, not the reverse.
DeletedIsBare ==
    \A f \in Functions : ~Exists(f) =>
        /\ f \notin hasSales /\ issued[f] = 0
        /\ \A b \in Buckets : tickets[f][b] = 0
        /\ \A u \in Users : alloc[f][u] = 0

\* What a request has checked is still true when it acts on it, whatever the others
\* have committed since: nobody moves the tickets, the capacity or (but for those
\* who leave) the quotas of a function under the request that holds its row.
StillTrue(r) ==
    LET f == req[r].f
        who == req[r].who
    IN
    /\ req[r].at \in LockedSteps => Exists(f) /\ lock[f] = r
    /\ req[r].at \in {"sale_room", "put_check", "put_apply"} => req[r].seen = capacity[f]
    /\ req[r].at \in {"sale_quota", "sale_sold", "sale_insert"} =>
          issued[f] + req[r].n <= capacity[f]
    /\ req[r].at \in SaleSteps /\ who \in Users \ Churn /\ ~req[r].limited =>
          role[ActiveSeason][who] # "seller"
    /\ req[r].at = "sale_sold" /\ who \notin Churn => req[r].seen = alloc[f][who]
    /\ req[r].at = "sale_insert" /\ req[r].limited /\ who \notin Churn =>
          tickets[f][who] + req[r].n <= alloc[f][who]
    /\ req[r].at \in {"put_check", "put_apply"} =>
          \A u \in req[r].batch \ req[r].todo : tickets[f][u] <= req[r].want[u]
    /\ req[r].at \in PatchSteps =>
          f \in created /\ (f \notin Edited => capacity[f] \in {req[r].n, 0})

ChecksStillTrue == \A r \in Requests : StillTrue(r)

\* Every sale takes its seats as if it were alone: Cupos implements SeatLedger.
Ledger == INSTANCE SeatLedger WITH Resizable <- Edited, seats <- issued
SeatsTakenAtomically == Ledger!Spec

\* What the README says of every function ("El cupo de una funcion no puede
\* editarse por debajo de lo ya emitido"), edited ones included.
CapacityCoversIssued == \A f \in Functions : issued[f] <= capacity[f]

\* What handlers_allocations.go:118 states, "SUM(allocations) <= capacity", of every
\* current seller, those who have left and come back included.
SumFitsCapacity ==
    \A f \in Functions \ Edited : SumAllocations(f, alloc[f]) <= capacity[f]

\* Every request is answered: nobody waits for a row for ever.
RequestsEnd == \A r \in Requests : ~At(r, "idle") ~> At(r, "idle")

\* PostgreSQL serves the waiters of a row in order (strong fairness of what waits),
\* runs every other statement, and breaks deadlocks; nothing makes requests start.
FairSpec ==
    /\ Spec
    /\ \A r \in Requests : SF_vars(Step(r))
=============================================================================
