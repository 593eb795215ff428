---------------------------- MODULE Cupos_proofs ----------------------------
(***************************************************************************)
(* Proofs about Cupos, for any number of functions, people and requests.   *)
(***************************************************************************)
EXTENDS Cupos, Sumas_proofs

---------------------------------------------------------------------------
(* What is true of a request whatever the tables hold: the part of the     *)
(* inductive invariant that looks at one record.                           *)

WellFormed(q) ==
    /\ q.limited => q.who \in Users
    /\ q.at \in {"sale_quota", "sale_sold"} => q.limited
    /\ q.at \in SaleSteps \cup PatchSteps => q.n >= 1
    /\ q.at = "put_lock" => q.todo = q.batch
    /\ q.at = "put_apply" => q.todo = {}
    /\ q.at = "drop" => q.who \in Churn

Good == {q \in Request : WellFormed(q)}

\* TypeOK is inductive once the requests are well-formed.
TypeInv == TypeOK /\ req \in [Requests -> Good]

LEMMA IdleType == Idle \in Good /\ Idle.at = "idle"
<1>1. Idle \in Request /\ Idle.at = "idle" /\ Idle.limited = FALSE
  BY CuposAssumption DEF Idle, Request, Steps, NoWant, Buckets, Quotas
<1>2. QED
  BY <1>1 DEF Good, WellFormed, SaleSteps, PatchSteps

\* The types of the fields of a request.
LEMMA FieldTypes ==
  ASSUME NEW q \in Good
  PROVE  /\ q.at \in Steps /\ q.f \in Functions /\ q.who \in Buckets
         /\ q.limited \in BOOLEAN /\ q.n \in Nat /\ q.seen \in Nat
         /\ q.batch \in SUBSET Users /\ q.todo \in SUBSET Users
         /\ q.want \in [Users -> Quotas]
         /\ q \in Request /\ WellFormed(q)
  BY DEF Request, Good

\* The steps of the same kind, where "n" keeps its meaning.
SameKind(from, to) ==
    \/ from \in SaleSteps /\ to \in SaleSteps
    \/ from \in PatchSteps /\ to \in PatchSteps
    \/ to \in DeleteSteps \cup {"put_check"}

\* A request that goes on to another statement.
LEMMA AtType ==
  ASSUME NEW q \in Good, NEW step \in Steps, SameKind(q.at, step),
         step \in {"sale_quota", "sale_sold"} => q.limited
  PROVE  [q EXCEPT !.at = step] \in Good
<1> DEFINE p == [q EXCEPT !.at = step]
<1>1. /\ p \in Request /\ p.at = step /\ p.f = q.f /\ p.who = q.who
      /\ p.limited = q.limited /\ p.n = q.n /\ p.todo = q.todo
  BY DEF Good, Request
<1>2. WellFormed(p)
  BY <1>1 DEF Good, WellFormed, SameKind, SaleSteps, PatchSteps, DeleteSteps
<1>3. QED
  BY <1>1, <1>2 DEF Good

\* A request that goes on with what it has read.
LEMMA SeenType ==
  ASSUME NEW q \in Good, NEW step \in Steps, NEW m \in Nat, SameKind(q.at, step),
         step \in {"sale_quota", "sale_sold"} => q.limited
  PROVE  [q EXCEPT !.at = step, !.seen = m] \in Good
<1> DEFINE p == [q EXCEPT !.at = step, !.seen = m]
<1>1. /\ p \in Request /\ p.at = step /\ p.f = q.f /\ p.who = q.who
      /\ p.limited = q.limited /\ p.n = q.n /\ p.todo = q.todo
  BY DEF Good, Request
<1>2. WellFormed(p)
  BY <1>1 DEF Good, WellFormed, SameKind, SaleSteps, PatchSteps, DeleteSteps
<1>3. QED
  BY <1>1, <1>2 DEF Good

\* A DELETE that has removed the quota rows of S.
LEMMA BatchType ==
  ASSUME NEW q \in Good, NEW S \in SUBSET Users
  PROVE  [q EXCEPT !.at = "del_function", !.batch = S] \in Good
<1> DEFINE p == [q EXCEPT !.at = "del_function", !.batch = S]
<1>1. /\ p \in Request /\ p.at = "del_function" /\ p.limited = q.limited /\ p.who = q.who
  BY DEF Good, Request, Steps, DeleteSteps
<1>2. WellFormed(p)
  BY <1>1 DEF Good, WellFormed, SaleSteps, PatchSteps, DeleteSteps
<1>3. QED
  BY <1>1, <1>2 DEF Good

\* A PUT that has checked one more person.
LEMMA TodoType ==
  ASSUME NEW q \in Good, NEW u \in q.todo
  PROVE  [q EXCEPT !.todo = q.todo \ {u},
                   !.at = IF q.todo = {u} THEN "put_apply" ELSE "put_check"] \in Good
<1> DEFINE p == [q EXCEPT !.todo = q.todo \ {u},
                          !.at = IF q.todo = {u} THEN "put_apply" ELSE "put_check"]
<1>1. /\ p \in Request /\ p.at = IF q.todo = {u} THEN "put_apply" ELSE "put_check"
      /\ p.limited = q.limited /\ p.who = q.who /\ p.todo = q.todo \ {u}
  BY DEF Good, Request, Steps, PutSteps
<1>2. WellFormed(p)
  BY <1>1 DEF Good, WellFormed, SaleSteps, PatchSteps
<1>3. QED
  BY <1>1, <1>2 DEF Good

---------------------------------------------------------------------------
(* The table of requests after each kind of update.                        *)

LEMMA ReqType ==
  ASSUME TypeInv, NEW r \in Requests, NEW q \in Good, req' = [req EXCEPT ![r] = q]
  PROVE  req' \in [Requests -> Good] /\ req' \in [Requests -> Request]
  BY DEF TypeInv, Good

\* The requests as they start.
LEMMA NewSaleType ==
  ASSUME NEW f \in Functions, NEW b \in Buckets, NEW n \in Nat \ {0},
         NEW limited \in BOOLEAN, limited => b \in Users
  PROVE  NewSale(f, b, n, limited) \in Good
<1> DEFINE p == NewSale(f, b, n, limited)
<1>1. p \in Request /\ p.at = "sale_lock" /\ p.limited = limited /\ p.who = b /\ p.n = n
  BY IdleType DEF NewSale, Request, Good, Steps, SaleSteps
<1>2. QED
  BY <1>1 DEF Good, WellFormed

LEMMA NewPutType ==
  ASSUME NEW f \in Functions, NEW batch \in SUBSET Users, NEW want \in [Users -> Quotas]
  PROVE  NewPut(f, batch, want) \in Good
<1> DEFINE p == NewPut(f, batch, want)
<1>1. /\ p \in Request /\ p.at = "put_lock" /\ p.todo = p.batch
      /\ p.limited = Idle.limited /\ p.who = Idle.who
  BY IdleType DEF NewPut, Request, Good, Steps, PutSteps
<1>2. QED
  BY <1>1, IdleType DEF Good, WellFormed, SaleSteps, PatchSteps

LEMMA NewPatchType ==
  ASSUME TypeInv, NEW f \in Functions, NEW c \in Nat \ {0}
  PROVE  NewPatch(f, c) \in Good
<1> DEFINE p == NewPatch(f, c)
<1>1. /\ p \in Request /\ p.at = "patch_checkins" /\ p.n = c
      /\ p.limited = Idle.limited /\ p.who = Idle.who
  BY IdleType DEF NewPatch, Request, Good, TypeInv, TypeOK, Steps, PatchSteps
<1>2. QED
  BY <1>1, IdleType DEF Good, WellFormed

LEMMA NewDeleteType ==
  ASSUME NEW f \in Functions
  PROVE  NewDelete(f) \in Good
<1> DEFINE p == NewDelete(f)
<1>1. p \in Request /\ p.at = "del_sales" /\ p.limited = Idle.limited /\ p.who = Idle.who
  BY IdleType DEF NewDelete, Request, Good, Steps, DeleteSteps
<1>2. QED
  BY <1>1, IdleType DEF Good, WellFormed, SaleSteps, PatchSteps

LEMMA NewDropType ==
  ASSUME NEW u \in Churn
  PROVE  NewDrop(u) \in Good
<1> DEFINE p == NewDrop(u)
<1>1. p \in Request /\ p.at = "drop" /\ p.limited = Idle.limited /\ p.who = u /\ u \in Users
  BY IdleType, CuposAssumption DEF NewDrop, Request, Good, Buckets, Steps
<1>2. QED
  BY <1>1 DEF Good, WellFormed, SaleSteps, PatchSteps

LEMMA BeginType ==
  ASSUME TypeInv, NEW r \in Requests, NEW q \in Good, Begin(r, q)
  PROVE  TypeInv'
<1>1. req' \in [Requests -> Good] /\ req' \in [Requests -> Request]
  BY ReqType DEF Begin
<1>2. QED
  BY <1>1 DEF TypeInv, TypeOK, Begin, tables

LEMMA FinishType ==
  ASSUME TypeInv, NEW r \in Requests, Finish(r)
  PROVE  req' \in [Requests -> Good] /\ req' \in [Requests -> Request]
  BY ReqType, IdleType DEF Finish

LEMMA GotoType ==
  ASSUME TypeInv, NEW r \in Requests, NEW step \in Steps, Goto(r, step),
         SameKind(req[r].at, step),
         step \in {"sale_quota", "sale_sold"} => req[r].limited
  PROVE  req' \in [Requests -> Good] /\ req' \in [Requests -> Request]
<1>1. req[r] \in Good
  BY DEF TypeInv
<1>2. req' = [req EXCEPT ![r] = [req[r] EXCEPT !.at = step]]
  BY DEF Goto, TypeInv
<1>3. [req[r] EXCEPT !.at = step] \in Good
  BY <1>1, AtType
<1>4. QED
  BY <1>2, <1>3, ReqType

LEMMA RollbackType ==
  ASSUME TypeInv, NEW r \in Requests, Rollback(r)
  PROVE  /\ req' \in [Requests -> Good] /\ req' \in [Requests -> Request]
         /\ lock' \in [Functions -> Requests \cup {Free}]
<1>1. lock' \in [Functions -> Requests \cup {Free}]
  BY DEF Rollback, Unlock, TypeInv, TypeOK
<1>2. QED
  BY <1>1, FinishType DEF Rollback

LEMMA LockType ==
  ASSUME TypeInv, NEW r \in Requests, NEW from \in Steps, NEW to \in Steps,
         LockFunction(r, from, to), SameKind(from, to),
         to \notin {"sale_quota", "sale_sold"}
  PROVE  TypeInv'
<1>1. /\ req[r] \in Good /\ req[r].f \in Functions /\ capacity[req[r].f] \in Nat
      /\ req[r].at = from
  BY FieldTypes DEF TypeInv, TypeOK, LockFunction, At
<1>2. CASE Exists(req[r].f)
  <2>1. req' = [req EXCEPT ![r] = [req[r] EXCEPT !.at = to, !.seen = capacity[req[r].f]]]
    BY <1>2 DEF LockFunction, TypeInv, GotoKnowing
  <2>2. req' \in [Requests -> Good] /\ req' \in [Requests -> Request]
    BY <1>1, <2>1, SeenType, ReqType
  <2>3. lock' \in [Functions -> Requests \cup {Free}]
    BY <1>1, <1>2 DEF LockFunction, TypeInv, TypeOK
  <2>4. QED
    BY <2>2, <2>3 DEF LockFunction, TypeInv, TypeOK, tables
<1>3. CASE ~Exists(req[r].f)
  <2>1. req' \in [Requests -> Good] /\ req' \in [Requests -> Request] /\ UNCHANGED lock
    BY <1>3, FinishType DEF LockFunction
  <2>2. QED
    BY <2>1 DEF LockFunction, TypeInv, TypeOK, tables
<1>4. QED
  BY <1>2, <1>3

LEMMA CheckType ==
  ASSUME TypeInv, NEW r \in Requests, NEW from \in Steps, NEW ok, NEW to \in Steps,
         Check(r, from, ok, to), SameKind(from, to), to \notin SaleSteps
  PROVE  TypeInv'
<1>1. req' \in [Requests -> Good] /\ req' \in [Requests -> Request]
  BY GotoType, FinishType DEF Check, At, SaleSteps
<1>2. QED
  BY <1>1 DEF Check, TypeInv, TypeOK, tables

---------------------------------------------------------------------------
(* Types.                                                                  *)

LEMMA StartTypes ==
  ASSUME TypeInv, NEW r \in Requests, Start(r)
  PROVE  TypeInv'
<1>2a. created \subseteq Functions
  BY DEF TypeInv, TypeOK
<1>1. CASE SaleStart(r)
  <2>1. PICK f \in created, u \in Users, n \in 1..MaxQuantity :
           \/ Begin(r, NewSale(f, u, n, TRUE))
           \/ \E bucket \in {u, Comp} : Begin(r, NewSale(f, bucket, n, FALSE))
    BY <1>1 DEF SaleStart
  <2>2. f \in Functions /\ n \in Nat \ {0} /\ u \in Buckets /\ {u, Comp} \subseteq Buckets
    BY <1>2a, CuposAssumption DEF Buckets
  <2>3. NewSale(f, u, n, TRUE) \in Good
    BY <2>2, NewSaleType
  <2>4. \A bucket \in {u, Comp} : NewSale(f, bucket, n, FALSE) \in Good
    BY <2>2, NewSaleType
  <2>5. QED
    BY <2>1, <2>3, <2>4, BeginType
<1>2. CASE PutStart(r)
  <2>1. PICK f \in created, batch \in SUBSET Users :
           \E w \in [batch -> Quotas] :
           Begin(r, NewPut(f, batch, [u \in Users |-> IF u \in batch THEN w[u] ELSE 0]))
    BY <1>2 DEF PutStart
  <2>2. PICK w \in [batch -> Quotas] :
           Begin(r, NewPut(f, batch, [u \in Users |-> IF u \in batch THEN w[u] ELSE 0]))
    BY <2>1
  <2>3. [u \in Users |-> IF u \in batch THEN w[u] ELSE 0] \in [Users -> Quotas]
    BY CuposAssumption DEF Quotas
  <2>4. NewPut(f, batch, [u \in Users |-> IF u \in batch THEN w[u] ELSE 0]) \in Good
    BY <1>2a, <2>3, NewPutType
  <2>5. QED
    BY <2>2, <2>4, BeginType
<1>3. CASE PatchStart(r)
  <2>1. PICK f \in created : Exists(f) /\
           \E c \in IF f \in Edited THEN 1..MaxCapacity ELSE {capacity[f]} :
           Begin(r, NewPatch(f, c))
    BY <1>3 DEF PatchStart
  <2>2. \E c \in Nat \ {0} : Begin(r, NewPatch(f, c))
    BY <2>1, <1>2a, CuposAssumption DEF TypeInv, TypeOK, Exists
  <2>3. QED
    BY <1>2a, <2>2, NewPatchType, BeginType
<1>4. CASE DeleteStart(r)
  BY <1>4, <1>2a, NewDeleteType, BeginType DEF DeleteStart
<1>5. CASE UpdateUser(r)
  <2>1. PICK u \in Churn, new \in Roles :
           /\ role' = [role EXCEPT ![ActiveSeason][u] = new]
           /\ req' = req \/ req' = [req EXCEPT ![r] = NewDrop(u)]
    BY <1>5 DEF UpdateUser
  <2>2. req' \in [Requests -> Good] /\ req' \in [Requests -> Request]
    BY <2>1, NewDropType, ReqType DEF TypeInv, TypeOK
  <2>3. role' \in [Seasons -> [Users -> Roles]]
    BY <2>1, CuposAssumption DEF TypeInv, TypeOK
  <2>4. returned' \subseteq Users
    BY <1>5, CuposAssumption DEF UpdateUser, NowReturned, TypeInv, TypeOK
  <2>5. QED
    BY <1>5, <2>2, <2>3, <2>4 DEF UpdateUser, TypeInv, TypeOK
<1>6. CASE RemoveMember(r)
  <2>1. PICK s \in Seasons, u \in Churn :
           /\ role' = [role EXCEPT ![s][u] = "none"]
           /\ req' = [req EXCEPT ![r] = NewDrop(u)]
    BY <1>6 DEF RemoveMember
  <2>2. req' \in [Requests -> Good] /\ req' \in [Requests -> Request]
    BY <2>1, NewDropType, ReqType
  <2>3. role' \in [Seasons -> [Users -> Roles]]
    BY <2>1, CuposAssumption DEF TypeInv, TypeOK, Roles
  <2>4. QED
    BY <1>6, <2>2, <2>3 DEF RemoveMember, TypeInv, TypeOK
<1>7. QED
  BY <1>1, <1>2, <1>3, <1>4, <1>5, <1>6 DEF Start

LEMMA SaleTypes ==
  ASSUME TypeInv, NEW r \in Requests,
         SaleLock(r) \/ SaleRoom(r) \/ SaleQuota(r) \/ SaleSold(r) \/ SaleInsert(r)
  PROVE  TypeInv'
<1>1. /\ SaleSteps \subseteq Steps
      /\ SaleSteps = {"sale_lock", "sale_room", "sale_quota", "sale_sold", "sale_insert"}
  BY DEF Steps, SaleSteps
<1>2. /\ req[r] \in Good /\ req[r].f \in Functions /\ req[r].who \in Buckets
      /\ req[r].n \in Nat /\ WellFormed(req[r])
  BY FieldTypes DEF TypeInv
<1>3. CASE SaleLock(r)
  BY <1>1, <1>3, LockType DEF SaleLock, SameKind
<1>4. CASE SaleRoom(r)
  <2>1. /\ req' \in [Requests -> Good] /\ req' \in [Requests -> Request]
        /\ lock' \in [Functions -> Requests \cup {Free}]
    <3>1. CASE Rollback(r)
      BY <3>1, RollbackType
    <3>2. CASE /\ Goto(r, IF req[r].limited THEN "sale_quota" ELSE "sale_insert")
               /\ UNCHANGED lock
      <4>1. CASE req[r].limited
        BY <1>1, <1>4, <3>2, <4>1, GotoType DEF SaleRoom, At, SameKind, TypeInv, TypeOK
      <4>2. CASE ~req[r].limited
        BY <1>1, <1>4, <3>2, <4>2, GotoType DEF SaleRoom, At, SameKind, TypeInv, TypeOK
      <4>3. QED
        BY <4>1, <4>2
    <3>3. QED
      BY <1>4, <3>1, <3>2 DEF SaleRoom
  <2>2. QED
    BY <1>4, <2>1 DEF SaleRoom, TypeInv, TypeOK, tables
<1>5. CASE SaleQuota(r)
  <2> DEFINE q == alloc[req[r].f][req[r].who]
  <2>1. req[r].at = "sale_quota" /\ req[r].limited /\ req[r].who \in Users
    BY <1>2, <1>5 DEF SaleQuota, At, WellFormed
  <2>2. q \in Nat
    BY <1>2, <2>1, CuposAssumption DEF TypeInv, TypeOK, Quotas
  <2>3. CASE GotoKnowing(r, "sale_sold", q) /\ UNCHANGED lock
    <3>1. req' = [req EXCEPT ![r] = [req[r] EXCEPT !.at = "sale_sold", !.seen = q]]
      BY <2>3 DEF TypeInv, GotoKnowing
    <3>2. [req[r] EXCEPT !.at = "sale_sold", !.seen = q] \in Good
      BY <1>1, <1>2, <2>1, <2>2, SeenType DEF SameKind
    <3>3. req' \in [Requests -> Good] /\ req' \in [Requests -> Request]
      BY <3>1, <3>2, ReqType
    <3>4. QED
      BY <1>5, <2>3, <3>3 DEF SaleQuota, TypeInv, TypeOK, tables
  <2>4. CASE Rollback(r)
    BY <1>5, <2>4, RollbackType DEF SaleQuota, TypeInv, TypeOK, tables
  <2>5. QED
    BY <1>5, <2>3, <2>4 DEF SaleQuota
<1>6. CASE SaleSold(r)
  <2>1. CASE Goto(r, "sale_insert") /\ UNCHANGED lock
    <3>1. req' \in [Requests -> Good] /\ req' \in [Requests -> Request]
      BY <1>1, <1>6, <2>1, GotoType DEF SaleSold, At, SameKind
    <3>2. QED
      BY <1>6, <2>1, <3>1 DEF SaleSold, TypeInv, TypeOK, tables
  <2>2. CASE Rollback(r)
    BY <1>6, <2>2, RollbackType DEF SaleSold, TypeInv, TypeOK, tables
  <2>3. QED
    BY <1>6, <2>1, <2>2 DEF SaleSold
<1>7. CASE SaleInsert(r)
  <2>1. /\ req' \in [Requests -> Good] /\ req' \in [Requests -> Request]
        /\ lock' \in [Functions -> Requests \cup {Free}]
    BY <1>7, RollbackType DEF SaleInsert
  <2>2. issued' \in [Functions -> Nat] /\ tickets' \in [Functions -> [Buckets -> Nat]]
    BY <1>2, <1>7 DEF SaleInsert, TypeInv, TypeOK
  <2>3. hasSales' \subseteq Functions
    BY <1>2, <1>7 DEF SaleInsert, TypeInv, TypeOK
  <2>4. QED
    BY <1>7, <2>1, <2>2, <2>3 DEF SaleInsert, TypeInv, TypeOK
<1>8. QED
  BY <1>3, <1>4, <1>5, <1>6, <1>7

LEMMA PutTypes ==
  ASSUME TypeInv, NEW r \in Requests, PutLock(r) \/ PutCheck(r) \/ PutApply(r)
  PROVE  TypeInv'
<1>1. PutSteps \subseteq Steps /\ PutSteps = {"put_lock", "put_check", "put_apply"}
  BY DEF Steps, PutSteps
<1>2. /\ req[r] \in Good /\ req[r].f \in Functions /\ req[r].want \in [Users -> Quotas]
  BY FieldTypes DEF TypeInv
<1>3. CASE PutLock(r)
  BY <1>1, <1>3, LockType DEF PutLock, SameKind
<1>4. CASE PutCheck(r)
  <2>1. PICK u \in req[r].todo :
          \/ /\ req' = [req EXCEPT
                  ![r].todo = @ \ {u},
                  ![r].at = IF req[r].todo = {u} THEN "put_apply" ELSE "put_check"]
             /\ UNCHANGED lock
          \/ Rollback(r)
    BY <1>4 DEF PutCheck
  <2>2. CASE Rollback(r)
    BY <1>4, <2>2, RollbackType DEF PutCheck, TypeInv, TypeOK, tables
  <2>3. CASE /\ req' = [req EXCEPT
                  ![r].todo = @ \ {u},
                  ![r].at = IF req[r].todo = {u} THEN "put_apply" ELSE "put_check"]
             /\ UNCHANGED lock
    <3> DEFINE p == [req[r] EXCEPT !.todo = req[r].todo \ {u},
                        !.at = IF req[r].todo = {u} THEN "put_apply" ELSE "put_check"]
    <3>1. req' = [req EXCEPT ![r] = p]
      BY <2>3 DEF TypeInv
    <3>2. p \in Good
      BY <1>2, TodoType
    <3>3. req' \in [Requests -> Good] /\ req' \in [Requests -> Request]
      BY <3>1, <3>2, ReqType
    <3>4. QED
      BY <1>4, <2>3, <3>3 DEF PutCheck, TypeInv, TypeOK, tables
  <2>4. QED
    BY <2>1, <2>2, <2>3
<1>5. CASE PutApply(r)
  <2>1. /\ req' \in [Requests -> Good] /\ req' \in [Requests -> Request]
        /\ lock' \in [Functions -> Requests \cup {Free}]
    BY <1>5, RollbackType DEF PutApply
  <2> DEFINE q == [u \in Users |-> IF u \in req[r].batch THEN req[r].want[u]
                                   ELSE alloc[req[r].f][u]]
  <2>2. q \in [Users -> Quotas]
    BY <1>2 DEF TypeInv, TypeOK
  <2>3. alloc' = alloc \/ alloc' = [alloc EXCEPT ![req[r].f] = q]
    BY <1>5 DEF PutApply
  <2>4. alloc' \in [Functions -> [Users -> Quotas]]
    BY <1>2, <2>2, <2>3 DEF TypeInv, TypeOK
  <2>5. QED
    BY <1>5, <2>1, <2>4 DEF PutApply, TypeInv, TypeOK
<1>6. QED
  BY <1>3, <1>4, <1>5

LEMMA PatchTypes ==
  ASSUME TypeInv, NEW r \in Requests,
         PatchCheckins(r) \/ PatchIssued(r) \/ PatchAssigned(r) \/ PatchWrite(r)
  PROVE  TypeInv'
<1>1. /\ PatchSteps \subseteq Steps /\ PatchSteps \cap SaleSteps = {}
      /\ PatchSteps = {"patch_checkins", "patch_issued", "patch_assigned", "patch_write"}
  BY DEF Steps, PatchSteps, SaleSteps
<1>2. req[r] \in Good /\ req[r].f \in Functions /\ req[r].n \in Nat
  BY FieldTypes DEF TypeInv
<1>3. CASE PatchCheckins(r)
  <2>1. CASE req[r].n < req[r].seen
    BY <1>1, <1>3, <2>1, CheckType DEF PatchCheckins, SameKind
  <2>2. CASE ~(req[r].n < req[r].seen)
    BY <1>1, <1>3, <2>2, CheckType DEF PatchCheckins, SameKind
  <2>3. QED
    BY <2>1, <2>2
<1>4. CASE PatchIssued(r)
  BY <1>1, <1>4, CheckType DEF PatchIssued, SameKind
<1>5. CASE PatchAssigned(r)
  BY <1>1, <1>5, CheckType DEF PatchAssigned, SameKind
<1>6. CASE PatchWrite(r)
  <2>1. req' \in [Requests -> Good] /\ req' \in [Requests -> Request]
    BY <1>6, FinishType DEF PatchWrite
  <2>2. capacity' \in [Functions -> Nat]
    BY <1>2, <1>6 DEF PatchWrite, TypeInv, TypeOK
  <2>3. QED
    BY <1>6, <2>1, <2>2 DEF PatchWrite, TypeInv, TypeOK
<1>7. QED
  BY <1>3, <1>4, <1>5, <1>6

LEMMA DeleteTypes ==
  ASSUME TypeInv, NEW r \in Requests,
         DeleteSales(r) \/ DeleteAllocs(r) \/ DeleteFunction(r) \/ DropAllocations(r)
  PROVE  TypeInv'
<1>1. DeleteSteps \subseteq Steps /\ DeleteSteps \cap SaleSteps = {}
  BY DEF Steps, DeleteSteps, SaleSteps
<1>2. req[r] \in Good /\ req[r].f \in Functions
  BY FieldTypes DEF TypeInv
<1>3. CASE DeleteSales(r)
  <2>1. "del_allocs" \in DeleteSteps /\ "del_sales" \in DeleteSteps
    BY DEF DeleteSteps
  <2>2. QED
    BY <1>1, <1>3, <2>1, CheckType DEF DeleteSales, SameKind
<1>4. CASE DeleteAllocs(r)
  <2> DEFINE rows == {u \in Users : alloc[req[r].f][u] > 0}
  <2>1. req' = [req EXCEPT ![r] = [req[r] EXCEPT !.at = "del_function", !.batch = rows]]
    BY <1>4 DEF DeleteAllocs, TypeInv
  <2>2. [req[r] EXCEPT !.at = "del_function", !.batch = rows] \in Good
    BY <1>2, BatchType
  <2>3. req' \in [Requests -> Good] /\ req' \in [Requests -> Request]
    BY <2>1, <2>2, ReqType
  <2>4. QED
    BY <1>4, <2>3 DEF DeleteAllocs, TypeInv, TypeOK, tables
<1>5. CASE DeleteFunction(r)
  <2>1. req' \in [Requests -> Good] /\ req' \in [Requests -> Request]
    BY <1>5, FinishType DEF DeleteFunction
  <2>2. NoWant \in [Users -> Quotas]
    BY CuposAssumption DEF NoWant, Quotas
  <2>3. CASE capacity' = capacity /\ alloc' = alloc
    BY <1>5, <2>1, <2>3 DEF DeleteFunction, TypeInv, TypeOK
  <2>4. CASE /\ capacity' = [capacity EXCEPT ![req[r].f] = 0]
             /\ alloc' = [alloc EXCEPT ![req[r].f] = NoWant]
    <3>1. capacity' \in [Functions -> Nat] /\ alloc' \in [Functions -> [Users -> Quotas]]
      BY <1>2, <2>2, <2>4 DEF TypeInv, TypeOK
    <3>2. QED
      BY <1>5, <2>1, <3>1 DEF DeleteFunction, TypeInv, TypeOK
  <2>5. QED
    BY <1>5, <2>3, <2>4 DEF DeleteFunction
<1>6. CASE DropAllocations(r)
  <2>1. req' \in [Requests -> Good] /\ req' \in [Requests -> Request]
    BY <1>6, FinishType DEF DropAllocations
  <2>2. alloc' \in [Functions -> [Users -> Quotas]]
    <3>a. 0 \in Quotas /\ alloc \in [Functions -> [Users -> Quotas]]
      BY CuposAssumption DEF TypeInv, TypeOK, Quotas
    <3>1. \A f \in Functions : [alloc[f] EXCEPT ![req[r].who] = 0] \in [Users -> Quotas]
      BY <3>a
    <3>2. alloc' = [f \in Functions |-> [alloc[f] EXCEPT ![req[r].who] = 0]]
      BY <1>6 DEF DropAllocations
    <3>3. QED
      BY <3>1, <3>2
  <2>3. QED
    BY <1>6, <2>1, <2>2 DEF DropAllocations, TypeInv, TypeOK
<1>7. QED
  BY <1>3, <1>4, <1>5, <1>6

LEMMA AbortTypes ==
  ASSUME TypeInv, NEW r \in Requests, Abort(r)
  PROVE  TypeInv'
<1>1. req' \in [Requests -> Good] /\ req' \in [Requests -> Request]
  BY FinishType DEF Abort
<1>2. lock' \in [Functions -> Requests \cup {Free}]
  BY FieldTypes DEF Abort, Unlock, TypeInv, TypeOK
<1>3. QED
  BY <1>1, <1>2 DEF Abort, TypeInv, TypeOK, tables

LEMMA OtherTypes ==
  ASSUME TypeInv, [Next]_vars, ~\E r \in Requests : Start(r) \/ Step(r) \/ Abort(r)
  PROVE  TypeInv'
<1>1. CASE \E f \in Functions, c \in 1..MaxCapacity : CreateFunction(f, c)
  BY <1>1, CuposAssumption DEF CreateFunction, TypeInv, TypeOK
<1>2. CASE \E s \in Seasons, u \in Churn, new \in Roles : AddMember(s, u, new)
  BY <1>2, CuposAssumption DEF AddMember, NowReturned, TypeInv, TypeOK
<1>3. CASE \E f \in Functions, b \in Buckets : \E k \in 1..MaxCapacity : Void(f, b, k)
  BY <1>3, CuposAssumption DEF Void, TypeInv, TypeOK
<1>4. CASE \E f \in Functions : Checkin(f)
  BY <1>4 DEF Checkin, TypeInv, TypeOK
<1>5. CASE UNCHANGED vars
  BY <1>5 DEF vars, TypeInv, TypeOK
<1>6. QED
  BY <1>1, <1>2, <1>3, <1>4, <1>5 DEF Next

\* The initial state and every step keep the types and the requests well-formed.
LEMMA TypeInvInit == Init => TypeInv
  BY CuposAssumption, IdleType DEF Init, TypeInv, TypeOK, NoWant, Quotas, Good

LEMMA TypeInvNext == TypeInv /\ [Next]_vars => TypeInv'
<1> SUFFICES ASSUME TypeInv, [Next]_vars PROVE TypeInv'
  OBVIOUS
<1>1. CASE \E r \in Requests : Start(r) \/ Step(r) \/ Abort(r)
  BY <1>1, StartTypes, SaleTypes, PutTypes, PatchTypes, DeleteTypes, AbortTypes
     DEF Step, DeadlockVictim
<1>2. QED
  BY <1>1, OtherTypes

\* Every table and every request keeps its type.
THEOREM TypeCorrect == Spec => []TypeOK
<1>1. TypeInv => TypeOK
  BY DEF TypeInv
<1>2. QED
  BY <1>1, TypeInvInit, TypeInvNext, PTL DEF Spec
---------------------------------------------------------------------------
(* The inductive invariant.                                                *)

\* What relates the tables to each other.
TablesInv ==
    /\ \A f \in Functions : f \notin created => capacity[f] = 0
    /\ \A f \in Functions : f \notin hasSales =>
          issued[f] = 0 /\ \A b \in Buckets : tickets[f][b] = 0
    /\ \A f \in Functions : capacity[f] = 0 =>
          f \notin hasSales /\ \A u \in Users : alloc[f][u] = 0
    /\ CapacityHolds
    /\ QuotaHolds

IInv == TypeInv /\ TablesInv /\ ChecksStillTrue

\* What a step may do to the tables without contradicting what request q has checked.
Mild(q) ==
    LET f == req[q].f IN
    /\ created \subseteq created'
    /\ \A u \in Users \ Churn : role'[ActiveSeason][u] = role[ActiveSeason][u]
    /\ req[q].at \in LockedSteps =>
          /\ lock'[f] = lock[f]
          /\ capacity'[f] = capacity[f]
          /\ issued'[f] <= issued[f]
          /\ \A b \in Buckets : tickets'[f][b] <= tickets[f][b]
          /\ \A u \in Users \ Churn : alloc'[f][u] = alloc[f][u]
    /\ f \in created \ Edited => capacity'[f] \in {capacity[f], 0}

LEMMA MildKeeps ==
  ASSUME IInv, TypeInv', NEW q \in Requests, req'[q] = req[q], Mild(q)
  PROVE  StillTrue(q)'
<1> DEFINE f == req[q].f
           who == req[q].who
<1>1. /\ req[q] \in Good /\ f \in Functions /\ who \in Buckets /\ req[q].n \in Nat
      /\ WellFormed(req[q]) /\ req[q].batch \subseteq Users
      /\ req[q].want \in [Users -> Quotas]
  BY FieldTypes DEF IInv, TypeInv
<1>2. StillTrue(q)
  BY DEF IInv, ChecksStillTrue
<1>3. /\ issued[f] \in Nat /\ issued'[f] \in Nat /\ capacity[f] \in Nat
      /\ \A b \in Buckets : tickets[f][b] \in Nat /\ tickets'[f][b] \in Nat
      /\ Quotas \subseteq Nat /\ Users \subseteq Buckets
  BY <1>1, CuposAssumption DEF IInv, TypeInv, TypeOK, Quotas, Buckets
<1>4. req[q].at \in LockedSteps => Exists(f)' /\ lock'[f] = q
  BY <1>2 DEF StillTrue, Mild, Exists
<1>5. req[q].at \in {"sale_room", "put_check", "put_apply"} => req[q].seen = capacity'[f]
  BY <1>2 DEF StillTrue, Mild, LockedSteps
<1>6. req[q].at \in {"sale_quota", "sale_sold", "sale_insert"} =>
          issued'[f] + req[q].n <= capacity'[f]
  BY <1>1, <1>2, <1>3 DEF StillTrue, Mild, LockedSteps
<1>7. req[q].at \in SaleSteps /\ who \in Users \ Churn /\ ~req[q].limited =>
          role'[ActiveSeason][who] # "seller"
  BY <1>2 DEF StillTrue, Mild
<1>8. req[q].at = "sale_sold" /\ who \notin Churn => req[q].seen = alloc'[f][who]
  BY <1>1, <1>2 DEF StillTrue, Mild, LockedSteps, WellFormed
<1>9. req[q].at = "sale_insert" /\ req[q].limited /\ who \notin Churn =>
          tickets'[f][who] + req[q].n <= alloc'[f][who]
  <2> SUFFICES ASSUME req[q].at = "sale_insert", req[q].limited, who \notin Churn
               PROVE  tickets'[f][who] + req[q].n <= alloc'[f][who]
    OBVIOUS
  <2>1. /\ tickets'[f][who] <= tickets[f][who] /\ alloc'[f][who] = alloc[f][who]
        /\ tickets[f][who] + req[q].n <= alloc[f][who] /\ alloc[f][who] \in Nat
    <3>1. who \in Users \ Churn /\ req[q].at \in LockedSteps
      BY <1>1 DEF WellFormed, LockedSteps
    <3>2. tickets'[f][who] <= tickets[f][who] /\ alloc'[f][who] = alloc[f][who]
      BY <1>1, <3>1 DEF Mild
    <3>3. tickets[f][who] + req[q].n <= alloc[f][who]
      BY <1>2 DEF StillTrue
    <3>4. alloc[f][who] \in Nat
      <4>1. alloc \in [Functions -> [Users -> Quotas]]
        BY DEF IInv, TypeInv, TypeOK
      <4>2. QED
        BY <1>1, <1>3, <3>1, <4>1
    <3>5. QED
      BY <3>2, <3>3, <3>4
  <2>2. QED
    BY <1>1, <1>3, <2>1
<1>10. req[q].at \in {"put_check", "put_apply"} =>
          \A u \in req[q].batch \ req[q].todo : tickets'[f][u] <= req[q].want[u]
  <2> SUFFICES ASSUME req[q].at \in {"put_check", "put_apply"},
                      NEW u \in req[q].batch \ req[q].todo
               PROVE  tickets'[f][u] <= req[q].want[u]
    OBVIOUS
  <2>1. /\ tickets'[f][u] <= tickets[f][u] /\ tickets[f][u] <= req[q].want[u]
        /\ req[q].want[u] \in Nat /\ u \in Buckets
    BY <1>1, <1>2, <1>3 DEF StillTrue, Mild, LockedSteps
  <2>2. QED
    BY <1>3, <2>1
<1>11. req[q].at \in PatchSteps =>
          f \in created' /\ (f \notin Edited => capacity'[f] \in {req[q].n, 0})
  BY <1>2 DEF StillTrue, Mild
<1>12. QED
  BY <1>4, <1>5, <1>6, <1>7, <1>8, <1>9, <1>10, <1>11 DEF StillTrue

\* The requests that do not move keep what they have checked.
LEMMA OthersTrue ==
  ASSUME IInv, TypeInv', NEW r \in Requests, NEW q,
         req' = req \/ req' = [req EXCEPT ![r] = q],
         \A p \in Requests \ {r} : Mild(p)
  PROVE  \A p \in Requests \ {r} : StillTrue(p)'
<1> SUFFICES ASSUME NEW p \in Requests \ {r} PROVE StillTrue(p)'
  OBVIOUS
<1>1. req'[p] = req[p]
  BY DEF IInv, TypeInv
<1>2. QED
  BY <1>1, MildKeeps

\* A request that starts, and one that has nothing left to do, have checked nothing.
LEMMA NothingChecked ==
  ASSUME NEW r \in Requests, req'[r].at \in {"idle", "drop", "sale_lock", "put_lock"}
                               \cup DeleteSteps,
         req'[r].at = "sale_lock" => ~(/\ req'[r].who \in Users \ Churn
                                       /\ ~req'[r].limited
                                       /\ role'[ActiveSeason][req'[r].who] = "seller")
  PROVE  StillTrue(r)'
  BY DEF StillTrue, LockedSteps, SaleSteps, PatchSteps, DeleteSteps

\* A step that leaves the tables alone and takes or frees at most its own lock.
LEMMA MildIfUnchanged ==
  ASSUME IInv, NEW r \in Requests, UNCHANGED tables,
         \/ UNCHANGED lock
         \/ lock[req[r].f] \in {r, Free} /\ \E x : lock' = [lock EXCEPT ![req[r].f] = x]
  PROVE  \A p \in Requests \ {r} : Mild(p)
<1> SUFFICES ASSUME NEW p \in Requests \ {r} PROVE Mild(p)
  OBVIOUS
<1>1. /\ req[p].f \in Functions /\ req[r].f \in Functions /\ capacity \in [Functions -> Nat]
      /\ issued \in [Functions -> Nat] /\ tickets \in [Functions -> [Buckets -> Nat]]
      /\ lock \in [Functions -> Requests \cup {Free}]
  BY FieldTypes DEF IInv, TypeInv, TypeOK
<1>2. req[p].at \in LockedSteps => lock[req[p].f] = p
  BY DEF IInv, ChecksStillTrue, StillTrue
<1>3. req[p].at \in LockedSteps => lock'[req[p].f] = lock[req[p].f]
  BY <1>1, <1>2, CuposAssumption
<1>4. /\ issued[req[p].f] <= issued[req[p].f]
      /\ \A b \in Buckets : tickets[req[p].f][b] <= tickets[req[p].f][b]
  BY <1>1
<1>5. QED
  BY <1>3, <1>4 DEF Mild, tables

\* The tables as they are keep their invariant.
LEMMA TablesIfUnchanged ==
  ASSUME IInv, UNCHANGED tables
  PROVE  TablesInv'
  BY DEF IInv, TablesInv, CapacityHolds, QuotaHolds, tables

\* A whole step that leaves the tables alone.
LEMMA QuietStep ==
  ASSUME IInv, TypeInv', NEW r \in Requests, NEW q, UNCHANGED tables,
         req' = req \/ req' = [req EXCEPT ![r] = q],
         \/ UNCHANGED lock
         \/ lock[req[r].f] \in {r, Free} /\ \E x : lock' = [lock EXCEPT ![req[r].f] = x],
         StillTrue(r)'
  PROVE  IInv'
<1>1. \A p \in Requests \ {r} : StillTrue(p)'
  BY OthersTrue, MildIfUnchanged
<1>2. QED
  BY <1>1, TablesIfUnchanged DEF IInv, ChecksStillTrue

LEMMA FinishTrue ==
  ASSUME IInv, NEW r \in Requests, Finish(r)
  PROVE  StillTrue(r)'
<1>1. req'[r].at = "idle"
  BY IdleType DEF Finish, IInv, TypeInv
<1>2. QED
  BY <1>1, NothingChecked

\* A transaction that rolls back frees a row it holds and changes nothing.
LEMMA RollbackStep ==
  ASSUME IInv, TypeInv', NEW r \in Requests, req[r].at \in LockedSteps, Rollback(r),
         UNCHANGED tables
  PROVE  IInv'
<1>1. lock[req[r].f] = r
  BY DEF IInv, ChecksStillTrue, StillTrue
<1>2. StillTrue(r)'
  BY FinishTrue DEF Rollback
<1>3. QED
  BY <1>1, <1>2, QuietStep DEF Rollback, Finish, Unlock

---------------------------------------------------------------------------
(* The steps that start a request, and the team.                           *)

LEMMA NewFields ==
  /\ \A f, batch, want : NewPut(f, batch, want).at = "put_lock"
  /\ \A f, n : /\ NewPatch(f, n).at = "patch_checkins"
               /\ NewPatch(f, n).f = f
               /\ NewPatch(f, n).n = n
  /\ \A f : NewDelete(f).at = "del_sales"
  /\ \A b : NewDrop(b).at = "drop"
  BY DEF NewPut, NewPatch, NewDelete, NewDrop, Idle

LEMMA BeginStep ==
  ASSUME IInv, TypeInv', NEW r \in Requests, NEW q, Begin(r, q), StillTrue(r)'
  PROVE  IInv'
  BY QuietStep DEF Begin

\* The request r after it has become q.
LEMMA ReqBecomes ==
  ASSUME IInv, NEW r \in Requests, NEW q, req' = [req EXCEPT ![r] = q]
  PROVE  req'[r] = q
  BY DEF IInv, TypeInv

LEMMA SaleStartStep ==
  ASSUME IInv, TypeInv', NEW r \in Requests, SaleStart(r)
  PROVE  IInv'
<1>1. PICK f \in created, u \in Users, n \in 1..MaxQuantity :
         \/ /\ role[ActiveSeason][u] = "seller"
            /\ Begin(r, NewSale(f, u, n, TRUE))
         \/ /\ role[ActiveSeason][u] = "admin"
            /\ \E bucket \in {u, Comp} : Begin(r, NewSale(f, bucket, n, FALSE))
  BY DEF SaleStart
<1>2. f \in Functions
  BY DEF IInv, TypeInv, TypeOK
<1>3. CASE Begin(r, NewSale(f, u, n, TRUE))
  <2>1. req'[r].at = "sale_lock" /\ req'[r].limited
    <3>1. req'[r] = NewSale(f, u, n, TRUE)
      BY <1>3, ReqBecomes DEF Begin
    <3>2. req'[r].at = "sale_lock" /\ req'[r].limited = TRUE
      BY <3>1 DEF NewSale, Idle
    <3>3. QED
      BY <3>2
  <2>2. StillTrue(r)'
    BY <2>1, NothingChecked
  <2>3. QED
    BY <1>3, <2>2, BeginStep
<1>4. CASE /\ role[ActiveSeason][u] = "admin"
           /\ \E bucket \in {u, Comp} : Begin(r, NewSale(f, bucket, n, FALSE))
  <2>1. PICK bucket \in {u, Comp} : Begin(r, NewSale(f, bucket, n, FALSE))
    BY <1>4
  <2>2. req'[r].at = "sale_lock" /\ req'[r].who = bucket /\ role' = role
    <3>1. req'[r] = NewSale(f, bucket, n, FALSE)
      BY <2>1, ReqBecomes DEF Begin
    <3>2. QED
      <4>1. req'[r].at = "sale_lock" /\ req'[r].who = bucket
        BY <3>1 DEF NewSale, Idle
      <4>2. role' = role
        BY <2>1 DEF Begin, tables
      <4>3. QED
        BY <4>1, <4>2
  <2>3. ~(req'[r].who \in Users \ Churn /\ role'[ActiveSeason][req'[r].who] = "seller")
    BY <1>4, <2>2, CuposAssumption
  <2>4. StillTrue(r)'
    BY <2>2, <2>3, NothingChecked
  <2>5. QED
    BY <2>1, <2>4, BeginStep
<1>5. QED
  BY <1>1, <1>3, <1>4

LEMMA PutStartStep ==
  ASSUME IInv, TypeInv', NEW r \in Requests, PutStart(r)
  PROVE  IInv'
<1>1. \E f \in created : \E batch, want : Begin(r, NewPut(f, batch, want))
  BY DEF PutStart
<1>2. PICK f \in created : \E batch, want : Begin(r, NewPut(f, batch, want))
  BY <1>1
<1>2a. PICK batch, want : Begin(r, NewPut(f, batch, want))
  BY <1>2
<1>3. req'[r].at = "put_lock"
  BY <1>2a, NewFields, ReqBecomes DEF Begin, IInv, TypeInv, TypeOK
<1>4. StillTrue(r)'
  BY <1>3, NothingChecked
<1>5. QED
  BY <1>2a, <1>4, BeginStep

LEMMA PatchStartStep ==
  ASSUME IInv, TypeInv', NEW r \in Requests, PatchStart(r)
  PROVE  IInv'
<1>1. PICK f \in created : \E c \in IF f \in Edited THEN 1..MaxCapacity ELSE {capacity[f]} :
          Begin(r, NewPatch(f, c))
  BY DEF PatchStart
<1>2. PICK c : /\ Begin(r, NewPatch(f, c))
               /\ f \notin Edited => c = capacity[f]
  BY <1>1
<1>3. req'[r].at = "patch_checkins" /\ req'[r].f = f /\ req'[r].n = c
  BY <1>2, NewFields, ReqBecomes DEF Begin, IInv, TypeInv, TypeOK
<1>4. StillTrue(r)'
  BY <1>2, <1>3 DEF StillTrue, LockedSteps, SaleSteps, PatchSteps, Begin, tables
<1>5. QED
  BY <1>2, <1>4, BeginStep

LEMMA DeleteStartStep ==
  ASSUME IInv, TypeInv', NEW r \in Requests, DeleteStart(r)
  PROVE  IInv'
<1>1. PICK f \in created : Begin(r, NewDelete(f))
  BY DEF DeleteStart
<1>2. req'[r].at \in DeleteSteps
  BY <1>1, NewFields, ReqBecomes DEF Begin, IInv, TypeInv, TypeOK, DeleteSteps
<1>3. StillTrue(r)'
  BY <1>2, NothingChecked DEF DeleteSteps
<1>4. QED
  BY <1>1, <1>3, BeginStep

\* The membership of somebody whose membership may change.
TeamChange(s, u, new) ==
    /\ role' = [role EXCEPT ![s][u] = new]
    /\ UNCHANGED <<capacity, created, lock, issued, tickets, hasSales, entered, alloc>>

LEMMA TeamMild ==
  ASSUME IInv, NEW s \in Seasons, NEW u \in Churn, NEW new, TeamChange(s, u, new)
  PROVE  /\ \A p \in Requests : Mild(p)
         /\ TablesInv'
<1>1. \A v \in Users \ Churn : role'[ActiveSeason][v] = role[ActiveSeason][v]
  BY CuposAssumption DEF TeamChange, IInv, TypeInv, TypeOK
<1>2. ASSUME NEW p \in Requests PROVE Mild(p)
  <2>1. /\ req[p].f \in Functions /\ issued \in [Functions -> Nat]
        /\ tickets \in [Functions -> [Buckets -> Nat]]
    BY FieldTypes DEF IInv, TypeInv, TypeOK
  <2>2. /\ issued[req[p].f] <= issued[req[p].f]
        /\ \A b \in Buckets : tickets[req[p].f][b] <= tickets[req[p].f][b]
    BY <2>1
  <2>3. QED
    BY <1>1, <2>2 DEF TeamChange, Mild
<1>3. QuotaHolds'
  BY <1>1 DEF IInv, TablesInv, QuotaHolds, TeamChange
<1>4. TablesInv'
  BY <1>3 DEF IInv, TablesInv, CapacityHolds, TeamChange
<1>5. QED
  BY <1>2, <1>4

LEMMA TeamStep ==
  ASSUME IInv, TypeInv', NEW r \in Requests, UpdateUser(r) \/ RemoveMember(r)
  PROVE  IInv'
<1>1. PICK s \in Seasons, u \in Churn, new \in Roles : TeamChange(s, u, new)
  BY CuposAssumption DEF Roles, UpdateUser, RemoveMember, TeamChange
<1>2. PICK v \in Churn : req' = req \/ req' = [req EXCEPT ![r] = NewDrop(v)]
  BY DEF UpdateUser, RemoveMember
<1>3. \A p \in Requests \ {r} : StillTrue(p)'
  BY <1>1, <1>2, TeamMild, OthersTrue
<1>4. StillTrue(r)'
  <2>1. CASE req' = req
    BY <1>1, <2>1, TeamMild, MildKeeps
  <2>2. CASE req' = [req EXCEPT ![r] = NewDrop(v)]
    <3>1. req'[r].at = "drop"
      <4>1. req'[r] = NewDrop(v)
        BY <2>2, ReqBecomes
      <4>2. QED
        BY <4>1, NewFields
    <3>2. QED
      BY <3>1, NothingChecked
  <2>3. QED
    BY <1>2, <2>1, <2>2
<1>5. QED
  BY <1>1, <1>3, <1>4, TeamMild DEF IInv, ChecksStillTrue

LEMMA AddMemberStep ==
  ASSUME IInv, TypeInv', NEW s \in Seasons, NEW u \in Churn, NEW new, AddMember(s, u, new)
  PROVE  IInv'
<1>1. TeamChange(s, u, new) /\ req' = req
  BY DEF AddMember, TeamChange
<1>2. \A p \in Requests : StillTrue(p)'
  BY <1>1, TeamMild, MildKeeps
<1>3. QED
  BY <1>1, <1>2, TeamMild DEF IInv, ChecksStillTrue

---------------------------------------------------------------------------
(* The statements of a sale.                                               *)

\* A request that goes on to another statement keeps the rest.
LEMMA GotoFields ==
  ASSUME IInv, NEW r \in Requests, NEW step, Goto(r, step)
  PROVE  /\ req' = [req EXCEPT ![r] = req'[r]]
         /\ req'[r].at = step
         /\ req'[r].f = req[r].f /\ req'[r].who = req[r].who
         /\ req'[r].limited = req[r].limited /\ req'[r].n = req[r].n
         /\ req'[r].batch = req[r].batch /\ req'[r].todo = req[r].todo
         /\ req'[r].want = req[r].want
<1>1. req[r] \in Request /\ req \in [Requests -> Good]
  BY DEF IInv, TypeInv, TypeOK
<1>2. req' = [req EXCEPT ![r] = [req[r] EXCEPT !.at = step]]
  BY <1>1 DEF Goto
<1>3. req'[r] = [req[r] EXCEPT !.at = step]
  BY <1>1, <1>2
<1>4. QED
  BY <1>1, <1>2, <1>3 DEF Request

\* ... and the one that takes note of what it has read, too.
LEMMA SeenFields ==
  ASSUME IInv, NEW r \in Requests, NEW step, NEW m,
         GotoKnowing(r, step, m)
  PROVE  /\ req' = [req EXCEPT ![r] = req'[r]]
         /\ req'[r].at = step /\ req'[r].seen = m
         /\ req'[r].f = req[r].f /\ req'[r].who = req[r].who
         /\ req'[r].limited = req[r].limited /\ req'[r].n = req[r].n
         /\ req'[r].batch = req[r].batch /\ req'[r].todo = req[r].todo
         /\ req'[r].want = req[r].want
<1>1. req[r] \in Request /\ req \in [Requests -> Good]
  BY DEF IInv, TypeInv, TypeOK
<1>2. req' = [req EXCEPT ![r] = [req[r] EXCEPT !.at = step, !.seen = m]]
  BY <1>1 DEF GotoKnowing
<1>3. req'[r] = [req[r] EXCEPT !.at = step, !.seen = m]
  BY <1>1, <1>2
<1>4. QED
  BY <1>1, <1>2, <1>3 DEF Request

LEMMA LockStep ==
  ASSUME IInv, TypeInv', NEW r \in Requests, SaleLock(r) \/ PutLock(r)
  PROVE  IInv'
<1> DEFINE f == req[r].f
<1>1. PICK from, to : /\ LockFunction(r, from, to)
                      /\ \/ from = "sale_lock" /\ to = "sale_room"
                         \/ from = "put_lock" /\ to = "put_check"
  BY DEF SaleLock, PutLock
<1>2. /\ lock[f] = Free /\ f \in Functions /\ req[r].at = from
      /\ StillTrue(r) /\ WellFormed(req[r]) /\ UNCHANGED tables
      /\ lock \in [Functions -> Requests \cup {Free}]
  BY <1>1, FieldTypes DEF LockFunction, At, IInv, ChecksStillTrue, TypeInv, TypeOK
<1>3. CASE Exists(f)
  <2>1. /\ lock' = [lock EXCEPT ![f] = r]
        /\ GotoKnowing(r, to, capacity[f])
    BY <1>1, <1>3 DEF LockFunction
  <2>2. /\ req' = [req EXCEPT ![r] = req'[r]]
        /\ req'[r].at = to /\ req'[r].seen = capacity[f] /\ req'[r].f = f
        /\ req'[r].who = req[r].who /\ req'[r].limited = req[r].limited
        /\ req'[r].batch = req[r].batch /\ req'[r].todo = req[r].todo
    BY <2>1, SeenFields
  <2>3. lock'[f] = r /\ capacity' = capacity /\ role' = role
    BY <1>2, <2>1 DEF tables
  <2>4. StillTrue(r)'
    <3>1. CASE from = "sale_lock" /\ to = "sale_room"
      BY <1>2, <1>3, <2>2, <2>3, <3>1
         DEF StillTrue, LockedSteps, SaleSteps, PatchSteps, Exists
    <3>2. CASE from = "put_lock" /\ to = "put_check"
      <4>1. req'[r].batch \ req'[r].todo = {}
        BY <1>2, <2>2, <3>2 DEF WellFormed
      <4>2. QED
        BY <1>2, <1>3, <2>2, <2>3, <3>2, <4>1
           DEF StillTrue, LockedSteps, SaleSteps, PatchSteps, Exists
    <3>3. QED
      BY <1>1, <3>1, <3>2
  <2>5. QED
    BY <1>2, <2>1, <2>2, <2>4, QuietStep
<1>4. CASE ~Exists(f)
  <2>1. Finish(r) /\ UNCHANGED lock
    BY <1>1, <1>4 DEF LockFunction
  <2>2. QED
    BY <1>2, <2>1, FinishTrue, QuietStep DEF Finish
<1>5. QED
  BY <1>3, <1>4

LEMMA SaleRoomStep ==
  ASSUME IInv, TypeInv', NEW r \in Requests, SaleRoom(r)
  PROVE  IInv'
<1> DEFINE f == req[r].f
<1>1. /\ req[r].at = "sale_room" /\ StillTrue(r) /\ UNCHANGED tables
      /\ req[r].at \in LockedSteps
  BY DEF SaleRoom, At, IInv, ChecksStillTrue, LockedSteps
<1>2. CASE Rollback(r)
  BY <1>1, <1>2, RollbackStep
<1>3. CASE /\ issued[f] + req[r].n <= req[r].seen
           /\ Goto(r, IF req[r].limited THEN "sale_quota" ELSE "sale_insert")
           /\ UNCHANGED lock
  <2>1. /\ req' = [req EXCEPT ![r] = req'[r]]
        /\ req'[r].at = IF req[r].limited THEN "sale_quota" ELSE "sale_insert"
        /\ req'[r].f = f /\ req'[r].who = req[r].who /\ req'[r].n = req[r].n
        /\ req'[r].limited = req[r].limited
    BY <1>3, GotoFields
  <2>2. /\ Exists(f) /\ lock[f] = r /\ issued[f] + req[r].n <= capacity[f]
        /\ req[r].who \in Users \ Churn /\ ~req[r].limited =>
               role[ActiveSeason][req[r].who] # "seller"
    BY <1>1, <1>3 DEF StillTrue, LockedSteps, SaleSteps
  <2>3. StillTrue(r)'
    <3>1. CASE req[r].limited
      BY <1>1, <1>3, <2>1, <2>2, <3>1
         DEF StillTrue, LockedSteps, SaleSteps, PatchSteps, tables, Exists
    <3>2. CASE ~req[r].limited
      BY <1>1, <1>3, <2>1, <2>2, <3>2
         DEF StillTrue, LockedSteps, SaleSteps, PatchSteps, tables, Exists
    <3>3. QED
      BY <3>1, <3>2
  <2>4. QED
    BY <1>1, <1>3, <2>1, <2>3, QuietStep
<1>4. QED
  BY <1>2, <1>3 DEF SaleRoom, FitsCapacity

LEMMA SaleQuotaStep ==
  ASSUME IInv, TypeInv', NEW r \in Requests, SaleQuota(r)
  PROVE  IInv'
<1> DEFINE f == req[r].f
           q == alloc[f][req[r].who]
<1>1. /\ req[r].at = "sale_quota" /\ StillTrue(r) /\ UNCHANGED tables
      /\ req[r].at \in LockedSteps
  BY DEF SaleQuota, At, IInv, ChecksStillTrue, LockedSteps
<1>2. CASE Rollback(r)
  BY <1>1, <1>2, RollbackStep
<1>3. CASE GotoKnowing(r, "sale_sold", q) /\ UNCHANGED lock
  <2>1. /\ req' = [req EXCEPT ![r] = req'[r]]
        /\ req'[r].at = "sale_sold" /\ req'[r].seen = q
        /\ req'[r].f = f /\ req'[r].who = req[r].who /\ req'[r].n = req[r].n
        /\ req'[r].limited = req[r].limited
    BY <1>3, SeenFields
  <2>2. StillTrue(r)'
    BY <1>1, <1>3, <2>1 DEF StillTrue, LockedSteps, SaleSteps, PatchSteps, tables, Exists
  <2>3. QED
    BY <1>1, <1>3, <2>1, <2>2, QuietStep
<1>4. QED
  BY <1>2, <1>3 DEF SaleQuota

LEMMA SaleSoldStep ==
  ASSUME IInv, TypeInv', NEW r \in Requests, SaleSold(r)
  PROVE  IInv'
<1> DEFINE f == req[r].f
<1>1. /\ req[r].at = "sale_sold" /\ StillTrue(r) /\ UNCHANGED tables
      /\ req[r].at \in LockedSteps
  BY DEF SaleSold, At, IInv, ChecksStillTrue, LockedSteps
<1>2. CASE Rollback(r)
  BY <1>1, <1>2, RollbackStep
<1>3. CASE /\ tickets[f][req[r].who] + req[r].n <= req[r].seen
           /\ Goto(r, "sale_insert")
           /\ UNCHANGED lock
  <2>1. /\ req' = [req EXCEPT ![r] = req'[r]]
        /\ req'[r].at = "sale_insert"
        /\ req'[r].f = f /\ req'[r].who = req[r].who /\ req'[r].n = req[r].n
        /\ req'[r].limited = req[r].limited
    BY <1>3, GotoFields
  <2>2. StillTrue(r)'
    BY <1>1, <1>3, <2>1 DEF StillTrue, LockedSteps, SaleSteps, PatchSteps, tables, Exists
  <2>3. QED
    BY <1>1, <1>3, <2>1, <2>2, QuietStep
<1>4. QED
  BY <1>2, <1>3 DEF SaleSold

\* Two requests do not hold the row of the same function.
LEMMA OneHolder ==
  ASSUME IInv, NEW r \in Requests, NEW p \in Requests \ {r},
         req[p].at \in LockedSteps, lock[req[r].f] \in {r, Free}
  PROVE  req[p].f # req[r].f
<1>1. lock[req[p].f] = p
  BY DEF IInv, ChecksStillTrue, StillTrue
<1>2. QED
  BY <1>1, CuposAssumption

\* A step of a transaction that commits: what it may do to the function whose row
\* it holds, or that nobody holds.
LEMMA MildCommit ==
  ASSUME IInv, TypeInv', NEW r \in Requests, lock[req[r].f] \in {r, Free},
         UNCHANGED <<created, role>>,
         lock' = lock \/ lock' = [lock EXCEPT ![req[r].f] = Free],
         \A f \in Functions \ {req[r].f} : /\ capacity'[f] = capacity[f]
                                           /\ issued'[f] = issued[f]
                                           /\ tickets'[f] = tickets[f]
                                           /\ alloc'[f] = alloc[f],
         req[r].f \in created \ Edited => capacity'[req[r].f] \in {capacity[req[r].f], 0}
  PROVE  \A p \in Requests \ {r} : Mild(p)
<1> SUFFICES ASSUME NEW p \in Requests \ {r} PROVE Mild(p)
  OBVIOUS
<1>1. /\ req[p].f \in Functions /\ req[r].f \in Functions
      /\ lock \in [Functions -> Requests \cup {Free}]
      /\ issued \in [Functions -> Nat] /\ tickets \in [Functions -> [Buckets -> Nat]]
  BY FieldTypes DEF IInv, TypeInv, TypeOK
<1>2. /\ issued[req[p].f] <= issued[req[p].f]
      /\ \A b \in Buckets : tickets[req[p].f][b] <= tickets[req[p].f][b]
  BY <1>1
<1>3. CASE req[p].f = req[r].f
  <2>1. req[p].at \notin LockedSteps
    BY <1>3, OneHolder
  <2>2. QED
    BY <1>1, <1>3, <2>1 DEF Mild
<1>4. CASE req[p].f # req[r].f
  <2>1. lock'[req[p].f] = lock[req[p].f]
    BY <1>1, <1>4
  <2>2. QED
    BY <1>1, <1>2, <1>4, <2>1 DEF Mild
<1>5. QED
  BY <1>3, <1>4

LEMMA SaleInsertStep ==
  ASSUME IInv, TypeInv', NEW r \in Requests, SaleInsert(r)
  PROVE  IInv'
<1> DEFINE f == req[r].f
           b == req[r].who
           n == req[r].n
<1>1. /\ req[r].at = "sale_insert" /\ StillTrue(r) /\ WellFormed(req[r])
      /\ f \in Functions /\ b \in Buckets /\ n \in Nat /\ n >= 1
      /\ req[r].limited \in BOOLEAN
  BY FieldTypes DEF SaleInsert, At, IInv, ChecksStillTrue, TypeInv, WellFormed, SaleSteps
<1>2. /\ lock[f] = r /\ capacity[f] > 0 /\ issued[f] + n <= capacity[f]
      /\ b \in Users \ Churn /\ ~req[r].limited => role[ActiveSeason][b] # "seller"
      /\ req[r].limited /\ b \notin Churn => tickets[f][b] + n <= alloc[f][b]
  BY <1>1 DEF StillTrue, LockedSteps, SaleSteps, Exists
<1>3. /\ issued \in [Functions -> Nat] /\ tickets \in [Functions -> [Buckets -> Nat]]
      /\ capacity \in [Functions -> Nat] /\ TablesInv /\ hasSales' = hasSales \cup {f}
      /\ issued' = [issued EXCEPT ![f] = issued[f] + n]
      /\ tickets' = [tickets EXCEPT ![f][b] = tickets[f][b] + n]
      /\ lock' = [lock EXCEPT ![f] = Free] /\ Finish(r)
      /\ UNCHANGED <<capacity, created, alloc, role>>
  BY DEF SaleInsert, IInv, TypeInv, TypeOK, Rollback, Unlock
<1>4. \A p \in Requests \ {r} : Mild(p)
  BY <1>1, <1>2, <1>3, MildCommit
<1>5. TablesInv'
  <2>1. CapacityHolds'
    BY <1>1, <1>2, <1>3 DEF TablesInv, CapacityHolds
  <2>2. QuotaHolds'
    <3> SUFFICES ASSUME NEW g \in Functions, NEW u \in Users \ Churn,
                        role[ActiveSeason][u] = "seller"
                 PROVE  tickets'[g][u] <= alloc[g][u]
      BY <1>3 DEF QuotaHolds
    <3>1. u \in Buckets /\ tickets[g][u] <= alloc[g][u]
      BY <1>3 DEF TablesInv, QuotaHolds, Buckets
    <3>2. CASE g = f /\ u = b
      BY <1>1, <1>2, <1>3, <3>1, <3>2
    <3>3. CASE ~(g = f /\ u = b)
      BY <1>1, <1>3, <3>1, <3>3
    <3>4. QED
      BY <3>2, <3>3
  <2>3. ASSUME NEW g \in Functions, g \notin hasSales'
        PROVE  issued'[g] = 0 /\ \A c \in Buckets : tickets'[g][c] = 0
    BY <1>1, <1>3, <2>3 DEF TablesInv
  <2>4. ASSUME NEW g \in Functions, capacity[g] = 0
        PROVE  g \notin hasSales' /\ \A u \in Users : alloc[g][u] = 0
    BY <1>2, <1>3, <2>4 DEF TablesInv
  <2>5. QED
    BY <1>3, <2>1, <2>2, <2>3, <2>4 DEF TablesInv
<1>6. QED
  BY <1>3, <1>4, <1>5, FinishTrue, OthersTrue DEF IInv, ChecksStillTrue, Finish

---------------------------------------------------------------------------
(* The statements of the other requests.                                   *)

LEMMA PutCheckStep ==
  ASSUME IInv, TypeInv', NEW r \in Requests, PutCheck(r)
  PROVE  IInv'
<1> DEFINE f == req[r].f
<1>1. /\ req[r].at = "put_check" /\ req[r].at \in LockedSteps
      /\ StillTrue(r) /\ req[r] \in Request /\ UNCHANGED tables
  BY DEF PutCheck, At, IInv, ChecksStillTrue, LockedSteps, TypeInv, TypeOK
<1>2. PICK u \in req[r].todo :
        \/ /\ req[r].want[u] >= tickets[f][u]
           /\ req' = [req EXCEPT
                ![r].todo = @ \ {u},
                ![r].at = IF req[r].todo = {u} THEN "put_apply" ELSE "put_check"]
           /\ UNCHANGED lock
        \/ Rollback(r)
  BY DEF PutCheck
<1>3. CASE Rollback(r)
  BY <1>1, <1>3, RollbackStep
<1>4. CASE /\ req[r].want[u] >= tickets[f][u]
           /\ req' = [req EXCEPT
                ![r].todo = @ \ {u},
                ![r].at = IF req[r].todo = {u} THEN "put_apply" ELSE "put_check"]
           /\ UNCHANGED lock
  <2> DEFINE q == [req[r] EXCEPT !.todo = req[r].todo \ {u},
                     !.at = IF req[r].todo = {u} THEN "put_apply" ELSE "put_check"]
  <2>1. req' = [req EXCEPT ![r] = q] /\ req'[r] = q
    BY <1>4 DEF IInv, TypeInv
  <2>2. /\ req'[r].at \in {"put_check", "put_apply"} /\ req'[r].f = f
        /\ req'[r].batch = req[r].batch /\ req'[r].todo = req[r].todo \ {u}
        /\ req'[r].want = req[r].want /\ req'[r].seen = req[r].seen
    <3>1. /\ q.at = IF req[r].todo = {u} THEN "put_apply" ELSE "put_check"
          /\ q.f = f /\ q.batch = req[r].batch /\ q.todo = req[r].todo \ {u}
          /\ q.want = req[r].want /\ q.seen = req[r].seen
      BY <1>1 DEF Request
    <3>2. QED
      BY <2>1, <3>1
  <2>3. tickets[f][u] <= req[r].want[u]
    <3>1. /\ tickets \in [Functions -> [Buckets -> Nat]] /\ f \in Functions
          /\ u \in Users /\ req[r].want[u] \in Nat
      BY FieldTypes, CuposAssumption DEF IInv, TypeInv, TypeOK, Quotas
    <3>2. QED
      BY <1>4, <3>1 DEF Buckets
  <2>4. \A v \in req'[r].batch \ req'[r].todo : tickets[f][v] <= req[r].want[v]
    BY <1>1, <2>2, <2>3 DEF StillTrue
  <2>5. StillTrue(r)'
    BY <1>1, <1>4, <2>2, <2>4 DEF StillTrue, LockedSteps, SaleSteps, PatchSteps, tables, Exists
  <2>6. QED
    BY <1>1, <1>4, <2>1, <2>5, QuietStep
<1>5. QED
  BY <1>2, <1>3, <1>4

LEMMA PutApplyStep ==
  ASSUME IInv, TypeInv', NEW r \in Requests, PutApply(r)
  PROVE  IInv'
<1> DEFINE f == req[r].f
           q == [u \in Users |-> IF u \in req[r].batch THEN req[r].want[u] ELSE alloc[f][u]]
<1>1. /\ req[r].at = "put_apply" /\ StillTrue(r) /\ WellFormed(req[r]) /\ f \in Functions
  BY FieldTypes DEF PutApply, At, IInv, ChecksStillTrue, TypeInv
<1>2. /\ lock[f] = r /\ capacity[f] > 0
      /\ \A u \in req[r].batch : tickets[f][u] <= req[r].want[u]
  BY <1>1 DEF StillTrue, LockedSteps, Exists, WellFormed
<1>3. /\ TablesInv /\ lock' = [lock EXCEPT ![f] = Free] /\ Finish(r)
      /\ UNCHANGED <<capacity, created, issued, tickets, hasSales, role>>
      /\ alloc' = alloc \/ alloc' = [alloc EXCEPT ![f] = q]
      /\ alloc \in [Functions -> [Users -> Quotas]]
  BY DEF PutApply, IInv, TypeInv, TypeOK, Rollback, Unlock
<1>4. \A p \in Requests \ {r} : Mild(p)
  BY <1>1, <1>2, <1>3, MildCommit
<1>5. TablesInv'
  <2>1. CapacityHolds'
    BY <1>3 DEF TablesInv, CapacityHolds
  <2>2. QuotaHolds'
    <3> SUFFICES ASSUME NEW g \in Functions, NEW u \in Users \ Churn,
                        role[ActiveSeason][u] = "seller"
                 PROVE  tickets[g][u] <= alloc'[g][u]
      BY <1>3 DEF QuotaHolds
    <3>1. tickets[g][u] <= alloc[g][u]
      BY <1>3 DEF TablesInv, QuotaHolds
    <3>2. CASE alloc'[g] = alloc[g]
      BY <3>1, <3>2
    <3>3. CASE g = f /\ alloc'[g] = q
      BY <1>2, <3>1, <3>3
    <3>4. QED
      BY <1>1, <1>3, <3>2, <3>3
  <2>3. ASSUME NEW g \in Functions, capacity[g] = 0
        PROVE  g \notin hasSales /\ \A u \in Users : alloc'[g][u] = 0
    BY <1>1, <1>2, <1>3, <2>3 DEF TablesInv
  <2>4. QED
    BY <1>3, <2>1, <2>2, <2>3 DEF TablesInv
<1>6. QED
  BY <1>3, <1>4, <1>5, FinishTrue, OthersTrue DEF IInv, ChecksStillTrue, Finish

LEMMA PatchCheckStep ==
  ASSUME IInv, TypeInv', NEW r \in Requests,
         PatchCheckins(r) \/ PatchIssued(r) \/ PatchAssigned(r)
  PROVE  IInv'
<1>1. /\ req[r].at \in PatchSteps /\ StillTrue(r) /\ UNCHANGED <<tables, lock>>
      /\ Finish(r) \/ \E to \in PatchSteps : Goto(r, to)
  BY DEF PatchCheckins, PatchIssued, PatchAssigned, Check, At, IInv, ChecksStillTrue, PatchSteps
<1>2. CASE Finish(r)
  BY <1>1, <1>2, FinishTrue, QuietStep DEF Finish
<1>3. ASSUME NEW to \in PatchSteps, Goto(r, to) PROVE IInv'
  <2>1. /\ req' = [req EXCEPT ![r] = req'[r]]
        /\ req'[r].at = to /\ req'[r].f = req[r].f /\ req'[r].n = req[r].n
    BY <1>3, GotoFields
  <2>2. StillTrue(r)'
    BY <1>1, <1>3, <2>1 DEF StillTrue, LockedSteps, SaleSteps, PatchSteps, tables
  <2>3. QED
    BY <1>1, <2>1, <2>2, QuietStep
<1>4. QED
  BY <1>1, <1>2, <1>3

LEMMA PatchWriteStep ==
  ASSUME IInv, TypeInv', NEW r \in Requests, PatchWrite(r)
  PROVE  IInv'
<1> DEFINE f == req[r].f
<1>1. /\ req[r].at \in PatchSteps /\ StillTrue(r) /\ f \in Functions
      /\ req[r].n \in Nat /\ req[r].n >= 1
  BY FieldTypes DEF PatchWrite, At, IInv, ChecksStillTrue, TypeInv, WellFormed, PatchSteps
<1>2. f \in created /\ (f \notin Edited => capacity[f] \in {req[r].n, 0})
  BY <1>1 DEF StillTrue
<1>3. /\ TablesInv /\ lock[f] = Free /\ Finish(r)
      /\ capacity \in [Functions -> Nat]
      /\ UNCHANGED <<created, lock, issued, tickets, hasSales, alloc, role>>
  BY DEF PatchWrite, IInv, TypeInv, TypeOK
<1>4. /\ \A g \in Functions \ {f} : capacity'[g] = capacity[g]
      /\ capacity'[f] = IF capacity[f] > 0 THEN req[r].n ELSE capacity[f]
  BY <1>1, <1>3 DEF PatchWrite, Exists
<1>5. f \notin Edited => capacity'[f] = capacity[f]
  BY <1>1, <1>2, <1>3, <1>4
<1>6. \A p \in Requests \ {r} : Mild(p)
  BY <1>3, <1>4, <1>5, MildCommit
<1>7. TablesInv'
  <2>1. CapacityHolds'
    BY <1>3, <1>4, <1>5 DEF TablesInv, CapacityHolds
  <2>2. QuotaHolds'
    BY <1>3 DEF TablesInv, QuotaHolds
  <2>3. \A g \in Functions : capacity'[g] = 0 => capacity[g] = 0
    BY <1>1, <1>3, <1>4
  <2>4. \A g \in Functions : g \notin created => capacity'[g] = 0
    BY <1>2, <1>3, <1>4 DEF TablesInv
  <2>5. QED
    BY <1>3, <2>1, <2>2, <2>3, <2>4 DEF TablesInv
<1>8. QED
  BY <1>3, <1>6, <1>7, FinishTrue, OthersTrue DEF IInv, ChecksStillTrue, Finish

LEMMA DeleteChecksStep ==
  ASSUME IInv, TypeInv', NEW r \in Requests, DeleteSales(r) \/ DeleteAllocs(r)
  PROVE  IInv'
<1>1. UNCHANGED <<tables, lock>>
  BY DEF DeleteSales, DeleteAllocs, Check
<1>2. CASE Finish(r)
  BY <1>1, <1>2, FinishTrue, QuietStep DEF Finish
<1>3. CASE Goto(r, "del_allocs")
  <2>1. req' = [req EXCEPT ![r] = req'[r]] /\ req'[r].at = "del_allocs"
    BY <1>3, GotoFields
  <2>2. StillTrue(r)'
    BY <2>1, NothingChecked DEF DeleteSteps
  <2>3. QED
    BY <1>1, <2>1, <2>2, QuietStep
<1>4. CASE DeleteAllocs(r)
  <2> DEFINE q == [req[r] EXCEPT !.at = "del_function",
                      !.batch = {u \in Users : alloc[req[r].f][u] > 0}]
  <2>1. req' = [req EXCEPT ![r] = q] /\ req'[r] = q /\ req[r] \in Request
    BY <1>4 DEF DeleteAllocs, IInv, TypeInv, TypeOK
  <2>2. req'[r].at = "del_function"
    BY <2>1 DEF Request
  <2>3. StillTrue(r)'
    BY <2>2, NothingChecked DEF DeleteSteps
  <2>4. QED
    BY <1>1, <2>1, <2>3, QuietStep
<1>5. QED
  BY <1>2, <1>3, <1>4 DEF DeleteSales, Check

LEMMA DeleteFunctionStep ==
  ASSUME IInv, TypeInv', NEW r \in Requests, DeleteFunction(r)
  PROVE  IInv'
<1> DEFINE f == req[r].f
<1>1. f \in Functions
  BY FieldTypes DEF IInv, TypeInv
<1>2. /\ TablesInv /\ lock[f] = Free /\ Finish(r)
      /\ capacity \in [Functions -> Nat] /\ alloc \in [Functions -> [Users -> Quotas]]
      /\ issued \in [Functions -> Nat]
      /\ UNCHANGED <<created, lock, issued, tickets, hasSales, role>>
  BY DEF DeleteFunction, IInv, TypeInv, TypeOK
<1>3. CASE Referenced(r)
  <2>1. UNCHANGED tables
    BY <1>2, <1>3 DEF DeleteFunction, tables
  <2>2. QED
    BY <1>2, <2>1, FinishTrue, QuietStep DEF Finish
<1>4. CASE ~Referenced(r)
  <2>1. /\ capacity' = [capacity EXCEPT ![f] = 0] /\ alloc' = [alloc EXCEPT ![f] = NoWant]
        /\ f \notin hasSales
    BY <1>4 DEF DeleteFunction, Referenced
  <2>2. issued[f] = 0 /\ \A b \in Buckets : tickets[f][b] = 0
    BY <1>1, <1>2, <2>1 DEF TablesInv
  <2>3. \A p \in Requests \ {r} : Mild(p)
    BY <1>1, <1>2, <2>1, MildCommit
  <2>4. CapacityHolds'
    BY <1>1, <1>2, <2>1, <2>2 DEF TablesInv, CapacityHolds
  <2>5. QuotaHolds'
    <3> SUFFICES ASSUME NEW g \in Functions, NEW u \in Users \ Churn,
                        role[ActiveSeason][u] = "seller"
                 PROVE  tickets[g][u] <= alloc'[g][u]
      BY <1>2 DEF QuotaHolds
    <3>1. tickets[g][u] <= alloc[g][u]
      BY <1>2 DEF TablesInv, QuotaHolds
    <3>2. CASE g # f
      BY <1>2, <2>1, <3>1, <3>2
    <3>3. CASE g = f
      <4>1. alloc'[f][u] = 0 /\ tickets[f][u] = 0
        BY <1>1, <1>2, <2>1, <2>2 DEF NoWant, Buckets
      <4>2. QED
        BY <3>3, <4>1
    <3>4. QED
      BY <3>2, <3>3
  <2>6. ASSUME NEW g \in Functions, capacity'[g] = 0
        PROVE  g \notin hasSales /\ \A u \in Users : alloc'[g][u] = 0
    <3>1. CASE g = f
      BY <1>1, <1>2, <2>1, <3>1 DEF NoWant
    <3>2. CASE g # f
      BY <1>2, <2>1, <2>6, <3>2 DEF TablesInv
    <3>3. QED
      BY <3>1, <3>2
  <2>7. \A g \in Functions : g \notin created => capacity'[g] = 0
    BY <1>1, <1>2, <2>1 DEF TablesInv
  <2>8. TablesInv'
    BY <1>2, <2>4, <2>5, <2>6, <2>7 DEF TablesInv
  <2>9. QED
    BY <1>2, <2>3, <2>8, FinishTrue, OthersTrue DEF IInv, ChecksStillTrue, Finish
<1>5. QED
  BY <1>3, <1>4

LEMMA DropStep ==
  ASSUME IInv, TypeInv', NEW r \in Requests, DropAllocations(r)
  PROVE  IInv'
<1> DEFINE u == req[r].who
<1>1. u \in Churn
  BY FieldTypes DEF DropAllocations, At, IInv, TypeInv, WellFormed
<1>2. /\ TablesInv /\ Finish(r) /\ alloc \in [Functions -> [Users -> Quotas]]
      /\ alloc' = [f \in Functions |-> [alloc[f] EXCEPT ![u] = 0]]
      /\ UNCHANGED <<capacity, created, lock, issued, tickets, hasSales, role>>
  BY DEF DropAllocations, IInv, TypeInv, TypeOK
<1>3. \A f \in Functions, v \in Users : alloc'[f][v] = IF v = u THEN 0 ELSE alloc[f][v]
  BY <1>2
<1>4. ASSUME NEW p \in Requests \ {r} PROVE Mild(p)
  <2>1. /\ req[p].f \in Functions /\ issued \in [Functions -> Nat]
        /\ tickets \in [Functions -> [Buckets -> Nat]]
    BY FieldTypes DEF IInv, TypeInv, TypeOK
  <2>2. /\ issued[req[p].f] <= issued[req[p].f]
        /\ \A b \in Buckets : tickets[req[p].f][b] <= tickets[req[p].f][b]
    BY <2>1
  <2>3. \A v \in Users \ Churn : alloc'[req[p].f][v] = alloc[req[p].f][v]
    BY <1>1, <1>3, <2>1
  <2>4. QED
    BY <1>2, <2>2, <2>3 DEF Mild
<1>5. TablesInv'
  <2>1. CapacityHolds'
    BY <1>2 DEF TablesInv, CapacityHolds
  <2>2. QuotaHolds'
    BY <1>1, <1>2, <1>3 DEF TablesInv, QuotaHolds
  <2>3. QED
    BY <1>2, <1>3, <2>1, <2>2 DEF TablesInv
<1>6. QED
  BY <1>2, <1>4, <1>5, FinishTrue, OthersTrue DEF IInv, ChecksStillTrue, Finish

LEMMA AbortStep ==
  ASSUME IInv, TypeInv', NEW r \in Requests, Abort(r)
  PROVE  IInv'
<1>1. Finish(r) /\ UNCHANGED tables
  BY DEF Abort
<1>2. CASE req[r].at \in LockedSteps
  <2>1. Rollback(r)
    BY <1>1, <1>2 DEF Abort, Rollback
  <2>2. QED
    BY <1>1, <1>2, <2>1, RollbackStep
<1>3. CASE req[r].at \notin LockedSteps
  BY <1>1, <1>3, FinishTrue, QuietStep DEF Abort, Finish
<1>4. QED
  BY <1>2, <1>3

---------------------------------------------------------------------------
(* Steps that are no request's.                                            *)

\* Every request keeps what it has checked when none moves and the tables change
\* mildly.
LEMMA AllTrue ==
  ASSUME IInv, TypeInv', req' = req, \A p \in Requests : Mild(p), TablesInv'
  PROVE  IInv'
  BY MildKeeps DEF IInv, ChecksStillTrue

LEMMA CreateFunctionStep ==
  ASSUME IInv, TypeInv', NEW f \in Functions, NEW c \in 1..MaxCapacity, CreateFunction(f, c)
  PROVE  IInv'
<1>1. /\ TablesInv /\ f \notin created /\ created' = created \cup {f}
      /\ capacity \in [Functions -> Nat] /\ issued \in [Functions -> Nat]
      /\ tickets \in [Functions -> [Buckets -> Nat]]
      /\ capacity' = [capacity EXCEPT ![f] = c] /\ c \in Nat /\ c > 0
      /\ UNCHANGED <<lock, issued, tickets, hasSales, alloc, role, req>>
  BY CuposAssumption DEF CreateFunction, IInv, TypeInv, TypeOK
<1>2. capacity[f] = 0
  BY <1>1 DEF TablesInv
<1>3. ASSUME NEW p \in Requests PROVE Mild(p)
  <2>1. req[p].f \in Functions /\ (req[p].at \in LockedSteps => req[p].f # f)
    BY <1>2, FieldTypes DEF IInv, TypeInv, ChecksStillTrue, StillTrue, Exists
  <2>2. /\ issued[req[p].f] <= issued[req[p].f]
        /\ \A b \in Buckets : tickets[req[p].f][b] <= tickets[req[p].f][b]
    BY <1>1, <2>1
  <2>3. QED
    BY <1>1, <2>1, <2>2 DEF Mild
<1>4. CapacityHolds'
  BY <1>1, <1>2 DEF TablesInv, CapacityHolds
<1>5. QuotaHolds'
  BY <1>1 DEF TablesInv, QuotaHolds
<1>6. TablesInv'
  BY <1>1, <1>4, <1>5 DEF TablesInv
<1>7. QED
  BY <1>1, <1>3, <1>6, AllTrue

LEMMA VoidStep ==
  ASSUME IInv, TypeInv', NEW f \in Functions, NEW b \in Buckets, NEW k \in 1..MaxCapacity,
         Void(f, b, k)
  PROVE  IInv'
<1>1. /\ TablesInv /\ k \in Nat /\ k <= tickets[f][b] /\ k <= issued[f] /\ k >= 1
      /\ capacity \in [Functions -> Nat] /\ issued \in [Functions -> Nat]
      /\ tickets \in [Functions -> [Buckets -> Nat]]
      /\ alloc \in [Functions -> [Users -> Quotas]] /\ Quotas \subseteq Nat
      /\ issued' = [issued EXCEPT ![f] = issued[f] - k]
      /\ tickets' = [tickets EXCEPT ![f][b] = tickets[f][b] - k]
      /\ UNCHANGED <<capacity, created, lock, hasSales, alloc, role, req>>
  BY CuposAssumption DEF Void, IInv, TypeInv, TypeOK, Quotas
<1>2. /\ \A g \in Functions : issued'[g] <= issued[g] /\ issued'[g] \in Nat
      /\ \A g \in Functions, c \in Buckets : tickets'[g][c] <= tickets[g][c]
                                             /\ tickets'[g][c] \in Nat
  BY <1>1
<1>3. ASSUME NEW p \in Requests PROVE Mild(p)
  <2>1. req[p].f \in Functions
    BY FieldTypes DEF IInv, TypeInv
  <2>2. QED
    BY <1>1, <1>2, <2>1 DEF Mild
<1>4. CapacityHolds'
  BY <1>1, <1>2 DEF TablesInv, CapacityHolds
<1>5. QuotaHolds'
  <2> SUFFICES ASSUME NEW g \in Functions, NEW u \in Users \ Churn,
                      role[ActiveSeason][u] = "seller"
               PROVE  tickets'[g][u] <= alloc[g][u]
    BY <1>1 DEF QuotaHolds
  <2>1. tickets[g][u] <= alloc[g][u] /\ u \in Buckets /\ alloc[g][u] \in Nat
    BY <1>1 DEF TablesInv, QuotaHolds, Buckets
  <2>2. QED
    BY <1>1, <1>2, <2>1
<1>6. ASSUME NEW g \in Functions, g \notin hasSales
      PROVE  issued'[g] = 0 /\ \A c \in Buckets : tickets'[g][c] = 0
  <2>1. issued[g] = 0 /\ \A c \in Buckets : tickets[g][c] = 0
    BY <1>1, <1>6 DEF TablesInv
  <2>2. QED
    BY <1>1, <1>2, <2>1
<1>7. TablesInv'
  BY <1>1, <1>4, <1>5, <1>6 DEF TablesInv
<1>8. QED
  BY <1>1, <1>3, <1>7, AllTrue

LEMMA StillStep ==
  ASSUME IInv, TypeInv', (\E f \in Functions : Checkin(f)) \/ UNCHANGED vars
  PROVE  IInv'
<1>1. /\ TablesInv
      /\ UNCHANGED <<capacity, created, lock, issued, tickets, hasSales, alloc, role, req>>
  BY DEF Checkin, vars, IInv
<1>2. ASSUME NEW p \in Requests PROVE Mild(p)
  <2>1. /\ req[p].f \in Functions /\ issued \in [Functions -> Nat]
        /\ tickets \in [Functions -> [Buckets -> Nat]]
    BY FieldTypes DEF IInv, TypeInv, TypeOK
  <2>2. /\ issued[req[p].f] <= issued[req[p].f]
        /\ \A b \in Buckets : tickets[req[p].f][b] <= tickets[req[p].f][b]
    BY <2>1
  <2>3. QED
    BY <1>1, <2>2 DEF Mild
<1>3. TablesInv'
  BY <1>1 DEF TablesInv, CapacityHolds, QuotaHolds
<1>4. QED
  BY <1>1, <1>2, <1>3, AllTrue

---------------------------------------------------------------------------
(* The invariant holds, and what follows from it.                          *)

LEMMA IInvInit == Init => IInv
<1> SUFFICES ASSUME Init PROVE IInv
  OBVIOUS
<1>1. TypeInv
  BY TypeInvInit
<1>2. TablesInv
  BY CuposAssumption DEF Init, TablesInv, CapacityHolds, QuotaHolds, NoWant, Buckets
<1>3. ChecksStillTrue
  BY IdleType DEF Init, ChecksStillTrue, StillTrue, LockedSteps, SaleSteps, PatchSteps
<1>4. QED
  BY <1>1, <1>2, <1>3 DEF IInv

LEMMA IInvNext == IInv /\ [Next]_vars => IInv'
<1> SUFFICES ASSUME IInv, [Next]_vars PROVE IInv'
  OBVIOUS
<1>1. TypeInv'
  BY TypeInvNext DEF IInv
<1>2. ASSUME NEW r \in Requests, Start(r) PROVE IInv'
  BY <1>1, <1>2, SaleStartStep, PutStartStep, PatchStartStep, DeleteStartStep, TeamStep
     DEF Start
<1>3. ASSUME NEW r \in Requests, Step(r) PROVE IInv'
  <2>1. CASE SaleLock(r) \/ SaleRoom(r) \/ SaleQuota(r) \/ SaleSold(r) \/ SaleInsert(r)
    BY <1>1, <2>1, LockStep, SaleRoomStep, SaleQuotaStep, SaleSoldStep, SaleInsertStep
  <2>2. CASE PutLock(r) \/ PutCheck(r) \/ PutApply(r)
    BY <1>1, <2>2, LockStep, PutCheckStep, PutApplyStep
  <2>3. CASE PatchCheckins(r) \/ PatchIssued(r) \/ PatchAssigned(r) \/ PatchWrite(r)
    BY <1>1, <2>3, PatchCheckStep, PatchWriteStep
  <2>4. CASE DeleteSales(r) \/ DeleteAllocs(r) \/ DeleteFunction(r)
    BY <1>1, <2>4, DeleteChecksStep, DeleteFunctionStep
  <2>5. CASE DropAllocations(r) \/ DeadlockVictim(r)
    BY <1>1, <2>5, DropStep, AbortStep DEF DeadlockVictim
  <2>6. QED
    BY <1>3, <2>1, <2>2, <2>3, <2>4, <2>5 DEF Step
<1>4. ASSUME NEW r \in Requests, Abort(r) PROVE IInv'
  BY <1>1, <1>4, AbortStep
<1>5. CASE \E f \in Functions, c \in 1..MaxCapacity : CreateFunction(f, c)
  BY <1>1, <1>5, CreateFunctionStep
<1>6. CASE \E s \in Seasons, u \in Churn, new \in Roles : AddMember(s, u, new)
  BY <1>1, <1>6, AddMemberStep
<1>7. CASE \E f \in Functions, b \in Buckets : \E k \in 1..MaxCapacity : Void(f, b, k)
  BY <1>1, <1>7, VoidStep
<1>8. CASE (\E f \in Functions : Checkin(f)) \/ UNCHANGED vars
  BY <1>1, <1>8, StillStep
<1>9. QED
  BY <1>2, <1>3, <1>4, <1>5, <1>6, <1>7, <1>8 DEF Next

LEMMA Invariant == Spec => []IInv
  BY IInvInit, IInvNext, PTL DEF Spec

\* A function whose capacity is not edited is never oversold, with any number of
\* requests at once.
THEOREM NeverOversold == Spec => []CapacityHolds
<1>1. IInv => CapacityHolds
  BY DEF IInv, TablesInv
<1>2. QED
  BY <1>1, Invariant, PTL

\* No seller is ever above her quota, while her membership is not edited.
THEOREM NeverAboveQuota == Spec => []QuotaHolds
<1>1. IInv => QuotaHolds
  BY DEF IInv, TablesInv
<1>2. QED
  BY <1>1, Invariant, PTL

\* What a request has checked is still true when it acts on it.
THEOREM ChecksKept == Spec => []ChecksStillTrue
<1>1. IInv => ChecksStillTrue
  BY DEF IInv
<1>2. QED
  BY <1>1, Invariant, PTL

\* Deleting a function never leaves a sale, a ticket or a quota behind.
THEOREM DeletionLeavesNothing == Spec => []DeletedIsBare
<1>1. IInv => DeletedIsBare
  BY DEF IInv, TypeInv, TypeOK, TablesInv, DeletedIsBare, Exists
<1>2. QED
  BY <1>1, Invariant, PTL

---------------------------------------------------------------------------
(* The quotas fit in the capacity.  Only a PUT raises a quota, and it sums *)
(* those of all the sellers under the row lock; who becomes a seller has no *)
(* quota yet, or brings her old ones and is not counted.                   *)

\* The sellers of the season of f, but for who brought quotas back with her.
Steady(f) == {u \in Users \ returned : role[SeasonOf[f]][u] = "seller"}

\* The sum of the quotas of S, coin by coin.
QuotaCoins(quota, S) == Cardinality(Coins(quota, S))

LEMMA QuotaSum ==
  ASSUME NEW S, S \subseteq Users, NEW quota \in [Users -> Quotas]
  PROVE  /\ (CHOOSE g : IsSum(g, quota, S))[S] = QuotaCoins(quota, S)
         /\ QuotaCoins(quota, S) \in Nat
<1>1. IsFiniteSet(S)
  BY CuposAssumption, FS_Subset
<1>2. \A u \in S : quota[u] \in Nat
  BY CuposAssumption DEF Quotas
<1> QED
  BY <1>1, <1>2, ChosenSum DEF QuotaCoins

Fits(f) == QuotaCoins(alloc[f], Steady(f)) <= capacity[f]

LEMMA FitsIsAssigned ==
  ASSUME TypeOK, NEW f \in Functions
  PROVE  MapThenSumSet(LAMBDA u : alloc[f][u],
            {u \in Users \ returned : role[SeasonOf[f]][u] = "seller"}) = QuotaCoins(alloc[f], Steady(f))
<1>1. MapThenSumSet(LAMBDA u : alloc[f][u], Steady(f)) = (CHOOSE g : IsSum(g, alloc[f], Steady(f)))[Steady(f)]
  BY DEF MapThenSumSet, MapThenFoldSet, IsSum
<1>2. alloc[f] \in [Users -> Quotas] /\ Steady(f) \subseteq Users
  BY DEF TypeOK, Steady
<1>3. (CHOOSE g : IsSum(g, alloc[f], Steady(f)))[Steady(f)] = QuotaCoins(alloc[f], Steady(f))
  BY <1>2, QuotaSum
<1> QED
  BY <1>1, <1>3 DEF Steady

LEMMA SumAllocationsCoins ==
  ASSUME NEW f, NEW quota \in [Users -> Quotas]
  PROVE  SumAllocations(f, quota)
           = QuotaCoins(quota, {u \in Users : role[SeasonOf[f]][u] = "seller"})
<1> DEFINE S == {u \in Users : role[SeasonOf[f]][u] = "seller"}
<1>1. SumAllocations(f, quota) = (CHOOSE g : IsSum(g, quota, S))[S]
  BY DEF SumAllocations, MapThenSumSet, MapThenFoldSet, IsSum
<1>2. S \subseteq Users
  OBVIOUS
<1> HIDE DEF S
<1>3. (CHOOSE g : IsSum(g, quota, S))[S] = QuotaCoins(quota, S)
  BY <1>2, QuotaSum
<1> QED
  BY <1>1, <1>3 DEF S

\* Lower quotas of fewer people, and of others who have none, make a lower sum.
LEMMA QuotasLess ==
  ASSUME NEW S, S \subseteq Users, NEW T, T \subseteq Users,
         NEW v \in [Users -> Quotas], NEW w \in [Users -> Quotas],
         \A u \in S : v[u] = 0 \/ (u \in T /\ v[u] <= w[u])
  PROVE  QuotaCoins(v, S) <= QuotaCoins(w, T)
<1> DEFINE P == {u \in S : v[u] # 0}
<1>1. IsFiniteSet(T)
  BY CuposAssumption, FS_Subset
<1>2. \A u \in Users : v[u] \in Nat /\ w[u] \in Nat
  BY CuposAssumption DEF Quotas
<1>3. P \subseteq T /\ P \subseteq Users /\ \A u \in P : v[u] <= w[u]
  OBVIOUS
<1>4. Coins(v, S) = Coins(v, P)
  <2> SUFFICES ASSUME NEW c \in S \X Nat PROVE c[2] < v[c[1]] => v[c[1]] # 0
    BY DEF Coins
  <2>1. c[1] \in Users /\ c[2] \in Nat /\ v[c[1]] \in Nat
    BY <1>2
  <2> QED
    BY <2>1
<1> HIDE DEF P
<1> QED
  BY <1>1, <1>2, <1>3, <1>4, CoinsLess DEF QuotaCoins

\* A quota of nobody adds up to nothing.
LEMMA NoQuotas ==
  ASSUME NEW S, S \subseteq Users, NEW v, \A u \in Users : v[u] = 0
  PROVE  QuotaCoins(v, S) = 0
<1>1. Coins(v, S) = {}
  BY DEF Coins
<1> QED
  BY <1>1, FS_EmptySet DEF QuotaCoins

\* A step that raises no quota of the steady, makes steady only who has none, and
\* lowers no capacity keeps the fit.
LEMMA FitsKept ==
  ASSUME TypeOK, TypeOK', NEW f \in Functions, Fits(f), capacity'[f] >= capacity[f],
         \A u \in Steady(f)' :
            alloc'[f][u] = 0 \/ (u \in Steady(f) /\ alloc'[f][u] <= alloc[f][u])
  PROVE  Fits(f)'
<1>1. /\ alloc[f] \in [Users -> Quotas] /\ alloc'[f] \in [Users -> Quotas]
      /\ Steady(f) \subseteq Users /\ Steady(f)' \subseteq Users
  BY DEF TypeOK, Steady
<1>2. QuotaCoins(alloc'[f], Steady(f)') <= QuotaCoins(alloc[f], Steady(f))
  BY <1>1, QuotasLess
<1>3. QuotaCoins(alloc'[f], Steady(f)') \in Nat /\ QuotaCoins(alloc[f], Steady(f)) \in Nat
  BY <1>1, QuotaSum
<1>4. capacity[f] \in Nat /\ capacity'[f] \in Nat
  BY DEF TypeOK
<1>5. QuotaCoins(alloc'[f], Steady(f)') <= capacity'[f]
  BY <1>2, <1>3, <1>4 DEF Fits
<1> QED
  BY <1>5 DEF Fits, QuotaCoins

\* A PUT that commits has summed the quotas of all who sell, under the row lock.
LEMMA PutApplyFits ==
  ASSUME IInv, TypeOK', NEW r \in Requests, PutApply(r), NEW f \in Functions, Fits(f)
  PROVE  Fits(f)'
<1> DEFINE g == req[r].f
           q == [u \in Users |-> IF u \in req[r].batch THEN req[r].want[u] ELSE alloc[g][u]]
<1>1. /\ TypeOK /\ g \in Functions /\ UNCHANGED <<capacity, role, returned>>
      /\ alloc' = IF SumAllocations(g, q) <= req[r].seen
                  THEN [alloc EXCEPT ![g] = q] ELSE alloc
      /\ alloc \in [Functions -> [Users -> Quotas]] /\ capacity[f] \in Nat
  BY FieldTypes DEF PutApply, IInv, TypeInv, TypeOK
<1>2. req[r].seen = capacity[g]
  BY DEF PutApply, At, IInv, ChecksStillTrue, StillTrue
<1>3. Steady(f)' = Steady(f)
  BY <1>1 DEF Steady
<1>4. CASE alloc'[f] = alloc[f]
  BY <1>1, <1>3, <1>4 DEF Fits, QuotaCoins
<1>5. CASE f = g /\ SumAllocations(g, q) <= req[r].seen /\ alloc'[f] = q
  <2> DEFINE S == {u \in Users : role[SeasonOf[f]][u] = "seller"}
  <2>1. q \in [Users -> Quotas]
    BY <1>5 DEF TypeOK
  <2>2. QuotaCoins(q, S) <= capacity[f]
    BY <1>2, <1>5, <2>1, SumAllocationsCoins
  <2>3. Steady(f) \subseteq S /\ S \subseteq Users
    BY DEF Steady
  <2> HIDE DEF S, q
  <2>4. \A u \in Steady(f) : u \in S /\ q[u] <= q[u]
    BY <2>1, <2>3, CuposAssumption DEF Quotas
  <2>5. QuotaCoins(q, Steady(f)) <= QuotaCoins(q, S)
    BY <2>1, <2>3, <2>4, QuotasLess
  <2>6. QuotaCoins(q, Steady(f)) \in Nat /\ QuotaCoins(q, S) \in Nat
    BY <2>1, <2>3, QuotaSum
  <2>7. QuotaCoins(q, Steady(f)) <= capacity[f]
    BY <1>1, <2>2, <2>5, <2>6
  <2> QED
    BY <1>1, <1>3, <1>5, <2>7 DEF Fits, QuotaCoins
<1>6. alloc'[f] = alloc[f] \/ (f = g /\ SumAllocations(g, q) <= req[r].seen /\ alloc'[f] = q)
  <2> HIDE DEF q
  <2> QED
    BY <1>1
<1> QED
  BY <1>4, <1>5, <1>6

LEMMA DeleteFits ==
  ASSUME IInv, TypeOK', NEW r \in Requests, DeleteFunction(r), NEW f \in Functions, Fits(f)
  PROVE  Fits(f)'
<1>1. /\ TypeOK /\ UNCHANGED <<role, returned>> /\ req[r].f \in Functions
      /\ alloc \in [Functions -> [Users -> Quotas]] /\ capacity \in [Functions -> Nat]
  BY FieldTypes DEF DeleteFunction, IInv, TypeInv, TypeOK
<1>2. Steady(f)' = Steady(f) /\ Steady(f) \subseteq Users
  BY <1>1 DEF Steady
<1>3. CASE f = req[r].f /\ ~Referenced(r)
  <2>1. alloc'[f] = NoWant /\ capacity'[f] = 0
    BY <1>1, <1>3 DEF DeleteFunction
  <2>2. QuotaCoins(alloc'[f], Steady(f)') = 0
    BY <1>2, <2>1, NoQuotas DEF NoWant
  <2> QED
    BY <2>1, <2>2 DEF Fits, QuotaCoins
<1>4. CASE f # req[r].f \/ Referenced(r)
  <2>1. alloc'[f] = alloc[f] /\ capacity'[f] = capacity[f]
    BY <1>1, <1>4 DEF DeleteFunction
  <2> QED
    BY <1>2, <2>1 DEF Fits, QuotaCoins
<1> QED
  BY <1>3, <1>4

\* A change of the team makes steady only who has no quota.
LEMMA TeamFits ==
  ASSUME IInv, TypeOK', NEW f \in Functions, Fits(f), UNCHANGED <<capacity, alloc>>,
         NEW s \in Seasons, NEW u \in Users, NEW new \in Roles,
         role' = [role EXCEPT ![s][u] = new],
         returned' = NowReturned(s, u, new) \/ (returned' = returned /\ new # "seller")
  PROVE  Fits(f)'
<1>1. /\ TypeOK /\ SeasonOf[f] \in Seasons /\ role \in [Seasons -> [Users -> Roles]]
      /\ capacity[f] \in Nat /\ \A v \in Users : alloc[f][v] \in Nat
  BY CuposAssumption DEF IInv, TypeInv, TypeOK, Quotas
<1>2. ASSUME NEW v \in Steady(f)'
      PROVE  alloc'[f][v] = 0 \/ (v \in Steady(f) /\ alloc'[f][v] <= alloc[f][v])
  <2>1. v \in Users /\ v \notin returned' /\ role'[SeasonOf[f]][v] = "seller"
    BY <1>2 DEF Steady
  <2>2. v \notin returned
    BY <2>1 DEF NowReturned
  <2>3. CASE role[SeasonOf[f]][v] = "seller"
    BY <1>1, <2>1, <2>2, <2>3 DEF Steady
  <2>4. CASE role[SeasonOf[f]][v] # "seller"
    <3>1. v = u /\ SeasonOf[f] = s /\ new = "seller"
      BY <1>1, <2>1, <2>4
    <3>2. ~(alloc[f][u] > 0)
      BY <2>1, <2>4, <3>1 DEF NowReturned
    <3> QED
      BY <1>1, <3>1, <3>2
  <2> QED
    BY <2>3, <2>4
<1> QED
  BY <1>1, <1>2, FitsKept

LEMMA FitsStep ==
  ASSUME IInv, IInv', [Next]_vars, NEW f \in Functions \ Edited, Fits(f)
  PROVE  Fits(f)'
<1>1. /\ TypeOK /\ TypeOK' /\ capacity \in [Functions -> Nat]
      /\ alloc \in [Functions -> [Users -> Quotas]] /\ Steady(f) \subseteq Users
      /\ \A u \in Steady(f) : alloc[f][u] \in Nat
  BY CuposAssumption DEF IInv, TypeInv, TypeOK, Steady, Quotas
<1>2. ASSUME UNCHANGED <<capacity, alloc, role, returned>>
      PROVE  Fits(f)'
  BY <1>2 DEF Fits, Steady, QuotaCoins
<1>3. ASSUME NEW r \in Requests, Start(r) PROVE Fits(f)'
  <2>1. CASE SaleStart(r) \/ PutStart(r) \/ PatchStart(r) \/ DeleteStart(r)
    BY <1>2, <2>1 DEF SaleStart, PutStart, PatchStart, DeleteStart, Begin, tables
  <2>2. CASE UpdateUser(r) \/ RemoveMember(r)
    <3>1. PICK s \in Seasons, u \in Users, new \in Roles :
             /\ UNCHANGED <<capacity, alloc>> /\ role' = [role EXCEPT ![s][u] = new]
             /\ returned' = NowReturned(s, u, new) \/ (returned' = returned /\ new # "seller")
      BY <2>2, CuposAssumption DEF Roles, UpdateUser, RemoveMember
    <3> QED
      BY <1>1, <3>1, TeamFits
  <2> QED
    BY <1>3, <2>1, <2>2 DEF Start
<1>4. ASSUME NEW r \in Requests, Step(r) PROVE Fits(f)'
  <2>1. CASE SaleLock(r) \/ SaleRoom(r) \/ SaleQuota(r) \/ SaleSold(r) \/ SaleInsert(r)
    BY <1>2, <2>1 DEF SaleLock, LockFunction, SaleRoom, SaleQuota, SaleSold, SaleInsert, tables
  <2>2. CASE PutLock(r) \/ PutCheck(r) \/ PatchCheckins(r) \/ PatchIssued(r) \/ PatchAssigned(r)
             \/ DeleteSales(r) \/ DeleteAllocs(r) \/ DeadlockVictim(r)
    BY <1>2, <2>2 DEF PutLock, LockFunction, PutCheck, PatchCheckins, PatchIssued, PatchAssigned,
         DeleteSales, DeleteAllocs, Check, DeadlockVictim, Abort, tables
  <2>3. CASE PutApply(r)
    BY <1>1, <2>3, PutApplyFits
  <2>4. CASE DeleteFunction(r)
    BY <1>1, <2>4, DeleteFits
  <2>5. CASE PatchWrite(r)
    <3>1. req[r].f \in Functions /\ req[r].at \in PatchSteps /\ StillTrue(r) /\ UNCHANGED <<alloc, role, returned>>
      BY <2>5, FieldTypes DEF PatchWrite, At, PatchSteps, IInv, ChecksStillTrue, TypeInv
    <3>2. capacity'[f] = capacity[f]
      <4>1. CASE f = req[r].f
        BY <1>1, <2>5, <3>1, <4>1 DEF PatchWrite, StillTrue, Exists
      <4>2. CASE f # req[r].f
        BY <1>1, <2>5, <3>1, <4>2 DEF PatchWrite
      <4> QED
        BY <4>1, <4>2
    <3> QED
      BY <3>1, <3>2 DEF Fits, Steady, QuotaCoins
  <2>6. CASE DropAllocations(r)
    <3>1. /\ alloc' = [h \in Functions |-> [alloc[h] EXCEPT ![req[r].who] = 0]]
          /\ UNCHANGED <<capacity, role>>
      BY <2>6 DEF DropAllocations
    <3>2. \A v \in Users : alloc'[f][v] = IF v = req[r].who THEN 0 ELSE alloc[f][v]
      BY <1>1, <3>1
    <3>3. \A v \in Users : alloc[f][v] \in Nat
      BY <1>1, CuposAssumption DEF Quotas
    <3>4. \A v \in Steady(f)' : v \in Users /\ (v # req[r].who => v \in Steady(f))
      BY <2>6, <3>1 DEF Steady, DropAllocations
    <3>5. capacity'[f] >= capacity[f]
      BY <1>1, <3>1
    <3> QED
      BY <1>1, <3>2, <3>3, <3>4, <3>5, FitsKept
  <2> QED
    BY <1>4, <2>1, <2>2, <2>3, <2>4, <2>5, <2>6 DEF Step
<1>5. ASSUME NEW r \in Requests, Abort(r) PROVE Fits(f)'
  BY <1>2, <1>5 DEF Abort, tables
<1>6. ASSUME NEW g \in Functions, NEW c \in 1..MaxCapacity, CreateFunction(g, c) PROVE Fits(f)'
  <2>1. /\ capacity' = [capacity EXCEPT ![g] = c] /\ UNCHANGED <<alloc, role, returned>> /\ g \notin created
    BY <1>6 DEF CreateFunction
  <2>2. capacity[g] = 0 /\ c \in Nat
    BY <2>1, CuposAssumption DEF IInv, TablesInv
  <2>3. capacity'[f] >= capacity[f]
    BY <1>1, <2>1, <2>2
  <2>4. \A u \in Steady(f)' : u \in Steady(f) /\ alloc'[f][u] <= alloc[f][u]
    BY <1>1, <2>1 DEF Steady
  <2> QED
    BY <1>1, <2>3, <2>4, FitsKept
<1>7. CASE \E s \in Seasons, u \in Churn, new \in Roles : AddMember(s, u, new)
  <2>1. PICK s \in Seasons, u \in Users, new \in Roles : AddMember(s, u, new)
    BY <1>7, CuposAssumption
  <2> QED
    BY <1>1, <2>1, TeamFits DEF AddMember
<1>8. CASE \/ \E g \in Functions, b \in Buckets : \E k \in 1..MaxCapacity : Void(g, b, k)
           \/ \E g \in Functions : Checkin(g)
           \/ UNCHANGED vars
  BY <1>2, <1>8 DEF Void, Checkin, vars
<1> QED
  BY <1>3, <1>4, <1>5, <1>6, <1>7, <1>8 DEF Next

\* The quotas of the sellers of a season fit in the capacity of each of its functions,
\* whatever PUTs, deletions and changes of the team run at once, but for those that
\* somebody who left before their deletion brings back with her.
THEOREM QuotasFit == Spec => []AssignedFits
<1> DEFINE AllFit == \A f \in Functions \ Edited : Fits(f)
<1>1. Init => AllFit
  <2> SUFFICES ASSUME Init, NEW f \in Functions PROVE Fits(f)
    OBVIOUS
  <2>1. alloc[f] = NoWant /\ capacity[f] = 0
    BY DEF Init
  <2>2. QuotaCoins(alloc[f], Steady(f)) = 0
    BY <2>1, NoQuotas DEF NoWant, Steady
  <2> QED
    BY <2>1, <2>2 DEF Fits
<1>2. AllFit /\ IInv /\ IInv' /\ [Next]_vars => AllFit'
  BY FitsStep
<1>3. IInv /\ AllFit => AssignedFits
  <2> SUFFICES ASSUME IInv, AllFit, NEW f \in Functions \ Edited
               PROVE  MapThenSumSet(LAMBDA u : alloc[f][u],
                        {u \in Users \ returned : role[SeasonOf[f]][u] = "seller"}) <= capacity[f]
    BY DEF AssignedFits
  <2>1. Fits(f) /\ TypeOK
    BY DEF IInv, TypeInv
  <2> QED
    BY <2>1, FitsIsAssigned DEF Fits
<1> QED
  BY <1>1, <1>2, <1>3, Invariant, PTL DEF Spec

---------------------------------------------------------------------------
(* Cupos implements SeatLedger.                                            *)

\* The steps that touch neither the capacity nor the live tickets.
LEMMA LedgerStutters ==
  ASSUME UNCHANGED <<capacity, issued>>
  PROVE  [Ledger!Next]_(Ledger!vars)
  BY DEF Ledger!vars

\* The statement that inserts a sale takes its seats within the capacity.
LEMMA LedgerTakes ==
  ASSUME IInv, NEW r \in Requests, SaleInsert(r)
  PROVE  Ledger!Take(req[r].f) /\ req[r].f \in Functions
<1> DEFINE f == req[r].f
           n == req[r].n
<1>1. /\ StillTrue(r) /\ f \in Functions /\ n \in Nat /\ n >= 1 /\ req[r].at = "sale_insert"
  BY FieldTypes DEF SaleInsert, At, IInv, ChecksStillTrue, TypeInv, WellFormed, SaleSteps
<1>2. issued[f] + n <= capacity[f]
  BY <1>1 DEF StillTrue
<1>3. /\ issued \in [Functions -> Nat] /\ capacity \in [Functions -> Nat]
      /\ issued' = [issued EXCEPT ![f] = issued[f] + n] /\ capacity' = capacity
  BY DEF SaleInsert, IInv, TypeInv, TypeOK
<1>4. issued'[f] = issued[f] + n
  BY <1>1, <1>3
<1>5. issued'[f] \in (issued[f] + 1)..capacity[f]
  BY <1>1, <1>2, <1>3, <1>4
<1>6. QED
  BY <1>1, <1>3, <1>4, <1>5 DEF Ledger!Take, Ledger!Becomes

LEMMA LedgerResizes ==
  ASSUME IInv, NEW r \in Requests, PatchWrite(r)
  PROVE  [Ledger!Next]_(Ledger!vars)
<1> DEFINE f == req[r].f
           n == req[r].n
<1>1. /\ StillTrue(r) /\ f \in Functions /\ n \in Nat /\ n >= 1 /\ req[r].at = "patch_write"
      /\ capacity \in [Functions -> Nat] /\ issued' = issued
  BY FieldTypes DEF PatchWrite, At, IInv, ChecksStillTrue, TypeInv, TypeOK, WellFormed, PatchSteps
<1>2. CASE ~Exists(f)
  BY <1>1, <1>2, LedgerStutters DEF PatchWrite
<1>3. CASE Exists(f)
  <2>1. capacity' = [capacity EXCEPT ![f] = n] /\ capacity'[f] = n
    BY <1>1, <1>3 DEF PatchWrite
  <2>2. CASE f \in Edited
    <3>1. Ledger!Resize(f)
      <4>1. /\ n \in Nat \ {0} /\ capacity'[f] = n /\ capacity[f] > 0
            /\ capacity' = [capacity EXCEPT ![f] = n]
        <5>1. n \in Nat \ {0}
          BY <1>1
        <5>2. QED
          BY <1>3, <2>1, <5>1 DEF Exists
      <4>2. QED
        BY <1>1, <2>2, <4>1 DEF Ledger!Resize, Ledger!Becomes
    <3>2. QED
      BY <1>1, <3>1 DEF Ledger!Next
  <2>3. CASE f \notin Edited
    <3>1. capacity[f] = n
      BY <1>1, <1>3, <2>3 DEF StillTrue, PatchSteps, Exists
    <3>2. capacity' = capacity
      BY <1>1, <2>1, <3>1
    <3>3. QED
      BY <1>1, <3>2, LedgerStutters
  <2>4. QED
    BY <2>2, <2>3
<1>4. QED
  BY <1>2, <1>3

LEMMA LedgerCloses ==
  ASSUME IInv, NEW r \in Requests, DeleteFunction(r)
  PROVE  [Ledger!Next]_(Ledger!vars)
<1> DEFINE f == req[r].f
<1>1. f \in Functions /\ issued' = issued /\ TablesInv
  BY FieldTypes DEF DeleteFunction, IInv, TypeInv
<1>2. CASE Referenced(r)
  BY <1>1, <1>2, LedgerStutters DEF DeleteFunction
<1>3. CASE ~Referenced(r)
  <2>1. issued[f] = 0
    BY <1>1, <1>3 DEF Referenced, TablesInv
  <2>2. Ledger!Close(f)
    BY <1>1, <1>3, <2>1 DEF DeleteFunction, Ledger!Close
  <2>3. QED
    BY <1>1, <2>2 DEF Ledger!Next
<1>4. QED
  BY <1>2, <1>3

LEMMA LedgerOpens ==
  ASSUME IInv, NEW f \in Functions, NEW c \in 1..MaxCapacity, CreateFunction(f, c)
  PROVE  Ledger!Open(f)
<1>1. /\ capacity \in [Functions -> Nat] /\ capacity[f] = 0 /\ c \in Nat \ {0}
      /\ capacity' = [capacity EXCEPT ![f] = c] /\ issued' = issued
  BY CuposAssumption DEF CreateFunction, IInv, TypeInv, TypeOK, TablesInv
<1>2. capacity'[f] = c
  BY <1>1
<1>3. QED
  BY <1>1, <1>2 DEF Ledger!Open, Ledger!Becomes

LEMMA LedgerReleases ==
  ASSUME IInv, NEW f \in Functions, NEW b \in Buckets, NEW k \in 1..MaxCapacity, Void(f, b, k)
  PROVE  Ledger!Release(f)
<1>1. /\ issued \in [Functions -> Nat] /\ k \in Nat /\ k >= 1 /\ k <= issued[f]
      /\ issued' = [issued EXCEPT ![f] = issued[f] - k] /\ capacity' = capacity
  BY CuposAssumption DEF Void, IInv, TypeInv, TypeOK
<1>2. issued'[f] = issued[f] - k
  BY <1>1
<1>3. QED
  BY <1>1, <1>2 DEF Ledger!Release, Ledger!Becomes

LEMMA LedgerStep == IInv /\ [Next]_vars => [Ledger!Next]_(Ledger!vars)
<1> SUFFICES ASSUME IInv, [Next]_vars PROVE [Ledger!Next]_(Ledger!vars)
  OBVIOUS
<1>1. ASSUME NEW r \in Requests, Start(r) \/ Abort(r) PROVE [Ledger!Next]_(Ledger!vars)
  BY <1>1, LedgerStutters
     DEF Start, Abort, SaleStart, PutStart, PatchStart, DeleteStart, Begin, UpdateUser,
         RemoveMember, tables
<1>2. ASSUME NEW r \in Requests, Step(r) PROVE [Ledger!Next]_(Ledger!vars)
  <2>1. CASE SaleInsert(r)
    BY <2>1, LedgerTakes DEF Ledger!Next
  <2>2. CASE PatchWrite(r) \/ DeleteFunction(r)
    BY <2>2, LedgerResizes, LedgerCloses
  <2>3. CASE SaleLock(r) \/ SaleRoom(r) \/ SaleQuota(r) \/ SaleSold(r)
    BY <2>3, LedgerStutters
       DEF SaleLock, LockFunction, SaleRoom, SaleQuota, SaleSold, tables
  <2>4. CASE PutLock(r) \/ PutCheck(r) \/ PutApply(r)
    BY <2>4, LedgerStutters DEF PutLock, LockFunction, PutCheck, PutApply, tables
  <2>5. CASE \/ PatchCheckins(r) \/ PatchIssued(r) \/ PatchAssigned(r)
             \/ DeleteSales(r) \/ DeleteAllocs(r)
    BY <2>5, LedgerStutters
       DEF PatchCheckins, PatchIssued, PatchAssigned, DeleteSales, DeleteAllocs, Check, tables
  <2>6. CASE DropAllocations(r) \/ DeadlockVictim(r)
    BY <2>6, LedgerStutters DEF DropAllocations, DeadlockVictim, Abort, tables
  <2>7. QED
    BY <1>2, <2>1, <2>2, <2>3, <2>4, <2>5, <2>6 DEF Step
<1>3. CASE \E f \in Functions, c \in 1..MaxCapacity : CreateFunction(f, c)
  BY <1>3, LedgerOpens DEF Ledger!Next
<1>4. CASE \E f \in Functions, b \in Buckets : \E k \in 1..MaxCapacity : Void(f, b, k)
  BY <1>4, LedgerReleases DEF Ledger!Next
<1>5. CASE \/ \E s \in Seasons, u \in Churn, new \in Roles : AddMember(s, u, new)
           \/ \E f \in Functions : Checkin(f)
           \/ UNCHANGED vars
  BY <1>5, LedgerStutters DEF AddMember, Checkin, vars
<1>6. QED
  BY <1>1, <1>2, <1>3, <1>4, <1>5 DEF Next

\* The requests, with their locks and statements, sell and free seats as if each did
\* it in one atomic step.
THEOREM ImplementsLedger == Spec => SeatsTakenAtomically
<1>1. Init => Ledger!Init
  BY DEF Init, Ledger!Init
<1>2. QED
  BY <1>1, Invariant, LedgerStep, PTL DEF Spec, Ledger!Spec, SeatsTakenAtomically
=============================================================================
