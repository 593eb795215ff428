----------------------------- MODULE Temporadas -----------------------------
(***************************************************************************)
(* The seasons ("temporadas") of one organization and the team of each:    *)
(* which season is in course, and who is its direction.  The requests that *)
(* create, activate and delete seasons or change a team run at the same    *)
(* time over PostgreSQL in READ COMMITTED; a step is one statement, except *)
(* that an UPDATE that looks for its rows and then waits for them is two.  *)
(* What a transaction has written stays in its request until it commits.   *)
(*                                                                         *)
(* Names, functions and quotas are left out (Cupos has the last two): what *)
(* matters of them here is that sales and settlements hang from a season.  *)
(***************************************************************************)
EXTENDS Naturals, FiniteSets

CONSTANTS
    Seasons,    \* ids of seasons, one of them the first
    First,      \* the season the organization starts with
    Users,
    Founder,    \* the person who starts it
    Roles,      \* "admin" (direction) and the others
    Requests,   \* requests the server serves at the same time
    MaxServed,  \* bound: requests ever served
    MaxHistory  \* bound: sales and settlements ever made

ASSUME TemporadasAssumption ==
    /\ First \in Seasons /\ Founder \in Users
    /\ "admin" \in Roles /\ "none" \notin Roles
    /\ MaxServed \in Nat /\ MaxHistory \in Nat

VARIABLES
    status,   \* status[s]: not created, open, or deleted
    course,   \* seasons with is_active
    role,     \* role[s][u]: the row of u in season_members, or "none"
    left,     \* rows with left_at, as <<season, user>>
    sold,     \* <<season, seller>> with sales
    settled,  \* seasons with settlements or reminders
    crossed,  \* a season was being deleted and activated at the same time
    served,   \* requests served so far
    req       \* req[r]: the request r is serving and how far it got

team == <<role, left>>
history == <<sold, settled>>
vars == <<status, course, team, history, crossed, served, req>>

Steps == {"idle", "add", "season", "write", "removal", "sales", "drop", "count", "enter",
          "deletion", "functions", "row", "see", "off", "on", "team", "commit"}
Ops == {"add", "update", "remove", "activate", "create", "delete"}
NoTeam == [u \in Users |-> "none"]

Request == [at : Steps, op : Ops,
            actor : Users, s : Seasons,
            u : Users, role : Roles \cup {"none"}, \* the row to write; none: out
            team : [Users -> Roles \cup {"none"}], \* the team of a new season
            from : SUBSET Seasons,                 \* the season it is copied from
            copy : BOOLEAN,                        \* and whether its team is too
            active : BOOLEAN,                      \* the new season enters active
            sales : BOOLEAN,                       \* the removed member had sales
            dir : SUBSET Users,                    \* the direction it found
            seen : SUBSET Seasons,                 \* active rows its UPDATE found
            off : SUBSET Seasons, on : SUBSET Seasons, gone : SUBSET Seasons]

Idle == [at |-> "idle", op |-> "add", actor |-> Founder, s |-> First, u |-> Founder,
         role |-> "none", team |-> NoTeam, from |-> {}, copy |-> FALSE, active |-> FALSE,
         sales |-> FALSE, dir |-> {}, seen |-> {}, off |-> {}, on |-> {}, gone |-> {}]

Open == {s \in Seasons : status[s] = "open"}
\* CountAdminsInSeason: the rows it counts.
Direction(s) == {u \in Users : role[s][u] = "admin" /\ <<s, u>> \notin left}

At(r, step) == req[r].at = step
Goto(r, step) == req' = [req EXCEPT ![r].at = step]
Finish(r) == req' = [req EXCEPT ![r] = Idle]

\* The row of season s is locked by another transaction.
Held(r, s) == \E x \in Requests \ {r} : s \in req[x].off \cup req[x].on \cup req[x].gone
\* Its deletion has not been committed: whoever refers to it waits.
Deleting(s) == \E x \in Requests : s \in req[x].gone

Init ==
    /\ status = [s \in Seasons |-> IF s = First THEN "open" ELSE "new"]
    /\ course = {First}
    /\ role = [s \in Seasons |->
                 IF s = First THEN [NoTeam EXCEPT ![Founder] = "admin"] ELSE NoTeam]
    /\ left = {} /\ sold = {} /\ settled = {} /\ crossed = FALSE /\ served = 0
    /\ req = [r \in Requests |-> Idle]

---------------------------------------------------------------------------
(* The session and the role it carries.  It is read once, before the       *)
(* handler: nothing reads it again.                                        *)

\* GetUserWithMembership: the role in the season in course; when there is
\* none, that of the latest season they were in, left or not.  Which one is
\* the latest is not kept: it may be any.
Manages(a) ==
    \/ \E s \in course : a \in Direction(s)
    \/ course = {} /\ \E s \in Open : role[s][a] = "admin"

\* Somebody is deleting and somebody is activating the same season.
Crosses(r, op, s) == \E x \in Requests \ {r} :
    /\ ~At(x, "idle") /\ req[x].s = s
    /\ {op, req[x].op} = {"activate", "delete"}

\* RequireRole(admin), and then the handler with q.
Begin(r, q) ==
    /\ At(r, "idle") /\ served < MaxServed
    /\ served' = served + 1
    /\ \E a \in Users : Manages(a) /\ req' = [req EXCEPT ![r] = [q EXCEPT !.actor = a]]
    /\ crossed' = (crossed \/ Crosses(r, q.op, q.s))
    /\ UNCHANGED <<status, course, team, history>>

---------------------------------------------------------------------------
(* The team.                                                               *)

\* UpsertMembership: a season that no longer exists gives ErrNoRows.
Upsert(s, u, new) ==
    /\ ~Deleting(s)
    /\ role' = IF s \in Open THEN [role EXCEPT ![s][u] = new] ELSE role
    /\ left' = left \ {<<s, u>>}

\* LeaveMembership: the row keeps its role.
Leave(s, u) ==
    /\ ~Deleting(s)
    /\ left' = IF role[s][u] = "none" THEN left ELSE left \cup {<<s, u>>}
    /\ UNCHANGED role

\* DeleteMembership
DeleteRow(s, u) ==
    /\ ~Deleting(s)
    /\ role' = [role EXCEPT ![s][u] = "none"]
    /\ left' = left \ {<<s, u>>}

TeamOnly == UNCHANGED <<status, course, history, crossed, served>>

\* POST /seasons/{id}/members
StartAdd(r) == \E s \in Open, u \in Users, new \in Roles :
    Begin(r, [Idle EXCEPT !.at = "add", !.s = s, !.u = u, !.role = new])

AddMember(r) ==
    /\ At(r, "add")
    /\ Upsert(req[r].s, req[r].u, req[r].role)
    /\ Finish(r) /\ TeamOnly

\* PATCH /users/{id}; new = "none" is participa = false.
StartUpdate(r) == \E u \in Users, new \in Roles \cup {"none"} :
    Begin(r, [Idle EXCEPT !.at = "season", !.op = "update", !.u = u, !.role = new])

\* ErrSelfLockout, then GetActiveSeason.
UpdateRead(r) == LET q == req[r] IN
    /\ At(r, "season")
    /\ IF (q.actor = q.u /\ q.role # "admin") \/ course = {} THEN Finish(r)
       ELSE \E s \in course : req' = [req EXCEPT ![r].at = "write", ![r].s = s]
    /\ TeamOnly /\ UNCHANGED team

UpdateUser(r) == LET q == req[r] IN
    /\ At(r, "write")
    /\ IF q.role = "none" THEN Leave(q.s, q.u) ELSE Upsert(q.s, q.u, q.role)
    /\ Finish(r) /\ TeamOnly

\* DELETE /seasons/{id}/members/{userId}
StartRemove(r) == \E s \in Open, u \in Users :
    Begin(r, [Idle EXCEPT !.at = "removal", !.op = "remove", !.s = s, !.u = u])

\* Mutant: the direction is not counted.
RemovalCheck_NotCounted(r) == LET q == req[r] IN
    /\ At(r, "removal")
    /\ IF q.actor = q.u \/ role[q.s][q.u] = "none" THEN Finish(r)
       ELSE req' = [req EXCEPT ![r].at = "sales", ![r].dir = Direction(q.s)]
    /\ TeamOnly /\ UNCHANGED team

\* Not oneself, and not the last of the direction.
RemovalCheck(r) == LET q == req[r] IN
    /\ At(r, "removal")
    /\ IF \/ q.actor = q.u
          \/ role[q.s][q.u] = "none"
          \/ role[q.s][q.u] = "admin" /\ Cardinality(Direction(q.s)) <= 1
       THEN Finish(r)
       ELSE req' = [req EXCEPT ![r].at = "sales", ![r].dir = Direction(q.s)]
    /\ TeamOnly /\ UNCHANGED team

\* CountSalesBySellerInSeason
RemovalSales(r) == LET q == req[r] IN
    /\ At(r, "sales")
    /\ req' = [req EXCEPT ![r].at = "drop", ![r].sales = <<q.s, q.u>> \in sold]
    /\ TeamOnly /\ UNCHANGED team

\* With sales the row stays and is marked as left.
RemoveMember(r) == LET q == req[r] IN
    /\ At(r, "drop")
    /\ IF q.sales THEN Leave(q.s, q.u) ELSE DeleteRow(q.s, q.u)
    /\ Finish(r) /\ TeamOnly

---------------------------------------------------------------------------
(* Which season is in course.                                              *)

SeasonOnly == UNCHANGED <<status, course, team, history, crossed, served>>

\* POST /seasons/{id}/activate
StartActivate(r) == \E s \in Open :
    Begin(r, [Idle EXCEPT !.at = "count", !.op = "activate", !.s = s])

\* Mutant: the direction of the season is not looked at.
ActivateCount_NotLooked(r) == /\ At(r, "count")
                              /\ Goto(r, "see") /\ SeasonOnly

\* GetSeason and CountAdminsInSeason: without direction the actor enters.
ActivateCount(r) == LET q == req[r] IN
    /\ At(r, "count")
    /\ IF q.s \notin Open THEN Finish(r)
       ELSE req' = [req EXCEPT ![r].at = IF Direction(q.s) = {} THEN "enter" ELSE "see",
                               ![r].dir = Direction(q.s)]
    /\ SeasonOnly

ActivateEnter(r) == LET q == req[r] IN
    /\ At(r, "enter")
    /\ Upsert(q.s, q.actor, "admin")
    /\ IF q.s \in Open THEN req' = [req EXCEPT ![r].at = "see", ![r].dir = {q.actor}]
       ELSE Finish(r)
    /\ TeamOnly

\* POST /seasons: the team is a list, or copied, or only the actor.
StartCreate(r) == \E s \in Seasons :
    /\ status[s] = "new" /\ \A x \in Requests : req[x].op = "create" => req[x].s # s
    /\ \E active, copy \in BOOLEAN, from \in {{}} \cup {{f} : f \in Open},
          list \in [Users -> Roles \cup {"none"}] :
       /\ copy => from # {} /\ list = NoTeam
       /\ Begin(r, [Idle EXCEPT !.at = IF active THEN "see" ELSE "on", !.op = "create", !.s = s,
                      !.team = list, !.from = from, !.copy = copy, !.active = active])

\* DeactivateAllSeasons finds its rows ...
SeeActive(r) ==
    /\ At(r, "see")
    /\ req' = [req EXCEPT ![r].at = "off", ![r].seen = course]
    /\ SeasonOnly

\* ... waits for each and writes those that still are active.
Deactivate(r) == LET q == req[r] IN
    /\ At(r, "off")
    /\ \A s \in q.seen : ~Held(r, s)
    /\ req' = [req EXCEPT ![r].at = "on", ![r].off = q.seen \cap course]
    /\ SeasonOnly

\* seasons_one_active_per_org: other entries of the index, those to wait for
\* because their transaction has not ended, and those that refuse.
Entries(r) == course \ (req[r].off \cup {req[r].s})
Pending(r) == \E x \in Requests \ {r} :
    \/ req[x].on \ {req[r].s} # {}
    \/ (req[x].off \cup req[x].gone) \cap Entries(r) # {}

\* Mutant: the migration without the unique index.
SetActive_NoIndex(r, next) == /\ ~Held(r, req[r].s)
                              /\ req' = [req EXCEPT ![r].at = next, ![r].on = {req[r].s}]

\* The season becomes active unless another one is.
SetActive(r, next) ==
    /\ ~Held(r, req[r].s) /\ ~Pending(r)
    /\ IF Entries(r) # {} THEN Finish(r)
       ELSE req' = [req EXCEPT ![r].at = next, ![r].on = {req[r].s}]

\* SetActiveSeason: a season that no longer exists is no error.
ActivateSet(r) ==
    /\ At(r, "on") /\ req[r].op = "activate"
    /\ IF req[r].s \in Open THEN SetActive(r, "commit") ELSE Goto(r, "commit")
    /\ SeasonOnly

\* INSERT INTO seasons
CreateInsert(r) ==
    /\ At(r, "on") /\ req[r].op = "create"
    /\ IF req[r].active THEN SetActive(r, "team") ELSE Goto(r, "team")
    /\ SeasonOnly

\* The actor enters as direction, then the list, which may say otherwise, or
\* the team of the other season, which may not.
NewTeam(q) == [u \in Users |->
    IF q.team[u] # "none" THEN q.team[u]
    ELSE IF u = q.actor THEN "admin"
    ELSE IF q.copy /\ \E s \in q.from : <<s, u>> \notin left THEN role[CHOOSE s \in q.from : TRUE][u]
    ELSE "none"]

CreateTeam(r) == LET q == req[r] IN
    /\ At(r, "team")
    /\ IF q.from \subseteq Open
       THEN req' = [req EXCEPT ![r].at = "commit", ![r].team = NewTeam(q), ![r].dir = {q.actor}]
       ELSE Finish(r)
    /\ SeasonOnly

---------------------------------------------------------------------------
(* DELETE /seasons/{id}, one transaction that locks nothing when it reads. *)

HasHistory(s) == s \in settled \/ \E u \in Users : <<s, u>> \in sold

StartDelete(r) == \E s \in Open :
    Begin(r, [Idle EXCEPT !.at = "deletion", !.op = "delete", !.s = s])

\* Mutant: the season in course is deleted too.
DeletionCheck_InCourse(r) == /\ At(r, "deletion")
                             /\ IF req[r].s \notin Open \/ HasHistory(req[r].s) THEN Finish(r)
                                ELSE Goto(r, "functions")
                             /\ SeasonOnly

\* temporadaSinUso, and not the season in course.
DeletionCheck(r) ==
    /\ At(r, "deletion")
    /\ IF req[r].s \notin Open \/ HasHistory(req[r].s) \/ req[r].s \in course THEN Finish(r)
       ELSE Goto(r, "functions")
    /\ SeasonOnly

\* Mutant: the functions take their sales with them.
DeleteFunctions_Cascade(r) == At(r, "functions") /\ Goto(r, "row") /\ SeasonOnly

\* DeleteSeasonFunctions: sales refer to their function, and forbid it.
DeleteFunctions(r) ==
    /\ At(r, "functions")
    /\ IF \E u \in Users : <<req[r].s, u>> \in sold THEN Finish(r) ELSE Goto(r, "row")
    /\ SeasonOnly

\* Mutant: the row is not waited for.
DeleteSeason_NotWaiting(r) == LET q == req[r] IN
    /\ At(r, "row")
    /\ IF q.s \in settled THEN Finish(r)
       ELSE req' = [req EXCEPT ![r].at = "commit", ![r].gone = {q.s} \cap Open]
    /\ SeasonOnly

\* DeleteSeason: settlements refer to it; is_active is not looked at again.
DeleteSeason(r) == LET q == req[r] IN
    /\ At(r, "row") /\ ~Held(r, q.s)
    /\ IF q.s \in settled THEN Finish(r)
       ELSE req' = [req EXCEPT ![r].at = "commit", ![r].gone = {q.s} \cap Open]
    /\ SeasonOnly

Commit(r) == LET q == req[r] IN
    /\ At(r, "commit")
    /\ status' = [s \in Seasons |-> IF s \in q.gone THEN "gone"
                                    ELSE IF q.op = "create" /\ s = q.s THEN "open" ELSE status[s]]
    /\ course' = (course \ (q.off \cup q.gone)) \cup q.on
    /\ role' = [s \in Seasons |-> IF s \in q.gone THEN NoTeam
                                  ELSE IF q.op = "create" /\ s = q.s THEN q.team ELSE role[s]]
    /\ left' = {row \in left : row[1] \notin q.gone}
    /\ Finish(r)
    /\ UNCHANGED <<history, crossed, served>>

\* A statement or the commit fails, or the server stops.
Abort(r) == ~At(r, "idle") /\ Finish(r) /\ SeasonOnly

---------------------------------------------------------------------------
(* What hangs from a season, written by the other handlers.                *)

HistoryFull == Cardinality(sold) + Cardinality(settled) >= MaxHistory

\* A sale refers to a function: it waits for one being deleted.
Sell(s, u) ==
    /\ s \in Open /\ role[s][u] # "none" /\ ~HistoryFull
    /\ \A x \in Requests : req[x].op = "delete" /\ req[x].s = s => req[x].at \notin {"row", "commit"}
    /\ sold' = sold \cup {<<s, u>>}
    /\ UNCHANGED <<status, course, team, settled, crossed, served, req>>

Settle(s) ==
    /\ s \in Open /\ ~Deleting(s) /\ ~HistoryFull
    /\ settled' = settled \cup {s}
    /\ UNCHANGED <<status, course, team, sold, crossed, served, req>>

Step(r) ==
    \/ StartAdd(r) \/ AddMember(r)
    \/ StartUpdate(r) \/ UpdateRead(r) \/ UpdateUser(r)
    \/ StartRemove(r) \/ RemovalCheck(r) \/ RemovalSales(r) \/ RemoveMember(r)
    \/ StartActivate(r) \/ ActivateCount(r) \/ ActivateEnter(r)
    \/ StartCreate(r) \/ SeeActive(r) \/ Deactivate(r) \/ ActivateSet(r)
    \/ CreateInsert(r) \/ CreateTeam(r)
    \/ StartDelete(r) \/ DeletionCheck(r) \/ DeleteFunctions(r) \/ DeleteSeason(r)
    \/ Commit(r) \/ Abort(r)

Next == \/ \E r \in Requests : Step(r)
        \/ \E s \in Seasons, u \in Users : Sell(s, u)
        \/ \E s \in Seasons : Settle(s)

Spec == Init /\ [][Next]_vars

---------------------------------------------------------------------------
TypeOK ==
    /\ status \in [Seasons -> {"new", "open", "gone"}]
    /\ course \subseteq Open
    /\ role \in [Seasons -> [Users -> Roles \cup {"none"}]]
    /\ left \subseteq {row \in Seasons \X Users : role[row[1]][row[2]] # "none"}
    /\ sold \subseteq Seasons \X Users /\ settled \subseteq Seasons
    /\ crossed \in BOOLEAN /\ served \in 0..MaxServed
    /\ req \in [Requests -> Request]

(* seasons.sql and handleCreateSeason: however the requests that create    *)
(* and activate seasons overlap, two seasons are never in course at once.  *)
(* The row that DeactivateAllSeasons waited for may leave a season of      *)
(* another request active: the unique index refuses the second.            *)
OneInCourse == Cardinality(course) <= 1

(* "La temporada en curso no se borra" (handleDeleteSeason): there always  *)
(* is a season in course, whatever fails and rolls back, unless a season   *)
(* was being deleted and activated at the same time.  Then there may be    *)
(* none: neither handler locks the row it has read.                        *)
OrderlyCourse == crossed \/ course # {}

(* A season with sales or settlements is never deleted: temporadaSinUso    *)
(* reads it once, and the foreign keys stop what arrives after.            *)
HistoryKept == \A s \in Seasons : HasHistory(s) => s \in Open

(* "Nunca una temporada sin direccion": an edition or a removal leaves a   *)
(* season without direction only if its actor was no longer part of it or, *)
(* for a removal, if the direction has changed since it was counted.       *)
(* AddMember is not bound by this: it checks nothing and may demote.       *)
Emptied(s) == s \in Open /\ Direction(s) # {} /\ s \in Open' /\ Direction(s)' = {}
RaceOf(r, s) == req[r].actor \notin Direction(s)
DirectionGuarded == [][\A s \in Seasons : Emptied(s) => \E r \in Requests :
    \/ At(r, "add")
    \/ At(r, "write") /\ RaceOf(r, s)
    \/ At(r, "drop") /\ RaceOf(r, s) /\ Direction(s) # req[r].dir]_vars

(* handleActivateSeason and handleCreateSeason: the season that comes in   *)
(* course had direction when the request looked, or got the actor; without *)
(* direction it comes only if it lost it since, or the list of the request *)
(* gives the actor another role.                                           *)
ArrivesWithDirection == [][\A s \in course' \ course : Direction(s)' # {} \/
    \E r \in Requests : /\ At(r, "commit") /\ req[r].s = s /\ req[r].dir # {}
                        /\ req[r].op = "create" => req[r].team[req[r].actor] # "admin"]_vars
=============================================================================
