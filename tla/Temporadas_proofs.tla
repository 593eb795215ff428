------------------------- MODULE Temporadas_proofs -------------------------
(***************************************************************************)
(* Proofs about Temporadas, for any number of seasons, people, roles and   *)
(* requests served at once.                                                *)
(***************************************************************************)
EXTENDS Temporadas, FiniteSetTheorems, TLAPS

---------------------------------------------------------------------------
(* The inductive invariant.                                                *)

\* What one request may hold at each of its steps.
Shape(q) ==
    /\ q.on \subseteq {q.s} /\ q.gone \subseteq {q.s}
    /\ q.on # {} => q.at \in {"team", "commit"}
    /\ q.off # {} => q.at \in {"on", "team", "commit"}
    /\ q.gone # {} => q.at = "commit" /\ q.op = "delete"
    /\ q.on # {} \/ q.off # {} => q.op \in {"activate", "create"}
    /\ q.at \in {"count", "enter"} => q.op = "activate"
    /\ q.at \in {"see", "off", "on"} => q.op \in {"activate", "create"}
    /\ q.at = "team" => q.op = "create"
    /\ q.at \in {"deletion", "functions", "row"} => q.op = "delete"
    /\ q.at = "commit" => q.op \in {"activate", "create", "delete"}
    /\ q.at \in {"idle", "add", "season", "write", "removal", "sales", "drop"}
         => q.op \in {"add", "update", "remove"}
    /\ q.op = "create" /\ q.at \in {"see", "off"} => q.active
    /\ q.op = "create" /\ q.at = "on" /\ q.off # {} => q.active
    /\ q.op = "create" /\ q.at \in {"team", "commit"} /\ q.off # {} => q.on # {}
    \* what the checks of the team leave to be written
    /\ q.at = "add" => q.role # "none"
    /\ q.at = "write" => q.actor # q.u \/ q.role = "admin"
    /\ q.at \in {"sales", "drop"} => q.actor # q.u /\ q.dir # {q.u}
    /\ q.op = "activate" /\ q.at \in {"see", "off", "on", "commit"} => q.dir # {}
    /\ q.op = "create" /\ q.at = "commit" => q.dir # {}
Shapes == \A r \in Requests : Shape(req[r])

\* A season that does not exist has no team.
NoTeams == \A s \in Seasons, u \in Users : s \notin Open => role[s][u] = "none"

\* One request creates a season, and until then there is nothing to activate or delete.
Creating == \A r \in Requests : req[r].op = "create" =>
    /\ status[req[r].s] = "new"
    /\ \A x \in Requests : req[x].op = "create" /\ req[x].s = req[r].s => x = r
Existing == \A r \in Requests : req[r].op \in {"activate", "delete"} => status[req[r].s] # "new"

\* The unique index: one request at a time has a season to put in course, and it has
\* taken out the others.
AtMostOne == \A s, t \in course : s = t
Index == \A r \in Requests : req[r].on # {} =>
    /\ course \ req[r].off \subseteq req[r].on
    /\ \A x \in Requests : req[x].on # {} => x = r

\* The lock of the row: what is about to be in course is not being deleted.
Rows == \A r \in Requests : req[r].on # {} =>
    /\ \A x \in Requests : req[r].s \notin req[x].gone
    /\ req[r].op = "activate" => req[r].s \in Open

\* The only way to be left without a season in course.
Crossing == \A r, x \in Requests :
    req[r].op = "activate" /\ req[x].op = "delete" /\ req[r].s = req[x].s => crossed
Lost == \A r \in Requests : req[r].op = "activate" /\ req[r].s \notin Open => crossed
Phase(q) ==
    /\ q.op = "delete" /\ q.at \in {"functions", "row", "commit"} /\ q.s \in course => crossed
    /\ q.op = "activate" /\ q.at = "commit" /\ q.on = {} => crossed
    /\ q.op = "delete" /\ q.at \in {"row", "commit"} => \A u \in Users : <<q.s, u>> \notin sold
    /\ q.gone \cap settled = {}
Phases == \A r \in Requests : Phase(req[r])

IInv == /\ TypeOK /\ Shapes /\ NoTeams /\ Creating /\ Existing
        /\ AtMostOne /\ Index /\ Rows /\ Crossing /\ Lost /\ Phases
        /\ OrderlyCourse /\ HistoryKept

---------------------------------------------------------------------------
(* Requests.                                                               *)

\* Request r goes from what it was to q, and the others wait.
Becomes(r, q) ==
    /\ req' \in [Requests -> Request]
    /\ \A x \in Requests : req'[x] = IF x = r THEN q ELSE req[x]

LEMMA IdleType == Idle \in Request /\ NoTeam \in [Users -> Roles \cup {"none"}]
<1>1. Founder \in Users /\ First \in Seasons
  BY TemporadasAssumption
<1>2. NoTeam \in [Users -> Roles \cup {"none"}]
  BY DEF NoTeam
<1>3. QED
  BY <1>1, <1>2 DEF Idle, Request, Steps, Ops

LEMMA Finishes ==
  ASSUME TypeOK, NEW r \in Requests, Finish(r)
  PROVE  Becomes(r, Idle)
  BY IdleType DEF Finish, Becomes, TypeOK

LEMMA Moves ==
  ASSUME TypeOK, NEW r \in Requests, NEW q \in Request, req' = [req EXCEPT ![r] = q]
  PROVE  Becomes(r, q)
  BY DEF Becomes, TypeOK

LEMMA Goes ==
  ASSUME TypeOK, NEW r \in Requests, NEW step \in Steps, Goto(r, step)
  PROVE  Becomes(r, [req[r] EXCEPT !.at = step])
<1> DEFINE q == [req[r] EXCEPT !.at = step]
<1>1. req \in [Requests -> Request] /\ req[r] \in Request
  BY DEF TypeOK
<1>2. req' = [req EXCEPT ![r] = q]
  BY <1>1 DEF Goto
<1>3. q \in Request
  BY <1>1 DEF Request
<1> HIDE DEF q
<1>4. Becomes(r, q)
  BY <1>2, <1>3, Moves
<1>5. QED
  BY <1>4 DEF q

---------------------------------------------------------------------------
(* A step of one request that leaves the seasons alone.                    *)

SeasonsKept == UNCHANGED <<status, course, crossed, served, sold, settled>>

TeamTypes == /\ role \in [Seasons -> [Users -> Roles \cup {"none"}]]
             /\ left \subseteq {row \in Seasons \X Users : role[row[1]][row[2]] # "none"}

\* It holds nothing that another request could wait for, or the same as before.
Light(q) == q.op \in {"add", "update", "remove"} /\ q.on = {} /\ q.off = {} /\ q.gone = {}
Alike(p, q) == /\ q.op = p.op /\ q.s = p.s /\ q.on = p.on /\ q.gone = p.gone
               /\ q.off = p.off \/ q.on = {}

LEMMA IdleIsLight == Shape(Idle) /\ Phase(Idle) /\ Light(Idle)
  BY DEF Idle, Shape, Phase, Light

LEMMA OthersKeep ==
  ASSUME IInv, SeasonsKept, NEW r \in Requests, NEW q, Becomes(r, q), Shape(q), Phase(q)
  PROVE  /\ (TeamTypes' => TypeOK') /\ Shapes' /\ Phases'
         /\ AtMostOne' /\ OrderlyCourse' /\ HistoryKept'
<1>1. TeamTypes' => TypeOK'
  BY DEF IInv, TypeOK, SeasonsKept, TeamTypes, Becomes, Open
<1>2. Shapes'
  BY DEF IInv, Shapes, Shape, Becomes
<1>3. Phases'
  BY DEF IInv, Phases, Phase, Becomes, SeasonsKept
<1>4. AtMostOne' /\ OrderlyCourse' /\ HistoryKept'
  BY DEF IInv, AtMostOne, OrderlyCourse, HistoryKept, HasHistory, Open, SeasonsKept
<1>5. QED
  BY <1>1, <1>2, <1>3, <1>4

LEMMA LocalKeeps ==
  ASSUME IInv, SeasonsKept, NEW r \in Requests, NEW q, Becomes(r, q), Shape(q), Phase(q),
         Light(q) \/ Alike(req[r], q), TeamTypes', NoTeams'
  PROVE  IInv'
<1>1. TypeOK' /\ Shapes' /\ Phases' /\ AtMostOne' /\ OrderlyCourse' /\ HistoryKept'
  BY OthersKeep
<1>2. Creating' /\ Existing'
  BY DEF IInv, Creating, Existing, Becomes, SeasonsKept, Light, Alike
<1>3. Index'
  BY DEF IInv, Index, Becomes, SeasonsKept, Light, Alike
<1>4. Rows'
  BY DEF IInv, Rows, Becomes, SeasonsKept, Light, Alike, Open
<1>5. Crossing' /\ Lost'
  BY DEF IInv, Crossing, Lost, Becomes, SeasonsKept, Light, Alike, Open
<1>6. QED
  BY <1>1, <1>2, <1>3, <1>4, <1>5 DEF IInv

---------------------------------------------------------------------------
(* The rows of the team.                                                   *)

LEMMA TeamStays ==
  ASSUME IInv, SeasonsKept, UNCHANGED team
  PROVE  TeamTypes' /\ NoTeams'
  BY DEF IInv, TypeOK, TeamTypes, NoTeams, SeasonsKept, team, Open

LEMMA UpsertTeam ==
  ASSUME IInv, SeasonsKept, NEW s \in Seasons, NEW u \in Users, NEW new \in Roles, Upsert(s, u, new)
  PROVE  /\ TeamTypes' /\ NoTeams'
         /\ \A t \in Seasons, v \in Users : v # u \/ t # s =>
               (v \in Direction(t)' <=> v \in Direction(t))
         /\ new = "admin" /\ s \in Open => u \in Direction(s)'
<1>1. role \in [Seasons -> [Users -> Roles \cup {"none"}]] /\ new # "none"
  BY TemporadasAssumption DEF IInv, TypeOK
<1>2. \A t \in Seasons, v \in Users :
        role'[t][v] = IF s \in Open /\ t = s /\ v = u THEN new ELSE role[t][v]
  BY <1>1 DEF Upsert
<1>3. role' \in [Seasons -> [Users -> Roles \cup {"none"}]]
  BY <1>1 DEF Upsert
<1>4. left' = left \ {<<s, u>>}
  BY DEF Upsert
<1>5. TeamTypes'
  BY <1>1, <1>2, <1>3, <1>4 DEF TeamTypes, IInv, TypeOK
<1>6. NoTeams'
  BY <1>2 DEF NoTeams, IInv, SeasonsKept, Open
<1>7. QED
  BY <1>2, <1>4, <1>5, <1>6 DEF Direction

LEMMA LeaveTeam ==
  ASSUME IInv, SeasonsKept, NEW s \in Seasons, NEW u \in Users, Leave(s, u) \/ DeleteRow(s, u)
  PROVE  /\ TeamTypes' /\ NoTeams'
         /\ \A t \in Seasons, v \in Users : v # u \/ t # s =>
               (v \in Direction(t)' <=> v \in Direction(t))
<1>1. role \in [Seasons -> [Users -> Roles \cup {"none"}]]
  BY DEF IInv, TypeOK
<1>2. CASE Leave(s, u)
  <2>1. role' = role /\ left' = IF role[s][u] = "none" THEN left ELSE left \cup {<<s, u>>}
    BY <1>2 DEF Leave
  <2>2. TeamTypes'
    BY <1>1, <2>1 DEF TeamTypes, IInv, TypeOK
  <2>3. NoTeams'
    BY <2>1 DEF NoTeams, IInv, SeasonsKept, Open
  <2>4. QED
    BY <2>1, <2>2, <2>3 DEF Direction
<1>3. CASE DeleteRow(s, u)
  <2>1. \A t \in Seasons, v \in Users :
          role'[t][v] = IF t = s /\ v = u THEN "none" ELSE role[t][v]
    BY <1>1, <1>3 DEF DeleteRow
  <2>2. role' \in [Seasons -> [Users -> Roles \cup {"none"}]] /\ left' = left \ {<<s, u>>}
    BY <1>1, <1>3 DEF DeleteRow
  <2>3. TeamTypes'
    BY <1>1, <2>1, <2>2 DEF TeamTypes, IInv, TypeOK
  <2>4. NoTeams'
    BY <2>1 DEF NoTeams, IInv, SeasonsKept, Open
  <2>5. QED
    BY <2>1, <2>2, <2>3, <2>4 DEF Direction
<1>4. QED
  BY <1>2, <1>3

\* A request that ends, whatever it did to the team.
LEMMA FinishKeeps ==
  ASSUME IInv, SeasonsKept, NEW r \in Requests, Finish(r), TeamTypes', NoTeams'
  PROVE  IInv'
<1>1. Becomes(r, Idle)
  BY Finishes DEF IInv
<1>2. QED
  BY <1>1, IdleIsLight, LocalKeeps

---------------------------------------------------------------------------
(* A request arrives.                                                      *)

Fresh(q) ==
    /\ q.on = {} /\ q.off = {} /\ q.gone = {}
    /\ q.at = "add" => q.role # "none"
    /\ q.at = "see" => q.active
    /\ \/ q.op \in {"add", "update", "remove"} /\ q.at \in {"add", "season", "removal"}
       \/ q.op = "activate" /\ q.at = "count"
       \/ q.op = "create" /\ q.at \in {"see", "on"}
       \/ q.op = "delete" /\ q.at = "deletion"

LEMMA FreshShape ==
  ASSUME NEW q \in Request, NEW a \in Users, Fresh(q)
  PROVE  LET p == [q EXCEPT !.actor = a]
         IN  p \in Request /\ p.op = q.op /\ p.s = q.s /\ Fresh(p) /\ Shape(p) /\ Phase(p)
<1> DEFINE p == [q EXCEPT !.actor = a]
<1>1. /\ p \in Request /\ p.op = q.op /\ p.s = q.s /\ p.at = q.at
      /\ p.role = q.role /\ p.active = q.active /\ p.on = q.on /\ p.off = q.off /\ p.gone = q.gone
  BY DEF Request
<1> HIDE DEF p
<1>2. Fresh(p)
  BY <1>1 DEF Fresh
<1>3. Shape(p)
  BY <1>2 DEF Fresh, Shape
<1>4. Phase(p)
  BY <1>2 DEF Fresh, Phase
<1>5. QED
  BY <1>1, <1>2, <1>3, <1>4 DEF p

LEMMA BeginKeeps ==
  ASSUME IInv, NEW r \in Requests, NEW q \in Request, Begin(r, q), Fresh(q),
         q.op = "create" => /\ status[q.s] = "new"
                            /\ \A x \in Requests : req[x].op = "create" => req[x].s # q.s,
         q.op \in {"activate", "delete"} => q.s \in Open
  PROVE  IInv'
<1>1. UNCHANGED <<status, course, role, left, sold, settled>>
  BY DEF Begin, team, history
<1>2. PICK a \in Users : req' = [req EXCEPT ![r] = [q EXCEPT !.actor = a]]
  BY DEF Begin
<1> DEFINE p == [q EXCEPT !.actor = a]
<1>3. p \in Request /\ p.op = q.op /\ p.s = q.s /\ Fresh(p) /\ Shape(p) /\ Phase(p)
  BY FreshShape
<1>4. req' = [req EXCEPT ![r] = p]
  BY <1>2
<1> HIDE DEF p
<1>5. Becomes(r, p)
  BY <1>3, <1>4, Moves DEF IInv
<1>6. p.on = {} /\ p.off = {} /\ p.gone = {}
  BY <1>3 DEF Fresh
<1>7. crossed => crossed'
  BY DEF Begin
<1>8. TypeOK'
  <2>1. crossed' \in BOOLEAN
    BY Zenon DEF Begin
  <2>2. served' \in 0..MaxServed
    BY TemporadasAssumption DEF Begin, IInv, TypeOK
  <2>3. QED
    BY <1>1, <1>5, <2>1, <2>2 DEF IInv, TypeOK, Becomes, Open
<1>9. Shapes'
  BY <1>3, <1>5 DEF IInv, Shapes, Shape, Becomes
<1>10. Phases'
  BY <1>1, <1>3, <1>5, <1>7 DEF IInv, Phases, Phase, Becomes
<1>11. NoTeams' /\ AtMostOne' /\ OrderlyCourse' /\ HistoryKept'
  BY <1>1, <1>7 DEF IInv, NoTeams, AtMostOne, OrderlyCourse, HistoryKept, HasHistory, Open
<1>12. Creating' /\ Existing'
  BY <1>1, <1>3, <1>5 DEF IInv, Creating, Existing, Becomes, Open
<1>13. Index' /\ Rows'
  BY <1>1, <1>5, <1>6 DEF IInv, Index, Rows, Becomes, Open
<1>14. Crossing'
  <2> SUFFICES ASSUME NEW x \in Requests, NEW y \in Requests, x # y,
                      req'[x].op = "activate", req'[y].op = "delete", req'[x].s = req'[y].s
               PROVE  crossed'
    BY DEF Crossing
  <2>1. CASE x # r /\ y # r
    BY <1>5, <1>7, <2>1 DEF IInv, Crossing, Becomes
  <2>2. CASE x = r
    <3>1. req[y].op = "delete" /\ req[y].s = q.s /\ q.op = "activate"
      BY <1>3, <1>5, <2>2 DEF Becomes
    <3>2. req[y].at # "idle"
      BY <3>1 DEF IInv, Shapes, Shape
    <3>3. Crosses(r, q.op, q.s)
      BY <2>2, <3>1, <3>2 DEF Crosses, At
    <3>4. QED
      BY <3>3 DEF Begin
  <2>3. CASE y = r
    <3>1. req[x].op = "activate" /\ req[x].s = q.s /\ q.op = "delete"
      BY <1>3, <1>5, <2>3 DEF Becomes
    <3>2. req[x].at # "idle"
      BY <3>1 DEF IInv, Shapes, Shape
    <3>3. Crosses(r, q.op, q.s)
      BY <2>3, <3>1, <3>2 DEF Crosses, At
    <3>4. QED
      BY <3>3 DEF Begin
  <2>4. QED
    BY <2>1, <2>2, <2>3
<1>15. Lost'
  BY <1>1, <1>3, <1>5, <1>7 DEF IInv, Lost, Becomes, Open
<1>16. QED
  BY <1>8, <1>9, <1>10, <1>11, <1>12, <1>13, <1>14, <1>15 DEF IInv

LEMMA StartsKeep ==
  ASSUME IInv, NEW r \in Requests,
         StartAdd(r) \/ StartUpdate(r) \/ StartRemove(r) \/ StartActivate(r) \/ StartDelete(r)
  PROVE  IInv'
<1>1. CASE StartAdd(r)
  <2>1. PICK s \in Open, u \in Users, new \in Roles :
          Begin(r, [Idle EXCEPT !.at = "add", !.s = s, !.u = u, !.role = new])
    BY <1>1 DEF StartAdd
  <2> DEFINE q == [Idle EXCEPT !.at = "add", !.s = s, !.u = u, !.role = new]
  <2>2. q \in Request /\ Fresh(q) /\ q.op = "add"
    BY IdleType, TemporadasAssumption DEF Request, Steps, Idle, Fresh, Open
  <2>3. Begin(r, q)
    BY <2>1
  <2> HIDE DEF q
  <2>4. QED
    BY <2>2, <2>3, BeginKeeps
<1>2. CASE StartUpdate(r)
  <2>1. PICK u \in Users, new \in Roles \cup {"none"} :
          Begin(r, [Idle EXCEPT !.at = "season", !.op = "update", !.u = u, !.role = new])
    BY <1>2 DEF StartUpdate
  <2> DEFINE q == [Idle EXCEPT !.at = "season", !.op = "update", !.u = u, !.role = new]
  <2>2. q \in Request /\ Fresh(q) /\ q.op = "update"
    BY IdleType DEF Request, Steps, Ops, Idle, Fresh
  <2>3. Begin(r, q)
    BY <2>1
  <2> HIDE DEF q
  <2>4. QED
    BY <2>2, <2>3, BeginKeeps
<1>3. CASE StartRemove(r)
  <2>1. PICK s \in Open, u \in Users :
          Begin(r, [Idle EXCEPT !.at = "removal", !.op = "remove", !.s = s, !.u = u])
    BY <1>3 DEF StartRemove
  <2> DEFINE q == [Idle EXCEPT !.at = "removal", !.op = "remove", !.s = s, !.u = u]
  <2>2. q \in Request /\ Fresh(q) /\ q.op = "remove"
    BY IdleType DEF Request, Steps, Ops, Idle, Fresh, Open
  <2>3. Begin(r, q)
    BY <2>1
  <2> HIDE DEF q
  <2>4. QED
    BY <2>2, <2>3, BeginKeeps
<1>4. CASE StartActivate(r)
  <2>1. PICK s \in Open : Begin(r, [Idle EXCEPT !.at = "count", !.op = "activate", !.s = s])
    BY <1>4 DEF StartActivate
  <2> DEFINE q == [Idle EXCEPT !.at = "count", !.op = "activate", !.s = s]
  <2>2. q \in Request /\ Fresh(q) /\ q.op = "activate" /\ q.s = s
    BY IdleType DEF Request, Steps, Ops, Idle, Fresh, Open
  <2>3. Begin(r, q)
    BY <2>1
  <2> HIDE DEF q
  <2>4. QED
    BY <2>2, <2>3, BeginKeeps
<1>5. CASE StartDelete(r)
  <2>1. PICK s \in Open : Begin(r, [Idle EXCEPT !.at = "deletion", !.op = "delete", !.s = s])
    BY <1>5 DEF StartDelete
  <2> DEFINE q == [Idle EXCEPT !.at = "deletion", !.op = "delete", !.s = s]
  <2>2. q \in Request /\ Fresh(q) /\ q.op = "delete" /\ q.s = s
    BY IdleType DEF Request, Steps, Ops, Idle, Fresh, Open
  <2>3. Begin(r, q)
    BY <2>1
  <2> HIDE DEF q
  <2>4. QED
    BY <2>2, <2>3, BeginKeeps
<1>6. QED
  BY <1>1, <1>2, <1>3, <1>4, <1>5

LEMMA StartCreateKeeps ==
  ASSUME IInv, NEW r \in Requests, StartCreate(r)
  PROVE  IInv'
<1>1. PICK s \in Seasons : 
        /\ status[s] = "new" /\ \A x \in Requests : req[x].op = "create" => req[x].s # s
        /\ \E active, copy \in BOOLEAN, from \in {{}} \cup {{f} : f \in Open},
              list \in [Users -> Roles \cup {"none"}] :
              Begin(r, [Idle EXCEPT !.at = IF active THEN "see" ELSE "on", !.op = "create", !.s = s,
                          !.team = list, !.from = from, !.copy = copy, !.active = active])
  BY DEF StartCreate
<1>2. PICK active \in BOOLEAN, copy \in BOOLEAN, from \in {{}} \cup {{f} : f \in Open},
           list \in [Users -> Roles \cup {"none"}] :
           Begin(r, [Idle EXCEPT !.at = IF active THEN "see" ELSE "on", !.op = "create", !.s = s,
                       !.team = list, !.from = from, !.copy = copy, !.active = active])
  BY <1>1
<1> DEFINE at == IF active THEN "see" ELSE "on"
           q == [Idle EXCEPT !.at = at, !.op = "create", !.s = s,
                   !.team = list, !.from = from, !.copy = copy, !.active = active]
<1>3. from \in SUBSET Seasons /\ at \in {"see", "on"} /\ (at = "see" => active)
  BY DEF Open
<1>4. Begin(r, q)
  BY <1>2
<1> HIDE DEF at
<1>5. q \in Request
  BY <1>3, IdleType DEF Request, Steps, Ops
<1>6. /\ q.at = at /\ q.op = "create" /\ q.s = s /\ q.active = active
      /\ q.on = {} /\ q.off = {} /\ q.gone = {}
  BY DEF Idle
<1> HIDE DEF q
<1>7. q \in Request /\ Fresh(q) /\ q.op = "create" /\ q.s = s
  BY <1>3, <1>5, <1>6 DEF Fresh
<1>8. QED
  BY <1>1, <1>4, <1>7, BeginKeeps

---------------------------------------------------------------------------
(* The team.                                                               *)

TeamSteps == {"add", "season", "write", "removal", "sales", "drop"}

LEMMA TeamStepIsLight ==
  ASSUME IInv, NEW r \in Requests, req[r].at \in TeamSteps
  PROVE  Light(req[r]) /\ req[r] \in Request /\ Shape(req[r])
<1>1. Shape(req[r]) /\ req[r] \in Request
  BY DEF IInv, Shapes, TypeOK
<1>2. Light(req[r])
  BY <1>1 DEF Shape, Light, TeamSteps
<1>3. QED
  BY <1>1, <1>2

LEMMA SeasonsAreKept == ASSUME TeamOnly \/ SeasonOnly PROVE SeasonsKept
  BY DEF TeamOnly, SeasonOnly, SeasonsKept, history

LEMMA TeamWritesKeep ==
  ASSUME IInv, NEW r \in Requests, AddMember(r) \/ UpdateUser(r) \/ RemoveMember(r)
  PROVE  IInv'
<1>1. SeasonsKept /\ Finish(r) /\ req[r].at \in TeamSteps
  BY SeasonsAreKept DEF AddMember, UpdateUser, RemoveMember, At, TeamSteps
<1>2. /\ req[r].s \in Seasons /\ req[r].u \in Users /\ req[r].role \in Roles \cup {"none"}
      /\ Shape(req[r])
  BY <1>1, TeamStepIsLight DEF Request
<1>3. CASE AddMember(r)
  <2>1. Upsert(req[r].s, req[r].u, req[r].role) /\ req[r].role \in Roles
    BY <1>2, <1>3 DEF AddMember, At, Shape
  <2>2. TeamTypes' /\ NoTeams'
    BY <1>1, <1>2, <2>1, UpsertTeam
  <2>3. QED
    BY <1>1, <2>2, FinishKeeps
<1>4. CASE UpdateUser(r)
  <2>1. \/ Leave(req[r].s, req[r].u)
        \/ Upsert(req[r].s, req[r].u, req[r].role) /\ req[r].role \in Roles
    BY <1>2, <1>4 DEF UpdateUser
  <2>2. TeamTypes' /\ NoTeams'
    BY <1>1, <1>2, <2>1, UpsertTeam, LeaveTeam
  <2>3. QED
    BY <1>1, <2>2, FinishKeeps
<1>5. CASE RemoveMember(r)
  <2>1. Leave(req[r].s, req[r].u) \/ DeleteRow(req[r].s, req[r].u)
    BY <1>5 DEF RemoveMember
  <2>2. TeamTypes' /\ NoTeams'
    BY <1>1, <1>2, <2>1, LeaveTeam
  <2>3. QED
    BY <1>1, <2>2, FinishKeeps
<1>6. QED
  BY <1>3, <1>4, <1>5

LEMMA UpdateReadKeeps ==
  ASSUME IInv, NEW r \in Requests, UpdateRead(r)
  PROVE  IInv'
<1>1. SeasonsKept /\ UNCHANGED team /\ req[r].at = "season"
  BY SeasonsAreKept DEF UpdateRead, At
<1>2. TeamTypes' /\ NoTeams'
  BY <1>1, TeamStays
<1>3. CASE Finish(r)
  BY <1>1, <1>2, <1>3, FinishKeeps
<1>4. CASE ~Finish(r)
  <2>1. PICK s \in course : req' = [req EXCEPT ![r].at = "write", ![r].s = s]
    BY <1>4 DEF UpdateRead
  <2>2. ~(req[r].actor = req[r].u /\ req[r].role # "admin")
    BY <1>4 DEF UpdateRead
  <2>3. req[r] \in Request /\ Light(req[r]) /\ s \in Seasons /\ req \in [Requests -> Request]
    BY <1>1, TeamStepIsLight DEF TeamSteps, IInv, TypeOK, Open
  <2> DEFINE q == [req[r] EXCEPT !.at = "write", !.s = s]
  <2>4. req' = [req EXCEPT ![r] = q]
    BY <2>1, <2>3
  <2>5. /\ q \in Request /\ q.at = "write" /\ q.actor = req[r].actor /\ q.u = req[r].u
        /\ q.role = req[r].role /\ Light(q)
    BY <2>3 DEF Request, Steps, Light
  <2> HIDE DEF q
  <2>6. Becomes(r, q)
    BY <2>4, <2>5, Moves DEF IInv
  <2>7. Shape(q) /\ Phase(q)
    BY <2>2, <2>5 DEF Shape, Phase, Light
  <2>8. QED
    BY <1>1, <1>2, <2>5, <2>6, <2>7, LocalKeeps
<1>5. QED
  BY <1>3, <1>4

LEMMA RemovalCheckKeeps ==
  ASSUME IInv, NEW r \in Requests, RemovalCheck(r)
  PROVE  IInv'
<1>1. SeasonsKept /\ UNCHANGED team /\ req[r].at = "removal"
  BY SeasonsAreKept DEF RemovalCheck, At
<1>2. TeamTypes' /\ NoTeams'
  BY <1>1, TeamStays
<1>3. CASE Finish(r)
  BY <1>1, <1>2, <1>3, FinishKeeps
<1>4. CASE ~Finish(r)
  <2> DEFINE dir == Direction(req[r].s)
  <2>1. req' = [req EXCEPT ![r].at = "sales", ![r].dir = dir]
    BY <1>4 DEF RemovalCheck
  <2>2. /\ req[r].actor # req[r].u
        /\ role[req[r].s][req[r].u] = "admin" => ~(Cardinality(dir) <= 1)
    BY <1>4 DEF RemovalCheck
  <2>3. dir # {req[r].u} /\ dir \in SUBSET Users
    <3>1. Cardinality({req[r].u}) = 1
      BY FS_Singleton
    <3>2. role[req[r].s][req[r].u] # "admin" => req[r].u \notin dir
      BY DEF Direction
    <3>3. dir \in SUBSET Users
      BY DEF Direction
    <3> HIDE DEF dir
    <3>4. dir # {req[r].u}
      BY <2>2, <3>1, <3>2
    <3>5. QED
      BY <3>3, <3>4
  <2>4. req[r] \in Request /\ Light(req[r]) /\ req \in [Requests -> Request]
    BY <1>1, TeamStepIsLight DEF TeamSteps, IInv, TypeOK
  <2> HIDE DEF dir
  <2> DEFINE q == [req[r] EXCEPT !.at = "sales", !.dir = dir]
  <2>5. req' = [req EXCEPT ![r] = q]
    BY <2>1, <2>4
  <2>6. /\ q \in Request /\ q.at = "sales" /\ q.actor = req[r].actor /\ q.u = req[r].u
        /\ q.dir = dir /\ Light(q)
    BY <2>3, <2>4 DEF Request, Steps, Light
  <2> HIDE DEF q
  <2>7. Becomes(r, q)
    BY <2>5, <2>6, Moves DEF IInv
  <2>8. Shape(q) /\ Phase(q)
    BY <2>2, <2>3, <2>6 DEF Shape, Phase, Light
  <2>9. QED
    BY <1>1, <1>2, <2>6, <2>7, <2>8, LocalKeeps
<1>5. QED
  BY <1>3, <1>4

LEMMA RemovalSalesKeeps ==
  ASSUME IInv, NEW r \in Requests, RemovalSales(r)
  PROVE  IInv'
<1>1. SeasonsKept /\ UNCHANGED team /\ req[r].at = "sales"
  BY SeasonsAreKept DEF RemovalSales, At
<1>2. TeamTypes' /\ NoTeams'
  BY <1>1, TeamStays
<1> DEFINE has == <<req[r].s, req[r].u>> \in sold
<1>3. req' = [req EXCEPT ![r].at = "drop", ![r].sales = has]
  BY DEF RemovalSales
<1>4. req[r] \in Request /\ Light(req[r]) /\ req \in [Requests -> Request] /\ Shape(req[r])
  BY <1>1, TeamStepIsLight DEF TeamSteps, IInv, TypeOK
<1>5. has \in BOOLEAN
  OBVIOUS
<1> HIDE DEF has
<1> DEFINE q == [req[r] EXCEPT !.at = "drop", !.sales = has]
<1>6. req' = [req EXCEPT ![r] = q]
  BY <1>3, <1>4
<1>7. /\ q \in Request /\ q.at = "drop" /\ q.actor = req[r].actor /\ q.u = req[r].u
      /\ q.dir = req[r].dir /\ Light(q)
  BY <1>4, <1>5 DEF Request, Steps, Light
<1> HIDE DEF q
<1>8. Becomes(r, q)
  BY <1>6, <1>7, Moves DEF IInv
<1>9. Shape(q) /\ Phase(q)
  BY <1>1, <1>4, <1>7 DEF Shape, Phase, Light
<1>10. QED
  BY <1>1, <1>2, <1>7, <1>8, <1>9, LocalKeeps

---------------------------------------------------------------------------
(* Which season is in course.                                              *)

\* A request that only goes on.
LEMMA GotoKeeps ==
  ASSUME IInv, SeasonsKept, TeamTypes', NoTeams', NEW r \in Requests, NEW step \in Steps,
         Goto(r, step),
         \A q \in Request :
            /\ q.at = step /\ q.active = req[r].active /\ q.actor = req[r].actor
            /\ q.u = req[r].u /\ q.role = req[r].role /\ q.dir = req[r].dir
            /\ q.off = req[r].off /\ Alike(req[r], q)
            => Shape(q) /\ Phase(q)
  PROVE  IInv'
<1> DEFINE q == [req[r] EXCEPT !.at = step]
<1>1. req[r] \in Request
  BY DEF IInv, TypeOK
<1>2. /\ q \in Request /\ q.at = step /\ q.active = req[r].active /\ q.actor = req[r].actor
      /\ q.u = req[r].u /\ q.role = req[r].role /\ q.dir = req[r].dir
      /\ q.off = req[r].off /\ Alike(req[r], q)
  BY <1>1 DEF Request, Alike
<1>3. Becomes(r, q)
  BY Goes DEF IInv
<1> HIDE DEF q
<1>4. Shape(q) /\ Phase(q)
  BY <1>2
<1>5. QED
  BY <1>2, <1>3, <1>4, LocalKeeps

LEMMA ActivateCountKeeps ==
  ASSUME IInv, NEW r \in Requests, ActivateCount(r)
  PROVE  IInv'
<1>1. SeasonsKept /\ UNCHANGED team /\ req[r].at = "count"
  BY SeasonsAreKept DEF ActivateCount, At, SeasonOnly
<1>2. TeamTypes' /\ NoTeams'
  BY <1>1, TeamStays
<1>3. CASE Finish(r)
  BY <1>1, <1>2, <1>3, FinishKeeps
<1>4. CASE ~Finish(r)
  <2> DEFINE dir == Direction(req[r].s)
             at == IF dir = {} THEN "enter" ELSE "see"
  <2>1. req' = [req EXCEPT ![r].at = at, ![r].dir = dir]
    BY <1>4 DEF ActivateCount
  <2>2. dir \in SUBSET Users
    BY DEF Direction
  <2>3. at \in {"enter", "see"} /\ (at = "see" => dir # {})
    OBVIOUS
  <2>4. req[r] \in Request /\ req \in [Requests -> Request] /\ Shape(req[r])
    BY DEF IInv, TypeOK, Shapes
  <2> HIDE DEF dir, at
  <2> DEFINE q == [req[r] EXCEPT !.at = at, !.dir = dir]
  <2>5. req' = [req EXCEPT ![r] = q]
    BY <2>1, <2>4
  <2>6. q \in Request /\ q.at = at /\ q.dir = dir /\ q.off = req[r].off /\ Alike(req[r], q)
    BY <2>2, <2>3, <2>4 DEF Request, Steps, Alike
  <2> HIDE DEF q
  <2>7. Becomes(r, q)
    BY <2>5, <2>6, Moves DEF IInv
  <2>8. /\ q.op = "activate" /\ q.on = {} /\ q.off = {} /\ q.gone = {}
    BY <1>1, <2>4, <2>6 DEF Shape, Alike
  <2>9. Shape(q) /\ Phase(q)
    BY <2>3, <2>6, <2>8 DEF Shape, Phase
  <2>10. QED
    BY <1>1, <1>2, <2>6, <2>7, <2>9, LocalKeeps
<1>5. QED
  BY <1>3, <1>4

LEMMA ActivateEnterKeeps ==
  ASSUME IInv, NEW r \in Requests, ActivateEnter(r)
  PROVE  IInv'
<1>1. SeasonsKept /\ req[r].at = "enter"
  BY SeasonsAreKept DEF ActivateEnter, At
<1>2. req[r] \in Request /\ req \in [Requests -> Request] /\ Shape(req[r])
  BY DEF IInv, TypeOK, Shapes
<1>3. TeamTypes' /\ NoTeams'
  <2>1. Upsert(req[r].s, req[r].actor, "admin") /\ "admin" \in Roles
    BY TemporadasAssumption DEF ActivateEnter
  <2>2. req[r].s \in Seasons /\ req[r].actor \in Users
    BY <1>2 DEF Request
  <2>3. QED
    BY <1>1, <2>1, <2>2, UpsertTeam
<1>4. CASE Finish(r)
  BY <1>1, <1>3, <1>4, FinishKeeps
<1>5. CASE ~Finish(r)
  <2> DEFINE q == [req[r] EXCEPT !.at = "see", !.dir = {req[r].actor}]
  <2>1. req' = [req EXCEPT ![r].at = "see", ![r].dir = {req[r].actor}]
    BY <1>5 DEF ActivateEnter
  <2>2. req' = [req EXCEPT ![r] = q]
    BY <1>2, <2>1
  <2>3. q \in Request /\ q.at = "see" /\ q.dir # {} /\ q.off = req[r].off /\ Alike(req[r], q)
    BY <1>2 DEF Request, Steps, Alike
  <2> HIDE DEF q
  <2>4. Becomes(r, q)
    BY <2>2, <2>3, Moves DEF IInv
  <2>5. /\ q.op = "activate" /\ q.on = {} /\ q.off = {} /\ q.gone = {}
    BY <1>1, <1>2, <2>3 DEF Shape, Alike
  <2>6. Shape(q) /\ Phase(q)
    BY <2>3, <2>5 DEF Shape, Phase
  <2>7. QED
    BY <1>1, <1>3, <2>3, <2>4, <2>6, LocalKeeps
<1>6. QED
  BY <1>4, <1>5

LEMMA SeeActiveKeeps ==
  ASSUME IInv, NEW r \in Requests, SeeActive(r)
  PROVE  IInv'
<1>1. SeasonsKept /\ UNCHANGED team /\ req[r].at = "see"
  BY SeasonsAreKept DEF SeeActive, At, SeasonOnly
<1>2. TeamTypes' /\ NoTeams'
  BY <1>1, TeamStays
<1>3. req[r] \in Request /\ req \in [Requests -> Request] /\ Shape(req[r]) /\ course \in SUBSET Seasons
  BY DEF IInv, TypeOK, Shapes, Open
<1> DEFINE q == [req[r] EXCEPT !.at = "off", !.seen = course]
<1>4. req' = [req EXCEPT ![r] = q]
  BY <1>3 DEF SeeActive
<1>5. /\ q \in Request /\ q.at = "off" /\ q.off = req[r].off /\ Alike(req[r], q)
      /\ q.active = req[r].active /\ q.dir = req[r].dir
  BY <1>3 DEF Request, Steps, Alike
<1> HIDE DEF q
<1>6. Becomes(r, q)
  BY <1>4, <1>5, Moves DEF IInv
<1>7. Shape(q) /\ Phase(q)
  BY <1>1, <1>3, <1>5 DEF Shape, Phase, Alike
<1>8. QED
  BY <1>1, <1>2, <1>5, <1>6, <1>7, LocalKeeps

LEMMA DeactivateKeeps ==
  ASSUME IInv, NEW r \in Requests, Deactivate(r)
  PROVE  IInv'
<1>1. SeasonsKept /\ UNCHANGED team /\ req[r].at = "off"
  BY SeasonsAreKept DEF Deactivate, At, SeasonOnly
<1>2. TeamTypes' /\ NoTeams'
  BY <1>1, TeamStays
<1>3. req[r] \in Request /\ req \in [Requests -> Request] /\ Shape(req[r])
  BY DEF IInv, TypeOK, Shapes
<1> DEFINE off == req[r].seen \cap course
<1>4. off \in SUBSET Seasons
  BY DEF IInv, TypeOK, Open
<1>5. req' = [req EXCEPT ![r].at = "on", ![r].off = off]
  BY DEF Deactivate
<1> HIDE DEF off
<1> DEFINE q == [req[r] EXCEPT !.at = "on", !.off = off]
<1>6. req' = [req EXCEPT ![r] = q]
  BY <1>3, <1>5
<1>7. /\ q \in Request /\ q.at = "on" /\ q.op = req[r].op /\ q.s = req[r].s
      /\ q.on = req[r].on /\ q.gone = req[r].gone
      /\ q.active = req[r].active /\ q.dir = req[r].dir
  BY <1>3, <1>4 DEF Request, Steps
<1> HIDE DEF q
<1>8. Becomes(r, q)
  BY <1>6, <1>7, Moves DEF IInv
<1>9. Shape(q) /\ Phase(q) /\ q.on = {}
  BY <1>1, <1>3, <1>7 DEF Shape, Phase
<1>10. Alike(req[r], q)
  BY <1>7, <1>9 DEF Alike
<1>11. QED
  BY <1>1, <1>2, <1>8, <1>9, <1>10, LocalKeeps

\* The unique index lets one in, and the lock of the row keeps a deletion out.
LEMMA SetActiveKeeps ==
  ASSUME IInv, SeasonsKept, UNCHANGED team, NEW r \in Requests, NEW next,
         req[r].at = "on", SetActive(r, next),
         \/ next = "commit" /\ req[r].op = "activate" /\ req[r].s \in Open
         \/ next = "team" /\ req[r].op = "create"
  PROVE  IInv'
<1>1. TeamTypes' /\ NoTeams'
  BY TeamStays
<1>2. CASE Finish(r)
  BY <1>1, <1>2, FinishKeeps
<1>3. CASE ~Finish(r)
  <2> DEFINE q == [req[r] EXCEPT !.at = next, !.on = {req[r].s}]
  <2>1. req[r] \in Request /\ req \in [Requests -> Request] /\ Shape(req[r])
    BY DEF IInv, TypeOK, Shapes
  <2>2. req' = [req EXCEPT ![r] = q] /\ Entries(r) = {}
    BY <1>3, <2>1 DEF SetActive
  <2>3. /\ q \in Request /\ q.at = next /\ q.on = {req[r].s} /\ q.s = req[r].s
        /\ q.op = req[r].op /\ q.off = req[r].off /\ q.gone = req[r].gone
        /\ q.active = req[r].active /\ q.dir = req[r].dir
    BY <2>1 DEF Request, Steps
  <2> HIDE DEF q
  <2>4. Becomes(r, q)
    BY <2>2, <2>3, Moves DEF IInv
  <2>5. Shape(q) /\ q.gone = {}
    BY <2>1, <2>3 DEF Shape
  <2>6. Phase(q)
    BY <2>3, <2>5 DEF Phase
  <2>7. course \ req[r].off \subseteq {req[r].s}
    BY <2>2 DEF Entries
  <2>8. \A x \in Requests : x # r => req[x].on = {} /\ req[r].s \notin req[x].gone
    BY DEF SetActive, Pending, Held
  <2>9. /\ TypeOK' /\ Shapes' /\ Phases' /\ AtMostOne' /\ OrderlyCourse' /\ HistoryKept'
    BY <1>1, <2>4, <2>5, <2>6, OthersKeep
  <2>10. Creating' /\ Existing' /\ Crossing' /\ Lost'
    BY <2>3, <2>4 DEF IInv, Creating, Existing, Crossing, Lost, Becomes, SeasonsKept, Open
  <2>11. Index'
    BY <2>3, <2>4, <2>7, <2>8 DEF Index, Becomes, SeasonsKept
  <2>12. Rows'
    <3>1. ASSUME NEW x \in Requests, req'[x].on # {}
          PROVE  /\ x = r /\ \A y \in Requests : req'[r].s \notin req'[y].gone
                 /\ req'[r].op = "activate" => req'[r].s \in Open
      BY <2>3, <2>4, <2>5, <2>8, <3>1 DEF Becomes
    <3>2. Open' = Open
      BY DEF Open, SeasonsKept
    <3>3. QED
      BY <3>1, <3>2 DEF Rows
  <2>13. QED
    BY <1>1, <2>9, <2>10, <2>11, <2>12 DEF IInv
<1>4. QED
  BY <1>2, <1>3

LEMMA ActivateSetKeeps ==
  ASSUME IInv, NEW r \in Requests, ActivateSet(r)
  PROVE  IInv'
<1>1. SeasonsKept /\ UNCHANGED team /\ req[r].at = "on" /\ req[r].op = "activate"
  BY SeasonsAreKept DEF ActivateSet, At, SeasonOnly
<1>2. CASE req[r].s \in Open
  BY <1>1, <1>2, SetActiveKeeps DEF ActivateSet
<1>3. CASE req[r].s \notin Open
  <2>1. TeamTypes' /\ NoTeams' /\ Goto(r, "commit") /\ "commit" \in Steps
    BY <1>1, <1>3, TeamStays DEF ActivateSet, Steps
  <2>2. Shape(req[r]) /\ crossed
    BY <1>1, <1>3 DEF IInv, Shapes, Lost
  <2>3. \A q \in Request :
            /\ q.at = "commit" /\ q.active = req[r].active /\ q.actor = req[r].actor
            /\ q.u = req[r].u /\ q.role = req[r].role /\ q.dir = req[r].dir
            /\ q.off = req[r].off /\ Alike(req[r], q)
            => Shape(q) /\ Phase(q)
    BY <1>1, <2>2 DEF Shape, Phase, Alike
  <2>4. QED
    BY <1>1, <2>1, <2>3, GotoKeeps
<1>4. QED
  BY <1>2, <1>3

LEMMA CreateInsertKeeps ==
  ASSUME IInv, NEW r \in Requests, CreateInsert(r)
  PROVE  IInv'
<1>1. SeasonsKept /\ UNCHANGED team /\ req[r].at = "on" /\ req[r].op = "create"
  BY SeasonsAreKept DEF CreateInsert, At, SeasonOnly
<1>2. CASE req[r].active
  BY <1>1, <1>2, SetActiveKeeps DEF CreateInsert
<1>3. CASE ~req[r].active
  <2>1. TeamTypes' /\ NoTeams' /\ Goto(r, "team") /\ "team" \in Steps
    BY <1>1, <1>3, TeamStays DEF CreateInsert, Steps
  <2>2. Shape(req[r]) /\ req[r].off = {}
    BY <1>1, <1>3 DEF IInv, Shapes, Shape
  <2>3. \A q \in Request :
            /\ q.at = "team" /\ q.active = req[r].active /\ q.actor = req[r].actor
            /\ q.u = req[r].u /\ q.role = req[r].role /\ q.dir = req[r].dir
            /\ q.off = req[r].off /\ Alike(req[r], q)
            => Shape(q) /\ Phase(q)
    BY <1>1, <2>2 DEF Shape, Phase, Alike
  <2>4. QED
    BY <1>1, <2>1, <2>3, GotoKeeps
<1>4. QED
  BY <1>2, <1>3

LEMMA NewTeamType ==
  ASSUME IInv, NEW q \in Request
  PROVE  NewTeam(q) \in [Users -> Roles \cup {"none"}]
<1> SUFFICES ASSUME NEW u \in Users PROVE NewTeam(q)[u] \in Roles \cup {"none"}
  BY DEF NewTeam
<1>1. q.team \in [Users -> Roles \cup {"none"}] /\ q.from \in SUBSET Seasons
  BY DEF Request
<1>2. role \in [Seasons -> [Users -> Roles \cup {"none"}]]
  BY DEF IInv, TypeOK
<1>3. ASSUME NEW s \in q.from PROVE role[CHOOSE t \in q.from : TRUE][u] \in Roles \cup {"none"}
  <2>1. (CHOOSE t \in q.from : TRUE) \in q.from
    OBVIOUS
  <2>2. QED
    BY <1>1, <1>2, <2>1
<1>4. NewTeam(q)[u] = IF q.team[u] # "none" THEN q.team[u]
                      ELSE IF u = q.actor THEN "admin"
                      ELSE IF q.copy /\ \E s \in q.from : <<s, u>> \notin left
                           THEN role[CHOOSE s \in q.from : TRUE][u]
                      ELSE "none"
  BY DEF NewTeam
<1>5. QED
  BY <1>1, <1>3, <1>4, TemporadasAssumption

LEMMA CreateTeamKeeps ==
  ASSUME IInv, NEW r \in Requests, CreateTeam(r)
  PROVE  IInv'
<1>1. SeasonsKept /\ UNCHANGED team /\ req[r].at = "team"
  BY SeasonsAreKept DEF CreateTeam, At, SeasonOnly
<1>2. TeamTypes' /\ NoTeams'
  BY <1>1, TeamStays
<1>3. CASE Finish(r)
  BY <1>1, <1>2, <1>3, FinishKeeps
<1>4. CASE ~Finish(r)
  <2> DEFINE new == NewTeam(req[r])
  <2>1. req' = [req EXCEPT ![r].at = "commit", ![r].team = new, ![r].dir = {req[r].actor}]
    BY <1>4 DEF CreateTeam
  <2>2. req[r] \in Request /\ req \in [Requests -> Request] /\ Shape(req[r])
    BY DEF IInv, TypeOK, Shapes
  <2>3. new \in [Users -> Roles \cup {"none"}]
    BY <2>2, NewTeamType
  <2> HIDE DEF new
  <2> DEFINE q == [req[r] EXCEPT !.at = "commit", !.team = new, !.dir = {req[r].actor}]
  <2>4. req' = [req EXCEPT ![r] = q]
    BY <2>1, <2>2
  <2>5. q \in Request /\ q.at = "commit" /\ q.dir # {} /\ q.off = req[r].off /\ Alike(req[r], q)
    BY <2>2, <2>3 DEF Request, Steps, Alike
  <2> HIDE DEF q
  <2>6. Becomes(r, q)
    BY <2>4, <2>5, Moves DEF IInv
  <2>7. Shape(q) /\ Phase(q)
    BY <1>1, <2>2, <2>5 DEF Shape, Phase, Alike
  <2>8. QED
    BY <1>1, <1>2, <2>5, <2>6, <2>7, LocalKeeps
<1>5. QED
  BY <1>3, <1>4

---------------------------------------------------------------------------
(* The deletion of a season.                                               *)

LEMMA DeletionCheckKeeps ==
  ASSUME IInv, NEW r \in Requests, DeletionCheck(r)
  PROVE  IInv'
<1>1. SeasonsKept /\ UNCHANGED team /\ req[r].at = "deletion"
  BY SeasonsAreKept DEF DeletionCheck, At, SeasonOnly
<1>2. TeamTypes' /\ NoTeams'
  BY <1>1, TeamStays
<1>3. CASE Finish(r)
  BY <1>1, <1>2, <1>3, FinishKeeps
<1>4. CASE ~Finish(r)
  <2>1. Goto(r, "functions") /\ req[r].s \notin course /\ "functions" \in Steps
    BY <1>4 DEF DeletionCheck, Steps
  <2>2. Shape(req[r])
    BY DEF IInv, Shapes
  <2>3. \A q \in Request :
            /\ q.at = "functions" /\ q.active = req[r].active /\ q.actor = req[r].actor
            /\ q.u = req[r].u /\ q.role = req[r].role /\ q.dir = req[r].dir
            /\ q.off = req[r].off /\ Alike(req[r], q)
            => Shape(q) /\ Phase(q)
    BY <1>1, <2>1, <2>2 DEF Shape, Phase, Alike
  <2>4. QED
    BY <1>1, <1>2, <2>1, <2>3, GotoKeeps
<1>5. QED
  BY <1>3, <1>4

LEMMA DeleteFunctionsKeeps ==
  ASSUME IInv, NEW r \in Requests, DeleteFunctions(r)
  PROVE  IInv'
<1>1. SeasonsKept /\ UNCHANGED team /\ req[r].at = "functions"
  BY SeasonsAreKept DEF DeleteFunctions, At, SeasonOnly
<1>2. TeamTypes' /\ NoTeams'
  BY <1>1, TeamStays
<1>3. CASE Finish(r)
  BY <1>1, <1>2, <1>3, FinishKeeps
<1>4. CASE ~Finish(r)
  <2>1. /\ Goto(r, "row") /\ "row" \in Steps
        /\ \A u \in Users : <<req[r].s, u>> \notin sold
    BY <1>4 DEF DeleteFunctions, Steps
  <2>2. Shape(req[r]) /\ Phase(req[r])
    BY DEF IInv, Shapes, Phases
  <2>3. \A q \in Request :
            /\ q.at = "row" /\ q.active = req[r].active /\ q.actor = req[r].actor
            /\ q.u = req[r].u /\ q.role = req[r].role /\ q.dir = req[r].dir
            /\ q.off = req[r].off /\ Alike(req[r], q)
            => Shape(q) /\ Phase(q)
    BY <1>1, <2>1, <2>2 DEF Shape, Phase, Alike
  <2>4. QED
    BY <1>1, <1>2, <2>1, <2>3, GotoKeeps
<1>5. QED
  BY <1>3, <1>4

LEMMA DeleteSeasonKeeps ==
  ASSUME IInv, NEW r \in Requests, DeleteSeason(r)
  PROVE  IInv'
<1>1. SeasonsKept /\ UNCHANGED team /\ req[r].at = "row" /\ ~Held(r, req[r].s)
  BY SeasonsAreKept DEF DeleteSeason, At, SeasonOnly
<1>2. TeamTypes' /\ NoTeams'
  BY <1>1, TeamStays
<1>3. CASE Finish(r)
  BY <1>1, <1>2, <1>3, FinishKeeps
<1>4. CASE ~Finish(r)
  <2> DEFINE gone == {req[r].s} \cap Open
             q == [req[r] EXCEPT !.at = "commit", !.gone = gone]
  <2>1. req[r] \in Request /\ req \in [Requests -> Request] /\ Shape(req[r]) /\ Phase(req[r])
    BY DEF IInv, TypeOK, Shapes, Phases
  <2>2. req' = [req EXCEPT ![r] = q] /\ req[r].s \notin settled
    BY <1>4, <2>1 DEF DeleteSeason
  <2>3. gone \in SUBSET Seasons /\ gone \subseteq {req[r].s}
    BY DEF Open
  <2> HIDE DEF gone
  <2>4. /\ q \in Request /\ q.at = "commit" /\ q.gone = gone /\ q.s = req[r].s
        /\ q.op = req[r].op /\ q.on = req[r].on /\ q.off = req[r].off
        /\ q.active = req[r].active /\ q.dir = req[r].dir
    BY <2>1, <2>3 DEF Request, Steps
  <2> HIDE DEF q
  <2>5. Becomes(r, q)
    BY <2>2, <2>4, Moves DEF IInv
  <2>6. q.op = "delete" /\ q.on = {} /\ q.off = {}
    BY <1>1, <2>1, <2>4 DEF Shape
  <2>7. Shape(q)
    BY <2>3, <2>4, <2>6 DEF Shape
  <2>8. Phase(q)
    BY <1>1, <2>1, <2>2, <2>3, <2>4, <2>6 DEF Phase
  <2>9. /\ TypeOK' /\ Shapes' /\ Phases' /\ AtMostOne' /\ OrderlyCourse' /\ HistoryKept'
    BY <1>1, <1>2, <2>5, <2>7, <2>8, OthersKeep
  <2>10. Creating' /\ Existing' /\ Crossing' /\ Lost'
    BY <1>1, <2>4, <2>5 DEF IInv, Creating, Existing, Crossing, Lost, Becomes, SeasonsKept, Open
  <2>11. Index'
    BY <1>1, <2>5, <2>6 DEF IInv, Index, Becomes, SeasonsKept
  <2>12. Rows'
    <3> SUFFICES ASSUME NEW x \in Requests, req'[x].on # {}, NEW y \in Requests
                 PROVE  /\ req'[x].s \notin req'[y].gone
                        /\ req'[x].op = "activate" => req'[x].s \in Open
      BY <1>1 DEF Rows, Open, SeasonsKept
    <3>1. x # r /\ req'[x] = req[x]
      BY <2>5, <2>6 DEF Becomes
    <3>2. /\ req[x].s \notin req[y].gone
          /\ req[x].op = "activate" => req[x].s \in Open
      BY <3>1 DEF IInv, Rows
    <3>3. req[x].s \in req[x].on
      BY <3>1 DEF IInv, Shapes, Shape
    <3>4. req[x].s # req[r].s
      BY <1>1, <3>1, <3>3 DEF Held
    <3>5. QED
      BY <2>3, <2>4, <2>5, <3>1, <3>2, <3>4 DEF Becomes
  <2>13. QED
    BY <1>2, <2>9, <2>10, <2>11, <2>12 DEF IInv
<1>5. QED
  BY <1>3, <1>4

---------------------------------------------------------------------------
(* A transaction commits.                                                  *)

\* What the rows of the seasons become.
LEMMA CommitWrites ==
  ASSUME IInv, NEW r \in Requests, Commit(r)
  PROVE  /\ Becomes(r, Idle)
         /\ req[r] \in Request /\ Shape(req[r]) /\ Phase(req[r]) /\ req[r].at = "commit"
         /\ status' \in [Seasons -> {"new", "open", "gone"}]
         /\ \A s \in Seasons : status'[s] = IF s \in req[r].gone THEN "gone"
               ELSE IF req[r].op = "create" /\ s = req[r].s THEN "open" ELSE status[s]
         /\ course' = (course \ (req[r].off \cup req[r].gone)) \cup req[r].on
         /\ \A s \in Seasons : role'[s] = IF s \in req[r].gone THEN NoTeam
               ELSE IF req[r].op = "create" /\ s = req[r].s THEN req[r].team ELSE role[s]
         /\ left' = {row \in left : row[1] \notin req[r].gone}
         /\ UNCHANGED <<sold, settled, crossed, served>>
<1>1. req[r] \in Request /\ Shape(req[r]) /\ Phase(req[r]) /\ req[r].at = "commit"
  BY DEF IInv, TypeOK, Shapes, Phases, Commit, At
<1>2. Becomes(r, Idle)
  BY Finishes DEF IInv, Commit
<1>3. status' \in [Seasons -> {"new", "open", "gone"}]
  BY DEF Commit, IInv, TypeOK
<1>4. QED
  BY <1>1, <1>2, <1>3 DEF Commit, history

\* A new season has no rows yet.
LEMMA NoRowsYet ==
  ASSUME IInv, NEW s \in Seasons, s \notin Open, NEW u \in Users
  PROVE  role[s][u] = "none" /\ <<s, u>> \notin left
  BY DEF IInv, NoTeams, TypeOK

LEMMA CommitTypes ==
  ASSUME IInv, NEW r \in Requests, Commit(r)
  PROVE  TypeOK' /\ NoTeams'
<1> DEFINE q == req[r]
<1>1. /\ q \in Request /\ Shape(q)
      /\ \A s \in Seasons : status'[s] = IF s \in q.gone THEN "gone"
            ELSE IF q.op = "create" /\ s = q.s THEN "open" ELSE status[s]
      /\ course' = (course \ (q.off \cup q.gone)) \cup q.on
      /\ \A s \in Seasons : role'[s] = IF s \in q.gone THEN NoTeam
            ELSE IF q.op = "create" /\ s = q.s THEN q.team ELSE role[s]
      /\ left' = {row \in left : row[1] \notin q.gone}
  BY CommitWrites
<1>2. q.op = "create" => status[q.s] = "new" /\ q.gone = {} /\ q.s \in Seasons
  BY <1>1 DEF IInv, Creating, Shape, Request
<1>3. q.on # {} => /\ q.on = {q.s} /\ q.s \notin q.gone /\ q.s \in Seasons
                   /\ (q.op = "create" \/ (q.op = "activate" /\ q.s \in Open))
  <2>1. q.on # {} => q.on = {q.s} /\ q.s \in Seasons /\ q.op \in {"create", "activate"}
    BY <1>1 DEF Shape, Request
  <2>2. q.on # {} => q.s \notin q.gone /\ (q.op = "activate" => q.s \in Open)
    BY DEF IInv, Rows
  <2>3. QED
    BY <2>1, <2>2
<1>4. /\ q.team \in [Users -> Roles \cup {"none"}] /\ NoTeam \in [Users -> Roles \cup {"none"}]
      /\ role \in [Seasons -> [Users -> Roles \cup {"none"}]]
      /\ \A u \in Users : NoTeam[u] = "none"
  BY <1>1, IdleType DEF IInv, TypeOK, Request, NoTeam
<1> HIDE DEF q
<1>5. course' \subseteq Open'
  <2> SUFFICES ASSUME NEW s \in course' PROVE s \in Seasons /\ status'[s] = "open"
    BY DEF Open
  <2>1. CASE s \in course /\ s \notin q.gone
    BY <1>1, <2>1 DEF IInv, TypeOK, Open
  <2>2. CASE s \in q.on
    BY <1>1, <1>3, <2>2 DEF Open
  <2>3. QED
    BY <1>1, <2>1, <2>2
<1>6. role' \in [Seasons -> [Users -> Roles \cup {"none"}]]
  <2>1. role' = [s \in Seasons |-> role'[s]]
    BY DEF Commit
  <2>2. \A s \in Seasons : role'[s] \in [Users -> Roles \cup {"none"}]
    BY <1>1, <1>4
  <2>3. QED
    BY <2>1, <2>2
<1>7. ASSUME NEW row \in left' PROVE row \in Seasons \X Users /\ role'[row[1]][row[2]] # "none"
  <2>1. /\ row \in left /\ row[1] \notin q.gone /\ row \in Seasons \X Users
        /\ role[row[1]][row[2]] # "none"
    BY <1>1, <1>7 DEF IInv, TypeOK
  <2>2. row[1] \in Seasons /\ row[2] \in Users
    BY <2>1
  <2>3. row[1] \in Open
    BY <2>1, <2>2, NoRowsYet
  <2>4. ~(q.op = "create" /\ row[1] = q.s)
    BY <1>2, <2>3 DEF Open
  <2>5. QED
    BY <1>1, <2>1, <2>2, <2>4
<1>8. NoTeams'
  <2> SUFFICES ASSUME NEW s \in Seasons, NEW u \in Users, status'[s] # "open"
               PROVE  role'[s][u] = "none"
    BY DEF NoTeams, Open
  <2>1. CASE s \in q.gone
    BY <1>1, <1>4, <2>1
  <2>2. CASE s \notin q.gone
    <3>1. status[s] # "open" /\ role'[s] = role[s]
      BY <1>1, <2>2
    <3>2. QED
      BY <3>1, NoRowsYet DEF Open
  <2>3. QED
    BY <2>1, <2>2
<1>9. TypeOK'
  BY <1>5, <1>6, <1>7, CommitWrites DEF IInv, TypeOK, Becomes
<1>10. QED
  BY <1>8, <1>9

\* A season in course is still there when the transaction that takes it out commits,
\* unless a deletion and an activation have crossed.
LEMMA CommitCourse ==
  ASSUME IInv, NEW r \in Requests, Commit(r)
  PROVE  AtMostOne' /\ OrderlyCourse' /\ Index'
<1> DEFINE q == req[r]
<1>1. /\ Shape(q) /\ Phase(q) /\ q.at = "commit" /\ Becomes(r, Idle)
      /\ course' = (course \ (q.off \cup q.gone)) \cup q.on
      /\ crossed' = crossed
  BY CommitWrites
<1>2. q.on # {} => /\ course \ q.off \subseteq q.on
                   /\ \A x \in Requests : req[x].on # {} => x = r
  BY DEF IInv, Index
<1> HIDE DEF q
<1>3. AtMostOne'
  <2>1. CASE q.on = {}
    BY <1>1, <2>1 DEF IInv, AtMostOne
  <2>2. CASE q.on # {}
    <3>1. q.on \subseteq {q.s} /\ course' \subseteq q.on
      BY <1>1, <1>2, <2>2 DEF Shape
    <3>2. QED
      BY <3>1 DEF AtMostOne
  <2>3. QED
    BY <2>1, <2>2
<1>4. OrderlyCourse'
  <2> SUFFICES ASSUME ~crossed PROVE course' # {}
    BY <1>1 DEF OrderlyCourse
  <2>1. course # {}
    BY DEF IInv, OrderlyCourse
  <2>2. CASE q.op = "activate"
    BY <1>1, <2>2 DEF Phase
  <2>3. CASE q.op = "create"
    BY <1>1, <2>1, <2>3 DEF Shape
  <2>4. CASE q.op = "delete"
    BY <1>1, <2>1, <2>4 DEF Shape, Phase
  <2>5. QED
    BY <1>1, <2>2, <2>3, <2>4 DEF Shape
<1>5. Index'
  <2> SUFFICES ASSUME NEW x \in Requests, req'[x].on # {}
               PROVE  /\ course' \ req'[x].off \subseteq req'[x].on
                      /\ \A y \in Requests : req'[y].on # {} => y = x
    BY DEF Index
  <2>1. x # r /\ req'[x] = req[x]
    BY <1>1 DEF Becomes, Idle
  <2>2. q.on = {}
    BY <1>2, <2>1
  <2>3. \A y \in Requests : req'[y].on # {} => req[y].on # {}
    BY <1>1 DEF Becomes, Idle
  <2>4. QED
    BY <1>1, <2>1, <2>2, <2>3 DEF IInv, Index
<1>6. QED
  BY <1>3, <1>4, <1>5

LEMMA CommitOthers ==
  ASSUME IInv, NEW r \in Requests, Commit(r)
  PROVE  /\ Shapes' /\ Creating' /\ Existing' /\ Rows' /\ Crossing' /\ Lost'
         /\ Phases' /\ HistoryKept'
<1> DEFINE q == req[r]
<1>1. /\ q \in Request /\ Shape(q) /\ Phase(q) /\ q.at = "commit" /\ Becomes(r, Idle)
      /\ \A s \in Seasons : status'[s] = IF s \in q.gone THEN "gone"
            ELSE IF q.op = "create" /\ s = q.s THEN "open" ELSE status[s]
      /\ course' = (course \ (q.off \cup q.gone)) \cup q.on
      /\ UNCHANGED <<sold, settled, crossed>>
  BY CommitWrites
<1>2. q.gone \subseteq {q.s} /\ (q.gone # {} => q.op = "delete") /\ q.on \subseteq {q.s}
  BY <1>1 DEF Shape
<1>3. \A x \in Requests : /\ req'[x] = IF x = r THEN Idle ELSE req[x]
                          /\ req[x] \in Request /\ req[x].s \in Seasons
                          /\ Shape(req[x]) /\ Phase(req[x])
  BY <1>1 DEF Becomes, IInv, TypeOK, Shapes, Phases, Request
<1>4. Idle.op = "add" /\ Idle.on = {} /\ Idle.gone = {}
  BY DEF Idle
<1>5. Shapes'
  BY <1>3, IdleIsLight DEF Shapes, Shape
<1>6. \A x \in Requests : req[x].op = "create" => status[req[x].s] = "new"
  BY DEF IInv, Creating
<1>7. \A x \in Requests : req[x].op \in {"activate", "delete"} => status[req[x].s] # "new"
  BY DEF IInv, Existing
<1>8. Creating'
  <2> SUFFICES ASSUME NEW x \in Requests, req'[x].op = "create"
               PROVE  /\ status'[req'[x].s] = "new"
                      /\ \A y \in Requests : req'[y].op = "create" /\ req'[y].s = req'[x].s => y = x
    BY DEF Creating
  <2>1. x # r /\ req'[x] = req[x] /\ req[x].op = "create"
    BY <1>3, <1>4
  <2>2. \A y \in Requests : req[y].op = "create" /\ req[y].s = req[x].s => y = x
    BY <2>1 DEF IInv, Creating
  <2>3. req[x].s \notin q.gone
    BY <1>2, <1>6, <1>7, <2>1
  <2>4. status'[req[x].s] = "new"
    BY <1>1, <1>3, <1>6, <2>1, <2>2, <2>3
  <2>5. QED
    BY <1>3, <1>4, <2>1, <2>2, <2>4
<1>9. Existing'
  <2> SUFFICES ASSUME NEW x \in Requests, req'[x].op \in {"activate", "delete"}
               PROVE  status'[req'[x].s] # "new"
    BY DEF Existing
  <2>1. req'[x] = req[x]
    BY <1>3, <1>4
  <2>2. QED
    BY <1>1, <1>3, <1>7, <2>1
<1>10. Crossing'
  BY <1>1, <1>3, <1>4 DEF IInv, Crossing
<1>11. Rows'
  <2> SUFFICES ASSUME NEW x \in Requests, req'[x].on # {}
               PROVE  /\ \A y \in Requests : req'[x].s \notin req'[y].gone
                      /\ req'[x].op = "activate" => status'[req'[x].s] = "open"
    BY <1>3, <1>4 DEF Rows, Open
  <2>1. req'[x] = req[x]
    BY <1>3, <1>4
  <2>2. /\ \A y \in Requests : req[x].s \notin req[y].gone
        /\ req[x].op = "activate" => status[req[x].s] = "open"
    BY <2>1 DEF IInv, Rows, Open
  <2>3. QED
    BY <1>1, <1>3, <1>4, <2>1, <2>2
<1>12. Lost'
  <2> SUFFICES ASSUME NEW x \in Requests, req'[x].op = "activate", status'[req'[x].s] # "open"
               PROVE  crossed
    BY <1>1, <1>3, <1>4 DEF Lost, Open
  <2>1. req'[x] = req[x]
    BY <1>3, <1>4
  <2>2. CASE status[req[x].s] # "open"
    BY <2>1, <2>2 DEF IInv, Lost, Open
  <2>3. CASE status[req[x].s] = "open"
    <3>1. q.op = "delete" /\ q.s = req[x].s
      BY <1>1, <1>2, <1>3, <2>1, <2>3
    <3>2. QED
      BY <2>1, <3>1 DEF IInv, Crossing
  <2>4. QED
    BY <2>2, <2>3
<1>13. HistoryKept'
  <2> SUFFICES ASSUME NEW s \in Seasons, HasHistory(s) PROVE status'[s] = "open"
    BY <1>1 DEF HistoryKept, HasHistory, Open
  <2>1. status[s] = "open"
    BY DEF IInv, HistoryKept, Open
  <2>2. s \notin q.gone
    BY <1>1, <1>2 DEF Phase, HasHistory
  <2>3. QED
    BY <1>1, <2>1, <2>2
<1>14. ASSUME NEW x \in Requests PROVE Phase(req[x])'
  <2>1. CASE x = r
    <3>1. req'[x].op = "add" /\ req'[x].gone = {}
      BY <1>3, <1>4, <2>1
    <3>2. QED
      BY <3>1 DEF Phase
  <2>2. CASE x # r
    <3>1. req'[x] = req[x] /\ Phase(req[x])
      BY <1>3, <2>2
    <3>2. ASSUME req[x].op = "delete", req[x].at \in {"functions", "row", "commit"},
                 req[x].s \in course'
          PROVE  crossed
      <4>1. CASE req[x].s \in course
        BY <3>1, <3>2, <4>1 DEF Phase
      <4>2. CASE req[x].s \in q.on
        <5>1. q.s = req[x].s /\ q.op \in {"activate", "create"}
          BY <1>1, <1>2, <4>2 DEF Shape
        <5>2. CASE q.op = "activate"
          BY <3>2, <5>1, <5>2 DEF IInv, Crossing
        <5>3. CASE q.op = "create"
          BY <1>6, <1>7, <3>2, <5>1, <5>3
        <5>4. QED
          BY <5>1, <5>2, <5>3
      <4>3. QED
        BY <1>1, <3>2, <4>1, <4>2
    <3>3. QED
      BY <1>1, <3>1, <3>2 DEF Phase
  <2>3. QED
    BY <2>1, <2>2
<1>15. Phases'
  BY <1>14 DEF Phases
<1>16. QED
  BY <1>5, <1>8, <1>9, <1>10, <1>11, <1>12, <1>13, <1>15

LEMMA CommitKeeps ==
  ASSUME IInv, NEW r \in Requests, Commit(r)
  PROVE  IInv'
  BY CommitTypes, CommitCourse, CommitOthers DEF IInv

LEMMA AbortKeeps ==
  ASSUME IInv, NEW r \in Requests, Abort(r)
  PROVE  IInv'
<1>1. SeasonsKept /\ UNCHANGED team /\ Finish(r)
  BY SeasonsAreKept DEF Abort, SeasonOnly
<1>2. QED
  BY <1>1, TeamStays, FinishKeeps

---------------------------------------------------------------------------
(* Sales and settlements.                                                  *)

LEMMA HistoryKeeps ==
  ASSUME IInv, (\E s \in Seasons, u \in Users : Sell(s, u)) \/ \E s \in Seasons : Settle(s)
  PROVE  IInv'
<1>1. UNCHANGED <<status, course, role, left, crossed, served, req>>
  BY DEF Sell, Settle, team
<1>2. /\ Shapes' /\ NoTeams' /\ Creating' /\ Existing' /\ AtMostOne' /\ Index'
      /\ Rows' /\ Crossing' /\ Lost' /\ OrderlyCourse'
  BY <1>1 DEF IInv, Shapes, Shape, NoTeams, Creating, Existing, AtMostOne, Index, Rows,
              Crossing, Lost, OrderlyCourse, Open
<1>3. \A r \in Requests : Shape(req[r]) /\ Phase(req[r])
  BY DEF IInv, Shapes, Phases
<1>4. ASSUME NEW s \in Seasons, NEW u \in Users, Sell(s, u) PROVE IInv'
  <2>1. sold' = sold \cup {<<s, u>>} /\ settled' = settled /\ s \in Open
    BY <1>4 DEF Sell
  <2>2. TypeOK'
    BY <1>1, <2>1 DEF IInv, TypeOK, Open
  <2>3. HistoryKept'
    BY <1>1, <2>1 DEF IInv, HistoryKept, HasHistory, Open
  <2>4. ASSUME NEW r \in Requests PROVE Phase(req[r])'
    <3>1. req[r].op = "delete" /\ req[r].s = s => req[r].at \notin {"row", "commit"}
      BY <1>4 DEF Sell
    <3>2. QED
      BY <1>1, <1>3, <2>1, <3>1 DEF Phase
  <2>5. QED
    BY <1>2, <2>2, <2>3, <2>4 DEF IInv, Phases
<1>5. ASSUME NEW s \in Seasons, Settle(s) PROVE IInv'
  <2>1. settled' = settled \cup {s} /\ sold' = sold /\ s \in Open
    BY <1>5 DEF Settle
  <2>2. TypeOK'
    BY <1>1, <2>1 DEF IInv, TypeOK, Open
  <2>3. HistoryKept'
    BY <1>1, <2>1 DEF IInv, HistoryKept, HasHistory, Open
  <2>4. ASSUME NEW r \in Requests PROVE Phase(req[r])'
    <3>1. s \notin req[r].gone
      BY <1>5 DEF Settle, Deleting
    <3>2. QED
      BY <1>1, <1>3, <2>1, <3>1 DEF Phase
  <2>5. QED
    BY <1>2, <2>2, <2>3, <2>4 DEF IInv, Phases
<1>6. QED
  BY <1>4, <1>5

---------------------------------------------------------------------------
(* The specification.                                                      *)

LEMMA IInvInit == Init => IInv
<1> SUFFICES ASSUME Init PROVE IInv
  OBVIOUS
<1>1. Idle \in Request /\ First \in Seasons /\ Founder \in Users /\ "admin" \in Roles
  BY IdleType, TemporadasAssumption
<1>2. \A r \in Requests : req[r] = Idle
  BY DEF Init
<1>3. Idle.op = "add" /\ Idle.on = {} /\ Idle.gone = {}
  BY DEF Idle
<1>4. \A s \in Seasons : /\ role[s] \in [Users -> Roles \cup {"none"}]
                         /\ s \notin Open => role[s] = NoTeam
  BY <1>1, IdleType DEF Init, Open
<1>5. TypeOK
  <2>1. role = [s \in Seasons |-> role[s]]
    BY DEF Init
  <2>2. role \in [Seasons -> [Users -> Roles \cup {"none"}]]
    BY <1>4, <2>1
  <2>3. crossed \in BOOLEAN
    BY Zenon DEF Init
  <2>4. served \in 0..MaxServed
    BY TemporadasAssumption DEF Init
  <2>5. QED
    BY <1>1, <2>2, <2>3, <2>4 DEF Init, TypeOK, Open
<1>6. NoTeams
  BY <1>4 DEF NoTeams, NoTeam
<1>7. Shapes /\ Creating /\ Existing /\ Index /\ Rows /\ Crossing /\ Lost
  BY <1>2, <1>3, IdleIsLight DEF Shapes, Creating, Existing, Index, Rows, Crossing, Lost
<1>8. Phases
  BY <1>2, IdleIsLight DEF Phases
<1>9. AtMostOne /\ OrderlyCourse /\ HistoryKept
  BY DEF Init, AtMostOne, OrderlyCourse, HistoryKept, HasHistory
<1>10. QED
  BY <1>5, <1>6, <1>7, <1>8, <1>9 DEF IInv

LEMMA IInvNext == IInv /\ [Next]_vars => IInv'
<1> SUFFICES ASSUME IInv, [Next]_vars PROVE IInv'
  OBVIOUS
<1>1. ASSUME NEW r \in Requests, Step(r) PROVE IInv'
  <2>1. CASE StartAdd(r) \/ StartUpdate(r) \/ StartRemove(r) \/ StartActivate(r) \/ StartDelete(r)
    BY <2>1, StartsKeep
  <2>2. CASE AddMember(r) \/ UpdateUser(r) \/ RemoveMember(r)
    BY <2>2, TeamWritesKeep
  <2>3. CASE UpdateRead(r) \/ RemovalCheck(r) \/ RemovalSales(r)
    BY <2>3, UpdateReadKeeps, RemovalCheckKeeps, RemovalSalesKeeps
  <2>4. CASE ActivateCount(r) \/ ActivateEnter(r) \/ ActivateSet(r)
    BY <2>4, ActivateCountKeeps, ActivateEnterKeeps, ActivateSetKeeps
  <2>5. CASE SeeActive(r) \/ Deactivate(r)
    BY <2>5, SeeActiveKeeps, DeactivateKeeps
  <2>6. CASE StartCreate(r) \/ CreateInsert(r) \/ CreateTeam(r)
    BY <2>6, StartCreateKeeps, CreateInsertKeeps, CreateTeamKeeps
  <2>7. CASE DeletionCheck(r) \/ DeleteFunctions(r) \/ DeleteSeason(r)
    BY <2>7, DeletionCheckKeeps, DeleteFunctionsKeeps, DeleteSeasonKeeps
  <2>8. CASE Commit(r) \/ Abort(r)
    BY <2>8, CommitKeeps, AbortKeeps
  <2>9. QED
    BY <1>1, <2>1, <2>2, <2>3, <2>4, <2>5, <2>6, <2>7, <2>8 DEF Step
<1>2. CASE (\E s \in Seasons, u \in Users : Sell(s, u)) \/ \E s \in Seasons : Settle(s)
  BY <1>2, HistoryKeeps
<1>3. CASE UNCHANGED vars
  <2>1. UNCHANGED <<status, course, role, left, sold, settled, crossed, served, req>>
    BY <1>3 DEF vars, team, history
  <2>2. TypeOK'
    BY <2>1 DEF IInv, TypeOK, Open
  <2>3. Shapes' /\ Phases'
    BY <2>1 DEF IInv, Shapes, Shape, Phases, Phase
  <2>4. NoTeams' /\ Creating' /\ Existing' /\ AtMostOne' /\ Index'
    BY <2>1 DEF IInv, NoTeams, Creating, Existing, AtMostOne, Index, Open
  <2>5. Rows' /\ Crossing' /\ Lost' /\ OrderlyCourse' /\ HistoryKept'
    BY <2>1 DEF IInv, Rows, Crossing, Lost, OrderlyCourse, HistoryKept, HasHistory, Open
  <2>6. QED
    BY <2>2, <2>3, <2>4, <2>5 DEF IInv
<1>4. QED
  BY <1>1, <1>2, <1>3 DEF Next

LEMMA Invariant == Spec => []IInv
  BY IInvInit, IInvNext, PTL DEF Spec

(* Every variable keeps its type, the season in course exists, and the     *)
(* rows marked as left are rows of season_members.                         *)
THEOREM TemporadasTypeCorrect == Spec => []TypeOK
<1>1. IInv => TypeOK
  BY DEF IInv
<1>2. QED
  BY <1>1, Invariant, PTL

(* seasons_one_active_per_org: a request that has set its season active is *)
(* alone, and has set the others inactive; until it commits nobody passes  *)
(* the index.                                                              *)
THEOREM OneSeasonInCourse == Spec => []OneInCourse
<1>1. IInv => OneInCourse
  <2> SUFFICES ASSUME AtMostOne PROVE Cardinality(course) <= 1
    BY DEF IInv, OneInCourse
  <2>1. CASE course = {}
    BY <2>1, FS_EmptySet
  <2>2. ASSUME NEW s \in course PROVE Cardinality(course) <= 1
    <3>1. course = {s}
      BY DEF AtMostOne
    <3>2. Cardinality({s}) = 1
      BY FS_Singleton
    <3>3. QED
      BY <3>1, <3>2
  <2>3. QED
    BY <2>1, <2>2
<1>2. QED
  BY <1>1, Invariant, PTL

(* handleDeleteSeason and handleActivateSeason: without a season in course *)
(* only after a deletion and an activation of the same season that were    *)
(* served at the same time.                                                *)
THEOREM CourseIsOrderly == Spec => []OrderlyCourse
<1>1. IInv => OrderlyCourse
  BY DEF IInv
<1>2. QED
  BY <1>1, Invariant, PTL

(* temporadaSinUso and the foreign keys: what is sold or settled while a   *)
(* season is being deleted makes the deletion fail, or waits for it.       *)
THEOREM HistoryIsKept == Spec => []HistoryKept
<1>1. IInv => HistoryKept
  BY DEF IInv
<1>2. QED
  BY <1>1, Invariant, PTL

---------------------------------------------------------------------------
(* The direction of a season, step by step.                                *)

\* A commit does not touch the team of a season that stays.
LEMMA CommitDirection ==
  ASSUME IInv, NEW r \in Requests, Commit(r), NEW s \in Open, s \in Open'
  PROVE  Direction(s)' = Direction(s)
<1>1. /\ req[r].op = "create" => status[req[r].s] = "new"
      /\ s \notin req[r].gone /\ status[s] = "open" /\ s \in Seasons
  BY CommitWrites DEF IInv, Creating, Open
<1>2. role'[s] = role[s] /\ left' = {row \in left : row[1] \notin req[r].gone}
  BY <1>1, CommitWrites
<1>3. \A u \in Users : <<s, u>> \in left' <=> <<s, u>> \in left
  BY <1>1, <1>2
<1>4. QED
  BY <1>2, <1>3 DEF Direction

\* The steps that write the team, and the one that writes the season in course.
LEMMA WhoWrites ==
  ASSUME Next
  PROVE  /\ \/ UNCHANGED team
            \/ \E r \in Requests : \/ AddMember(r) \/ UpdateUser(r) \/ RemoveMember(r)
                                   \/ ActivateEnter(r) \/ Commit(r)
         /\ course' = course \/ \E r \in Requests : Commit(r)
<1>1. CASE (\E s \in Seasons, u \in Users : Sell(s, u)) \/ \E s \in Seasons : Settle(s)
  BY <1>1 DEF Sell, Settle
<1>2. ASSUME NEW r \in Requests, Step(r)
      PROVE  \/ UNCHANGED <<team, course>>
             \/ /\ \/ AddMember(r) \/ UpdateUser(r) \/ RemoveMember(r) \/ ActivateEnter(r)
                /\ course' = course
             \/ Commit(r)
  <2>1. CASE \/ StartAdd(r) \/ StartUpdate(r) \/ StartRemove(r) \/ StartActivate(r)
             \/ StartCreate(r) \/ StartDelete(r)
    <3>1. \E q : Begin(r, q)
      BY <2>1 DEF StartAdd, StartUpdate, StartRemove, StartActivate, StartCreate, StartDelete
    <3>2. QED
      BY <3>1 DEF Begin
  <2>2. CASE AddMember(r) \/ UpdateUser(r) \/ RemoveMember(r) \/ ActivateEnter(r)
    BY <2>2 DEF AddMember, UpdateUser, RemoveMember, ActivateEnter, TeamOnly
  <2>3. CASE UpdateRead(r) \/ RemovalCheck(r) \/ RemovalSales(r)
    BY <2>3 DEF UpdateRead, RemovalCheck, RemovalSales, TeamOnly
  <2>4. CASE \/ ActivateCount(r) \/ SeeActive(r) \/ Deactivate(r) \/ ActivateSet(r)
             \/ CreateInsert(r) \/ CreateTeam(r)
    BY <2>4 DEF ActivateCount, SeeActive, Deactivate, ActivateSet, CreateInsert, CreateTeam,
                SeasonOnly
  <2>5. CASE DeletionCheck(r) \/ DeleteFunctions(r) \/ DeleteSeason(r) \/ Abort(r)
    BY <2>5 DEF DeletionCheck, DeleteFunctions, DeleteSeason, Abort, SeasonOnly
  <2>6. QED
    BY <1>2, <2>1, <2>2, <2>3, <2>4, <2>5 DEF Step
<1>3. QED
  BY <1>1, <1>2 DEF Next

\* Who leaves the direction of a season without anybody, and what they had read.
LEMMA GuardedStep ==
  ASSUME IInv, Next, NEW s \in Seasons, Emptied(s)
  PROVE  \E r \in Requests :
            \/ At(r, "add")
            \/ At(r, "write") /\ RaceOf(r, s)
            \/ At(r, "drop") /\ RaceOf(r, s) /\ Direction(s) # req[r].dir
<1>1. s \in Open /\ Direction(s) # {} /\ s \in Open' /\ Direction(s)' = {}
  BY DEF Emptied
<1>2. ~(UNCHANGED team)
  BY <1>1 DEF team, Direction
<1>3. PICK r \in Requests :
        \/ AddMember(r) \/ UpdateUser(r) \/ RemoveMember(r)
        \/ ActivateEnter(r) \/ Commit(r)
  BY <1>2, WhoWrites
<1>4. req[r] \in Request /\ Shape(req[r])
  BY DEF IInv, TypeOK, Shapes
<1>5. req[r].s \in Seasons /\ req[r].u \in Users /\ req[r].actor \in Users
      /\ req[r].role \in Roles \cup {"none"}
  BY <1>4 DEF Request
<1>6. CASE AddMember(r)
  BY <1>6 DEF AddMember
<1>7. CASE UpdateUser(r)
  <2>1. SeasonsKept /\ req[r].at = "write"
    BY <1>7, SeasonsAreKept DEF UpdateUser, At
  <2>2. req[r].actor # req[r].u \/ req[r].role = "admin"
    BY <1>4, <2>1 DEF Shape
  <2>3. \A v \in Users : v # req[r].u => (v \in Direction(s)' <=> v \in Direction(s))
    BY <1>5, <1>7, <2>1, UpsertTeam, LeaveTeam DEF UpdateUser
  <2>4. Direction(s) \subseteq {req[r].u}
    BY <1>1, <2>3 DEF Direction
  <2>5. req[r].u \in Direction(s)
    BY <1>1, <2>4
  <2>6. req[r].s = s
    BY <1>1, <1>5, <1>7, <2>1, <2>5, UpsertTeam, LeaveTeam DEF UpdateUser
  <2>7. req[r].role # "admin"
    <3>1. SUFFICES ASSUME req[r].role = "admin" PROVE FALSE
      OBVIOUS
    <3>2. Upsert(req[r].s, req[r].u, req[r].role) /\ req[r].role \in Roles
      BY <1>5, <1>7, <3>1, TemporadasAssumption DEF UpdateUser
    <3>3. req[r].u \in Direction(s)'
      BY <1>1, <1>5, <2>1, <2>6, <3>1, <3>2, UpsertTeam
    <3>4. QED
      BY <1>1, <3>3
  <2>8. QED
    BY <2>1, <2>2, <2>4, <2>7 DEF At, RaceOf
<1>8. CASE RemoveMember(r)
  <2>1. SeasonsKept /\ req[r].at = "drop"
    BY <1>8, SeasonsAreKept DEF RemoveMember, At
  <2>2. req[r].actor # req[r].u /\ req[r].dir # {req[r].u}
    BY <1>4, <2>1 DEF Shape
  <2>3. \A v \in Users : v # req[r].u => (v \in Direction(s)' <=> v \in Direction(s))
    BY <1>5, <1>8, <2>1, LeaveTeam DEF RemoveMember
  <2>4. Direction(s) = {req[r].u}
    BY <1>1, <2>3 DEF Direction
  <2>5. QED
    BY <2>1, <2>2, <2>4 DEF At, RaceOf
<1>9. CASE ActivateEnter(r)
  <2>1. /\ SeasonsKept /\ Upsert(req[r].s, req[r].actor, "admin") /\ "admin" \in Roles
    BY <1>9, SeasonsAreKept, TemporadasAssumption DEF ActivateEnter
  <2>2. \A v \in Users : v # req[r].actor \/ s # req[r].s =>
           (v \in Direction(s)' <=> v \in Direction(s))
    BY <1>5, <2>1, UpsertTeam
  <2>3. s = req[r].s => req[r].actor \in Direction(s)'
    BY <1>1, <1>5, <2>1, UpsertTeam
  <2>4. QED
    BY <1>1, <2>2, <2>3 DEF Direction
<1>10. CASE Commit(r)
  BY <1>1, <1>10, CommitDirection
<1>11. QED
  BY <1>3, <1>6, <1>7, <1>8, <1>9, <1>10

\* Only a commit puts a season in course.
LEMMA ArrivingStep ==
  ASSUME IInv, Next, NEW s \in course' \ course
  PROVE  \/ Direction(s)' # {}
         \/ \E r \in Requests : /\ At(r, "commit") /\ req[r].s = s /\ req[r].dir # {}
                                /\ req[r].op = "create" => req[r].team[req[r].actor] # "admin"
<1>1. course' # course
  OBVIOUS
<1>2. PICK r \in Requests : Commit(r)
  BY <1>1, WhoWrites
<1>3. /\ req[r] \in Request /\ Shape(req[r]) /\ req[r].at = "commit"
      /\ course' = (course \ (req[r].off \cup req[r].gone)) \cup req[r].on
  BY <1>2, CommitWrites
<1>4. s \in req[r].on
  BY <1>3
<1>5. /\ s = req[r].s /\ s \in Seasons /\ req[r].actor \in Users
      /\ req[r].op \in {"activate", "create"} /\ req[r].dir # {} /\ req[r].gone = {}
  BY <1>3, <1>4 DEF Shape, Request
<1>6. CASE req[r].op = "activate"
  BY <1>3, <1>5, <1>6 DEF At
<1>7. CASE req[r].op = "create" /\ req[r].team[req[r].actor] # "admin"
  BY <1>3, <1>5, <1>7 DEF At
<1>8. CASE req[r].op = "create" /\ req[r].team[req[r].actor] = "admin"
  <2>1. role'[s] = req[r].team /\ left' \subseteq left
    BY <1>2, <1>5, <1>8, CommitWrites
  <2>2. s \notin Open
    BY <1>5, <1>8 DEF IInv, Creating, Open
  <2>3. <<s, req[r].actor>> \notin left'
    BY <1>5, <2>1, <2>2, NoRowsYet
  <2>4. req[r].actor \in Direction(s)'
    BY <1>5, <1>8, <2>1, <2>3 DEF Direction
  <2>5. QED
    BY <2>4
<1>9. QED
  BY <1>5, <1>6, <1>7, <1>8

(* handleRemoveSeasonMember and handleUpdateUser: an edition or a removal  *)
(* leaves a season without direction only when its actor was no longer     *)
(* part of it or, for a removal, the direction changed after it was        *)
(* counted.                                                                *)
THEOREM DirectionIsGuarded == Spec => DirectionGuarded
<1>1. IInv /\ [Next]_vars => [\A s \in Seasons : Emptied(s) => \E r \in Requests :
          \/ At(r, "add")
          \/ At(r, "write") /\ RaceOf(r, s)
          \/ At(r, "drop") /\ RaceOf(r, s) /\ Direction(s) # req[r].dir]_vars
  BY GuardedStep
<1>2. QED
  BY <1>1, Invariant, PTL DEF Spec, DirectionGuarded

(* handleActivateSeason and handleCreateSeason: the season that comes in   *)
(* course has direction, or had it when the request looked, unless the     *)
(* list of a new one gives its creator another role.                       *)
THEOREM SeasonsArriveWithDirection == Spec => ArrivesWithDirection
<1>1. IInv /\ [Next]_vars => [\A s \in course' \ course : Direction(s)' # {} \/
          \E r \in Requests : /\ At(r, "commit") /\ req[r].s = s /\ req[r].dir # {}
                              /\ req[r].op = "create" => req[r].team[req[r].actor] # "admin"]_vars
  BY ArrivingStep
<1>2. QED
  BY <1>1, Invariant, PTL DEF Spec, ArrivesWithDirection
=============================================================================
