--------------------------- MODULE Cuentas_proofs ---------------------------
(***************************************************************************)
(* Proofs about the accounts, for any number of organizations, people,     *)
(* browsers and requests, and any length of time.                          *)
(***************************************************************************)
EXTENDS Cuentas, Sumas_proofs, SequenceTheorems

---------------------------------------------------------------------------
(* The inductive invariant.                                                *)

\* Everybody is of an organization there is.
Placed == \A i \in DOMAIN users : users[i].org \in DOMAIN orgs

\* What a request has read of the person it is about stays true of her row, which is
\* never used again even when it is gone.
Inserting == {"member", "chosen"}

JobKnows(j) ==
    /\ j.pc \in {"member", "chosen", "reset", "invite", "answer", "refuse", "change"} =>
          j.user \in DOMAIN users /\ j.org = users[j.user].org
    /\ j.pc \in Inserting => users[j.user].role = "none"
    /\ j.pc = "change" => /\ j.password \in told[users[j.user].email]
                          /\ ~orgs[j.org].demo
    /\ j.pc = "signup" => j.email \in Emails /\ j.slug \in Slugs
    /\ j.pc \in {"reset", "invite"} => j.must
    /\ j.must => j.pc \in {"reset", "invite", "answer", "refuse", "done"}

JobsKnow == \A p \in Requests : JobKnows(job[p])

\* No two requests insert the membership of the same person.
OneInsert ==
    \A p, q \in Requests : p # q /\ job[p].pc \in Inserting /\ job[q].pc \in Inserting =>
        job[p].user # job[q].user

\* The password of a row is told, or is the one that a request is about to tell, or
\* was written by one that stopped.
Reaches(i) ==
    \/ users[i].hash \in told[users[i].email]
    \/ \E p \in Requests : /\ job[p].user = i /\ job[p].password = users[i].hash
                           /\ job[p].pc \in {"member", "answer", "refuse"}
    \/ i \in stranded

PasswordKnown == \A i \in Rows : Reaches(i)

DemoPasswordTold == DemoPassword \in told[DemoEmail]

IInv ==
    /\ TypeOK /\ Placed /\ OrganizationsWhole
    /\ JobsKnow /\ OneInsert
    /\ PasswordKnown /\ DemoPasswordTold /\ DemoStaysOpen

---------------------------------------------------------------------------
(* Sequences of rows, and what the writes of a step do to the tables.      *)

LEMMA AppendFacts ==
  ASSUME NEW S, NEW s \in Seq(S), NEW e \in S
  PROVE  /\ Append(s, e) \in Seq(S)
         /\ DOMAIN Append(s, e) = DOMAIN s \cup {Len(s) + 1}
         /\ Len(s) + 1 \notin DOMAIN s /\ Len(s) + 1 \in Nat
         /\ Append(s, e)[Len(s) + 1] = e
         /\ \A i \in DOMAIN s : Append(s, e)[i] = s[i]
<1>1. Len(s) \in Nat /\ DOMAIN s = 1..Len(s)
  BY LenProperties
<1>2. /\ Append(s, e) \in Seq(S) /\ Len(Append(s, e)) = Len(s) + 1
      /\ \A i \in 1..Len(s) : Append(s, e)[i] = s[i]
      /\ Append(s, e)[Len(s) + 1] = e
  BY AppendProperties
<1>3. DOMAIN Append(s, e) = 1..(Len(s) + 1)
  BY <1>2, LenProperties
<1>4. 1..(Len(s) + 1) = 1..Len(s) \cup {Len(s) + 1}
  BY <1>1
<1> QED
  BY <1>1, <1>2, <1>3, <1>4

LEMMA UpdateFacts ==
  ASSUME NEW S, NEW s \in Seq(S), NEW i \in DOMAIN s, NEW e \in S
  PROVE  /\ [s EXCEPT ![i] = e] \in Seq(S)
         /\ DOMAIN [s EXCEPT ![i] = e] = DOMAIN s
         /\ [s EXCEPT ![i] = e][i] = e
         /\ \A k \in DOMAIN s \ {i} : [s EXCEPT ![i] = e][k] = s[k]
<1>1. DOMAIN s = 1..Len(s)
  BY LenProperties
<1>2. [s EXCEPT ![i] = e] \in Seq(S)
  BY <1>1, ExceptSeq
<1> QED
  BY <1>2

LEMMA RowType ==
  ASSUME NEW S, NEW s \in Seq(S), NEW i \in DOMAIN s
  PROVE  s[i] \in S /\ i \in Nat
<1>1. DOMAIN s = 1..Len(s) /\ Len(s) \in Nat
  BY LenProperties
<1> QED
  BY <1>1, ElementOfSeq

LEMMA UserFacts ==
  ASSUME TypeOK, NEW i \in DOMAIN users
  PROVE  /\ i \in Nat /\ users[i] \in User
         /\ users[i].org \in Nat /\ users[i].email \in Emails /\ users[i].hash \in Nat
         /\ users[i].must \in BOOLEAN /\ users[i].login \in Nat
<1>1. i \in Nat /\ users[i] \in User
  BY RowType DEF TypeOK
<1> QED
  BY <1>1 DEF User

\* A row is appended, or the row i becomes u.
Added(u) ==
    /\ users' \in Seq(User)
    /\ DOMAIN users' = DOMAIN users \cup {Len(users) + 1}
    /\ Len(users) + 1 \notin DOMAIN users /\ Len(users) + 1 \in Nat
    /\ users'[Len(users) + 1] = u
    /\ \A i \in DOMAIN users : users'[i] = users[i]

Changed(i, u) ==
    /\ users' \in Seq(User)
    /\ DOMAIN users' = DOMAIN users
    /\ users'[i] = u
    /\ \A k \in DOMAIN users \ {i} : users'[k] = users[k]

LEMMA AddedFacts ==
  ASSUME TypeOK, NEW u \in User, users' = Append(users, u)
  PROVE  Added(u)
  BY AppendFacts DEF TypeOK, Added

LEMMA ChangedFacts ==
  ASSUME TypeOK, NEW i \in DOMAIN users, NEW u \in User, users' = [users EXCEPT ![i] = u]
  PROVE  Changed(i, u)
  BY UpdateFacts DEF TypeOK, Changed

Founded(org) ==
    /\ orgs' \in Seq([slug : Slugs, demo : BOOLEAN])
    /\ DOMAIN orgs' = DOMAIN orgs \cup {Len(orgs) + 1}
    /\ Len(orgs) + 1 \notin DOMAIN orgs /\ Len(orgs) + 1 \in Nat
    /\ orgs'[Len(orgs) + 1] = org
    /\ \A o \in DOMAIN orgs : orgs'[o] = orgs[o]

LEMMA FoundedFacts ==
  ASSUME TypeOK, NEW org \in [slug : Slugs, demo : BOOLEAN], orgs' = Append(orgs, org)
  PROVE  Founded(org)
  BY AppendFacts DEF TypeOK, Founded

\* The request p goes on as j.
Becomes(p, j) ==
    /\ job' \in [Requests -> Job]
    /\ job'[p] = j
    /\ \A q \in Requests \ {p} : job'[q] = job[q]

LEMMA BecomesFacts ==
  ASSUME TypeOK, NEW p \in Requests, NEW j \in Job, job' = [job EXCEPT ![p] = j]
  PROVE  Becomes(p, j)
  BY DEF TypeOK, Becomes

\* Whoever reads the address e is told the password pw.
Tells(e, pw) ==
    /\ told' \in [Emails -> SUBSET Nat]
    /\ told'[e] = told[e] \cup {pw}
    /\ \A x \in Emails \ {e} : told'[x] = told[x]

LEMMA TellsFacts ==
  ASSUME TypeOK, NEW e \in Emails, NEW pw \in Nat,
         told' = [told EXCEPT ![e] = told[e] \cup {pw}]
  PROVE  Tells(e, pw)
  BY DEF TypeOK, Tells

LEMMA JobFacts ==
  ASSUME TypeOK, NEW p \in Requests
  PROVE  /\ job[p] \in Job
         /\ NoJob \in Job /\ Ended(job[p]) \in Job
         /\ Ended(job[p]).pc = "done" /\ Ended(job[p]).must = job[p].must
         /\ Ended(job[p]).user = IF job[p].must THEN job[p].user ELSE 0
<1>1. job[p] \in Job /\ NoJob \in Job
  BY DEF TypeOK, Job, NoJob
<1> QED
  BY <1>1 DEF Ended, NoJob, Job

---------------------------------------------------------------------------
(* FreeSlug finds one.                                                     *)

LEMMA LeastNatural ==
  ASSUME NEW T \in SUBSET Nat, T # {}
  PROVE  Min(T) \in T /\ \A y \in T : Min(T) <= y
<1>1. PICK n \in T : TRUE
  OBVIOUS
<1> DEFINE I == 0..n
<1> DEFINE F == {0..k : k \in {m \in T : m <= n}}
<1>2. F \subseteq SUBSET I /\ F # {}
  BY <1>1
<1>3. IsFiniteSet(I)
  BY <1>1, FS_Interval
<1>4. PICK U \in F : \A V \in F : ~(V \subseteq U /\ V # U)
  <2> HIDE DEF F, I
  <2> QED
    BY <1>2, <1>3, SmallestSubset
<1>5. PICK x \in {m \in T : m <= n} : U = 0..x
  BY <1>4
<1>6. \A y \in T : x <= y
  <2>1. SUFFICES ASSUME NEW y \in T, y < x
                 PROVE  FALSE
    BY <1>5
  <2>2. 0..y \in F
    BY <2>1, <1>1, <1>5
  <2>3. 0..y \subseteq 0..x /\ x \in 0..x /\ x \notin 0..y
    BY <2>1, <1>5
  <2> QED
    BY <2>2, <2>3, <1>4, <1>5
<1> QED
  BY <1>5, <1>6 DEF Min

\* With fewer organizations than MaxOrgs one of MaxOrgs + 1 suffixes is free: no two
\* of them are of the same organization.
LEMMA SomeSlugIsFree ==
  ASSUME TypeOK, NEW name, Len(orgs) < MaxOrgs
  PROVE  \E k \in 1..(MaxOrgs + 1) : OrgsWith(<<name, k>>) = {}
<1> DEFINE K == 1..(MaxOrgs + 1)
<1> DEFINE owner == [k \in K |-> CHOOSE o \in DOMAIN orgs : orgs[o].slug = <<name, k>>]
<1>1. SUFFICES ASSUME \A k \in K : OrgsWith(<<name, k>>) # {}
               PROVE  FALSE
  OBVIOUS
<1>2. \A k \in K : owner[k] \in DOMAIN orgs /\ orgs[owner[k]].slug = <<name, k>>
  BY <1>1 DEF OrgsWith
<1>3. Len(orgs) \in Nat /\ DOMAIN orgs = 1..Len(orgs) /\ MaxOrgs \in Nat
  BY LenProperties, CuentasAssumption DEF TypeOK
<1>4. /\ IsFiniteSet(DOMAIN orgs) /\ Cardinality(DOMAIN orgs) = Len(orgs)
      /\ IsFiniteSet(K) /\ Cardinality(K) = MaxOrgs + 1
  <2>1. CASE Len(orgs) = 0
    <3>1. DOMAIN orgs = {}
      BY <1>3, <2>1
    <3>2. IsFiniteSet(K) /\ Cardinality(K) = MaxOrgs + 1
      BY <1>3, FS_Interval
    <3> QED
      BY <3>1, <3>2, <2>1, FS_EmptySet
  <2>2. CASE Len(orgs) # 0
    BY <1>3, <2>2, FS_Interval
  <2> QED
    BY <2>1, <2>2
<1>5. Cardinality(DOMAIN orgs) < Cardinality(K)
  BY <1>3, <1>4
<1>6. owner \in [K -> DOMAIN orgs]
  BY <1>2
<1> HIDE DEF owner, K
<1>7. PICK x \in K, y \in K : x # y /\ owner[x] = owner[y]
  BY <1>4, <1>5, <1>6, FS_PigeonHole
<1>8. <<name, x>> = <<name, y>>
  BY <1>2, <1>7
<1> QED
  BY <1>7, <1>8

\* Slugify and the loop of SlugExists: the slug is of the name asked for and nobody had
\* it when it was looked up.
LEMMA FreeSlugFacts ==
  ASSUME TypeOK, NEW name \in Names, Len(orgs) < MaxOrgs
  PROVE  /\ FreeSlug(name) \in Slugs
         /\ OrgsWith(FreeSlug(name)) = {}
<1> DEFINE T == {k \in 1..(MaxOrgs + 1) : OrgsWith(<<name, k>>) = {}}
<1>1. T # {}
  BY SomeSlugIsFree
<1>2. T \subseteq Nat
  OBVIOUS
<1>3. Min(T) \in T
  <2> HIDE DEF T
  <2> QED
    BY <1>1, <1>2, LeastNatural
<1>4. Min(T) \in Nat /\ OrgsWith(<<name, Min(T)>>) = {}
  BY <1>3
<1> QED
  BY <1>4 DEF FreeSlug, Slugs

---------------------------------------------------------------------------
(* Steps that neither add nor delete a row.                                *)

Telling == {"member", "answer", "refuse"}

SamePlaces ==
    /\ orgs' = orgs /\ gone' = gone /\ moved' = moved /\ DOMAIN users' = DOMAIN users
    /\ \A i \in DOMAIN users : /\ users'[i].org = users[i].org
                               /\ users'[i].email = users[i].email

Grows ==
    /\ \A e \in Emails : told[e] \subseteq told'[e]
    /\ stranded \subseteq stranded'

\* A request that has a password to tell keeps it, tells it or is stranded with it.
Passes(p) ==
    job[p].pc \in Telling =>
        \/ /\ job'[p].pc \in Telling
           /\ job'[p].user = job[p].user /\ job'[p].password = job[p].password
        \/ job[p].password \in told'[users[job[p].user].email]
        \/ job[p].user \in stranded'

\* Whose password was reset is not forgotten.
KeepsMust(p) == job[p].must => job'[p].must /\ job'[p].user = job[p].user

Moves(p) ==
    /\ JobKnows(job[p])' /\ job'[p].pc \notin Inserting
    /\ KeepsMust(p) /\ Passes(p)

SameRole(i) ==
    \/ users'[i].role = users[i].role
    \/ /\ users[i].role = "none"
       /\ \E p \in Requests : /\ job[p].pc \in Inserting /\ job[p].user = i
                              /\ job'[p].pc \notin Inserting

\* A password changes to one that is told or will be, and that of the demo by a reset.
SamePassword(i) ==
    \/ users'[i].hash = users[i].hash /\ users'[i].must = users[i].must
    \/ users'[i].hash \in told'[users[i].email] /\ ~orgs[users[i].org].demo
    \/ \E p \in Requests :
          /\ job'[p].user = i
          /\ job'[p].password = users'[i].hash /\ job'[p].pc \in Telling
          /\ job'[p].must \/ ~orgs[users[i].org].demo

Calm ==
    /\ TypeOK' /\ SamePlaces /\ Grows
    /\ \A p \in Requests : job'[p] = job[p] \/ Moves(p)
    /\ \A i \in DOMAIN users : SameRole(i) /\ SamePassword(i)

\* i is the shared account of the demo o, as DemoStaysOpen says it.
Shared(o, i) ==
    /\ users[i].org = o
    /\ users[i].email = DemoEmail \/ i \in moved
    /\ \/ users[i].hash = DemoPassword /\ ~users[i].must
       \/ \E p \in Requests : job[p].user = i /\ job[p].must

LEMMA SharedMeaning ==
  /\ DemoStaysOpen <=>
        \A o \in OrgsWith(DemoSlug) : orgs[o].demo => \E i \in Rows : Shared(o, i)
  /\ DemoStaysOpen' <=>
        \A o \in OrgsWith(DemoSlug)' : orgs'[o].demo => \E i \in Rows' : Shared(o, i)'
  BY DEF DemoStaysOpen, Shared

LEMMA CalmPlaces ==
  ASSUME IInv, Calm
  PROVE  Placed' /\ OrganizationsWhole'
<1>1. Rows' = Rows /\ Rows \subseteq DOMAIN users
  BY DEF Calm, SamePlaces, Rows
<1>2. Placed'
  BY DEF Calm, SamePlaces, IInv, Placed
<1>3. \A i \in DOMAIN users : users[i].role = "admin" => users'[i].role = "admin"
  BY DEF Calm, SameRole
<1>4. \A o \in DOMAIN orgs : Admins(o)' # {}
  <2>1. SUFFICES ASSUME NEW o \in DOMAIN orgs PROVE Admins(o)' # {}
    OBVIOUS
  <2>2. PICK i \in Rows : users[i].org = o /\ users[i].role = "admin"
    BY DEF IInv, OrganizationsWhole, Admins
  <2>3. i \in Rows' /\ users'[i].org = o /\ users'[i].role = "admin"
    BY <1>1, <1>3, <2>2 DEF Calm, SamePlaces
  <2> QED
    BY <2>3 DEF Admins
<1>5. \A i, k \in Rows' : i # k => users'[i].org # users'[k].org \/ users'[i].email # users'[k].email
  BY <1>1 DEF Calm, SamePlaces, IInv, OrganizationsWhole
<1>6. orgs' = orgs
  BY DEF Calm, SamePlaces
<1> QED
  BY <1>2, <1>4, <1>5, <1>6 DEF IInv, OrganizationsWhole

LEMMA CalmJobs ==
  ASSUME IInv, Calm
  PROVE  JobsKnow' /\ OneInsert'
<1>1. ASSUME NEW p \in Requests, job'[p] = job[p]
      PROVE  JobKnows(job[p])'
  <2>1. JobKnows(job[p]) /\ job[p] \in Job
    BY DEF IInv, JobsKnow, TypeOK
  <2>2. job[p].pc \in Inserting => users'[job[p].user].role = "none"
    <3>1. SUFFICES ASSUME job[p].pc \in Inserting
                   PROVE  users'[job[p].user].role = "none"
      OBVIOUS
    <3>2. job[p].user \in DOMAIN users /\ users[job[p].user].role = "none"
      BY <2>1, <3>1 DEF JobKnows, Inserting
    <3>3. \A q \in Requests : ~(/\ job[q].pc \in Inserting /\ job[q].user = job[p].user
                                /\ job'[q].pc \notin Inserting)
      BY <1>1, <3>1 DEF IInv, OneInsert
    <3> QED
      BY <3>2, <3>3 DEF Calm, SameRole
  <2>3. /\ orgs' = orgs /\ DOMAIN users' = DOMAIN users
        /\ \A i \in DOMAIN users : users'[i].org = users[i].org /\ users'[i].email = users[i].email
        /\ \A e \in Emails : told[e] \subseteq told'[e]
    BY DEF Calm, SamePlaces, Grows
  <2>4. job[p].pc = "change" => users[job[p].user].email \in Emails
    BY <2>1, UserFacts DEF JobKnows, IInv
  <2> QED
    BY <1>1, <2>1, <2>2, <2>3, <2>4 DEF JobKnows
<1>2. JobsKnow'
  BY <1>1 DEF Calm, Moves, JobsKnow
<1>3. \A p \in Requests : job'[p].pc \in Inserting => job'[p] = job[p]
  BY DEF Calm, Moves
<1>4. OneInsert'
  BY <1>3 DEF IInv, OneInsert
<1> QED
  BY <1>2, <1>4

LEMMA CalmPasswords ==
  ASSUME IInv, Calm
  PROVE  PasswordKnown'
<1>1. Rows' = Rows /\ Rows \subseteq DOMAIN users
  BY DEF Calm, SamePlaces, Rows
<1>2. SUFFICES ASSUME NEW i \in Rows
               PROVE  Reaches(i)'
  BY <1>1 DEF PasswordKnown
<1>3. /\ users'[i].email = users[i].email /\ users[i].email \in Emails
      /\ told[users[i].email] \subseteq told'[users[i].email]
      /\ stranded \subseteq stranded' /\ SamePassword(i)
  BY <1>1, UserFacts DEF Calm, SamePlaces, Grows, IInv
<1>4. CASE users'[i].hash = users[i].hash
  <2>1. CASE users[i].hash \in told[users[i].email]
    BY <1>3, <1>4, <2>1 DEF Reaches
  <2>2. CASE i \in stranded
    BY <1>3, <2>2 DEF Reaches
  <2>3. ASSUME NEW p \in Requests, job[p].user = i, job[p].password = users[i].hash,
               job[p].pc \in Telling
        PROVE  Reaches(i)'
    <3>1. job'[p] = job[p] \/ Passes(p)
      BY DEF Calm, Moves
    <3> QED
      BY <1>3, <1>4, <2>3, <3>1 DEF Passes, Reaches, Telling
  <2>4. Reaches(i)
    BY DEF IInv, PasswordKnown
  <2> QED
    BY <2>1, <2>2, <2>3, <2>4 DEF Reaches, Telling
<1>5. CASE users'[i].hash # users[i].hash
  BY <1>3, <1>5 DEF SamePassword, Reaches, Telling
<1> QED
  BY <1>4, <1>5

LEMMA CalmDemo ==
  ASSUME IInv, Calm
  PROVE  DemoPasswordTold' /\ DemoStaysOpen'
<1>1. Rows' = Rows /\ Rows \subseteq DOMAIN users /\ orgs' = orgs
  BY DEF Calm, SamePlaces, Rows
<1>2. DemoPasswordTold'
  BY CuentasAssumption DEF Calm, Grows, IInv, DemoPasswordTold
<1>3. SUFFICES ASSUME NEW o \in OrgsWith(DemoSlug), orgs[o].demo
               PROVE  \E i \in Rows : Shared(o, i)'
  <2>1. OrgsWith(DemoSlug)' = OrgsWith(DemoSlug)
    BY <1>1 DEF OrgsWith
  <2> QED
    BY <1>1, <1>2, <2>1, SharedMeaning
<1>4. PICK i \in Rows : Shared(o, i)
  BY <1>3, SharedMeaning DEF IInv
<1>5. /\ i \in DOMAIN users /\ users'[i].org = users[i].org /\ users'[i].email = users[i].email
      /\ moved' = moved
  BY <1>1, <1>4 DEF Calm, SamePlaces
<1>6. CASE \E p \in Requests : job[p].user = i /\ job[p].must
  <2>1. \A p \in Requests : job'[p] = job[p] \/ KeepsMust(p)
    BY DEF Calm, Moves
  <2> QED
    BY <1>4, <1>5, <1>6, <2>1 DEF Shared, KeepsMust
<1>7. CASE users[i].hash = DemoPassword /\ ~users[i].must
  <2>1. SamePassword(i)
    BY <1>5 DEF Calm
  <2> QED
    BY <1>3, <1>4, <1>5, <1>7, <2>1 DEF Shared, SamePassword
<1> QED
  BY <1>4, <1>6, <1>7 DEF Shared

LEMMA CalmStep ==
  ASSUME IInv, Calm
  PROVE  IInv'
<1>1. TypeOK'
  BY DEF Calm
<1> QED
  BY <1>1, CalmPlaces, CalmJobs, CalmPasswords, CalmDemo DEF IInv

---------------------------------------------------------------------------
(* Sessions, and requests that change no row but for its last login.       *)

SamePeople ==
    /\ orgs' = orgs /\ gone' = gone /\ moved' = moved
    /\ users' \in Seq(User) /\ DOMAIN users' = DOMAIN users
    /\ \A i \in DOMAIN users :
          /\ users'[i].org = users[i].org /\ users'[i].email = users[i].email
          /\ users'[i].role = users[i].role
          /\ users'[i].hash = users[i].hash /\ users'[i].must = users[i].must

LEMMA SameIsCalm ==
  ASSUME TypeOK', SamePeople, Grows,
         \A p \in Requests : job'[p] = job[p] \/ Moves(p)
  PROVE  Calm
<1>1. \A i \in DOMAIN users : SameRole(i) /\ SamePassword(i)
  BY DEF SamePeople, SameRole, SamePassword
<1> QED
  BY <1>1 DEF SamePeople, SamePlaces, Calm

LEMMA EnterFacts ==
  ASSUME TypeOK, NEW b \in Browsers, NEW i \in Rows, NEW until \in Nat,
         Enter(b, i, until), orgs' = orgs, gone' = gone, moved' = moved
  PROVE  SamePeople /\ session' \in [Browsers -> [user : Nat, until : Nat]]
<1>1. i \in DOMAIN users /\ i \in Nat /\ users[i] \in User
  BY UserFacts DEF Rows
<1>2. session' \in [Browsers -> [user : Nat, until : Nat]]
  BY <1>1 DEF Enter, TypeOK
<1>3. CASE users' = users
  BY <1>2, <1>3 DEF SamePeople, TypeOK
<1>4. CASE users' = [users EXCEPT ![i].login = now]
  <2> DEFINE u == [users[i] EXCEPT !.login = now]
  <2>1. u \in User
    BY <1>1 DEF User, TypeOK
  <2>2. /\ u.org = users[i].org /\ u.email = users[i].email /\ u.role = users[i].role
        /\ u.hash = users[i].hash /\ u.must = users[i].must
    BY <1>1 DEF User
  <2>3. users' = [users EXCEPT ![i] = u]
    BY <1>4
  <2> HIDE DEF u
  <2>4. Changed(i, u)
    BY <1>1, <2>1, <2>3, ChangedFacts
  <2> QED
    BY <1>2, <2>2, <2>4 DEF SamePeople, Changed
<1> QED
  BY <1>2, <1>3, <1>4 DEF Enter

\* The session of b and last logins, at most.
LEMMA QuietStep ==
  ASSUME IInv, SamePeople, session' \in [Browsers -> [user : Nat, until : Nat]],
         now' \in Nat, UNCHANGED <<job, told, stranded, passwords>>
  PROVE  IInv'
<1>1. TypeOK'
  BY DEF IInv, TypeOK, SamePeople
<1> QED
  BY <1>1, SameIsCalm, CalmStep DEF Grows

LEMMA SessionFacts ==
  ASSUME TypeOK, NEW b \in Browsers
  PROVE  /\ session[b].until \in Nat
         /\ [session EXCEPT ![b] = NoSession] \in [Browsers -> [user : Nat, until : Nat]]
  BY DEF TypeOK, NoSession

LEMMA UnchangedPeople ==
  ASSUME TypeOK, UNCHANGED <<orgs, users, gone, moved>>
  PROVE  SamePeople
  BY DEF TypeOK, SamePeople

LEMMA SessionsStep ==
  ASSUME IInv, NEW b \in Browsers,
         \/ Visit(b) \/ Logout(b) \/ DemoSession(b)
         \/ \E e \in Emails : \E pw \in told[e] : Login(b, e, pw)
  PROVE  IInv'
<1>1. TypeOK /\ now \in Nat
  BY DEF IInv, TypeOK
<1>2. CASE Visit(b) \/ Logout(b)
  BY <1>1, <1>2, SessionFacts, UnchangedPeople, QuietStep DEF Visit, Logout
<1>3. CASE DemoSession(b)
  <2>1. PICK i \in Rows : Enter(b, i, now + Lifetime)
    BY <1>3 DEF DemoSession
  <2>2. now + Lifetime \in Nat
    BY <1>1, CuentasAssumption
  <2>3. SamePeople /\ session' \in [Browsers -> [user : Nat, until : Nat]]
    BY <1>1, <1>3, <2>1, <2>2, EnterFacts DEF DemoSession
  <2> QED
    BY <1>1, <1>3, <2>3, QuietStep DEF DemoSession
<1>4. ASSUME NEW e \in Emails, NEW pw \in told[e], Login(b, e, pw)
      PROVE  IInv'
  <2>1. PICK i \in Rows : Enter(b, i, session[b].until)
    BY <1>4 DEF Login
  <2>2. SamePeople /\ session' \in [Browsers -> [user : Nat, until : Nat]]
    BY <1>1, <1>4, <2>1, SessionFacts, EnterFacts DEF Login
  <2> QED
    BY <1>1, <1>4, <2>2, QuietStep DEF Login
<1> QED
  BY <1>2, <1>3, <1>4

LEMMA TickStep ==
  ASSUME IInv, Tick
  PROVE  IInv'
<1>1. now' \in Nat /\ session' \in [Browsers -> [user : Nat, until : Nat]]
  BY DEF Tick, Keep, IInv, TypeOK
<1>2. SamePeople
  BY UnchangedPeople DEF Tick, Keep, IInv
<1> QED
  BY <1>1, <1>2, QuietStep DEF Tick, Keep

\* A request that ends with nothing left to tell.
LEMMA EndedMoves ==
  ASSUME TypeOK, NEW p \in Requests, Becomes(p, Ended(job[p])), Passes(p)
  PROVE  \A q \in Requests : job'[q] = job[q] \/ Moves(q)
<1>1. /\ job'[p].pc = "done" /\ job'[p].must = job[p].must
      /\ job'[p].user = IF job[p].must THEN job[p].user ELSE 0
  BY JobFacts DEF Becomes
<1>2. Moves(p)
  BY <1>1 DEF Moves, JobKnows, Inserting, KeepsMust
<1> QED
  BY <1>2 DEF Becomes

LEMMA SignupOpenStep ==
  ASSUME IInv, NEW p \in Requests, NEW b \in Browsers, SignupOpen(p, b)
  PROVE  IInv'
<1>1. TypeOK /\ job[p].pc = "open" /\ job[p].user \in Rows
  BY DEF IInv, SignupOpen
<1>2. SamePeople /\ session' \in [Browsers -> [user : Nat, until : Nat]]
  BY <1>1, SessionFacts, EnterFacts DEF SignupOpen
<1>3. Becomes(p, Ended(job[p]))
  BY <1>1, JobFacts, BecomesFacts DEF SignupOpen
<1>4. Passes(p)
  BY <1>1 DEF Passes, Telling
<1>5. \A q \in Requests : job'[q] = job[q] \/ Moves(q)
  BY <1>1, <1>3, <1>4, EndedMoves
<1>6. TypeOK'
  BY <1>1, <1>2, <1>3 DEF SignupOpen, TypeOK, SamePeople, Becomes
<1>7. Grows
  BY DEF SignupOpen, Grows
<1> QED
  BY <1>2, <1>5, <1>6, <1>7, SameIsCalm, CalmStep

\* The requests that begin by reading: SignupSlug, ResetPassword and ChangePassword.
LEMMA BeginStep ==
  ASSUME IInv, NEW p \in Requests, job[p].pc = "idle", NEW j \in Job, Becomes(p, j),
         UNCHANGED <<orgs, users, gone, session, now, stranded, moved>>,
         passwords' \in Nat, told' \in [Emails -> SUBSET Nat],
         \A e \in Emails : told[e] \subseteq told'[e],
         JobKnows(job[p])', j.pc \notin Inserting
  PROVE  IInv'
<1>1. ~job[p].must
  BY DEF IInv, JobsKnow, JobKnows
<1>2. Moves(p)
  BY <1>1 DEF Moves, KeepsMust, Passes, Telling, Becomes
<1>3. \A q \in Requests : job'[q] = job[q] \/ Moves(q)
  BY <1>2 DEF Becomes
<1>4. SamePeople
  BY UnchangedPeople DEF IInv
<1>5. TypeOK'
  BY DEF IInv, TypeOK, Becomes
<1>6. Grows
  BY DEF Grows
<1> QED
  BY <1>3, <1>4, <1>5, <1>6, SameIsCalm, CalmStep

LEMMA SignupSlugStep ==
  ASSUME IInv, NEW p \in Requests, NEW name \in Names, NEW e \in Emails, SignupSlug(p, name, e)
  PROVE  IInv'
<1>1. TypeOK /\ passwords \in Nat /\ passwords + 1 \in Nat
  BY DEF IInv, TypeOK
<1>2. FreeSlug(name) \in Slugs
  BY <1>1, FreeSlugFacts DEF SignupSlug
<1>3. PICK j : j = [NoJob EXCEPT !.pc = "signup", !.email = e,
                                 !.slug = FreeSlug(name), !.password = passwords + 1]
  OBVIOUS
<1>4. j \in Job /\ j.pc = "signup" /\ j.email = e /\ j.slug \in Slugs /\ j.must = FALSE
  BY <1>1, <1>2, <1>3 DEF NoJob, Job
<1>5. Becomes(p, j)
  BY <1>1, <1>3, <1>4, BecomesFacts DEF SignupSlug
<1>6. JobKnows(job[p])' /\ j.pc \notin Inserting
  BY <1>4, <1>5 DEF JobKnows, Inserting, Becomes
<1>7. told' \in [Emails -> SUBSET Nat]
  BY <1>1 DEF TypeOK, SignupSlug
<1> QED
  BY <1>1, <1>4, <1>5, <1>6, <1>7, BeginStep DEF SignupSlug

LEMMA ResetReadStep ==
  ASSUME IInv, NEW p \in Requests, NEW b \in Browsers, NEW i \in Rows,
         NEW pc \in {"reset", "invite"}, ResetRead(p, b, i, pc)
  PROVE  IInv'
<1>1. TypeOK /\ passwords \in Nat /\ passwords + 1 \in Nat
  BY DEF IInv, TypeOK
<1>2. /\ i \in DOMAIN users /\ i \in Nat /\ users[i].org \in Nat
      /\ users[i].email \in Emails /\ users[i].login \in Nat
  BY <1>1, UserFacts DEF Rows
<1>3. PICK a \in Direction(b) :
         /\ job[p].pc = "idle" /\ users[i].org = users[a].org
         /\ passwords' = passwords + 1
         /\ job' = [job EXCEPT ![p] = [NoJob EXCEPT !.pc = pc, !.org = users[a].org,
                        !.user = i, !.email = users[i].email, !.login = users[i].login,
                        !.must = TRUE, !.password = passwords + 1]]
         /\ UNCHANGED <<orgs, users, gone, session, now, told, stranded, moved>>
  BY DEF ResetRead
<1>4. PICK j : j = [NoJob EXCEPT !.pc = pc, !.org = users[a].org,
                        !.user = i, !.email = users[i].email, !.login = users[i].login,
                        !.must = TRUE, !.password = passwords + 1]
  OBVIOUS
<1>5. /\ j \in Job /\ j.pc \in {"reset", "invite"} /\ j.user = i /\ j.org = users[i].org
      /\ j.email = users[i].email /\ j.must
  BY <1>1, <1>2, <1>3, <1>4 DEF NoJob, Job
<1>6. Becomes(p, j)
  BY <1>1, <1>3, <1>4, <1>5, BecomesFacts
<1>7. JobKnows(job[p])' /\ j.pc \notin Inserting
  BY <1>2, <1>3, <1>5, <1>6 DEF JobKnows, Inserting, Becomes
<1>8. told' \in [Emails -> SUBSET Nat]
  BY <1>1, <1>3 DEF TypeOK
<1> QED
  BY <1>1, <1>3, <1>5, <1>6, <1>7, <1>8, BeginStep

LEMMA ChangeCheckStep ==
  ASSUME IInv, NEW p \in Requests, NEW b \in Browsers, NEW pw \in 1..(passwords + 1),
         ChangeCheck(p, b, pw)
  PROVE  IInv'
<1>1. TypeOK /\ passwords \in Nat /\ pw \in Nat
  BY DEF IInv, TypeOK
<1>2. PICK i \in CurrentUser(b) :
         /\ job[p].pc = "idle" /\ ~orgs[users[i].org].demo
         /\ passwords' = IF pw > passwords THEN pw ELSE passwords
         /\ told' = [told EXCEPT ![users[i].email] = told[users[i].email] \cup {pw}]
         /\ job' = [job EXCEPT ![p] = [NoJob EXCEPT !.pc = "change", !.org = users[i].org,
                        !.user = i, !.email = users[i].email, !.password = pw]]
         /\ UNCHANGED <<orgs, users, gone, session, now, stranded, moved>>
  BY DEF ChangeCheck
<1>3. i \in DOMAIN users /\ i \in Nat /\ users[i].org \in Nat /\ users[i].email \in Emails
  BY <1>1, UserFacts DEF CurrentUser, Rows
<1>4. PICK j : j = [NoJob EXCEPT !.pc = "change", !.org = users[i].org,
                        !.user = i, !.email = users[i].email, !.password = pw]
  OBVIOUS
<1>5. /\ j \in Job /\ j.pc = "change" /\ j.user = i /\ j.org = users[i].org
      /\ j.email = users[i].email /\ j.password = pw /\ j.must = FALSE
  BY <1>1, <1>3, <1>4 DEF NoJob, Job
<1>6. Becomes(p, j)
  BY <1>1, <1>2, <1>4, <1>5, BecomesFacts
<1>7. Tells(users[i].email, pw)
  BY <1>1, <1>2, <1>3, TellsFacts
<1>8. JobKnows(job[p])' /\ j.pc \notin Inserting
  BY <1>2, <1>3, <1>5, <1>6, <1>7 DEF JobKnows, Inserting, Becomes, Tells
<1>9. \A e \in Emails : told[e] \subseteq told'[e]
  BY <1>7 DEF Tells
<1>10. passwords' \in Nat /\ told' \in [Emails -> SUBSET Nat]
  BY <1>1, <1>2, <1>7 DEF Tells
<1> QED
  BY <1>1, <1>2, <1>5, <1>6, <1>8, <1>9, <1>10, BeginStep

---------------------------------------------------------------------------
(* Passwords: the answer, the write, and the request that stops.           *)

LEMMA AnswerStep ==
  ASSUME IInv, NEW p \in Requests, Answer(p)
  PROVE  IInv'
<1>1. TypeOK /\ job[p] \in Job /\ JobKnows(job[p]) /\ job[p].pc = "answer"
  BY DEF IInv, TypeOK, JobsKnow, Answer
<1>2. users[job[p].user].email \in Emails /\ job[p].password \in Nat
  BY <1>1, UserFacts DEF JobKnows, Job
<1>3. /\ told' \in [Emails -> SUBSET Nat] /\ \A e \in Emails : told[e] \subseteq told'[e]
      /\ job[p].password \in told'[users[job[p].user].email]
  BY <1>1, <1>2 DEF Answer, TypeOK
<1>4. Becomes(p, Ended(job[p]))
  BY <1>1, JobFacts, BecomesFacts DEF Answer
<1>5. Passes(p)
  BY <1>3 DEF Passes
<1>6. \A q \in Requests : job'[q] = job[q] \/ Moves(q)
  BY <1>1, <1>4, <1>5, EndedMoves
<1>7. SamePeople
  BY <1>1, UnchangedPeople DEF Answer
<1>8. TypeOK'
  BY <1>1, <1>3, <1>4 DEF Answer, TypeOK, Becomes
<1>9. Grows
  BY <1>3 DEF Answer, Grows
<1> QED
  BY <1>6, <1>7, <1>8, <1>9, SameIsCalm, CalmStep

LEMMA StopStep ==
  ASSUME IInv, NEW p \in Requests, Stop(p)
  PROVE  IInv'
<1>1. TypeOK /\ job[p] \in Job
  BY DEF IInv, TypeOK
<1>2. Becomes(p, Ended(job[p]))
  BY <1>1, JobFacts, BecomesFacts DEF Stop
<1>3. Passes(p)
  BY DEF Passes, Stop, Telling
<1>4. \A q \in Requests : job'[q] = job[q] \/ Moves(q)
  BY <1>1, <1>2, <1>3, EndedMoves
<1>5. SamePeople
  BY <1>1, UnchangedPeople DEF Stop
<1>6. TypeOK'
  BY <1>1, <1>2 DEF Stop, TypeOK, Becomes, Job
<1>7. Grows
  BY DEF Stop, Grows
<1> QED
  BY <1>4, <1>5, <1>6, <1>7, SameIsCalm, CalmStep

\* The membership is the first role she has, so nobody stops being the direction.
LEMMA InsertMemberStep ==
  ASSUME IInv, NEW p \in Requests, InsertMember(p)
  PROVE  IInv'
<1>1. TypeOK /\ job[p] \in Job /\ JobKnows(job[p]) /\ job[p].pc \in Inserting
  BY DEF IInv, TypeOK, JobsKnow, InsertMember, Inserting
<1>2. PICK i : i = job[p].user
  OBVIOUS
<1>3. i \in DOMAIN users /\ users[i] \in User /\ users[i].role = "none"
  BY <1>1, <1>2, UserFacts DEF JobKnows, Inserting
<1>4. PICK r \in {"admin", "seller"} : users' = [users EXCEPT ![i].role = r]
  BY <1>2 DEF InsertMember
<1>5. PICK u : u = [users[i] EXCEPT !.role = r]
  OBVIOUS
<1>6. /\ u \in User /\ u.org = users[i].org /\ u.email = users[i].email
      /\ u.hash = users[i].hash /\ u.must = users[i].must
  BY <1>3, <1>4, <1>5 DEF User
<1>7. Changed(i, u)
  BY <1>1, <1>3, <1>4, <1>5, <1>6, ChangedFacts
<1>8. PICK j : j = IF job[p].pc = "member" THEN [job[p] EXCEPT !.pc = "answer"] ELSE Ended(job[p])
  OBVIOUS
<1>9. /\ j \in Job /\ j.must = job[p].must /\ ~job[p].must
      /\ \/ /\ j.pc = "answer" /\ j.user = i /\ j.org = job[p].org
            /\ j.password = job[p].password
         \/ j.pc = "done" /\ job[p].pc = "chosen"
  <2>1. ~job[p].must
    BY <1>1 DEF JobKnows, Inserting
  <2>2. CASE job[p].pc = "member"
    BY <1>1, <1>2, <1>8, <2>1, <2>2 DEF Job
  <2>3. CASE job[p].pc = "chosen"
    BY <1>1, <1>8, <2>1, <2>3, JobFacts
  <2> QED
    BY <1>1, <2>2, <2>3 DEF Inserting
<1>10. Becomes(p, j)
  BY <1>1, <1>8, <1>9, BecomesFacts DEF InsertMember
<1>11. job[p].org = users[i].org
  BY <1>1, <1>2 DEF JobKnows, Inserting
<1>12. JobKnows(job[p])'
  BY <1>3, <1>6, <1>7, <1>9, <1>10, <1>11 DEF JobKnows, Inserting, Becomes, Changed
<1>13. KeepsMust(p) /\ Passes(p) /\ job'[p].pc \notin Inserting
  BY <1>2, <1>9, <1>10 DEF KeepsMust, Passes, Telling, Inserting, Becomes
<1>14. \A q \in Requests : job'[q] = job[q] \/ Moves(q)
  BY <1>10, <1>12, <1>13 DEF Moves, Becomes
<1>15. \A k \in DOMAIN users : SameRole(k) /\ SamePassword(k)
  BY <1>1, <1>2, <1>3, <1>6, <1>7, <1>13 DEF SameRole, SamePassword, Changed
<1>16. TypeOK'
  BY <1>1, <1>7, <1>10 DEF InsertMember, TypeOK, Changed, Becomes
<1>17. Grows /\ SamePlaces
  BY <1>3, <1>6, <1>7 DEF InsertMember, Grows, SamePlaces, Changed
<1> QED
  BY <1>14, <1>15, <1>16, <1>17, CalmStep DEF Calm

\* The password written is that of the request, which is told or goes on to tell it;
\* it is not that of the demo, unless it is a reset.
LEMMA SetUserPasswordStep ==
  ASSUME IInv, NEW p \in Requests, NEW j \in Job, SetUserPassword(p, j),
         job[p].pc \in {"reset", "invite", "change"},
         j.user = job[p].user \/ (j.user = 0 /\ ~job[p].must), j.must = job[p].must,
         \/ j.pc \in {"answer", "refuse"} /\ j = [job[p] EXCEPT !.pc = j.pc]
         \/ j.pc = "done" /\ job[p].pc = "change" /\ ~j.must
  PROVE  IInv'
<1>1. TypeOK /\ job[p] \in Job /\ JobKnows(job[p])
  BY DEF IInv, TypeOK, JobsKnow
<1>2. PICK i : i = job[p].user
  OBVIOUS
<1>3. /\ i \in DOMAIN users /\ users[i] \in User /\ users[i].email \in Emails
      /\ job[p].org = users[i].org
  BY <1>1, <1>2, UserFacts DEF JobKnows
<1>4. Becomes(p, j)
  BY <1>1, BecomesFacts DEF SetUserPassword
<1>5. PICK u : u = [users[i] EXCEPT !.hash = job[p].password, !.must = job[p].must]
  OBVIOUS
<1>6. /\ u \in User /\ u.org = users[i].org /\ u.email = users[i].email
      /\ u.role = users[i].role /\ u.hash = job[p].password
  BY <1>1, <1>3, <1>5 DEF User, Job
<1>7. users' = users \/ Changed(i, u)
  <2>1. users' = users \/ users' = [users EXCEPT ![i] = u]
    BY <1>2, <1>5 DEF SetUserPassword
  <2> QED
    BY <2>1, <1>1, <1>3, <1>6, ChangedFacts
<1>8. TypeOK'
  BY <1>1, <1>4, <1>7 DEF SetUserPassword, TypeOK, Changed, Becomes
<1>9. Grows /\ SamePlaces
  BY <1>3, <1>6, <1>7 DEF SetUserPassword, Grows, SamePlaces, Changed
<1>10. KeepsMust(p) /\ Passes(p) /\ job'[p].pc \notin Inserting
  BY <1>4 DEF KeepsMust, Passes, Telling, Inserting, Becomes
<1>11. JobKnows(job[p])'
  <2>1. j.pc \in {"answer", "refuse"} =>
           j.user = i /\ j.org = users[i].org
    BY <1>1, <1>2, <1>3 DEF Job
  <2> QED
    BY <1>3, <1>4, <1>9, <2>1 DEF JobKnows, Inserting, Becomes, SamePlaces
<1>12. \A q \in Requests : job'[q] = job[q] \/ Moves(q)
  BY <1>4, <1>10, <1>11 DEF Moves, Becomes
<1>13. SamePassword(i) \/ users' = users
  <2>1. CASE j.pc \in {"answer", "refuse"}
    <3>1. /\ job'[p].user = i /\ job'[p].password = job[p].password
          /\ job'[p].pc \in Telling /\ job'[p].must = job[p].must
      BY <1>1, <1>2, <1>4, <2>1 DEF Job, Becomes, Telling
    <3>2. job[p].must \/ ~orgs[users[i].org].demo
      BY <1>1, <1>3 DEF JobKnows
    <3> QED
      BY <1>6, <1>7, <3>1, <3>2 DEF SamePassword, Changed
  <2>2. CASE j.pc = "done"
    <3>1. job[p].pc = "change"
      BY <2>2
    <3>2. job[p].password \in told[users[i].email] /\ ~orgs[users[i].org].demo
      BY <1>1, <1>2, <1>3, <3>1 DEF JobKnows
    <3>3. told' = told
      BY DEF SetUserPassword
    <3> QED
      BY <1>6, <1>7, <3>2, <3>3 DEF SamePassword, Changed
  <2> QED
    BY <2>1, <2>2
<1>14. \A k \in DOMAIN users : SameRole(k) /\ SamePassword(k)
  BY <1>3, <1>6, <1>7, <1>13 DEF SameRole, SamePassword, Changed
<1> QED
  BY <1>8, <1>9, <1>12, <1>14, CalmStep DEF Calm

LEMMA ResetWriteStep ==
  ASSUME IInv, NEW p \in Requests, ResetWrite(p) \/ ChangeWrite(p)
  PROVE  IInv'
<1>1. job[p] \in Job /\ JobKnows(job[p]) /\ TypeOK
  BY DEF IInv, TypeOK, JobsKnow
<1>2. CASE ResetWrite(p)
  <2>1. PICK pc \in {"answer", "refuse"} :
           /\ SetUserPassword(p, [job[p] EXCEPT !.pc = pc])
           /\ job[p].pc \in {"reset", "invite"}
    BY <1>2 DEF ResetWrite
  <2>2. PICK j : j = [job[p] EXCEPT !.pc = pc]
    OBVIOUS
  <2>3. j \in Job /\ j.pc = pc /\ j.user = job[p].user /\ j.must = job[p].must
    BY <1>1, <2>2 DEF Job
  <2>4. SetUserPassword(p, j)
    BY <2>1, <2>2
  <2> QED
    BY <2>1, <2>2, <2>3, <2>4, SetUserPasswordStep
<1>3. CASE ChangeWrite(p)
  <2>1. job[p].pc = "change" /\ ~job[p].must
    BY <1>1, <1>3 DEF ChangeWrite, JobKnows
  <2>2. PICK j : j = Ended(job[p])
    OBVIOUS
  <2>3. j \in Job /\ j.pc = "done" /\ j.must = job[p].must /\ j.user = 0
    BY <1>1, <2>1, <2>2, JobFacts
  <2>4. SetUserPassword(p, j)
    BY <1>3, <2>2 DEF ChangeWrite
  <2> QED
    BY <2>1, <2>3, <2>4, SetUserPasswordStep
<1> QED
  BY <1>2, <1>3

---------------------------------------------------------------------------
(* Steps that add a row.                                                   *)

OrgsKept == \A o \in DOMAIN orgs : o \in DOMAIN orgs' /\ orgs'[o] = orgs[o]

LEMMA OldJobs ==
  ASSUME IInv, NEW u, Added(u), OrgsKept, Grows, NEW p \in Requests, job'[p] = job[p]
  PROVE  JobKnows(job[p])'
<1>1. JobKnows(job[p]) /\ TypeOK
  BY DEF IInv, JobsKnow
<1>2. ASSUME job[p].user \in DOMAIN users, job[p].org = users[job[p].user].org
      PROVE  job[p].org \in DOMAIN orgs /\ users[job[p].user].email \in Emails
  BY <1>1, <1>2, UserFacts DEF IInv, Placed
<1> QED
  BY <1>1, <1>2 DEF JobKnows, Inserting, Added, OrgsKept, Grows

LEMMA OldReach ==
  ASSUME IInv, NEW u, Added(u), Grows, NEW i \in Rows,
         \A p \in Requests : job'[p] = job[p] \/ job[p].pc \notin Telling
  PROVE  Reaches(i)'
<1>1. i \in DOMAIN users /\ users'[i] = users[i] /\ users[i].email \in Emails
  BY UserFacts DEF IInv, Rows, Added
<1>2. Reaches(i)
  BY DEF IInv, PasswordKnown
<1> QED
  BY <1>1, <1>2 DEF Reaches, Grows, Telling

\* A new row with an address its organization does not have yet.
LEMMA NewRow ==
  ASSUME IInv, NEW u, Added(u), gone' = gone,
         \A k \in Rows : users[k].org # u.org \/ users[k].email # u.email
  PROVE  /\ Rows' = Rows \cup {Len(users) + 1}
         /\ \A o \in DOMAIN orgs : Admins(o)' # {}
         /\ \A i, k \in Rows' : i # k => users'[i].org # users'[k].org \/ users'[i].email # users'[k].email
<1>1. Rows' = Rows \cup {Len(users) + 1}
  BY DEF IInv, TypeOK, Rows, Added
<1>2. \A k \in Rows : users'[k] = users[k]
  BY DEF Rows, Added
<1>3. \A o \in DOMAIN orgs : Admins(o)' # {}
  <2>1. SUFFICES ASSUME NEW o \in DOMAIN orgs PROVE Admins(o)' # {}
    OBVIOUS
  <2>2. PICK i \in Rows : users[i].org = o /\ users[i].role = "admin"
    BY DEF IInv, OrganizationsWhole, Admins
  <2>3. i \in Rows' /\ users'[i].org = o /\ users'[i].role = "admin"
    BY <1>1, <1>2, <2>2
  <2> QED
    BY <2>3 DEF Admins
<1>4. users'[Len(users) + 1] = u
  BY DEF Added
<1>5. \A i, k \in Rows' : i # k => users'[i].org # users'[k].org \/ users'[i].email # users'[k].email
  BY <1>1, <1>2, <1>4 DEF IInv, OrganizationsWhole
<1> QED
  BY <1>1, <1>3, <1>5

\* An account of the demo that was there stays open.
LEMMA OldDemo ==
  ASSUME IInv, NEW u, Added(u), gone' = gone, moved' = moved, \A p \in Requests : KeepsMust(p),
         NEW o \in OrgsWith(DemoSlug), orgs[o].demo
  PROVE  \E i \in Rows' : Shared(o, i)'
<1>1. PICK i \in Rows : Shared(o, i)
  BY SharedMeaning DEF IInv
<1>2. users'[i] = users[i] /\ i \in Rows'
  BY DEF Rows, Added
<1> QED
  BY <1>1, <1>2 DEF Shared, KeepsMust

LEMMA InsertUserStep ==
  ASSUME IInv, NEW p \in Requests, NEW b \in Browsers, NEW e \in Emails,
         NEW generated \in BOOLEAN, InsertUser(p, b, e, generated)
  PROVE  IInv'
<1>1. TypeOK /\ passwords \in Nat /\ passwords + 1 \in Nat
  BY DEF IInv, TypeOK
<1>2. PICK a \in Direction(b), pc \in Inserting :
         /\ job[p].pc = "idle" /\ Account(users[a].org, e) = {}
         /\ passwords' = passwords + 1
         /\ users' = Append(users, NewUser(users[a].org, e, passwords + 1, TRUE, 0, "none"))
         /\ job' = [job EXCEPT ![p] = [NoJob EXCEPT !.pc = pc, !.org = users[a].org,
                        !.user = Len(users) + 1, !.email = e, !.password = passwords + 1]]
         /\ \/ pc = "member" /\ told' = told
            \/ told' = [told EXCEPT ![e] = told[e] \cup {passwords + 1}]
         /\ UNCHANGED <<orgs, gone, session, now, stranded, moved>>
  <2>1. CASE generated
    BY <2>1 DEF InsertUser, Inserting
  <2>2. CASE ~generated
    BY <2>2 DEF InsertUser, Inserting
  <2> QED
    BY <2>1, <2>2
<1>3. a \in DOMAIN users /\ users[a].org \in Nat /\ users[a].org \in DOMAIN orgs
  BY <1>1, UserFacts DEF Direction, CurrentUser, Rows, IInv, Placed
<1>4. PICK u : u = NewUser(users[a].org, e, passwords + 1, TRUE, 0, "none")
  OBVIOUS
<1>5. /\ u \in User /\ u.org = users[a].org /\ u.email = e /\ u.hash = passwords + 1
      /\ u.role = "none"
  BY <1>1, <1>3, <1>4 DEF NewUser, User
<1>6. Added(u)
  BY <1>1, <1>2, <1>4, <1>5, AddedFacts
<1>7. PICK n : n = Len(users) + 1
  OBVIOUS
<1>8. n \in Nat /\ n \in DOMAIN users' /\ n \notin DOMAIN users /\ users'[n] = u
  BY <1>6, <1>7 DEF Added
<1>9. PICK j : j = [NoJob EXCEPT !.pc = pc, !.org = users[a].org,
                        !.user = n, !.email = e, !.password = passwords + 1]
  OBVIOUS
<1>10. /\ j \in Job /\ j.pc = pc /\ j.user = n /\ j.org = users[a].org
       /\ j.email = e /\ j.password = passwords + 1 /\ j.must = FALSE
  BY <1>1, <1>3, <1>8, <1>9 DEF NoJob, Job, Inserting
<1>11. Becomes(p, j)
  BY <1>1, <1>2, <1>7, <1>9, <1>10, BecomesFacts
<1>12. TypeOK' /\ (pc = "member" \/ Tells(e, passwords + 1))
  <2>1. told' \in [Emails -> SUBSET Nat] /\ (pc = "member" \/ Tells(e, passwords + 1))
    <3>1. CASE pc = "member" /\ told' = told
      BY <1>1, <3>1 DEF TypeOK
    <3>2. CASE told' = [told EXCEPT ![e] = told[e] \cup {passwords + 1}]
      <4>1. Tells(e, passwords + 1)
        BY <1>1, <3>2, TellsFacts
      <4> QED
        BY <4>1 DEF Tells
    <3> QED
      BY <1>2, <3>1, <3>2
  <2> QED
    BY <2>1, <1>1, <1>2, <1>6, <1>11 DEF TypeOK, Added, Becomes
<1>13. OrgsKept /\ Grows
  BY <1>1, <1>2 DEF OrgsKept, Grows, TypeOK
<1>14. Placed'
  BY <1>2, <1>3, <1>5, <1>6 DEF IInv, Placed, Added
<1>15. /\ Rows' = Rows \cup {n}
       /\ \A o \in DOMAIN orgs : Admins(o)' # {}
       /\ \A i, k \in Rows' : i # k => users'[i].org # users'[k].org \/ users'[i].email # users'[k].email
  <2>1. \A k \in Rows : users[k].org # u.org \/ users[k].email # u.email
    BY <1>2, <1>5 DEF Account
  <2> QED
    BY <2>1, <1>2, <1>6, <1>7, NewRow
<1>16. OrganizationsWhole'
  BY <1>2, <1>15 DEF IInv, OrganizationsWhole
<1>17. JobKnows(job[p])'
  BY <1>5, <1>8, <1>10, <1>11 DEF JobKnows, Inserting, Becomes
<1>18. JobsKnow'
  BY <1>6, <1>11, <1>13, <1>17, OldJobs DEF JobsKnow, Becomes
<1>19. OneInsert'
  <2>1. \A q \in Requests \ {p} : job'[q].pc \in Inserting => job'[q].user # n
    BY <1>8, <1>11 DEF IInv, JobsKnow, JobKnows, Inserting, Becomes
  <2> QED
    BY <2>1, <1>10, <1>11 DEF IInv, OneInsert, Becomes
<1>20. PasswordKnown'
  <2>1. Reaches(n)'
    BY <1>5, <1>8, <1>10, <1>11, <1>12 DEF Reaches, Becomes, Tells
  <2>2. \A q \in Requests : job'[q] = job[q] \/ job[q].pc \notin Telling
    BY <1>2, <1>11 DEF Becomes, Telling
  <2>3. \A i \in Rows : Reaches(i)'
    BY <2>2, <1>6, <1>13, OldReach
  <2> QED
    BY <2>1, <2>3, <1>15 DEF PasswordKnown
<1>21. DemoPasswordTold'
  BY <1>13, CuentasAssumption DEF Grows, IInv, DemoPasswordTold
<1>22. DemoStaysOpen'
  <2>1. ~job[p].must
    BY <1>2 DEF IInv, JobsKnow, JobKnows
  <2>2. \A q \in Requests : KeepsMust(q)
    BY <2>1, <1>11 DEF KeepsMust, Becomes
  <2>3. orgs' = orgs /\ gone' = gone /\ moved' = moved
    BY <1>2
  <2> QED
    BY <2>2, <2>3, <1>6, OldDemo, SharedMeaning DEF OrgsWith
<1> QED
  BY <1>12, <1>14, <1>16, <1>18, <1>19, <1>20, <1>21, <1>22 DEF IInv

\* Another address, which nobody of the organization has: she goes on knowing her
\* password, and whoever knew one at the new address goes on too.
LEMMA EditAddressStep ==
  ASSUME IInv, NEW b \in Browsers, NEW i \in Rows, NEW e \in Emails, EditAddress(b, i, e)
  PROVE  IInv'
<1>1. /\ TypeOK /\ i \in DOMAIN users /\ i \in Nat /\ users[i] \in User
      /\ users[i].email \in Emails
  BY UserFacts DEF IInv, Rows
<1>2. /\ Account(users[i].org, e) = {}
      /\ users' = [users EXCEPT ![i].email = e]
      /\ told' = [told EXCEPT ![e] = told[e] \cup told[users[i].email]]
      /\ moved' = moved \cup {i}
      /\ UNCHANGED <<orgs, gone, session, now, job, stranded, passwords>>
  BY DEF EditAddress
<1>3. PICK u : u = [users[i] EXCEPT !.email = e]
  OBVIOUS
<1>4. /\ u \in User /\ u.org = users[i].org /\ u.email = e /\ u.role = users[i].role
      /\ u.hash = users[i].hash /\ u.must = users[i].must
  BY <1>1, <1>3 DEF User
<1>5. Changed(i, u)
  BY <1>1, <1>2, <1>3, <1>4, ChangedFacts
<1>6. /\ told' \in [Emails -> SUBSET Nat]
      /\ told[users[i].email] \subseteq told'[e]
      /\ \A x \in Emails : told[x] \subseteq told'[x]
  BY <1>1, <1>2 DEF TypeOK
<1>7. /\ DOMAIN users' = DOMAIN users /\ Rows' = Rows /\ Rows \subseteq DOMAIN users
      /\ \A k \in DOMAIN users : /\ users'[k].org = users[k].org /\ users'[k].role = users[k].role
                                 /\ users'[k].hash = users[k].hash /\ users'[k].must = users[k].must
                                 /\ users[k].email \in Emails
                                 /\ told[users[k].email] \subseteq told'[users'[k].email]
                                 /\ \/ k = i /\ users'[k].email = e
                                    \/ users'[k].email = users[k].email
  <2>1. \A k \in DOMAIN users : users[k].email \in Emails
    BY <1>1, UserFacts
  <2> QED
    BY <2>1, <1>2, <1>4, <1>5, <1>6 DEF Changed, Rows
<1>8. TypeOK'
  BY <1>1, <1>2, <1>5, <1>6, <1>7 DEF TypeOK, Changed
<1>9. Placed'
  BY <1>2, <1>7 DEF IInv, Placed
<1>10. OrganizationsWhole'
  <2>1. \A o \in DOMAIN orgs : Admins(o)' = Admins(o)
    BY <1>7 DEF Admins
  <2>2. \A k \in Rows : users[k].org # users[i].org \/ users[k].email # e
    BY <1>2 DEF Account
  <2>3. \A k, x \in Rows : k # x => users'[k].org # users'[x].org \/ users'[k].email # users'[x].email
    BY <1>7, <2>2 DEF IInv, OrganizationsWhole
  <2> QED
    BY <1>2, <1>7, <2>1, <2>3 DEF IInv, OrganizationsWhole
<1>11. JobsKnow' /\ OneInsert'
  BY <1>2, <1>7 DEF IInv, JobsKnow, JobKnows, OneInsert, Inserting
<1>12. PasswordKnown'
  BY <1>2, <1>7 DEF IInv, PasswordKnown, Reaches
<1>13. DemoPasswordTold'
  BY <1>6, CuentasAssumption DEF IInv, DemoPasswordTold
<1>14. DemoStaysOpen'
  <2>1. \A o \in OrgsWith(DemoSlug), k \in Rows : Shared(o, k) => Shared(o, k)'
    BY <1>2, <1>7 DEF Shared
  <2> QED
    BY <1>2, <1>7, <2>1, SharedMeaning DEF IInv, OrgsWith
<1> QED
  BY <1>8, <1>9, <1>10, <1>11, <1>12, <1>13, <1>14 DEF IInv

\* The commit of a sign-up finds no organization with its slug, and its own has one
\* who directs it.
LEMMA SignupCommitStep ==
  ASSUME IInv, NEW p \in Requests, SignupCommit(p)
  PROVE  IInv'
<1>1. TypeOK /\ job[p] \in Job /\ JobKnows(job[p]) /\ job[p].pc = "signup"
  BY DEF IInv, TypeOK, JobsKnow, SignupCommit
<1>2. job[p].email \in Emails /\ job[p].slug \in Slugs /\ job[p].password \in Nat /\ ~job[p].must
  BY <1>1 DEF JobKnows, Job
<1>3. PICK o : o = Len(orgs) + 1
  OBVIOUS
<1>4. PICK org : org = [slug |-> job[p].slug, demo |-> FALSE]
  OBVIOUS
<1>5. Founded(org) /\ org.slug = job[p].slug /\ org.demo = FALSE
  <2>1. org \in [slug : Slugs, demo : BOOLEAN]
    BY <1>2, <1>4
  <2> QED
    BY <2>1, <1>1, <1>4, FoundedFacts DEF SignupCommit
<1>6. /\ o \in Nat /\ o \notin DOMAIN orgs /\ DOMAIN orgs' = DOMAIN orgs \cup {o}
      /\ orgs'[o] = org
  BY <1>3, <1>5 DEF Founded
<1>7. PICK u : u = NewUser(o, job[p].email, job[p].password, FALSE, 0, "admin")
  OBVIOUS
<1>8. /\ u \in User /\ u.org = o /\ u.email = job[p].email /\ u.hash = job[p].password
      /\ u.role = "admin"
  BY <1>2, <1>6, <1>7 DEF NewUser, User
<1>9. Added(u)
  BY <1>1, <1>3, <1>7, <1>8, AddedFacts DEF SignupCommit
<1>10. PICK n : n = Len(users) + 1
  OBVIOUS
<1>11. n \in Nat /\ n \in DOMAIN users' /\ n \notin DOMAIN users /\ users'[n] = u
  BY <1>9, <1>10 DEF Added
<1>12. PICK j : j = [job[p] EXCEPT !.pc = "open", !.user = n]
  OBVIOUS
<1>13. j \in Job /\ j.pc = "open" /\ j.email = job[p].email /\ j.must = FALSE
  BY <1>1, <1>2, <1>11, <1>12 DEF Job
<1>14. Becomes(p, j)
  <2>1. job' = [job EXCEPT ![p] = j]
    BY <1>10, <1>12 DEF SignupCommit
  <2> QED
    BY <2>1, <1>1, <1>13, BecomesFacts
<1>15. Tells(job[p].email, job[p].password)
  BY <1>1, <1>2, TellsFacts DEF SignupCommit
<1>16. TypeOK'
  BY <1>1, <1>5, <1>9, <1>14, <1>15 DEF SignupCommit, TypeOK, Founded, Added, Becomes, Tells
<1>17. OrgsKept /\ Grows
  BY <1>5, <1>15 DEF SignupCommit, OrgsKept, Grows, Founded, Tells
<1>18. Placed'
  BY <1>6, <1>8, <1>9 DEF IInv, Placed, Added
<1>19. /\ Rows' = Rows \cup {n}
       /\ \A x \in DOMAIN orgs : Admins(x)' # {}
       /\ \A i, k \in Rows' : i # k => users'[i].org # users'[k].org \/ users'[i].email # users'[k].email
  <2>1. \A k \in Rows : users[k].org # u.org
    BY <1>6, <1>8 DEF IInv, Placed, Rows
  <2> QED
    BY <2>1, <1>9, <1>10, NewRow DEF SignupCommit
<1>20. OrganizationsWhole'
  <2>1. n \in Admins(o)'
    BY <1>8, <1>11, <1>19 DEF Admins
  <2>2. \A a, x \in DOMAIN orgs' : a # x => orgs'[a].slug # orgs'[x].slug
    <3>1. \A x \in DOMAIN orgs : orgs'[x] = orgs[x] /\ orgs[x].slug # org.slug
      BY <1>5 DEF SignupCommit, OrgsWith, Founded
    <3> QED
      BY <3>1, <1>6 DEF IInv, OrganizationsWhole
  <2> QED
    BY <2>1, <2>2, <1>6, <1>19 DEF OrganizationsWhole
<1>21. JobKnows(job[p])'
  BY <1>2, <1>13, <1>14 DEF JobKnows, Inserting, Becomes
<1>22. JobsKnow'
  BY <1>9, <1>14, <1>17, <1>21, OldJobs DEF JobsKnow, Becomes
<1>23. OneInsert'
  BY <1>13, <1>14 DEF IInv, OneInsert, Inserting, Becomes
<1>24. PasswordKnown'
  <2>1. Reaches(n)'
    BY <1>2, <1>8, <1>11, <1>15 DEF Reaches, Tells
  <2>2. \A q \in Requests : job'[q] = job[q] \/ job[q].pc \notin Telling
    BY <1>1, <1>14 DEF Becomes, Telling
  <2>3. \A i \in Rows : Reaches(i)'
    BY <2>2, <1>9, <1>17, OldReach
  <2> QED
    BY <2>1, <2>3, <1>19 DEF PasswordKnown
<1>25. DemoPasswordTold'
  BY <1>17, CuentasAssumption DEF Grows, IInv, DemoPasswordTold
<1>26. DemoStaysOpen'
  <2>1. \A q \in Requests : KeepsMust(q)
    BY <1>2, <1>14 DEF KeepsMust, Becomes
  <2>2. \A x \in OrgsWith(DemoSlug)' : orgs'[x].demo => x \in OrgsWith(DemoSlug) /\ orgs[x].demo
    BY <1>5, <1>6, <1>17 DEF OrgsKept, OrgsWith
  <2>3. gone' = gone /\ moved' = moved
    BY DEF SignupCommit
  <2>4. \A x \in OrgsWith(DemoSlug)' : orgs'[x].demo => \E i \in Rows' : Shared(x, i)'
    BY <1>9, <2>1, <2>2, <2>3, OldDemo
  <2> QED
    BY <2>4, SharedMeaning
<1> QED
  BY <1>16, <1>18, <1>20, <1>22, <1>23, <1>24, <1>25, <1>26 DEF IInv

---------------------------------------------------------------------------
(* The reset of the demo.                                                  *)

\* o is the organization of the demo, u its shared account.
ResetTo(o, u) ==
    /\ orgs' \in Seq([slug : Slugs, demo : BOOLEAN]) /\ OrgsKept
    /\ o \in DOMAIN orgs' /\ DOMAIN orgs' \subseteq DOMAIN orgs \cup {o}
    /\ orgs'[o].slug = DemoSlug
    /\ \A x \in DOMAIN orgs : x # o => orgs[x].slug # DemoSlug
    /\ u = NewUser(o, DemoEmail, DemoPassword, FALSE, now, "admin")
    /\ Added(u) /\ gone' = gone \cup Wiped(o)

LEMMA ResetFacts ==
  ASSUME IInv, Reset
  PROVE  \E o \in Nat : \E u : ResetTo(o, u)
<1>1. TypeOK /\ now \in Nat /\ DemoEmail \in Emails /\ DemoSlug \in Slugs
  BY CuentasAssumption DEF IInv, TypeOK, DemoSlug, Slugs
<1>2. \A o \in Nat : NewUser(o, DemoEmail, DemoPassword, FALSE, now, "admin") \in User
  BY <1>1 DEF NewUser, User, DemoPassword
<1>3. CASE OrgsWith(DemoSlug) = {}
  <2>1. PICK org : org = [slug |-> DemoSlug, demo |-> TRUE]
    OBVIOUS
  <2>2. org \in [slug : Slugs, demo : BOOLEAN] /\ org.slug = DemoSlug
    BY <1>1, <2>1
  <2>3. PICK o : o = Len(orgs) + 1
    OBVIOUS
  <2>4. Founded(org)
    BY <1>1, <1>3, <2>1, <2>2, FoundedFacts DEF Reset
  <2>5. o \in Nat
    BY <2>3, <2>4 DEF Founded
  <2>6. PICK u : u = NewUser(o, DemoEmail, DemoPassword, FALSE, now, "admin")
    OBVIOUS
  <2>7. users' = Append(users, u) /\ gone' = gone \cup Wiped(o)
    BY <1>3, <2>3, <2>6 DEF Reset
  <2>8. Added(u)
    BY <1>1, <1>2, <2>5, <2>6, <2>7, AddedFacts
  <2>9. \A x \in DOMAIN orgs : orgs[x].slug # DemoSlug
    BY <1>3 DEF OrgsWith
  <2>10. OrgsKept
    BY <2>4 DEF Founded, OrgsKept
  <2>11. ResetTo(o, u)
    BY <2>2, <2>3, <2>4, <2>6, <2>7, <2>8, <2>9, <2>10 DEF Founded, ResetTo
  <2> QED
    BY <2>5, <2>11
<1>4. CASE OrgsWith(DemoSlug) # {}
  <2>1. PICK o : o = CHOOSE x \in OrgsWith(DemoSlug) : TRUE
    OBVIOUS
  <2>2. o \in OrgsWith(DemoSlug)
    BY <1>4, <2>1
  <2>3. o \in DOMAIN orgs /\ orgs[o].slug = DemoSlug /\ o \in Nat
    BY <1>1, <2>2, RowType DEF OrgsWith, TypeOK
  <2>4. PICK u : u = NewUser(o, DemoEmail, DemoPassword, FALSE, now, "admin")
    OBVIOUS
  <2>5. users' = Append(users, u) /\ gone' = gone \cup Wiped(o) /\ orgs' = orgs
    BY <1>4, <2>1, <2>4 DEF Reset
  <2>6. Added(u)
    BY <1>1, <1>2, <2>3, <2>4, <2>5, AddedFacts
  <2>7. \A x \in DOMAIN orgs : x # o => orgs[x].slug # DemoSlug
    BY <2>3 DEF IInv, OrganizationsWhole
  <2>8. orgs' \in Seq([slug : Slugs, demo : BOOLEAN]) /\ OrgsKept
    BY <1>1, <2>5 DEF TypeOK, OrgsKept
  <2>9. ResetTo(o, u)
    BY <2>3, <2>4, <2>5, <2>6, <2>7, <2>8 DEF ResetTo
  <2> QED
    BY <2>3, <2>9
<1> QED
  BY <1>3, <1>4

\* All the accounts of the demo go and the seeded one is open; those of the others
\* are as they were.
LEMMA ResetStep ==
  ASSUME IInv, Reset, Keep, now' \in Nat
  PROVE  IInv'
<1>1. PICK o \in Nat : \E u : ResetTo(o, u)
  BY ResetFacts
<1>2. PICK u : ResetTo(o, u)
  BY <1>1
<1>3. /\ OrgsKept /\ Added(u) /\ gone' = gone \cup Wiped(o)
      /\ o \in DOMAIN orgs' /\ DOMAIN orgs' \subseteq DOMAIN orgs \cup {o}
      /\ orgs'[o].slug = DemoSlug
      /\ \A x \in DOMAIN orgs : x # o => orgs[x].slug # DemoSlug
  BY <1>2 DEF ResetTo
<1>4. /\ u.org = o /\ u.email = DemoEmail /\ u.hash = DemoPassword /\ u.must = FALSE
      /\ u.role = "admin"
  BY <1>2 DEF ResetTo, NewUser
<1>5. PICK n : n = Len(users) + 1
  OBVIOUS
<1>6. n \in Nat /\ n \in DOMAIN users' /\ n \notin DOMAIN users /\ users'[n] = u
  BY <1>3, <1>5 DEF Added
<1>7. TypeOK
  BY DEF IInv
<1>8. gone \subseteq DOMAIN users /\ Wiped(o) \subseteq DOMAIN users
  BY <1>7 DEF TypeOK, Wiped, Rows
<1>9. UNCHANGED <<session, job, told, stranded, moved, passwords>>
  BY DEF Keep
<1>10. Grows
  BY <1>9 DEF Grows
<1>11. TypeOK'
  BY <1>2, <1>3, <1>7, <1>8, <1>9 DEF TypeOK, ResetTo, Added
<1>12. Placed'
  BY <1>3, <1>4, <1>6 DEF IInv, Placed, OrgsKept, Added
<1>13. /\ Rows' = (Rows \ Wiped(o)) \cup {n}
       /\ \A i \in Rows \ Wiped(o) : users'[i] = users[i] /\ users[i].org # o
  BY <1>3, <1>5, <1>6, <1>8 DEF Rows, Wiped, Added
<1>14. OrganizationsWhole'
  <2>1. \A x \in DOMAIN orgs' : Admins(x)' # {}
    <3>1. n \in Admins(o)'
      BY <1>4, <1>6, <1>13 DEF Admins
    <3>2. ASSUME NEW x \in DOMAIN orgs, x # o
          PROVE  Admins(x)' # {}
      <4>1. PICK i \in Rows : users[i].org = x /\ users[i].role = "admin"
        BY DEF IInv, OrganizationsWhole, Admins
      <4>2. i \in Rows' /\ users'[i].org = x /\ users'[i].role = "admin"
        BY <1>13, <3>2, <4>1 DEF Wiped
      <4> QED
        BY <4>2 DEF Admins
    <3> QED
      BY <1>3, <3>1, <3>2
  <2>2. \A a, x \in DOMAIN orgs' : a # x => orgs'[a].slug # orgs'[x].slug
    BY <1>3 DEF IInv, OrganizationsWhole, OrgsKept
  <2>3. \A i, k \in Rows' : i # k => users'[i].org # users'[k].org \/ users'[i].email # users'[k].email
    BY <1>4, <1>6, <1>13 DEF IInv, OrganizationsWhole
  <2> QED
    BY <2>1, <2>2, <2>3 DEF OrganizationsWhole
<1>15. JobsKnow'
  <2>1. \A p \in Requests : job'[p] = job[p]
    BY <1>9
  <2> QED
    BY <2>1, <1>3, <1>10, OldJobs DEF JobsKnow
<1>16. OneInsert'
  BY <1>9 DEF IInv, OneInsert
<1>17. DemoPasswordTold'
  BY <1>9 DEF IInv, DemoPasswordTold
<1>18. PasswordKnown'
  <2>1. Reaches(n)'
    BY <1>4, <1>6, <1>17 DEF Reaches, DemoPasswordTold, DemoPassword
  <2>2. \A p \in Requests : job'[p] = job[p] \/ job[p].pc \notin Telling
    BY <1>9
  <2>3. \A i \in Rows : Reaches(i)'
    BY <2>2, <1>3, <1>10, OldReach
  <2> QED
    BY <2>1, <2>3, <1>13 DEF PasswordKnown
<1>19. DemoStaysOpen'
  <2>1. \A x \in OrgsWith(DemoSlug)' : x = o
    BY <1>3 DEF OrgsWith, OrgsKept
  <2>2. n \in Rows' /\ Shared(o, n)'
    BY <1>4, <1>6, <1>13 DEF Shared, DemoPassword
  <2> QED
    BY <2>1, <2>2, SharedMeaning
<1> QED
  BY <1>11, <1>12, <1>14, <1>15, <1>16, <1>17, <1>18, <1>19 DEF IInv

---------------------------------------------------------------------------
(* The invariant.                                                          *)

LEMMA InitIInv ==
  ASSUME Init
  PROVE  IInv
<1>1. <<>> \in Seq(User) /\ <<>> \in Seq([slug : Slugs, demo : BOOLEAN]) /\ DOMAIN <<>> = {}
  BY EmptySeq
<1>2. NoJob \in Job /\ NoSession \in [user : Nat, until : Nat] /\ DemoPassword \in Nat
  BY DEF NoJob, Job, NoSession, DemoPassword
<1>3. TypeOK
  BY <1>1, <1>2 DEF Init, TypeOK
<1>4. users = <<>> /\ orgs = <<>> /\ Rows = {}
  BY <1>1 DEF Init, Rows
<1>5. Placed /\ OrganizationsWhole /\ PasswordKnown
  BY <1>1, <1>4 DEF Placed, OrganizationsWhole, PasswordKnown
<1>6. DemoStaysOpen
  BY <1>1, <1>4 DEF DemoStaysOpen, OrgsWith
<1>7. \A p \in Requests : job[p].pc = "idle" /\ job[p].must = FALSE
  BY DEF Init, NoJob
<1>8. JobsKnow /\ OneInsert
  BY <1>7 DEF JobsKnow, JobKnows, OneInsert, Inserting
<1>9. DemoPasswordTold
  BY CuentasAssumption DEF Init, DemoPasswordTold
<1> QED
  BY <1>3, <1>5, <1>6, <1>8, <1>9 DEF IInv

LEMMA NextIInv ==
  ASSUME IInv, [Next]_vars
  PROVE  IInv'
<1>1. CASE UNCHANGED vars
  <2>1. SamePeople /\ now' \in Nat /\ session' \in [Browsers -> [user : Nat, until : Nat]]
    BY <1>1, UnchangedPeople DEF IInv, TypeOK, vars
  <2> QED
    BY <1>1, <2>1, QuietStep DEF vars
<1>2. ASSUME NEW b \in Browsers,
             \/ Visit(b) \/ Logout(b) \/ DemoSession(b)
             \/ \E e \in Emails : \E pw \in told[e] : Login(b, e, pw)
      PROVE  IInv'
  BY <1>2, SessionsStep
<1>3. ASSUME NEW p \in Requests, NEW name \in Names, NEW e \in Emails, SignupSlug(p, name, e)
      PROVE  IInv'
  BY <1>3, SignupSlugStep
<1>4. ASSUME NEW p \in Requests, NEW b \in Browsers,
             \/ SignupOpen(p, b)
             \/ \E e \in Emails, generated \in BOOLEAN : InsertUser(p, b, e, generated)
             \/ \E i \in Rows : ResetRead(p, b, i, "reset") \/ ResetRead(p, b, i, "invite")
             \/ \E pw \in 1..(passwords + 1) : ChangeCheck(p, b, pw)
      PROVE  IInv'
  BY <1>4, SignupOpenStep, InsertUserStep, ResetReadStep, ChangeCheckStep
<1>5. ASSUME NEW p \in Requests,
             \/ SignupCommit(p) \/ InsertMember(p)
             \/ ResetWrite(p) \/ Answer(p) \/ ChangeWrite(p) \/ Stop(p)
      PROVE  IInv'
  BY <1>5, SignupCommitStep, InsertMemberStep, ResetWriteStep, AnswerStep, StopStep
<1>6. CASE EnsureSeeded \/ Nightly
  <2>1. now' \in Nat
    BY <1>6 DEF EnsureSeeded, Nightly, IInv, TypeOK
  <2> QED
    BY <1>6, <2>1, ResetStep DEF EnsureSeeded, Nightly
<1>7. CASE Tick
  BY <1>7, TickStep
<1>8. ASSUME NEW b \in Browsers, NEW i \in Rows, NEW e \in Emails, EditAddress(b, i, e)
      PROVE  IInv'
  BY <1>8, EditAddressStep
<1> QED
  BY <1>1, <1>2, <1>3, <1>4, <1>5, <1>6, <1>7, <1>8 DEF Next

LEMMA Invariance == Spec => []IInv
<1>1. Init => IInv
  BY InitIInv
<1>2. IInv /\ [Next]_vars => IInv'
  BY NextIInv
<1> QED
  BY <1>1, <1>2, PTL DEF Spec

---------------------------------------------------------------------------
(* What a step does to the accounts of others.                             *)

\* Row by row, what RealAccountsKept says.
AccountKept(i) ==
    /\ i \in gone' => users[i].org \in OrgsWith(DemoSlug)
    /\ i \notin gone' /\ users'[i].hash # users[i].hash =>
          \E p \in Requests : job[p].org = users[i].org /\ job[p].pc # job'[p].pc

LEMMA SameAccounts ==
  ASSUME TypeOK, gone' = gone, \A i \in DOMAIN users : users'[i].hash = users[i].hash
  PROVE  \A i \in Rows : AccountKept(i)
  BY DEF Rows, AccountKept

LEMMA EnterKeeps ==
  ASSUME TypeOK, NEW b \in Browsers, NEW i \in Rows, NEW until \in Nat,
         Enter(b, i, until), orgs' = orgs, gone' = gone, moved' = moved
  PROVE  \A k \in Rows : AccountKept(k)
<1>1. SamePeople
  BY EnterFacts
<1> QED
  BY <1>1, SameAccounts DEF SamePeople

LEMMA AppendKeeps ==
  ASSUME TypeOK, NEW u, users' = Append(users, u), u \in User, gone' = gone
  PROVE  \A i \in Rows : AccountKept(i)
<1>1. Added(u)
  BY AddedFacts
<1> QED
  BY <1>1, SameAccounts DEF Added

LEMMA InsertMemberKeeps ==
  ASSUME IInv, NEW p \in Requests, InsertMember(p)
  PROVE  \A i \in Rows : AccountKept(i)
<1>1. \A i \in DOMAIN users : users'[i].hash = users[i].hash
  <2>1. PICK r \in {"admin", "seller"} : users' = [users EXCEPT ![job[p].user].role = r]
    BY DEF InsertMember
  <2>2. \A i \in DOMAIN users : users[i] \in User
    BY UserFacts DEF IInv
  <2> QED
    BY <2>1, <2>2 DEF User
<1> QED
  BY <1>1, SameAccounts DEF IInv, InsertMember

\* The password of somebody's row is written by a request of her organization, which
\* goes on to another step.
LEMMA SetUserPasswordKeeps ==
  ASSUME TypeOK, NEW p \in Requests, NEW j \in Job, SetUserPassword(p, j), job[p].pc # j.pc
  PROVE  \A i \in Rows : AccountKept(i)
<1>1. job'[p].pc # job[p].pc
  BY DEF SetUserPassword, TypeOK
<1>2. SUFFICES ASSUME NEW i \in Rows PROVE AccountKept(i)
  OBVIOUS
<1>3. i \in DOMAIN users /\ i \notin gone /\ users[i] \in User
  BY UserFacts DEF Rows
<1>4. CASE users' = users
  BY <1>3, <1>4 DEF SetUserPassword, AccountKept
<1>5. CASE /\ job[p].user \in Rows /\ users[job[p].user].org = job[p].org
           /\ users' = [users EXCEPT ![job[p].user].hash = job[p].password,
                                     ![job[p].user].must = job[p].must]
  <2>1. CASE i = job[p].user
    BY <1>1, <1>3, <1>5, <2>1 DEF SetUserPassword, AccountKept
  <2>2. CASE i # job[p].user
    <3>1. users'[i] = users[i]
      BY <1>3, <1>5, <2>2
    <3> QED
      BY <3>1, <1>3 DEF SetUserPassword, AccountKept
  <2> QED
    BY <2>1, <2>2
<1> QED
  BY <1>4, <1>5 DEF SetUserPassword

LEMMA PasswordStepKeeps ==
  ASSUME IInv, NEW p \in Requests, ResetWrite(p) \/ ChangeWrite(p)
  PROVE  \A i \in Rows : AccountKept(i)
<1>1. TypeOK /\ job[p] \in Job
  BY DEF IInv, TypeOK
<1>2. CASE ResetWrite(p)
  <2>1. PICK pc \in {"answer", "refuse"} :
           /\ SetUserPassword(p, [job[p] EXCEPT !.pc = pc])
           /\ job[p].pc \in {"reset", "invite"}
    BY <1>2 DEF ResetWrite
  <2>2. PICK j : j = [job[p] EXCEPT !.pc = pc]
    OBVIOUS
  <2>3. j \in Job /\ j.pc = pc
    BY <1>1, <2>2 DEF Job
  <2> QED
    BY <1>1, <2>1, <2>2, <2>3, SetUserPasswordKeeps
<1>3. CASE ChangeWrite(p)
  <2>1. PICK j : j = Ended(job[p])
    OBVIOUS
  <2>2. j \in Job /\ j.pc = "done"
    BY <1>1, <2>1, JobFacts
  <2> QED
    BY <1>1, <1>3, <2>1, <2>2, SetUserPasswordKeeps DEF ChangeWrite
<1> QED
  BY <1>2, <1>3

\* The wipe is of the organization that has the slug of the demo; one that is founded
\* by the reset has nobody to lose.
LEMMA ResetKeeps ==
  ASSUME IInv, Reset
  PROVE  \A i \in Rows : AccountKept(i)
<1>1. PICK o \in Nat : \E u : ResetTo(o, u)
  BY ResetFacts
<1>2. PICK u : ResetTo(o, u)
  BY <1>1
<1>3. SUFFICES ASSUME NEW i \in Rows PROVE AccountKept(i)
  OBVIOUS
<1>4. i \in DOMAIN users /\ i \notin gone /\ users'[i] = users[i] /\ users[i].org \in DOMAIN orgs
  BY <1>2 DEF Rows, ResetTo, Added, IInv, Placed
<1>5. i \in gone' => users[i].org = o
  BY <1>2, <1>4 DEF ResetTo, Wiped
<1>6. i \in gone' => users[i].org \in OrgsWith(DemoSlug)
  BY <1>2, <1>4, <1>5 DEF ResetTo, OrgsKept, OrgsWith
<1> QED
  BY <1>4, <1>6 DEF AccountKept

LEMMA NextKeeps ==
  ASSUME IInv, Next
  PROVE  \A i \in Rows : AccountKept(i)
<1>1. TypeOK /\ now \in Nat /\ passwords \in Nat
  BY DEF IInv, TypeOK
<1>2. ASSUME UNCHANGED <<users, gone>>
      PROVE  \A i \in Rows : AccountKept(i)
  BY <1>1, <1>2, SameAccounts
<1>3. ASSUME NEW b \in Browsers, Visit(b) \/ Logout(b) \/ DemoSession(b)
      PROVE  \A i \in Rows : AccountKept(i)
  <2>1. CASE Visit(b) \/ Logout(b)
    BY <1>2, <2>1 DEF Visit, Logout
  <2>2. CASE DemoSession(b)
    <3>1. now + Lifetime \in Nat
      BY <1>1, CuentasAssumption
    <3> QED
      BY <1>1, <2>2, <3>1, EnterKeeps DEF DemoSession
  <2> QED
    BY <1>3, <2>1, <2>2
<1>4. ASSUME NEW b \in Browsers, NEW e \in Emails, NEW pw \in told[e], Login(b, e, pw)
      PROVE  \A i \in Rows : AccountKept(i)
  <2>1. session[b].until \in Nat
    BY <1>1, SessionFacts
  <2>2. PICK i \in Rows : Enter(b, i, session[b].until)
    BY <1>4 DEF Login
  <2> QED
    BY <1>1, <1>4, <2>1, <2>2, EnterKeeps DEF Login
<1>5. ASSUME NEW p \in Requests, NEW name \in Names, NEW e \in Emails, SignupSlug(p, name, e)
      PROVE  \A i \in Rows : AccountKept(i)
  BY <1>2, <1>5 DEF SignupSlug
<1>6. ASSUME NEW p \in Requests, NEW b \in Browsers, SignupOpen(p, b)
      PROVE  \A i \in Rows : AccountKept(i)
  <2>1. session[b].until \in Nat
    BY <1>1, SessionFacts
  <2> QED
    BY <1>1, <1>6, <2>1, EnterKeeps DEF SignupOpen
<1>7. ASSUME NEW p \in Requests, NEW b \in Browsers, NEW e \in Emails,
             NEW generated \in BOOLEAN, InsertUser(p, b, e, generated)
      PROVE  \A i \in Rows : AccountKept(i)
  <2>1. PICK a \in Direction(b) :
           /\ users' = Append(users, NewUser(users[a].org, e, passwords + 1, TRUE, 0, "none"))
           /\ gone' = gone
    BY <1>7 DEF InsertUser
  <2>2. users[a].org \in Nat
    BY <1>1, UserFacts DEF Direction, CurrentUser, Rows
  <2>3. NewUser(users[a].org, e, passwords + 1, TRUE, 0, "none") \in User
    BY <1>1, <2>2 DEF NewUser, User
  <2> QED
    BY <1>1, <2>1, <2>3, AppendKeeps
<1>8. ASSUME NEW p \in Requests, NEW b \in Browsers,
             \/ \E i \in Rows : ResetRead(p, b, i, "reset") \/ ResetRead(p, b, i, "invite")
             \/ \E pw \in 1..(passwords + 1) : ChangeCheck(p, b, pw)
      PROVE  \A i \in Rows : AccountKept(i)
  BY <1>2, <1>8 DEF ResetRead, ChangeCheck
<1>9. ASSUME NEW p \in Requests, SignupCommit(p)
      PROVE  \A i \in Rows : AccountKept(i)
  <2>1. job[p] \in Job /\ JobKnows(job[p]) /\ job[p].pc = "signup"
    BY <1>9 DEF IInv, TypeOK, JobsKnow, SignupCommit
  <2>2. PICK u : u = NewUser(Len(orgs) + 1, job[p].email, job[p].password, FALSE, 0, "admin")
    OBVIOUS
  <2>3. Len(orgs) + 1 \in Nat
    BY <1>1, LenProperties DEF TypeOK
  <2>4. u \in User
    BY <2>1, <2>2, <2>3 DEF NewUser, User, JobKnows, Job
  <2>5. users' = Append(users, u) /\ gone' = gone
    BY <1>9, <2>2 DEF SignupCommit
  <2> QED
    BY <1>1, <2>4, <2>5, AppendKeeps
<1>10. ASSUME NEW p \in Requests,
              InsertMember(p) \/ ResetWrite(p) \/ Answer(p) \/ ChangeWrite(p) \/ Stop(p)
       PROVE  \A i \in Rows : AccountKept(i)
  BY <1>2, <1>10, InsertMemberKeeps, PasswordStepKeeps DEF Answer, Stop
<1>11. CASE EnsureSeeded \/ Nightly
  BY <1>11, ResetKeeps DEF EnsureSeeded, Nightly
<1>12. CASE Tick
  BY <1>2, <1>12 DEF Tick
<1>13. ASSUME NEW b \in Browsers, NEW i \in Rows, NEW e \in Emails, EditAddress(b, i, e)
       PROVE  \A k \in Rows : AccountKept(k)
  <2>1. \A k \in DOMAIN users : users[k] \in User
    BY <1>1, UserFacts
  <2>2. users' = [users EXCEPT ![i].email = e] /\ gone' = gone
    BY <1>13 DEF EditAddress
  <2>3. \A k \in DOMAIN users : users'[k].hash = users[k].hash
    BY <2>1, <2>2 DEF User
  <2> QED
    BY <1>1, <2>2, <2>3, SameAccounts
<1> QED
  BY <1>3, <1>4, <1>5, <1>6, <1>7, <1>8, <1>9, <1>10, <1>11, <1>12, <1>13 DEF Next

---------------------------------------------------------------------------
(* The theorems.                                                           *)

\* The tables, the sessions and the requests keep their shape, among it that the slug
\* a sign-up carries is one that Slugify and SlugExists found.
THEOREM CuentasTypeCorrect == Spec => []TypeOK
<1>1. IInv => TypeOK
  BY DEF IInv
<1> QED
  BY <1>1, Invariance, PTL

\* Signup: no two organizations share a slug, each has somebody who directs it, and an
\* address is there once in an organization, however the sign-ups, the people added and
\* the resets of the demo meet, and wherever each of them stops.
THEOREM OrganizationsStayWhole == Spec => []OrganizationsWhole
<1>1. IInv => OrganizationsWhole
  BY DEF IInv
<1> QED
  BY <1>1, Invariance, PTL

\* ResetPassword, CreateUser and ChangePassword: the password of an account is known to
\* whoever reads its address, or a request is about to tell it, or one that stopped had
\* written it; in any order of any number of resets and changes of the same account.
THEOREM PasswordsReach == Spec => []PasswordReachesSomeone
<1>1. IInv => PasswordReachesSomeone
  BY DEF IInv, PasswordKnown, Reaches, PasswordReachesSomeone
<1> QED
  BY <1>1, Invariance, PTL

\* Reset, ChangePassword, ResetPassword and UpdateUser: the demo has its shared account,
\* with the address and the password by which guests enter, unless a guest has given it
\* another address or asked for a reset of its password; nothing else closes it.
THEOREM DemoIsOpen == Spec => []DemoStaysOpen
<1>1. IInv => DemoStaysOpen
  BY DEF IInv
<1> QED
  BY <1>1, Invariance, PTL

\* Reset and SetUserPassword: no step deletes an account but that of the organization
\* with the slug of the demo, nor changes a password but for a request of the same
\* organization.
THEOREM AccountsAreKept == Spec => RealAccountsKept
<1>1. IInv /\ [Next]_vars => [\A i \in Rows : AccountKept(i)]_vars
  BY NextKeeps
<1>2. Spec => [][\A i \in Rows : AccountKept(i)]_vars
  BY <1>1, Invariance, PTL DEF Spec
<1> QED
  BY <1>2 DEF RealAccountsKept, AccountKept
=============================================================================
