-------------------------------- MODULE Cuentas --------------------------------
(***************************************************************************)
(* Accounts ("cuentas"): organizations and their sign-up, people and their *)
(* passwords, sessions, and the demo organization that is wiped and seeded *)
(* again every night.                                                      *)
(*                                                                         *)
(* A request that writes takes a step per statement that others can see    *)
(* between, and may stop at any of them.  A session is the data behind the *)
(* cookie of one browser.  A password is a number, never handed out twice  *)
(* by the server; "told" is who has it.  A person may be given another     *)
(* address; the change of her role is modelled in Temporadas and Libros.   *)
(***************************************************************************)
EXTENDS Integers, FiniteSets, FiniteSetsExt, Sequences, SequencesExt

CONSTANTS
    Browsers, Emails,
    Names,         \* what an organization may be called, as its base slug
    DemoName, DemoEmail,
    Requests,      \* bound: requests that write, each serves once
    MaxOrgs,       \* bound: organizations
    MaxTime,       \* bound: the clock
    MaxMoves,      \* bound: rows that are given another address
    Lifetime       \* DemoSessionLifetime, 6 hours in the program

ASSUME CuentasAssumption ==
    /\ DemoEmail \in Emails /\ DemoName \in Names
    /\ MaxOrgs \in Nat /\ MaxTime \in Nat /\ MaxMoves \in Nat /\ Lifetime \in Nat

VARIABLES
    orgs,        \* orgs[o]: slug and is_demo of its row in organizations
    users,       \* users[i]: the row with id i in users
    gone,        \* ids of rows that were deleted
    session,     \* session[b]: user and demo_until, 0 for none
    now,
    job,         \* job[p]: where the request is and what it has read
    told,        \* told[e]: the passwords whoever reads that address has
    stranded,    \* users whose password was written and told to nobody
    moved,       \* history: rows that were given another address
    passwords    \* passwords handed out so far

vars == <<orgs, users, gone, session, now, job, told, stranded, moved, passwords>>

DemoSlug == <<DemoName, 1>>
DemoPassword == 0
NoSession == [user |-> 0, until |-> 0]
NoJob == [pc |-> "idle", org |-> 0, user |-> 0, email |-> "none",
          slug |-> <<>>, password |-> 0, must |-> FALSE, login |-> 0]

\* What is remembered of a request that has ended: whose password it reset.
Ended(j) == [NoJob EXCEPT !.pc = "done", !.user = IF j.must THEN j.user ELSE 0, !.must = j.must]

Rows == DOMAIN users \ gone
Account(o, e) == {i \in Rows : users[i].org = o /\ users[i].email = e}
OrgsWith(slug) == {o \in DOMAIN orgs : orgs[o].slug = slug}

\* GetUserWithMembership: the role is that of the membership of the season in
\* course, and empty without one.
Admins(o) == {i \in Rows : users[i].org = o /\ users[i].role = "admin"}

NewUser(o, e, pw, must, login, role) ==
    [org |-> o, email |-> e, hash |-> pw, must |-> must, login |-> login, role |-> role]

Init ==
    /\ orgs = <<>> /\ users = <<>> /\ gone = {}
    /\ session = [b \in Browsers |-> NoSession]
    /\ now = 1
    /\ job = [p \in Requests |-> NoJob]
    /\ told = [e \in Emails |-> IF e = DemoEmail THEN {DemoPassword} ELSE {}]
    /\ stranded = {} /\ moved = {}
    /\ passwords = 0

---------------------------------------------------------------------------
(* Sessions.                                                               *)

\* demoExpired
Expired(b) == session[b].until # 0 /\ now > session[b].until

\* CurrentUser: whose request it is; nobody's if the row was deleted.
CurrentUser(b) == {i \in Rows : i = session[b].user /\ ~Expired(b)}

\* RequireAuth, RequirePasswordChanged and RequireRole(admin).
Direction(b) == {i \in CurrentUser(b) : ~users[i].must /\ users[i].role = "admin"}

\* CurrentUser destroys the session that has expired or whose user is gone.
Visit(b) ==
    /\ session[b] # NoSession /\ CurrentUser(b) = {}
    /\ session' = [session EXCEPT ![b] = NoSession]
    /\ UNCHANGED <<orgs, users, gone, now, job, told, stranded, moved, passwords>>

\* Logout destroys the session with all its data.
Logout(b) ==
    /\ CurrentUser(b) # {}
    /\ session' = [session EXCEPT ![b] = NoSession]
    /\ UNCHANGED <<orgs, users, gone, now, job, told, stranded, moved, passwords>>

\* RenewToken keeps the data of the session; only the user is put.  TouchUserLogin
\* may fail, which does not spoil the login.
Enter(b, i, until) ==
    /\ session' = [session EXCEPT ![b] = [user |-> i, until |-> until]]
    /\ users' \in {users, [users EXCEPT ![i].login = now]}

\* Login: of the accounts with that address whose password it is, the one used last.
Login(b, e, pw) ==
    LET matching == {i \in Rows : users[i].email = e /\ users[i].hash = pw}
        First(i) == \A x \in matching : \/ users[x].login < users[i].login
                                        \/ users[x].login = users[i].login /\ i <= x
    IN /\ pw \in told[e]
       /\ \E i \in matching : First(i) /\ Enter(b, i, session[b].until)
       /\ UNCHANGED <<orgs, gone, now, job, told, stranded, moved, passwords>>

\* handleDemoSession and OpenDemoSession: only of an organization that is the demo.
DemoSession(b) ==
    /\ \E o \in OrgsWith(DemoSlug), i \in Rows :
          /\ orgs[o].demo /\ i \in Account(o, DemoEmail)
          /\ Enter(b, i, now + Lifetime)
    /\ UNCHANGED <<orgs, gone, now, job, told, stranded, moved, passwords>>

---------------------------------------------------------------------------
(* Sign-up.                                                                *)

\* Slugify and the loop of SlugExists: the first suffix that is free.
FreeSlug(name) == <<name, Min({k \in 1..(MaxOrgs + 1) : OrgsWith(<<name, k>>) = {}})>>

SignupSlug(p, name, e) ==
    /\ job[p].pc = "idle" /\ Len(orgs) < MaxOrgs
    /\ passwords' = passwords + 1
    /\ job' = [job EXCEPT ![p] = [NoJob EXCEPT !.pc = "signup", !.email = e,
                                               !.slug = FreeSlug(name), !.password = passwords + 1]]
    /\ UNCHANGED <<orgs, users, gone, session, now, told, stranded, moved>>

\* Mutant: the slug is not unique.
SignupCommit_Repeated(p) ==
    LET j == job[p]  o == Len(orgs) + 1 IN
    /\ j.pc = "signup" /\ Len(orgs) < MaxOrgs
    /\ orgs' = Append(orgs, [slug |-> j.slug, demo |-> FALSE])
    /\ users' = Append(users, NewUser(o, j.email, j.password, FALSE, 0, "admin"))
    /\ told' = [told EXCEPT ![j.email] = told[j.email] \cup {j.password}]
    /\ job' = [job EXCEPT ![p].pc = "open", ![p].user = Len(users) + 1]
    /\ UNCHANGED <<gone, session, now, stranded, moved, passwords>>

\* CreateOrganization, CreateUser, CreateSeason and UpsertMembership in one
\* transaction.  The slug is unique: who comes second is answered 500.
SignupCommit(p) ==
    LET j == job[p]  o == Len(orgs) + 1 IN
    /\ j.pc = "signup" /\ Len(orgs) < MaxOrgs
    /\ OrgsWith(j.slug) = {}
    /\ orgs' = Append(orgs, [slug |-> j.slug, demo |-> FALSE])
    /\ users' = Append(users, NewUser(o, j.email, j.password, FALSE, 0, "admin"))
    /\ told' = [told EXCEPT ![j.email] = told[j.email] \cup {j.password}]
    /\ job' = [job EXCEPT ![p].pc = "open", ![p].user = Len(users) + 1]
    /\ UNCHANGED <<gone, session, now, stranded, moved, passwords>>

\* OpenSession, after the commit, in the browser that asked.
SignupOpen(p, b) ==
    LET j == job[p] IN
    /\ j.pc = "open" /\ j.user \in Rows
    /\ Enter(b, j.user, session[b].until)
    /\ job' = [job EXCEPT ![p] = Ended(job[p])]
    /\ UNCHANGED <<orgs, gone, now, told, stranded, moved, passwords>>

---------------------------------------------------------------------------
(* People.                                                                 *)

\* CreateUser: the address is unique in the organization.  A password the direction
\* chooses is told by the direction, and neither answered nor mailed.
InsertUser(p, b, e, generated) ==
    \E a \in Direction(b) :
        LET o == users[a].org IN
        /\ job[p].pc = "idle" /\ Account(o, e) = {}
        /\ passwords' = passwords + 1
        /\ users' = Append(users, NewUser(o, e, passwords + 1, TRUE, 0, "none"))
        /\ told' = IF generated THEN told ELSE [told EXCEPT ![e] = told[e] \cup {passwords + 1}]
        /\ job' = [job EXCEPT ![p] = [NoJob EXCEPT !.pc = IF generated THEN "member" ELSE "chosen",
                        !.org = o, !.user = Len(users) + 1, !.email = e, !.password = passwords + 1]]
        /\ UNCHANGED <<orgs, gone, session, now, stranded, moved>>

\* UpsertMembership is another statement; without it she has no role.
InsertMember(p) ==
    /\ job[p].pc \in {"member", "chosen"} /\ job[p].user \in Rows
    /\ \E r \in {"admin", "seller"} : users' = [users EXCEPT ![job[p].user].role = r]
    /\ job' = [job EXCEPT ![p] = IF @.pc = "member" THEN [@ EXCEPT !.pc = "answer"] ELSE Ended(@)]
    /\ UNCHANGED <<orgs, gone, session, now, told, stranded, moved, passwords>>

\* UpdateUser: another address, that nobody of the organization has.  She takes along
\* the passwords she knows.  The demo does not forbid it.
EditAddress(b, i, e) ==
    \E a \in Direction(b) :
        /\ users[i].org = users[a].org /\ Account(users[i].org, e) = {}
        /\ users' = [users EXCEPT ![i].email = e]
        /\ told' = [told EXCEPT ![e] = told[e] \cup told[users[i].email]]
        /\ moved' = moved \cup {i} /\ Cardinality(moved') <= MaxMoves
        /\ UNCHANGED <<orgs, gone, session, now, job, stranded, passwords>>

\* ResetPassword: the row is read; one of another organization is not found.
ResetRead(p, b, i, pc) ==
    \E a \in Direction(b) :
        /\ job[p].pc = "idle" /\ i \in Rows /\ users[i].org = users[a].org
        /\ passwords' = passwords + 1
        /\ job' = [job EXCEPT ![p] = [NoJob EXCEPT !.pc = pc, !.org = users[a].org,
                        !.user = i, !.email = users[i].email, !.login = users[i].login,
                        !.must = TRUE, !.password = passwords + 1]]
        /\ UNCHANGED <<orgs, users, gone, session, now, told, stranded, moved>>

\* SetUserPassword, of a row that may be gone by now.  The password is nobody's
\* until the answer.
SetUserPassword(p, next) ==
    LET j == job[p] IN
    /\ users' = IF j.user \in Rows /\ users[j.user].org = j.org
                THEN [users EXCEPT ![j.user].hash = j.password, ![j.user].must = j.must]
                ELSE users
    /\ job' = [job EXCEPT ![p] = next]
    /\ UNCHANGED <<orgs, gone, session, now, told, stranded, moved, passwords>>

\* handleResendInvite resets before it looks whether the invitation is pending.
ResetWrite(p) ==
    \/ job[p].pc = "reset" /\ SetUserPassword(p, [job[p] EXCEPT !.pc = "answer"])
    \/ job[p].pc = "invite" /\ job[p].login = 0 /\ SetUserPassword(p, [job[p] EXCEPT !.pc = "answer"])
    \/ job[p].pc = "invite" /\ job[p].login # 0 /\ SetUserPassword(p, [job[p] EXCEPT !.pc = "refuse"])

\* Mutant: the answer does not carry the password and the mail may fail.
Answer_MailOnly(p) ==
    LET j == job[p] IN
    /\ j.pc = "answer"
    /\ told' \in {told, [told EXCEPT ![j.email] = told[j.email] \cup {j.password}]}
    /\ job' = [job EXCEPT ![p] = Ended(job[p])]
    /\ UNCHANGED <<orgs, users, gone, session, now, stranded, moved, passwords>>

\* The mail goes to the address that was read; the answer carries the password to the
\* direction "para que el admin se la pase a la persona".
Answer(p) ==
    LET j == job[p] IN
    /\ j.pc = "answer"
    /\ told' = [e \in Emails |-> told[e] \cup
          IF e \in {j.email, users[j.user].email} THEN {j.password} ELSE {}]
    /\ job' = [job EXCEPT ![p] = Ended(job[p])]
    /\ UNCHANGED <<orgs, users, gone, session, now, stranded, moved, passwords>>

\* Mutant: in the demo too.
ChangeCheck_Demo(p, b, pw) ==
    \E i \in CurrentUser(b) :
        /\ job[p].pc = "idle"
        /\ users[i].hash \in told[users[i].email]
        /\ pw \in told[users[i].email] \cup {passwords + 1} /\ pw # users[i].hash
        /\ passwords' = IF pw > passwords THEN pw ELSE passwords
        /\ told' = [told EXCEPT ![users[i].email] = told[users[i].email] \cup {pw}]
        /\ job' = [job EXCEPT ![p] = [NoJob EXCEPT !.pc = "change", !.org = users[i].org,
                        !.user = i, !.email = users[i].email, !.password = pw]]
        /\ UNCHANGED <<orgs, users, gone, session, now, stranded, moved>>

\* ChangePassword: not in the demo; the current one is asked for and the new one is
\* another.
ChangeCheck(p, b, pw) ==
    \E i \in CurrentUser(b) :
        /\ job[p].pc = "idle" /\ ~orgs[users[i].org].demo
        /\ users[i].hash \in told[users[i].email]
        /\ pw \in told[users[i].email] \cup {passwords + 1} /\ pw # users[i].hash
        /\ passwords' = IF pw > passwords THEN pw ELSE passwords
        /\ told' = [told EXCEPT ![users[i].email] = told[users[i].email] \cup {pw}]
        /\ job' = [job EXCEPT ![p] = [NoJob EXCEPT !.pc = "change", !.org = users[i].org,
                        !.user = i, !.email = users[i].email, !.password = pw]]
        /\ UNCHANGED <<orgs, users, gone, session, now, stranded, moved>>

\* Its session goes on with another token, and so do the other ones of that user.
ChangeWrite(p) == job[p].pc = "change" /\ SetUserPassword(p, Ended(job[p]))

\* The answer of a refused resend, an error, or the end of the process.  What was
\* written of the password stays.
Stop(p) ==
    LET j == job[p] IN
    /\ j.pc \notin {"idle", "done"}
    /\ stranded' = IF j.pc \in {"member", "answer", "refuse"} THEN stranded \cup {j.user} ELSE stranded
    /\ job' = [job EXCEPT ![p] = Ended(job[p])]
    /\ UNCHANGED <<orgs, users, gone, session, now, told, moved, passwords>>

---------------------------------------------------------------------------
(* The demo.                                                               *)

\* Mutant: the wipe does not look at the organization.
Wiped_All(o) == Rows

Wiped(o) == {i \in Rows : users[i].org = o}

\* Reset: in one transaction the organization with the slug of the demo, whichever
\* it is, loses its people, with all that hangs from them, and gets the seeded ones.
Reset ==
    /\ Len(orgs) < MaxOrgs \/ OrgsWith(DemoSlug) # {}
    /\ LET new == OrgsWith(DemoSlug) = {}
           o == IF new THEN Len(orgs) + 1 ELSE CHOOSE x \in OrgsWith(DemoSlug) : TRUE
       IN /\ orgs' = IF new THEN Append(orgs, [slug |-> DemoSlug, demo |-> TRUE]) ELSE orgs
          /\ gone' = gone \cup Wiped(o)
          /\ users' = Append(users, NewUser(o, DemoEmail, DemoPassword, FALSE, now, "admin"))

Keep == UNCHANGED <<session, job, told, stranded, moved, passwords>>

\* A start of the server with DEMO_ENABLED: only if there is none.
EnsureSeeded == OrgsWith(DemoSlug) = {} /\ Reset /\ Keep /\ UNCHANGED now

\* The night: the reset may fail as a whole, and is only logged.
Nightly == now < MaxTime /\ now' = now + 1 /\ Reset /\ Keep

Tick == now < MaxTime /\ now' = now + 1 /\ UNCHANGED <<orgs, users, gone>> /\ Keep

---------------------------------------------------------------------------
Next ==
    \/ \E b \in Browsers : Visit(b) \/ Logout(b) \/ DemoSession(b)
    \/ \E b \in Browsers, e \in Emails : \E pw \in told[e] : Login(b, e, pw)
    \/ \E b \in Browsers, i \in Rows, e \in Emails : EditAddress(b, i, e)
    \/ \E p \in Requests, name \in Names, e \in Emails : SignupSlug(p, name, e)
    \/ \E p \in Requests, b \in Browsers :
          \/ SignupOpen(p, b)
          \/ \E e \in Emails, generated \in BOOLEAN : InsertUser(p, b, e, generated)
          \/ \E i \in Rows : ResetRead(p, b, i, "reset") \/ ResetRead(p, b, i, "invite")
          \/ \E pw \in 1..(passwords + 1) : ChangeCheck(p, b, pw)
    \/ \E p \in Requests :
          \/ SignupCommit(p) \/ InsertMember(p)
          \/ ResetWrite(p) \/ Answer(p) \/ ChangeWrite(p) \/ Stop(p)
    \/ EnsureSeeded \/ Nightly \/ Tick

Spec == Init /\ [][Next]_vars

---------------------------------------------------------------------------
(* Properties.                                                             *)

User == [org : Nat, email : Emails, hash : Nat, must : BOOLEAN, login : Nat,
         role : {"admin", "seller", "none"}]
Slugs == Names \X Nat
Job == [pc : {"idle", "signup", "open", "member", "chosen", "reset", "invite", "answer", "refuse",
              "change", "done"},
        org : Nat, user : Nat, email : Emails \cup {"none"}, slug : Slugs \cup {<<>>},
        password : Nat, must : BOOLEAN, login : Nat]

TypeOK ==
    /\ orgs \in Seq([slug : Slugs, demo : BOOLEAN])
    /\ users \in Seq(User)
    /\ gone \subseteq DOMAIN users
    /\ session \in [Browsers -> [user : Nat, until : Nat]]
    /\ now \in Nat /\ passwords \in Nat
    /\ job \in [Requests -> Job]
    /\ told \in [Emails -> SUBSET Nat]
    /\ stranded \subseteq Nat /\ moved \subseteq Nat

\* Two sign-ups of the same name never share a slug and neither leaves an
\* organization without its direction, whenever it stops; an account is of one
\* organization and its address is there once.
OrganizationsWhole ==
    /\ \A a, o \in DOMAIN orgs : a # o => orgs[a].slug # orgs[o].slug
    /\ \A o \in DOMAIN orgs : Admins(o) # {}
    /\ \A i, k \in Rows : i # k => users[i].org # users[k].org \/ users[i].email # users[k].email

\* The password of every account is known to whoever it is of, or is about to be,
\* with two exceptions: the answer that was to tell it never left, or it was that of
\* a resend which is refused after it has written (handlers_users.go:136).  Resets
\* and a change of her own may meet in any order.
PasswordReachesSomeone ==
    \A i \in Rows :
        \/ users[i].hash \in told[users[i].email]
        \/ \E p \in Requests : job[p].user = i /\ job[p].pc \in {"member", "answer", "refuse"}
        \/ i \in stranded

\* Nobody's account goes or has its password changed but by her own organization:
\* the wipe "solo toca filas de esta organizacion" (demo.go:85), which is the demo
\* unless a real one signed up with its name before there was a demo.
RealAccountsKept ==
    [][\A i \in Rows :
          /\ i \in gone' => users[i].org \in OrgsWith(DemoSlug)
          /\ i \notin gone' /\ users'[i].hash # users[i].hash =>
                \E p \in Requests : job[p].org = users[i].org /\ job[p].pc # job'[p].pc]_vars

\* "Cambiarle la contrasena dejaria afuera al proximo que entre" (handlers_auth.go:74):
\* the shared account of the demo is there, with the address and the password by which
\* guests enter, but for two things that a guest may do with it as the direction that
\* he is: give it another address, and reset its password.  After the first nobody
\* enters the demo, after the second nobody gets past the change of the password that
\* the demo forbids; each lasts until the night.
DemoStaysOpen ==
    \A o \in OrgsWith(DemoSlug) : orgs[o].demo =>
        \E i \in Rows :
            /\ users[i].org = o
            /\ users[i].email = DemoEmail \/ i \in moved
            /\ \/ users[i].hash = DemoPassword /\ ~users[i].must
               \/ \E p \in Requests : job[p].user = i /\ job[p].must

\* "entrar a /demo deja adentro de la app" (docs/PUBLICO_SPEC.md:116): the account by
\* which POST /api/demo/session enters is there as long as the demo is.
DemoCanBeEntered ==
    \A o \in OrgsWith(DemoSlug) : orgs[o].demo => Account(o, DemoEmail) # {}

\* "Las sesiones comunes no la tienen" (service.go:423): a session with a demo_until
\* is of somebody of the demo.
CommonSessionsLast ==
    \A b \in Browsers : session[b].until # 0 =>
        \A i \in CurrentUser(b) : orgs[users[i].org].demo
=============================================================================
