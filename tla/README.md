# Acapelius: a TLA+ model of the ticket office, the door, the money and the accounts

Acapelius sells the tickets of a choir: a Go server (`src/internal`) over one
PostgreSQL database, and a React PWA (`src/web`) whose door mode also works without a
network. This directory models the parts of it that keep numbers which people argue
about — seats, quotas, who is in, who has paid, who owes — the screens and mails that
show them, and the accounts of those who may see them; above all where several requests,
devices and failures meet.

- [Inventory](#inventory)
- [Modules](#modules)
- [What is checked](#what-is-checked)
- [What is proved](#what-is-proved)
- [What disagrees with the documentation](#what-disagrees-with-the-documentation)
- [Not modelled](#not-modelled)
- [Plan](#plan)

## Inventory

The server keeps no state between requests but the database and the session store.
Every handler runs in its own goroutine; PostgreSQL runs in READ COMMITTED, so two
statements of one handler may see different databases unless a row lock prevents it.
Requests end at any statement when the client goes away or the database fails.

| Component | State | Operations | What is hard | What makes it correct |
|---|---|---|---|---|
| **Sales and capacity** (`handlers_sales.go`, `domain/sale.go`) | `sales`, `tickets` | `POST /api/sales` in one transaction that takes the row of the function `FOR UPDATE` | counting before inserting; sales against quotas, edits, deletion | never more live tickets than seats; a sale takes all its seats or none |
| **Personal quotas** (`handlers_allocations.go`) | `allocations` | `PUT` of a batch, validated under the same row lock | a batch is checked as a whole, and against what is sold | quotas fit in the capacity; no quota below what is sold |
| **Functions** (`handlers_functions.go`) | `functions` | create, `PATCH`, `DELETE` (autocommitted checks, then a write) | checks read before the write; foreign keys as the last defence | a deleted function leaves nothing behind; the capacity covers what is issued |
| **Team** (`handlers_users.go`, `auth/service.go`) | `season_members` | change of role, addition, removal; drops the quotas afterwards, and only logs a failure | two autocommitted statements; a seller who comes back | who does not sell holds no quota; a season keeps a direction |
| **Cancellation** (`handleVoidSale`, `handleVoidTicket`) | `sales.voided_at`, `tickets.status` | one sale in a transaction, one ticket in two statements | against check-ins | a void sale keeps no valid ticket; what has entered is not voided |
| **Check-in, sync, snapshot** (`handlers_checkins.go`) | `checkins` (UNIQUE ticket), `tickets.status` | one scan, a batch, the door's copy of the function | no transaction anywhere; retries; two devices | one green per ticket; entries are for ever; a snapshot that explains itself |
| **Door device** (`web/src/door`) | IndexedDB: snapshot and queue; React state and refs | scan, queue, flush, refresh, restart | everything between two `await`s; lost answers; stale copies | no entry is lost; nobody is refused without a reason; the queue drains |
| **Payments** (`handlers_sales.go`, `handlers_sales_bulk.go`) | `sale_payments`, `sales.paid_cents` (cache) | pay, mark paid, mark pending, delete one, bulk | balance read before the transaction; a cache recalculated from a snapshot | cache = sum; nothing overcharged |
| **Seasons** (`handlers_seasons.go`) | `seasons.is_active` | create, rename, delete, activate | activation in two statements under a partial unique index; deletion against activation | one season in course, with a direction |
| **Settlements and reminders** (`handlers_rendiciones.go`, `handlers_reports.go`) | `settlements`, `settlement_reminders` | insert, remind one, remind all, balances by query | four queries for one balance; a list read long before its last mail | a debt is what was charged less what was handed over, the same number everywhere, whoever leaves |
| **Accounts and sessions** (`auth`, `handlers_auth.go`, `handlers_users.go`) | `users`, session store | create, invite, reset, change, login, logout | the order of reset and refusal; an answer that is lost; one browser, several people | somebody knows each password |
| **Sign-up** (`handlers_signup.go`) | `organizations`, first user and season | a free slug, one transaction, a session | two organizations of the same name | unique slug; never an organization without direction |
| **Demo** (`internal/demo`, `handlers_demo.go`) | one organization and its shared account | guest session, seed at start-up, reset of every night | guests are of the direction; the wipe finds its organization by name | it can be entered; nobody else is touched |
| **Listing, search, bulk, export** (`handlers_sales.go`, `handlers_sales_bulk.go`) | reads; mails | filters, keyset cursor, totals, CSV, bulk resend | pages while sales are made and functions pass | no row lost or repeated; the totals are those of the rows |
| **Reports, home, direction** (`handlers_reports.go`, `handlers_home.go`, `handlers_direccion.go`) | reads | some twenty queries, each with its own filters | corners in which two of them differ | two screens never show two numbers for one thing |
| **Email** (`internal/mail`) | `email_sends`, `settlement_reminders` | sent after COMMIT, recorded after that | it may leave and not be recorded | nothing is told as sent that did not leave |
| **QR, public pages, HTTP plumbing, configuration, database access, tools, web pages and providers** | none that outlives a request or page | – | – | – |

How they interact: sales, quotas and deletion meet on the row of the function;
cancellation and check-in meet on the rows of the tickets; payments and cancellation
meet on the row of the sale; the team decides which quotas count; the door devices see
the server only through the snapshot and the sync. Screens and mails read what all of
these write; the session says whose request it is, and the role of the season in course
what it may do.

`PROJECT.json` lists the hazards found while reading, each at its line, and the
properties that watch them.

## Modules

### `Cupos` — capacity and quotas

One request is one handler; one step is one statement, or a group of statements that
nothing else can tell apart. `req[r].at` is the statement the request runs next, and the
other fields of `req[r]` are what the handler holds in local variables.

| Model | Code |
|---|---|
| `capacity`, `created`, `hasSales`, `entered` | rows of `functions`, the sales and check-ins that refer to them |
| `lock[f]` | the row lock of `GetFunctionForUpdate` until COMMIT or ROLLBACK |
| `issued`, `tickets` | what `CountActiveTickets` and `SoldBySellerInFunction` return |
| `alloc`, `role` | `allocations`, `season_members` |
| `SaleStart` … `SaleInsert`, `Rollback` | `handleCreateSale` |
| `PutStart` … `PutApply` | `handlePutAllocations` |
| `PatchStart` … `PatchWrite` | `handleUpdateFunction` |
| `DeleteStart` … `DeleteFunction`, `Referenced`, `HeldByDelete` | `handleDeleteFunction`, the foreign keys, and the row locks of the deleted quotas |
| `UpdateUser`, `AddMember`, `RemoveMember`, `DropAllocations` | the team, as far as quotas go |
| `Void`, `Checkin` | cancellation and check-in as one step each (their own module is `Puerta`) |
| `Abort` | any failure: the open transaction is rolled back |

Tickets are counts. Ids are never reused (`created`), as `BIGSERIAL` guarantees.
`Edited` names the functions whose capacity a `PATCH` may change and `Churn` the people
whose membership is edited: what is guaranteed to a function or to a seller holds for the
others, and `cupos_edit` shows that it does not hold for an edited function. `returned` is
a history variable: who is a seller again with quotas she had before (`NowReturned`), until
`DeleteAllocationsForUser` drops them. Everybody else's quotas, of those who leave as long
as they are sellers too, are in the sum of `AssignedFits`.

`SeatLedger` is the abstract specification: a table of seats per function, in which a
sale takes its seats at once and never beyond the capacity. `Cupos!SeatsTakenAtomically`
states that `Cupos` implements it with `seats <- issued`.

### `Puerta` — the door, server side

`status`, `voided` and `checkins` are the columns and rows of the same names; `greens`
counts the requests that have answered `ok` for a ticket. A check-in is four statements
(`CheckinTicket`, `CheckinSale`, `CheckinInsert`, `CheckinMark`), each committed on its
own; a batch runs them item after item (`NextItem`). The cancellation of a ticket is a
read and an unconditional UPDATE; that of a sale is a transaction, whose updated rows
(`rows`) others wait for (`RowFree`). The snapshot is two queries (`SnapshotQuery`).
`Sell` makes a sale appear with its tickets; a code that no ticket has is answered
without a change, and stands for every other invalid code.

`PuertaLedger` is its abstract specification: tickets enter, at most once and for ever,
and tickets are annulled for ever.

### `DoorStore` — the door devices

Every action is what `useDoorStore.ts` does between two awaits: `Scan`, `Add` and
`Show` are `checkin`; `FlushStart`, `GotReply`, `RemoveQueued`, `RefreshPending` and the
"flush" fetch are `flushQueue`, with `flush[d] # "idle"` for `flushingRef`;
`RefreshTimer`, `DoorSnapshot`, `SaveSnapshot` are `refreshSnapshot`; `Reopen` and
`LoadPending` the start of the page. `queue` and `snap` survive in IndexedDB, `shown` is
the queue as the page last read it, which is what scans are validated against. The server side is what
`PuertaLedger` promises: items of a batch are dealt with one by one, a batch may fail
between two of them, and one whose client has left may go on (`from = Nobody`).
`trouble` is the weather: while it lasts requests are lost, the server fails and the
page is closed.

A scan is a code that the first snapshot lists and whether the signature of its QR is true.
The device cannot tell (`codeFromPayload` drops the signature, and `Green` looks at the code
alone), so a QR of a listed ticket with a false signature turns green and is queued like any
other; `ServeItem` has the three answers of the server, that it is in, that it is void and
that it is invalid, all of them final for the device. `Forged` names the tickets there is
such a QR of, and `refused` those the server has answered "invalid" for. Scans that turn red
change nothing and are not steps. `loadStoredSnapshot` is not a step: the device keeps `snap` through
`Reopen`. React's rendering after `setPending` is taken to be immediate.

### `Cobros` — the payments

`history` is the table `sale_payments`, `paid` the column `sales.paid_cents`. A request
reads the sale (`Begin`, what `loadOwnedSale` or `SalesByIDs` returns), decides, and runs
one transaction: insert or delete payments (`new`, `gone`, seen by nobody else), then
`RecalcSalePayment`, then COMMIT. `RecalcSalePayment` is two steps: an UPDATE in READ
COMMITTED takes its snapshot when it starts (`RecalcSum`), may wait for the row, and then
checks the new version of the row but keeps what its FROM subquery returned
(`RecalcWrite`). A bulk payment charges the sales of its selection in any order, since the query
has no ORDER BY. Status and method of payment are written from the same rows by the same
UPDATE and are left out; complimentary sales refuse every payment and are left out too.
`raced` and `alone` are history variables: they say on which sales, and to which
requests, it has happened that two were at work at the same time.

### `Temporadas` — seasons and their direction

`status`, `course` are the rows of `seasons` and their `is_active`; `role` and `left` are
`season_members`; `sold` and `settled` say what hangs from a season and forbids its
deletion. A request starts with the role of its session (`Manages`, read once by the
middleware) and runs statement by statement: `StartAdd`, `AddMember`; `StartUpdate`,
`UpdateRead`, `UpdateUser`; `StartRemove`, `RemovalCheck`, `RemovalSales`,
`RemoveMember`; `StartActivate`, `ActivateCount`, `ActivateEnter`; `StartCreate`,
`CreateInsert`, `CreateTeam`; `StartDelete`, `DeletionCheck`, `DeleteFunctions`,
`DeleteSeason`. Creation and activation share `SeeActive` and `Deactivate`, the two
halves of `DeactivateAllSeasons` (it finds its rows, waits for them, and rewrites those
that are still active), and `SetActive`, which is where the unique index of one active
season waits or refuses. What a transaction has written stays in `off`, `on`, `gone`
and `team` of its request until `Commit`; `Abort` forgets it. `crossed` is a history
variable: a season was being deleted and activated at the same time.

Without a season in course the session falls back on the latest season of the person;
the order of seasons is not kept and any may be the latest. Quotas are dropped in
`Cupos`; the rename of a season changes nothing here. A function that is created while
its season is being deleted is left out: its foreign key refuses the deletion like that
of a settlement.

### `Libros`, `Informes`, `Listado`, `Pantallas` — the books and what is read of them

`Libros` ("books") is the state every screen reads, of one organization: team, functions
and quotas, sales and tickets, payments and settlements, and a clock. Its actions are the
writers of the other modules, each in one step, because what is asked here is not how the
statements of two writers interleave but what readers say of the books that result. Two
results of those interleavings are kept, since the screens show them: a ticket cancelled
under its check-in (`Arrive`, `InsertCheckin`), and a seller whose row goes as she makes
her first sale (`RemoveMember`). So is a third, a function edited after it was looked at:
`PATCH` of functions is `EditFunction`, what it asks first, and `UpdateFunction`, what it
writes then, so that a function may end with less seats than were sold of it. Its price
may change too, and a sale is worth what it was that day (`worth`, `sales.amount_cents`). The
team is written by `UpsertMembership`, over whoever is there, `UpdateUser` (`PATCH` of
users, in the season in course) and `RemoveMember`; a sale asks the role of the session
(`MaySell`), whichever season its function is of. What never changes of a sale — function,
seller, tickets — is a constant, so that a behaviour chooses which sales are made, not what
they are.

`Informes` has one operator per query of `queries/reports.sql` and its neighbours, named
like it; `Listado` the queries of the list, the order and the cursor, and the walk of the
export, which writes a set of rows (`Export`; the order is that of `ExportWalk`);
`Pantallas` the handlers that put them together: `SettlementsScreen`,
`SellerDetail`, `SellerHome`, `DirectionHome`, `Direccion` with its `Findings`,
`Attendance`, `Timeline`, `Team`. A query is one statement and reads one state. The
queries of one screen do not, in the code, but its numbers would then differ for a reason
nobody disputes; the properties compare them over the same books. The one place where
reads at different moments matter to the result is the export, and `ExportKeepsUp` is
about that.

An hour is a natural number, `Grace` the three hours in which a function that has begun is
still current. A text search is the set of sales it matches. A free function costs 0.

### `Avisos` — mails

A request of `Avisos` reads, composes, sends and records in separate steps while the
writers of `Libros` go on. `job[p]` is the handler: `todo` the selection or list it was
given, `codes`, `amount` and `rows` what it has read for the mail at hand. `outbox` is
what really left, which no variable of the program knows; `attempts` and `reminders` are
`email_sends` and `settlement_reminders`. `Send` has the outcomes of a driver: it leaves,
it fails, it leaves and the answer comes after the 20 s; in the demo nothing leaves.
`RecordFails` and `Stop` are the failures after it.

### `Cuentas` — accounts, sign-up and the demo

`orgs`, `users` are the tables, with ids that are never reused (`gone`); `session[b]` is
the data behind the cookie of a browser, `until` its `demo_until`. A password is a number
and `told[e]` the passwords that whoever reads the address `e` knows, which is what makes
"nobody knows her password" a state. A sign-up is `SignupSlug`, `SignupCommit`,
`SignupOpen`; an invitation `InsertUser`, `InsertMember`, `Answer`; a reset or resend
`ResetRead`, `ResetWrite`, `Answer`; a change `ChangeCheck`, `ChangeWrite`; `Stop` ends
each of them anywhere. A password the direction chooses (`generated` false) is neither
answered nor mailed: the direction tells it. `EditAddress` is what `PATCH` of users does to
an address; `moved` keeps whose it has been done to. `EnsureSeeded` and `Nightly` are the two ways to `Reset`.

## What is checked

| Run | Instance | Properties | What it shows |
|---|---|---|---|
| `cupos_safety` | 1 function, 2 sellers (one whose membership changes), 2 requests, capacity ≤ 2, sales of 1 | `CapacityHolds`, `QuotaHolds`, `AssignedFits`, `DeletedIsBare` | nothing is oversold; the quotas of both sellers together fit, raised one by one or in a batch, while one of them leaves and returns |
| `cupos_live` | 1 function with an edited capacity ≤ 3, 1 seller, 2 requests, sales of 1 or 2 | `TypeOK`, `ChecksStillTrue`, `SeatsTakenAtomically`, `RequestsEnd` | a check made under the lock is true when it is used; a sale takes its seats at once; every request is answered, also when a PUT and a DELETE deadlock |
| `cupos_edit` (violation) | 1 seller, edited capacity | `CapacityCoversIssued` | see below |
| `puerta_safety` | 1 sale of 2 tickets, 3 requests | `OneGreen`, `AnnulledStaysOut`, `VoidedSaleIsEmpty`, `SnapshotNamesWhoEntered`, `EntriesAreFinal` | one green per ticket whatever is retried; a void sale is empty; entries are final |
| `door_safety` | 1 device, 1 ticket with a true and a false QR, 2 scans at once, 2 sync calls, 3 items, batches of 2 | `GreenIsKept`, `RedHasReason` | no green is forgotten before the server has answered for it; a device takes nothing for used that is not, but for a moment after an answer |
| `door_live` | 1 device, 1 ticket with both QRs scanned three times, 1 call, batches of 2 | `QueueReachesServer` | the queue drains once the troubles end, unless it has outgrown a batch |
| `cobros_safety` | sales of 2 and of 1, 2 requests, 2 payments of each | `OrderlySales`, `CacheHeals`, `OnlyBulkDeadlocks` | what a race spoils stays on the sale it happened on, and the next lone change repairs the cache; a deadlock is still one without the requests about a single sale: only bulk payments make it |
| `temporadas_safety` | 2 seasons, 2 people, 2 requests at a time and 4 in all, 1 sale or settlement | `TypeOK`, `OneInCourse`, `OrderlyCourse`, `HistoryKept`, `DirectionGuarded`, `ArrivesWithDirection` | one season in course; history is never deleted; direction is lost only to a race or to an addition that demotes |
| `pantallas_safety` | 2 seasons, 3 people, 3 functions (one free, one over), 4 edits of two of them, 4 sales of 5 tickets, 3 writes; pages of 2 | `OneBalance`, `MoneyAddsUp`, `SeatsAddUp`, `PendingAgrees`, `ListIsWhole`, `OneCurrentFunction`, `DebtOutlivesMembership`, `ExportKeepsUp` | the screens agree with one another in every state of the books, the list and its export are whole |
| `avisos_safety` | 1 request, 3 sales of 4 tickets, 2 people, 3 writes | `MailMatchesTickets`, `ToldAsSent`, `ReminderIsTrue` | what a mail says was true when it was asked for; what is recorded did happen |
| `cuentas_safety` | 1 browser, 2 addresses, 1 name (that of the demo, with its suffixes), 2 requests, 2 organizations, 1 address edited | `OrganizationsWhole`, `PasswordReachesSomeone`, `DemoStaysOpen`, `RealAccountsKept` | sign-ups do not mix; passwords get lost only with an answer or by a refused resend; the demo harms only itself |
| `cuentas_demo` (violation) | the same, with 2 names | `CommonSessionsLast` | see below |

Every property of a passing run has a mutant in the modules (`Name_Variant`, a comment
says what bug it is): the definition it replaces is named in `PROJECT.json`, and the
property fails with it.

**Bounds.** Two requests are enough for every race of two handlers, and the row locks
make longer chains queue behind one another; the door has a third request because a
snapshot watches a check-in and a cancellation that run at the same time. A capacity of 3 and
sales of 1 and 2 distinguish one ticket, a batch, exactly full and one too many; with two
sellers a capacity of 2 is enough for quotas that fit one by one not to fit together. In `Puerta` two tickets are enough
for a batch to be half done and for a sale to be half voided. On the device two items of one
ticket, one with a true signature and one with a false one, are answered differently and
are a batch that can be half done; a third comes while they are sent, or makes the queue
longer than a batch. In `Cobros`, four
payments let two bulk payments lock two sales in opposite orders, and a third change follow
two that raced. In `door_live` a queue can be longer than `maxSyncBatch`: the server then refuses it whole, for ever, which is the
exception `QueueReachesServer` makes. In `Temporadas` four requests let a season be created, its
team changed, and two requests race over it; roles other than direction differ in
nothing here, and one stands for them. In `Pantallas` the books start with three sales,
one of them of somebody without a row in the team, so that three writes reach what it
takes to tell two queries apart: a cancelled, a complimentary and a free sale, one half
paid, a seller gone, money settled beyond what was charged, a function that passes. `Edits`
is what functions are edited to: an earlier and a later hour, the seats of what is issued
and not of what comes meanwhile, and a price where there was none. Two pages of two
rows, the bound of the export, are all the sales and no more: with three of
them the second page is not full, with four both are and the empty one after them is not read. In `Avisos` a second
request would only add to `outbox` and the tables, which no request reads; what a
request meets while it runs are the three writes; and a mail has room for one sale
(`maxFilasRecordatorio`), so that two do not fit. In `Cuentas` two requests cover
a race of any two, and two organizations a repeated name, or one next to the demo; one address
is edited (`MaxMoves`), and which account it is of is open; a session
of the demo lasts until the next tick. `MaxServed`, `MaxHistory`, `MaxItems`, `MaxPayments`, `MaxCapacity` and `MaxQuantity` appear
only in guards and types.

**Symmetry** is used over requests (and scans and calls) where no liveness is checked.

**Deadlock** is left unchecked where the model may stop: `Cupos` when
its only function has been deleted (ids are not reused), `Cobros` when all sales are void
and have no payments, `Temporadas` when its requests have been served or nobody is
left to manage the season, `Pantallas`, `Avisos` and `Cuentas` when their bounds are reached.

**Fairness.** `Cupos!FairSpec` is strong fairness of every request's own steps: the
server runs on, and PostgreSQL queues who waits for a row, so a waiter is not passed over
for ever; it also breaks deadlocks, which is a step of the victim. Nothing makes
requests start, abort, or be answered well. `DoorStore!FairSpec` is weak fairness of the
flush (the timer of 15 s and the event loop) and of the server's serving of a batch; no scan,
refresh or weather is fair, and the conclusion is only claimed for behaviours in which
the troubles end.

## What is proved

`Cupos_proofs` proves, with TLAPS and for every value of the constants that satisfies
`CuposAssumption` (any number of functions, seasons, people and requests, any capacity):

| Theorem | Statement |
|---|---|
| `TypeCorrect` | `Spec => []TypeOK` |
| `NeverOversold` | `Spec => []CapacityHolds` |
| `NeverAboveQuota` | `Spec => []QuotaHolds` |
| `ChecksKept` | `Spec => []ChecksStillTrue` |
| `DeletionLeavesNothing` | `Spec => []DeletedIsBare` |
| `ImplementsLedger` | `Spec => SeatsTakenAtomically` |

The argument. None of the properties is inductive: that a sale does not oversell follows
from what it *read* some statements ago. The invariant is
`IInv == TypeInv /\ TablesInv /\ ChecksStillTrue`. `ChecksStillTrue` says, for each
statement a handler can be at, that what it has checked so far is still true;
`TablesInv` is what it all is for, with the two facts about rows that do not exist which
deletion needs; `TypeInv` adds to the types that a request's record fits its statement.
A step of request `r` has to keep three things:

1. `r`'s own checks, which follow from what it has just read (one lemma per action);
2. the checks of every other request. Here the frame predicate `Mild` does the work:
   it says what a step may do to the tables without contradicting request `q` (only
   release seats of a function that `q` holds, never touch its capacity or the
   quotas of stable people); each action is shown to be mild towards the others, which is
   where the row lock is used, and `MildKeeps` concludes;
3. the tables, which follow from the checks of the acting request.

`ImplementsLedger` maps each action to `Open`, `Take`, `Release`, `Resize`, `Close` or a
stutter of `SeatLedger`, from the same invariant.

`Puerta_proofs` proves, from `PuertaAssumption` (any sales, tickets and requests, finite in
number or not, with each ticket of one sale):

| Theorem | Statement |
|---|---|
| `DoorTypeCorrect` | `Spec => []TypeOK` |
| `OneGreenPerTicket` | `Spec => []OneGreen` |
| `AnnulledNeverEnters` | `Spec => []AnnulledStaysOut` |
| `VoidLeavesNoneValid` | `Spec => []VoidedSaleIsEmpty` |
| `SnapshotAgrees` | `Spec => []SnapshotNamesWhoEntered` |
| `ImplementsDoorLedger` | `Spec => EntriesAreFinal` |

Here nothing is locked between the statements of a request, except the rows a cancelled
sale has updated, so the argument is about what no other request can undo. `Grows` is the
only way the tables ever change: void stays void, nothing goes back to issued or disappears,
entries stay. `Checked(r)` says what request `r` still knows at each statement, and is
stable under `Grows` (`OtherKeeps`): that the ticket in hand was not void when the request
arrived; that at `ci_mark` its entry is recorded and nobody has answered for it; that the
transaction of a cancellation holds every issued ticket of its sale; that the tickets a
snapshot saw as used have their row. `OneMarks`, that no two requests are at `ci_mark` with
the same ticket, is what the conflict of the `INSERT` gives and what `OneGreen` needs.
`VoidedSaleIsEmpty` needs one more fact about the tables: a sale is there with all its
tickets or not at all.

`DoorStore_proofs` proves, from `DoorStoreAssumption` (any number of devices, tickets,
scans and calls, and of tickets with a false QR; at least one ticket, and finitely many
scans at once so that the queue can be counted):

| Theorem | Statement |
|---|---|
| `DoorStoreTypeCorrect` | `Spec => []TypeOK` |
| `GreenNeverLost` | `Spec => []GreenIsKept` |
| `RedAlwaysHasReason` | `Spec => []RedHasReason` |
| `OneBatchAtATime` | `Spec => []Posted` |

What is fragile on the device is what a step between two awaits assumes of the ones
before it. The invariant says it for each of them: the device waits for one batch, and what
that batch no longer holds of what was sent the server has dealt with (`Posted`); what is
about to leave the queue has been dealt with (`Answered`); what is about to turn green is
in the queue (`Queued`); a snapshot never shows more than the server knows (`Fetched`); only
a flush that has emptied its batch asks for one (`Flushed`); and there is an id for every
entry being added (`Room`). A green that leaves the queue leaves it by an answer, so the
server has dealt with it; a red cites the queue or a snapshot, and so an item or an entry
that exists. "Dealt with" (`Handled`) is an entry or a void ticket for a scan that is true and
the answer "invalid" for one that is not: a green of a false QR was let in and ends in an
answer no device shows, which is what the comment of `codeFromPayload` accepts and what
the theorem says and no more.

`Cobros_proofs` proves, from `CobrosAssumption` (any number of sales, of any price, and
finitely many requests):

| Theorem | Statement |
|---|---|
| `CobrosTypeCorrect` | `Spec => []TypeOK` |
| `SalesStayOrderly` | `Spec => []OrderlySales` |
| `CacheAlwaysHeals` | `Spec => CacheHeals` |
| `OnlyBulksDeadlock` | `Spec => []OnlyBulkDeadlocks` |

`OrderlySales` is a claim about a sale nobody has raced for. The strengthening says what a
request that is alone on a sale can rely on: requests that meet on one are noticed
(`Meet`, over `raced` and `alone`); what a request touches are the sales it is about, each
in one way at a time (`Scope`); what it has summed is what its rows add up to (`Summed`);
what it still charges is left to pay (`Affordable`); and a sale cancelled in peace is not
charged any more (`VoidIsQuiet`). The sums are over the payments a request sees, its own
and the committed ones. That a deadlock needs bulk payments is proved for any set of
requests that wait for one another, and not only for two.

`Cupos_proofs` also has `QuotasFit` (`Spec => []AssignedFits`), with finitely many people:
a batch of quotas is validated as a whole under the lock of its function, so what was
added up is what is written. It is about the sum of all the sellers but those who have
`returned`: whoever becomes a seller otherwise has no quota in the sum yet.

`Temporadas_proofs` proves, for any number of seasons, people and requests:

| Theorem | Statement |
|---|---|
| `TemporadasTypeCorrect` | `Spec => []TypeOK` |
| `OneSeasonInCourse` | `Spec => []OneInCourse` |
| `CourseIsOrderly` | `Spec => []OrderlyCourse` |
| `HistoryIsKept` | `Spec => []HistoryKept` |
| `DirectionIsGuarded` | `Spec => DirectionGuarded` |
| `SeasonsArriveWithDirection` | `Spec => ArrivesWithDirection` |

The invariant has the shape of a request at each step (`Shapes`), what the uncommitted
rows of the unique index and the locks of rows exclude (`Index`: one transaction at a time
has a season to put in course, and it has taken out the others; `Rows`: what is about to be
in course is not being deleted), the only way to be left without a season in course
(`Crossing`, `Lost`, `Phases`), and what exists of a season while it is created
(`NoTeams`, `Creating`, `Existing`). Locks and index are not variables of their own: they
follow from what each request has written and not committed.

`Cuentas_proofs` proves, from `CuentasAssumption` (any number of organizations, people,
browsers and requests):

| Theorem | Statement |
|---|---|
| `CuentasTypeCorrect` | `Spec => []TypeOK` |
| `OrganizationsStayWhole` | `Spec => []OrganizationsWhole` |
| `PasswordsReach` | `Spec => []PasswordReachesSomeone` |
| `DemoIsOpen` | `Spec => []DemoStaysOpen` |
| `AccountsAreKept` | `Spec => RealAccountsKept` |

What a request has read of a person stays true of her row, which is never used again
(`JobsKnow`); no two requests insert the same membership (`OneInsert`), so that no step
takes the role of the last of the direction; and `PasswordKnown` says which password it is
that a request is about to tell, which `PasswordReachesSomeone` leaves open and any two
resets of one account need. Most steps neither add nor delete a row, and one frame
predicate, `Calm`, serves them all; sign-up, a new person and the reset of the demo are
proved on their own. That the loop of `SlugExists` finds a free slug is the pigeonhole
principle (`SomeSlugIsFree`). `DemoIsOpen` follows the one row that was seeded: of the two
things that keep guests out, its address is in `moved` and its password in a request.

`Libros_proofs` proves what the screens, the list and the mails say, from the assumptions
of `Libros`, `Informes`, `Listado`, `Pantallas` and `Avisos`: any number of sales and
tickets, of which finitely many are made before the behaviour starts and each sale has
finitely many; finitely many seasons, functions and people; any hours, prices, capacities,
pages and filters. The books at the start must be ones the program could have written
(`FirstBooksAssumption`: nothing charged above its price), and
`Everyone` and `NoFilter`, which stand for a filter that is not given, are nobody's name
nor that of a season, a function or a status.

| Theorem | Statement |
|---|---|
| `BooksCorrect` | `Spec => []Books`, the inductive invariant |
| `LibrosTypeCorrect` | `Spec => []TypeOK` |
| `OneBalanceCorrect` | `Spec => []OneBalance` |
| `MoneyAddsUpCorrect` | `Spec => []MoneyAddsUp` |
| `SeatsAddUpCorrect` | `Spec => []SeatsAddUp` |
| `PendingAgreesCorrect` | `Spec => []PendingAgrees` |
| `ListIsWholeCorrect` | `Spec => []ListIsWhole` |
| `OneCurrentFunctionCorrect` | `Spec => []OneCurrentFunction` |
| `DebtOutlives` | `Spec => DebtOutlivesMembership` |
| `ExportKeepsUpCorrect` | `Spec => ExportKeepsUp` |
| `MailInvCorrect` | `MailSpec => []MailInv`, the inductive invariant with the mails |
| `MailMatchesTicketsCorrect` | `MailSpec => []MailMatchesTickets` |
| `ToldAsSentCorrect` | `MailSpec => []ToldAsSent` |
| `ReminderIsTrueCorrect` | `MailSpec => []ReminderIsTrue` |

`Books` adds to the types what the readers take for granted of the tables: finitely many
sales, each made by now, no good ticket in a cancelled one, and a ticket behind everybody at
the door. That no function has more seats sold than it has is not among it, because `PATCH`
can break it. None of it can be left out: that
a payment never exceeds its sale is in `TypeOK` and is why a debt is never negative; a
cancelled sale that kept a ticket would be counted by the queries that go by tickets and
not by those that go by sales.

Given `Books`, what two screens owe each other is arithmetic over one state, and the proof
is always the same: both numbers are turned into a `Weight`, the sum of a function over
a finite set; the set is split by what one of them groups by (seller, function, season,
day, charged or complimentary), every row in one part (`Splits`); and `WeightOfParts` and
`CountOfParts` say that the parts add up to the whole. A query that lists only some rows
is compared with one that lists them all by showing that the others weigh nothing
(`ReportWeight`). "The first k" is a matter of ranks: in a finite linear order as many
elements come before the i-th as it says (`RanksAre`, `CountOfFirst`).

The list needs an induction over pages. `ReadSoFar` says what an export knows after i of
them: the first rows of the list, in order, as many as i pages hold, and a cursor that
has exactly the rows read behind it. The first page starts so, and a page keeps it so
(`ReadPageKeeps`), because its rows are the least of those ahead of the cursor. `UpTo` is the
induction, and `WalkExists` that the recursive function of the walk is one. This is about
books that stay as they are; `ExportKeepsUp` is about those that do not.

`MailInv` says what a request in flight can still rely on, though it locks nothing and the
writers go on: what it is about exists (`JobIsAbout`); the tickets that were cancelled when it
began still are, and are not among the codes it has in hand (`TicketsAreGood`); while nobody
has written since it read, its amount, its rows and its list of people are how things are
(`StillSo`); and if it is about to record a mail as sent, the mail is in `outbox`
(`HasSent`). The last is what `ToldAsSent` needs, because the record is written a step, and
maybe a crash, after the mail; and it needs it of every attempt and not only of the last
(`EverySentLeft`). The properties then hold of what is sent because they hold of what was
read, and of what was sent because `outbox` and the records only grow.

`Sumas_proofs` holds the lemmas about sums, counts and orders of finite sets that
`Cupos_proofs`, `Cobros_proofs` and `Libros_proofs` use: `MapThenSumSet` is the value of
a recursive function on subsets, and a sum of natural weights is the number of "coins" in
a set of pairs, so that facts about cardinalities give those about sums; a sum of integers
is a difference of two of those. It avoids the induction theorems, which take an operator
as a parameter: where an induction is needed, the least counterexample is taken, from the
well-foundedness of strict inclusion among finite sets.

Only model-checked: all liveness (`RequestsEnd`, `QueueReachesServer`), because fairness
and `ENABLED` are outside what the prover does. Every safety invariant and action property
that a passing run checks is stated by a theorem.

## What disagrees with the documentation

The first two are runs that TLC ends with a counterexample, and for the next three there is
a statement of the documentation in the module and a `.cfg` of its own with which TLC ends
in one too (`tlc -config Cupos_return.cfg MCCupos`, and so on). The others were met while
modelling, and the modules have them: the property named with each holds only with the
exception its comment states, or is limited to where it does not happen. `PROJECT.json`
has the lines.

- **`cupos_edit`** — "El cupo de una funcion no puede editarse por debajo de lo ya
  emitido" (README). `PATCH` checks and writes without the lock that sales take.
- **`cuentas_demo`** — "Las sesiones comunes no la tienen". Entering keeps the data of the
  session, and with it the expiry of a visit to the demo: whoever tried the demo and then
  signed up in the same browser is put out six hours after the visit.
- `SumFitsCapacity` (`Cupos_return.cfg`) — "SUM(allocations) <= capacity". A seller who stops
  selling and whose quotas are not dropped yet, or never because the delete failed, brings
  them back.
- `OneGreenPerDevice` (`DoorStore_twice.cfg`) — "no está en el set local de usados". A
  device that has just been opened knows its old snapshot before its queue, and one that has
  just synced has emptied its queue before it has the new snapshot: the same ticket is green
  twice on it.
- `DemoCanBeEntered` (`Cuentas_address.cfg`) — "entrar a `/demo` deja adentro de la app". A
  guest may give the shared account another address (`PATCH` of users), by which nobody
  enters until the night.
- Cancelled and inside (`SeatsAddUp`) — "rechaza si hay check-in". `VoidTicket` does not look at the status
  it overwrites. (The cancellation of a sale does, for its tickets, and `VoidedSaleIsEmpty`
  holds; its count can still miss a check-in whose second statement has not run.)
- The cached total (`CacheHeals`) — "para que el cache no pueda separarse del historial". Two
  recalculations at the same time lose one payment in the cache. By the same lack of a
  lock two payments, both within the balance they read, can add up to more than the
  price; `OrderlySales` is limited to sales on which this has not happened.
- The rows of a reminder (`ReminderIsTrue`) — "una venta cobrada que todavia no se
  rindio". They are all the sales charged, settled or not, over a total that is the balance.
- A refused resend (`PasswordReachesSomeone`) — "Solo para quien nunca entro". It has
  written a password nobody is told before it refuses.
- Old sessions (`PasswordReachesSomeone`, `ChangeWrite`) — "cualquier sesion vieja deja
  de servir". Only the token of the session that asks is renewed.
- Sessions of the demo (`RealAccountsKept`) — "las sesiones abiertas siguen apuntando a
  ella". The reset deletes their users. It also takes a real organization that signed up
  with the name of the demo for the demo, which is the exception of the property.
- The shared account (`DemoStaysOpen`) — its password cannot be changed, "dejaria afuera
  al proximo que entre", but it can be reset, which does.
- "Menos de la mitad" (`Findings`) is said below 60 in a hundred.

Two differences are the code's choice and no doc says otherwise: the list counts
`sales.quantity`, which cancelling one ticket does not lower (`SeatsAddUp`), and the sales of
a free function stay "Debe" and are never pending (`PendingAgrees`).

What the properties tolerate is in their comments and, hazard by hazard, in the notes of
`PROJECT.json`: a ticket cancelled while its check-in is under way, a sale two payments have
raced on, a reminder that crosses a settlement.

`Temporadas` has no run that ends in a counterexample, but its properties name what they
cannot promise, and TLC refutes them without the exception:

- "La temporada en curso no se borra" (`handlers_seasons.go:223`): a deletion reads
  `is_active` and an activation reads that the season exists, and neither locks it. If
  they meet, the activated season is deleted and none is in course (`crossed`).
- "Nunca una temporada sin direccion" (`handlers_users.go:416`): two people of the
  direction who remove or demote each other at once both succeed. And `AddMember` writes
  any role over any member, the only one of the direction and oneself included; the team
  list of a new season may do the same to who creates it.

## Not modelled

Text (the wording of mails, CSV and pages), how a QR is signed, password hashing,
configuration, routing and the development tools: no state of their own that interleaves,
or a library's. The protocol of a mail driver: `Send` has its outcomes. Of the seeded data
of the demo only the shared account. The pages and providers of the web app other than
the door keep nothing that outlives a page. Only `Cuentas` has more than one organization:
every query is limited to that of the session, and the other modules are of one.

## Plan

1. ~~`SeatLedger`, `Cupos`, its runs and proofs~~ (done)
2. ~~`PuertaLedger`, `Puerta`~~, ~~`DoorStore`~~, ~~`Cobros`~~ (modelled and checked)
3. ~~`Temporadas`~~ (modelled and checked)
4. ~~`Libros`, `Informes`, `Listado`, `Pantallas`; `Avisos`; `Cuentas`; `DoorStore` with a
   queue longer than a batch~~ (modelled and checked)
5. ~~Functions and roles edited under the screens, QRs that do not verify, addresses that
   move~~ (modelled, checked and proved). Two devices over one server; the composition of `DoorStore` with `PuertaLedger` as the
   server, stated as a refinement.
6. Proofs: ~~`Puerta`, `DoorStore`, `Temporadas`, `Cobros`, `AssignedFits` with lemmas about
   sums over finite sets, `Cuentas`, the mails (`Avisos`), what the screens owe each other
   (`Pantallas`) and the walk of the export (`Listado`)~~ (done)
