------------------------------ MODULE DoorStore ------------------------------
(***************************************************************************)
(* The door devices (web/src/door): every scan is judged on the device,    *)
(* against its copy of the snapshot and its queue; what turns green is     *)
(* queued in IndexedDB and pushed to the server when the network allows.   *)
(* A step of a device is the code between two awaits, so the timers, the   *)
(* scans and the flush of one device interleave as its event loop allows.  *)
(*                                                                         *)
(* The server is the one PuertaLedger describes: it serves the items of a  *)
(* batch one by one, each at once, and may fail between two of them.       *)
(* The tickets are those the first snapshot lists; a code it does not list *)
(* is red and changes nothing.  A device cannot tell whether the signature *)
(* of a QR is true: a false one over a code that is listed turns green and *)
(* is queued like any other, and the server answers that it is invalid.    *)
(***************************************************************************)
EXTENDS Naturals, FiniteSets

CONSTANTS
    Devices,
    Tickets,
    Forged,      \* bound: tickets of whose code there is a QR with a false signature
    Tasks,       \* checkin() calls of a device that may be under way at once
    Calls,       \* sync requests the server serves at once
    MaxItems,    \* bound: items a device ever queues
    MaxBatch,    \* maxSyncBatch
    NoSnapshot, Nobody

ASSUME DoorStoreAssumption ==
    /\ MaxItems \in Nat /\ MaxBatch \in Nat
    /\ Nobody \notin Devices
    /\ Forged \subseteq Tickets
    /\ Tickets # {} /\ IsFiniteSet(Tasks)

\* What a device reads: a code, in a QR that verifies or chosen by hand, or in one
\* whose signature is false.
Scans == [t : Tickets, good : {TRUE}] \cup [t : Forged, good : {FALSE}]
Items == [id : 1..MaxItems, s : Scans]
Snapshots == [annulled : SUBSET Tickets, entered : SUBSET Tickets]
Fetchers == {"page", "flush"}   \* refreshSnapshot of the start and the timer, of the flush

VARIABLES
    entered,   \* server: tickets with a check-in
    annulled,  \* server: void tickets
    refused,   \* history: tickets the server has answered "invalid" for
    calls,     \* calls[c]: a POST /api/checkins/sync under way
    snap,      \* snap[d]: the snapshot of d, in memory and in IndexedDB
    queue,     \* queue[d]: the items in IndexedDB
    used,      \* used[d]: the last id IndexedDB has given
    shown,     \* shown[d]: the queue as the page last read it (pendingRef)
    task,      \* task[d][k]: a checkin() under way
    flush,     \* flush[d]: where flushQueue is
    sent,      \* sent[d]: the items flushQueue has posted
    fetch,     \* fetch[d][k]: a refreshSnapshot under way
    greens,    \* greens[d][s]: how many times d has shown the scan s green
    trouble    \* the network, the server and the app may fail right now

server == <<entered, annulled, refused>>
page == <<snap, shown, task>>
sync == <<calls, flush, sent>>
vars == <<entered, annulled, refused, calls, snap, queue, used, shown, task, flush, sent,
          fetch, greens, trouble>>

Scanned(items) == {i.s : i \in items}
Codes(items) == {s.t : s \in Scanned(items)}

AnyScan == CHOOSE s \in Scans : TRUE
FreeCall == [at |-> "free", from |-> Nobody, todo |-> {}]
NoTask == [at |-> "idle", s |-> AnyScan]
Fetch(step) == [at |-> step, what |-> NoSnapshot]
NoFetch == Fetch("none")
Opening == [k \in Fetchers |-> IF k = "page" THEN Fetch("boot") ELSE NoFetch]
FlushSteps == {"idle", "posting", "removing", "showing", "fetching"}

Init ==
    /\ entered = {} /\ annulled = {} /\ refused = {}
    /\ calls = [c \in Calls |-> FreeCall]
    /\ snap = [d \in Devices |-> NoSnapshot]
    /\ queue = [d \in Devices |-> {}]
    /\ used = [d \in Devices |-> 0]
    /\ shown = [d \in Devices |-> {}]
    /\ task = [d \in Devices |-> [k \in Tasks |-> NoTask]]
    /\ flush = [d \in Devices |-> "idle"]
    /\ sent = [d \in Devices |-> {}]
    /\ fetch = [d \in Devices |-> Opening]
    /\ greens = [d \in Devices |-> [s \in Scans |-> 0]]
    /\ trouble = FALSE

---------------------------------------------------------------------------
(* checkin()                                                               *)

\* validateLocally, of the code alone: green unless void, entered or in the queue.
Green(d, t) ==
    /\ snap[d] # NoSnapshot
    /\ t \notin snap[d].annulled
    /\ t \notin snap[d].entered
    /\ t \notin Codes(shown[d])

Adding(d) == {k \in Tasks : task[d][k].at = "adding"}

Scan(d, k, s) ==
    /\ task[d][k].at = "idle"
    /\ Green(d, s.t)
    /\ used[d] + Cardinality(Adding(d)) < MaxItems
    /\ task' = [task EXCEPT ![d][k] = [at |-> "adding", s |-> s]]
    /\ UNCHANGED <<server, sync, snap, queue, used, shown, fetch, greens, trouble>>

\* enqueueCheckin
Add(d, k) ==
    /\ task[d][k].at = "adding"
    /\ queue' = [queue EXCEPT ![d] = @ \cup {[id |-> used[d] + 1, s |-> task[d][k].s]}]
    /\ used' = [used EXCEPT ![d] = @ + 1]
    /\ task' = [task EXCEPT ![d][k].at = "showing"]
    /\ UNCHANGED <<server, sync, snap, shown, fetch, greens, trouble>>

\* refreshPending, and the green screen.
Show(d, k) ==
    /\ task[d][k].at = "showing"
    /\ shown' = [shown EXCEPT ![d] = queue[d]]
    /\ greens' = [greens EXCEPT ![d][task[d][k].s] = @ + 1]
    /\ task' = [task EXCEPT ![d][k] = NoTask]
    /\ UNCHANGED <<server, sync, snap, queue, used, fetch, trouble>>

---------------------------------------------------------------------------
(* flushQueue: one at a time (flushingRef), started by every check-in, by a*)
(* timer and by the return of the network.                                 *)

FlushStart(d) ==
    /\ flush[d] = "idle"
    /\ queue[d] # {}
    /\ \E c \in Calls :
         /\ calls[c].at = "free"
         /\ calls' = [calls EXCEPT ![c] =
               [at |-> IF Cardinality(queue[d]) > MaxBatch THEN "error" ELSE "running",
                from |-> d, todo |-> Scanned(queue[d])]]
    /\ sent' = [sent EXCEPT ![d] = queue[d]]
    /\ flush' = [flush EXCEPT ![d] = "posting"]
    /\ UNCHANGED <<server, page, queue, used, fetch, greens, trouble>>

\* Mutant: the flag is not lowered when the request fails.
GiveUp_FlagKept(d) == UNCHANGED <<flush, sent>>

\* The catch of flushQueue: the queue stays as it is.
GiveUp(d) ==
    /\ flush' = [flush EXCEPT ![d] = "idle"]
    /\ sent' = [sent EXCEPT ![d] = {}]

\* The answer is lost; the server may go on with the batch.
Orphan(d) == [c \in Calls |->
    IF calls[c].from # d THEN calls[c]
    ELSE IF calls[c].at = "running" THEN [calls[c] EXCEPT !.from = Nobody] ELSE FreeCall]

PostLost(d) ==
    /\ trouble
    /\ flush[d] = "posting"
    /\ GiveUp(d)
    /\ calls' = Orphan(d)
    /\ UNCHANGED <<server, page, queue, used, fetch, greens, trouble>>

\* Any answer but an error is final, whatever it says of each item.
GotReply(d, c) ==
    /\ flush[d] = "posting" /\ calls[c].from = d
    /\ \/ calls[c].at = "ok" /\ flush' = [flush EXCEPT ![d] = "removing"] /\ UNCHANGED sent
       \/ calls[c].at = "error" /\ GiveUp(d)
    /\ calls' = [calls EXCEPT ![c] = FreeCall]
    /\ UNCHANGED <<server, page, queue, used, fetch, greens, trouble>>

\* Mutant: the queue is emptied instead of removing what was sent.
RemoveQueued_All(d) ==
    /\ flush[d] = "removing"
    /\ queue' = [queue EXCEPT ![d] = {}]
    /\ sent' = [sent EXCEPT ![d] = {}]
    /\ flush' = [flush EXCEPT ![d] = "showing"]
    /\ UNCHANGED <<server, calls, page, used, fetch, greens, trouble>>

RemoveQueued(d) ==
    /\ flush[d] = "removing"
    /\ queue' = [queue EXCEPT ![d] = @ \ sent[d]]
    /\ sent' = [sent EXCEPT ![d] = {}]
    /\ flush' = [flush EXCEPT ![d] = "showing"]
    /\ UNCHANGED <<server, calls, page, used, fetch, greens, trouble>>

\* refreshPending after the flush, then refreshSnapshot is asked for.
RefreshPending(d) ==
    /\ flush[d] = "showing"
    /\ shown' = [shown EXCEPT ![d] = queue[d]]
    /\ fetch' = [fetch EXCEPT ![d]["flush"].at = "asked"]
    /\ flush' = [flush EXCEPT ![d] = "fetching"]
    /\ UNCHANGED <<server, calls, sent, snap, task, queue, used, greens, trouble>>

---------------------------------------------------------------------------
(* refreshSnapshot, of the timer or of the flush: two may be under way and *)
(* finish in either order.                                                 *)

RefreshTimer(d) ==
    /\ fetch[d]["page"].at = "none"
    /\ fetch' = [fetch EXCEPT ![d]["page"].at = "asked"]
    /\ UNCHANGED <<server, sync, page, queue, used, greens, trouble>>

\* handleDoorSnapshot
DoorSnapshot(d, k) ==
    /\ fetch[d][k].at = "asked"
    /\ fetch' = [fetch EXCEPT ![d][k] =
          [at |-> "read", what |-> [annulled |-> annulled, entered |-> entered]]]
    /\ UNCHANGED <<server, sync, page, queue, used, greens, trouble>>

EndFetch(d, k) ==
    /\ fetch' = [fetch EXCEPT ![d][k] = NoFetch]
    /\ flush' = IF k = "flush" THEN [flush EXCEPT ![d] = "idle"] ELSE flush

SaveSnapshot(d, k) ==
    /\ fetch[d][k].at = "read"
    /\ snap' = [snap EXCEPT ![d] = fetch[d][k].what]
    /\ EndFetch(d, k)
    /\ UNCHANGED <<server, calls, sent, shown, task, queue, used, greens, trouble>>

\* The snapshot the device has is better than none.
FetchLost(d, k) ==
    /\ trouble
    /\ fetch[d][k].at \in {"asked", "read"}
    /\ EndFetch(d, k)
    /\ UNCHANGED <<server, calls, sent, page, queue, used, greens, trouble>>

---------------------------------------------------------------------------
(* The page is closed and opened again: IndexedDB survives, and the stored *)
(* snapshot is shown before the queue is.                                  *)

Reopen(d) ==
    /\ trouble
    /\ shown' = [shown EXCEPT ![d] = {}]
    /\ task' = [task EXCEPT ![d] = [k \in Tasks |-> NoTask]]
    /\ GiveUp(d)
    /\ fetch' = [fetch EXCEPT ![d] = Opening]
    /\ calls' = Orphan(d)
    /\ UNCHANGED <<server, snap, queue, used, greens, trouble>>

\* The refreshPending of the start, before its refreshSnapshot.
LoadPending(d) ==
    /\ fetch[d]["page"].at = "boot"
    /\ shown' = [shown EXCEPT ![d] = queue[d]]
    /\ fetch' = [fetch EXCEPT ![d]["page"].at = "asked"]
    /\ UNCHANGED <<server, sync, snap, task, queue, used, greens, trouble>>

---------------------------------------------------------------------------
(* The server.                                                             *)

\* One item of a batch: an item whose signature is false is invalid, a void ticket
\* stays out, one that is in stays in.
ServeItem(c) ==
    /\ calls[c].at = "running"
    /\ \E s \in calls[c].todo :
         /\ calls' = [calls EXCEPT ![c].todo = @ \ {s}]
         /\ refused' = IF s.good THEN refused ELSE refused \cup {s.t}
         /\ entered' = IF s.good /\ s.t \notin annulled THEN entered \cup {s.t} ELSE entered
    /\ UNCHANGED <<annulled, page, flush, sent, queue, used, fetch, greens, trouble>>

EndCall(c, outcome) ==
    /\ calls' = [calls EXCEPT ![c] =
          IF calls[c].from = Nobody THEN FreeCall ELSE [@ EXCEPT !.at = outcome, !.todo = {}]]
    /\ UNCHANGED <<server, page, flush, sent, queue, used, fetch, greens, trouble>>

Reply(c) == calls[c].at = "running" /\ calls[c].todo = {} /\ EndCall(c, "ok")

\* Mutant: a batch that fails halfway is answered as if it were done.
ServeFail_Ok(c) == trouble /\ calls[c].at = "running" /\ EndCall(c, "ok")

\* An item fails: 500, and the items before it are committed.
ServeFail(c) == trouble /\ calls[c].at = "running" /\ EndCall(c, "error")

\* A ticket is voided, as PuertaLedger allows: even one that has just entered.
Annul(t) ==
    /\ t \notin annulled
    /\ annulled' = annulled \cup {t}
    /\ UNCHANGED <<entered, refused, sync, page, queue, used, fetch, greens, trouble>>

Weather ==
    /\ trouble' = ~trouble
    /\ UNCHANGED <<server, sync, page, queue, used, fetch, greens>>

---------------------------------------------------------------------------

FlushStep(d) ==
    \/ FlushStart(d) \/ RemoveQueued(d) \/ RefreshPending(d)
    \/ \E c \in Calls : GotReply(d, c)
    \/ DoorSnapshot(d, "flush") \/ SaveSnapshot(d, "flush")

PageStep(d) ==
    \/ \E k \in Tasks, s \in Scans : Scan(d, k, s)
    \/ \E k \in Tasks : Add(d, k) \/ Show(d, k)
    \/ LoadPending(d) \/ RefreshTimer(d)
    \/ DoorSnapshot(d, "page") \/ SaveSnapshot(d, "page")

Failure(d) == PostLost(d) \/ Reopen(d) \/ \E k \in Fetchers : FetchLost(d, k)

Next ==
    \/ \E d \in Devices : PageStep(d) \/ FlushStep(d) \/ Failure(d)
    \/ \E c \in Calls : ServeItem(c) \/ Reply(c) \/ ServeFail(c)
    \/ \E t \in Tickets : Annul(t)
    \/ Weather

Spec == Init /\ [][Next]_vars

\* The timers fire, the event loop runs what is ready, the server answers.
FairSpec ==
    /\ Spec
    /\ \A d \in Devices : WF_vars(FlushStep(d))
    /\ \A c \in Calls : WF_vars(ServeItem(c)) /\ WF_vars(Reply(c))

---------------------------------------------------------------------------
(* Properties.                                                             *)

CallStates == {"free", "running", "ok", "error"}

TypeOK ==
    /\ entered \subseteq Tickets /\ annulled \subseteq Tickets /\ refused \subseteq Tickets
    /\ calls \in [Calls -> [at : CallStates, from : Devices \cup {Nobody}, todo : SUBSET Scans]]
    /\ snap \in [Devices -> Snapshots \cup {NoSnapshot}]
    /\ queue \in [Devices -> SUBSET Items] /\ shown \in [Devices -> SUBSET Items]
    /\ sent \in [Devices -> SUBSET Items]
    /\ used \in [Devices -> 0..MaxItems]
    /\ task \in [Devices -> [Tasks -> [at : {"idle", "adding", "showing"}, s : Scans]]]
    /\ flush \in [Devices -> FlushSteps]
    /\ fetch \in [Devices -> [Fetchers -> [at : {"none", "boot", "asked", "read"},
                                          what : Snapshots \cup {NoSnapshot}]]]
    /\ greens \in [Devices -> [Scans -> Nat]]
    /\ trouble \in BOOLEAN

\* The scans the server has dealt with: their tickets are in or void, or their
\* signature was found false.
Handled == {s \in Scans : s.t \in IF s.good THEN entered \cup annulled ELSE refused}

\* Whoever was shown green is never forgotten, with answers lost, batches that fail
\* halfway and the page closed at any moment: the scan is still in the queue of the
\* device, or the server has dealt with it.  For a QR whose signature is true that is
\* an entry, or a void ticket.  One whose signature is false was let in and leaves
\* the queue by the answer "invalid" (handlers_checkins.go:220), which no device shows.
GreenIsKept ==
    \A d \in Devices, s \in Scans :
        greens[d][s] > 0 => s \in Scanned(queue[d]) \cup Handled

\* Nobody is turned away without a reason: what a device takes for used is in its
\* queue or known to the server.  The one red that has none left is that of an item
\* the server has answered for, perhaps that it was invalid: it lasts while the flush
\* that has removed the item reads the queue again (useDoorStore.ts:94-95).
RedHasReason ==
    \A d \in Devices :
        /\ \A i \in shown[d] : i \in queue[d] \/ (flush[d] = "showing" /\ i.s \in Handled)
        /\ snap[d] # NoSnapshot => /\ snap[d].entered \subseteq entered
                                   /\ snap[d].annulled \subseteq annulled

\* Once the troubles are over, every queued item reaches the server, which deals with
\* it before it leaves the queue (README: "la cola se sincroniza ... al volver la
\* conexion (tambien cada 15 s y al encolar)").  One thing alone keeps an item away
\* for ever: the whole queue is sent in one request, and over maxSyncBatch the server
\* refuses it.
QueueReachesServer ==
    <>[](~trouble) =>
        \A d \in Devices, i \in Items :
            i \in queue[d] ~> \/ i \notin queue[d] /\ i.s \in Handled
                              \/ Cardinality(queue[d]) > MaxBatch

\* A scan is green when its code "no está en el set local de usados" (docs/spec.md:167):
\* a device lets a ticket in once.
OneGreenPerDevice ==
    \A d \in Devices, s \in Scans : s.good => greens[d][s] <= 1
=============================================================================
