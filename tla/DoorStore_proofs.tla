-------------------------- MODULE DoorStore_proofs --------------------------
(***************************************************************************)
(* Proofs about DoorStore, for any number of devices, tickets, sync        *)
(* requests and check-ins under way, and any bound on what is queued.      *)
(***************************************************************************)
EXTENDS DoorStore, FiniteSetTheorems, TLAPS

---------------------------------------------------------------------------
(* The inductive invariant.                                                *)

\* There is an id for every check-in that is being queued.
Room == \A d \in Devices : used[d] + Cardinality(Adding(d)) <= MaxItems

\* A batch of a device is the one request the device waits for, and what the batch
\* still holds of the scans that were sent is what the server has not dealt with.
Posted == \A c \in Calls, d \in Devices : calls[c].from = d =>
    /\ flush[d] = "posting" /\ calls[c].at # "free"
    /\ \A x \in Calls : calls[x].from = d => x = c
    /\ calls[c].at = "running" => Scanned(sent[d]) \subseteq calls[c].todo \cup Handled
    /\ calls[c].at = "ok" => Scanned(sent[d]) \subseteq Handled

\* What is about to leave the queue has been dealt with.
Answered == \A d \in Devices : flush[d] = "removing" => Scanned(sent[d]) \subseteq Handled

\* What is about to turn green is in the queue.
Queued == \A d \in Devices, k \in Tasks :
    task[d][k].at = "showing" => task[d][k].s \in Scanned(queue[d]) \cup Handled

\* A snapshot never shows more than the server knows.
Known(x) == x # NoSnapshot => x.entered \subseteq entered /\ x.annulled \subseteq annulled
Fetched == \A d \in Devices, k \in Fetchers : Known(fetch[d][k].what)

\* Only a flush that has emptied its batch asks for a snapshot.
Flushed == \A d \in Devices : fetch[d]["flush"].at # "none" => flush[d] = "fetching"

IInv == /\ TypeOK /\ Room /\ Posted /\ Answered /\ Queued /\ Fetched /\ Flushed
        /\ GreenIsKept /\ RedHasReason

---------------------------------------------------------------------------
(* Types.                                                                  *)

Task == [at : {"idle", "adding", "showing"}, s : Scans]
Fetching == [at : {"none", "boot", "asked", "read"}, what : Snapshots \cup {NoSnapshot}]
Call == [at : CallStates, from : Devices \cup {Nobody}, todo : SUBSET Scans]

LEMMA Values ==
  /\ AnyScan \in Scans
  /\ NoTask \in Task
  /\ NoFetch \in Fetching /\ Opening \in [Fetchers -> Fetching]
  /\ FreeCall \in Call
<1>1. AnyScan \in Scans
  <2>1. PICK t \in Tickets : TRUE
    BY DoorStoreAssumption
  <2>2. [t |-> t, good |-> TRUE] \in Scans
    BY DEF Scans
  <2>3. QED
    BY <2>2 DEF AnyScan
<1>2. QED
  BY <1>1 DEF NoTask, Task, NoFetch, Fetch, Fetching, Opening, FreeCall, Call, CallStates

LEMMA ScannedType == ASSUME NEW Q \in SUBSET Items PROVE Scanned(Q) \subseteq Scans
  BY DEF Scanned, Items

LEMMA OrphanType ==
  ASSUME TypeOK, NEW d \in Devices
  PROVE  Orphan(d) \in [Calls -> Call]
<1> SUFFICES ASSUME NEW c \in Calls PROVE Orphan(d)[c] \in Call
  BY DEF Orphan
<1>1. calls[c] \in Call
  BY DEF TypeOK, Call
<1>2. [calls[c] EXCEPT !.from = Nobody] \in Call
  BY <1>1 DEF Call
<1>3. QED
  BY <1>1, <1>2, Values DEF Orphan

\* The tasks, the fetches and the calls are only changed one at a time.
LEMMA TypeInit == Init => TypeOK
<1> SUFFICES ASSUME Init PROVE TypeOK
  OBVIOUS
<1>1. task \in [Devices -> [Tasks -> Task]]
  BY Values DEF Init
<1>2. fetch \in [Devices -> [Fetchers -> Fetching]]
  BY Values DEF Init
<1>3. calls \in [Calls -> Call]
  BY Values DEF Init
<1>4. trouble \in BOOLEAN
  BY Zenon DEF Init
<1>5. /\ greens \in [Devices -> [Scans -> Nat]] /\ used \in [Devices -> 0..MaxItems]
      /\ flush \in [Devices -> FlushSteps]
  BY DoorStoreAssumption DEF Init, FlushSteps
<1>6. /\ queue \in [Devices -> SUBSET Items] /\ shown \in [Devices -> SUBSET Items]
      /\ sent \in [Devices -> SUBSET Items] /\ snap \in [Devices -> Snapshots \cup {NoSnapshot}]
      /\ entered \subseteq Tickets /\ annulled \subseteq Tickets /\ refused \subseteq Tickets
  BY DEF Init
<1>7. QED
  BY <1>1, <1>2, <1>3, <1>4, <1>5, <1>6 DEF TypeOK, Task, Fetching, Call

LEMMA EndFetchType ==
  ASSUME TypeOK, NEW d \in Devices, NEW k \in Fetchers, EndFetch(d, k)
  PROVE  /\ fetch' \in [Devices -> [Fetchers -> Fetching]]
         /\ flush' \in [Devices -> FlushSteps]
  BY Values DEF EndFetch, TypeOK, Fetching, FlushSteps

LEMMA GiveUpType ==
  ASSUME TypeOK, NEW d \in Devices, GiveUp(d)
  PROVE  flush' \in [Devices -> FlushSteps] /\ sent' \in [Devices -> SUBSET Items]
  BY DEF GiveUp, TypeOK, FlushSteps

\* A fetch that moves on keeps what it has read, and the other fetches wait.
LEMMA FetchMoves ==
  ASSUME TypeOK, NEW d \in Devices, NEW k \in Fetchers,
         NEW step \in {"none", "boot", "asked", "read"},
         fetch' = [fetch EXCEPT ![d][k].at = step]
  PROVE  /\ fetch' \in [Devices -> [Fetchers -> Fetching]]
         /\ \A e \in Devices, x \in Fetchers :
               /\ fetch'[e][x].what = fetch[e][x].what
               /\ fetch'[e][x].at = IF e = d /\ x = k THEN step ELSE fetch[e][x].at
<1>1. fetch \in [Devices -> [Fetchers -> Fetching]] /\ fetch[d][k] \in Fetching
  BY DEF TypeOK, Fetching
<1> DEFINE f == [fetch[d][k] EXCEPT !.at = step]
<1>2. fetch' = [fetch EXCEPT ![d] = [fetch[d] EXCEPT ![k] = f]]
  BY <1>1
<1>3. f \in Fetching /\ f.what = fetch[d][k].what /\ f.at = step
  BY <1>1 DEF Fetching
<1> HIDE DEF f
<1>4. fetch' \in [Devices -> [Fetchers -> Fetching]]
  BY <1>1, <1>2, <1>3
<1>5. ASSUME NEW e \in Devices, NEW x \in Fetchers
      PROVE  /\ fetch'[e][x].what = fetch[e][x].what
             /\ fetch'[e][x].at = IF e = d /\ x = k THEN step ELSE fetch[e][x].at
  BY <1>1, <1>2, <1>3
<1>6. QED
  BY <1>4, <1>5

\* A check-in that is queued goes on to its green screen.
LEMMA TaskMoves ==
  ASSUME TypeOK, NEW d \in Devices, NEW k \in Tasks, Add(d, k)
  PROVE  /\ task' \in [Devices -> [Tasks -> Task]]
         /\ \A e \in Devices, x \in Tasks :
               /\ task'[e][x].s = task[e][x].s
               /\ task'[e][x].at = IF e = d /\ x = k THEN "showing" ELSE task[e][x].at
<1>1. task \in [Devices -> [Tasks -> Task]] /\ task[d][k] \in Task
  BY DEF TypeOK, Task
<1> DEFINE q == [task[d][k] EXCEPT !.at = "showing"]
<1>2. task' = [task EXCEPT ![d] = [task[d] EXCEPT ![k] = q]]
  BY <1>1 DEF Add
<1>3. q \in Task /\ q.s = task[d][k].s /\ q.at = "showing"
  BY <1>1 DEF Task
<1> HIDE DEF q
<1>4. task' \in [Devices -> [Tasks -> Task]]
  BY <1>1, <1>2, <1>3
<1>5. ASSUME NEW e \in Devices, NEW x \in Tasks
      PROVE  /\ task'[e][x].s = task[e][x].s
             /\ task'[e][x].at = IF e = d /\ x = k THEN "showing" ELSE task[e][x].at
  BY <1>1, <1>2, <1>3
<1>6. QED
  BY <1>4, <1>5

\* How many check-ins are being queued is a number.
LEMMA AddingCount ==
  ASSUME TypeOK, NEW d \in Devices
  PROVE  /\ IsFiniteSet(Adding(d)) /\ Cardinality(Adding(d)) \in Nat
         /\ \A k \in Adding(d) : Cardinality(Adding(d)) >= 1
<1>1. IsFiniteSet(Adding(d))
  BY DoorStoreAssumption, FS_Subset DEF Adding
<1>2. Cardinality(Adding(d)) \in Nat /\ (Cardinality(Adding(d)) = 0 <=> Adding(d) = {})
  BY <1>1, FS_CardinalityType, FS_EmptySet
<1>3. QED
  BY <1>1, <1>2

\* The devices keep the types.
LEMMA PageTypes ==
  ASSUME TypeOK, Room, NEW d \in Devices, PageStep(d)
  PROVE  TypeOK'
<1> USE DEF server, page, sync
<1>1. ASSUME NEW k \in Tasks, NEW s \in Scans, Scan(d, k, s) PROVE TypeOK'
  <2>1. task' \in [Devices -> [Tasks -> Task]]
    BY <1>1 DEF Scan, TypeOK, Task
  <2>2. QED
    BY <1>1, <2>1 DEF Scan, TypeOK, Task
<1>2. ASSUME NEW k \in Tasks, Show(d, k) PROVE TypeOK'
  <2>1. task' \in [Devices -> [Tasks -> Task]]
    BY <1>2, Values DEF Show, TypeOK, Task
  <2>2. shown' \in [Devices -> SUBSET Items] /\ greens' \in [Devices -> [Scans -> Nat]]
    BY <1>2 DEF Show, TypeOK
  <2>3. QED
    BY <1>2, <2>1, <2>2 DEF Show, TypeOK, Task
<1>3. CASE LoadPending(d) \/ RefreshTimer(d)
  <2>1. fetch' \in [Devices -> [Fetchers -> Fetching]]
    BY <1>3, FetchMoves DEF LoadPending, RefreshTimer, Fetchers
  <2>2. shown' \in [Devices -> SUBSET Items]
    BY <1>3 DEF LoadPending, RefreshTimer, TypeOK
  <2>3. QED
    BY <1>3, <2>1, <2>2 DEF LoadPending, RefreshTimer, TypeOK, Fetching
<1>4. ASSUME NEW k \in Tasks, Add(d, k) PROVE TypeOK'
  <2>1. used[d] \in 0..MaxItems /\ used[d] + 1 <= MaxItems /\ MaxItems \in Nat
    <3>1. k \in Adding(d)
      BY <1>4 DEF Add, Adding
    <3>2. QED
      BY <3>1, AddingCount, DoorStoreAssumption DEF Room, TypeOK
  <2>2. used[d] + 1 \in 1..MaxItems /\ used' \in [Devices -> 0..MaxItems]
    BY <1>4, <2>1 DEF Add, TypeOK
  <2>3. [id |-> used[d] + 1, s |-> task[d][k].s] \in Items
    BY <2>2 DEF Items, TypeOK
  <2>4. queue' \in [Devices -> SUBSET Items]
    BY <1>4, <2>3 DEF Add, TypeOK
  <2>5. task' \in [Devices -> [Tasks -> Task]]
    BY <1>4, TaskMoves
  <2>6. QED
    BY <1>4, <2>2, <2>4, <2>5 DEF Add, TypeOK, Task
<1>5. ASSUME NEW k \in Fetchers, DoorSnapshot(d, k) PROVE TypeOK'
  <2>1. fetch' \in [Devices -> [Fetchers -> Fetching]]
    BY <1>5 DEF DoorSnapshot, TypeOK, Fetching, Snapshots
  <2>2. QED
    BY <1>5, <2>1 DEF DoorSnapshot, TypeOK, Fetching
<1>6. ASSUME NEW k \in Fetchers, SaveSnapshot(d, k) PROVE TypeOK'
  <2>1. snap' \in [Devices -> Snapshots \cup {NoSnapshot}]
    BY <1>6 DEF SaveSnapshot, TypeOK
  <2>2. QED
    BY <1>6, <2>1, EndFetchType DEF SaveSnapshot, TypeOK, Fetching
<1>7. QED
  BY <1>1, <1>2, <1>3, <1>4, <1>5, <1>6 DEF PageStep, Fetchers

LEMMA FlushTypes ==
  ASSUME TypeOK, Room, NEW d \in Devices, FlushStep(d)
  PROVE  TypeOK'
<1> USE DEF server, page, sync
<1>1. CASE FlushStart(d)
  <2>1. calls' \in [Calls -> Call]
    <3>1. Scanned(queue[d]) \in SUBSET Scans
      BY ScannedType DEF TypeOK
    <3>2. QED
      BY <1>1, <3>1 DEF FlushStart, TypeOK, Call, CallStates
  <2>2. sent' \in [Devices -> SUBSET Items] /\ flush' \in [Devices -> FlushSteps]
    BY <1>1 DEF FlushStart, TypeOK, FlushSteps
  <2>3. QED
    BY <1>1, <2>1, <2>2 DEF FlushStart, TypeOK, Call
<1>2. CASE RemoveQueued(d)
  <2>1. /\ sent' \in [Devices -> SUBSET Items] /\ flush' \in [Devices -> FlushSteps]
        /\ queue' \in [Devices -> SUBSET Items]
    BY <1>2 DEF RemoveQueued, TypeOK, FlushSteps
  <2>2. QED
    BY <1>2, <2>1 DEF RemoveQueued, TypeOK
<1>3. CASE RefreshPending(d)
  <2>1. fetch' \in [Devices -> [Fetchers -> Fetching]]
    BY <1>3, FetchMoves DEF RefreshPending, Fetchers
  <2>2. shown' \in [Devices -> SUBSET Items] /\ flush' \in [Devices -> FlushSteps]
    BY <1>3 DEF RefreshPending, TypeOK, FlushSteps
  <2>3. QED
    BY <1>3, <2>1, <2>2 DEF RefreshPending, TypeOK, Fetching
<1>4. ASSUME NEW c \in Calls, GotReply(d, c) PROVE TypeOK'
  <2>1. calls' \in [Calls -> Call]
    BY <1>4, Values DEF GotReply, TypeOK, Call
  <2>2. sent' \in [Devices -> SUBSET Items] /\ flush' \in [Devices -> FlushSteps]
    BY <1>4, GiveUpType DEF GotReply, TypeOK, FlushSteps
  <2>3. QED
    BY <1>4, <2>1, <2>2 DEF GotReply, TypeOK, Call
<1>5. CASE DoorSnapshot(d, "flush")
  <2>1. fetch' \in [Devices -> [Fetchers -> Fetching]]
    BY <1>5 DEF DoorSnapshot, TypeOK, Fetching, Snapshots, Fetchers
  <2>2. QED
    BY <1>5, <2>1 DEF DoorSnapshot, TypeOK, Fetching
<1>6. CASE SaveSnapshot(d, "flush")
  <2>1. snap' \in [Devices -> Snapshots \cup {NoSnapshot}]
    BY <1>6 DEF SaveSnapshot, TypeOK, Fetchers
  <2>2. QED
    BY <1>6, <2>1, EndFetchType DEF SaveSnapshot, TypeOK, Fetching, Fetchers
<1>7. QED
  BY <1>1, <1>2, <1>3, <1>4, <1>5, <1>6 DEF FlushStep

LEMMA FailureTypes ==
  ASSUME TypeOK, NEW d \in Devices, Failure(d)
  PROVE  TypeOK'
<1> USE DEF server, page, sync
<1>1. CASE PostLost(d)
  BY <1>1, GiveUpType, OrphanType DEF PostLost, TypeOK, Call
<1>2. CASE Reopen(d)
  <2>1. /\ shown' \in [Devices -> SUBSET Items]
        /\ task' \in [Devices -> [Tasks -> Task]]
        /\ fetch' \in [Devices -> [Fetchers -> Fetching]]
    BY <1>2, Values DEF Reopen, TypeOK, Task, Fetching
  <2>2. QED
    BY <1>2, <2>1, GiveUpType, OrphanType DEF Reopen, TypeOK, Call, Task, Fetching
<1>3. ASSUME NEW k \in Fetchers, FetchLost(d, k) PROVE TypeOK'
  BY <1>3, EndFetchType DEF FetchLost, TypeOK, Fetching
<1>4. QED
  BY <1>1, <1>2, <1>3 DEF Failure

\* The server serves an item: the rest of the batch is left.
LEMMA ServeMoves ==
  ASSUME TypeOK, NEW c \in Calls, NEW t,
         calls' = [calls EXCEPT ![c].todo = calls[c].todo \ {t}]
  PROVE  /\ calls' \in [Calls -> Call]
         /\ \A x \in Calls : /\ calls'[x].at = calls[x].at /\ calls'[x].from = calls[x].from
                             /\ calls'[x].todo = IF x = c THEN calls[c].todo \ {t} ELSE calls[x].todo
<1>1. calls \in [Calls -> Call] /\ calls[c] \in Call
  BY DEF TypeOK, Call
<1> DEFINE q == [calls[c] EXCEPT !.todo = calls[c].todo \ {t}]
<1>2. calls' = [calls EXCEPT ![c] = q]
  BY <1>1
<1>3. q \in Call /\ q.at = calls[c].at /\ q.from = calls[c].from /\ q.todo = calls[c].todo \ {t}
  BY <1>1 DEF Call
<1> HIDE DEF q
<1>4. QED
  BY <1>1, <1>2, <1>3

LEMMA EndCallMoves ==
  ASSUME TypeOK, NEW c \in Calls, NEW outcome \in {"ok", "error"}, EndCall(c, outcome)
  PROVE  /\ calls' \in [Calls -> Call]
         /\ \A x \in Calls : calls'[x].from = calls[x].from /\ (x # c => calls'[x] = calls[x])
         /\ calls[c].from # Nobody => calls'[c].at = outcome
<1>1. calls \in [Calls -> Call] /\ calls[c] \in Call
  BY DEF TypeOK, Call
<1> DEFINE q == IF calls[c].from = Nobody THEN FreeCall
                ELSE [calls[c] EXCEPT !.at = outcome, !.todo = {}]
<1>2. calls' = [calls EXCEPT ![c] = q]
  BY <1>1 DEF EndCall
<1>3. q \in Call /\ q.from = calls[c].from /\ (calls[c].from # Nobody => q.at = outcome)
  BY <1>1, Values DEF Call, CallStates, FreeCall
<1> HIDE DEF q
<1>4. QED
  BY <1>1, <1>2, <1>3

LEMMA ServerTypes ==
  ASSUME TypeOK
  PROVE  /\ \A c \in Calls : ServeItem(c) \/ Reply(c) \/ ServeFail(c) => TypeOK'
         /\ \A t \in Tickets : Annul(t) => TypeOK'
         /\ Weather => TypeOK'
<1> USE DEF server, page, sync
<1>1. ASSUME NEW c \in Calls, ServeItem(c) PROVE TypeOK'
  <2>1. PICK s \in calls[c].todo :
          /\ calls' = [calls EXCEPT ![c].todo = calls[c].todo \ {s}]
          /\ refused' = IF s.good THEN refused ELSE refused \cup {s.t}
          /\ entered' = IF s.good /\ s.t \notin annulled THEN entered \cup {s.t} ELSE entered
    BY <1>1 DEF ServeItem, TypeOK
  <2>2. s \in Scans
    BY <2>1 DEF TypeOK
  <2>3. s.t \in Tickets
    BY <2>2, DoorStoreAssumption DEF Scans
  <2>4. QED
    BY <1>1, <2>1, <2>2, <2>3, ServeMoves DEF ServeItem, TypeOK, Call
<1>2. ASSUME NEW c \in Calls, Reply(c) \/ ServeFail(c) PROVE TypeOK'
  <2>1. \E outcome \in {"ok", "error"} : EndCall(c, outcome)
    BY <1>2 DEF Reply, ServeFail
  <2>2. QED
    BY <2>1, EndCallMoves DEF EndCall, TypeOK, Call
<1>3. ASSUME NEW t \in Tickets, Annul(t) PROVE TypeOK'
  BY <1>3 DEF Annul, TypeOK
<1>4. ASSUME Weather PROVE TypeOK'
  <2>1. trouble' \in BOOLEAN
    BY <1>4, Zenon DEF Weather, TypeOK
  <2>2. QED
    BY <1>4, <2>1 DEF Weather, TypeOK
<1>5. QED
  BY <1>1, <1>2, <1>3, <1>4

---------------------------------------------------------------------------
(* What a step leaves alone stays true, because the server forgets nothing.*)

Grows == /\ entered \subseteq entered' /\ annulled \subseteq annulled'
         /\ refused \subseteq refused'

\* A flush that has yet to read the queue again goes on waiting.
FlagStays == \A e \in Devices : flush[e] = "showing" => flush'[e] = "showing"

LEMMA HandledGrows == ASSUME Grows PROVE Handled \subseteq Handled'
  BY DEF Grows, Handled

LEMMA SyncKeeps ==
  ASSUME IInv, Grows, UNCHANGED sync
  PROVE  Posted' /\ Answered'
<1>1. Posted'
  BY DEF IInv, Posted, Grows, sync, Handled, Scanned
<1>2. Answered'
  BY DEF IInv, Answered, Grows, sync, Handled, Scanned
<1>3. QED
  BY <1>1, <1>2

LEMMA TasksKeep ==
  ASSUME IInv, Grows, UNCHANGED <<queue, used, task, greens>>
  PROVE  Room' /\ Queued' /\ GreenIsKept'
<1>1. Room'
  BY DEF IInv, Room, Adding
<1>2. Queued'
  BY DEF IInv, Queued, Grows, Handled, Scanned
<1>3. GreenIsKept'
  BY DEF IInv, GreenIsKept, Grows, Handled, Scanned
<1>4. QED
  BY <1>1, <1>2, <1>3

LEMMA FetchedKeeps ==
  ASSUME IInv, Grows, UNCHANGED <<fetch, flush>>
  PROVE  Fetched' /\ Flushed'
  BY DEF IInv, Fetched, Flushed, Known, Grows

LEMMA RedKeeps ==
  ASSUME IInv, Grows, FlagStays, UNCHANGED <<snap, shown, queue>>
  PROVE  RedHasReason'
  BY HandledGrows DEF IInv, RedHasReason, Grows, FlagStays

\* A page that reads its queue again shows what is in it.
LEMMA ShownAgain ==
  ASSUME IInv, Grows, NEW d \in Devices, UNCHANGED <<snap, queue>>,
         \A e \in Devices : e # d => flush'[e] = flush[e],
         shown' = [shown EXCEPT ![d] = queue[d]]
  PROVE  RedHasReason'
<1>1. \A e \in Devices : shown'[e] = IF e = d THEN queue[e] ELSE shown[e]
  BY DEF IInv, TypeOK
<1>2. QED
  BY <1>1, HandledGrows DEF IInv, RedHasReason, Grows

---------------------------------------------------------------------------
(* The devices.                                                            *)

LEMMA ScanKeeps ==
  ASSUME IInv, NEW d \in Devices, NEW k \in Tasks, NEW s \in Scans, Scan(d, k, s)
  PROVE  IInv'
<1>1. TypeOK'
  BY PageTypes DEF IInv, PageStep
<1>2. /\ Grows /\ FlagStays
      /\ UNCHANGED <<flush, sync, fetch, snap, shown, queue, used, greens, server>>
  BY DEF sync, Scan, Grows, FlagStays, server
<1>3. Posted' /\ Answered' /\ Fetched' /\ Flushed' /\ RedHasReason'
  BY <1>2, SyncKeeps, FetchedKeeps, RedKeeps
<1>4. \A e \in Devices, x \in Tasks :
        task'[e][x] = IF e = d /\ x = k THEN [at |-> "adding", s |-> s] ELSE task[e][x]
  BY DEF Scan, IInv, TypeOK
<1>5. Room'
  <2>1. \A e \in Devices : Adding(e)' = IF e = d THEN Adding(e) \cup {k} ELSE Adding(e)
    BY <1>4 DEF Adding
  <2>2. k \notin Adding(d) /\ used[d] + Cardinality(Adding(d)) < MaxItems
    BY DEF Scan, Adding
  <2>3. Cardinality(Adding(d) \cup {k}) = Cardinality(Adding(d)) + 1
    BY <2>2, AddingCount, FS_AddElement DEF IInv
  <2>4. /\ used[d] \in Nat /\ Cardinality(Adding(d)) \in Nat /\ MaxItems \in Nat
    BY AddingCount, DoorStoreAssumption DEF IInv, TypeOK
  <2>5. used[d] + Cardinality(Adding(d) \cup {k}) <= MaxItems
    BY <2>2, <2>3, <2>4
  <2>6. QED
    BY <1>2, <2>1, <2>5 DEF Room, IInv
<1>6. Queued'
  BY <1>2, <1>4 DEF IInv, Queued, Handled, Scanned, server
<1>7. GreenIsKept'
  BY <1>2 DEF IInv, GreenIsKept, Handled, Scanned, server
<1>8. QED
  BY <1>1, <1>3, <1>5, <1>6, <1>7 DEF IInv

LEMMA AddKeeps ==
  ASSUME IInv, NEW d \in Devices, NEW k \in Tasks, Add(d, k)
  PROVE  IInv'
<1> DEFINE item == [id |-> used[d] + 1, s |-> task[d][k].s]
<1>1. TypeOK'
  BY PageTypes DEF IInv, PageStep
<1>2. Grows /\ UNCHANGED <<flush, sync, fetch, snap, shown, greens, server>>
  BY DEF sync, Add, Grows, server
<1>3. Posted' /\ Answered' /\ Fetched' /\ Flushed'
  BY <1>2, SyncKeeps, FetchedKeeps
<1>4. \A e \in Devices : queue'[e] = IF e = d THEN queue[e] \cup {item} ELSE queue[e]
  BY DEF Add, IInv, TypeOK
<1>5. item.s = task[d][k].s
  OBVIOUS
<1> HIDE DEF item
<1>6. ASSUME NEW e \in Devices, NEW s \in Scanned(queue[e]) PROVE s \in Scanned(queue'[e])
  BY <1>4 DEF Scanned
<1>7. task[d][k].s \in Scanned(queue'[d])
  BY <1>4, <1>5 DEF Scanned
<1>8. TypeOK
  BY DEF IInv
<1>9. \A e \in Devices, x \in Tasks :
        /\ task'[e][x].s = task[e][x].s
        /\ task'[e][x].at = IF e = d /\ x = k THEN "showing" ELSE task[e][x].at
  BY <1>8, TaskMoves
<1>10. Room'
  <2>1. \A e \in Devices : Adding(e)' = IF e = d THEN Adding(e) \ {k} ELSE Adding(e)
    BY <1>9 DEF Adding
  <2>2. k \in Adding(d)
    BY DEF Add, Adding
  <2>3. Cardinality(Adding(d) \ {k}) = Cardinality(Adding(d)) - 1
    BY <2>2, AddingCount, FS_RemoveElement DEF IInv
  <2>4. \A e \in Devices : used'[e] = IF e = d THEN used[e] + 1 ELSE used[e]
    BY DEF Add, IInv, TypeOK
  <2>5. /\ used[d] \in Nat /\ Cardinality(Adding(d)) \in Nat /\ MaxItems \in Nat
        /\ used[d] + Cardinality(Adding(d)) <= MaxItems
    BY AddingCount, DoorStoreAssumption DEF IInv, TypeOK, Room
  <2>6. (used[d] + 1) + Cardinality(Adding(d) \ {k}) <= MaxItems
    BY <2>3, <2>5
  <2>7. QED
    BY <2>1, <2>4, <2>6 DEF Room, IInv
<1>11. Queued'
  <2> SUFFICES ASSUME NEW e \in Devices, NEW x \in Tasks, task'[e][x].at = "showing"
               PROVE  task'[e][x].s \in Scanned(queue'[e]) \cup Handled'
    BY DEF Queued, Scanned
  <2>1. CASE e = d /\ x = k
    BY <1>7, <1>9, <2>1
  <2>2. CASE ~(e = d /\ x = k)
    BY <1>2, <1>6, <1>9, <2>2 DEF IInv, Queued, Handled, server
  <2>3. QED
    BY <2>1, <2>2
<1>12. GreenIsKept'
  <2> SUFFICES ASSUME NEW e \in Devices, NEW s \in Scans, greens'[e][s] > 0
               PROVE  s \in Scanned(queue'[e]) \cup Handled'
    BY DEF GreenIsKept, Scanned
  <2>1. QED
    BY <1>2, <1>6 DEF IInv, GreenIsKept, Handled, server
<1>13. RedHasReason'
  <2>1. \A e \in Devices : queue[e] \subseteq queue'[e]
    BY <1>4
  <2>2. QED
    BY <1>2, <2>1, HandledGrows DEF IInv, RedHasReason, server
<1>14. QED
  BY <1>1, <1>3, <1>10, <1>11, <1>12, <1>13 DEF IInv

\* Only what is in the queue, or has been dealt with since, turns green.
LEMMA ShowKeeps ==
  ASSUME IInv, NEW d \in Devices, NEW k \in Tasks, Show(d, k)
  PROVE  IInv'
<1>1. TypeOK'
  BY PageTypes DEF IInv, PageStep
<1>2. Grows /\ UNCHANGED <<flush, sync, fetch, snap, queue, used, server>>
  BY DEF sync, Show, Grows, server
<1>3. Posted' /\ Answered' /\ Fetched' /\ Flushed'
  BY <1>2, SyncKeeps, FetchedKeeps
<1>4. RedHasReason'
  BY <1>2, ShownAgain DEF Show, sync
<1>5. \A e \in Devices, x \in Tasks :
        task'[e][x] = IF e = d /\ x = k THEN NoTask ELSE task[e][x]
  BY DEF Show, IInv, TypeOK
<1>6. Room'
  <2>1. \A e \in Devices : Adding(e)' = Adding(e)
    BY <1>5 DEF Adding, NoTask, Show
  <2>2. QED
    BY <1>2, <2>1 DEF Room, IInv
<1>7. Queued'
  BY <1>2, <1>5 DEF IInv, Queued, Handled, Scanned, server, NoTask
<1>8. GreenIsKept'
  <2>1. \A e \in Devices, s \in Scans :
          greens'[e][s] = IF e = d /\ s = task[d][k].s THEN greens[e][s] + 1 ELSE greens[e][s]
    BY DEF Show, IInv, TypeOK
  <2>2. task[d][k].s \in Scanned(queue[d]) \cup Handled
    BY DEF Show, IInv, Queued
  <2>3. QED
    BY <1>2, <2>1, <2>2 DEF IInv, GreenIsKept, Handled, Scanned, server
<1>9. QED
  BY <1>1, <1>3, <1>4, <1>6, <1>7, <1>8 DEF IInv

LEMMA LoadKeeps ==
  ASSUME IInv, NEW d \in Devices, LoadPending(d) \/ RefreshTimer(d)
  PROVE  IInv'
<1>1. TypeOK'
  BY PageTypes DEF IInv, PageStep
<1>2. Grows /\ UNCHANGED <<sync, snap, queue, used, task, greens, server>>
  BY DEF LoadPending, RefreshTimer, Grows, server, page
<1>3. Posted' /\ Answered' /\ Room' /\ Queued' /\ GreenIsKept'
  BY <1>2, SyncKeeps, TasksKeep
<1>4. RedHasReason'
  BY <1>2, ShownAgain, RedKeeps DEF LoadPending, RefreshTimer, page, sync, FlagStays
<1>5. Fetched' /\ Flushed'
  <2>1. \A e \in Devices, x \in Fetchers :
          /\ fetch'[e][x].what = fetch[e][x].what
          /\ x # "page" => fetch'[e][x].at = fetch[e][x].at
    BY FetchMoves DEF LoadPending, RefreshTimer, Fetchers, IInv
  <2>2. Fetched'
    BY <1>2, <2>1 DEF Fetched, Known, IInv, server
  <2>3. Flushed'
    BY <1>2, <2>1 DEF Flushed, IInv, sync, Fetchers
  <2>4. QED
    BY <2>2, <2>3
<1>6. QED
  BY <1>1, <1>3, <1>4, <1>5 DEF IInv

LEMMA DoorSnapshotKeeps ==
  ASSUME IInv, NEW d \in Devices, NEW k \in Fetchers, DoorSnapshot(d, k)
  PROVE  IInv'
<1>1. TypeOK'
  BY PageTypes, FlushTypes DEF IInv, PageStep, FlushStep, Fetchers
<1>2. /\ Grows /\ FlagStays
      /\ UNCHANGED <<sync, snap, shown, queue, used, task, greens, server>>
  BY DEF DoorSnapshot, Grows, FlagStays, server, page, sync
<1>3. Posted' /\ Answered' /\ Room' /\ Queued' /\ GreenIsKept' /\ RedHasReason'
  BY <1>2, SyncKeeps, TasksKeep, RedKeeps
<1>4. Fetched' /\ Flushed'
  <2> DEFINE read == [at |-> "read", what |-> [annulled |-> annulled, entered |-> entered]]
  <2>1. \A e \in Devices, x \in Fetchers :
          fetch'[e][x] = IF e = d /\ x = k THEN read ELSE fetch[e][x]
    BY DEF DoorSnapshot, IInv, TypeOK
  <2>2. Fetched'
    BY <1>2, <2>1 DEF Fetched, Known, IInv, server
  <2>3. Flushed'
    BY <1>2, <2>1 DEF Flushed, IInv, sync, DoorSnapshot, Fetchers
  <2>4. QED
    BY <2>2, <2>3
<1>5. QED
  BY <1>1, <1>3, <1>4 DEF IInv

---------------------------------------------------------------------------
(* The queue is pushed to the server.                                      *)

\* A flush that has no request under way moves on.
LEMMA FlagMoves ==
  ASSUME IInv, Grows, NEW d \in Devices, UNCHANGED calls,
         flush[d] # "posting", flush'[d] \notin {"posting", "removing"},
         \A e \in Devices : e # d => flush'[e] = flush[e] /\ sent'[e] = sent[e]
  PROVE  Posted' /\ Answered'
<1>1. Posted'
  <2> SUFFICES ASSUME NEW c \in Calls, NEW e \in Devices, calls[c].from = e
               PROVE  /\ flush'[e] = "posting" /\ calls[c].at # "free"
                      /\ \A x \in Calls : calls[x].from = e => x = c
                      /\ calls[c].at = "running" => Scanned(sent'[e]) \subseteq calls[c].todo \cup Handled'
                      /\ calls[c].at = "ok" => Scanned(sent'[e]) \subseteq Handled'
    BY DEF Posted, Scanned
  <2>1. /\ flush[e] = "posting" /\ calls[c].at # "free"
        /\ \A x \in Calls : calls[x].from = e => x = c
        /\ calls[c].at = "running" => Scanned(sent[e]) \subseteq calls[c].todo \cup Handled
        /\ calls[c].at = "ok" => Scanned(sent[e]) \subseteq Handled
    BY DEF IInv, Posted
  <2>2. e # d
    BY <2>1
  <2>3. QED
    BY <2>1, <2>2 DEF Grows, Handled
<1>2. Answered'
  BY DEF IInv, Answered, Grows, Handled, Scanned
<1>3. QED
  BY <1>1, <1>2

LEMMA FlushStartKeeps ==
  ASSUME IInv, NEW d \in Devices, FlushStart(d)
  PROVE  IInv'
<1>1. TypeOK'
  BY FlushTypes DEF IInv, FlushStep
<1>2. Grows /\ UNCHANGED <<fetch, snap, shown, queue, used, task, greens, server>>
  BY DEF FlushStart, Grows, server, page
<1>3. Room' /\ Queued' /\ GreenIsKept' /\ RedHasReason'
  <2>1. FlagStays
    BY DEF FlushStart, GiveUp, FlagStays, IInv, TypeOK
  <2>2. QED
    BY <1>2, <2>1, TasksKeep, RedKeeps
<1>4. PICK c \in Calls :
        /\ calls[c].at = "free"
        /\ calls' = [calls EXCEPT ![c] =
              [at |-> IF Cardinality(queue[d]) > MaxBatch THEN "error" ELSE "running",
               from |-> d, todo |-> Scanned(queue[d])]]
  BY DEF FlushStart
<1>5. /\ calls'[c].from = d /\ calls'[c].todo = Scanned(queue[d])
      /\ calls'[c].at \in {"error", "running"}
      /\ \A x \in Calls : x # c => calls'[x] = calls[x]
  BY <1>4 DEF IInv, TypeOK
<1>6. flush[d] = "idle" /\ \A e \in Devices :
        /\ flush'[e] = IF e = d THEN "posting" ELSE flush[e]
        /\ sent'[e] = IF e = d THEN queue[e] ELSE sent[e]
  BY DEF FlushStart, IInv, TypeOK
<1>7. \A x \in Calls : calls[x].from # d
  BY <1>6 DEF IInv, Posted
<1>8. Posted'
  <2> SUFFICES ASSUME NEW b \in Calls, NEW e \in Devices, calls'[b].from = e
               PROVE  /\ flush'[e] = "posting" /\ calls'[b].at # "free"
                      /\ \A x \in Calls : calls'[x].from = e => x = b
                      /\ calls'[b].at = "running" => Scanned(sent'[e]) \subseteq calls'[b].todo \cup Handled
                      /\ calls'[b].at = "ok" => Scanned(sent'[e]) \subseteq Handled
    BY <1>2 DEF Posted, Scanned, Handled, server
  <2>1. CASE b = c
    BY <1>5, <1>6, <1>7, <2>1
  <2>2. CASE b # c
    <3>1. calls[b].from = e /\ e # d
      BY <1>5, <1>7, <2>2
    <3>2. /\ flush[e] = "posting" /\ calls[b].at # "free"
          /\ \A x \in Calls : calls[x].from = e => x = b
          /\ calls[b].at = "running" => Scanned(sent[e]) \subseteq calls[b].todo \cup Handled
          /\ calls[b].at = "ok" => Scanned(sent[e]) \subseteq Handled
      BY <3>1 DEF IInv, Posted
    <3>3. QED
      BY <1>5, <1>6, <2>2, <3>1, <3>2
  <2>3. QED
    BY <2>1, <2>2
<1>9. Answered' /\ Fetched' /\ Flushed'
  BY <1>2, <1>6 DEF IInv, Answered, Fetched, Flushed, Known, Handled, Scanned, server
<1>10. QED
  BY <1>1, <1>3, <1>8, <1>9 DEF IInv

LEMMA GotReplyKeeps ==
  ASSUME IInv, NEW d \in Devices, NEW c \in Calls, GotReply(d, c)
  PROVE  IInv'
<1>1. TypeOK'
  BY FlushTypes DEF IInv, FlushStep
<1>2. Grows /\ UNCHANGED <<fetch, snap, shown, queue, used, task, greens, server>>
  BY DEF GotReply, Grows, server, page
<1>3. Room' /\ Queued' /\ GreenIsKept' /\ RedHasReason'
  <2>1. FlagStays
    BY DEF GotReply, GiveUp, FlagStays, IInv, TypeOK
  <2>2. QED
    BY <1>2, <2>1, TasksKeep, RedKeeps
<1>4. /\ calls'[c].from \notin Devices
      /\ \A x \in Calls : x # c => calls'[x] = calls[x]
  BY DoorStoreAssumption DEF GotReply, FreeCall, IInv, TypeOK
<1>5. /\ flush[d] = "posting" /\ calls[c].from = d
      /\ \/ calls[c].at = "ok" /\ sent'[d] = sent[d]
         \/ flush'[d] = "idle"
      /\ \A e \in Devices : e # d => flush'[e] = flush[e] /\ sent'[e] = sent[e]
  BY DEF GotReply, GiveUp, IInv, TypeOK
<1>6. /\ \A x \in Calls : calls[x].from = d => x = c
      /\ calls[c].at = "ok" => Scanned(sent[d]) \subseteq Handled
  BY <1>5 DEF IInv, Posted
<1>7. Posted'
  <2> SUFFICES ASSUME NEW b \in Calls, NEW e \in Devices, calls'[b].from = e
               PROVE  /\ flush'[e] = "posting" /\ calls'[b].at # "free"
                      /\ \A x \in Calls : calls'[x].from = e => x = b
                      /\ calls'[b].at = "running" => Scanned(sent'[e]) \subseteq calls'[b].todo \cup Handled
                      /\ calls'[b].at = "ok" => Scanned(sent'[e]) \subseteq Handled
    BY <1>2 DEF Posted, Scanned, Handled, server
  <2>1. b # c /\ calls'[b] = calls[b] /\ e # d
    BY <1>4, <1>6
  <2>2. /\ flush[e] = "posting" /\ calls[b].at # "free"
        /\ \A x \in Calls : calls[x].from = e => x = b
        /\ calls[b].at = "running" => Scanned(sent[e]) \subseteq calls[b].todo \cup Handled
        /\ calls[b].at = "ok" => Scanned(sent[e]) \subseteq Handled
    BY <2>1 DEF IInv, Posted
  <2>3. QED
    BY <1>4, <1>5, <2>1, <2>2
<1>8. Answered' /\ Fetched' /\ Flushed'
  BY <1>2, <1>5, <1>6 DEF IInv, Answered, Fetched, Flushed, Known, Handled, Scanned, server
<1>9. QED
  BY <1>1, <1>3, <1>7, <1>8 DEF IInv

\* What leaves the queue has been dealt with.
LEMMA RemoveQueuedKeeps ==
  ASSUME IInv, NEW d \in Devices, RemoveQueued(d)
  PROVE  IInv'
<1>1. TypeOK'
  BY FlushTypes DEF IInv, FlushStep
<1>2. Grows /\ UNCHANGED <<calls, fetch, snap, shown, used, task, greens, server>>
  BY DEF RemoveQueued, Grows, server, page
<1>3. /\ flush[d] = "removing" /\ flush'[d] = "showing"
      /\ \A e \in Devices : e # d => flush'[e] = flush[e] /\ sent'[e] = sent[e]
      /\ \A e \in Devices : queue'[e] = IF e = d THEN queue[e] \ sent[e] ELSE queue[e]
  BY DEF RemoveQueued, IInv, TypeOK
<1>4. Posted' /\ Answered'
  BY <1>2, <1>3, FlagMoves
<1>5. ASSUME NEW e \in Devices, NEW s \in Scanned(queue[e])
      PROVE  s \in Scanned(queue'[e]) \cup Handled
  <2>1. Scanned(sent[d]) \subseteq Handled
    BY <1>3 DEF IInv, Answered
  <2>2. QED
    BY <1>3, <2>1 DEF Scanned
<1>6. Room'
  BY <1>2 DEF IInv, Room, Adding
<1>7. Queued'
  <2> SUFFICES ASSUME NEW e \in Devices, NEW x \in Tasks, task[e][x].at = "showing"
               PROVE  task[e][x].s \in Scanned(queue'[e]) \cup Handled
    BY <1>2 DEF Queued, Scanned, Handled, server
  <2>1. QED
    BY <1>5 DEF IInv, Queued
<1>8. GreenIsKept'
  <2> SUFFICES ASSUME NEW e \in Devices, NEW s \in Scans, greens[e][s] > 0
               PROVE  s \in Scanned(queue'[e]) \cup Handled
    BY <1>2 DEF GreenIsKept, Scanned, Handled, server
  <2>1. QED
    BY <1>5 DEF IInv, GreenIsKept
<1>9. RedHasReason'
  <2>1. \A i \in sent[d] : i.s \in Handled
    BY <1>3 DEF IInv, Answered, Scanned
  <2>2. ASSUME NEW e \in Devices, NEW i \in shown[e]
        PROVE  i \in queue'[e] \/ (flush'[e] = "showing" /\ i.s \in Handled)
    <3>1. i \in queue[e] \/ (flush[e] = "showing" /\ i.s \in Handled)
      BY DEF IInv, RedHasReason
    <3>2. QED
      BY <1>3, <2>1, <3>1
  <2>3. QED
    BY <1>2, <2>2, HandledGrows DEF IInv, RedHasReason, server
<1>10. Fetched' /\ Flushed'
  BY <1>2, <1>3 DEF IInv, Fetched, Flushed, Known, server
<1>11. QED
  BY <1>1, <1>4, <1>6, <1>7, <1>8, <1>9, <1>10 DEF IInv

LEMMA RefreshPendingKeeps ==
  ASSUME IInv, NEW d \in Devices, RefreshPending(d)
  PROVE  IInv'
<1>1. TypeOK'
  BY FlushTypes DEF IInv, FlushStep
<1>2. Grows /\ UNCHANGED <<calls, sent, snap, queue, used, task, greens, server>>
  BY DEF RefreshPending, Grows, server
<1>3. Room' /\ Queued' /\ GreenIsKept' /\ RedHasReason'
  <2>1. \A e \in Devices : e # d => flush'[e] = flush[e]
    BY DEF RefreshPending, IInv, TypeOK
  <2>2. QED
    BY <1>2, <2>1, TasksKeep, ShownAgain DEF RefreshPending
<1>4. /\ flush[d] = "showing" /\ flush'[d] = "fetching"
      /\ \A e \in Devices : e # d => flush'[e] = flush[e]
  BY DEF RefreshPending, IInv, TypeOK
<1>5. Posted' /\ Answered'
  BY <1>2, <1>4, FlagMoves
<1>6. \A e \in Devices, x \in Fetchers :
        /\ fetch'[e][x].what = fetch[e][x].what
        /\ e # d => fetch'[e][x].at = fetch[e][x].at
  BY FetchMoves DEF RefreshPending, Fetchers, IInv
<1>7. Fetched'
  BY <1>2, <1>6 DEF Fetched, Known, IInv, server
<1>8. Flushed'
  BY <1>4, <1>6 DEF Flushed, IInv, Fetchers
<1>9. QED
  BY <1>1, <1>3, <1>5, <1>7, <1>8 DEF IInv

LEMMA EndFetchFlag ==
  ASSUME IInv, NEW d \in Devices, NEW k \in Fetchers, EndFetch(d, k),
         fetch[d][k].at # "none"
  PROVE  FlagStays
  BY DEF EndFetch, FlagStays, IInv, Flushed, TypeOK

\* A fetch ends: that of a flush ends the flush.
LEMMA EndFetchKeeps ==
  ASSUME IInv, NEW d \in Devices, NEW k \in Fetchers, EndFetch(d, k),
         fetch[d][k].at # "none", UNCHANGED <<calls, sent, server>>
  PROVE  Posted' /\ Answered' /\ Fetched' /\ Flushed'
<1>1. Grows
  BY DEF Grows, server
<1>2. \A e \in Devices, x \in Fetchers :
        fetch'[e][x] = IF e = d /\ x = k THEN NoFetch ELSE fetch[e][x]
  BY DEF EndFetch, IInv, TypeOK
<1>3. Posted' /\ Answered'
  <2>1. CASE k = "flush"
    <3>1. /\ flush[d] = "fetching" /\ flush'[d] = "idle"
          /\ \A e \in Devices : e # d => flush'[e] = flush[e]
      BY <2>1 DEF EndFetch, IInv, TypeOK, Flushed
    <3>2. QED
      BY <1>1, <3>1, FlagMoves
  <2>2. CASE k # "flush"
    BY <1>1, <2>2, SyncKeeps DEF EndFetch, sync
  <2>3. QED
    BY <2>1, <2>2
<1>4. Fetched'
  BY <1>2 DEF Fetched, Known, NoFetch, Fetch, IInv, server
<1>5. Flushed'
  BY <1>2 DEF Flushed, NoFetch, Fetch, IInv, EndFetch, TypeOK, Fetchers
<1>6. QED
  BY <1>3, <1>4, <1>5

LEMMA SaveSnapshotKeeps ==
  ASSUME IInv, NEW d \in Devices, NEW k \in Fetchers, SaveSnapshot(d, k)
  PROVE  IInv'
<1>1. TypeOK'
  BY PageTypes, FlushTypes DEF IInv, PageStep, FlushStep, Fetchers
<1>2. Grows /\ UNCHANGED <<calls, sent, shown, queue, used, task, greens, server>>
  BY DEF SaveSnapshot, Grows, server
<1>3. Room' /\ Queued' /\ GreenIsKept'
  BY <1>2, TasksKeep
<1>4. Posted' /\ Answered' /\ Fetched' /\ Flushed'
  BY <1>2, EndFetchKeeps DEF SaveSnapshot
<1>5. RedHasReason'
  <2>1. \A e \in Devices : snap'[e] = IF e = d THEN fetch[d][k].what ELSE snap[e]
    BY DEF SaveSnapshot, IInv, TypeOK
  <2>2. Known(fetch[d][k].what)
    BY DEF IInv, Fetched
  <2>3. FlagStays
    BY EndFetchFlag DEF SaveSnapshot
  <2>4. QED
    BY <1>2, <2>1, <2>2, <2>3, HandledGrows DEF IInv, RedHasReason, Known, FlagStays, server
<1>6. QED
  BY <1>1, <1>3, <1>4, <1>5 DEF IInv

---------------------------------------------------------------------------
(* What may fail.                                                          *)

\* A device that gives up forgets its request, and the server may go on with it.
LEMMA OrphanKeeps ==
  ASSUME IInv, NEW d \in Devices, GiveUp(d), calls' = Orphan(d), UNCHANGED server
  PROVE  Posted' /\ Answered'
<1>1. /\ flush'[d] = "idle"
      /\ \A e \in Devices : e # d => flush'[e] = flush[e] /\ sent'[e] = sent[e]
  BY DEF GiveUp, IInv, TypeOK
<1>2. ASSUME NEW c \in Calls, calls'[c].from \in Devices
      PROVE  calls'[c] = calls[c] /\ calls[c].from # d
  <2>1. calls[c] \in Call
    BY DEF IInv, TypeOK, Call
  <2>2. CASE calls[c].from # d
    BY <2>2 DEF Orphan
  <2>3. CASE calls[c].from = d
    <3>1. calls'[c] = IF calls[c].at = "running" THEN [calls[c] EXCEPT !.from = Nobody] ELSE FreeCall
      BY <2>3 DEF Orphan
    <3>2. calls'[c].from = Nobody
      BY <2>1, <3>1 DEF Call, FreeCall
    <3>3. QED
      BY <1>2, <3>2, DoorStoreAssumption
  <2>4. QED
    BY <2>2, <2>3
<1>3. Posted'
  <2> SUFFICES ASSUME NEW b \in Calls, NEW e \in Devices, calls'[b].from = e
               PROVE  /\ flush'[e] = "posting" /\ calls'[b].at # "free"
                      /\ \A x \in Calls : calls'[x].from = e => x = b
                      /\ calls'[b].at = "running" => Scanned(sent'[e]) \subseteq calls'[b].todo \cup Handled
                      /\ calls'[b].at = "ok" => Scanned(sent'[e]) \subseteq Handled
    BY DEF Posted, Scanned, Handled, server
  <2>1. calls'[b] = calls[b] /\ e # d /\ \A x \in Calls : calls'[x].from = e => calls[x].from = e
    BY <1>2
  <2>2. /\ flush[e] = "posting" /\ calls[b].at # "free"
        /\ \A x \in Calls : calls[x].from = e => x = b
        /\ calls[b].at = "running" => Scanned(sent[e]) \subseteq calls[b].todo \cup Handled
        /\ calls[b].at = "ok" => Scanned(sent[e]) \subseteq Handled
    BY <2>1 DEF IInv, Posted
  <2>3. QED
    BY <1>1, <2>1, <2>2
<1>4. Answered'
  BY <1>1 DEF IInv, Answered, Handled, Scanned, server
<1>5. QED
  BY <1>3, <1>4

LEMMA FailureKeeps ==
  ASSUME IInv, NEW d \in Devices, Failure(d)
  PROVE  IInv'
<1>1. TypeOK'
  BY FailureTypes DEF IInv
<1>2. CASE PostLost(d)
  <2>1. Grows /\ UNCHANGED <<fetch, snap, shown, queue, used, task, greens, server>>
    BY <1>2 DEF PostLost, Grows, server, page
  <2>2. Room' /\ Queued' /\ GreenIsKept' /\ RedHasReason'
    <3>1. FlagStays
      BY <1>2 DEF PostLost, GiveUp, FlagStays, IInv, TypeOK
    <3>2. QED
      BY <2>1, <3>1, TasksKeep, RedKeeps
  <2>3. Posted' /\ Answered'
    BY <1>2, <2>1, OrphanKeeps DEF PostLost
  <2>4. Fetched' /\ Flushed'
    BY <1>2, <2>1 DEF PostLost, GiveUp, IInv, TypeOK, Fetched, Flushed, Known, server
  <2>5. QED
    BY <1>1, <2>2, <2>3, <2>4 DEF IInv
<1>3. CASE Reopen(d)
  <2>1. Grows /\ UNCHANGED <<snap, queue, used, greens, server>>
    BY <1>3 DEF Reopen, Grows, server
  <2>2. Posted' /\ Answered'
    BY <1>3, <2>1, OrphanKeeps DEF Reopen
  <2>3. /\ \A e \in Devices, k \in Tasks :
             task'[e][k] = IF e = d THEN NoTask ELSE task[e][k]
        /\ \A e \in Devices : shown'[e] = IF e = d THEN {} ELSE shown[e]
        /\ \A e \in Devices : fetch'[e] = IF e = d THEN Opening ELSE fetch[e]
        /\ \A e \in Devices : e # d => flush'[e] = flush[e]
    BY <1>3 DEF Reopen, GiveUp, IInv, TypeOK
  <2>4. Room'
    <3>1. \A e \in Devices : Adding(e)' = IF e = d THEN {} ELSE Adding(e)
      BY <2>3 DEF Adding, NoTask
    <3>2. Cardinality({}) = 0 /\ used[d] \in 0..MaxItems
      BY FS_EmptySet DEF IInv, TypeOK
    <3>3. QED
      BY <2>1, <3>1, <3>2, DoorStoreAssumption DEF Room, IInv
  <2>5. Queued' /\ GreenIsKept'
    BY <2>1, <2>3 DEF Queued, GreenIsKept, NoTask, Handled, Scanned, IInv, server
  <2>6. RedHasReason'
    BY <2>1, <2>3, HandledGrows DEF RedHasReason, IInv, server
  <2>7. Fetched' /\ Flushed'
    <3>1. /\ \A k \in Fetchers : Opening[k].what = NoSnapshot
          /\ Opening["flush"].at = "none"
      BY DEF Opening, NoFetch, Fetch, Fetchers
    <3>2. Fetched'
      BY <2>1, <2>3, <3>1 DEF Fetched, Known, IInv, server
    <3>3. Flushed'
      BY <2>3, <3>1 DEF Flushed, IInv
    <3>4. QED
      BY <3>2, <3>3
  <2>8. QED
    BY <1>1, <2>2, <2>4, <2>5, <2>6, <2>7 DEF IInv
<1>4. ASSUME NEW k \in Fetchers, FetchLost(d, k) PROVE IInv'
  <2>1. Grows /\ UNCHANGED <<calls, sent, snap, shown, queue, used, task, greens, server>>
    BY <1>4 DEF FetchLost, Grows, server, page
  <2>2. Room' /\ Queued' /\ GreenIsKept' /\ RedHasReason'
    <3>1. FlagStays
      BY <1>4, EndFetchFlag DEF FetchLost
    <3>2. QED
      BY <2>1, <3>1, TasksKeep, RedKeeps
  <2>3. Posted' /\ Answered' /\ Fetched' /\ Flushed'
    BY <1>4, <2>1, EndFetchKeeps DEF FetchLost
  <2>4. QED
    BY <1>1, <2>2, <2>3 DEF IInv
<1>5. QED
  BY <1>2, <1>3, <1>4 DEF Failure

---------------------------------------------------------------------------
(* The server.                                                             *)

LEMMA ServeItemKeeps ==
  ASSUME IInv, NEW c \in Calls, ServeItem(c)
  PROVE  IInv'
<1>1. TypeOK'
  BY ServerTypes DEF IInv
<1>2. PICK s \in calls[c].todo :
        /\ calls' = [calls EXCEPT ![c].todo = calls[c].todo \ {s}]
        /\ refused' = IF s.good THEN refused ELSE refused \cup {s.t}
        /\ entered' = IF s.good /\ s.t \notin annulled THEN entered \cup {s.t} ELSE entered
  BY DEF ServeItem, IInv, TypeOK
<1>3. Grows /\ s \in Handled' /\ Handled \subseteq Handled'
  <2>1. s \in Scans
    BY DEF IInv, TypeOK
  <2>2. QED
    BY <1>2, <2>1 DEF Grows, Handled, ServeItem
<1>4. FlagStays /\ UNCHANGED <<flush, sent, snap, shown, queue, used, task, fetch, greens>>
  BY DEF ServeItem, FlagStays, page
<1>5. Room' /\ Queued' /\ GreenIsKept' /\ RedHasReason' /\ Fetched' /\ Flushed'
  BY <1>3, <1>4, TasksKeep, RedKeeps, FetchedKeeps
<1>6. \A x \in Calls : /\ calls'[x].at = calls[x].at /\ calls'[x].from = calls[x].from
                       /\ calls[x].todo \ {s} \subseteq calls'[x].todo
  BY <1>2, ServeMoves DEF IInv
<1>7. Posted'
  <2> SUFFICES ASSUME NEW b \in Calls, NEW e \in Devices, calls'[b].from = e
               PROVE  /\ flush[e] = "posting" /\ calls'[b].at # "free"
                      /\ \A x \in Calls : calls'[x].from = e => x = b
                      /\ calls'[b].at = "running" => Scanned(sent[e]) \subseteq calls'[b].todo \cup Handled'
                      /\ calls'[b].at = "ok" => Scanned(sent[e]) \subseteq Handled'
    BY <1>4 DEF Posted, Scanned
  <2>1. /\ flush[e] = "posting" /\ calls[b].at # "free"
        /\ \A x \in Calls : calls[x].from = e => x = b
        /\ calls[b].at = "running" => Scanned(sent[e]) \subseteq calls[b].todo \cup Handled
        /\ calls[b].at = "ok" => Scanned(sent[e]) \subseteq Handled
    BY <1>6 DEF IInv, Posted
  <2>2. QED
    BY <1>3, <1>6, <2>1
<1>8. Answered'
  BY <1>3, <1>4 DEF IInv, Answered, Scanned
<1>9. QED
  BY <1>1, <1>5, <1>7, <1>8 DEF IInv

\* The answer is ok only when nothing of the batch is left.
LEMMA EndCallKeeps ==
  ASSUME IInv, NEW c \in Calls, Reply(c) \/ ServeFail(c)
  PROVE  IInv'
<1>1. TypeOK'
  BY ServerTypes DEF IInv
<1>2. PICK outcome \in {"ok", "error"} :
        /\ EndCall(c, outcome) /\ calls[c].at = "running"
        /\ outcome = "ok" => calls[c].todo = {}
  BY DEF Reply, ServeFail
<1>3. /\ Grows /\ FlagStays
      /\ UNCHANGED <<flush, sent, snap, shown, queue, used, task, fetch, greens, server>>
  BY <1>2 DEF EndCall, Grows, FlagStays, server, page
<1>4. Room' /\ Queued' /\ GreenIsKept' /\ RedHasReason' /\ Fetched' /\ Flushed'
  BY <1>3, TasksKeep, RedKeeps, FetchedKeeps
<1>5. /\ \A x \in Calls : calls'[x].from = calls[x].from /\ (x # c => calls'[x] = calls[x])
      /\ calls[c].from # Nobody => calls'[c].at = outcome
  BY <1>2, EndCallMoves DEF IInv
<1>6. Posted'
  <2> SUFFICES ASSUME NEW b \in Calls, NEW e \in Devices, calls'[b].from = e
               PROVE  /\ flush[e] = "posting" /\ calls'[b].at # "free"
                      /\ \A x \in Calls : calls'[x].from = e => x = b
                      /\ calls'[b].at = "running" => Scanned(sent[e]) \subseteq calls'[b].todo \cup Handled
                      /\ calls'[b].at = "ok" => Scanned(sent[e]) \subseteq Handled
    BY <1>3 DEF Posted, Scanned, Handled, server
  <2>1. /\ flush[e] = "posting" /\ calls[b].at # "free"
        /\ \A x \in Calls : calls[x].from = e => x = b
        /\ calls[b].at = "running" => Scanned(sent[e]) \subseteq calls[b].todo \cup Handled
        /\ calls[b].at = "ok" => Scanned(sent[e]) \subseteq Handled
    BY <1>5 DEF IInv, Posted
  <2>2. b = c => calls'[b].at = outcome
    BY <1>5, DoorStoreAssumption
  <2>3. QED
    BY <1>2, <1>5, <2>1, <2>2
<1>7. Answered'
  BY <1>3 DEF IInv, Answered, Scanned, Handled, server
<1>8. QED
  BY <1>1, <1>4, <1>6, <1>7 DEF IInv

LEMMA AnnulKeeps ==
  ASSUME IInv, (\E t \in Tickets : Annul(t)) \/ Weather
  PROVE  IInv'
<1>1. TypeOK'
  BY ServerTypes DEF IInv
<1>2. /\ Grows /\ FlagStays /\ UNCHANGED sync
      /\ UNCHANGED <<flush, sent, snap, shown, queue, used, task, fetch, greens>>
  BY DEF Annul, Weather, Grows, FlagStays, sync, page, server
<1>3. QED
  BY <1>1, <1>2, SyncKeeps, TasksKeep, RedKeeps, FetchedKeeps DEF IInv

---------------------------------------------------------------------------
(* The specification.                                                      *)

LEMMA IInvInit == Init => IInv
<1> SUFFICES ASSUME Init PROVE IInv
  OBVIOUS
<1>1. TypeOK
  BY TypeInit
<1>2. Room
  <2>1. \A d \in Devices : Adding(d) = {} /\ used[d] = 0
    BY DEF Init, Adding, NoTask
  <2>2. QED
    BY <2>1, FS_EmptySet, DoorStoreAssumption DEF Room
<1>3. Posted
  BY DoorStoreAssumption DEF Init, Posted, FreeCall
<1>4. Answered /\ Queued
  BY DEF Init, Answered, Queued, NoTask
<1>5. Fetched /\ Flushed
  BY DEF Init, Fetched, Flushed, Known, Opening, NoFetch, Fetch, Fetchers
<1>6. GreenIsKept /\ RedHasReason
  BY DEF Init, GreenIsKept, RedHasReason, Scanned
<1>7. QED
  BY <1>1, <1>2, <1>3, <1>4, <1>5, <1>6 DEF IInv

LEMMA IInvNext == IInv /\ [Next]_vars => IInv'
<1> SUFFICES ASSUME IInv, [Next]_vars PROVE IInv'
  OBVIOUS
<1>1. ASSUME NEW d \in Devices, PageStep(d) PROVE IInv'
  BY <1>1, ScanKeeps, AddKeeps, ShowKeeps, LoadKeeps, DoorSnapshotKeeps, SaveSnapshotKeeps
     DEF PageStep, Fetchers
<1>2. ASSUME NEW d \in Devices, FlushStep(d) PROVE IInv'
  BY <1>2, FlushStartKeeps, RemoveQueuedKeeps, RefreshPendingKeeps, GotReplyKeeps,
     DoorSnapshotKeeps, SaveSnapshotKeeps DEF FlushStep, Fetchers
<1>3. ASSUME NEW d \in Devices, Failure(d) PROVE IInv'
  BY <1>3, FailureKeeps
<1>4. ASSUME NEW c \in Calls, ServeItem(c) \/ Reply(c) \/ ServeFail(c) PROVE IInv'
  BY <1>4, ServeItemKeeps, EndCallKeeps
<1>5. CASE (\E t \in Tickets : Annul(t)) \/ Weather
  BY <1>5, AnnulKeeps
<1>6. CASE UNCHANGED vars
  <2>1. /\ Grows /\ FlagStays /\ UNCHANGED sync
        /\ UNCHANGED <<flush, snap, shown, queue, used, task, fetch, greens>>
    BY <1>6 DEF vars, Grows, FlagStays, sync
  <2>2. TypeOK'
    BY <1>6 DEF vars, IInv, TypeOK
  <2>3. QED
    BY <2>1, <2>2, SyncKeeps, TasksKeep, RedKeeps, FetchedKeeps DEF IInv
<1>7. QED
  BY <1>1, <1>2, <1>3, <1>4, <1>5, <1>6 DEF Next

LEMMA Invariant == Spec => []IInv
  BY IInvInit, IInvNext, PTL DEF Spec

(* The devices, their queues in IndexedDB and their requests keep their    *)
(* types: no id of the queue is given beyond the bound.                    *)
THEOREM DoorStoreTypeCorrect == Spec => []TypeOK
<1>1. IInv => TypeOK
  BY DEF IInv
<1>2. QED
  BY <1>1, Invariant, PTL

(* flushQueue takes from the queue only the items of a batch that the      *)
(* server has answered, and it answers ok only when it has dealt with each *)
(* of them: whoever was shown green is in the queue, in or void for the    *)
(* server, or was answered invalid because the signature was false, for    *)
(* any number of devices, lost answers, failures and reopened pages.       *)
THEOREM GreenNeverLost == Spec => []GreenIsKept
<1>1. IInv => GreenIsKept
  BY DEF IInv
<1>2. QED
  BY <1>1, Invariant, PTL

(* validateLocally: what a device takes for used is in its queue or in     *)
(* what the server knew, though the queue it shows and the snapshot it has *)
(* are read at other moments and two refreshes may finish in either order. *)
(* Only between the removal of an answered batch and the reading of the    *)
(* queue after it is an item shown that is no longer queued, and the       *)
(* server has then answered for that item.                                 *)
THEOREM RedAlwaysHasReason == Spec => []RedHasReason
<1>1. IInv => RedHasReason
  BY DEF IInv
<1>2. QED
  BY <1>1, Invariant, PTL

(* One flush of a device at a time (flushingRef): however its requests are *)
(* lost, answered or left behind by a page that was closed, the server is  *)
(* never serving two batches the device waits for, an answer is only taken *)
(* for the batch it is of, and a batch is answered ok only when each of    *)
(* its items is in, void or found invalid.                                 *)
THEOREM OneBatchAtATime == Spec => []Posted
<1>1. IInv => Posted
  BY DEF IInv
<1>2. QED
  BY <1>1, Invariant, PTL
=============================================================================
