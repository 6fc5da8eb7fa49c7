# TLA+ models of bs-notify-hub

bs-notify-hub sends notifications to the users of tenants: it stores them in
PostgreSQL, keeps unread counts in Redis, and pushes notifications and counts
to browsers over SSE, from one process or from several that share a Redis
channel. This directory models that code in TLA+, checks it with TLC on small
instances, and proves most of its safety properties with TLAPS for every number
of connections, users, notifications, requests and faults. `PROJECT.json` holds the details: the source lines of every
definition, the runs, a mutant for every property, the hazards and the
findings.

## The system

| Component | State it keeps | Operations | What is hard | What makes it correct |
|---|---|---|---|---|
| Connection pool (`pkg/pool`) | `Manager.groups`: tenant to group; `Group.users`: user and connection id to connection; one RWMutex each | Register, Unregister, RangeUser, RangeGroup, statistics | two levels of locks taken one after the other; a group reclaimed while somebody joins it; channels closed while others write | no send on a closed channel; a late Unregister spares its successor; empty groups go; no cycle of waits; what is registered is reachable |
| Hub (`service/hub.go`) | one goroutine and one channel of 100 messages per SSE connection | Subscribe, Write, Close | the channel is full; the client goes | a slow client delays nobody |
| Dispatcher and brokers (`internal/dispatch`) | the broker's queue, the Redis subscription | Publish, Subscribe, run, process | lost subscriptions, full queues, several processes | only addressees receive, in one order, at most once, and if nothing fails, surely |
| Sender (`service/sender.go`, `logic/sender.go`) | rows of `notify_record` and `notify_status` | transmit, SendNotify (asynchronous: counters, then counts, then the notification) | sends overlap; one call of many fails after the commit | the count first; counters equal to the database |
| Unread counters (`logic/unread.go`, `repository/unread_*.go`) | in Redis: two counters and a set of operated broadcasts per user, one set of broadcasts per tenant | increment or rebuild, decrement, difference of sets, rebuild of the total | database and cache are updated in several steps; Redis loses data | the formulas of `constant/app.go:45-46` |
| Status operations (`service/status.go`, `repository/status.go`, `watermark.go`) | status rows, read and clear watermarks | read, delete, four one-click operations | find-then-save; times taken before they are written; asynchronous cache updates | what is read stays read; rows only for addressees |
| Inbox (`service/inbox.go`, `repository/record.go`) | none of its own | pages and statistics of the personal and the tenant inbox | joins, watermarks and paging agree | pages partition the inbox; the unread number is what the list shows |
| Tickets (`service/ticket.go`) | one Redis key per ticket | ApplyTicket, VerifyTicket | retries, lost replies, expiry | one stream per ticket, in time |
| Console sessions (`pkg/session`) | a map of sessions | Create, Get, Delete, sweep | the clock is read outside the lock | never past the TTL, never after the logout, never too early |
| Cleanup (`tasks/notify_cleanup.go`) | none of its own | RunOnce, daily, in batches: list, delete rows, delete records, recount | runs weeks after the send; an error or a crash between two of its steps | what has expired is removed, by a later run at the latest; no orphans; counters follow |
| HTTP and gRPC adapters (`internal/handler`, `service/grpc.go`, `response`, `httpcode`) | none | one translation of each operation per side | two hand-written translations of the same operations, one validated and one not; expiry while a request is served | both sides call the same method with the same arguments; every request gets a reply |
| Access (`middleware`, `jwtutil`) | none | token check, fall back on the console session, gRPC interceptor | two credentials, each of which can expire | nobody gets in without a valid one; the tenant of the token wins |
| Start-up (`main.go`, `internal/app`, `conf`) | the globals | main's steps, the gRPC goroutine | getters end the process when their global is not set; gRPC serves before main has finished | nothing is used before it is set |
| Dashboard (`service/internal.go`) | none | counts and statistics | | only its walks over the pool and its route are modelled |

A send runs `transmit` (one transaction), then a goroutine that updates Redis
and publishes to the broker. Each process takes messages from its broker's
queue with one dispatcher goroutine, which walks the pool and writes into the
connections' channels; each connection's goroutine writes its channel to the
client. A status operation updates the database, then a goroutine updates Redis
and publishes a new count.

## Modules

| Module | Models | Composition |
|---|---|---|
| `RWMutex` | Go's `sync.RWMutex`: readers, the announced writer that holds back new readers | extended by `ConnPool` |
| `ConnPool` | the pool and everybody who uses it, one step per critical section | |
| `ConnPoolContract` | what the pool promises: a connection is new, pooled or gone; nobody that the dispatcher is about to write to is closed | refined by `ConnPool` (`Contract`) |
| `ConnPoolProofs` | theorems and proofs about the pool | extends `ConnPool` |
| `Unread` | sends and status operations on the database and on Redis, one step per statement, transaction, command or script | |
| `Inbox` | the page queries as functions of `Unread`'s state | extends `Unread` |
| `Cleanup` | the runs of the cleanup beside the sends and operations | extends `Inbox` |
| `Delivery` | messages from the sender through both brokers and the dispatchers to the clients | takes the pool at the level of `ConnPoolContract` |
| `Startup` | main's steps, the globals and the gRPC goroutine | |
| `Session` | the session store and the check of a cookie | |
| `Ticket` | tickets, their Redis keys, and the clock | extends `Session` |
| `Gateway` | both servers: a request from its arrival to its reply, with restarts of the process | extends `Ticket` and `Startup` |
| `Expiry` | a TTL from the request to the cleanup | |
| `UnreadProofs`, `CleanupProofs`, `InboxProofs` | theorems and proofs: the counters; the cleanup and what users see; paging | each extends the one before and its module |
| `DeliveryProofs`, `DeliveryAgreementProofs` | theorems and proofs: addressing and the order of a send; what several clients receive, and what is lost | extend `Delivery`; the second extends the first |
| `GatewayProofs` | theorems and proofs | extends `Gateway` |
| `MC...` | the constants of the instances | extend the module of that name |

Definitions whose comment begins with "Mutant:" are the plausible bugs that
`PROJECT.json` lists under "mutants"; no specification uses them.

### ConnPool

A thread is a subscriber (`HubService.Subscribe`: Register, the event loop, the
deferred Unregister), the dispatcher, or an observer (online ids and
statistics). `pc` is the place of a subscriber in that code, `ref` its local
variable `g`: a `*Group` that it keeps after `globalMu` is released, and that
the map may no longer contain. Group objects therefore have an identity of
their own: each is named after the subscriber that allocated it. Taking a write
lock is two steps, announce and granted, as in Go; the read side is one. The
contents of messages are absent: `Write` matters only as a send on a channel
that may be closed.

### Unread and Inbox

One tenant; every query and key is qualified by the tenant. A process per
notification runs `SendBegin` (`created_at`), `SendCommit` (the transaction),
the cache update of its kind, and the pushes. A process per request runs one of
the six operations. `found`, `counts`, `cur` and `val` are local variables:
what was read in one step and is used in a later one. `shown` is the last count
pushed to each user. `Serial` restricts the behaviours to operations that do
not overlap (the code has no such restriction): with it the properties that
should hold of any one operation are checked, without it those that survive
overlaps. `CacheLoss` is a restart of Redis without its data; `OperationFails`,
`UpdateFails` and `PushFails` are the three ways in which the code goes on
after a failed call.

Abstractions: a pipeline or script over several targets is one step; times are
distinct; who is online (`Online`) does not change; there is one process, so `singleflight` covers
all rebuilds (in a cluster there are more interleavings, not fewer). `NumericIDs`
are the user ids that the `int64` of the count query can hold.

`Inbox` defines `Joined`, `Visible`, `Status`, `UnreadCount`, `Page` and
`PagesTotal` from the SQL of both page queries. They are evaluated in one state,
although the code runs several statements.

### Delivery

`queue` is the broker's channel, `sub` what Redis has sent to a process's
subscription and the process has not received, `work` the message the
dispatcher is at and the users it has still to visit, `chan` the channel of a
connection, `got` what its client has received. `SubscriptionLost` drops the
subscription with what is in it, until `SubscribeChannel`. Full channels drop,
as in the code. A connection that is open is reachable: that is the contract,
and `ConnPoolReach` shows the one case in which the pool breaks it.

### Startup, Session, Ticket, Gateway

`Startup` walks `main` step by step; a step whose getter finds its global unset
ends the process, a step that reports an error halts it, and the gRPC goroutine
goes its own way from the moment it is started. `Session` splits `Get` at the
unlock and `sweep` at the lock. `Ticket` lets every Redis call succeed, or fail
with or without its effect. One clock, `Tick`, ages sessions, keys and tokens.

`Gateway` composes them. A request is an ask (a record of the operation, its
parameters, token and cookie) that arrives by one of four forms: `http` (the
API), `grpc`, `web` (the console's pages and its dashboard) and `stream` (the SSE
subscription). `pc` is its place: `token`, then `read` and `check` (the session),
`accepted` or `refused`, `bind`, `call` (or `apply` and `store` for a ticket,
`verify` for a stream), and `done` or `subscribed`. `call` is the service method
with its arguments, `reply` what the client gets, with the category the failure
had (`cause`) beside the one it is told (`code`). What a service does is in the
other modules; here it returns any of the results it can return. `Restart` ends
the process at any moment: sessions and requests are lost, Redis keys are not.
The cipher of a ticket is a name and the signature of a token a Boolean. Which
operations are asked, with which parameters, is a constant (`AsksOf`).

### Cleanup and Expiry

`Cleanup` takes the two deletions as separate steps: the repositories they go
through hold the service's connection and not the transaction around them, so
each commits by itself. `Interrupt` is an error, a cancelled context or the end
of the process between any two steps. Runs and operations do not overlap, so the
recounts after a batch are one step. Because `transmit` stores no `expire_at`
(the run `Expiry`), a record that has one got it from outside the program: `RunOnce`
lets any of `Expiring` be due. A run that finds nothing is left out. `Expiry`
follows a TTL from the request to the cleanup; its `RunOnce` is one step because
it works with one time until nothing that had expired by then is left.

## Runs

Runs that pass:

| Run | Instance | Shows |
|---|---|---|
| `ConnPool` | 3 subscribers, 2 of one user with the same connection id, 1 observer | `TypeOK`, `NoSendOnClosed`, `ReclaimedAtRest`, `LeavesByOwnHand`, `Contract`, `EndedLeaves`, `VisitEnds` |
| `Cleanup` | 3 notifications (one of a user, one a broadcast), 2 of the 6 operations and runs of the cleanup in batches of 1, one at a time, 1 run interrupted, page sizes 1 and 2 | `BroadcastUnreadExact`, `ShownPersonalIsCached`, `SendHeals`, `ReadStaysRead`, `PagesPartition`, `UnreadAsListed`, `NoOrphanRows`, `RunCompletes`, `CleanupHeals` |
| `UnreadConcurrent` | 1 targeted notification to a user whose id is no number, 2 broadcasts (interchangeable: symmetry), 2 users (offline), 1 operation (mark read, one-click read of the tenant inbox, or clear of the user's), 1 loss, 1 failure, all overlaps | `TypeOK`, `RowsAddressed`, `CacheNeverAhead`, `OperatedNotCounted` |
| `DeliveryLocal` | 1 process, 2 tenants with the same user id, 3 connections whose clients need not read, a queue of 2 and channels of 1, 1 failure | `TypeOK`, `OnlyAddressed`, `UnreadFirst`, `LostOnlyAtLimits`, `QueueDrains` |
| `DeliveryCluster` | 2 processes, 3 connections of 2 users, channels with room, 1 failure or lost subscription, clients that read | `AgreedOrder`, `AtMostAsListed`, `Delivered` |
| `Gateway` | 3 requests (HTTP or console; gRPC or stream; stream), 1 session, 1 ticket, tokens without a tenant, without an expiry or expiring at 1, both lives 2, 2 ticks, 1 restart | `InitialisedBeforeUse`, `NoUseAfterLogout`, `LiveKept`, `NeverPastTTL`, `SingleUse`, `OpenedInTime`, `UsableUntilTold`, `SameCall`, `PageInRange`, `TenantOfCredential`, `CalledInTime`, `NeverStuck` |

Why the bounds are enough: every hazard is a conflict of two operations, or of
two and a third that interferes (the pool: two that share a key, and one that
keeps the group alive; one that applies for a ticket and two that present it).
The small channels of `DeliveryLocal` fill, so dropping happens; one broadcast of
`DeliveryCluster` is two messages, a count and the notification, so order
matters. The tenant inbox of `Cleanup` has two items, so that with sizes 1 and 2
there are full, partial and second pages; two records can expire, so that a run
has one batch or two, and an empty list after the last. In `Gateway` sessions and
tickets that begin at 0 reach their end, and the token of a request expires while
it is served. What has a theorem (see Proofs) does not depend on these bounds.

Runs that find a disagreement between the code and what its comments or
documents say; each checks one property, and "findings" quotes the line:

| Run | Claim | What happens |
|---|---|---|
| `ConnPoolReach` | Register adds to the pool | a group is reclaimed between get and join: the connection is unreachable |
| `UnreadSends` | personal count = unread notifications (`constant/app.go:46`) | two sends: the older count is written last |
| `UnreadTenantClear` | clears the tenant's notifications (`service/status.go:131`) | clears the personal ones too |
| `UnreadTwoBroadcasts` | the total holds every broadcast (`unread_db.go:61`) | the rebuild removes one that was just added |
| `GatewayCodes` | `code` is the category of the error (`pkg/httpcode/code.go:6`) | parameters that do not bind are answered with the code of an internal error (`response.go:65`) |
| `Expiry` | removed after its expiry (`model/record.go:40`) | the expiry is not stored |

Deadlock is checked in `ConnPool`, where it would be a cycle of waits;
elsewhere requests are finite in number and the system may stop when they are
over.

### Other behaviours that the model has

They follow from the actions, and limit what the properties can say: a property
that is restricted to `Serial` or to no loss is restricted because of one of
them. None has a run of its own.

- Reading and then deleting a notification decrements its counter twice
  (`service/status.go:214`); the tenant's one-click operations leave the counter
  of targeted notifications (`status.go:163`). `SendHeals`: the next send to the
  user repairs both.
- User ids that are not numbers, such as the `user123` of `INTEGRATION.md:108`,
  cannot be scanned into the `int64` of `unread_db.go:73`: their counters are
  never set from the database.
- After a targeted notification of the tenant is read, a count without the
  broadcasts is pushed (`status.go:226`).
- Two overlapping sends may push their counts in the wrong order
  (`logic/sender.go:70`), and two overlapping one-click reads may write the
  watermark in the wrong order (`repository/watermark.go:24`).
- A notification that was created before a one-click read and committed after it
  is listed by its row as unread and not counted (`repository/record.go:294`).
- After a loss of the Redis data the total is rebuilt (`logic/unread.go:182`)
  and the sets of operated broadcasts are not, so read broadcasts count again.
- A broadcast with sender type user is in the personal inbox and not in the
  personal count (`record.go:117`, `logic/sender.go:57`).
- In a cluster the count of a broadcast is pushed to the users of the sending
  process only (`logic/sender.go:101`).
- Target ids are not made distinct (`dto/sender.go:25`, `service/sender.go:179`): a
  user who is listed twice is sent the count twice and written the notification
  twice. `AtMostAsListed` therefore counts the listing, and `AgreedOrder` is about
  messages that are published once (`SentOnce`): of two counts one client may
  lose the first and another the second, on either side of a third message.
  No run has such a list; the theorems of `DeliveryAgreementProofs` cover it.
- gRPC keeps eight bits of the sender type (`service/grpc.go`): 256 is accepted
  as 0. Parameters of `ApplyTicket` that do not bind leave an empty reply.
- When the gRPC port is taken, that goroutine alone stops and the process
  serves HTTP only (`main.go`).
- Between the cleanup's two deletions a broadcast that was read has no row and
  is unread again, so `ReadStaysRead` excepts what is due. A crash between the
  deletion and the recount leaves the counters as they were until the next send
  to the user; the recount itself is not pushed, hence the `due = {}` of
  `ShownPersonalIsCached`.
- An operation on a broadcast that is being cleaned up may create its status row
  between the two deletions: that row has no record (`NoOrphanRows` is checked
  for runs and operations that do not overlap).
- The one-click read sets deleted rows to read, and they are listed again
  (`repository/status.go:97`).

## Fairness

`ConnPool!FairSpec`: weak fairness of every goroutine. The Go scheduler runs
what can run; the announced writer makes weak fairness sufficient, as it keeps
later readers out. Clients need not go. `Delivery!ServerSpec`: weak fairness of
the sending goroutines, dispatchers and subscriptions; clients need not read and
subscriptions need not fail. `FairSpec` adds that clients read. `Gateway!Spec`:
weak fairness of main with its gRPC goroutine and of each request, which
is again the Go scheduler. No temporal property is checked there: `NeverStuck`
says as an invariant that a request can always go on, no step of a request leads
back, and with that fairness every request is answered or lost in a restart.
`Unread`, `Cleanup` and `Expiry` make no use of fairness.

## Proofs

Each theorem is `Spec => []P`, or `Spec => P` for an action property, with the
specification of the run that checks `P` without its fairness, and holds for all
values of the constants that satisfy the assumptions. TLC evaluates the
assumptions in the runs. The inductive invariants are definitions of the proof
modules; those of `Cleanup` and of the reclamation of groups were checked by TLC
on the instances of the runs before they were proved.

A proof that a step keeps an invariant goes through every action once. In
`Unread`, where there are many, this is done by frame lemmas
(`DatabaseFrame`, `CacheFrame`, `ProcessFrame` and others): each says which
actions can change some variables, and how; what follows argues about those
actions only.

### The pool: ConnPoolProofs

For any subscribers, tenants, users, observers and any sharing of ids. Assumed:
`TenantOf` and `UserOf` are functions on the connections, `Nil` is no group, the
threads are distinct.

- `PoolInvariant`, `TypeCorrect`, `NeverSendsOnClosed`. `NoSendOnClosed` alone
  is not inductive: nothing in it prevents a closed connection from being
  visited. A connection in any group object, one that the map has lost included,
  has an open channel (`PooledOnce`), and what the dispatcher has still to visit
  is in the group whose read lock it holds (`LocksHeld`), so that its members
  cannot change meanwhile. For `PooledOnce` one needs that a connection is in at
  most one group object, and in none before its Register: otherwise closing it
  in one would leave it in another.
- `OwnHand`: `LeavesByOwnHand`, from the same invariant.
- `ReclaimedCorrect`: `ReclaimedAtRest`. Every group in the map has a member, or
  a subscriber about to join it or to look whether it is empty (`ReclaimInv`):
  the last to leave takes over, and gives up only when it finds members or has
  taken the group out of the map. Members of a group in the map have still to
  leave that very group; this needs that a group that has left the map does not
  come back (`ObjectsInv`).
- `ImplementsContract`: `Contract`. A connection maps to new, pooled (in some
  group object) or gone, and the visit to the dispatcher's unvisited connections:
  Register is a join with its replacement, Unregister a leave or a stutter (when
  it was replaced), the dispatcher's lock the start of a visit, and everything
  else a stutter.

### Counters: UnreadProofs

For any notifications, users, requests, losses and failures, overlapping or not
(`Serial` may have either value). Assumed: every notification has a sender type
and a finite set of targets, which is empty for broadcasts; notifications and
requests are different processes; nothing about which users are online or have
numbers as ids.

- `TypeCorrect`: `TypeOK`, with which no counter and no pushed count is negative.
  A count is a number only if what is counted is finite (`Finite`), and an
  action finds its operands only where its process can be (`Places`).
- `RowsAddressedCorrect`: `RowsAddressed`. The check of `validateNotifyAccess` is
  steps before the row is written, so the invariant carries it along: a request
  past the check is for an addressee (`AddressInv`).
- `CacheNeverAheadCorrect`: `CacheNeverAhead`. What a rebuild has read and is
  about to write to Redis was committed when it was read (`CacheInv`).
- `OperatedCorrect`: `OperatedNotCounted`. The row of a broadcast is recorded in
  Redis, or its request is still on the way to do so (`OpInv`).
- `SendHealsCorrect`: `SendHeals`. While one process is at work (`Exclusive`) the
  counts a send has read are still those of the database when it writes them.

### Cleanup and what users see: CleanupProofs, InboxProofs

- `NoOrphanRowsCorrect`, `RunCompletesCorrect`, `CleanupHealsCorrect`: for any
  batch size, any number of records and interruptions, from `JobInv`, which says
  what each place of a run relies on: a short batch is all that is left, and no
  row of the batch is left when its records are deleted.
- `PagesPartitionCorrect`: `PagesPartition`, for any page size and any number of
  notifications, and without `Serial`. No two records have one creation time
  (`DatesInv`), so that with one row per notification the ranks of a list are
  different; being at most the length of the list, they are a bijection with
  1 to that length (`RankBijection`), and the pages are intervals of ranks.

With the hypothesis `Serial`, which the properties themselves need (see above):

- `UnreadAsListedCorrect`, `ReadStaysReadCorrect`, from `TimeInv`: watermarks are
  never ahead of the clock, a send that is about to commit is newer than both,
  and no unread row is behind the read watermark. A one-click read sets the
  watermark and the rows in one transaction, which is why the last part is kept.
- `ShownPersonalCorrect`: `ShownPersonalIsCached`. The shown count is the cached
  one, or a process has still to push it, and what that process holds is the
  cached one (`ShownInv`).
- `BroadcastUnreadCorrect`: `BroadcastUnreadExact`, also assuming that broadcasts
  are sent by the tenant. `TotalInv` and `SeenInv` say for each of the two Redis
  sets which step of which process is missing when it differs from the database.
  The second hypothesis is needed: the tenant's one-click operations put every
  broadcast into the user's set, the ones with sender type user too, which the
  personal inbox goes on to show as unread.

### Delivery: DeliveryProofs, DeliveryAgreementProofs

For both brokers, any number of processes, connections and messages and any
capacities. Assumed: one process without a cluster, connections and sends are
different names with a home process, and finitely many users.

- `TypeCorrect`, with the capacities of queues and channels.
- `OnlyAddressedCorrect`: whom a dispatcher has still to visit is a target of its
  message (`LeftInv`).
- `UnreadFirstCorrect`: `OrderInv`. In each of the places a message passes
  (subscription, queue, dispatcher, channel, client) a count is before the
  notification of its send, nothing in an earlier place is behind something in a
  later one, and before a send has published its notification there are counts
  of it only.
- `AtMostAsListedCorrect`: `AccountInv`, for every connection and message. What
  has been written, plus what the dispatcher at work has still to write, plus
  the writes due to each publication that waits (in the queue, in the
  subscription, or unsent), is at most the writes due to one publication times
  the number of publications. Every hand-over moves an amount from one summand
  to the next, and every loss only takes away.
- `AgreedOrderCorrect`: `FreshInv`, `Agreement` and `OrderInv`. `ConnPrecedes(c, p, q)`
  says of all places at once that p has been or will be written to c before q.
  No two connections say the opposite of each other of two messages that are
  published once. A step other than publishing makes no connection say anything
  new; publishing puts a message last in every process, and by `FreshInv` it was
  nowhere before. No history of the publications is needed.
- `LostOnlyAtLimitsCorrect`, one lemma for the steps of each goroutine: what it
  takes from one place it puts into the next, or the next is full.

### The servers: GatewayProofs

For any requests, sessions, tickets, lives and times. Assumed: requests are of
the kinds the routes accept, and a token expires at a time or never.

- `InitialisedCorrect`, from `StartInv`: the globals that are set are those of
  the steps of main that are done.
- `LogoutCorrect`, `SweepCorrect`, `TTLCorrect`, from `StoreInv` and `EntryInv`:
  a request that looks at an entry after the unlock has the time of the login of
  its session, and none that began after the logout is that far.
- `SingleUseCorrect`, `UsableCorrect`, `OpenedInTimeCorrect`, from `HolderInv` and
  `KeyInv`: a ticket is stored by one request, whose answer names no later time
  than the key's, and a stream has taken the key.
- `SameCallCorrect`, `PageInRangeCorrect`, `TenantCorrect`, `CalledInTimeCorrect`,
  from `CallInv`, which relates a request at every place to its ask, its
  credential, and the call it will make or has made.

### Only model-checked

- Liveness (`EndedLeaves`, `VisitEnds`, `QueueDrains`, `Delivered`): fairness is
  beyond the prover. `NeverStuck`: so is `ENABLED`.
- The contents of the violation runs.

## Not modelled

Trace ids, `LocalhostOnly` and `SessionAuthMiddleware` (no route uses the last
two), the contents and printing of the configuration, logging, the database and
Redis clients, generated code and static pages have no state of their own that
matters here. JSON, the ticket's cipher and the token's signature are names. The
dashboard's row counts and timings are left out, and so are the functions of
`logic/unread.go` that nobody calls, the 10-second timeout of the asynchronous
updates beyond what the failures cover, the heartbeat of the SSE stream, and an
orderly shutdown, which the code does not have for streams. A page response is
one read, although the code runs several statements: between them an operation
may commit, and a response may then mix both states.

## Plan

Done: the pool, the counters, the inbox, delivery, the cleanup, start-up, the
servers with their sessions and tickets, all with their proofs, and expiry. Next:

1. `Inbox`: a reader that takes its watermark, count and page in separate steps.
2. `Unread`: several processes without a common `singleflight`, and an abstract
   specification of the counters (the number of unread rows, changed by each
   operation at once) that the serial behaviours of the broadcast part refine.
