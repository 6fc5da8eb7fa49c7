------------------------------- MODULE Unread -------------------------------
(***************************************************************************)
(* Notifications of one tenant: the rows of PostgreSQL (records, statuses, *)
(* watermarks), the unread counters and broadcast sets of Redis, and the   *)
(* requests that update first the one and then, asynchronously, the other: *)
(*   - transmit + SendNotify, one process per notification;                *)
(*   - MarkRead, DeleteNotify and the four one-click operations, one       *)
(*     process per request.                                                *)
(* Every database statement or transaction and every Redis command or      *)
(* script is one step.  Queries and keys are all qualified by the tenant,  *)
(* so one tenant stands for any number of them.                            *)
(***************************************************************************)
EXTENDS Integers, FiniteSets

CONSTANTS
    Notifies,    \* notifications that may be sent; each is a process
    Reqs,        \* requests on the status of notifications; each is a process
    Users,       \* users of the tenant
    Online,      \* those with a connection, to whom a broadcast pushes counts
    SenderOf,    \* [Notifies -> {"user", "tenant"}]
    TargetsOf,   \* [Notifies -> SUBSET Users], {} for a broadcast
    Broadcasts,  \* the notifications of TargetBroadcast
    NumericIDs,  \* the users whose id is a decimal integer
    Kinds,       \* the status operations that are requested
    Serial,      \* TRUE: an operation starts only when the others are over
    MaxLosses,   \* bound on how often Redis loses its data
    MaxErrors    \* bound on failed database, Redis and broker calls

AllKinds == {"read", "delete", "userRead", "userDelete", "tenantRead", "tenantDelete"}

ASSUME SenderOfAssumption == SenderOf \in [Notifies -> {"user", "tenant"}]
ASSUME OnlineAssumption == Online \subseteq Users
ASSUME TargetsOfAssumption ==
    /\ TargetsOf \in [Notifies -> SUBSET Users]
    /\ Broadcasts \subseteq Notifies
    /\ \A n \in Notifies : n \in Broadcasts <=> TargetsOf[n] = {}
    /\ \A n \in Notifies : IsFiniteSet(TargetsOf[n])   \* target_ids is a list
ASSUME ProcsAssumption == Notifies \cap Reqs = {}
ASSUME KindsAssumption == Kinds \subseteq AllKinds /\ Serial \in BOOLEAN

ASSUME BoundsAssumption == MaxLosses \in Nat /\ MaxErrors \in Nat

Procs == Notifies \cup Reqs
Missing == -1   \* a counter whose key does not exist

VARIABLES
    created,   \* notify_record.created_at of each notification, 0 before
    sent,      \* committed notify_record rows
    rows,      \* notify_status rows: [id, u, n, st]
    readAt, clearAt,   \* notify_watermark of each user
    clock,     \* time.Now(), advanced whenever it is read
    personal, tenant,  \* the two counters of each user in Redis
    total, op, \* broadcast:total, and broadcast:op of each user
    pc,        \* where each process is
    req,       \* the operation of each request
    found,     \* ids each process has read from the database
    counts,    \* unread counts each send has read from the database
    cur, val,  \* the user it is pushing to, and the number (or time) it holds
    todo,      \* users the process has still to push an unread count to
    shown,     \* the unread counts last pushed to each user
    losses, errors   \* how many there have been

dbVars == <<created, sent, rows, readAt, clearAt, clock>>
cacheVars == <<personal, tenant, total, op>>
faultVars == <<losses, errors>>
procVars == <<pc, req, found, counts, cur, val, todo>>
vars == <<dbVars, cacheVars, procVars, shown, faultVars>>

NoReq == [kind |-> "none", u |-> "none", n |-> "none"]

\* An empty database and an empty Redis.
Init ==
    /\ created = [n \in Notifies |-> 0]
    /\ sent = {}
    /\ rows = {}
    /\ readAt = [u \in Users |-> 0]
    /\ clearAt = [u \in Users |-> 0]
    /\ clock = 0
    /\ personal = [u \in Users |-> Missing]
    /\ tenant = [u \in Users |-> Missing]
    /\ total = {}
    /\ op = [u \in Users |-> {}]
    /\ pc = [p \in Procs |-> "idle"]
    /\ req = [r \in Reqs |-> NoReq]
    /\ found = [p \in Procs |-> {}]
    /\ counts = [n \in Notifies |-> [u \in Users |-> 0]]
    /\ cur = [p \in Procs |-> "none"]
    /\ val = [p \in Procs |-> 0]
    /\ todo = [p \in Procs |-> {}]
    /\ shown = [u \in Users |-> [personal |-> 0, tenant |-> 0]]
    /\ losses = 0
    /\ errors = 0

-----------------------------------------------------------------------------
(* Queries *)

RowsOf(u, n) == {row \in rows : row.u = u /\ row.n = n}

Personal(n) == SenderOf[n] = "user"

\* BatchCountUnreadUser / BatchCountUnreadTenant, for one user.
CountUnread(u, s) ==
    Cardinality({row \in rows : /\ row.u = u
                                /\ row.st = "unread"
                                /\ row.n \notin Broadcasts
                                /\ SenderOf[row.n] = s})

\* The scan of target_user_id into UserUnreadCount.UserID, an int64, fails for
\* the whole batch when a counted user's id is not an integer.
ScanFails(us, s) == \E u \in us \ NumericIDs : CountUnread(u, s) > 0

\* First orders by the primary key, a random uuid: an arbitrary, fixed order.
FirstId(u, n) == CHOOSE id \in {row.id : row \in RowsOf(u, n)} : TRUE

\* Set status = st in the rows of u for the notifications N.
UpdateRows(u, N, st) ==
    LET old == {row \in rows : row.u = u /\ row.n \in N}
    IN  rows' = (rows \ old) \cup {[row EXCEPT !.st = st] : row \in old}

\* Cached values: Get returns 0 for a missing key.
Get(v) == IF v = Missing THEN 0 ELSE v

\* decrWithFloorLua; DECR of a missing key starts from 0.
DecrWithFloor(v) == IF Get(v) = 0 THEN 0 ELSE v - 1

\* batchIncrIfExistLua.
IncrIfExist(v) == IF v = Missing THEN Missing ELSE v + 1

\* Mutant: the difference of the two sizes, though op may run ahead of total.
SDiffOfCards(u) == Cardinality(total) - Cardinality(op[u])

\* sDiffCountLua.
SDiffCount(u) == Cardinality(total \ op[u])

-----------------------------------------------------------------------------
AtRest(p) == pc[p] \in {"idle", "done"}
Quiescent == \A p \in Procs : AtRest(p)

MayStart(p) == pc[p] = "idle" /\ (Serial => Quiescent)

Goto(p, place) == pc' = [pc EXCEPT ![p] = place]
Found(p, ids) == found' = [found EXCEPT ![p] = ids]

\* The users to push to, then the first read of the first push.
PushTo(p, us) ==
    /\ todo' = [todo EXCEPT ![p] = us]
    /\ Goto(p, IF us = {} THEN "done" ELSE "push")

-----------------------------------------------------------------------------
(* Sending: NotifySenderService.transmit, Sender.SendNotify *)

\* gorm sets created_at inside the transaction, before it commits.
SendBegin(n) ==
    /\ MayStart(n)
    /\ clock' = clock + 1
    /\ created' = [created EXCEPT ![n] = clock + 1]
    /\ Goto(n, "commit")
    /\ UNCHANGED <<sent, rows, readAt, clearAt, cacheVars, req, found, counts, cur, val, todo, shown, faultVars>>

\* The record, and one unread status row per target.
SendCommit(n) ==
    /\ pc[n] = "commit"
    /\ sent' = sent \cup {n}
    /\ rows' = rows \cup {[id |-> n, u |-> u, n |-> n, st |-> "unread"] : u \in TargetsOf[n]}
    /\ Goto(n, IF n \in Broadcasts THEN "sadd" ELSE "incr")
    /\ UNCHANGED <<created, readAt, clearAt, clock, cacheVars, req, found, counts, cur, val, todo, shown, faultVars>>

\* TenantBroadcastIncr: SADD, then SCARD; a set of one element is taken for a
\* new one and rebuilt from the database.
SAddTotal(n) ==
    /\ pc[n] = "sadd"
    /\ total' = total \cup {n}
    /\ Goto(n, "scard")
    /\ UNCHANGED <<dbVars, personal, tenant, op, req, found, counts, cur, val, todo, shown, faultVars>>

SCardTotal(n) ==
    /\ pc[n] = "scard"
    /\ IF Cardinality(total) = 1
       THEN Goto(n, "reconcile") /\ UNCHANGED todo
       ELSE PushTo(n, Online)
    /\ UNCHANGED <<dbVars, cacheVars, req, found, counts, cur, val, shown, faultVars>>

Reconciling == {m \in Notifies : pc[m] = "replace"}

\* ReconcileTenantBroadcastTotal: the leader of the singleflight call reads all
\* broadcast ids; a caller that arrives meanwhile shares the leader's result.
ReconcileRead(n) ==
    /\ pc[n] = "reconcile"
    /\ Reconciling = {}
    /\ Found(n, sent \cap Broadcasts)
    /\ Goto(n, "replace")
    /\ UNCHANGED <<dbVars, cacheVars, req, counts, cur, val, todo, shown, faultVars>>

ReconcileShare(n) ==
    /\ pc[n] = "reconcile"
    /\ Reconciling # {}
    /\ Found(n, Reconciling)
    /\ Goto(n, "shared")
    /\ UNCHANGED <<dbVars, cacheVars, req, counts, cur, val, todo, shown, faultVars>>

ReconcileShared(n) ==
    /\ pc[n] = "shared"
    /\ found[n] \cap Reconciling = {}
    /\ Found(n, {})
    /\ PushTo(n, Online)
    /\ UNCHANGED <<dbVars, cacheVars, req, counts, cur, val, shown, faultVars>>

\* SafeReplaceSet.
ReplaceTotal(n) ==
    /\ pc[n] = "replace"
    /\ total' = found[n]
    /\ Found(n, {})
    /\ PushTo(n, Online)
    /\ UNCHANGED <<dbVars, personal, tenant, op, req, counts, cur, val, shown, faultVars>>

\* The counters that count n become new, for its targets.
ForTargets(n, new) ==
    IF Personal(n)
    THEN /\ personal' = [u \in Users |-> IF u \in TargetsOf[n] THEN new[u] ELSE personal[u]]
         /\ UNCHANGED tenant
    ELSE /\ tenant' = [u \in Users |-> IF u \in TargetsOf[n] THEN new[u] ELSE tenant[u]]
         /\ UNCHANGED personal

\* BatchIncrUserUnread: increment the counters that exist, ...
IncrTargets(n) ==
    /\ pc[n] = "incr"
    /\ ForTargets(n, [u \in Users |-> IncrIfExist(IF Personal(n) THEN personal[u] ELSE tenant[u])])
    /\ Goto(n, "count")
    /\ UNCHANGED <<dbVars, total, op, req, found, counts, cur, val, todo, shown, faultVars>>

\* ... then BatchReconcileUsers for all targets: count in the database, ...
CountTargets(n) ==
    /\ pc[n] = "count"
    /\ IF ScanFails(TargetsOf[n], SenderOf[n])
       THEN PushTo(n, TargetsOf[n]) /\ UNCHANGED counts
       ELSE /\ counts' = [counts EXCEPT ![n] = [u \in Users |-> CountUnread(u, SenderOf[n])]]
            /\ Goto(n, "set")
            /\ UNCHANGED todo
    /\ UNCHANGED <<dbVars, cacheVars, req, found, cur, val, shown, faultVars>>

\* Mutant: the new notification is added to a count that already includes it.
SetTargetsPlusOne(n) ==
    /\ pc[n] = "set"
    /\ ForTargets(n, [u \in Users |-> counts[n][u] + 1])
    /\ counts' = [counts EXCEPT ![n] = [u \in Users |-> 0]]
    /\ PushTo(n, TargetsOf[n])
    /\ UNCHANGED <<dbVars, total, op, req, found, cur, val, shown, faultVars>>

\* ... and overwrite the counters.
SetTargets(n) ==
    /\ pc[n] = "set"
    /\ ForTargets(n, counts[n])
    /\ counts' = [counts EXCEPT ![n] = [u \in Users |-> 0]]
    /\ PushTo(n, TargetsOf[n])
    /\ UNCHANGED <<dbVars, total, op, req, found, cur, val, shown, faultVars>>

-----------------------------------------------------------------------------
(* Pushing unread counts: Sender.sendUnread, SendPersonalUnread, SendTenantUnread *)

\* The operation of p concerns the personal counter.
PersonalProc(p) ==
    IF p \in Notifies THEN p \notin Broadcasts /\ Personal(p)
    ELSE IF req[p].kind \in {"read", "delete"}
         THEN req[p].n \notin Broadcasts /\ Personal(req[p].n)
         ELSE req[p].kind \in {"userRead", "userDelete"}

GetPersonalUnread(p) ==
    /\ pc[p] = "push"
    /\ PersonalProc(p)
    /\ \E u \in todo[p] :
          /\ cur' = [cur EXCEPT ![p] = u]
          /\ val' = [val EXCEPT ![p] = Get(personal[u])]
          /\ todo' = [todo EXCEPT ![p] = @ \ {u}]
    /\ Goto(p, "publish")
    /\ UNCHANGED <<dbVars, cacheVars, req, found, counts, shown, faultVars>>

\* GetTenantUnread: the counter, then the difference of the broadcast sets.
GetTenantCounter(p) ==
    /\ pc[p] = "push"
    /\ ~PersonalProc(p)
    /\ \E u \in todo[p] :
          /\ cur' = [cur EXCEPT ![p] = u]
          /\ val' = [val EXCEPT ![p] = Get(tenant[u])]
          /\ todo' = [todo EXCEPT ![p] = @ \ {u}]
    /\ Goto(p, "sdiff")
    /\ UNCHANGED <<dbVars, cacheVars, req, found, counts, shown, faultVars>>

GetBroadcastDiff(p) ==
    /\ pc[p] = "sdiff"
    /\ val' = [val EXCEPT ![p] = @ + SDiffCount(cur[p])]
    /\ Goto(p, "publish")
    /\ UNCHANGED <<dbVars, cacheVars, req, found, counts, cur, todo, shown, faultVars>>

\* TransmitMessage: the broker keeps the order in which it is called.
Publish(p) ==
    /\ pc[p] = "publish"
    /\ shown' = IF PersonalProc(p)
                THEN [shown EXCEPT ![cur[p]].personal = val[p]]
                ELSE [shown EXCEPT ![cur[p]].tenant = val[p]]
    /\ cur' = [cur EXCEPT ![p] = "none"]
    /\ val' = [val EXCEPT ![p] = 0]
    /\ Goto(p, IF todo[p] = {} THEN "done" ELSE "push")
    /\ UNCHANGED <<dbVars, cacheVars, req, found, counts, todo, faultVars>>

-----------------------------------------------------------------------------
(* One notification: MarkRead and DeleteNotify, execStatusUpdate *)

NextStatus(kind) == IF kind = "read" THEN "read" ELSE "deleted"

\* Mutant: the target list is not checked.
StartOnceAnyUser(r, kind, u, n) ==
    /\ MayStart(r)
    /\ kind \in Kinds \cap {"read", "delete"}
    /\ n \in sent
    /\ req' = [req EXCEPT ![r] = [kind |-> kind, u |-> u, n |-> n]]
    /\ Goto(r, "find")
    /\ UNCHANGED <<dbVars, cacheVars, found, counts, cur, val, todo, shown, faultVars>>

\* validateNotifyAccess.
StartOnce(r, kind, u, n) ==
    /\ MayStart(r)
    /\ kind \in Kinds \cap {"read", "delete"}
    /\ n \in sent
    /\ n \in Broadcasts \/ u \in TargetsOf[n]
    /\ req' = [req EXCEPT ![r] = [kind |-> kind, u |-> u, n |-> n]]
    /\ Goto(r, "find")
    /\ UNCHANGED <<dbVars, cacheVars, found, counts, cur, val, todo, shown, faultVars>>

\* UpsertByUserAndNotify: find, ...
FindStatus(r) ==
    LET u == req[r].u
        n == req[r].n
    IN  /\ pc[r] = "find"
        /\ Found(r, IF RowsOf(u, n) = {} THEN {} ELSE {FirstId(u, n)})
        /\ Goto(r, "save")
        /\ UNCHANGED <<dbVars, cacheVars, req, counts, cur, val, todo, shown, faultVars>>

\* ... then create a row, or save the one found; no key forbids a second row.
SaveStatus(r) ==
    LET u == req[r].u
        n == req[r].n
        st == NextStatus(req[r].kind)
        old == {row \in RowsOf(u, n) : row.id \in found[r]}
    IN  /\ pc[r] = "save"
        /\ rows' = IF found[r] = {}
                   THEN rows \cup {[id |-> r, u |-> u, n |-> n, st |-> st]}
                   ELSE (rows \ old) \cup {[row EXCEPT !.st = st] : row \in old}
        /\ Found(r, {})
        /\ Goto(r, "cache")
        /\ UNCHANGED <<created, sent, readAt, clearAt, clock, cacheVars, req, counts, cur, val, todo, shown, faultVars>>

\* Mutant: only a broadcast that is already in the total set is recorded.
CacheOnceIfCounted(r) ==
    LET u == req[r].u
        n == req[r].n
    IN  /\ pc[r] = "cache"
        /\ req[r].kind \in {"read", "delete"}
        /\ n \in Broadcasts
        /\ op' = [op EXCEPT ![u] = @ \cup ({n} \cap total)]
        /\ PushTo(r, {u})
        /\ UNCHANGED <<dbVars, personal, tenant, total, req, found, counts, cur, val, shown, faultVars>>

\* asyncUpdateOnceOpCacheAndSend, broadcast: SADD, then push GetTenantUnread.
CacheOnceBroadcast(r) ==
    LET u == req[r].u
        n == req[r].n
    IN  /\ pc[r] = "cache"
        /\ req[r].kind \in {"read", "delete"}
        /\ n \in Broadcasts
        /\ op' = [op EXCEPT ![u] = @ \cup {n}]
        /\ PushTo(r, {u})
        /\ UNCHANGED <<dbVars, personal, tenant, total, req, found, counts, cur, val, shown, faultVars>>

\* Otherwise: decrement a counter and push what the script returns.
CacheOnceTarget(r) ==
    LET u == req[r].u
        n == req[r].n
        old == IF Personal(n) THEN personal[u] ELSE tenant[u]
        new == DecrWithFloor(old)
    IN  /\ pc[r] = "cache"
        /\ req[r].kind \in {"read", "delete"}
        /\ n \notin Broadcasts
        /\ personal' = IF Personal(n) THEN [personal EXCEPT ![u] = new] ELSE personal
        /\ tenant' = IF Personal(n) THEN tenant ELSE [tenant EXCEPT ![u] = new]
        /\ cur' = [cur EXCEPT ![r] = u]
        /\ val' = [val EXCEPT ![r] = new]
        /\ Goto(r, "publish")
        /\ UNCHANGED <<dbVars, total, op, req, found, counts, todo, shown, faultVars>>

-----------------------------------------------------------------------------
(* One-click operations *)

\* The tenant's operations read the time inside their transaction.
StartBatch(r, kind, u) ==
    /\ MayStart(r)
    /\ kind \in Kinds \ {"read", "delete"}
    /\ req' = [req EXCEPT ![r] = [kind |-> kind, u |-> u, n |-> "none"]]
    /\ clock' = IF kind \in {"tenantRead", "tenantDelete"} THEN clock + 1 ELSE clock
    /\ val' = IF kind \in {"tenantRead", "tenantDelete"} THEN [val EXCEPT ![r] = clock'] ELSE val
    /\ Goto(r, "update")
    /\ UNCHANGED <<created, sent, rows, readAt, clearAt, cacheVars, found, counts, cur, todo, shown, faultVars>>

\* Mutant: the rows are deleted instead of marked.
UserBatchPhysical(r) ==
    /\ pc[r] = "update"
    /\ req[r].kind \in {"userRead", "userDelete"}
    /\ rows' = {row \in rows : row.u # req[r].u}
    /\ val' = [val EXCEPT ![r] = 0]
    /\ Goto(r, "cache")
    /\ UNCHANGED <<created, sent, readAt, clearAt, clock, cacheVars, req, found, counts, cur, todo, shown, faultVars>>

\* UserBatchMarkRead and UserBatchDelete: all the user's status rows.
UserBatch(r) ==
    /\ pc[r] = "update"
    /\ req[r].kind \in {"userRead", "userDelete"}
    /\ UpdateRows(req[r].u, Notifies, IF req[r].kind = "userRead" THEN "read" ELSE "deleted")
    /\ val' = [val EXCEPT ![r] = 0]
    /\ Goto(r, "cache")
    /\ UNCHANGED <<created, sent, readAt, clearAt, clock, cacheVars, req, found, counts, cur, todo, shown, faultVars>>

\* TenantBatchMarkRead: the watermark, and the tenant's targeted notifications.
TenantBatchMarkRead(r) ==
    /\ readAt' = [readAt EXCEPT ![req[r].u] = val[r]]
    /\ UpdateRows(req[r].u, {n \in Notifies \ Broadcasts : ~Personal(n)}, "read")
    /\ UNCHANGED clearAt

\* TenantBatchDelete: the watermark, and all the user's status rows.
TenantBatchDelete(r) ==
    /\ clearAt' = [clearAt EXCEPT ![req[r].u] = val[r]]
    /\ UpdateRows(req[r].u, Notifies, "deleted")
    /\ UNCHANGED readAt

\* Either transaction of the tenant's inbox.
TenantBatch(r) ==
    /\ pc[r] = "update"
    /\ req[r].kind \in {"tenantRead", "tenantDelete"}
    /\ IF req[r].kind = "tenantRead" THEN TenantBatchMarkRead(r) ELSE TenantBatchDelete(r)
    /\ val' = [val EXCEPT ![r] = 0]
    /\ Goto(r, "cache")
    /\ UNCHANGED <<created, sent, clock, cacheVars, req, found, counts, cur, todo, shown, faultVars>>

\* Mutant: 0 is pushed but not stored.
CacheBatchUserPushOnly(r) ==
    LET u == req[r].u
    IN  /\ pc[r] = "cache"
        /\ req[r].kind \in {"userRead", "userDelete"}
        /\ cur' = [cur EXCEPT ![r] = u]
        /\ val' = [val EXCEPT ![r] = 0]
        /\ Goto(r, "publish")
        /\ UNCHANGED <<dbVars, cacheVars, req, found, counts, todo, shown, faultVars>>

\* asyncUpdateBatchOpCacheAndSend, user category: SET 0, then push 0.
CacheBatchUser(r) ==
    LET u == req[r].u
    IN  /\ pc[r] = "cache"
        /\ req[r].kind \in {"userRead", "userDelete"}
        /\ personal' = [personal EXCEPT ![u] = 0]
        /\ cur' = [cur EXCEPT ![r] = u]
        /\ val' = [val EXCEPT ![r] = 0]
        /\ Goto(r, "publish")
        /\ UNCHANGED <<dbVars, tenant, total, op, req, found, counts, todo, shown, faultVars>>

\* Mutant: the broadcasts are not recorded as operated on.
CacheBatchTenantNoSync(r) ==
    /\ pc[r] = "cache"
    /\ req[r].kind \in {"tenantRead", "tenantDelete"}
    /\ PushTo(r, {req[r].u})
    /\ UNCHANGED <<dbVars, cacheVars, req, found, counts, cur, val, shown, faultVars>>

\* Tenant category: SUNIONSTORE of total into op, then push GetTenantUnread.
CacheBatchTenant(r) ==
    LET u == req[r].u
    IN  /\ pc[r] = "cache"
        /\ req[r].kind \in {"tenantRead", "tenantDelete"}
        /\ op' = [op EXCEPT ![u] = @ \cup total]
        /\ PushTo(r, {u})
        /\ UNCHANGED <<dbVars, personal, tenant, total, req, found, counts, cur, val, shown, faultVars>>

-----------------------------------------------------------------------------
(* Faults *)

\* Redis loses its data.
CacheLoss ==
    /\ losses < MaxLosses
    /\ losses' = losses + 1
    /\ personal' = [u \in Users |-> Missing]
    /\ tenant' = [u \in Users |-> Missing]
    /\ total' = {}
    /\ op' = [u \in Users |-> {}]
    /\ UNCHANGED <<dbVars, procVars, shown, errors>>

\* A call of p fails, and what p had read for it is of no more use.
CallFails(p) ==
    /\ errors < MaxErrors
    /\ errors' = errors + 1
    /\ Found(p, {})
    /\ counts' = [n \in Notifies |-> IF n = p THEN [u \in Users |-> 0] ELSE counts[n]]
    /\ cur' = [cur EXCEPT ![p] = "none"]
    /\ val' = [val EXCEPT ![p] = 0]
    /\ UNCHANGED <<dbVars, cacheVars, req, shown, losses>>

\* Mutant: transmit goes on to SendNotify although its transaction failed.
OperationFailsIgnored(p) ==
    /\ CallFails(p)
    /\ pc[p] \in {"commit", "find", "save", "update", "cache"}
    /\ Goto(p, IF p \in Broadcasts THEN "sadd" ELSE "done")
    /\ UNCHANGED todo

\* A transaction, a query of a status operation or its cache update fails: the
\* operation ends there, with what it has already done.
OperationFails(p) ==
    /\ CallFails(p)
    /\ pc[p] \in {"commit", "find", "save", "update", "cache"}
    /\ Goto(p, "done")
    /\ UNCHANGED todo

\* An unread update of SendNotify fails: it is logged, and the pushes go on.
UpdateFails(n) ==
    /\ CallFails(n)
    /\ pc[n] \in {"sadd", "scard", "reconcile", "replace", "incr", "count", "set"}
    /\ PushTo(n, IF n \in Broadcasts THEN Online ELSE TargetsOf[n])

\* A read of a count fails, or the broker refuses the message: that push is lost.
PushFails(p) ==
    /\ CallFails(p)
    /\ pc[p] \in {"push", "sdiff", "publish"}
    /\ todo' = [todo EXCEPT ![p] = IF pc[p] = "push" THEN @ \ {CHOOSE u \in @ : TRUE} ELSE @]
    /\ Goto(p, IF todo'[p] = {} THEN "done" ELSE "push")

-----------------------------------------------------------------------------
SendStep(n) ==
    \/ SendBegin(n) \/ SendCommit(n)
    \/ SAddTotal(n) \/ SCardTotal(n)
    \/ ReconcileRead(n) \/ ReconcileShare(n) \/ ReconcileShared(n) \/ ReplaceTotal(n)
    \/ IncrTargets(n) \/ CountTargets(n) \/ SetTargets(n)

RequestStep(r) ==
    \/ \E kind \in Kinds, u \in Users : StartBatch(r, kind, u) \/ \E n \in Notifies : StartOnce(r, kind, u, n)
    \/ FindStatus(r) \/ SaveStatus(r) \/ CacheOnceBroadcast(r) \/ CacheOnceTarget(r)
    \/ UserBatch(r) \/ TenantBatch(r)
    \/ CacheBatchUser(r) \/ CacheBatchTenant(r)

PushStep(p) == GetPersonalUnread(p) \/ GetTenantCounter(p) \/ GetBroadcastDiff(p) \/ Publish(p)

Next ==
    \/ \E n \in Notifies : SendStep(n)
    \/ \E r \in Reqs : RequestStep(r)
    \/ \E p \in Procs : PushStep(p) \/ OperationFails(p) \/ PushFails(p)
    \/ \E n \in Notifies : UpdateFails(n)
    \/ CacheLoss

Spec == Init /\ [][Next]_vars

-----------------------------------------------------------------------------
(* Properties *)

Counters == Nat \cup {Missing}

\* Types; in particular no counter and no pushed count is negative.
TypeOK ==
    /\ created \in [Notifies -> Nat] /\ clock \in Nat
    /\ sent \in SUBSET Notifies
    /\ rows \in SUBSET [id : Procs, u : Users, n : Notifies, st : {"unread", "read", "deleted"}]
    /\ readAt \in [Users -> Nat] /\ clearAt \in [Users -> Nat]
    /\ personal \in [Users -> Counters] /\ tenant \in [Users -> Counters]
    /\ total \in SUBSET Broadcasts /\ op \in [Users -> SUBSET Broadcasts]
    /\ pc \in [Procs -> {"idle", "commit", "sadd", "scard", "reconcile", "replace", "shared", "incr",
                         "count", "set", "find", "save", "update", "cache", "push", "sdiff",
                         "publish", "done"}]
    /\ req \in [Reqs -> [kind : AllKinds, u : Users, n : Notifies \cup {"none"}] \cup {NoReq}]
    /\ found \in [Procs -> SUBSET Procs] /\ counts \in [Notifies -> [Users -> Nat]]
    /\ cur \in [Procs -> Users \cup {"none"}] /\ val \in [Procs -> Nat]
    /\ todo \in [Procs -> SUBSET Users]
    /\ shown \in [Users -> [personal : Nat, tenant : Nat]]
    /\ losses \in 0..MaxLosses /\ errors \in 0..MaxErrors

\* GetTenantStats / GetPersonalStats: n is counted as unread in u's inbox.
InboxUnread(u, n) ==
    /\ n \in sent
    /\ \/ n \in Broadcasts /\ RowsOf(u, n) = {}
       \/ \E row \in RowsOf(u, n) : row.st = "unread"
    /\ ~Personal(n) => created[n] > clearAt[u] /\ created[n] > readAt[u]

\* A status row exists only for a committed notification and a user it is
\* addressed to: transmit, validateNotifyAccess and the upsert agree on access
\* whatever overlaps, fails or is repeated.
RowsAddressed ==
    \A row \in rows : row.n \in sent /\ (row.n \in Broadcasts \/ row.u \in TargetsOf[row.n])

\* Once all requests are over, no broadcast that a user has read or deleted is
\* left in the difference that GetTenantUnread counts, however its sending, the
\* rebuild of the total and the user's operations have interleaved.
OperatedNotCounted ==
    Quiescent /\ losses = 0 /\ errors = 0 =>
        \A u \in Users, n \in Broadcasts :
            (\E row \in RowsOf(u, n) : row.st # "unread") => n \notin total \ op[u]

\* Redis never names a broadcast that the database has not committed, whatever
\* fails or is lost: the counts are updated after the commit or from a query.
CacheNeverAhead == total \subseteq sent /\ \A u \in Users : op[u] \subseteq sent

\* BatchReconcileUsers repairs: a send that overlaps with nothing leaves the
\* counters of its targets equal to the database, even after Redis lost its
\* data, earlier updates failed, or earlier operations left a wrong count.
SendHeals ==
    [][Serial => \A n \in Notifies :
          pc[n] = "set" /\ pc'[n] # "set" /\ UNCHANGED errors =>
              \A u \in TargetsOf[n] :
                  IF Personal(n) THEN personal'[u] = CountUnread(u, "user")
                                 ELSE tenant'[u] = CountUnread(u, "tenant")]_vars

-----------------------------------------------------------------------------
(* Claims of the code's comments and documents that the code does not keep *)

\* constant/app.go:46: the personal count is the number of the user's unread
\* notifications (sent by users), once nothing is in progress.
PersonalExact == Quiescent => \A u \in Users : Get(personal[u]) = CountUnread(u, "user")

\* unread.go:80, unread_db.go:61: the total set holds every broadcast of the
\* tenant that physically exists.
BroadcastsCounted == Quiescent => sent \cap Broadcasts \subseteq total

\* service/status.go:131: TenantBatchDelete marks the tenant's targeted
\* notifications; a personal one is deleted only by the user's own operations.
PersonalDeletedByUser ==
    \A row \in rows : Personal(row.n) /\ row.st = "deleted" =>
        \E r \in Reqs : /\ req[r].u = row.u
                        /\ \/ req[r].kind = "userDelete"
                           \/ req[r].kind = "delete" /\ req[r].n = row.n
=============================================================================
