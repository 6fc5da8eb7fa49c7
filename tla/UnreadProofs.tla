---------------------------- MODULE UnreadProofs ----------------------------
(***************************************************************************)
(* Proofs about Unread, for any number of notifications, requests, users   *)
(* and faults.                                                             *)
(***************************************************************************)
EXTENDS Unread, TLAPS, FiniteSetTheorems

Statuses == {"unread", "read", "deleted"}
RowType == [id : Procs, u : Users, n : Notifies, st : Statuses]

-----------------------------------------------------------------------------
(* Sets of status rows *)

\* The image of a finite set is finite.
LEMMA FiniteImage ==
    ASSUME NEW S, IsFiniteSet(S), NEW T, NEW f \in [S -> T], \A t \in T : \E s \in S : f[s] = t
    PROVE  IsFiniteSet(T)
<1>1. f \in Surjection(S, T)
  BY DEF Surjection
<1> QED BY <1>1, FS_Surjection

\* What UpdateRows and SaveStatus do to the rows R: those of old get the status st.
Stamp(R, old, st) == (R \ old) \cup {[row EXCEPT !.st = st] : row \in old}

\* Stamping keeps the rows' types, their number finite, who and what each is for,
\* and makes no row unread.
LEMMA StampFacts ==
    ASSUME NEW R \in SUBSET RowType, IsFiniteSet(R),
           NEW old \in SUBSET R, NEW st \in {"read", "deleted"}
    PROVE  /\ Stamp(R, old, st) \in SUBSET RowType
           /\ IsFiniteSet(Stamp(R, old, st))
           /\ \A row \in Stamp(R, old, st) : \E prev \in R : prev.u = row.u /\ prev.n = row.n
           /\ \A prev \in R : \E row \in Stamp(R, old, st) : prev.u = row.u /\ prev.n = row.n
           /\ \A row \in Stamp(R, old, st) : row.st = "unread" => row \in R \ old
<1> DEFINE new == {[row EXCEPT !.st = st] : row \in old}
           f == [row \in old |-> [row EXCEPT !.st = st]]
<1>1. \A row \in old : /\ [row EXCEPT !.st = st] \in RowType
                       /\ [row EXCEPT !.st = st].u = row.u
                       /\ [row EXCEPT !.st = st].n = row.n
                       /\ [row EXCEPT !.st = st].st = st
  BY DEF RowType, Statuses
<1>2. IsFiniteSet(old) /\ IsFiniteSet(R \ old)
  BY FS_Subset
<1>3. f \in [old -> new] /\ \A t \in new : \E s \in old : f[s] = t
  OBVIOUS
<1>4. IsFiniteSet(new)
  <2> HIDE DEF new, f
  <2> QED BY <1>2, <1>3, FiniteImage
<1>5. IsFiniteSet((R \ old) \cup new)
  BY <1>2, <1>4, FS_Union
<1> USE DEF Stamp
<1>6. \A row \in Stamp(R, old, st) : row.st = "unread" => row \in R \ old
  BY <1>1
<1>7. \A row \in Stamp(R, old, st) : \E prev \in R : prev.u = row.u /\ prev.n = row.n
  BY <1>1
<1>8. \A prev \in R : \E row \in Stamp(R, old, st) : prev.u = row.u /\ prev.n = row.n
  BY <1>1
<1> QED BY <1>1, <1>5, <1>6, <1>7, <1>8

\* The rows that a send creates.
LEMMA SendRows ==
    ASSUME NEW n \in Notifies
    PROVE  LET new == {[id |-> n, u |-> u, n |-> n, st |-> "unread"] : u \in TargetsOf[n]}
           IN  new \in SUBSET RowType /\ IsFiniteSet(new)
<1> DEFINE new == {[id |-> n, u |-> u, n |-> n, st |-> "unread"] : u \in TargetsOf[n]}
           f == [u \in TargetsOf[n] |-> [id |-> n, u |-> u, n |-> n, st |-> "unread"]]
<1>1. IsFiniteSet(TargetsOf[n]) /\ TargetsOf[n] \subseteq Users
  BY TargetsOfAssumption
<1>2. new \in SUBSET RowType
  BY <1>1 DEF RowType, Procs, Statuses
<1>3. f \in [TargetsOf[n] -> new] /\ \A t \in new : \E s \in TargetsOf[n] : f[s] = t
  OBVIOUS
<1>4. IsFiniteSet(new)
  <2> HIDE DEF new, f
  <2> QED BY <1>1, <1>3, FiniteImage
<1> QED BY <1>2, <1>4

\* A count of rows is a number.
LEMMA CountIsNat ==
    ASSUME IsFiniteSet(rows), NEW u, NEW s
    PROVE  CountUnread(u, s) \in Nat
<1> DEFINE S == {row \in rows : /\ row.u = u
                                /\ row.st = "unread"
                                /\ row.n \notin Broadcasts
                                /\ SenderOf[row.n] = s}
<1>1. IsFiniteSet(S)
  BY FS_Subset
<1> QED BY <1>1, FS_CardinalityType DEF CountUnread

-----------------------------------------------------------------------------
(* The type invariant *)

SendPlaces == {"idle", "commit", "sadd", "scard", "reconcile", "replace", "shared", "incr",
               "count", "set", "push", "sdiff", "publish", "done"}
RequestPlaces == {"idle", "find", "save", "update", "cache", "push", "sdiff", "publish", "done"}

\* The parts of TypeOK.
TimeTypes == created \in [Notifies -> Nat] /\ clock \in Nat /\ readAt \in [Users -> Nat] /\ clearAt \in [Users -> Nat]
RowTypes == sent \in SUBSET Notifies /\ rows \in SUBSET RowType
CounterTypes == personal \in [Users -> Counters] /\ tenant \in [Users -> Counters]
SetTypes == total \in SUBSET Broadcasts /\ op \in [Users -> SUBSET Broadcasts]
ReqTypes == req \in [Reqs -> [kind : AllKinds, u : Users, n : Notifies \cup {"none"}] \cup {NoReq}]
ProcTypes ==
    /\ pc \in [Procs -> SendPlaces \cup RequestPlaces]
    /\ found \in [Procs -> SUBSET Procs] /\ todo \in [Procs -> SUBSET Users]
HeldTypes == cur \in [Procs -> Users \cup {"none"}] /\ val \in [Procs -> Nat]
CountTypes == counts \in [Notifies -> [Users -> Nat]]
ShownTypes == shown \in [Users -> [personal : Nat, tenant : Nat]]
FaultTypes == losses \in 0..MaxLosses /\ errors \in 0..MaxErrors

Typed ==
    /\ TimeTypes /\ RowTypes /\ CounterTypes /\ SetTypes /\ ReqTypes /\ ProcTypes
    /\ HeldTypes /\ CountTypes /\ ShownTypes /\ FaultTypes

LEMMA TypeParts ==
    Typed <=> TypeOK
<1>1. SendPlaces \cup RequestPlaces =
         {"idle", "commit", "sadd", "scard", "reconcile", "replace", "shared", "incr",
          "count", "set", "find", "save", "update", "cache", "push", "sdiff",
          "publish", "done"}
  BY DEF SendPlaces, RequestPlaces
<1> QED BY <1>1 DEF Typed, TypeOK, TimeTypes, RowTypes, CounterTypes, SetTypes, ReqTypes, ProcTypes,
                    HeldTypes, CountTypes, ShownTypes, FaultTypes, RowType, Statuses

\* Which process can be where, and with which request.
Places ==
    /\ \A n \in Notifies :
          /\ pc[n] \in SendPlaces
          /\ pc[n] \in {"sadd", "scard", "reconcile", "replace", "shared"} => n \in Broadcasts
    /\ \A r \in Reqs :
          /\ pc[r] \in RequestPlaces
          /\ pc[r] \in {"find", "save"} => req[r].kind \in {"read", "delete"}
          /\ pc[r] = "update" => req[r].kind \notin {"read", "delete"}
          /\ pc[r] \in {"find", "save", "update", "cache"} =>
                /\ req[r].u \in Users /\ req[r].kind \in AllKinds
                /\ req[r].kind \in {"read", "delete"} => req[r].n \in Notifies
    /\ \A p \in Procs : pc[p] \in {"sdiff", "publish"} => cur[p] \in Users

\* What is counted is finite.
Finite ==
    /\ IsFiniteSet(rows) /\ IsFiniteSet(sent) /\ IsFiniteSet(total)
    /\ \A n \in Notifies : pc[n] = "replace" => found[n] \subseteq Broadcasts /\ IsFiniteSet(found[n])

TypeInv == Typed /\ Places /\ Finite

LEMMA InitTypes == Init => TypeInv
<1> USE DEF Init
<1>1. Init => TypeOK
  BY BoundsAssumption DEF TypeOK, Counters, Missing, NoReq, Procs
<1>2. Init => Places
  BY DEF Places, SendPlaces, RequestPlaces, Procs
<1>3. Init => Finite
  BY FS_EmptySet DEF Finite, Procs
<1> QED BY <1>1, <1>2, <1>3, TypeParts DEF TypeInv


-----------------------------------------------------------------------------
(* Which actions change what *)

\* What a step may do to the database, and which action does it.
DatabaseStep ==
    /\ UNCHANGED <<created, clock>> \/ (\E n \in Notifies : SendBegin(n))
       \/ \E r \in Reqs, kind \in Kinds, u \in Users : StartBatch(r, kind, u)
    /\ UNCHANGED <<readAt, clearAt>> \/ \E r \in Reqs : TenantBatch(r)
    /\ UNCHANGED sent \/ \E n \in Notifies : SendCommit(n)
    /\ \/ UNCHANGED rows
       \/ \E n \in Notifies : SendCommit(n)
       \/ \E r \in Reqs : SaveStatus(r) \/ UserBatch(r) \/ TenantBatch(r)

LEMMA DatabaseFrame ==
    ASSUME [Next]_vars
    PROVE  DatabaseStep
<1> USE DEF dbVars
<1>0. UNCHANGED vars \/ CacheLoss => DatabaseStep
  BY DEF DatabaseStep, vars, CacheLoss, dbVars, cacheVars, procVars, faultVars
<1>1. ASSUME NEW n \in Notifies, SendStep(n) PROVE DatabaseStep
  BY <1>1 DEF DatabaseStep, SendStep, SendBegin, SendCommit, SAddTotal, SCardTotal, ReconcileRead, ReconcileShare, ReconcileShared, ReplaceTotal, IncrTargets, CountTargets, SetTargets
<1>2. ASSUME NEW r \in Reqs, RequestStep(r) PROVE DatabaseStep
  BY <1>2 DEF DatabaseStep, RequestStep, StartBatch, StartOnce, FindStatus, SaveStatus, CacheOnceBroadcast, CacheOnceTarget, UserBatch, TenantBatch, CacheBatchUser, CacheBatchTenant
<1>3. ASSUME NEW p \in Procs, PushStep(p) PROVE DatabaseStep
  BY <1>3 DEF DatabaseStep, PushStep, GetPersonalUnread, GetTenantCounter, GetBroadcastDiff, Publish
<1>4. ASSUME NEW p \in Procs, OperationFails(p) \/ PushFails(p) PROVE DatabaseStep
  BY <1>4 DEF DatabaseStep, OperationFails, PushFails, CallFails
<1>5. ASSUME NEW n \in Notifies, UpdateFails(n) PROVE DatabaseStep
  BY <1>5 DEF DatabaseStep, UpdateFails, CallFails
<1> QED BY <1>0, <1>1, <1>2, <1>3, <1>4, <1>5 DEF Next

\* The same for Redis.
CacheStep ==
    /\ \/ UNCHANGED <<personal, tenant>>
       \/ \E n \in Notifies : IncrTargets(n) \/ SetTargets(n)
       \/ \E r \in Reqs : CacheOnceTarget(r) \/ CacheBatchUser(r)
       \/ CacheLoss
    /\ UNCHANGED total \/ (\E n \in Notifies : SAddTotal(n) \/ ReplaceTotal(n)) \/ CacheLoss
    /\ UNCHANGED op \/ (\E r \in Reqs : CacheOnceBroadcast(r) \/ CacheBatchTenant(r)) \/ CacheLoss

LEMMA CacheFrame ==
    ASSUME [Next]_vars
    PROVE  CacheStep
<1> USE DEF cacheVars
<1>0. UNCHANGED vars \/ CacheLoss => CacheStep
  BY DEF CacheStep, vars, CacheLoss, dbVars, cacheVars, procVars, faultVars
<1>1. ASSUME NEW n \in Notifies, SendStep(n) PROVE CacheStep
  BY <1>1 DEF CacheStep, SendStep, SendBegin, SendCommit, SAddTotal, SCardTotal, ReconcileRead, ReconcileShare, ReconcileShared, ReplaceTotal, IncrTargets, CountTargets, SetTargets
<1>2. ASSUME NEW r \in Reqs, RequestStep(r) PROVE CacheStep
  BY <1>2 DEF CacheStep, RequestStep, StartBatch, StartOnce, FindStatus, SaveStatus, CacheOnceBroadcast, CacheOnceTarget, UserBatch, TenantBatch, CacheBatchUser, CacheBatchTenant
<1>3. ASSUME NEW p \in Procs, PushStep(p) PROVE CacheStep
  BY <1>3 DEF CacheStep, PushStep, GetPersonalUnread, GetTenantCounter, GetBroadcastDiff, Publish
<1>4. ASSUME NEW p \in Procs, OperationFails(p) \/ PushFails(p) PROVE CacheStep
  BY <1>4 DEF CacheStep, OperationFails, PushFails, CallFails
<1>5. ASSUME NEW n \in Notifies, UpdateFails(n) PROVE CacheStep
  BY <1>5 DEF CacheStep, UpdateFails, CallFails
<1> QED BY <1>0, <1>1, <1>2, <1>3, <1>4, <1>5 DEF Next

\* The same for what the requests hold, what is shown and the faults.
ProcessStep ==
    /\ \/ UNCHANGED req
       \/ \E r \in Reqs, kind \in Kinds, u \in Users :
             StartBatch(r, kind, u) \/ \E n \in Notifies : StartOnce(r, kind, u, n)
    /\ UNCHANGED counts \/ (\E n \in Notifies : CountTargets(n) \/ SetTargets(n)) \/ \E p \in Procs : CallFails(p)
    /\ UNCHANGED shown \/ \E p \in Procs : Publish(p)
    /\ UNCHANGED <<losses, errors>> \/ (\E p \in Procs : CallFails(p)) \/ CacheLoss

LEMMA ProcessFrame ==
    ASSUME [Next]_vars
    PROVE  ProcessStep
<1> USE DEF procVars, faultVars, Procs
<1>0. UNCHANGED vars \/ CacheLoss => ProcessStep
  BY DEF ProcessStep, vars, CacheLoss, dbVars, cacheVars, procVars, faultVars
<1>1. ASSUME NEW n \in Notifies, SendStep(n) PROVE ProcessStep
  BY <1>1 DEF ProcessStep, SendStep, SendBegin, SendCommit, SAddTotal, SCardTotal, ReconcileRead, ReconcileShare, ReconcileShared, ReplaceTotal, IncrTargets, CountTargets, SetTargets
<1>2. ASSUME NEW r \in Reqs, RequestStep(r) PROVE ProcessStep
  BY <1>2 DEF ProcessStep, RequestStep, StartBatch, StartOnce, FindStatus, SaveStatus, CacheOnceBroadcast, CacheOnceTarget, UserBatch, TenantBatch, CacheBatchUser, CacheBatchTenant
<1>3. ASSUME NEW p \in Procs, PushStep(p) PROVE ProcessStep
  BY <1>3 DEF ProcessStep, PushStep, GetPersonalUnread, GetTenantCounter, GetBroadcastDiff, Publish
<1>4. ASSUME NEW p \in Procs, OperationFails(p) \/ PushFails(p) PROVE ProcessStep
  BY <1>4 DEF ProcessStep, OperationFails, PushFails, CallFails
<1>5. ASSUME NEW n \in Notifies, UpdateFails(n) PROVE ProcessStep
  BY <1>5 DEF ProcessStep, UpdateFails, CallFails
<1> QED BY <1>0, <1>1, <1>2, <1>3, <1>4, <1>5 DEF Next

-----------------------------------------------------------------------------
(* The type invariant is kept *)

LEMMA KeepsTime ==
    ASSUME TimeTypes, HeldTypes, DatabaseStep
    PROVE  TimeTypes'
<1> USE DEF TimeTypes
<1>1. created' \in [Notifies -> Nat] /\ clock' \in Nat
  BY DEF DatabaseStep, SendBegin, StartBatch
<1>2. readAt' \in [Users -> Nat] /\ clearAt' \in [Users -> Nat]
  <2>1. ASSUME NEW r \in Reqs, TenantBatch(r) PROVE readAt' \in [Users -> Nat] /\ clearAt' \in [Users -> Nat]
    <3>1. val[r] \in Nat
      BY DEF HeldTypes, Procs
    <3> QED BY <2>1, <3>1 DEF TenantBatch, TenantBatchMarkRead, TenantBatchDelete
  <2> QED BY <2>1 DEF DatabaseStep
<1> QED BY <1>1, <1>2

\* UpdateRows and SaveStatus in terms of Stamp.
LEMMA StampedRows ==
    ASSUME NEW r \in Reqs, pc[r] \in {"save", "update"}, Places
    PROVE  /\ UserBatch(r) \/ TenantBatch(r) =>
                \E old \in SUBSET rows, st \in {"read", "deleted"} : rows' = Stamp(rows, old, st)
           /\ SaveStatus(r) =>
                \/ rows' = rows \cup {[id |-> r, u |-> req[r].u, n |-> req[r].n, st |-> NextStatus(req[r].kind)]}
                \/ \E old \in SUBSET rows, st \in {"read", "deleted"} : rows' = Stamp(rows, old, st)
<1>1. ASSUME NEW u, NEW N, NEW st \in {"read", "deleted"}, UpdateRows(u, N, st)
      PROVE  \E old \in SUBSET rows, s \in {"read", "deleted"} : rows' = Stamp(rows, old, s)
  <2> DEFINE old == {row \in rows : row.u = u /\ row.n \in N}
  <2>1. old \in SUBSET rows /\ rows' = Stamp(rows, old, st)
    BY <1>1 DEF UpdateRows, Stamp
  <2> QED BY <2>1
<1>2. UserBatch(r) => \E old \in SUBSET rows, st \in {"read", "deleted"} : rows' = Stamp(rows, old, st)
  <2> DEFINE st == IF req[r].kind = "userRead" THEN "read" ELSE "deleted"
  <2>1. st \in {"read", "deleted"} /\ (UserBatch(r) => UpdateRows(req[r].u, Notifies, st))
    BY DEF UserBatch
  <2> HIDE DEF st
  <2> QED BY <2>1, <1>1
<1>3. TenantBatch(r) => \E old \in SUBSET rows, st \in {"read", "deleted"} : rows' = Stamp(rows, old, st)
  <2> DEFINE N == {n \in Notifies \ Broadcasts : ~Personal(n)}
  <2>1. TenantBatch(r) => UpdateRows(req[r].u, N, "read") \/ UpdateRows(req[r].u, Notifies, "deleted")
    BY DEF TenantBatch, TenantBatchMarkRead, TenantBatchDelete
  <2> HIDE DEF N
  <2> QED BY <2>1, <1>1
<1>4. SaveStatus(r) =>
         \/ rows' = rows \cup {[id |-> r, u |-> req[r].u, n |-> req[r].n, st |-> NextStatus(req[r].kind)]}
         \/ \E old \in SUBSET rows, st \in {"read", "deleted"} : rows' = Stamp(rows, old, st)
  <2> DEFINE old == {row \in RowsOf(req[r].u, req[r].n) : row.id \in found[r]}
             st == NextStatus(req[r].kind)
  <2>1. old \in SUBSET rows /\ st \in {"read", "deleted"}
    BY DEF RowsOf, NextStatus
  <2>2. SaveStatus(r) /\ found[r] # {} => rows' = Stamp(rows, old, st)
    BY DEF SaveStatus, Stamp
  <2>3. SaveStatus(r) /\ found[r] = {} =>
           rows' = rows \cup {[id |-> r, u |-> req[r].u, n |-> req[r].n, st |-> st]}
    BY DEF SaveStatus
  <2> QED BY <2>1, <2>2, <2>3
<1> QED BY <1>2, <1>3, <1>4

\* Rows are created by a send or an upsert only; else each one continues a row
\* of the same user and notification.
LEMMA RowsStep ==
    ASSUME RowTypes, Places, IsFiniteSet(rows), DatabaseStep
    PROVE  /\ rows' \in SUBSET RowType
           /\ IsFiniteSet(rows')
           /\ \A row \in rows' :
                 \/ \E prev \in rows : prev.u = row.u /\ prev.n = row.n
                 \/ \E n \in Notifies : SendCommit(n) /\ row.n = n /\ row.u \in TargetsOf[n]
                 \/ \E r \in Reqs : SaveStatus(r) /\ row.n = req[r].n /\ row.u = req[r].u
<1> DEFINE Kept(row) == \E prev \in rows : prev.u = row.u /\ prev.n = row.n
<1> USE DEF RowTypes
<1>0. \A row \in rows : Kept(row)
  OBVIOUS
<1>1. ASSUME NEW n \in Notifies, SendCommit(n)
      PROVE  /\ rows' \in SUBSET RowType /\ IsFiniteSet(rows')
             /\ \A row \in rows' : Kept(row) \/ (row.n = n /\ row.u \in TargetsOf[n])
  <2> DEFINE new == {[id |-> n, u |-> u, n |-> n, st |-> "unread"] : u \in TargetsOf[n]}
  <2>1. rows' = rows \cup new
    BY <1>1 DEF SendCommit
  <2>2. new \in SUBSET RowType /\ IsFiniteSet(new)
    BY SendRows
  <2>3. \A row \in new : row.n = n /\ row.u \in TargetsOf[n]
    OBVIOUS
  <2>4. IsFiniteSet(rows \cup new)
    BY <2>2, FS_Union
  <2> HIDE DEF new, Kept
  <2>5. rows' \in SUBSET RowType
    BY <2>1, <2>2
  <2>6. \A row \in rows' : Kept(row) \/ (row.n = n /\ row.u \in TargetsOf[n])
    BY <1>0, <2>1, <2>3, Zenon
  <2> QED BY <2>1, <2>4, <2>5, <2>6
<1>2. ASSUME NEW old \in SUBSET rows, NEW st \in {"read", "deleted"}, rows' = Stamp(rows, old, st)
      PROVE  rows' \in SUBSET RowType /\ IsFiniteSet(rows') /\ \A row \in rows' : Kept(row)
  <2> DEFINE R == Stamp(rows, old, st)
  <2>1. R \in SUBSET RowType /\ IsFiniteSet(R) /\ \A row \in R : Kept(row)
    BY StampFacts
  <2> HIDE DEF R, Kept
  <2> QED BY <1>2, <2>1 DEF R
<1>3. ASSUME NEW r \in Reqs, SaveStatus(r)
      PROVE  /\ rows' \in SUBSET RowType /\ IsFiniteSet(rows')
             /\ \A row \in rows' : Kept(row) \/ (row.n = req[r].n /\ row.u = req[r].u)
  <2> DEFINE new == [id |-> r, u |-> req[r].u, n |-> req[r].n, st |-> NextStatus(req[r].kind)]
  <2>1. pc[r] = "save"
    BY <1>3 DEF SaveStatus
  <2>2. new \in RowType /\ new.n = req[r].n /\ new.u = req[r].u
    BY <2>1 DEF RowType, Places, NextStatus, Statuses, Procs
  <2>3. rows' = rows \cup {new} \/ \E old \in SUBSET rows, st \in {"read", "deleted"} : rows' = Stamp(rows, old, st)
    BY <1>3, <2>1, StampedRows
  <2>4. IsFiniteSet(rows \cup {new})
    BY FS_AddElement
  <2> HIDE DEF new, Kept
  <2>5. CASE rows' = rows \cup {new}
    <3>1. rows' \in SUBSET RowType /\ IsFiniteSet(rows')
      BY <2>2, <2>4, <2>5
    <3>2. \A row \in rows' : Kept(row) \/ (row.n = req[r].n /\ row.u = req[r].u)
      BY <1>0, <2>2, <2>5, Zenon
    <3> QED BY <3>1, <3>2
  <2> QED BY <2>3, <2>5, <1>2, Zenon
<1>4. ASSUME NEW r \in Reqs, UserBatch(r) \/ TenantBatch(r)
      PROVE  rows' \in SUBSET RowType /\ IsFiniteSet(rows') /\ \A row \in rows' : Kept(row)
  <2>1. pc[r] = "update"
    BY <1>4 DEF UserBatch, TenantBatch
  <2>2. \E old \in SUBSET rows, st \in {"read", "deleted"} : rows' = Stamp(rows, old, st)
    BY <1>4, <2>1, StampedRows
  <2> QED BY <2>2, <1>2
<1>5. UNCHANGED rows => rows' \in SUBSET RowType /\ IsFiniteSet(rows') /\ \A row \in rows' : Kept(row)
  OBVIOUS
<1>6. \/ UNCHANGED rows
      \/ \E n \in Notifies : SendCommit(n)
      \/ \E r \in Reqs : SaveStatus(r) \/ UserBatch(r) \/ TenantBatch(r)
  BY DEF DatabaseStep
<1> QED BY <1>1, <1>3, <1>4, <1>5, <1>6

\* No row of a user and a notification disappears, and only a send makes one unread.
LEMMA RowsHistory ==
    ASSUME RowTypes, Places, IsFiniteSet(rows), DatabaseStep
    PROVE  /\ \A prev \in rows : \E row \in rows' : prev.u = row.u /\ prev.n = row.n
           /\ \A row \in rows' : row.st = "unread" => row \in rows \/ SendCommit(row.n)
<1> DEFINE Goal == /\ \A prev \in rows : \E row \in rows' : prev.u = row.u /\ prev.n = row.n
                   /\ \A row \in rows' : row.st = "unread" => row \in rows \/ SendCommit(row.n)
<1> USE DEF RowTypes
<1>1. ASSUME NEW n \in Notifies, SendCommit(n) PROVE Goal
  <2> DEFINE new == {[id |-> n, u |-> u, n |-> n, st |-> "unread"] : u \in TargetsOf[n]}
  <2>1. rows' = rows \cup new
    BY <1>1 DEF SendCommit
  <2>2. \A row \in new : row.n = n
    OBVIOUS
  <2> HIDE DEF new
  <2>3. \A row \in rows' : row \in rows \/ row.n = n
    BY <2>1, <2>2
  <2>4. \A row \in rows' : row \in rows \/ SendCommit(row.n)
    BY <1>1, <2>3
  <2> QED BY <2>1, <2>4
<1>2. ASSUME NEW old \in SUBSET rows, NEW st \in {"read", "deleted"}, rows' = Stamp(rows, old, st)
      PROVE  Goal
  <2> DEFINE R == Stamp(rows, old, st)
  <2>1. /\ \A prev \in rows : \E row \in R : prev.u = row.u /\ prev.n = row.n
        /\ \A row \in R : row.st = "unread" => row \in rows
    BY StampFacts
  <2> HIDE DEF R
  <2> QED BY <1>2, <2>1 DEF R
<1>3. ASSUME NEW r \in Reqs, SaveStatus(r) PROVE Goal
  <2> DEFINE new == [id |-> r, u |-> req[r].u, n |-> req[r].n, st |-> NextStatus(req[r].kind)]
  <2>1. rows' = rows \cup {new} \/ \E old \in SUBSET rows, st \in {"read", "deleted"} : rows' = Stamp(rows, old, st)
    BY <1>3, StampedRows DEF SaveStatus
  <2>2. new.st # "unread"
    BY DEF NextStatus
  <2> HIDE DEF new
  <2>3. CASE rows' = rows \cup {new}
    BY <2>2, <2>3
  <2> HIDE DEF Goal
  <2> QED BY <2>1, <2>3, <1>2
<1>4. ASSUME NEW r \in Reqs, UserBatch(r) \/ TenantBatch(r) PROVE Goal
  <2>1. \E old \in SUBSET rows, st \in {"read", "deleted"} : rows' = Stamp(rows, old, st)
    BY <1>4, StampedRows DEF UserBatch, TenantBatch
  <2> HIDE DEF Goal
  <2> QED BY <2>1, <1>2
<1>5. UNCHANGED rows => Goal
  OBVIOUS
<1>6. Goal
  <2> HIDE DEF Goal
  <2> QED BY <1>1, <1>3, <1>4, <1>5 DEF DatabaseStep
<1> QED BY <1>6

LEMMA KeepsRows ==
    ASSUME RowTypes, Places, IsFiniteSet(rows), IsFiniteSet(sent), DatabaseStep
    PROVE  RowTypes' /\ IsFiniteSet(rows)' /\ IsFiniteSet(sent)'
<1>1. sent' \in SUBSET Notifies /\ IsFiniteSet(sent')
  BY FS_AddElement DEF RowTypes, DatabaseStep, SendCommit
<1> QED BY <1>1, RowsStep DEF RowTypes

LEMMA CounterOps ==
    ASSUME NEW v \in Counters
    PROVE  /\ Get(v) \in Nat
           /\ DecrWithFloor(v) \in Nat
           /\ IncrIfExist(v) \in Counters
BY DEF Counters, Missing, Get, DecrWithFloor, IncrIfExist

LEMMA KeepsCounters ==
    ASSUME CounterTypes, CountTypes, Places, CacheStep
    PROVE  CounterTypes'
<1> USE DEF CounterTypes
<1>1. ASSUME NEW n \in Notifies, NEW new \in [Users -> Counters], ForTargets(n, new) PROVE CounterTypes'
  BY <1>1 DEF ForTargets
<1>2. ASSUME NEW n \in Notifies, IncrTargets(n) PROVE CounterTypes'
  <2> DEFINE new == [u \in Users |-> IncrIfExist(IF Personal(n) THEN personal[u] ELSE tenant[u])]
  <2>1. ForTargets(n, new)
    BY <1>2 DEF IncrTargets
  <2>2. ASSUME NEW u \in Users PROVE IncrIfExist(IF Personal(n) THEN personal[u] ELSE tenant[u]) \in Counters
    BY CounterOps
  <2>3. new \in [Users -> Counters]
    BY <2>2
  <2> HIDE DEF new
  <2> QED BY <2>1, <2>3, <1>1
<1>3. ASSUME NEW n \in Notifies, SetTargets(n) PROVE CounterTypes'
  <2>1. ForTargets(n, counts[n])
    BY <1>3 DEF SetTargets
  <2>2. counts[n] \in [Users -> Counters]
    BY DEF CountTypes, Counters
  <2> QED BY <2>1, <2>2, <1>1
<1>4. ASSUME NEW r \in Reqs, CacheOnceTarget(r) PROVE CounterTypes'
  <2>1. req[r].u \in Users
    BY <1>4 DEF CacheOnceTarget, Places
  <2>2. DecrWithFloor(personal[req[r].u]) \in Counters /\ DecrWithFloor(tenant[req[r].u]) \in Counters
    BY <2>1, CounterOps DEF Counters
  <2> QED BY <1>4, <2>2 DEF CacheOnceTarget
<1>5. ASSUME NEW r \in Reqs, CacheBatchUser(r) PROVE CounterTypes'
  BY <1>5 DEF CacheBatchUser, Counters
<1>6. CacheLoss => CounterTypes'
  BY DEF CacheLoss, Counters
<1> QED BY <1>2, <1>3, <1>4, <1>5, <1>6 DEF CacheStep

LEMMA KeepsSets ==
    ASSUME SetTypes, Places, Finite, CacheStep
    PROVE  SetTypes' /\ IsFiniteSet(total)'
<1> USE DEF SetTypes
<1>1. total' \in SUBSET Broadcasts /\ IsFiniteSet(total')
  <2>1. ASSUME NEW n \in Notifies, SAddTotal(n) PROVE total' \in SUBSET Broadcasts /\ IsFiniteSet(total')
    <3>1. total' = total \cup {n} /\ n \in Broadcasts
      BY <2>1 DEF SAddTotal, Places
    <3> QED BY <3>1, FS_AddElement DEF Finite
  <2>2. ASSUME NEW n \in Notifies, ReplaceTotal(n) PROVE total' \in SUBSET Broadcasts /\ IsFiniteSet(total')
    BY <2>2 DEF ReplaceTotal, Finite
  <2> QED BY <2>1, <2>2, FS_EmptySet DEF CacheStep, CacheLoss, Finite
<1>2. op' \in [Users -> SUBSET Broadcasts]
  <2>1. ASSUME NEW r \in Reqs, CacheOnceBroadcast(r) PROVE op' \in [Users -> SUBSET Broadcasts]
    BY <2>1 DEF CacheOnceBroadcast
  <2>2. ASSUME NEW r \in Reqs, CacheBatchTenant(r) PROVE op' \in [Users -> SUBSET Broadcasts]
    BY <2>2 DEF CacheBatchTenant
  <2> QED BY <2>1, <2>2 DEF CacheStep, CacheLoss
<1> QED BY <1>1, <1>2

LEMMA KeepsRequests ==
    ASSUME ReqTypes, ProcessStep
    PROVE  ReqTypes'
<1> DEFINE T == [kind : AllKinds, u : Users, n : Notifies \cup {"none"}] \cup {NoReq}
<1>1. ASSUME NEW r \in Reqs, NEW kind \in Kinds, NEW u \in Users, NEW n \in Notifies \cup {"none"}
      PROVE  [kind |-> kind, u |-> u, n |-> n] \in T
  BY KindsAssumption
<1>2. \/ UNCHANGED req
      \/ \E r \in Reqs, x \in T : req' = [req EXCEPT ![r] = x]
  <2> HIDE DEF T
  <2> QED BY <1>1 DEF ProcessStep, StartBatch, StartOnce
<1>3. req \in [Reqs -> T]
  BY DEF ReqTypes
<1>4. req' \in [Reqs -> T]
  <2> HIDE DEF T
  <2> QED BY <1>2, <1>3
<1> QED BY <1>4 DEF ReqTypes

LEMMA KeepsCounts ==
    ASSUME CountTypes, IsFiniteSet(rows), ProcessStep
    PROVE  CountTypes'
<1> USE DEF CountTypes
<1>1. ASSUME NEW n \in Notifies, CountTargets(n) PROVE CountTypes'
  <2> DEFINE new == [u \in Users |-> CountUnread(u, SenderOf[n])]
  <2>1. new \in [Users -> Nat]
    BY CountIsNat
  <2>2. UNCHANGED counts \/ counts' = [counts EXCEPT ![n] = new]
    BY <1>1 DEF CountTargets
  <2> HIDE DEF new
  <2> QED BY <2>1, <2>2
<1>2. ASSUME NEW n \in Notifies, SetTargets(n) PROVE CountTypes'
  BY <1>2 DEF SetTargets
<1>3. ASSUME NEW p \in Procs, CallFails(p) PROVE CountTypes'
  BY <1>3 DEF CallFails
<1> QED BY <1>1, <1>2, <1>3 DEF ProcessStep

LEMMA KeepsShown ==
    ASSUME ShownTypes, HeldTypes, Places, ProcessStep
    PROVE  ShownTypes'
<1>1. ASSUME NEW p \in Procs, Publish(p) PROVE ShownTypes'
  <2>1. cur[p] \in Users /\ val[p] \in Nat
    BY <1>1 DEF Publish, Places, HeldTypes
  <2> QED BY <1>1, <2>1 DEF Publish, ShownTypes
<1> QED BY <1>1 DEF ProcessStep, ShownTypes

LEMMA KeepsFaults ==
    ASSUME FaultTypes, ProcessStep
    PROVE  FaultTypes'
BY BoundsAssumption DEF FaultTypes, ProcessStep, CallFails, CacheLoss

LEMMA KeepsProcesses ==
    ASSUME ProcTypes, RowTypes, Places, [Next]_vars
    PROVE  ProcTypes'
<1> USE OnlineAssumption, TargetsOfAssumption
<1> USE DEF ProcTypes, SendPlaces, RequestPlaces, dbVars, cacheVars, procVars, faultVars, Goto, Found, PushTo, Procs
<1>0. CASE UNCHANGED vars
  BY <1>0 DEF vars
<1>1. ASSUME NEW n \in Notifies, SendBegin(n) PROVE ProcTypes'
  BY <1>1 DEF SendBegin
<1>2. ASSUME NEW n \in Notifies, SendCommit(n) PROVE ProcTypes'
  BY <1>2 DEF SendCommit
<1>3. ASSUME NEW n \in Notifies, SAddTotal(n) PROVE ProcTypes'
  BY <1>3 DEF SAddTotal
<1>4. ASSUME NEW n \in Notifies, SCardTotal(n) PROVE ProcTypes'
  BY <1>4 DEF SCardTotal
<1>5. ASSUME NEW n \in Notifies, ReconcileRead(n) PROVE ProcTypes'
  BY <1>5 DEF ReconcileRead
<1>6. ASSUME NEW n \in Notifies, ReconcileShare(n) PROVE ProcTypes'
  BY <1>6 DEF ReconcileShare, Reconciling
<1>7. ASSUME NEW n \in Notifies, ReconcileShared(n) PROVE ProcTypes'
  BY <1>7 DEF ReconcileShared
<1>8. ASSUME NEW n \in Notifies, ReplaceTotal(n) PROVE ProcTypes'
  BY <1>8 DEF ReplaceTotal
<1>9. ASSUME NEW n \in Notifies, IncrTargets(n) PROVE ProcTypes'
  BY <1>9 DEF IncrTargets
<1>10. ASSUME NEW n \in Notifies, CountTargets(n) PROVE ProcTypes'
  BY <1>10 DEF CountTargets
<1>11. ASSUME NEW n \in Notifies, SetTargets(n) PROVE ProcTypes'
  BY <1>11 DEF SetTargets
<1>12. ASSUME NEW n \in Notifies, UpdateFails(n) PROVE ProcTypes'
  BY <1>12 DEF UpdateFails, CallFails
<1>13. ASSUME NEW r \in Reqs, NEW kind \in Kinds, NEW u \in Users, StartBatch(r, kind, u) PROVE ProcTypes'
  BY <1>13 DEF StartBatch
<1>14. ASSUME NEW r \in Reqs, NEW kind \in Kinds, NEW u \in Users, NEW n \in Notifies, StartOnce(r, kind, u, n) PROVE ProcTypes'
  BY <1>14 DEF StartOnce
<1>15. ASSUME NEW r \in Reqs, FindStatus(r) PROVE ProcTypes'
  <2>1. \A row \in rows : row.id \in Procs
    BY DEF RowTypes, RowType
  <2>2. RowsOf(req[r].u, req[r].n) # {} => FirstId(req[r].u, req[r].n) \in Procs
    BY <2>1 DEF FirstId, RowsOf
  <2> QED BY <1>15, <2>2 DEF FindStatus
<1>16. ASSUME NEW r \in Reqs, SaveStatus(r) PROVE ProcTypes'
  BY <1>16 DEF SaveStatus
<1>17. ASSUME NEW r \in Reqs, CacheOnceBroadcast(r) PROVE ProcTypes'
  <2>1. req[r].u \in Users
    BY <1>17 DEF CacheOnceBroadcast, Places
  <2> QED BY <1>17, <2>1 DEF CacheOnceBroadcast
<1>18. ASSUME NEW r \in Reqs, CacheOnceTarget(r) PROVE ProcTypes'
  BY <1>18 DEF CacheOnceTarget
<1>19. ASSUME NEW r \in Reqs, UserBatch(r) PROVE ProcTypes'
  BY <1>19 DEF UserBatch
<1>20. ASSUME NEW r \in Reqs, TenantBatch(r) PROVE ProcTypes'
  BY <1>20 DEF TenantBatch
<1>21. ASSUME NEW r \in Reqs, CacheBatchUser(r) PROVE ProcTypes'
  BY <1>21 DEF CacheBatchUser
<1>22. ASSUME NEW r \in Reqs, CacheBatchTenant(r) PROVE ProcTypes'
  <2>1. req[r].u \in Users
    BY <1>22 DEF CacheBatchTenant, Places
  <2> QED BY <1>22, <2>1 DEF CacheBatchTenant
<1>23. ASSUME NEW p \in Procs, GetPersonalUnread(p) PROVE ProcTypes'
  BY <1>23 DEF GetPersonalUnread
<1>24. ASSUME NEW p \in Procs, GetTenantCounter(p) PROVE ProcTypes'
  BY <1>24 DEF GetTenantCounter
<1>25. ASSUME NEW p \in Procs, GetBroadcastDiff(p) PROVE ProcTypes'
  BY <1>25 DEF GetBroadcastDiff
<1>26. ASSUME NEW p \in Procs, Publish(p) PROVE ProcTypes'
  BY <1>26 DEF Publish
<1>27. ASSUME NEW p \in Procs, OperationFails(p) PROVE ProcTypes'
  BY <1>27 DEF OperationFails, CallFails
<1>28. ASSUME NEW p \in Procs, PushFails(p) PROVE ProcTypes'
  BY <1>28 DEF PushFails, CallFails
<1>29. ASSUME CacheLoss PROVE ProcTypes'
  BY <1>29 DEF CacheLoss
<1> QED BY <1>0, <1>1, <1>2, <1>3, <1>4, <1>5, <1>6, <1>7, <1>8, <1>9, <1>10, <1>11, <1>12, <1>13, <1>14, <1>15, <1>16, <1>17, <1>18, <1>19, <1>20, <1>21, <1>22, <1>23, <1>24, <1>25, <1>26, <1>27, <1>28, <1>29
      DEF Next, SendStep, RequestStep, PushStep

LEMMA KeepsHeld ==
    ASSUME HeldTypes, TimeTypes, CounterTypes, ProcTypes, IsFiniteSet(total), Places, [Next]_vars
    PROVE  HeldTypes'
<1> USE DEF HeldTypes, dbVars, cacheVars, procVars, faultVars, Goto, Found, PushTo, Procs
<1>0. CASE UNCHANGED vars
  BY <1>0 DEF vars
<1>1. ASSUME NEW n \in Notifies, SendBegin(n) PROVE HeldTypes'
  BY <1>1 DEF SendBegin
<1>2. ASSUME NEW n \in Notifies, SendCommit(n) PROVE HeldTypes'
  BY <1>2 DEF SendCommit
<1>3. ASSUME NEW n \in Notifies, SAddTotal(n) PROVE HeldTypes'
  BY <1>3 DEF SAddTotal
<1>4. ASSUME NEW n \in Notifies, SCardTotal(n) PROVE HeldTypes'
  BY <1>4 DEF SCardTotal
<1>5. ASSUME NEW n \in Notifies, ReconcileRead(n) PROVE HeldTypes'
  BY <1>5 DEF ReconcileRead
<1>6. ASSUME NEW n \in Notifies, ReconcileShare(n) PROVE HeldTypes'
  BY <1>6 DEF ReconcileShare
<1>7. ASSUME NEW n \in Notifies, ReconcileShared(n) PROVE HeldTypes'
  BY <1>7 DEF ReconcileShared
<1>8. ASSUME NEW n \in Notifies, ReplaceTotal(n) PROVE HeldTypes'
  BY <1>8 DEF ReplaceTotal
<1>9. ASSUME NEW n \in Notifies, IncrTargets(n) PROVE HeldTypes'
  BY <1>9 DEF IncrTargets
<1>10. ASSUME NEW n \in Notifies, CountTargets(n) PROVE HeldTypes'
  BY <1>10 DEF CountTargets
<1>11. ASSUME NEW n \in Notifies, SetTargets(n) PROVE HeldTypes'
  BY <1>11 DEF SetTargets
<1>12. ASSUME NEW n \in Notifies, UpdateFails(n) PROVE HeldTypes'
  BY <1>12 DEF UpdateFails, CallFails
<1>13. ASSUME NEW r \in Reqs, NEW kind \in Kinds, NEW u \in Users, StartBatch(r, kind, u) PROVE HeldTypes'
  <2>1. clock' \in Nat
    BY <1>13 DEF StartBatch, TimeTypes
  <2> QED BY <1>13, <2>1 DEF StartBatch
<1>14. ASSUME NEW r \in Reqs, NEW kind \in Kinds, NEW u \in Users, NEW n \in Notifies, StartOnce(r, kind, u, n) PROVE HeldTypes'
  BY <1>14 DEF StartOnce
<1>15. ASSUME NEW r \in Reqs, FindStatus(r) PROVE HeldTypes'
  BY <1>15 DEF FindStatus
<1>16. ASSUME NEW r \in Reqs, SaveStatus(r) PROVE HeldTypes'
  BY <1>16 DEF SaveStatus
<1>17. ASSUME NEW r \in Reqs, CacheOnceBroadcast(r) PROVE HeldTypes'
  BY <1>17 DEF CacheOnceBroadcast
<1>18. ASSUME NEW r \in Reqs, CacheOnceTarget(r) PROVE HeldTypes'
  <2>1. req[r].u \in Users
    BY <1>18 DEF CacheOnceTarget, Places
  <2>2. DecrWithFloor(personal[req[r].u]) \in Nat /\ DecrWithFloor(tenant[req[r].u]) \in Nat
    BY <2>1, CounterOps DEF CounterTypes
  <2> QED BY <1>18, <2>1, <2>2 DEF CacheOnceTarget
<1>19. ASSUME NEW r \in Reqs, UserBatch(r) PROVE HeldTypes'
  BY <1>19 DEF UserBatch
<1>20. ASSUME NEW r \in Reqs, TenantBatch(r) PROVE HeldTypes'
  BY <1>20 DEF TenantBatch
<1>21. ASSUME NEW r \in Reqs, CacheBatchUser(r) PROVE HeldTypes'
  <2>1. req[r].u \in Users
    BY <1>21 DEF CacheBatchUser, Places
  <2> QED BY <1>21, <2>1 DEF CacheBatchUser
<1>22. ASSUME NEW r \in Reqs, CacheBatchTenant(r) PROVE HeldTypes'
  BY <1>22 DEF CacheBatchTenant
<1>23. ASSUME NEW p \in Procs, GetPersonalUnread(p) PROVE HeldTypes'
  <2>1. PICK u \in todo[p] : cur' = [cur EXCEPT ![p] = u] /\ val' = [val EXCEPT ![p] = Get(personal[u])]
    BY <1>23 DEF GetPersonalUnread
  <2>2. u \in Users
    BY DEF ProcTypes
  <2>3. Get(personal[u]) \in Nat
    BY <2>2, CounterOps DEF CounterTypes
  <2> QED BY <2>1, <2>2, <2>3
<1>24. ASSUME NEW p \in Procs, GetTenantCounter(p) PROVE HeldTypes'
  <2>1. PICK u \in todo[p] : cur' = [cur EXCEPT ![p] = u] /\ val' = [val EXCEPT ![p] = Get(tenant[u])]
    BY <1>24 DEF GetTenantCounter
  <2>2. u \in Users
    BY DEF ProcTypes
  <2>3. Get(tenant[u]) \in Nat
    BY <2>2, CounterOps DEF CounterTypes
  <2> QED BY <2>1, <2>2, <2>3
<1>25. ASSUME NEW p \in Procs, GetBroadcastDiff(p) PROVE HeldTypes'
  <2>1. SDiffCount(cur[p]) \in Nat
    BY FS_Subset, FS_CardinalityType DEF SDiffCount
  <2> QED BY <1>25, <2>1 DEF GetBroadcastDiff
<1>26. ASSUME NEW p \in Procs, Publish(p) PROVE HeldTypes'
  BY <1>26 DEF Publish
<1>27. ASSUME NEW p \in Procs, OperationFails(p) PROVE HeldTypes'
  BY <1>27 DEF OperationFails, CallFails
<1>28. ASSUME NEW p \in Procs, PushFails(p) PROVE HeldTypes'
  BY <1>28 DEF PushFails, CallFails
<1>29. ASSUME CacheLoss PROVE HeldTypes'
  BY <1>29 DEF CacheLoss
<1> QED BY <1>0, <1>1, <1>2, <1>3, <1>4, <1>5, <1>6, <1>7, <1>8, <1>9, <1>10, <1>11, <1>12, <1>13, <1>14, <1>15, <1>16, <1>17, <1>18, <1>19, <1>20, <1>21, <1>22, <1>23, <1>24, <1>25, <1>26, <1>27, <1>28, <1>29
      DEF Next, SendStep, RequestStep, PushStep

LEMMA KeepsPlaces ==
    ASSUME ProcTypes, HeldTypes, ReqTypes, Places, [Next]_vars
    PROVE  Places'
<1> USE ProcsAssumption, KindsAssumption
<1> USE DEF Places, ProcTypes, HeldTypes, SendPlaces, RequestPlaces, dbVars, cacheVars, procVars, faultVars, Goto, Found, PushTo, Procs
<1>0. CASE UNCHANGED vars
  BY <1>0 DEF vars
<1>1. ASSUME NEW n \in Notifies, SendBegin(n) PROVE Places'
  BY <1>1 DEF SendBegin
<1>2. ASSUME NEW n \in Notifies, SendCommit(n) PROVE Places'
  BY <1>2 DEF SendCommit
<1>3. ASSUME NEW n \in Notifies, SAddTotal(n) PROVE Places'
  BY <1>3 DEF SAddTotal
<1>4. ASSUME NEW n \in Notifies, SCardTotal(n) PROVE Places'
  BY <1>4 DEF SCardTotal
<1>5. ASSUME NEW n \in Notifies, ReconcileRead(n) PROVE Places'
  BY <1>5 DEF ReconcileRead
<1>6. ASSUME NEW n \in Notifies, ReconcileShare(n) PROVE Places'
  BY <1>6 DEF ReconcileShare
<1>7. ASSUME NEW n \in Notifies, ReconcileShared(n) PROVE Places'
  BY <1>7 DEF ReconcileShared
<1>8. ASSUME NEW n \in Notifies, ReplaceTotal(n) PROVE Places'
  BY <1>8 DEF ReplaceTotal
<1>9. ASSUME NEW n \in Notifies, IncrTargets(n) PROVE Places'
  BY <1>9 DEF IncrTargets
<1>10. ASSUME NEW n \in Notifies, CountTargets(n) PROVE Places'
  BY <1>10 DEF CountTargets
<1>11. ASSUME NEW n \in Notifies, SetTargets(n) PROVE Places'
  BY <1>11 DEF SetTargets
<1>12. ASSUME NEW n \in Notifies, UpdateFails(n) PROVE Places'
  BY <1>12 DEF UpdateFails, CallFails
<1>13. ASSUME NEW r \in Reqs, NEW kind \in Kinds, NEW u \in Users, StartBatch(r, kind, u) PROVE Places'
  <2>1. req'[r] = [kind |-> kind, u |-> u, n |-> "none"] /\ kind \in AllKinds \ {"read", "delete"}
    BY <1>13 DEF StartBatch, ReqTypes
  <2>2. /\ req'[r].kind \in AllKinds \ {"read", "delete"} /\ req'[r].u \in Users
        /\ \A x \in Reqs : x # r => req'[x] = req[x]
    BY <1>13, <2>1 DEF StartBatch, ReqTypes
  <2> QED BY <1>13, <2>2 DEF StartBatch
<1>14. ASSUME NEW r \in Reqs, NEW kind \in Kinds, NEW u \in Users, NEW n \in Notifies, StartOnce(r, kind, u, n) PROVE Places'
  <2>1. req'[r] = [kind |-> kind, u |-> u, n |-> n] /\ kind \in AllKinds \cap {"read", "delete"}
    BY <1>14 DEF StartOnce, ReqTypes
  <2>2. /\ req'[r].kind \in AllKinds \cap {"read", "delete"} /\ req'[r].u \in Users /\ req'[r].n \in Notifies
        /\ \A x \in Reqs : x # r => req'[x] = req[x]
    BY <1>14, <2>1 DEF StartOnce, ReqTypes
  <2> QED BY <1>14, <2>2 DEF StartOnce
<1>15. ASSUME NEW r \in Reqs, FindStatus(r) PROVE Places'
  BY <1>15 DEF FindStatus
<1>16. ASSUME NEW r \in Reqs, SaveStatus(r) PROVE Places'
  BY <1>16 DEF SaveStatus
<1>17. ASSUME NEW r \in Reqs, CacheOnceBroadcast(r) PROVE Places'
  BY <1>17 DEF CacheOnceBroadcast
<1>18. ASSUME NEW r \in Reqs, CacheOnceTarget(r) PROVE Places'
  BY <1>18 DEF CacheOnceTarget
<1>19. ASSUME NEW r \in Reqs, UserBatch(r) PROVE Places'
  BY <1>19 DEF UserBatch
<1>20. ASSUME NEW r \in Reqs, TenantBatch(r) PROVE Places'
  BY <1>20 DEF TenantBatch
<1>21. ASSUME NEW r \in Reqs, CacheBatchUser(r) PROVE Places'
  BY <1>21 DEF CacheBatchUser
<1>22. ASSUME NEW r \in Reqs, CacheBatchTenant(r) PROVE Places'
  BY <1>22 DEF CacheBatchTenant
<1>23. ASSUME NEW p \in Procs, GetPersonalUnread(p) PROVE Places'
  BY <1>23 DEF GetPersonalUnread
<1>24. ASSUME NEW p \in Procs, GetTenantCounter(p) PROVE Places'
  BY <1>24 DEF GetTenantCounter
<1>25. ASSUME NEW p \in Procs, GetBroadcastDiff(p) PROVE Places'
  BY <1>25 DEF GetBroadcastDiff
<1>26. ASSUME NEW p \in Procs, Publish(p) PROVE Places'
  BY <1>26 DEF Publish
<1>27. ASSUME NEW p \in Procs, OperationFails(p) PROVE Places'
  BY <1>27 DEF OperationFails, CallFails
<1>28. ASSUME NEW p \in Procs, PushFails(p) PROVE Places'
  BY <1>28 DEF PushFails, CallFails
<1>29. ASSUME CacheLoss PROVE Places'
  BY <1>29 DEF CacheLoss
<1> QED BY <1>0, <1>1, <1>2, <1>3, <1>4, <1>5, <1>6, <1>7, <1>8, <1>9, <1>10, <1>11, <1>12, <1>13, <1>14, <1>15, <1>16, <1>17, <1>18, <1>19, <1>20, <1>21, <1>22, <1>23, <1>24, <1>25, <1>26, <1>27, <1>28, <1>29
      DEF Next, SendStep, RequestStep, PushStep

\* How a send gets to the places where it holds what it has read.
ReconcileStep ==
    \A n \in Notifies :
        /\ pc'[n] = "replace" => \/ pc[n] = "replace" /\ found'[n] = found[n]
                                 \/ found'[n] = sent \cap Broadcasts
        /\ pc'[n] \in {"sadd", "scard", "reconcile", "replace"} =>
              pc[n] \in {"sadd", "scard", "reconcile", "replace"} \/ SendCommit(n)

LEMMA ReconcileFrame ==
    ASSUME ProcTypes, Places, [Next]_vars
    PROVE  ReconcileStep
<1> USE ProcsAssumption
<1> USE DEF ReconcileStep, ProcTypes, Places, SendPlaces, RequestPlaces, dbVars, cacheVars, procVars, faultVars, Goto, Found, PushTo, Procs
<1>0. UNCHANGED vars \/ CacheLoss => ReconcileStep
  BY DEF vars, CacheLoss
<1>1. ASSUME NEW x \in Notifies, SendStep(x) PROVE ReconcileStep
  BY <1>1 DEF SendStep, SendBegin, SendCommit, SAddTotal, SCardTotal, ReconcileRead,
       ReconcileShare, ReconcileShared, ReplaceTotal, IncrTargets, CountTargets, SetTargets
<1>2. ASSUME NEW x \in Reqs, RequestStep(x) PROVE ReconcileStep
  BY <1>2 DEF RequestStep, StartBatch, StartOnce, FindStatus, SaveStatus, CacheOnceBroadcast,
       CacheOnceTarget, UserBatch, TenantBatch, CacheBatchUser, CacheBatchTenant
<1>3. ASSUME NEW x \in Procs, PushStep(x) PROVE ReconcileStep
  BY <1>3 DEF PushStep, GetPersonalUnread, GetTenantCounter, GetBroadcastDiff, Publish
<1>4. ASSUME NEW x \in Procs, OperationFails(x) \/ PushFails(x) PROVE ReconcileStep
  BY <1>4 DEF OperationFails, PushFails, CallFails
<1>5. ASSUME NEW x \in Notifies, UpdateFails(x) PROVE ReconcileStep
  BY <1>5 DEF UpdateFails, CallFails
<1> QED BY <1>0, <1>1, <1>2, <1>3, <1>4, <1>5 DEF Next

LEMMA KeepsFinite ==
    ASSUME RowTypes, Finite, Places, DatabaseStep, IsFiniteSet(rows)', IsFiniteSet(sent)', IsFiniteSet(total)',
           ReconcileStep
    PROVE  Finite'
<1>1. IsFiniteSet(sent \cap Broadcasts)
  BY FS_Subset DEF Finite
<1>2. ASSUME NEW n \in Notifies, pc'[n] = "replace" PROVE found'[n] \subseteq Broadcasts /\ IsFiniteSet(found'[n])
  BY <1>1, <1>2 DEF ReconcileStep, Finite
<1> QED BY <1>2 DEF Finite

LEMMA TypeStep ==
    ASSUME TypeInv, [Next]_vars
    PROVE  TypeInv'
<1>1. /\ TimeTypes /\ RowTypes /\ CounterTypes /\ SetTypes /\ ReqTypes /\ ProcTypes
      /\ HeldTypes /\ CountTypes /\ ShownTypes /\ FaultTypes /\ Places /\ Finite
  BY DEF TypeInv, Typed
<1>2. IsFiniteSet(rows) /\ IsFiniteSet(sent) /\ IsFiniteSet(total)
  BY <1>1 DEF Finite
<1>3. DatabaseStep /\ CacheStep /\ ProcessStep /\ ReconcileStep
  BY <1>1, DatabaseFrame, CacheFrame, ProcessFrame, ReconcileFrame
<1>4. TimeTypes' /\ RowTypes' /\ IsFiniteSet(rows)' /\ IsFiniteSet(sent)'
  BY <1>1, <1>2, <1>3, KeepsTime, KeepsRows
<1>5. CounterTypes' /\ SetTypes' /\ IsFiniteSet(total)'
  BY <1>1, <1>3, KeepsCounters, KeepsSets
<1>6. ReqTypes' /\ CountTypes' /\ ShownTypes' /\ FaultTypes'
  BY <1>1, <1>2, <1>3, KeepsRequests, KeepsCounts, KeepsShown, KeepsFaults
<1>7. ProcTypes' /\ HeldTypes' /\ Places'
  BY <1>1, <1>2, KeepsProcesses, KeepsHeld, KeepsPlaces
<1>8. Finite'
  BY <1>1, <1>3, <1>4, <1>5, KeepsFinite
<1> QED BY <1>4, <1>5, <1>6, <1>7, <1>8 DEF TypeInv, Typed

LEMMA TypesAlways == Spec => []TypeInv
BY InitTypes, TypeStep, PTL DEF Spec

\* In every reachable state the variables have their types; in particular no
\* unread counter, and no count that is pushed, ever becomes negative, through
\* decrWithFloorLua, batchIncrIfExistLua, sDiffCountLua, lost data and failures.
THEOREM TypeCorrect == Spec => []TypeOK
<1>1. TypeInv => TypeOK
  BY TypeParts DEF TypeInv
<1> QED BY <1>1, TypesAlways, PTL

-----------------------------------------------------------------------------
(* Rows are addressed *)

Addressed(u, n) == n \in sent /\ (n \in Broadcasts \/ u \in TargetsOf[n])

\* A request on one notification that is past validateNotifyAccess.
Admitted(r) == pc[r] \in {"find", "save", "cache"} /\ req[r].kind \in {"read", "delete"}

\* Such a request and every row are for a user whom the notification addresses.
AddressInv ==
    /\ \A row \in rows : Addressed(row.u, row.n)
    /\ \A r \in Reqs : Admitted(r) => Addressed(req[r].u, req[r].n)

\* Nobody is past the check who has not passed it.
AccessStep ==
    \A r \in Reqs : Admitted(r)' =>
        \/ Admitted(r) /\ req'[r] = req[r]
        \/ Addressed(req'[r].u, req'[r].n)

LEMMA AccessFrame ==
    ASSUME ProcTypes, ReqTypes, Places, [Next]_vars
    PROVE  AccessStep
<1> USE ProcsAssumption
<1> USE DEF AccessStep, Admitted, ProcTypes, Places, SendPlaces, RequestPlaces, dbVars, cacheVars, procVars, faultVars, Goto, Found, PushTo, Procs
<1>0. UNCHANGED vars \/ CacheLoss => AccessStep
  BY DEF vars, CacheLoss
<1>1. ASSUME NEW x \in Notifies, SendStep(x) PROVE AccessStep
  BY <1>1 DEF SendStep, SendBegin, SendCommit, SAddTotal, SCardTotal, ReconcileRead,
       ReconcileShare, ReconcileShared, ReplaceTotal, IncrTargets, CountTargets, SetTargets
<1>2. ASSUME NEW x \in Reqs, RequestStep(x) PROVE AccessStep
  <2>1. ASSUME NEW kind \in Kinds, NEW u \in Users, StartBatch(x, kind, u) PROVE AccessStep
    <3>1. req'[x].kind = kind /\ kind \notin {"read", "delete"} /\ \A r \in Reqs \ {x} : req'[r] = req[r]
      BY <2>1 DEF StartBatch, ReqTypes
    <3> QED BY <2>1, <3>1 DEF StartBatch
  <2>2. ASSUME NEW kind \in Kinds, NEW u \in Users, NEW n \in Notifies, StartOnce(x, kind, u, n) PROVE AccessStep
    <3>1. req'[x].u = u /\ req'[x].n = n /\ \A r \in Reqs \ {x} : req'[r] = req[r]
      BY <2>2 DEF StartOnce, ReqTypes
    <3>2. Addressed(u, n)
      BY <2>2 DEF StartOnce, Addressed
    <3> QED BY <2>2, <3>1, <3>2 DEF StartOnce
  <2>3. FindStatus(x) \/ SaveStatus(x) => AccessStep
    BY DEF FindStatus, SaveStatus
  <2>4. CacheOnceBroadcast(x) \/ CacheOnceTarget(x) \/ CacheBatchUser(x) \/ CacheBatchTenant(x) => AccessStep
    BY DEF CacheOnceBroadcast, CacheOnceTarget, CacheBatchUser, CacheBatchTenant
  <2>5. UserBatch(x) \/ TenantBatch(x) => AccessStep
    BY DEF UserBatch, TenantBatch
  <2> QED BY <1>2, <2>1, <2>2, <2>3, <2>4, <2>5 DEF RequestStep
<1>3. ASSUME NEW x \in Procs, PushStep(x) PROVE AccessStep
  BY <1>3 DEF PushStep, GetPersonalUnread, GetTenantCounter, GetBroadcastDiff, Publish
<1>4. ASSUME NEW x \in Procs, OperationFails(x) \/ PushFails(x) PROVE AccessStep
  BY <1>4 DEF OperationFails, PushFails, CallFails
<1>5. ASSUME NEW x \in Notifies, UpdateFails(x) PROVE AccessStep
  BY <1>5 DEF UpdateFails, CallFails
<1> QED BY <1>0, <1>1, <1>2, <1>3, <1>4, <1>5 DEF Next

LEMMA AddressStep ==
    ASSUME TypeInv, AddressInv, [Next]_vars
    PROVE  AddressInv'
<1>1. RowTypes /\ ProcTypes /\ ReqTypes /\ Places /\ IsFiniteSet(rows)
  BY DEF TypeInv, Typed, Finite
<1>2. DatabaseStep /\ AccessStep
  BY <1>1, DatabaseFrame, AccessFrame
<1>3. sent \subseteq sent' /\ \A n \in Notifies : SendCommit(n) => n \in sent'
  BY <1>2 DEF DatabaseStep, SendCommit
<1>4. \A u, n : Addressed(u, n) => Addressed(u, n)'
  BY <1>3 DEF Addressed
<1>5. ASSUME NEW row \in rows' PROVE Addressed(row.u, row.n)'
  <2>1. CASE \E prev \in rows : prev.u = row.u /\ prev.n = row.n
    BY <2>1, <1>4 DEF AddressInv
  <2>2. CASE \E n \in Notifies : SendCommit(n) /\ row.n = n /\ row.u \in TargetsOf[n]
    BY <2>2, <1>3 DEF Addressed
  <2>3. CASE \E r \in Reqs : SaveStatus(r) /\ row.n = req[r].n /\ row.u = req[r].u
    <3>1. PICK r \in Reqs : SaveStatus(r) /\ row.n = req[r].n /\ row.u = req[r].u
      BY <2>3
    <3>2. Admitted(r)
      BY <3>1, <1>1 DEF SaveStatus, Admitted, Places
    <3>3. Addressed(row.u, row.n)
      BY <3>1, <3>2 DEF AddressInv
    <3> QED BY <3>3, <1>4
  <2> QED BY <1>1, <1>2, <2>1, <2>2, <2>3, RowsStep
<1>6. ASSUME NEW r \in Reqs, Admitted(r)' PROVE Addressed(req[r].u, req[r].n)'
  <2>1. Addressed(req'[r].u, req'[r].n)
    BY <1>2, <1>6 DEF AccessStep, AddressInv
  <2>2. Addressed(req'[r].u, req'[r].n) => Addressed(req[r].u, req[r].n)'
    BY <1>3 DEF Addressed
  <2> QED BY <2>1, <2>2
<1> QED BY <1>5, <1>6 DEF AddressInv

\* A status row exists only for a committed notification and a user whom it
\* addresses: the upsert's separate find and save never act for a user whom
\* validateNotifyAccess refused, however requests overlap, fail and repeat.
THEOREM RowsAddressedCorrect == Spec => []RowsAddressed
<1>1. Init => AddressInv
  BY DEF Init, AddressInv, Admitted, Procs
<1>2. AddressInv => RowsAddressed
  BY DEF AddressInv, RowsAddressed, Addressed
<1> QED BY <1>1, <1>2, AddressStep, TypesAlways, PTL DEF Spec

-----------------------------------------------------------------------------
(* Redis is never ahead of the database *)

\* What a send is about to add to the set, or to replace it by, is committed too.
CacheInv ==
    /\ CacheNeverAhead
    /\ \A n \in Notifies :
          /\ pc[n] \in {"sadd", "scard", "reconcile", "replace"} => n \in sent
          /\ pc[n] = "replace" => found[n] \subseteq sent

LEMMA CacheKept ==
    ASSUME TypeInv, AddressInv, CacheInv, [Next]_vars
    PROVE  CacheInv'
<1>1. ProcTypes /\ Places /\ SetTypes
  BY DEF TypeInv, Typed
<1>2. DatabaseStep /\ CacheStep /\ ReconcileStep
  BY <1>1, DatabaseFrame, CacheFrame, ReconcileFrame
<1>3. sent \subseteq sent' /\ \A n \in Notifies : SendCommit(n) => n \in sent'
  BY <1>2 DEF DatabaseStep, SendCommit
<1>4. total' \subseteq sent
  <2>1. ASSUME NEW n \in Notifies, SAddTotal(n) PROVE total' \subseteq sent
    BY <2>1 DEF SAddTotal, CacheInv, CacheNeverAhead
  <2>2. ASSUME NEW n \in Notifies, ReplaceTotal(n) PROVE total' \subseteq sent
    BY <2>2 DEF ReplaceTotal, CacheInv
  <2> QED BY <1>2, <2>1, <2>2 DEF CacheStep, CacheLoss, CacheInv, CacheNeverAhead
<1>5. \A u \in Users : op'[u] \subseteq sent
  <2>1. ASSUME NEW r \in Reqs, CacheOnceBroadcast(r) PROVE \A u \in Users : op'[u] \subseteq sent
    <3>1. Addressed(req[r].u, req[r].n)
      BY <2>1 DEF CacheOnceBroadcast, Admitted, AddressInv
    <3>2. req[r].n \in sent /\ op' = [op EXCEPT ![req[r].u] = @ \cup {req[r].n}]
      BY <2>1, <3>1 DEF CacheOnceBroadcast, Addressed
    <3> QED BY <1>1, <3>2 DEF SetTypes, CacheInv, CacheNeverAhead
  <2>2. ASSUME NEW r \in Reqs, CacheBatchTenant(r) PROVE \A u \in Users : op'[u] \subseteq sent
    <3>1. op' = [op EXCEPT ![req[r].u] = @ \cup total]
      BY <2>2 DEF CacheBatchTenant
    <3> QED BY <1>1, <3>1 DEF SetTypes, CacheInv, CacheNeverAhead
  <2> QED BY <1>2, <2>1, <2>2 DEF CacheStep, CacheLoss, CacheInv, CacheNeverAhead
<1>6. CacheNeverAhead'
  BY <1>3, <1>4, <1>5 DEF CacheNeverAhead
<1>7. ASSUME NEW n \in Notifies
      PROVE  /\ pc'[n] \in {"sadd", "scard", "reconcile", "replace"} => n \in sent'
             /\ pc'[n] = "replace" => found'[n] \subseteq sent'
  BY <1>2, <1>3 DEF ReconcileStep, CacheInv
<1> QED BY <1>6, <1>7 DEF CacheInv

\* Redis never names a broadcast that the database has not committed, also
\* while SafeReplaceSet, SADD and SUNIONSTORE of several requests interleave,
\* Redis loses its data or calls fail.
THEOREM CacheNeverAheadCorrect == Spec => []CacheNeverAhead
<1>1. Init => AddressInv /\ CacheInv
  BY DEF Init, AddressInv, Admitted, CacheInv, CacheNeverAhead, Procs
<1>2. CacheInv => CacheNeverAhead
  BY DEF CacheInv
<1> QED BY <1>1, <1>2, AddressStep, CacheKept, TypesAlways, PTL DEF Spec

-----------------------------------------------------------------------------
(* A broadcast that is read is not counted *)

\* A request that has stored its row and has still to tell Redis.
Recording(r) == pc[r] = "cache" /\ req[r].kind \in {"read", "delete"}

\* Every row of a broadcast is recorded in Redis or about to be.
OpInv ==
    losses = 0 /\ errors = 0 =>
        \A row \in rows : row.n \in Broadcasts =>
            \/ row.n \in op[row.u]
            \/ \E r \in Reqs : Recording(r) /\ req[r].u = row.u /\ req[r].n = row.n

\* A request that has to tell Redis does so unless it fails.
RecordStep ==
    \A r \in Reqs : Recording(r) =>
        \/ Recording(r)' /\ req'[r] = req[r]
        \/ errors' # 0
        \/ CacheOnceBroadcast(r) \/ CacheOnceTarget(r)

LEMMA RecordFrame ==
    ASSUME ProcTypes, ReqTypes, FaultTypes, Places, [Next]_vars
    PROVE  RecordStep
<1> USE ProcsAssumption, BoundsAssumption
<1> USE DEF RecordStep, Recording, ProcTypes, Places, SendPlaces, RequestPlaces, FaultTypes, dbVars, cacheVars, procVars, faultVars, Goto, Found, PushTo, Procs
<1>0. UNCHANGED vars \/ CacheLoss => RecordStep
  BY DEF vars, CacheLoss
<1>1. ASSUME NEW x \in Notifies, SendStep(x) PROVE RecordStep
  BY <1>1 DEF SendStep, SendBegin, SendCommit, SAddTotal, SCardTotal, ReconcileRead,
       ReconcileShare, ReconcileShared, ReplaceTotal, IncrTargets, CountTargets, SetTargets
<1>2. ASSUME NEW x \in Reqs, RequestStep(x) PROVE RecordStep
  <2>1. \A r \in Reqs \ {x} : pc'[r] = pc[r] /\ req'[r] = req[r]
    BY <1>2 DEF RequestStep, StartBatch, StartOnce, FindStatus, SaveStatus, CacheOnceBroadcast,
         CacheOnceTarget, UserBatch, TenantBatch, CacheBatchUser, CacheBatchTenant, ReqTypes
  <2>2. Recording(x) => CacheOnceBroadcast(x) \/ CacheOnceTarget(x)
    BY <1>2 DEF RequestStep, StartBatch, StartOnce, MayStart, FindStatus, SaveStatus,
         UserBatch, TenantBatch, CacheBatchUser, CacheBatchTenant
  <2> QED BY <2>1, <2>2
<1>3. ASSUME NEW x \in Procs, PushStep(x) PROVE RecordStep
  BY <1>3 DEF PushStep, GetPersonalUnread, GetTenantCounter, GetBroadcastDiff, Publish
<1>4. ASSUME NEW x \in Procs, OperationFails(x) \/ PushFails(x) PROVE RecordStep
  BY <1>4 DEF OperationFails, PushFails, CallFails
<1>5. ASSUME NEW x \in Notifies, UpdateFails(x) PROVE RecordStep
  BY <1>5 DEF UpdateFails, CallFails
<1> QED BY <1>0, <1>1, <1>2, <1>3, <1>4, <1>5 DEF Next

LEMMA OpStep ==
    ASSUME TypeInv, OpInv, [Next]_vars
    PROVE  OpInv'
<1>1. RowTypes /\ ProcTypes /\ ReqTypes /\ FaultTypes /\ SetTypes /\ Places /\ IsFiniteSet(rows)
  BY DEF TypeInv, Typed, Finite
<1>2. DatabaseStep /\ CacheStep /\ RecordStep /\ ProcessStep
  BY <1>1, DatabaseFrame, CacheFrame, ProcessFrame, RecordFrame
<1> SUFFICES ASSUME losses' = 0, errors' = 0, NEW row \in rows', row.n \in Broadcasts
             PROVE  \/ row.n \in op'[row.u]
                    \/ \E r \in Reqs : Recording(r)' /\ req'[r].u = row.u /\ req'[r].n = row.n
  BY DEF OpInv
<1>3. losses = 0 /\ errors = 0 /\ ~CacheLoss
  BY <1>1, <1>2 DEF ProcessStep, CallFails, CacheLoss, FaultTypes
<1>4. \A u \in Users : op[u] \subseteq op'[u]
  BY <1>1, <1>2, <1>3 DEF CacheStep, CacheOnceBroadcast, CacheBatchTenant, SetTypes
<1>5. row \in RowType
  BY <1>1, <1>2, RowsStep
<1>6. row.u \in Users
  BY <1>5 DEF RowType
<1>7. CASE \E prev \in rows : prev.u = row.u /\ prev.n = row.n
  <2>1. \/ row.n \in op[row.u]
        \/ \E r \in Reqs : Recording(r) /\ req[r].u = row.u /\ req[r].n = row.n
    BY <1>3, <1>7 DEF OpInv
  <2>2. ASSUME NEW r \in Reqs, Recording(r), req[r].u = row.u, req[r].n = row.n
        PROVE  row.n \in op'[row.u] \/ (Recording(r)' /\ req'[r].u = row.u /\ req'[r].n = row.n)
    <3>1. CacheOnceBroadcast(r) => row.n \in op'[row.u]
      BY <1>1, <1>6, <2>2 DEF CacheOnceBroadcast, SetTypes
    <3>2. ~CacheOnceTarget(r)
      BY <2>2 DEF CacheOnceTarget
    <3> QED BY <1>2, <2>2, <3>1, <3>2 DEF RecordStep
  <2> QED BY <1>4, <1>6, <2>1, <2>2
<1>8. CASE \E n \in Notifies : SendCommit(n) /\ row.n = n /\ row.u \in TargetsOf[n]
  BY <1>8, TargetsOfAssumption
<1>9. CASE \E r \in Reqs : SaveStatus(r) /\ row.n = req[r].n /\ row.u = req[r].u
  <2>1. PICK r \in Reqs : SaveStatus(r) /\ row.n = req[r].n /\ row.u = req[r].u
    BY <1>9
  <2>2. Recording(r)' /\ req'[r] = req[r]
    BY <1>1, <2>1 DEF SaveStatus, Goto, Recording, Places, ProcTypes, Procs
  <2> QED BY <2>1, <2>2
<1> QED BY <1>1, <1>2, <1>7, <1>8, <1>9, RowsStep

\* Once all requests are over, GetTenantUnread counts no broadcast that the
\* user has read or deleted, however sends, rebuilds of the total and
\* operations have interleaved, as long as nothing failed or was lost.
THEOREM OperatedCorrect == Spec => []OperatedNotCounted
<1>1. Init => OpInv
  BY DEF Init, OpInv
<1>2. OpInv => OperatedNotCounted
  <2> SUFFICES ASSUME OpInv, Quiescent, losses = 0, errors = 0, NEW u \in Users, NEW n \in Broadcasts,
                      NEW row \in RowsOf(u, n)
               PROVE  n \notin total \ op[u]
    BY DEF OperatedNotCounted
  <2>1. row \in rows /\ row.u = u /\ row.n = n
    BY DEF RowsOf
  <2>2. \A r \in Reqs : ~Recording(r)
    BY DEF Quiescent, AtRest, Recording, Procs
  <2> QED BY <2>1, <2>2 DEF OpInv
<1> QED BY <1>1, <1>2, OpStep, TypesAlways, PTL DEF Spec

-----------------------------------------------------------------------------
(* A send that is alone repairs the counters *)

\* Operations one at a time: at most one process is at work.
Exclusive == Serial => \A p, q \in Procs : p = q \/ AtRest(p) \/ AtRest(q)

\* Only the process that takes a step moves, from work or from a start.
ActorStep ==
    \/ pc' = pc
    \/ \E p \in Procs : /\ MayStart(p) \/ ~AtRest(p)
                        /\ \A q \in Procs \ {p} : pc'[q] = pc[q]

LEMMA ActorFrame ==
    ASSUME ProcTypes, [Next]_vars
    PROVE  ActorStep
<1> USE DEF ActorStep, MayStart, AtRest, ProcTypes, dbVars, cacheVars, procVars, faultVars, Goto, Found, PushTo, Procs
<1>0. UNCHANGED vars \/ CacheLoss => ActorStep
  BY DEF vars, CacheLoss
<1>1. ASSUME NEW x \in Notifies, SendStep(x) PROVE ActorStep
  BY <1>1 DEF SendStep, SendBegin, SendCommit, SAddTotal, SCardTotal, ReconcileRead,
       ReconcileShare, ReconcileShared, ReplaceTotal, IncrTargets, CountTargets, SetTargets
<1>2. ASSUME NEW x \in Reqs, RequestStep(x) PROVE ActorStep
  BY <1>2 DEF RequestStep, StartBatch, StartOnce, FindStatus, SaveStatus, CacheOnceBroadcast,
       CacheOnceTarget, UserBatch, TenantBatch, CacheBatchUser, CacheBatchTenant
<1>3. ASSUME NEW x \in Procs, PushStep(x) PROVE ActorStep
  BY <1>3 DEF PushStep, GetPersonalUnread, GetTenantCounter, GetBroadcastDiff, Publish
<1>4. ASSUME NEW x \in Procs, OperationFails(x) \/ PushFails(x) PROVE ActorStep
  BY <1>4 DEF OperationFails, PushFails, CallFails
<1>5. ASSUME NEW x \in Notifies, UpdateFails(x) PROVE ActorStep
  BY <1>5 DEF UpdateFails, CallFails
<1> QED BY <1>0, <1>1, <1>2, <1>3, <1>4, <1>5 DEF Next

LEMMA ExclusiveStep ==
    ASSUME ProcTypes, Exclusive, [Next]_vars
    PROVE  Exclusive'
<1>1. ActorStep
  BY ActorFrame
<1> QED BY <1>1 DEF ActorStep, Exclusive, MayStart, Quiescent, AtRest

\* The counts that a send is about to store are those of the database.
HealInv ==
    Serial => \A n \in Notifies : pc[n] = "set" =>
                  \A u \in Users : counts[n][u] = CountUnread(u, SenderOf[n])

\* How a send gets to the place where it stores its counts, and leaves it.
CountsStep ==
    \A n \in Notifies :
        /\ pc'[n] = "set" => \/ pc[n] = "set" /\ counts'[n] = counts[n]
                             \/ rows' = rows /\ \A u \in Users : counts'[n][u] = CountUnread(u, SenderOf[n])
        /\ pc[n] = "set" /\ pc'[n] # "set" => SetTargets(n) \/ errors' # errors

LEMMA CountsFrame ==
    ASSUME ProcTypes, CountTypes, FaultTypes, Places, [Next]_vars
    PROVE  CountsStep
<1> USE ProcsAssumption, BoundsAssumption
<1> USE DEF CountsStep, ProcTypes, CountTypes, FaultTypes, Places, SendPlaces, RequestPlaces, dbVars, cacheVars, procVars, faultVars, Goto, Found, PushTo, Procs
<1>0. UNCHANGED vars \/ CacheLoss => CountsStep
  BY DEF vars, CacheLoss
<1>1. ASSUME NEW x \in Notifies, SendStep(x) PROVE CountsStep
  <2>1. CASE CountTargets(x)
    <3>1. /\ \A n \in Notifies \ {x} : pc'[n] = pc[n] /\ counts'[n] = counts[n]
          /\ pc[x] = "count" /\ rows' = rows
      BY <2>1 DEF CountTargets
    <3>2. pc'[x] = "set" => \A u \in Users : counts'[x][u] = CountUnread(u, SenderOf[x])
      BY <2>1 DEF CountTargets
    <3> QED BY <3>1, <3>2
  <2>2. CASE SetTargets(x)
    <3>1. \A n \in Notifies \ {x} : pc'[n] = pc[n] /\ counts'[n] = counts[n]
      BY <2>2 DEF SetTargets
    <3>2. pc'[x] # "set"
      BY <2>2 DEF SetTargets
    <3> QED BY <2>2, <3>1, <3>2
  <2>3. CASE ~CountTargets(x) /\ ~SetTargets(x)
    <3>1. /\ \A n \in Notifies \ {x} : pc'[n] = pc[n]
          /\ pc[x] # "set" /\ pc'[x] # "set" /\ counts' = counts
      BY <1>1, <2>3 DEF SendStep, MayStart, SendBegin, SendCommit, SAddTotal, SCardTotal, ReconcileRead,
           ReconcileShare, ReconcileShared, ReplaceTotal, IncrTargets
    <3> QED BY <3>1
  <2> QED BY <2>1, <2>2, <2>3
<1>2. ASSUME NEW x \in Reqs, RequestStep(x) PROVE CountsStep
  BY <1>2 DEF RequestStep, StartBatch, StartOnce, FindStatus, SaveStatus, CacheOnceBroadcast,
       CacheOnceTarget, UserBatch, TenantBatch, CacheBatchUser, CacheBatchTenant
<1>3. ASSUME NEW x \in Procs, PushStep(x) PROVE CountsStep
  BY <1>3 DEF PushStep, GetPersonalUnread, GetTenantCounter, GetBroadcastDiff, Publish
<1>4. ASSUME NEW x \in Procs, OperationFails(x) \/ PushFails(x) PROVE CountsStep
  BY <1>4 DEF OperationFails, PushFails, CallFails
<1>5. ASSUME NEW x \in Notifies, UpdateFails(x) PROVE CountsStep
  BY <1>5 DEF UpdateFails, CallFails
<1> QED BY <1>0, <1>1, <1>2, <1>3, <1>4, <1>5 DEF Next

LEMMA HealStep ==
    ASSUME TypeInv, Exclusive, HealInv, [Next]_vars
    PROVE  HealInv'
<1>1. ProcTypes /\ CountTypes /\ FaultTypes /\ Places
  BY DEF TypeInv, Typed
<1>2. DatabaseStep /\ CountsStep
  BY <1>1, DatabaseFrame, CountsFrame
<1> SUFFICES ASSUME Serial, NEW n \in Notifies, pc'[n] = "set", NEW u \in Users
             PROVE  counts'[n][u] = CountUnread(u, SenderOf[n])'
  BY DEF HealInv
<1>3. rows' = rows => CountUnread(u, SenderOf[n])' = CountUnread(u, SenderOf[n])
  BY DEF CountUnread
<1>4. CASE pc[n] = "set" /\ counts'[n] = counts[n]
  <2>1. \A q \in Procs \ {n} : pc[q] \in {"idle", "done"}
    BY <1>4 DEF Exclusive, AtRest, Procs
  <2>2. rows' = rows
    <3>1. \A m \in Notifies : ~SendCommit(m)
      BY <1>4, <2>1 DEF SendCommit, Procs
    <3>2. \A r \in Reqs : ~SaveStatus(r) /\ ~UserBatch(r) /\ ~TenantBatch(r)
      BY <1>4, <2>1, ProcsAssumption DEF SaveStatus, UserBatch, TenantBatch, Procs
    <3> QED BY <1>2, <3>1, <3>2 DEF DatabaseStep
  <2> QED BY <1>3, <1>4, <2>2 DEF HealInv
<1> QED BY <1>2, <1>3, <1>4 DEF CountsStep

\* BatchReconcileUsers repairs: a send that overlaps with nothing leaves the
\* counters of its targets equal to the database, whatever earlier failures,
\* losses of Redis or overlapping operations made of them.
THEOREM SendHealsCorrect == Spec => SendHeals
<1> DEFINE Heals == Serial => \A n \in Notifies :
                 pc[n] = "set" /\ pc'[n] # "set" /\ UNCHANGED errors =>
                     \A u \in TargetsOf[n] :
                         IF Personal(n) THEN personal'[u] = CountUnread(u, "user")
                                        ELSE tenant'[u] = CountUnread(u, "tenant")
<1>1. Init => Exclusive /\ HealInv
  BY DEF Init, Exclusive, HealInv, AtRest, Procs
<1>2. TypeInv => ProcTypes
  BY DEF TypeInv, Typed
<1>3. TypeInv /\ HealInv /\ [Next]_vars => Heals
  <2> SUFFICES ASSUME TypeInv, HealInv, [Next]_vars, Serial, NEW n \in Notifies, pc[n] = "set", pc'[n] # "set",
                      errors' = errors, NEW u \in TargetsOf[n]
               PROVE  IF Personal(n) THEN personal'[u] = CountUnread(u, "user")
                                     ELSE tenant'[u] = CountUnread(u, "tenant")
    OBVIOUS
  <2>1. SetTargets(n)
    <3>1. ProcTypes /\ CountTypes /\ FaultTypes /\ Places
      BY DEF TypeInv, Typed
    <3>2. CountsStep
      BY <3>1, CountsFrame
    <3> QED BY <3>2 DEF CountsStep
  <2>2. u \in Users
    BY TargetsOfAssumption
  <2>3. IF Personal(n) THEN personal'[u] = counts[n][u] ELSE tenant'[u] = counts[n][u]
    BY <2>1, <2>2 DEF SetTargets, ForTargets
  <2>4. counts[n][u] = CountUnread(u, SenderOf[n])
    BY <2>2 DEF HealInv
  <2>5. SenderOf[n] = IF Personal(n) THEN "user" ELSE "tenant"
    BY SenderOfAssumption DEF Personal
  <2> QED BY <2>3, <2>4, <2>5
<1> QED BY <1>1, <1>2, <1>3, ExclusiveStep, HealStep, TypesAlways, PTL DEF Spec, SendHeals
=============================================================================
