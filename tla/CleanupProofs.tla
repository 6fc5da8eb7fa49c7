---------------------------- MODULE CleanupProofs ----------------------------
(***************************************************************************)
(* Proofs about Cleanup and Inbox: what the daily run leaves behind, and   *)
(* what a user's inbox and the cached counts show.                         *)
(***************************************************************************)
EXTENDS Cleanup, UnreadProofs

JobPlaces == {"idle", "list", "statuses", "records", "sync"}

JobTypes ==
    /\ due \in SUBSET Notifies /\ batch \in SUBSET Notifies
    /\ place \in JobPlaces /\ complete \in BOOLEAN
    /\ interrupts \in Nat

\* A notification that is committed, or was, has left the start of its send.
Begun(n) == pc[n] \notin {"idle", "commit"}

\* What the steps of a run rely on.
JobInv ==
    /\ \A n \in sent \cup due : Begun(n)
    /\ place # "idle" => Quiescent /\ ~complete
    /\ place \in {"statuses", "records"} =>
          /\ batch \subseteq due \cap sent
          /\ Cardinality(batch) < BatchSize => batch = due \cap sent
    /\ place = "records" => \A row \in rows : row.n \notin batch
    /\ place = "sync" => batch \subseteq due
    /\ place = "sync" /\ Cardinality(batch) < BatchSize => due \cap sent = {}
    /\ place = "idle" /\ complete => due \cap sent = {}

CleanupInv == TypeInv /\ AddressInv /\ JobTypes /\ JobInv

LEMMA InitCleanup == CleanupInit => CleanupInv
<1> SUFFICES ASSUME CleanupInit PROVE CleanupInv
  OBVIOUS
<1>1. TypeInv
  BY InitTypes DEF CleanupInit
<1>2. AddressInv
  BY DEF CleanupInit, Init, AddressInv, Admitted, Procs
<1>3. JobTypes /\ JobInv
  BY DEF CleanupInit, Init, JobTypes, JobPlaces, JobInv
<1> QED BY <1>1, <1>2, <1>3 DEF CleanupInv

-----------------------------------------------------------------------------
(* Steps of sends and requests *)

BegunStep == \A n \in Notifies : Begun(n) => Begun(n)'

LEMMA BegunFrame ==
    ASSUME ProcTypes, Places, [Next]_vars
    PROVE  BegunStep
<1> USE ProcsAssumption
<1> USE DEF BegunStep, Begun, MayStart, ProcTypes, Places, SendPlaces, RequestPlaces, dbVars, cacheVars, procVars, faultVars, Goto, Found, PushTo, Procs
<1>0. UNCHANGED vars \/ CacheLoss => BegunStep
  BY DEF vars, CacheLoss
<1>1. ASSUME NEW x \in Notifies, SendStep(x) PROVE BegunStep
  BY <1>1 DEF SendStep, SendBegin, SendCommit, SAddTotal, SCardTotal, ReconcileRead,
       ReconcileShare, ReconcileShared, ReplaceTotal, IncrTargets, CountTargets, SetTargets
<1>2. ASSUME NEW x \in Reqs, RequestStep(x) PROVE BegunStep
  BY <1>2 DEF RequestStep, StartBatch, StartOnce, FindStatus, SaveStatus, CacheOnceBroadcast,
       CacheOnceTarget, UserBatch, TenantBatch, CacheBatchUser, CacheBatchTenant
<1>3. ASSUME NEW x \in Procs, PushStep(x) PROVE BegunStep
  BY <1>3 DEF PushStep, GetPersonalUnread, GetTenantCounter, GetBroadcastDiff, Publish
<1>4. ASSUME NEW x \in Procs, OperationFails(x) \/ PushFails(x) PROVE BegunStep
  BY <1>4 DEF OperationFails, PushFails, CallFails
<1>5. ASSUME NEW x \in Notifies, UpdateFails(x) PROVE BegunStep
  BY <1>5 DEF UpdateFails, CallFails
<1> QED BY <1>0, <1>1, <1>2, <1>3, <1>4, <1>5 DEF Next

LEMMA MainKeepsJob ==
    ASSUME CleanupInv, place = "idle", [Next]_vars, UNCHANGED jobVars
    PROVE  CleanupInv'
<1>1. TypeInv' /\ AddressInv'
  BY TypeStep, AddressStep DEF CleanupInv
<1>2. JobTypes'
  BY DEF CleanupInv, JobTypes, jobVars
<1>3. ProcTypes /\ Places
  BY DEF CleanupInv, TypeInv, Typed
<1>4. BegunStep /\ DatabaseStep
  BY <1>3, BegunFrame, DatabaseFrame
<1>5. \A n \in sent' \cup due' : Begun(n)'
  <2>1. due \subseteq Notifies /\ sent \subseteq Notifies
    BY DEF CleanupInv, JobTypes, TypeInv, Typed, RowTypes
  <2>2. UNCHANGED sent \/ \E n \in Notifies : SendCommit(n) /\ sent' = sent \cup {n}
    BY <1>4 DEF DatabaseStep, SendCommit
  <2>3. \A n \in sent \cup due : Begun(n)'
    BY <1>4, <2>1 DEF BegunStep, CleanupInv, JobInv
  <2>4. ASSUME NEW n \in Notifies, SendCommit(n) PROVE Begun(n)'
    BY <1>3, <2>4 DEF SendCommit, Goto, Begun, ProcTypes, Procs
  <2> QED BY <2>2, <2>3, <2>4 DEF jobVars
<1>6. complete => due' \cap sent' = {}
  <2>1. \A n \in due : ~SendCommit(n)
    BY DEF CleanupInv, JobInv, Begun, SendCommit
  <2>2. UNCHANGED sent \/ \E n \in Notifies : SendCommit(n) /\ sent' = sent \cup {n}
    BY <1>4 DEF DatabaseStep, SendCommit
  <2> QED BY <2>1, <2>2 DEF CleanupInv, JobInv, jobVars
<1>7. JobInv'
  BY <1>5, <1>6 DEF JobInv, jobVars
<1> QED BY <1>1, <1>2, <1>7 DEF CleanupInv

-----------------------------------------------------------------------------
(* Steps of a run *)

LEMMA RecountTypes ==
    ASSUME CounterTypes, IsFiniteSet(rows), NEW s, NEW old \in [Users -> Counters]
    PROVE  Recount(s, old) \in [Users -> Counters]
BY CountIsNat DEF Recount, Counters

\* What no step of the job touches.
LEMMA JobFrame ==
    ASSUME JobStep
    PROVE  JobKeeps /\ sent' \subseteq sent /\ rows' \subseteq rows
BY DEF JobStep, RunOnce, ListExpired, Delete, DeleteStatuses, DeleteRecords, SyncUnreadSnapshot, Interrupt

LEMMA JobKeepsTypes ==
    ASSUME TypeInv, JobStep
    PROVE  TypeInv'
<1>1. JobKeeps /\ sent' \subseteq sent /\ rows' \subseteq rows
  BY JobFrame
<1> USE DEF JobKeeps, procVars, faultVars
<1>2. TimeTypes' /\ ReqTypes' /\ ProcTypes' /\ HeldTypes' /\ CountTypes' /\ ShownTypes' /\ FaultTypes' /\ Places'
  BY <1>1 DEF TypeInv, Typed, TimeTypes, ReqTypes, ProcTypes, HeldTypes, CountTypes, ShownTypes, FaultTypes, Places
<1>3. RowTypes' /\ IsFiniteSet(rows') /\ IsFiniteSet(sent')
  BY <1>1, FS_Subset DEF TypeInv, Typed, RowTypes, Finite
<1>4. CounterTypes'
  <2>1. UNCHANGED <<personal, tenant>> \/ (personal' = Recount("user", personal) /\ tenant' = Recount("tenant", tenant))
    BY DEF JobStep, RunOnce, ListExpired, Delete, DeleteStatuses, DeleteRecords, SyncUnreadSnapshot, Interrupt
  <2>2. CounterTypes /\ IsFiniteSet(rows)
    BY DEF TypeInv, Typed, Finite
  <2> QED BY <2>1, <2>2, RecountTypes DEF CounterTypes
<1>5. SetTypes' /\ IsFiniteSet(total')
  <2>1. total' = total \/ total' = sent \cap Broadcasts
    BY DEF JobStep, RunOnce, ListExpired, Delete, DeleteStatuses, DeleteRecords, SyncUnreadSnapshot, Interrupt
  <2>2. IsFiniteSet(sent \cap Broadcasts)
    BY FS_Subset DEF TypeInv, Finite
  <2> QED BY <1>1, <2>1, <2>2 DEF TypeInv, Typed, Finite, SetTypes
<1>6. Finite'
  BY <1>1, <1>3, <1>5 DEF TypeInv, Finite
<1> QED BY <1>2, <1>3, <1>4, <1>5, <1>6 DEF TypeInv, Typed

LEMMA JobKeepsAddresses ==
    ASSUME CleanupInv, JobStep
    PROVE  AddressInv'
<1>1. JobKeeps /\ rows' \subseteq rows
  BY JobFrame
<1>2. \A row \in rows' : row.n \in sent'
  <2>1. CASE DeleteRecords
    <3>1. rows' = rows /\ sent' = sent \ batch
      BY <2>1 DEF DeleteRecords
    <3>2. \A row \in rows : row.n \in sent /\ row.n \notin batch
      BY <2>1 DEF DeleteRecords, CleanupInv, JobInv, AddressInv, Addressed
    <3> QED BY <3>1, <3>2
  <2>2. CASE ~DeleteRecords
    <3>1. sent' = sent
      BY <2>2 DEF JobStep, RunOnce, ListExpired, Delete, DeleteStatuses, SyncUnreadSnapshot, Interrupt
    <3> QED BY <1>1, <3>1 DEF CleanupInv, AddressInv, Addressed
  <2> QED BY <2>1, <2>2
<1>3. \A row \in rows' : Addressed(row.u, row.n)'
  BY <1>1, <1>2 DEF CleanupInv, AddressInv, Addressed
<1>4. Quiescent
  BY DEF JobStep, RunOnce, ListExpired, Delete, DeleteStatuses, DeleteRecords, SyncUnreadSnapshot, Interrupt,
         CleanupInv, JobInv
<1>5. \A r \in Reqs : ~Admitted(r)'
  BY <1>1, <1>4 DEF JobKeeps, procVars, Quiescent, AtRest, Admitted, Procs
<1> QED BY <1>3, <1>5 DEF AddressInv

LEMMA JobKeepsJobTypes ==
    ASSUME CleanupInv, JobStep
    PROVE  JobTypes'
<1>1. sent \in SUBSET Notifies
  BY DEF CleanupInv, TypeInv, Typed, RowTypes
<1>2. JobTypes
  BY DEF CleanupInv
<1> USE DEF JobTypes, JobPlaces
<1>3. RunOnce \/ Interrupt => JobTypes'
  <2>1. RunOnce => due' \subseteq due \cup sent
    BY DEF RunOnce
  <2>2. RunOnce => place' = "list" /\ complete' = FALSE /\ UNCHANGED <<batch, interrupts>>
    BY DEF RunOnce
  <2>3. RunOnce => JobTypes'
    BY <1>1, <1>2, <2>1, <2>2
  <2>4. Interrupt => JobTypes'
    BY <1>2 DEF Interrupt
  <2> QED BY <2>3, <2>4
<1>4. ListExpired => JobTypes'
  BY <1>1, <1>2 DEF ListExpired, Return
<1>5. Delete => JobTypes'
  BY <1>2 DEF Delete, DeleteStatuses, DeleteRecords
<1>6. SyncUnreadSnapshot => JobTypes'
  BY <1>2 DEF SyncUnreadSnapshot, Return
<1> QED BY <1>3, <1>4, <1>5, <1>6 DEF JobStep

LEMMA JobKeepsJob ==
    ASSUME CleanupInv, JobStep
    PROVE  JobInv'
<1>1. JobTypes /\ JobInv
  BY DEF CleanupInv
<1>2. Quiescent' /\ sent' \subseteq sent /\ rows' \subseteq rows /\ pc' = pc
  BY JobFrame DEF JobStep, RunOnce, ListExpired, Delete, DeleteStatuses, DeleteRecords, SyncUnreadSnapshot, Interrupt,
                  CleanupInv, JobInv, JobKeeps, procVars, Quiescent, AtRest
<1>3. \A n \in sent' \cup due' : Begun(n)'
  BY <1>1, <1>2 DEF JobStep, RunOnce, ListExpired, Delete, DeleteStatuses, DeleteRecords, SyncUnreadSnapshot, Interrupt,
                    JobInv, Begun
<1>4. IsFiniteSet(sent)
  BY DEF CleanupInv, TypeInv, Finite
<1>5. CASE RunOnce
  BY <1>1, <1>2, <1>3, <1>5 DEF RunOnce, JobInv
<1>6. CASE ListExpired
  <2> DEFINE left == due \cap sent
  <2>1. IsFiniteSet(left)
    BY <1>4, FS_Subset
  <2>2. CASE left = {}
    BY <1>1, <1>2, <1>3, <1>6, <2>2 DEF ListExpired, Return, JobInv
  <2>3. CASE left # {}
    <3>1. PICK b \in SUBSET left :
             /\ Cardinality(b) = IF Cardinality(left) < BatchSize THEN Cardinality(left) ELSE BatchSize
             /\ batch' = b
      BY <1>6, <2>3 DEF ListExpired
    <3>2. Cardinality(b) < BatchSize => b = left
      <4>1. Cardinality(left) \in Nat /\ Cardinality(b) \in Nat /\ BatchSize \in Nat
        BY <2>1, FS_Subset, FS_CardinalityType, CleanupAssumption
      <4>2. Cardinality(b) < BatchSize => Cardinality(b) = Cardinality(left)
        BY <3>1, <4>1
      <4> QED BY <2>1, <4>2, FS_Subset
    <3>3. place' = "statuses" /\ complete' = complete /\ due' = due /\ sent' = sent
      BY <1>6, <2>3 DEF ListExpired
    <3> HIDE DEF left
    <3>4. ~complete'
      BY <1>1, <1>6, <3>3 DEF ListExpired, JobInv
    <3>5. left = due' \cap sent'
      BY <3>3 DEF left
    <3> QED BY <1>2, <1>3, <3>1, <3>2, <3>3, <3>4, <3>5 DEF JobInv
  <2> QED BY <2>2, <2>3
<1>7. CASE DeleteStatuses
  BY <1>1, <1>2, <1>3, <1>7 DEF DeleteStatuses, JobInv
<1>8. CASE DeleteRecords
  BY <1>1, <1>2, <1>3, <1>8 DEF DeleteRecords, JobInv
<1>9. CASE SyncUnreadSnapshot
  BY <1>1, <1>2, <1>3, <1>9 DEF SyncUnreadSnapshot, Return, LastBatch, JobInv
<1>10. CASE Interrupt
  BY <1>1, <1>2, <1>3, <1>10 DEF Interrupt, JobInv
<1> QED BY <1>5, <1>6, <1>7, <1>8, <1>9, <1>10 DEF JobStep, Delete

LEMMA CleanupAlways == CleanupSpec => []CleanupInv
<1>1. ASSUME CleanupInv, [CleanupNext]_cleanupVars PROVE CleanupInv'
  <2>1. CASE UNCHANGED cleanupVars
    <3>1. (place = "idle" /\ [Next]_vars /\ UNCHANGED jobVars) \/ place # "idle"
      BY <2>1 DEF cleanupVars
    <3>2. TypeInv' /\ AddressInv'
      BY <1>1, <2>1, TypeStep, AddressStep DEF cleanupVars, CleanupInv
    <3>3. JobTypes' /\ JobInv'
      BY <1>1, <2>1 DEF cleanupVars, vars, dbVars, procVars, jobVars, CleanupInv, JobTypes, JobInv, Begun, Quiescent, AtRest
    <3> QED BY <3>2, <3>3 DEF CleanupInv
  <2>2. CASE place = "idle" /\ Next /\ UNCHANGED jobVars
    BY <1>1, <2>2, MainKeepsJob
  <2>3. CASE JobStep
    <3>1. TypeInv'
      BY <1>1, <2>3, JobKeepsTypes DEF CleanupInv
    <3> QED BY <1>1, <2>3, <3>1, JobKeepsAddresses, JobKeepsJobTypes, JobKeepsJob DEF CleanupInv
  <2> QED BY <1>1, <2>1, <2>2, <2>3 DEF CleanupNext
<1> QED BY <1>1, InitCleanup, PTL DEF CleanupSpec

\* DeleteStatuses before DeleteRecords: a run that an error, a cancelled context
\* or the end of the process stops anywhere leaves no status row without its
\* record, which no later run would find.
THEOREM NoOrphanRowsCorrect == CleanupSpec => []NoOrphanRows
<1>1. CleanupInv => NoOrphanRows
  BY DEF CleanupInv, AddressInv, Addressed, NoOrphanRows
<1> QED BY <1>1, CleanupAlways, PTL

\* A run that returns without an error has removed everything that was due,
\* for any batch size and any number of expired records, what an earlier run
\* left half done included.
THEOREM RunCompletesCorrect == CleanupSpec => []RunCompletes
<1>1. CleanupInv => RunCompletes
  BY DEF CleanupInv, JobInv, AddressInv, Addressed, RunCompletes
<1> QED BY <1>1, CleanupAlways, PTL

\* A run that is not interrupted leaves the counters of everybody who lost a
\* notification equal to the database, whatever they were before.
THEOREM CleanupHealsCorrect == CleanupSpec => CleanupHeals
<1> DEFINE Heals == place = "sync" /\ UNCHANGED interrupts /\ Users \subseteq NumericIDs =>
              /\ \A u \in Affected("user") : personal'[u] = CountUnread(u, "user")
              /\ \A u \in Affected("tenant") : tenant'[u] = CountUnread(u, "tenant")
<1>1. ASSUME CleanupInv, CleanupNext PROVE Heals
  <2> SUFFICES ASSUME place = "sync", interrupts' = interrupts, Users \subseteq NumericIDs
               PROVE  /\ \A u \in Affected("user") : personal'[u] = CountUnread(u, "user")
                      /\ \A u \in Affected("tenant") : tenant'[u] = CountUnread(u, "tenant")
    OBVIOUS
  <2>1. SyncUnreadSnapshot
    <3>1. interrupts \in Nat
      BY <1>1 DEF CleanupInv, JobTypes
    <3>2. ~Interrupt
      BY <3>1 DEF Interrupt
    <3> QED BY <1>1, <3>2 DEF CleanupNext, JobStep, RunOnce, ListExpired, Delete, DeleteStatuses, DeleteRecords
  <2>2. \A s : Affected(s) \subseteq Users
    BY <1>1, TargetsOfAssumption DEF CleanupInv, JobTypes, Affected
  <2>3. \A s : ~ScanFails(Affected(s), s)
    BY <2>2 DEF ScanFails
  <2> QED BY <2>1, <2>2, <2>3 DEF SyncUnreadSnapshot, Recount
<1>2. CleanupInv /\ [CleanupNext]_cleanupVars => [Heals]_cleanupVars
  BY <1>1
<1> QED BY <1>2, CleanupAlways, PTL DEF CleanupSpec, CleanupHeals

-----------------------------------------------------------------------------
(* Watermarks, with operations one at a time *)

TenantKinds == {"tenantRead", "tenantDelete"}

\* Nothing is later than the clock, and nothing that becomes visible, or is
\* unread, is older than a watermark.
TimeInv ==
    /\ \A u \in Users : readAt[u] <= clock /\ clearAt[u] <= clock
    /\ \A n \in Notifies : created[n] <= clock
    /\ \A r \in Reqs : pc[r] = "update" /\ req[r].kind \in TenantKinds => val[r] = clock
    /\ \A n \in Notifies : pc[n] = "commit" => \A u \in Users : readAt[u] < created[n] /\ clearAt[u] < created[n]
    /\ \A row \in rows : row.st = "unread" =>
          row.n \notin Broadcasts /\ (~Personal(row.n) => readAt[row.u] < created[row.n])

\* The time of a request, and of a send, is the clock's when it began.
BeginStep ==
    /\ \A r \in Reqs : pc'[r] = "update" /\ req'[r].kind \in TenantKinds =>
          \/ pc[r] = "update" /\ req'[r] = req[r] /\ val'[r] = val[r]
          \/ val'[r] = clock'
    /\ \A n \in Notifies : pc'[n] = "commit" => pc[n] = "commit" \/ SendBegin(n)

LEMMA BeginFrame ==
    ASSUME ProcTypes, ReqTypes, HeldTypes, Places, [Next]_vars
    PROVE  BeginStep
<1> USE ProcsAssumption
<1> USE DEF BeginStep, TenantKinds, ProcTypes, HeldTypes, Places, SendPlaces, RequestPlaces, dbVars, cacheVars, procVars, faultVars, Goto, Found, PushTo, Procs
<1>0. UNCHANGED vars \/ CacheLoss => BeginStep
  BY DEF vars, CacheLoss
<1>1. ASSUME NEW x \in Notifies, SendStep(x) PROVE BeginStep
  BY <1>1 DEF SendStep, SendBegin, SendCommit, SAddTotal, SCardTotal, ReconcileRead,
       ReconcileShare, ReconcileShared, ReplaceTotal, IncrTargets, CountTargets, SetTargets
<1>2. ASSUME NEW x \in Reqs, RequestStep(x) PROVE BeginStep
  <2>1. ASSUME NEW kind \in Kinds, NEW u \in Users, StartBatch(x, kind, u) PROVE BeginStep
    <3>1. /\ \A r \in Reqs \ {x} : pc'[r] = pc[r] /\ req'[r] = req[r] /\ val'[r] = val[r]
          /\ req'[x].kind = kind
      BY <2>1 DEF StartBatch, ReqTypes
    <3>2. kind \in TenantKinds => val'[x] = clock'
      BY <2>1 DEF StartBatch
    <3> QED BY <2>1, <3>1, <3>2 DEF StartBatch
  <2>2. ASSUME NEW kind \in Kinds, NEW u \in Users, NEW n \in Notifies, StartOnce(x, kind, u, n) PROVE BeginStep
    <3>1. /\ \A r \in Reqs \ {x} : pc'[r] = pc[r] /\ req'[r] = req[r] /\ val'[r] = val[r]
          /\ pc'[x] = "find"
      BY <2>2 DEF StartOnce, ReqTypes
    <3> QED BY <2>2, <3>1 DEF StartOnce
  <2>3. FindStatus(x) \/ SaveStatus(x) \/ UserBatch(x) \/ TenantBatch(x) => BeginStep
    BY DEF FindStatus, SaveStatus, UserBatch, TenantBatch
  <2>4. CacheOnceBroadcast(x) \/ CacheOnceTarget(x) \/ CacheBatchUser(x) \/ CacheBatchTenant(x) => BeginStep
    BY DEF CacheOnceBroadcast, CacheOnceTarget, CacheBatchUser, CacheBatchTenant
  <2> QED BY <1>2, <2>1, <2>2, <2>3, <2>4 DEF RequestStep
<1>3. ASSUME NEW x \in Procs, PushStep(x) PROVE BeginStep
  BY <1>3 DEF PushStep, GetPersonalUnread, GetTenantCounter, GetBroadcastDiff, Publish
<1>4. ASSUME NEW x \in Procs, OperationFails(x) \/ PushFails(x) PROVE BeginStep
  BY <1>4 DEF OperationFails, PushFails, CallFails
<1>5. ASSUME NEW x \in Notifies, UpdateFails(x) PROVE BeginStep
  BY <1>5 DEF UpdateFails, CallFails
<1> QED BY <1>0, <1>1, <1>2, <1>3, <1>4, <1>5 DEF Next

\* Time advances only when everybody is at rest.
LEMMA ClockFrame ==
    ASSUME TypeInv, Serial, DatabaseStep
    PROVE  \/ UNCHANGED <<created, clock>>
           \/ \E n \in Notifies : Quiescent /\ pc[n] = "idle" /\ clock' = clock + 1 /\ created' = [created EXCEPT ![n] = clock']
           \/ Quiescent /\ UNCHANGED created /\ clock' = clock + 1
BY DEF DatabaseStep, SendBegin, StartBatch, MayStart

\* TenantBatch writes the clock to one watermark, while no other process is at work.
LEMMA WatermarkFrame ==
    ASSUME TypeInv, TimeInv, Exclusive, Serial, NEW r \in Reqs, TenantBatch(r)
    PROVE  /\ req[r].u \in Users
           /\ \/ readAt' = [readAt EXCEPT ![req[r].u] = clock] /\ clearAt' = clearAt
              \/ clearAt' = [clearAt EXCEPT ![req[r].u] = clock] /\ readAt' = readAt
           /\ \A p \in Procs \ {r} : AtRest(p)
           /\ UNCHANGED <<created, clock>>
           /\ pc' = [pc EXCEPT ![r] = "cache"]
<1>1. pc[r] = "update" /\ req[r].kind \in TenantKinds
  BY DEF TenantBatch, TenantKinds
<1>2. val[r] = clock /\ req[r].u \in Users
  BY <1>1 DEF TimeInv, TypeInv, Places
<1>3. \A p \in Procs \ {r} : AtRest(p)
  BY <1>1 DEF Exclusive, AtRest, Procs
<1> QED BY <1>2, <1>3 DEF TenantBatch, TenantBatchMarkRead, TenantBatchDelete, Goto

\* The watermarks never go back.
LEMMA WatermarksGrow ==
    ASSUME TypeInv, TimeInv, Exclusive, Serial, DatabaseStep
    PROVE  \A u \in Users : readAt[u] <= readAt'[u] /\ clearAt[u] <= clearAt'[u]
<1>1. TimeTypes
  BY DEF TypeInv, Typed
<1>2. ASSUME NEW r \in Reqs, TenantBatch(r)
      PROVE  \A u \in Users : readAt[u] <= readAt'[u] /\ clearAt[u] <= clearAt'[u]
  BY <1>1, <1>2, WatermarkFrame DEF TimeInv, TimeTypes
<1>3. UNCHANGED <<readAt, clearAt>> => \A u \in Users : readAt[u] <= readAt'[u] /\ clearAt[u] <= clearAt'[u]
  BY <1>1 DEF TimeTypes
<1> QED BY <1>2, <1>3 DEF DatabaseStep

\* Which rows TenantBatchMarkRead leaves unread.
LEMMA MarkedRead ==
    ASSUME TypeInv, NEW r \in Reqs, TenantBatch(r)
    PROVE  \A row \in rows' : row.st = "unread" =>
              /\ row \in rows
              /\ row.u = req[r].u => readAt' = readAt \/ Personal(row.n) \/ row.n \in Broadcasts
<1>1. rows \in SUBSET RowType /\ IsFiniteSet(rows)
  BY DEF TypeInv, Typed, RowTypes, Finite
<1>2. ASSUME NEW N, NEW st \in {"read", "deleted"}, UpdateRows(req[r].u, N, st)
      PROVE  \A row \in rows' : row.st = "unread" => row \in rows /\ ~(row.u = req[r].u /\ row.n \in N)
  <2> DEFINE old == {row \in rows : row.u = req[r].u /\ row.n \in N}
             R == Stamp(rows, old, st)
  <2>1. old \in SUBSET rows /\ rows' = R
    BY <1>2 DEF UpdateRows, Stamp
  <2> HIDE DEF old
  <2>2. \A row \in R : row.st = "unread" => row \in rows \ old
    BY <1>1, <2>1, StampFacts
  <2> HIDE DEF R
  <2> QED BY <2>1, <2>2 DEF old
<1>3. CASE TenantBatchMarkRead(r)
  <2> DEFINE N == {n \in Notifies \ Broadcasts : ~Personal(n)}
  <2>1. UpdateRows(req[r].u, N, "read")
    BY <1>3 DEF TenantBatchMarkRead
  <2>2. \A row \in rows : row.n \in Notifies
    BY <1>1 DEF RowType
  <2>3. \A row \in rows' : row.st = "unread" => row \in rows /\ ~(row.u = req[r].u /\ row.n \in N)
    <3> HIDE DEF N
    <3> QED BY <1>2, <2>1
  <2> QED BY <2>2, <2>3
<1>4. CASE TenantBatchDelete(r)
  BY <1>2, <1>4 DEF TenantBatchDelete
<1> QED BY <1>3, <1>4 DEF TenantBatch

LEMMA TimeStep ==
    ASSUME CleanupInv, TimeInv, Exclusive, Serial, [Next]_vars
    PROVE  TimeInv'
<1>1. TypeInv /\ TimeTypes /\ RowTypes /\ ReqTypes /\ ProcTypes /\ HeldTypes /\ Places /\ IsFiniteSet(rows)
  BY DEF CleanupInv, TypeInv, Typed, Finite
<1>2. DatabaseStep /\ BeginStep
  BY <1>1, DatabaseFrame, BeginFrame
<1>3. \A u \in Users : readAt'[u] <= clock /\ clearAt'[u] <= clock
  <2>1. ASSUME NEW r \in Reqs, TenantBatch(r) PROVE \A u \in Users : readAt'[u] <= clock /\ clearAt'[u] <= clock
    BY <1>1, <2>1, WatermarkFrame DEF TimeInv, TimeTypes
  <2> QED BY <1>2, <2>1 DEF DatabaseStep, TimeInv
<1>4. clock' \in Nat /\ clock <= clock' /\ readAt' \in [Users -> Nat] /\ clearAt' \in [Users -> Nat]
  <2>1. TypeInv'
    BY <1>1, TypeStep
  <2> QED BY <1>1, <1>2, <2>1, ClockFrame DEF TypeInv, Typed, TimeTypes
<1>5. \A u \in Users : readAt'[u] <= clock' /\ clearAt'[u] <= clock'
  BY <1>1, <1>3, <1>4 DEF TimeTypes
<1>6. \A n \in Notifies : created'[n] <= clock'
  BY <1>1, <1>2, ClockFrame DEF TimeInv, TimeTypes
<1>7. ASSUME NEW r \in Reqs, pc'[r] = "update", req'[r].kind \in TenantKinds PROVE val'[r] = clock'
  <2>1. CASE pc[r] = "update" /\ req'[r] = req[r] /\ val'[r] = val[r]
    <3>1. ~Quiescent
      BY <2>1 DEF Quiescent, AtRest, Procs
    <3>2. clock' = clock
      BY <1>1, <1>2, <3>1, ClockFrame
    <3> QED BY <1>7, <2>1, <3>2 DEF TimeInv
  <2> QED BY <1>2, <1>7, <2>1 DEF BeginStep
<1>8. ASSUME NEW n \in Notifies, pc'[n] = "commit", NEW u \in Users
      PROVE  readAt'[u] < created'[n] /\ clearAt'[u] < created'[n]
  <2>1. CASE SendBegin(n)
    <3>1. created'[n] = clock + 1
      BY <1>1, <2>1 DEF SendBegin, TimeTypes
    <3> QED BY <1>1, <1>3, <1>4, <3>1 DEF TimeTypes
  <2>2. CASE pc[n] = "commit"
    <3>1. ~Quiescent
      BY <2>2 DEF Quiescent, AtRest, Procs
    <3>2. created' = created
      BY <1>1, <1>2, <3>1, ClockFrame
    <3>3. \A r \in Reqs : ~TenantBatch(r)
      <4>1. n \in Procs /\ ~AtRest(n)
        BY <2>2 DEF AtRest, Procs
      <4>2. \A r \in Reqs : r # n
        BY ProcsAssumption
      <4> QED BY <1>1, <4>1, <4>2, WatermarkFrame
    <3>4. UNCHANGED <<readAt, clearAt>>
      BY <1>2, <3>3 DEF DatabaseStep
    <3> QED BY <2>2, <3>2, <3>4 DEF TimeInv
  <2> QED BY <1>2, <1>8, <2>1, <2>2 DEF BeginStep
<1>9. ASSUME NEW row \in rows', row.st = "unread"
      PROVE  row.n \notin Broadcasts /\ (~Personal(row.n) => readAt'[row.u] < created'[row.n])
  <2>1. row \in rows \/ SendCommit(row.n)
    BY <1>1, <1>2, <1>9, RowsHistory
  <2>2. row \in RowType
    BY <1>1, <1>2, RowsStep
  <2>3. row.u \in Users /\ row.n \in Notifies
    BY <2>2 DEF RowType
  <2>4. CASE row \in rows
    <3>1. pc[row.n] # "idle"
      BY <2>4 DEF CleanupInv, AddressInv, Addressed, JobInv, Begun
    <3>2. created'[row.n] = created[row.n]
      BY <1>1, <1>2, <2>3, <3>1, ClockFrame DEF TimeTypes
    <3>3. row.n \notin Broadcasts /\ (~Personal(row.n) => readAt[row.u] < created[row.n])
      BY <1>9, <2>4 DEF TimeInv
    <3>4. ASSUME NEW r \in Reqs, TenantBatch(r), ~Personal(row.n) PROVE readAt'[row.u] = readAt[row.u]
      <4>1. row.u = req[r].u => readAt' = readAt
        BY <1>1, <1>9, <3>3, <3>4, MarkedRead
      <4> QED BY <1>1, <2>3, <3>4, <4>1, WatermarkFrame DEF TimeTypes
    <3>5. ~Personal(row.n) => readAt'[row.u] = readAt[row.u]
      BY <1>2, <3>4 DEF DatabaseStep
    <3> QED BY <3>2, <3>3, <3>5
  <2>5. CASE SendCommit(row.n) /\ row \notin rows
    <3>1. row.u \in TargetsOf[row.n]
      BY <2>5, <2>3 DEF SendCommit
    <3>2. pc[row.n] = "commit" /\ UNCHANGED <<created, readAt>>
      BY <2>5 DEF SendCommit
    <3> QED BY <2>3, <3>1, <3>2, TargetsOfAssumption DEF TimeInv
  <2> QED BY <2>1, <2>4, <2>5
<1> QED BY <1>5, <1>6, <1>7, <1>8, <1>9 DEF TimeInv

\* With operations one at a time the two invariants hold, also across runs of the job.
LEMMA TimeAlways ==
    ASSUME Serial
    PROVE  CleanupSpec => [](Exclusive /\ TimeInv)
<1>1. CleanupInit => Exclusive /\ TimeInv
  BY DEF CleanupInit, Init, Exclusive, TimeInv, AtRest, Procs
<1>2. ASSUME CleanupInv, Exclusive, TimeInv, [CleanupNext]_cleanupVars PROVE Exclusive' /\ TimeInv'
  <2>1. ASSUME [Next]_vars PROVE Exclusive' /\ TimeInv'
    <3>1. ProcTypes
      BY <1>2 DEF CleanupInv, TypeInv, Typed
    <3> QED BY <1>2, <2>1, <3>1, TimeStep, ExclusiveStep
  <2>2. CASE JobStep
    <3>1. JobKeeps /\ rows' \subseteq rows
      BY <2>2, JobFrame
    <3> QED BY <1>2, <3>1 DEF JobKeeps, procVars, Exclusive, AtRest, TimeInv
  <2> QED BY <1>2, <2>1, <2>2 DEF CleanupNext, cleanupVars
<1> QED BY <1>1, <1>2, CleanupAlways, PTL DEF CleanupSpec

\* The unread number of a page is the number of items that the pages list as
\* unread: GetTenantPage takes the read watermark into account only for items
\* without a status row, its count for all of them, and no unread row is ever
\* behind the watermark.
THEOREM UnreadAsListedCorrect ==
    ASSUME Serial
    PROVE  CleanupSpec => []UnreadAsListed
<1>1. ASSUME CleanupInv, TimeInv, NEW u \in Users, NEW box \in Boxes
      PROVE  {i \in Visible(u, box) : /\ i.st \in {"unread", "null"}
                                      /\ box = "tenant" => created[i.n] > readAt[u]}
             = {i \in Visible(u, box) : Status(u, box, i) = "unread"}
  <2> SUFFICES ASSUME NEW i \in Visible(u, box)
               PROVE  (i.st \in {"unread", "null"} /\ (box = "tenant" => created[i.n] > readAt[u]))
                      <=> Status(u, box, i) = "unread"
    OBVIOUS
  <2>1. i \in Joined(u, box)
    BY DEF Visible
  <2>2. TimeTypes /\ RowTypes
    BY <1>1 DEF CleanupInv, TypeInv, Typed
  <2>3. i.n \in Notifies
    BY <2>1, <2>2 DEF Joined, RowTypes, RowType
  <2>4. created[i.n] \in Nat /\ readAt[u] \in Nat
    BY <2>2, <2>3 DEF TimeTypes
  <2>5. i.st = "unread" => (box = "tenant" => created[i.n] > readAt[u])
    <3> SUFFICES ASSUME i.st = "unread", box = "tenant" PROVE created[i.n] > readAt[u]
      OBVIOUS
    <3>1. PICK row \in rows : row.u = u /\ SenderOf[row.n] = box /\ i = [n |-> row.n, id |-> row.id, st |-> row.st]
      BY <2>1 DEF Joined
    <3>2. row.st = "unread" /\ i.n = row.n /\ ~Personal(row.n)
      BY <3>1 DEF Personal
    <3> QED BY <1>1, <2>4, <3>1, <3>2 DEF TimeInv
  <2> QED BY <2>4, <2>5 DEF Status
<1>2. CleanupInv /\ TimeInv => UnreadAsListed
  BY <1>1 DEF UnreadAsListed, UnreadCount
<1> QED BY <1>2, CleanupAlways, TimeAlways, PTL

\* What the inbox has shown as read, or not shown, does not become unread again:
\* no status row goes back to unread and no watermark to an earlier time.
THEOREM ReadStaysReadCorrect ==
    ASSUME Serial
    PROVE  CleanupSpec => ReadStaysRead
<1> DEFINE Stays == \A u \in Users, n \in sent \ due : ~InboxUnread(u, n) => ~InboxUnread(u, n)'
<1>1. ASSUME CleanupInv, Exclusive, TimeInv, [CleanupNext]_cleanupVars,
             NEW u \in Users, NEW n \in sent \ due, InboxUnread(u, n)'
      PROVE  InboxUnread(u, n)
  <2>1. n \in Notifies /\ pc[n] # "idle" /\ pc[n] # "commit"
    BY <1>1 DEF CleanupInv, TypeInv, Typed, RowTypes, JobInv, Begun
  <2>2. /\ TypeInv /\ TimeTypes /\ RowTypes /\ Places /\ IsFiniteSet(rows)
        /\ batch \in SUBSET Notifies
    BY <1>1 DEF CleanupInv, TypeInv, Typed, Finite, JobTypes
  <2> DEFINE Steady == /\ created'[n] = created[n]
                       /\ readAt[u] <= readAt'[u] /\ clearAt[u] <= clearAt'[u]
                       /\ \A prev \in RowsOf(u, n) : \E row \in rows' : row.u = u /\ row.n = n
                       /\ \A row \in rows' : row.n = n /\ row.st = "unread" => row \in rows
  <2>3. ASSUME [Next]_vars PROVE Steady
    <3>1. DatabaseStep
      BY <2>3, DatabaseFrame
    <3>2. created'[n] = created[n]
      BY <2>1, <2>2, <3>1, ClockFrame DEF TimeTypes
    <3>3. readAt[u] <= readAt'[u] /\ clearAt[u] <= clearAt'[u]
      BY <1>1, <2>2, <3>1, WatermarksGrow
    <3>4. /\ \A prev \in rows : \E row \in rows' : prev.u = row.u /\ prev.n = row.n
          /\ \A row \in rows' : row.st = "unread" => row \in rows \/ SendCommit(row.n)
      BY <2>2, <3>1, RowsHistory
    <3>5. ~SendCommit(n)
      BY <2>1 DEF SendCommit
    <3>6. \A row \in rows' : row.n = n /\ row.st = "unread" => row \in rows
      BY <3>4, <3>5
    <3>7. \A prev \in RowsOf(u, n) : \E row \in rows' : row.u = u /\ row.n = n
      BY <3>4 DEF RowsOf
    <3> QED BY <3>2, <3>3, <3>6, <3>7
  <2>4. ASSUME JobStep PROVE Steady
    <3>1. JobKeeps /\ rows' \subseteq rows
      BY <2>4, JobFrame
    <3>2. readAt[u] \in Nat /\ clearAt[u] \in Nat
      BY <2>2 DEF TimeTypes
    <3>3. \A row \in rows : row.n = n => row \in rows'
      <4>1. CASE DeleteStatuses
        <5>1. n \notin batch
          BY <1>1, <4>1 DEF DeleteStatuses, CleanupInv, JobInv
        <5> QED BY <4>1, <5>1 DEF DeleteStatuses
      <4>2. CASE ~DeleteStatuses
        <5>1. rows' = rows
          BY <2>4, <4>2 DEF JobStep, RunOnce, ListExpired, Delete, DeleteRecords, SyncUnreadSnapshot, Interrupt
        <5> QED BY <5>1
      <4> QED BY <4>1, <4>2
    <3> QED BY <3>1, <3>2, <3>3 DEF JobKeeps, RowsOf
  <2>5. Steady
    BY <1>1, <2>3, <2>4 DEF CleanupNext, cleanupVars
  <2>6. created[n] \in Nat /\ readAt[u] \in Nat /\ clearAt[u] \in Nat /\ readAt'[u] \in Nat /\ clearAt'[u] \in Nat
    <3>1. TimeTypes'
      <4>1. CASE [Next]_vars
        BY <2>2, <4>1, TypeStep DEF TypeInv, Typed
      <4>2. CASE JobStep
        BY <2>2, <4>2, JobKeepsTypes DEF TypeInv, Typed
      <4> QED BY <1>1, <4>1, <4>2 DEF CleanupNext, cleanupVars
    <3> QED BY <2>1, <2>2, <3>1 DEF TimeTypes
  <2>7. (n \in Broadcasts /\ RowsOf(u, n) = {}) \/ \E row \in RowsOf(u, n) : row.st = "unread"
    <3>1. CASE n \in Broadcasts /\ \A row \in rows' : ~(row.u = u /\ row.n = n)
      BY <2>5, <3>1
    <3>2. CASE \E row \in rows' : row.u = u /\ row.n = n /\ row.st = "unread"
      BY <2>5, <3>2 DEF RowsOf
    <3> QED BY <1>1, <3>1, <3>2 DEF InboxUnread, RowsOf
  <2>8. ~Personal(n) => created'[n] > clearAt'[u] /\ created'[n] > readAt'[u]
    BY <1>1 DEF InboxUnread
  <2>9. ~Personal(n) => created[n] > clearAt[u] /\ created[n] > readAt[u]
    BY <2>5, <2>6, <2>8
  <2> QED BY <2>7, <2>9 DEF InboxUnread
<1>2. CleanupInv /\ Exclusive /\ TimeInv /\ [CleanupNext]_cleanupVars => [Stays]_cleanupVars
  BY <1>1
<1> QED BY <1>2, CleanupAlways, TimeAlways, PTL DEF CleanupSpec, ReadStaysRead

-----------------------------------------------------------------------------
(* The broadcast counts, with operations one at a time and without a fault *)

Faultless == losses = 0 /\ errors = 0 /\ interrupts = 0

\* The inbox of u no longer counts n: it has a row, or a watermark is past it.
Seen(u, n) == RowsOf(u, n) # {} \/ created[n] <= readAt[u] \/ created[n] <= clearAt[u]

\* r has stored that u has seen n and has still to tell Redis.
Telling(r, u, n) ==
    /\ pc[r] = "cache" /\ req[r].u = u
    /\ req[r].kind \in TenantKinds \/ (req[r].kind \in {"read", "delete"} /\ req[r].n = n)

\* The record exists, and the job has not begun to remove it.
Standing(n) == n \in sent /\ ~(place = "records" /\ n \in batch)

\* broadcast:total holds the committed broadcasts, but for the one being added
\* and those that the job has just removed.
TotalInv ==
    /\ \A n \in sent \cap Broadcasts : n \in total \/ pc[n] = "sadd"
    /\ \A n \in total : n \in sent \/ (place = "sync" /\ n \in batch)
    /\ \A n \in Notifies : pc[n] = "replace" => found[n] = sent \cap Broadcasts
    /\ \A n \in Notifies : pc[n] \in {"sadd", "scard", "reconcile", "replace"} => n \in sent

\* broadcast:op of a user holds what the user has seen, but for what is being told.
SeenInv ==
    /\ \A u \in Users : \A n \in op[u] : Begun(n)
    /\ \A r \in Reqs : pc[r] = "save" /\ found[r] # {} => RowsOf(req[r].u, req[r].n) # {}
    /\ \A r \in Reqs, u \in Users, n \in sent \cap Broadcasts : Telling(r, u, n) => Seen(u, n)
    /\ \A u \in Users, n \in Broadcasts : Standing(n) /\ n \in op[u] => Seen(u, n)
    /\ \A u \in Users, n \in Broadcasts : Standing(n) /\ Seen(u, n) =>
          n \in op[u] \/ \E r \in Reqs : Telling(r, u, n)

BroadcastInv == Faultless => TotalInv /\ SeenInv

\* How requests get to the places above and leave them.
TellStep ==
    /\ \A r \in Reqs :
          /\ pc[r] = "cache" => \/ pc'[r] = "cache" /\ req'[r] = req[r]
                                \/ CacheOnceBroadcast(r) \/ CacheOnceTarget(r)
                                \/ CacheBatchUser(r) \/ CacheBatchTenant(r)
                                \/ errors' # errors
          /\ pc'[r] = "cache" => /\ req'[r] = req[r]
                                 /\ pc[r] = "cache" \/ SaveStatus(r) \/ UserBatch(r) \/ TenantBatch(r)
          /\ pc'[r] = "save" => /\ req'[r] = req[r]
                                /\ (pc[r] = "save" /\ found'[r] = found[r]) \/ FindStatus(r)
    /\ \A n \in Notifies : pc[n] = "sadd" => pc'[n] = "sadd" \/ SAddTotal(n) \/ errors' # errors

LEMMA TellFrame ==
    ASSUME ProcTypes, ReqTypes, FaultTypes, Places, [Next]_vars
    PROVE  TellStep
<1> USE ProcsAssumption, BoundsAssumption
<1> USE DEF TellStep, ProcTypes, FaultTypes, Places, SendPlaces, RequestPlaces, dbVars, cacheVars, procVars, faultVars, Goto, Found, PushTo, Procs
<1>0. UNCHANGED vars \/ CacheLoss => TellStep
  BY DEF vars, CacheLoss
<1>1. ASSUME NEW x \in Notifies, SendStep(x) PROVE TellStep
  <2>1. \A p \in Procs \ {x} : pc'[p] = pc[p] /\ found'[p] = found[p]
    BY <1>1 DEF SendStep, SendBegin, SendCommit, SAddTotal, SCardTotal, ReconcileRead,
         ReconcileShare, ReconcileShared, ReplaceTotal, IncrTargets, CountTargets, SetTargets
  <2>2. req' = req
    BY <1>1 DEF SendStep, SendBegin, SendCommit, SAddTotal, SCardTotal, ReconcileRead,
         ReconcileShare, ReconcileShared, ReplaceTotal, IncrTargets, CountTargets, SetTargets
  <2>3. pc[x] = "sadd" => SAddTotal(x)
    BY <1>1 DEF SendStep, MayStart, SendBegin, SendCommit, SCardTotal, ReconcileRead,
         ReconcileShare, ReconcileShared, ReplaceTotal, IncrTargets, CountTargets, SetTargets
  <2> QED BY <2>1, <2>2, <2>3
<1>2. ASSUME NEW x \in Reqs, RequestStep(x) PROVE TellStep
  <2>1. \A p \in Procs \ {x} : pc'[p] = pc[p] /\ found'[p] = found[p]
    BY <1>2 DEF RequestStep, StartBatch, StartOnce, FindStatus, SaveStatus, CacheOnceBroadcast,
         CacheOnceTarget, UserBatch, TenantBatch, CacheBatchUser, CacheBatchTenant
  <2>2. \A r \in Reqs \ {x} : req'[r] = req[r]
    BY <1>2 DEF RequestStep, StartBatch, StartOnce, FindStatus, SaveStatus, CacheOnceBroadcast,
         CacheOnceTarget, UserBatch, TenantBatch, CacheBatchUser, CacheBatchTenant, ReqTypes
  <2>3. pc[x] = "cache" => CacheOnceBroadcast(x) \/ CacheOnceTarget(x) \/ CacheBatchUser(x) \/ CacheBatchTenant(x)
    BY <1>2 DEF RequestStep, MayStart, StartBatch, StartOnce, FindStatus, SaveStatus, UserBatch, TenantBatch
  <2>4. pc'[x] = "cache" => req' = req /\ (SaveStatus(x) \/ UserBatch(x) \/ TenantBatch(x))
    <3>1. SaveStatus(x) \/ UserBatch(x) \/ TenantBatch(x) => req' = req
      BY DEF SaveStatus, UserBatch, TenantBatch
    <3>2. pc'[x] = "cache" => SaveStatus(x) \/ UserBatch(x) \/ TenantBatch(x)
      BY <1>2 DEF RequestStep, StartBatch, StartOnce, FindStatus, CacheOnceBroadcast,
           CacheOnceTarget, CacheBatchUser, CacheBatchTenant
    <3> QED BY <3>1, <3>2
  <2>5. pc'[x] = "save" => req' = req /\ FindStatus(x)
    <3>1. FindStatus(x) => req' = req
      BY DEF FindStatus
    <3>2. pc'[x] = "save" => FindStatus(x)
      BY <1>2 DEF RequestStep, StartBatch, StartOnce, SaveStatus, UserBatch, TenantBatch, CacheOnceBroadcast,
           CacheOnceTarget, CacheBatchUser, CacheBatchTenant
    <3> QED BY <3>1, <3>2
  <2> QED BY <2>1, <2>2, <2>3, <2>4, <2>5
<1>3. ASSUME NEW x \in Procs, PushStep(x) PROVE TellStep
  BY <1>3 DEF PushStep, GetPersonalUnread, GetTenantCounter, GetBroadcastDiff, Publish
<1>4. ASSUME NEW x \in Procs, OperationFails(x) \/ PushFails(x) PROVE TellStep
  BY <1>4 DEF OperationFails, PushFails, CallFails
<1>5. ASSUME NEW x \in Notifies, UpdateFails(x) PROVE TellStep
  BY <1>5 DEF UpdateFails, CallFails
<1> QED BY <1>0, <1>1, <1>2, <1>3, <1>4, <1>5 DEF Next

\* What is seen stays seen; it becomes seen by a stored row or a watermark.
LEMMA SeenStep ==
    ASSUME CleanupInv, TimeInv, Exclusive, Serial, [Next]_vars, NEW u \in Users, NEW n \in sent
    PROVE  /\ Seen(u, n) => Seen(u, n)'
           /\ Seen(u, n)' => \/ Seen(u, n)
                             \/ \E r \in Reqs : SaveStatus(r) /\ req[r].u = u /\ req[r].n = n
                             \/ \E r \in Reqs : TenantBatch(r) /\ req[r].u = u
<1>1. TypeInv /\ TimeTypes /\ RowTypes /\ Places /\ IsFiniteSet(rows)
  BY DEF CleanupInv, TypeInv, Typed, Finite
<1>2. DatabaseStep
  BY DatabaseFrame
<1>3. n \in Notifies /\ pc[n] # "idle" /\ ~SendCommit(n)
  BY <1>1 DEF CleanupInv, RowTypes, JobInv, Begun, SendCommit
<1>4. created'[n] = created[n]
  BY <1>1, <1>2, <1>3, ClockFrame DEF TimeTypes
<1>5. readAt[u] <= readAt'[u] /\ clearAt[u] <= clearAt'[u]
  BY <1>1, <1>2, WatermarksGrow
<1>6. /\ created[n] \in Nat /\ readAt[u] \in Nat /\ clearAt[u] \in Nat /\ readAt'[u] \in Nat /\ clearAt'[u] \in Nat
  <2>1. TimeTypes'
    BY <1>1, TypeStep DEF TypeInv, Typed
  <2> QED BY <1>1, <1>3, <2>1 DEF TimeTypes
<1>7. RowsOf(u, n) # {} => RowsOf(u, n)' # {}
  BY <1>1, <1>2, RowsHistory DEF RowsOf
<1>8. Seen(u, n) => Seen(u, n)'
  BY <1>4, <1>5, <1>6, <1>7 DEF Seen
<1>9. RowsOf(u, n)' # {} => RowsOf(u, n) # {} \/ \E r \in Reqs : SaveStatus(r) /\ req[r].u = u /\ req[r].n = n
  <2> SUFFICES ASSUME NEW row \in rows', row.u = u, row.n = n
               PROVE  RowsOf(u, n) # {} \/ \E r \in Reqs : SaveStatus(r) /\ req[r].u = u /\ req[r].n = n
    BY DEF RowsOf
  <2>1. \/ \E prev \in rows : prev.u = row.u /\ prev.n = row.n
        \/ \E m \in Notifies : SendCommit(m) /\ row.n = m /\ row.u \in TargetsOf[m]
        \/ \E r \in Reqs : SaveStatus(r) /\ row.n = req[r].n /\ row.u = req[r].u
    BY <1>1, <1>2, RowsStep
  <2> QED BY <1>3, <2>1 DEF RowsOf
<1>10. (readAt'[u] = readAt[u] /\ clearAt'[u] = clearAt[u]) \/ \E r \in Reqs : TenantBatch(r) /\ req[r].u = u
  <2>1. ASSUME NEW r \in Reqs, TenantBatch(r), req[r].u # u
        PROVE  readAt'[u] = readAt[u] /\ clearAt'[u] = clearAt[u]
    BY <1>1, <2>1, WatermarkFrame DEF TimeTypes
  <2> QED BY <1>2, <2>1 DEF DatabaseStep
<1>11. Seen(u, n)' => \/ Seen(u, n)
                      \/ \E r \in Reqs : SaveStatus(r) /\ req[r].u = u /\ req[r].n = n
                      \/ \E r \in Reqs : TenantBatch(r) /\ req[r].u = u
  BY <1>4, <1>9, <1>10 DEF Seen
<1> QED BY <1>8, <1>11

LEMMA MainKeepsTotal ==
    ASSUME CleanupInv, Exclusive, Serial, TotalInv, place = "idle", [Next]_vars, UNCHANGED jobVars,
           ~CacheLoss, errors' = errors
    PROVE  TotalInv'
<1>1. ProcTypes /\ ReqTypes /\ FaultTypes /\ RowTypes /\ Places
  BY DEF CleanupInv, TypeInv, Typed
<1>2. DatabaseStep /\ CacheStep /\ ReconcileStep /\ TellStep
  BY <1>1, DatabaseFrame, CacheFrame, ReconcileFrame, TellFrame
<1>3. \A m \in Notifies : SendCommit(m) =>
         /\ pc[m] = "commit" /\ sent' = sent \cup {m}
         /\ pc'[m] = IF m \in Broadcasts THEN "sadd" ELSE "incr"
         /\ \A p \in Procs \ {m} : pc'[p] = pc[p]
         /\ total' = total
  BY <1>1 DEF SendCommit, Goto, ProcTypes, Procs, cacheVars
<1>4. UNCHANGED sent \/ \E m \in Notifies : SendCommit(m)
  BY <1>2 DEF DatabaseStep
<1>5. \/ UNCHANGED total
      \/ \E m \in Notifies : pc[m] = "sadd" /\ total' = total \cup {m}
      \/ \E m \in Notifies : pc[m] = "replace" /\ total' = found[m]
  BY <1>2 DEF CacheStep, SAddTotal, ReplaceTotal
<1>6. ASSUME NEW n \in sent' \cap Broadcasts PROVE n \in total' \/ pc'[n] = "sadd"
  <2>1. CASE n \in sent
    <3>1. n \in total => n \in total'
      BY <1>5, <1>6, <2>1 DEF TotalInv
    <3>2. n \in Notifies /\ (SAddTotal(n) => n \in total')
      BY <1>1, <2>1 DEF SAddTotal, RowTypes
    <3> QED BY <1>2, <1>6, <2>1, <3>1, <3>2 DEF TotalInv, TellStep
  <2>2. CASE n \notin sent
    BY <1>3, <1>4, <1>6, <2>2
  <2> QED BY <2>1, <2>2
<1>7. ASSUME NEW n \in total' PROVE n \in sent'
  BY <1>3, <1>4, <1>5 DEF TotalInv
<1>8. ASSUME NEW n \in Notifies, pc'[n] = "replace" PROVE found'[n] = sent' \cap Broadcasts
  <2>1. sent' = sent
    <3>1. ASSUME NEW m \in Notifies, SendCommit(m) PROVE FALSE
      <4>1. n # m /\ pc[n] = "replace"
        BY <1>3, <1>8, <3>1 DEF Procs
      <4> QED BY <1>3, <3>1, <4>1 DEF Exclusive, AtRest, Procs
    <3> QED BY <1>4, <3>1
  <2> QED BY <1>2, <1>8, <2>1 DEF ReconcileStep, TotalInv
<1>9. ASSUME NEW n \in Notifies, pc'[n] \in {"sadd", "scard", "reconcile", "replace"} PROVE n \in sent'
  BY <1>2, <1>3, <1>4, <1>9 DEF ReconcileStep, TotalInv
<1> QED BY <1>6, <1>7, <1>8, <1>9 DEF TotalInv

LEMMA MainKeepsSeen ==
    ASSUME CleanupInv, TimeInv, Exclusive, Serial, TotalInv, SeenInv, place = "idle", [Next]_vars,
           UNCHANGED jobVars, ~CacheLoss, errors' = errors
    PROVE  SeenInv'
<1>1. /\ TypeInv /\ ProcTypes /\ ReqTypes /\ FaultTypes /\ RowTypes /\ SetTypes /\ TimeTypes /\ Places
      /\ IsFiniteSet(rows) /\ AddressInv
  BY DEF CleanupInv, TypeInv, Typed, Finite
<1>2. DatabaseStep /\ CacheStep /\ TellStep /\ BegunStep
  BY <1>1, DatabaseFrame, CacheFrame, TellFrame, BegunFrame
<1>3. \A n \in sent : n \in Notifies /\ Begun(n)
  BY <1>1 DEF CleanupInv, JobInv, RowTypes
<1>4. \A n \in total : n \in sent
  BY DEF TotalInv
\* A request at work is alone.
<1>5. ASSUME NEW r \in Reqs, pc[r] \in {"save", "cache", "update"}
      PROVE  /\ \A n \in Notifies : pc[n] \in {"idle", "done"}
             /\ sent' = sent
  <2>1. \A n \in Notifies : pc[n] \in {"idle", "done"}
    BY <1>5, ProcsAssumption DEF Exclusive, AtRest, Procs
  <2> QED BY <1>2, <2>1 DEF DatabaseStep, SendCommit
\* What enters op is being told.
<1>6. ASSUME NEW u \in Users, NEW n \in op'[u], n \notin op[u]
      PROVE  n \in sent \cap Broadcasts /\ \E r \in Reqs : Telling(r, u, n)
  <2>1. ASSUME NEW r \in Reqs, CacheOnceBroadcast(r)
        PROVE  n \in sent \cap Broadcasts /\ Telling(r, u, n)
    <3>1. u = req[r].u /\ n = req[r].n
      BY <1>1, <1>6, <2>1 DEF CacheOnceBroadcast, SetTypes
    <3>2. n \in sent
      BY <1>1, <2>1, <3>1 DEF CacheOnceBroadcast, AddressInv, Admitted, Addressed
    <3> QED BY <2>1, <3>1, <3>2 DEF CacheOnceBroadcast, Telling
  <2>2. ASSUME NEW r \in Reqs, CacheBatchTenant(r)
        PROVE  n \in sent \cap Broadcasts /\ Telling(r, u, n)
    <3>1. u = req[r].u /\ n \in total
      BY <1>1, <1>6, <2>2 DEF CacheBatchTenant, SetTypes
    <3> QED BY <1>1, <1>4, <2>2, <3>1 DEF CacheBatchTenant, Telling, TenantKinds, SetTypes
  <2> QED BY <1>2, <1>6, <2>1, <2>2 DEF CacheStep
<1>7. \A u \in Users : op[u] \subseteq op'[u] /\ op[u] \subseteq Notifies
  <2>1. \/ op' = op
        \/ \E v \in Users : \E X : op' = [op EXCEPT ![v] = @ \cup X]
    BY <1>1, <1>2 DEF CacheStep, CacheOnceBroadcast, CacheBatchTenant, Places
  <2>2. op \in [Users -> SUBSET Broadcasts] /\ Broadcasts \subseteq Notifies
    BY <1>1, TargetsOfAssumption DEF SetTypes
  <2> QED BY <2>1, <2>2
\* The five conjuncts.
<1>8. ASSUME NEW u \in Users, NEW n \in op'[u] PROVE Begun(n)'
  <2>1. n \in Notifies /\ Begun(n)
    BY <1>3, <1>6, <1>7, <1>8 DEF SeenInv
  <2> QED BY <1>2, <2>1 DEF BegunStep
<1>9. ASSUME NEW r \in Reqs, pc'[r] = "save", found'[r] # {} PROVE RowsOf(req[r].u, req[r].n)' # {}
  <2>1. req'[r] = req[r]
    BY <1>2, <1>9 DEF TellStep
  <2>2. RowsOf(req[r].u, req[r].n) # {}
    <3>1. FindStatus(r) => RowsOf(req[r].u, req[r].n) # {}
      <4>1. FindStatus(r) /\ RowsOf(req[r].u, req[r].n) = {} => found' = [found EXCEPT ![r] = {}]
        BY DEF FindStatus, Found
      <4>2. r \in DOMAIN found
        BY <1>1 DEF ProcTypes, Procs
      <4> QED BY <1>9, <4>1, <4>2
    <3> QED BY <1>2, <1>9, <3>1 DEF TellStep, SeenInv
  <2>3. \E row \in rows' : row.u = req[r].u /\ row.n = req[r].n
    BY <1>1, <1>2, <2>2, RowsHistory DEF RowsOf
  <2> QED BY <2>1, <2>3 DEF RowsOf
<1>10. ASSUME NEW r \in Reqs, NEW u \in Users, NEW n \in sent' \cap Broadcasts, Telling(r, u, n)'
       PROVE  Seen(u, n)'
  <2>1. pc'[r] = "cache" /\ req'[r] = req[r]
    BY <1>2, <1>10 DEF Telling, TellStep
  <2>2. /\ req[r].u = u
        /\ req[r].kind \in TenantKinds \/ (req[r].kind \in {"read", "delete"} /\ req[r].n = n)
    BY <1>10, <2>1 DEF Telling
  <2>3. CASE pc[r] = "cache"
    <3>1. n \in sent /\ Telling(r, u, n)
      BY <1>5, <1>10, <2>2, <2>3 DEF Telling
    <3> QED BY <1>10, <3>1, SeenStep DEF SeenInv
  <2>4. CASE SaveStatus(r)
    <3>1. pc[r] = "save" /\ req[r].n = n
      BY <1>1, <2>2, <2>4 DEF SaveStatus, Places, TenantKinds
    <3>2. CASE found[r] = {}
      <4>1. [id |-> r, u |-> u, n |-> n, st |-> NextStatus(req[r].kind)] \in rows'
        BY <2>2, <2>4, <3>1, <3>2 DEF SaveStatus
      <4> QED BY <4>1 DEF Seen, RowsOf
    <3>3. CASE found[r] # {}
      <4>1. RowsOf(u, n) # {}
        BY <2>2, <3>1, <3>3 DEF SeenInv
      <4>2. \E row \in rows' : row.u = u /\ row.n = n
        BY <1>1, <1>2, <4>1, RowsHistory DEF RowsOf
      <4> QED BY <4>2 DEF Seen, RowsOf
    <3> QED BY <3>2, <3>3
  <2>5. CASE UserBatch(r)
    BY <2>2, <2>5 DEF UserBatch, TenantKinds
  <2>6. CASE TenantBatch(r)
    <3>1. n \in sent /\ n \in Notifies
      BY <1>3, <1>5, <1>10, <2>6 DEF TenantBatch
    <3>2. created'[n] = created[n] /\ created[n] <= clock
      BY <1>1, <2>6, <3>1, WatermarkFrame DEF TimeInv
    <3>3. readAt'[u] = clock \/ clearAt'[u] = clock
      BY <1>1, <2>2, <2>6, WatermarkFrame DEF TimeTypes
    <3> QED BY <3>2, <3>3 DEF Seen
  <2> QED BY <1>2, <2>1, <2>3, <2>4, <2>5, <2>6 DEF TellStep
\* A broadcast that is just committed has been seen by nobody.
<1>11. ASSUME NEW u \in Users, NEW n \in Broadcasts, n \in sent', n \notin sent
       PROVE  n \notin op'[u] /\ ~Seen(u, n)'
  <2>1. n \in Notifies /\ SendCommit(n)
    BY <1>2, <1>11, TargetsOfAssumption DEF DatabaseStep, SendCommit
  <2>2. pc[n] = "commit" /\ UNCHANGED <<created, readAt, clearAt>> /\ op' = op
    BY <2>1 DEF SendCommit, cacheVars
  <2>3. n \notin op'[u]
    BY <2>2 DEF SeenInv, Begun
  <2>4. ASSUME NEW row \in rows', row.n = n PROVE FALSE
    <3>1. rows' = rows \cup {[id |-> n, u |-> x, n |-> n, st |-> "unread"] : x \in TargetsOf[n]}
      BY <2>1 DEF SendCommit
    <3>2. TargetsOf[n] = {}
      BY <1>11, <2>1, TargetsOfAssumption
    <3>3. row \in rows
      BY <3>1, <3>2
    <3> QED BY <1>1, <1>11, <2>4, <3>3 DEF AddressInv, Addressed
  <2>5. readAt[u] < created[n] /\ clearAt[u] < created[n] /\ created[n] \in Nat /\ readAt[u] \in Nat /\ clearAt[u] \in Nat
    BY <1>1, <2>1, <2>2 DEF TimeInv, TimeTypes
  <2> QED BY <2>2, <2>3, <2>4, <2>5 DEF Seen, RowsOf
<1>12. ASSUME NEW u \in Users, NEW n \in Broadcasts, n \in sent', n \in op'[u] PROVE Seen(u, n)'
  <2>1. n \in sent
    BY <1>11, <1>12
  <2>2. Seen(u, n)
    BY <1>6, <1>12, <2>1 DEF SeenInv, Standing
  <2> QED BY <2>1, <2>2, SeenStep
<1>13. ASSUME NEW u \in Users, NEW n \in Broadcasts, n \in sent', Seen(u, n)'
       PROVE  n \in op'[u] \/ \E r \in Reqs : Telling(r, u, n)'
  <2>1. n \in sent
    BY <1>11, <1>13
  <2>2. CASE Seen(u, n)
    <3>1. n \in op[u] \/ \E r \in Reqs : Telling(r, u, n)
      BY <2>1, <2>2 DEF SeenInv, Standing
    <3>2. ASSUME NEW r \in Reqs, Telling(r, u, n) PROVE n \in op'[u] \/ Telling(r, u, n)'
      <4>1. CacheOnceBroadcast(r) => n \in op'[u]
        BY <1>1, <3>2 DEF CacheOnceBroadcast, Telling, TenantKinds, SetTypes
      <4>2. ~CacheOnceTarget(r) /\ ~CacheBatchUser(r)
        BY <3>2 DEF CacheOnceTarget, CacheBatchUser, Telling, TenantKinds
      <4>3. n \in total
        BY <1>3, <1>5, <2>1, <3>2 DEF Telling, TotalInv
      <4>4. CacheBatchTenant(r) => n \in op'[u]
        BY <1>1, <3>2, <4>3 DEF CacheBatchTenant, Telling, SetTypes
      <4>5. pc'[r] = "cache" /\ req'[r] = req[r] => Telling(r, u, n)'
        BY <3>2 DEF Telling
      <4>6. pc[r] = "cache"
        BY <3>2 DEF Telling
      <4> QED BY <1>2, <4>1, <4>2, <4>4, <4>5, <4>6 DEF TellStep
    <3> QED BY <1>7, <3>1, <3>2
  <2>3. ASSUME NEW r \in Reqs, SaveStatus(r), req[r].u = u, req[r].n = n PROVE Telling(r, u, n)'
    <3>1. pc'[r] = "cache" /\ req' = req /\ req[r].kind \in {"read", "delete"}
      BY <1>1, <2>3 DEF SaveStatus, Goto, ProcTypes, Procs, Places
    <3> QED BY <2>3, <3>1 DEF Telling
  <2>4. ASSUME NEW r \in Reqs, TenantBatch(r), req[r].u = u PROVE Telling(r, u, n)'
    <3>1. pc'[r] = "cache" /\ req' = req /\ req[r].kind \in TenantKinds
      BY <1>1, <2>4 DEF TenantBatch, Goto, ProcTypes, Procs, TenantKinds
    <3> QED BY <2>4, <3>1 DEF Telling
  <2> QED BY <1>13, <2>1, <2>2, <2>3, <2>4, SeenStep
<1> QED BY <1>8, <1>9, <1>10, <1>12, <1>13 DEF SeenInv, Standing

LEMMA JobKeepsBroadcasts ==
    ASSUME CleanupInv, TotalInv, SeenInv, JobStep, ~Interrupt
    PROVE  TotalInv' /\ SeenInv'
<1>1. JobKeeps /\ sent' \subseteq sent /\ rows' \subseteq rows
  BY JobFrame
<1>2. \A p \in Procs : pc[p] \in {"idle", "done"}
  BY DEF JobStep, RunOnce, ListExpired, Delete, DeleteStatuses, DeleteRecords, SyncUnreadSnapshot, Interrupt,
         CleanupInv, JobInv, Quiescent, AtRest
<1>3. \A p \in Procs : pc'[p] \in {"idle", "done"}
  BY <1>1, <1>2 DEF JobKeeps, procVars
<1>4. total' = total \/ total' = sent \cap Broadcasts
  BY DEF JobStep, RunOnce, ListExpired, Delete, DeleteStatuses, DeleteRecords, SyncUnreadSnapshot, Interrupt
<1>5. sent \subseteq Notifies /\ total \subseteq Broadcasts
  BY DEF CleanupInv, TypeInv, Typed, RowTypes, SetTypes
<1>6. \A n \in sent' \cap Broadcasts : n \in total'
  BY <1>1, <1>2, <1>4, <1>5 DEF TotalInv, Procs
<1>7. \A n \in total' : n \in sent' \/ (place' = "sync" /\ n \in batch')
  <2>1. CASE RunOnce \/ ListExpired \/ DeleteStatuses
    BY <2>1 DEF RunOnce, ListExpired, DeleteStatuses, TotalInv
  <2>2. CASE DeleteRecords
    BY <2>2 DEF DeleteRecords, TotalInv
  <2>3. CASE SyncUnreadSnapshot
    BY <1>5, <2>3 DEF SyncUnreadSnapshot, TotalInv
  <2> QED BY <2>1, <2>2, <2>3 DEF JobStep, Delete
<1>8. TotalInv'
  BY <1>3, <1>6, <1>7 DEF TotalInv, Procs
<1>9. ASSUME NEW n, Standing(n)' PROVE Standing(n) /\ \A row \in rows : row.n = n => row \in rows'
  <2>1. CASE DeleteStatuses
    BY <1>9, <2>1 DEF DeleteStatuses, Standing
  <2>2. CASE ~DeleteStatuses
    <3>1. rows' = rows
      BY <2>2 DEF JobStep, RunOnce, ListExpired, Delete, DeleteRecords, SyncUnreadSnapshot, Interrupt
    <3>2. Standing(n)
      BY <1>9, <2>2 DEF JobStep, RunOnce, ListExpired, Delete, DeleteRecords, SyncUnreadSnapshot, Interrupt, Standing
    <3> QED BY <3>1, <3>2
  <2> QED BY <2>1, <2>2
<1>10. ASSUME NEW u, NEW n, Standing(n)' PROVE Seen(u, n)' <=> Seen(u, n)
  BY <1>1, <1>9, <1>10 DEF Seen, RowsOf, JobKeeps
<1>11. \A r \in Reqs : \A u, n : ~Telling(r, u, n) /\ ~Telling(r, u, n)'
  BY <1>2, <1>3 DEF Telling, Procs
<1>12. op' = op /\ pc' = pc
  BY <1>1 DEF JobKeeps, procVars
<1>13. \A u \in Users : \A n \in op'[u] : Begun(n)'
  BY <1>12 DEF SeenInv, Begun
<1>14. \A u \in Users, n \in Broadcasts : Standing(n)' => (n \in op'[u] <=> Seen(u, n)')
  BY <1>9, <1>10, <1>11, <1>12 DEF SeenInv
<1>15. SeenInv'
  BY <1>3, <1>11, <1>13, <1>14 DEF SeenInv, Procs
<1> QED BY <1>8, <1>15

LEMMA BroadcastAlways ==
    ASSUME Serial
    PROVE  CleanupSpec => []BroadcastInv
<1>1. CleanupInit => BroadcastInv
  BY DEF CleanupInit, Init, BroadcastInv, TotalInv, SeenInv, Standing, Telling, Procs
<1>2. ASSUME CleanupInv, Exclusive, TimeInv, BroadcastInv, [CleanupNext]_cleanupVars PROVE BroadcastInv'
  <2> SUFFICES ASSUME Faultless' PROVE TotalInv' /\ SeenInv'
    BY DEF BroadcastInv
  <2>1. FaultTypes /\ interrupts \in Nat
    BY <1>2 DEF CleanupInv, TypeInv, Typed, JobTypes
  <2>2. CASE place = "idle" /\ Next /\ UNCHANGED jobVars
    <3>1. ProcessStep
      BY <2>2, ProcessFrame
    <3>2. ~CacheLoss /\ errors' = errors /\ Faultless
      BY <2>1, <2>2, <3>1 DEF ProcessStep, CallFails, CacheLoss, FaultTypes, Faultless, jobVars
    <3> QED BY <1>2, <2>2, <3>2, MainKeepsTotal, MainKeepsSeen DEF BroadcastInv
  <2>3. CASE JobStep
    <3>1. ~Interrupt
      BY <2>1 DEF Interrupt, Faultless
    <3>2. Faultless
      BY <2>3, <3>1 DEF Faultless, JobStep, RunOnce, ListExpired, Delete, DeleteStatuses, DeleteRecords,
                        SyncUnreadSnapshot, JobKeeps, faultVars
    <3> QED BY <1>2, <2>3, <3>1, <3>2, JobKeepsBroadcasts DEF BroadcastInv
  <2>4. CASE UNCHANGED cleanupVars
    <3>1. UNCHANGED <<sent, rows, created, readAt, clearAt, total, op, pc, req, found, losses, errors, place, batch, interrupts>>
      BY <2>4 DEF cleanupVars, vars, dbVars, cacheVars, procVars, faultVars, jobVars
    <3>2. Faultless
      BY <3>1 DEF Faultless
    <3>3. TotalInv'
      BY <1>2, <3>1, <3>2 DEF BroadcastInv, TotalInv
    <3>4. /\ \A u, n : Seen(u, n)' <=> Seen(u, n)
          /\ \A r, u, n : Telling(r, u, n)' <=> Telling(r, u, n)
          /\ \A n : (Standing(n)' <=> Standing(n)) /\ (Begun(n)' <=> Begun(n))
      BY <3>1 DEF Seen, RowsOf, Telling, Standing, Begun
    <3>5. SeenInv'
      BY <1>2, <3>1, <3>2, <3>4 DEF BroadcastInv, SeenInv, RowsOf
    <3> QED BY <3>3, <3>5
  <2> QED BY <1>2, <2>2, <2>3, <2>4 DEF CleanupNext
<1> QED BY <1>1, <1>2, CleanupAlways, TimeAlways, PTL DEF CleanupSpec

\* The broadcast part of the tenant's unread formula: with operations one at a
\* time, no fault, and broadcasts sent by the tenant, the difference of the two
\* Redis sets is exactly the set of broadcasts that the inbox shows as unread,
\* for any number of broadcasts, users, requests and cleanups.  (A broadcast
\* sent by a user enters broadcast:op by SUNIONSTORE and still is in the
\* personal inbox, which knows no watermark.)
THEOREM BroadcastUnreadCorrect ==
    ASSUME Serial, \A n \in Broadcasts : ~Personal(n)
    PROVE  CleanupSpec => []BroadcastUnreadExact
<1>1. CleanupInv /\ TimeInv /\ BroadcastInv => BroadcastUnreadExact
  <2> SUFFICES ASSUME CleanupInv, TimeInv, BroadcastInv, Undisturbed, NEW u \in Users, NEW n
               PROVE  n \in total \ op[u] <=> n \in Broadcasts /\ InboxUnread(u, n)
    BY DEF BroadcastUnreadExact
  <2>1. TotalInv /\ SeenInv /\ place = "idle" /\ \A p \in Procs : pc[p] \in {"idle", "done"}
    BY DEF BroadcastInv, Undisturbed, Faultless, Quiescent, AtRest
  <2>2. total \subseteq Broadcasts /\ sent \subseteq Notifies /\ TimeTypes
    BY DEF CleanupInv, TypeInv, Typed, SetTypes, RowTypes
  <2>3. n \in total <=> n \in sent /\ n \in Broadcasts
    BY <2>1, <2>2 DEF TotalInv, Procs
  <2>4. ASSUME n \in sent, n \in Broadcasts PROVE n \in op[u] <=> Seen(u, n)
    BY <2>1, <2>4 DEF SeenInv, Standing, Telling, Procs
  <2>5. ASSUME n \in sent, n \in Broadcasts PROVE InboxUnread(u, n) <=> ~Seen(u, n)
    <3>1. \A row \in RowsOf(u, n) : row.st # "unread"
      BY <2>5 DEF RowsOf, TimeInv
    <3>2. created[n] \in Nat /\ readAt[u] \in Nat /\ clearAt[u] \in Nat /\ ~Personal(n)
      BY <2>2, <2>5 DEF TimeTypes
    <3> QED BY <2>5, <3>1, <3>2 DEF InboxUnread, Seen
  <2> QED BY <2>3, <2>4, <2>5 DEF InboxUnread
<1> QED BY <1>1, CleanupAlways, TimeAlways, BroadcastAlways, PTL

-----------------------------------------------------------------------------
(* The personal count that is shown, with operations one at a time *)

\* p has changed u's personal counter, or may have, and has still to push it.
PushingTo(p, u) ==
    /\ PersonalProc(p)
    /\ \/ p \in Notifies /\ pc[p] \in {"count", "set"} /\ u \in TargetsOf[p]
       \/ pc[p] = "push" /\ u \in todo[p]
       \/ pc[p] = "publish" /\ (u = cur[p] \/ u \in todo[p])

\* The personal number that p is about to publish is the one in Redis, and
\* broadcasts are only added to a tenant's number.
Holding(p) ==
    /\ pc[p] = "publish" /\ PersonalProc(p) => val[p] = Get(personal[cur[p]])
    /\ pc[p] = "sdiff" => ~PersonalProc(p)

UpToDate(u) == shown[u].personal = Get(personal[u])

ShownInv ==
    /\ place # "idle" => due # {}
    /\ losses = 0 /\ errors = 0 /\ due = {} =>
          /\ \A u \in Users : UpToDate(u) \/ \E p \in Procs : PushingTo(p, u)
          /\ \A p \in Procs : Holding(p)

\* What a step of x must do for the users and for itself.
Delivers(x) ==
    /\ \A u \in Users : UpToDate(u) \/ PushingTo(x, u) => UpToDate(u)' \/ PushingTo(x, u)'
    /\ Holding(x)'
    /\ \A q \in Procs \ {x} : pc'[q] = pc[q]

LEMMA SendDelivers ==
    ASSUME TypeInv, NEW n \in Notifies, SendStep(n)
    PROVE  Delivers(n)
<1> USE DEF Delivers, Holding, UpToDate, dbVars, cacheVars, procVars, faultVars, Goto, Found, PushTo, ProcTypes, Procs
<1>1. ProcTypes /\ CounterTypes
  BY DEF TypeInv, Typed
<1>2. PersonalProc(n)' <=> PersonalProc(n)
  BY DEF PersonalProc
<1>3. CASE SendBegin(n) \/ SendCommit(n) \/ SAddTotal(n) \/ SCardTotal(n) \/ ReconcileRead(n)
           \/ ReconcileShare(n) \/ ReconcileShared(n) \/ ReplaceTotal(n)
  <2>1. /\ pc[n] \notin {"count", "set", "push", "publish"} /\ pc'[n] \notin {"publish", "sdiff"} /\ UNCHANGED <<personal, shown>>
        /\ \A q \in Procs \ {n} : pc'[q] = pc[q]
    BY <1>1, <1>3 DEF SendBegin, MayStart, SendCommit, SAddTotal, SCardTotal, ReconcileRead, ReconcileShare,
         ReconcileShared, ReplaceTotal
  <2> QED BY <2>1 DEF PushingTo
<1>4. ASSUME NEW u \in TargetsOf[n], Personal(n) PROVE PersonalProc(n) /\ u \in Users
  BY <1>4, TargetsOfAssumption DEF PersonalProc
<1>5. ASSUME NEW new, ForTargets(n, new), NEW u \in Users PROVE (u \in TargetsOf[n] /\ Personal(n)) \/ personal'[u] = personal[u]
  BY <1>1, <1>5 DEF ForTargets, CounterTypes
<1>6. CASE IncrTargets(n)
  <2>1. pc[n] = "incr" /\ pc'[n] = "count" /\ shown' = shown /\ \A q \in Procs \ {n} : pc'[q] = pc[q]
    BY <1>1, <1>6 DEF IncrTargets
  <2>2. \A u \in Users : (u \in TargetsOf[n] /\ Personal(n)) \/ personal'[u] = personal[u]
    BY <1>5, <1>6 DEF IncrTargets
  <2> QED BY <1>2, <1>4, <2>1, <2>2 DEF PushingTo
<1>7. CASE CountTargets(n)
  <2>1. /\ pc[n] = "count" /\ UNCHANGED <<personal, shown>> /\ \A q \in Procs \ {n} : pc'[q] = pc[q]
        /\ \/ pc'[n] = "set"
           \/ todo'[n] = TargetsOf[n] /\ pc'[n] = IF TargetsOf[n] = {} THEN "done" ELSE "push"
    BY <1>1, <1>7 DEF CountTargets
  <2> QED BY <1>2, <2>1 DEF PushingTo
<1>8. CASE SetTargets(n)
  <2>1. /\ pc[n] = "set" /\ UNCHANGED shown /\ \A q \in Procs \ {n} : pc'[q] = pc[q]
        /\ todo'[n] = TargetsOf[n] /\ pc'[n] = IF TargetsOf[n] = {} THEN "done" ELSE "push"
    BY <1>1, <1>8 DEF SetTargets
  <2>2. \A u \in Users : (u \in TargetsOf[n] /\ Personal(n)) \/ personal'[u] = personal[u]
    BY <1>5, <1>8 DEF SetTargets
  <2> QED BY <1>2, <1>4, <2>1, <2>2 DEF PushingTo
<1> QED BY <1>3, <1>6, <1>7, <1>8 DEF SendStep

LEMMA RequestDelivers ==
    ASSUME TypeInv, NEW r \in Reqs, RequestStep(r)
    PROVE  Delivers(r)
<1> USE DEF Delivers, Holding, UpToDate, dbVars, cacheVars, procVars, faultVars, Goto, Found, PushTo, ProcTypes, Procs
<1>1. ProcTypes /\ CounterTypes /\ ReqTypes /\ HeldTypes /\ Places /\ r \notin Notifies
  BY ProcsAssumption DEF TypeInv, Typed
<1>2. CASE ~CacheOnceTarget(r) /\ ~CacheBatchUser(r)
  <2>1. /\ pc[r] \notin {"push", "publish"} /\ pc'[r] \notin {"publish", "sdiff"} /\ UNCHANGED <<personal, shown>>
        /\ \A q \in Procs \ {r} : pc'[q] = pc[q]
    BY <1>1, <1>2 DEF RequestStep, StartBatch, StartOnce, MayStart, FindStatus, SaveStatus, CacheOnceBroadcast,
         UserBatch, TenantBatch, CacheBatchTenant
  <2> QED BY <1>1, <2>1 DEF PushingTo
<1>3. CASE CacheOnceTarget(r)
  <2> DEFINE u == req[r].u
             new == DecrWithFloor(IF Personal(req[r].n) THEN personal[u] ELSE tenant[u])
  <2>1. u \in Users /\ pc[r] = "cache" /\ req' = req /\ shown' = shown
    BY <1>1, <1>3 DEF CacheOnceTarget, Places
  <2>2. new \in Nat
    BY <1>1, <2>1, CounterOps DEF CounterTypes
  <2>3. /\ pc'[r] = "publish" /\ cur'[r] = u /\ val'[r] = new /\ \A q \in Procs \ {r} : pc'[q] = pc[q]
        /\ personal' = IF Personal(req[r].n) THEN [personal EXCEPT ![u] = new] ELSE personal
    BY <1>1, <1>3 DEF CacheOnceTarget, HeldTypes
  <2>4. PersonalProc(r) <=> Personal(req[r].n)
    BY <1>1, <1>3 DEF CacheOnceTarget, PersonalProc
  <2>5. PersonalProc(r)' <=> PersonalProc(r)
    BY <2>1 DEF PersonalProc
  <2>6. Get(new) = new
    BY <2>2 DEF Get, Missing
  <2> HIDE DEF u, new
  <2>7. PersonalProc(r) => personal'[u] = new /\ \A v \in Users \ {u} : personal'[v] = personal[v]
    BY <1>1, <2>1, <2>3, <2>4 DEF CounterTypes
  <2>8. ~PersonalProc(r) => personal' = personal
    BY <2>3, <2>4
  <2>9. Holding(r)'
    BY <2>3, <2>5, <2>6, <2>7
  <2>10. ASSUME NEW v \in Users, UpToDate(v) \/ PushingTo(r, v) PROVE UpToDate(v)' \/ PushingTo(r, v)'
    <3>1. UpToDate(v)
      BY <1>1, <2>1, <2>10 DEF PushingTo
    <3>2. CASE PersonalProc(r) /\ v = u
      BY <2>3, <2>5, <3>2 DEF PushingTo
    <3>3. CASE ~(PersonalProc(r) /\ v = u)
      BY <2>1, <2>7, <2>8, <3>1, <3>3
    <3> QED BY <3>2, <3>3
  <2> QED BY <2>3, <2>9, <2>10
<1>4. CASE CacheBatchUser(r)
  <2>1. /\ req[r].u \in Users /\ pc[r] = "cache" /\ req' = req /\ shown' = shown
        /\ pc'[r] = "publish" /\ cur'[r] = req[r].u /\ val'[r] = 0 /\ \A q \in Procs \ {r} : pc'[q] = pc[q]
        /\ personal'[req[r].u] = 0 /\ \A v \in Users \ {req[r].u} : personal'[v] = personal[v]
    BY <1>1, <1>4 DEF CacheBatchUser, Places, HeldTypes, CounterTypes
  <2>2. PersonalProc(r)'
    BY <1>1, <1>4, <2>1 DEF CacheBatchUser, PersonalProc
  <2>3. Holding(r)'
    BY <2>1 DEF Get, Missing
  <2>4. ASSUME NEW v \in Users, UpToDate(v) \/ PushingTo(r, v) PROVE UpToDate(v)' \/ PushingTo(r, v)'
    <3>1. UpToDate(v)
      BY <1>1, <2>1, <2>4 DEF PushingTo
    <3>2. CASE v = req[r].u
      BY <2>1, <2>2, <3>2 DEF PushingTo
    <3>3. CASE v # req[r].u
      BY <2>1, <3>1, <3>3
    <3> QED BY <3>2, <3>3
  <2> QED BY <2>1, <2>3, <2>4
<1> QED BY <1>2, <1>3, <1>4

LEMMA PushDelivers ==
    ASSUME TypeInv, NEW p \in Procs, Holding(p), PushStep(p)
    PROVE  Delivers(p)
<1> USE DEF Delivers, UpToDate, dbVars, cacheVars, procVars, faultVars, Goto, ProcTypes
<1>1. ProcTypes /\ HeldTypes /\ ShownTypes /\ Places
  BY DEF TypeInv, Typed
<1>2. req' = req /\ personal' = personal
  BY DEF PushStep, GetPersonalUnread, GetTenantCounter, GetBroadcastDiff, Publish
<1>3. PersonalProc(p)' <=> PersonalProc(p)
  BY <1>2 DEF PersonalProc
<1>4. CASE GetPersonalUnread(p)
  <2>1. PICK u \in todo[p] : /\ cur' = [cur EXCEPT ![p] = u]
                             /\ val' = [val EXCEPT ![p] = Get(personal[u])]
                             /\ todo' = [todo EXCEPT ![p] = @ \ {u}]
    BY <1>4 DEF GetPersonalUnread
  <2>2. cur'[p] = u /\ val'[p] = Get(personal[u]) /\ todo'[p] = todo[p] \ {u}
    BY <1>1, <2>1 DEF HeldTypes
  <2>3. pc[p] = "push" /\ pc'[p] = "publish" /\ shown' = shown /\ \A q \in Procs \ {p} : pc'[q] = pc[q]
    BY <1>1, <1>4 DEF GetPersonalUnread
  <2>4. Holding(p)'
    BY <1>2, <2>2, <2>3 DEF Holding
  <2>5. ASSUME NEW v \in Users, PushingTo(p, v) PROVE PushingTo(p, v)'
    <3>1. PersonalProc(p) /\ v \in todo[p]
      BY <2>3, <2>5 DEF PushingTo
    <3>2. v = cur'[p] \/ v \in todo'[p]
      BY <2>2, <3>1
    <3> QED BY <1>3, <2>3, <3>1, <3>2 DEF PushingTo
  <2>6. \A v \in Users : UpToDate(v) => UpToDate(v)'
    BY <1>2, <2>3
  <2> QED BY <2>3, <2>4, <2>5, <2>6
<1>5. CASE GetTenantCounter(p) \/ GetBroadcastDiff(p)
  <2>1. /\ pc[p] \in {"push", "sdiff"} /\ pc'[p] \in {"sdiff", "publish"} /\ shown' = shown
        /\ \A q \in Procs \ {p} : pc'[q] = pc[q]
        /\ pc[p] = "push" => ~PersonalProc(p) /\ pc'[p] = "sdiff"
    BY <1>1, <1>5 DEF GetTenantCounter, GetBroadcastDiff
  <2>2. pc[p] = "sdiff" => ~PersonalProc(p)
    BY DEF Holding
  <2> QED BY <1>2, <1>3, <2>1, <2>2 DEF PushingTo, Holding
<1>6. CASE Publish(p)
  <2>1. /\ pc[p] = "publish" /\ todo' = todo /\ pc'[p] = IF todo[p] = {} THEN "done" ELSE "push"
        /\ \A q \in Procs \ {p} : pc'[q] = pc[q]
    BY <1>1, <1>6 DEF Publish
  <2>2. cur[p] \in Users
    BY <1>1, <2>1 DEF Places
  <2>3. Holding(p)'
    BY <2>1 DEF Holding
  <2>4. \A v \in Users : shown'[v].personal = IF PersonalProc(p) /\ v = cur[p] THEN val[p] ELSE shown[v].personal
    <3>1. CASE PersonalProc(p)
      BY <1>1, <1>6, <2>2, <3>1 DEF Publish, ShownTypes
    <3>2. CASE ~PersonalProc(p)
      BY <1>1, <1>6, <2>2, <3>2 DEF Publish, ShownTypes
    <3> QED BY <3>1, <3>2
  <2>5. ASSUME NEW v \in Users, UpToDate(v) \/ PushingTo(p, v) PROVE UpToDate(v)' \/ PushingTo(p, v)'
    <3>1. CASE v \in todo[p] /\ PersonalProc(p)
      BY <1>3, <2>1, <3>1 DEF PushingTo
    <3>2. CASE v = cur[p] /\ PersonalProc(p)
      BY <1>2, <2>1, <2>4, <3>2 DEF Holding
    <3>3. CASE UpToDate(v) /\ ~(v = cur[p] /\ PersonalProc(p))
      BY <1>2, <2>4, <3>3
    <3> QED BY <2>1, <2>5, <3>1, <3>2, <3>3 DEF PushingTo
  <2> QED BY <2>1, <2>3, <2>5
<1> QED BY <1>4, <1>5, <1>6 DEF PushStep

LEMMA ShownStep ==
    ASSUME CleanupInv, Exclusive, Serial, ShownInv, [CleanupNext]_cleanupVars
    PROVE  ShownInv'
<1>1. TypeInv /\ ProcTypes /\ FaultTypes
  BY DEF CleanupInv, TypeInv, Typed
<1>2. CASE JobStep
  <2>1. due' # {} \/ place # "idle"
    BY <1>2 DEF JobStep, RunOnce, ListExpired, Delete, DeleteStatuses, DeleteRecords, SyncUnreadSnapshot, Interrupt
  <2>2. due \subseteq due'
    BY <1>2 DEF JobStep, RunOnce, ListExpired, Delete, DeleteStatuses, DeleteRecords, SyncUnreadSnapshot, Interrupt
  <2> QED BY <2>1, <2>2 DEF ShownInv
<1>3. CASE place = "idle" /\ Next /\ UNCHANGED jobVars
  <2> SUFFICES ASSUME losses' = 0, errors' = 0, due' = {}
               PROVE  /\ \A u \in Users : UpToDate(u)' \/ \E p \in Procs : PushingTo(p, u)'
                      /\ \A p \in Procs : Holding(p)'
    BY <1>3 DEF ShownInv, jobVars
  <2>1. ProcessStep
    BY <1>3, ProcessFrame
  <2>2. losses = 0 /\ errors = 0 /\ due = {} /\ ~CacheLoss /\ \A p \in Procs : ~CallFails(p)
    BY <1>1, <1>3, <2>1 DEF ProcessStep, CallFails, CacheLoss, FaultTypes, jobVars
  <2>3. /\ \A u \in Users : UpToDate(u) \/ \E p \in Procs : PushingTo(p, u)
        /\ \A p \in Procs : Holding(p)
    BY <2>2 DEF ShownInv
  <2>4. \E x \in Procs : Delivers(x) /\ (MayStart(x) \/ ~AtRest(x))
    <3>1. ASSUME NEW n \in Notifies, SendStep(n) PROVE n \in Procs /\ Delivers(n) /\ (MayStart(n) \/ ~AtRest(n))
      <4>1. MayStart(n) \/ ~AtRest(n)
        BY <3>1 DEF SendStep, SendBegin, SendCommit, SAddTotal, SCardTotal, ReconcileRead, ReconcileShare,
             ReconcileShared, ReplaceTotal, IncrTargets, CountTargets, SetTargets, AtRest
      <4> QED BY <1>1, <3>1, <4>1, SendDelivers DEF Procs
    <3>2. ASSUME NEW r \in Reqs, RequestStep(r) PROVE r \in Procs /\ Delivers(r) /\ (MayStart(r) \/ ~AtRest(r))
      <4>1. MayStart(r) \/ ~AtRest(r)
        BY <3>2 DEF RequestStep, StartBatch, StartOnce, FindStatus, SaveStatus, CacheOnceBroadcast,
             CacheOnceTarget, UserBatch, TenantBatch, CacheBatchUser, CacheBatchTenant, AtRest
      <4> QED BY <1>1, <3>2, <4>1, RequestDelivers DEF Procs
    <3>3. ASSUME NEW p \in Procs, PushStep(p) PROVE Delivers(p) /\ ~AtRest(p)
      <4>1. ~AtRest(p)
        BY <3>3 DEF PushStep, GetPersonalUnread, GetTenantCounter, GetBroadcastDiff, Publish, AtRest
      <4> QED BY <1>1, <2>3, <3>3, <4>1, PushDelivers
    <3>4. \A p \in Procs : ~OperationFails(p) /\ ~PushFails(p)
      BY <2>2 DEF OperationFails, PushFails
    <3>5. \A n \in Notifies : ~UpdateFails(n)
      BY <2>2 DEF UpdateFails, Procs
    <3> QED BY <1>3, <2>2, <3>1, <3>2, <3>3, <3>4, <3>5 DEF Next
  <2>5. PICK x \in Procs : Delivers(x) /\ (MayStart(x) \/ ~AtRest(x))
    BY <2>4
  <2>6. \A q \in Procs \ {x} : AtRest(q)
    BY <2>5 DEF Exclusive, MayStart, Quiescent
  <2>7. \A q \in Procs \ {x} : Holding(q)'
    BY <2>5, <2>6 DEF Delivers, Holding, AtRest
  <2>8. \A q \in Procs, u \in Users : PushingTo(q, u) => q = x
    BY <2>6 DEF PushingTo, AtRest
  <2> QED BY <2>3, <2>5, <2>7, <2>8 DEF Delivers
<1>4. CASE UNCHANGED cleanupVars
  BY <1>4 DEF cleanupVars, vars, dbVars, cacheVars, procVars, faultVars, jobVars, ShownInv, UpToDate, PushingTo,
              Holding, PersonalProc
<1> QED BY <1>2, <1>3, <1>4 DEF CleanupNext

\* With operations one at a time and no fault, the personal count that the
\* user's clients show is the one Redis holds, once the pushes are done, until
\* a cleanup recounts without pushing.
THEOREM ShownPersonalCorrect ==
    ASSUME Serial
    PROVE  CleanupSpec => []ShownPersonalIsCached
<1>1. CleanupInit => ShownInv
  BY DEF CleanupInit, Init, ShownInv, UpToDate, Holding, Get, Missing
<1>2. ShownInv => ShownPersonalIsCached
  BY DEF ShownInv, ShownPersonalIsCached, Undisturbed, Quiescent, AtRest, PushingTo, UpToDate
<1> QED BY <1>1, <1>2, ShownStep, CleanupAlways, TimeAlways, PTL DEF CleanupSpec
=============================================================================
