------------------------------- MODULE Cleanup -------------------------------
(***************************************************************************)
(* The daily NotifyCleanupService beside the sends and the operations of   *)
(* Unread: RunOnce lists expired records in batches, deletes their status  *)
(* rows, then the records (the transaction around the two is not the one   *)
(* they use, so each commits by itself), and recounts what they counted    *)
(* for.  An error, or the end of the process, leaves a run where it is;    *)
(* the next day's run starts from what it finds.  Runs and operations do   *)
(* not overlap here, so the recounts of a batch are one step.  transmit    *)
(* stores no expire_at (Expiry): a record that has one got it by an update *)
(* from outside the program.                                               *)
(***************************************************************************)
EXTENDS Inbox

CONSTANTS
    Expiring,        \* notifications that may be given an expire_at
    BatchSize,       \* notifyCleanupBatchSize
    MaxInterrupts    \* bound on the runs that end early

ASSUME CleanupAssumption ==
    /\ Expiring \subseteq Notifies
    /\ BatchSize \in Nat \ {0} /\ MaxInterrupts \in Nat

VARIABLES
    due,         \* notifications whose expire_at has passed
    place,       \* of the job: "idle", or the step it takes next
    batch,       \* expireInfos
    complete,    \* the last run returned without an error
    interrupts

jobVars == <<due, place, batch, complete, interrupts>>
cleanupVars == <<vars, jobVars>>

CleanupInit ==
    /\ Init
    /\ due = {} /\ place = "idle" /\ batch = {} /\ complete = FALSE
    /\ interrupts = 0

\* The job leaves everything of Unread alone but what db and cache name.
JobKeeps == UNCHANGED <<created, readAt, clearAt, clock, op, procVars, shown, faultVars>>

-----------------------------------------------------------------------------
\* The timer of StartDaily: RunOnce takes the time, by which some expire_at
\* have passed (a run that finds nothing changes nothing).
RunOnce ==
    /\ place = "idle" /\ Quiescent
    /\ due' \in {due \cup more : more \in SUBSET (sent \cap Expiring)}
    /\ due' \cap sent # {}
    /\ place' = "list"
    /\ complete' = FALSE
    /\ JobKeeps /\ UNCHANGED <<sent, rows, personal, tenant, total, batch, interrupts>>

Return == place' = "idle" /\ complete' = TRUE

\* ListExpiredNotifyInfos, up to the limit; with nothing left the run is over.
ListExpired ==
    LET left == due \cap sent IN
    /\ place = "list"
    /\ IF left = {}
       THEN Return /\ UNCHANGED batch
       ELSE /\ \E b \in SUBSET left :
                  /\ Cardinality(b) = IF Cardinality(left) < BatchSize THEN Cardinality(left) ELSE BatchSize
                  /\ batch' = b
            /\ place' = "statuses"
            /\ UNCHANGED complete
    /\ JobKeeps /\ UNCHANGED <<sent, rows, personal, tenant, total, due, interrupts>>

DeleteStatuses ==
    /\ place = "statuses"
    /\ rows' = {row \in rows : row.n \notin batch}
    /\ place' = "records"
    /\ JobKeeps /\ UNCHANGED <<sent, personal, tenant, total, due, batch, complete, interrupts>>

DeleteRecords ==
    /\ place = "records"
    /\ sent' = sent \ batch
    /\ place' = "sync"
    /\ JobKeeps /\ UNCHANGED <<rows, personal, tenant, total, due, batch, complete, interrupts>>

\* Mutant: the records first; what is left after an error is found by no query.
DeleteRecordsFirst ==
    \/ /\ place = "statuses"
       /\ sent' = sent \ batch
       /\ place' = "records"
       /\ JobKeeps /\ UNCHANGED <<rows, personal, tenant, total, due, batch, complete, interrupts>>
    \/ /\ place = "records"
       /\ rows' = {row \in rows : row.n \notin batch}
       /\ place' = "sync"
       /\ JobKeeps /\ UNCHANGED <<sent, personal, tenant, total, due, batch, complete, interrupts>>

Delete == DeleteStatuses \/ DeleteRecords

\* syncUnreadSnapshot: the targets of the batch, by kind of sender.
Affected(s) == UNION {TargetsOf[n] : n \in {m \in batch \ Broadcasts : SenderOf[m] = s}}

\* Mutant: the two buckets are exchanged.
RecountSwapped(s, old) ==
    [u \in Users |-> IF u \in Affected(IF s = "user" THEN "tenant" ELSE "user") THEN CountUnread(u, s) ELSE old[u]]

\* BatchReconcileUsers; nothing is set when the scan fails.
Recount(s, old) ==
    [u \in Users |-> IF u \in Affected(s) /\ ~ScanFails(Affected(s), s) THEN CountUnread(u, s) ELSE old[u]]

\* Mutant: a full batch ends the run.
LastBatchAlways(b) == TRUE

\* A short batch was the last one.
LastBatch(b) == Cardinality(b) < BatchSize

\* syncUnreadSnapshot: the two counters, and with ReconcileTenantBroadcastTotal
\* the broadcasts; then the next batch, if any.
SyncUnreadSnapshot ==
    /\ place = "sync"
    /\ personal' = Recount("user", personal)
    /\ tenant' = Recount("tenant", tenant)
    /\ total' = IF batch \cap Broadcasts = {} THEN total ELSE sent \cap Broadcasts
    /\ batch' = {}
    /\ IF LastBatch(batch) THEN Return ELSE place' = "list" /\ UNCHANGED complete
    /\ JobKeeps /\ UNCHANGED <<sent, rows, due, interrupts>>

\* A query or a deletion fails, the context is cancelled or the process ends.
Interrupt ==
    /\ place # "idle"
    /\ interrupts < MaxInterrupts
    /\ interrupts' = interrupts + 1
    /\ place' = "idle" /\ batch' = {}
    /\ JobKeeps /\ UNCHANGED <<sent, rows, personal, tenant, total, due, complete>>

JobStep == RunOnce \/ ListExpired \/ Delete \/ SyncUnreadSnapshot \/ Interrupt

CleanupNext ==
    \/ place = "idle" /\ Next /\ UNCHANGED jobVars
    \/ JobStep

CleanupSpec == CleanupInit /\ [][CleanupNext]_cleanupVars

-----------------------------------------------------------------------------
(* Properties *)

\* The order of the two deletions: a run that ends between them, by an error or
\* a crash, leaves no status row without its record, which no later run would
\* ever find.
NoOrphanRows == \A row \in rows : row.n \in sent

\* A run that returns without an error has removed everything that was due,
\* what an earlier, interrupted run left half done included, however many
\* batches that takes.
RunCompletes == place = "idle" /\ complete => \A n \in due : n \notin sent /\ \A row \in rows : row.n # n

\* Each run that is not interrupted leaves the counters of those who lost a
\* notification equal to the database, whatever they were before.
CleanupHeals ==
    [][place = "sync" /\ UNCHANGED interrupts /\ Users \subseteq NumericIDs =>
          /\ \A u \in Affected("user") : personal'[u] = CountUnread(u, "user")
          /\ \A u \in Affected("tenant") : tenant'[u] = CountUnread(u, "tenant")]_cleanupVars

Undisturbed == Quiescent /\ place = "idle" /\ losses = 0 /\ errors = 0 /\ interrupts = 0

\* constant/app.go, the broadcast part of the tenant formula: with operations
\* one at a time and no fault, the difference of the two Redis sets is exactly
\* the set of broadcasts that the inbox shows as unread, watermarks and removed
\* broadcasts included.
BroadcastUnreadExact ==
    Undisturbed => \A u \in Users : total \ op[u] = {n \in Broadcasts : InboxUnread(u, n)}

\* logic/sender.go:69: the latest count is what is pushed.  With operations one
\* at a time and no fault, the personal count that the user's clients show is
\* the one Redis holds, until a cleanup recounts without pushing.
ShownPersonalIsCached ==
    Undisturbed /\ due = {} => \A u \in Users : shown[u].personal = Get(personal[u])

\* What the inbox has ever shown as read, or not shown, does not become unread
\* again: neither a status row nor a watermark goes back.  Notifications that
\* are due are excepted: between the two deletions a read broadcast has no row.
ReadStaysRead ==
    [][\A u \in Users, n \in sent \ due : ~InboxUnread(u, n) => ~InboxUnread(u, n)']_cleanupVars
=============================================================================
