-------------------------------- MODULE Expiry --------------------------------
(***************************************************************************)
(* The life time of notifications: transmit resolves a TTL, tells the      *)
(* sender when the notification expires and stores the record; the daily   *)
(* NotifyCleanupService deletes the records (and the status rows) whose    *)
(* expire_at has passed.  RunOnce is one step: it works with one time and  *)
(* goes on in batches until nothing expired by then is left.  The status   *)
(* rows and the counters it also updates have no part in the property.     *)
(***************************************************************************)
EXTENDS Naturals

CONSTANTS
    Notifies,
    SenderOf,            \* [Notifies -> {"user", "tenant"}]
    UserTTL, TenantTTL,  \* the configured defaults, in units of time; 0 for none
    MaxTTL,              \* bound on the TTLs that are asked for
    MaxTime,             \* bound on time
    Never, Unset         \* a nil *time.Time; a nil TTLSeconds

VARIABLES
    now,
    records,    \* expire_at of the stored records
    told,       \* SendResult.ExpireTime of each notification that was sent
    lastRun     \* the time of the last RunOnce

vars == <<now, records, told, lastRun>>

Init ==
    /\ now = 1
    /\ records = << >>
    /\ told = << >>
    /\ lastRun = 0

resolveTTLSeconds(n, ttl) ==
    IF ttl # Unset THEN ttl ELSE IF SenderOf[n] = "user" THEN UserTTL ELSE TenantTTL

resolveExpireTime(ttl) == IF ttl = 0 THEN Never ELSE now + ttl

\* transmit: the record is stored with expireAt, which is never assigned.
Transmit(n, ttl) ==
    /\ n \notin DOMAIN told
    /\ records' = [m \in DOMAIN records \cup {n} |-> IF m = n THEN Never ELSE records[m]]
    /\ told' = [m \in DOMAIN told \cup {n} |->
                   IF m = n THEN resolveExpireTime(resolveTTLSeconds(n, ttl)) ELSE told[m]]
    /\ UNCHANGED <<now, lastRun>>

\* ListExpiredNotifyInfos: expire_at IS NOT NULL AND expire_at <= now.
ExpiredRecords == {n \in DOMAIN records : records[n] # Never /\ records[n] <= now}

RunOnce ==
    /\ records' = [n \in DOMAIN records \ ExpiredRecords |-> records[n]]
    /\ lastRun' = now
    /\ UNCHANGED <<now, told>>

Tick ==
    /\ now < MaxTime
    /\ now' = now + 1
    /\ UNCHANGED <<records, told, lastRun>>

Next ==
    \/ \E n \in Notifies : \E ttl \in 0..MaxTTL \cup {Unset} : Transmit(n, ttl)
    \/ RunOnce
    \/ Tick

Spec == Init /\ [][Next]_vars

-----------------------------------------------------------------------------
\* model/record.go: after its expiry, which the sender was told, a notification
\* is removed by the next cleanup.
RemovedAfterExpiry ==
    \A n \in DOMAIN told : told[n] # Never /\ told[n] <= lastRun => n \notin DOMAIN records
=============================================================================
