------------------------------- MODULE Session -------------------------------
(***************************************************************************)
(* The in-memory session store of the console (pkg/session): Login creates *)
(* a session, requests look up the session of their cookie, Logout deletes *)
(* it, and a goroutine sweeps what has expired.  Get reads the entry under *)
(* the lock and the clock after it; sweep reads the clock before it locks. *)
(* Gateway composes the store with the requests that use it.               *)
(***************************************************************************)
EXTENDS Naturals

CONSTANTS
    Sessions,   \* session ids, each generated at most once
    Requests,   \* requests to the servers
    TTL,        \* Store.ttl, set once by InitTTL before the server starts
    MaxTime,    \* bound on time.Now()
    None        \* no entry, no session, no time

ASSUME SessionAssumption == TTL \in Nat \ {0} /\ MaxTime \in Nat /\ None \notin Nat \cup Sessions

VARIABLES
    now,       \* time.Now()
    data,      \* Store.data: createdAt of each session, or None
    born,      \* createdAt of each session that was ever created
    ended,     \* sessions that a Logout, or the end of the process, has removed
    pc, sid,   \* of each request: place, and the session of its cookie or None
    entry,     \* the entry it has read
    late,      \* requests that began after their session had ended
    sweepAt    \* the time the sweeper has read, or None

storeVars == <<data, born, ended, sweepAt>>
sessionVars == <<now, storeVars, pc, sid, entry, late>>

SessionInit ==
    /\ now = 0
    /\ data = [s \in Sessions |-> None]
    /\ born = [s \in Sessions |-> None]
    /\ ended = {}
    /\ pc = [q \in Requests |-> "idle"]
    /\ sid = [q \in Requests |-> None]
    /\ entry = [q \in Requests |-> None]
    /\ late = {}
    /\ sweepAt = None

Expired(created, time) == time >= created + TTL

Goto(q, place) == pc' = [pc EXCEPT ![q] = place]

-----------------------------------------------------------------------------
Create(s) ==
    /\ born[s] = None
    /\ data' = [data EXCEPT ![s] = now]
    /\ born' = [born EXCEPT ![s] = now]
    /\ UNCHANGED <<ended, sweepAt>>

\* Mutant: only the cookie is cleared.
DeleteNothing(s) ==
    /\ born[s] # None
    /\ ended' = ended \cup {s}
    /\ UNCHANGED <<data, born, sweepAt>>

Delete(s) ==
    /\ born[s] # None
    /\ data' = [data EXCEPT ![s] = None]
    /\ ended' = ended \cup {s}
    /\ UNCHANGED <<born, sweepAt>>

\* The process ends, and the store with it.
Vanish ==
    /\ data' = [s \in Sessions |-> None]
    /\ ended' = ended \cup {s \in Sessions : born[s] # None}
    /\ sweepAt' = None
    /\ UNCHANGED born

\* Get: the entry, under RLock; a missing one, or no cookie, ends it.
GetRead(q) ==
    LET e == IF sid[q] = None THEN None ELSE data[sid[q]] IN
    /\ pc[q] = "read"
    /\ entry' = [entry EXCEPT ![q] = e]
    /\ Goto(q, IF e = None THEN "refused" ELSE "check")
    /\ UNCHANGED <<now, storeVars, sid, late>>

\* Mutant: a session of exactly TTL is still valid.
GetCheckOffByOne(q) ==
    /\ pc[q] = "check"
    /\ Goto(q, IF now > entry[q] + TTL THEN "refused" ELSE "accepted")
    /\ UNCHANGED <<now, storeVars, sid, entry, late>>

\* Get: time.Since, after RUnlock.
GetCheck(q) ==
    /\ pc[q] = "check"
    /\ Goto(q, IF Expired(entry[q], now) THEN "refused" ELSE "accepted")
    /\ UNCHANGED <<now, storeVars, sid, entry, late>>

\* The ticker of runGC fires: now, ...
SweepStart ==
    /\ sweepAt = None
    /\ sweepAt' = now
    /\ UNCHANGED <<data, born, ended>>

\* Mutant: sessions are removed by their age when the next sweep is due.
SweepEarly ==
    /\ sweepAt # None
    /\ data' = [s \in Sessions |-> IF data[s] # None /\ Expired(data[s], sweepAt + 1) THEN None ELSE data[s]]
    /\ sweepAt' = None
    /\ UNCHANGED <<born, ended>>

\* ... then, under Lock, everything that had expired by then.
Sweep ==
    /\ sweepAt # None
    /\ data' = [s \in Sessions |-> IF data[s] # None /\ Expired(data[s], sweepAt) THEN None ELSE data[s]]
    /\ sweepAt' = None
    /\ UNCHANGED <<born, ended>>

-----------------------------------------------------------------------------
(* Properties *)

\* A request that begins after the Logout of its session, or after a restart of
\* the process, does not get in by that session, whatever the sweeper and other
\* requests do meanwhile.
NoUseAfterLogout == \A q \in late : pc[q] # "accepted"

\* No request is accepted once its session has reached its TTL, also when the
\* clock moves on, or the sweeper runs, between the two halves of Get.
NeverPastTTL ==
    [][\A q \in Requests : pc[q] # "accepted" /\ pc'[q] = "accepted" => now < born[sid[q]] + TTL]_sessionVars

\* The sweeper, which works with a time it read before it had the lock, removes
\* no session that a request could still use: a session in use ends only by its
\* Logout, its TTL or the end of the process.
LiveKept ==
    \A s \in Sessions : born[s] # None /\ s \notin ended /\ now < born[s] + TTL => data[s] = born[s]
=============================================================================
