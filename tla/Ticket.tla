-------------------------------- MODULE Ticket --------------------------------
(***************************************************************************)
(* One-time tickets for SSE subscriptions (TicketService): ApplyTicket     *)
(* stores a key in Redis with a time to live, HubHandler.Subscribe calls   *)
(* VerifyTicket, which takes the key with GETDEL, and opens the stream.    *)
(* A client may present its ticket several times, at once or in a retry.   *)
(* The cipher is a name: a ticket decrypts to what it was made from.  The  *)
(* keys are in Redis and outlive the process.                              *)
(***************************************************************************)
EXTENDS Session

CONSTANTS
    Tickets,         \* tickets; encrypt draws a new nonce for each
    ExpireSeconds    \* ticket.expire_seconds

ASSUME TicketAssumption == ExpireSeconds \in Nat \ {0} /\ None \notin Tickets

VARIABLES
    applied,    \* of each ticket: "no", "made" (not stored yet), "given" or "failed"
    key,        \* when the Redis key of each ticket expires, or None
    stored,     \* when it was stored, or None
    told,       \* the expireTime that its response names
    taken,      \* tickets whose key a GETDEL may have removed
    uses        \* of each request: the ticket it applies for or presents

ticketVars == <<applied, key, stored, told, taken, uses>>

TicketInit ==
    /\ applied = [t \in Tickets |-> "no"]
    /\ key = [t \in Tickets |-> None]
    /\ stored = [t \in Tickets |-> None]
    /\ told = [t \in Tickets |-> None]
    /\ taken = {}
    /\ uses = [q \in Requests |-> None]

\* Redis expires keys by its clock, which is taken to be that of the service.
Tick ==
    /\ now < MaxTime
    /\ now' = now + 1
    /\ key' = [t \in Tickets |-> IF key[t] # None /\ now + 1 >= key[t] THEN None ELSE key[t]]
    /\ UNCHANGED <<storeVars, pc, sid, entry, late, applied, stored, told, taken, uses>>

\* ApplyTicket: the times of the response, encrypt, ...
ApplyTicket(q, t) ==
    /\ pc[q] = "apply"
    /\ applied[t] = "no"
    /\ applied' = [applied EXCEPT ![t] = "made"]
    /\ told' = [told EXCEPT ![t] = now + ExpireSeconds]
    /\ uses' = [uses EXCEPT ![q] = t]
    /\ Goto(q, "store")
    /\ UNCHANGED <<now, storeVars, sid, entry, late, key, stored, taken>>

\* SET with the time to live.
SetKey(t) ==
    /\ key' = [key EXCEPT ![t] = now + ExpireSeconds]
    /\ stored' = [stored EXCEPT ![t] = now]

\* Mutant: the key is set without its time to live.
StoreTicketForever(q) ==
    LET t == uses[q] IN
    /\ pc[q] = "store"
    /\ key' = [key EXCEPT ![t] = MaxTime + 1]
    /\ stored' = [stored EXCEPT ![t] = now]
    /\ applied' = [applied EXCEPT ![t] = "given"]
    /\ Goto(q, "stored")
    /\ UNCHANGED <<now, storeVars, sid, entry, late, told, taken, uses>>

\* Mutant: the key expires a second early, to be on the safe side.
StoreTicketShort(q) ==
    LET t == uses[q] IN
    /\ pc[q] = "store"
    /\ key' = [key EXCEPT ![t] = now + ExpireSeconds - 1]
    /\ stored' = [stored EXCEPT ![t] = now]
    /\ applied' = [applied EXCEPT ![t] = "given"]
    /\ Goto(q, "stored")
    /\ UNCHANGED <<now, storeVars, sid, entry, late, told, taken, uses>>

\* ... SET, and return the ticket, ...
StoreTicket(q) ==
    /\ pc[q] = "store"
    /\ SetKey(uses[q])
    /\ applied' = [applied EXCEPT ![uses[q]] = "given"]
    /\ Goto(q, "stored")
    /\ UNCHANGED <<now, storeVars, sid, entry, late, told, taken, uses>>

\* ... or fail: no ticket is returned, though SET may have taken place.
StoreFails(q) ==
    /\ pc[q] = "store"
    /\ SetKey(uses[q]) \/ UNCHANGED <<key, stored>>
    /\ applied' = [applied EXCEPT ![uses[q]] = "failed"]
    /\ Goto(q, "notStored")
    /\ UNCHANGED <<now, storeVars, sid, entry, late, told, taken, uses>>

\* Mutant: GET, and DEL only when the stream ends.
VerifyTicketGet(q) ==
    /\ pc[q] = "verify"
    /\ Goto(q, IF key[uses[q]] = None THEN "refused" ELSE "subscribed")
    /\ UNCHANGED <<now, storeVars, sid, entry, late, ticketVars>>

\* GETDEL, then decrypt; HubService.Subscribe follows.
VerifyTicket(q) ==
    /\ pc[q] = "verify"
    /\ Goto(q, IF key[uses[q]] = None THEN "refused" ELSE "subscribed")
    /\ key' = [key EXCEPT ![uses[q]] = None]
    /\ taken' = taken \cup {uses[q]}
    /\ UNCHANGED <<now, storeVars, sid, entry, late, applied, stored, told, uses>>

\* The reply of GETDEL is lost: the key may be gone, and the client is refused.
VerifyFails(q) ==
    /\ pc[q] = "verify"
    /\ \/ key' = [key EXCEPT ![uses[q]] = None] /\ taken' = taken \cup {uses[q]}
       \/ UNCHANGED <<key, taken>>
    /\ Goto(q, "refused")
    /\ UNCHANGED <<now, storeVars, sid, entry, late, applied, stored, told, uses>>

-----------------------------------------------------------------------------
(* Properties *)

\* service/ticket.go: GETDEL takes the ticket atomically, so of all attempts
\* with one ticket, concurrent ones and retries after a lost reply or a restart
\* included, at most one opens a stream.
SingleUse ==
    \A q, r \in Requests : pc[q] = "subscribed" /\ pc[r] = "subscribed" /\ uses[q] = uses[r] => q = r

\* A stream is opened only while the ticket's time to live runs.
OpenedInTime ==
    [][\A q \in Requests : pc[q] # "subscribed" /\ pc'[q] = "subscribed" =>
          stored[uses[q]] # None /\ now < stored[uses[q]] + ExpireSeconds]_<<sessionVars, ticketVars>>

\* Until the expireTime that the response named, a ticket that was handed out
\* and that no attempt has taken is good, though the response computes that
\* time before Redis starts its own.
UsableUntilTold ==
    \A t \in Tickets : applied[t] = "given" /\ t \notin taken /\ now < told[t] => key[t] # None
=============================================================================
