------------------------------- MODULE RWMutex -------------------------------
(***************************************************************************)
(* sync.RWMutex as pkg/pool uses it.  A lock is a record: w holds the      *)
(* writer that has called Lock (at most one: the others queue behind it),  *)
(* r the readers inside.  As in Go, a writer that waits for the readers    *)
(* to drain already keeps new readers out, so Lock takes two steps:        *)
(* Announce, and then the critical section once Granted.                   *)
(***************************************************************************)
Unlocked == [w |-> {}, r |-> {}]

CanRLock(l) == l.w = {}

RLock(l, t) == [l EXCEPT !.r = @ \cup {t}]

RUnlock(l, t) == [l EXCEPT !.r = @ \ {t}]

CanAnnounce(l) == l.w = {}

Announce(l, t) == [l EXCEPT !.w = {t}]

Granted(l, t) == l.w = {t} /\ l.r = {}

Unlock(l) == [l EXCEPT !.w = {}]
=============================================================================
