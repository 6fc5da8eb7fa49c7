------------------------------ MODULE MCCleanup ------------------------------
(* Instance of Cleanup, with the sends and operations of Unread, for TLC. *)
EXTENDS Cleanup

CONSTANTS n1, n2, n3, u1

\* n1 comes from a user, the others from the tenant.
MCMixed == [n \in Notifies |-> IF n = n1 THEN "user" ELSE "tenant"]

\* n2 is a broadcast, the others are for u1.
MCTargets == [n \in Notifies |-> IF n = n2 THEN {} ELSE {u1}]
=============================================================================
