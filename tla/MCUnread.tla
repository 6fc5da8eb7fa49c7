------------------------------ MODULE MCUnread ------------------------------
(* Instances of Unread for TLC. *)
EXTENDS Unread, TLC

CONSTANTS n1, n2, n3, u1, u2

\* Senders: users only, the tenant only, or n1 by a user and the rest by the tenant.
MCUser == [n \in Notifies |-> "user"]
MCTenant == [n \in Notifies |-> "tenant"]
MCMixed == [n \in Notifies |-> IF n = n1 THEN "user" ELSE "tenant"]

\* Targets: every user, nobody (broadcasts), or u1 for n1 and broadcasts.
MCToAll == [n \in Notifies |-> Users]
MCToNone == [n \in Notifies |-> {}]
MCToU1 == [n \in Notifies |-> IF n = n1 THEN {u1} ELSE {}]

\* Broadcasts of one sender differ in nothing; with one request no notification
\* has two status rows of a user, so that no CHOOSE picks between them.
MCSymmetry == Permutations(Broadcasts)
=============================================================================
