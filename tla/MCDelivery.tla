----------------------------- MODULE MCDelivery -----------------------------
(* Instances of Delivery for TLC. *)
EXTENDS Delivery

CONSTANTS c1, c2, c3, n1, n2, u1, u2, a, b

\* Everything in one process, or spread over two.
MCOneNode == [p \in Conns \cup Notifies |-> a]
MCTwoNodes == [p \in Conns \cup Notifies |-> IF p \in {c2, c3} THEN b ELSE a]

\* One tenant, or the third connection in a tenant of its own.
MCOneTenant == [p \in Conns \cup Notifies |-> "t1"]
MCTwoTenants == [p \in Conns \cup Notifies |-> IF p = c3 THEN "t2" ELSE "t1"]

\* The first user has the connections c1 and c3, the second user c2.
MCUsers == [c \in Conns |-> IF c = c2 THEN u2 ELSE u1]

\* A broadcast and a notification to one user, or to both.
MCBroadcastAndOne == [n \in Notifies |-> IF n = n1 THEN <<>> ELSE <<u1>>]
MCToBoth == [n \in Notifies |-> IF n = n1 THEN <<>> ELSE <<u1, u2>>]
=============================================================================
