------------------------------ MODULE MCExpiry ------------------------------
(* Instance of Expiry for TLC. *)
EXTENDS Expiry

CONSTANTS n1, n2

MCSenders == [n \in Notifies |-> IF n = n1 THEN "user" ELSE "tenant"]
=============================================================================
