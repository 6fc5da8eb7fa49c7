----------------------------- MODULE MCConnPool -----------------------------
(* Instances of ConnPool for TLC. *)
EXTENDS ConnPool

CONSTANTS c1, c2, c3, t1, u1, u2, id1, id2, id3

\* One tenant; c1 and c2 are two devices of user u1, c3 belongs to u2.
MCTenantOf == [c \in Conns |-> t1]
MCUserOf == [c \in Conns |-> IF c = c3 THEN u2 ELSE u1]

\* Distinct connection ids: handler/hub.go draws a uuid per subscription.
MCDistinctIDs == [c \in Conns |-> CASE c = c1 -> id1 [] c = c2 -> id2 [] c = c3 -> id3]

\* The pool's own contract also covers a connection id that is used again.
MCSharedIDs == [c \in Conns |-> IF c = c3 THEN id3 ELSE id1]
=============================================================================
