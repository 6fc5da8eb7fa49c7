-------------------------- MODULE ConnPoolContract --------------------------
(***************************************************************************)
(* What the pool promises to the hub and to the dispatcher, without locks, *)
(* groups or a manager: a connection joins once and leaves at most once,   *)
(* and whoever is being written to cannot leave before the visit is over.  *)
(* ConnPool implements it (ConnPool!Contract).                             *)
(***************************************************************************)
CONSTANTS Conns, Key   \* Key[c]: the user and connection id of c

VARIABLES
    phase,    \* "new", "pooled" or "gone"
    visit     \* connections of the dispatcher's current visit still to be written

Init ==
    /\ phase = [c \in Conns |-> "new"]
    /\ visit = {}

\* A new connection joins; those of its key that it replaces leave.
Join(c) ==
    /\ phase[c] = "new"
    /\ \E old \in SUBSET {d \in Conns \ visit : phase[d] = "pooled" /\ Key[d] = Key[c]} :
          phase' = [d \in Conns |-> IF d = c THEN "pooled"
                                    ELSE IF d \in old THEN "gone" ELSE phase[d]]
    /\ UNCHANGED visit

Leave(c) ==
    /\ phase[c] = "pooled"
    /\ c \notin visit
    /\ phase' = [phase EXCEPT ![c] = "gone"]
    /\ UNCHANGED visit

\* A visit addresses connections that are in the pool.
StartVisit ==
    /\ visit = {}
    /\ visit' \in SUBSET {c \in Conns : phase[c] = "pooled"}
    /\ UNCHANGED phase

Deliver(c) ==
    /\ c \in visit
    /\ phase[c] = "pooled"
    /\ visit' = visit \ {c}
    /\ UNCHANGED phase

Next ==
    \/ \E c \in Conns : Join(c) \/ Leave(c) \/ Deliver(c)
    \/ StartVisit

Spec == Init /\ [][Next]_<<phase, visit>>
=============================================================================
