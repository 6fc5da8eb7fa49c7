------------------------------ MODULE ConnPool ------------------------------
(***************************************************************************)
(* The SSE connection pool (pkg/pool) at the level of its locks, together  *)
(* with the goroutines that use it:                                        *)
(*   - one subscriber goroutine per connection (HubService.Subscribe):     *)
(*     Manager.Register, the event loop, the deferred Manager.Unregister;  *)
(*   - the dispatcher goroutine (Dispatcher.run): RangeUser or RangeGroup, *)
(*     writing into every connection it visits;                            *)
(*   - observers: the goroutines that call GetOnlineUserIDs, Count,        *)
(*     UserCount, GroupCount or GroupStats.                                *)
(* A critical section is one step; taking a write lock is two (RWMutex).   *)
(* Group objects are heap objects with an identity of their own: Register  *)
(* and Unregister keep a *Group in a local variable after globalMu is      *)
(* released, and the map may have moved on.  A subscriber allocates at     *)
(* most one Group, which is named after it.                                *)
(***************************************************************************)
EXTENDS RWMutex

CONSTANTS
    Conns,       \* connections, each with its subscriber goroutine
    Tenants,     \* group names: a group is a tenant
    Users,
    Observers,   \* goroutines that read statistics or online user ids
    Dispatcher,  \* the dispatcher goroutine
    Nil,         \* the nil *Group
    TenantOf, UserOf, ConnIDOf  \* the arguments of each Subscribe call

ASSUME TenantOfAssumption == TenantOf \in [Conns -> Tenants]
ASSUME UserOfAssumption == UserOf \in [Conns -> Users]
ASSUME NilAssumption == Nil \notin Conns
ASSUME ThreadsAssumption ==
    /\ Dispatcher \notin Conns \cup Observers
    /\ Conns \cap Observers = {}

Threads == Conns \cup Observers \cup {Dispatcher}

VARIABLES
    groups,    \* Manager.groups: tenant -> group object or Nil
    globalMu,  \* Manager.globalMu
    users,     \* Group.users of each group object, as the set of its conns
    mu,        \* Group.mu of each group object
    chan,      \* MessageChan of each connection
    pc, ref,   \* per subscriber: where it is, and its local variable g
    dpc, dref, dwho, todo,  \* dispatcher: place, g, addressed users, unvisited
    walk       \* per observer: the groups it has still to read

vars == <<groups, globalMu, users, mu, chan, pc, ref, dpc, dref, dwho, todo, walk>>

connVars == <<pc, ref>>
dispVars == <<dpc, dref, dwho, todo>>

\* NewManager: an empty map; nobody is connected yet.
Init ==
    /\ groups = [t \in Tenants |-> Nil]
    /\ globalMu = Unlocked
    /\ users = [g \in Conns |-> {}]
    /\ mu = [g \in Conns |-> Unlocked]
    /\ chan = [c \in Conns |-> "none"]
    /\ pc = [c \in Conns |-> "new"]
    /\ ref = [c \in Conns |-> Nil]
    /\ dpc = "idle"
    /\ dref = Nil
    /\ dwho = {}
    /\ todo = {}
    /\ walk = [o \in Observers |-> {}]

-----------------------------------------------------------------------------
(* Helpers *)

\* The entry g.users[userID][connID] for c's user and connection id, as a set.
Lookup(g, c) == {d \in users[g] : UserOf[d] = UserOf[c] /\ ConnIDOf[d] = ConnIDOf[c]}

\* conn.Close() of every connection in S: the channel is closed once.
Close(S) == chan' = [c \in Conns |-> IF c \in S THEN "closed" ELSE chan[c]]

Goto(c, place) == pc' = [pc EXCEPT ![c] = place]

LockGlobal(c) ==
    /\ CanAnnounce(globalMu)
    /\ globalMu' = Announce(globalMu, c)

LockGroup(c, g) ==
    /\ CanAnnounce(mu[g])
    /\ mu' = [mu EXCEPT ![g] = Announce(@, c)]

\* Mutant: a return without Unlock.
UnlockGroupNever(g) == UNCHANGED mu

UnlockGroup(g) == mu' = [mu EXCEPT ![g] = Unlock(@)]

-----------------------------------------------------------------------------
(* Subscriber: Manager.Register *)

\* HubService.Register makes the channel; getOrCreateGroup calls globalMu.Lock.
Subscribe(c) ==
    /\ pc[c] = "new"
    /\ LockGlobal(c)
    /\ chan' = [chan EXCEPT ![c] = "open"]
    /\ Goto(c, "create")
    /\ UNCHANGED <<groups, users, mu, ref, dispVars, walk>>

\* getOrCreateGroup under globalMu, which is released on return.
GetOrCreateGroup(c) ==
    LET t == TenantOf[c]
        g == IF groups[t] = Nil THEN c ELSE groups[t]
    IN  /\ pc[c] = "create"
        /\ Granted(globalMu, c)
        /\ groups' = [groups EXCEPT ![t] = g]
        /\ ref' = [ref EXCEPT ![c] = g]
        /\ globalMu' = Unlock(globalMu)
        /\ Goto(c, "join")
        /\ UNCHANGED <<users, mu, chan, dispVars, walk>>

JoinLock(c) ==
    /\ pc[c] = "join"
    /\ LockGroup(c, ref[c])
    /\ Goto(c, "joining")
    /\ UNCHANGED <<groups, globalMu, users, chan, ref, dispVars, walk>>

\* Group.Register: a connection with the same key is closed and replaced.
GroupRegister(c) ==
    LET g == ref[c]
        old == Lookup(g, c)
    IN  /\ pc[c] = "joining"
        /\ Granted(mu[g], c)
        /\ Close(old)
        /\ users' = [users EXCEPT ![g] = (@ \ old) \cup {c}]
        /\ UnlockGroup(g)
        /\ Goto(c, "loop")
        /\ UNCHANGED <<groups, globalMu, ref, dispVars, walk>>

-----------------------------------------------------------------------------
(* Subscriber: the event loop of HubService.Subscribe and how it ends *)

\* ctx.Done(), or WriteEvent of a message or a heartbeat fails.
ClientGone(c) ==
    /\ pc[c] = "loop"
    /\ Goto(c, "leave")
    /\ UNCHANGED <<groups, globalMu, users, mu, chan, ref, dispVars, walk>>

\* The receive from MessageChan returns ok = false.
ChannelClosed(c) ==
    /\ pc[c] = "loop"
    /\ chan[c] = "closed"
    /\ Goto(c, "leave")
    /\ UNCHANGED <<groups, globalMu, users, mu, chan, ref, dispVars, walk>>

-----------------------------------------------------------------------------
(* Subscriber: Manager.Unregister *)

\* getGroup: the read section is one step.
GetGroup(c) ==
    LET g == groups[TenantOf[c]]
    IN  /\ pc[c] = "leave"
        /\ CanRLock(globalMu)
        /\ ref' = [ref EXCEPT ![c] = g]
        /\ Goto(c, IF g = Nil THEN "done" ELSE "exit")
        /\ UNCHANGED <<groups, globalMu, users, mu, chan, dispVars, walk>>

ExitLock(c) ==
    /\ pc[c] = "exit"
    /\ LockGroup(c, ref[c])
    /\ Goto(c, "exiting")
    /\ UNCHANGED <<groups, globalMu, users, chan, ref, dispVars, walk>>

\* Mutants: exactConn is not compared; emptiness is computed before the delete.
UnregisteredAnyConn(g, c) == Lookup(g, c)
EmptyBefore(g, out) == users[g] = {}

\* What Group.Unregister(userID, connID, exactConn = c) removes from g: nothing,
\* or c itself; and what it returns.
Unregistered(g, c) == Lookup(g, c) \cap {c}

EmptyAfter(g, out) == users[g] \ out = {}

GroupUnregister(c) ==
    LET g == ref[c]
        out == Unregistered(g, c)
    IN  /\ pc[c] = "exiting"
        /\ Granted(mu[g], c)
        /\ Close(out)
        /\ users' = [users EXCEPT ![g] = @ \ out]
        /\ UnlockGroup(g)
        /\ Goto(c, IF EmptyAfter(g, out) THEN "reap" ELSE "done")
        /\ UNCHANGED <<groups, globalMu, ref, dispVars, walk>>

ReapLock(c) ==
    /\ pc[c] = "reap"
    /\ LockGlobal(c)
    /\ Goto(c, "reaping")
    /\ UNCHANGED <<groups, users, mu, chan, ref, dispVars, walk>>

\* Under globalMu: current.IsEmpty() takes and releases the group's read lock.
ReapCheck(c) ==
    LET g == groups[TenantOf[c]]
        reap == g # Nil /\ users[g] = {}
    IN  /\ pc[c] = "reaping"
        /\ Granted(globalMu, c)
        /\ g # Nil => CanRLock(mu[g])
        /\ globalMu' = IF reap THEN globalMu ELSE Unlock(globalMu)
        /\ Goto(c, IF reap THEN "delete" ELSE "done")
        /\ UNCHANGED <<groups, users, mu, chan, ref, dispVars, walk>>

\* delete(m.groups, groupName), still under globalMu but under no group lock.
ReapDelete(c) ==
    /\ pc[c] = "delete"
    /\ groups' = [groups EXCEPT ![TenantOf[c]] = Nil]
    /\ globalMu' = Unlock(globalMu)
    /\ Goto(c, "done")
    /\ UNCHANGED <<users, mu, chan, ref, dispVars, walk>>

-----------------------------------------------------------------------------
(* Dispatcher: Manager.RangeUser (one addressed user) and Manager.RangeGroup *)

\* getGroup of either; a nil group ends the call at once.
RangeGet(t, who) ==
    /\ dpc = "idle"
    /\ CanRLock(globalMu)
    /\ groups[t] # Nil
    /\ dref' = groups[t]
    /\ dwho' = who
    /\ dpc' = "ready"
    /\ UNCHANGED <<groups, globalMu, users, mu, chan, connVars, todo, walk>>

\* Mutant: the connections are copied and written to outside the lock.
RangeLockCopy ==
    /\ dpc = "ready"
    /\ CanRLock(mu[dref])
    /\ todo' = {c \in users[dref] : UserOf[c] \in dwho}
    /\ dpc' = "range"
    /\ UNCHANGED <<groups, globalMu, users, mu, chan, connVars, dref, dwho, walk>>

\* RLock; the visit covers the addressed users who are connected.
RangeLock ==
    /\ dpc = "ready"
    /\ CanRLock(mu[dref])
    /\ mu' = [mu EXCEPT ![dref] = RLock(@, Dispatcher)]
    /\ todo' = {c \in users[dref] : UserOf[c] \in dwho}
    /\ dpc' = "range"
    /\ UNCHANGED <<groups, globalMu, users, chan, connVars, dref, dwho, walk>>

\* conn.Write: a non-blocking send, which panics when the channel is closed;
\* nothing on the dispatcher's stack recovers.
Write(c) ==
    /\ dpc = "range"
    /\ c \in todo
    /\ todo' = todo \ {c}
    /\ dpc' = IF chan[c] = "closed" THEN "panic" ELSE dpc
    /\ UNCHANGED <<groups, globalMu, users, mu, chan, connVars, dref, dwho, walk>>

\* Mutant: a return without RUnlock.
RangeUnlockLeak ==
    /\ dpc = "range"
    /\ todo = {}
    /\ dpc' = "idle"
    /\ UNCHANGED <<groups, globalMu, users, mu, chan, connVars, dref, dwho, todo, walk>>

\* The deferred RUnlock, once everybody has been visited.
RangeUnlock ==
    /\ dpc = "range"
    /\ todo = {}
    /\ mu' = [mu EXCEPT ![dref] = RUnlock(@, Dispatcher)]
    /\ dpc' = "idle"
    /\ UNCHANGED <<groups, globalMu, users, chan, connVars, dref, dwho, todo, walk>>

-----------------------------------------------------------------------------
(* Observers: globalMu.RLock around a visit of the groups' read locks *)

\* Mutant: GetOnlineUserIDs without its nil check.
ObserveStartNoNilCheck(o) ==
    /\ o \notin globalMu.r
    /\ CanRLock(globalMu)
    /\ globalMu' = RLock(globalMu, o)
    /\ \E ts \in {Tenants, {}} \cup {{t} : t \in Tenants} :
          walk' = [walk EXCEPT ![o] = {groups[t] : t \in ts}]
    /\ UNCHANGED <<groups, users, mu, chan, connVars, dispVars>>

\* Count, UserCount and GroupStats visit every group, GetOnlineUserIDs one
\* tenant's, GroupCount none.
ObserveStart(o) ==
    /\ o \notin globalMu.r
    /\ CanRLock(globalMu)
    /\ globalMu' = RLock(globalMu, o)
    /\ \E ts \in {Tenants, {}} \cup {{t} : t \in Tenants} :
          walk' = [walk EXCEPT ![o] = {groups[t] : t \in ts} \ {Nil}]
    /\ UNCHANGED <<groups, users, mu, chan, connVars, dispVars>>

ObserveGroup(o) ==
    /\ \E g \in walk[o] :
          /\ CanRLock(mu[g])
          /\ walk' = [walk EXCEPT ![o] = @ \ {g}]
    /\ UNCHANGED <<groups, globalMu, users, mu, chan, connVars, dispVars>>

ObserveEnd(o) ==
    /\ o \in globalMu.r
    /\ walk[o] = {}
    /\ globalMu' = RUnlock(globalMu, o)
    /\ UNCHANGED <<groups, users, mu, chan, connVars, dispVars, walk>>

-----------------------------------------------------------------------------
\* What the goroutine of c does by itself once it has been started.
SubscriberStep(c) ==
    \/ GetOrCreateGroup(c) \/ JoinLock(c) \/ GroupRegister(c)
    \/ ChannelClosed(c)
    \/ GetGroup(c) \/ ExitLock(c) \/ GroupUnregister(c)
    \/ ReapLock(c) \/ ReapCheck(c) \/ ReapDelete(c)

DispatcherStep == RangeLock \/ (\E c \in Conns : Write(c)) \/ RangeUnlock

ObserverStep(o) == ObserveGroup(o) \/ ObserveEnd(o)

\* Clients that connect or go away, messages and statistics requests.
Environment ==
    \/ \E c \in Conns : Subscribe(c) \/ ClientGone(c)
    \/ \E t \in Tenants : \E who \in {{u} : u \in Users} \cup {Users} : RangeGet(t, who)
    \/ \E o \in Observers : ObserveStart(o)

Next ==
    \/ Environment
    \/ \E c \in Conns : SubscriberStep(c)
    \/ DispatcherStep
    \/ \E o \in Observers : ObserverStep(o)

Spec == Init /\ [][Next]_vars

\* The Go scheduler runs every runnable goroutine, and a writer that has
\* announced itself keeps new readers out.  Nothing is assumed of clients.
Fairness ==
    /\ \A c \in Conns : WF_vars(SubscriberStep(c))
    /\ WF_vars(DispatcherStep)
    /\ \A o \in Observers : WF_vars(ObserverStep(o))

FairSpec == Spec /\ Fairness

-----------------------------------------------------------------------------
(* Properties *)

\* Type correctness.
TypeOK ==
    /\ groups \in [Tenants -> Conns \cup {Nil}]
    /\ globalMu \in [w : SUBSET Threads, r : SUBSET Threads]
    /\ users \in [Conns -> SUBSET Conns]
    /\ mu \in [Conns -> [w : SUBSET Threads, r : SUBSET Threads]]
    /\ chan \in [Conns -> {"none", "open", "closed"}]
    /\ pc \in [Conns -> {"new", "create", "join", "joining", "loop", "leave",
                         "exit", "exiting", "reap", "reaping", "delete", "done"}]
    /\ ref \in [Conns -> Conns \cup {Nil}]
    /\ dpc \in {"idle", "ready", "range", "panic"}
    /\ dref \in Conns \cup {Nil}
    /\ dwho \in SUBSET Users
    /\ todo \in SUBSET Conns
    /\ walk \in [Observers -> SUBSET Conns]

Pooled(c) == \E g \in Conns : c \in users[g]

\* The dispatcher never sends on a closed MessageChan: Close runs under the
\* group's write lock and Write under its read lock.  A panic there would end
\* the process.
NoSendOnClosed == dpc # "panic"

\* A connection leaves the pool only through its own deferred Unregister, or
\* because a later Register with its user and connection id replaces it: the
\* late Unregister of a replaced connection must spare its successor.
LeavesByOwnHand ==
    [][\A c \in Conns :
          Pooled(c) /\ ~Pooled(c)' =>
              \/ pc[c] = "exiting" /\ pc'[c] # "exiting"
              \/ \E d \in Conns \ {c} :
                    /\ UserOf[d] = UserOf[c] /\ ConnIDOf[d] = ConnIDOf[c]
                    /\ pc[d] = "joining" /\ Pooled(d)']_vars

\* Manager.Unregister reclaims groups: once no subscriber is connected the map
\* is empty, whatever the interleaving of the last ones to leave.
ReclaimedAtRest ==
    (\A c \in Conns : pc[c] \in {"new", "done"}) => \A t \in Tenants : groups[t] = Nil

\* Every subscriber whose loop has ended finishes its Unregister: no cycle of
\* waits through globalMu and the group locks.
EndedLeaves == \A c \in Conns : (pc[c] = "leave") ~> (pc[c] = "done")

\* Every visit of the dispatcher ends, so one slow tenant never stops delivery.
VisitEnds == (dpc = "ready") ~> (dpc = "idle")

\* The strengthening that makes NoSendOnClosed inductive.
Fresh(c) == pc[c] \in {"new", "create", "join", "joining"}

\* Who is inside a critical section or a visit holds the lock.
LocksHeld ==
    /\ \A c \in Conns : pc[c] \in {"join", "joining", "exit", "exiting"} => ref[c] \in Conns
    /\ dpc \in {"ready", "range"} => dref \in Conns
    /\ dpc = "range" => Dispatcher \in mu[dref].r /\ todo \subseteq users[dref]
    /\ dpc # "range" => todo = {}

\* A connection is in at most one group object, orphaned ones included, and in
\* none before its Register; a pooled connection's channel is open.
PooledOnce ==
    /\ \A c \in Conns : Fresh(c) => ~Pooled(c) /\ chan[c] # "closed"
    /\ \A c \in Conns : pc[c] # "new" => chan[c] # "none"
    /\ \A g, h \in Conns : \A c \in users[g] : c \in users[h] => g = h
    /\ \A g \in Conns : \A c \in users[g] : chan[c] = "open"

PoolInv == TypeOK /\ LocksHeld /\ PooledOnce /\ NoSendOnClosed

\* hub.go: Register adds the connection to the pool, so while its subscriber
\* is in the event loop with an open channel the dispatcher can reach it
\* through the manager.
RegisteredIsReachable ==
    \A c \in Conns :
        pc[c] = "loop" /\ chan[c] = "open" =>
            LET g == groups[TenantOf[c]] IN g # Nil /\ c \in users[g]

-----------------------------------------------------------------------------
(* Refinement *)

\* Where a connection is in its life, as the contract sees it.
Phase(c) ==
    IF pc[c] \in {"new", "create", "join", "joining"} THEN "new"
    ELSE IF Pooled(c) THEN "pooled" ELSE "gone"

Abs == INSTANCE ConnPoolContract WITH
    Key <- [c \in Conns |-> <<UserOf[c], ConnIDOf[c]>>],
    phase <- [c \in Conns |-> Phase(c)],
    visit <- todo

\* The locks of Manager and Group implement the contract of ConnPoolContract:
\* a connection joins once, leaves at most once, is closed only by itself or by
\* a replacement, and never while the dispatcher is about to write to it.
Contract == Abs!Spec
=============================================================================
