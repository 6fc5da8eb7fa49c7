--------------------------- MODULE ConnPoolProofs ---------------------------
(***************************************************************************)
(* Proofs about ConnPool for any set of connections, tenants, users and    *)
(* observers and any assignment of connection ids.                         *)
(***************************************************************************)
EXTENDS ConnPool, TLAPS

USE DEF Goto, LockGlobal, LockGroup, UnlockGroup, Unlocked, CanRLock, RLock,
        RUnlock, CanAnnounce, Announce, Granted, Unlock, connVars, dispVars

\* The manager starts empty, with every variable in its type.
LEMMA TypeInit == Init => TypeOK
BY DEF Init, TypeOK, Threads

\* Every step of a subscriber, the dispatcher or an observer keeps the types;
\* LocksHeld is needed because a group reference in use must not be Nil.
LEMMA TypeStep == TypeOK /\ LocksHeld /\ [Next]_vars => TypeOK'
<1> SUFFICES ASSUME TypeOK, LocksHeld, [Next]_vars PROVE TypeOK'
    OBVIOUS
<1> USE TenantOfAssumption, UserOfAssumption DEF TypeOK, Threads
<1>1. ASSUME NEW c \in Conns, Subscribe(c) PROVE TypeOK'
    BY <1>1 DEF Subscribe
<1>2. ASSUME NEW c \in Conns, GetOrCreateGroup(c) PROVE TypeOK'
    BY <1>2 DEF GetOrCreateGroup
<1>3. ASSUME NEW c \in Conns, JoinLock(c) PROVE TypeOK'
    BY <1>3 DEF JoinLock, LocksHeld
<1>4. ASSUME NEW c \in Conns, GroupRegister(c) PROVE TypeOK'
    BY <1>4 DEF GroupRegister, Close, Lookup, LocksHeld
<1>5. ASSUME NEW c \in Conns, ClientGone(c) \/ ChannelClosed(c) PROVE TypeOK'
    BY <1>5 DEF ClientGone, ChannelClosed
<1>6. ASSUME NEW c \in Conns, GetGroup(c) PROVE TypeOK'
    BY <1>6 DEF GetGroup
<1>7. ASSUME NEW c \in Conns, ExitLock(c) PROVE TypeOK'
    BY <1>7 DEF ExitLock, LocksHeld
<1>8. ASSUME NEW c \in Conns, GroupUnregister(c) PROVE TypeOK'
    BY <1>8 DEF GroupUnregister, Close, Unregistered, Lookup, EmptyAfter, LocksHeld
<1>9. ASSUME NEW c \in Conns, ReapLock(c) PROVE TypeOK'
    BY <1>9 DEF ReapLock
<1>10. ASSUME NEW c \in Conns, ReapCheck(c) PROVE TypeOK'
    BY <1>10 DEF ReapCheck
<1>11. ASSUME NEW c \in Conns, ReapDelete(c) PROVE TypeOK'
    BY <1>11 DEF ReapDelete
<1>12. ASSUME NEW t \in Tenants, NEW who \in {{u} : u \in Users} \cup {Users}, RangeGet(t, who)
       PROVE  TypeOK'
    BY <1>12 DEF RangeGet
<1>13. CASE RangeLock
    BY <1>13 DEF RangeLock, LocksHeld
<1>14. ASSUME NEW c \in Conns, Write(c) PROVE TypeOK'
    BY <1>14 DEF Write
<1>15. CASE RangeUnlock
    BY <1>15 DEF RangeUnlock, LocksHeld
<1>16. ASSUME NEW o \in Observers, ObserveStart(o) PROVE TypeOK'
  <2> PICK ts \in {Tenants, {}} \cup {{t} : t \in Tenants} :
             walk' = [walk EXCEPT ![o] = {groups[t] : t \in ts} \ {Nil}]
      BY <1>16 DEF ObserveStart
  <2>1. {groups[t] : t \in ts} \ {Nil} \in SUBSET Conns
      OBVIOUS
  <2>2. walk' \in [Observers -> SUBSET Conns]
      BY <2>1
  <2> QED
      BY <1>16, <2>2 DEF ObserveStart
<1>17. ASSUME NEW o \in Observers, ObserveGroup(o) \/ ObserveEnd(o) PROVE TypeOK'
    BY <1>17 DEF ObserveGroup, ObserveEnd
<1>18. CASE UNCHANGED vars
    BY <1>18 DEF vars
<1> QED
    BY <1>1, <1>2, <1>3, <1>4, <1>5, <1>6, <1>7, <1>8, <1>9, <1>10, <1>11, <1>12,
       <1>13, <1>14, <1>15, <1>16, <1>17, <1>18
    DEF Next, Environment, SubscriberStep, DispatcherStep, ObserverStep

\* The step of one subscriber, without its effect on the other variables: the
\* actions that neither close a channel nor change a group's members.
Quiet(c) ==
    \/ Subscribe(c) \/ GetOrCreateGroup(c) \/ JoinLock(c) \/ ClientGone(c) \/ ChannelClosed(c)
    \/ GetGroup(c) \/ ExitLock(c) \/ ReapLock(c) \/ ReapCheck(c) \/ ReapDelete(c)

\* Who is inside a visit holds the group's read lock, and the connections still
\* to be visited stay in the group: writers wait for the reader.
LEMMA LocksStep == PoolInv /\ [Next]_vars => LocksHeld'
<1> SUFFICES ASSUME TypeOK, LocksHeld, PooledOnce, [Next]_vars PROVE LocksHeld'
    BY DEF PoolInv
<1> USE TenantOfAssumption, NilAssumption, ThreadsAssumption DEF TypeOK, LocksHeld
<1>1. ASSUME NEW c \in Conns, Subscribe(c) \/ ClientGone(c) \/ ChannelClosed(c) PROVE LocksHeld'
    BY <1>1 DEF Subscribe, ClientGone, ChannelClosed
<1>2. ASSUME NEW c \in Conns, GetOrCreateGroup(c) \/ GetGroup(c) PROVE LocksHeld'
  <2>1. groups[TenantOf[c]] \in Conns \cup {Nil}
      OBVIOUS
  <2>2. UNCHANGED <<users, mu, dispVars>>
      BY <1>2 DEF GetOrCreateGroup, GetGroup
  <2>3. \A d \in Conns \ {c} : pc'[d] = pc[d] /\ ref'[d] = ref[d]
      BY <1>2 DEF GetOrCreateGroup, GetGroup
  <2>4. pc'[c] = "done" \/ ref'[c] \in Conns
      BY <1>2, <2>1 DEF GetOrCreateGroup, GetGroup
  <2> QED
      BY <2>2, <2>3, <2>4
<1>3. ASSUME NEW c \in Conns, JoinLock(c) PROVE LocksHeld'
    BY <1>3 DEF JoinLock
<1>4. ASSUME NEW c \in Conns, GroupRegister(c) PROVE LocksHeld'
  <2>1. ref[c] \in Conns /\ (dpc = "range" => dref # ref[c])
      BY <1>4 DEF GroupRegister
  <2>2. \A g \in Conns \ {ref[c]} : users'[g] = users[g] /\ mu'[g] = mu[g]
      BY <1>4 DEF GroupRegister
  <2>3. UNCHANGED <<dpc, dref, todo, ref>> /\ \A d \in Conns : pc'[d] \in {pc[d], "loop"}
      BY <1>4 DEF GroupRegister
  <2> QED
      BY <2>1, <2>2, <2>3
<1>5. ASSUME NEW c \in Conns, ExitLock(c) PROVE LocksHeld'
    BY <1>5 DEF ExitLock
<1>6. ASSUME NEW c \in Conns, GroupUnregister(c) PROVE LocksHeld'
    BY <1>6 DEF GroupUnregister
<1>7. ASSUME NEW c \in Conns, ReapLock(c) \/ ReapCheck(c) \/ ReapDelete(c) PROVE LocksHeld'
    BY <1>7 DEF ReapLock, ReapCheck, ReapDelete
<1>8. ASSUME NEW t \in Tenants, NEW who \in {{u} : u \in Users} \cup {Users}, RangeGet(t, who)
      PROVE  LocksHeld'
    BY <1>8 DEF RangeGet
<1>9. CASE RangeLock
  <2>1. dref \in Conns /\ dref' = dref /\ dpc' = "range"
      BY <1>9 DEF RangeLock
  <2>2. Dispatcher \in mu'[dref].r
      BY <1>9, <2>1 DEF RangeLock
  <2>3. todo' \subseteq users'[dref] /\ UNCHANGED <<pc, ref>>
      BY <1>9 DEF RangeLock
  <2> QED
      BY <2>1, <2>2, <2>3
<1>10. ASSUME NEW c \in Conns, Write(c) PROVE LocksHeld'
  <2>1. chan[c] = "open"
      BY <1>10 DEF Write, PooledOnce
  <2> QED
      BY <1>10, <2>1 DEF Write
<1>11. CASE RangeUnlock
    BY <1>11 DEF RangeUnlock
<1>12. ASSUME NEW o \in Observers, ObserveStart(o) \/ ObserveGroup(o) \/ ObserveEnd(o)
       PROVE  LocksHeld'
    BY <1>12 DEF ObserveStart, ObserveGroup, ObserveEnd
<1>13. CASE UNCHANGED vars
    BY <1>13 DEF vars
<1> QED
    BY <1>1, <1>2, <1>3, <1>4, <1>5, <1>6, <1>7, <1>8, <1>9, <1>10, <1>11, <1>12, <1>13
    DEF Next, Environment, SubscriberStep, DispatcherStep, ObserverStep

\* A connection stays in at most one group object, with an open channel, through
\* Register, replacement and Unregister.
LEMMA PooledStep == PoolInv /\ [Next]_vars => PooledOnce'
<1> SUFFICES ASSUME TypeOK, LocksHeld, PooledOnce, [Next]_vars PROVE PooledOnce'
    BY DEF PoolInv
<1> USE DEF TypeOK, PooledOnce, Pooled, Fresh
<1>1. ASSUME NEW c \in Conns, Quiet(c) PROVE PooledOnce'
  <2>1. /\ UNCHANGED users
        /\ \A d \in Conns : Fresh(d)' => Fresh(d)
        /\ \A d \in Conns : chan'[d] = chan[d] \/ (chan[d] # "closed" /\ d = c /\ chan'[d] = "open")
        /\ \A d \in Conns : pc'[d] = pc[d] \/ (d = c /\ (pc[d] = "new" => chan'[d] = "open"))
      BY <1>1 DEF Quiet, Subscribe, GetOrCreateGroup, JoinLock, ClientGone, ChannelClosed,
            GetGroup, ExitLock, ReapLock, ReapCheck, ReapDelete
  <2> QED
      BY <2>1
<1>2. ASSUME NEW c \in Conns, GroupRegister(c) PROVE PooledOnce'
  <2> DEFINE g == ref[c]
             old == Lookup(g, c)
  <2>1. g \in Conns /\ old \subseteq users[g] /\ users[g] \subseteq Conns
      BY <1>2 DEF GroupRegister, LocksHeld, Lookup
  <2>2. users' = [users EXCEPT ![g] = (@ \ old) \cup {c}]
      BY <1>2 DEF GroupRegister
  <2>3. \A d \in Conns : chan'[d] = IF d \in old THEN "closed" ELSE chan[d]
      BY <1>2 DEF GroupRegister, Close
  <2>4. ~Pooled(c) /\ chan[c] = "open" /\ pc[c] = "joining"
      BY <1>2 DEF GroupRegister
  <2>5. pc' = [pc EXCEPT ![c] = "loop"]
      BY <1>2 DEF GroupRegister
  <2>6. \A h, d \in Conns : d \in users'[h] <=>
            \/ h = g /\ (d = c \/ (d \in users[g] /\ d \notin old))
            \/ h # g /\ d \in users[h]
      BY <2>1, <2>2
  <2>7. \A d \in Conns : Fresh(d)' => Fresh(d) /\ d # c
      BY <2>4, <2>5
  <2>8. \A d \in Conns : d \in old => ~Fresh(d)
      BY <2>1
  <2>9. (\A d \in Conns : Fresh(d) => ~Pooled(d) /\ chan[d] # "closed")'
      BY <2>3, <2>6, <2>7, <2>8
  <2>10. (\A d \in Conns : pc[d] # "new" => chan[d] # "none")'
      BY <2>3, <2>4, <2>5
  <2>11. (\A h, k \in Conns : \A d \in users[h] : d \in users[k] => h = k)'
      BY <2>1, <2>2, <2>4, <2>6
  <2>12. (\A h \in Conns : \A d \in users[h] : chan[d] = "open")'
      BY <2>1, <2>2, <2>3, <2>4, <2>6
  <2> QED
      BY <2>9, <2>10, <2>11, <2>12
<1>3. ASSUME NEW c \in Conns, GroupUnregister(c) PROVE PooledOnce'
  <2> DEFINE g == ref[c]
             out == Unregistered(g, c)
  <2>1. g \in Conns /\ out \subseteq users[g] /\ users[g] \subseteq Conns
      BY <1>3 DEF GroupUnregister, LocksHeld, Unregistered, Lookup
  <2>2. users' = [users EXCEPT ![g] = @ \ out]
      BY <1>3 DEF GroupUnregister
  <2>3. \A d \in Conns : chan'[d] = IF d \in out THEN "closed" ELSE chan[d]
      BY <1>3 DEF GroupUnregister, Close
  <2>4. \A d \in Conns : Fresh(d)' => Fresh(d) /\ (pc'[d] = pc[d] \/ pc[d] = "exiting")
      BY <1>3 DEF GroupUnregister
  <2>5. \A d \in Conns : pc'[d] = pc[d] \/ pc[d] = "exiting"
      BY <1>3 DEF GroupUnregister
  <2>6. \A h, d \in Conns : d \in users'[h] <=> d \in users[h] /\ ~(h = g /\ d \in out)
      BY <2>1, <2>2
  <2>7. \A h \in Conns : users'[h] \subseteq Conns
      BY <2>1, <2>2
  <2> HIDE DEF out, g
  <2>8. (\A d \in Conns : Fresh(d) => ~Pooled(d) /\ chan[d] # "closed")'
      BY <2>1, <2>3, <2>4, <2>6
  <2>9. (\A d \in Conns : pc[d] # "new" => chan[d] # "none")'
      BY <2>3, <2>5
  <2>10. (\A h, k \in Conns : \A d \in users[h] : d \in users[k] => h = k)'
      BY <2>6, <2>7
  <2>11. (\A h \in Conns : \A d \in users[h] : chan[d] = "open")'
      BY <2>1, <2>3, <2>6, <2>7
  <2> QED
      BY <2>8, <2>9, <2>10, <2>11
<1>4. ASSUME UNCHANGED <<users, chan, pc>> PROVE PooledOnce'
    BY <1>4
<1>5. CASE DispatcherStep
    BY <1>4, <1>5 DEF DispatcherStep, RangeLock, Write, RangeUnlock
<1>6. ASSUME NEW t \in Tenants, NEW who \in {{u} : u \in Users} \cup {Users}, RangeGet(t, who)
      PROVE  PooledOnce'
    BY <1>4, <1>6 DEF RangeGet
<1>7. ASSUME NEW o \in Observers, ObserveStart(o) \/ ObserveGroup(o) \/ ObserveEnd(o)
      PROVE  PooledOnce'
    BY <1>4, <1>7 DEF ObserveStart, ObserveGroup, ObserveEnd
<1>8. CASE UNCHANGED vars
    BY <1>4, <1>8 DEF vars
<1> QED
    BY <1>1, <1>2, <1>3, <1>5, <1>6, <1>7, <1>8
    DEF Next, Environment, SubscriberStep, ObserverStep, Quiet

\* A write of the dispatcher finds an open channel.
LEMMA NoPanicStep == PoolInv /\ [Next]_vars => NoSendOnClosed'
<1> SUFFICES ASSUME PoolInv, [Next]_vars PROVE NoSendOnClosed'
    OBVIOUS
<1> USE DEF PoolInv, NoSendOnClosed
<1>1. ASSUME NEW c \in Conns, Write(c) PROVE NoSendOnClosed'
  <2>1. chan[c] = "open"
      BY <1>1 DEF Write, LocksHeld, PooledOnce
  <2> QED
      BY <1>1, <2>1 DEF Write
<1>2. CASE RangeLock \/ RangeUnlock
    BY <1>2 DEF RangeLock, RangeUnlock
<1>3. ASSUME NEW t \in Tenants, NEW who \in {{u} : u \in Users} \cup {Users}, RangeGet(t, who)
      PROVE  NoSendOnClosed'
    BY <1>3 DEF RangeGet
<1>4. ASSUME NEW c \in Conns, Quiet(c) \/ GroupRegister(c) \/ GroupUnregister(c)
      PROVE  NoSendOnClosed'
    BY <1>4 DEF Quiet, Subscribe, GetOrCreateGroup, JoinLock, ClientGone, ChannelClosed, GetGroup,
          ExitLock, ReapLock, ReapCheck, ReapDelete, GroupRegister, GroupUnregister
<1>5. ASSUME NEW o \in Observers, ObserveStart(o) \/ ObserveGroup(o) \/ ObserveEnd(o)
      PROVE  NoSendOnClosed'
    BY <1>5 DEF ObserveStart, ObserveGroup, ObserveEnd
<1>6. CASE UNCHANGED vars
    BY <1>6 DEF vars
<1> QED
    BY <1>1, <1>2, <1>3, <1>4, <1>5, <1>6
    DEF Next, Environment, SubscriberStep, DispatcherStep, ObserverStep, Quiet

\* The empty pool satisfies the inductive invariant.
LEMMA PoolInvInit == Init => PoolInv
BY TypeInit DEF Init, PoolInv, LocksHeld, PooledOnce, NoSendOnClosed, Pooled, Fresh

\* The inductive invariant of the pool.
THEOREM PoolInvariant == Spec => []PoolInv
<1>1. PoolInv /\ [Next]_vars => PoolInv'
    BY TypeStep, LocksStep, PooledStep, NoPanicStep DEF PoolInv
<1> QED
    BY PoolInvInit, <1>1, PTL DEF Spec

\* ConnPool's variables keep their types.
THEOREM TypeCorrect == Spec => []TypeOK
BY PoolInvariant, PTL DEF PoolInv

\* For any number of connections, groups and observers: no interleaving of
\* Register, Unregister and the dispatcher's visits sends on a closed channel.
THEOREM NeverSendsOnClosed == Spec => []NoSendOnClosed
BY PoolInvariant, PTL DEF PoolInv

-----------------------------------------------------------------------------
\* Only Group.Register and Group.Unregister change the members of a group.
LEMMA OtherSteps ==
    ASSUME [Next]_vars
    PROVE  \/ \E c \in Conns : GroupRegister(c) \/ GroupUnregister(c) \/ Write(c)
           \/ RangeLock
           \/ UNCHANGED <<users, todo>> /\ \E c \in Conns : Quiet(c)
           \/ UNCHANGED <<users, todo, pc>>
<1>1. ASSUME NEW c \in Conns, Quiet(c) PROVE UNCHANGED <<users, todo>>
    BY <1>1 DEF Quiet, Subscribe, GetOrCreateGroup, JoinLock, ClientGone, ChannelClosed, GetGroup,
          ExitLock, ReapLock, ReapCheck, ReapDelete
<1>2. ASSUME NEW t \in Tenants, NEW who \in {{u} : u \in Users} \cup {Users}, RangeGet(t, who)
      PROVE  UNCHANGED <<users, todo, pc>>
    BY <1>2 DEF RangeGet
<1>3. ASSUME NEW o \in Observers, ObserveStart(o) \/ ObserveGroup(o) \/ ObserveEnd(o)
      PROVE  UNCHANGED <<users, todo, pc>>
    BY <1>3 DEF ObserveStart, ObserveGroup, ObserveEnd
<1>4. CASE RangeUnlock
    BY <1>4 DEF RangeUnlock
<1>5. CASE UNCHANGED vars
    BY <1>5 DEF vars
<1> QED
    BY <1>1, <1>2, <1>3, <1>4, <1>5
    DEF Next, Environment, SubscriberStep, DispatcherStep, ObserverStep, Quiet

\* What the two operations do to the members of the groups.
LEMMA RegisterEffect ==
    ASSUME PoolInv, NEW c \in Conns, GroupRegister(c)
    PROVE  /\ ref[c] \in Conns /\ pc[c] = "joining" /\ ~Pooled(c)
           /\ pc' = [pc EXCEPT ![c] = "loop"] /\ UNCHANGED todo
           /\ dpc = "range" => dref # ref[c]
           /\ \A g, d \in Conns : d \in users'[g] <=>
                 IF g = ref[c] THEN d = c \/ (d \in users[g] /\ d \notin Lookup(g, c))
                               ELSE d \in users[g]
BY DEF GroupRegister, PoolInv, LocksHeld, PooledOnce, Pooled, Fresh, TypeOK

\* Group.Unregister removes the caller's own connection or nothing.
LEMMA UnregisterEffect ==
    ASSUME PoolInv, NEW c \in Conns, GroupUnregister(c)
    PROVE  /\ ref[c] \in Conns /\ pc[c] = "exiting" /\ UNCHANGED todo
           /\ pc'[c] \in {"reap", "done"}
           /\ \A d \in Conns \ {c} : pc'[d] = pc[d]
           /\ dpc = "range" => dref # ref[c]
           /\ \A g, d \in Conns : d \in users'[g] <=> d \in users[g] /\ ~(g = ref[c] /\ d = c)
<1> USE DEF PoolInv, LocksHeld, TypeOK
<1>1. ref[c] \in Conns /\ pc[c] = "exiting" /\ UNCHANGED todo
    BY DEF GroupUnregister
<1>2. pc'[c] \in {"reap", "done"} /\ \A d \in Conns \ {c} : pc'[d] = pc[d]
    BY DEF GroupUnregister
<1>3. dpc = "range" => dref # ref[c]
    BY DEF GroupUnregister
<1>4. \A d \in users[ref[c]] : d \in Unregistered(ref[c], c) <=> d = c
    BY DEF Unregistered, Lookup
<1>5. users' = [users EXCEPT ![ref[c]] = @ \ Unregistered(ref[c], c)]
    BY DEF GroupUnregister
<1> QED
    BY <1>1, <1>2, <1>3, <1>4, <1>5

\* A connection leaves the pool by its own Unregister or by replacement only,
\* whatever connection ids are used again.
THEOREM OwnHand == Spec => LeavesByOwnHand
<1> DEFINE Step(c) == Pooled(c) /\ ~Pooled(c)' =>
              \/ pc[c] = "exiting" /\ pc'[c] # "exiting"
              \/ \E d \in Conns \ {c} :
                    /\ UserOf[d] = UserOf[c] /\ ConnIDOf[d] = ConnIDOf[c]
                    /\ pc[d] = "joining" /\ Pooled(d)'
<1>1. ASSUME PoolInv, [Next]_vars, NEW c \in Conns PROVE Step(c)
  <2> SUFFICES ASSUME Pooled(c), ~Pooled(c)'
               PROVE  \/ pc[c] = "exiting" /\ pc'[c] # "exiting"
                      \/ \E d \in Conns \ {c} :
                            /\ UserOf[d] = UserOf[c] /\ ConnIDOf[d] = ConnIDOf[c]
                            /\ pc[d] = "joining" /\ Pooled(d)'
      OBVIOUS
  <2>1. ~UNCHANGED users
      BY DEF Pooled
  <2>2. PICK d \in Conns : GroupRegister(d) \/ GroupUnregister(d)
      BY <1>1, <2>1, OtherSteps DEF Write, RangeLock
  <2>3. CASE GroupRegister(d)
    <3>1. c \in Lookup(ref[d], d)
        BY <1>1, <2>3, RegisterEffect DEF Pooled
    <3>2. Pooled(d)'
        BY <1>1, <2>3, RegisterEffect DEF Pooled
    <3>3. pc[d] = "joining"
        BY <1>1, <2>3, RegisterEffect
    <3> QED
        BY <3>1, <3>2, <3>3 DEF Lookup
  <2>4. CASE GroupUnregister(d)
    <3>1. c = d
        BY <1>1, <2>4, UnregisterEffect DEF Pooled
    <3> QED
        BY <1>1, <2>4, <3>1, UnregisterEffect
  <2> QED
      BY <2>2, <2>3, <2>4
<1>2. PoolInv /\ [Next]_vars => [\A c \in Conns : Step(c)]_vars
    BY <1>1
<1> QED
    BY <1>2, PoolInvariant, PTL DEF Spec, LeavesByOwnHand

-----------------------------------------------------------------------------
(* Manager.Unregister reclaims every group that becomes empty *)

\* The group object named after g may exist: its subscriber has been through
\* getOrCreateGroup.
Allocated(g) == pc[g] \notin {"new", "create"}

\* Group objects are used for the tenant that they were allocated for, and only
\* after that: a name never comes back into the map with members.
ObjectsInv ==
    /\ \A t \in Tenants : groups[t] # Nil => TenantOf[groups[t]] = t /\ Allocated(groups[t])
    /\ \A c \in Conns : ref[c] # Nil => TenantOf[ref[c]] = TenantOf[c] /\ Allocated(ref[c])
    /\ \A g \in Conns : \A c \in users[g] : TenantOf[c] = TenantOf[g] /\ Allocated(g)

\* A member of g that has not passed its Unregister of g.
Connected(c, g) ==
    pc[c] \in {"loop", "leave"} \/ (pc[c] \in {"exit", "exiting"} /\ ref[c] = g)

\* A subscriber that is about to join g or to look whether it is empty.
Cares(c, g) ==
    (pc[c] \in {"join", "joining"} /\ ref[c] = g) \/ pc[c] \in {"reap", "reaping", "delete"}

\* The members of a group in the map have still to leave it, and an empty one
\* has somebody on the way to it.
ReclaimInv ==
    \A t \in Tenants : groups[t] # Nil =>
        /\ \A c \in users[groups[t]] : Connected(c, groups[t])
        /\ \/ users[groups[t]] # {}
           \/ \E c \in Conns : TenantOf[c] = t /\ Cares(c, groups[t])

\* Whoever is no subscriber leaves the map, the groups and the subscribers alone.
LEMMA BystanderStep ==
    ASSUME [Next]_vars
    PROVE  \/ \E c \in Conns : Quiet(c) \/ GroupRegister(c) \/ GroupUnregister(c)
           \/ UNCHANGED <<groups, users, pc, ref>>
<1>1. ASSUME NEW t \in Tenants, NEW who \in {{u} : u \in Users} \cup {Users}, RangeGet(t, who)
      PROVE  UNCHANGED <<groups, users, pc, ref>>
    BY <1>1 DEF RangeGet
<1>2. ASSUME NEW o \in Observers, ObserveStart(o) \/ ObserveGroup(o) \/ ObserveEnd(o)
      PROVE  UNCHANGED <<groups, users, pc, ref>>
    BY <1>2 DEF ObserveStart, ObserveGroup, ObserveEnd
<1>3. CASE DispatcherStep
    BY <1>3 DEF DispatcherStep, RangeLock, Write, RangeUnlock
<1>4. CASE UNCHANGED vars
    BY <1>4 DEF vars
<1> QED
    BY <1>1, <1>2, <1>3, <1>4 DEF Next, Environment, SubscriberStep, ObserverStep, Quiet

\* Group objects keep their tenant.
LEMMA ObjectsStep == PoolInv /\ ObjectsInv /\ [Next]_vars => ObjectsInv'
<1> SUFFICES ASSUME PoolInv, ObjectsInv, [Next]_vars PROVE ObjectsInv'
    OBVIOUS
<1> USE TenantOfAssumption, NilAssumption DEF PoolInv, TypeOK, LocksHeld, ObjectsInv
<1>1. \A g \in Conns : Allocated(g) => Allocated(g)'
  <2>1. ASSUME NEW c \in Conns, Quiet(c) PROVE \A g \in Conns : Allocated(g) => Allocated(g)'
      BY <2>1 DEF Allocated, Quiet, Subscribe, GetOrCreateGroup, JoinLock, ClientGone, ChannelClosed,
            GetGroup, ExitLock, ReapLock, ReapCheck, ReapDelete
  <2>2. ASSUME NEW c \in Conns, GroupRegister(c) \/ GroupUnregister(c)
        PROVE  \A g \in Conns : Allocated(g) => Allocated(g)'
      BY <2>2 DEF Allocated, GroupRegister, GroupUnregister
  <2>3. CASE UNCHANGED pc
      BY <2>3 DEF Allocated
  <2> QED
      BY <2>1, <2>2, <2>3, BystanderStep
<1>2. ASSUME NEW c \in Conns, GetOrCreateGroup(c) PROVE ObjectsInv'
  <2> DEFINE g == IF groups[TenantOf[c]] = Nil THEN c ELSE groups[TenantOf[c]]
  <2>1. g \in Conns /\ TenantOf[g] = TenantOf[c] /\ pc'[g] \notin {"new", "create"}
      BY <1>1, <1>2 DEF GetOrCreateGroup, Allocated
  <2>2. groups' = [groups EXCEPT ![TenantOf[c]] = g] /\ ref' = [ref EXCEPT ![c] = g] /\ UNCHANGED users
      BY <1>2 DEF GetOrCreateGroup
  <2> HIDE DEF g
  <2>3. \A t \in Tenants : groups'[t] # Nil => TenantOf[groups'[t]] = t /\ Allocated(groups[t])'
    <3> TAKE t \in Tenants
    <3> HAVE groups'[t] # Nil
    <3>1. CASE t = TenantOf[c]
      <4>1. groups'[t] = g
          BY <2>2, <3>1
      <4> QED
          BY <2>1, <3>1, <4>1 DEF Allocated
    <3>2. CASE t # TenantOf[c]
      <4>1. groups'[t] = groups[t]
          BY <2>2, <3>2
      <4> QED
          BY <1>1, <4>1 DEF Allocated
    <3> QED
        BY <3>1, <3>2
  <2>4. \A d \in Conns : ref'[d] # Nil => TenantOf[ref'[d]] = TenantOf[d] /\ Allocated(ref[d])'
    <3> TAKE d \in Conns
    <3> HAVE ref'[d] # Nil
    <3>1. CASE d = c
      <4>1. ref'[d] = g
          BY <2>2, <3>1
      <4> QED
          BY <2>1, <3>1, <4>1 DEF Allocated
    <3>2. CASE d # c
      <4>1. ref'[d] = ref[d]
          BY <2>2, <3>2
      <4> QED
          BY <1>1, <4>1 DEF Allocated
    <3> QED
        BY <3>1, <3>2
  <2>5. \A h \in Conns : \A d \in users'[h] : TenantOf[d] = TenantOf[h] /\ Allocated(h)'
      BY <1>1, <2>2
  <2> QED
      BY <2>3, <2>4, <2>5
<1>3. ASSUME NEW c \in Conns, GetGroup(c) PROVE ObjectsInv'
  <2>1. ref' = [ref EXCEPT ![c] = groups[TenantOf[c]]] /\ UNCHANGED <<groups, users>>
      BY <1>3 DEF GetGroup
  <2> QED
      BY <1>1, <2>1
<1>4. ASSUME NEW c \in Conns, ReapDelete(c) PROVE ObjectsInv'
  <2>1. groups' = [groups EXCEPT ![TenantOf[c]] = Nil] /\ UNCHANGED <<ref, users>>
      BY <1>4 DEF ReapDelete
  <2> QED
      BY <1>1, <2>1
<1>5. ASSUME NEW c \in Conns, GroupRegister(c) PROVE ObjectsInv'
  <2>1. UNCHANGED <<groups, ref>>
      BY <1>5 DEF GroupRegister
  <2>2. users' \in [Conns -> SUBSET Conns]
      BY <1>5 DEF GroupRegister, Lookup
  <2>3. TenantOf[ref[c]] = TenantOf[c] /\ Allocated(ref[c])
      BY <1>5, RegisterEffect
  <2> QED
      BY <1>1, <1>5, <2>1, <2>2, <2>3, RegisterEffect
<1>6. ASSUME NEW c \in Conns, GroupUnregister(c) PROVE ObjectsInv'
  <2>1. UNCHANGED <<groups, ref>>
      BY <1>6 DEF GroupUnregister
  <2>2. users' \in [Conns -> SUBSET Conns]
      BY <1>6 DEF GroupUnregister
  <2> QED
      BY <1>1, <1>6, <2>1, <2>2, UnregisterEffect
<1>7. CASE UNCHANGED <<groups, ref, users>>
    BY <1>1, <1>7
<1> QED
  <2>1. ASSUME NEW c \in Conns, Subscribe(c) \/ JoinLock(c) \/ ClientGone(c) \/ ChannelClosed(c)
                  \/ ExitLock(c) \/ ReapLock(c) \/ ReapCheck(c)
        PROVE  UNCHANGED <<groups, ref, users>>
      BY <2>1 DEF Subscribe, JoinLock, ClientGone, ChannelClosed, ExitLock, ReapLock, ReapCheck
  <2>2. ASSUME NEW c \in Conns, Quiet(c) PROVE ObjectsInv'
      BY <1>2, <1>3, <1>4, <1>7, <2>1, <2>2 DEF Quiet
  <2>3. (\E c \in Conns : Quiet(c) \/ GroupRegister(c) \/ GroupUnregister(c)) \/ UNCHANGED <<groups, users, pc, ref>>
      BY BystanderStep
  <2> QED
      BY <1>5, <1>6, <1>7, <2>2, <2>3

\* Reclamation: the last member to leave a group takes over the care for it, and
\* gives it up only when it finds members or has taken the group out of the map.
LEMMA ReclaimStep == PoolInv /\ ObjectsInv /\ ReclaimInv /\ [Next]_vars => ReclaimInv'
<1> SUFFICES ASSUME PoolInv, ObjectsInv, ReclaimInv, [Next]_vars,
                    NEW t \in Tenants, groups'[t] # Nil
             PROVE  /\ \A c \in users'[groups'[t]] : Connected(c, groups[t])'
                    /\ \/ users'[groups'[t]] # {}
                       \/ \E c \in Conns : TenantOf[c] = t /\ Cares(c, groups[t])'
    BY DEF ReclaimInv
<1> DEFINE Kept == /\ \A c \in users'[groups'[t]] : Connected(c, groups[t])'
                   /\ \/ users'[groups'[t]] # {}
                      \/ \E c \in Conns : TenantOf[c] = t /\ Cares(c, groups[t])'
<1> USE TenantOfAssumption, NilAssumption DEF PoolInv, TypeOK, LocksHeld
<1>1. ASSUME NEW c \in Conns, Subscribe(c) \/ JoinLock(c) \/ ClientGone(c) \/ ChannelClosed(c)
                \/ ExitLock(c) \/ ReapLock(c)
      PROVE  Kept
  <2>1. UNCHANGED <<groups, users, ref>>
      BY <1>1 DEF Subscribe, JoinLock, ClientGone, ChannelClosed, ExitLock, ReapLock
  <2>2. ASSUME NEW d \in Conns
        PROVE  /\ Connected(d, groups[t]) => Connected(d, groups[t])'
               /\ Cares(d, groups[t]) => Cares(d, groups[t])'
      BY <1>1, <2>1 DEF Subscribe, JoinLock, ClientGone, ChannelClosed, ExitLock, ReapLock, Connected, Cares
  <2> QED
      BY <2>1, <2>2 DEF ReclaimInv, Connected, Cares
<1>2. ASSUME NEW c \in Conns, GetOrCreateGroup(c) PROVE Kept
  <2> DEFINE g == IF groups[TenantOf[c]] = Nil THEN c ELSE groups[TenantOf[c]]
  <2>1. /\ groups' = [groups EXCEPT ![TenantOf[c]] = g] /\ ref' = [ref EXCEPT ![c] = g]
        /\ pc[c] = "create" /\ pc' = [pc EXCEPT ![c] = "join"] /\ UNCHANGED users
      BY <1>2 DEF GetOrCreateGroup
  <2>2. \A d \in Conns : d # c => pc'[d] = pc[d] /\ ref'[d] = ref[d]
      BY <2>1
  <2>3. CASE t = TenantOf[c] /\ groups[t] = Nil
    <3>1. users[c] = {}
        BY <2>1 DEF ObjectsInv, Allocated
    <3> QED
        BY <2>1, <2>3, <3>1 DEF Cares
  <2>4. CASE t = TenantOf[c] /\ groups[t] # Nil
    <3>1. groups'[t] = groups[t] /\ Cares(c, groups[t])'
        BY <2>1, <2>4 DEF Cares
    <3> QED
        BY <2>1, <2>2, <2>4, <3>1 DEF ReclaimInv, Connected
  <2>5. CASE t # TenantOf[c]
    <3>1. groups'[t] = groups[t]
        BY <2>1, <2>5
    <3> QED
        BY <2>1, <2>2, <3>1 DEF ReclaimInv, Connected, Cares
  <2> QED
      BY <2>3, <2>4, <2>5
<1>3. ASSUME NEW c \in Conns, GetGroup(c) PROVE Kept
  <2>1. /\ UNCHANGED <<groups, users>> /\ pc[c] = "leave"
        /\ ref' = [ref EXCEPT ![c] = groups[TenantOf[c]]]
        /\ pc' = [pc EXCEPT ![c] = IF groups[TenantOf[c]] = Nil THEN "done" ELSE "exit"]
      BY <1>3 DEF GetGroup
  <2>2. \A d \in Conns : d # c => pc'[d] = pc[d] /\ ref'[d] = ref[d]
      BY <2>1
  <2>3. c \in users[groups[t]] => Connected(c, groups[t])'
      BY <2>1 DEF ObjectsInv, Connected
  <2> QED
      BY <2>1, <2>2, <2>3 DEF ReclaimInv, Connected, Cares
<1>4. ASSUME NEW c \in Conns, ReapCheck(c) PROVE Kept
  <2>1. /\ UNCHANGED <<groups, users, ref>> /\ pc[c] = "reaping"
        /\ \/ pc' = [pc EXCEPT ![c] = "delete"]
           \/ /\ pc' = [pc EXCEPT ![c] = "done"]
              /\ groups[TenantOf[c]] = Nil \/ users[groups[TenantOf[c]]] # {}
      BY <1>4 DEF ReapCheck
  <2>2. \A d \in Conns : d # c => pc'[d] = pc[d]
      BY <2>1
  <2> QED
      BY <2>1, <2>2 DEF ReclaimInv, Connected, Cares
<1>5. ASSUME NEW c \in Conns, ReapDelete(c) PROVE Kept
  <2>1. /\ UNCHANGED <<users, ref>> /\ pc[c] = "delete"
        /\ groups' = [groups EXCEPT ![TenantOf[c]] = Nil]
        /\ pc' = [pc EXCEPT ![c] = "done"]
      BY <1>5 DEF ReapDelete
  <2>2. t # TenantOf[c] /\ groups'[t] = groups[t]
      BY <2>1
  <2> QED
      BY <2>1, <2>2 DEF ReclaimInv, Connected, Cares
<1>6. ASSUME NEW c \in Conns, GroupRegister(c) PROVE Kept
  <2>1. UNCHANGED <<groups, ref>> /\ users' \in [Conns -> SUBSET Conns]
      BY <1>6 DEF GroupRegister, Lookup
  <2>2. pc' = [pc EXCEPT ![c] = "loop"] /\ pc[c] = "joining"
      BY <1>6, RegisterEffect
  <2>3. groups[t] = ref[c] => c \in users'[groups[t]]
      BY <1>6, RegisterEffect
  <2>4. groups[t] # ref[c] => users'[groups[t]] = users[groups[t]]
      BY <1>6 DEF GroupRegister
  <2>5. \A d \in users'[groups[t]] : d = c \/ d \in users[groups[t]]
      BY <1>6, <2>1, RegisterEffect
  <2> QED
    <3>1. \A d \in users'[groups'[t]] : Connected(d, groups[t])'
        BY <2>1, <2>2, <2>5 DEF ReclaimInv, Connected
    <3>2. CASE groups[t] = ref[c]
        BY <2>1, <2>3, <3>1, <3>2
    <3>3. CASE groups[t] # ref[c]
      <4>1. \A d \in Conns : Cares(d, groups[t]) => Cares(d, groups[t])'
          BY <2>1, <2>2, <3>3 DEF Cares
      <4> QED
          BY <2>1, <2>4, <3>1, <3>3, <4>1 DEF ReclaimInv
    <3> QED
        BY <3>2, <3>3
<1>7. ASSUME NEW c \in Conns, GroupUnregister(c) PROVE Kept
  <2>1. UNCHANGED <<groups, ref>> /\ users' \in [Conns -> SUBSET Conns]
      BY <1>7 DEF GroupUnregister
  <2>2. pc[c] = "exiting" /\ \A d \in Conns \ {c} : pc'[d] = pc[d]
      BY <1>7, UnregisterEffect
  <2>3. users'[ref[c]] = {} => pc'[c] = "reap"
      BY <1>7 DEF GroupUnregister, EmptyAfter
  <2>4. groups[t] # ref[c] => users'[groups[t]] = users[groups[t]]
      BY <1>7 DEF GroupUnregister
  <2>5. groups[t] = ref[c] => c \notin users'[groups[t]] /\ TenantOf[c] = t
      BY <1>7, UnregisterEffect DEF ObjectsInv
  <2>6. \A d \in users'[groups[t]] : d \in users[groups[t]]
      BY <1>7, <2>1, UnregisterEffect
  <2>7. c \in users[groups[t]] => groups[t] = ref[c]
      BY <2>1, <2>2 DEF ReclaimInv, Connected
  <2>8. \A d \in users'[groups[t]] : Connected(d, groups[t])'
      BY <2>1, <2>2, <2>5, <2>6, <2>7 DEF ReclaimInv, Connected
  <2> QED
    <3>1. CASE groups[t] = ref[c]
      <4>1. users'[groups[t]] = {} => Cares(c, groups[t])'
          BY <2>3, <3>1 DEF Cares
      <4> QED
          BY <2>1, <2>5, <2>8, <3>1, <4>1
    <3>2. CASE groups[t] # ref[c]
      <4>1. \A d \in Conns : Cares(d, groups[t]) => Cares(d, groups[t])'
          BY <2>1, <2>2 DEF Cares
      <4> QED
          BY <2>1, <2>4, <2>8, <3>2, <4>1 DEF ReclaimInv
    <3> QED
        BY <3>1, <3>2
<1>8. CASE UNCHANGED <<groups, users, pc, ref>>
    BY <1>8 DEF ReclaimInv, Connected, Cares
<1> QED
    BY <1>1, <1>2, <1>3, <1>4, <1>5, <1>6, <1>7, <1>8, BystanderStep DEF Quiet

\* Manager.Unregister: when no subscriber is left, no group is left in the map,
\* for any number of tenants and connections and every order in which they come
\* and go.
THEOREM ReclaimedCorrect == Spec => []ReclaimedAtRest
<1>1. Init => ObjectsInv /\ ReclaimInv
    BY DEF Init, ObjectsInv, ReclaimInv
<1>2. PoolInv /\ ObjectsInv /\ ReclaimInv /\ [Next]_vars => ObjectsInv' /\ ReclaimInv'
    BY ObjectsStep, ReclaimStep
<1>3. PoolInv /\ ReclaimInv => ReclaimedAtRest
    BY DEF PoolInv, TypeOK, ReclaimInv, ReclaimedAtRest, Connected, Cares
<1> QED
    BY <1>1, <1>2, <1>3, PoolInvariant, PTL DEF Spec

-----------------------------------------------------------------------------
(* Refinement of ConnPoolContract *)

\* The abstract state as functions of the concrete one.
AbsPhase == [c \in Conns |-> Phase(c)]

\* A step that leaves the members of the groups alone leaves every phase alone.
LEMMA QuietPhase ==
    ASSUME PoolInv, UNCHANGED users,
           (\E c \in Conns : Quiet(c)) \/ UNCHANGED pc
    PROVE  AbsPhase' = AbsPhase
<1> SUFFICES ASSUME NEW d \in Conns PROVE Fresh(d)' <=> Fresh(d)
    BY DEF AbsPhase, Phase, Pooled, Fresh
<1>1. CASE UNCHANGED pc
    BY <1>1 DEF Fresh
<1>2. ASSUME NEW c \in Conns, Quiet(c) PROVE Fresh(d)' <=> Fresh(d)
  <2>1. \/ \E place \in {"create", "join", "joining"} :
               Fresh(c) /\ pc' = [pc EXCEPT ![c] = place]
        \/ \E place \in {"leave", "exit", "exiting", "reaping", "delete", "done"} :
               ~Fresh(c) /\ pc' = [pc EXCEPT ![c] = place]
      BY <1>2 DEF Fresh, Quiet, Subscribe, GetOrCreateGroup, JoinLock, ClientGone, ChannelClosed,
            GetGroup, ExitLock, ReapLock, ReapCheck, ReapDelete
  <2> QED
      BY <2>1 DEF Fresh, PoolInv, TypeOK
<1> QED
    BY <1>1, <1>2

\* Group.Register is a Join of the contract.
LEMMA RefJoin ==
    ASSUME PoolInv, NEW c \in Conns, GroupRegister(c)
    PROVE  Abs!Join(c)
<1> DEFINE old == Lookup(ref[c], c)
<1>1. old \subseteq users[ref[c]] /\ old \subseteq Conns /\ users[ref[c]] \subseteq Conns
    BY RegisterEffect DEF Lookup, PoolInv, TypeOK
<1>2. \A d \in old : Phase(d) = "pooled" /\ d # c
    BY <1>1, RegisterEffect DEF Phase, Pooled, PoolInv, PooledOnce, Fresh
<1>3. \A d \in old : d \notin todo
    BY <1>1, RegisterEffect DEF PoolInv, LocksHeld, PooledOnce
<1>4. \A d \in old : ~Pooled(d)'
    BY <1>1, <1>2, RegisterEffect DEF Pooled, PoolInv, PooledOnce
<1>5. Pooled(c)' /\ \A d \in Conns \ (old \cup {c}) : Pooled(d)' <=> Pooled(d)
    BY <1>1, RegisterEffect DEF Pooled
<1>6. \A d \in Conns : Fresh(d)' <=> Fresh(d) /\ d # c
    BY RegisterEffect DEF Fresh, PoolInv, TypeOK
<1>7. \A d \in Conns : Phase(d)' = IF d = c THEN "pooled"
                                   ELSE IF d \in old THEN "gone" ELSE Phase(d)
    BY <1>1, <1>2, <1>4, <1>5, <1>6 DEF Phase, Fresh, Pooled
<1>8. Phase(c) = "new"
    BY RegisterEffect DEF Phase
<1>9. \A d \in old : <<UserOf[d], ConnIDOf[d]>> = <<UserOf[c], ConnIDOf[c]>>
    BY DEF Lookup
<1> HIDE DEF old
<1>10. old \in SUBSET {d \in Conns \ todo :
            AbsPhase[d] = "pooled"
            /\ [e \in Conns |-> <<UserOf[e], ConnIDOf[e]>>][d]
                 = [e \in Conns |-> <<UserOf[e], ConnIDOf[e]>>][c]}
    BY <1>1, <1>2, <1>3, <1>9 DEF AbsPhase
<1>11. AbsPhase' = [d \in Conns |-> IF d = c THEN "pooled"
                                   ELSE IF d \in old THEN "gone" ELSE AbsPhase[d]]
    BY <1>7 DEF AbsPhase
<1> QED
    BY <1>8, <1>10, <1>11, RegisterEffect DEF Abs!Join, AbsPhase

\* Group.Unregister is a Leave of the contract, or a stutter when the connection
\* has been replaced before.
LEMMA RefLeave ==
    ASSUME PoolInv, NEW c \in Conns, GroupUnregister(c)
    PROVE  Abs!Leave(c) \/ UNCHANGED <<AbsPhase, todo>>
<1>1. \A d \in Conns : Fresh(d)' <=> Fresh(d)
    BY UnregisterEffect DEF Fresh, PoolInv, TypeOK
<1>2. \A d \in Conns \ {c} : Pooled(d)' <=> Pooled(d)
    BY UnregisterEffect DEF Pooled
<1>3. CASE c \in users[ref[c]]
  <2>1. Pooled(c) /\ ~Pooled(c)'
      BY <1>3, UnregisterEffect DEF Pooled, PoolInv, PooledOnce
  <2>2. Phase(c) = "pooled" /\ Phase(c)' = "gone"
      BY <2>1, UnregisterEffect DEF Phase, Pooled
  <2>3. c \notin todo
      BY <1>3, UnregisterEffect DEF PoolInv, LocksHeld, PooledOnce
  <2>4. \A d \in Conns \ {c} : Phase(d)' = Phase(d)
      BY <1>1, <1>2 DEF Phase, Fresh, Pooled
  <2>5. AbsPhase' = [AbsPhase EXCEPT ![c] = "gone"]
      BY <2>2, <2>4 DEF AbsPhase
  <2>6. AbsPhase[c] = "pooled"
      BY <2>2 DEF AbsPhase
  <2> QED
      BY <2>3, <2>5, <2>6, UnregisterEffect DEF Abs!Leave, AbsPhase
<1>4. CASE c \notin users[ref[c]]
  <2>1. \A d \in Conns : Pooled(d)' <=> Pooled(d)
      BY <1>4, UnregisterEffect DEF Pooled
  <2>2. AbsPhase' = AbsPhase
      BY <1>1, <2>1 DEF AbsPhase, Phase, Fresh, Pooled
  <2> QED
      BY <2>2, UnregisterEffect
<1> QED
    BY <1>3, <1>4

\* Taking the group's read lock starts a visit of the contract.
LEMMA RefVisit ==
    ASSUME PoolInv, RangeLock
    PROVE  Abs!StartVisit
<1>1. todo = {} /\ todo' \subseteq users[dref] /\ dref \in Conns
    BY DEF RangeLock, PoolInv, LocksHeld
<1>2. users[dref] \subseteq Conns
    BY <1>1 DEF PoolInv, TypeOK
<1>3. \A c \in users[dref] : Phase(c) = "pooled"
    BY <1>1, <1>2 DEF Phase, Pooled, PoolInv, PooledOnce, Fresh
<1>4. AbsPhase' = AbsPhase
    BY QuietPhase DEF RangeLock
<1>5. todo' \in SUBSET {c \in Conns : AbsPhase[c] = "pooled"}
    BY <1>1, <1>2, <1>3 DEF AbsPhase
<1> QED
    BY <1>1, <1>4, <1>5 DEF Abs!StartVisit, AbsPhase

\* A write to a visited connection is a Deliver of the contract.
LEMMA RefDeliver ==
    ASSUME PoolInv, NEW c \in Conns, Write(c)
    PROVE  Abs!Deliver(c)
<1>1. c \in todo /\ c \in users[dref] /\ dref \in Conns /\ todo' = todo \ {c}
    BY DEF Write, PoolInv, LocksHeld
<1>2. Phase(c) = "pooled"
    BY <1>1 DEF Phase, Pooled, PoolInv, PooledOnce, Fresh
<1>3. AbsPhase' = AbsPhase
    BY QuietPhase DEF Write
<1>4. AbsPhase[c] = "pooled"
    BY <1>2 DEF AbsPhase
<1> QED
    BY <1>1, <1>3, <1>4 DEF Abs!Deliver, AbsPhase

\* The lock-level pool implements ConnPoolContract.
THEOREM ImplementsContract == Spec => Contract
<1>1. Init => Abs!Init
    BY DEF Init, Abs!Init, Phase
<1>2. ASSUME PoolInv, [Next]_vars PROVE [Abs!Next]_<<AbsPhase, todo>>
  <2>1. CASE \E c \in Conns : GroupRegister(c)
      BY <1>2, <2>1, RefJoin DEF Abs!Next
  <2>2. CASE \E c \in Conns : GroupUnregister(c)
      BY <1>2, <2>2, RefLeave DEF Abs!Next
  <2>3. CASE \E c \in Conns : Write(c)
      BY <1>2, <2>3, RefDeliver DEF Abs!Next
  <2>4. CASE RangeLock
      BY <1>2, <2>4, RefVisit DEF Abs!Next
  <2>5. CASE UNCHANGED <<users, todo>> /\ ((\E c \in Conns : Quiet(c)) \/ UNCHANGED pc)
      BY <1>2, <2>5, QuietPhase
  <2> QED
      BY <1>2, <2>1, <2>2, <2>3, <2>4, <2>5, OtherSteps
<1>3. PoolInv /\ [Next]_vars => [Abs!Next]_<<[c \in Conns |-> Phase(c)], todo>>
    BY <1>2 DEF AbsPhase
<1> QED
    BY <1>1, <1>3, PoolInvariant, PTL DEF Spec, Contract, Abs!Spec
=============================================================================
