------------------------------ MODULE Delivery ------------------------------
(***************************************************************************)
(* From Sender.SendNotify to the browsers: every send goroutine pushes the *)
(* unread counts and then the notification through the broker (LocalBroker *)
(* in one process, RedisBroker between processes), a dispatcher goroutine  *)
(* per process takes the messages and writes them to the channels of the   *)
(* connections, and every subscription copies its channel to the client.   *)
(* All queues are bounded and drop what does not fit.  The connection pool *)
(* is taken at its contract: a visit to a user, or to a group, is atomic.  *)
(***************************************************************************)
EXTENDS Integers, Sequences, FiniteSets, Functions

CONSTANTS
    Nodes,      \* processes of the service
    Cluster,    \* TRUE: RedisBroker, FALSE: LocalBroker
    Conns,      \* SSE connections over time
    Notifies,   \* notifications; each is a SendNotify goroutine
    Users,      \* user ids
    HomeOf,     \* [Conns \cup Notifies -> Nodes], where a connection or a send lives
    TenantOf,   \* [Conns \cup Notifies -> tenants]
    UserOf,     \* [Conns -> Users]
    TargetsOf,  \* [Notifies -> Seq(Users)], <<>> for a broadcast
    QueueCap,   \* LocalBroker.ch and RedisBroker.outChan hold 1000
    ChanCap,    \* HubSSEConnection.MessageChan holds 100
    MaxErrors   \* bound on failed counts, failed publications and lost subscriptions

ASSUME DeliveryAssumption ==
    /\ Cluster \in BOOLEAN
    /\ ~Cluster => Cardinality(Nodes) = 1
    /\ Conns \cap Notifies = {}
    /\ HomeOf \in [Conns \cup Notifies -> Nodes]
    /\ UserOf \in [Conns -> Users]
    /\ TargetsOf \in [Notifies -> Seq(Users)]
    /\ IsFiniteSet(Users)   \* who is online is counted
    /\ QueueCap \in Nat \ {0} /\ ChanCap \in Nat \ {0} /\ MaxErrors \in Nat

VARIABLES
    phase,   \* of each connection: "new", "open" or "gone"
    pc,      \* of each send: "idle", "unread" or "done"
    todo,    \* users it has still to push an unread count to
    up,      \* nodes that are subscribed to the Redis channel
    sub,     \* messages on their way from Redis to each node
    queue,   \* the broker's channel of each node
    work,    \* what each dispatcher is processing: a message and the users left
    chan,    \* MessageChan of each connection
    got,     \* what each client has received
    errors   \* how many there have been

sendVars == <<pc, todo>>
vars == <<phase, pc, todo, up, sub, queue, work, chan, got, errors>>

\* Message: the counts go to a single user, the notification to its targets.
Broadcast(n) == TargetsOf[n] = <<>>
UnreadMsg(n, u) == [n |-> n, type |-> "unread", to |-> <<u>>]
NotifyMsg(n) == [n |-> n, type |-> "notify", to |-> TargetsOf[n]]
ToAll(m) == m.to = <<>>

Msgs == {UnreadMsg(n, u) : n \in Notifies, u \in Users} \cup {NotifyMsg(n) : n \in Notifies}
Idle == [busy |-> FALSE]

Init ==
    /\ phase = [c \in Conns |-> "new"]
    /\ pc = [n \in Notifies |-> "idle"]
    /\ todo = [n \in Notifies |-> <<>>]
    /\ up = {}
    /\ sub = [x \in Nodes |-> <<>>]
    /\ queue = [x \in Nodes |-> <<>>]
    /\ work = [x \in Nodes |-> Idle]
    /\ chan = [c \in Conns |-> <<>>]
    /\ got = [c \in Conns |-> <<>>]
    /\ errors = 0

\* Mutant: an unbounded buffer.
TrySendUnbounded(q, m, cap) == Append(q, m)

\* A non-blocking send to a buffered channel: what does not fit is dropped.
TrySend(q, m, cap) == IF Len(q) < cap THEN Append(q, m) ELSE q

-----------------------------------------------------------------------------
(* Connections *)

\* HubService.Register.
Open(c) ==
    /\ phase[c] = "new"
    /\ phase' = [phase EXCEPT ![c] = "open"]
    /\ UNCHANGED <<sendVars, up, sub, queue, work, chan, got, errors>>

\* Subscribe: the next message is written to the client.
Emit(c) ==
    /\ phase[c] = "open"
    /\ chan[c] # <<>>
    /\ got' = [got EXCEPT ![c] = Append(@, Head(chan[c]))]
    /\ chan' = [chan EXCEPT ![c] = Tail(@)]
    /\ UNCHANGED <<phase, sendVars, up, sub, queue, work, errors>>

\* The client goes, or a write fails: Unregister; what is buffered is lost.
Quit(c) ==
    /\ phase[c] = "open"
    /\ phase' = [phase EXCEPT ![c] = "gone"]
    /\ chan' = [chan EXCEPT ![c] = <<>>]
    /\ UNCHANGED <<sendVars, up, sub, queue, work, got, errors>>

-----------------------------------------------------------------------------
(* Broker *)

\* Mutant: in a cluster the message is also queued directly in this process.
PublishTwice(x, m) ==
    IF Cluster
    THEN /\ sub' = [y \in Nodes |-> IF y \in up THEN Append(sub[y], m) ELSE sub[y]]
         /\ queue' = [queue EXCEPT ![x] = TrySend(@, m, QueueCap)]
    ELSE /\ queue' = [queue EXCEPT ![x] = TrySend(@, m, QueueCap)]
         /\ UNCHANGED sub

\* LocalBroker.Publish queues, or fails when the queue is full; with RedisBroker
\* every process that is subscribed will receive the message.  Sender.send logs
\* a failure and goes on.
Publish(x, m) ==
    IF Cluster
    THEN /\ sub' = [y \in Nodes |-> IF y \in up THEN Append(sub[y], m) ELSE sub[y]]
         /\ UNCHANGED queue
    ELSE /\ queue' = [queue EXCEPT ![x] = TrySend(@, m, QueueCap)]
         /\ UNCHANGED sub

\* consumeLoop, consumeOnce: (re)subscribe, ...
SubscribeChannel(x) ==
    /\ Cluster
    /\ x \notin up
    /\ up' = up \cup {x}
    /\ UNCHANGED <<phase, sendVars, sub, queue, work, chan, got, errors>>

\* ... move each message to outChan, dropping it when that is full, ...
Receive(x) ==
    /\ sub[x] # <<>>
    /\ queue' = [queue EXCEPT ![x] = TrySend(@, Head(sub[x]), QueueCap)]
    /\ sub' = [sub EXCEPT ![x] = Tail(@)]
    /\ UNCHANGED <<phase, sendVars, up, work, chan, got, errors>>

\* ... and lose what is on its way when the subscription breaks.
SubscriptionLost(x) ==
    /\ errors < MaxErrors
    /\ x \in up
    /\ errors' = errors + 1
    /\ up' = up \ {x}
    /\ sub' = [sub EXCEPT ![x] = <<>>]
    /\ UNCHANGED <<phase, sendVars, queue, work, chan, got>>

-----------------------------------------------------------------------------
(* Sender.SendNotify, after the counters are updated *)

\* Manager.GetOnlineUserIDs: the pool of the process that sends.
OnlineUsers(x, t) ==
    {UserOf[c] : c \in {d \in Conns : phase[d] = "open" /\ HomeOf[d] = x /\ TenantOf[d] = t}}

\* A map is ranged over in any order.
Orders(S) == {s \in [1..Cardinality(S) -> S] : IsInjective(s)}

\* sendUnread: who will be sent a count.
StartUnread(n) ==
    /\ pc[n] = "idle"
    /\ \E us \in IF Broadcast(n) THEN Orders(OnlineUsers(HomeOf[n], TenantOf[n]))
                                 ELSE {TargetsOf[n]} :
          todo' = [todo EXCEPT ![n] = us]
    /\ pc' = [pc EXCEPT ![n] = "unread"]
    /\ UNCHANGED <<phase, up, sub, queue, work, chan, got, errors>>

\* SendTenantUnread or SendPersonalUnread to the next one.
PushUnread(n) ==
    /\ pc[n] = "unread"
    /\ todo[n] # <<>>
    /\ Publish(HomeOf[n], UnreadMsg(n, Head(todo[n])))
    /\ todo' = [todo EXCEPT ![n] = Tail(@)]
    /\ UNCHANGED <<phase, pc, up, work, chan, got, errors>>

\* The count cannot be read, or Redis refuses the message: the next one.
UnreadFails(n) ==
    /\ errors < MaxErrors
    /\ pc[n] = "unread"
    /\ todo[n] # <<>>
    /\ errors' = errors + 1
    /\ todo' = [todo EXCEPT ![n] = Tail(@)]
    /\ UNCHANGED <<phase, pc, up, sub, queue, work, chan, got>>

\* The notification itself.
PushNotify(n) ==
    /\ pc[n] = "unread"
    /\ todo[n] = <<>>
    /\ Publish(HomeOf[n], NotifyMsg(n))
    /\ pc' = [pc EXCEPT ![n] = "done"]
    /\ UNCHANGED <<phase, todo, up, work, chan, got, errors>>

NotifyFails(n) ==
    /\ errors < MaxErrors
    /\ pc[n] = "unread"
    /\ todo[n] = <<>>
    /\ errors' = errors + 1
    /\ pc' = [pc EXCEPT ![n] = "done"]
    /\ UNCHANGED <<phase, todo, up, sub, queue, work, chan, got>>

-----------------------------------------------------------------------------
(* Dispatcher.run and process *)

\* Mutant: every message is processed by a goroutine of its own.
TakeAny(x) ==
    /\ work[x] = Idle
    /\ \E i \in DOMAIN queue[x] :
          /\ work' = [work EXCEPT ![x] = [busy |-> TRUE, msg |-> queue[x][i], left |-> queue[x][i].to]]
          /\ queue' = [queue EXCEPT ![x] = SubSeq(@, 1, i - 1) \o SubSeq(@, i + 1, Len(@))]
    /\ UNCHANGED <<phase, sendVars, up, sub, chan, got, errors>>

Take(x) ==
    /\ work[x] = Idle
    /\ queue[x] # <<>>
    /\ work' = [work EXCEPT ![x] = [busy |-> TRUE, msg |-> Head(queue[x]), left |-> Head(queue[x]).to]]
    /\ queue' = [queue EXCEPT ![x] = Tail(@)]
    /\ UNCHANGED <<phase, sendVars, up, sub, chan, got, errors>>

\* The connections of tenant t, or of its user u, in the pool of process x.
GroupConns(x, t) == {c \in Conns : phase[c] = "open" /\ HomeOf[c] = x /\ TenantOf[c] = t}
UserConns(x, t, u) == {c \in GroupConns(x, t) : UserOf[c] = u}

\* Mutant: a full channel blocks the dispatcher.
WriteBlocking(cs, m) ==
    /\ \A c \in cs : Len(chan[c]) < ChanCap
    /\ chan' = [c \in Conns |-> IF c \in cs THEN Append(chan[c], m) ELSE chan[c]]

\* Mutant: only one of the connections is written to.
WriteFirst(cs, m) ==
    chan' = [c \in Conns |-> IF c \in cs /\ c = (CHOOSE d \in cs : TRUE)
                             THEN TrySend(chan[c], m, ChanCap) ELSE chan[c]]

\* HubSSEConnection.Write to each: the error of a full channel is ignored.
Write(cs, m) ==
    chan' = [c \in Conns |-> IF c \in cs THEN TrySend(chan[c], m, ChanCap) ELSE chan[c]]

\* Mutant: the user is looked up in every tenant.
RangeUserAnyTenant(x) ==
    /\ work[x].busy
    /\ ~ToAll(work[x].msg)
    /\ work[x].left # <<>>
    /\ Write({c \in Conns : phase[c] = "open" /\ HomeOf[c] = x /\ UserOf[c] = Head(work[x].left)}, work[x].msg)
    /\ work' = [work EXCEPT ![x].left = Tail(@)]
    /\ UNCHANGED <<phase, sendVars, up, sub, queue, got, errors>>

RangeUser(x) ==
    /\ work[x].busy
    /\ ~ToAll(work[x].msg)
    /\ work[x].left # <<>>
    /\ Write(UserConns(x, TenantOf[work[x].msg.n], Head(work[x].left)), work[x].msg)
    /\ work' = [work EXCEPT ![x].left = Tail(@)]
    /\ UNCHANGED <<phase, sendVars, up, sub, queue, got, errors>>

UsersDone(x) ==
    /\ work[x].busy
    /\ ~ToAll(work[x].msg)
    /\ work[x].left = <<>>
    /\ work' = [work EXCEPT ![x] = Idle]
    /\ UNCHANGED <<phase, sendVars, up, sub, queue, chan, got, errors>>

RangeGroup(x) ==
    /\ work[x].busy
    /\ ToAll(work[x].msg)
    /\ Write(GroupConns(x, TenantOf[work[x].msg.n]), work[x].msg)
    /\ work' = [work EXCEPT ![x] = Idle]
    /\ UNCHANGED <<phase, sendVars, up, sub, queue, got, errors>>

-----------------------------------------------------------------------------
SendStep(n) == StartUnread(n) \/ PushUnread(n) \/ PushNotify(n)
DispatcherStep(x) == Take(x) \/ RangeUser(x) \/ UsersDone(x) \/ RangeGroup(x)
BrokerStep(x) == SubscribeChannel(x) \/ Receive(x)

Next ==
    \/ \E c \in Conns : Open(c) \/ Emit(c) \/ Quit(c)
    \/ \E n \in Notifies : SendStep(n) \/ UnreadFails(n) \/ NotifyFails(n)
    \/ \E x \in Nodes : DispatcherStep(x) \/ BrokerStep(x) \/ SubscriptionLost(x)

Spec == Init /\ [][Next]_vars

\* Goroutines that can run do run; whether a client reads is its own affair.
ServerSpec ==
    /\ Spec
    /\ \A n \in Notifies : WF_vars(SendStep(n))
    /\ \A x \in Nodes : WF_vars(DispatcherStep(x)) /\ WF_vars(BrokerStep(x))

\* ... and the clients read.
FairSpec == ServerSpec /\ \A c \in Conns : WF_vars(Emit(c))

-----------------------------------------------------------------------------
(* Properties *)

\* Types, and the capacity of the broker's and the connections' channels.
TypeOK ==
    /\ phase \in [Conns -> {"new", "open", "gone"}]
    /\ pc \in [Notifies -> {"idle", "unread", "done"}]
    /\ todo \in [Notifies -> Seq(Users)]
    /\ up \in SUBSET Nodes
    /\ sub \in [Nodes -> Seq(Msgs)]
    /\ queue \in [Nodes -> Seq(Msgs)] /\ \A x \in Nodes : Len(queue[x]) <= QueueCap
    /\ work \in [Nodes -> {Idle} \cup [busy : {TRUE}, msg : Msgs, left : Seq(Users)]]
    /\ chan \in [Conns -> Seq(Msgs)] /\ \A c \in Conns : Len(chan[c]) <= ChanCap
    /\ got \in [Conns -> Seq(Msgs)]
    /\ errors \in 0..MaxErrors

Occurrences(s, m) == Cardinality({i \in DOMAIN s : s[i] = m})

Addressed(c, m) ==
    /\ TenantOf[c] = TenantOf[m.n]
    /\ ToAll(m) \/ UserOf[c] \in Range(m.to)

\* A client receives only what is addressed to its tenant and its user, also
\* when another tenant has a user of the same id, on whatever process it is.
OnlyAddressed == \A c \in Conns : \A m \in Range(got[c]) \cup Range(chan[c]) : Addressed(c, m)

\* Neither a notification nor its count reaches a connection more often than its
\* user is listed in TargetIDs, and once when it goes to everybody: resubscribing
\* and publishing in a cluster duplicate nothing.
AtMostAsListed ==
    \A c \in Conns : \A m \in Range(got[c]) :
        Occurrences(got[c], m) <= IF Broadcast(m.n) THEN 1 ELSE Occurrences(TargetsOf[m.n], UserOf[c])

\* logic/sender.go:69: first the unread count, then the notification.  A client
\* that has a notification never receives its count later, whatever is dropped
\* on the way and however sends overlap.
UnreadFirst ==
    \A c \in Conns : \A i, j \in DOMAIN got[c] :
        i < j /\ got[c][i].n = got[c][j].n => got[c][i].type = "unread" \/ got[c][j].type = "notify"

\* The notification is published once; so is the count of a user who is not
\* listed twice in TargetIDs.
SentOnce(m) == m.type = "notify" \/ Occurrences(TargetsOf[m.n], Head(m.to)) <= 1

\* One dispatcher per process keeps the order: two connections of the same user
\* or tenant receive what they both receive in the same order, on whatever
\* processes they are.
AgreedOrder ==
    \A c, d \in Conns : \A i, j \in DOMAIN got[c], k, l \in DOMAIN got[d] :
        i < j /\ got[c][i] = got[d][k] /\ got[c][j] = got[d][l] /\ got[c][i] # got[c][j]
            /\ SentOnce(got[c][i]) /\ SentOnce(got[c][j]) => k < l

\* Message m has reached the client of connection c, or is on its way to it.
OnItsWay(c, m) ==
    LET x == HomeOf[c] IN
    \/ m \in Range(got[c]) \cup Range(chan[c]) \cup Range(queue[x]) \cup Range(sub[x])
    \/ work[x].busy /\ work[x].msg = m /\ (ToAll(m) \/ UserOf[c] \in Range(work[x].left))

\* Where a message is lost: outChan is full when it arrives, MessageChan is full
\* when it is written (nobody looks at the error), the subscription breaks
\* before it has been received.
Dropped(c, m) ==
    LET x == HomeOf[c] IN
    \/ sub[x] # <<>> /\ Head(sub[x]) = m /\ Len(queue[x]) = QueueCap
    \/ work[x].busy /\ work[x].msg = m /\ Len(chan[c]) = ChanCap
    \/ m \in Range(sub[x]) /\ x \in up /\ x \notin up'

\* Nothing else is lost: while a connection stays open, what is on its way to it
\* stays so through every hand-over between the goroutines, and whatever the
\* other connections do, unless it is dropped at one of these three places.
LostOnlyAtLimits ==
    [][\A c \in Conns, m \in Msgs :
          phase[c] = "open" /\ phase'[c] = "open" /\ Addressed(c, m) /\ OnItsWay(c, m)
              => OnItsWay(c, m)' \/ Dropped(c, m)]_vars

\* A client that does not read delays nobody: whatever the broker has queued
\* is dispatched, because Write drops what does not fit.
QueueDrains == \A x \in Nodes : queue[x] # <<>> ~> queue[x] = <<>> /\ work[x] = Idle

\* With room in the queues, every connection that is open when a notification
\* is pushed, in a process that is subscribed, receives it unless it goes first
\* or a call or a subscription fails.
Delivered ==
    \A n \in Notifies, c \in Conns :
        pc[n] = "unread" /\ phase[c] = "open" /\ Addressed(c, NotifyMsg(n))
            /\ (Cluster => HomeOf[c] \in up)
            ~> phase[c] = "gone" \/ NotifyMsg(n) \in Range(got[c]) \/ errors > 0
=============================================================================
