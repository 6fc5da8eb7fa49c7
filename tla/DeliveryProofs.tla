---------------------------- MODULE DeliveryProofs ----------------------------
(***************************************************************************)
(* Proofs about Delivery for either broker, any number of processes, any   *)
(* connections, sends, tenants and targets, and any capacities.            *)
(***************************************************************************)
EXTENDS Delivery, TLAPS, SequenceTheorems, FiniteSetTheorems

USE DeliveryAssumption
USE DEF sendVars

-----------------------------------------------------------------------------
(* The queues *)

\* Of two sets of messages, nothing in the first is the notification of which
\* the second holds the count.
Before(S, T) == \A m \in S, k \in T : m.n = k.n => m.type = "unread" \/ k.type = "notify"

\* A sequence in which no count comes after its notification.
Ordered(s) == \A i, j \in DOMAIN s : i < j /\ s[i].n = s[j].n => s[i].type = "unread" \/ s[j].type = "notify"

\* A send to a channel that has room: what it holds, ...
LEMMA AppendRange ==
    ASSUME NEW S, NEW s \in Seq(S), NEW m \in S
    PROVE  Range(Append(s, m)) = Range(s) \cup {m}
<1> DEFINE t == Append(s, m)
<1>1. /\ t \in Seq(S) /\ Len(t) = Len(s) + 1 /\ DOMAIN t = 1..(Len(s) + 1) /\ DOMAIN s = 1..Len(s) /\ Len(s) \in Nat
      /\ \A i \in 1..Len(s) : t[i] = s[i]
      /\ t[Len(s) + 1] = m
    BY AppendProperties, LenProperties
<1> HIDE DEF t
<1>2. Range(t) = Range(s) \cup {m}
    <2>1. ASSUME NEW i \in DOMAIN t PROVE t[i] \in Range(s) \cup {m}
        <3>1. i = Len(s) + 1 \/ (i \in DOMAIN s /\ t[i] = s[i])
            BY <1>1
        <3> QED
            BY <1>1, <3>1 DEF Range
    <2>2. ASSUME NEW i \in DOMAIN s PROVE i \in DOMAIN t /\ t[i] = s[i]
        BY <1>1
    <2>3. m \in Range(t)
        BY <1>1, Len(s) + 1 \in DOMAIN t DEF Range
    <2> QED
        BY <2>1, <2>2, <2>3, ZenonT(30) DEF Range
<1> QED
    BY <1>2 DEF t

\* ... and its order.
LEMMA AppendFacts ==
    ASSUME NEW S, NEW s \in Seq(S), NEW m \in S
    PROVE  /\ Append(s, m) \in Seq(S) /\ Len(Append(s, m)) = Len(s) + 1
           /\ Range(Append(s, m)) = Range(s) \cup {m}
           /\ Ordered(s) /\ Before(Range(s), {m}) => Ordered(Append(s, m))
<1> DEFINE t == Append(s, m)
<1>1. /\ t \in Seq(S) /\ Len(t) = Len(s) + 1 /\ DOMAIN t = 1..(Len(s) + 1) /\ DOMAIN s = 1..Len(s) /\ Len(s) \in Nat
      /\ \A i \in 1..Len(s) : t[i] = s[i]
      /\ t[Len(s) + 1] = m
    BY AppendProperties, LenProperties
<1> HIDE DEF t
<1>2. Range(t) = Range(s) \cup {m}
    BY AppendRange DEF t
<1>3. ASSUME Ordered(s), Before(Range(s), {m}) PROVE Ordered(t)
    <2> SUFFICES ASSUME NEW i \in DOMAIN t, NEW j \in DOMAIN t, i < j, t[i].n = t[j].n
                 PROVE  t[i].type = "unread" \/ t[j].type = "notify"
        BY DEF Ordered
    <2>1. CASE j = Len(s) + 1
        <3>1. i \in DOMAIN s /\ t[i] = s[i] /\ s[i] \in Range(s) /\ t[j] = m
            BY <1>1, <2>1 DEF Range
        <3> QED
            BY <1>3, <3>1 DEF Before
    <2>2. CASE j # Len(s) + 1
        <3>1. i \in DOMAIN s /\ j \in DOMAIN s /\ t[i] = s[i] /\ t[j] = s[j]
            BY <1>1, <2>2
        <3> QED
            BY <1>3, <3>1 DEF Ordered
    <2> QED
        BY <2>1, <2>2
<1> QED
    BY <1>1, <1>2, <1>3 DEF t

\* A non-blocking send.
LEMMA TrySendFacts ==
    ASSUME NEW S, NEW s \in Seq(S), NEW m \in S, NEW cap \in Nat, Len(s) <= cap
    PROVE  /\ TrySend(s, m, cap) \in Seq(S) /\ Len(TrySend(s, m, cap)) <= cap
           /\ Range(TrySend(s, m, cap)) \subseteq Range(s) \cup {m}
           /\ Ordered(s) /\ Before(Range(s), {m}) => Ordered(TrySend(s, m, cap))
<1>1. CASE Len(s) < cap
    <2>1. TrySend(s, m, cap) = Append(s, m) /\ Len(s) + 1 <= cap
        BY <1>1, LenProperties DEF TrySend
    <2>2. /\ Append(s, m) \in Seq(S) /\ Len(Append(s, m)) = Len(s) + 1
          /\ Range(Append(s, m)) = Range(s) \cup {m}
          /\ Ordered(s) /\ Before(Range(s), {m}) => Ordered(Append(s, m))
        BY AppendFacts, Zenon
    <2> QED
        BY <2>1, <2>2
<1>2. CASE ~(Len(s) < cap)
    <2>1. TrySend(s, m, cap) = s
        BY <1>2 DEF TrySend
    <2> QED
        BY <2>1
<1> QED
    BY <1>1, <1>2

\* A receive.
LEMMA TailFacts ==
    ASSUME NEW S, NEW s \in Seq(S), s # <<>>
    PROVE  /\ Head(s) \in S /\ Tail(s) \in Seq(S) /\ Len(Tail(s)) = Len(s) - 1
           /\ Head(s) \in Range(s) /\ Range(Tail(s)) \subseteq Range(s)
           /\ Ordered(s) => Ordered(Tail(s)) /\ Before({Head(s)}, Range(Tail(s)))
<1> DEFINE t == Tail(s)
<1>1. /\ t \in Seq(S) /\ Len(t) = Len(s) - 1 /\ DOMAIN t = 1..(Len(s) - 1) /\ DOMAIN s = 1..Len(s)
      /\ Len(s) \in Nat \ {0} /\ \A i \in 1..(Len(s) - 1) : t[i] = s[i + 1]
      /\ Head(s) \in S /\ Head(s) = s[1]
    BY HeadTailProperties, LenProperties, EmptySeq
<1> HIDE DEF t
<1>2. Head(s) \in Range(s) /\ Range(t) \subseteq Range(s)
    <2>1. 1 \in DOMAIN s /\ Head(s) = s[1]
        BY <1>1
    <2>2. ASSUME NEW i \in DOMAIN t PROVE \E j \in DOMAIN s : t[i] = s[j]
        BY <1>1, i + 1 \in DOMAIN s
    <2>3. Head(s) \in Range(s)
        BY <2>1 DEF Range
    <2>4. Range(t) \subseteq Range(s)
        BY <2>2 DEF Range
    <2> QED
        BY <2>3, <2>4
<1>3. ASSUME Ordered(s) PROVE Ordered(t) /\ Before({Head(s)}, Range(t))
    <2>1. ASSUME NEW i \in DOMAIN t, NEW j \in DOMAIN t, i < j, t[i].n = t[j].n
          PROVE  t[i].type = "unread" \/ t[j].type = "notify"
        <3>1. i + 1 \in DOMAIN s /\ j + 1 \in DOMAIN s /\ i + 1 < j + 1 /\ t[i] = s[i + 1] /\ t[j] = s[j + 1]
            BY <1>1, <2>1
        <3> QED
            BY <1>3, <2>1, <3>1 DEF Ordered
    <2>2. ASSUME NEW k \in Range(t), Head(s).n = k.n PROVE Head(s).type = "unread" \/ k.type = "notify"
        <3>1. PICK j \in DOMAIN t : k = t[j]
            BY DEF Range
        <3>2. 1 \in DOMAIN s /\ j + 1 \in DOMAIN s /\ 1 < j + 1 /\ k = s[j + 1] /\ Head(s) = s[1]
            BY <1>1, <3>1
        <3> QED
            BY <1>3, <2>2, <3>2 DEF Ordered
    <2> QED
        BY <2>1, <2>2 DEF Ordered, Before
<1> QED
    BY <1>1, <1>2, <1>3 DEF t

\* The messages, and the empty queue.
LEMMA MsgFacts ==
    /\ \A n \in Notifies :
          /\ NotifyMsg(n) \in Msgs /\ NotifyMsg(n).n = n /\ NotifyMsg(n).type = "notify"
          /\ \A u \in Users : UnreadMsg(n, u) \in Msgs /\ UnreadMsg(n, u).n = n /\ UnreadMsg(n, u).type = "unread"
    /\ \A m \in Msgs : m.n \in Notifies /\ m.to \in Seq(Users) /\ m.type \in {"unread", "notify"}
<1>1. ASSUME NEW n \in Notifies
      PROVE  /\ NotifyMsg(n).n = n /\ NotifyMsg(n).to \in Seq(Users) /\ NotifyMsg(n).type = "notify"
             /\ \A u \in Users : /\ UnreadMsg(n, u).n = n /\ UnreadMsg(n, u).to \in Seq(Users)
                                 /\ UnreadMsg(n, u).type = "unread"
    BY DEF NotifyMsg, UnreadMsg
<1>2. \A n \in Notifies : NotifyMsg(n) \in Msgs /\ \A u \in Users : UnreadMsg(n, u) \in Msgs
    BY DEF Msgs
<1>3. ASSUME NEW m \in Msgs PROVE m.n \in Notifies /\ m.to \in Seq(Users) /\ m.type \in {"unread", "notify"}
    <2>1. CASE \E n \in Notifies : m = NotifyMsg(n)
        BY <1>1, <2>1
    <2>2. CASE \E n \in Notifies, u \in Users : m = UnreadMsg(n, u)
        BY <1>1, <2>2
    <2> QED
        BY <2>1, <2>2 DEF Msgs
<1> QED
    BY <1>1, <1>2, <1>3

LEMMA EmptyFacts == Range(<<>>) = {} /\ Ordered(<<>>)
BY DEF Range, Ordered

-----------------------------------------------------------------------------
(* Types *)

\* What Publish does to the queues of the nodes.
LEMMA PublishFacts ==
    ASSUME TypeOK, NEW x \in Nodes, NEW m \in Msgs, Publish(x, m)
    PROVE  /\ sub' \in [Nodes -> Seq(Msgs)] /\ queue' \in [Nodes -> Seq(Msgs)]
           /\ \A y \in Nodes : Len(queue'[y]) <= QueueCap
           /\ \A y \in Nodes :
                 /\ Cluster => queue'[y] = queue[y] /\ sub'[y] \in {sub[y], Append(sub[y], m)}
                 /\ ~Cluster => queue'[y] \in {queue[y], TrySend(queue[y], m, QueueCap)} /\ sub'[y] = sub[y]
<1>1. CASE Cluster
    <2>1. \A y \in Nodes : sub[y] \in Seq(Msgs) /\ Append(sub[y], m) \in Seq(Msgs)
        BY AppendFacts DEF TypeOK
    <2>2. queue' = queue /\ sub' = [y \in Nodes |-> IF y \in up THEN Append(sub[y], m) ELSE sub[y]]
        BY <1>1 DEF Publish
    <2> QED
        BY <1>1, <2>1, <2>2 DEF TypeOK
<1>2. CASE ~Cluster
    <2>1. TrySend(queue[x], m, QueueCap) \in Seq(Msgs) /\ Len(TrySend(queue[x], m, QueueCap)) <= QueueCap
        <3>1. queue[x] \in Seq(Msgs) /\ Len(queue[x]) <= QueueCap /\ QueueCap \in Nat
            BY DEF TypeOK
        <3> QED
            BY <3>1, TrySendFacts, Zenon
    <2>2. sub' = sub /\ queue' = [queue EXCEPT ![x] = TrySend(queue[x], m, QueueCap)]
        BY <1>2 DEF Publish
    <2> QED
        BY <1>2, <2>1, <2>2 DEF TypeOK
<1> QED
    BY <1>1, <1>2

\* What Write does to the channels of the connections.
LEMMA WriteFacts ==
    ASSUME TypeOK, NEW cs, NEW m \in Msgs, Write(cs, m)
    PROVE  /\ chan' \in [Conns -> Seq(Msgs)]
           /\ \A c \in Conns : Len(chan'[c]) <= ChanCap
           /\ \A c \in Conns : chan'[c] = IF c \in cs THEN TrySend(chan[c], m, ChanCap) ELSE chan[c]
<1>1. ASSUME NEW c \in Conns
      PROVE  TrySend(chan[c], m, ChanCap) \in Seq(Msgs) /\ Len(TrySend(chan[c], m, ChanCap)) <= ChanCap
    <2>1. chan[c] \in Seq(Msgs) /\ Len(chan[c]) <= ChanCap /\ ChanCap \in Nat
        BY DEF TypeOK
    <2> QED
        BY <2>1, TrySendFacts, Zenon
<1>2. chan' = [c \in Conns |-> IF c \in cs THEN TrySend(chan[c], m, ChanCap) ELSE chan[c]]
    BY DEF Write
<1> QED
    BY <1>1, <1>2 DEF TypeOK

\* Any order of the users who are online is a sequence of users.
LEMMA OrdersAreSeqs ==
    ASSUME NEW S \in SUBSET Users
    PROVE  Orders(S) \subseteq Seq(Users)
<1>1. Cardinality(S) \in Nat
    BY FS_Subset, FS_CardinalityType
<1> QED
    BY <1>1, SeqDef DEF Orders

LEMMA TypeInit == Init => TypeOK
<1> SUFFICES ASSUME Init PROVE TypeOK
    OBVIOUS
<1>1. \A S : <<>> \in Seq(S) /\ Len(<<>>) = 0
    OBVIOUS
<1> QED
    BY <1>1 DEF Init, TypeOK

\* A busy dispatcher.
LEMMA BusyFacts ==
    ASSUME TypeOK, NEW x \in Nodes, work[x].busy
    PROVE  /\ work[x] \in [busy : {TRUE}, msg : Msgs, left : Seq(Users)]
           /\ work[x].msg \in Msgs /\ work[x].left \in Seq(Users)
<1>1. work[x] # Idle
    BY DEF Idle
<1> QED
    BY <1>1 DEF TypeOK

LEMMA TypeStep == TypeOK /\ [Next]_vars => TypeOK'
<1> SUFFICES ASSUME TypeOK, [Next]_vars PROVE TypeOK'
    OBVIOUS
<1>1. ASSUME NEW c \in Conns, Open(c) PROVE TypeOK'
    BY <1>1 DEF Open, TypeOK
<1>2. ASSUME NEW c \in Conns, Emit(c) PROVE TypeOK'
    <2>1. chan[c] \in Seq(Msgs) /\ chan[c] # <<>> /\ got[c] \in Seq(Msgs) /\ Len(chan[c]) <= ChanCap
        BY <1>2 DEF Emit, TypeOK
    <2>2. Head(chan[c]) \in Msgs /\ Tail(chan[c]) \in Seq(Msgs) /\ Len(Tail(chan[c])) <= ChanCap
        BY <2>1, TailFacts, LenProperties
    <2>3. Append(got[c], Head(chan[c])) \in Seq(Msgs)
        BY <2>1, <2>2, AppendFacts
    <2> QED
        BY <1>2, <2>2, <2>3 DEF Emit, TypeOK
<1>3. ASSUME NEW c \in Conns, Quit(c) PROVE TypeOK'
    <2>1. <<>> \in Seq(Msgs) /\ Len(<<>>) <= ChanCap
        OBVIOUS
    <2> QED
        BY <1>3, <2>1 DEF Quit, TypeOK
<1>4. ASSUME NEW n \in Notifies, StartUnread(n) PROVE TypeOK'
    <2>1. OnlineUsers(HomeOf[n], TenantOf[n]) \in SUBSET Users
        BY DEF OnlineUsers
    <2>2. PICK us \in Seq(Users) : todo' = [todo EXCEPT ![n] = us]
        BY <1>4, <2>1, OrdersAreSeqs DEF StartUnread
    <2> QED
        BY <1>4, <2>2 DEF StartUnread, TypeOK
<1>5. ASSUME NEW n \in Notifies, PushUnread(n) PROVE TypeOK'
    <2>1. Head(todo[n]) \in Users /\ Tail(todo[n]) \in Seq(Users)
        BY <1>5, TailFacts DEF PushUnread, TypeOK
    <2>2. UnreadMsg(n, Head(todo[n])) \in Msgs /\ HomeOf[n] \in Nodes
        BY <2>1, MsgFacts
    <2>3. /\ sub' \in [Nodes -> Seq(Msgs)] /\ queue' \in [Nodes -> Seq(Msgs)]
          /\ \A y \in Nodes : Len(queue'[y]) <= QueueCap
        BY <1>5, <2>2, PublishFacts DEF PushUnread
    <2> QED
        BY <1>5, <2>1, <2>3 DEF PushUnread, TypeOK
<1>6. ASSUME NEW n \in Notifies, UnreadFails(n) PROVE TypeOK'
    <2>1. Tail(todo[n]) \in Seq(Users)
        BY <1>6, TailFacts DEF UnreadFails, TypeOK
    <2>2. errors' \in 0..MaxErrors
        BY <1>6 DEF UnreadFails, TypeOK
    <2>3. todo' \in [Notifies -> Seq(Users)]
        BY <1>6, <2>1 DEF UnreadFails, TypeOK
    <2> QED
        BY <1>6, <2>2, <2>3 DEF UnreadFails, TypeOK
<1>7. ASSUME NEW n \in Notifies, PushNotify(n) PROVE TypeOK'
    <2>1. NotifyMsg(n) \in Msgs /\ HomeOf[n] \in Nodes
        BY MsgFacts
    <2>2. /\ sub' \in [Nodes -> Seq(Msgs)] /\ queue' \in [Nodes -> Seq(Msgs)]
          /\ \A y \in Nodes : Len(queue'[y]) <= QueueCap
        BY <1>7, <2>1, PublishFacts DEF PushNotify
    <2> QED
        BY <1>7, <2>2 DEF PushNotify, TypeOK
<1>8. ASSUME NEW n \in Notifies, NotifyFails(n) PROVE TypeOK'
    <2>1. errors' \in 0..MaxErrors
        BY <1>8 DEF NotifyFails, TypeOK
    <2>2. pc' \in [Notifies -> {"idle", "unread", "done"}]
        BY <1>8 DEF NotifyFails, TypeOK
    <2> QED
        BY <1>8, <2>1, <2>2 DEF NotifyFails, TypeOK
<1>9. ASSUME NEW x \in Nodes, Take(x) PROVE TypeOK'
    <2>1. Head(queue[x]) \in Msgs /\ Tail(queue[x]) \in Seq(Msgs) /\ Len(Tail(queue[x])) <= QueueCap
        BY <1>9, TailFacts, LenProperties DEF Take, TypeOK
    <2>2. Head(queue[x]).to \in Seq(Users)
        BY <2>1, MsgFacts
    <2>3. [busy |-> TRUE, msg |-> Head(queue[x]), left |-> Head(queue[x]).to]
              \in [busy : {TRUE}, msg : Msgs, left : Seq(Users)]
        BY <2>1, <2>2
    <2> QED
        BY <1>9, <2>1, <2>3 DEF Take, TypeOK
<1>10. ASSUME NEW x \in Nodes, RangeUser(x) PROVE TypeOK'
    <2>1. work[x] \in [busy : {TRUE}, msg : Msgs, left : Seq(Users)] /\ work[x].msg \in Msgs
        BY <1>10, BusyFacts DEF RangeUser
    <2>2. Tail(work[x].left) \in Seq(Users)
        BY <1>10, <2>1, TailFacts DEF RangeUser
    <2>3. [work[x] EXCEPT !.left = Tail(work[x].left)] \in [busy : {TRUE}, msg : Msgs, left : Seq(Users)]
        BY <2>1, <2>2
    <2>4. work' = [work EXCEPT ![x] = [work[x] EXCEPT !.left = Tail(work[x].left)]]
        BY <1>10 DEF RangeUser, TypeOK
    <2>5. chan' \in [Conns -> Seq(Msgs)] /\ \A c \in Conns : Len(chan'[c]) <= ChanCap
        BY <1>10, <2>1, WriteFacts DEF RangeUser
    <2>6. work' \in [Nodes -> {Idle} \cup [busy : {TRUE}, msg : Msgs, left : Seq(Users)]]
        BY <2>3, <2>4 DEF TypeOK
    <2> QED
        BY <1>10, <2>5, <2>6 DEF RangeUser, TypeOK
<1>11. ASSUME NEW x \in Nodes, UsersDone(x) PROVE TypeOK'
    BY <1>11 DEF UsersDone, TypeOK
<1>12. ASSUME NEW x \in Nodes, RangeGroup(x) PROVE TypeOK'
    <2>1. work[x].msg \in Msgs
        BY <1>12, BusyFacts DEF RangeGroup
    <2>2. chan' \in [Conns -> Seq(Msgs)] /\ \A c \in Conns : Len(chan'[c]) <= ChanCap
        BY <1>12, <2>1, WriteFacts DEF RangeGroup
    <2> QED
        BY <1>12, <2>2 DEF RangeGroup, TypeOK
<1>13. ASSUME NEW x \in Nodes, SubscribeChannel(x) PROVE TypeOK'
    BY <1>13 DEF SubscribeChannel, TypeOK
<1>14. ASSUME NEW x \in Nodes, Receive(x) PROVE TypeOK'
    <2>1. Head(sub[x]) \in Msgs /\ Tail(sub[x]) \in Seq(Msgs)
        BY <1>14, TailFacts DEF Receive, TypeOK
    <2>2. /\ TrySend(queue[x], Head(sub[x]), QueueCap) \in Seq(Msgs)
          /\ Len(TrySend(queue[x], Head(sub[x]), QueueCap)) <= QueueCap
        <3>1. queue[x] \in Seq(Msgs) /\ Len(queue[x]) <= QueueCap /\ QueueCap \in Nat
            BY DEF TypeOK
        <3> QED
            BY <2>1, <3>1, TrySendFacts, Zenon
    <2> QED
        BY <1>14, <2>1, <2>2 DEF Receive, TypeOK
<1>15. ASSUME NEW x \in Nodes, SubscriptionLost(x) PROVE TypeOK'
    <2>1. <<>> \in Seq(Msgs)
        OBVIOUS
    <2>2. errors' \in 0..MaxErrors
        BY <1>15 DEF SubscriptionLost, TypeOK
    <2>3. sub' \in [Nodes -> Seq(Msgs)] /\ up' \in SUBSET Nodes
        BY <1>15, <2>1 DEF SubscriptionLost, TypeOK
    <2> QED
        BY <1>15, <2>2, <2>3 DEF SubscriptionLost, TypeOK
<1>16. CASE UNCHANGED vars
    BY <1>16 DEF vars, TypeOK
<1> QED
    BY <1>1, <1>2, <1>3, <1>4, <1>5, <1>6, <1>7, <1>8, <1>9, <1>10, <1>11, <1>12, <1>13, <1>14, <1>15, <1>16
    DEF Next, SendStep, DispatcherStep, BrokerStep

\* Types, and the capacities: no channel of a broker or a connection ever holds
\* more than it has room for.
THEOREM TypeCorrect == Spec => []TypeOK
BY TypeInit, TypeStep, PTL DEF Spec

-----------------------------------------------------------------------------
(* What is where: the messages that a process has not written yet, and those *)
(* that a connection holds or its client has                                 *)

InWork(x) == IF work[x].busy THEN {work[x].msg} ELSE {}
Ahead(x) == InWork(x) \cup Range(queue[x]) \cup Range(sub[x])
Held(c) == Range(got[c]) \cup Range(chan[c])

\* The users a dispatcher has left are targets of its message.
LeftInv == \A x \in Nodes : work[x].busy => Range(work[x].left) \subseteq Range(work[x].msg.to)

\* The stages of a message in a process are in order, ...
NodeOrder(x) ==
    /\ Ordered(sub[x]) /\ Ordered(queue[x])
    /\ Before(Range(queue[x]), Range(sub[x]))
    /\ Before(InWork(x), Range(queue[x]) \cup Range(sub[x]))
    /\ ~Cluster => sub[x] = <<>>

\* ... those of a connection too, and after what its process still has, ...
ConnOrder(c) ==
    /\ Ordered(got[c]) /\ Ordered(chan[c]) /\ Before(Range(got[c]), Range(chan[c]))
    /\ Before(Held(c), Ahead(HomeOf[c]))

\* ... and of a send that has not pushed its notification there are only counts.
CountOnly(n, S) == \A m \in S : m.n = n => m.type = "unread"

SendOrder(n) ==
    pc[n] # "done" => (\A x \in Nodes : CountOnly(n, Ahead(x))) /\ (\A c \in Conns : CountOnly(n, Held(c)))

OrderInv ==
    /\ \A x \in Nodes : NodeOrder(x)
    /\ \A c \in Conns : ConnOrder(c)
    /\ \A n \in Notifies : SendOrder(n)

\* A process or a connection that a step leaves alone.
LEMMA NodeSame ==
    ASSUME NEW x, work'[x] = work[x], queue'[x] = queue[x], sub'[x] = sub[x]
    PROVE  Ahead(x)' = Ahead(x) /\ InWork(x)' = InWork(x) /\ (NodeOrder(x) => NodeOrder(x)')
BY DEF Ahead, InWork, NodeOrder

LEMMA ConnSame ==
    ASSUME NEW c, got'[c] = got[c], chan'[c] = chan[c], Ahead(HomeOf[c])' \subseteq Ahead(HomeOf[c])
    PROVE  Held(c)' = Held(c) /\ (ConnOrder(c) => ConnOrder(c)')
<1>1. Held(c)' = Held(c)
    BY DEF Held
<1>2. Before(Held(c), Ahead(HomeOf[c])) => Before(Held(c)', Ahead(HomeOf[c])')
    BY <1>1 DEF Before
<1> QED
    BY <1>1, <1>2 DEF ConnOrder

\* A step that publishes nothing: messages only move on.
LEMMA SendSame ==
    ASSUME NEW n \in Notifies, SendOrder(n), pc'[n] # "done" => pc[n] # "done",
           \A x \in Nodes : Ahead(x)' \subseteq Ahead(x),
           \A c \in Conns : Held(c)' \subseteq Held(c) \cup Ahead(HomeOf[c])
    PROVE  SendOrder(n)'
<1> SUFFICES ASSUME pc'[n] # "done"
             PROVE  (\A x \in Nodes : CountOnly(n, Ahead(x)')) /\ (\A c \in Conns : CountOnly(n, Held(c)'))
    BY DEF SendOrder, CountOnly
<1>1. \A x \in Nodes : CountOnly(n, Ahead(x))
    BY DEF SendOrder
<1>2. \A c \in Conns : CountOnly(n, Held(c)) /\ HomeOf[c] \in Nodes
    BY DEF SendOrder
<1> QED
    BY <1>1, <1>2 DEF CountOnly

\* A message that a send publishes comes after everything there is.
LEMMA PushedLast ==
    ASSUME OrderInv, NEW n \in Notifies, pc[n] # "done", NEW m \in Msgs, m.n = n
    PROVE  (\A x \in Nodes : Before(Ahead(x), {m})) /\ (\A c \in Conns : Before(Held(c), {m}))
<1>1. (\A x \in Nodes : CountOnly(n, Ahead(x))) /\ (\A c \in Conns : CountOnly(n, Held(c)))
    BY DEF OrderInv, SendOrder
<1> QED
    BY <1>1 DEF CountOnly, Before

\* A message does not come before itself.
LEMMA SelfOrder ==
    ASSUME NEW m \in Msgs
    PROVE  Before({m}, {m})
BY MsgFacts DEF Before

\* Publishing keeps the order.
LEMMA PublishOrder ==
    ASSUME TypeOK, OrderInv, NEW n \in Notifies, pc[n] = "unread", NEW m \in Msgs, m.n = n,
           m.type = "unread" \/ pc'[n] = "done", \A k \in Notifies : k # n => pc'[k] = pc[k],
           Publish(HomeOf[n], m), UNCHANGED <<work, chan, got>>
    PROVE  OrderInv'
<1>0. /\ \A y \in Nodes : Before(Ahead(y), {m})
      /\ \A c \in Conns : Before(Held(c), {m})
    BY PushedLast
<1>1. ASSUME NEW y \in Nodes PROVE NodeOrder(y)' /\ Ahead(y)' \subseteq Ahead(y) \cup {m}
    <2>0. queue[y] \in Seq(Msgs) /\ sub[y] \in Seq(Msgs) /\ Len(queue[y]) <= QueueCap /\ QueueCap \in Nat
        BY DEF TypeOK
    <2>1. NodeOrder(y) /\ InWork(y)' = InWork(y)
        BY DEF OrderInv, InWork
    <2>2. Before(InWork(y), {m}) /\ Before(Range(queue[y]), {m}) /\ Before(Range(sub[y]), {m})
        BY <1>0 DEF Ahead, Before
    <2>3. CASE queue'[y] = queue[y] /\ sub'[y] = sub[y]
        BY <2>1, <2>3, NodeSame
    <2>4. CASE Cluster /\ queue'[y] = queue[y] /\ sub'[y] = Append(sub[y], m)
        <3>1. Range(sub'[y]) = Range(sub[y]) \cup {m} /\ Ordered(sub'[y])
            BY <2>0, <2>1, <2>2, <2>4, AppendFacts DEF NodeOrder
        <3>2. Before(Range(queue'[y]), Range(sub'[y]))
            BY <2>1, <2>2, <2>4, <3>1 DEF NodeOrder, Before
        <3>3. Before(InWork(y)', Range(queue'[y]) \cup Range(sub'[y]))
            BY <2>1, <2>2, <2>4, <3>1 DEF NodeOrder, Before
        <3> QED
            BY <2>1, <2>4, <3>1, <3>2, <3>3 DEF NodeOrder, Ahead
    <2>5. CASE ~Cluster /\ queue'[y] = TrySend(queue[y], m, QueueCap) /\ sub'[y] = sub[y]
        <3>1. Range(queue'[y]) \subseteq Range(queue[y]) \cup {m} /\ Ordered(queue'[y])
            <4>1. Ordered(queue[y])
                BY <2>1 DEF NodeOrder
            <4> QED
                BY <2>0, <2>2, <2>5, <4>1, TrySendFacts
        <3>2. sub'[y] = <<>> /\ Range(sub'[y]) = {} /\ Ordered(sub'[y])
            BY <2>1, <2>5, EmptyFacts DEF NodeOrder
        <3>3. Before(InWork(y)', Range(queue'[y]))
            BY <2>1, <2>2, <3>1 DEF NodeOrder, Before
        <3>4. Before(Range(queue'[y]), {}) /\ Before(InWork(y)', Range(queue'[y]) \cup {})
            BY <3>3 DEF Before
        <3>5. Ahead(y)' \subseteq Ahead(y) \cup {m}
            BY <2>1, <2>5, <3>1 DEF Ahead
        <3> QED
            BY <3>1, <3>2, <3>4, <3>5 DEF NodeOrder
    <2> QED
        BY <2>3, <2>4, <2>5, PublishFacts
<1>2. ASSUME NEW c \in Conns PROVE ConnOrder(c)' /\ Held(c)' = Held(c)
    <2>1. Held(c)' = Held(c) /\ ConnOrder(c) /\ HomeOf[c] \in Nodes
        BY DEF Held, OrderInv
    <2>2. Before(Held(c)', Ahead(HomeOf[c])')
        BY <1>0, <1>1, <2>1 DEF ConnOrder, Before
    <2> QED
        BY <2>1, <2>2 DEF ConnOrder
<1>3. ASSUME NEW k \in Notifies PROVE SendOrder(k)'
    <2> SUFFICES ASSUME pc'[k] # "done"
                 PROVE  (\A y \in Nodes : CountOnly(k, Ahead(y)')) /\ (\A c \in Conns : CountOnly(k, Held(c)'))
        BY DEF SendOrder, CountOnly
    <2>1. pc[k] # "done" /\ (m.n = k => m.type = "unread")
        BY DEF TypeOK
    <2>2. (\A y \in Nodes : CountOnly(k, Ahead(y))) /\ (\A c \in Conns : CountOnly(k, Held(c)))
        BY <2>1 DEF OrderInv, SendOrder
    <2> QED
        BY <1>1, <1>2, <2>1, <2>2 DEF CountOnly
<1> QED
    BY <1>1, <1>2, <1>3 DEF OrderInv

\* Writing the message of a dispatcher to connections of its process keeps the
\* order, whether it then goes on with the message or is done with it.
LEMMA WriteOrder ==
    ASSUME TypeOK, OrderInv, NEW x \in Nodes, work[x].busy, NEW cs,
           \A c \in cs : HomeOf[c] = x,
           Write(cs, work[x].msg), InWork(x)' \subseteq InWork(x),
           \A y \in Nodes : y # x => work'[y] = work[y],
           UNCHANGED <<pc, sub, queue, got>>
    PROVE  OrderInv'
<1> DEFINE m == work[x].msg
<1>0. m \in Msgs /\ InWork(x) = {m} /\ Before({m}, {m})
    BY BusyFacts, SelfOrder DEF InWork
<1>1. ASSUME NEW y \in Nodes PROVE NodeOrder(y)' /\ Ahead(y)' \subseteq Ahead(y)
    <2>1. CASE y # x
        BY <2>1, NodeSame DEF OrderInv
    <2>2. CASE y = x
        <3>1. NodeOrder(y) /\ Ahead(y)' \subseteq Ahead(y)
            BY <2>2 DEF OrderInv, Ahead
        <3>2. Before(InWork(y)', Range(queue[y]) \cup Range(sub[y]))
            BY <2>2, <3>1 DEF NodeOrder, Before
        <3> QED
            BY <3>1, <3>2 DEF NodeOrder
    <2> QED
        BY <2>1, <2>2
<1>2. ASSUME NEW c \in Conns PROVE ConnOrder(c)' /\ Held(c)' \subseteq Held(c) \cup Ahead(HomeOf[c])
    <2>0. ConnOrder(c) /\ HomeOf[c] \in Nodes /\ Ahead(HomeOf[c])' \subseteq Ahead(HomeOf[c])
        BY <1>1 DEF OrderInv
    <2>1. CASE c \notin cs
        <3>1. chan'[c] = chan[c]
            BY <1>0, <2>1, WriteFacts
        <3> QED
            BY <2>0, <3>1, ConnSame
    <2>2. CASE c \in cs
        <3>1. HomeOf[c] = x /\ m \in Ahead(x) /\ Before(Held(c), {m})
            <4>1. HomeOf[c] = x
                BY <2>2
            <4>2. m \in Ahead(x)
                BY <1>0 DEF Ahead
            <4>3. Before(Held(c), Ahead(x))
                BY <2>0, <4>1 DEF ConnOrder
            <4> HIDE DEF m
            <4> QED
                BY <4>1, <4>2, <4>3 DEF Before
        <3>2. Before(Range(chan[c]), {m}) /\ Ordered(chan[c])
            BY <2>0, <3>1 DEF Held, Before, ConnOrder
        <3>3. chan'[c] = TrySend(chan[c], m, ChanCap)
            BY <1>0, <2>2, WriteFacts
        <3>4. chan[c] \in Seq(Msgs) /\ Len(chan[c]) <= ChanCap /\ ChanCap \in Nat
            BY DEF TypeOK
        <3>5. Range(chan'[c]) \subseteq Range(chan[c]) \cup {m} /\ Ordered(chan'[c])
            <4> HIDE DEF m
            <4>1. /\ Range(TrySend(chan[c], m, ChanCap)) \subseteq Range(chan[c]) \cup {m}
                  /\ Ordered(TrySend(chan[c], m, ChanCap))
                BY <1>0, <3>2, <3>4, TrySendFacts, ZenonT(30)
            <4> QED
                BY <3>3, <4>1
        <3>6. Held(c)' \subseteq Held(c) \cup {m}
            BY <3>5 DEF Held
        <3>7. Before(Range(got'[c]), Range(chan'[c]))
            BY <2>0, <3>1, <3>5 DEF ConnOrder, Held, Before
        <3>8. Before({m}, Ahead(x))
            BY <1>0 DEF OrderInv, NodeOrder, Ahead, Before
        <3>9. Before(Held(c)', Ahead(HomeOf[c])')
            BY <2>0, <3>1, <3>6, <3>8 DEF ConnOrder, Before
        <3> QED
            BY <2>0, <3>1, <3>5, <3>6, <3>7, <3>9 DEF ConnOrder
    <2> QED
        BY <2>1, <2>2
<1>3. ASSUME NEW n \in Notifies PROVE SendOrder(n)'
    BY <1>1, <1>2, SendSame DEF OrderInv
<1> QED
    BY <1>1, <1>2, <1>3 DEF OrderInv

\* The order is kept, action by action.
LEMMA OrderStep == TypeOK /\ OrderInv /\ [Next]_vars => OrderInv'
<1> SUFFICES ASSUME TypeOK, OrderInv, [Next]_vars PROVE OrderInv'
    OBVIOUS
<1>0. /\ \A x \in Nodes : NodeOrder(x)
      /\ \A c \in Conns : ConnOrder(c) /\ HomeOf[c] \in Nodes
      /\ \A n \in Notifies : SendOrder(n)
    BY DEF OrderInv
<1>1. ASSUME UNCHANGED <<sub, queue, work, chan, got>>, \A n \in Notifies : pc'[n] # "done" => pc[n] # "done"
      PROVE  OrderInv'
    <2>1. \A x \in Nodes : NodeOrder(x)' /\ Ahead(x)' = Ahead(x)
        BY <1>0, <1>1, NodeSame
    <2>2. \A c \in Conns : ConnOrder(c)' /\ Held(c)' = Held(c)
        BY <1>0, <1>1, <2>1, ConnSame
    <2>3. \A n \in Notifies : SendOrder(n)'
        BY <1>0, <1>1, <2>1, <2>2, SendSame
    <2> QED
        BY <2>1, <2>2, <2>3 DEF OrderInv
<1>2. ASSUME NEW c \in Conns, Emit(c) \/ Quit(c) PROVE OrderInv'
    <2>0. UNCHANGED <<pc, sub, queue, work>>
        BY <1>2 DEF Emit, Quit
    <2>1. \A x \in Nodes : NodeOrder(x)' /\ Ahead(x)' = Ahead(x)
        BY <1>0, <2>0, NodeSame
    <2>2. ASSUME NEW d \in Conns, d # c PROVE ConnOrder(d)' /\ Held(d)' \subseteq Held(d)
        <3>1. got'[d] = got[d] /\ chan'[d] = chan[d]
            BY <1>2, <2>2 DEF Emit, Quit, TypeOK
        <3> QED
            BY <1>0, <2>1, <3>1, ConnSame
    <2>3. ConnOrder(c)' /\ Held(c)' \subseteq Held(c)
        <3>0. ConnOrder(c) /\ got[c] \in Seq(Msgs) /\ chan[c] \in Seq(Msgs)
            BY <1>0 DEF TypeOK
        <3>1. CASE Emit(c)
            <4>1. chan[c] # <<>> /\ got'[c] = Append(got[c], Head(chan[c])) /\ chan'[c] = Tail(chan[c])
                BY <3>1 DEF Emit, TypeOK
            <4>2. /\ Head(chan[c]) \in Msgs /\ Head(chan[c]) \in Range(chan[c])
                  /\ Range(chan'[c]) \subseteq Range(chan[c])
                  /\ Ordered(chan'[c]) /\ Before({Head(chan[c])}, Range(chan'[c]))
                <5>1. Ordered(chan[c])
                    BY <3>0 DEF ConnOrder
                <5>2. /\ Head(chan[c]) \in Msgs /\ Head(chan[c]) \in Range(chan[c])
                      /\ Range(Tail(chan[c])) \subseteq Range(chan[c])
                      /\ Ordered(Tail(chan[c])) /\ Before({Head(chan[c])}, Range(Tail(chan[c])))
                    BY <3>0, <4>1, <5>1, TailFacts
                <5> QED
                    BY <4>1, <5>2
            <4>3. Before(Range(got[c]), {Head(chan[c])}) /\ Ordered(got[c])
                BY <3>0, <4>2 DEF ConnOrder, Before
            <4>4. Ordered(got'[c]) /\ Range(got'[c]) = Range(got[c]) \cup {Head(chan[c])}
                <5> DEFINE g == Append(got[c], Head(chan[c]))
                <5>1. Ordered(g) /\ Range(g) = Range(got[c]) \cup {Head(chan[c])}
                    BY <3>0, <4>2, <4>3, AppendFacts, Zenon
                <5> QED
                    BY <4>1, <5>1
            <4>5. Held(c)' \subseteq Held(c)
                BY <4>2, <4>4 DEF Held
            <4>6. Before(Range(got'[c]), Range(chan'[c]))
                BY <3>0, <4>2, <4>4 DEF ConnOrder, Before
            <4>7. Before(Held(c)', Ahead(HomeOf[c])')
                BY <1>0, <2>1, <3>0, <4>5 DEF ConnOrder, Before
            <4> QED
                BY <4>2, <4>4, <4>5, <4>6, <4>7 DEF ConnOrder
        <3>2. CASE Quit(c)
            <4>1. chan'[c] = <<>> /\ got'[c] = got[c]
                BY <3>2 DEF Quit, TypeOK
            <4>2. Range(chan'[c]) = {} /\ Ordered(chan'[c]) /\ Held(c)' \subseteq Held(c)
                BY <4>1, EmptyFacts DEF Held
            <4>3. Before(Range(got'[c]), Range(chan'[c])) /\ Before(Held(c)', Ahead(HomeOf[c])')
                BY <1>0, <2>1, <3>0, <4>2 DEF ConnOrder, Before
            <4> QED
                BY <3>0, <4>1, <4>2, <4>3 DEF ConnOrder
        <3> QED
            BY <1>2, <3>1, <3>2
    <2>4. \A n \in Notifies : SendOrder(n)'
        BY <1>0, <2>0, <2>1, <2>2, <2>3, SendSame
    <2> QED
        BY <2>1, <2>2, <2>3, <2>4 DEF OrderInv
<1>3. ASSUME NEW n \in Notifies, PushUnread(n) PROVE OrderInv'
    <2>1. Head(todo[n]) \in Users
        BY <1>3, TailFacts DEF PushUnread, TypeOK
    <2> DEFINE m == UnreadMsg(n, Head(todo[n]))
    <2>2. m \in Msgs /\ m.n = n /\ m.type = "unread"
        BY <2>1, MsgFacts
    <2>3. pc[n] = "unread" /\ Publish(HomeOf[n], m) /\ UNCHANGED <<pc, work, chan, got>>
        BY <1>3 DEF PushUnread
    <2> HIDE DEF m
    <2> QED
        BY <2>2, <2>3, PublishOrder
<1>4. ASSUME NEW n \in Notifies, PushNotify(n) PROVE OrderInv'
    <2>1. NotifyMsg(n) \in Msgs /\ NotifyMsg(n).n = n
        BY MsgFacts
    <2>2. /\ pc[n] = "unread" /\ Publish(HomeOf[n], NotifyMsg(n)) /\ UNCHANGED <<work, chan, got>>
          /\ pc'[n] = "done" /\ \A k \in Notifies : k # n => pc'[k] = pc[k]
        BY <1>4 DEF PushNotify, TypeOK
    <2> QED
        BY <2>1, <2>2, PublishOrder
<1>5. ASSUME NEW x \in Nodes, RangeUser(x) \/ RangeGroup(x) PROVE OrderInv'
    <2>1. PICK cs : Write(cs, work[x].msg) /\ \A c \in cs : HomeOf[c] = x
        BY <1>5 DEF RangeUser, RangeGroup, UserConns, GroupConns
    <2>2. work[x].busy /\ UNCHANGED <<pc, sub, queue, got>> /\ \A y \in Nodes : y # x => work'[y] = work[y]
        BY <1>5 DEF RangeUser, RangeGroup, TypeOK
    <2>3. InWork(x)' \subseteq InWork(x)
        <3>1. CASE RangeUser(x)
            <4>1. work[x] \in [busy : {TRUE}, msg : Msgs, left : Seq(Users)]
                BY <2>2, BusyFacts
            <4>2. work'[x].busy = work[x].busy /\ work'[x].msg = work[x].msg
                BY <3>1, <4>1 DEF RangeUser, TypeOK
            <4> QED
                BY <4>2 DEF InWork
        <3>2. CASE RangeGroup(x)
            BY <3>2 DEF RangeGroup, TypeOK, InWork, Idle
        <3> QED
            BY <1>5, <3>1, <3>2
    <2> QED
        BY <2>1, <2>2, <2>3, WriteOrder
<1>6. ASSUME NEW x \in Nodes, NodeOrder(x)', Ahead(x)' \subseteq Ahead(x), UNCHANGED <<pc, chan, got>>,
             \A y \in Nodes : y # x => work'[y] = work[y] /\ queue'[y] = queue[y] /\ sub'[y] = sub[y]
      PROVE  OrderInv'
    <2>1. \A y \in Nodes : NodeOrder(y)' /\ Ahead(y)' \subseteq Ahead(y)
        BY <1>0, <1>6, NodeSame
    <2>2. \A c \in Conns : ConnOrder(c)' /\ Held(c)' = Held(c)
        BY <1>0, <1>6, <2>1, ConnSame
    <2>3. \A n \in Notifies : SendOrder(n)'
        BY <1>0, <1>6, <2>1, <2>2, SendSame
    <2> QED
        BY <2>1, <2>2, <2>3 DEF OrderInv
<1>7. ASSUME NEW x \in Nodes, Take(x) PROVE OrderInv'
    <2>1. /\ queue[x] \in Seq(Msgs) /\ queue[x] # <<>> /\ queue'[x] = Tail(queue[x]) /\ sub'[x] = sub[x]
          /\ work'[x].busy /\ work'[x].msg = Head(queue[x])
          /\ UNCHANGED <<pc, chan, got>>
          /\ \A y \in Nodes : y # x => work'[y] = work[y] /\ queue'[y] = queue[y] /\ sub'[y] = sub[y]
        BY <1>7 DEF Take, TypeOK
    <2>2. /\ Head(queue[x]) \in Range(queue[x]) /\ Range(queue'[x]) \subseteq Range(queue[x])
          /\ Ordered(queue'[x]) /\ Before({Head(queue[x])}, Range(queue'[x]))
        <3>1. Ordered(queue[x])
            BY <1>0 DEF NodeOrder
        <3>2. /\ Head(queue[x]) \in Range(queue[x]) /\ Range(Tail(queue[x])) \subseteq Range(queue[x])
              /\ Ordered(Tail(queue[x])) /\ Before({Head(queue[x])}, Range(Tail(queue[x])))
            BY <2>1, <3>1, TailFacts
        <3> QED
            BY <2>1, <3>2
    <2>3. InWork(x)' = {Head(queue[x])}
        BY <2>1 DEF InWork
    <2>4. Before(Range(queue'[x]), Range(sub'[x])) /\ Before(InWork(x)', Range(queue'[x]) \cup Range(sub'[x]))
        BY <1>0, <2>1, <2>2, <2>3 DEF NodeOrder, Before
    <2>5. NodeOrder(x)' /\ Ahead(x)' \subseteq Ahead(x)
        BY <1>0, <2>1, <2>2, <2>3, <2>4 DEF NodeOrder, Ahead
    <2> QED
        BY <1>6, <2>1, <2>5
<1>8. ASSUME NEW x \in Nodes, UsersDone(x) PROVE OrderInv'
    <2>1. /\ queue'[x] = queue[x] /\ sub'[x] = sub[x] /\ UNCHANGED <<pc, chan, got>> /\ work'[x] = Idle
          /\ \A y \in Nodes : y # x => work'[y] = work[y] /\ queue'[y] = queue[y] /\ sub'[y] = sub[y]
        BY <1>8 DEF UsersDone, TypeOK
    <2>2. InWork(x)' = {}
        BY <2>1 DEF InWork, Idle
    <2>3. NodeOrder(x)' /\ Ahead(x)' \subseteq Ahead(x)
        BY <1>0, <2>1, <2>2 DEF NodeOrder, Ahead, Before
    <2> QED
        BY <1>6, <2>1, <2>3
<1>9. ASSUME NEW x \in Nodes, Receive(x) PROVE OrderInv'
    <2>1. /\ sub[x] \in Seq(Msgs) /\ sub[x] # <<>> /\ sub'[x] = Tail(sub[x])
          /\ queue[x] \in Seq(Msgs) /\ Len(queue[x]) <= QueueCap /\ QueueCap \in Nat
          /\ queue'[x] = TrySend(queue[x], Head(sub[x]), QueueCap)
          /\ UNCHANGED <<pc, work, chan, got>>
          /\ \A y \in Nodes : y # x => work'[y] = work[y] /\ queue'[y] = queue[y] /\ sub'[y] = sub[y]
        BY <1>9 DEF Receive, TypeOK
    <2>2. /\ Head(sub[x]) \in Msgs /\ Head(sub[x]) \in Range(sub[x]) /\ Range(sub'[x]) \subseteq Range(sub[x])
          /\ Ordered(sub'[x]) /\ Before({Head(sub[x])}, Range(sub'[x]))
        <3>1. Ordered(sub[x])
            BY <1>0 DEF NodeOrder
        <3>2. /\ Head(sub[x]) \in Msgs /\ Head(sub[x]) \in Range(sub[x]) /\ Range(Tail(sub[x])) \subseteq Range(sub[x])
              /\ Ordered(Tail(sub[x])) /\ Before({Head(sub[x])}, Range(Tail(sub[x])))
            BY <2>1, <3>1, TailFacts
        <3> QED
            BY <2>1, <3>2
    <2>3. Before(Range(queue[x]), {Head(sub[x])}) /\ Ordered(queue[x]) /\ Cluster
        BY <1>0, <2>1, <2>2 DEF NodeOrder, Before
    <2>4. Range(queue'[x]) \subseteq Range(queue[x]) \cup {Head(sub[x])} /\ Ordered(queue'[x])
        <3> DEFINE q == TrySend(queue[x], Head(sub[x]), QueueCap)
        <3>1. Range(q) \subseteq Range(queue[x]) \cup {Head(sub[x])} /\ Ordered(q)
            BY <2>1, <2>2, <2>3, TrySendFacts, Zenon
        <3> QED
            BY <2>1, <3>1
    <2>5. InWork(x)' = InWork(x)
        BY <2>1 DEF InWork
    <2>6. Before(Range(queue'[x]), Range(sub'[x])) /\ Before(InWork(x)', Range(queue'[x]) \cup Range(sub'[x]))
        BY <1>0, <2>2, <2>4, <2>5 DEF NodeOrder, Before
    <2>7. NodeOrder(x)' /\ Ahead(x)' \subseteq Ahead(x)
        BY <2>2, <2>3, <2>4, <2>5, <2>6 DEF NodeOrder, Ahead
    <2> QED
        BY <1>6, <2>1, <2>7
<1>10. ASSUME NEW x \in Nodes, SubscriptionLost(x) PROVE OrderInv'
    <2>1. /\ queue'[x] = queue[x] /\ sub'[x] = <<>> /\ UNCHANGED <<pc, work, chan, got>>
          /\ \A y \in Nodes : y # x => work'[y] = work[y] /\ queue'[y] = queue[y] /\ sub'[y] = sub[y]
        BY <1>10 DEF SubscriptionLost, TypeOK
    <2>2. InWork(x)' = InWork(x) /\ Range(sub'[x]) = {} /\ Ordered(sub'[x])
        BY <2>1, EmptyFacts DEF InWork
    <2>3. NodeOrder(x)' /\ Ahead(x)' \subseteq Ahead(x)
        BY <1>0, <2>1, <2>2 DEF NodeOrder, Ahead, Before
    <2> QED
        BY <1>6, <2>1, <2>3
<1>11. ASSUME NEW c \in Conns, Open(c) PROVE OrderInv'
    BY <1>1, <1>11 DEF Open
<1>12. ASSUME NEW n \in Notifies, StartUnread(n) \/ UnreadFails(n) \/ NotifyFails(n) PROVE OrderInv'
    BY <1>1, <1>12 DEF StartUnread, UnreadFails, NotifyFails, TypeOK
<1>13. ASSUME NEW x \in Nodes, SubscribeChannel(x) PROVE OrderInv'
    BY <1>1, <1>13 DEF SubscribeChannel
<1>14. CASE UNCHANGED vars
    BY <1>1, <1>14 DEF vars
<1> QED
    BY <1>2, <1>3, <1>4, <1>5, <1>7, <1>8, <1>9, <1>10, <1>11, <1>12, <1>13, <1>14
    DEF Next, SendStep, DispatcherStep, BrokerStep

LEMMA OrderInit == Init => OrderInv
<1> SUFFICES ASSUME Init PROVE OrderInv
    OBVIOUS
<1>1. \A x \in Nodes : Range(queue[x]) = {} /\ Range(sub[x]) = {} /\ InWork(x) = {} /\ sub[x] = <<>> /\ queue[x] = <<>>
    BY EmptyFacts DEF Init, InWork, Idle
<1>2. \A c \in Conns : Range(got[c]) = {} /\ Range(chan[c]) = {} /\ got[c] = <<>> /\ chan[c] = <<>>
    BY EmptyFacts DEF Init
<1>3. \A x \in Nodes : NodeOrder(x) /\ Ahead(x) = {}
    BY <1>1, EmptyFacts DEF NodeOrder, Ahead, Before
<1>4. \A c \in Conns : ConnOrder(c) /\ Held(c) = {}
    BY <1>2, EmptyFacts DEF ConnOrder, Held, Before
<1> QED
    BY <1>3, <1>4 DEF OrderInv, SendOrder, CountOnly

\* Sender.SendNotify pushes the count first: no client receives the count of a
\* notification after the notification.
THEOREM UnreadFirstCorrect == Spec => []UnreadFirst
<1>1. OrderInv => UnreadFirst
    BY DEF OrderInv, ConnOrder, Ordered, UnreadFirst
<1> QED
    BY <1>1, OrderInit, TypeInit, TypeStep, OrderStep, PTL DEF Spec

-----------------------------------------------------------------------------
(* Addressees *)

LEMMA LeftStep == TypeOK /\ LeftInv /\ [Next]_vars => LeftInv'
<1> SUFFICES ASSUME TypeOK, LeftInv, [Next]_vars, NEW y \in Nodes, work'[y].busy
             PROVE  Range(work'[y].left) \subseteq Range(work'[y].msg.to)
    BY DEF LeftInv
<1>1. CASE work'[y] = work[y]
    BY <1>1 DEF LeftInv
<1>2. ASSUME NEW x \in Nodes, Take(x), work'[y] # work[y]
      PROVE  Range(work'[y].left) \subseteq Range(work'[y].msg.to)
    BY <1>2 DEF Take, TypeOK
<1>3. ASSUME NEW x \in Nodes, RangeUser(x), work'[y] # work[y]
      PROVE  Range(work'[y].left) \subseteq Range(work'[y].msg.to)
    <2>1. x = y
        BY <1>3 DEF RangeUser, TypeOK
    <2>2. work[y] \in [busy : {TRUE}, msg : Msgs, left : Seq(Users)] /\ work[y].busy /\ work[y].left # <<>>
        BY <1>3, <2>1, BusyFacts DEF RangeUser
    <2>3. work'[y].msg = work[y].msg /\ work'[y].left = Tail(work[y].left)
        BY <1>3, <2>1, <2>2 DEF RangeUser, TypeOK
    <2>4. Range(Tail(work[y].left)) \subseteq Range(work[y].left)
        BY <2>2, TailFacts
    <2> QED
        BY <2>2, <2>3, <2>4 DEF LeftInv
<1>4. ASSUME NEW x \in Nodes, UsersDone(x) \/ RangeGroup(x) PROVE work'[y] = work[y]
    BY <1>4 DEF UsersDone, RangeGroup, TypeOK, Idle
<1>5. \/ UNCHANGED work
      \/ \E x \in Nodes : DispatcherStep(x)
    BY DEF Next, SendStep, BrokerStep, Open, Emit, Quit, StartUnread, PushUnread, UnreadFails, PushNotify, NotifyFails,
           SubscribeChannel, Receive, SubscriptionLost, vars
<1> QED
    BY <1>1, <1>2, <1>3, <1>4, <1>5 DEF DispatcherStep

\* A message is written to connections that it is addressed to.
LEMMA WriteAddressed ==
    ASSUME TypeOK, OnlyAddressed, NEW m \in Msgs, NEW cs, Write(cs, m), UNCHANGED got,
           \A c \in cs : Addressed(c, m)
    PROVE  OnlyAddressed'
<1> SUFFICES ASSUME NEW c \in Conns, NEW k \in Range(got'[c]) \cup Range(chan'[c])
             PROVE  Addressed(c, k)
    BY DEF OnlyAddressed, Addressed
<1>1. CASE k \in Range(got[c]) \cup Range(chan[c])
    BY <1>1 DEF OnlyAddressed
<1>2. CASE k \notin Range(got[c]) \cup Range(chan[c])
    <2>1. chan[c] \in Seq(Msgs) /\ Len(chan[c]) <= ChanCap /\ ChanCap \in Nat
        BY DEF TypeOK
    <2>2. Range(TrySend(chan[c], m, ChanCap)) \subseteq Range(chan[c]) \cup {m}
        BY <2>1, TrySendFacts
    <2>3. chan'[c] = IF c \in cs THEN TrySend(chan[c], m, ChanCap) ELSE chan[c]
        BY WriteFacts
    <2>4. c \in cs /\ k = m
        BY <1>2, <2>2, <2>3
    <2> QED
        BY <2>4
<1> QED
    BY <1>1, <1>2

LEMMA AddressedStep == TypeOK /\ LeftInv /\ OnlyAddressed /\ [Next]_vars => OnlyAddressed'
<1> SUFFICES ASSUME TypeOK, LeftInv, OnlyAddressed, [Next]_vars PROVE OnlyAddressed'
    OBVIOUS
<1>1. CASE UNCHANGED <<chan, got>>
    BY <1>1 DEF OnlyAddressed, Addressed, ToAll
<1>2. ASSUME NEW c \in Conns, Emit(c) \/ Quit(c) PROVE OnlyAddressed'
    <2>1. ASSUME NEW d \in Conns
          PROVE  Range(got'[d]) \cup Range(chan'[d]) \subseteq Range(got[d]) \cup Range(chan[d])
        <3>1. CASE d # c
            <4>1. got'[d] = got[d] /\ chan'[d] = chan[d]
                BY <1>2, <3>1 DEF Emit, Quit, TypeOK
            <4> QED
                BY <4>1
        <3>2. CASE d = c /\ Quit(c)
            <4>1. got'[c] = got[c] /\ chan'[c] = <<>>
                BY <3>2 DEF Quit, TypeOK
            <4> QED
                BY <3>2, <4>1, EmptyFacts
        <3>3. CASE d = c /\ Emit(c)
            <4>1. /\ got[c] \in Seq(Msgs) /\ chan[c] \in Seq(Msgs) /\ chan[c] # <<>>
                  /\ got'[c] = Append(got[c], Head(chan[c])) /\ chan'[c] = Tail(chan[c])
                BY <3>3 DEF Emit, TypeOK
            <4>2. Head(chan[c]) \in Msgs /\ Head(chan[c]) \in Range(chan[c]) /\ Range(Tail(chan[c])) \subseteq Range(chan[c])
                BY <4>1, TailFacts
            <4>3. Range(Append(got[c], Head(chan[c]))) = Range(got[c]) \cup {Head(chan[c])}
                BY <4>1, <4>2, AppendRange
            <4> QED
                BY <3>3, <4>1, <4>2, <4>3
        <3> QED
            BY <1>2, <3>1, <3>2, <3>3
    <2> QED
        BY <2>1 DEF OnlyAddressed, Addressed, ToAll
<1>3. ASSUME NEW x \in Nodes, RangeUser(x) PROVE OnlyAddressed'
    <2>1. work[x].busy /\ work[x].msg \in Msgs /\ work[x].left \in Seq(Users) /\ work[x].left # <<>>
        BY <1>3, BusyFacts DEF RangeUser
    <2>2. Head(work[x].left) \in Range(work[x].msg.to)
        BY <2>1, TailFacts DEF LeftInv
    <2> DEFINE cs == UserConns(x, TenantOf[work[x].msg.n], Head(work[x].left))
    <2>3. \A c \in cs : Addressed(c, work[x].msg)
        BY <2>2 DEF UserConns, GroupConns, Addressed
    <2>4. Write(cs, work[x].msg) /\ UNCHANGED got
        BY <1>3 DEF RangeUser
    <2> HIDE DEF cs
    <2> QED
        BY <2>1, <2>3, <2>4, WriteAddressed
<1>4. ASSUME NEW x \in Nodes, RangeGroup(x) PROVE OnlyAddressed'
    <2>1. work[x].busy /\ work[x].msg \in Msgs
        BY <1>4, BusyFacts DEF RangeGroup
    <2> DEFINE cs == GroupConns(x, TenantOf[work[x].msg.n])
    <2>2. \A c \in cs : Addressed(c, work[x].msg)
        BY <1>4 DEF RangeGroup, GroupConns, Addressed
    <2>3. Write(cs, work[x].msg) /\ UNCHANGED got
        BY <1>4 DEF RangeGroup
    <2> HIDE DEF cs
    <2> QED
        BY <2>1, <2>2, <2>3, WriteAddressed
<1>5. \/ UNCHANGED <<chan, got>>
      \/ \E c \in Conns : Emit(c) \/ Quit(c)
      \/ \E x \in Nodes : RangeUser(x) \/ RangeGroup(x)
    BY DEF Next, SendStep, DispatcherStep, BrokerStep, Open, StartUnread, PushUnread, UnreadFails, PushNotify, NotifyFails,
           Take, UsersDone, SubscribeChannel, Receive, SubscriptionLost, vars
<1> QED
    BY <1>1, <1>2, <1>3, <1>4, <1>5

\* Dispatcher.process: a client receives only what is addressed to its tenant
\* and its user.
THEOREM OnlyAddressedCorrect == Spec => []OnlyAddressed
<1>1. Init => LeftInv
    BY DEF Init, LeftInv, Idle
<1>2. Init => OnlyAddressed
    BY EmptyFacts DEF Init, OnlyAddressed
<1> QED
    BY <1>1, <1>2, TypeInit, TypeStep, LeftStep, AddressedStep, PTL DEF Spec
=============================================================================
