----------------------- MODULE DeliveryAgreementProofs -----------------------
(***************************************************************************)
(* Proofs about what the clients of Delivery receive: nothing more often   *)
(* than it is listed, two clients in the same order, and everything that   *)
(* no full queue or broken subscription drops.  They hold for either       *)
(* broker, any processes, connections, sends and targets, a user who is    *)
(* listed several times included, and any capacities.                      *)
(***************************************************************************)
EXTENDS DeliveryProofs

USE DeliveryAssumption
USE DEF sendVars

-----------------------------------------------------------------------------
(* Counting in a queue *)

LEMMA PlacesFinite ==
    ASSUME NEW S, NEW s \in Seq(S), NEW m
    PROVE  IsFiniteSet({i \in DOMAIN s : s[i] = m})
<1>1. DOMAIN s = 1..Len(s) /\ Len(s) \in Nat
    BY LenProperties
<1>2. IsFiniteSet(DOMAIN s)
    BY <1>1, FS_Interval
<1> QED
    BY <1>2, FS_Subset

LEMMA OccurrencesType ==
    ASSUME NEW S, NEW s \in Seq(S), NEW m
    PROVE  /\ Occurrences(s, m) \in Nat
           /\ Occurrences(s, m) = 0 <=> m \notin Range(s)
<1> DEFINE P == {i \in DOMAIN s : s[i] = m}
<1>1. IsFiniteSet(P) /\ Cardinality(P) \in Nat
    <2>1. IsFiniteSet(P)
        BY PlacesFinite
    <2> QED
        BY <2>1, FS_CardinalityType
<1>2. Cardinality(P) = 0 <=> P = {}
    BY <1>1, FS_EmptySet
<1>3. P = {} <=> m \notin Range(s)
    BY DEF Range
<1> QED
    BY <1>1, <1>2, <1>3 DEF Occurrences

LEMMA OccurrencesEmpty == \A m : Occurrences(<<>>, m) = 0
<1> TAKE m
<1>1. {i \in DOMAIN <<>> : <<>>[i] = m} = {}
    OBVIOUS
<1> QED
    BY <1>1, FS_EmptySet DEF Occurrences

LEMMA OccurrencesAppend ==
    ASSUME NEW S, NEW s \in Seq(S), NEW k \in S, NEW m
    PROVE  Occurrences(Append(s, k), m) = Occurrences(s, m) + IF k = m THEN 1 ELSE 0
<1> DEFINE t == Append(s, k)
           P == {i \in DOMAIN s : s[i] = m}
           Q == {i \in DOMAIN t : t[i] = m}
           l == Len(s) + 1
<1>1. /\ DOMAIN t = 1..l /\ DOMAIN s = 1..Len(s) /\ Len(s) \in Nat
      /\ \A i \in 1..Len(s) : t[i] = s[i]
      /\ t[l] = k
    BY AppendProperties, LenProperties
<1>2. IsFiniteSet(P) /\ l \notin P /\ Cardinality(P) \in Nat
    <2>1. l \notin P
        BY <1>1
    <2>2. IsFiniteSet(P)
        BY PlacesFinite
    <2> QED
        BY <2>1, <2>2, FS_CardinalityType
<1>3. CASE k = m
    <2>1. Q = P \cup {l}
        BY <1>1, <1>3
    <2>2. Cardinality(Q) = Cardinality(P) + 1
        BY <1>2, <2>1, FS_AddElement
    <2> QED
        BY <1>3, <2>2 DEF Occurrences
<1>4. CASE k # m
    <2>1. Q = P
        <3>1. \A i \in DOMAIN t : i \in DOMAIN s \/ i = l
            BY <1>1
        <3>2. \A i \in DOMAIN s : i \in DOMAIN t /\ t[i] = s[i]
            BY <1>1
        <3>3. t[l] # m
            BY <1>1, <1>4
        <3> HIDE DEF t, l
        <3> QED
            BY <3>1, <3>2, <3>3
    <2>2. Occurrences(t, m) = Cardinality(Q) /\ Occurrences(s, m) = Cardinality(P)
        BY DEF Occurrences
    <2> HIDE DEF t, P, Q
    <2>3. Occurrences(t, m) = Occurrences(s, m) + 0
        BY <1>2, <2>1, <2>2
    <2> QED
        BY <1>4, <2>3 DEF t
<1> QED
    BY <1>3, <1>4

LEMMA OccurrencesTail ==
    ASSUME NEW S, NEW s \in Seq(S), s # <<>>, NEW m
    PROVE  Occurrences(s, m) = Occurrences(Tail(s), m) + IF Head(s) = m THEN 1 ELSE 0
<1> DEFINE t == Tail(s)
           P == {i \in DOMAIN s : s[i] = m}
           Q == {i \in DOMAIN t : t[i] = m}
           R == P \ {1}
           f == [i \in Q |-> i + 1]
<1>1. /\ DOMAIN t = 1..(Len(s) - 1) /\ DOMAIN s = 1..Len(s) /\ Len(s) \in Nat \ {0}
      /\ \A i \in 1..(Len(s) - 1) : t[i] = s[i + 1]
      /\ t \in Seq(S) /\ Head(s) = s[1]
    BY HeadTailProperties, LenProperties, EmptySeq
<1>2. IsFiniteSet(P) /\ IsFiniteSet(Q) /\ Cardinality(Q) \in Nat
    <2>1. IsFiniteSet(P)
        BY PlacesFinite
    <2>2. IsFiniteSet(Q)
        <3>1. t \in Seq(S)
            BY <1>1
        <3> HIDE DEF t
        <3> QED
            BY <3>1, PlacesFinite
    <2> QED
        BY <2>1, <2>2, FS_CardinalityType
<1>3. ExistsBijection(Q, R)
    <2>1. \A i \in Q : i + 1 \in R
        BY <1>1
    <2>2. \A i, j \in Q : i + 1 = j + 1 => i = j
        BY <1>1
    <2>3. \A j \in R : j - 1 \in Q /\ (j - 1) + 1 = j
        BY <1>1
    <2> HIDE DEF Q, R
    <2>4. f \in [Q -> R] /\ \A j \in R : \E i \in Q : f[i] = j
        BY <2>1, <2>3
    <2>5. \A i, j \in Q : f[i] = f[j] => i = j
        BY <2>2
    <2> QED
        BY <2>4, <2>5, Zenon DEF ExistsBijection, Bijection, Injection, Surjection, IsInjective
<1>4. Cardinality(R) = Cardinality(Q)
    BY <1>2, <1>3, FS_Bijection
<1>5. Cardinality(R) = IF 1 \in P THEN Cardinality(P) - 1 ELSE Cardinality(P)
    BY <1>2, FS_RemoveElement
<1>6. 1 \in P <=> Head(s) = m
    BY <1>1
<1>7. Cardinality(P) \in Nat
    BY <1>2, FS_CardinalityType
<1> HIDE DEF P, Q, R
<1>8. Cardinality(P) = Cardinality(Q) + IF Head(s) = m THEN 1 ELSE 0
    BY <1>2, <1>4, <1>5, <1>6, <1>7
<1> QED
    BY <1>8 DEF Occurrences, P, Q

LEMMA OccurrencesTrySend ==
    ASSUME NEW S, NEW s \in Seq(S), NEW k \in S, NEW cap, NEW m
    PROVE  /\ Occurrences(TrySend(s, k, cap), m) \in Nat
           /\ Occurrences(TrySend(s, k, cap), m) <= Occurrences(s, m) + IF k = m THEN 1 ELSE 0
<1>1. Occurrences(s, m) \in Nat
    BY OccurrencesType
<1>2. CASE Len(s) < cap
    BY <1>1, <1>2, OccurrencesAppend DEF TrySend
<1>3. CASE ~(Len(s) < cap)
    BY <1>1, <1>3 DEF TrySend
<1> QED
    BY <1>2, <1>3

LEMMA OccurrencesSingle == \A u, v : Occurrences(<<u>>, v) = IF u = v THEN 1 ELSE 0
<1> TAKE u, v
<1>1. CASE u = v
    <2>1. {i \in DOMAIN <<u>> : <<u>>[i] = v} = {1}
        BY <1>1
    <2> QED
        BY <1>1, <2>1, FS_Singleton DEF Occurrences
<1>2. CASE u # v
    <2>1. {i \in DOMAIN <<u>> : <<u>>[i] = v} = {}
        BY <1>2
    <2> QED
        BY <1>2, <2>1, FS_EmptySet DEF Occurrences
<1> QED
    BY <1>1, <1>2

\* A map lists each of its keys once.
LEMMA OccurrencesOrder ==
    ASSUME NEW S \in SUBSET Users, NEW s \in Orders(S), NEW u
    PROVE  Occurrences(s, u) <= 1
<1> DEFINE P == {i \in DOMAIN s : s[i] = u}
<1>1. \A i, j \in P : i = j
    BY DEF Orders, IsInjective
<1>2. CASE P = {}
    <2>1. Cardinality(P) = 0
        BY <1>2, FS_EmptySet
    <2> QED
        BY <2>1 DEF Occurrences
<1>3. CASE P # {}
    <2>1. PICK i \in P : TRUE
        BY <1>3
    <2>2. P = {i}
        BY <1>1, <2>1
    <2>3. Cardinality(P) = 1
        BY <2>2, FS_Singleton
    <2> QED
        BY <2>3 DEF Occurrences
<1> QED
    BY <1>2, <1>3

-----------------------------------------------------------------------------
(* How often a message may still reach a connection *)

\* How often a dispatcher writes message m to connection c, how often m is
\* published, and how many of these publications are still to come.
Due(c, m) == IF ToAll(m) THEN 1 ELSE Occurrences(m.to, UserOf[c])
Copies(m) == IF m.type = "notify" \/ Broadcast(m.n) THEN 1 ELSE Occurrences(TargetsOf[m.n], Head(m.to))

Unsent(m) ==
    IF m.type = "notify" THEN IF pc[m.n] = "done" THEN 0 ELSE 1
    ELSE IF pc[m.n] = "idle" THEN Copies(m) ELSE Occurrences(todo[m.n], Head(m.to))

\* What has been written, what the dispatcher at work will still write, and the
\* publications that have not reached it.
Written(c, m) == Occurrences(got[c], m) + Occurrences(chan[c], m)

Coming(c, m) ==
    IF m \in InWork(HomeOf[c])
    THEN IF ToAll(m) THEN 1 ELSE Occurrences(work[HomeOf[c]].left, UserOf[c])
    ELSE 0

Waiting(x, m) == Occurrences(queue[x], m) + Occurrences(sub[x], m) + Unsent(m)

\* Together they are never more than was due.
Account(c, m) ==
    Written(c, m) + Coming(c, m) + Due(c, m) * Waiting(HomeOf[c], m) <= Due(c, m) * Copies(m)

AccountInv == \A c \in Conns, m \in Msgs : Account(c, m)

LEMMA MsgsConstant == Msgs' = Msgs
BY DEF Msgs, NotifyMsg, UnreadMsg

\* The two kinds of messages.
LEMMA MsgCases ==
    ASSUME NEW m \in Msgs
    PROVE  \/ m.type = "notify" /\ m = NotifyMsg(m.n)
           \/ m.type = "unread" /\ Head(m.to) \in Users /\ m = UnreadMsg(m.n, Head(m.to))
<1>1. ASSUME NEW n \in Notifies, m = NotifyMsg(n) PROVE m.type = "notify" /\ m = NotifyMsg(m.n)
    BY <1>1 DEF NotifyMsg
<1>2. ASSUME NEW n \in Notifies, NEW u \in Users, m = UnreadMsg(n, u)
      PROVE  m.type = "unread" /\ Head(m.to) \in Users /\ m = UnreadMsg(m.n, Head(m.to))
    BY <1>2 DEF UnreadMsg
<1> QED
    BY <1>1, <1>2 DEF Msgs

LEMMA ConstantNumbers ==
    ASSUME NEW c \in Conns, NEW m \in Msgs
    PROVE  Due(c, m) \in Nat /\ Copies(m) \in Nat
<1>1. m.n \in Notifies /\ m.to \in Seq(Users) /\ TargetsOf[m.n] \in Seq(Users)
    BY MsgFacts
<1>2. Occurrences(m.to, UserOf[c]) \in Nat /\ Occurrences(TargetsOf[m.n], Head(m.to)) \in Nat
    BY <1>1, OccurrencesType, Zenon
<1> QED
    BY <1>2 DEF Due, Copies

LEMMA UnsentNumber ==
    ASSUME TypeOK, NEW m \in Msgs
    PROVE  Unsent(m) \in Nat
<1>1. m.n \in Notifies /\ todo[m.n] \in Seq(Users) /\ TargetsOf[m.n] \in Seq(Users)
    BY MsgFacts DEF TypeOK
<1>2. Occurrences(todo[m.n], Head(m.to)) \in Nat /\ Occurrences(TargetsOf[m.n], Head(m.to)) \in Nat
    BY <1>1, OccurrencesType, Zenon
<1> QED
    BY <1>2 DEF Unsent, Copies

LEMMA Numbers ==
    ASSUME TypeOK, NEW c \in Conns, NEW m \in Msgs
    PROVE  /\ Occurrences(got[c], m) \in Nat /\ Occurrences(chan[c], m) \in Nat /\ Written(c, m) \in Nat
           /\ Coming(c, m) \in Nat
           /\ Occurrences(queue[HomeOf[c]], m) \in Nat /\ Occurrences(sub[HomeOf[c]], m) \in Nat
           /\ Unsent(m) \in Nat /\ Waiting(HomeOf[c], m) \in Nat
<1>1. /\ got[c] \in Seq(Msgs) /\ chan[c] \in Seq(Msgs) /\ HomeOf[c] \in Nodes
      /\ queue[HomeOf[c]] \in Seq(Msgs) /\ sub[HomeOf[c]] \in Seq(Msgs)
    BY DEF TypeOK
<1>2. /\ Occurrences(got[c], m) \in Nat /\ Occurrences(chan[c], m) \in Nat
      /\ Occurrences(queue[HomeOf[c]], m) \in Nat /\ Occurrences(sub[HomeOf[c]], m) \in Nat
    BY <1>1, OccurrencesType, Zenon
<1>3. Coming(c, m) \in Nat
    <2>1. CASE m \in InWork(HomeOf[c])
        <3>1. work[HomeOf[c]].left \in Seq(Users)
            BY <1>1, <2>1, BusyFacts DEF InWork
        <3>2. Occurrences(work[HomeOf[c]].left, UserOf[c]) \in Nat
            BY <3>1, OccurrencesType, Zenon
        <3> QED
            BY <3>2 DEF Coming
    <2>2. CASE m \notin InWork(HomeOf[c])
        BY <2>2 DEF Coming
    <2> QED
        BY <2>1, <2>2
<1>4. Unsent(m) \in Nat
    BY UnsentNumber
<1> QED
    BY <1>2, <1>3, <1>4 DEF Written, Waiting

\* These are numbers in every state, and so after a step.
AllNumbers ==
    \A c \in Conns, m \in Msgs :
        Written(c, m) \in Nat /\ Coming(c, m) \in Nat /\ Unsent(m) \in Nat /\ Waiting(HomeOf[c], m) \in Nat

LEMMA UnsentHere == TypeOK => \A m \in Msgs : Unsent(m) \in Nat
BY UnsentNumber

LEMMA UnsentNext == TypeOK' => (\A m \in Msgs : Unsent(m) \in Nat)'
BY UnsentHere, PTL

LEMMA NumbersHere == TypeOK => AllNumbers
BY Numbers DEF AllNumbers

LEMMA NumbersNext == TypeOK' => AllNumbers'
BY NumbersHere, PTL

\* A step after which less is waiting may write, or take up, as much more as
\* these publications were due.
LEMMA Scaling ==
    ASSUME NEW d \in Nat, NEW k \in Nat, NEW l \in Nat
    PROVE  /\ d * k \in Nat
           /\ k <= l => d * k <= d * l
           /\ k + 1 <= l => d * k + d <= d * l
<1>1. d * k \in Nat /\ (k <= l => d * k <= d * l)
    OBVIOUS
<1>2. d * (k + 1) = d * k + d
    OBVIOUS
<1>3. k + 1 <= l => d * (k + 1) <= d * l
    OBVIOUS
<1> QED
    BY <1>1, <1>2, <1>3

LEMMA AccountKept ==
    ASSUME TypeOK, TypeOK', NEW c \in Conns, NEW m \in Msgs, Account(c, m),
           \/ /\ Written(c, m)' + Coming(c, m)' <= Written(c, m) + Coming(c, m)
              /\ Waiting(HomeOf[c], m)' <= Waiting(HomeOf[c], m)
           \/ /\ Written(c, m)' + Coming(c, m)' <= Written(c, m) + Coming(c, m) + Due(c, m)
              /\ Waiting(HomeOf[c], m)' + 1 <= Waiting(HomeOf[c], m)
    PROVE  Account(c, m)'
<1>1. Due(c, m)' = Due(c, m) /\ Copies(m)' = Copies(m)
    BY DEF Due, Copies, ToAll, Broadcast, Occurrences
<1>2. Due(c, m) \in Nat /\ Copies(m) \in Nat
    BY ConstantNumbers
<1>3. Written(c, m) \in Nat /\ Coming(c, m) \in Nat /\ Waiting(HomeOf[c], m) \in Nat
    BY Numbers
<1>4. Written(c, m)' \in Nat /\ Coming(c, m)' \in Nat /\ Waiting(HomeOf[c], m)' \in Nat
    BY NumbersNext DEF AllNumbers
<1> DEFINE d == Due(c, m)  w == Waiting(HomeOf[c], m)  v == Waiting(HomeOf[c], m)'
<1>5. d * v \in Nat /\ d * w \in Nat /\ (v <= w => d * v <= d * w) /\ (v + 1 <= w => d * v + d <= d * w)
    BY <1>2, <1>3, <1>4, Scaling, Zenon
<1>6. d * Copies(m) \in Nat
    BY <1>2, Scaling, Zenon
<1>7. Written(c, m) + Coming(c, m) + d * w <= d * Copies(m)
    BY DEF Account
<1>8. Written(c, m)' + Coming(c, m)' + d * v <= d * Copies(m)
    <2> DEFINE dv == d * v  dw == d * w  dc == d * Copies(m)
               before == Written(c, m) + Coming(c, m)
               after == Written(c, m)' + Coming(c, m)'
    <2>1. dv \in Nat /\ dw \in Nat /\ dc \in Nat /\ d \in Nat /\ (v <= w => dv <= dw) /\ (v + 1 <= w => dv + d <= dw)
        BY <1>2, <1>5, <1>6
    <2>2. before + dw <= dc
        BY <1>7
    <2>3. (after <= before /\ v <= w) \/ (after <= before + d /\ v + 1 <= w)
        OBVIOUS
    <2>4. before \in Nat /\ after \in Nat
        BY <1>3, <1>4
    <2> HIDE DEF d, v, w, dv, dw, dc, before, after
    <2>5. after + dv <= dc
        BY <2>1, <2>2, <2>3, <2>4
    <2> QED
        BY <2>5 DEF dv, dc, after
<1> QED
    BY <1>1, <1>8 DEF Account

\* Where a step leaves the state of a message alone.
LEMMA CountsSame ==
    ASSUME NEW c \in Conns, NEW m \in Msgs
    PROVE  /\ got'[c] = got[c] /\ chan'[c] = chan[c] => Written(c, m)' = Written(c, m)
           /\ work'[HomeOf[c]] = work[HomeOf[c]] => Coming(c, m)' = Coming(c, m)
           /\ pc'[m.n] = pc[m.n] /\ todo'[m.n] = todo[m.n] => Unsent(m)' = Unsent(m)
           /\ queue'[HomeOf[c]] = queue[HomeOf[c]] /\ sub'[HomeOf[c]] = sub[HomeOf[c]] /\ Unsent(m)' = Unsent(m)
                  => Waiting(HomeOf[c], m)' = Waiting(HomeOf[c], m)
<1>1. got'[c] = got[c] /\ chan'[c] = chan[c] => Written(c, m)' = Written(c, m)
    BY DEF Written, Occurrences
<1>2. work'[HomeOf[c]] = work[HomeOf[c]] => Coming(c, m)' = Coming(c, m)
    BY DEF Coming, InWork, Occurrences, ToAll
<1>3. pc'[m.n] = pc[m.n] /\ todo'[m.n] = todo[m.n] => Unsent(m)' = Unsent(m)
    BY DEF Unsent, Copies, Occurrences, Broadcast
<1>4. queue'[HomeOf[c]] = queue[HomeOf[c]] /\ sub'[HomeOf[c]] = sub[HomeOf[c]] /\ Unsent(m)' = Unsent(m)
          => Waiting(HomeOf[c], m)' = Waiting(HomeOf[c], m)
    BY DEF Waiting, Occurrences
<1> QED
    BY <1>1, <1>2, <1>3, <1>4

\* What the steps of a send take from the publications to come.
LEMMA UnsentStart ==
    ASSUME TypeOK, NEW n \in Notifies, NEW m \in Msgs, StartUnread(n)
    PROVE  Unsent(m)' <= Unsent(m)
<1>0. m.n \in Notifies /\ Unsent(m) \in Nat
    BY MsgFacts, UnsentNumber
<1>1. CASE m.n # n
    <2>1. pc'[m.n] = pc[m.n] /\ todo'[m.n] = todo[m.n]
        BY <1>0, <1>1 DEF StartUnread, TypeOK
    <2>2. Unsent(m)' = Unsent(m)
        BY <2>1 DEF Unsent, Copies, Occurrences, Broadcast
    <2> QED
        BY <1>0, <2>2
<1>2. CASE m.n = n /\ m.type = "notify"
    BY <1>2 DEF StartUnread, TypeOK, Unsent
<1>3. CASE m.n = n /\ m.type # "notify"
    <2>1. pc[n] = "idle" /\ pc'[n] = "unread"
        BY DEF StartUnread, TypeOK
    <2>2. Unsent(m) = Copies(m) /\ Unsent(m)' = Occurrences(todo'[n], Head(m.to))
        BY <1>3, <2>1 DEF Unsent, Occurrences
    <2>3. CASE Broadcast(n)
        <3>1. OnlineUsers(HomeOf[n], TenantOf[n]) \in SUBSET Users
            BY DEF OnlineUsers
        <3>2. todo'[n] \in Orders(OnlineUsers(HomeOf[n], TenantOf[n]))
            BY <2>3 DEF StartUnread, TypeOK
        <3>3. Occurrences(todo'[n], Head(m.to)) <= 1
            BY <3>1, <3>2, OccurrencesOrder, Zenon
        <3> QED
            BY <1>3, <2>2, <2>3, <3>3 DEF Copies
    <2>4. CASE ~Broadcast(n)
        <3>1. todo'[n] = TargetsOf[n]
            BY <2>4 DEF StartUnread, TypeOK
        <3> QED
            BY <1>0, <1>3, <2>2, <2>4, <3>1 DEF Copies
    <2> QED
        BY <2>3, <2>4
<1> QED
    BY <1>1, <1>2, <1>3

LEMMA UnsentCount ==
    ASSUME TypeOK, NEW n \in Notifies, NEW m \in Msgs, PushUnread(n) \/ UnreadFails(n)
    PROVE  Unsent(m) = Unsent(m)' + IF UnreadMsg(n, Head(todo[n])) = m THEN 1 ELSE 0
<1>0. /\ m.n \in Notifies /\ pc' = pc /\ pc[n] = "unread" /\ todo[n] # <<>> /\ todo[n] \in Seq(Users)
      /\ todo' = [todo EXCEPT ![n] = Tail(todo[n])]
    BY MsgFacts DEF PushUnread, UnreadFails, TypeOK
<1>1. CASE m.n = n /\ m.type = "unread"
    <2>1. m = UnreadMsg(n, Head(m.to))
        BY <1>1, MsgCases
    <2>2. UnreadMsg(n, Head(todo[n])) = m <=> Head(todo[n]) = Head(m.to)
        <3>1. UnreadMsg(n, Head(todo[n])) = m => Head(todo[n]) = Head(m.to)
            BY DEF UnreadMsg
        <3> QED
            BY <2>1, <3>1
    <2>3. Unsent(m) = Occurrences(todo[n], Head(m.to)) /\ Unsent(m)' = Occurrences(todo'[n], Head(m.to))
        BY <1>0, <1>1 DEF Unsent, Occurrences
    <2>4. todo'[n] = Tail(todo[n])
        BY <1>0 DEF TypeOK
    <2>5. Occurrences(todo[n], Head(m.to)) =
              Occurrences(Tail(todo[n]), Head(m.to)) + IF Head(todo[n]) = Head(m.to) THEN 1 ELSE 0
        BY <1>0, OccurrencesTail, Zenon
    <2> QED
        BY <2>2, <2>3, <2>4, <2>5
<1>2. CASE ~(m.n = n /\ m.type = "unread")
    <2>1. UnreadMsg(n, Head(todo[n])) # m
        BY <1>2 DEF UnreadMsg
    <2>2. m.type = "notify" \/ (m.n # n /\ todo'[m.n] = todo[m.n])
        BY <1>0, <1>2, MsgFacts DEF TypeOK
    <2>3. Unsent(m)' = Unsent(m)
        <3>1. CASE m.type = "notify"
            BY <1>0, <3>1 DEF Unsent
        <3>2. CASE m.n # n /\ todo'[m.n] = todo[m.n]
            BY <1>0, <3>2 DEF Unsent, Copies, Occurrences, Broadcast
        <3> QED
            BY <2>2, <3>1, <3>2
    <2>4. Unsent(m) \in Nat
        BY UnsentNumber
    <2> QED
        BY <2>1, <2>3, <2>4
<1> QED
    BY <1>1, <1>2

LEMMA UnsentNotify ==
    ASSUME TypeOK, NEW n \in Notifies, NEW m \in Msgs, PushNotify(n) \/ NotifyFails(n)
    PROVE  Unsent(m) = Unsent(m)' + IF NotifyMsg(n) = m THEN 1 ELSE 0
<1>0. /\ m.n \in Notifies /\ todo' = todo /\ pc[n] = "unread" /\ pc' = [pc EXCEPT ![n] = "done"]
    BY MsgFacts DEF PushNotify, NotifyFails, TypeOK
<1>1. CASE NotifyMsg(n) = m
    BY <1>0, <1>1 DEF Unsent, NotifyMsg, TypeOK
<1>2. CASE NotifyMsg(n) # m
    <2>1. m.type = "unread" \/ m.n # n
        BY <1>2, MsgCases
    <2>2. Unsent(m)' = Unsent(m)
        <3>1. CASE m.n # n
            BY <1>0, <3>1 DEF Unsent, Copies, Occurrences, Broadcast, TypeOK
        <3>2. CASE m.n = n /\ m.type = "unread"
            BY <1>0, <3>2 DEF Unsent, Occurrences, TypeOK
        <3> QED
            BY <2>1, <3>1, <3>2
    <2>3. Unsent(m) \in Nat
        BY UnsentNumber
    <2> QED
        BY <1>2, <2>2, <2>3
<1> QED
    BY <1>1, <1>2

\* A publication adds at most one to the queues of a process.
LEMMA PublishCount ==
    ASSUME TypeOK, NEW y \in Nodes, NEW k \in Msgs, Publish(y, k), NEW x \in Nodes, NEW m \in Msgs
    PROVE  /\ Occurrences(queue'[x], m) \in Nat /\ Occurrences(sub'[x], m) \in Nat
           /\ Occurrences(queue'[x], m) + Occurrences(sub'[x], m)
                  <= Occurrences(queue[x], m) + Occurrences(sub[x], m) + IF k = m THEN 1 ELSE 0
<1>1. queue[x] \in Seq(Msgs) /\ sub[x] \in Seq(Msgs)
    BY DEF TypeOK
<1>2. Occurrences(queue[x], m) \in Nat /\ Occurrences(sub[x], m) \in Nat
    BY <1>1, OccurrencesType, Zenon
<1>3. CASE queue'[x] = queue[x] /\ sub'[x] = sub[x]
    BY <1>2, <1>3
<1>4. CASE queue'[x] = queue[x] /\ sub'[x] = Append(sub[x], k)
    <2>1. Occurrences(sub'[x], m) = Occurrences(sub[x], m) + IF k = m THEN 1 ELSE 0
        BY <1>1, <1>4, OccurrencesAppend
    <2> QED
        BY <1>2, <1>4, <2>1
<1>5. CASE queue'[x] = TrySend(queue[x], k, QueueCap) /\ sub'[x] = sub[x]
    <2>1. /\ Occurrences(queue'[x], m) \in Nat
          /\ Occurrences(queue'[x], m) <= Occurrences(queue[x], m) + IF k = m THEN 1 ELSE 0
        <3>1. /\ Occurrences(TrySend(queue[x], k, QueueCap), m) \in Nat
              /\ Occurrences(TrySend(queue[x], k, QueueCap), m) <= Occurrences(queue[x], m) + IF k = m THEN 1 ELSE 0
            BY <1>1, OccurrencesTrySend, Zenon
        <3> QED
            BY <1>5, <3>1
    <2> QED
        BY <1>2, <1>5, <2>1
<1> QED
    BY <1>3, <1>4, <1>5, PublishFacts

\* The steps of a send.
LEMMA AccountSend ==
    ASSUME TypeOK, TypeOK', NEW c \in Conns, NEW m \in Msgs, Account(c, m), NEW n \in Notifies,
           SendStep(n) \/ UnreadFails(n) \/ NotifyFails(n)
    PROVE  Account(c, m)'
<1> DEFINE x == HomeOf[c]
<1>0. /\ x \in Nodes /\ HomeOf[n] \in Nodes /\ Unsent(m) \in Nat /\ Written(c, m) \in Nat /\ Coming(c, m) \in Nat
      /\ Occurrences(queue[x], m) \in Nat /\ Occurrences(sub[x], m) \in Nat
    BY Numbers
<1>1. Unsent(m)' \in Nat
    BY NumbersNext DEF AllNumbers
<1>2. UNCHANGED <<work, chan, got>>
    BY DEF SendStep, StartUnread, PushUnread, UnreadFails, PushNotify, NotifyFails
<1>3. Written(c, m)' = Written(c, m) /\ Coming(c, m)' = Coming(c, m)
    BY <1>2, CountsSame
<1>4. SUFFICES Waiting(x, m)' <= Waiting(x, m)
    BY <1>0, <1>3, AccountKept
<1>5. Waiting(x, m)' = Occurrences(queue'[x], m) + Occurrences(sub'[x], m) + Unsent(m)'
    BY DEF Waiting, Occurrences
<1>6. ASSUME NEW k \in Msgs, Publish(HomeOf[n], k), Unsent(m) = Unsent(m)' + IF k = m THEN 1 ELSE 0
      PROVE  Waiting(x, m)' <= Waiting(x, m)
    <2>1. /\ Occurrences(queue'[x], m) \in Nat /\ Occurrences(sub'[x], m) \in Nat
          /\ Occurrences(queue'[x], m) + Occurrences(sub'[x], m)
                  <= Occurrences(queue[x], m) + Occurrences(sub[x], m) + IF k = m THEN 1 ELSE 0
        BY <1>0, <1>6, PublishCount
    <2> HIDE DEF x
    <2> QED
        BY <1>0, <1>1, <1>5, <1>6, <2>1 DEF Waiting
<1>7. ASSUME UNCHANGED <<queue, sub>>, Unsent(m)' <= Unsent(m) PROVE Waiting(x, m)' <= Waiting(x, m)
    BY <1>0, <1>1, <1>5, <1>7 DEF Waiting
<1>8. CASE StartUnread(n)
    BY <1>7, <1>8, UnsentStart DEF StartUnread
<1>9. CASE PushUnread(n)
    <2>1. Head(todo[n]) \in Users
        BY <1>9, TailFacts DEF PushUnread, TypeOK
    <2> DEFINE k == UnreadMsg(n, Head(todo[n]))
    <2>2. k \in Msgs /\ Publish(HomeOf[n], k)
        BY <1>9, <2>1, MsgFacts DEF PushUnread
    <2>3. Unsent(m) = Unsent(m)' + IF k = m THEN 1 ELSE 0
        BY <1>9, UnsentCount, Zenon
    <2> HIDE DEF k
    <2> QED
        BY <1>6, <2>2, <2>3
<1>10. CASE UnreadFails(n)
    <2>1. Unsent(m) = Unsent(m)' + IF UnreadMsg(n, Head(todo[n])) = m THEN 1 ELSE 0
        BY <1>10, UnsentCount, Zenon
    <2>2. Unsent(m)' <= Unsent(m)
        BY <1>0, <1>1, <2>1
    <2> QED
        BY <1>7, <1>10, <2>2 DEF UnreadFails
<1>11. CASE PushNotify(n)
    <2>1. NotifyMsg(n) \in Msgs /\ Publish(HomeOf[n], NotifyMsg(n))
        BY <1>11, MsgFacts DEF PushNotify
    <2>2. Unsent(m) = Unsent(m)' + IF NotifyMsg(n) = m THEN 1 ELSE 0
        BY <1>11, UnsentNotify, Zenon
    <2> QED
        BY <1>6, <2>1, <2>2
<1>12. CASE NotifyFails(n)
    <2>1. Unsent(m) = Unsent(m)' + IF NotifyMsg(n) = m THEN 1 ELSE 0
        BY <1>12, UnsentNotify, Zenon
    <2>2. Unsent(m)' <= Unsent(m)
        BY <1>0, <1>1, <2>1
    <2> QED
        BY <1>7, <1>12, <2>2 DEF NotifyFails
<1> QED
    BY <1>8, <1>9, <1>10, <1>11, <1>12 DEF SendStep

\* The steps of a connection.
LEMMA AccountConn ==
    ASSUME TypeOK, TypeOK', NEW c \in Conns, NEW m \in Msgs, Account(c, m), NEW d \in Conns, Emit(d) \/ Quit(d)
    PROVE  Account(c, m)'
<1>0. /\ HomeOf[c] \in Nodes /\ Written(c, m) \in Nat /\ Coming(c, m) \in Nat /\ Waiting(HomeOf[c], m) \in Nat
      /\ Occurrences(got[c], m) \in Nat /\ Occurrences(chan[c], m) \in Nat
    BY Numbers
<1>1. Coming(c, m)' = Coming(c, m) /\ Waiting(HomeOf[c], m)' = Waiting(HomeOf[c], m)
    BY CountsSame DEF Emit, Quit
<1>2. SUFFICES Written(c, m)' <= Written(c, m) /\ Written(c, m)' \in Nat
    BY <1>0, <1>1, AccountKept
<1>3. Written(c, m)' = Occurrences(got'[c], m) + Occurrences(chan'[c], m) /\ Written(c, m)' \in Nat
    BY NumbersNext DEF AllNumbers, Written, Occurrences
<1>4. CASE d # c
    <2>1. got'[c] = got[c] /\ chan'[c] = chan[c]
        BY <1>4 DEF Emit, Quit, TypeOK
    <2> QED
        BY <1>0, <2>1, CountsSame
<1>5. CASE d = c /\ Emit(d)
    <2>1. /\ got[c] \in Seq(Msgs) /\ chan[c] \in Seq(Msgs) /\ chan[c] # <<>>
          /\ got'[c] = Append(got[c], Head(chan[c])) /\ chan'[c] = Tail(chan[c])
        BY <1>5 DEF Emit, TypeOK
    <2>2. Head(chan[c]) \in Msgs /\ Tail(chan[c]) \in Seq(Msgs)
        BY <2>1, TailFacts
    <2>3. Occurrences(got'[c], m) = Occurrences(got[c], m) + IF Head(chan[c]) = m THEN 1 ELSE 0
        BY <2>1, <2>2, OccurrencesAppend
    <2>4. Occurrences(chan[c], m) = Occurrences(chan'[c], m) + IF Head(chan[c]) = m THEN 1 ELSE 0
        BY <2>1, OccurrencesTail
    <2>5. Occurrences(chan'[c], m) \in Nat
        BY <2>1, <2>2, OccurrencesType
    <2> QED
        BY <1>0, <1>3, <2>3, <2>4, <2>5 DEF Written
<1>6. CASE d = c /\ Quit(d)
    <2>1. got'[c] = got[c] /\ chan'[c] = <<>>
        BY <1>6 DEF Quit, TypeOK
    <2>2. Occurrences(chan'[c], m) = 0
        BY <2>1, OccurrencesEmpty
    <2> QED
        BY <1>0, <1>3, <2>1, <2>2 DEF Written
<1> QED
    BY <1>4, <1>5, <1>6

\* The steps of the broker between Redis and the queue of a process.
LEMMA AccountBroker ==
    ASSUME TypeOK, TypeOK', NEW c \in Conns, NEW m \in Msgs, Account(c, m), NEW x \in Nodes,
           Receive(x) \/ SubscriptionLost(x)
    PROVE  Account(c, m)'
<1>0. /\ HomeOf[c] \in Nodes /\ Unsent(m) \in Nat /\ Written(c, m) \in Nat /\ Coming(c, m) \in Nat
      /\ Waiting(HomeOf[c], m) \in Nat
      /\ Occurrences(queue[HomeOf[c]], m) \in Nat /\ Occurrences(sub[HomeOf[c]], m) \in Nat
    BY Numbers
<1>1. Written(c, m)' = Written(c, m) /\ Coming(c, m)' = Coming(c, m) /\ Unsent(m)' = Unsent(m)
    BY CountsSame DEF Receive, SubscriptionLost
<1>2. SUFFICES Waiting(HomeOf[c], m)' <= Waiting(HomeOf[c], m)
    BY <1>0, <1>1, AccountKept
<1>3. CASE x # HomeOf[c]
    <2>1. queue'[HomeOf[c]] = queue[HomeOf[c]] /\ sub'[HomeOf[c]] = sub[HomeOf[c]]
        BY <1>0, <1>3 DEF Receive, SubscriptionLost, TypeOK
    <2> QED
        BY <1>0, <1>1, <2>1, CountsSame
<1>4. CASE x = HomeOf[c]
    <2>1. Waiting(HomeOf[c], m)' = Occurrences(queue'[x], m) + Occurrences(sub'[x], m) + Unsent(m)
        BY <1>1, <1>4 DEF Waiting, Occurrences
    <2>2. CASE Receive(x)
        <3>1. /\ sub[x] \in Seq(Msgs) /\ sub[x] # <<>> /\ sub'[x] = Tail(sub[x]) /\ queue[x] \in Seq(Msgs)
              /\ queue'[x] = TrySend(queue[x], Head(sub[x]), QueueCap)
            BY <2>2 DEF Receive, TypeOK
        <3>2. Head(sub[x]) \in Msgs /\ Tail(sub[x]) \in Seq(Msgs)
            BY <3>1, TailFacts
        <3>3. Occurrences(sub[x], m) = Occurrences(sub'[x], m) + IF Head(sub[x]) = m THEN 1 ELSE 0
            BY <3>1, OccurrencesTail
        <3>4. /\ Occurrences(queue'[x], m) \in Nat
              /\ Occurrences(queue'[x], m) <= Occurrences(queue[x], m) + IF Head(sub[x]) = m THEN 1 ELSE 0
            <4>1. /\ Occurrences(TrySend(queue[x], Head(sub[x]), QueueCap), m) \in Nat
                  /\ Occurrences(TrySend(queue[x], Head(sub[x]), QueueCap), m)
                         <= Occurrences(queue[x], m) + IF Head(sub[x]) = m THEN 1 ELSE 0
                BY <3>1, <3>2, OccurrencesTrySend, Zenon
            <4> QED
                BY <3>1, <4>1
        <3>5. Occurrences(sub'[x], m) \in Nat
            BY <3>1, <3>2, OccurrencesType
        <3> DEFINE q == Occurrences(queue[x], m)
                   r == Occurrences(queue'[x], m)
                   t == Occurrences(sub[x], m)
                   v == Occurrences(sub'[x], m)
                   u == Unsent(m)
                   one == IF Head(sub[x]) = m THEN 1 ELSE 0
        <3>6. q \in Nat /\ r \in Nat /\ t \in Nat /\ v \in Nat /\ u \in Nat /\ one \in Nat
            BY <1>0, <1>4, <3>4, <3>5
        <3>7. t = v + one /\ r <= q + one
            BY <3>3, <3>4
        <3>8. Waiting(HomeOf[c], m) = q + t + u /\ Waiting(HomeOf[c], m)' = r + v + u
            BY <1>4, <2>1 DEF Waiting
        <3> HIDE DEF q, r, t, v, u, one
        <3>9. r + v + u <= q + t + u
            BY <3>6, <3>7
        <3> QED
            BY <3>8, <3>9
    <2>3. CASE SubscriptionLost(x)
        <3>1. queue'[x] = queue[x] /\ sub'[x] = <<>>
            BY <2>3 DEF SubscriptionLost, TypeOK
        <3>2. Occurrences(sub'[x], m) = 0
            BY <3>1, OccurrencesEmpty
        <3> QED
            BY <1>0, <1>4, <2>1, <3>1, <3>2 DEF Waiting
    <2> QED
        BY <2>2, <2>3
<1> QED
    BY <1>3, <1>4

\* The steps of the dispatcher.
LEMMA AccountDispatcher ==
    ASSUME TypeOK, TypeOK', NEW c \in Conns, NEW m \in Msgs, Account(c, m), NEW x \in Nodes, DispatcherStep(x)
    PROVE  Account(c, m)'
<1>0. /\ HomeOf[c] \in Nodes /\ Unsent(m) \in Nat /\ Written(c, m) \in Nat /\ Coming(c, m) \in Nat
      /\ Waiting(HomeOf[c], m) \in Nat /\ Due(c, m) \in Nat
      /\ Occurrences(got[c], m) \in Nat /\ Occurrences(chan[c], m) \in Nat
      /\ Occurrences(queue[HomeOf[c]], m) \in Nat /\ Occurrences(sub[HomeOf[c]], m) \in Nat
    BY Numbers, ConstantNumbers
<1>1. Unsent(m)' = Unsent(m) /\ Coming(c, m)' \in Nat /\ Written(c, m)' \in Nat /\ Waiting(HomeOf[c], m)' \in Nat
    BY NumbersNext, CountsSame DEF AllNumbers, DispatcherStep, Take, RangeUser, UsersDone, RangeGroup
<1>2. ASSUME NEW cs, NEW k \in Msgs, Write(cs, k), UNCHANGED got
      PROVE  Written(c, m)' <= Written(c, m) + IF c \in cs /\ k = m THEN 1 ELSE 0
    <2>1. chan[c] \in Seq(Msgs) /\ chan'[c] = IF c \in cs THEN TrySend(chan[c], k, ChanCap) ELSE chan[c]
        <3>1. chan[c] \in Seq(Msgs)
            BY DEF TypeOK
        <3>2. chan'[c] = IF c \in cs THEN TrySend(chan[c], k, ChanCap) ELSE chan[c]
            BY <1>2, WriteFacts, Zenon
        <3> QED
            BY <3>1, <3>2
    <2>2. Written(c, m)' = Occurrences(got[c], m) + Occurrences(chan'[c], m)
        BY <1>2 DEF Written, Occurrences
    <2>3. CASE c \in cs
        <3>1. /\ Occurrences(TrySend(chan[c], k, ChanCap), m) \in Nat
              /\ Occurrences(TrySend(chan[c], k, ChanCap), m) <= Occurrences(chan[c], m) + IF k = m THEN 1 ELSE 0
            BY <2>1, OccurrencesTrySend, Zenon
        <3>2. /\ Occurrences(chan'[c], m) \in Nat
              /\ Occurrences(chan'[c], m) <= Occurrences(chan[c], m) + IF k = m THEN 1 ELSE 0
            BY <2>1, <2>3, <3>1
        <3> QED
            BY <1>0, <2>2, <2>3, <3>2 DEF Written
    <2>4. CASE c \notin cs
        BY <1>0, <2>1, <2>2, <2>4 DEF Written
    <2> QED
        BY <2>3, <2>4
<1>3. CASE x # HomeOf[c]
    <2>1. /\ queue'[HomeOf[c]] = queue[HomeOf[c]] /\ sub'[HomeOf[c]] = sub[HomeOf[c]]
          /\ work'[HomeOf[c]] = work[HomeOf[c]] /\ got' = got
        BY <1>0, <1>3 DEF DispatcherStep, Take, RangeUser, UsersDone, RangeGroup, TypeOK
    <2>2. chan'[c] = chan[c]
        <3>1. CASE UNCHANGED chan
            BY <3>1
        <3>2. CASE RangeUser(x) \/ RangeGroup(x)
            <4>1. work[x].msg \in Msgs
                BY <3>2, BusyFacts DEF RangeUser, RangeGroup
            <4>2. PICK cs : Write(cs, work[x].msg) /\ c \notin cs
                BY <1>3, <3>2 DEF RangeUser, RangeGroup, UserConns, GroupConns
            <4> QED
                BY <4>1, <4>2, WriteFacts
        <3> QED
            BY <3>1, <3>2 DEF DispatcherStep, Take, UsersDone
    <2>3. Written(c, m)' = Written(c, m) /\ Coming(c, m)' = Coming(c, m) /\ Waiting(HomeOf[c], m)' = Waiting(HomeOf[c], m)
        BY <1>1, <2>1, <2>2, CountsSame
    <2> QED
        BY <1>0, <2>3, AccountKept
<1>4. CASE x = HomeOf[c] /\ Take(x)
    <2>1. /\ queue[x] \in Seq(Msgs) /\ queue[x] # <<>> /\ queue'[x] = Tail(queue[x]) /\ UNCHANGED <<chan, got, sub>>
          /\ work[x] = Idle /\ work'[x].busy /\ work'[x].msg = Head(queue[x]) /\ work'[x].left = Head(queue[x]).to
        BY <1>4 DEF Take, TypeOK
    <2>2. Written(c, m)' = Written(c, m) /\ Coming(c, m) = 0
        BY <1>4, <2>1, CountsSame DEF Coming, InWork, Idle
    <2>3. Coming(c, m)' = IF Head(queue[x]) = m THEN Due(c, m) ELSE 0
        <3>1. InWork(x)' = {Head(queue[x])}
            BY <2>1 DEF InWork
        <3> QED
            BY <1>4, <2>1, <3>1 DEF Coming, Due, Occurrences, ToAll
    <2>4. Occurrences(queue[x], m) = Occurrences(queue'[x], m) + IF Head(queue[x]) = m THEN 1 ELSE 0
        BY <2>1, OccurrencesTail
    <2>5. Occurrences(queue'[x], m) \in Nat
        BY <2>1, TailFacts, OccurrencesType
    <2>6. Waiting(HomeOf[c], m)' = Occurrences(queue'[x], m) + Occurrences(sub[x], m) + Unsent(m)
        BY <1>1, <1>4, <2>1 DEF Waiting, Occurrences
    <2>7. Waiting(HomeOf[c], m) = Waiting(HomeOf[c], m)' + IF Head(queue[x]) = m THEN 1 ELSE 0
        <3> DEFINE before == Occurrences(queue[x], m)
                   after == Occurrences(queue'[x], m)
                   ahead == Occurrences(sub[x], m) + Unsent(m)
                   one == IF Head(queue[x]) = m THEN 1 ELSE 0
                   waiting == Waiting(HomeOf[c], m)
                   next == Waiting(HomeOf[c], m)'
        <3>1. before \in Nat /\ ahead \in Nat /\ after \in Nat /\ one \in Nat
            BY <1>0, <1>4, <2>5
        <3>2. waiting = before + ahead
            BY <1>0, <1>4 DEF Waiting
        <3>3. next = after + ahead
            BY <1>0, <1>4, <2>5, <2>6
        <3>4. before = after + one
            BY <2>4
        <3> HIDE DEF before, after, ahead, one, waiting, next
        <3>5. waiting = next + one
            BY <3>1, <3>2, <3>3, <3>4
        <3> QED
            BY <3>5 DEF waiting, next, one
    <2>8. CASE Head(queue[x]) = m
        <3>1. /\ Written(c, m)' + Coming(c, m)' <= Written(c, m) + Coming(c, m) + Due(c, m)
              /\ Waiting(HomeOf[c], m)' + 1 <= Waiting(HomeOf[c], m)
            BY <1>0, <1>1, <2>2, <2>3, <2>7, <2>8
        <3> QED
            BY <3>1, AccountKept, Zenon
    <2>9. CASE Head(queue[x]) # m
        <3>1. /\ Written(c, m)' + Coming(c, m)' <= Written(c, m) + Coming(c, m)
              /\ Waiting(HomeOf[c], m)' <= Waiting(HomeOf[c], m)
            BY <1>0, <1>1, <2>2, <2>3, <2>7, <2>9
        <3> QED
            BY <3>1, AccountKept, Zenon
    <2> QED
        BY <2>8, <2>9
<1>5. ASSUME x = HomeOf[c], UNCHANGED <<queue, sub>>,
             Written(c, m)' + Coming(c, m)' <= Written(c, m) + Coming(c, m)
      PROVE  Account(c, m)'
    <2>1. Waiting(HomeOf[c], m)' <= Waiting(HomeOf[c], m)
        BY <1>0, <1>1, <1>5, CountsSame
    <2> QED
        BY <1>5, <2>1, AccountKept, Zenon
<1>6. CASE x = HomeOf[c] /\ RangeUser(x)
    <2> DEFINE k == work[x].msg  h == Head(work[x].left)  cs == UserConns(x, TenantOf[k.n], h)
    <2>1. /\ work[x] \in [busy : {TRUE}, msg : Msgs, left : Seq(Users)] /\ work[x].busy /\ k \in Msgs
          /\ work[x].left \in Seq(Users) /\ work[x].left # <<>>
        BY <1>6, BusyFacts DEF RangeUser
    <2>2. work'[x].busy /\ work'[x].msg = k /\ work'[x].left = Tail(work[x].left)
        BY <1>6, <2>1 DEF RangeUser, TypeOK
    <2>3. Write(cs, k) /\ UNCHANGED got /\ UNCHANGED <<queue, sub>> /\ ~ToAll(k)
        BY <1>6 DEF RangeUser
    <2>4. c \in cs => h = UserOf[c]
        BY DEF UserConns
    <2>5. Written(c, m)' <= Written(c, m) + IF c \in cs /\ k = m THEN 1 ELSE 0
        <3> HIDE DEF cs, k
        <3> QED
            BY <1>2, <2>1, <2>3
    <2>6. CASE k # m
        <3>1. Coming(c, m) = 0 /\ Coming(c, m)' = 0
            BY <1>6, <2>1, <2>2, <2>6 DEF Coming, InWork
        <3> QED
            BY <1>0, <1>1, <1>5, <1>6, <2>3, <2>5, <2>6, <3>1
    <2>7. CASE k = m
        <3>1. /\ Coming(c, m) = Occurrences(work[x].left, UserOf[c])
              /\ Coming(c, m)' = Occurrences(Tail(work[x].left), UserOf[c])
            BY <1>6, <2>1, <2>2, <2>3, <2>7 DEF Coming, InWork, Occurrences, ToAll
        <3>2. Occurrences(work[x].left, UserOf[c])
                  = Occurrences(Tail(work[x].left), UserOf[c]) + IF h = UserOf[c] THEN 1 ELSE 0
            BY <2>1, OccurrencesTail, Zenon
        <3>3. Coming(c, m) = Coming(c, m)' + IF h = UserOf[c] THEN 1 ELSE 0
            BY <3>1, <3>2
        <3>4. Written(c, m)' + Coming(c, m)' <= Written(c, m) + Coming(c, m)
            <4> DEFINE wr == Written(c, m)  wr1 == Written(c, m)'
                       co == Coming(c, m)   co1 == Coming(c, m)'
            <4>1. wr \in Nat /\ wr1 \in Nat /\ co \in Nat /\ co1 \in Nat
                BY <1>0, <1>1
            <4>2. /\ wr1 <= wr + IF c \in cs /\ k = m THEN 1 ELSE 0
                  /\ co = co1 + IF h = UserOf[c] THEN 1 ELSE 0
                BY <2>5, <3>3
            <4> HIDE DEF cs, h, k, wr, wr1, co, co1
            <4>3. wr1 + co1 <= wr + co
                BY <2>4, <4>1, <4>2
            <4> QED
                BY <4>3 DEF wr, wr1, co, co1
        <3> QED
            BY <1>5, <1>6, <2>3, <3>4
    <2> QED
        BY <2>6, <2>7
<1>7. CASE x = HomeOf[c] /\ UsersDone(x)
    <2>1. UNCHANGED <<queue, sub, chan, got>> /\ work'[x] = Idle
        BY <1>7 DEF UsersDone, TypeOK
    <2>2. Written(c, m)' = Written(c, m) /\ Coming(c, m)' = 0
        BY <1>7, <2>1, CountsSame DEF Coming, InWork, Idle
    <2> QED
        BY <1>0, <1>5, <1>7, <2>1, <2>2
<1>8. CASE x = HomeOf[c] /\ RangeGroup(x)
    <2> DEFINE k == work[x].msg  cs == GroupConns(x, TenantOf[k.n])
    <2>1. work[x].busy /\ k \in Msgs /\ ToAll(k) /\ Write(cs, k) /\ UNCHANGED got /\ UNCHANGED <<queue, sub>> /\ work'[x] = Idle
        BY <1>8, BusyFacts DEF RangeGroup, TypeOK
    <2>2. Written(c, m)' <= Written(c, m) + IF c \in cs /\ k = m THEN 1 ELSE 0
        <3> HIDE DEF cs, k
        <3> QED
            BY <1>2, <2>1
    <2>3. Coming(c, m)' = 0 /\ (k = m => Coming(c, m) = 1)
        BY <1>8, <2>1 DEF Coming, InWork, Idle
    <2>4. Written(c, m)' + Coming(c, m)' <= Written(c, m) + Coming(c, m)
        <3> HIDE DEF cs, k
        <3> QED
            BY <1>0, <1>1, <2>2, <2>3
    <2> QED
        BY <1>5, <1>8, <2>1, <2>4
<1> QED
    BY <1>3, <1>4, <1>6, <1>7, <1>8 DEF DispatcherStep

LEMMA AccountStep == TypeOK /\ TypeOK' /\ AccountInv /\ [Next]_vars => AccountInv'
<1> SUFFICES ASSUME TypeOK, TypeOK', AccountInv, [Next]_vars, NEW c \in Conns, NEW m \in Msgs
             PROVE  Account(c, m)'
    BY MsgsConstant DEF AccountInv
<1>0. Account(c, m) /\ Written(c, m) \in Nat /\ Coming(c, m) \in Nat /\ Waiting(HomeOf[c], m) \in Nat
    BY Numbers DEF AccountInv
<1>1. ASSUME UNCHANGED <<pc, todo, sub, queue, work, chan, got>> PROVE Account(c, m)'
    <2>1. Written(c, m)' = Written(c, m) /\ Coming(c, m)' = Coming(c, m) /\ Waiting(HomeOf[c], m)' = Waiting(HomeOf[c], m)
        BY <1>1, CountsSame
    <2> QED
        BY <1>0, <2>1, AccountKept
<1>2. ASSUME NEW d \in Conns, Open(d) PROVE Account(c, m)'
    BY <1>1, <1>2 DEF Open
<1>3. ASSUME NEW d \in Conns, Emit(d) \/ Quit(d) PROVE Account(c, m)'
    BY <1>0, <1>3, AccountConn
<1>4. ASSUME NEW n \in Notifies, SendStep(n) \/ UnreadFails(n) \/ NotifyFails(n) PROVE Account(c, m)'
    BY <1>0, <1>4, AccountSend
<1>5. ASSUME NEW x \in Nodes, DispatcherStep(x) PROVE Account(c, m)'
    BY <1>0, <1>5, AccountDispatcher
<1>6. ASSUME NEW x \in Nodes, SubscribeChannel(x) PROVE Account(c, m)'
    BY <1>1, <1>6 DEF SubscribeChannel
<1>7. ASSUME NEW x \in Nodes, Receive(x) \/ SubscriptionLost(x) PROVE Account(c, m)'
    BY <1>0, <1>7, AccountBroker
<1>8. CASE UNCHANGED vars
    BY <1>1, <1>8 DEF vars
<1> QED
    BY <1>2, <1>3, <1>4, <1>5, <1>6, <1>7, <1>8 DEF Next, BrokerStep

\* logic/sender.go:100-131, dispatcher.process: neither a notification nor its
\* count reaches a connection more often than the user is listed, whatever is
\* dropped, fails or is subscribed to again.
THEOREM AtMostAsListedCorrect == Spec => []AtMostAsListed
<1>1. Init => AccountInv
    <2> SUFFICES ASSUME Init, NEW c \in Conns, NEW m \in Msgs PROVE Account(c, m)
        BY DEF AccountInv
    <2>1. /\ HomeOf[c] \in Nodes /\ got[c] = <<>> /\ chan[c] = <<>>
          /\ queue[HomeOf[c]] = <<>> /\ sub[HomeOf[c]] = <<>> /\ work[HomeOf[c]] = Idle
        BY DEF Init
    <2>2. Written(c, m) = 0 /\ Coming(c, m) = 0
        BY <2>1, OccurrencesEmpty DEF Written, Coming, InWork, Idle
    <2>3. m.n \in Notifies /\ Copies(m) \in Nat /\ Due(c, m) \in Nat
        BY MsgFacts, ConstantNumbers
    <2>4. Unsent(m) = Copies(m)
        BY <2>3 DEF Init, Unsent, Copies
    <2>5. Waiting(HomeOf[c], m) = Copies(m)
        BY <2>1, <2>3, <2>4, OccurrencesEmpty DEF Waiting
    <2>6. Due(c, m) * Copies(m) \in Nat
        BY <2>3, Scaling, Zenon
    <2> QED
        BY <2>2, <2>5, <2>6 DEF Account
<1>2. TypeOK /\ AccountInv => AtMostAsListed
    <2> SUFFICES ASSUME TypeOK, AccountInv, NEW c \in Conns, NEW m \in Range(got[c])
                 PROVE  Occurrences(got[c], m) <= IF Broadcast(m.n) THEN 1 ELSE Occurrences(TargetsOf[m.n], UserOf[c])
        BY DEF AtMostAsListed
    <2>0. m \in Msgs
        <3>1. got[c] \in Seq(Msgs)
            BY DEF TypeOK
        <3> QED
            BY <3>1, ElementOfSeq, LenProperties DEF Range
    <2>1. m.n \in Notifies /\ Due(c, m) \in Nat /\ Copies(m) \in Nat
        BY <2>0, MsgFacts, ConstantNumbers
    <2>2. Occurrences(got[c], m) <= Due(c, m) * Copies(m)
        <3> DEFINE p == Due(c, m) * Waiting(HomeOf[c], m)  q == Due(c, m) * Copies(m)
        <3>1. /\ Occurrences(got[c], m) \in Nat /\ Occurrences(chan[c], m) \in Nat /\ Coming(c, m) \in Nat
              /\ Waiting(HomeOf[c], m) \in Nat
            BY <2>0, Numbers
        <3>2. p \in Nat /\ q \in Nat
            BY <2>1, <3>1, Scaling, Zenon
        <3>3. Occurrences(got[c], m) + Occurrences(chan[c], m) + Coming(c, m) + p <= q
            BY <2>0 DEF AccountInv, Account, Written
        <3> HIDE DEF p, q
        <3>4. Occurrences(got[c], m) <= q
            BY <3>1, <3>2, <3>3
        <3> QED
            BY <3>4 DEF q
    <2>3. Due(c, m) * 1 = Due(c, m) /\ 1 * Copies(m) = Copies(m) /\ 0 * Copies(m) = 0
        BY <2>1
    <2>4. CASE m.type = "notify"
        <3>1. m.to = TargetsOf[m.n] /\ Copies(m) = 1
            BY <2>0, <2>4, MsgCases DEF NotifyMsg, Copies
        <3>2. Due(c, m) = IF Broadcast(m.n) THEN 1 ELSE Occurrences(TargetsOf[m.n], UserOf[c])
            BY <3>1 DEF Due, ToAll, Broadcast
        <3> QED
            BY <2>1, <2>2, <2>3, <3>1, <3>2
    <2>5. CASE m.type # "notify"
        <3>1. m.to = <<Head(m.to)>> /\ m.to # <<>>
            BY <2>0, <2>5, MsgCases DEF UnreadMsg
        <3>2. Due(c, m) = IF Head(m.to) = UserOf[c] THEN 1 ELSE 0
            <4>1. Due(c, m) = Occurrences(m.to, UserOf[c])
                BY <3>1 DEF Due, ToAll
            <4>2. Occurrences(<<Head(m.to)>>, UserOf[c]) = IF Head(m.to) = UserOf[c] THEN 1 ELSE 0
                BY OccurrencesSingle, Zenon
            <4>3. Occurrences(m.to, UserOf[c]) = Occurrences(<<Head(m.to)>>, UserOf[c])
                BY <3>1, Zenon
            <4> QED
                BY <4>1, <4>2, <4>3
        <3>3. CASE Head(m.to) = UserOf[c]
            <4>1. Copies(m) = IF Broadcast(m.n) THEN 1 ELSE Occurrences(TargetsOf[m.n], UserOf[c])
                BY <2>5, <3>3 DEF Copies
            <4> QED
                BY <2>1, <2>2, <2>3, <3>2, <3>3, <4>1
        <3>4. CASE Head(m.to) # UserOf[c]
            <4>1. TargetsOf[m.n] \in Seq(Users)
                BY <2>1
            <4>2. Occurrences(TargetsOf[m.n], UserOf[c]) \in Nat
                BY <4>1, OccurrencesType, Zenon
            <4>3. Occurrences(got[c], m) <= 0
                BY <2>2, <2>3, <3>2, <3>4
            <4>4. Occurrences(got[c], m) \in Nat
                BY <2>0, Numbers
            <4> QED
                BY <4>2, <4>3, <4>4
        <3> QED
            BY <3>3, <3>4
    <2> QED
        BY <2>4, <2>5
<1> QED
    BY <1>1, <1>2, TypeInit, TypeStep, AccountStep, PTL DEF Spec

-----------------------------------------------------------------------------
(* Which of two messages comes first *)

\* Somewhere in s, p is before q.
Precedes(s, p, q) == \E i, j \in DOMAIN s : i < j /\ s[i] = p /\ s[j] = q

\* In process x, p will be dispatched before q.
NodePrecedes(x, p, q) ==
    \/ Precedes(queue[x], p, q)
    \/ Precedes(sub[x], p, q)
    \/ p \in Range(queue[x]) /\ q \in Range(sub[x])
    \/ p \in InWork(x) /\ q \in Range(queue[x]) \cup Range(sub[x])

\* To connection c, p has been, or will be, written before q.
ConnPrecedes(c, p, q) ==
    \/ Precedes(got[c], p, q)
    \/ Precedes(chan[c], p, q)
    \/ p \in Range(got[c]) /\ q \in Range(chan[c])
    \/ p \in Held(c) /\ q \in Ahead(HomeOf[c])
    \/ NodePrecedes(HomeOf[c], p, q)

\* No two connections disagree on two messages that are published once.
Agreement ==
    \A p, q \in Msgs : p # q /\ SentOnce(p) /\ SentOnce(q) =>
        \A c, d \in Conns : ~(ConnPrecedes(c, p, q) /\ ConnPrecedes(d, q, p))

\* Message m is in some queue, being dispatched, or has been received.
Out(m) == (\E x \in Nodes : m \in Ahead(x)) \/ (\E c \in Conns : m \in Held(c))

\* A message that is published once is out only after that.
FreshInv == \A m \in Msgs : SentOnce(m) => Unsent(m) <= 1 /\ (Out(m) => Unsent(m) = 0)

\* The step publishes m.
Publishes(m) ==
    \E n \in Notifies : \/ PushUnread(n) /\ m = UnreadMsg(n, Head(todo[n]))
                        \/ PushNotify(n) /\ m = NotifyMsg(n)

LEMMA PrecedesRange ==
    ASSUME NEW s, NEW p, NEW q, Precedes(s, p, q)
    PROVE  p \in Range(s) /\ q \in Range(s)
BY DEF Precedes, Range

LEMMA PrecedesEmpty == \A p, q : ~Precedes(<<>>, p, q)
BY DEF Precedes

LEMMA PrecedesAppend ==
    ASSUME NEW S, NEW s \in Seq(S), NEW k \in S, NEW p, NEW q, Precedes(Append(s, k), p, q)
    PROVE  Precedes(s, p, q) \/ (p \in Range(s) /\ q = k)
<1> DEFINE t == Append(s, k)
<1>1. /\ DOMAIN t = 1..(Len(s) + 1) /\ DOMAIN s = 1..Len(s) /\ Len(s) \in Nat
      /\ \A i \in 1..Len(s) : t[i] = s[i]
      /\ t[Len(s) + 1] = k
    BY AppendProperties, LenProperties
<1>2. PICK i \in DOMAIN t, j \in DOMAIN t : i < j /\ t[i] = p /\ t[j] = q
    BY DEF Precedes
<1> HIDE DEF t
<1>3. i \in DOMAIN s /\ s[i] = p
    BY <1>1, <1>2
<1>4. CASE j = Len(s) + 1
    BY <1>1, <1>2, <1>3, <1>4 DEF Range
<1>5. CASE j # Len(s) + 1
    <2>1. j \in DOMAIN s /\ s[j] = q
        BY <1>1, <1>2, <1>5
    <2> QED
        BY <1>2, <1>3, <2>1 DEF Precedes
<1> QED
    BY <1>4, <1>5

LEMMA PrecedesTrySend ==
    ASSUME NEW S, NEW s \in Seq(S), NEW k \in S, NEW cap, NEW p, NEW q, Precedes(TrySend(s, k, cap), p, q)
    PROVE  Precedes(s, p, q) \/ (p \in Range(s) /\ q = k)
<1>1. CASE Len(s) < cap
    BY <1>1, PrecedesAppend DEF TrySend
<1>2. CASE ~(Len(s) < cap)
    BY <1>2 DEF TrySend
<1> QED
    BY <1>1, <1>2

LEMMA PrecedesTail ==
    ASSUME NEW S, NEW s \in Seq(S), s # <<>>, NEW p, NEW q
    PROVE  /\ Precedes(Tail(s), p, q) => Precedes(s, p, q)
           /\ Head(s) = p /\ q \in Range(Tail(s)) => Precedes(s, p, q)
<1> DEFINE t == Tail(s)
<1>1. /\ DOMAIN t = 1..(Len(s) - 1) /\ DOMAIN s = 1..Len(s) /\ Len(s) \in Nat \ {0}
      /\ \A i \in 1..(Len(s) - 1) : t[i] = s[i + 1]
      /\ Head(s) = s[1]
    BY HeadTailProperties, LenProperties, EmptySeq
<1> HIDE DEF t
<1>2. ASSUME Precedes(t, p, q) PROVE Precedes(s, p, q)
    <2>1. PICK i \in DOMAIN t, j \in DOMAIN t : i < j /\ t[i] = p /\ t[j] = q
        BY <1>2 DEF Precedes
    <2>2. i + 1 \in DOMAIN s /\ j + 1 \in DOMAIN s /\ i + 1 < j + 1 /\ s[i + 1] = p /\ s[j + 1] = q
        BY <1>1, <2>1
    <2> QED
        BY <2>2 DEF Precedes
<1>3. ASSUME Head(s) = p, q \in Range(t) PROVE Precedes(s, p, q)
    <2>1. PICK j \in DOMAIN t : t[j] = q
        BY <1>3 DEF Range
    <2>2. 1 \in DOMAIN s /\ j + 1 \in DOMAIN s /\ 1 < j + 1 /\ s[1] = p /\ s[j + 1] = q
        BY <1>1, <1>3, <2>1
    <2> QED
        BY <2>2 DEF Precedes
<1> QED
    BY <1>2, <1>3 DEF t

\* Only what is out can come before or after something.
LEMMA PrecedesOut ==
    ASSUME NEW c \in Conns, NEW p, NEW q, ConnPrecedes(c, p, q)
    PROVE  Out(p) /\ Out(q)
<1>1. HomeOf[c] \in Nodes
    OBVIOUS
<1>2. {p, q} \subseteq Held(c) \cup Ahead(HomeOf[c])
    BY PrecedesRange DEF ConnPrecedes, NodePrecedes, Held, Ahead
<1> QED
    BY <1>1, <1>2 DEF Out

\* A connection to which a step writes nothing.
LEMMA ConnQuiet ==
    ASSUME NEW c \in Conns, NEW p, NEW q, NEW K, got'[c] = got[c], chan'[c] = chan[c],
           Ahead(HomeOf[c])' \subseteq Ahead(HomeOf[c]) \cup K,
           NodePrecedes(HomeOf[c], p, q)' => NodePrecedes(HomeOf[c], p, q) \/ q \in K
    PROVE  Held(c)' = Held(c) /\ (ConnPrecedes(c, p, q)' => ConnPrecedes(c, p, q) \/ q \in K)
<1>1. Held(c)' = Held(c)
    BY DEF Held
<1>2. Precedes(got[c], p, q)' = Precedes(got[c], p, q) /\ Precedes(chan[c], p, q)' = Precedes(chan[c], p, q)
    BY DEF Precedes
<1> QED
    BY <1>1, <1>2 DEF ConnPrecedes

\* A process that a step leaves alone.
LEMMA NodeQuiet ==
    ASSUME NEW x, NEW p, NEW q, work'[x] = work[x], queue'[x] = queue[x], sub'[x] = sub[x]
    PROVE  NodePrecedes(x, p, q)' = NodePrecedes(x, p, q) /\ Ahead(x)' = Ahead(x)
<1>1. Precedes(queue[x], p, q)' = Precedes(queue[x], p, q) /\ Precedes(sub[x], p, q)' = Precedes(sub[x], p, q)
    BY DEF Precedes
<1>2. InWork(x)' = InWork(x) /\ Ahead(x)' = Ahead(x)
    BY DEF InWork, Ahead
<1> QED
    BY <1>1, <1>2 DEF NodePrecedes

\* A dispatcher at work goes on with its message or is done with it.
LEMMA DispatchShrinks ==
    ASSUME TypeOK, NEW x \in Nodes, RangeUser(x) \/ RangeGroup(x) \/ UsersDone(x)
    PROVE  InWork(x)' \subseteq InWork(x) /\ UNCHANGED <<queue, sub, got>>
<1>1. CASE RangeUser(x)
    <2>1. work[x] \in [busy : {TRUE}, msg : Msgs, left : Seq(Users)]
        BY <1>1, BusyFacts DEF RangeUser
    <2>2. work'[x].busy = work[x].busy /\ work'[x].msg = work[x].msg
        BY <1>1, <2>1 DEF RangeUser, TypeOK
    <2> QED
        BY <1>1, <2>2 DEF InWork, RangeUser
<1>2. CASE RangeGroup(x) \/ UsersDone(x)
    BY <1>2 DEF RangeGroup, UsersDone, TypeOK, InWork, Idle
<1> QED
    BY <1>1, <1>2

\* What the queues of a process say about the order after a step: nothing new,
\* but that what is published comes last.
LEMMA NodeAgrees ==
    ASSUME TypeOK, OrderInv, [Next]_vars, NEW x \in Nodes, NEW p, NEW q
    PROVE  /\ Ahead(x)' \subseteq Ahead(x) \cup {m \in Msgs : Publishes(m)}
           /\ NodePrecedes(x, p, q)' => NodePrecedes(x, p, q) \/ q \in {m \in Msgs : Publishes(m)}
<1> DEFINE K == {m \in Msgs : Publishes(m)}
           Good == /\ Ahead(x)' \subseteq Ahead(x) \cup K
                   /\ NodePrecedes(x, p, q)' => NodePrecedes(x, p, q) \/ q \in K
<1> SUFFICES Good
    OBVIOUS
<1>0. /\ queue[x] \in Seq(Msgs) /\ Len(queue[x]) <= QueueCap /\ QueueCap \in Nat /\ sub[x] \in Seq(Msgs)
      /\ ~Cluster => sub[x] = <<>>
    BY DEF TypeOK, OrderInv, NodeOrder
<1>1. CASE work'[x] = work[x] /\ queue'[x] = queue[x] /\ sub'[x] = sub[x]
    BY <1>1, NodeQuiet
<1>2. ASSUME NEW n \in Notifies, NEW k \in Msgs, Publish(HomeOf[n], k), Publishes(k), UNCHANGED work PROVE Good
    <2>1. k \in K /\ HomeOf[n] \in Nodes /\ InWork(x)' = InWork(x)
        BY <1>2 DEF InWork
    <2>2. CASE queue'[x] = queue[x] /\ sub'[x] = sub[x]
        BY <1>1, <1>2, <2>2
    <2>3. CASE queue'[x] = queue[x] /\ sub'[x] = Append(sub[x], k)
        <3>1. Range(sub'[x]) = Range(sub[x]) \cup {k}
            BY <1>0, <2>3, AppendRange
        <3>2. Precedes(sub'[x], p, q) => Precedes(sub[x], p, q) \/ q = k
            BY <1>0, <2>3, PrecedesAppend
        <3> HIDE DEF K
        <3> QED
            BY <2>1, <2>3, <3>1, <3>2 DEF Ahead, NodePrecedes
    <2>4. CASE ~Cluster /\ queue'[x] = TrySend(queue[x], k, QueueCap) /\ sub'[x] = sub[x]
        <3>1. Range(queue'[x]) \subseteq Range(queue[x]) \cup {k}
            <4>1. Range(TrySend(queue[x], k, QueueCap)) \subseteq Range(queue[x]) \cup {k}
                BY <1>0, TrySendFacts, Zenon
            <4> QED
                BY <2>4, <4>1
        <3>2. Precedes(queue'[x], p, q) => Precedes(queue[x], p, q) \/ q = k
            BY <1>0, <2>4, PrecedesTrySend
        <3>3. Range(sub'[x]) = {} /\ ~Precedes(sub'[x], p, q)
            BY <1>0, <2>4, EmptyFacts, PrecedesEmpty
        <3> HIDE DEF K
        <3>4. Ahead(x)' \subseteq Ahead(x) \cup K
            BY <2>1, <3>1, <3>3 DEF Ahead
        <3>5. NodePrecedes(x, p, q)' => NodePrecedes(x, p, q) \/ q \in K
            BY <2>1, <3>1, <3>2, <3>3 DEF NodePrecedes
        <3> QED
            BY <3>4, <3>5
    <2> QED
        BY <1>2, <2>1, <2>2, <2>3, <2>4, PublishFacts
<1>3. ASSUME NEW n \in Notifies, PushUnread(n) PROVE Good
    <2>1. Head(todo[n]) \in Users
        BY <1>3, TailFacts DEF PushUnread, TypeOK
    <2> DEFINE k == UnreadMsg(n, Head(todo[n]))
    <2>2. k \in Msgs /\ Publishes(k)
        BY <1>3, <2>1, MsgFacts DEF Publishes
    <2>3. Publish(HomeOf[n], k) /\ UNCHANGED work
        BY <1>3 DEF PushUnread
    <2> HIDE DEF k, Good
    <2> QED
        BY <1>2, <2>2, <2>3
<1>4. ASSUME NEW n \in Notifies, PushNotify(n) PROVE Good
    <2>1. NotifyMsg(n) \in Msgs /\ Publishes(NotifyMsg(n)) /\ Publish(HomeOf[n], NotifyMsg(n)) /\ UNCHANGED work
        BY <1>4, MsgFacts DEF PushNotify, Publishes
    <2> HIDE DEF Good
    <2> QED
        BY <1>2, <2>1
<1>5. CASE Take(x)
    <2>1. /\ queue[x] # <<>> /\ queue'[x] = Tail(queue[x]) /\ sub'[x] = sub[x]
          /\ work'[x].busy /\ work'[x].msg = Head(queue[x])
        BY <1>5 DEF Take, TypeOK
    <2>2. InWork(x)' = {Head(queue[x])}
        BY <2>1 DEF InWork
    <2>3. Head(queue[x]) \in Range(queue[x]) /\ Range(queue'[x]) \subseteq Range(queue[x])
        BY <1>0, <2>1, TailFacts
    <2>4. /\ Precedes(queue'[x], p, q) => Precedes(queue[x], p, q)
          /\ Head(queue[x]) = p /\ q \in Range(queue'[x]) => Precedes(queue[x], p, q)
        BY <1>0, <2>1, PrecedesTail
    <2> HIDE DEF K
    <2>5. Ahead(x)' \subseteq Ahead(x)
        BY <2>1, <2>2, <2>3 DEF Ahead
    <2>6. NodePrecedes(x, p, q)' => NodePrecedes(x, p, q)
        BY <2>1, <2>2, <2>3, <2>4 DEF NodePrecedes
    <2> QED
        BY <2>5, <2>6
<1>6. CASE InWork(x)' \subseteq InWork(x) /\ queue'[x] = queue[x] /\ (sub'[x] = sub[x] \/ sub'[x] = <<>>)
    <2>1. Range(sub'[x]) \subseteq Range(sub[x]) /\ (Precedes(sub'[x], p, q) => Precedes(sub[x], p, q))
        BY <1>6, EmptyFacts, PrecedesEmpty
    <2> HIDE DEF K
    <2>2. Ahead(x)' \subseteq Ahead(x)
        BY <1>6, <2>1 DEF Ahead
    <2>3. NodePrecedes(x, p, q)' => NodePrecedes(x, p, q)
        BY <1>6, <2>1 DEF NodePrecedes
    <2> QED
        BY <2>2, <2>3
<1>7. CASE Receive(x)
    <2>1. /\ sub[x] # <<>> /\ sub'[x] = Tail(sub[x]) /\ queue'[x] = TrySend(queue[x], Head(sub[x]), QueueCap)
          /\ InWork(x)' = InWork(x)
        BY <1>7 DEF Receive, TypeOK, InWork
    <2>2. Head(sub[x]) \in Msgs /\ Head(sub[x]) \in Range(sub[x]) /\ Range(sub'[x]) \subseteq Range(sub[x])
        BY <1>0, <2>1, TailFacts
    <2>3. Range(queue'[x]) \subseteq Range(queue[x]) \cup {Head(sub[x])}
        <3>1. Range(TrySend(queue[x], Head(sub[x]), QueueCap)) \subseteq Range(queue[x]) \cup {Head(sub[x])}
            BY <1>0, <2>2, TrySendFacts, Zenon
        <3> QED
            BY <2>1, <3>1
    <2>4. Precedes(queue'[x], p, q) => Precedes(queue[x], p, q) \/ (p \in Range(queue[x]) /\ q = Head(sub[x]))
        BY <1>0, <2>1, <2>2, PrecedesTrySend
    <2>5. /\ Precedes(sub'[x], p, q) => Precedes(sub[x], p, q)
          /\ Head(sub[x]) = p /\ q \in Range(sub'[x]) => Precedes(sub[x], p, q)
        BY <1>0, <2>1, PrecedesTail
    <2> HIDE DEF K
    <2>6. Ahead(x)' \subseteq Ahead(x)
        BY <2>1, <2>2, <2>3 DEF Ahead
    <2>7. NodePrecedes(x, p, q)' => NodePrecedes(x, p, q)
        BY <2>1, <2>2, <2>3, <2>4, <2>5 DEF NodePrecedes
    <2> QED
        BY <2>6, <2>7
<1>8. CASE SubscriptionLost(x)
    <2>1. InWork(x)' \subseteq InWork(x) /\ queue'[x] = queue[x] /\ sub'[x] = <<>>
        BY <1>8 DEF SubscriptionLost, TypeOK, InWork
    <2> QED
        BY <1>6, <2>1
<1>9. CASE RangeUser(x) \/ RangeGroup(x) \/ UsersDone(x)
    <2>1. InWork(x)' \subseteq InWork(x) /\ queue' = queue /\ sub' = sub
        BY <1>9, DispatchShrinks
    <2> QED
        BY <1>6, <2>1
<1>10. ASSUME NEW y \in Nodes, y # x, DispatcherStep(y) \/ BrokerStep(y) \/ SubscriptionLost(y)
       PROVE  work'[x] = work[x] /\ queue'[x] = queue[x] /\ sub'[x] = sub[x]
    BY <1>10 DEF DispatcherStep, BrokerStep, Take, RangeUser, UsersDone, RangeGroup, SubscribeChannel, Receive,
                 SubscriptionLost, TypeOK
<1>11. CASE UNCHANGED <<work, queue, sub>>
    BY <1>1, <1>11
<1>12. \/ UNCHANGED <<work, queue, sub>>
       \/ \E n \in Notifies : PushUnread(n) \/ PushNotify(n)
       \/ \E y \in Nodes : DispatcherStep(y) \/ BrokerStep(y) \/ SubscriptionLost(y)
    BY DEF Next, SendStep, Open, Emit, Quit, StartUnread, UnreadFails, NotifyFails, vars
<1>13. BrokerStep(x) => Receive(x) \/ UNCHANGED <<work, queue, sub>>
    BY DEF BrokerStep, SubscribeChannel
<1> HIDE DEF Good
<1> QED
    BY <1>1, <1>3, <1>4, <1>5, <1>7, <1>8, <1>9, <1>10, <1>11, <1>12, <1>13 DEF DispatcherStep

\* The same of a connection: what is written to it was ahead of it, and in the
\* order in which it was ahead.
LEMMA ConnAgrees ==
    ASSUME TypeOK, OrderInv, [Next]_vars, NEW c \in Conns, NEW p, NEW q
    PROVE  /\ Held(c)' \subseteq Held(c) \cup Ahead(HomeOf[c])
           /\ p # q /\ ConnPrecedes(c, p, q)' => ConnPrecedes(c, p, q) \/ q \in {m \in Msgs : Publishes(m)}
<1> DEFINE K == {m \in Msgs : Publishes(m)}
           Good == /\ Held(c)' \subseteq Held(c) \cup Ahead(HomeOf[c])
                   /\ p # q /\ ConnPrecedes(c, p, q)' => ConnPrecedes(c, p, q) \/ q \in K
<1> SUFFICES Good
    OBVIOUS
<1>0. HomeOf[c] \in Nodes /\ got[c] \in Seq(Msgs) /\ chan[c] \in Seq(Msgs) /\ Len(chan[c]) <= ChanCap /\ ChanCap \in Nat
    BY DEF TypeOK
<1>1. /\ Ahead(HomeOf[c])' \subseteq Ahead(HomeOf[c]) \cup K
      /\ NodePrecedes(HomeOf[c], p, q)' => NodePrecedes(HomeOf[c], p, q) \/ q \in K
    BY <1>0, NodeAgrees
<1>2. CASE got'[c] = got[c] /\ chan'[c] = chan[c]
    <2> HIDE DEF K
    <2> QED
        BY <1>1, <1>2, ConnQuiet
<1>3. CASE Emit(c)
    <2>1. chan[c] # <<>> /\ got'[c] = Append(got[c], Head(chan[c])) /\ chan'[c] = Tail(chan[c])
        BY <1>3 DEF Emit, TypeOK
    <2>2. Head(chan[c]) \in Msgs /\ Head(chan[c]) \in Range(chan[c]) /\ Range(chan'[c]) \subseteq Range(chan[c])
        BY <1>0, <2>1, TailFacts
    <2>3. Range(got'[c]) = Range(got[c]) \cup {Head(chan[c])}
        BY <1>0, <2>1, <2>2, AppendRange
    <2>4. Precedes(got'[c], p, q) => Precedes(got[c], p, q) \/ (p \in Range(got[c]) /\ q = Head(chan[c]))
        BY <1>0, <2>1, <2>2, PrecedesAppend
    <2>5. /\ Precedes(chan'[c], p, q) => Precedes(chan[c], p, q)
          /\ Head(chan[c]) = p /\ q \in Range(chan'[c]) => Precedes(chan[c], p, q)
        BY <1>0, <2>1, PrecedesTail
    <2>6. Held(c)' \subseteq Held(c)
        BY <2>2, <2>3 DEF Held
    <2> HIDE DEF K
    <2>7. ConnPrecedes(c, p, q)' => ConnPrecedes(c, p, q) \/ q \in K
        BY <1>1, <2>2, <2>3, <2>4, <2>5, <2>6 DEF ConnPrecedes
    <2> QED
        BY <2>6, <2>7
<1>4. CASE Quit(c)
    <2>1. got'[c] = got[c] /\ chan'[c] = <<>>
        BY <1>4 DEF Quit, TypeOK
    <2>2. Range(chan'[c]) = {} /\ ~Precedes(chan'[c], p, q) /\ Held(c)' \subseteq Held(c)
        BY <2>1, EmptyFacts, PrecedesEmpty DEF Held
    <2> HIDE DEF K
    <2>3. ConnPrecedes(c, p, q)' => ConnPrecedes(c, p, q) \/ q \in K
        BY <1>1, <2>1, <2>2 DEF ConnPrecedes
    <2> QED
        BY <2>2, <2>3
<1>5. ASSUME NEW x \in Nodes, RangeUser(x) \/ RangeGroup(x), chan'[c] # chan[c] PROVE Good
    <2> DEFINE k == work[x].msg
    <2>1. k \in Msgs /\ InWork(x) = {k} /\ InWork(x)' \subseteq InWork(x) /\ UNCHANGED <<queue, sub, got>>
        BY <1>5, BusyFacts, DispatchShrinks DEF RangeUser, RangeGroup, InWork
    <2>2. PICK cs : Write(cs, k) /\ \A d \in cs : HomeOf[d] = x
        BY <1>5 DEF RangeUser, RangeGroup, UserConns, GroupConns
    <2>3. HomeOf[c] = x /\ chan'[c] = TrySend(chan[c], k, ChanCap)
        <3> HIDE DEF k
        <3>1. chan'[c] = IF c \in cs THEN TrySend(chan[c], k, ChanCap) ELSE chan[c]
            BY <2>1, <2>2, WriteFacts, Zenon
        <3> QED
            BY <1>5, <2>2, <3>1
    <2> HIDE DEF k
    <2>4. Range(chan'[c]) \subseteq Range(chan[c]) \cup {k}
        <3>1. Range(TrySend(chan[c], k, ChanCap)) \subseteq Range(chan[c]) \cup {k}
            BY <1>0, <2>1, TrySendFacts, Zenon
        <3> QED
            BY <2>3, <3>1
    <2>5. Precedes(chan'[c], p, q) => Precedes(chan[c], p, q) \/ (p \in Range(chan[c]) /\ q = k)
        BY <1>0, <2>1, <2>3, PrecedesTrySend
    <2>6. Held(c)' \subseteq Held(c) \cup {k} /\ k \in Ahead(x) /\ Range(got[c]) \subseteq Held(c) /\ Range(chan[c]) \subseteq Held(c)
        BY <2>1, <2>4 DEF Held, Ahead
    <2>7. Ahead(x)' \subseteq Ahead(x)
        BY <2>1 DEF Ahead
    <2>8. p # q /\ p = k /\ q \in Ahead(x) => NodePrecedes(x, p, q)
        BY <2>1 DEF Ahead, NodePrecedes
    <2>9. got'[c] = got[c]
        BY <2>1
    <2> HIDE DEF K
    <2>10. p # q /\ ConnPrecedes(c, p, q)' => ConnPrecedes(c, p, q) \/ q \in K
        <3>1. CASE Precedes(got'[c], p, q)
            BY <2>9, <3>1 DEF ConnPrecedes
        <3>2. CASE Precedes(chan'[c], p, q)
            BY <2>3, <2>5, <2>6, <3>2 DEF ConnPrecedes
        <3>3. CASE p \in Range(got'[c]) /\ q \in Range(chan'[c])
            BY <2>3, <2>4, <2>6, <2>9, <3>3 DEF ConnPrecedes
        <3>4. CASE p # q /\ p \in Held(c)' /\ q \in Ahead(HomeOf[c])'
            BY <2>3, <2>6, <2>7, <2>8, <3>4 DEF ConnPrecedes
        <3>5. CASE NodePrecedes(HomeOf[c], p, q)'
            BY <1>1, <3>5 DEF ConnPrecedes
        <3> QED
            BY <3>1, <3>2, <3>3, <3>4, <3>5 DEF ConnPrecedes
    <2> QED
        BY <2>3, <2>6, <2>10
<1>6. ASSUME NEW d \in Conns, Emit(d) \/ Quit(d), d # c PROVE got'[c] = got[c] /\ chan'[c] = chan[c]
    BY <1>6 DEF Emit, Quit, TypeOK
<1>7. ASSUME NEW x \in Nodes, RangeUser(x) \/ RangeGroup(x) PROVE got'[c] = got[c]
    BY <1>7 DEF RangeUser, RangeGroup
<1>8. \/ UNCHANGED <<chan, got>>
      \/ \E d \in Conns : Emit(d) \/ Quit(d)
      \/ \E x \in Nodes : RangeUser(x) \/ RangeGroup(x)
    BY DEF Next, SendStep, DispatcherStep, BrokerStep, Open, StartUnread, PushUnread, UnreadFails, PushNotify, NotifyFails,
           Take, UsersDone, SubscribeChannel, Receive, SubscriptionLost, vars
<1> HIDE DEF Good
<1> QED
    BY <1>2, <1>3, <1>4, <1>5, <1>6, <1>7, <1>8

\* A step publishes at most one message.
LEMMA PublishesOne ==
    ASSUME TypeOK, NEW p, NEW q, Publishes(p), Publishes(q)
    PROVE  p = q
<1>1. ASSUME NEW n \in Notifies, PushUnread(n) PROVE todo[n] # <<>> /\ \A k \in Notifies : k # n => todo'[k] = todo[k]
    BY <1>1 DEF PushUnread, TypeOK
<1>2. ASSUME NEW n \in Notifies, PushUnread(n) PROVE todo'[n] # todo[n] /\ UNCHANGED pc
    <2>1. todo[n] \in Seq(Users) /\ todo[n] # <<>> /\ todo'[n] = Tail(todo[n])
        BY <1>2 DEF PushUnread, TypeOK
    <2> DEFINE t == todo[n]  r == Tail(t)
    <2>2. Len(r) = Len(t) - 1 /\ Len(t) \in Nat
        <3>1. t \in Seq(Users) /\ t # <<>>
            BY <2>1
        <3> HIDE DEF t
        <3> QED
            BY <3>1, TailFacts, LenProperties
    <2> HIDE DEF t, r
    <2>3. r # t
        BY <2>2
    <2> USE DEF t, r
    <2> QED
        BY <1>2, <2>1, <2>3 DEF PushUnread
<1>3. ASSUME NEW n \in Notifies, PushNotify(n)
      PROVE  pc'[n] # pc[n] /\ UNCHANGED todo /\ \A k \in Notifies : k # n => pc'[k] = pc[k]
    BY <1>3 DEF PushNotify, TypeOK
<1> QED
    BY <1>1, <1>2, <1>3 DEF Publishes

LEMMA FreshStep == TypeOK /\ TypeOK' /\ OrderInv /\ FreshInv /\ [Next]_vars => FreshInv'
<1> SUFFICES ASSUME TypeOK, TypeOK', OrderInv, FreshInv, [Next]_vars, NEW m \in Msgs, SentOnce(m)
             PROVE  Unsent(m)' <= 1 /\ (Out(m)' => Unsent(m)' = 0)
    <2>1. \A m \in Msgs : SentOnce(m)' = SentOnce(m)
        BY DEF SentOnce, Occurrences
    <2> QED
        BY <2>1, MsgsConstant DEF FreshInv
<1>0. Unsent(m) \in Nat /\ Unsent(m) <= 1 /\ (Out(m) => Unsent(m) = 0)
    BY UnsentNumber DEF FreshInv
<1>1. Unsent(m)' \in Nat
    BY UnsentNext, MsgsConstant
<1>2. Out(m)' => Out(m) \/ Publishes(m)
    <2>1. \A x \in Nodes : m \in Ahead(x)' => m \in Ahead(x) \/ Publishes(m)
        BY NodeAgrees
    <2>2. \A c \in Conns : m \in Held(c)' => m \in Held(c) \/ m \in Ahead(HomeOf[c])
        BY ConnAgrees
    <2>3. \A c \in Conns : HomeOf[c] \in Nodes
        OBVIOUS
    <2> QED
        BY <2>1, <2>2, <2>3 DEF Out
<1>3. Publishes(m) => Unsent(m) = Unsent(m)' + 1
    BY UnsentCount, UnsentNotify DEF Publishes
<1>4. Unsent(m)' <= Unsent(m)
    <2>1. ASSUME NEW n \in Notifies, StartUnread(n) PROVE Unsent(m)' <= Unsent(m)
        BY <2>1, UnsentStart
    <2>2. ASSUME NEW n \in Notifies, PushUnread(n) \/ UnreadFails(n) PROVE Unsent(m)' <= Unsent(m)
        BY <1>0, <1>1, <2>2, UnsentCount
    <2>3. ASSUME NEW n \in Notifies, PushNotify(n) \/ NotifyFails(n) PROVE Unsent(m)' <= Unsent(m)
        BY <1>0, <1>1, <2>3, UnsentNotify
    <2>4. CASE UNCHANGED <<pc, todo>>
        <3>1. Unsent(m)' = Unsent(m)
            BY <2>4 DEF Unsent, Copies, Occurrences, Broadcast
        <3> QED
            BY <1>0, <3>1
    <2>5. \/ UNCHANGED <<pc, todo>>
          \/ \E n \in Notifies : SendStep(n) \/ UnreadFails(n) \/ NotifyFails(n)
        BY DEF Next, DispatcherStep, BrokerStep, Open, Emit, Quit, Take, RangeUser, UsersDone, RangeGroup,
               SubscribeChannel, Receive, SubscriptionLost, vars
    <2> QED
        BY <2>1, <2>2, <2>3, <2>4, <2>5 DEF SendStep
<1> QED
    BY <1>0, <1>1, <1>2, <1>3, <1>4

LEMMA AgreementStep == TypeOK /\ OrderInv /\ FreshInv /\ Agreement /\ [Next]_vars => Agreement'
<1> SUFFICES ASSUME TypeOK, OrderInv, FreshInv, Agreement, [Next]_vars,
                    NEW p \in Msgs, NEW q \in Msgs, p # q, SentOnce(p), SentOnce(q), NEW c \in Conns, NEW d \in Conns,
                    ConnPrecedes(c, p, q)', ConnPrecedes(d, q, p)'
             PROVE  FALSE
    <2>1. \A m \in Msgs : SentOnce(m)' = SentOnce(m)
        BY DEF SentOnce, Occurrences
    <2> QED
        BY <2>1, MsgsConstant DEF Agreement
<1>1. ConnPrecedes(c, p, q) \/ Publishes(q)
    BY ConnAgrees
<1>2. ConnPrecedes(d, q, p) \/ Publishes(p)
    BY ConnAgrees
<1>3. ~(ConnPrecedes(c, p, q) /\ ConnPrecedes(d, q, p))
    BY DEF Agreement
<1>4. ~(Publishes(p) /\ Publishes(q))
    BY PublishesOne
<1>5. ASSUME NEW m \in Msgs, SentOnce(m), Publishes(m) PROVE ~Out(m)
    <2>1. Unsent(m) = Unsent(m)' + 1
        BY <1>5, UnsentCount, UnsentNotify DEF Publishes
    <2>2. Unsent(m)' \in Nat
        BY TypeStep, UnsentNext, MsgsConstant
    <2> QED
        BY <1>5, <2>1, <2>2 DEF FreshInv
<1>6. CASE Publishes(q)
    BY <1>2, <1>4, <1>5, <1>6, PrecedesOut
<1>7. CASE Publishes(p)
    BY <1>1, <1>4, <1>5, <1>7, PrecedesOut
<1> QED
    BY <1>1, <1>2, <1>3, <1>6, <1>7

\* dispatch/dispatcher.go:65: two clients receive what both receive in the same
\* order, in one process or in several, whatever is dropped on the way to each.
THEOREM AgreedOrderCorrect == Spec => []AgreedOrder
<1>1. Init => FreshInv /\ Agreement
    <2> SUFFICES ASSUME Init PROVE FreshInv /\ Agreement
        OBVIOUS
    <2>1. \A x \in Nodes : queue[x] = <<>> /\ sub[x] = <<>> /\ work[x] = Idle
        BY DEF Init
    <2>2. \A x \in Nodes : Ahead(x) = {}
        BY <2>1, EmptyFacts DEF Ahead, InWork, Idle
    <2>3. \A c \in Conns : Held(c) = {}
        BY EmptyFacts DEF Init, Held
    <2>4. \A m : ~Out(m)
        BY <2>2, <2>3 DEF Out
    <2>5. ASSUME NEW m \in Msgs, SentOnce(m) PROVE Unsent(m) <= 1
        BY <2>5, MsgFacts DEF Init, Unsent, Copies, SentOnce
    <2>6. FreshInv
        BY <2>4, <2>5 DEF FreshInv
    <2>7. Agreement
        BY <2>4, PrecedesOut DEF Agreement
    <2> QED
        BY <2>6, <2>7
<1>2. TypeOK /\ Agreement => AgreedOrder
    <2> SUFFICES ASSUME TypeOK, Agreement, NEW c \in Conns, NEW d \in Conns,
                        NEW i \in DOMAIN got[c], NEW j \in DOMAIN got[c], NEW k \in DOMAIN got[d], NEW l \in DOMAIN got[d],
                        i < j, got[c][i] = got[d][k], got[c][j] = got[d][l], got[c][i] # got[c][j],
                        SentOnce(got[c][i]), SentOnce(got[c][j]), ~(k < l)
                 PROVE  FALSE
        BY DEF AgreedOrder
    <2>1. got[c] \in Seq(Msgs) /\ got[d] \in Seq(Msgs)
        BY DEF TypeOK
    <2>2. got[c][i] \in Msgs /\ got[c][j] \in Msgs /\ k \in Nat /\ l \in Nat
        BY <2>1, ElementOfSeq, LenProperties
    <2>3. l < k
        BY <2>2
    <2>4. ConnPrecedes(c, got[c][i], got[c][j]) /\ ConnPrecedes(d, got[c][j], got[c][i])
        BY <2>3 DEF ConnPrecedes, Precedes
    <2> QED
        BY <2>2, <2>4 DEF Agreement
<1>3. Init => OrderInv
    BY OrderInit
<1> QED
    BY <1>1, <1>2, <1>3, TypeInit, TypeStep, OrderStep, FreshStep, AgreementStep, PTL DEF Spec

-----------------------------------------------------------------------------
(* Where messages are lost *)

\* A receive takes the first message and leaves the others.
LEMMA TailRange ==
    ASSUME NEW S, NEW s \in Seq(S), s # <<>>
    PROVE  Range(s) = {Head(s)} \cup Range(Tail(s))
<1> DEFINE t == Tail(s)
<1>1. /\ DOMAIN t = 1..(Len(s) - 1) /\ DOMAIN s = 1..Len(s) /\ Len(s) \in Nat \ {0}
      /\ \A i \in 1..(Len(s) - 1) : t[i] = s[i + 1]
      /\ Head(s) = s[1]
    BY HeadTailProperties, LenProperties, EmptySeq
<1>2. Head(s) \in Range(s) /\ Range(t) \subseteq Range(s)
    BY TailFacts
<1> HIDE DEF t
<1>3. ASSUME NEW i \in DOMAIN s PROVE s[i] \in {Head(s)} \cup Range(t)
    <2>1. CASE i = 1
        BY <1>1, <2>1
    <2>2. CASE i # 1
        <3>1. i - 1 \in DOMAIN t /\ t[i - 1] = s[i]
            BY <1>1, <2>2
        <3> QED
            BY <3>1 DEF Range
    <2> QED
        BY <2>1, <2>2
<1>4. Range(s) \subseteq {Head(s)} \cup Range(t)
    BY <1>3 DEF Range
<1> QED
    BY <1>2, <1>4 DEF t

\* A non-blocking send keeps what is there, and takes the message when it can.
LEMMA TrySendRange ==
    ASSUME NEW S, NEW s \in Seq(S), NEW k \in S, NEW cap \in Nat, Len(s) <= cap
    PROVE  Range(s) \subseteq Range(TrySend(s, k, cap)) /\ (k \in Range(TrySend(s, k, cap)) \/ Len(s) = cap)
<1>1. CASE Len(s) < cap
    <2>1. Range(Append(s, k)) = Range(s) \cup {k}
        BY AppendRange
    <2>2. TrySend(s, k, cap) = Append(s, k)
        BY <1>1 DEF TrySend
    <2> QED
        BY <2>1, <2>2
<1>2. CASE ~(Len(s) < cap)
    <2>1. TrySend(s, k, cap) = s /\ Len(s) = cap
        BY <1>2, LenProperties DEF TrySend
    <2> QED
        BY <2>1
<1> QED
    BY <1>1, <1>2

\* One step, one connection, one message.
Kept(c, m) ==
    phase[c] = "open" /\ phase'[c] = "open" /\ Addressed(c, m) /\ OnItsWay(c, m) => OnItsWay(c, m)' \/ Dropped(c, m)

\* Publishing removes nothing.
LEMMA KeptByPublish ==
    ASSUME TypeOK, NEW c \in Conns, NEW m \in Msgs, NEW y \in Nodes, NEW k \in Msgs, Publish(y, k),
           UNCHANGED <<work, chan, got>>
    PROVE  Kept(c, m)
<1> DEFINE x == HomeOf[c]
<1>0. x \in Nodes /\ queue[x] \in Seq(Msgs) /\ Len(queue[x]) <= QueueCap /\ QueueCap \in Nat /\ sub[x] \in Seq(Msgs)
    BY DEF TypeOK
<1>1. Range(sub[x]) \subseteq Range(Append(sub[x], k)) /\ Range(queue[x]) \subseteq Range(TrySend(queue[x], k, QueueCap))
    <2>1. Range(Append(sub[x], k)) = Range(sub[x]) \cup {k}
        BY <1>0, AppendRange
    <2>2. Range(queue[x]) \subseteq Range(TrySend(queue[x], k, QueueCap))
        BY <1>0, TrySendRange, Zenon
    <2> QED
        BY <2>1, <2>2
<1>2. /\ queue'[x] \in {queue[x], TrySend(queue[x], k, QueueCap)}
      /\ sub'[x] \in {sub[x], Append(sub[x], k)}
    BY <1>0, PublishFacts
<1>3. Range(queue[x]) \subseteq Range(queue'[x]) /\ Range(sub[x]) \subseteq Range(sub'[x])
    BY <1>1, <1>2
<1> QED
    BY <1>3 DEF Kept, OnItsWay, ToAll

\* The steps of a connection: its own stay in its queues until they are received.
LEMMA KeptByConn ==
    ASSUME TypeOK, NEW c \in Conns, NEW m \in Msgs, NEW d \in Conns, Emit(d) \/ Quit(d)
    PROVE  Kept(c, m)
<1>1. UNCHANGED <<work, queue, sub>>
    BY DEF Emit, Quit
<1>2. CASE d # c
    <2>1. got'[c] = got[c] /\ chan'[c] = chan[c]
        BY <1>2 DEF Emit, Quit, TypeOK
    <2> QED
        BY <1>1, <2>1 DEF Kept, OnItsWay, ToAll
<1>3. CASE d = c /\ Quit(d)
    <2>1. phase'[c] = "gone"
        BY <1>3 DEF Quit, TypeOK
    <2> QED
        BY <2>1 DEF Kept
<1>4. CASE d = c /\ Emit(d)
    <2>1. /\ got[c] \in Seq(Msgs) /\ chan[c] \in Seq(Msgs) /\ chan[c] # <<>>
          /\ got'[c] = Append(got[c], Head(chan[c])) /\ chan'[c] = Tail(chan[c])
        BY <1>4 DEF Emit, TypeOK
    <2>2. Head(chan[c]) \in Msgs /\ Range(chan[c]) = {Head(chan[c])} \cup Range(chan'[c])
        BY <2>1, TailFacts, TailRange
    <2>3. Range(got'[c]) = Range(got[c]) \cup {Head(chan[c])}
        BY <2>1, <2>2, AppendRange
    <2> QED
        BY <1>1, <2>2, <2>3 DEF Kept, OnItsWay, ToAll
<1> QED
    BY <1>2, <1>3, <1>4

\* The steps of the broker.
LEMMA KeptByBroker ==
    ASSUME TypeOK, NEW c \in Conns, NEW m \in Msgs, NEW x \in Nodes, Receive(x) \/ SubscriptionLost(x)
    PROVE  Kept(c, m)
<1>0. HomeOf[c] \in Nodes /\ UNCHANGED <<work, chan, got>>
    BY DEF Receive, SubscriptionLost
<1>1. CASE x # HomeOf[c]
    <2>1. queue'[HomeOf[c]] = queue[HomeOf[c]] /\ sub'[HomeOf[c]] = sub[HomeOf[c]]
        BY <1>0, <1>1 DEF Receive, SubscriptionLost, TypeOK
    <2> QED
        BY <1>0, <2>1 DEF Kept, OnItsWay, ToAll
<1>2. CASE x = HomeOf[c] /\ SubscriptionLost(x)
    <2>1. x \in up /\ x \notin up' /\ queue' = queue
        BY <1>2 DEF SubscriptionLost
    <2> QED
        BY <1>0, <1>2, <2>1 DEF Kept, OnItsWay, Dropped, ToAll
<1>3. CASE x = HomeOf[c] /\ Receive(x)
    <2>1. /\ sub[x] \in Seq(Msgs) /\ sub[x] # <<>> /\ sub'[x] = Tail(sub[x])
          /\ queue[x] \in Seq(Msgs) /\ Len(queue[x]) <= QueueCap /\ QueueCap \in Nat
          /\ queue'[x] = TrySend(queue[x], Head(sub[x]), QueueCap)
        BY <1>3 DEF Receive, TypeOK
    <2>2. Head(sub[x]) \in Msgs /\ Range(sub[x]) = {Head(sub[x])} \cup Range(sub'[x])
        BY <2>1, TailFacts, TailRange
    <2>3. Range(queue[x]) \subseteq Range(queue'[x]) /\ (Head(sub[x]) \in Range(queue'[x]) \/ Len(queue[x]) = QueueCap)
        <3> DEFINE r == TrySend(queue[x], Head(sub[x]), QueueCap)
        <3>1. Range(queue[x]) \subseteq Range(r) /\ (Head(sub[x]) \in Range(r) \/ Len(queue[x]) = QueueCap)
            BY <2>1, <2>2, TrySendRange, Zenon
        <3> QED
            BY <2>1, <3>1
    <2> QED
        BY <1>0, <1>3, <2>1, <2>2, <2>3 DEF Kept, OnItsWay, Dropped, ToAll
<1> QED
    BY <1>1, <1>2, <1>3

\* What Write does to a connection.
LEMMA WriteRange ==
    ASSUME TypeOK, NEW cs, NEW k \in Msgs, Write(cs, k), NEW c \in Conns
    PROVE  /\ Range(chan[c]) \subseteq Range(chan'[c])
           /\ c \in cs => k \in Range(chan'[c]) \/ Len(chan[c]) = ChanCap
<1>1. chan[c] \in Seq(Msgs) /\ Len(chan[c]) <= ChanCap /\ ChanCap \in Nat
    BY DEF TypeOK
<1>2. chan'[c] = IF c \in cs THEN TrySend(chan[c], k, ChanCap) ELSE chan[c]
    BY WriteFacts, Zenon
<1> DEFINE r == TrySend(chan[c], k, ChanCap)
<1>3. Range(chan[c]) \subseteq Range(r) /\ (k \in Range(r) \/ Len(chan[c]) = ChanCap)
    BY <1>1, TrySendRange, Zenon
<1> HIDE DEF r
<1>4. chan'[c] = IF c \in cs THEN r ELSE chan[c]
    BY <1>2 DEF r
<1> QED
    BY <1>3, <1>4

\* The steps of the dispatcher.
LEMMA KeptByDispatcher ==
    ASSUME TypeOK, NEW c \in Conns, NEW m \in Msgs, NEW x \in Nodes, DispatcherStep(x)
    PROVE  Kept(c, m)
<1>0. HomeOf[c] \in Nodes /\ UNCHANGED <<sub, got>>
    BY DEF DispatcherStep, Take, RangeUser, UsersDone, RangeGroup
<1>1. Range(chan[c]) \subseteq Range(chan'[c])
    <2>1. CASE RangeUser(x) \/ RangeGroup(x)
        <3>1. work[x].msg \in Msgs
            BY <2>1, BusyFacts DEF RangeUser, RangeGroup
        <3>2. PICK cs : Write(cs, work[x].msg)
            BY <2>1 DEF RangeUser, RangeGroup
        <3> QED
            BY <3>1, <3>2, WriteRange
    <2> QED
        BY <2>1 DEF DispatcherStep, Take, UsersDone
<1>2. CASE x # HomeOf[c]
    <2>1. queue'[HomeOf[c]] = queue[HomeOf[c]] /\ work'[HomeOf[c]] = work[HomeOf[c]]
        BY <1>0, <1>2 DEF DispatcherStep, Take, RangeUser, UsersDone, RangeGroup, TypeOK
    <2> QED
        BY <1>0, <1>1, <2>1 DEF Kept, OnItsWay, ToAll
<1>3. CASE x = HomeOf[c] /\ Take(x)
    <2>1. /\ queue[x] \in Seq(Msgs) /\ queue[x] # <<>> /\ queue'[x] = Tail(queue[x]) /\ ~work[x].busy
          /\ work'[x].busy /\ work'[x].msg = Head(queue[x]) /\ work'[x].left = Head(queue[x]).to
        BY <1>3 DEF Take, TypeOK, Idle
    <2>2. Range(queue[x]) = {Head(queue[x])} \cup Range(queue'[x])
        BY <2>1, TailRange
    <2> QED
        BY <1>0, <1>1, <1>3, <2>1, <2>2 DEF Kept, OnItsWay, Addressed, ToAll
<1>4. CASE x = HomeOf[c] /\ RangeUser(x)
    <2> DEFINE k == work[x].msg  h == Head(work[x].left)  cs == UserConns(x, TenantOf[k.n], h)
    <2>1. /\ work[x] \in [busy : {TRUE}, msg : Msgs, left : Seq(Users)] /\ work[x].busy /\ k \in Msgs
          /\ work[x].left \in Seq(Users) /\ work[x].left # <<>>
        BY <1>4, BusyFacts DEF RangeUser
    <2>2. work'[x].busy /\ work'[x].msg = k /\ work'[x].left = Tail(work[x].left) /\ queue' = queue
        BY <1>4, <2>1 DEF RangeUser, TypeOK
    <2>3. Write(cs, k) /\ ~ToAll(k)
        BY <1>4 DEF RangeUser
    <2>4. Range(work[x].left) = {h} \cup Range(work'[x].left)
        BY <2>1, <2>2, TailRange
    <2>5. c \in cs => k \in Range(chan'[c]) \/ Len(chan[c]) = ChanCap
        <3> HIDE DEF cs, k
        <3> QED
            BY <2>1, <2>3, WriteRange
    <2>6. phase[c] = "open" /\ Addressed(c, m) /\ k = m /\ h = UserOf[c] => c \in cs
        BY <1>4 DEF UserConns, GroupConns, Addressed
    <2> HIDE DEF cs, h
    <2> QED
        BY <1>0, <1>1, <1>4, <2>1, <2>2, <2>3, <2>4, <2>5, <2>6 DEF Kept, OnItsWay, Dropped, ToAll
<1>5. CASE x = HomeOf[c] /\ UsersDone(x)
    <2>1. ~ToAll(work[x].msg) /\ Range(work[x].left) = {} /\ queue' = queue
        BY <1>5, EmptyFacts DEF UsersDone
    <2> QED
        BY <1>0, <1>1, <1>5, <2>1 DEF Kept, OnItsWay, ToAll
<1>6. CASE x = HomeOf[c] /\ RangeGroup(x)
    <2> DEFINE k == work[x].msg  cs == GroupConns(x, TenantOf[k.n])
    <2>1. work[x].busy /\ k \in Msgs /\ Write(cs, k) /\ queue' = queue
        BY <1>6, BusyFacts DEF RangeGroup
    <2>2. c \in cs => k \in Range(chan'[c]) \/ Len(chan[c]) = ChanCap
        <3> HIDE DEF cs, k
        <3> QED
            BY <2>1, WriteRange
    <2>3. phase[c] = "open" /\ Addressed(c, m) /\ k = m => c \in cs
        BY <1>6 DEF GroupConns, Addressed
    <2> HIDE DEF cs
    <2> QED
        BY <1>0, <1>1, <1>6, <2>1, <2>2, <2>3 DEF Kept, OnItsWay, Dropped, ToAll
<1> QED
    BY <1>2, <1>3, <1>4, <1>5, <1>6 DEF DispatcherStep

LEMMA KeptStep == TypeOK /\ [Next]_vars => \A c \in Conns, m \in Msgs : Kept(c, m)
<1> SUFFICES ASSUME TypeOK, [Next]_vars, NEW c \in Conns, NEW m \in Msgs PROVE Kept(c, m)
    OBVIOUS
<1>1. CASE UNCHANGED <<sub, queue, work, chan, got>>
    BY <1>1 DEF Kept, OnItsWay, ToAll
<1>2. ASSUME NEW d \in Conns, Emit(d) \/ Quit(d) PROVE Kept(c, m)
    BY <1>2, KeptByConn
<1>3. ASSUME NEW n \in Notifies, PushUnread(n) PROVE Kept(c, m)
    <2>1. Head(todo[n]) \in Users
        BY <1>3, TailFacts DEF PushUnread, TypeOK
    <2> DEFINE k == UnreadMsg(n, Head(todo[n]))
    <2>2. k \in Msgs /\ HomeOf[n] \in Nodes /\ Publish(HomeOf[n], k) /\ UNCHANGED <<work, chan, got>>
        BY <1>3, <2>1, MsgFacts DEF PushUnread
    <2> HIDE DEF k
    <2> QED
        BY <2>2, KeptByPublish
<1>4. ASSUME NEW n \in Notifies, PushNotify(n) PROVE Kept(c, m)
    <2>1. NotifyMsg(n) \in Msgs /\ HomeOf[n] \in Nodes /\ Publish(HomeOf[n], NotifyMsg(n)) /\ UNCHANGED <<work, chan, got>>
        BY <1>4, MsgFacts DEF PushNotify
    <2> QED
        BY <2>1, KeptByPublish
<1>5. ASSUME NEW x \in Nodes, DispatcherStep(x) PROVE Kept(c, m)
    BY <1>5, KeptByDispatcher
<1>6. ASSUME NEW x \in Nodes, Receive(x) \/ SubscriptionLost(x) PROVE Kept(c, m)
    BY <1>6, KeptByBroker
<1>7. \/ UNCHANGED <<sub, queue, work, chan, got>>
      \/ \E d \in Conns : Emit(d) \/ Quit(d)
      \/ \E n \in Notifies : PushUnread(n) \/ PushNotify(n)
      \/ \E x \in Nodes : DispatcherStep(x) \/ Receive(x) \/ SubscriptionLost(x)
    BY DEF Next, SendStep, BrokerStep, Open, StartUnread, UnreadFails, NotifyFails, SubscribeChannel, vars
<1> QED
    BY <1>1, <1>2, <1>3, <1>4, <1>5, <1>6, <1>7

\* broker_cluster_redis.go:92, dispatcher.process, HubSSEConnection.Write: a full
\* queue, a full channel and a broken subscription are the only places where a
\* message that is on its way to an open connection is lost.
THEOREM LostOnlyAtLimitsCorrect == Spec => LostOnlyAtLimits
<1>1. TypeOK /\ [Next]_vars =>
          [\A c \in Conns, m \in Msgs :
              phase[c] = "open" /\ phase'[c] = "open" /\ Addressed(c, m) /\ OnItsWay(c, m)
                  => OnItsWay(c, m)' \/ Dropped(c, m)]_vars
    BY KeptStep DEF Kept
<1> QED
    BY <1>1, TypeCorrect, PTL DEF Spec, LostOnlyAtLimits
=============================================================================
