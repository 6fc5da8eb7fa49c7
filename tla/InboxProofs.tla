---------------------------- MODULE InboxProofs ----------------------------
(***************************************************************************)
(* Proofs about the paging of Inbox: offset, limit and the number of pages *)
(* for every page size and every number of notifications.                  *)
(***************************************************************************)
EXTENDS CleanupProofs

-----------------------------------------------------------------------------
(* Arithmetic of pages *)

LEMMA DivBounds ==
    ASSUME NEW a \in Nat, NEW b \in Nat \ {0}
    PROVE  a \div b \in Nat /\ (a \div b) * b <= a /\ a < (a \div b) * b + b
<1>1. a \div b \in Nat
  OBVIOUS
<1>2. b * (a \div b) <= a
  OBVIOUS
<1>3. a < b * (a \div b) + b
  OBVIOUS
<1> QED BY <1>1, <1>2, <1>3

\* Multiples of the page size.
LEMMA Multiples ==
    ASSUME NEW p \in Int, NEW s \in Nat
    PROVE  p * s \in Int /\ (p - 1) * s = p * s - s /\ (p + 1) * s = p * s + s
OBVIOUS

LEMMA MultiplesGrow ==
    ASSUME NEW p \in Int, NEW q \in Int, NEW s \in Nat, p <= q
    PROVE  p * s <= q * s
OBVIOUS

\* PagesTotal: the rounding covers everything, and no page more than needed.
LEMMA LastPage ==
    ASSUME NEW u, NEW box, TotalCount(u, box) \in Nat, NEW s \in Nat \ {0}
    PROVE  LET last == PagesTotal(u, box, s)
           IN  /\ last \in Nat
               /\ TotalCount(u, box) <= last * s
               /\ last > 0 => (last - 1) * s < TotalCount(u, box)
<1> DEFINE N == TotalCount(u, box)
           L == (N + s - 1) \div s
<1>1. CASE N = 0
  BY <1>1 DEF PagesTotal
<1>2. CASE N > 0
  <2>1. N + s - 1 \in Nat
    BY <1>2
  <2>2. L \in Nat /\ L * s <= N + s - 1 /\ N + s - 1 < L * s + s
    BY <2>1, DivBounds
  <2>3. L * s \in Int /\ (L - 1) * s = L * s - s
    BY <2>2, Multiples
  <2> HIDE DEF L
  <2>4. N <= L * s /\ (L - 1) * s < N
    BY <2>2, <2>3
  <2>5. PagesTotal(u, box, s) = L
    BY <1>2 DEF PagesTotal, L
  <2> QED BY <2>2, <2>4, <2>5
<1> QED BY <1>1, <1>2

\* Every rank is on one page.
LEMMA PageOfRank ==
    ASSUME NEW r \in Nat \ {0}, NEW s \in Nat \ {0}
    PROVE  \E p \in Nat \ {0} : r \in (p - 1) * s + 1 .. p * s
<1> DEFINE p == (r - 1) \div s
<1>1. r - 1 \in Nat
  OBVIOUS
<1>2. p \in Nat /\ p * s <= r - 1 /\ r - 1 < p * s + s
  BY <1>1, DivBounds
<1>3. p * s \in Int /\ (p + 1) * s = p * s + s
  BY <1>2, Multiples
<1> HIDE DEF p
<1>4. p + 1 \in Nat \ {0} /\ (p + 1) - 1 = p
  BY <1>2
<1>5. r \in ((p + 1) - 1) * s + 1 .. (p + 1) * s
  BY <1>2, <1>3, <1>4
<1> QED BY <1>4, <1>5

\* A rank on two pages: they are the same.
LEMMA OnePage ==
    ASSUME NEW p \in Int, NEW q \in Int, NEW s \in Nat, p < q,
           NEW r \in Int, r <= p * s
    PROVE  r \notin (q - 1) * s + 1 .. q * s
<1>1. p * s <= (q - 1) * s
  BY MultiplesGrow
<1>2. p * s \in Int /\ (q - 1) * s \in Int
  BY Multiples
<1> QED BY <1>1, <1>2

-----------------------------------------------------------------------------
(* Ranks *)

\* A list in which no two items have one creation time.
Sorted(S) ==
    /\ IsFiniteSet(S)
    /\ \A i \in S : created[i.n] \in Nat
    /\ \A i, j \in S : created[i.n] = created[j.n] => i = j

LEMMA RankGrows ==
    ASSUME NEW S, Sorted(S), NEW i \in S, NEW j \in S, Newer(i, j)
    PROVE  Rank(i, S) < Rank(j, S)
<1> DEFINE A == {k \in S : Newer(k, i)}
           B == {k \in S : Newer(k, j)}
<1>1. IsFiniteSet(A) /\ IsFiniteSet(B)
  BY FS_Subset DEF Sorted
<1>2. i \notin A /\ A \cup {i} \subseteq B
  BY DEF Newer, Sorted
<1>3. Cardinality(A \cup {i}) = Cardinality(A) + 1
  BY <1>1, <1>2, FS_AddElement
<1>4. Cardinality(A \cup {i}) <= Cardinality(B)
  BY <1>1, <1>2, FS_Subset
<1>5. Cardinality(A) \in Nat /\ Cardinality(B) \in Nat
  BY <1>1, FS_CardinalityType
<1> QED BY <1>3, <1>4, <1>5 DEF Rank

LEMMA RankRange ==
    ASSUME NEW S, Sorted(S), NEW i \in S
    PROVE  Rank(i, S) \in 1..Cardinality(S)
<1> DEFINE A == {k \in S : Newer(k, i)}
<1>1. IsFiniteSet(S) /\ A \subseteq S \ {i}
  BY DEF Newer, Sorted
<1>2. IsFiniteSet(S \ {i}) /\ Cardinality(S \ {i}) = Cardinality(S) - 1
  BY <1>1, FS_RemoveElement
<1>3. IsFiniteSet(A) /\ Cardinality(A) <= Cardinality(S \ {i})
  BY <1>1, <1>2, FS_Subset
<1>4. Cardinality(A) \in Nat /\ Cardinality(S) \in Nat
  BY <1>1, <1>3, FS_CardinalityType
<1> QED BY <1>2, <1>3, <1>4 DEF Rank

RankOf(S) == [i \in S |-> Rank(i, S)]

\* The ranks of a list number it from 1 without gaps: different items have
\* different ranks, and there are as many ranks as items.
LEMMA RankBijection ==
    ASSUME NEW S, Sorted(S)
    PROVE  RankOf(S) \in Bijection(S, 1..Cardinality(S))
<1>1. RankOf(S) \in [S -> 1..Cardinality(S)]
  BY RankRange DEF RankOf
<1>2. ASSUME NEW i \in S, NEW j \in S, i # j PROVE RankOf(S)[i] # RankOf(S)[j]
  <2>1. Newer(i, j) \/ Newer(j, i)
    BY <1>2 DEF Newer, Sorted
  <2>2. Rank(i, S) \in Int /\ Rank(j, S) \in Int
    <3>1. Rank(i, S) \in 1..Cardinality(S) /\ Rank(j, S) \in 1..Cardinality(S)
      BY RankRange
    <3> QED BY <3>1
  <2>3. Rank(i, S) < Rank(j, S) \/ Rank(j, S) < Rank(i, S)
    BY <2>1, RankGrows
  <2> QED BY <2>2, <2>3 DEF RankOf
<1>3. RankOf(S) \in Injection(S, 1..Cardinality(S))
  BY <1>1, <1>2 DEF Injection, IsInjective
<1>4. IsFiniteSet(S) /\ Cardinality(S) \in Nat
  BY FS_CardinalityType DEF Sorted
<1>5. IsFiniteSet(1..Cardinality(S)) /\ Cardinality(1..Cardinality(S)) = Cardinality(S)
  BY <1>4, FS_Interval
<1>6. RankOf(S) \in Surjection(S, 1..Cardinality(S))
  BY <1>3, <1>5, FS_Injection
<1> QED BY <1>3, <1>6 DEF Bijection

\* As many items as there are ranks in an interval of them.
LEMMA RankInterval ==
    ASSUME NEW S, Sorted(S), NEW a \in Nat \ {0}, NEW b \in Nat, a <= b, b <= Cardinality(S)
    PROVE  Cardinality({i \in S : Rank(i, S) \in a..b}) = b - a + 1
<1> DEFINE T == {i \in S : Rank(i, S) \in a..b}
           f == [i \in T |-> Rank(i, S)]
<1>1. RankOf(S) \in Bijection(S, 1..Cardinality(S)) /\ Cardinality(S) \in Nat /\ IsFiniteSet(S)
  BY RankBijection, FS_CardinalityType DEF Sorted
<1>2. f \in [T -> a..b]
  OBVIOUS
<1>3. \A i, j \in T : f[i] = f[j] => i = j
  BY <1>1 DEF RankOf, Bijection, Injection, IsInjective
<1>4. ASSUME NEW r \in a..b PROVE \E i \in T : f[i] = r
  <2>1. r \in 1..Cardinality(S)
    BY <1>1
  <2>2. PICK i \in S : RankOf(S)[i] = r
    BY <1>1, <2>1 DEF Bijection, Surjection
  <2> QED BY <2>2 DEF RankOf
<1>5. f \in Bijection(T, a..b)
  BY <1>2, <1>3, <1>4 DEF Bijection, Injection, IsInjective, Surjection
<1>6. IsFiniteSet(T)
  BY <1>1, FS_Subset
<1>7. ExistsBijection(T, a..b)
  BY <1>5 DEF ExistsBijection
<1>8. Cardinality(a..b) = Cardinality(T)
  BY <1>6, <1>7, FS_Bijection
<1> QED BY <1>8, FS_Interval

-----------------------------------------------------------------------------
(* Creation times *)

\* Two notifications are never created at one time, and a record has a time.
DatesInv ==
    /\ \A n \in Notifies : created[n] <= clock
    /\ \A n \in Notifies : pc[n] = "commit" \/ n \in sent => created[n] > 0
    /\ \A n, m \in Notifies : created[n] > 0 /\ created[n] = created[m] => n = m

LEMMA DatesStep ==
    ASSUME CleanupInv, DatesInv, [Next]_vars
    PROVE  DatesInv'
<1>1. TimeTypes /\ DatabaseStep /\ BeginStep /\ ReqTypes /\ ProcTypes
  BY DatabaseFrame, BeginFrame DEF CleanupInv, TypeInv, Typed
<1>2. \/ UNCHANGED <<created, clock>>
      \/ \E n \in Notifies : clock' = clock + 1 /\ created' = [created EXCEPT ![n] = clock + 1]
      \/ UNCHANGED created /\ clock' \in {clock, clock + 1}
  BY <1>1 DEF DatabaseStep, SendBegin, StartBatch
<1>3. \A n \in Notifies : created[n] > 0 => created'[n] > 0
  BY <1>1, <1>2 DEF TimeTypes
<1>4. \A n \in Notifies : created'[n] <= clock'
  BY <1>1, <1>2 DEF TimeTypes, DatesInv
<1>5. \A n, m \in Notifies : created'[n] > 0 /\ created'[n] = created'[m] => n = m
  BY <1>1, <1>2 DEF TimeTypes, DatesInv
<1>6. ASSUME NEW n \in Notifies, pc'[n] = "commit" PROVE created'[n] > 0
  <2>1. CASE SendBegin(n)
    BY <1>1, <2>1 DEF SendBegin, TimeTypes
  <2> QED BY <1>1, <1>3, <1>6, <2>1 DEF BeginStep, DatesInv
<1>7. ASSUME NEW n \in Notifies, n \in sent' PROVE created'[n] > 0
  <2>1. n \in sent \/ pc[n] = "commit"
    BY <1>1, <1>7 DEF DatabaseStep, SendCommit
  <2> QED BY <1>3, <2>1 DEF DatesInv
<1> QED BY <1>4, <1>5, <1>6, <1>7 DEF DatesInv

LEMMA DatesAlways == CleanupSpec => []DatesInv
<1>1. CleanupInit => DatesInv
  BY DEF CleanupInit, Init, DatesInv, Procs
<1>2. ASSUME CleanupInv, DatesInv, [CleanupNext]_cleanupVars PROVE DatesInv'
  <2>1. CASE [Next]_vars
    BY <1>2, <2>1, DatesStep
  <2>2. CASE JobStep
    <3>1. JobKeeps /\ sent' \subseteq sent
      BY <2>2, JobFrame
    <3> QED BY <1>2, <3>1 DEF JobKeeps, procVars, DatesInv
  <2> QED BY <1>2, <2>1, <2>2 DEF CleanupNext, cleanupVars
<1> QED BY <1>1, <1>2, CleanupAlways, PTL DEF CleanupSpec

\* With one row per notification the list of a user has one item for each, and
\* so no two of one time.
LEMMA VisibleSorted ==
    ASSUME CleanupInv, DatesInv, NEW u \in Users, NEW box \in Boxes, OneRowEach(u)
    PROVE  Sorted(Visible(u, box))
<1>1. TimeTypes /\ RowTypes /\ IsFiniteSet(rows) /\ IsFiniteSet(sent)
  BY DEF CleanupInv, TypeInv, Typed, Finite
<1>2. ASSUME NEW row \in rows PROVE row.n \in sent
  BY DEF CleanupInv, AddressInv, Addressed
<1>3. ASSUME NEW i \in Joined(u, box)
      PROVE  /\ i.n \in sent
             /\ \/ \E row \in RowsOf(u, i.n) : i = [n |-> row.n, id |-> row.id, st |-> row.st]
                \/ RowsOf(u, i.n) = {} /\ i = [n |-> i.n, id |-> i.n, st |-> "null"]
  BY <1>2 DEF Joined, RowsOf
<1>4. ASSUME NEW n \in Notifies, NEW a \in RowsOf(u, n), NEW b \in RowsOf(u, n) PROVE a = b
  <2> SUFFICES ASSUME a # b PROVE FALSE
    OBVIOUS
  <2>1. IsFiniteSet(RowsOf(u, n))
    BY <1>1, FS_Subset DEF RowsOf
  <2>2. IsFiniteSet({a}) /\ Cardinality({a}) = 1
    BY FS_Singleton
  <2>3. Cardinality({a} \cup {b}) = 2
    <3>1. b \notin {a}
      OBVIOUS
    <3>2. Cardinality({a} \cup {b}) = Cardinality({a}) + 1
      BY <2>2, <3>1, FS_AddElement
    <3> QED BY <2>2, <3>2
  <2>4. Cardinality({a} \cup {b}) <= Cardinality(RowsOf(u, n))
    BY <2>1, FS_Subset
  <2>5. Cardinality(RowsOf(u, n)) \in Nat /\ Cardinality(RowsOf(u, n)) <= 1
    BY <2>1, FS_CardinalityType DEF OneRowEach
  <2> QED BY <2>3, <2>4, <2>5
<1>5. ASSUME NEW i \in Joined(u, box), NEW j \in Joined(u, box), i.n = j.n PROVE i = j
  <2>1. i.n \in Notifies
    BY <1>1, <1>3 DEF RowTypes
  <2>2. CASE RowsOf(u, i.n) = {}
    BY <1>3, <1>5, <2>2
  <2>3. CASE RowsOf(u, i.n) # {}
    <3>1. PICK a \in RowsOf(u, i.n) : i = [n |-> a.n, id |-> a.id, st |-> a.st]
      BY <1>3, <2>3
    <3>2. PICK b \in RowsOf(u, i.n) : j = [n |-> b.n, id |-> b.id, st |-> b.st]
      BY <1>3, <1>5, <2>3
    <3> QED BY <1>4, <2>1, <3>1, <3>2
  <2> QED BY <2>2, <2>3
<1>6. \A i \in Visible(u, box) : i \in Joined(u, box) /\ i.n \in Notifies /\ i.n \in sent
  BY <1>1, <1>3 DEF Visible, RowTypes
<1>7. IsFiniteSet(Visible(u, box))
  <2> DEFINE V == Visible(u, box)
             f == [i \in V |-> i.n]
  <2>1. f \in [V -> sent]
    BY <1>6
  <2>2. \A i, j \in V : f[i] = f[j] => i = j
    BY <1>5, <1>6
  <2>3. f \in Injection(V, sent)
    BY <2>1, <2>2 DEF Injection, IsInjective
  <2> QED BY <1>1, <2>3, FS_Injection
<1>8. \A i \in Visible(u, box) : created[i.n] \in Nat /\ created[i.n] > 0
  BY <1>1, <1>6 DEF TimeTypes, DatesInv
<1>9. \A i, j \in Visible(u, box) : created[i.n] = created[j.n] => i = j
  BY <1>5, <1>6, <1>8 DEF DatesInv
<1> QED BY <1>7, <1>8, <1>9 DEF Sorted

-----------------------------------------------------------------------------
\* GetPersonalPage, GetTenantPage: for every page size, the pages up to
\* pagesTotal show every visible notification once, all but the last are full,
\* the last is not empty and there is none after it, for a user with at most one
\* row per notification, in every state that sends, operations, faults and
\* cleanups reach, overlapping or not.
THEOREM PagesPartitionCorrect == CleanupSpec => []PagesPartition
<1>1. ASSUME CleanupInv, DatesInv, NEW u \in Users, NEW box \in Boxes, NEW size \in 1..MaxPageSize, OneRowEach(u)
      PROVE  LET last  == PagesTotal(u, box, size)
                 pages == [p \in 1..(last + 1) |-> Page(u, box, p, size)]
             IN  /\ UNION {pages[p] : p \in 1..last} = Visible(u, box)
                 /\ \A p, q \in 1..last : p # q => pages[p] \cap pages[q] = {}
                 /\ \A p \in 1..(last - 1) : Cardinality(pages[p]) = size
                 /\ last > 0 => pages[last] # {}
                 /\ pages[last + 1] = {}
  <2> DEFINE S == Visible(u, box)
             N == Cardinality(S)
             last == PagesTotal(u, box, size)
             P(p) == Page(u, box, p, size)
  <2>1. Sorted(S) /\ IsFiniteSet(S) /\ N \in Nat /\ size \in Nat \ {0}
    BY <1>1, VisibleSorted, FS_CardinalityType, PageSizeAssumption DEF Sorted
  <2>2. last \in Nat /\ N <= last * size /\ (last > 0 => (last - 1) * size < N)
    BY <2>1, LastPage DEF TotalCount
  <2>3. \A p : P(p) = {i \in S : Rank(i, S) \in (p - 1) * size + 1 .. p * size}
    BY DEF Page
  <2>4. \A i \in S : Rank(i, S) \in 1..N
    BY <2>1, RankRange
  <2> HIDE DEF S, N, last, P
  <2>5. ASSUME NEW i \in S PROVE \E p \in 1..last : i \in P(p)
    <3>1. Rank(i, S) \in Nat \ {0} /\ Rank(i, S) <= N
      BY <2>1, <2>4
    <3>2. PICK p \in Nat \ {0} : Rank(i, S) \in (p - 1) * size + 1 .. p * size
      BY <2>1, <3>1, PageOfRank
    <3>3. p <= last
      <4> SUFFICES ASSUME last < p PROVE FALSE
        BY <2>2
      <4>1. last * size \in Int /\ Rank(i, S) <= last * size
        BY <2>1, <2>2, <3>1, Multiples
      <4>2. last \in Int /\ p \in Int /\ size \in Nat /\ Rank(i, S) \in Int
        BY <2>1, <2>2, <3>1
      <4>3. Rank(i, S) \notin (p - 1) * size + 1 .. p * size
        BY <4>1, <4>2, OnePage
      <4> QED BY <3>2, <4>3
    <3>4. p \in 1..last
      BY <2>2, <3>3
    <3>5. i \in P(p)
      BY <2>3, <3>2
    <3> QED BY <3>4, <3>5
  <2>6. ASSUME NEW p \in Int, NEW q \in Int, p < q PROVE P(p) \cap P(q) = {}
    <3> SUFFICES ASSUME NEW i \in S, i \in P(p), i \in P(q) PROVE FALSE
      BY <2>3
    <3>1. p * size \in Int /\ (p - 1) * size \in Int
      BY <2>1, Multiples
    <3>2. Rank(i, S) \in Int /\ Rank(i, S) <= p * size
      BY <2>3, <3>1
    <3> QED BY <2>1, <2>3, <2>6, <3>2, OnePage
  <2>7. ASSUME NEW p \in 1..(last - 1) PROVE Cardinality(P(p)) = size
    <3>1. p \in Int /\ p - 1 \in Int /\ last - 1 \in Int /\ 0 <= p - 1 /\ p <= last - 1 /\ last > 0
      BY <2>2
    <3>2. 0 * size <= (p - 1) * size /\ p * size <= (last - 1) * size
      BY <2>1, <3>1, MultiplesGrow
    <3>3. p * size \in Int /\ (p - 1) * size = p * size - size /\ (last - 1) * size \in Int
      BY <2>1, <3>1, Multiples
    <3> DEFINE b == p * size
               a == (p - 1) * size + 1
    <3>4. a \in Nat \ {0} /\ b \in Nat /\ a <= b /\ b <= N /\ b - a + 1 = size
      BY <2>1, <2>2, <3>1, <3>2, <3>3
    <3> HIDE DEF a, b
    <3>5. Cardinality({i \in S : Rank(i, S) \in a..b}) = size
      BY <2>1, <3>4, RankInterval DEF N
    <3> QED BY <2>3, <3>5 DEF a, b
  <2>8. ASSUME last > 0 PROVE P(last) # {}
    <3>1. N \in 1..N /\ (last - 1) * size \in Int /\ last * size \in Int
      <4>1. 0 * size <= (last - 1) * size
        BY <2>1, <2>2, <2>8, MultiplesGrow
      <4>2. (last - 1) * size \in Int /\ last * size \in Int
        BY <2>1, <2>2, Multiples
      <4> QED BY <2>1, <2>2, <2>8, <4>1, <4>2
    <3>2. PICK i \in S : RankOf(S)[i] = N
      BY <2>1, <3>1, RankBijection DEF N, Bijection, Surjection
    <3>3. Rank(i, S) \in (last - 1) * size + 1 .. last * size
      BY <2>1, <2>2, <2>8, <3>1, <3>2 DEF RankOf
    <3> QED BY <2>3, <3>3
  <2>9. P(last + 1) = {}
    <3>1. last * size \in Int /\ (last + 1) - 1 = last
      BY <2>1, <2>2, Multiples
    <3> QED BY <2>1, <2>2, <2>3, <2>4, <3>1
  <2>10. \A p : P(p) \subseteq S
    BY <2>3
  <2> DEFINE pages == [p \in 1..(last + 1) |-> P(p)]
  <2>11. \A p \in 1..(last + 1) : pages[p] = P(p)
    OBVIOUS
  <2>12. \A p \in 1..last : p \in 1..(last + 1)
    BY <2>2
  <2>13. UNION {pages[p] : p \in 1..last} = S
    BY <2>5, <2>10, <2>11, <2>12
  <2>14. \A p, q \in 1..last : p # q => pages[p] \cap pages[q] = {}
    <3> SUFFICES ASSUME NEW p \in 1..last, NEW q \in 1..last, p # q PROVE P(p) \cap P(q) = {}
      BY <2>11, <2>12
    <3>1. p \in Int /\ q \in Int /\ (p < q \/ q < p)
      BY <2>2
    <3> QED BY <2>6, <3>1
  <2>15. \A p \in 1..(last - 1) : Cardinality(pages[p]) = size
    <3>1. \A p \in 1..(last - 1) : p \in 1..(last + 1)
      BY <2>2
    <3> QED BY <2>7, <2>11, <3>1
  <2>16. last > 0 => pages[last] # {}
    <3>1. last > 0 => last \in 1..(last + 1)
      BY <2>2
    <3> QED BY <2>8, <2>11, <3>1
  <2>17. pages[last + 1] = {}
    <3>1. last + 1 \in 1..(last + 1)
      BY <2>2
    <3> QED BY <2>9, <2>11, <3>1
  <2> QED BY <2>13, <2>14, <2>15, <2>16, <2>17 DEF S, last, P
<1>2. CleanupInv /\ DatesInv => PagesPartition
  BY <1>1 DEF PagesPartition
<1> QED BY <1>2, CleanupAlways, DatesAlways, PTL
============================================================================
