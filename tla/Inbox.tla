-------------------------------- MODULE Inbox --------------------------------
(***************************************************************************)
(* The two inboxes of a user (GetPersonalPage, GetTenantPage and the stats *)
(* queries) as functions of the database, evaluated in every state that    *)
(* the sends and the status operations of Unread reach.                    *)
(***************************************************************************)
EXTENDS Unread

CONSTANT MaxPageSize   \* page sizes checked: 1..MaxPageSize

ASSUME PageSizeAssumption == MaxPageSize \in Nat \ {0}

\* A user-sent notification belongs to the personal inbox, also a broadcast.
Boxes == {"user", "tenant"}

\* LEFT JOIN of the records with the status rows of u: one item per row, and
\* one without a status for a record that has no row.
Joined(u, box) ==
    {[n |-> row.n, id |-> row.id, st |-> row.st] : row \in {x \in rows : x.u = u /\ SenderOf[x.n] = box}}
    \cup {[n |-> n, id |-> n, st |-> "null"] : n \in {m \in sent : SenderOf[m] = box /\ RowsOf(u, m) = {}}}

\* The WHERE clauses; the tenant's inbox starts after the clear watermark.
Visible(u, box) ==
    {i \in Joined(u, box) : /\ i.st # "deleted"
                            /\ i.st # "null" \/ i.n \in Broadcasts
                            /\ box = "tenant" => created[i.n] > clearAt[u]}

\* COUNT and SUM(CASE ...) of both queries.
TotalCount(u, box) == Cardinality(Visible(u, box))

UnreadCount(u, box) ==
    Cardinality({i \in Visible(u, box) : /\ i.st \in {"unread", "null"}
                                         /\ box = "tenant" => created[i.n] > readAt[u]})

\* Mutant: the read watermark is not applied to the list.
StatusNoWatermark(u, box, i) == IF i.st = "null" THEN "unread" ELSE i.st

\* The status column of an item: CASE of the tenant's list; the personal list
\* scans NULL as 0, unread.
Status(u, box, i) ==
    IF i.st # "null" THEN i.st
    ELSE IF box = "tenant" /\ created[i.n] <= readAt[u] THEN "read" ELSE "unread"

\* ORDER BY created_at DESC.
Newer(i, j) == created[i.n] > created[j.n]

\* The rank of an item in the list; rows of one record may be in any order.
Rank(i, items) == Cardinality({j \in items : Newer(j, i)}) + 1

\* Mutant: the page index is not taken as one-based.
PageZeroBased(u, box, index, size) ==
    LET items == Visible(u, box)
    IN  {i \in items : Rank(i, items) \in (index * size) + 1 .. (index + 1) * size}

\* OFFSET (pageIndex - 1) * pageSize LIMIT pageSize, when created_at differs.
Page(u, box, index, size) ==
    LET items == Visible(u, box)
    IN  {i \in items : Rank(i, items) \in (index - 1) * size + 1 .. index * size}

PagesTotal(u, box, size) ==
    IF TotalCount(u, box) > 0 THEN (TotalCount(u, box) + size - 1) \div size ELSE 0

-----------------------------------------------------------------------------
(* Properties *)

OneRowEach(u) == \A n \in Notifies : Cardinality(RowsOf(u, n)) <= 1

\* The pages 1..pagesTotal show every visible notification exactly once, none
\* of them is empty, all but the last are full, and the next one is empty: the
\* offset, the limit and the rounding of pagesTotal fit together after any
\* history of sends, reads, deletions and one-click operations.
PagesPartition ==
    \A u \in Users, box \in Boxes, size \in 1..MaxPageSize :
        OneRowEach(u) =>
            LET last  == PagesTotal(u, box, size)
                pages == [p \in 1..(last + 1) |-> Page(u, box, p, size)]
            IN  /\ UNION {pages[p] : p \in 1..last} = Visible(u, box)
                /\ \A p, q \in 1..last : p # q => pages[p] \cap pages[q] = {}
                /\ \A p \in 1..(last - 1) : Cardinality(pages[p]) = size
                /\ last > 0 => pages[last] # {}
                /\ pages[last + 1] = {}

\* The unread number of a page response is the number of items that the pages
\* list as unread: the two queries weigh the status rows and the watermarks the
\* same way, with operations one at a time.
UnreadAsListed ==
    \A u \in Users, box \in Boxes :
        UnreadCount(u, box) = Cardinality({i \in Visible(u, box) : Status(u, box, i) = "unread"})
=============================================================================
