--------------------------- MODULE ListingProofs ---------------------------
(***************************************************************************)
(* Proofs about Listing, for every set of reports and creation times and   *)
(* every size of a page.                                                   *)
(***************************************************************************)
EXTENDS Listing, TLAPS

-----------------------------------------------------------------------------
(* The order of reports, and pages in it *)

Stored(rows) == {r \in Rows : rows[r] # NoRow}

RowsTyped(rows) == rows \in [Rows -> {NoRow} \cup RowStates]

\* Creation time and identifier together order all reports.
LEMMA NewerOrders ==
    ASSUME NEW rows, RowsTyped(rows), NEW x \in Stored(rows), NEW y \in Stored(rows)
    PROVE  /\ ~Newer(rows, x, x) /\ (x # y => Newer(rows, x, y) \/ Newer(rows, y, x))
           /\ \A z \in Stored(rows) : Newer(rows, x, y) /\ Newer(rows, y, z) => Newer(rows, x, z)
<1>1. \A z \in Stored(rows) : z \in Nat /\ rows[z].created \in Nat
  BY ListingAssumption DEF Stored, RowsTyped, RowStates
<1>2. QED
  BY <1>1 DEF Newer

\* A list in order shows no report twice.
LEMMA InOrderOnce ==
    ASSUME NEW rows, RowsTyped(rows), NEW list \in Seq(Stored(rows)), InOrder(rows, list)
    PROVE  \A i, j \in DOMAIN list : list[i] = list[j] => i = j
<1>1. \A i \in DOMAIN list : i \in Nat /\ list[i] \in Stored(rows)
  OBVIOUS
<1>2. ASSUME NEW i \in DOMAIN list, NEW j \in DOMAIN list, list[i] = list[j], i # j PROVE FALSE
  <2>1. CASE i < j
    BY <1>1, <1>2, <2>1, NewerOrders DEF InOrder
  <2>2. CASE j < i
    BY <1>1, <1>2, <2>2, NewerOrders DEF InOrder
  <2>3. QED
    BY <1>1, <1>2, <2>1, <2>2
<1>3. QED
  BY <1>2

LEMMA Joined ==
    ASSUME NEW S, NEW list \in Seq(S), NEW page \in Seq(S)
    PROVE  /\ list \o page \in Seq(S) /\ DOMAIN (list \o page) = 1 .. Len(list) + Len(page)
           /\ Len(list \o page) = Len(list) + Len(page)
           /\ DOMAIN list = 1 .. Len(list) /\ DOMAIN page = 1 .. Len(page)
           /\ Len(list) \in Nat /\ Len(page) \in Nat
           /\ \A i \in 1 .. Len(list) : (list \o page)[i] = list[i]
           /\ \A i \in 1 .. Len(page) : (list \o page)[Len(list) + i] = page[i]
<1>1. /\ list \o page \in Seq(S) /\ DOMAIN (list \o page) = 1 .. Len(list) + Len(page)
      /\ Len(list \o page) = Len(list) + Len(page)
      /\ DOMAIN list = 1 .. Len(list) /\ DOMAIN page = 1 .. Len(page)
      /\ Len(list) \in Nat /\ Len(page) \in Nat
  OBVIOUS
<1>2. \A i \in 1 .. Len(list) : (list \o page)[i] = list[i]
  OBVIOUS
<1>3. \A i \in 1 .. Len(page) : (list \o page)[Len(list) + i] = page[i]
  OBVIOUS
<1>4. QED
  BY <1>1, <1>2, <1>3

\* A list shows what two others show.
ShowsBoth(both, list, page) ==
    /\ \A k \in DOMAIN both : \/ \E i \in DOMAIN list : both[k] = list[i]
                              \/ \E i \in DOMAIN page : both[k] = page[i]
    /\ \A i \in DOMAIN list : \E k \in DOMAIN both : both[k] = list[i]
    /\ \A i \in DOMAIN page : \E k \in DOMAIN both : both[k] = page[i]

LEMMA JoinedShows ==
    ASSUME NEW S, NEW list \in Seq(S), NEW page \in Seq(S)
    PROVE  ShowsBoth(list \o page, list, page)
<1> DEFINE both == list \o page
           n == Len(list)
           m == Len(page)
<1>1. /\ DOMAIN both = 1 .. n + m /\ DOMAIN list = 1 .. n /\ DOMAIN page = 1 .. m
      /\ n \in Nat /\ m \in Nat
      /\ \A i \in 1 .. n : both[i] = list[i]
      /\ \A i \in 1 .. m : both[n + i] = page[i]
  BY Joined
<1> HIDE DEF both, n, m
<1>2. /\ \A i \in 1 .. n : i \in 1 .. n + m
      /\ \A i \in 1 .. m : n + i \in 1 .. n + m
      /\ \A k \in 1 .. n + m : k \in 1 .. n \/ (k - n \in 1 .. m /\ k = n + (k - n))
  BY <1>1
<1>3. ASSUME NEW k \in DOMAIN both
      PROVE  \/ \E i \in DOMAIN list : both[k] = list[i]
             \/ \E i \in DOMAIN page : both[k] = page[i]
  <2>1. CASE k \in 1 .. n
    BY <1>1, <2>1
  <2>2. CASE k - n \in 1 .. m /\ k = n + (k - n)
    <3>1. both[k] = page[k - n]
      BY <1>1, <2>2
    <3>2. QED
      BY <1>1, <2>2, <3>1
  <2>3. QED
    BY <1>1, <1>2, <2>1, <2>2
<1>4. ASSUME NEW i \in DOMAIN list PROVE \E k \in DOMAIN both : both[k] = list[i]
  BY <1>1, <1>2
<1>5. ASSUME NEW i \in DOMAIN page PROVE \E k \in DOMAIN both : both[k] = page[i]
  BY <1>1, <1>2
<1>6. QED
  BY <1>3, <1>4, <1>5 DEF both, ShowsBoth

\* What comes after a list in order goes on with it in order.
LEMMA JoinedInOrder ==
    ASSUME NEW rows, RowsTyped(rows), NEW list \in Seq(Stored(rows)), NEW page \in Seq(Stored(rows)),
           InOrder(rows, list), InOrder(rows, page),
           \A i \in DOMAIN list : \A j \in DOMAIN page : Newer(rows, list[i], page[j])
    PROVE  InOrder(rows, list \o page)
<1> DEFINE both == list \o page
           n == Len(list)
           m == Len(page)
<1>1. /\ DOMAIN both = 1 .. n + m /\ DOMAIN list = 1 .. n /\ DOMAIN page = 1 .. m
      /\ n \in Nat /\ m \in Nat
      /\ \A i \in 1 .. n : both[i] = list[i]
      /\ \A i \in 1 .. m : both[n + i] = page[i]
  BY Joined
<1> HIDE DEF both, n, m
<1>2. \A k \in n + 1 .. n + m : k - n \in 1 .. m /\ both[k] = page[k - n]
  <2>1. ASSUME NEW k \in n + 1 .. n + m PROVE k - n \in 1 .. m /\ k = n + (k - n)
    BY <1>1
  <2>2. QED
    BY <1>1, <2>1
<1>3. ASSUME NEW i \in DOMAIN both, NEW j \in DOMAIN both, i < j
      PROVE  Newer(rows, both[i], both[j])
  <2>1. CASE i \in 1 .. n /\ j \in 1 .. n
    BY <1>1, <1>3, <2>1 DEF InOrder
  <2>2. CASE i \in 1 .. n /\ j \in n + 1 .. n + m
    BY <1>1, <1>2, <2>2
  <2>3. CASE i \in n + 1 .. n + m /\ j \in n + 1 .. n + m
    <3>1. i - n < j - n
      BY <1>1, <1>3, <2>3
    <3>2. QED
      BY <1>1, <1>2, <2>3, <3>1 DEF InOrder
  <2>4. QED
    BY <1>1, <1>3, <2>1, <2>2, <2>3
<1>4. QED
  BY <1>3 DEF InOrder, both

-----------------------------------------------------------------------------
(* One page *)

\* The reports that a query may still return.
Left(rows, search, cursor) ==
    IF cursor = NoRow THEN Matching(rows, search) ELSE After(rows, Matching(rows, search), cursor)

\* Where a cursor stands at a report, it leaves those after it in the order.
LEMMA AfterCursor ==
    ASSUME NEW last \in Stored(row), RowsTyped(row)
    PROVE  /\ NextPageUrl(last) \in Cursors
           /\ \A found \in SUBSET Stored(row) :
                 After(row, found, NextPageUrl(last)) = {r \in found : Newer(row, last, r)}
<1>1. last \in Rows /\ row[last] \in RowStates
  BY DEF Stored, RowsTyped
<1>2. /\ row[last].created \in Stamps
      /\ NextPageUrl(last) = [before |-> row[last].created, before_id |-> last]
  BY <1>1 DEF RowStates, NextPageUrl
<1>3. NextPageUrl(last) \in Cursors /\ NextPageUrl(last).before = row[last].created
      /\ NextPageUrl(last).before_id = last
  BY <1>1, <1>2 DEF Cursors
<1>4. \A r \in Stored(row) : r \in Nat /\ row[r].created \in Nat /\ last \in Nat /\ row[last].created \in Nat
  BY <1>1, <1>2, ListingAssumption DEF Stored, RowsTyped, RowStates
<1>5. ASSUME NEW r \in Stored(row)
      PROVE  (row[r].created < NextPageUrl(last).before
                 \/ (row[r].created = NextPageUrl(last).before /\ r < NextPageUrl(last).before_id))
             <=> Newer(row, last, r)
  BY <1>3, <1>4 DEF Newer
<1>6. ASSUME NEW found \in SUBSET Stored(row)
      PROVE  After(row, found, NextPageUrl(last)) = {r \in found : Newer(row, last, r)}
  BY <1>5 DEF After
<1>7. QED
  BY <1>3, <1>6

\* A page is in order, and what it leaves comes after its last report.
LEMMA PageInOrder ==
    ASSUME RowsTyped(row), NEW search, NEW cursor, NEW found \in ListReports(row, search, cursor)
    PROVE  /\ found \in Seq(Left(row, search, cursor)) /\ InOrder(row, found)
           /\ Left(row, search, cursor) \subseteq Stored(row)
           /\ Len(found) \in 0 .. PageSize + 1
           /\ Len(found) <= PageSize =>
                 Left(row, search, cursor) \subseteq {found[i] : i \in DOMAIN found}
           /\ Len(found) > PageSize => \A r \in Left(row, search, cursor) :
                 r \in {found[i] : i \in 1 .. PageSize} \/ Newer(row, found[PageSize], r)
<1> DEFINE left == Left(row, search, cursor)
<1>1. PageSize \in Nat \ {0}
  BY ListingAssumption
<1>2. PICK n \in 0 .. PageSize + 1 : found \in [1 .. n -> left]
  BY DEF ListReports, Left
<1>3. /\ InOrder(row, found)
      /\ \A r \in left \ {found[i] : i \in DOMAIN found} :
            Len(found) = PageSize + 1 /\ \A i \in DOMAIN found : Newer(row, found[i], r)
  BY DEF ListReports, Left
<1>4. left \subseteq Stored(row)
  BY DEF Left, Matching, After, Stored
<1> HIDE DEF left
<1>5. n \in Nat /\ DOMAIN found = 1 .. n /\ found \in Seq(left) /\ Len(found) = n
  BY <1>1, <1>2
<1>6. Len(found) <= PageSize => left \subseteq {found[i] : i \in DOMAIN found}
  BY <1>1, <1>2, <1>3, <1>5
<1>7. ASSUME Len(found) > PageSize, NEW r \in left
      PROVE  r \in {found[i] : i \in 1 .. PageSize} \/ Newer(row, found[PageSize], r)
  <2>1. n = PageSize + 1 /\ PageSize \in DOMAIN found /\ n \in DOMAIN found
    BY <1>1, <1>2, <1>5, <1>7
  <2>2. CASE r \in {found[i] : i \in DOMAIN found}
    <3>1. PICK i \in DOMAIN found : r = found[i]
      BY <2>2
    <3>2. CASE i \in 1 .. PageSize
      BY <3>1, <3>2
    <3>3. CASE i = n
      <4>1. PageSize < n
        BY <1>1, <2>1
      <4>2. QED
        BY <1>3, <2>1, <3>1, <3>3, <4>1 DEF InOrder
    <3>4. QED
      BY <1>1, <1>5, <2>1, <3>2, <3>3
  <2>3. CASE r \notin {found[i] : i \in DOMAIN found}
    BY <1>3, <1>7, <2>1, <2>3
  <2>4. QED
    BY <2>2, <2>3
<1>8. QED
  BY <1>2, <1>3, <1>4, <1>5, <1>6, <1>7 DEF left

\* Reading a page takes the list on, whatever is still to come of it.
LEMMA PageRead ==
    ASSUME RowsTyped(row), NEW search \in SUBSET States, NEW cursor,
           NEW found \in ListReports(row, search, cursor),
           NEW shown \in Seq(Stored(row)), InOrder(row, shown),
           \A i \in DOMAIN shown : \A r \in Left(row, search, cursor) : Newer(row, shown[i], r),
           NEW kept \in SUBSET Matching(row, search),
           kept \subseteq {shown[i] : i \in DOMAIN shown} \cup Left(row, search, cursor),
           row' = row, browse' = LoadReportList(search, found, shown), steady' = kept
    PROVE  ListingInv'
<1> DEFINE left == Left(row, search, cursor)
           page == IF Len(found) > PageSize THEN SubSeq(found, 1, PageSize) ELSE found
           all == shown \o page
           last == found[PageSize]
<1>1. PageSize \in Nat \ {0}
  BY ListingAssumption
<1>2. /\ found \in Seq(left) /\ InOrder(row, found)
      /\ left \subseteq Stored(row) /\ Len(found) \in 0 .. PageSize + 1
      /\ Len(found) <= PageSize => left \subseteq {found[i] : i \in DOMAIN found}
      /\ Len(found) > PageSize => \A r \in left :
            r \in {found[i] : i \in 1 .. PageSize} \/ Newer(row, found[PageSize], r)
  BY PageInOrder
<1>3. browse' = IF Len(found) > PageSize
                THEN [op |-> "more", search |-> search, shown |-> all, cursor |-> NextPageUrl(last)]
                ELSE [op |-> "end", search |-> search, shown |-> all, cursor |-> NoRow]
  BY DEF LoadReportList
<1> HIDE DEF left, last
<1>4. /\ page \in Seq(left) /\ DOMAIN page \subseteq DOMAIN found
      /\ \A i \in DOMAIN page : i \in Nat /\ page[i] = found[i]
      /\ Len(found) > PageSize =>
            Len(page) = PageSize /\ DOMAIN page = 1 .. PageSize /\ page[PageSize] = last /\ last \in left
      /\ Len(found) <= PageSize => page = found
  <2>1. CASE Len(found) > PageSize
    <3>1. page = SubSeq(found, 1, PageSize) /\ PageSize \in 1 .. Len(found)
      BY <1>1, <1>2, <2>1
    <3>2. /\ SubSeq(found, 1, PageSize) \in Seq(left) /\ Len(SubSeq(found, 1, PageSize)) = PageSize
          /\ DOMAIN SubSeq(found, 1, PageSize) = 1 .. PageSize
          /\ \A i \in 1 .. PageSize : SubSeq(found, 1, PageSize)[i] = found[i]
      BY <1>1, <1>2, <3>1
    <3>3. last \in left
      BY <1>2, <3>1 DEF last
    <3>4. 1 .. PageSize \subseteq DOMAIN found
      BY <1>1, <1>2, <3>1
    <3>5. \A i \in 1 .. PageSize : i \in Nat
      OBVIOUS
    <3> HIDE DEF page
    <3>6. QED
      BY <1>1, <2>1, <3>1, <3>2, <3>3, <3>4, <3>5 DEF last
  <2>2. CASE ~(Len(found) > PageSize)
    <3>1. page = found
      BY <2>2
    <3>2. \A i \in DOMAIN found : i \in Nat
      BY <1>2
    <3>3. QED
      BY <1>2, <2>2, <3>1, <3>2
  <2>3. QED
    BY <2>1, <2>2
<1> HIDE DEF page, all
<1>5. page \in Seq(Stored(row)) /\ InOrder(row, page)
  BY <1>2, <1>4 DEF InOrder
<1>6. \A i \in DOMAIN shown : \A j \in DOMAIN page : Newer(row, shown[i], page[j])
  BY <1>4 DEF left
<1>7. /\ all \in Seq(Stored(row)) /\ InOrder(row, all)
      /\ {all[i] : i \in DOMAIN all} = {shown[i] : i \in DOMAIN shown} \cup {page[i] : i \in DOMAIN page}
      /\ Len(found) > PageSize => all # <<>> /\ all[Len(all)] = last
  <2>1. InOrder(row, all)
    BY <1>5, <1>6, JoinedInOrder DEF all
  <2>2. /\ all \in Seq(Stored(row)) /\ Len(all) = Len(shown) + Len(page)
        /\ {all[i] : i \in DOMAIN all} = {shown[i] : i \in DOMAIN shown} \cup {page[i] : i \in DOMAIN page}
        /\ Len(shown) \in Nat /\ \A i \in 1 .. Len(page) : all[Len(shown) + i] = page[i]
    <3> DEFINE S == Stored(row)
    <3>1. shown \in Seq(S) /\ page \in Seq(S)
      BY <1>5
    <3> HIDE DEF S
    <3>2. /\ shown \o page \in Seq(S) /\ Len(shown \o page) = Len(shown) + Len(page)
          /\ Len(shown) \in Nat /\ \A i \in 1 .. Len(page) : (shown \o page)[Len(shown) + i] = page[i]
      BY <3>1, Joined
    <3>3. {(shown \o page)[i] : i \in DOMAIN (shown \o page)}
             = {shown[i] : i \in DOMAIN shown} \cup {page[i] : i \in DOMAIN page}
      <4> DEFINE both == shown \o page
      <4>1. ShowsBoth(both, shown, page)
        BY <3>1, JoinedShows
      <4> HIDE DEF both
      <4>2. {both[i] : i \in DOMAIN both}
               = {shown[i] : i \in DOMAIN shown} \cup {page[i] : i \in DOMAIN page}
        BY <4>1 DEF ShowsBoth
      <4>3. QED
        BY <4>2 DEF both
    <3>4. QED
      BY <3>2, <3>3 DEF all, S
  <2>3. ASSUME Len(found) > PageSize PROVE all # <<>> /\ all[Len(all)] = last
    <3>1. Len(page) = PageSize /\ page[PageSize] = last /\ PageSize \in 1 .. Len(page)
      BY <1>1, <1>4, <2>3
    <3>2. Len(all) = Len(shown) + PageSize /\ Len(all) # 0 /\ Len(<<>>) = 0
      BY <1>1, <2>2, <3>1
    <3>3. QED
      BY <2>2, <3>1, <3>2
  <2>4. QED
    BY <2>1, <2>2, <2>3
<1>8. {page[i] : i \in DOMAIN page} \subseteq left /\ kept \subseteq {all[i] : i \in DOMAIN all} \cup left
  <2>1. \A i \in DOMAIN page : page[i] \in left
    BY <1>4
  <2>2. kept \subseteq {shown[i] : i \in DOMAIN shown} \cup left
    BY DEF left
  <2>3. QED
    BY <1>7, <2>1, <2>2
<1>9. /\ Stored(row) \subseteq Rows /\ all \in Seq(Rows)
      /\ {all[i] : i \in DOMAIN all} \subseteq Stored(row)
  <2>1. Stored(row) \subseteq Rows
    BY DEF Stored
  <2>2. QED
    BY <1>7, <2>1
<1>10. kept \subseteq Stored(row) /\ kept \subseteq Rows
  BY DEF Matching, Stored
<1>11. browse' # NoList
  BY <1>3 DEF NoList
<1>12. CASE Len(found) > PageSize
  <2>1. browse' = [op |-> "more", search |-> search, shown |-> all, cursor |-> NextPageUrl(last)]
    BY <1>3, <1>12
  <2>2. last \in Stored(row) /\ NextPageUrl(last) \in Cursors
    BY <1>2, <1>4, <1>12, AfterCursor
  <2>3. ListingTypes'
    BY <1>7, <1>9, <1>10, <1>12, <2>1, <2>2 DEF ListingTypes, RowsTyped
  <2>4. kept \subseteq {all[i] : i \in DOMAIN all} \cup After(row, kept, NextPageUrl(last))
    <3>1. After(row, kept, NextPageUrl(last)) = {r \in kept : Newer(row, last, r)}
      BY <1>10, <2>2, AfterCursor
    <3>2. ASSUME NEW r \in kept, r \in left PROVE r \in {page[i] : i \in DOMAIN page} \/ Newer(row, last, r)
      BY <1>2, <1>4, <1>12, <3>2 DEF last
    <3>3. QED
      BY <1>7, <1>8, <3>1, <3>2
  <2>5. ReadSoFar'
    <3>1. /\ browse'.shown = all /\ browse'.search = search /\ browse'.op = "more"
          /\ browse'.cursor = NextPageUrl(last)
      BY <2>1
    <3>2. NextPageUrl(last)' = NextPageUrl(last) /\ last' = last
      BY DEF NextPageUrl, last
    <3>3. browse'.cursor = NextPageUrl(browse.shown[Len(browse.shown)])'
      BY <1>7, <1>12, <3>1, <3>2 DEF NextPageUrl
    <3>4. QED
      BY <1>7, <1>9, <1>12, <2>4, <3>1, <3>3 DEF ReadSoFar, Shown, Stored
  <2>6. QED
    BY <2>3, <2>5 DEF ListingInv
<1>13. CASE ~(Len(found) > PageSize)
  <2>1. browse' = [op |-> "end", search |-> search, shown |-> all, cursor |-> NoRow]
    BY <1>3, <1>13
  <2>2. ListingTypes'
    BY <1>7, <1>9, <1>10, <2>1 DEF ListingTypes, RowsTyped
  <2>3. left \subseteq {page[i] : i \in DOMAIN page}
    BY <1>1, <1>2, <1>4, <1>13
  <2>4. ReadSoFar'
    <3>1. browse'.shown = all /\ browse'.search = search /\ browse'.op = "end"
      BY <2>1
    <3>2. kept \subseteq {all[i] : i \in DOMAIN all}
      BY <1>7, <1>8, <2>3
    <3>3. QED
      BY <1>7, <1>9, <3>1, <3>2 DEF ReadSoFar, Shown, Stored
  <2>5. QED
    BY <2>2, <2>4 DEF ListingInv
<1>14. QED
  BY <1>12, <1>13

-----------------------------------------------------------------------------
(* The steps *)

LEMMA OpenListKeeps ==
    ASSUME ListingInv, NEW search \in (SUBSET States) \ {{}}, OpenList(search)
    PROVE  ListingInv'
<1>1. PICK found \in ListReports(row, search, NoRow) : browse' = LoadReportList(search, found, <<>>)
  BY DEF OpenList
<1>2. RowsTyped(row) /\ row' = row /\ steady' = Matching(row, search)
  BY DEF ListingInv, ListingTypes, RowsTyped, OpenList
<1>3. <<>> \in Seq(Stored(row)) /\ DOMAIN <<>> = {} /\ InOrder(row, <<>>)
  BY DEF InOrder
<1>4. Left(row, search, NoRow) = Matching(row, search)
  BY DEF Left
<1>5. QED
  BY <1>1, <1>2, <1>3, <1>4, PageRead

LEMMA NextPageKeeps ==
    ASSUME ListingInv, NextPage
    PROVE  ListingInv'
<1> DEFINE shown == browse.shown  search == browse.search  cursor == browse.cursor
           last == shown[Len(shown)]
<1>1. PICK found \in ListReports(row, search, cursor) : browse' = LoadReportList(search, found, shown)
  BY DEF NextPage
<1>2. RowsTyped(row) /\ row' = row /\ steady' = steady /\ browse.op = "more" /\ browse # NoList
  BY DEF ListingInv, ListingTypes, RowsTyped, NextPage, NoList
<1>3. /\ search \in SUBSET States /\ shown \in Seq(Rows) /\ shown # <<>> /\ cursor \in Cursors
  BY <1>2 DEF ListingInv, ListingTypes, NoList
<1>4. /\ Shown \subseteq Stored(row) /\ InOrder(row, shown)
      /\ steady \subseteq Matching(row, search) /\ cursor = NextPageUrl(last)
      /\ steady \subseteq Shown \cup After(row, steady, cursor)
  BY <1>2 DEF ListingInv, ReadSoFar, Stored
<1>5. /\ Len(shown) \in DOMAIN shown /\ Len(shown) \in Nat
      /\ \A i \in DOMAIN shown : i \in Nat /\ i <= Len(shown)
  BY <1>3
<1>6. shown \in Seq(Stored(row)) /\ last \in Stored(row)
  <2>1. \A i \in DOMAIN shown : shown[i] \in Stored(row)
    BY <1>4 DEF Shown
  <2>2. QED
    BY <1>3, <1>5, <2>1
<1> HIDE DEF shown, search, cursor, last
<1>7. Left(row, search, cursor) = {r \in Matching(row, search) : Newer(row, last, r)}
  <2>1. cursor # NoRow
    BY <1>3, ListingAssumption
  <2>2. Matching(row, search) \in SUBSET Stored(row)
    BY DEF Matching, Stored
  <2>3. After(row, Matching(row, search), cursor) = {r \in Matching(row, search) : Newer(row, last, r)}
    BY <1>2, <1>4, <1>6, <2>2, AfterCursor
  <2>4. QED
    BY <2>1, <2>3 DEF Left
<1>8. ASSUME NEW i \in DOMAIN shown, NEW r \in Left(row, search, cursor)
      PROVE  Newer(row, shown[i], r)
  <2>1. r \in Stored(row) /\ Newer(row, last, r)
    BY <1>7 DEF Matching, Stored
  <2>2. CASE i = Len(shown)
    BY <2>1, <2>2 DEF last
  <2>3. CASE i < Len(shown)
    <3>1. Newer(row, shown[i], last)
      BY <1>4, <1>5, <2>3 DEF InOrder, last
    <3>2. shown[i] \in Stored(row)
      BY <1>6
    <3>3. QED
      BY <1>2, <1>6, <2>1, <3>1, <3>2, NewerOrders
  <2>4. QED
    BY <1>5, <2>2, <2>3
<1>9. steady \subseteq {shown[i] : i \in DOMAIN shown} \cup Left(row, search, cursor)
  <2>1. steady \in SUBSET Stored(row)
    BY <1>4 DEF Matching, Stored
  <2>2. After(row, steady, cursor) = {r \in steady : Newer(row, last, r)}
    BY <1>2, <1>4, <1>6, <2>1, AfterCursor
  <2>3. Shown = {shown[i] : i \in DOMAIN shown}
    BY DEF Shown, shown
  <2>4. QED
    BY <1>4, <1>7, <2>2, <2>3
<1>10. QED
  BY <1>1, <1>2, <1>3, <1>4, <1>6, <1>8, <1>9, PageRead

\* Rows keep their creation time, so that what was shown stays in its order and the cursor in place.
LEMMA StoreKeeps ==
    ASSUME ListingInv, NEW r \in Rows, NEW changed \in RowStates, Store(r, changed),
           row[r] = NoRow \/ row[r].created = changed.created
    PROVE  ListingInv'
<1>1. /\ row \in [Rows -> {NoRow} \cup RowStates] /\ row' = [row EXCEPT ![r] = changed]
      /\ browse' = browse
      /\ steady' = steady \cap (IF browse = NoList THEN {} ELSE Matching(row', browse.search))
  BY DEF ListingInv, ListingTypes, Store
<1>2. changed # NoRow
  BY ListingAssumption
<1>3. /\ row' \in [Rows -> {NoRow} \cup RowStates]
      /\ \A x \in Stored(row) : x \in Rows /\ row'[x] # NoRow /\ row'[x].created = row[x].created
  BY <1>1, <1>2 DEF Stored
<1>4. ListingTypes'
  BY <1>1, <1>3 DEF ListingInv, ListingTypes
<1>5. \A x, y \in Stored(row) : Newer(row', x, y) <=> Newer(row, x, y)
  BY <1>3 DEF Newer
<1>6. CASE browse = NoList
  BY <1>1, <1>4, <1>6 DEF ListingInv, ReadSoFar
<1>7. CASE browse # NoList
  <2> DEFINE shown == browse.shown
  <2>1. /\ Shown \subseteq Stored(row) /\ InOrder(row, shown)
        /\ IF browse.op = "more"
           THEN /\ browse.cursor = NextPageUrl(shown[Len(shown)])
                /\ steady \subseteq Shown \cup After(row, steady, browse.cursor)
           ELSE steady \subseteq Shown
    BY <1>7 DEF ListingInv, ReadSoFar, Stored
  <2>2. steady' \subseteq Matching(row', browse.search) /\ steady' \subseteq steady
        /\ steady \subseteq Stored(row)
    BY <1>1, <1>7 DEF ListingInv, ReadSoFar, Matching, Stored
  <2>3. Shown' = Shown
    BY <1>1 DEF Shown
  <2>4. InOrder(row', shown)
    <3>1. \A i \in DOMAIN shown : shown[i] \in Stored(row)
      BY <2>1 DEF Shown
    <3>2. QED
      BY <1>5, <2>1, <3>1 DEF InOrder
  <2>5. Shown \subseteq {x \in Rows : row'[x] # NoRow}
    BY <1>3, <2>1
  <2>6. CASE browse.op = "more"
    <3>1. shown \in Seq(Rows) /\ shown # <<>>
      BY <1>7, <2>6 DEF ListingInv, ListingTypes, NoList
    <3>2. shown[Len(shown)] \in Stored(row)
      <4>1. Len(shown) \in DOMAIN shown
        BY <3>1
      <4>2. QED
        BY <2>1, <4>1 DEF Shown
    <3>3. NextPageUrl(shown[Len(shown)])' = NextPageUrl(shown[Len(shown)])
      BY <1>1, <1>3, <3>2 DEF NextPageUrl
    <3>4. \A x \in steady : x \in After(row, steady, browse.cursor) /\ x \in steady'
                                => x \in After(row', steady', browse.cursor)
      BY <1>3, <2>2 DEF After
    <3>5. steady' \subseteq Shown \cup After(row', steady', browse.cursor)
      BY <2>1, <2>2, <2>6, <3>4
    <3>6. QED
      BY <1>1, <1>4, <1>7, <2>1, <2>2, <2>3, <2>4, <2>5, <2>6, <3>3, <3>5 DEF ListingInv, ReadSoFar
  <2>7. CASE browse.op # "more"
    BY <1>1, <1>4, <1>7, <2>1, <2>2, <2>3, <2>4, <2>5, <2>7 DEF ListingInv, ReadSoFar
  <2>8. QED
    BY <2>6, <2>7
<1>8. QED
  BY <1>6, <1>7

-----------------------------------------------------------------------------
(* Theorems *)

\* What a list shows stays in one order, its cursor stands at the last of it, and what matches all
\* the time is shown already or comes after the cursor (list_reports, load_report_list).
THEOREM ListingInductive == ListingSpec => []ListingInv
<1>1. ListingInit => ListingInv
  BY DEF ListingInit, ListingInv, ListingTypes, ReadSoFar, NoList
<1>2. ListingInv /\ [ListingNext]_listingVars => ListingInv'
  <2> SUFFICES ASSUME ListingInv, [ListingNext]_listingVars PROVE ListingInv'
    OBVIOUS
  <2>1. CASE UNCHANGED listingVars
    BY <2>1 DEF listingVars, ListingInv, ListingTypes, ReadSoFar, Shown, InOrder, Newer, Matching,
        NextPageUrl, After
  <2>2. ASSUME NEW search \in (SUBSET States) \ {{}}, OpenList(search) PROVE ListingInv'
    BY <2>2, OpenListKeeps
  <2>3. CASE NextPage
    BY <2>3, NextPageKeeps
  <2>4. CASE CloseList
    BY <2>4 DEF CloseList, ListingInv, ListingTypes, ReadSoFar
  <2>5. ASSUME NEW r \in Rows, NEW at \in Stamps, BecomeReady(r, at) PROVE ListingInv'
    <3>1. [created |-> at, state |-> "triage"] \in RowStates
      BY DEF RowStates, States
    <3>2. QED
      BY <2>5, <3>1, StoreKeeps DEF BecomeReady
  <2>6. ASSUME NEW r \in Rows, NEW to \in States, ChangeState(r, to) PROVE ListingInv'
    <3>1. row[r] \in RowStates
      BY <2>6 DEF ChangeState, Present, ListingInv, ListingTypes
    <3>2. [row[r] EXCEPT !.state = to] \in RowStates
          /\ [row[r] EXCEPT !.state = to].created = row[r].created
      BY <3>1 DEF RowStates
    <3>3. QED
      BY <2>6, <3>2, StoreKeeps DEF ChangeState
  <2>7. ASSUME NEW r \in Rows, PurgeRow(r) PROVE ListingInv'
    <3>1. row[r] \in RowStates
      BY <2>7 DEF PurgeRow, Present, ListingInv, ListingTypes
    <3>2. [row[r] EXCEPT !.state = "purged"] \in RowStates
          /\ [row[r] EXCEPT !.state = "purged"].created = row[r].created
      BY <3>1 DEF RowStates
    <3>3. QED
      BY <2>7, <3>2, StoreKeeps DEF PurgeRow
  <2>8. QED
    BY <2>1, <2>2, <2>3, <2>4, <2>5, <2>6, <2>7 DEF ListingNext
<1>3. QED
  BY <1>1, <1>2, PTL DEF ListingSpec

\* No list shows a report twice, and one that is read to its end shows all that matched throughout,
\* however reports come, change and go between its pages (list_reports, load_report_list).
THEOREM EachReportListedOnce == ListingSpec => []ListedOnce
<1>1. ListingInv => ListedOnce
  <2> SUFFICES ASSUME ListingInv, browse # NoList PROVE ListedOnce
    BY DEF ListedOnce
  <2>1. RowsTyped(row) /\ browse.shown \in Seq(Rows) /\ Shown \subseteq Stored(row)
        /\ InOrder(row, browse.shown) /\ browse.op \in {"more", "end"}
    BY DEF ListingInv, ListingTypes, RowsTyped, ReadSoFar, Stored
  <2>2. browse.shown \in Seq(Stored(row))
    <3>1. \A i \in DOMAIN browse.shown : browse.shown[i] \in Stored(row)
      BY <2>1 DEF Shown
    <3>2. QED
      BY <2>1, <3>1
  <2>3. \A i, j \in DOMAIN browse.shown : browse.shown[i] = browse.shown[j] => i = j
    BY <2>1, <2>2, InOrderOnce
  <2>4. browse.op = "end" => steady \subseteq Shown
    BY DEF ListingInv, ReadSoFar
  <2>5. QED
    BY <2>3, <2>4 DEF ListedOnce
<1>2. QED
  BY <1>1, ListingInductive, PTL
=============================================================================
