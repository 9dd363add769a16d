------------------------------ MODULE Listing ------------------------------
(***************************************************************************)
(* The report list, page by page, while reports arrive, change their state *)
(* and are purged.  A page starts after the last report of the page        *)
(* before, in the order of creation time and identifier, newest first.     *)
(***************************************************************************)
EXTENDS Integers, Sequences

CONSTANTS
    Rows,        \* identifiers of reports, in their order
    Stamps,      \* creation times
    PageSize,    \* REPORT_PAGE_SIZE
    NoRow

States == {"triage", "rejected"}

RowStates == [created : Stamps, state : States \cup {"purged"}]
Cursors == [before : Stamps, before_id : Rows]

ASSUME ListingAssumption ==
    /\ Rows \subseteq Nat /\ Stamps \subseteq Nat /\ PageSize \in Nat \ {0}
    /\ NoRow \notin RowStates \cup Cursors

VARIABLES
    row,      \* reports that are or were ready
    browse,   \* the list that a maintainer reads: its search, what it has shown, where it goes on
    steady    \* reports that match the search since the first page was read

listingVars == <<row, browse, steady>>

NoList == [op |-> "none"]

ListingInit ==
    /\ row = [r \in Rows |-> NoRow]
    /\ browse = NoList
    /\ steady = {}

\* push_qualified_search: repeated qualifiers of one key are alternatives.
Matching(rows, search) == {r \in Rows : rows[r] # NoRow /\ rows[r].state \in search}

\* (created_at, id) of one report against those of another.
Newer(rows, x, y) ==
    rows[x].created > rows[y].created \/ (rows[x].created = rows[y].created /\ x > y)

\* Mutant: identifiers are not compared.
AfterTime(rows, found, cursor) == {r \in found : rows[r].created < cursor.before}

\* What a cursor leaves of a list: reports before it in time, by identifier at the same time.
After(rows, found, cursor) ==
    {r \in found : rows[r].created < cursor.before
                      \/ (rows[r].created = cursor.before /\ r < cursor.before_id)}

InOrder(rows, list) == \A i, j \in DOMAIN list : i < j => Newer(rows, list[i], list[j])

\* list_reports: a page and one report more, all of them ahead of what is left over; a set with the
\* one list that is so ordered.
ListReports(rows, search, cursor) ==
    LET found == Matching(rows, search)
        left == IF cursor = NoRow THEN found ELSE After(rows, found, cursor)
    IN  {list \in UNION {[1 .. n -> left] : n \in 0 .. PageSize + 1} :
            /\ InOrder(rows, list)
            /\ \A r \in left \ {list[i] : i \in DOMAIN list} :
                  Len(list) = PageSize + 1 /\ \A i \in DOMAIN list : Newer(rows, list[i], r)}

\* next_page_url
NextPageUrl(last) == [before |-> row[last].created, before_id |-> last]

\* load_report_list: the page, and where the next one starts if there is one.
LoadReportList(search, found, shown) ==
    IF Len(found) > PageSize
    THEN [op |-> "more", search |-> search, shown |-> shown \o SubSeq(found, 1, PageSize),
          cursor |-> NextPageUrl(found[PageSize])]
    ELSE [op |-> "end", search |-> search, shown |-> shown \o found, cursor |-> NoRow]

\* index: the first page.
OpenList(search) ==
    /\ browse = NoList
    /\ \E found \in ListReports(row, search, NoRow) : browse' = LoadReportList(search, found, <<>>)
    /\ steady' = Matching(row, search)
    /\ UNCHANGED row

\* list: the next page, when the reader has scrolled to the end of this one.
NextPage ==
    /\ browse.op = "more"
    /\ \E found \in ListReports(row, browse.search, browse.cursor) :
          browse' = LoadReportList(browse.search, found, browse.shown)
    /\ UNCHANGED <<row, steady>>

CloseList ==
    /\ browse.op = "end"
    /\ browse' = NoList /\ steady' = {}
    /\ UNCHANGED row

\* A report's row changes: it becomes ready, some time after it was created; its state changes; or
\* it is purged.
Store(r, changed) ==
    /\ row' = [row EXCEPT ![r] = changed]
    /\ steady' = steady \cap (IF browse = NoList THEN {} ELSE Matching(row', browse.search))
    /\ UNCHANGED browse

BecomeReady(r, at) == row[r] = NoRow /\ Store(r, [created |-> at, state |-> "triage"])

Present(r) == row[r] # NoRow /\ row[r].state # "purged"

ChangeState(r, to) == Present(r) /\ row[r].state # to /\ Store(r, [row[r] EXCEPT !.state = to])

PurgeRow(r) == Present(r) /\ Store(r, [row[r] EXCEPT !.state = "purged"])

ListingNext ==
    \/ \E search \in (SUBSET States) \ {{}} : OpenList(search)
    \/ NextPage \/ CloseList
    \/ \E r \in Rows :
          \/ \E at \in Stamps : BecomeReady(r, at)
          \/ \E to \in States : ChangeState(r, to)
          \/ PurgeRow(r)

ListingSpec == ListingInit /\ [][ListingNext]_listingVars

-----------------------------------------------------------------------------
(* Properties *)

Shown == {browse.shown[i] : i \in DOMAIN browse.shown}

\* No report is shown twice, and a list that is read to its end shows every report that matches
\* from its first page to its last, although reports come and go between the pages and several may
\* have the same creation time (list_reports, load_report_list).
ListedOnce ==
    browse # NoList =>
        /\ \A i, j \in DOMAIN browse.shown : browse.shown[i] = browse.shown[j] => i = j
        /\ browse.op = "end" => steady \subseteq Shown

\* Every variable has its type.
ListingTypes ==
    /\ row \in [Rows -> {NoRow} \cup RowStates]
    /\ browse \in {NoList}
          \cup [op : {"end"}, search : SUBSET States, shown : Seq(Rows), cursor : {NoRow}]
          \cup [op : {"more"}, search : SUBSET States, shown : Seq(Rows) \ {<<>>}, cursor : Cursors]
    /\ steady \subseteq Rows

\* What was shown is in order, whatever has become of it; the cursor stands at the last of it; and
\* what has matched all the time was shown or is still to come.
ReadSoFar ==
    browse # NoList =>
        /\ Shown \subseteq {r \in Rows : row[r] # NoRow} /\ InOrder(row, browse.shown)
        /\ steady \subseteq Matching(row, browse.search)
        /\ IF browse.op = "more"
           THEN /\ browse.cursor = NextPageUrl(browse.shown[Len(browse.shown)])
                /\ steady \subseteq Shown \cup After(row, steady, browse.cursor)
           ELSE steady \subseteq Shown

\* The inductive invariant.
ListingInv == ListingTypes /\ ReadSoFar
=============================================================================
