------------------------- MODULE IssueTrackingProofs -------------------------
(***************************************************************************)
(* Proofs about IssueTracking, for every set of reports, issues,           *)
(* maintainers, workers and GitHub issues and every bound.                 *)
(***************************************************************************)
EXTENDS IssueTracking, TLAPS

\* A row that is about to be settled: at most its state and its fix are still to be brought in line.
Settleable(row) ==
    /\ row.issue # None => row.state # "triage"
    /\ row.state = "confirmed" => row.issue # None
    /\ row.state = "resolved" /\ row.issue = None => row.fix # None
    /\ row.fix \in Landed \cup {None}

\* A row follows its issue in a given table of issues.
Follows(row, issues) ==
    row.issue # None /\ row.state \in {"confirmed", "resolved"} =>
        (row.state = "resolved" <=> issues[row.issue].state = "resolved")

\* Issues that stand go on standing in another table of issues.
StillStanding(issues) ==
    \A i \in Issues : Standing(issue, i) => Standing(issues, i)

-----------------------------------------------------------------------------
(* Rows *)

\* What GitHub says of an issue has a state here.
LEMMA StateOfStatus ==
    ASSUME NEW s \in Statuses \ {"absent"}
    PROVE  LinkState(s) \in LinkStates
BY DEF Statuses, LinkState, LinkStates

\* A tracked issue is not rejected.
LEMMA TrackingStates ==
    ASSUME NEW link \in LinkStates
    PROVE  TrackingState(link) \in IssueStates
BY DEF TrackingState, LinkStates, IssueStates, Gone

\* What Tracked writes and what it leaves alone.
LEMMA TrackedRow ==
    ASSUME NEW row \in IssueRows, NEW e \in Events
    PROVE  /\ Tracked(row, e) \in IssueRows
           /\ Tracked(row, e).state # "none" /\ Tracked(row, e).into = row.into
           /\ Tracked(row, e).github = e.github /\ e.github # None /\ Tracked(row, e).seen = e.at
<1>1. e.github \in Github /\ e.at \in 0 .. MaxUpdates /\ e.status \in Statuses \ {"absent"}
  BY DEF Events
<1>2. LinkState(e.status) \in LinkStates /\ TrackingState(LinkState(e.status)) \in IssueStates
  BY <1>1, StateOfStatus, TrackingStates
<1>3. e.github # None
  BY <1>1, TrackingAssumption
<1>4. QED
  BY <1>1, <1>2, <1>3 DEF Tracked, IssueRows, IssueStates

\* Settle leaves the link alone and makes the row agree with itself and with its issue.
LEMMA SettledRow ==
    ASSUME NEW row \in ReportRows, NEW issues
    PROVE  /\ Settle(row, issues) \in ReportRows
           /\ Settle(row, issues).issue = row.issue
           /\ Follows(Settle(row, issues), issues)
           /\ Settleable(row) => RowValid(Settle(row, issues))
<1> DEFINE settled == IF ~(row.issue # None /\ row.state \in {"confirmed", "resolved"}) THEN row.state
                      ELSE IF issues[row.issue].state = "resolved" THEN "resolved" ELSE "confirmed"
           fix == IF settled = "resolved" /\ row.issue = None THEN row.fix ELSE None
           result == [row EXCEPT !.state = settled, !.fix = fix]
<1>1. row.state \in ReportStates /\ row.issue \in Issues \cup {None} /\ row.fix \in Fixes \cup {None}
  BY DEF ReportRows
<1>2. settled \in ReportStates /\ fix \in Fixes \cup {None}
  BY <1>1 DEF ReportStates
<1>3. result \in ReportRows /\ result.issue = row.issue /\ result.state = settled /\ result.fix = fix
  BY <1>2 DEF ReportRows
<1>4. Settle(row, issues) = result
  BY DEF Settle
<1>5. Follows(result, issues)
  BY <1>3 DEF Follows
<1>6. Settleable(row) => RowValid(result)
  BY <1>3 DEF Settleable, RowValid
<1>7. QED
  BY <1>3, <1>4, <1>5, <1>6

\* A row that agrees with itself may be settled.
LEMMA ValidSettleable ==
    ASSUME NEW row, RowValid(row)
    PROVE  Settleable(row)
BY DEF RowValid, Settleable

\* Follow leaves links alone, and rows that followed their issues follow them.
LEMMA FollowedRows ==
    ASSUME NEW rows \in [Reports -> ReportRows], NEW old, NEW new
    PROVE  /\ Follow(rows, old, new) \in [Reports -> ReportRows]
           /\ \A r \in Reports :
                 LET row == Follow(rows, old, new)[r] IN
                 /\ row.issue = rows[r].issue
                 /\ RowValid(rows[r]) => RowValid(row)
                 /\ Follows(rows[r], old) => Follows(row, new)
<1> SUFFICES ASSUME NEW r \in Reports
             PROVE  LET row == Follow(rows, old, new)[r] IN
                    /\ row \in ReportRows /\ row.issue = rows[r].issue
                    /\ RowValid(rows[r]) => RowValid(row)
                    /\ Follows(rows[r], old) => Follows(row, new)
  BY DEF Follow
<1> DEFINE i == rows[r].issue
           turned == i # None /\ (old[i].state = "resolved") # (new[i].state = "resolved")
<1>1. CASE turned
  <2>1. Follow(rows, old, new)[r] = Settle(rows[r], new)
    BY <1>1 DEF Follow
  <2>2. QED
    BY <2>1, SettledRow, ValidSettleable
<1>2. CASE ~turned
  <2>1. Follow(rows, old, new)[r] = rows[r]
    BY <1>2 DEF Follow
  <2>2. Follows(rows[r], old) => Follows(rows[r], new)
    BY <1>2 DEF Follows
  <2>3. QED
    BY <2>1, <2>2
<1>3. QED
  BY <1>1, <1>2

-----------------------------------------------------------------------------
(* Transactions *)

\* What an open transaction holds.
LEMMA WritingRows ==
    ASSUME TypeOK, NEW m \in Maintainers, txn[m].op = "writing"
    PROVE  /\ txn[m].lock \in BOOLEAN /\ DOMAIN txn[m].rows \subseteq Reports
           /\ \A r \in DOMAIN txn[m].rows : txn[m].rows[r] \in ReportRows
<1>1. txn[m] \in [op : {"writing"}, lock : BOOLEAN,
                  rows : UNION {[rs -> ReportRows] : rs \in SUBSET Reports}]
  BY DEF TypeOK, RequestStates, Idle
<1>2. QED
  BY <1>1

\* The invariant but for the side of GitHub, which most steps leave alone.
RowsInv ==
    /\ \A r \in Reports : RowValid(report[r])
    /\ \A i \in Issues : IssueValid(issue[i])
    /\ LinksStand /\ WritersExclude /\ PendingStand

LEMMA TrackingParts == TrackingInv <=> TypeOK /\ RowsInv /\ GithubTold
BY DEF TrackingInv, RowsInv

\* A transaction of one step, which waits for the rows it changes: open transactions stay as good
\* as they were, if no issue is merged or no lock is held.
LEMMA WriteStep ==
    ASSUME TypeOK, RowsInv, NEW rows \in [Reports -> ReportRows], NEW issues \in [Issues -> IssueRows],
           Write(rows, issues),
           \A m \in Maintainers : txn'[m].op = "writing" => txn'[m] = txn[m],
           \A r \in Reports : /\ RowValid(rows[r])
                              /\ rows[r].issue # None =>
                                    Standing(issues, rows[r].issue),
           \A i \in Issues : IssueValid(issues[i]),
           StillStanding(issues) \/ ~Busy
    PROVE  RowsInv'
<1>1. report' = rows /\ issue' = issues
  BY DEF Write
<1>2. LinksStand'
  BY <1>1 DEF LinksStand, Standing
<1>3. WritersExclude'
  BY DEF WritersExclude, RowsInv
<1>4. ASSUME NEW m \in Maintainers, txn'[m].op = "writing", NEW r \in DOMAIN txn'[m].rows
      PROVE  LET row == txn'[m].rows[r] IN
             /\ RowValid(row)
             /\ row.issue # None => report'[r].issue \in {None, row.issue} /\ Standing(issue', row.issue)
             /\ ~txn'[m].lock => row.issue = report'[r].issue
  <2>1. txn'[m] = txn[m] /\ r \in Reports /\ txn[m].rows[r] \in ReportRows /\ txn[m].lock \in BOOLEAN
    BY <1>4, WritingRows
  <2> DEFINE row == txn[m].rows[r]
  <2>2. report'[r] = report[r]
    BY <1>1, <1>4, <2>1 DEF Write, Locked
  <2>3. /\ RowValid(row)
        /\ row.issue # None => report[r].issue \in {None, row.issue} /\ Standing(issue, row.issue)
        /\ ~txn[m].lock => row.issue = report[r].issue
    BY <1>4, <2>1 DEF RowsInv, PendingStand
  <2>4. ASSUME row.issue # None
        PROVE  Standing(issue', row.issue)
    <3>1. CASE StillStanding(issues)
      <4>1. row.issue \in Issues
        BY <2>1, <2>4 DEF ReportRows
      <4>2. QED
        BY <1>1, <2>3, <2>4, <3>1, <4>1 DEF StillStanding, Standing
    <3>2. CASE ~Busy
      <4>1. ~txn[m].lock
        BY <1>4, <2>1, <3>2 DEF Busy
      <4>2. row.issue = report'[r].issue
        BY <2>2, <2>3, <4>1
      <4>3. QED
        BY <1>2, <2>1, <2>4, <4>2 DEF LinksStand
    <3>3. QED
      BY <3>1, <3>2
  <2>5. QED
    BY <2>1, <2>2, <2>3, <2>4
<1>5. PendingStand'
  BY <1>4 DEF PendingStand, RowValid
<1>6. QED
  BY <1>1, <1>2, <1>3, <1>5 DEF RowsInv, RowValid, IssueValid

\* The last statement of a transaction leaves behind what may be committed.
LEMMA BeginStep ==
    ASSUME TypeOK, RowsInv, NEW m \in Maintainers, txn[m].op # "writing",
           NEW rs \in SUBSET Reports, NEW rows \in [rs -> ReportRows], NEW lock \in BOOLEAN,
           \A r \in rs : /\ Settleable(rows[r])
                         /\ rows[r].issue # None =>
                               report[r].issue \in {None, rows[r].issue} /\ Standing(issue, rows[r].issue)
                         /\ ~lock => rows[r].issue = report[r].issue,
           Begin(m, rows, lock)
    PROVE  /\ TypeOK' /\ RowsInv'
           /\ \A r \in DOMAIN txn'[m].rows : InStep(txn'[m].rows[r])
<1> DEFINE settled == [r \in DOMAIN rows |-> Settle(rows[r], issue)]
           request == [op |-> "writing", lock |-> lock, rows |-> settled]
<1>1. txn' = [txn EXCEPT ![m] = request]
  BY DEF Begin
<1>2. settled \in [rs -> ReportRows]
  BY SettledRow
<1>3. request \in RequestStates
  BY <1>2 DEF RequestStates
<1>4. txn \in [Maintainers -> RequestStates]
  BY DEF TypeOK
<1>5. txn' \in [Maintainers -> RequestStates] /\ txn'[m] = request
      /\ \A n \in Maintainers \ {m} : txn'[n] = txn[n]
  BY <1>1, <1>3, <1>4
<1>6. UNCHANGED <<report, issue, aliases, jobFor, leaseOf, lapsed, worker, status, original, sent, clock>>
  BY DEF Begin, jobVars, githubVars
<1>7. TypeOK'
  BY <1>5, <1>6 DEF TypeOK
<1>8. WritersExclude'
  <2>1. rs \cap Locked = {} /\ (lock => ~Busy)
    BY DEF Begin
  <2>2. ASSUME NEW n \in Maintainers \ {m}, txn[n].op = "writing"
        PROVE  rs \cap DOMAIN txn[n].rows = {} /\ ~(lock /\ txn[n].lock)
    BY <2>1, <2>2 DEF Locked, Busy
  <2>3. DOMAIN request.rows = rs /\ request.lock = lock /\ request.op = "writing"
    BY <1>2
  <2>4. QED
    BY <1>5, <2>2, <2>3 DEF WritersExclude, RowsInv
<1>9. \A r \in rs :
          /\ RowValid(settled[r])
          /\ settled[r].issue # None =>
                report[r].issue \in {None, settled[r].issue} /\ Standing(issue, settled[r].issue)
          /\ ~lock => settled[r].issue = report[r].issue
          /\ Follows(settled[r], issue)
  BY SettledRow
<1>10. PendingStand'
  <2>1. ASSUME NEW n \in Maintainers, txn'[n].op = "writing", NEW r \in DOMAIN txn'[n].rows
        PROVE  LET row == txn'[n].rows[r] IN
               /\ RowValid(row)
               /\ row.issue # None => report'[r].issue \in {None, row.issue} /\ Standing(issue', row.issue)
               /\ ~txn'[n].lock => row.issue = report'[r].issue
    <3>1. CASE n = m
      BY <1>2, <1>5, <1>6, <1>9, <2>1, <3>1 DEF Standing
    <3>2. CASE n # m
      BY <1>5, <1>6, <2>1, <3>2 DEF RowsInv, PendingStand, Standing
    <3>3. QED
      BY <3>1, <3>2
  <2>2. QED
    BY <2>1 DEF PendingStand, RowValid
<1>11. RowsInv'
  BY <1>6, <1>8, <1>10 DEF RowsInv, LinksStand, Standing, RowValid, IssueValid
<1>12. QED
  BY <1>2, <1>5, <1>7, <1>9, <1>11 DEF Follows, InStep

-----------------------------------------------------------------------------
(* What every step does *)

\* Rows that follow their issues go on following them.
FollowsOn == \A r \in Reports : InStep(report[r]) => Follows(report'[r], issue')

\* What a request begins to hold follows the issues as they are.
BeginsInStep ==
    \A m \in Maintainers : txn[m].op # "writing" /\ txn'[m].op = "writing" =>
        \A r \in DOMAIN txn'[m].rows : InStep(txn'[m].rows[r])

\* A report goes from one issue to another with the merge of the one.
LinksMove ==
    \A r \in Reports :
        LET i == report[r].issue  j == report'[r].issue
        IN  i # None /\ j # None /\ i # j => issue[i].into = None /\ issue'[i].into = j

\* Issues are merged one at a time, into others that are not, and for duplicates; none of them
\* comes to show anything older.
IssuesMove ==
    \A i \in Issues :
        /\ issue'[i].into # issue[i].into =>
              /\ issue[i].link = "closed" /\ SaidDuplicate(issue[i].github)
              /\ issue'[i].into \in Issues \ {i} /\ issue'[issue'[i].into].into = None
              /\ \A k \in Issues \ {i} : issue'[k].into = issue[k].into
        /\ issue[i].state # "none" /\ issue'[i].github = issue[i].github =>
              issue'[i].seen >= issue[i].seen

GoodStep == TrackingInv' /\ BeginsInStep /\ LinksMove /\ IssuesMove

\* Steps that write neither reports nor issues, nor begin to.
LEMMA QuietStep ==
    ASSUME TypeOK, RowsInv, UNCHANGED <<report, issue>>,
           \A m \in Maintainers : txn'[m].op = "writing" => txn'[m] = txn[m]
    PROVE  RowsInv' /\ FollowsOn /\ BeginsInStep /\ LinksMove /\ IssuesMove
<1>1. RowsInv'
  <2>1. LinksStand'
    BY DEF RowsInv, LinksStand, Standing
  <2>2. WritersExclude'
    BY DEF RowsInv, WritersExclude
  <2>3. PendingStand'
    BY DEF RowsInv, PendingStand, RowValid, Standing
  <2>4. QED
    BY <2>1, <2>2, <2>3 DEF RowsInv, RowValid
<1>2. FollowsOn
  BY DEF FollowsOn, InStep, Follows
<1>3. BeginsInStep
  BY DEF BeginsInStep
<1>4. LinksMove
  BY DEF LinksMove
<1>5. \A i \in Issues : issue[i].seen \in Int
  BY DEF TypeOK, IssueRows
<1>6. IssuesMove
  BY <1>5 DEF IssuesMove
<1>7. QED
  BY <1>1, <1>2, <1>3, <1>4, <1>6

\* GitHub's side while GitHub and the jobs are left alone.
LEMMA GithubFrame ==
    ASSUME GithubTold, UNCHANGED <<jobFor, worker, githubVars>>
    PROVE  GithubTold'
BY DEF GithubTold, githubVars, SaidDuplicate

\* Issues change and reports follow them; no issue is merged.
LEMMA FollowStep ==
    ASSUME TypeOK, RowsInv, NEW issues \in [Issues -> IssueRows],
           Write(Follow(report, issue, issues), issues),
           \A m \in Maintainers : txn'[m].op = "writing" => txn'[m] = txn[m],
           \A i \in Issues : /\ issues[i].into = issue[i].into
                             /\ issues[i].state = "none" <=> issue[i].state = "none"
                             /\ issues[i].state # "none" => issues[i].github # None
                             /\ issues[i].github = issue[i].github => issues[i].seen >= issue[i].seen
    PROVE  /\ report' \in [Reports -> ReportRows] /\ issue' \in [Issues -> IssueRows]
           /\ RowsInv' /\ FollowsOn /\ BeginsInStep /\ LinksMove /\ IssuesMove
<1> DEFINE rows == Follow(report, issue, issues)
<1>1. report' = rows /\ issue' = issues
  BY DEF Write
<1>2. /\ rows \in [Reports -> ReportRows]
      /\ \A r \in Reports : /\ rows[r].issue = report[r].issue
                            /\ RowValid(rows[r])
                            /\ Follows(report[r], issue) => Follows(rows[r], issues)
  BY FollowedRows DEF TypeOK, RowsInv
<1>3. StillStanding(issues)
  BY DEF StillStanding, Standing
<1>4. RowsInv'
  <2>1. \A r \in Reports : rows[r].issue # None => Standing(issues, rows[r].issue)
    <3>1. \A r \in Reports : rows[r].issue \in Issues \cup {None}
      BY <1>2 DEF ReportRows
    <3>2. QED
      BY <1>2, <1>3, <3>1 DEF RowsInv, LinksStand, StillStanding
  <2>2. \A i \in Issues : IssueValid(issues[i])
    BY DEF RowsInv, IssueValid
  <2> HIDE DEF rows
  <2>3. QED
    BY <1>1, <1>2, <1>3, <2>1, <2>2, WriteStep DEF rows
<1>5. FollowsOn
  BY <1>1, <1>2 DEF FollowsOn, InStep, Follows
<1>6. BeginsInStep
  BY DEF BeginsInStep
<1>7. LinksMove
  BY <1>1, <1>2 DEF LinksMove
<1>8. IssuesMove
  BY <1>1 DEF IssuesMove
<1>9. QED
  BY <1>1, <1>2, <1>4, <1>5, <1>6, <1>7, <1>8

\* An event of GitHub applies to an issue that shows something older.
LEMMA SynchronisedStep ==
    ASSUME TypeOK, RowsInv, NEW e \in Events, NEW source, NEW i \in Trackers(e.github),
           Applies(i, e, source),
           Write(Follow(report, issue, Synchronised(i, e)), Synchronised(i, e)),
           \A m \in Maintainers : txn'[m].op = "writing" => txn'[m] = txn[m]
    PROVE  /\ report' \in [Reports -> ReportRows] /\ issue' \in [Issues -> IssueRows]
           /\ RowsInv' /\ FollowsOn /\ BeginsInStep /\ LinksMove /\ IssuesMove
<1> DEFINE issues == Synchronised(i, e)
<1>1. i \in Issues /\ issue[i].state # "none" /\ issue[i].seen <= e.at
  BY DEF Trackers, Live, Applies
<1>2. /\ issues \in [Issues -> IssueRows] /\ issues[i] = Tracked(issue[i], e)
      /\ \A j \in Issues \ {i} : issues[j] = issue[j]
  BY <1>1, TrackedRow DEF Synchronised, TypeOK
<1>3. \A j \in Issues : issue[j] \in IssueRows /\ issue[j].seen \in Int
  BY DEF TypeOK, IssueRows
<1>4. \A j \in Issues : /\ issues[j].into = issue[j].into
                        /\ issues[j].state = "none" <=> issue[j].state = "none"
                        /\ issues[j].state # "none" => issues[j].github # None
                        /\ issues[j].github = issue[j].github => issues[j].seen >= issue[j].seen
  BY <1>1, <1>2, <1>3, TrackedRow DEF RowsInv, IssueValid
<1>5. Write(Follow(report, issue, issues), issues)
  OBVIOUS
<1> HIDE DEF issues
<1>6. QED
  BY <1>2, <1>4, <1>5, FollowStep

-----------------------------------------------------------------------------
(* Steps of maintainers *)

\* A transaction on report rows comes to its last statement.
LEMMA BegunStep ==
    ASSUME TrackingInv, NEW m \in Maintainers, txn[m].op # "writing",
           NEW rs \in SUBSET Reports, NEW rows \in [rs -> ReportRows], NEW lock \in BOOLEAN,
           \A r \in rs : /\ Settleable(rows[r])
                         /\ rows[r].issue # None =>
                               report[r].issue \in {None, rows[r].issue} /\ Standing(issue, rows[r].issue)
                         /\ ~lock => rows[r].issue = report[r].issue,
           Begin(m, rows, lock)
    PROVE  GoodStep /\ FollowsOn
<1>1. TypeOK /\ RowsInv /\ GithubTold
  BY TrackingParts
<1>2. /\ TypeOK' /\ RowsInv'
      /\ \A r \in DOMAIN txn'[m].rows : InStep(txn'[m].rows[r])
  BY <1>1, BeginStep
<1>3. UNCHANGED <<report, issue, jobFor, worker, githubVars>>
  BY DEF Begin, jobVars
<1>4. GithubTold'
  BY <1>1, <1>3, GithubFrame
<1>5. \A n \in Maintainers \ {m} : txn'[n] = txn[n]
  BY DEF Begin
<1>6. BeginsInStep
  BY <1>2, <1>5 DEF BeginsInStep
<1>7. FollowsOn
  BY <1>3 DEF FollowsOn, InStep, Follows
<1>8. LinksMove
  BY <1>3 DEF LinksMove
<1>9. IssuesMove
  <2>1. \A i \in Issues : issue[i].seen \in Int
    BY <1>1 DEF TypeOK, IssueRows
  <2>2. QED
    BY <1>3, <2>1 DEF IssuesMove
<1>10. TrackingInv'
  BY <1>2, <1>4 DEF TrackingInv, RowsInv
<1>11. QED
  BY <1>6, <1>7, <1>8, <1>9, <1>10 DEF GoodStep

\* A transaction links reports to an issue.
LEMMA LinkStep ==
    ASSUME TrackingInv, NEW m \in Maintainers, txn[m].op # "writing",
           NEW rs \in SUBSET Reports, NEW i \in Issues, Standing(issue, i), Linkable(rs, i),
           Begin(m, LinkRows(rs, i), TRUE)
    PROVE  GoodStep /\ FollowsOn
<1> DEFINE rows == LinkRows(rs, i)
<1>1. rows \in [rs -> ReportRows]
  BY DEF LinkRows, ReportRows, ReportStates, TrackingInv, TypeOK
<1>2. ASSUME NEW r \in rs
      PROVE  /\ Settleable(rows[r])
             /\ report[r].issue \in {None, rows[r].issue} /\ Standing(issue, rows[r].issue)
  <2>1. report[r] \in ReportRows /\ RowValid(report[r])
    BY DEF TrackingInv, TypeOK
  <2>2. rows[r].issue = i /\ rows[r].state = "confirmed" /\ rows[r].fix = report[r].fix
    BY <2>1 DEF LinkRows, ReportRows
  <2>3. i # None
    BY TrackingAssumption
  <2>4. QED
    BY <2>1, <2>2, <2>3 DEF Settleable, RowValid, Linkable
<1> HIDE DEF rows
<1>3. Begin(m, rows, TRUE)
  BY DEF rows
<1>4. QED
  BY <1>1, <1>2, <1>3, BegunStep

\* assign_reports_to_issue
LEMMA AssignStep ==
    ASSUME TrackingInv, NEW m \in Maintainers, txn[m].op # "writing",
           NEW rs \in SUBSET Reports, NEW i \in Issues, AssignToIssue(m, rs, i)
    PROVE  GoodStep /\ FollowsOn
BY LinkStep DEF AssignToIssue, Live, Standing

\* The second transaction of assign_reports_to_github_issue.
LEMMA AssignToTrackerStep ==
    ASSUME TrackingInv, NEW m \in Maintainers, AssignToTracker(m)
    PROVE  GoodStep /\ FollowsOn
<1>1. TypeOK /\ txn[m].op = "synced"
  BY DEF TrackingInv, AssignToTracker
<1>2. txn[m] \in [op : {"synced"}, reports : SUBSET Reports, event : Events]
  BY <1>1 DEF TypeOK, RequestStates, Idle
<1>3. PICK i \in Spokesman(txn[m].event.github) :
          Linkable(txn[m].reports, i) /\ Begin(m, LinkRows(txn[m].reports, i), TRUE)
  BY DEF AssignToTracker
<1>4. issue[i].into = None /\ \E k \in Trackers(txn[m].event.github) \cup AliasesOf(txn[m].event.github) :
          i \in Chain(k) /\ \A j \in Chain(k) : Live(j)
  BY <1>3 DEF Spokesman, Ends
<1>5. Live(i)
  BY <1>4
<1>6. i \in Issues
  BY <1>4 DEF Chain
<1>7. Standing(issue, i)
  BY <1>4, <1>5 DEF Live, Standing
<1>8. QED
  BY <1>1, <1>2, <1>3, <1>6, <1>7, LinkStep

\* Its first transaction.
LEMMA FetchStep ==
    ASSUME TrackingInv, NEW m \in Maintainers, txn[m] = Idle,
           NEW rs \in SUBSET Reports, NEW e \in sent, FetchForAssignment(m, rs, e)
    PROVE  GoodStep /\ FollowsOn
<1>1. TypeOK /\ RowsInv /\ GithubTold /\ e \in Events
  BY TrackingParts DEF TypeOK
<1> DEFINE request == [op |-> "synced", reports |-> rs, event |-> e]
<1>2. /\ txn' = [txn EXCEPT ![m] = request]
      /\ UNCHANGED <<aliases, jobFor, leaseOf, lapsed, worker, status, original, sent, clock>>
  BY DEF FetchForAssignment, jobVars, githubVars
<1>3. request \in RequestStates
  BY <1>1 DEF RequestStates
<1>4. txn' \in [Maintainers -> RequestStates] /\ txn'[m] = request
      /\ \A n \in Maintainers \ {m} : txn'[n] = txn[n]
  BY <1>1, <1>2, <1>3 DEF TypeOK
<1>5. \A n \in Maintainers : txn'[n].op = "writing" => txn'[n] = txn[n]
  BY <1>4
<1>6. /\ report' \in [Reports -> ReportRows] /\ issue' \in [Issues -> IssueRows]
      /\ RowsInv' /\ FollowsOn /\ BeginsInStep /\ LinksMove /\ IssuesMove
  <2>1. CASE UNCHANGED <<report, issue>>
    <3>1. report' \in [Reports -> ReportRows] /\ issue' \in [Issues -> IssueRows]
      BY <1>1, <2>1 DEF TypeOK
    <3>2. QED
      BY <1>1, <1>5, <2>1, <3>1, QuietStep
  <2>2. ASSUME NEW i \in Trackers(e.github), Applies(i, e, "assignment"),
               Write(Follow(report, issue, Synchronised(i, e)), Synchronised(i, e))
        PROVE  /\ report' \in [Reports -> ReportRows] /\ issue' \in [Issues -> IssueRows]
               /\ RowsInv' /\ FollowsOn /\ BeginsInStep /\ LinksMove /\ IssuesMove
    BY <1>1, <1>5, <2>2, SynchronisedStep
  <2>3. QED
    BY <2>1, <2>2 DEF FetchForAssignment
<1>7. TrackingInv'
  <2>1. TypeOK'
    BY <1>1, <1>2, <1>4, <1>6 DEF TypeOK
  <2>2. GithubTold'
    BY <1>1, <1>2, GithubFrame DEF githubVars
  <2>3. QED
    BY <1>6, <2>1, <2>2 DEF TrackingInv, RowsInv
<1>8. QED
  BY <1>6, <1>7 DEF GoodStep

\* Its second transaction, with an issue of its own.
LEMMA AssignToNewStep ==
    ASSUME TrackingInv, NEW m \in Maintainers, AssignToNewIssue(m)
    PROVE  GoodStep /\ FollowsOn
<1>1. TypeOK /\ RowsInv /\ GithubTold /\ txn[m].op = "synced"
  BY TrackingParts DEF AssignToNewIssue
<1>2. txn[m] \in [op : {"synced"}, reports : SUBSET Reports, event : Events]
  BY <1>1 DEF TypeOK, RequestStates, Idle
<1> DEFINE e == txn[m].event
           rs == txn[m].reports
<1>3. PICK i \in Issues :
          /\ issue[i].state = "none"
          /\ issue' = [issue EXCEPT ![i] = Tracked(Unused, e)]
          /\ report' = [r \in Reports |->
                IF r \in rs THEN Settle(LinkRows(rs, i)[r], issue') ELSE report[r]]
  BY DEF AssignToNewIssue
<1>4. rs \cap Locked = {} /\ Linkable(rs, None) /\ ~Busy /\ txn' = [txn EXCEPT ![m] = Idle]
      /\ UNCHANGED <<aliases, jobFor, leaseOf, lapsed, worker, status, original, sent, clock>>
  BY DEF AssignToNewIssue, jobVars, githubVars
<1>5. Unused \in IssueRows
  BY TrackingAssumption DEF Unused, IssueRows, LinkStates
<1>6. e \in Events /\ rs \in SUBSET Reports /\ i # None
  BY <1>2, TrackingAssumption
<1>7. /\ Tracked(Unused, e) \in IssueRows /\ Tracked(Unused, e).state # "none"
      /\ Tracked(Unused, e).into = None /\ Tracked(Unused, e).github # None
  <2>1. Unused.into = None
    BY DEF Unused
  <2>2. QED
    BY <1>5, <1>6, <2>1, TrackedRow
<1>8. issue' \in [Issues -> IssueRows] /\ issue'[i] = Tracked(Unused, e)
      /\ \A j \in Issues \ {i} : issue'[j] = issue[j]
  BY <1>1, <1>3, <1>7 DEF TypeOK
<1>9. \A r \in rs : /\ LinkRows(rs, i)[r] \in ReportRows /\ Settleable(LinkRows(rs, i)[r])
                    /\ LinkRows(rs, i)[r].issue = i /\ report[r].issue = None
  <2>1. ASSUME NEW r \in rs
        PROVE  /\ LinkRows(rs, i)[r] \in ReportRows /\ Settleable(LinkRows(rs, i)[r])
               /\ LinkRows(rs, i)[r].issue = i /\ report[r].issue = None
    <3>1. report[r] \in ReportRows /\ RowValid(report[r])
      BY <1>1, <1>6 DEF TypeOK, RowsInv
    <3>2. /\ LinkRows(rs, i)[r] \in ReportRows /\ LinkRows(rs, i)[r].issue = i
          /\ LinkRows(rs, i)[r].state = "confirmed" /\ LinkRows(rs, i)[r].fix = report[r].fix
      BY <3>1 DEF LinkRows, ReportRows, ReportStates
    <3>3. QED
      BY <1>4, <1>6, <3>1, <3>2 DEF Settleable, RowValid, Linkable
  <2>2. QED
    BY <2>1
<1>10. /\ report' \in [Reports -> ReportRows]
       /\ \A r \in Reports \ rs : report'[r] = report[r]
       /\ \A r \in rs : /\ RowValid(report'[r]) /\ report'[r].issue = i /\ report[r].issue = None
                        /\ Follows(report'[r], issue')
  <2>1. \A r \in rs : /\ Settle(LinkRows(rs, i)[r], issue') \in ReportRows
                      /\ RowValid(Settle(LinkRows(rs, i)[r], issue'))
                      /\ Settle(LinkRows(rs, i)[r], issue').issue = i
                      /\ Follows(Settle(LinkRows(rs, i)[r], issue'), issue')
    BY <1>9, SettledRow
  <2>2. QED
    BY <1>1, <1>3, <1>6, <1>9, <2>1 DEF TypeOK
<1>11. txn' \in [Maintainers -> RequestStates]
       /\ \A n \in Maintainers : txn'[n].op = "writing" => txn'[n] = txn[n]
  BY <1>1, <1>4 DEF TypeOK, RequestStates, Idle
<1>12. \A r \in Reports : report[r] \in ReportRows /\ RowValid(report[r])
          /\ (report[r].issue # None => Standing(issue, report[r].issue) /\ report[r].issue \in Issues)
  BY <1>1 DEF TypeOK, RowsInv, LinksStand, ReportRows
<1>13. RowsInv'
  <2>1. \A r \in Reports : /\ RowValid(report'[r])
                           /\ report'[r].issue # None => Standing(issue', report'[r].issue)
    BY <1>3, <1>7, <1>8, <1>10, <1>12 DEF Standing
  <2>2. Write(report', issue')
    BY <1>4, <1>10 DEF Write
  <2>3. \A j \in Issues : IssueValid(issue'[j])
    BY <1>1, <1>7, <1>8 DEF RowsInv, IssueValid
  <2>4. QED
    BY <1>1, <1>4, <1>8, <1>10, <1>11, <2>1, <2>2, <2>3, WriteStep
<1>14. FollowsOn
  <2>1. ASSUME NEW r \in Reports \ rs, InStep(report[r])
        PROVE  Follows(report'[r], issue')
    <3>1. report'[r] = report[r]
      BY <1>10
    <3>2. report[r].issue # None => issue'[report[r].issue] = issue[report[r].issue]
      BY <1>3, <1>8, <1>12 DEF Standing
    <3>3. QED
      BY <2>1, <3>1, <3>2 DEF InStep, Follows
  <2>2. QED
    BY <1>10, <2>1 DEF FollowsOn
<1>15. LinksMove
  BY <1>10 DEF LinksMove
<1>16. IssuesMove
  <2>1. issue[i].into = None /\ \A j \in Issues : issue[j].seen \in Int
    BY <1>1, <1>3 DEF RowsInv, IssueValid, TypeOK, IssueRows
  <2>2. QED
    BY <1>3, <1>7, <1>8, <2>1 DEF IssuesMove
<1>17. BeginsInStep
  BY <1>11 DEF BeginsInStep
<1>18. TrackingInv'
  <2>1. TypeOK'
    BY <1>1, <1>4, <1>8, <1>10, <1>11 DEF TypeOK
  <2>2. GithubTold'
    BY <1>1, <1>4, GithubFrame DEF githubVars
  <2>3. QED
    BY <1>13, <2>1, <2>2 DEF TrackingInv, RowsInv
<1>19. QED
  BY <1>14, <1>15, <1>16, <1>17, <1>18 DEF GoodStep

\* set_report_state
LEMMA SetStateStep ==
    ASSUME TrackingInv, NEW m \in Maintainers, txn[m].op # "writing",
           NEW r \in Reports, NEW target \in {"triage", "confirmed", "rejected"},
           SetReportState(m, r, target)
    PROVE  GoodStep /\ FollowsOn
<1> DEFINE rows == [x \in {r} |-> [report[r] EXCEPT !.state = target]]
<1>1. /\ report[r] \in ReportRows /\ RowValid(report[r])
      /\ report[r].issue # None => Standing(issue, report[r].issue)
  BY DEF TrackingInv, TypeOK, LinksStand
<1>2. rows \in [{r} -> ReportRows] /\ Begin(m, rows, FALSE)
  BY <1>1 DEF SetReportState, ReportRows, ReportStates
<1>3. ASSUME NEW x \in {r}
      PROVE  /\ Settleable(rows[x])
             /\ rows[x].issue # None =>
                   report[x].issue \in {None, rows[x].issue} /\ Standing(issue, rows[x].issue)
             /\ rows[x].issue = report[x].issue
  <2>1. x = r /\ rows[x].issue = report[r].issue /\ rows[x].state = target /\ rows[x].fix = report[r].fix
    BY <1>1 DEF ReportRows
  <2>2. Settleable(rows[x])
    BY <1>1, <2>1 DEF SetReportState, Settleable, RowValid
  <2>3. QED
    BY <1>1, <2>1, <2>2
<1> HIDE DEF rows
<1>4. QED
  BY <1>2, <1>3, BegunStep

\* resolve_reports_with_fix
LEMMA ResolveStep ==
    ASSUME TrackingInv, NEW m \in Maintainers, txn[m].op # "writing",
           NEW rs \in SUBSET Reports, NEW f \in Fixes, SelectedFix(f), ResolveWithFix(m, rs, f)
    PROVE  GoodStep /\ FollowsOn
<1> DEFINE rows == [r \in rs |-> [report[r] EXCEPT !.state = "resolved", !.fix = f]]
<1>1. \A r \in rs : report[r] \in ReportRows /\ RowValid(report[r]) /\ report[r].issue = None
  BY DEF TrackingInv, TypeOK, ResolveWithFix
<1>2. rows \in [rs -> ReportRows] /\ Begin(m, rows, TRUE)
  BY <1>1 DEF ResolveWithFix, ReportRows, ReportStates
<1>3. ASSUME NEW r \in rs
      PROVE  Settleable(rows[r]) /\ rows[r].issue = None
  <2>1. rows[r].issue = None /\ rows[r].state = "resolved" /\ rows[r].fix = f
    BY <1>1 DEF ReportRows
  <2>2. f # None
    BY TrackingAssumption
  <2>3. QED
    BY <2>1, <2>2 DEF Settleable, SelectedFix
<1> HIDE DEF rows
<1>4. QED
  BY <1>2, <1>3, BegunStep

\* A row that is unlinked is in triage.
LEMMA UnlinkedRow ==
    ASSUME NEW r \in Reports, report[r] \in ReportRows, RowValid(report[r])
    PROVE  UnlinkRow(r) \in ReportRows /\ UnlinkRow(r).issue = None /\ Settleable(UnlinkRow(r))
BY DEF UnlinkRow, ReportRows, ReportStates, RowValid, Settleable

\* unlink_report_from_issue
LEMMA UnlinkStep ==
    ASSUME TrackingInv, NEW m \in Maintainers, txn[m].op # "writing",
           NEW r \in Reports, NEW i \in Issues, UnlinkFromIssue(m, r, i)
    PROVE  GoodStep /\ FollowsOn
<1> DEFINE rows == [x \in {r} |-> UnlinkRow(r)]
<1>1. report[r] \in ReportRows /\ RowValid(report[r])
  BY DEF TrackingInv, TypeOK
<1>2. rows \in [{r} -> ReportRows] /\ Begin(m, rows, TRUE)
  BY <1>1, UnlinkedRow DEF UnlinkFromIssue
<1>3. \A x \in {r} : Settleable(rows[x]) /\ rows[x].issue = None
  BY <1>1, UnlinkedRow
<1> HIDE DEF rows
<1>4. QED
  BY <1>2, <1>3, BegunStep

\* apply_report_state_action
LEMMA ActionStep ==
    ASSUME TrackingInv, NEW m \in Maintainers, txn[m].op # "writing",
           NEW rs \in SUBSET Reports, NEW action \in {"confirm", "triage", "reject"},
           ApplyStateAction(m, rs, action)
    PROVE  GoodStep /\ FollowsOn
<1> DEFINE changes == {r \in rs : ActionRow(r, action) # report[r]}
           rows == [r \in changes |-> ActionRow(r, action)]
<1>1. ASSUME NEW r \in rs
      PROVE  /\ ActionRow(r, action) \in ReportRows /\ Settleable(ActionRow(r, action))
             /\ ActionRow(r, action).issue # None =>
                   report[r].issue = ActionRow(r, action).issue
                      /\ Standing(issue, ActionRow(r, action).issue)
  <2>1. /\ report[r] \in ReportRows /\ RowValid(report[r]) /\ ~Refuses(r, action)
        /\ report[r].issue # None => Standing(issue, report[r].issue)
    BY DEF TrackingInv, TypeOK, LinksStand, ApplyStateAction
  <2>2. CASE action = "reject"
    <3>1. ActionRow(r, action) = [report[r] EXCEPT !.state = "rejected"]
      BY <2>2 DEF ActionRow
    <3>2. /\ ActionRow(r, action) \in ReportRows /\ ActionRow(r, action).issue = report[r].issue
          /\ ActionRow(r, action).state = "rejected" /\ ActionRow(r, action).fix = report[r].fix
      BY <2>1, <3>1 DEF ReportRows, ReportStates
    <3>3. QED
      BY <2>1, <3>2 DEF Settleable, RowValid
  <2>3. CASE action = "triage"
    <3>1. ActionRow(r, action) = UnlinkRow(r)
      BY <2>3 DEF ActionRow
    <3>2. QED
      BY <2>1, <3>1, UnlinkedRow
  <2>4. CASE action = "confirm" /\ report[r].state = "rejected"
    <3>1. ActionRow(r, action) = [report[r] EXCEPT !.state = "confirmed"]
      BY <2>4 DEF ActionRow
    <3>2. /\ ActionRow(r, action) \in ReportRows /\ ActionRow(r, action).issue = report[r].issue
          /\ ActionRow(r, action).state = "confirmed" /\ ActionRow(r, action).fix = report[r].fix
      BY <2>1, <3>1 DEF ReportRows, ReportStates
    <3>3. report[r].issue # None
      BY <2>1, <2>4 DEF Refuses
    <3>4. QED
      BY <2>1, <3>2, <3>3 DEF Settleable, RowValid
  <2>5. CASE action = "confirm" /\ report[r].state # "rejected"
    <3>1. ActionRow(r, action) = report[r]
      BY <2>5 DEF ActionRow
    <3>2. QED
      BY <2>1, <3>1, ValidSettleable
  <2>6. QED
    BY <2>2, <2>3, <2>4, <2>5
<1>2. rows \in [changes -> ReportRows] /\ changes \in SUBSET Reports
  BY <1>1
<1>3. Begin(m, rows, TRUE)
  BY DEF ApplyStateAction
<1>4. ASSUME NEW r \in changes
      PROVE  /\ Settleable(rows[r])
             /\ rows[r].issue # None =>
                   report[r].issue \in {None, rows[r].issue} /\ Standing(issue, rows[r].issue)
  BY <1>1
<1> HIDE DEF rows, changes
<1>5. QED
  BY <1>2, <1>3, <1>4, BegunStep

\* A transaction commits what it has written.
LEMMA CommitStep ==
    ASSUME TrackingInv, NEW m \in Maintainers, Commit(m)
    PROVE  /\ GoodStep
           /\ \A r \in Reports : InStep(report[r]) /\ ~Follows(report'[r], issue') =>
                 r \in DOMAIN txn[m].rows
<1> DEFINE rows == txn[m].rows
<1>1. TypeOK /\ RowsInv /\ GithubTold /\ txn[m].op = "writing"
  BY TrackingParts DEF Commit
<1>2. /\ report' = [r \in Reports |-> IF r \in DOMAIN rows THEN rows[r] ELSE report[r]]
      /\ txn' = [txn EXCEPT ![m] = Idle]
      /\ UNCHANGED <<issue, aliases, jobFor, leaseOf, lapsed, worker, status, original, sent, clock>>
  BY DEF Commit, jobVars, githubVars
<1>3. DOMAIN rows \subseteq Reports /\ \A r \in DOMAIN rows : rows[r] \in ReportRows
  BY <1>1, WritingRows
<1>4. \A r \in DOMAIN rows :
          /\ RowValid(rows[r])
          /\ rows[r].issue # None => report[r].issue \in {None, rows[r].issue}
                                      /\ Standing(issue, rows[r].issue)
  BY <1>1 DEF RowsInv, PendingStand
<1>5. report' \in [Reports -> ReportRows] /\ \A r \in Reports :
          report'[r] = IF r \in DOMAIN rows THEN rows[r] ELSE report[r]
  BY <1>1, <1>2, <1>3 DEF TypeOK
<1>6. txn' \in [Maintainers -> RequestStates] /\ txn'[m].op = "idle"
      /\ \A n \in Maintainers \ {m} : txn'[n] = txn[n]
  BY <1>1, <1>2 DEF TypeOK, RequestStates, Idle
<1>7. RowsInv'
  <2>1. LinksStand'
    BY <1>1, <1>2, <1>4, <1>5 DEF RowsInv, LinksStand, Standing
  <2>2. WritersExclude'
    BY <1>1, <1>6 DEF RowsInv, WritersExclude
  <2>3. PendingStand'
    <3>1. ASSUME NEW n \in Maintainers, txn'[n].op = "writing", NEW r \in DOMAIN txn'[n].rows
          PROVE  LET row == txn'[n].rows[r] IN
                 /\ RowValid(row)
                 /\ row.issue # None => report'[r].issue \in {None, row.issue} /\ Standing(issue', row.issue)
                 /\ ~txn'[n].lock => row.issue = report'[r].issue
      <4>1. n # m /\ txn'[n] = txn[n]
        BY <1>6, <3>1
      <4>2. r \in Reports /\ r \notin DOMAIN rows
        BY <1>1, <3>1, <4>1, WritingRows DEF RowsInv, WritersExclude
      <4>3. report'[r] = report[r] /\ issue' = issue
        BY <1>2, <1>5, <4>2
      <4>4. QED
        BY <1>1, <3>1, <4>1, <4>3 DEF RowsInv, PendingStand
    <3>2. QED
      BY <3>1 DEF PendingStand, RowValid
  <2>4. \A r \in Reports : RowValid(report'[r])
    BY <1>1, <1>4, <1>5 DEF RowsInv
  <2>5. QED
    BY <1>1, <1>2, <2>1, <2>2, <2>3, <2>4 DEF RowsInv, RowValid
<1>8. LinksMove
  BY <1>4, <1>5 DEF LinksMove
<1>9. BeginsInStep
  BY <1>6 DEF BeginsInStep
<1>10. IssuesMove
  <2>1. \A i \in Issues : issue[i].seen \in Int
    BY <1>1 DEF TypeOK, IssueRows
  <2>2. QED
    BY <1>2, <2>1 DEF IssuesMove
<1>11. TrackingInv'
  <2>1. TypeOK'
    BY <1>1, <1>2, <1>5, <1>6 DEF TypeOK
  <2>2. GithubTold'
    BY <1>1, <1>2, GithubFrame DEF githubVars
  <2>3. QED
    BY <1>7, <2>1, <2>2 DEF TrackingInv, RowsInv
<1>12. \A r \in Reports : InStep(report[r]) /\ ~Follows(report'[r], issue') => r \in DOMAIN rows
  BY <1>2, <1>5 DEF InStep, Follows
<1>13. QED
  BY <1>8, <1>9, <1>10, <1>11, <1>12 DEF GoodStep

\* A transaction fails.
LEMMA AbortStep ==
    ASSUME TrackingInv, NEW m \in Maintainers, Abort(m)
    PROVE  GoodStep /\ FollowsOn
<1>1. TypeOK /\ RowsInv /\ GithubTold
  BY TrackingParts
<1>2. /\ txn' = [txn EXCEPT ![m] = Idle]
      /\ UNCHANGED <<report, issue, aliases, jobFor, leaseOf, lapsed, worker, githubVars>>
  BY DEF Abort, jobVars
<1>3. txn' \in [Maintainers -> RequestStates]
      /\ \A n \in Maintainers : txn'[n].op = "writing" => txn'[n] = txn[n]
  BY <1>1, <1>2 DEF TypeOK, RequestStates, Idle
<1>4. RowsInv' /\ FollowsOn /\ BeginsInStep /\ LinksMove /\ IssuesMove
  BY <1>1, <1>2, <1>3, QuietStep
<1>5. TypeOK'
  BY <1>1, <1>2, <1>3 DEF TypeOK, githubVars
<1>6. GithubTold'
  BY <1>1, <1>2, GithubFrame
<1>7. QED
  BY <1>4, <1>5, <1>6 DEF GoodStep, TrackingInv, RowsInv

\* What a request does of a maintainer who adds reports to an issue.
LEMMA AddStep ==
    ASSUME TrackingInv, NEW m \in Maintainers, txn[m] = Idle,
           NEW rs \in SUBSET Reports, AddToSelectedIssue(m, rs)
    PROVE  GoodStep /\ FollowsOn
<1>1. txn[m].op # "writing"
  BY DEF Idle
<1>2. QED
  BY <1>1, AssignStep, FetchStep DEF AddToSelectedIssue

\* Any step of a request keeps the invariant, and only a commit takes a report out of step.
LEMMA MaintainStep ==
    ASSUME TrackingInv, NEW m \in Maintainers, Maintain(m)
    PROVE  /\ GoodStep
           /\ \A r \in Reports : InStep(report[r]) /\ ~Follows(report'[r], issue') =>
                 Commit(m) /\ r \in DOMAIN txn[m].rows
<1>1. ASSUME txn[m] = Idle, NEW rs \in SUBSET Reports, BulkAction(m, rs)
      PROVE  GoodStep /\ FollowsOn
  <2>1. txn[m].op # "writing"
    BY <1>1 DEF Idle
  <2>2. CASE AddToSelectedIssue(m, rs)
    BY <1>1, <2>2, AddStep
  <2>3. CASE \E f \in Fixes : SelectedFix(f) /\ ResolveWithFix(m, rs, f)
    BY <2>1, <2>3, ResolveStep
  <2>4. CASE \E action \in {"confirm", "triage", "reject"} : ApplyStateAction(m, rs, action)
    BY <2>1, <2>4, ActionStep
  <2>5. QED
    BY <1>1, <2>2, <2>3, <2>4 DEF BulkAction
<1>2. ASSUME txn[m] = Idle, NEW r \in Reports,
             \/ AssignFromPage(m, r) \/ ResolveFromPage(m, r) \/ SetState(m, r)
             \/ RejectReport(m, r) \/ UnlinkFromPage(m, r)
      PROVE  GoodStep /\ FollowsOn
  <2>1. txn[m].op # "writing"
    BY <1>2 DEF Idle
  <2>2. CASE AssignFromPage(m, r)
    BY <1>2, <2>2, AddStep DEF AssignFromPage
  <2>3. CASE ResolveFromPage(m, r)
    BY <2>1, <2>3, ResolveStep DEF ResolveFromPage
  <2>4. CASE SetState(m, r) \/ RejectReport(m, r)
    BY <2>1, <2>4, SetStateStep DEF SetState, RejectReport
  <2>5. CASE UnlinkFromPage(m, r)
    BY <2>1, <2>5, UnlinkStep DEF UnlinkFromPage
  <2>6. QED
    BY <1>2, <2>2, <2>3, <2>4, <2>5
<1>3. CASE AssignToTracker(m) \/ AssignToNewIssue(m) \/ Abort(m)
  BY <1>3, AssignToTrackerStep, AssignToNewStep, AbortStep DEF FollowsOn
<1>4. CASE Commit(m)
  BY <1>4, CommitStep
<1>5. QED
  BY <1>1, <1>2, <1>3, <1>4 DEF Maintain, FollowsOn

-----------------------------------------------------------------------------
(* Steps on issues *)

\* A step that leaves requests, jobs and GitHub alone.
LEMMA IssueFrame ==
    ASSUME TrackingInv, UNCHANGED <<jobVars, worker, txn, githubVars>>,
           report' \in [Reports -> ReportRows], issue' \in [Issues -> IssueRows],
           aliases' \subseteq Issues \X Github, RowsInv', LinksMove, IssuesMove
    PROVE  GoodStep
<1>1. TypeOK /\ GithubTold
  BY TrackingParts
<1>2. TypeOK'
  BY <1>1 DEF TypeOK, jobVars, githubVars
<1>3. GithubTold'
  BY <1>1, GithubFrame DEF jobVars
<1>4. BeginsInStep
  BY DEF BeginsInStep
<1>5. QED
  BY <1>2, <1>3, <1>4 DEF GoodStep, TrackingInv, RowsInv

\* reject_issue
LEMMA RejectStep ==
    ASSUME TrackingInv, NEW i \in Issues, NEW action \in {"unlink", "reject"}, RejectIssue(i, action)
    PROVE  GoodStep /\ FollowsOn
<1>1. TypeOK /\ RowsInv /\ Live(i)
  BY TrackingParts DEF RejectIssue
<1> DEFINE issues == [j \in Issues |->
               IF j = i \/ (j \in Sources(i) /\ Live(j))
               THEN [issue[j] EXCEPT !.state = "rejected"] ELSE issue[j]]
           left == Follow(report, issue, issues)
           turned(r) == [left[r] EXCEPT !.state = IF action = "reject" THEN "rejected" ELSE "triage",
                                        !.issue = IF action = "reject" THEN i ELSE None]
           rows == [r \in Reports |-> IF left[r].issue # i THEN left[r] ELSE Settle(turned(r), issues)]
<1>2. Write(rows, issues) /\ ~Busy /\ UNCHANGED <<aliases, jobVars, worker, txn, githubVars>>
  BY DEF RejectIssue
<1>3. /\ issues \in [Issues -> IssueRows]
      /\ \A j \in Issues : /\ issues[j].into = issue[j].into /\ issues[j].github = issue[j].github
                           /\ issues[j].seen = issue[j].seen /\ issues[j].seen \in Int
                           /\ issues[j].state = "none" <=> issue[j].state = "none"
                           /\ issues[j].state # "none" => issues[j].github # None
  <2>1. \A j \in Issues : issue[j] \in IssueRows
    BY <1>1 DEF TypeOK
  <2>2. ASSUME NEW j \in Issues
        PROVE  /\ issues[j] \in IssueRows
               /\ issues[j].into = issue[j].into /\ issues[j].github = issue[j].github
               /\ issues[j].seen = issue[j].seen /\ issues[j].seen \in Int
               /\ issues[j].state = "none" <=> issue[j].state = "none"
               /\ issues[j].state # "none" => issues[j].github # None
    BY <1>1, <2>1 DEF IssueRows, IssueStates, Live, RowsInv, IssueValid
  <2>3. QED
    BY <2>2
<1> HIDE DEF issues
<1>4. /\ left \in [Reports -> ReportRows]
      /\ \A r \in Reports : /\ left[r].issue = report[r].issue
                            /\ RowValid(left[r])
                            /\ Follows(report[r], issue) => Follows(left[r], issues)
  BY <1>1, FollowedRows DEF TypeOK, RowsInv
<1> HIDE DEF left
<1>5. ASSUME NEW r \in Reports, left[r].issue = i
      PROVE  /\ turned(r) \in ReportRows /\ Settleable(turned(r))
             /\ turned(r).issue \in {i, None}
  <2>1. left[r] \in ReportRows /\ RowValid(left[r])
    BY <1>4
  <2>2. /\ turned(r) \in ReportRows /\ turned(r).fix = left[r].fix
        /\ turned(r).state = (IF action = "reject" THEN "rejected" ELSE "triage")
        /\ turned(r).issue = (IF action = "reject" THEN i ELSE None)
    BY <2>1 DEF ReportRows, ReportStates
  <2>3. QED
    BY <2>1, <2>2 DEF Settleable, RowValid
<1> HIDE DEF turned
<1>6. /\ rows \in [Reports -> ReportRows]
      /\ \A r \in Reports : /\ RowValid(rows[r])
                            /\ rows[r].issue \in {report[r].issue, None}
                            /\ Follows(report[r], issue) => Follows(rows[r], issues)
  <2>1. ASSUME NEW r \in Reports
        PROVE  /\ rows[r] \in ReportRows /\ RowValid(rows[r])
               /\ rows[r].issue \in {report[r].issue, None}
               /\ Follows(report[r], issue) => Follows(rows[r], issues)
    <3>1. CASE left[r].issue # i
      BY <1>4, <3>1
    <3>2. CASE left[r].issue = i
      BY <1>4, <1>5, <3>2, SettledRow
    <3>3. QED
      BY <3>1, <3>2
  <2>2. QED
    BY <2>1
<1> HIDE DEF rows
<1>7. report' = rows /\ issue' = issues
  BY <1>2 DEF Write
<1>8. RowsInv'
  <2>1. \A r \in Reports : rows[r].issue # None => Standing(issues, rows[r].issue)
    <3>1. \A r \in Reports : rows[r].issue \in Issues \cup {None}
      BY <1>6 DEF ReportRows
    <3>2. QED
      BY <1>1, <1>3, <1>6, <3>1 DEF RowsInv, LinksStand, Standing
  <2>2. \A j \in Issues : IssueValid(issues[j])
    BY <1>1, <1>3 DEF RowsInv, IssueValid
  <2>3. QED
    BY <1>1, <1>2, <1>3, <1>6, <2>1, <2>2, WriteStep
<1>9. FollowsOn
  BY <1>6, <1>7 DEF FollowsOn, InStep, Follows
<1>10. LinksMove
  BY <1>6, <1>7 DEF LinksMove
<1>11. IssuesMove
  BY <1>3, <1>7 DEF IssuesMove
<1>12. aliases' \subseteq Issues \X Github
  BY <1>1, <1>2 DEF TypeOK
<1>13. QED
  BY <1>2, <1>3, <1>6, <1>7, <1>8, <1>9, <1>10, <1>11, <1>12, IssueFrame

\* replace_github_issue
LEMMA ReplaceStep ==
    ASSUME TrackingInv, NEW i \in Issues, NEW e \in sent, ReplaceGithubIssue(i, e)
    PROVE  GoodStep /\ FollowsOn
<1>1. TypeOK /\ RowsInv /\ Live(i) /\ issue[i].link \in Gone /\ issue[i].github # e.github
  BY TrackingParts DEF ReplaceGithubIssue
<1> DEFINE issues == [issue EXCEPT ![i] = Tracked(@, e)]
<1>2. /\ Write(Follow(report, issue, issues), issues)
      /\ UNCHANGED <<jobVars, worker, txn, githubVars>>
      /\ aliases' = aliases \cup {<<i, issue[i].github>>}
  BY DEF ReplaceGithubIssue
<1>3. e \in Events /\ \A j \in Issues : issue[j] \in IssueRows /\ issue[j].seen \in Int
  BY <1>1 DEF TypeOK, IssueRows
<1>4. /\ issues \in [Issues -> IssueRows] /\ issues[i] = Tracked(issue[i], e)
      /\ \A j \in Issues \ {i} : issues[j] = issue[j]
  BY <1>1, <1>3, TrackedRow DEF TypeOK
<1>5. \A j \in Issues : /\ issues[j].into = issue[j].into
                        /\ issues[j].state = "none" <=> issue[j].state = "none"
                        /\ issues[j].state # "none" => issues[j].github # None
                        /\ issues[j].github = issue[j].github => issues[j].seen >= issue[j].seen
  BY <1>1, <1>3, <1>4, TrackedRow DEF Live, RowsInv, IssueValid
<1> HIDE DEF issues
<1>6. /\ report' \in [Reports -> ReportRows] /\ issue' \in [Issues -> IssueRows]
      /\ RowsInv' /\ FollowsOn /\ BeginsInStep /\ LinksMove /\ IssuesMove
  BY <1>1, <1>2, <1>4, <1>5, FollowStep
<1>7. issue[i].github \in Github
  BY <1>1, <1>3 DEF RowsInv, IssueValid, Live, IssueRows
<1>8. aliases' \subseteq Issues \X Github
  BY <1>1, <1>2, <1>7 DEF TypeOK
<1>9. QED
  BY <1>2, <1>6, <1>8, IssueFrame

-----------------------------------------------------------------------------
(* Steps of GitHub *)

\* The invariant but for types and GitHub does not depend on what these steps change.
LEMMA GithubStep ==
    ASSUME TrackingInv, UNCHANGED <<report, issue, txn>>, TypeOK', GithubTold'
    PROVE  GoodStep /\ FollowsOn
<1>1. TypeOK /\ RowsInv
  BY TrackingParts
<1>2. RowsInv' /\ FollowsOn /\ BeginsInStep /\ LinksMove /\ IssuesMove
  BY <1>1, QuietStep
<1>3. QED
  BY <1>2 DEF GoodStep, TrackingInv, RowsInv

\* GitHub says nothing twice at one time, and what it says last is how things are.
LEMMA ChangeStep ==
    ASSUME TrackingInv, NEW g \in Github, NEW s \in Statuses \ {"absent"}, Change(g, s),
           original' \in [Github -> Github \cup {None}],
           \A h \in Github : original'[h] # original[h] => h = g /\ original'[h] # None,
           s = "duplicate" => original'[g] # None
    PROVE  GoodStep /\ FollowsOn
<1>1. TypeOK /\ GithubTold
  BY TrackingParts
<1> DEFINE e == [github |-> g, at |-> clock + 1, status |-> s]
<1>2. /\ clock < MaxUpdates /\ clock' = clock + 1 /\ sent' = sent \cup {e}
      /\ status' = [status EXCEPT ![g] = s]
      /\ UNCHANGED <<report, issue, aliases, jobFor, leaseOf, lapsed, worker, txn>>
  BY DEF Change, jobVars
<1>3. clock \in Nat /\ clock + 1 \in 0 .. MaxUpdates /\ MaxUpdates \in Nat
  BY <1>1, <1>2, TrackingAssumption DEF TypeOK
<1>4. e \in Events /\ e.github = g /\ e.at = clock + 1 /\ e.status = s
  BY <1>3 DEF Events
<1> HIDE DEF e
<1>5. status' \in [Github -> Statuses] /\ status'[g] = s
      /\ \A h \in Github \ {g} : status'[h] = status[h]
  BY <1>1, <1>2 DEF TypeOK
<1>6. TypeOK'
  BY <1>1, <1>2, <1>3, <1>4, <1>5 DEF TypeOK
<1>7. GithubTold'
  <2>1. \A f \in sent : f.at <= clock /\ f.at \in Nat
    BY <1>1 DEF GithubTold, TypeOK, Events
  <2>2. \A f \in sent' : f.at <= clock'
    BY <1>2, <1>3, <1>4, <2>1
  <2>3. ASSUME NEW h \in Github, status'[h] # "absent"
        PROVE  \E d \in sent' : /\ d.github = h /\ d.status = status'[h]
                                /\ \A f \in sent' : f.github = h => f.at <= d.at
    <3>1. CASE h = g
      <4>1. e \in sent' /\ e.github = h /\ e.status = status'[h]
        BY <1>2, <1>4, <1>5, <3>1
      <4>2. \A f \in sent' : f.at <= e.at
        BY <1>2, <1>4, <2>2
      <4>3. QED
        BY <4>1, <4>2
    <3>2. CASE h # g
      <4>1. PICK d \in sent : /\ d.github = h /\ d.status = status[h]
                              /\ \A f \in sent : f.github = h => f.at <= d.at
        BY <1>1, <1>5, <2>3, <3>2 DEF GithubTold
      <4>2. \A f \in sent' : f.github = h => f.at <= d.at
        BY <1>2, <1>4, <3>2, <4>1
      <4>3. d \in sent' /\ status'[h] = status[h]
        BY <1>2, <1>5, <3>2
      <4>4. QED
        BY <4>1, <4>2, <4>3
    <3>3. QED
      BY <3>1, <3>2
  <2>4. \A h \in Github : status'[h] = "duplicate" => original'[h] # None
    BY <1>1, <1>5 DEF GithubTold
  <2>5. \A h : SaidDuplicate(h) => SaidDuplicate(h)'
    BY <1>2 DEF SaidDuplicate
  <2>6. (\A i \in Issues : jobFor[i] # None => SaidDuplicate(jobFor[i]))'
    BY <1>1, <1>2 DEF GithubTold, SaidDuplicate
  <2>7. (\A w \in Workers : worker[w] # Idle => SaidDuplicate(worker[w].github))'
    BY <1>1, <1>2 DEF GithubTold, SaidDuplicate
  <2>8. QED
    BY <2>2, <2>3, <2>4, <2>6, <2>7 DEF GithubTold
<1>8. QED
  BY <1>2, <1>6, <1>7, GithubStep

\* Issues on GitHub are closed, reopened, deleted, moved and created.
LEMMA GithubChanges ==
    ASSUME TrackingInv, NEW g \in Github,
           CloseOrReopen(g) \/ DeleteOrTransfer(g) \/ CreateIssue(g)
    PROVE  GoodStep /\ FollowsOn
<1>1. PICK s \in {"open", "closed", "deleted", "transferred"} : Change(g, s)
  BY DEF CloseOrReopen, DeleteOrTransfer, CreateIssue
<1>2. s \in Statuses \ {"absent"} /\ s # "duplicate"
  BY DEF Statuses
<1>3. original' = original
  BY DEF CloseOrReopen, DeleteOrTransfer, CreateIssue
<1>4. original' \in [Github -> Github \cup {None}]
  BY <1>3 DEF TrackingInv, TypeOK
<1>5. QED
  BY <1>1, <1>2, <1>3, <1>4, ChangeStep

\* An issue on GitHub is closed as a duplicate.
LEMMA DuplicateClosed ==
    ASSUME TrackingInv, NEW g \in Github, NEW h \in Github, CloseAsDuplicate(g, h)
    PROVE  GoodStep /\ FollowsOn
<1>1. Change(g, "duplicate") /\ original' = [original EXCEPT ![g] = h] /\ h # None
  BY TrackingAssumption DEF CloseAsDuplicate
<1>2. "duplicate" \in Statuses \ {"absent"}
  BY DEF Statuses
<1>3. /\ original' \in [Github -> Github \cup {None}] /\ original'[g] = h
      /\ \A k \in Github \ {g} : original'[k] = original[k]
  BY <1>1 DEF TrackingInv, TypeOK
<1>4. QED
  BY <1>1, <1>2, <1>3, ChangeStep

-----------------------------------------------------------------------------
(* Webhooks *)

\* receive, for an issue that was opened, edited, closed or reopened.
LEMMA ReceiveStateStep ==
    ASSUME TrackingInv, NEW e \in sent, ReceiveState(e)
    PROVE  GoodStep /\ FollowsOn
<1>1. TypeOK /\ RowsInv /\ GithubTold /\ e \in Events
  BY TrackingParts DEF TypeOK
<1>2. PICK i \in Trackers(e.github) :
          /\ Applies(i, e, "webhook") /\ QueueDuplicate(i, e)
          /\ Write(Follow(report, issue, Synchronised(i, e)), Synchronised(i, e))
  BY DEF ReceiveState
<1>3. i \in Issues /\ e.github \in Github
  BY <1>1 DEF Trackers, Events
<1>4. UNCHANGED <<aliases, worker, txn, status, original, sent, clock>>
  BY DEF ReceiveState, githubVars
<1>5. \A m \in Maintainers : txn'[m].op = "writing" => txn'[m] = txn[m]
  BY <1>4
<1>6. /\ report' \in [Reports -> ReportRows] /\ issue' \in [Issues -> IssueRows]
      /\ RowsInv' /\ FollowsOn /\ BeginsInStep /\ LinksMove /\ IssuesMove
  BY <1>1, <1>2, <1>5, SynchronisedStep
<1>7. /\ jobFor' = [jobFor EXCEPT ![i] = IF e.status = "duplicate" THEN e.github ELSE None]
      /\ leaseOf' = [leaseOf EXCEPT ![i] = None] /\ lapsed' = lapsed \ {i}
  BY <1>2 DEF QueueDuplicate
<1>8. TypeOK'
  BY <1>1, <1>3, <1>4, <1>6, <1>7 DEF TypeOK
<1>9. GithubTold'
  <2>1. e.status = "duplicate" => SaidDuplicate(e.github)
    BY DEF SaidDuplicate
  <2>2. \A j \in Issues : jobFor'[j] # None => SaidDuplicate(jobFor'[j])
    BY <1>1, <1>3, <1>7, <2>1 DEF TypeOK, GithubTold
  <2>3. QED
    BY <1>1, <1>4, <2>2 DEF GithubTold, SaidDuplicate
<1>10. QED
  BY <1>6, <1>8, <1>9 DEF GoodStep, TrackingInv, RowsInv

\* receive, for one that was deleted or transferred.
LEMMA ReceiveGoneStep ==
    ASSUME TrackingInv, NEW e \in sent, ReceiveGone(e)
    PROVE  GoodStep /\ FollowsOn
<1>1. TypeOK /\ RowsInv
  BY TrackingParts
<1> DEFINE link == LinkState(e.status)
<1>2. PICK i \in Trackers(e.github) :
          LET marked == [issue EXCEPT ![i].link = link, ![i].state = TrackingState(link)]
          IN  Write(Follow(report, issue, marked), marked)
  BY DEF ReceiveGone
<1> DEFINE marked == [issue EXCEPT ![i].link = link, ![i].state = TrackingState(link)]
<1>3. i \in Issues /\ issue[i].state # "none"
  BY DEF Trackers, Live
<1>4. link \in LinkStates /\ TrackingState(link) \in IssueStates
  <2>1. e.status \in Statuses \ {"absent"}
    BY <1>1 DEF TypeOK, Events
  <2>2. QED
    BY <2>1, StateOfStatus, TrackingStates
<1> HIDE DEF link
<1>5. \A j \in Issues : issue[j] \in IssueRows /\ issue[j].seen \in Int /\ IssueValid(issue[j])
  BY <1>1 DEF TypeOK, RowsInv, IssueRows
<1>6. /\ marked \in [Issues -> IssueRows]
      /\ \A j \in Issues : /\ marked[j].into = issue[j].into /\ marked[j].github = issue[j].github
                           /\ marked[j].seen = issue[j].seen
                           /\ marked[j].state = "none" <=> issue[j].state = "none"
  <2>1. /\ marked[i] = [issue[i] EXCEPT !.link = link, !.state = TrackingState(link)]
        /\ \A j \in Issues \ {i} : marked[j] = issue[j]
        /\ DOMAIN marked = Issues /\ marked = [j \in Issues |-> marked[j]]
    BY <1>1, <1>3 DEF TypeOK
  <2>2. /\ marked[i] \in IssueRows /\ marked[i].into = issue[i].into
        /\ marked[i].github = issue[i].github /\ marked[i].seen = issue[i].seen
        /\ marked[i].state # "none"
    BY <1>3, <1>4, <1>5, <2>1 DEF IssueRows, IssueStates
  <2> HIDE DEF marked
  <2>3. QED
    BY <1>3, <1>5, <2>1, <2>2
<1>7. Write(Follow(report, issue, marked), marked)
  BY <1>2
<1> HIDE DEF marked
<1>8. UNCHANGED <<aliases, jobVars, worker, txn, githubVars>>
  BY DEF ReceiveGone
<1>9. /\ report' \in [Reports -> ReportRows] /\ issue' \in [Issues -> IssueRows]
      /\ RowsInv' /\ FollowsOn /\ BeginsInStep /\ LinksMove /\ IssuesMove
  BY <1>1, <1>5, <1>6, <1>7, <1>8, FollowStep DEF IssueValid
<1>10. aliases' \subseteq Issues \X Github
  BY <1>1, <1>8 DEF TypeOK
<1>11. QED
  BY <1>8, <1>9, <1>10, IssueFrame

-----------------------------------------------------------------------------
(* Duplicate jobs *)

\* What a worker is about.
LEMMA WorkerHas ==
    ASSUME TypeOK, GithubTold, NEW w \in Workers, worker[w] # Idle
    PROVE  /\ worker[w].source \in Issues /\ worker[w].github \in Github
           /\ SaidDuplicate(worker[w].github)
           /\ worker[w].op = "found" => worker[w].original \in Events \cup {None}
BY DEF TypeOK, WorkerStates, GithubTold

\* Steps of a worker before it writes.
LEMMA JobStep ==
    ASSUME TrackingInv, UNCHANGED <<report, issue, aliases, txn, githubVars>>,
           jobFor' \in [Issues -> Github \cup {None}],
           leaseOf' \in [Issues -> Workers \cup {None}], lapsed' \subseteq Issues,
           worker' \in [Workers -> WorkerStates],
           \A i \in Issues : jobFor'[i] # None => SaidDuplicate(jobFor'[i]),
           \A w \in Workers : worker'[w] # Idle => SaidDuplicate(worker'[w].github)
    PROVE  GoodStep /\ FollowsOn
<1>1. TypeOK /\ GithubTold
  BY TrackingParts
<1>2. TypeOK'
  BY <1>1 DEF TypeOK, githubVars
<1>3. GithubTold'
  BY <1>1 DEF GithubTold, SaidDuplicate, githubVars
<1>4. QED
  BY <1>2, <1>3, GithubStep

\* A worker puts its job away.
LEMMA PutAway ==
    ASSUME TrackingInv, NEW w \in Workers, worker[w] # Idle,
           worker' = [worker EXCEPT ![w] = Idle],
           UNCHANGED <<report, issue, aliases, txn, githubVars>>,
           \/ UNCHANGED jobVars
           \/ /\ \/ UNCHANGED jobFor
                 \/ jobFor' = [jobFor EXCEPT ![worker[w].source] = None]
              /\ leaseOf' = [leaseOf EXCEPT ![worker[w].source] = None]
              /\ lapsed' = lapsed \ {worker[w].source}
    PROVE  GoodStep /\ FollowsOn
<1>1. TypeOK /\ GithubTold /\ worker[w].source \in Issues
  BY TrackingParts, WorkerHas
<1>2. /\ jobFor' \in [Issues -> Github \cup {None}]
      /\ \A i \in Issues : jobFor'[i] \in {jobFor[i], None}
      /\ leaseOf' \in [Issues -> Workers \cup {None}] /\ lapsed' \subseteq Issues
  BY <1>1 DEF TypeOK, jobVars
<1>3. /\ worker' \in [Workers -> WorkerStates]
      /\ \A v \in Workers : worker'[v] \in {worker[v], Idle}
  BY <1>1 DEF TypeOK, WorkerStates
<1>4. QED
  BY <1>1, <1>2, <1>3, JobStep DEF GithubTold

\* claim_github_duplicate
LEMMA ClaimStep ==
    ASSUME TrackingInv, NEW w \in Workers, NEW i \in Issues, ClaimDuplicate(w, i)
    PROVE  GoodStep /\ FollowsOn
<1>1. TypeOK /\ GithubTold
  BY TrackingParts
<1> DEFINE claimed == [op |-> "claimed", source |-> i, github |-> jobFor[i]]
<1>2. /\ worker' = [worker EXCEPT ![w] = claimed] /\ jobFor[i] # None
      /\ leaseOf' = [leaseOf EXCEPT ![i] = w] /\ lapsed' = lapsed \ {i}
      /\ UNCHANGED <<report, issue, aliases, jobFor, txn, githubVars>>
  BY DEF ClaimDuplicate
<1>3. jobFor[i] \in Github /\ SaidDuplicate(jobFor[i])
  BY <1>1, <1>2 DEF TypeOK, GithubTold
<1>4. claimed \in WorkerStates /\ claimed.github = jobFor[i]
  BY <1>3 DEF WorkerStates
<1> HIDE DEF claimed
<1>5. /\ worker' \in [Workers -> WorkerStates] /\ worker'[w] = claimed
      /\ \A v \in Workers \ {w} : worker'[v] = worker[v]
  BY <1>1, <1>2, <1>4 DEF TypeOK
<1>6. leaseOf' \in [Issues -> Workers \cup {None}] /\ lapsed' \subseteq Issues
  BY <1>1, <1>2 DEF TypeOK
<1>7. \A v \in Workers : worker'[v] # Idle => SaidDuplicate(worker'[v].github)
  BY <1>1, <1>3, <1>4, <1>5 DEF GithubTold
<1>8. QED
  BY <1>1, <1>2, <1>5, <1>6, <1>7, JobStep DEF TypeOK, GithubTold

\* duplicate_of: what GitHub says of the original is the last that it has said of it.
LEMMA LookUpStep ==
    ASSUME TrackingInv, NEW w \in Workers, LookUp(w)
    PROVE  GoodStep /\ FollowsOn
<1>1. TypeOK /\ GithubTold /\ worker[w].op = "claimed"
  BY TrackingParts DEF LookUp
<1> DEFINE g == worker[w].github
           found == [op |-> "found", source |-> worker[w].source, github |-> g,
                     original |-> IF status[g] = "duplicate" THEN Latest(original[g]) ELSE None]
<1>2. /\ worker' = [worker EXCEPT ![w] = found]
      /\ status[g] = "duplicate" => status[original[g]] \in {"open", "closed", "duplicate"}
      /\ UNCHANGED <<report, issue, aliases, jobVars, txn, githubVars>>
  BY DEF LookUp
<1>3. worker[w].source \in Issues /\ g \in Github /\ SaidDuplicate(g)
  BY <1>1, WorkerHas DEF Idle
<1>4. ASSUME status[g] = "duplicate"
      PROVE  Latest(original[g]) \in Events
  <2>1. original[g] \in Github /\ status[original[g]] # "absent"
    BY <1>1, <1>2, <1>3, <1>4 DEF TypeOK, GithubTold
  <2>2. \E e \in sent : e.github = original[g]
                        /\ \A f \in sent : f.github = original[g] => f.at <= e.at
    BY <1>1, <2>1 DEF GithubTold
  <2>3. Latest(original[g]) \in sent
    BY <2>2 DEF Latest
  <2>4. QED
    BY <1>1, <2>3 DEF TypeOK
<1>5. found \in WorkerStates /\ found.github = g
  BY <1>3, <1>4 DEF WorkerStates
<1> HIDE DEF found
<1>6. /\ worker' \in [Workers -> WorkerStates] /\ worker'[w] = found
      /\ \A v \in Workers \ {w} : worker'[v] = worker[v]
  BY <1>1, <1>2, <1>5 DEF TypeOK
<1>7. \A v \in Workers : worker'[v] # Idle => SaidDuplicate(worker'[v].github)
  BY <1>1, <1>3, <1>5, <1>6 DEF GithubTold
<1>8. QED
  BY <1>1, <1>2, <1>6, <1>7, JobStep DEF TypeOK, GithubTold, jobVars

\* ensure_destination ends at an issue that is merged into nothing, and makes it exist.
LEMMA EnsuredRow ==
    ASSUME TypeOK, RowsInv, NEW e \in Events, NEW j \in Destinations(e)
    PROVE  /\ j \in Issues /\ issue[j].into = None
           /\ Ensured(j, e) \in [Issues -> IssueRows]
           /\ Ensured(j, e)[j].state # "none" /\ Ensured(j, e)[j].github # None
           /\ Ensured(j, e)[j].into = None
           /\ issue[j].state # "none" => Ensured(j, e)[j].seen >= issue[j].seen
           /\ \A k \in Issues \ {j} : Ensured(j, e)[k] = issue[k]
<1>1. j \in Issues /\ issue[j].into = None
  BY DEF Destinations, Ends, Chain, RowsInv, IssueValid
<1>2. issue[j] \in IssueRows /\ issue[j].seen \in Int /\ IssueValid(issue[j])
  BY <1>1 DEF TypeOK, IssueRows, RowsInv
<1>3. CASE issue[j].state = "none" \/ issue[j].seen <= e.at
  <2>1. Ensured(j, e) = [issue EXCEPT ![j] = Tracked(issue[j], e)]
    BY <1>3 DEF Ensured
  <2>2. /\ Tracked(issue[j], e) \in IssueRows /\ Tracked(issue[j], e).state # "none"
        /\ Tracked(issue[j], e).into = issue[j].into /\ Tracked(issue[j], e).github # None
        /\ Tracked(issue[j], e).seen = e.at
    BY <1>2, TrackedRow
  <2>3. issue[j].state # "none" => issue[j].seen <= e.at
    BY <1>3
  <2>4. QED
    BY <1>1, <1>2, <2>1, <2>2, <2>3 DEF TypeOK
<1>4. CASE ~(issue[j].state = "none" \/ issue[j].seen <= e.at)
  <2>1. Ensured(j, e) = issue
    BY <1>4 DEF Ensured
  <2>2. QED
    BY <1>1, <1>2, <1>4, <2>1 DEF TypeOK, IssueValid
<1>5. QED
  BY <1>3, <1>4

\* finish_github_duplicate when there is a target: nothing is left behind.
LEMMA MergeStep ==
    ASSUME TrackingInv, NEW w \in Workers, Merge(w)
    PROVE  GoodStep /\ FollowsOn
<1>1. TypeOK /\ RowsInv /\ GithubTold
  BY TrackingParts
<1> DEFINE i == worker[w].source
           e == worker[w].original
<1>2. /\ worker[w].op = "found" /\ e # None /\ ~Busy /\ SourceIsCurrent(w) /\ EndJob(w)
      /\ UNCHANGED <<aliases, txn, status, original, sent, clock>>
  BY DEF Merge, githubVars
<1>3. i \in Issues /\ e \in Events /\ SaidDuplicate(worker[w].github)
  BY <1>1, <1>2, WorkerHas DEF Idle
<1>4. issue[i].github = worker[w].github /\ issue[i].link = "closed" /\ issue[i].into = None
  BY <1>2 DEF SourceIsCurrent
<1>5. PICK j \in Destinations(e) \ {i} :
          LET ensured == Ensured(j, e)
              merged == [ensured EXCEPT ![i].into = j, ![i].state = "resolved", ![i].resolved = TRUE]
              kept == Follow(report, issue, ensured)
          IN  Write([r \in Reports |->
                         IF kept[r].issue # i THEN kept[r]
                         ELSE Settle([kept[r] EXCEPT !.issue = j, !.state = "confirmed"], ensured)],
                    merged)
  BY DEF Merge
<1> DEFINE ensured == Ensured(j, e)
           merged == [ensured EXCEPT ![i].into = j, ![i].state = "resolved", ![i].resolved = TRUE]
           kept == Follow(report, issue, ensured)
           moved(r) == [kept[r] EXCEPT !.issue = j, !.state = "confirmed"]
           rows == [r \in Reports |-> IF kept[r].issue # i THEN kept[r] ELSE Settle(moved(r), ensured)]
<1>6. Write(rows, merged)
  BY <1>5
<1>7. /\ j \in Issues /\ j # i /\ j # None /\ i # None /\ ensured \in [Issues -> IssueRows]
      /\ ensured[j].state # "none" /\ ensured[j].github # None /\ ensured[j].into = None
      /\ issue[j].into = None
      /\ issue[j].state # "none" => ensured[j].seen >= issue[j].seen
      /\ \A k \in Issues \ {j} : ensured[k] = issue[k]
  BY <1>1, <1>3, EnsuredRow, TrackingAssumption
<1> HIDE DEF ensured
<1>8. /\ merged \in [Issues -> IssueRows]
      /\ merged[i].into = j /\ merged[i].state = "resolved"
      /\ merged[i].github = issue[i].github /\ merged[i].seen = issue[i].seen
      /\ \A k \in Issues \ {i} : merged[k] = ensured[k]
  <2>1. /\ merged[i] = [issue[i] EXCEPT !.into = j, !.state = "resolved", !.resolved = TRUE]
        /\ \A k \in Issues \ {i} : merged[k] = ensured[k]
        /\ merged = [k \in Issues |-> merged[k]]
    BY <1>3, <1>7
  <2>2. issue[i] \in IssueRows
    BY <1>1, <1>3 DEF TypeOK
  <2> HIDE DEF merged
  <2>3. /\ merged[i] \in IssueRows /\ merged[i].into = j /\ merged[i].state = "resolved"
        /\ merged[i].github = issue[i].github /\ merged[i].seen = issue[i].seen
    BY <1>7, <2>1, <2>2 DEF IssueRows, IssueStates
  <2>4. QED
    BY <1>7, <2>1, <2>3
<1> HIDE DEF merged
<1>9. /\ kept \in [Reports -> ReportRows]
      /\ \A r \in Reports : /\ kept[r].issue = report[r].issue /\ RowValid(kept[r])
                            /\ Follows(report[r], issue) => Follows(kept[r], ensured)
  BY <1>1, FollowedRows DEF TypeOK, RowsInv
<1> HIDE DEF kept
<1>10. ASSUME NEW r \in Reports
       PROVE  /\ rows[r] \in ReportRows /\ RowValid(rows[r])
              /\ rows[r].issue = IF report[r].issue = i THEN j ELSE report[r].issue
              /\ Follows(report[r], issue) => Follows(rows[r], ensured)
  <2>1. kept[r] \in ReportRows /\ RowValid(kept[r])
    BY <1>9
  <2>2. CASE kept[r].issue # i
    BY <1>9, <2>1, <2>2
  <2>3. CASE kept[r].issue = i
    <3>1. /\ moved(r) \in ReportRows /\ moved(r).issue = j /\ moved(r).state = "confirmed"
          /\ moved(r).fix = kept[r].fix
      BY <1>7, <2>1 DEF ReportRows, ReportStates
    <3>2. Settleable(moved(r))
      BY <1>7, <2>1, <3>1 DEF Settleable, RowValid
    <3> HIDE DEF moved
    <3>3. QED
      BY <1>9, <2>3, <3>1, <3>2, SettledRow
  <2>4. QED
    BY <2>2, <2>3
<1>11. rows \in [Reports -> ReportRows]
  BY <1>10
<1> HIDE DEF rows
<1>12. \A r \in Reports : rows[r].issue # i /\ rows[r].issue \in Issues \cup {None}
  BY <1>7, <1>10, <1>11 DEF ReportRows
<1>13. report' = rows /\ issue' = merged
  BY <1>6 DEF Write
<1>14. RowsInv'
  <2>1. \A r \in Reports : rows[r].issue # None => Standing(merged, rows[r].issue)
    BY <1>1, <1>7, <1>8, <1>10, <1>12 DEF RowsInv, LinksStand, Standing
  <2>2. \A k \in Issues : IssueValid(merged[k])
    BY <1>1, <1>3, <1>4, <1>7, <1>8, WorkerHas, <1>2, TrackingAssumption DEF RowsInv, IssueValid, Idle
  <2>3. QED
    BY <1>1, <1>2, <1>6, <1>8, <1>10, <1>11, <2>1, <2>2, WriteStep
<1>15. FollowsOn
  BY <1>8, <1>10, <1>12, <1>13 DEF FollowsOn, InStep, Follows
<1>16. LinksMove
  BY <1>4, <1>8, <1>10, <1>13 DEF LinksMove
<1>17. IssuesMove
  <2>1. \A k \in Issues : issue[k].seen \in Int
    BY <1>1 DEF TypeOK, IssueRows
  <2>2. QED
    BY <1>3, <1>4, <1>7, <1>8, <1>13, <2>1 DEF IssuesMove
<1>18. BeginsInStep
  BY <1>2 DEF BeginsInStep
<1>19. TypeOK' /\ GithubTold'
  <2>1. /\ jobFor' = [jobFor EXCEPT ![i] = None] /\ leaseOf' = [leaseOf EXCEPT ![i] = None]
        /\ lapsed' = lapsed \ {i} /\ worker' = [worker EXCEPT ![w] = Idle]
    BY <1>2 DEF EndJob
  <2>2. /\ jobFor' \in [Issues -> Github \cup {None}]
        /\ \A k \in Issues : jobFor'[k] \in {jobFor[k], None}
        /\ leaseOf' \in [Issues -> Workers \cup {None}] /\ lapsed' \subseteq Issues
    BY <1>1, <1>3, <2>1 DEF TypeOK
  <2>3. /\ worker' \in [Workers -> WorkerStates]
        /\ \A v \in Workers : worker'[v] \in {worker[v], Idle}
    BY <1>1, <2>1 DEF TypeOK, WorkerStates
  <2>4. TypeOK'
    BY <1>1, <1>2, <1>8, <1>11, <1>13, <2>2, <2>3 DEF TypeOK
  <2>5. GithubTold'
    BY <1>1, <1>2, <2>2, <2>3 DEF GithubTold, SaidDuplicate
  <2>6. QED
    BY <2>4, <2>5
<1>20. QED
  BY <1>14, <1>15, <1>16, <1>17, <1>18, <1>19 DEF GoodStep, TrackingInv, RowsInv

\* Any step of a duplicate worker.
LEMMA DuplicatesStep ==
    ASSUME TrackingInv, NEW w \in Workers, RunDuplicates(w)
    PROVE  GoodStep /\ FollowsOn
<1>1. ASSUME DropJob(w) \/ RetryDuplicate(w) \/ WorkerDies(w)
      PROVE  GoodStep /\ FollowsOn
  <2>1. /\ worker[w] # Idle /\ worker' = [worker EXCEPT ![w] = Idle]
        /\ UNCHANGED <<report, issue, aliases, txn, githubVars>>
    BY <1>1 DEF DropJob, RetryDuplicate, WorkerDies, EndJob, Idle
  <2>2. \/ UNCHANGED jobVars
        \/ /\ \/ UNCHANGED jobFor
              \/ jobFor' = [jobFor EXCEPT ![worker[w].source] = None]
           /\ leaseOf' = [leaseOf EXCEPT ![worker[w].source] = None]
           /\ lapsed' = lapsed \ {worker[w].source}
    BY <1>1 DEF DropJob, RetryDuplicate, WorkerDies, EndJob, jobVars
  <2>3. QED
    BY <2>1, <2>2, PutAway
<1>2. QED
  BY <1>1, ClaimStep, LookUpStep, MergeStep DEF RunDuplicates

\* Time passes for a lease, or nothing happens at all.
LEMMA IdleStep ==
    ASSUME TrackingInv, (\E i \in Issues : LapseLease(i)) \/ UNCHANGED vars
    PROVE  GoodStep /\ FollowsOn
<1>1. TypeOK /\ GithubTold
  BY TrackingParts
<1>2. /\ UNCHANGED <<report, issue, aliases, jobFor, leaseOf, worker, txn, githubVars>>
      /\ lapsed' \subseteq Issues
  BY <1>1 DEF LapseLease, vars, jobVars, TypeOK
<1>3. QED
  BY <1>1, <1>2, JobStep DEF TypeOK, GithubTold

-----------------------------------------------------------------------------
(* Every step *)

\* At the start no report is linked, nothing is under way, and GitHub has opened what exists.
LEMMA InitStep == Init => TrackingInv
<1> SUFFICES ASSUME Init
             PROVE  TrackingInv
  OBVIOUS
<1>1. TypeOK
  <2>1. [state |-> "triage", issue |-> None, fix |-> None] \in ReportRows
    BY DEF ReportRows, ReportStates
  <2>2. Unused \in IssueRows
    BY TrackingAssumption DEF Unused, IssueRows, IssueStates, LinkStates
  <2>3. sent \subseteq Events /\ clock \in 0 .. MaxUpdates
    BY TrackingAssumption DEF Init, Events, Statuses
  <2>4. status \in [Github -> Statuses]
    BY DEF Init, Statuses
  <2>5. QED
    BY <2>1, <2>2, <2>3, <2>4 DEF Init, TypeOK, WorkerStates, RequestStates
<1>2. RowsInv
  <2>1. \A r \in Reports : RowValid(report[r]) /\ report[r].issue = None
    BY DEF Init, RowValid
  <2>2. \A i \in Issues : IssueValid(issue[i])
    BY DEF Init, IssueValid, Unused
  <2>3. \A m \in Maintainers : txn[m].op # "writing"
    BY DEF Init, Idle
  <2>4. QED
    BY <2>1, <2>2, <2>3 DEF RowsInv, LinksStand, WritersExclude, PendingStand
<1>3. GithubTold
  <2>1. \A g \in Github : status[g] # "absent" =>
            g \in Existing /\ status[g] = "open" /\ [github |-> g, at |-> 0, status |-> "open"] \in sent
    BY DEF Init
  <2>2. \A e \in sent : e.at = 0
    BY DEF Init
  <2>3. /\ clock = 0 /\ \A g \in Github : status[g] # "duplicate"
        /\ \A i \in Issues : jobFor[i] = None
        /\ \A w \in Workers : worker[w] = Idle
    BY DEF Init
  <2>4. ASSUME NEW g \in Github, status[g] # "absent"
        PROVE  \E e \in sent : /\ e.github = g /\ e.status = status[g]
                              /\ \A f \in sent : f.github = g => f.at <= e.at
    <3>1. [github |-> g, at |-> 0, status |-> "open"] \in sent /\ status[g] = "open"
      BY <2>1, <2>4
    <3>2. QED
      BY <2>2, <3>1
  <2>5. \A e \in sent : e.at <= clock
    BY <2>2, <2>3
  <2>6. QED
    BY <2>3, <2>4, <2>5 DEF GithubTold
<1>4. QED
  BY <1>1, <1>2, <1>3, TrackingParts

\* Every step keeps the invariant, and keeps reports in step with their issues, unless it commits
\* what was read before.
LEMMA EveryStep ==
    ASSUME TrackingInv, [Next]_vars
    PROVE  /\ GoodStep
           /\ \A r \in Reports : InStep(report[r]) /\ ~Follows(report'[r], issue') =>
                 \E m \in Maintainers : Commit(m) /\ r \in DOMAIN txn[m].rows
<1>1. CASE \E m \in Maintainers : Maintain(m)
  BY <1>1, MaintainStep
<1>2. ASSUME NEW i \in Issues, Reject(i) \/ ReplaceGithubLink(i)
      PROVE  GoodStep /\ FollowsOn
  BY <1>2, RejectStep, ReplaceStep DEF Reject, ReplaceGithubLink
<1>3. CASE \E g \in Github : CreateIssue(g)
  BY <1>3, GithubChanges DEF FollowsOn
<1>4. ASSUME GithubNext
      PROVE  GoodStep /\ FollowsOn
  BY <1>4, GithubChanges, DuplicateClosed DEF GithubNext
<1>5. ASSUME NEW e \in sent, Receive(e)
      PROVE  GoodStep /\ FollowsOn
  BY <1>5, ReceiveStateStep, ReceiveGoneStep DEF Receive
<1>6. ASSUME NEW w \in Workers, RunDuplicates(w)
      PROVE  GoodStep /\ FollowsOn
  BY <1>6, DuplicatesStep
<1>7. CASE (\E i \in Issues : LapseLease(i)) \/ UNCHANGED vars
  BY <1>7, IdleStep DEF FollowsOn
<1>8. QED
  BY <1>1, <1>2, <1>3, <1>4, <1>5, <1>6, <1>7 DEF Next, FollowsOn, CreateFromReport, CreateReplacement

\* The rows agree with themselves and with each other in every state: the type invariant, what the
\* checks and the triggers of reports keep up, and what open transactions, duplicate jobs and late
\* messages may trust.
THEOREM Inductive == Spec => []TrackingInv
<1>1. TrackingInv /\ [Next]_vars => TrackingInv'
  BY EveryStep DEF GoodStep
<1>2. QED
  BY <1>1, InitStep, PTL DEF Spec

\* Neither a merge nor a link that was checked before it leaves a report on an issue that was merged
\* into another (finish_github_duplicate, link_report, lock_issue_operations).
THEOREM NothingLeft == Spec => []NothingLeftBehind
<1>1. TrackingInv => NothingLeftBehind
  BY DEF TrackingInv, LinksStand, Standing, NothingLeftBehind
<1>2. QED
  BY <1>1, Inductive, PTL

\* No sequence of merges closes a circle (ensure_destination, merged_into).
THEOREM ChainsFinish == Spec => []ChainsEnd
<1>1. Init => ChainsEnd
  <2> SUFFICES ASSUME Init, NEW S \in (SUBSET Issues) \ {{}}
               PROVE  \E i \in S : issue[i].into \notin S
    BY DEF ChainsEnd
  <2>1. PICK i : i \in S
    OBVIOUS
  <2>2. i \in Issues /\ issue[i].into = None
    BY <2>1 DEF Init, Unused
  <2>3. QED
    BY <2>1, <2>2, TrackingAssumption
<1>2. TrackingInv /\ ChainsEnd /\ [Next]_vars => ChainsEnd'
  <2> SUFFICES ASSUME TrackingInv, ChainsEnd, [Next]_vars, NEW S \in (SUBSET Issues) \ {{}}
               PROVE  \E i \in S : issue'[i].into \notin S
    BY DEF ChainsEnd
  <2>1. IssuesMove
    BY EveryStep DEF GoodStep
  <2>2. PICK i \in S : issue[i].into \notin S
    BY DEF ChainsEnd
  <2>3. CASE \A k \in Issues : issue'[k].into = issue[k].into
    BY <2>2, <2>3
  <2>4. ASSUME NEW k \in Issues, issue'[k].into # issue[k].into
        PROVE  \E j \in S : issue'[j].into \notin S
    <3> DEFINE target == issue'[k].into
    <3>1. /\ target \in Issues \ {k} /\ issue'[target].into = None
          /\ \A j \in Issues \ {k} : issue'[j].into = issue[j].into
      BY <2>1, <2>4 DEF IssuesMove
    <3>2. None \notin S
      BY TrackingAssumption
    <3> HIDE DEF target
    <3>3. CASE target \in S
      BY <3>1, <3>2, <3>3
    <3>4. CASE target \notin S
      BY <2>2, <3>1, <3>4 DEF target
    <3>5. QED
      BY <3>3, <3>4
  <2>5. QED
    BY <2>3, <2>4
<1>3. QED
  BY <1>1, <1>2, Inductive, PTL DEF Spec

\* Only the merge of an issue takes its reports to another one; every other way leads through
\* triage (link_report, unlink_report, reject_issue).
THEOREM LinksKept == Spec => LinkNotStolen
<1>1. TrackingInv /\ [Next]_vars =>
          \A r \in Reports :
              LET i == report[r].issue  j == report'[r].issue
              IN  i # None /\ j # None /\ i # j => issue[i].into = None /\ issue'[i].into = j
  BY EveryStep DEF GoodStep, LinksMove
<1>2. QED
  BY <1>1, Inductive, PTL DEF LinkNotStolen, Spec

\* Issues are merged only while they show, closed, a GitHub issue that GitHub has called a duplicate
\* (source_is_current).
THEOREM OnlyDuplicatesMerged == Spec => MergesDuplicates
<1>1. TrackingInv /\ [Next]_vars =>
          \A i \in Issues : issue'[i].into # issue[i].into =>
              issue[i].link = "closed" /\ SaidDuplicate(issue[i].github)
  BY EveryStep DEF GoodStep, IssuesMove
<1>2. QED
  BY <1>1, Inductive, PTL DEF MergesDuplicates, Spec

\* Whatever comes late or twice, an issue never shows an older state of its GitHub issue
\* (github_updated_at in sync_github_issue, ensure_destination and replace_github_issue).
THEOREM NewestShown == Spec => NewestWins
<1>1. TrackingInv /\ [Next]_vars =>
          \A i \in Issues : issue[i].state # "none" /\ issue'[i].github = issue[i].github =>
              issue'[i].seen >= issue[i].seen
  BY EveryStep DEF GoodStep, IssuesMove
<1>2. QED
  BY <1>1, Inductive, PTL DEF NewestWins, Spec

\* Reports follow their issues, and a transaction that begins writes what follows them then: only a
\* commit of what was read before the issue changed sets a report out of step
\* (follow_issue_state_on_report and follow_issue_state_on_issue under READ COMMITTED).
THEOREM OnlyRaces == Spec => OutOfStepOnlyByRace
<1>1. TrackingInv /\ [Next]_vars =>
          /\ \A r \in Reports : InStep(report[r]) /\ ~InStep(report[r])' =>
                 \E m \in Maintainers : Commit(m) /\ r \in DOMAIN txn[m].rows
          /\ \A m \in Maintainers : txn[m].op # "writing" /\ txn'[m].op = "writing" =>
                 \A r \in DOMAIN txn'[m].rows : InStep(txn'[m].rows[r])
  <2> SUFFICES ASSUME TrackingInv, [Next]_vars
               PROVE  /\ \A r \in Reports : InStep(report[r]) /\ ~InStep(report[r])' =>
                             \E m \in Maintainers : Commit(m) /\ r \in DOMAIN txn[m].rows
                      /\ \A m \in Maintainers : txn[m].op # "writing" /\ txn'[m].op = "writing" =>
                             \A r \in DOMAIN txn'[m].rows : InStep(txn'[m].rows[r])
    OBVIOUS
  <2>1. \A r \in Reports : InStep(report[r])' <=> Follows(report'[r], issue')
    BY DEF InStep, Follows
  <2>2. QED
    BY <2>1, EveryStep DEF GoodStep, BeginsInStep
<1>2. QED
  BY <1>1, Inductive, PTL DEF OutOfStepOnlyByRace, Spec
=============================================================================
