---------------------------- MODULE IssueTracking ----------------------------
(***************************************************************************)
(* Triage and GitHub.  Maintainers link reports to issues, reject, restore *)
(* and resolve them, one at a time or many at once; every issue tracks a   *)
(* GitHub issue, follows its webhooks, and is merged into another when     *)
(* GitHub closes it as a duplicate.  GitHub's messages stay in a set, so   *)
(* they may be lost, repeated, late and out of order; a page that fetched  *)
(* an issue holds one of them, however old.                                *)
(*                                                                         *)
(* A transaction under READ COMMITTED that writes report rows is two       *)
(* steps: its last statement, which locks the rows and reads the issue the *)
(* rows will follow, and its commit.  Others come in between unless they   *)
(* need a lock it holds.                                                   *)
(***************************************************************************)
EXTENDS Integers, FiniteSets

CONSTANTS
    Reports,      \* ready reports
    Issues,       \* ids of the issues table
    Github,       \* issues of the configured GitHub repository
    Existing,     \* those of Github that exist at the start
    Maintainers,  \* requests of maintainers that may be under way together
    Workers,      \* admin processes, each with a duplicate worker
    Fixes,        \* pull requests and commits
    Landed,       \* those that are merged or on the default branch
    BulkLimit,    \* BULK_REPORT_LIMIT
    MaxDepth,     \* the 16 steps a merge chain is followed
    MaxUpdates,   \* bound: changes made on GitHub
    None

ASSUME TrackingAssumption ==
    /\ IsFiniteSet(Reports) /\ IsFiniteSet(Issues) /\ Existing \subseteq Github
    /\ Landed \subseteq Fixes
    /\ BulkLimit \in Nat \ {0} /\ MaxDepth \in Nat /\ MaxUpdates \in Nat
    /\ None \notin Issues \cup Github \cup Workers \cup Fixes

VARIABLES
    report,     \* the rows of reports: state, issue_id and the fix
    issue,      \* the rows of issues
    aliases,    \* issue_github_aliases, as pairs of an issue and a GitHub issue
    jobFor,     \* github_duplicate_jobs: the GitHub issue a job of an issue is about
    leaseOf,    \* its lease_id, named by the worker that drew it
    lapsed,     \* issues whose job has a lease_expires_at in the past
    worker,     \* what a duplicate worker holds
    txn,        \* what a maintainer's request holds
    status,     \* GitHub: where an issue is
    original,   \* GitHub: what it is a duplicate of
    sent,       \* GitHub: what it has told anybody so far
    clock       \* GitHub: the time of its latest change

githubVars == <<status, original, sent, clock>>
jobVars == <<jobFor, leaseOf, lapsed>>
vars == <<report, issue, aliases, jobVars, worker, txn, githubVars>>

ReportStates == {"triage", "confirmed", "resolved", "rejected"}
IssueStates == {"unresolved", "needs_attention", "resolved", "rejected"}
LinkStates == {"unknown", "open", "closed", "missing", "moved"}
Statuses == {"absent", "open", "closed", "duplicate", "deleted", "transferred"}

ReportRows ==
    [state : ReportStates, issue : Issues \cup {None}, fix : Fixes \cup {None}]

IssueRows ==
    [state : IssueStates \cup {"none"}, link : LinkStates, github : Github \cup {None},
     seen : 0 .. MaxUpdates, resolved : BOOLEAN, into : Issues \cup {None}]

Events == [github : Github, at : 0 .. MaxUpdates, status : Statuses \ {"absent"}]

\* An id that no row has yet.
Unused ==
    [state |-> "none", link |-> "unknown", github |-> None, seen |-> 0,
     resolved |-> FALSE, into |-> None]

Idle == [op |-> "idle"]

\* What a worker and a request may hold.
WorkerStates ==
    {Idle} \cup [op : {"claimed"}, source : Issues, github : Github]
           \cup [op : {"found"}, source : Issues, github : Github, original : Events \cup {None}]

RequestStates ==
    {Idle} \cup [op : {"synced"}, reports : SUBSET Reports, event : Events]
           \cup [op : {"writing"}, lock : BOOLEAN,
                 rows : UNION {[rs -> ReportRows] : rs \in SUBSET Reports}]

\* Every variable has its type: rows, jobs, the hands of workers and requests, GitHub's side.
TypeOK ==
    /\ report \in [Reports -> ReportRows]
    /\ issue \in [Issues -> IssueRows]
    /\ aliases \subseteq Issues \X Github
    /\ jobFor \in [Issues -> Github \cup {None}]
    /\ leaseOf \in [Issues -> Workers \cup {None}] /\ lapsed \subseteq Issues
    /\ worker \in [Workers -> WorkerStates] /\ txn \in [Maintainers -> RequestStates]
    /\ status \in [Github -> Statuses] /\ original \in [Github -> Github \cup {None}]
    /\ sent \subseteq Events /\ clock \in 0 .. MaxUpdates

Init ==
    /\ report = [r \in Reports |-> [state |-> "triage", issue |-> None, fix |-> None]]
    /\ issue = [i \in Issues |-> Unused]
    /\ aliases = {}
    /\ jobFor = [i \in Issues |-> None] /\ leaseOf = [i \in Issues |-> None] /\ lapsed = {}
    /\ worker = [w \in Workers |-> Idle] /\ txn = [m \in Maintainers |-> Idle]
    /\ status = [g \in Github |-> IF g \in Existing THEN "open" ELSE "absent"]
    /\ original = [g \in Github |-> None]
    /\ sent = [github : Existing, at : {0}, status : {"open"}]
    /\ clock = 0

-----------------------------------------------------------------------------
(* States *)

\* GithubLinkState::from and the states of the webhooks for deleted and transferred issues.
LinkState(s) ==
    CASE s = "open" -> "open" [] s \in {"closed", "duplicate"} -> "closed"
      [] s = "deleted" -> "missing" [] s = "transferred" -> "moved"

\* GithubLinkState::is_unreachable and is_gone; nothing in the code stores "unavailable".
Gone == {"missing", "moved"}

\* IssueState::tracking
TrackingState(link) ==
    CASE link = "closed" -> "resolved" [] link \in Gone -> "needs_attention"
      [] OTHER -> "unresolved"

Live(i) == issue[i].state \notin {"none", "rejected"}

\* The trigger follow_issue_state_on_report, then keep_fix_with_resolution.
Settle(row, issues) ==
    LET follows == row.issue # None /\ row.state \in {"confirmed", "resolved"}
        settled == IF ~follows THEN row.state
                   ELSE IF issues[row.issue].state = "resolved" THEN "resolved" ELSE "confirmed"
    IN  [row EXCEPT !.state = settled,
                    !.fix = IF settled = "resolved" /\ row.issue = None THEN @ ELSE None]

\* Mutant: reports follow an issue that is resolved, and not one that is reopened.
FollowResolved(rows, old, new) ==
    [r \in Reports |->
        LET i == rows[r].issue
            turned == i # None /\ old[i].state # "resolved" /\ new[i].state = "resolved"
        IN  IF turned THEN Settle(rows[r], new) ELSE rows[r]]

\* The trigger follow_issue_state_on_issue, for every issue that became or ceased to be resolved.
Follow(rows, old, new) ==
    [r \in Reports |->
        LET i == rows[r].issue
            turned == i # None /\ (old[i].state = "resolved") # (new[i].state = "resolved")
        IN  IF turned THEN Settle(rows[r], new) ELSE rows[r]]

-----------------------------------------------------------------------------
(* Locks *)

\* Report rows that an open transaction has locked.
Locked == UNION {DOMAIN txn[m].rows : m \in {n \in Maintainers : txn[n].op = "writing"}}

\* pg_advisory_xact_lock in lock_issue_operations is held.
Busy == \E m \in Maintainers : txn[m].op = "writing" /\ txn[m].lock

\* A transaction in one step: it waits for the report rows that it changes.
Write(rows, issues) ==
    /\ \A r \in Reports : rows[r] # report[r] => r \notin Locked
    /\ report' = rows /\ issue' = issues

\* The last statement of a transaction on report rows; what the rows become is settled now.
Begin(m, rows, lock) ==
    /\ DOMAIN rows \cap Locked = {}
    /\ lock => ~Busy
    /\ txn' = [txn EXCEPT ![m] = [op |-> "writing", lock |-> lock, rows |->
                  [r \in DOMAIN rows |-> Settle(rows[r], issue)]]]
    /\ UNCHANGED <<report, issue, aliases, jobVars, worker, githubVars>>

Commit(m) ==
    /\ txn[m].op = "writing"
    /\ report' = [r \in Reports |->
                     IF r \in DOMAIN txn[m].rows THEN txn[m].rows[r] ELSE report[r]]
    /\ txn' = [txn EXCEPT ![m] = Idle]
    /\ UNCHANGED <<issue, aliases, jobVars, worker, githubVars>>

\* A failed statement, a conflict or a lost connection ends the request.
Abort(m) ==
    /\ txn[m] # Idle
    /\ txn' = [txn EXCEPT ![m] = Idle]
    /\ UNCHANGED <<report, issue, aliases, jobVars, worker, githubVars>>

-----------------------------------------------------------------------------
(* Merge chains *)

\* The issues a merge chain passes through, from i on, for as long as the query follows it.
Chain(i) ==
    LET step[n \in Nat] ==
            IF n = 0 THEN i
            ELSE IF issue[step[n - 1]].into = None THEN step[n - 1] ELSE issue[step[n - 1]].into
    IN  Issues \cap {step[n] : n \in 0 .. MaxDepth}

\* The ends of the longest chains that start in one of the given issues: ORDER BY depth DESC.
Ends(starts) ==
    LET ended == {i \in starts : \E j \in Chain(i) : issue[j].into = None}
        longest == {i \in ended : \A k \in ended : Cardinality(Chain(k)) <= Cardinality(Chain(i))}
    IN  {j \in UNION {Chain(i) : i \in longest} : issue[j].into = None}

\* The rows that sync_github_issue and its kin look for; a merged issue is one, too.
Trackers(g) == {i \in Issues : Live(i) /\ issue[i].github = g}

AliasesOf(g) == {i \in Issues : Live(i) /\ <<i, g>> \in aliases}

\* The unique index one_active_issue_per_github_id.
Unique(issues) ==
    \A i, j \in Issues :
        LET active(k) == issues[k].state \notin {"none", "rejected"} /\ issues[k].into = None
        IN  active(i) /\ active(j) /\ issues[i].github = issues[j].github => i = j

\* A row of issues as it is inserted or overwritten from what GitHub said.
Tracked(row, e) ==
    [row EXCEPT !.github = e.github, !.link = LinkState(e.status), !.seen = e.at,
                !.state = TrackingState(LinkState(e.status)),
                !.resolved = LinkState(e.status) = "closed"]

-----------------------------------------------------------------------------
(* Maintainers and reports *)

\* link_reports, with link_report for each of them.
LinkRows(rs, i) == [r \in rs |-> [report[r] EXCEPT !.issue = i, !.state = "confirmed"]]

\* Mutant: a report that is linked already may be linked elsewhere.
LinkableAnyway(rs, i) == TRUE

Linkable(rs, i) == \A r \in rs : report[r].issue \in {None, i}

\* Mutant: an issue that was merged still takes reports.
AssignToMergedIssue(m, rs, i) ==
    /\ Live(i)
    /\ Linkable(rs, i)
    /\ Begin(m, LinkRows(rs, i), TRUE)

\* assign_reports_to_issue
AssignToIssue(m, rs, i) ==
    /\ Live(i) /\ issue[i].into = None
    /\ Linkable(rs, i)
    /\ Begin(m, LinkRows(rs, i), TRUE)

\* Mutant: the times of what GitHub says are not compared.
AppliesAnyTime(i, e, source) == source = "webhook" => issue[i].link \notin Gone

\* sync_github_issue: an older event changes nothing, a webhook nothing of an issue that is gone.
Applies(i, e, source) ==
    /\ issue[i].seen <= e.at
    /\ source = "webhook" => issue[i].link \notin Gone

Synchronised(i, e) == [issue EXCEPT ![i] = Tracked(@, e)]

\* The first transaction of assign_reports_to_github_issue, with an issue fetched some time ago.
FetchForAssignment(m, rs, e) ==
    /\ e.status = "open"
    /\ \/ /\ Trackers(e.github) = {}
          /\ UNCHANGED <<report, issue>>
       \/ \E i \in Trackers(e.github) :
             IF Applies(i, e, "assignment")
             THEN Write(Follow(report, issue, Synchronised(i, e)), Synchronised(i, e))
             ELSE UNCHANGED <<report, issue>>
    /\ txn' = [txn EXCEPT ![m] = [op |-> "synced", reports |-> rs, event |-> e]]
    /\ UNCHANGED <<aliases, jobVars, worker, githubVars>>

\* The issue that speaks for a GitHub issue, which tracks it, or tracked it once.
Spokesman(g) ==
    Ends({i \in Trackers(g) \cup AliasesOf(g) : \A j \in Chain(i) : Live(j)})

\* Its second transaction, when there is such an issue.
AssignToTracker(m) ==
    /\ txn[m].op = "synced"
    /\ \E i \in Spokesman(txn[m].event.github) :
          /\ ~issue[i].resolved /\ issue[i].link \in {"open", "unknown"}
          /\ Linkable(txn[m].reports, i)
          /\ Begin(m, LinkRows(txn[m].reports, i), TRUE)

\* Its second transaction otherwise: nobody else sees the new issue before the commit.
AssignToNewIssue(m) ==
    /\ txn[m].op = "synced" /\ ~Busy
    /\ LET e == txn[m].event  rs == txn[m].reports
       IN  /\ Spokesman(e.github) = {}
           /\ rs \cap Locked = {} /\ Linkable(rs, None)
           /\ \E i \in Issues :
                /\ issue[i].state = "none"
                /\ issue' = [issue EXCEPT ![i] = Tracked(Unused, e)]
                /\ report' = [r \in Reports |->
                      IF r \in rs THEN Settle(LinkRows(rs, i)[r], issue') ELSE report[r]]
    /\ txn' = [txn EXCEPT ![m] = Idle]
    /\ UNCHANGED <<aliases, jobVars, worker, githubVars>>

\* set_report_state: one row, and not the lock of the issue operations.
SetReportState(m, r, target) ==
    LET row == report[r] IN
    /\ row.state # target
    /\ \/ target = "rejected"
       \/ target = "confirmed" /\ row.state = "rejected" /\ row.issue # None
       \/ target = "triage" /\ row.state \in {"rejected", "resolved"} /\ row.issue = None
    /\ Begin(m, [x \in {r} |-> [row EXCEPT !.state = target]], FALSE)

\* selected_fix: GitHub is asked about the pull request or the commit.
SelectedFix(f) == f \in Landed

\* resolve_reports_with_fix
ResolveWithFix(m, rs, f) ==
    /\ \A r \in rs : report[r].issue = None /\ report[r].state # "rejected"
    /\ Begin(m, [r \in rs |-> [report[r] EXCEPT !.state = "resolved", !.fix = f]], TRUE)

\* Mutant: the state stays.
UnlinkRowOnly(r) == [report[r] EXCEPT !.issue = None]

\* unlink_report
UnlinkRow(r) == [report[r] EXCEPT !.issue = None, !.state = "triage"]

\* unlink_report_from_issue
UnlinkFromIssue(m, r, i) ==
    /\ report[r].issue = i
    /\ Begin(m, [x \in {r} |-> UnlinkRow(r)], TRUE)

\* apply_report_state_action: what becomes of each report, and which of them refuse.
Refuses(r, action) ==
    \/ action = "confirm" /\ (report[r].state = "triage" \/ report[r].issue = None)
                          /\ report[r].state \notin {"confirmed", "resolved"}
    \/ action = "triage" /\ report[r].issue = None /\ report[r].state = "confirmed"

ActionRow(r, action) ==
    CASE action = "reject" -> [report[r] EXCEPT !.state = "rejected"]
      [] action = "confirm" /\ report[r].state = "rejected" ->
            [report[r] EXCEPT !.state = "confirmed"]
      [] action = "triage" -> UnlinkRow(r)
      [] OTHER -> report[r]

ApplyStateAction(m, rs, action) ==
    LET changes == {r \in rs : ActionRow(r, action) # report[r]} IN
    /\ \A r \in rs : ~Refuses(r, action)
    /\ changes # {}
    /\ Begin(m, [r \in changes |-> ActionRow(r, action)], TRUE)

\* add_reports_to_selected_issue
AddToSelectedIssue(m, rs) ==
    \/ \E i \in Issues : AssignToIssue(m, rs, i)
    \/ \E e \in sent : FetchForAssignment(m, rs, e)

\* bulk_action
BulkAction(m, rs) ==
    /\ Cardinality(rs) \in 1 .. BulkLimit
    /\ \/ AddToSelectedIssue(m, rs)
       \/ \E f \in Fixes : SelectedFix(f) /\ ResolveWithFix(m, rs, f)
       \/ \E action \in {"confirm", "triage", "reject"} : ApplyStateAction(m, rs, action)

\* assign_to_issue of a report's page, with ensure_report_unassigned.
EnsureUnassigned(r) == report[r].issue = None

AssignFromPage(m, r) == EnsureUnassigned(r) /\ AddToSelectedIssue(m, {r})

\* resolve_with_fix of a report's page.
ResolveFromPage(m, r) == \E f \in Fixes : SelectedFix(f) /\ ResolveWithFix(m, {r}, f)

\* set_state and reject of a report's page.
SetState(m, r) == \E target \in {"triage", "confirmed"} : SetReportState(m, r, target)

RejectReport(m, r) == SetReportState(m, r, "rejected")

\* unlink_from_issue of a report's page, unlink_report of its issue's page.
UnlinkFromPage(m, r) == \E i \in Issues : UnlinkFromIssue(m, r, i)

Maintain(m) ==
    \/ /\ txn[m] = Idle
       /\ \/ \E rs \in SUBSET Reports : BulkAction(m, rs)
          \/ \E r \in Reports :
                \/ AssignFromPage(m, r) \/ ResolveFromPage(m, r) \/ SetState(m, r)
                \/ RejectReport(m, r) \/ UnlinkFromPage(m, r)
    \/ AssignToTracker(m)
    \/ AssignToNewIssue(m)
    \/ Commit(m)
    \/ Abort(m)

-----------------------------------------------------------------------------
(* Maintainers and issues *)

\* The merged sources of an issue, however far.
Sources(i) == {j \in Issues : i \in Chain(j)} \ {i}

\* reject_issue
RejectIssue(i, action) ==
    /\ Live(i) /\ ~Busy
    /\ LET rejected == [j \in Issues |->
               IF j = i \/ (j \in Sources(i) /\ Live(j))
               THEN [issue[j] EXCEPT !.state = "rejected"] ELSE issue[j]]
           left == Follow(report, issue, rejected)
       IN  Write([r \in Reports |->
                     IF left[r].issue # i THEN left[r]
                     ELSE Settle([left[r] EXCEPT
                              !.state = IF action = "reject" THEN "rejected" ELSE "triage",
                              !.issue = IF action = "reject" THEN i ELSE None], rejected)],
                 rejected)
    /\ UNCHANGED <<aliases, jobVars, worker, txn, githubVars>>

\* reject of an issue's page.
Reject(i) == \E action \in {"unlink", "reject"} : RejectIssue(i, action)

\* replace_github_issue, with an issue fetched or created some time ago.
ReplaceGithubIssue(i, e) ==
    /\ Live(i) /\ issue[i].into = None /\ issue[i].link \in Gone /\ ~Busy
    /\ e.status \in {"open", "closed", "duplicate"} /\ issue[i].github # e.github
    /\ Trackers(e.github) \cup AliasesOf(e.github) = {}
    /\ aliases' = aliases \cup {<<i, issue[i].github>>}
    /\ LET replaced == [issue EXCEPT ![i] = Tracked(@, e)]
       IN  Write(Follow(report, issue, replaced), replaced)
    /\ UNCHANGED <<jobVars, worker, txn, githubVars>>

\* replace_github_link, and the end of create_replacement.
ReplaceGithubLink(i) == \E e \in sent : ReplaceGithubIssue(i, e)

-----------------------------------------------------------------------------
(* GitHub *)

\* A change on GitHub, and the webhook about it.
Change(g, s) ==
    /\ clock < MaxUpdates
    /\ clock' = clock + 1
    /\ status' = [status EXCEPT ![g] = s]
    /\ sent' = sent \cup {[github |-> g, at |-> clock', status |-> s]}
    /\ UNCHANGED <<report, issue, aliases, jobVars, worker, txn>>

CloseOrReopen(g) ==
    /\ \/ status[g] = "open" /\ Change(g, "closed")
       \/ status[g] \in {"closed", "duplicate"} /\ Change(g, "open")
    /\ UNCHANGED original

CloseAsDuplicate(g, h) ==
    /\ status[g] = "open" /\ g # h /\ status[h] \in {"open", "closed", "duplicate"}
    /\ original' = [original EXCEPT ![g] = h]
    /\ Change(g, "duplicate")

DeleteOrTransfer(g) ==
    /\ status[g] \in {"open", "closed", "duplicate"}
    /\ \E s \in {"deleted", "transferred"} : Change(g, s)
    /\ UNCHANGED original

\* create_issue of the client; what fails after GitHub's answer leaves the new issue behind.
CreateIssue(g) ==
    /\ status[g] = "absent"
    /\ Change(g, "open")
    /\ UNCHANGED original

\* create_from_report up to GitHub's answer; FetchForAssignment goes on from it.
CreateFromReport(g, r) == EnsureUnassigned(r) /\ CreateIssue(g)

\* create_replacement up to GitHub's answer; ReplaceGithubIssue goes on from it.
CreateReplacement(g, i) == issue[i].state # "none" /\ issue[i].link \in Gone /\ CreateIssue(g)

-----------------------------------------------------------------------------
(* Webhooks *)

\* The duplicate job that a synchronisation by webhook leaves behind.
QueueDuplicate(i, e) ==
    /\ jobFor' = [jobFor EXCEPT ![i] = IF e.status = "duplicate" THEN e.github ELSE None]
    /\ leaseOf' = [leaseOf EXCEPT ![i] = None]
    /\ lapsed' = lapsed \ {i}

\* receive, for an issue that was opened, edited, closed or reopened.
ReceiveState(e) ==
    /\ e.status \in {"open", "closed", "duplicate"}
    /\ \E i \in Trackers(e.github) :
          /\ Applies(i, e, "webhook")
          /\ QueueDuplicate(i, e)
          /\ Write(Follow(report, issue, Synchronised(i, e)), Synchronised(i, e))
    /\ UNCHANGED <<aliases, worker, txn, githubVars>>

\* receive, for one that was deleted or transferred: mark_github_issue_unavailable.
ReceiveGone(e) ==
    /\ e.status \in {"deleted", "transferred"}
    /\ \E i \in Trackers(e.github) :
          LET link == LinkState(e.status)
              marked == [issue EXCEPT ![i].link = link, ![i].state = TrackingState(link)]
          IN  Write(Follow(report, issue, marked), marked)
    /\ UNCHANGED <<aliases, jobVars, worker, txn, githubVars>>

-----------------------------------------------------------------------------
(* Duplicate jobs *)

\* claim_github_duplicate
ClaimDuplicate(w, i) ==
    /\ worker[w] = Idle
    /\ jobFor[i] # None /\ (leaseOf[i] = None \/ i \in lapsed)
    /\ leaseOf' = [leaseOf EXCEPT ![i] = w] /\ lapsed' = lapsed \ {i}
    /\ worker' = [worker EXCEPT ![w] = [op |-> "claimed", source |-> i, github |-> jobFor[i]]]
    /\ UNCHANGED <<report, issue, aliases, jobFor, txn, githubVars>>

LapseLease(i) ==
    /\ leaseOf[i] # None /\ i \notin lapsed
    /\ lapsed' = lapsed \cup {i}
    /\ UNCHANGED <<report, issue, aliases, jobFor, leaseOf, worker, txn, githubVars>>

\* What GitHub says of an issue at this time.
Latest(g) == CHOOSE e \in sent : e.github = g /\ \A f \in sent : f.github = g => f.at <= e.at

\* duplicate_of; the states of a target that cannot be read are errors.
LookUp(w) ==
    /\ worker[w].op = "claimed"
    /\ LET g == worker[w].github IN
       /\ status[g] \in {"open", "closed", "duplicate"}
       /\ status[g] = "duplicate" => status[original[g]] \in {"open", "closed", "duplicate"}
       /\ worker' = [worker EXCEPT ![w] =
              [op |-> "found", source |-> worker[w].source, github |-> g,
               original |-> IF status[g] = "duplicate" THEN Latest(original[g]) ELSE None]]
    /\ UNCHANGED <<report, issue, aliases, jobVars, txn, githubVars>>

OwnsLease(w) == leaseOf[worker[w].source] = w

\* Mutant: the issue is not compared with what the job is about.
SourceIsUnmerged(w) == issue[worker[w].source].into = None

\* source_is_current in finish_github_duplicate
SourceIsCurrent(w) ==
    LET row == issue[worker[w].source]
    IN  row.github = worker[w].github /\ row.link = "closed" /\ row.into = None

EndJob(w) ==
    /\ jobFor' = [jobFor EXCEPT ![worker[w].source] = None]
    /\ leaseOf' = [leaseOf EXCEPT ![worker[w].source] = None]
    /\ lapsed' = lapsed \ {worker[w].source}
    /\ worker' = [worker EXCEPT ![w] = Idle]

\* Mutant: the merge chain of the target is not followed.
DestinationsDirect(e) ==
    IF Trackers(e.github) # {} THEN Trackers(e.github) ELSE {i \in Issues : issue[i].state = "none"}

\* ensure_destination: the issue at the end of the target's chain, or a new one.
Destinations(e) ==
    LET ends == Ends(Trackers(e.github))
    IN  IF ends # {} THEN ends ELSE {i \in Issues : issue[i].state = "none"}

Ensured(j, e) ==
    IF issue[j].state = "none" \/ issue[j].seen <= e.at
    THEN [issue EXCEPT ![j] = Tracked(@, e)] ELSE issue

\* finish_github_duplicate when there is a target: its reports move, the issue is merged.
Merge(w) ==
    /\ worker[w].op = "found" /\ worker[w].original # None /\ ~Busy
    /\ OwnsLease(w) /\ SourceIsCurrent(w)
    /\ LET i == worker[w].source  e == worker[w].original
       IN  \E j \in Destinations(e) \ {i} :
             LET ensured == Ensured(j, e)
                 merged == [ensured EXCEPT ![i].into = j, ![i].state = "resolved",
                                           ![i].resolved = TRUE]
                 kept == Follow(report, issue, ensured)
             IN  /\ Unique(ensured)
                 /\ Write([r \in Reports |->
                              IF kept[r].issue # i THEN kept[r]
                              ELSE Settle([kept[r] EXCEPT !.issue = j, !.state = "confirmed"],
                                          ensured)],
                          merged)
    /\ EndJob(w)
    /\ UNCHANGED <<aliases, txn, githubVars>>

\* finish_github_duplicate when the issue is no duplicate any more, or the lease is lost.
DropJob(w) ==
    /\ worker[w].op = "found" /\ ~Busy
    /\ \/ OwnsLease(w) /\ (worker[w].original = None \/ ~SourceIsCurrent(w)) /\ EndJob(w)
       \/ ~OwnsLease(w) /\ worker' = [worker EXCEPT ![w] = Idle] /\ UNCHANGED jobVars
    /\ UNCHANGED <<report, issue, aliases, txn, githubVars>>

\* An error, a target that leads back to its source, and then retry_github_duplicate.
RetryDuplicate(w) ==
    /\ worker[w] # Idle
    /\ worker' = [worker EXCEPT ![w] = Idle]
    /\ IF OwnsLease(w)
       THEN /\ leaseOf' = [leaseOf EXCEPT ![worker[w].source] = None]
            /\ lapsed' = lapsed \ {worker[w].source}
       ELSE UNCHANGED <<leaseOf, lapsed>>
    /\ UNCHANGED <<report, issue, aliases, jobFor, txn, githubVars>>

\* The process dies with what it was doing; the row keeps its lease.
WorkerDies(w) ==
    /\ worker[w] # Idle
    /\ worker' = [worker EXCEPT ![w] = Idle]
    /\ UNCHANGED <<report, issue, aliases, jobVars, txn, githubVars>>

RunDuplicates(w) ==
    \/ \E i \in Issues : ClaimDuplicate(w, i)
    \/ LookUp(w)
    \/ Merge(w)
    \/ DropJob(w)
    \/ RetryDuplicate(w)
    \/ WorkerDies(w)

-----------------------------------------------------------------------------
GithubNext ==
    \/ \E g \in Github : CloseOrReopen(g) \/ DeleteOrTransfer(g)
    \/ \E g, h \in Github : CloseAsDuplicate(g, h)

Receive(e) == ReceiveState(e) \/ ReceiveGone(e)

Next ==
    \/ \E m \in Maintainers : Maintain(m)
    \/ \E i \in Issues : Reject(i) \/ ReplaceGithubLink(i)
    \/ \E g \in Github, r \in Reports : CreateFromReport(g, r)
    \/ \E g \in Github, i \in Issues : CreateReplacement(g, i)
    \/ GithubNext
    \/ \E e \in sent : Receive(e)
    \/ \E w \in Workers : RunDuplicates(w)
    \/ \E i \in Issues : LapseLease(i)

Spec == Init /\ [][Next]_vars

-----------------------------------------------------------------------------
(* Properties *)

\* What a report follows: confirmed while its issue is not resolved, resolved while it is.
InStep(row) ==
    row.issue # None /\ row.state \in {"confirmed", "resolved"} =>
        (row.state = "resolved" <=> issue[row.issue].state = "resolved")

\* A report follows its issue (follow_issue_state_on_report, follow_issue_state_on_issue), whoever
\* closes, reopens, merges, rejects or replaces what.  The only step after which it does not is
\* the commit of a transaction that read the issue before it was resolved or reopened, which
\* READ COMMITTED allows (sync_github_issue takes no lock that link_report waits for).
OutOfStepOnlyByRace ==
    [][/\ \A r \in Reports : InStep(report[r]) /\ ~InStep(report[r])' =>
              \E m \in Maintainers : Commit(m) /\ r \in DOMAIN txn[m].rows
       /\ \A m \in Maintainers : txn[m].op # "writing" /\ txn'[m].op = "writing" =>
              \A r \in DOMAIN txn'[m].rows : InStep(txn'[m].rows[r])]_vars

\* A merge leaves no report behind, nor does anything bring one back: no report is linked to an
\* issue that was merged into another (finish_github_duplicate under lock_issue_operations, against
\* links that were checked before the merge).
NothingLeftBehind ==
    \A r \in Reports : report[r].issue # None => issue[report[r].issue].into = None

\* Merge chains end: however duplicates point at each other, reopen and are closed again, no
\* sequence of merges closes a circle (ensure_destination and the walk along merged_into).
ChainsEnd == \A S \in (SUBSET Issues) \ {{}} : \E i \in S : issue[i].into \notin S

\* A report moves from one issue to another only by the merge of the one into the other; every
\* other way to a new issue leads through triage (link_report, reject_issue, duplicate jobs).
LinkNotStolen ==
    [][\A r \in Reports :
          LET i == report[r].issue  j == report'[r].issue
          IN  i # None /\ j # None /\ i # j => issue[i].into = None /\ issue'[i].into = j]_vars

\* Rows agree with themselves whichever transactions wrote them: a linked report is not in triage,
\* a confirmed one is linked, and a fix is kept exactly of what it resolved without an issue, and
\* is one that has landed (keep_fix_with_resolution, the checks of reports).
RowValid(row) ==
    /\ row.issue # None => row.state # "triage"
    /\ row.state = "confirmed" => row.issue # None
    /\ row.fix # None <=> row.state = "resolved" /\ row.issue = None
    /\ row.fix \in Landed \cup {None}

\* An id that no row has is merged into nothing; a row tracks some GitHub issue.
IssueValid(row) == IF row.state = "none" THEN row.into = None ELSE row.github # None

\* An issue that reports may be linked to, in a table of issues.
Standing(issues, i) == issues[i].state # "none" /\ issues[i].into = None

\* Reports are linked to issues that exist and were not merged.
LinksStand == \A r \in Reports : report[r].issue # None => Standing(issue, report[r].issue)

\* Open transactions have different rows, one of them the lock of the issue operations.
WritersExclude ==
    \A m, n \in Maintainers : txn[m].op = "writing" /\ txn[n].op = "writing" /\ m # n =>
        DOMAIN txn[m].rows \cap DOMAIN txn[n].rows = {} /\ ~(txn[m].lock /\ txn[n].lock)

\* What an open transaction has written is as good at its commit as when it read the issue: the
\* report is not linked elsewhere, the issue is not merged meanwhile, and whoever does without the
\* lock leaves the link alone.
PendingStand ==
    \A m \in Maintainers : txn[m].op = "writing" =>
        \A r \in DOMAIN txn[m].rows :
            LET row == txn[m].rows[r] IN
            /\ RowValid(row)
            /\ row.issue # None => report[r].issue \in {None, row.issue} /\ Standing(issue, row.issue)
            /\ ~txn[m].lock => row.issue = report[r].issue

\* GitHub has said so: that an issue is a duplicate.
SaidDuplicate(g) == \E e \in sent : e.github = g /\ e.status = "duplicate"

\* What GitHub has said of an issue ends with the issue's status, and jobs come of duplicates.
GithubTold ==
    /\ \A e \in sent : e.at <= clock
    /\ \A g \in Github : status[g] # "absent" =>
          \E e \in sent : /\ e.github = g /\ e.status = status[g]
                          /\ \A f \in sent : f.github = g => f.at <= e.at
    /\ \A g \in Github : status[g] = "duplicate" => original[g] # None
    /\ \A i \in Issues : jobFor[i] # None => SaidDuplicate(jobFor[i])
    /\ \A w \in Workers : worker[w] # Idle => SaidDuplicate(worker[w].github)

\* The inductive invariant: types, rows that agree with themselves, and what the two steps of a
\* transaction, the jobs of workers and the messages of GitHub trust each other for.
TrackingInv ==
    /\ TypeOK
    /\ \A r \in Reports : RowValid(report[r])
    /\ \A i \in Issues : IssueValid(issue[i])
    /\ LinksStand /\ WritersExclude /\ PendingStand /\ GithubTold

\* An issue is merged only while it shows, closed, a GitHub issue that GitHub has called a duplicate:
\* a job that outlived a reopening or a replaced link merges nothing (source_is_current in
\* finish_github_duplicate).  The moment it shows need not be that of the duplicate: as the target
\* of another merge the issue may have got what GitHub said later, which ends no job.
MergesDuplicates ==
    [][\A i \in Issues : issue'[i].into # issue[i].into =>
          issue[i].link = "closed" /\ SaidDuplicate(issue[i].github)]_vars

\* Late and repeated messages do not win: what an issue shows of a GitHub issue never becomes
\* older, whether webhooks, assignments, replacements or merges bring it (github_updated_at).
NewestWins ==
    [][\A i \in Issues : issue[i].state # "none" /\ issue'[i].github = issue[i].github =>
          issue'[i].seen >= issue[i].seen]_vars
=============================================================================
