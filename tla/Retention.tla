----------------------------- MODULE Retention -----------------------------
(***************************************************************************)
(* How long reports, their files, their links and what is known of their   *)
(* senders are kept.  Every admin process runs the maintenance task: one   *)
(* transaction that forgets what is too old and lists expired reports, and *)
(* then, report by report, the files and the row.  Meanwhile reports       *)
(* arrive, administrators block and unblock the senders of reports, and    *)
(* links to reports are handed out.                                        *)
(***************************************************************************)
EXTENDS Integers, Sequences, FiniteSets

CONSTANTS
    Reports,          \* identifiers, in their order
    Keys,             \* keyed addresses of clients
    Admins,           \* admin processes
    Shares,           \* rows of links
    ReportRetention, SourceRetention, ShareLifetime,
    PurgeLimit,       \* LIMIT of the listing of expired reports
    MaxTime,          \* bound of the clock
    None

\* What rows of reports and of source_rate_limits hold.
ReportRows ==
    [created : Nat, expires : Nat \cup {None}, source : Keys \cup {None},
     state : {"triage", "rejected"}, storage : {"pending_files", "ready"}]

BlockRows == [report : Reports \cup {None}, lifted : Nat \cup {None}]

ASSUME RetentionAssumption ==
    /\ Reports \subseteq Nat /\ IsFiniteSet(Reports)
    /\ {ReportRetention, SourceRetention, ShareLifetime, PurgeLimit, MaxTime} \subseteq Nat \ {0}
    /\ None \notin Keys \cup Reports \cup Nat \cup ReportRows \cup BlockRows

VARIABLES
    now,
    report,   \* the rows of reports
    entering, \* the key of a submission that has passed the check for blocks
    gone,     \* reports whose rows were purged
    files,    \* their directories: "staged", then "whole", "part" after a failed removal, or "none"
    recovery, \* what the process that stores a report's files, if any, does next
    late,     \* reports whose files were moved after a purge had looked for them
    share,    \* the rows of report_shares
    block,    \* the rows of source_rate_limits
    blocked,  \* keys that an administrator blocked and did not unblock since
    purge     \* what the maintenance task of each process still has to purge

retentionVars == <<now, report, entering, gone, files, recovery, late, share, block, blocked, purge>>

Idle == [op |-> "idle", left |-> <<>>]

\* A report that was stored before reports had an expiry from the start.
OldRow == [created |-> 0, expires |-> None, source |-> None, state |-> "triage", storage |-> "ready"]

RetentionInit ==
    /\ now = 0 /\ report \in [Reports -> {None, OldRow}] /\ entering = [r \in Reports |-> None]
    /\ gone = {} /\ files = [r \in Reports |-> IF report[r] = None THEN "none" ELSE "whole"]
    /\ recovery = [r \in Reports |-> "none"] /\ late = {}
    /\ share = [s \in Shares |-> None]
    /\ block = [k \in Keys |-> None] /\ blocked = {}
    /\ purge = [a \in Admins |-> Idle]

Stored(r) == report[r] # None
Ready(r) == Stored(r) /\ report[r].storage = "ready"
Active(k) == block[k] # None /\ block[k].lifted = None
Expired(row) == row.expires # None /\ row.expires <= now

-----------------------------------------------------------------------------
(* Submissions *)

\* limit_public_request: source_has_active_rate_limit finds no block.
LetIn(r, k) ==
    /\ report[r] = None /\ entering[r] = None /\ r \notin gone
    /\ ~Active(k)
    /\ entering' = [entering EXCEPT ![r] = k]
    /\ UNCHANGED <<now, report, gone, files, recovery, late, share, block, blocked, purge>>

\* accept_report, with configure_report_retention: the row is stored, with its files in the staging
\* directory, and the request goes on to move them.
Arrive(r) ==
    /\ entering[r] # None
    /\ report' = [report EXCEPT ![r] = [created |-> now, expires |-> now + ReportRetention,
                                        source |-> entering[r], state |-> "triage",
                                        storage |-> "pending_files"]]
    /\ files' = [files EXCEPT ![r] = "staged"]
    /\ recovery' = [recovery EXCEPT ![r] = "finalize"]
    /\ entering' = [entering EXCEPT ![r] = None]
    /\ UNCHANGED <<now, gone, late, share, block, blocked, purge>>

\* recover_receipt, of a process that starts or of the submission sent again.
Recover(r) ==
    /\ recovery[r] = "none" /\ Stored(r) /\ ~Ready(r)
    /\ recovery' = [recovery EXCEPT ![r] = "finalize"]
    /\ UNCHANGED <<now, report, entering, gone, files, late, share, block, blocked, purge>>

\* A purge has looked for the report's directory, or has ended.
PurgedPast(r) ==
    r \in gone \/ \E a \in Admins : purge[a].op = "row" /\ Head(purge[a].left) = r

\* finalize: the rename, whatever has become of the row; nothing to do when it was done before.
Finalize(r) ==
    /\ recovery[r] = "finalize" /\ files[r] # "none"
    /\ files' = [files EXCEPT ![r] = IF @ = "staged" THEN "whole" ELSE @]
    /\ late' = IF files[r] = "staged" /\ PurgedPast(r) THEN late \cup {r} ELSE late
    /\ recovery' = [recovery EXCEPT ![r] = "mark"]
    /\ UNCHANGED <<now, report, entering, gone, share, block, blocked, purge>>

\* mark_report_storage_ready, of a row that is still there.
MarkReady(r) ==
    /\ recovery[r] = "mark"
    /\ report' = [report EXCEPT ![r] = IF Stored(r) THEN [@ EXCEPT !.storage = "ready"] ELSE @]
    /\ recovery' = [recovery EXCEPT ![r] = "none"]
    /\ UNCHANGED <<now, entering, gone, files, late, share, block, blocked, purge>>

\* Moving or marking fails, or the process dies.
LeavePending(r) ==
    /\ recovery[r] # "none"
    /\ recovery' = [recovery EXCEPT ![r] = "none"]
    /\ UNCHANGED <<now, report, entering, gone, files, late, share, block, blocked, purge>>

\* sweep_ingestion_state, of a staging directory that no row refers to.
SweepStaging(r) ==
    /\ files[r] = "staged" /\ ~Stored(r)
    /\ files' = [files EXCEPT ![r] = "none"]
    /\ UNCHANGED <<now, report, entering, gone, recovery, late, share, block, blocked, purge>>

-----------------------------------------------------------------------------
(* Blocks *)

\* block_ip: the sender of a report whose key is still known, and its unread reports if asked.
Block(r, removeTriage) ==
    /\ Ready(r) /\ report[r].source # None
    /\ LET k == report[r].source IN
       /\ block' = [block EXCEPT ![k] = [report |-> r, lifted |-> None]]
       /\ blocked' = blocked \cup {k}
       /\ report' = [x \in Reports |->
             IF removeTriage /\ Ready(x) /\ report[x].source = k
             THEN [report[x] EXCEPT !.state = "rejected"] ELSE report[x]]
    /\ UNCHANGED <<now, entering, gone, files, recovery, late, share, purge>>

\* Keys that have an active block from this report.
BlockedFrom(r) == {k \in Keys : Active(k) /\ block[k].report = r}

\* Mutant: only the key of the report itself.
KeyToUnblockKnown(r) == IF report[r].source # None THEN {report[r].source} ELSE {}

\* unblock_report_source: the key of the report or, if it is forgotten, of the report's own block.
KeyToUnblock(r) == IF report[r].source # None THEN {report[r].source} ELSE BlockedFrom(r)

Unblock(r) ==
    /\ Stored(r)
    /\ \E k \in KeyToUnblock(r) :
          /\ Active(k)
          /\ block' = [block EXCEPT ![k].lifted = now]
          /\ blocked' = blocked \ {k}
    /\ UNCHANGED <<now, report, entering, gone, files, recovery, late, share, purge>>

\* find_report: submission_source_is_blocked, which offers to unblock on the report's page.
ShownBlocked(r) ==
    \E k \in Keys : Active(k) /\ (k = report[r].source \/ block[k].report = r)

-----------------------------------------------------------------------------
(* Links *)

\* create, with create_report_share.
CreateShare(s, r) ==
    /\ share[s] = None /\ Ready(r)
    /\ share' = [share EXCEPT ![s] = [report |-> r, expires |-> now + ShareLifetime]]
    /\ UNCHANGED <<now, report, entering, gone, files, recovery, late, block, blocked, purge>>

-----------------------------------------------------------------------------
(* The maintenance task *)

\* Mutant: keys are kept as long as reports.
SweptOfExpired(row) ==
    [row EXCEPT !.source = IF row.created <= now - ReportRetention THEN None ELSE @,
                !.expires = IF @ = None THEN row.created + ReportRetention ELSE @]

\* A report after the sweep: no key past its retention, and an expiry.
Swept(row) ==
    [row EXCEPT !.source = IF row.created <= now - SourceRetention THEN None ELSE @,
                !.expires = IF @ = None THEN row.created + ReportRetention ELSE @]

\* Expired rows, oldest expiry first, none but later ones left out, and those only at the limit:
\* there is one such list.
Purgeable(rows) ==
    LET expired == {r \in Reports : rows[r] # None /\ Expired(rows[r])}
        before(x, y) == \/ rows[x].expires < rows[y].expires
                        \/ rows[x].expires = rows[y].expires /\ x < y
        listed(left) == {left[i] : i \in DOMAIN left}
    IN  {left \in UNION {[1 .. n -> expired] : n \in 0 .. PurgeLimit} :
            /\ \A i, j \in DOMAIN left : i < j => before(left[i], left[j])
            /\ \A y \in expired \ listed(left) :
                   Len(left) = PurgeLimit /\ \A x \in listed(left) : before(x, y)}

NextPurge(left) == IF left = <<>> THEN Idle ELSE [op |-> "files", left |-> left]

\* begin_maintenance_sweep, of sources, blocks, links and reports.
BeginSweep(a) ==
    /\ purge[a] = Idle
    /\ report' = [r \in Reports |-> IF Stored(r) THEN Swept(report[r]) ELSE None]
    /\ block' = [k \in Keys |->
           IF block[k] # None /\ block[k].lifted # None /\ block[k].lifted <= now - SourceRetention
           THEN None ELSE block[k]]
    /\ share' = [s \in Shares |->
           IF share[s] # None /\ share[s].expires <= now THEN None ELSE share[s]]
    /\ \E left \in Purgeable(report') : purge' = [purge EXCEPT ![a] = NextPurge(left)]
    /\ UNCHANGED <<now, entering, gone, files, recovery, late, blocked>>

\* run_maintenance: remove_report, which finds nothing while the files are staged.
RemoveFiles(a, r) ==
    /\ purge[a].op = "files" /\ Head(purge[a].left) = r
    /\ files' = [files EXCEPT ![r] = IF @ = "staged" THEN @ ELSE "none"]
    /\ purge' = [purge EXCEPT ![a].op = "row"]
    /\ UNCHANGED <<now, report, entering, gone, recovery, late, share, block, blocked>>

\* Mutant: the row is deleted although its files are not.
RemoveFailsIgnored(a) ==
    /\ purge[a].op = "files"
    /\ purge' = [purge EXCEPT ![a].op = "row"]
    /\ UNCHANGED <<now, report, entering, gone, files, recovery, late, share, block, blocked>>

\* It fails, with some files removed or none, or because another process is at the same directory;
\* the row waits for the next sweep.
RemoveFails(a) ==
    /\ purge[a].op = "files"
    /\ LET r == Head(purge[a].left) IN
       files' \in {files, [files EXCEPT ![r] = IF @ \in {"none", "staged"} THEN @ ELSE "part"]}
    /\ purge' = [purge EXCEPT ![a] = NextPurge(Tail(@.left))]
    /\ UNCHANGED <<now, report, entering, gone, recovery, late, share, block, blocked>>

\* finish_report_purge: links go with the report, blocks stay without it.
FinishPurge(a, r) ==
    /\ purge[a].op = "row" /\ Head(purge[a].left) = r
    /\ purge' = [purge EXCEPT ![a] = NextPurge(Tail(@.left))]
    /\ IF Stored(r) /\ Expired(report[r])
       THEN /\ report' = [report EXCEPT ![r] = None]
            /\ gone' = gone \cup {r}
            /\ share' = [s \in Shares |->
                            IF share[s] # None /\ share[s].report = r THEN None ELSE share[s]]
            /\ block' = [k \in Keys |->
                            IF block[k] # None /\ block[k].report = r
                            THEN [block[k] EXCEPT !.report = None] ELSE block[k]]
       ELSE UNCHANGED <<report, gone, share, block>>
    /\ UNCHANGED <<now, entering, files, recovery, late, blocked>>

\* The deletion fails, or the process dies and another starts in its place.
LeavePurge(a) ==
    /\ purge[a].op = "row"
    /\ purge' = [purge EXCEPT ![a] = NextPurge(Tail(@.left))]
    /\ UNCHANGED <<now, report, entering, gone, files, recovery, late, share, block, blocked>>

Die(a) ==
    /\ purge[a] # Idle
    /\ purge' = [purge EXCEPT ![a] = Idle]
    /\ UNCHANGED <<now, report, entering, gone, files, recovery, late, share, block, blocked>>

Tick ==
    /\ now < MaxTime
    /\ now' = now + 1
    /\ UNCHANGED <<report, entering, gone, files, recovery, late, share, block, blocked, purge>>

-----------------------------------------------------------------------------
Maintenance(a) ==
    \/ BeginSweep(a) \/ RemoveFails(a) \/ LeavePurge(a) \/ Die(a)
    \/ \E r \in Reports : RemoveFiles(a, r) \/ FinishPurge(a, r)

RetentionNext ==
    \/ \E r \in Reports :
          \/ \E k \in Keys : LetIn(r, k)
          \/ Arrive(r) \/ Recover(r) \/ Finalize(r) \/ MarkReady(r) \/ LeavePending(r)
          \/ SweepStaging(r) \/ Unblock(r)
          \/ \E removeTriage \in BOOLEAN : Block(r, removeTriage)
          \/ \E s \in Shares : CreateShare(s, r)
    \/ \E a \in Admins : Maintenance(a)
    \/ Tick

RetentionSpec == RetentionInit /\ [][RetentionNext]_retentionVars

\* The clock goes on, some process sweeps, and removals and deletions do not fail for ever.
RetentionFairness ==
    /\ WF_retentionVars(Tick)
    /\ WF_retentionVars(\E a \in Admins : BeginSweep(a))
    /\ WF_retentionVars(\E r \in Reports : SweepStaging(r))
    /\ SF_retentionVars(\E a \in Admins, r \in Reports : RemoveFiles(a, r))
    /\ SF_retentionVars(\E a \in Admins, r \in Reports : FinishPurge(a, r))

-----------------------------------------------------------------------------
(* Properties *)

\* Files and rows go together, whatever fails in between and whichever process is at it: a report
\* that has not expired has all of its files, which a maintainer finds once it is ready, and none are
\* left behind by a report that is gone, but by one that was pending when it expired and whose files
\* were moved after the purge had looked for them (finalize renames without asking for the row).
FilesAndRows ==
    \A r \in Reports :
        /\ Stored(r) /\ ~Expired(report[r]) =>
               files[r] = "whole" \/ (~Ready(r) /\ files[r] = "staged")
        /\ r \in gone => files[r] \in {"none", "staged"} \/ r \in late

\* A block holds until an administrator lifts it, although the report's key is forgotten or the
\* report purged; and a report's page offers to lift a block exactly when the request would.
BlocksHold ==
    /\ \A k \in Keys : Active(k) <=> k \in blocked
    /\ \A r \in Reports : Stored(r) => (ShownBlocked(r) <=> \E k \in KeyToUnblock(r) : Active(k))

\* Every variable has its type.
RetentionTypes ==
    /\ now \in Nat
    /\ report \in [Reports -> ReportRows \cup {None}] /\ entering \in [Reports -> Keys \cup {None}]
    /\ gone \subseteq Reports /\ files \in [Reports -> {"none", "staged", "whole", "part"}]
    /\ recovery \in [Reports -> {"none", "finalize", "mark"}] /\ late \subseteq Reports
    /\ share \in [Shares -> [report : Reports, expires : Nat] \cup {None}]
    /\ block \in [Keys -> BlockRows \cup {None}] /\ blocked \subseteq Keys
    /\ purge \in [Admins -> {Idle} \cup [op : {"files", "row"}, left : Seq(Reports) \ {<<>>}]]

\* A report is under way, stored or gone, and never comes back.
OneStage ==
    \A r \in Reports : /\ entering[r] # None => ~Stored(r) /\ r \notin gone
                       /\ r \in gone => ~Stored(r)

\* Whatever a process is still to purge has expired or is gone, and stays so.
PurgesExpired ==
    \A a \in Admins : \A i \in DOMAIN purge[a].left :
        LET r == purge[a].left[i] IN r \in gone \/ (Stored(r) /\ Expired(report[r]))

\* Rows are deleted after their files.
FilesFirst ==
    \A a \in Admins : purge[a].op = "row" =>
        LET r == Head(purge[a].left) IN files[r] \in {"none", "staged"} \/ r \in late

\* Files are in place before a report is marked.
MovedFirst ==
    \A r \in Reports : recovery[r] = "mark" /\ Stored(r) /\ ~Expired(report[r]) => files[r] = "whole"

\* The report that a block came from is stored, and was sent with the blocked key.
BlocksFromReports ==
    \A k \in Keys : block[k] # None /\ block[k].report # None =>
        Stored(block[k].report) /\ report[block[k].report].source \in {k, None}

\* The inductive invariant: several purges of one report trust each other for these.
RetentionInv ==
    /\ RetentionTypes /\ OneStage /\ PurgesExpired /\ FilesFirst /\ MovedFirst /\ BlocksFromReports
    /\ FilesAndRows /\ BlocksHold

\* What has come to its end: reports, the keys of their senders, staged files that no row refers to,
\* lifted blocks and links.
NothingTooOld ==
    /\ \A r \in Reports : Stored(r) =>
          /\ now < report[r].created + ReportRetention
          /\ now >= report[r].created + SourceRetention => report[r].source = None
    /\ \A r \in gone : files[r] # "staged"
    /\ \A k \in Keys : block[k] # None /\ block[k].lifted # None => now < block[k].lifted + SourceRetention
    /\ \A s \in Shares : share[s] # None => now < share[s].expires

\* Once reports stop arriving nothing is kept too long, however often removals fail and processes
\* die: no report, sender's key, lifted block or link outlives its time, and staged files not their row.
RetentionEnds == <>[]NothingTooOld
=============================================================================
