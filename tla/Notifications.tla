---------------------------- MODULE Notifications ----------------------------
(***************************************************************************)
(* From a ready report to its Discord message.  The transaction that marks *)
(* a report ready adds its outbox row and notifies the stack indexers.     *)
(* An indexer gives the report its signature and matches it once: the      *)
(* report is linked to the one open issue with its signature, or its row   *)
(* is dropped behind a recent twin.  A dispatcher claims the oldest row    *)
(* left under a lease, sends it and records the outcome.  Every admin      *)
(* replica runs an indexer and a dispatcher.                               *)
(***************************************************************************)
EXTENDS Integers, FiniteSets

CONSTANTS
    Reports,      \* reports of a kind that has a webhook
    Replicas,     \* admin processes
    Issues,
    Traced,       \* the reports with a stack trace
    Triaged,      \* the reports maintainers act upon
    Inline,       \* those of Traced signed while they were accepted
    Fingerprint,  \* the signature of a traced report; None: nothing to sign
    CreatedAt,    \* reports.created_at, the start of the accepting transaction
    Window,       \* the five minutes of match_indexed_report
    BatchSize,    \* STACK_INDEX_BATCH_SIZE
    Faults,       \* the kinds of failure that may strike
    None

(***************************************************************************)
(* index:      an indexing query fails;                                    *)
(* connection: the listener's connection drops;                            *)
(* database:   a dispatcher's query fails;                                 *)
(* send:       Discord refuses, or its answer is lost;                     *)
(* stall:      a dispatcher is held up beyond its lease;                   *)
(* crash:      the process dies.                                           *)
(***************************************************************************)
FaultKinds == {"index", "connection", "database", "send", "stall", "crash"}

ASSUME NotificationsAssumption ==
    /\ IsFiniteSet(Reports) /\ IsFiniteSet(Replicas)
    /\ Inline \subseteq Traced /\ Traced \subseteq Reports /\ Triaged \subseteq Reports
    /\ CreatedAt \in [Reports -> Nat]
    /\ DOMAIN Fingerprint = Reports
    /\ Window \in Nat /\ BatchSize \in Nat \ {0}
    /\ Faults \subseteq FaultKinds
    /\ None \notin Reports \cup Replicas \cup Issues

VARIABLES
    ready,      \* reports whose storage_state is ready
    rejected,   \* reports whose state is rejected
    issueOf,    \* reports.issue_id
    handled,    \* history: reports that were linked to an issue or rejected at some time
    open,       \* issues that are open on GitHub
    signed,     \* report_stack_signatures
    matched,    \* signatures with a matched_at
    outbox,     \* the row of discord_report_notifications; dropped once it was deleted
    queuedAt,   \* its created_at
    lease,      \* discord_delivery_state.lease_id, named by the replica that drew it
    leased,     \* leased_report_id
    expired,    \* lease_expires_at has passed
    paused,     \* paused_until has not
    dpc, job,   \* a replica's dispatcher, and the report it claimed
    posted,     \* reports Discord has accepted a message for
    ipc, todo,  \* a replica's indexer, and the rest of its batch
    listening,  \* replicas subscribed to the stack index channel
    woken,      \* replicas with an announcement to receive
    calm        \* nothing fails from now on

reportVars == <<ready, rejected, issueOf, handled, open>>
signVars == <<signed, matched>>
outboxVars == <<outbox, queuedAt>>
leaseVars == <<lease, leased, expired, paused>>
dispatchVars == <<dpc, job, posted>>
indexVars == <<ipc, todo, listening, woken>>
vars == <<reportVars, signVars, outboxVars, leaseVars, dispatchVars, indexVars, calm>>

DeliveringPc == {"claimed", "sending", "sent", "failed"}

\* The indexer is in one of the pcs "full" and "last" while it stores a batch of that kind.
StoringPc == {"full", "last"}

\* Every variable has its type: the rows, the lease and the positions of the loops.
TypeOK ==
    /\ ready \subseteq Reports /\ rejected \subseteq ready /\ handled \subseteq ready
    /\ issueOf \in [Reports -> Issues \cup {None}] /\ open \subseteq Issues
    /\ signed \subseteq Traced /\ matched \subseteq signed \cap ready
    /\ outbox \in [Reports -> {"none", "waiting", "delivered", "dropped"}]
    /\ queuedAt \in [Reports -> Nat]
    /\ lease \in Replicas \cup {None} /\ leased \in Reports \cup {None}
    /\ expired \in BOOLEAN /\ paused \in BOOLEAN /\ calm \in BOOLEAN
    /\ dpc \in [Replicas -> {"idle"} \cup DeliveringPc]
    /\ job \in [Replicas -> Reports \cup {None}]
    /\ \A d \in Replicas : dpc[d] \in DeliveringPc => job[d] \in Reports
    /\ posted \subseteq Reports
    /\ ipc \in [Replicas -> {"start", "scan", "wait"} \cup StoringPc]
    /\ todo \in [Replicas -> SUBSET (Traced \cap ready)]
    /\ listening \subseteq Replicas /\ woken \subseteq listening

Init ==
    /\ ready = {} /\ rejected = {} /\ handled = {}
    /\ issueOf = [r \in Reports |-> None] /\ open = Issues
    /\ signed = Inline /\ matched = {}
    /\ outbox = [r \in Reports |-> "none"] /\ queuedAt = [r \in Reports |-> 0]
    /\ lease = None /\ leased = None /\ expired = FALSE /\ paused = FALSE
    /\ dpc = [d \in Replicas |-> "idle"] /\ job = [d \in Replicas |-> None]
    /\ posted = {}
    /\ ipc = [d \in Replicas |-> "start"] /\ todo = [d \in Replicas |-> {}]
    /\ listening = {} /\ woken = {}
    /\ calm = (Faults = {})

Strikes(fault) == fault \in Faults /\ ~calm

-----------------------------------------------------------------------------
(* What happens to reports and issues elsewhere *)

\* mark_report_storage_ready, with the triggers that fill the outbox and notify the indexers.
MarkReady(r) ==
    /\ r \notin ready
    /\ ready' = ready \cup {r}
    /\ outbox' = [outbox EXCEPT ![r] = "waiting"]
    /\ queuedAt' = [queuedAt EXCEPT ![r] = Cardinality(ready)]
    /\ woken' = listening
    /\ UNCHANGED <<rejected, issueOf, handled, open, signVars, leaseVars, dispatchVars,
                   ipc, todo, listening, calm>>

elsewhereUnchanged == UNCHANGED <<signVars, outboxVars, leaseVars, dispatchVars, indexVars, calm>>

\* set_report_state: a report is rejected.
Reject(r) ==
    /\ r \in ready \ rejected
    /\ rejected' = rejected \cup {r}
    /\ handled' = handled \cup {r}
    /\ UNCHANGED <<ready, issueOf, open>> /\ elsewhereUnchanged

\* set_report_state: a rejected report is confirmed again, or returned to triage.
Restore(r) ==
    /\ r \in rejected
    /\ rejected' = rejected \ {r}
    /\ UNCHANGED <<ready, issueOf, handled, open>> /\ elsewhereUnchanged

\* link_report, which confirms the report, or resolves it with an issue that is closed.
LinkReport(r, i) ==
    /\ r \in ready
    /\ issueOf[r] \in {None, i}
    /\ issueOf' = [issueOf EXCEPT ![r] = i]
    /\ rejected' = rejected \ {r}
    /\ handled' = handled \cup {r}
    /\ UNCHANGED <<ready, open>> /\ elsewhereUnchanged

\* unlink_report, which returns the report to triage.
UnlinkReport(r) ==
    /\ issueOf[r] # None
    /\ issueOf' = [issueOf EXCEPT ![r] = None]
    /\ rejected' = rejected \ {r}
    /\ UNCHANGED <<ready, handled, open>> /\ elsewhereUnchanged

\* The issue is closed on GitHub, which resolves its reports, or reopened.
SyncIssue(i) ==
    /\ open' = IF i \in open THEN open \ {i} ELSE open \cup {i}
    /\ UNCHANGED <<ready, rejected, issueOf, handled>> /\ elsewhereUnchanged

-----------------------------------------------------------------------------
(* The stack indexer of a replica *)

indexerOnly == UNCHANGED <<reportVars, signVars, outboxVars, leaseVars, dispatchVars, calm>>

\* listen_for_stack_index_work, before the first scan.
Listen(d) ==
    /\ ipc[d] = "start"
    /\ ipc' = [ipc EXCEPT ![d] = "scan"]
    /\ listening' = listening \cup {d}
    /\ UNCHANGED <<todo, woken>> /\ indexerOnly

Unmatched == (Traced \cap ready) \ matched

\* A batch is what ORDER BY created_at ... LIMIT returns.
IsBatch(b) ==
    /\ Cardinality(b) <= BatchSize
    /\ b = Unmatched \/ Cardinality(b) = BatchSize
    /\ \A r \in b, q \in Unmatched \ b : CreatedAt[r] <= CreatedAt[q]

\* stack_traces_to_index.
Scan(d) ==
    /\ ipc[d] = "scan"
    /\ \E b \in SUBSET Unmatched :
        /\ IsBatch(b)
        /\ todo' = [todo EXCEPT ![d] = b]
        /\ ipc' = [ipc EXCEPT ![d] = IF Cardinality(b) = BatchSize THEN "full" ELSE "last"]
    /\ UNCHANGED <<listening, woken>> /\ indexerOnly

\* The other ready reports with r's signature.
Twins(r) == {q \in (signed \cap ready) \ {r} : Fingerprint[q] = Fingerprint[r]}

\* The open issues a confirmed twin is linked to.
MatchingIssues(r) == {issueOf[q] : q \in {p \in Twins(r) \ rejected : issueOf[p] \in open}}

\* Variant: a twin that comes up to five minutes later counts as well.
RecentTwinsEitherWay(r) ==
    {q \in Twins(r) \ rejected : CreatedAt[q] \in (CreatedAt[r] - Window)..(CreatedAt[r] + Window)}

RecentTwins(r) ==
    {q \in Twins(r) \ rejected : CreatedAt[q] \in (CreatedAt[r] - Window)..CreatedAt[r]}

DropRow(r) == outbox' = [outbox EXCEPT ![r] = "dropped"]

AssignReport(r, i) ==
    IF issueOf[r] = None /\ r \notin rejected
    THEN issueOf' = [issueOf EXCEPT ![r] = i] /\ handled' = handled \cup {r}
    ELSE UNCHANGED <<issueOf, handled>>

\* match_indexed_report: one issue, several, or none and perhaps a recent twin.
MatchIndexedReport(r) ==
    \/ /\ Cardinality(MatchingIssues(r)) = 1
       /\ \E i \in MatchingIssues(r) : AssignReport(r, i)
       /\ DropRow(r)
    \/ /\ Cardinality(MatchingIssues(r)) > 1
       /\ UNCHANGED <<issueOf, handled, outbox>>
    \/ /\ MatchingIssues(r) = {}
       /\ IF RecentTwins(r) # {} THEN DropRow(r) ELSE UNCHANGED outbox
       /\ UNCHANGED <<issueOf, handled>>

\* Variant: the report is matched because the scan found it unmatched.
StoreUnchecked(d) ==
    /\ ipc[d] \in StoringPc
    /\ \E r \in todo[d] :
        /\ \A q \in todo[d] : CreatedAt[r] <= CreatedAt[q]
        /\ todo' = [todo EXCEPT ![d] = @ \ {r}]
        /\ signed' = signed \cup {r}
        /\ matched' = matched \cup {r}
        /\ IF Fingerprint[r] = None THEN UNCHANGED <<issueOf, handled, outbox>> ELSE MatchIndexedReport(r)
    /\ UNCHANGED <<ready, rejected, open, queuedAt, leaseVars, dispatchVars, ipc, listening, woken, calm>>

\* One transaction of store_stack_signatures, under the issue-operation lock.
Store(d) ==
    /\ ipc[d] \in StoringPc
    /\ \E r \in todo[d] :
        /\ \A q \in todo[d] : CreatedAt[r] <= CreatedAt[q]
        /\ todo' = [todo EXCEPT ![d] = @ \ {r}]
        /\ signed' = signed \cup {r}
        /\ matched' = matched \cup {r}
        /\ IF r \in matched \/ Fingerprint[r] = None
           THEN UNCHANGED <<issueOf, handled, outbox>>
           ELSE MatchIndexedReport(r)
    /\ UNCHANGED <<ready, rejected, open, queuedAt, leaseVars, dispatchVars, ipc, listening, woken, calm>>

\* Variant: the announcements queued during a scan are drained after it.
EndBatchDrained(d) ==
    /\ ipc[d] \in StoringPc /\ todo[d] = {}
    /\ ipc' = [ipc EXCEPT ![d] = IF @ = "full" THEN "scan" ELSE "wait"]
    /\ woken' = woken \ {d}
    /\ UNCHANGED <<todo, listening>> /\ indexerOnly

\* drain_pending_stack_traces goes on after a full batch, and returns after another.
EndBatch(d) ==
    /\ ipc[d] \in StoringPc /\ todo[d] = {}
    /\ ipc' = [ipc EXCEPT ![d] = IF @ = "full" THEN "scan" ELSE "wait"]
    /\ UNCHANGED <<todo, listening, woken>> /\ indexerOnly

\* try_recv returns, and the announcements queued behind it are drained.
Wake(d) ==
    /\ ipc[d] = "wait" /\ d \in woken
    /\ woken' = woken \ {d}
    /\ ipc' = [ipc EXCEPT ![d] = "scan"]
    /\ UNCHANGED <<todo, listening>> /\ indexerOnly

\* Announcements are lost with the connection.
LoseConnection(d) ==
    /\ Strikes("connection")
    /\ d \in listening
    /\ listening' = listening \ {d} /\ woken' = woken \ {d}
    /\ UNCHANGED <<ipc, todo>> /\ indexerOnly

\* try_recv subscribes again, and returns None.
Reconnect(d) ==
    /\ ipc[d] = "wait" /\ d \notin listening
    /\ listening' = listening \cup {d}
    /\ ipc' = [ipc EXCEPT ![d] = "scan"]
    /\ UNCHANGED <<todo, woken>> /\ indexerOnly

\* The listener and the batch go with the loop that owned them.
StartOver(d) ==
    /\ ipc' = [ipc EXCEPT ![d] = "start"]
    /\ todo' = [todo EXCEPT ![d] = {}]
    /\ listening' = listening \ {d} /\ woken' = woken \ {d}

\* index_until_it_fails returns, its listener goes, and run_stack_indexer starts over.
IndexFails(d) ==
    /\ Strikes("index")
    /\ ipc[d] \in {"scan"} \cup StoringPc
    /\ StartOver(d) /\ indexerOnly

-----------------------------------------------------------------------------
(* The dispatcher of a replica *)

\* Variant: a report may be claimed before it was matched.
EligibleUnmatched(r) ==
    /\ outbox[r] = "waiting"
    /\ r \in ready \ rejected

\* The WHERE clause of claim_discord_notification.
Eligible(r) ==
    /\ outbox[r] = "waiting"
    /\ r \in ready \ rejected
    /\ r \in Traced => r \in matched

\* Variant: the lease of another replica is not looked at.
AvailableUnleased == ~paused

Available == (lease = None \/ expired) /\ ~paused

dispatcherOnly == UNCHANGED <<reportVars, signVars, queuedAt, indexVars, calm>>

ClearLease == lease' = None /\ leased' = None /\ expired' = FALSE

\* claim_discord_notification's transaction, on the locked singleton.
Claim(d) ==
    /\ dpc[d] = "idle"
    /\ Available
    /\ \/ /\ \A r \in Reports : ~Eligible(r)
          /\ ClearLease
          /\ UNCHANGED <<dpc, job>>
       \/ \E r \in Reports :
            /\ Eligible(r)
            /\ \A q \in Reports : Eligible(q) => queuedAt[r] <= queuedAt[q]
            /\ lease' = d /\ leased' = r /\ expired' = FALSE
            /\ dpc' = [dpc EXCEPT ![d] = "claimed"]
            /\ job' = [job EXCEPT ![d] = r]
    /\ UNCHANGED <<outbox, paused, posted>> /\ dispatcherOnly

\* dispatch_once ends.
Rest(d) ==
    /\ dpc' = [dpc EXCEPT ![d] = "idle"]
    /\ job' = [job EXCEPT ![d] = None]

\* The title is read after the claim's commit; when that fails the lease stays until it expires.
ReadTitle(d) ==
    /\ dpc[d] = "claimed"
    /\ \/ dpc' = [dpc EXCEPT ![d] = "sending"] /\ UNCHANGED job
       \/ Strikes("database") /\ Rest(d)
    /\ UNCHANGED <<outbox, leaseVars, posted>> /\ dispatcherOnly

Accept(r) == posted' = posted \cup {r}

\* DiscordClient::send: accepted and confirmed; accepted with the answer lost; refused.
Send(d) ==
    /\ dpc[d] = "sending"
    /\ \/ Accept(job[d]) /\ dpc' = [dpc EXCEPT ![d] = "sent"]
       \/ Strikes("send") /\ Accept(job[d]) /\ dpc' = [dpc EXCEPT ![d] = "failed"]
       \/ Strikes("send") /\ UNCHANGED posted /\ dpc' = [dpc EXCEPT ![d] = "failed"]
    /\ UNCHANGED <<outbox, leaseVars, job>> /\ dispatcherOnly

\* lock_discord_delivery compares ids, not times: a lease that expired but was not claimed is owned.
OwnsLease(d) == lease = d /\ leased = job[d]

\* UPDATE ... SET delivered_at WHERE delivered_at IS NULL
Deliver(r) == outbox' = [outbox EXCEPT ![r] = IF @ = "waiting" THEN "delivered" ELSE @]

\* finish_discord_notification; Discord may ask for a cooldown.
Finish(d) ==
    /\ dpc[d] = "sent"
    /\ \/ OwnsLease(d) /\ Deliver(job[d]) /\ ClearLease /\ paused' \in BOOLEAN
       \/ (~OwnsLease(d) \/ Strikes("database")) /\ UNCHANGED <<outbox, leaseVars>>
    /\ Rest(d)
    /\ UNCHANGED posted /\ dispatcherOnly

\* Variant: an unsuccessful delivery is recorded as one that was made.
DeferAsDelivered(d) ==
    /\ dpc[d] = "failed"
    /\ OwnsLease(d) /\ Deliver(job[d]) /\ ClearLease /\ paused' = TRUE
    /\ Rest(d)
    /\ UNCHANGED posted /\ dispatcherOnly

\* defer_discord_notification.
Defer(d) ==
    /\ dpc[d] = "failed"
    /\ \/ OwnsLease(d) /\ ClearLease /\ paused' = TRUE
       \/ (~OwnsLease(d) \/ Strikes("database")) /\ UNCHANGED leaseVars
    /\ Rest(d)
    /\ UNCHANGED <<outbox, posted>> /\ dispatcherOnly

\* A lease lasts the request timeout and 30 seconds: it outlives a delivery that is not held up.
ExpireLease ==
    /\ lease # None /\ ~expired
    /\ Strikes("stall") \/ dpc[lease] = "idle"
    /\ expired' = TRUE
    /\ UNCHANGED <<outbox, lease, leased, paused, dispatchVars>> /\ dispatcherOnly

EndPause ==
    /\ paused
    /\ paused' = FALSE
    /\ UNCHANGED <<outbox, lease, leased, expired, dispatchVars>> /\ dispatcherOnly

\* A replica dies and is started again; a message on its way may arrive.
Crash(d) ==
    /\ Strikes("crash")
    /\ Rest(d) /\ StartOver(d)
    /\ \/ UNCHANGED posted
       \/ dpc[d] = "sending" /\ Accept(job[d])
    /\ UNCHANGED <<reportVars, signVars, outboxVars, leaseVars, calm>>

-----------------------------------------------------------------------------

\* From here on nothing fails.
CalmDown ==
    /\ ~calm
    /\ calm' = TRUE
    /\ UNCHANGED <<reportVars, signVars, outboxVars, leaseVars, dispatchVars, indexVars>>

IndexStep(d) == Listen(d) \/ Scan(d) \/ Store(d) \/ EndBatch(d) \/ Wake(d) \/ Reconnect(d)

DispatchStep(d) == Claim(d) \/ ReadTitle(d) \/ Send(d) \/ Finish(d) \/ Defer(d)

Failure(d) == LoseConnection(d) \/ IndexFails(d) \/ Crash(d)

Triage ==
    \/ \E r \in Triaged : Reject(r) \/ Restore(r) \/ UnlinkReport(r)
    \/ \E r \in Triaged, i \in Issues : LinkReport(r, i)
    \/ \E i \in Issues : SyncIssue(i)

Next ==
    \/ \E r \in Reports : MarkReady(r)
    \/ Triage
    \/ \E d \in Replicas : IndexStep(d) \/ DispatchStep(d) \/ Failure(d)
    \/ ExpireLease \/ EndPause \/ CalmDown

Spec == Init /\ [][Next]_vars

\* Each replica's loops go on, and time passes.
FairSpec ==
    /\ Spec
    /\ \A d \in Replicas : WF_vars(IndexStep(d)) /\ WF_vars(DispatchStep(d))
    /\ WF_vars(ExpireLease) /\ WF_vars(EndPause)

-----------------------------------------------------------------------------
(* Properties *)

\* A notification is delivered only after Discord has confirmed its message: whoever holds, loses
\* or takes over the lease, finish_discord_notification never records a delivery nobody made.
DeliveredWasPosted == \A r \in Reports : outbox[r] = "delivered" => r \in posted

\* The lease allows one delivery at a time across the replicas, as long as no delivery is held up
\* longer than its lease.
OneDeliveryAtATime ==
    "stall" \notin Faults =>
        \A d, e \in Replicas : dpc[d] \in DeliveringPc /\ dpc[e] \in DeliveringPc => d = e

\* Matching comes before announcing: no report is announced whose notification the matching would
\* have dropped, or drops while the message is under way.
AnnouncedNotDropped == \A r \in posted : outbox[r] # "dropped"

\* No crash goes unseen: behind a dropped notification there is a report that was itself linked or
\* rejected, or an earlier report with the same signature that was, or is still to be announced.
DroppedBehindSeen ==
    \A r \in Reports : outbox[r] = "dropped" =>
        \/ r \in handled
        \/ \E q \in (Traced \cap ready) \ {r} :
            /\ Fingerprint[q] = Fingerprint[r]
            /\ CreatedAt[q] <= CreatedAt[r]
            /\ q \in handled \/ outbox[q] \in {"waiting", "delivered"}

\* What a report must have behind it before it is claimed, sent or recorded as delivered.
Announceable(r) ==
    /\ r \in ready
    /\ r \in Traced => r \in matched
    /\ outbox[r] \in {"waiting", "delivered"}

\* The row of a report is there once it is ready; only a traced, matched one is deleted.
OutboxFollows ==
    /\ \A r \in Reports : outbox[r] = "none" <=> r \notin ready
    /\ \A r \in Reports : outbox[r] = "dropped" => r \in matched

\* A report under way stays one that may be announced, and is posted before it counts as sent.
JobsAnnounceable ==
    \A d \in Replicas : dpc[d] \in DeliveringPc =>
        /\ Announceable(job[d])
        /\ dpc[d] = "sent" => job[d] \in posted

PostedAnnounceable == \A r \in posted : Announceable(r)

\* Unless deliveries are held up, who delivers holds a lease that has not expired.
LeaseHeld ==
    "stall" \notin Faults => \A d \in Replicas : dpc[d] \in DeliveringPc => lease = d /\ ~expired

HandledRecorded ==
    /\ rejected \subseteq handled
    /\ \A r \in Reports : issueOf[r] # None => r \in handled

\* The inductive invariant behind the properties of the outbox, the lease and the matching.
NotificationsInv ==
    /\ TypeOK
    /\ OutboxFollows
    /\ JobsAnnounceable
    /\ PostedAnnounceable
    /\ DeliveredWasPosted
    /\ LeaseHeld
    /\ HandledRecorded

\* A report is matched once, by whichever indexer stores it first: one that read its batch before
\* neither links the report again after a maintainer unlinked it nor drops its notification.
MatchedOnce ==
    [][\A d \in Replicas : Store(d) =>
        \A r \in matched : issueOf'[r] = issueOf[r] /\ outbox'[r] = outbox[r]]_vars

\* What the documentation says of a notification that is dropped: a report with its signature is
\* linked to an open issue, or is recent and unlinked.
DroppedBehindUnlinked ==
    [][\A r \in Reports : outbox[r] # "dropped" /\ outbox'[r] = "dropped" =>
        \/ MatchingIssues(r) # {}
        \/ \E q \in RecentTwins(r) : issueOf[q] = None]_vars

\* Once nothing fails any more every ready report is announced, dropped or rejected: no wake-up,
\* no lease and no pause is left that it waits for in vain.
EveryReportSettles ==
    \A r \in Reports :
        (calm /\ r \in ready) ~> (outbox[r] \in {"delivered", "dropped"} \/ r \in rejected)

=============================================================================
