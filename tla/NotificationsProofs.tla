------------------------- MODULE NotificationsProofs -------------------------
(***************************************************************************)
(* Proofs about Notifications, for any number of reports, replicas and     *)
(* issues, any window and batch size and any set of failures.              *)
(***************************************************************************)
EXTENDS Notifications, FiniteSetTheorems, TLAPS

\* What a part of the invariant beyond the types depends on, triage apart.
coreVars == <<ready, matched, outbox, posted, dpc, job, lease, expired>>

\* A step that touches one of coreVars is one of these.
CoreStep ==
    \/ \E r \in Reports : MarkReady(r)
    \/ \E d \in Replicas : Store(d) \/ Claim(d) \/ ReadTitle(d) \/ Send(d) \/ Finish(d) \/ Defer(d) \/ Crash(d)
    \/ ExpireLease

\* Steps of the other actions leave coreVars alone.
LEMMA StepSplit ==
    ASSUME [Next]_vars
    PROVE  CoreStep \/ UNCHANGED coreVars
<1>1. CASE UNCHANGED vars
  BY <1>1 DEF vars, coreVars, reportVars, signVars, outboxVars, leaseVars, dispatchVars
<1>2. CASE Triage
  BY <1>2 DEF Triage, Reject, Restore, UnlinkReport, LinkReport, SyncIssue, elsewhereUnchanged,
              coreVars, signVars, outboxVars, leaseVars, dispatchVars
<1>3. ASSUME NEW d \in Replicas,
             Listen(d) \/ Scan(d) \/ EndBatch(d) \/ Wake(d) \/ Reconnect(d) \/ LoseConnection(d) \/ IndexFails(d)
      PROVE  UNCHANGED coreVars
  BY <1>3 DEF Listen, Scan, EndBatch, Wake, Reconnect, LoseConnection, IndexFails, indexerOnly,
              coreVars, reportVars, signVars, outboxVars, leaseVars, dispatchVars
<1>4. CASE EndPause \/ CalmDown
  BY <1>4 DEF EndPause, CalmDown, dispatcherOnly,
              coreVars, reportVars, signVars, outboxVars, leaseVars, dispatchVars
<1> QED
  BY <1>1, <1>2, <1>3, <1>4 DEF Next, CoreStep, IndexStep, DispatchStep, Failure

-----------------------------------------------------------------------------
(* Types *)

LEMMA TypeInit == Init => TypeOK
<1> SUFFICES ASSUME Init PROVE TypeOK
  OBVIOUS
<1>1. calm \in BOOLEAN
  <2>1. calm = (Faults = {})
    BY DEF Init
  <2> QED
    BY <2>1, Zenon
<1> QED
  BY <1>1, NotificationsAssumption DEF Init, TypeOK, DeliveringPc, StoringPc

\* Ready reports can be counted.
LEMMA ReadyCounted ==
    ASSUME TypeOK
    PROVE  Cardinality(ready) \in Nat
  BY NotificationsAssumption, FS_Subset, FS_CardinalityType DEF TypeOK

LEMMA TypeTriage ==
    ASSUME TypeOK, NEW r \in Triaged
    PROVE  /\ Reject(r) \/ Restore(r) \/ UnlinkReport(r) => TypeOK'
           /\ \A i \in Issues : LinkReport(r, i) => TypeOK'
<1> r \in Reports
  BY NotificationsAssumption
<1> USE DEF TypeOK, elsewhereUnchanged, signVars, outboxVars, leaseVars, dispatchVars, indexVars
<1>1. Reject(r) => TypeOK'
  BY DEF Reject
<1>2. Restore(r) => TypeOK'
  BY DEF Restore
<1>3. UnlinkReport(r) => TypeOK'
  BY DEF UnlinkReport
<1>4. ASSUME NEW i \in Issues, LinkReport(r, i) PROVE TypeOK'
  BY <1>4 DEF LinkReport
<1> QED
  BY <1>1, <1>2, <1>3, <1>4

LEMMA TypeIndexer ==
    ASSUME TypeOK, NEW d \in Replicas,
           Listen(d) \/ Scan(d) \/ EndBatch(d) \/ Wake(d) \/ Reconnect(d) \/ LoseConnection(d) \/ IndexFails(d)
    PROVE  TypeOK'
<1> USE DEF TypeOK, StoringPc, indexerOnly, reportVars, signVars, outboxVars, leaseVars, dispatchVars
<1>1. CASE Listen(d)
  BY <1>1 DEF Listen
<1>2. CASE Scan(d)
  <2>1. PICK b \in SUBSET Unmatched :
           /\ todo' = [todo EXCEPT ![d] = b]
           /\ ipc' = [ipc EXCEPT ![d] = IF Cardinality(b) = BatchSize THEN "full" ELSE "last"]
    BY <1>2 DEF Scan
  <2>2. b \subseteq Traced \cap ready
    BY DEF Unmatched
  <2> QED
    BY <1>2, <2>1, <2>2 DEF Scan
<1>3. CASE EndBatch(d)
  BY <1>3 DEF EndBatch
<1>4. CASE Wake(d)
  BY <1>4 DEF Wake
<1>5. CASE Reconnect(d)
  BY <1>5 DEF Reconnect
<1>6. CASE LoseConnection(d)
  BY <1>6 DEF LoseConnection
<1>7. CASE IndexFails(d)
  BY <1>7 DEF IndexFails, StartOver
<1> QED
  BY <1>1, <1>2, <1>3, <1>4, <1>5, <1>6, <1>7

LEMMA TypeMatch ==
    ASSUME TypeOK, NEW r \in Traced \cap ready, MatchIndexedReport(r)
    PROVE  /\ issueOf' \in [Reports -> Issues \cup {None}]
           /\ handled' \subseteq ready
           /\ outbox' \in [Reports -> {"none", "waiting", "delivered", "dropped"}]
<1> USE DEF TypeOK
<1>1. MatchingIssues(r) \subseteq Issues
  BY DEF MatchingIssues
<1>2. CASE /\ \E i \in MatchingIssues(r) : AssignReport(r, i)
           /\ DropRow(r)
  BY <1>1, <1>2 DEF AssignReport, DropRow
<1>3. CASE UNCHANGED <<issueOf, handled>> /\ (DropRow(r) \/ UNCHANGED outbox)
  BY <1>3 DEF DropRow
<1> QED
  BY <1>2, <1>3 DEF MatchIndexedReport

LEMMA TypeStore ==
    ASSUME TypeOK, NEW d \in Replicas, Store(d)
    PROVE  TypeOK'
<1> USE DEF TypeOK
<1>1. PICK r \in todo[d] :
         /\ todo' = [todo EXCEPT ![d] = @ \ {r}]
         /\ signed' = signed \cup {r}
         /\ matched' = matched \cup {r}
         /\ UNCHANGED <<issueOf, handled, outbox>> \/ MatchIndexedReport(r)
  BY DEF Store
<1>2. r \in Traced \cap ready
  OBVIOUS
<1>3. /\ issueOf' \in [Reports -> Issues \cup {None}]
      /\ handled' \subseteq ready
      /\ outbox' \in [Reports -> {"none", "waiting", "delivered", "dropped"}]
  BY <1>1, <1>2, TypeMatch
<1>4. UNCHANGED <<ready, rejected, open, queuedAt, leaseVars, dispatchVars, ipc, listening, woken, calm>>
  BY DEF Store
<1>5. todo' \in [Replicas -> SUBSET (Traced \cap ready)]
  BY <1>1
<1> QED
  BY <1>1, <1>2, <1>3, <1>4, <1>5 DEF leaseVars, dispatchVars

LEMMA TypeDispatch ==
    ASSUME TypeOK, NEW d \in Replicas,
           Claim(d) \/ ReadTitle(d) \/ Send(d) \/ Finish(d) \/ Defer(d)
    PROVE  TypeOK'
<1> USE DEF TypeOK, DeliveringPc, dispatcherOnly, reportVars, signVars, leaseVars, indexVars,
            ClearLease, Rest
<1>1. CASE Claim(d)
  BY <1>1 DEF Claim
<1>2. CASE ReadTitle(d)
  BY <1>2 DEF ReadTitle
<1>3. CASE Send(d)
  BY <1>3 DEF Send, Accept
<1>4. CASE Finish(d)
  BY <1>4 DEF Finish, Deliver
<1>5. CASE Defer(d)
  BY <1>5 DEF Defer
<1> QED
  BY <1>1, <1>2, <1>3, <1>4, <1>5

LEMMA TypeStep ==
    ASSUME TypeOK, [Next]_vars
    PROVE  TypeOK'
<1>1. CASE UNCHANGED vars
  BY <1>1 DEF TypeOK, vars, reportVars, signVars, outboxVars, leaseVars, dispatchVars, indexVars
<1>2. ASSUME NEW r \in Reports, MarkReady(r) PROVE TypeOK'
  BY <1>2, ReadyCounted DEF MarkReady, TypeOK, signVars, leaseVars, dispatchVars
<1>3. CASE Triage
  <2>1. ASSUME NEW i \in Issues, SyncIssue(i) PROVE TypeOK'
    BY <2>1 DEF SyncIssue, TypeOK, elsewhereUnchanged, signVars, outboxVars, leaseVars, dispatchVars, indexVars
  <2> QED
    BY <1>3, <2>1, TypeTriage DEF Triage
<1>4. ASSUME NEW d \in Replicas, Crash(d) PROVE TypeOK'
  <2>1. UNCHANGED posted \/ (dpc[d] = "sending" /\ posted' = posted \cup {job[d]})
    BY <1>4 DEF Crash, Accept
  <2> QED
    BY <1>4, <2>1 DEF Crash, TypeOK, DeliveringPc, Rest, StartOver, reportVars, signVars, outboxVars, leaseVars
<1>5. ASSUME NEW d \in Replicas, IndexStep(d) \/ DispatchStep(d) \/ Failure(d) PROVE TypeOK'
  BY <1>5, <1>4, TypeIndexer, TypeStore, TypeDispatch DEF IndexStep, DispatchStep, Failure
<1>6. CASE ExpireLease \/ EndPause \/ CalmDown
  BY <1>6 DEF ExpireLease, EndPause, CalmDown, dispatcherOnly, TypeOK,
              reportVars, signVars, outboxVars, leaseVars, dispatchVars, indexVars
<1> QED
  BY <1>1, <1>2, <1>3, <1>5, <1>6 DEF Next

-----------------------------------------------------------------------------
(* The invariant *)

\* What a step of the indexer may do to the outbox: drop the row of a report that was not matched.
LEMMA StoreEffect ==
    ASSUME TypeOK, NEW d \in Replicas, Store(d)
    PROVE  \E r \in (Traced \cap ready) :
             /\ matched' = matched \cup {r}
             /\ outbox' \in {outbox, [outbox EXCEPT ![r] = "dropped"]}
             /\ r \in matched => UNCHANGED <<outbox, issueOf, handled>>
             /\ r \notin matched => UNCHANGED <<outbox, issueOf, handled>> \/ MatchIndexedReport(r)
             /\ UNCHANGED <<ready, rejected, posted, dpc, job, lease, expired>>
<1>1. PICK r \in todo[d] :
         /\ matched' = matched \cup {r}
         /\ IF r \in matched \/ Fingerprint[r] = None
            THEN UNCHANGED <<issueOf, handled, outbox>>
            ELSE MatchIndexedReport(r)
  BY DEF Store
<1>2. r \in Traced \cap ready
  BY DEF TypeOK
<1>3. MatchIndexedReport(r) => outbox' \in {outbox, [outbox EXCEPT ![r] = "dropped"]}
  BY DEF MatchIndexedReport, DropRow
<1>4. UNCHANGED <<ready, rejected, posted, dpc, job, lease, expired>>
  BY DEF Store, leaseVars, dispatchVars
<1> QED
  BY <1>1, <1>2, <1>3, <1>4

\* A report that may be announced stays one.
LEMMA AnnounceableKept ==
    ASSUME NotificationsInv, [Next]_vars, NEW r \in Reports, Announceable(r)
    PROVE  Announceable(r)'
<1> USE DEF NotificationsInv, TypeOK, Announceable
<1>1. CASE UNCHANGED coreVars
  BY <1>1 DEF coreVars
<1>2. ASSUME NEW q \in Reports, MarkReady(q) PROVE Announceable(r)'
  BY <1>2 DEF MarkReady, signVars
<1>3. ASSUME NEW d \in Replicas, Store(d) PROVE Announceable(r)'
  BY <1>3, StoreEffect
<1>4. ASSUME NEW d \in Replicas, Finish(d) PROVE Announceable(r)'
  BY <1>4 DEF Finish, Deliver, dispatcherOnly, reportVars, signVars
<1>5. ASSUME NEW d \in Replicas, Claim(d) \/ ReadTitle(d) \/ Send(d) \/ Defer(d) \/ Crash(d)
      PROVE  Announceable(r)'
  BY <1>5 DEF Claim, ReadTitle, Send, Defer, Crash, dispatcherOnly, reportVars, signVars, outboxVars
<1>6. CASE ExpireLease
  BY <1>6 DEF ExpireLease, dispatcherOnly, reportVars, signVars
<1> QED
  BY <1>1, <1>2, <1>3, <1>4, <1>5, <1>6, StepSplit DEF CoreStep

LEMMA OutboxStep ==
    ASSUME NotificationsInv, [Next]_vars
    PROVE  OutboxFollows'
<1> USE DEF NotificationsInv, TypeOK, OutboxFollows
<1>1. CASE UNCHANGED coreVars
  BY <1>1 DEF coreVars
<1>2. ASSUME NEW q \in Reports, MarkReady(q) PROVE OutboxFollows'
  BY <1>2 DEF MarkReady, signVars
<1>3. ASSUME NEW d \in Replicas, Store(d) PROVE OutboxFollows'
  BY <1>3, StoreEffect
<1>4. ASSUME NEW d \in Replicas, Finish(d) PROVE OutboxFollows'
  BY <1>4 DEF Finish, Deliver, dispatcherOnly, reportVars, signVars
<1>5. ASSUME NEW d \in Replicas, Claim(d) \/ ReadTitle(d) \/ Send(d) \/ Defer(d) \/ Crash(d)
      PROVE  OutboxFollows'
  BY <1>5 DEF Claim, ReadTitle, Send, Defer, Crash, dispatcherOnly, reportVars, signVars, outboxVars
<1>6. CASE ExpireLease
  BY <1>6 DEF ExpireLease, dispatcherOnly, reportVars, signVars
<1> QED
  BY <1>1, <1>2, <1>3, <1>4, <1>5, <1>6, StepSplit DEF CoreStep

\* What was posted stays posted, and what is posted was claimed.
LEMMA PostedEffect ==
    ASSUME NotificationsInv, [Next]_vars
    PROVE  /\ posted \subseteq posted'
           /\ \A r \in posted' : Announceable(r)
<1> USE DEF NotificationsInv, TypeOK, PostedAnnounceable, JobsAnnounceable, DeliveringPc
<1>1. CASE UNCHANGED posted
  BY <1>1
<1>2. ASSUME NEW d \in Replicas, dpc[d] = "sending", Accept(job[d])
      PROVE  posted \subseteq posted' /\ \A r \in posted' : Announceable(r)
  BY <1>2 DEF Accept
<1>3. CoreStep => UNCHANGED posted \/ \E d \in Replicas : dpc[d] = "sending" /\ Accept(job[d])
  <2>1. ASSUME NEW d \in Replicas, Store(d) \/ Claim(d) \/ ReadTitle(d) \/ Finish(d) \/ Defer(d)
        PROVE  UNCHANGED posted
    BY <2>1 DEF Store, Claim, ReadTitle, Finish, Defer, dispatchVars
  <2>2. ASSUME NEW d \in Replicas, Send(d) \/ Crash(d)
        PROVE  UNCHANGED posted \/ (dpc[d] = "sending" /\ Accept(job[d]))
    BY <2>2 DEF Send, Crash
  <2>3. ASSUME NEW r \in Reports, MarkReady(r) PROVE UNCHANGED posted
    BY <2>3 DEF MarkReady, dispatchVars
  <2>4. ExpireLease => UNCHANGED posted
    BY DEF ExpireLease, dispatchVars
  <2> QED
    BY <2>1, <2>2, <2>3, <2>4 DEF CoreStep
<1> QED
  BY <1>1, <1>2, <1>3, StepSplit DEF coreVars

LEMMA PostedStep ==
    ASSUME NotificationsInv, [Next]_vars
    PROVE  PostedAnnounceable'
<1>1. \A r \in posted' : r \in Reports /\ Announceable(r)
  BY PostedEffect DEF NotificationsInv, TypeOK, Announceable
<1>2. \A r \in posted' : Announceable(r)'
  BY <1>1, AnnounceableKept
<1> QED
  BY <1>2 DEF PostedAnnounceable

\* A dispatcher's report may be announced when it is claimed, and is posted when it is sent.
LEMMA JobEffect ==
    ASSUME NotificationsInv, [Next]_vars, NEW d \in Replicas, dpc'[d] \in DeliveringPc
    PROVE  /\ job'[d] \in Reports
           /\ Announceable(job'[d])
           /\ dpc'[d] = "sent" => job'[d] \in posted'
<1> USE DEF NotificationsInv, TypeOK, JobsAnnounceable, DeliveringPc
<1> DEFINE Good == /\ job'[d] \in Reports
                   /\ Announceable(job'[d])
                   /\ dpc'[d] = "sent" => job'[d] \in posted'
<1>1. ASSUME UNCHANGED <<dpc, job>> PROVE Good
  BY <1>1, PostedEffect
<1>2. ASSUME NEW e \in Replicas, Claim(e) PROVE Good
  <2>1. CASE UNCHANGED <<dpc, job>>
    BY <2>1, PostedEffect
  <2>2. ASSUME NEW r \in Reports, Eligible(r),
               dpc' = [dpc EXCEPT ![e] = "claimed"], job' = [job EXCEPT ![e] = r]
        PROVE  Good
    BY <2>2, PostedEffect DEF Eligible, Announceable
  <2> QED
    BY <1>2, <2>1, <2>2 DEF Claim
<1>3. ASSUME NEW e \in Replicas, ReadTitle(e) \/ Send(e) \/ Finish(e) \/ Defer(e) \/ Crash(e)
      PROVE  Good
  <2>1. CASE ReadTitle(e)
    BY <2>1, PostedEffect DEF ReadTitle, Rest
  <2>2. CASE Send(e)
    BY <2>2, PostedEffect DEF Send, Accept
  <2>3. CASE Finish(e)
    BY <2>3, PostedEffect DEF Finish, Rest
  <2>4. CASE Defer(e)
    BY <2>4, PostedEffect DEF Defer, Rest
  <2>5. CASE Crash(e)
    BY <2>5, PostedEffect DEF Crash, Rest
  <2> QED
    BY <1>3, <2>1, <2>2, <2>3, <2>4, <2>5
<1>4. ASSUME (\E r \in Reports : MarkReady(r)) \/ (\E e \in Replicas : Store(e)) \/ ExpireLease
      PROVE  Good
  <2>1. UNCHANGED <<dpc, job>>
    BY <1>4 DEF MarkReady, Store, ExpireLease, dispatchVars
  <2> QED
    BY <1>1, <2>1
<1>5. Good
  <2> HIDE DEF Good
  <2> QED
    BY <1>1, <1>2, <1>3, <1>4, StepSplit DEF CoreStep, coreVars
<1> QED
  BY <1>5

LEMMA JobsStep ==
    ASSUME NotificationsInv, [Next]_vars
    PROVE  JobsAnnounceable'
<1>1. \A j \in Reports : Announceable(j) => Announceable(j)'
  BY AnnounceableKept
<1>2. ASSUME NEW d \in Replicas, dpc'[d] \in DeliveringPc
      PROVE  Announceable(job[d])' /\ (dpc'[d] = "sent" => job'[d] \in posted')
  <2>1. /\ job'[d] \in Reports
        /\ Announceable(job'[d])
        /\ dpc'[d] = "sent" => job'[d] \in posted'
    BY <1>2, JobEffect
  <2> QED
    BY <1>1, <2>1 DEF Announceable
<1> QED
  BY <1>2 DEF JobsAnnounceable, DeliveringPc

LEMMA DeliveredStep ==
    ASSUME NotificationsInv, [Next]_vars
    PROVE  DeliveredWasPosted'
<1> USE DEF NotificationsInv, TypeOK, DeliveredWasPosted
<1>1. CASE UNCHANGED outbox
  BY <1>1, PostedEffect
<1>2. ASSUME NEW q \in Reports, MarkReady(q) PROVE DeliveredWasPosted'
  BY <1>2, PostedEffect DEF MarkReady
<1>3. ASSUME NEW d \in Replicas, Store(d) PROVE DeliveredWasPosted'
  BY <1>3, StoreEffect, PostedEffect
<1>4. ASSUME NEW d \in Replicas, Finish(d) PROVE DeliveredWasPosted'
  <2>1. job[d] \in posted
    BY <1>4 DEF Finish, JobsAnnounceable, DeliveringPc
  <2> QED
    BY <1>4, <2>1, PostedEffect DEF Finish, Deliver
<1>5. ASSUME NEW d \in Replicas, Claim(d) \/ ReadTitle(d) \/ Send(d) \/ Defer(d) \/ Crash(d)
      PROVE  UNCHANGED outbox
  BY <1>5 DEF Claim, ReadTitle, Send, Defer, Crash, outboxVars
<1>6. ExpireLease => UNCHANGED outbox
  BY DEF ExpireLease
<1> QED
  BY <1>1, <1>2, <1>3, <1>4, <1>5, <1>6, StepSplit DEF CoreStep, coreVars

LEMMA LeaseStep ==
    ASSUME NotificationsInv, [Next]_vars
    PROVE  LeaseHeld'
<1> SUFFICES ASSUME "stall" \notin Faults, NEW d \in Replicas, dpc'[d] \in DeliveringPc
             PROVE  lease' = d /\ ~expired'
  BY DEF LeaseHeld, DeliveringPc
<1> USE DEF NotificationsInv, TypeOK, DeliveringPc, LeaseHeld
<1>0. None \notin Replicas
  BY NotificationsAssumption
<1>1. CASE UNCHANGED <<dpc, lease, expired>>
  BY <1>1
<1>2. ASSUME NEW e \in Replicas, Claim(e) PROVE lease' = d /\ ~expired'
  BY <1>0, <1>2 DEF Claim, Available, ClearLease
<1>3. ASSUME NEW e \in Replicas, ReadTitle(e) \/ Send(e) PROVE lease' = d /\ ~expired'
  BY <1>3 DEF ReadTitle, Send, Rest, leaseVars
<1>4. ASSUME NEW e \in Replicas, Finish(e) \/ Defer(e) PROVE lease' = d /\ ~expired'
  <2>1. d # e
    BY <1>4 DEF Finish, Defer, Rest
  <2>2. dpc[d] \in DeliveringPc /\ dpc[e] \in DeliveringPc
    BY <1>4, <2>1 DEF Finish, Defer, Rest
  <2> QED
    BY <2>1, <2>2
<1>5. ASSUME NEW e \in Replicas, Crash(e) PROVE lease' = d /\ ~expired'
  BY <1>5 DEF Crash, Rest, leaseVars
<1>6. CASE ExpireLease
  BY <1>6 DEF ExpireLease, Strikes, dispatchVars
<1>7. CASE (\E r \in Reports : MarkReady(r)) \/ (\E e \in Replicas : Store(e))
  BY <1>1, <1>7 DEF MarkReady, Store, dispatchVars, leaseVars
<1> QED
  BY <1>1, <1>2, <1>3, <1>4, <1>5, <1>6, <1>7, StepSplit DEF CoreStep, coreVars

\* A report that matching links was handled, and one it leaves alone was handled before.
LEMMA AssignEffect ==
    ASSUME NotificationsInv, NEW r \in Reports, NEW i, AssignReport(r, i)
    PROVE  /\ r \in handled' /\ handled \subseteq handled'
           /\ \A q \in Reports : issueOf'[q] # None => q \in handled'
  BY DEF NotificationsInv, TypeOK, HandledRecorded, AssignReport

LEMMA HandledStep ==
    ASSUME NotificationsInv, [Next]_vars
    PROVE  HandledRecorded' /\ handled \subseteq handled'
<1> USE DEF NotificationsInv, TypeOK, HandledRecorded
<1>1. ASSUME UNCHANGED <<rejected, handled, issueOf>> PROVE HandledRecorded' /\ handled \subseteq handled'
  BY <1>1
<1>2. ASSUME Triage PROVE HandledRecorded' /\ handled \subseteq handled'
  <2>1. Triaged \subseteq Reports
    BY NotificationsAssumption
  <2>2. ASSUME NEW r \in Triaged, Reject(r) \/ Restore(r) \/ UnlinkReport(r)
        PROVE  HandledRecorded' /\ handled \subseteq handled'
    BY <2>1, <2>2 DEF Reject, Restore, UnlinkReport
  <2>3. ASSUME NEW r \in Triaged, NEW i \in Issues, LinkReport(r, i)
        PROVE  HandledRecorded' /\ handled \subseteq handled'
    BY <2>1, <2>3 DEF LinkReport
  <2>4. ASSUME NEW i \in Issues, SyncIssue(i) PROVE HandledRecorded' /\ handled \subseteq handled'
    BY <2>4, <1>1 DEF SyncIssue
  <2> QED
    BY <1>2, <2>2, <2>3, <2>4 DEF Triage
<1>3. ASSUME NEW d \in Replicas, Store(d) PROVE HandledRecorded' /\ handled \subseteq handled'
  <2>1. PICK r \in Traced \cap ready :
           /\ UNCHANGED <<issueOf, handled>> \/ MatchIndexedReport(r)
           /\ UNCHANGED rejected
    BY <1>3, StoreEffect
  <2>2. r \in Reports
    BY NotificationsAssumption
  <2>3. UNCHANGED <<issueOf, handled>> \/ \E i \in MatchingIssues(r) : AssignReport(r, i)
    BY <2>1 DEF MatchIndexedReport
  <2> QED
    BY <2>1, <2>2, <2>3, AssignEffect
<1>4. ASSUME NEW d \in Replicas, IndexStep(d) \/ DispatchStep(d) \/ Failure(d), ~Store(d)
      PROVE  UNCHANGED <<rejected, handled, issueOf>>
  BY <1>4 DEF IndexStep, DispatchStep, Failure, Listen, Scan, EndBatch, Wake, Reconnect, LoseConnection,
              IndexFails, Crash, Claim, ReadTitle, Send, Finish, Defer, indexerOnly, dispatcherOnly, reportVars
<1>5. ASSUME ExpireLease \/ EndPause \/ CalmDown \/ (\E r \in Reports : MarkReady(r)) \/ UNCHANGED vars
      PROVE  UNCHANGED <<rejected, handled, issueOf>>
  BY <1>5 DEF ExpireLease, EndPause, CalmDown, MarkReady, dispatcherOnly, reportVars, vars
<1> QED
  BY <1>1, <1>2, <1>3, <1>4, <1>5 DEF Next

\* The inductive invariant: what is under way, posted or delivered may be announced, rows follow
\* the readiness and the matching of their reports, and a lease is behind every delivery.
THEOREM Inductive == Spec => []NotificationsInv
<1>1. Init => NotificationsInv
  <2>1. ASSUME Init PROVE OutboxFollows /\ JobsAnnounceable /\ PostedAnnounceable
                          /\ DeliveredWasPosted /\ LeaseHeld /\ HandledRecorded
    BY <2>1, TypeInit DEF Init, OutboxFollows, JobsAnnounceable, PostedAnnounceable, DeliveredWasPosted,
                LeaseHeld, HandledRecorded, DeliveringPc
  <2> QED
    BY <2>1, TypeInit DEF NotificationsInv
<1>2. NotificationsInv /\ [Next]_vars => NotificationsInv'
  <2> SUFFICES ASSUME NotificationsInv, [Next]_vars PROVE NotificationsInv'
    OBVIOUS
  <2>1. TypeOK'
    BY TypeStep DEF NotificationsInv
  <2> QED
    BY <2>1, OutboxStep, JobsStep, PostedStep, DeliveredStep, LeaseStep, HandledStep DEF NotificationsInv
<1> QED
  BY <1>1, <1>2, PTL DEF Spec

\* Every variable keeps its type.
THEOREM TypeCorrect == Spec => []TypeOK
<1>1. NotificationsInv => TypeOK
  BY DEF NotificationsInv
<1> QED
  BY <1>1, Inductive, PTL

\* finish_discord_notification records only what Discord accepted, also when leases are lost.
THEOREM DeliveryConfirmed == Spec => []DeliveredWasPosted
<1>1. NotificationsInv => DeliveredWasPosted
  BY DEF NotificationsInv
<1> QED
  BY <1>1, Inductive, PTL

\* Replicas that do not outlive their leases deliver one at a time.
THEOREM DeliveriesExclude == Spec => []OneDeliveryAtATime
<1>1. NotificationsInv => OneDeliveryAtATime
  BY DEF NotificationsInv, LeaseHeld, OneDeliveryAtATime
<1> QED
  BY <1>1, Inductive, PTL

\* No announced report loses its notification to a later match.
THEOREM MatchingFirst == Spec => []AnnouncedNotDropped
<1>1. NotificationsInv => AnnouncedNotDropped
  BY DEF NotificationsInv, PostedAnnounceable, Announceable, AnnouncedNotDropped
<1> QED
  BY <1>1, Inductive, PTL

\* A stale batch neither links a matched report again nor drops its notification.
THEOREM NeverMatchedAgain == Spec => MatchedOnce
<1>1. ASSUME NotificationsInv, NEW d \in Replicas, Store(d), NEW r \in matched
      PROVE  issueOf'[r] = issueOf[r] /\ outbox'[r] = outbox[r]
  <2>1. PICK q \in Traced \cap ready :
           /\ q \in matched => UNCHANGED <<outbox, issueOf>>
           /\ q \notin matched => UNCHANGED <<outbox, issueOf>> \/ MatchIndexedReport(q)
    BY <1>1, StoreEffect DEF NotificationsInv
  <2>2. CASE UNCHANGED <<outbox, issueOf>>
    BY <2>2
  <2>3. CASE q \notin matched /\ MatchIndexedReport(q)
    BY <1>1, <2>3 DEF MatchIndexedReport, AssignReport, DropRow, NotificationsInv, TypeOK
  <2> QED
    BY <2>1, <2>2, <2>3
<1>2. NotificationsInv => [\A d \in Replicas : Store(d) =>
          \A r \in matched : issueOf'[r] = issueOf[r] /\ outbox'[r] = outbox[r]]_vars
  BY <1>1
<1> QED
  BY <1>2, Inductive, PTL DEF MatchedOnce

-----------------------------------------------------------------------------
(* What stands behind a dropped notification *)

Seen(q) == q \in handled \/ outbox[q] \in {"waiting", "delivered"}

\* q speaks for r.
Behind(q, r) ==
    /\ q \in (Traced \cap ready) \ {r}
    /\ Fingerprint[q] = Fingerprint[r]
    /\ CreatedAt[q] <= CreatedAt[r]

\* Reports with one signature were created at different times.
DistinctTimes ==
    \A q, r \in Traced : q # r /\ Fingerprint[q] = Fingerprint[r] => CreatedAt[q] # CreatedAt[r]

\* A recent twin is seen itself, or there is an earlier report that is.
LEMMA EarlierSeen ==
    ASSUME NotificationsInv, DroppedBehindSeen, NEW p \in Traced \cap ready
    PROVE  \E s \in Traced \cap ready : /\ Fingerprint[s] = Fingerprint[p]
                                      /\ CreatedAt[s] <= CreatedAt[p]
                                      /\ Seen(s)
<1> USE NotificationsAssumption
<1>1. CASE Seen(p)
  BY <1>1
<1>2. CASE ~Seen(p)
  <2>1. outbox[p] = "dropped" /\ p \notin handled
    BY <1>2 DEF NotificationsInv, TypeOK, OutboxFollows, Seen
  <2> QED
    BY <2>1 DEF DroppedBehindSeen, Seen
<1> QED
  BY <1>1, <1>2

\* A step other than a drop keeps what is seen, and drops nothing.
LEMMA SeenKept ==
    ASSUME NotificationsInv, [Next]_vars, NEW q \in ready,
           outbox'[q] = outbox[q] \/ outbox'[q] \in {"waiting", "delivered"}
    PROVE  Seen(q) => Seen(q)'
  BY HandledStep DEF Seen

LEMMA ReadyKept ==
    ASSUME NotificationsInv, [Next]_vars
    PROVE  ready \subseteq ready'
<1>1. CASE UNCHANGED ready
  BY <1>1
<1>2. CASE CoreStep
  BY <1>2 DEF CoreStep, MarkReady, Store, Claim, ReadTitle, Send, Finish, Defer, Crash, ExpireLease,
              dispatcherOnly, reportVars
<1> QED
  BY <1>1, <1>2, StepSplit DEF coreVars

\* Only an indexer drops a row, and only one row.
LEMMA DropEffect ==
    ASSUME NotificationsInv, [Next]_vars
    PROVE  \/ \A q \in Reports : \/ outbox'[q] = outbox[q]
                                 \/ outbox'[q] \in {"waiting", "delivered"}
           \/ \E r \in Traced \cap ready :
                /\ outbox' = [outbox EXCEPT ![r] = "dropped"]
                /\ MatchIndexedReport(r)
<1> USE DEF NotificationsInv, TypeOK
<1>1. CASE UNCHANGED outbox
  BY <1>1
<1>2. ASSUME NEW r \in Reports, MarkReady(r)
      PROVE  \A q \in Reports : outbox'[q] = outbox[q] \/ outbox'[q] \in {"waiting", "delivered"}
  BY <1>2 DEF MarkReady
<1>3. ASSUME NEW d \in Replicas, Finish(d)
      PROVE  \A q \in Reports : outbox'[q] = outbox[q] \/ outbox'[q] \in {"waiting", "delivered"}
  BY <1>3 DEF Finish, Deliver
<1>4. ASSUME NEW d \in Replicas, Store(d)
      PROVE  UNCHANGED outbox \/ \E r \in Traced \cap ready :
                /\ outbox' = [outbox EXCEPT ![r] = "dropped"]
                /\ MatchIndexedReport(r)
  BY <1>4, StoreEffect
<1>5. ASSUME NEW d \in Replicas, Claim(d) \/ ReadTitle(d) \/ Send(d) \/ Defer(d) \/ Crash(d)
      PROVE  UNCHANGED outbox
  BY <1>5 DEF Claim, ReadTitle, Send, Defer, Crash, outboxVars
<1>6. ExpireLease => UNCHANGED outbox
  BY DEF ExpireLease
<1> QED
  BY <1>1, <1>2, <1>3, <1>4, <1>5, <1>6, StepSplit DEF CoreStep, coreVars

\* The reason of a drop: the report is handled now, or a seen one came before it.
LEMMA DropReason ==
    ASSUME NotificationsInv, DroppedBehindSeen, DistinctTimes, NEW r \in Traced \cap ready,
           outbox' = [outbox EXCEPT ![r] = "dropped"], MatchIndexedReport(r), outbox' # outbox
    PROVE  \/ r \in handled'
           \/ \E s \in Traced \cap ready : /\ Fingerprint[s] = Fingerprint[r]
                                         /\ CreatedAt[s] < CreatedAt[r]
                                         /\ Seen(s)
<1> USE NotificationsAssumption
<1>1. CASE \E i \in MatchingIssues(r) : AssignReport(r, i)
  BY <1>1, AssignEffect
<1>2. CASE RecentTwins(r) # {}
  <2>1. PICK p \in RecentTwins(r) : TRUE
    BY <1>2
  <2>2. /\ p \in Traced \cap ready /\ p # r
        /\ Fingerprint[p] = Fingerprint[r]
        /\ CreatedAt[p] <= CreatedAt[r]
    BY <2>1 DEF RecentTwins, Twins, NotificationsInv, TypeOK
  <2>3. CreatedAt[p] < CreatedAt[r]
    BY <2>2 DEF DistinctTimes
  <2>4. PICK s \in Traced \cap ready : /\ Fingerprint[s] = Fingerprint[p]
                                      /\ CreatedAt[s] <= CreatedAt[p]
                                      /\ Seen(s)
    BY <2>2, EarlierSeen
  <2>5. CreatedAt[s] < CreatedAt[r]
    BY <2>2, <2>3, <2>4
  <2> QED
    BY <2>2, <2>4, <2>5
<1> QED
  BY <1>1, <1>2 DEF MatchIndexedReport

LEMMA SeenStep ==
    ASSUME NotificationsInv, DroppedBehindSeen, DistinctTimes, [Next]_vars
    PROVE  DroppedBehindSeen'
<1> USE NotificationsAssumption
<1>1. handled \subseteq handled' /\ ready \subseteq ready'
  BY HandledStep, ReadyKept
<1> SUFFICES ASSUME NEW r \in Reports, outbox'[r] = "dropped", r \notin handled'
             PROVE  \E q \in (Traced \cap ready) \ {r} : Behind(q, r) /\ Seen(q)'
  BY <1>1 DEF DroppedBehindSeen, Behind, Seen
<1>2. CASE outbox[r] = "dropped" /\ \A q \in Reports : outbox'[q] = outbox[q] \/ outbox'[q] \in {"waiting", "delivered"}
  <2>1. PICK q \in (Traced \cap ready) \ {r} : Behind(q, r) /\ Seen(q)
    BY <1>1, <1>2 DEF DroppedBehindSeen, Behind, Seen
  <2>2. Seen(q)'
    BY <1>2, <2>1, SeenKept
  <2> QED
    BY <2>1, <2>2
<1>3. ASSUME NEW p \in Traced \cap ready, outbox' = [outbox EXCEPT ![p] = "dropped"],
             MatchIndexedReport(p), outbox' # outbox
      PROVE  \E q \in (Traced \cap ready) \ {r} : Behind(q, r) /\ Seen(q)'
  <2>1. \A s \in ready : s # p /\ Seen(s) => Seen(s)'
    BY <1>1, <1>3 DEF Seen, NotificationsInv, TypeOK
  <2>2. ASSUME NEW s \in Traced \cap ready, Fingerprint[s] = Fingerprint[p], CreatedAt[s] < CreatedAt[p], Seen(s)
        PROVE  Seen(s)'
    BY <2>1, <2>2
  <2>3. p \in handled' \/ \E s \in Traced \cap ready :
           /\ Fingerprint[s] = Fingerprint[p] /\ CreatedAt[s] < CreatedAt[p] /\ Seen(s)'
    BY <1>3, <2>2, DropReason
  <2>4. CASE r = p
    BY <2>3, <2>4 DEF Behind
  <2>5. CASE r # p
    <3>1. outbox[r] = "dropped" /\ r \notin handled
      BY <1>1, <1>3, <2>5 DEF NotificationsInv, TypeOK
    <3>2. PICK q \in (Traced \cap ready) \ {r} : Behind(q, r) /\ Seen(q)
      BY <3>1 DEF DroppedBehindSeen, Behind, Seen
    <3>3. CASE q # p
      BY <2>1, <3>2, <3>3
    <3>4. CASE q = p /\ p \in handled'
      BY <3>2, <3>4 DEF Seen
    <3>5. ASSUME q = p, NEW s \in Traced \cap ready, Fingerprint[s] = Fingerprint[p],
                 CreatedAt[s] < CreatedAt[p], Seen(s)'
          PROVE  s # r /\ Behind(s, r)
      BY <3>2, <3>5 DEF Behind
    <3> QED
      BY <2>3, <3>3, <3>4, <3>5
  <2> QED
    BY <2>4, <2>5
<1>4. CASE outbox' = outbox
  BY <1>2, <1>4
<1> QED
  BY <1>2, <1>3, <1>4, DropEffect DEF NotificationsInv, TypeOK

\* No crash goes unseen, unless two reports with one signature have the very same created_at:
\* of a burst the first report is announced, or a maintainer has dealt with it.
THEOREM NoSilentBurst ==
    ASSUME DistinctTimes
    PROVE  Spec => []DroppedBehindSeen
<1>1. Init => DroppedBehindSeen
  BY DEF Init, DroppedBehindSeen
<1>2. NotificationsInv /\ DroppedBehindSeen /\ [Next]_vars => DroppedBehindSeen'
  BY SeenStep
<1> QED
  BY <1>1, <1>2, Inductive, PTL DEF Spec

=============================================================================
