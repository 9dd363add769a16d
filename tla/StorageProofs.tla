---------------------------- MODULE StorageProofs ----------------------------
(***************************************************************************)
(* Proofs about what is stored: Retention, for every set of reports, keys, *)
(* links and processes and every retention, and Compression, for every     *)
(* number of processes and files.                                          *)
(***************************************************************************)
EXTENDS Retention, Compression, TLAPS

-----------------------------------------------------------------------------
(* Purges *)

\* What a process may hold of a purge.
PurgeStates == {Idle} \cup [op : {"files", "row"}, left : Seq(Reports) \ {<<>>}]

\* A report that is gone or has expired, in a given table at a given time.
Over(r, rows, time, purged) ==
    r \in purged \/ (rows[r] # None /\ rows[r].expires # None /\ rows[r].expires <= time)

LEMMA PurgeHolds ==
    ASSUME RetentionTypes, NEW a \in Admins
    PROVE  /\ purge[a].left \in Seq(Reports) /\ purge[a].op \in {"idle", "files", "row"}
           /\ purge[a].op # "idle" => /\ Head(purge[a].left) \in Reports
                                      /\ Head(purge[a].left) = purge[a].left[1]
                                      /\ 1 \in DOMAIN purge[a].left
                                      /\ Tail(purge[a].left) \in Seq(Reports)
           /\ purge[a] = Idle <=> purge[a].op = "idle"
<1>1. purge[a] \in PurgeStates
  BY DEF RetentionTypes, PurgeStates
<1>2. CASE purge[a] = Idle
  BY <1>2 DEF Idle
<1>3. CASE purge[a] \in [op : {"files", "row"}, left : Seq(Reports) \ {<<>>}]
  BY <1>3 DEF Idle
<1>4. QED
  BY <1>1, <1>2, <1>3 DEF PurgeStates

\* A process goes on with what is left.
LEMMA NextPurgeHolds ==
    ASSUME NEW left \in Seq(Reports)
    PROVE  /\ NextPurge(left) \in PurgeStates /\ NextPurge(left).left = left
           /\ NextPurge(left).op # "row"
<1>1. CASE left = <<>>
  BY <1>1 DEF NextPurge, PurgeStates, Idle
<1>2. CASE left # <<>>
  BY <1>2 DEF NextPurge, PurgeStates
<1>3. QED
  BY <1>1, <1>2

\* What has expired stays so, and what is gone stays gone.
LEMMA OverStays ==
    ASSUME RetentionTypes, now' >= now, now' \in Nat, gone \subseteq gone',
           \A r \in Reports : Stored(r) /\ r \notin gone' =>
               /\ report'[r] # None
               /\ report[r].expires # None => report'[r].expires = report[r].expires,
           NEW r \in Reports, Over(r, report, now, gone)
    PROVE  Over(r, report', now', gone')
<1>1. Stored(r) => report[r].expires \in Nat \cup {None}
  BY DEF RetentionTypes, ReportRows, Stored
<1>2. now \in Nat
  BY DEF RetentionTypes
<1>3. QED
  BY <1>1, <1>2 DEF Over, Stored

\* PurgesExpired, report by report.
LEMMA PurgesOver ==
    PurgesExpired <=>
        \A a \in Admins : \A i \in DOMAIN purge[a].left : Over(purge[a].left[i], report, now, gone)
BY DEF PurgesExpired, Over, Stored, Expired

\* One process goes on with some of what it had, or with what is over; the others stay.
LEMMA PurgeStep ==
    ASSUME RetentionTypes, NEW a \in Admins, NEW hand \in PurgeStates, purge' = [purge EXCEPT ![a] = hand],
           PurgesExpired,
           \A r \in Reports : Over(r, report, now, gone) => Over(r, report', now', gone'),
           \A i \in DOMAIN hand.left : Over(hand.left[i], report', now', gone')
    PROVE  PurgesExpired' /\ purge' \in [Admins -> PurgeStates]
<1>1. purge \in [Admins -> PurgeStates]
  BY DEF RetentionTypes, PurgeStates
<1>2. /\ purge' \in [Admins -> PurgeStates] /\ purge'[a] = hand
      /\ \A b \in Admins \ {a} : purge'[b] = purge[b]
  BY <1>1
<1>3. ASSUME NEW b \in Admins, NEW i \in DOMAIN purge'[b].left
      PROVE  Over(purge'[b].left[i], report', now', gone')
  <2>1. CASE b = a
    BY <1>2, <1>3, <2>1
  <2>2. CASE b # a
    <3>1. i \in DOMAIN purge[b].left /\ purge'[b].left[i] = purge[b].left[i]
      BY <1>2, <1>3, <2>2
    <3>2. purge[b].left[i] \in Reports
      BY <3>1, PurgeHolds
    <3>3. QED
      BY <3>1, <3>2, PurgesOver
  <2>3. QED
    BY <2>1, <2>2
<1>4. PurgesExpired'
  BY <1>3 DEF PurgesExpired, Over, Stored, Expired
<1>5. QED
  BY <1>2, <1>4

-----------------------------------------------------------------------------
(* The inductive invariant *)

\* Blocks that no administrator has lifted are active.
BlocksActive == \A k \in Keys : Active(k) <=> k \in blocked

\* What a report's page shows follows from where its blocks come from.
LEMMA BlocksShown ==
    ASSUME RetentionTypes, BlocksFromReports, BlocksActive
    PROVE  BlocksHold
<1> SUFFICES ASSUME NEW r \in Reports, Stored(r)
             PROVE  ShownBlocked(r) <=> \E k \in KeyToUnblock(r) : Active(k)
  BY DEF BlocksHold, BlocksActive
<1>1. report[r].source \in Keys \cup {None} /\ r # None
  BY RetentionAssumption DEF RetentionTypes, ReportRows, Stored
<1>2. \A k \in Keys : Active(k) /\ block[k].report = r => report[r].source \in {k, None}
  BY <1>1 DEF BlocksFromReports, Active
<1>3. CASE report[r].source = None
  BY <1>3, RetentionAssumption DEF ShownBlocked, KeyToUnblock, BlockedFrom
<1>4. CASE report[r].source # None
  BY <1>1, <1>2, <1>4 DEF ShownBlocked, KeyToUnblock
<1>5. QED
  BY <1>3, <1>4

LEMMA RetentionParts ==
    RetentionInv <=> /\ RetentionTypes /\ OneStage /\ PurgesExpired /\ FilesFirst /\ MovedFirst /\ BlocksFromReports
                     /\ FilesAndRows /\ BlocksActive
<1>1. BlocksHold => BlocksActive
  BY DEF BlocksHold, BlocksActive
<1>2. QED
  BY <1>1, BlocksShown DEF RetentionInv

LEMMA RetentionPartsNext ==
    ASSUME RetentionTypes', OneStage', PurgesExpired', FilesFirst', MovedFirst', BlocksFromReports', FilesAndRows',
           BlocksActive'
    PROVE  RetentionInv'
BY RetentionParts, PTL

-----------------------------------------------------------------------------
(* Submissions *)

LEMMA LetInStep ==
    ASSUME RetentionInv, NEW r \in Reports, NEW k \in Keys, LetIn(r, k)
    PROVE  RetentionInv'
<1>1. /\ RetentionTypes /\ OneStage /\ PurgesExpired /\ FilesFirst /\ MovedFirst /\ BlocksFromReports
      /\ FilesAndRows /\ BlocksActive
  BY RetentionParts
<1>2. /\ entering' = [entering EXCEPT ![r] = k] /\ ~Stored(r) /\ r \notin gone
      /\ UNCHANGED <<now, report, gone, files, recovery, late, share, block, blocked, purge>>
  BY DEF LetIn, Stored
<1>3. RetentionTypes'
  BY <1>1, <1>2 DEF RetentionTypes
<1>4. OneStage'
  BY <1>1, <1>2 DEF OneStage, RetentionTypes, Stored
<1>5. PurgesExpired' /\ FilesFirst' /\ BlocksFromReports' /\ BlocksActive'
  BY <1>1, <1>2 DEF PurgesExpired, FilesFirst, BlocksFromReports, BlocksActive, Stored, Expired, Active
<1>6. MovedFirst' /\ FilesAndRows'
  BY <1>1, <1>2 DEF MovedFirst, FilesAndRows, Ready, Stored, Expired
<1>7. QED
  BY <1>3, <1>4, <1>5, <1>6, RetentionPartsNext

LEMMA ArriveStep ==
    ASSUME RetentionInv, NEW r \in Reports, Arrive(r)
    PROVE  RetentionInv'
<1>1. /\ RetentionTypes /\ OneStage /\ PurgesExpired /\ FilesFirst /\ MovedFirst /\ BlocksFromReports
      /\ FilesAndRows /\ BlocksActive
  BY RetentionParts
<1> DEFINE row == [created |-> now, expires |-> now + ReportRetention, source |-> entering[r],
                   state |-> "triage", storage |-> "pending_files"]
<1>2. /\ report' = [report EXCEPT ![r] = row]
      /\ files' = [files EXCEPT ![r] = "staged"] /\ entering' = [entering EXCEPT ![r] = None]
      /\ recovery' = [recovery EXCEPT ![r] = "finalize"]
      /\ ~Stored(r) /\ r \notin gone
      /\ UNCHANGED <<now, gone, late, share, block, blocked, purge>>
  BY <1>1 DEF Arrive, OneStage
<1>3. row \in ReportRows /\ row.storage = "pending_files"
  BY <1>1, RetentionAssumption DEF ReportRows, RetentionTypes
<1> HIDE DEF row
<1>4. /\ report' \in [Reports -> ReportRows \cup {None}]
      /\ \A x \in Reports \ {r} : /\ report'[x] = report[x] /\ files'[x] = files[x]
                                   /\ entering'[x] = entering[x] /\ recovery'[x] = recovery[x]
      /\ report'[r] = row /\ files'[r] = "staged" /\ entering'[r] = None /\ recovery'[r] = "finalize"
  BY <1>1, <1>2, <1>3 DEF RetentionTypes
<1>5. RetentionTypes'
  BY <1>1, <1>2, <1>4 DEF RetentionTypes
<1>6. OneStage'
  BY <1>1, <1>2, <1>4 DEF OneStage, Stored
<1>7. FilesAndRows' /\ MovedFirst'
  BY <1>1, <1>2, <1>3, <1>4 DEF FilesAndRows, MovedFirst, Ready, Stored, Expired
<1>8. ASSUME NEW a \in Admins, NEW i \in DOMAIN purge[a].left
      PROVE  /\ purge[a].left[i] \in Reports \ {r}
             /\ Over(purge[a].left[i], report', now', gone')
  BY <1>1, <1>2, <1>4, PurgeHolds, PurgesOver DEF Over, Stored
<1>9. PurgesExpired'
  BY <1>2, <1>8 DEF PurgesExpired, Over, Stored, Expired
<1>10. FilesFirst'
  BY <1>1, <1>2, <1>4, <1>8, PurgeHolds DEF FilesFirst
<1>11. BlocksActive'
  BY <1>1, <1>2 DEF BlocksActive, Active
<1>12. BlocksFromReports'
  BY <1>1, <1>2, <1>4 DEF BlocksFromReports, Stored, RetentionTypes, BlockRows
<1>13. QED
  BY <1>5, <1>6, <1>7, <1>9, <1>10, <1>11, <1>12, RetentionPartsNext

-----------------------------------------------------------------------------
(* Files *)

\* What follows for the rest when only files are moved, and none of a row marked.
LEMMA MoveStep ==
    ASSUME RetentionInv, RetentionTypes', FilesFirst', MovedFirst', FilesAndRows',
           UNCHANGED <<now, report, entering, gone, share, block, blocked, purge>>
    PROVE  RetentionInv'
<1>1. OneStage /\ PurgesExpired /\ BlocksFromReports /\ BlocksActive
  BY RetentionParts
<1>2. OneStage' /\ PurgesExpired' /\ BlocksFromReports' /\ BlocksActive'
  BY <1>1 DEF OneStage, PurgesExpired, BlocksFromReports, BlocksActive, Stored, Expired, Active
<1>3. QED
  BY <1>2, RetentionPartsNext

LEMMA RecoverStep ==
    ASSUME RetentionInv, NEW r \in Reports, Recover(r) \/ LeavePending(r)
    PROVE  RetentionInv'
<1>1. RetentionTypes /\ FilesFirst /\ MovedFirst /\ FilesAndRows
  BY RetentionParts
<1>2. /\ \E next \in {"none", "finalize"} : recovery' = [recovery EXCEPT ![r] = next]
      /\ UNCHANGED <<now, report, entering, gone, files, late, share, block, blocked, purge>>
  BY DEF Recover, LeavePending
<1>3. RetentionTypes'
  BY <1>1, <1>2 DEF RetentionTypes
<1>4. FilesFirst' /\ FilesAndRows'
  BY <1>1, <1>2 DEF FilesFirst, FilesAndRows, Ready, Stored, Expired
<1>5. MovedFirst'
  BY <1>1, <1>2 DEF MovedFirst, RetentionTypes, Stored, Expired
<1>6. QED
  BY <1>2, <1>3, <1>4, <1>5, MoveStep

\* A rename finds files of a report that has not expired staged or in their place, and is late for
\* one that a purge has looked for.
LEMMA FinalizeStep ==
    ASSUME RetentionInv, NEW r \in Reports, Finalize(r)
    PROVE  RetentionInv'
<1>1. RetentionTypes /\ FilesFirst /\ MovedFirst /\ FilesAndRows
  BY RetentionParts
<1>2. /\ files' = [files EXCEPT ![r] = IF @ = "staged" THEN "whole" ELSE @]
      /\ late' = IF files[r] = "staged" /\ PurgedPast(r) THEN late \cup {r} ELSE late
      /\ recovery' = [recovery EXCEPT ![r] = "mark"]
      /\ UNCHANGED <<now, report, entering, gone, share, block, blocked, purge>>
  BY DEF Finalize
<1>3. /\ \A x \in Reports \ {r} : files'[x] = files[x] /\ recovery'[x] = recovery[x]
      /\ files'[r] = IF files[r] = "staged" THEN "whole" ELSE files[r]
      /\ late \subseteq late'
      /\ files[r] = "staged" /\ PurgedPast(r) => r \in late'
  BY <1>1, <1>2 DEF RetentionTypes
<1>4. RetentionTypes'
  BY <1>1, <1>2 DEF RetentionTypes
<1>5. FilesFirst'
  <2>1. ASSUME NEW a \in Admins, purge'[a].op = "row"
        PROVE  /\ Head(purge'[a].left) \in Reports
               /\ files'[Head(purge'[a].left)] \in {"none", "staged"} \/ Head(purge'[a].left) \in late'
    <3> DEFINE x == Head(purge[a].left)
    <3>1. purge[a].op = "row" /\ x \in Reports
      BY <1>1, <1>2, <2>1, PurgeHolds
    <3>2. files[x] \in {"none", "staged"} \/ x \in late
      BY <1>1, <3>1 DEF FilesFirst
    <3>3. x = r => PurgedPast(r)
      BY <3>1 DEF PurgedPast
    <3>4. QED
      BY <1>2, <1>3, <3>1, <3>2, <3>3
  <2>2. QED
    BY <2>1 DEF FilesFirst
<1>6. FilesAndRows'
  <2>1. r \in gone => PurgedPast(r)
    BY DEF PurgedPast
  <2>2. QED
    BY <1>1, <1>2, <1>3, <2>1 DEF FilesAndRows, Ready, Stored, Expired
<1>7. MovedFirst'
  BY <1>1, <1>2, <1>3 DEF MovedFirst, FilesAndRows, Ready, Stored, Expired
<1>8. QED
  BY <1>2, <1>4, <1>5, <1>6, <1>7, MoveStep

\* A report is marked when its files are in place.
LEMMA MarkReadyStep ==
    ASSUME RetentionInv, NEW r \in Reports, MarkReady(r)
    PROVE  RetentionInv'
<1>1. /\ RetentionTypes /\ OneStage /\ PurgesExpired /\ FilesFirst /\ MovedFirst /\ BlocksFromReports
      /\ FilesAndRows /\ BlocksActive
  BY RetentionParts
<1> DEFINE row == IF Stored(r) THEN [report[r] EXCEPT !.storage = "ready"] ELSE report[r]
<1>2. /\ report' = [report EXCEPT ![r] = row] /\ recovery[r] = "mark"
      /\ recovery' = [recovery EXCEPT ![r] = "none"]
      /\ UNCHANGED <<now, entering, gone, files, late, share, block, blocked, purge>>
  BY DEF MarkReady
<1>3. /\ row \in ReportRows \cup {None} /\ (row = None <=> report[r] = None)
      /\ report[r] # None => row.expires = report[r].expires /\ row.source = report[r].source
  <2>1. CASE Stored(r)
    <3>1. report[r] \in ReportRows /\ row = [report[r] EXCEPT !.storage = "ready"]
      BY <1>1, <2>1 DEF RetentionTypes, Stored
    <3>2. row \in ReportRows /\ row.expires = report[r].expires /\ row.source = report[r].source
      BY <3>1 DEF ReportRows
    <3>3. QED
      BY <2>1, <3>2, RetentionAssumption DEF Stored
  <2>2. CASE ~Stored(r)
    BY <1>1, <2>2 DEF RetentionTypes, Stored
  <2>3. QED
    BY <2>1, <2>2
<1> HIDE DEF row
<1>4. ASSUME NEW x \in Reports
      PROVE  /\ report'[x] \in ReportRows \cup {None} /\ (report'[x] = None <=> report[x] = None)
             /\ report[x] # None => /\ report'[x].expires = report[x].expires
                                    /\ report'[x].source = report[x].source
             /\ x # r => report'[x] = report[x] /\ recovery'[x] = recovery[x]
  BY <1>1, <1>2, <1>3 DEF RetentionTypes
<1>5. recovery' \in [Reports -> {"none", "finalize", "mark"}] /\ recovery'[r] = "none"
  BY <1>1, <1>2 DEF RetentionTypes
<1>6. RetentionTypes'
  <2>1. report' \in [Reports -> ReportRows \cup {None}]
    BY <1>1, <1>2, <1>3 DEF RetentionTypes
  <2>2. QED
    BY <1>1, <1>2, <1>5, <2>1 DEF RetentionTypes
<1>7. OneStage'
  BY <1>1, <1>2, <1>4 DEF OneStage, Stored
<1>8. PurgesExpired'
  <2>1. ASSUME NEW a \in Admins, NEW i \in DOMAIN purge[a].left
        PROVE  Over(purge[a].left[i], report', now', gone')
    BY <1>1, <1>2, <1>4, PurgeHolds, PurgesOver DEF Over
  <2>2. QED
    BY <1>2, <2>1 DEF PurgesExpired, Over, Stored, Expired
<1>9. FilesFirst' /\ BlocksActive'
  BY <1>1, <1>2 DEF FilesFirst, BlocksActive, Active
<1>10. FilesAndRows'
  BY <1>1, <1>2, <1>4 DEF FilesAndRows, MovedFirst, Ready, Stored, Expired
<1>11. MovedFirst'
  BY <1>1, <1>2, <1>4, <1>5 DEF MovedFirst, Stored, Expired
<1>12. BlocksFromReports'
  <2>1. \A k \in Keys : block[k] # None => block[k].report \in Reports \cup {None}
    BY <1>1 DEF RetentionTypes, BlockRows
  <2>2. QED
    BY <1>1, <1>2, <1>4, <2>1 DEF BlocksFromReports, Stored
<1>13. QED
  BY <1>6, <1>7, <1>8, <1>9, <1>10, <1>11, <1>12, RetentionPartsNext

LEMMA SweepStagingStep ==
    ASSUME RetentionInv, NEW r \in Reports, SweepStaging(r)
    PROVE  RetentionInv'
<1>1. RetentionTypes /\ FilesFirst /\ MovedFirst /\ FilesAndRows
  BY RetentionParts
<1>2. /\ ~Stored(r) /\ files' = [files EXCEPT ![r] = "none"]
      /\ UNCHANGED <<now, report, entering, gone, recovery, late, share, block, blocked, purge>>
  BY DEF SweepStaging
<1>3. RetentionTypes' /\ files'[r] = "none" /\ \A x \in Reports \ {r} : files'[x] = files[x]
  BY <1>1, <1>2 DEF RetentionTypes
<1>4. FilesFirst'
  <2>1. ASSUME NEW a \in Admins, purge[a].op = "row"
        PROVE  Head(purge[a].left) \in Reports
    BY <1>1, <2>1, PurgeHolds
  <2>2. QED
    BY <1>1, <1>2, <1>3, <2>1 DEF FilesFirst
<1>5. FilesAndRows' /\ MovedFirst'
  BY <1>1, <1>2, <1>3 DEF FilesAndRows, MovedFirst, Ready, Stored, Expired
<1>6. QED
  BY <1>2, <1>3, <1>4, <1>5, MoveStep

\* A report keeps its files until it is over, whatever else becomes of its row.
LEMMA FilesStay ==
    ASSUME RetentionTypes, OneStage, FilesAndRows, MovedFirst, recovery' = recovery,
           now' \in Nat, now' >= now,
           \A r \in Reports : report'[r] # None =>
               /\ report[r] # None /\ report'[r].storage = report[r].storage
               /\ report[r].expires # None => report'[r].expires = report[r].expires,
           \A r \in Reports : files'[r] = files[r] \/ Over(r, report, now, gone),
           \A r \in Reports : r \in gone' => files'[r] \in {"none", "staged"} \/ r \in late'
    PROVE  FilesAndRows' /\ MovedFirst'
<1>1. ASSUME NEW r \in Reports, Stored(r)', ~Expired(report[r])'
      PROVE  Stored(r) /\ ~Expired(report[r]) /\ files'[r] = files[r] /\ (Ready(r)' <=> Ready(r))
  <2>1. report'[r] # None /\ report[r] # None /\ report'[r].storage = report[r].storage
    BY <1>1 DEF Stored
  <2>2. report[r].expires \in Nat \cup {None} /\ now \in Nat
    BY <2>1 DEF RetentionTypes, ReportRows
  <2>3. ~(report'[r].expires # None /\ report'[r].expires <= now')
    BY <1>1 DEF Expired
  <2>4. ~(report[r].expires # None /\ report[r].expires <= now)
    BY <2>1, <2>2, <2>3
  <2>5. ~Over(r, report, now, gone)
    BY <2>1, <2>4 DEF Over, OneStage, Stored
  <2>6. QED
    BY <2>1, <2>4, <2>5 DEF Stored, Expired, Ready
<1>2. FilesAndRows'
  BY <1>1 DEF FilesAndRows
<1>3. MovedFirst'
  BY <1>1 DEF MovedFirst
<1>4. QED
  BY <1>2, <1>3

-----------------------------------------------------------------------------
(* Blocks *)

\* Rows of reports keep their keys and their expiry when only states change.
LEMMA BlockStep ==
    ASSUME RetentionInv, NEW r \in Reports, NEW removeTriage \in BOOLEAN, Block(r, removeTriage)
    PROVE  RetentionInv'
<1>1. /\ RetentionTypes /\ OneStage /\ PurgesExpired /\ FilesFirst /\ MovedFirst /\ BlocksFromReports
      /\ FilesAndRows /\ BlocksActive
  BY RetentionParts
<1> DEFINE k == report[r].source
           entry == [report |-> r, lifted |-> None]
           rows == [x \in Reports |->
                       IF removeTriage /\ Ready(x) /\ report[x].source = k
                       THEN [report[x] EXCEPT !.state = "rejected"] ELSE report[x]]
<1>2. /\ Stored(r) /\ k # None /\ block' = [block EXCEPT ![k] = entry] /\ blocked' = blocked \cup {k}
      /\ report' = rows
      /\ UNCHANGED <<now, entering, gone, files, recovery, late, share, purge>>
  BY DEF Block, Ready
<1>3. k \in Keys
  BY <1>1, <1>2 DEF RetentionTypes, ReportRows, Stored
<1>4. entry \in BlockRows /\ entry # None
  BY RetentionAssumption DEF BlockRows
<1>5. /\ block' \in [Keys -> BlockRows \cup {None}] /\ block'[k] = entry
      /\ \A x \in Keys \ {k} : block'[x] = block[x]
  BY <1>1, <1>2, <1>3, <1>4 DEF RetentionTypes
<1>6. ASSUME NEW x \in Reports
      PROVE  /\ report'[x] \in ReportRows \cup {None} /\ (report'[x] = None <=> report[x] = None)
             /\ report[x] # None => /\ report'[x].expires = report[x].expires
                                    /\ report'[x].source = report[x].source
                                    /\ report'[x].storage = report[x].storage
  <2>1. report'[x] \in {report[x], [report[x] EXCEPT !.state = "rejected"]}
    BY <1>2
  <2>2. CASE report'[x] = report[x]
    BY <1>1, <2>2 DEF RetentionTypes
  <2>3. CASE report'[x] # report[x]
    <3>1. report[x] \in ReportRows /\ report'[x] = [report[x] EXCEPT !.state = "rejected"]
      BY <1>1, <1>2, <2>3 DEF RetentionTypes, Ready, Stored
    <3>2. report'[x] \in ReportRows /\ report'[x].expires = report[x].expires
          /\ report'[x].source = report[x].source /\ report'[x].storage = report[x].storage
      BY <3>1 DEF ReportRows
    <3>3. QED
      BY <3>1, <3>2, RetentionAssumption
  <2>4. QED
    BY <2>2, <2>3
<1>7. report' = [x \in Reports |-> report'[x]]
  BY <1>2
<1> HIDE DEF rows
<1>8. RetentionTypes'
  <2>1. report' \in [Reports -> ReportRows \cup {None}]
    BY <1>6, <1>7
  <2>2. QED
    BY <1>1, <1>2, <1>3, <1>5, <2>1 DEF RetentionTypes
<1>9. OneStage' /\ FilesAndRows' /\ MovedFirst' /\ FilesFirst'
  <2>1. OneStage'
    BY <1>1, <1>2, <1>6 DEF OneStage, Stored
  <2>2. FilesAndRows' /\ MovedFirst'
    BY <1>1, <1>2, <1>6 DEF FilesAndRows, MovedFirst, Ready, Stored, Expired
  <2>3. FilesFirst'
    BY <1>1, <1>2 DEF FilesFirst
  <2>4. QED
    BY <2>1, <2>2, <2>3
<1>10. PurgesExpired'
  <2>1. ASSUME NEW a \in Admins, NEW i \in DOMAIN purge[a].left
        PROVE  Over(purge[a].left[i], report', now', gone')
    BY <1>1, <1>2, <1>6, PurgeHolds, PurgesOver DEF Over
  <2>2. QED
    BY <1>2, <2>1 DEF PurgesExpired, Over, Stored, Expired
<1>11. BlocksActive'
  BY <1>1, <1>2, <1>3, <1>4, <1>5 DEF BlocksActive, Active
<1>12. BlocksFromReports'
  <2>1. \A x \in Keys : block[x] # None => block[x].report \in Reports \cup {None}
    BY <1>1 DEF RetentionTypes, BlockRows
  <2>2. QED
    BY <1>1, <1>2, <1>5, <1>6, <2>1 DEF BlocksFromReports, Stored
<1>13. QED
  BY <1>8, <1>9, <1>10, <1>11, <1>12, RetentionPartsNext

LEMMA UnblockStep ==
    ASSUME RetentionInv, NEW r \in Reports, Unblock(r)
    PROVE  RetentionInv'
<1>1. /\ RetentionTypes /\ OneStage /\ PurgesExpired /\ FilesFirst /\ MovedFirst /\ BlocksFromReports
      /\ FilesAndRows /\ BlocksActive
  BY RetentionParts
<1>2. PICK k \in KeyToUnblock(r) :
          /\ Active(k) /\ block' = [block EXCEPT ![k].lifted = now] /\ blocked' = blocked \ {k}
  BY DEF Unblock
<1>3. Stored(r) /\ UNCHANGED <<now, report, entering, gone, files, recovery, late, share, purge>>
  BY DEF Unblock
<1>4. k \in Keys /\ block[k] \in BlockRows
  BY <1>1, <1>2, <1>3 DEF KeyToUnblock, BlockedFrom, RetentionTypes, ReportRows, Stored, Active
<1>5. now \in Nat /\ now # None
  BY <1>1, RetentionAssumption DEF RetentionTypes
<1>6. /\ block'[k] \in BlockRows /\ block'[k].lifted = now /\ block'[k].report = block[k].report
      /\ block'[k] # None
      /\ \A x \in Keys \ {k} : block'[x] = block[x]
      /\ block' \in [Keys -> BlockRows \cup {None}]
  <2>1. block' = [block EXCEPT ![k] = [block[k] EXCEPT !.lifted = now]]
    BY <1>2
  <2>2. [block[k] EXCEPT !.lifted = now] \in BlockRows
    BY <1>4, <1>5 DEF BlockRows
  <2>3. QED
    BY <1>1, <1>4, <2>1, <2>2, RetentionAssumption DEF RetentionTypes, BlockRows
<1>7. RetentionTypes'
  BY <1>1, <1>2, <1>3, <1>6 DEF RetentionTypes
<1>8. OneStage' /\ FilesAndRows' /\ FilesFirst' /\ MovedFirst' /\ PurgesExpired'
  BY <1>1, <1>3 DEF OneStage, FilesAndRows, FilesFirst, MovedFirst, PurgesExpired, Ready, Stored, Expired
<1>9. BlocksActive'
  BY <1>1, <1>2, <1>4, <1>5, <1>6 DEF BlocksActive, Active
<1>10. BlocksFromReports'
  BY <1>1, <1>2, <1>3, <1>4, <1>6 DEF BlocksFromReports, Stored, Active
<1>11. QED
  BY <1>7, <1>8, <1>9, <1>10, RetentionPartsNext

-----------------------------------------------------------------------------
(* Links and time *)

LEMMA ShareStep ==
    ASSUME RetentionInv, NEW s \in Shares, NEW r \in Reports, CreateShare(s, r)
    PROVE  RetentionInv'
<1>1. /\ RetentionTypes /\ OneStage /\ PurgesExpired /\ FilesFirst /\ MovedFirst /\ BlocksFromReports
      /\ FilesAndRows /\ BlocksActive
  BY RetentionParts
<1>2. UNCHANGED <<now, report, entering, gone, files, recovery, late, block, blocked, purge>>
  BY DEF CreateShare
<1>3. share' \in [Shares -> [report : Reports, expires : Nat] \cup {None}]
  <2>1. now + ShareLifetime \in Nat
    BY <1>1, RetentionAssumption DEF RetentionTypes
  <2>2. QED
    BY <1>1, <2>1 DEF CreateShare, RetentionTypes
<1>4. RetentionTypes'
  BY <1>1, <1>2, <1>3 DEF RetentionTypes
<1>5. OneStage' /\ PurgesExpired' /\ FilesFirst' /\ MovedFirst' /\ BlocksFromReports' /\ FilesAndRows'
      /\ BlocksActive'
  BY <1>1, <1>2 DEF OneStage, PurgesExpired, FilesFirst, MovedFirst, BlocksFromReports, FilesAndRows,
                    BlocksActive, Ready, Stored, Expired, Active
<1>6. QED
  BY <1>4, <1>5, RetentionPartsNext

LEMMA TickStep ==
    ASSUME RetentionInv, Tick
    PROVE  RetentionInv'
<1>1. /\ RetentionTypes /\ OneStage /\ PurgesExpired /\ FilesFirst /\ MovedFirst /\ BlocksFromReports
      /\ FilesAndRows /\ BlocksActive
  BY RetentionParts
<1>2. now' = now + 1 /\ UNCHANGED <<report, entering, gone, files, recovery, late, share, block, blocked, purge>>
  BY DEF Tick
<1>3. RetentionTypes'
  BY <1>1, <1>2 DEF RetentionTypes
<1>4. OneStage' /\ FilesFirst' /\ BlocksFromReports' /\ BlocksActive'
  BY <1>1, <1>2 DEF OneStage, FilesFirst, BlocksFromReports, BlocksActive, Stored, Active
<1>5. \A r \in Reports : Over(r, report, now, gone) => Over(r, report', now', gone')
  BY <1>1, <1>2, <1>3, OverStays DEF RetentionTypes, Stored
<1>6. PurgesExpired'
  <2>1. ASSUME NEW a \in Admins, NEW i \in DOMAIN purge[a].left
        PROVE  Over(purge[a].left[i], report', now', gone')
    BY <1>1, <1>5, PurgeHolds, PurgesOver
  <2>2. QED
    BY <1>2, <2>1 DEF PurgesExpired, Over, Stored, Expired
<1>7. FilesAndRows' /\ MovedFirst'
  <2>1. now' \in Nat /\ now' >= now
    BY <1>1, <1>2 DEF RetentionTypes
  <2>2. \A r \in Reports : r \in gone => files[r] \in {"none", "staged"} \/ r \in late
    BY <1>1 DEF FilesAndRows
  <2>3. QED
    BY <1>1, <1>2, <2>1, <2>2, FilesStay
<1>8. QED
  BY <1>3, <1>4, <1>6, <1>7, RetentionPartsNext

-----------------------------------------------------------------------------
(* The maintenance task *)

\* What the sweep makes of a row: an expiry is noted once, and a key only forgotten.
LEMMA SweptRow ==
    ASSUME NEW row \in ReportRows, now \in Nat
    PROVE  /\ Swept(row) \in ReportRows /\ Swept(row) # None /\ Swept(row).expires \in Nat
           /\ row.expires # None => Swept(row).expires = row.expires
           /\ Swept(row).source \in {row.source, None} /\ Swept(row).storage = row.storage
<1> DEFINE source == IF row.created <= now - SourceRetention THEN None ELSE row.source
           expires == IF row.expires = None THEN row.created + ReportRetention ELSE row.expires
           result == [row EXCEPT !.source = source, !.expires = expires]
<1>1. source \in Keys \cup {None} /\ expires \in Nat
  BY RetentionAssumption DEF ReportRows
<1>2. result \in ReportRows /\ result.source = source /\ result.expires = expires
      /\ result.storage = row.storage
  BY <1>1 DEF ReportRows
<1>3. Swept(row) = result
  BY DEF Swept
<1>4. QED
  BY <1>1, <1>2, <1>3, RetentionAssumption

\* The sweep lists what is stored and has expired.
LEMMA PurgeableExpired ==
    ASSUME NEW rows, NEW left \in Purgeable(rows)
    PROVE  /\ left \in Seq(Reports)
           /\ \A i \in DOMAIN left : left[i] \in Reports /\ rows[left[i]] # None /\ Expired(rows[left[i]])
<1> DEFINE expired == {r \in Reports : rows[r] # None /\ Expired(rows[r])}
<1>1. PICK n \in 0 .. PurgeLimit : left \in [1 .. n -> expired]
  BY DEF Purgeable
<1>2. n \in Nat
  BY RetentionAssumption
<1>3. QED
  BY <1>1, <1>2

LEMMA BeginSweepStep ==
    ASSUME RetentionInv, NEW a \in Admins, BeginSweep(a)
    PROVE  RetentionInv'
<1>1. /\ RetentionTypes /\ OneStage /\ PurgesExpired /\ FilesFirst /\ MovedFirst /\ BlocksFromReports
      /\ FilesAndRows /\ BlocksActive
  BY RetentionParts
<1>2. /\ report' = [r \in Reports |-> IF Stored(r) THEN Swept(report[r]) ELSE None]
      /\ block' = [k \in Keys |->
             IF block[k] # None /\ block[k].lifted # None /\ block[k].lifted <= now - SourceRetention
             THEN None ELSE block[k]]
      /\ share' = [s \in Shares |-> IF share[s] # None /\ share[s].expires <= now THEN None ELSE share[s]]
      /\ UNCHANGED <<now, entering, gone, files, recovery, late, blocked>>
  BY DEF BeginSweep
<1>3. PICK left \in Purgeable(report') : purge' = [purge EXCEPT ![a] = NextPurge(left)]
  BY DEF BeginSweep
<1>4. ASSUME NEW r \in Reports
      PROVE  /\ report'[r] \in ReportRows \cup {None} /\ (report'[r] = None <=> report[r] = None)
             /\ report[r] # None => /\ report'[r].expires \in Nat
                                    /\ report[r].expires # None => report'[r].expires = report[r].expires
                                    /\ report'[r].source \in {report[r].source, None}
                                    /\ report'[r].storage = report[r].storage
  BY <1>1, <1>2, SweptRow DEF RetentionTypes, Stored
<1>5. report' \in [Reports -> ReportRows \cup {None}]
  BY <1>2, <1>4
<1>6. ASSUME NEW k \in Keys
      PROVE  /\ block'[k] \in {block[k], None}
             /\ block'[k] # block[k] => block[k].lifted # None
  BY <1>2
<1>7. block' \in [Keys -> BlockRows \cup {None}]
  BY <1>1, <1>2 DEF RetentionTypes
<1>8. \A r \in Reports : Over(r, report, now, gone) => Over(r, report', now', gone')
  BY <1>1, <1>2, <1>4, OverStays DEF RetentionTypes, Stored
<1>9. /\ left \in Seq(Reports)
      /\ \A i \in DOMAIN left : Over(left[i], report', now', gone')
  <2>1. left \in Seq(Reports) /\ \A i \in DOMAIN left : report'[left[i]] # None /\ Expired(report'[left[i]])
    BY PurgeableExpired
  <2>2. QED
    BY <1>2, <2>1 DEF Over, Expired
<1>10. PurgesExpired' /\ purge' \in [Admins -> PurgeStates]
  BY <1>1, <1>3, <1>8, <1>9, NextPurgeHolds, PurgeStep
<1>11. RetentionTypes'
  <2>1. share' \in [Shares -> [report : Reports, expires : Nat] \cup {None}]
    BY <1>1, <1>2 DEF RetentionTypes
  <2>2. QED
    BY <1>1, <1>2, <1>5, <1>7, <1>10, <2>1 DEF RetentionTypes, PurgeStates
<1>12. OneStage'
  BY <1>1, <1>2, <1>4 DEF OneStage, Stored
<1>13. FilesFirst'
  BY <1>1, <1>2, <1>3, <1>9, NextPurgeHolds DEF FilesFirst, RetentionTypes
<1>14. FilesAndRows' /\ MovedFirst'
  <2>1. now' \in Nat /\ now' >= now
    BY <1>1, <1>2 DEF RetentionTypes
  <2>2. \A r \in Reports : r \in gone => files[r] \in {"none", "staged"} \/ r \in late
    BY <1>1 DEF FilesAndRows
  <2>3. QED
    BY <1>1, <1>2, <1>4, <2>1, <2>2, FilesStay
<1>15. BlocksActive'
  BY <1>1, <1>2, <1>6 DEF BlocksActive, Active
<1>16. BlocksFromReports'
  <2>1. \A k \in Keys : block[k] # None => block[k].report \in Reports \cup {None}
    BY <1>1 DEF RetentionTypes, BlockRows
  <2>2. ASSUME NEW k \in Keys, block'[k] # None, block'[k].report # None
        PROVE  report'[block'[k].report] # None /\ report'[block'[k].report].source \in {k, None}
    <3>1. block'[k] = block[k]
      BY <1>6, <2>2
    <3> DEFINE x == block[k].report
    <3>2. x \in Reports /\ report[x] # None /\ report[x].source \in {k, None}
      BY <1>1, <2>1, <2>2, <3>1 DEF BlocksFromReports, Stored
    <3>3. report'[x] # None /\ report'[x].source \in {report[x].source, None}
      BY <1>4, <3>2
    <3>4. QED
      BY <3>1, <3>2, <3>3
  <2>3. QED
    BY <2>2 DEF BlocksFromReports, Stored
<1>17. QED
  BY <1>10, <1>11, <1>12, <1>13, <1>14, <1>15, <1>16, RetentionPartsNext

LEMMA RemoveFilesStep ==
    ASSUME RetentionInv, NEW a \in Admins, NEW r \in Reports, RemoveFiles(a, r)
    PROVE  RetentionInv'
<1>1. /\ RetentionTypes /\ OneStage /\ PurgesExpired /\ FilesFirst /\ MovedFirst /\ BlocksFromReports
      /\ FilesAndRows /\ BlocksActive
  BY RetentionParts
<1> DEFINE hand == [purge[a] EXCEPT !.op = "row"]
<1>2. /\ purge[a].op = "files" /\ Head(purge[a].left) = r /\ purge' = [purge EXCEPT ![a] = hand]
      /\ files' = [files EXCEPT ![r] = IF @ = "staged" THEN @ ELSE "none"]
      /\ UNCHANGED <<now, report, entering, gone, recovery, late, share, block, blocked>>
  BY DEF RemoveFiles
<1>3. hand \in PurgeStates /\ hand.op = "row" /\ hand.left = purge[a].left
  BY <1>1, <1>2 DEF RetentionTypes, PurgeStates, Idle
<1> HIDE DEF hand
<1>4. PurgesExpired' /\ purge' \in [Admins -> PurgeStates]
  BY <1>1, <1>2, <1>3, PurgeStep, PurgesOver
<1>5. RetentionTypes'
  BY <1>1, <1>2, <1>4 DEF RetentionTypes, PurgeStates
<1>6. Over(r, report, now, gone)
  BY <1>1, <1>2, PurgeHolds, PurgesOver
<1>7. /\ files'[r] \in {"none", "staged"}
      /\ \A x \in Reports : files'[x] = files[x] \/ (x = r /\ files'[x] = "none")
  BY <1>1, <1>2 DEF RetentionTypes
<1>8. FilesAndRows' /\ MovedFirst'
  <2>1. now' \in Nat /\ now' >= now
    BY <1>1, <1>2 DEF RetentionTypes
  <2>2. \A x \in Reports : x \in gone' => files'[x] \in {"none", "staged"} \/ x \in late'
    BY <1>1, <1>2, <1>7 DEF FilesAndRows
  <2>3. \A x \in Reports : files'[x] = files[x] \/ Over(x, report, now, gone)
    BY <1>6, <1>7
  <2>4. QED
    BY <1>1, <1>2, <2>1, <2>2, <2>3, FilesStay
<1>9. FilesFirst'
  <2>1. ASSUME NEW b \in Admins, purge'[b].op = "row"
        PROVE  files'[Head(purge'[b].left)] \in {"none", "staged"} \/ Head(purge'[b].left) \in late'
    <3>1. CASE b = a
      BY <1>1, <1>2, <1>3, <1>7, <3>1 DEF RetentionTypes
    <3>2. CASE b # a
      <4>1. purge'[b] = purge[b]
        BY <1>1, <1>2, <3>2 DEF RetentionTypes
      <4>2. Head(purge[b].left) \in Reports
        BY <1>1, <2>1, <4>1, PurgeHolds
      <4>3. files[Head(purge[b].left)] \in {"none", "staged"} \/ Head(purge[b].left) \in late
        BY <1>1, <2>1, <4>1 DEF FilesFirst
      <4>4. QED
        BY <1>2, <1>7, <4>1, <4>2, <4>3
    <3>3. QED
      BY <3>1, <3>2
  <2>2. QED
    BY <2>1 DEF FilesFirst
<1>10. OneStage' /\ BlocksFromReports' /\ BlocksActive'
  BY <1>1, <1>2 DEF OneStage, BlocksFromReports, BlocksActive, Stored, Active
<1>11. QED
  BY <1>4, <1>5, <1>8, <1>9, <1>10, RetentionPartsNext

\* A process goes on to the next report or leaves the rest, and removes at most some files.
LEMMA LeaveStep ==
    ASSUME RetentionInv, NEW a \in Admins,
           RemoveFails(a) \/ LeavePurge(a) \/ Die(a)
    PROVE  RetentionInv'
<1>1. /\ RetentionTypes /\ OneStage /\ PurgesExpired /\ FilesFirst /\ MovedFirst /\ BlocksFromReports
      /\ FilesAndRows /\ BlocksActive
  BY RetentionParts
<1>2. /\ purge[a].op # "idle"
      /\ UNCHANGED <<now, report, entering, gone, recovery, late, share, block, blocked>>
  BY <1>1, PurgeHolds DEF RemoveFails, LeavePurge, Die
<1> DEFINE r == Head(purge[a].left)
<1>3. r \in Reports /\ r = purge[a].left[1] /\ Tail(purge[a].left) \in Seq(Reports)
  BY <1>1, <1>2, PurgeHolds
<1>4. PICK hand \in {Idle, NextPurge(Tail(purge[a].left))} : purge' = [purge EXCEPT ![a] = hand]
  BY DEF RemoveFails, LeavePurge, Die
<1>5. /\ hand \in PurgeStates /\ hand.op # "row"
      /\ hand.left \in {<<>>, Tail(purge[a].left)}
  <2>1. CASE hand = Idle
    BY <2>1 DEF PurgeStates, Idle
  <2>2. CASE hand = NextPurge(Tail(purge[a].left))
    BY <1>3, <2>2, NextPurgeHolds
  <2>3. QED
    BY <1>4, <2>1, <2>2
<1>6. ASSUME NEW i \in DOMAIN hand.left
      PROVE  Over(hand.left[i], report', now', gone')
  <2>1. hand.left = Tail(purge[a].left) /\ purge[a].left \in Seq(Reports) /\ purge[a].left # <<>>
    <3>1. purge[a].left \in Seq(Reports) /\ 1 \in DOMAIN purge[a].left
      BY <1>1, <1>2, PurgeHolds
    <3>2. CASE hand.left = <<>>
      BY <1>6, <3>2
    <3>3. CASE hand.left = Tail(purge[a].left)
      BY <3>1, <3>3
    <3>4. QED
      BY <1>5, <3>2, <3>3
  <2>2. i + 1 \in DOMAIN purge[a].left /\ hand.left[i] = purge[a].left[i + 1]
    BY <2>1
  <2>3. QED
    BY <1>1, <1>2, <2>2, PurgesOver
<1>7. PurgesExpired' /\ purge' \in [Admins -> PurgeStates]
  BY <1>1, <1>2, <1>4, <1>5, <1>6, PurgeStep
<1>8. /\ files' \in [Reports -> {"none", "staged", "whole", "part"}]
      /\ \A x \in Reports : files'[x] = files[x] \/ (x = r /\ files[x] \notin {"none", "staged"})
  BY <1>1, <1>3 DEF RemoveFails, LeavePurge, Die, RetentionTypes
<1>9. RetentionTypes'
  BY <1>1, <1>2, <1>7, <1>8 DEF RetentionTypes, PurgeStates
<1>10. Over(r, report, now, gone)
  BY <1>1, <1>2, <1>3, PurgeHolds, PurgesOver
<1>11. FilesAndRows' /\ MovedFirst'
  <2>1. now' \in Nat /\ now' >= now
    BY <1>1, <1>2 DEF RetentionTypes
  <2>2. \A x \in Reports : x \in gone' => files'[x] \in {"none", "staged"} \/ x \in late'
    BY <1>1, <1>2, <1>8 DEF FilesAndRows
  <2>3. \A x \in Reports : files'[x] = files[x] \/ Over(x, report, now, gone)
    BY <1>8, <1>10
  <2>4. QED
    BY <1>1, <1>2, <2>1, <2>2, <2>3, FilesStay
<1>12. FilesFirst'
  <2>1. ASSUME NEW b \in Admins, purge'[b].op = "row"
        PROVE  files'[Head(purge'[b].left)] \in {"none", "staged"} \/ Head(purge'[b].left) \in late'
    <3>1. b # a /\ purge'[b] = purge[b]
      BY <1>1, <1>4, <1>5, <2>1 DEF RetentionTypes
    <3>2. Head(purge[b].left) \in Reports
      BY <1>1, <2>1, <3>1, PurgeHolds
    <3>3. files[Head(purge[b].left)] \in {"none", "staged"} \/ Head(purge[b].left) \in late
      BY <1>1, <2>1, <3>1 DEF FilesFirst
    <3>4. QED
      BY <1>2, <1>8, <3>1, <3>2, <3>3
  <2>2. QED
    BY <2>1 DEF FilesFirst
<1>13. OneStage' /\ BlocksFromReports' /\ BlocksActive'
  BY <1>1, <1>2 DEF OneStage, BlocksFromReports, BlocksActive, Stored, Active
<1>14. QED
  BY <1>7, <1>9, <1>11, <1>12, <1>13, RetentionPartsNext

\* A row that is deleted has no files any more; its blocks forget it and hold.
LEMMA FinishPurgeStep ==
    ASSUME RetentionInv, NEW a \in Admins, NEW r \in Reports, FinishPurge(a, r)
    PROVE  RetentionInv'
<1>1. /\ RetentionTypes /\ OneStage /\ PurgesExpired /\ FilesFirst /\ MovedFirst /\ BlocksFromReports
      /\ FilesAndRows /\ BlocksActive
  BY RetentionParts
<1> DEFINE hand == NextPurge(Tail(purge[a].left))
<1>2. /\ purge[a].op = "row" /\ Head(purge[a].left) = r /\ purge' = [purge EXCEPT ![a] = hand]
      /\ UNCHANGED <<now, entering, files, recovery, late, blocked>>
  BY DEF FinishPurge
<1>3. \/ /\ Stored(r) /\ Expired(report[r])
         /\ report' = [report EXCEPT ![r] = None] /\ gone' = gone \cup {r}
         /\ share' = [s \in Shares |->
                IF share[s] # None /\ share[s].report = r THEN None ELSE share[s]]
         /\ block' = [k \in Keys |->
                IF block[k] # None /\ block[k].report = r
                THEN [block[k] EXCEPT !.report = None] ELSE block[k]]
      \/ UNCHANGED <<report, gone, share, block>>
  BY DEF FinishPurge
<1>4. /\ report' \in [Reports -> ReportRows \cup {None}] /\ gone' \subseteq Reports
      /\ share' \in [Shares -> [report : Reports, expires : Nat] \cup {None}]
      /\ \A x \in Reports : \/ report'[x] = report[x] /\ (x \in gone' <=> x \in gone)
                            \/ x = r /\ report'[x] = None /\ x \in gone' /\ Stored(x)
      /\ gone \subseteq gone'
  BY <1>1, <1>3 DEF RetentionTypes
<1>5. ASSUME NEW k \in Keys
      PROVE  /\ block'[k] \in BlockRows \cup {None} /\ (block'[k] = None <=> block[k] = None)
             /\ block[k] # None => block'[k].lifted = block[k].lifted
             /\ block[k] # None /\ block'[k].report # None =>
                    /\ block'[k].report = block[k].report
                    /\ report'[block[k].report] = report[block[k].report]
  <2>1. CASE UNCHANGED <<report, gone, share, block>>
    BY <1>1, <2>1 DEF RetentionTypes
  <2>2. CASE block'[k] = block[k] /\ (block[k] # None => block[k].report # r)
             /\ report' = [report EXCEPT ![r] = None]
    BY <1>1, <2>2 DEF RetentionTypes, BlockRows
  <2>3. CASE block[k] # None /\ block'[k] = [block[k] EXCEPT !.report = None]
    <3>1. block[k] \in BlockRows
      BY <1>1, <2>3 DEF RetentionTypes
    <3>2. block'[k] \in BlockRows /\ block'[k].lifted = block[k].lifted /\ block'[k].report = None
      BY <2>3, <3>1 DEF BlockRows
    <3>3. QED
      BY <2>3, <3>2, RetentionAssumption
  <2>4. QED
    BY <1>3, <2>1, <2>2, <2>3
<1>6. block' \in [Keys -> BlockRows \cup {None}]
  <2>1. block' = [k \in Keys |-> block'[k]]
    BY <1>1, <1>3 DEF RetentionTypes
  <2>2. QED
    BY <1>5, <2>1
<1>7. Tail(purge[a].left) \in Seq(Reports) /\ Head(purge[a].left) = purge[a].left[1]
      /\ purge[a].left \in Seq(Reports) /\ 1 \in DOMAIN purge[a].left
  BY <1>1, <1>2, PurgeHolds
<1>8. hand \in PurgeStates /\ hand.op # "row" /\ hand.left = Tail(purge[a].left)
  BY <1>7, NextPurgeHolds
<1> HIDE DEF hand
<1>9. \A x \in Reports : Over(x, report, now, gone) => Over(x, report', now', gone')
  BY <1>2, <1>4 DEF Over
<1>10. ASSUME NEW i \in DOMAIN hand.left
       PROVE  Over(hand.left[i], report', now', gone')
  <2>1. /\ i + 1 \in DOMAIN purge[a].left /\ hand.left[i] = purge[a].left[i + 1]
        /\ purge[a].left[i + 1] \in Reports
    BY <1>7, <1>8
  <2>2. QED
    BY <1>1, <1>9, <2>1, PurgesOver
<1>11. PurgesExpired' /\ purge' \in [Admins -> PurgeStates]
  BY <1>1, <1>2, <1>8, <1>9, <1>10, PurgeStep
<1>12. RetentionTypes'
  BY <1>1, <1>2, <1>4, <1>6, <1>11 DEF RetentionTypes, PurgeStates
<1>13. OneStage'
  BY <1>1, <1>2, <1>4 DEF OneStage, Stored
<1>14. FilesAndRows' /\ MovedFirst'
  <2>1. files[r] \in {"none", "staged"} \/ r \in late
    BY <1>1, <1>2 DEF FilesFirst
  <2>2. \A x \in Reports : x \in gone' => files'[x] \in {"none", "staged"} \/ x \in late'
    BY <1>1, <1>2, <1>4, <2>1 DEF FilesAndRows
  <2>3. now' \in Nat /\ now' >= now
    BY <1>1, <1>2 DEF RetentionTypes
  <2>4. \A x \in Reports : report'[x] # None => report'[x] = report[x]
    BY <1>4
  <2>5. QED
    BY <1>1, <1>2, <2>2, <2>3, <2>4, FilesStay
<1>15. FilesFirst'
  <2>1. ASSUME NEW b \in Admins, purge'[b].op = "row"
        PROVE  files'[Head(purge'[b].left)] \in {"none", "staged"} \/ Head(purge'[b].left) \in late'
    <3>1. b # a /\ purge'[b] = purge[b]
      BY <1>1, <1>2, <1>8, <2>1 DEF RetentionTypes
    <3>2. QED
      BY <1>1, <1>2, <2>1, <3>1 DEF FilesFirst
  <2>2. QED
    BY <2>1 DEF FilesFirst
<1>16. BlocksActive'
  BY <1>1, <1>2, <1>5 DEF BlocksActive, Active
<1>17. BlocksFromReports'
  <2>1. ASSUME NEW k \in Keys, block'[k] # None, block'[k].report # None
        PROVE  report'[block'[k].report] # None /\ report'[block'[k].report].source \in {k, None}
    BY <1>1, <1>5, <2>1 DEF BlocksFromReports, Stored
  <2>2. QED
    BY <2>1 DEF BlocksFromReports, Stored
<1>18. QED
  BY <1>11, <1>12, <1>13, <1>14, <1>15, <1>16, <1>17, RetentionPartsNext

-----------------------------------------------------------------------------
(* Every step of retention *)

LEMMA RetentionStarts == RetentionInit => RetentionInv
<1> SUFFICES ASSUME RetentionInit
             PROVE  RetentionInv
  OBVIOUS
<1>1. OldRow \in ReportRows /\ OldRow # None /\ OldRow.expires = None /\ OldRow.storage = "ready"
  BY RetentionAssumption DEF OldRow, ReportRows
<1>2. RetentionTypes
  BY <1>1 DEF RetentionInit, RetentionTypes, Idle
<1>3. FilesAndRows
  BY <1>1 DEF RetentionInit, FilesAndRows, Stored
<1>4. OneStage /\ FilesFirst /\ MovedFirst /\ BlocksFromReports /\ BlocksActive
  BY DEF RetentionInit, OneStage, FilesFirst, MovedFirst, BlocksFromReports, BlocksActive, Stored,
         Active, Idle
<1>5. PurgesExpired
  BY DEF RetentionInit, PurgesExpired, Idle
<1>6. QED
  BY <1>2, <1>3, <1>4, <1>5, RetentionParts

LEMMA RetentionStep ==
    ASSUME RetentionInv, [RetentionNext]_retentionVars
    PROVE  RetentionInv'
<1>1. ASSUME NEW r \in Reports,
             \/ \E k \in Keys : LetIn(r, k)
             \/ Arrive(r) \/ Recover(r) \/ Finalize(r) \/ MarkReady(r) \/ LeavePending(r)
             \/ SweepStaging(r) \/ Unblock(r)
             \/ \E removeTriage \in BOOLEAN : Block(r, removeTriage)
      PROVE  RetentionInv'
  BY <1>1, LetInStep, ArriveStep, RecoverStep, FinalizeStep, MarkReadyStep, SweepStagingStep, UnblockStep,
     BlockStep
<1>2. ASSUME NEW s \in Shares, NEW r \in Reports, CreateShare(s, r)
      PROVE  RetentionInv'
  BY <1>2, ShareStep
<1>3. ASSUME NEW a \in Admins, Maintenance(a)
      PROVE  RetentionInv'
  BY <1>3, BeginSweepStep, LeaveStep, RemoveFilesStep, FinishPurgeStep DEF Maintenance
<1>4. CASE Tick
  BY <1>4, TickStep
<1>5. CASE UNCHANGED retentionVars
  <2>1. /\ RetentionTypes /\ OneStage /\ PurgesExpired /\ FilesFirst /\ MovedFirst /\ BlocksFromReports
        /\ FilesAndRows /\ BlocksActive
    BY RetentionParts
  <2>2. UNCHANGED <<now, report, entering, gone, files, recovery, late, share, block, blocked, purge>>
    BY <1>5 DEF retentionVars
  <2>3. RetentionTypes' /\ OneStage' /\ FilesFirst' /\ MovedFirst' /\ FilesAndRows'
    BY <2>1, <2>2 DEF RetentionTypes, OneStage, FilesFirst, MovedFirst, FilesAndRows, Ready, Stored, Expired
  <2>4. PurgesExpired' /\ BlocksFromReports' /\ BlocksActive'
    BY <2>1, <2>2 DEF PurgesExpired, BlocksFromReports, BlocksActive, Stored, Expired, Active
  <2>5. QED
    BY <2>3, <2>4, RetentionPartsNext
<1>6. QED
  BY <1>1, <1>2, <1>3, <1>4, <1>5 DEF RetentionNext

\* The inductive invariant of retention: whatever several processes purge at once, and wherever they
\* die, a report's row, files, blocks and purges agree (run_maintenance, finish_report_purge).
THEOREM RetentionInductive == RetentionSpec => []RetentionInv
<1>1. RetentionInv /\ [RetentionNext]_retentionVars => RetentionInv'
  BY RetentionStep
<1>2. QED
  BY <1>1, RetentionStarts, PTL DEF RetentionSpec

\* A report that has not expired has all of its files, and none stay behind of a report that is gone,
\* unless finalize moved them after the purge had looked (remove_report before finish_report_purge).
THEOREM FilesGoWithRows == RetentionSpec => []FilesAndRows
<1>1. RetentionInv => FilesAndRows
  BY DEF RetentionInv
<1>2. QED
  BY <1>1, RetentionInductive, PTL

\* A block holds until it is lifted, and the report's page offers to lift it exactly when the request
\* would (block_report_source, unblock_report_source, find_report).
THEOREM BlocksLast == RetentionSpec => []BlocksHold
<1>1. RetentionInv => BlocksHold
  BY DEF RetentionInv
<1>2. QED
  BY <1>1, RetentionInductive, PTL

-----------------------------------------------------------------------------
(* Compression in place *)

\* Before two processes collide.
Apart ==
    /\ content[path] \in {"plain", "compressed plain"} /\ beside # path
    /\ \A p, q \in Compressors : \A f, g \in 0 .. MaxFiles :
           Writing(p, f) /\ Writing(q, g) => p = q /\ f = beside
    /\ \A p \in Compressors : work[p] # Resting => work[p].text = "plain"
    /\ \A p \in Compressors : work[p].op = "written" => content[work[p].file] = "compressed plain"

\* How far a process may be.
WorkStates ==
    {Resting} \cup [op : {"read"}, text : {"plain", "torn"}]
              \cup [op : {"opened", "written"}, text : {"plain", "torn"}, file : 0 .. MaxFiles]

LEMMA WorkHolds ==
    ASSUME CompressionTypes, NEW p \in Compressors
    PROVE  /\ work[p] \in WorkStates
           /\ work[p].op \in {"opened", "written"} => work[p].file \in 0 .. MaxFiles /\ Writing(p, work[p].file)
           /\ work[p].op # "resting" => work[p] # Resting /\ work[p].text \in {"plain", "torn"}
<1>1. work[p] \in WorkStates
  BY DEF CompressionTypes, WorkStates
<1>2. QED
  BY <1>1 DEF WorkStates, Resting, Writing

\* The files there are.
LEMMA FilesThere ==
    ASSUME CompressionTypes
    PROVE  /\ path \in 0 .. MaxFiles /\ beside \in (0 .. MaxFiles) \cup {Nothing} /\ path # Nothing
           /\ created \in Nat /\ created <= MaxFiles /\ path <= created
           /\ beside # Nothing => beside \in Nat /\ beside <= created
BY CompressionAssumption DEF CompressionTypes

\* A step of one process that goes on to hold something else, and touches no file.
LEMMA HandStep ==
    ASSUME CompressionTypes, collided \/ Apart, NEW p \in Compressors, NEW hand \in WorkStates,
           work' = [work EXCEPT ![p] = hand], UNCHANGED <<path, beside, content, created, collided>>,
           hand.op \in {"resting", "read"},
           ~collided => hand = Resting \/ hand.text = "plain"
    PROVE  CompressionTypes' /\ (collided' \/ Apart')
<1>1. work \in [Compressors -> WorkStates]
  BY DEF CompressionTypes, WorkStates
<1>2. /\ work' \in [Compressors -> WorkStates] /\ work'[p] = hand
      /\ \A q \in Compressors \ {p} : work'[q] = work[q]
  BY <1>1
<1>3. CompressionTypes'
  BY <1>2 DEF CompressionTypes, WorkStates
<1>4. ASSUME ~collided
      PROVE  Apart'
  BY <1>2, <1>4 DEF Apart, Writing
<1>5. QED
  BY <1>3, <1>4

LEMMA OpenStep ==
    ASSUME CompressionTypes, collided \/ Apart, NEW p \in Compressors, OpenBeside(p)
    PROVE  CompressionTypes' /\ (collided' \/ Apart')
<1>1. PICK f \in 0 .. MaxFiles :
          /\ IF beside = Nothing
             THEN created < MaxFiles /\ f = created + 1 /\ created' = f
             ELSE f = beside /\ UNCHANGED created
          /\ beside' = f
          /\ content' = [content EXCEPT ![f] = "torn"]
          /\ work' = [work EXCEPT ![p] = [op |-> "opened", text |-> work[p].text, file |-> f]]
          /\ collided' = (collided \/ \E q \in Compressors \ {p} : Writing(q, f))
  BY DEF OpenBeside
<1>2. work[p].op = "read" /\ path' = path
  BY DEF OpenBeside
<1> DEFINE hand == [op |-> "opened", text |-> work[p].text, file |-> f]
<1>3. hand \in WorkStates /\ hand.op = "opened" /\ hand.file = f /\ hand.text = work[p].text
      /\ hand # Resting
  BY <1>2, WorkHolds DEF WorkStates, Resting
<1>4. work' = [work EXCEPT ![p] = hand]
  BY <1>1
<1> HIDE DEF hand
<1>5. work \in [Compressors -> WorkStates]
  BY DEF CompressionTypes, WorkStates
<1>6. /\ work' \in [Compressors -> WorkStates] /\ work'[p] = hand
      /\ \A q \in Compressors \ {p} : work'[q] = work[q]
  BY <1>3, <1>4, <1>5
<1>7. CompressionTypes'
  <2>1. created' \in 0 .. MaxFiles /\ path' \in 0 .. created' /\ beside' \in 0 .. created'
    BY <1>1, <1>2, FilesThere, CompressionAssumption
  <2>2. content' \in [0 .. MaxFiles -> Contents] /\ collided' \in BOOLEAN
    BY <1>1 DEF CompressionTypes, Contents
  <2>3. QED
    BY <1>6, <2>1, <2>2 DEF CompressionTypes, WorkStates
<1>8. ASSUME ~collided'
      PROVE  Apart'
  <2>1. ~collided /\ Apart /\ \A q \in Compressors \ {p} : ~Writing(q, f)
    BY <1>1, <1>8 DEF CompressionTypes
  <2>2. f # path
    <3>1. CASE beside = Nothing
      BY <1>1, <3>1, FilesThere
    <3>2. CASE beside # Nothing
      BY <1>1, <2>1, <3>2 DEF Apart
    <3>3. QED
      BY <3>1, <3>2
  <2>3. ASSUME NEW q \in Compressors \ {p}, NEW g \in 0 .. MaxFiles
        PROVE  ~Writing(q, g)
    <3>1. CASE beside = Nothing
      BY <2>1, <3>1, CompressionAssumption DEF Apart
    <3>2. CASE beside # Nothing
      BY <1>1, <2>1, <3>2 DEF Apart
    <3>3. QED
      BY <3>1, <3>2
  <2>4. \A q \in Compressors \ {p} : work[q].op \notin {"opened", "written"}
    BY <2>3, WorkHolds
  <2>5. content'[path] = content[path]
    BY <1>1, <2>2, FilesThere DEF CompressionTypes
  <2>6. content'[path'] \in {"plain", "compressed plain"} /\ beside' # path'
    BY <1>1, <1>2, <2>1, <2>2, <2>5 DEF Apart
  <2>7. \A q \in Compressors, g \in 0 .. MaxFiles : Writing(q, g)' => q = p /\ g = f
    BY <1>3, <1>6, <2>4 DEF Writing
  <2>8. \A q \in Compressors : work'[q] # Resting => work'[q].text = "plain"
    <3>1. work[p].op # "resting"
      BY <1>2
    <3>2. work[p] # Resting
      BY <3>1, WorkHolds
    <3>3. hand.text = "plain"
      BY <1>3, <2>1, <3>2 DEF Apart
    <3>4. QED
      BY <1>6, <2>1, <3>3 DEF Apart
  <2>9. \A q \in Compressors : work'[q].op # "written"
    BY <1>3, <1>6, <2>4
  <2>10. QED
    BY <1>1, <2>6, <2>7, <2>8, <2>9 DEF Apart
<1>9. QED
  BY <1>7, <1>8

LEMMA WriteTextStep ==
    ASSUME CompressionTypes, collided \/ Apart, NEW p \in Compressors, WriteBeside(p)
    PROVE  CompressionTypes' /\ (collided' \/ Apart')
<1> DEFINE f == work[p].file
           hand == [work[p] EXCEPT !.op = "written"]
<1>1. /\ work[p].op = "opened" /\ content' = [content EXCEPT ![f] = Compressed(work[p].text)]
      /\ work' = [work EXCEPT ![p] = hand] /\ UNCHANGED <<path, beside, created, collided>>
  BY DEF WriteBeside
<1>2. f \in 0 .. MaxFiles /\ Writing(p, f) /\ work[p] # Resting
      /\ work[p] \in [op : {"opened", "written"}, text : {"plain", "torn"}, file : 0 .. MaxFiles]
  BY <1>1, WorkHolds DEF WorkStates, Resting
<1>3. hand \in WorkStates /\ hand.op = "written" /\ hand.file = f /\ hand.text = work[p].text
  BY <1>2 DEF WorkStates
<1> HIDE DEF hand
<1>4. work \in [Compressors -> WorkStates]
  BY DEF CompressionTypes, WorkStates
<1>5. /\ work' \in [Compressors -> WorkStates] /\ work'[p] = hand
      /\ \A q \in Compressors \ {p} : work'[q] = work[q]
  BY <1>1, <1>3, <1>4
<1>6. Compressed(work[p].text) \in Contents
  BY DEF Compressed, Contents
<1>7. CompressionTypes'
  BY <1>1, <1>2, <1>5, <1>6 DEF CompressionTypes, WorkStates
<1>8. ASSUME ~collided
      PROVE  Apart'
  <2>1. Apart /\ beside = f /\ f # path /\ work[p].text = "plain"
    BY <1>2, <1>8 DEF Apart
  <2>2. content'[f] = "compressed plain" /\ content'[path] = content[path]
    BY <1>1, <1>2, <2>1, FilesThere DEF CompressionTypes, Compressed
  <2>3. \A q \in Compressors \ {p} : work[q].op \notin {"opened", "written"}
    BY <1>2, <2>1, WorkHolds DEF Apart
  <2>4. QED
    BY <1>1, <1>2, <1>3, <1>5, <2>1, <2>2, <2>3, WorkHolds DEF Apart, Writing
<1>9. QED
  BY <1>1, <1>7, <1>8

\* The temporary name goes, with the text it refers to if there is any in the rename.
LEMMA NameGoesStep ==
    ASSUME CompressionTypes, collided \/ Apart, NEW p \in Compressors,
           RenameBeside(p) \/ FailWriting(p)
    PROVE  CompressionTypes' /\ (collided' \/ Apart')
<1>1. /\ beside' = Nothing /\ work' = [work EXCEPT ![p] = Resting] /\ UNCHANGED <<content, created>>
  BY DEF RenameBeside, FailWriting
<1>2. \/ /\ work[p].op = "written" /\ path' = IF beside = Nothing THEN path ELSE beside
         /\ UNCHANGED collided
      \/ /\ collided' = (collided \/ \E q \in Compressors \ {p} : Writing(q, beside))
         /\ UNCHANGED path
  BY DEF RenameBeside, FailWriting
<1>3. work \in [Compressors -> WorkStates] /\ Resting \in WorkStates
  BY DEF CompressionTypes, WorkStates
<1>4. /\ work' \in [Compressors -> WorkStates] /\ work'[p] = Resting
      /\ \A q \in Compressors \ {p} : work'[q] = work[q]
  BY <1>1, <1>3
<1>5. CompressionTypes'
  <2>1. path' \in 0 .. created /\ collided' \in BOOLEAN
    BY <1>2, FilesThere DEF CompressionTypes
  <2>2. QED
    BY <1>1, <1>4, <2>1 DEF CompressionTypes, WorkStates
<1>6. ASSUME ~collided'
      PROVE  Apart'
  <2>1. Apart
    BY <1>2, <1>6
  <2>2. \A q \in Compressors \ {p} : work[q].op \notin {"opened", "written"}
    <3> SUFFICES ASSUME NEW q \in Compressors \ {p}, work[q].op \in {"opened", "written"}
                 PROVE  FALSE
      OBVIOUS
    <3>1. work[q].file \in 0 .. MaxFiles /\ Writing(q, work[q].file)
      BY WorkHolds
    <3>2. beside = work[q].file
      BY <2>1, <3>1 DEF Apart
    <3>3. CASE work[p].op = "written"
      BY <2>1, <3>1, <3>3, WorkHolds DEF Apart
    <3>4. CASE collided' = (collided \/ \E x \in Compressors \ {p} : Writing(x, beside))
      BY <1>6, <3>1, <3>2, <3>4
    <3>5. QED
      BY <1>2, <3>3, <3>4
  <2>3. content[path'] \in {"plain", "compressed plain"}
    <3>1. CASE path' = path
      BY <2>1, <3>1 DEF Apart
    <3>2. CASE path' # path
      <4>1. work[p].op = "written" /\ path' = beside
        BY <1>2, <3>2
      <4>2. beside = work[p].file
        BY <2>1, <4>1, WorkHolds DEF Apart
      <4>3. QED
        BY <2>1, <4>1, <4>2 DEF Apart
    <3>3. QED
      BY <3>1, <3>2
  <2>4. path' # Nothing
    BY <1>5, CompressionAssumption DEF CompressionTypes
  <2>5. QED
    BY <1>1, <1>4, <2>1, <2>2, <2>3, <2>4 DEF Apart, Writing, Resting
<1>7. QED
  BY <1>5, <1>6

LEMMA CompressionStep ==
    ASSUME CompressionInv, [CompressionNext]_compressionVars
    PROVE  CompressionInv'
<1>1. CompressionTypes /\ (collided \/ Apart)
  BY DEF CompressionInv, Apart
<1>2. CompressionTypes' /\ (collided' \/ Apart') => CompressionInv'
  BY DEF CompressionInv, Apart
<1>3. ASSUME NEW p \in Compressors, ReadAttachment(p)
      PROVE  CompressionInv'
  <2> DEFINE hand == [op |-> "read", text |-> content[path]]
  <2>1. content[path] \in {"plain", "torn"} /\ work' = [work EXCEPT ![p] = hand]
        /\ UNCHANGED <<path, beside, content, created, collided>>
    BY <1>3 DEF ReadAttachment
  <2>2. hand \in WorkStates /\ hand.op = "read"
    BY <2>1 DEF WorkStates
  <2>3. ~collided => hand.text = "plain"
    BY <1>1, <2>1 DEF Apart
  <2> HIDE DEF hand
  <2>4. QED
    BY <1>1, <1>2, <2>1, <2>2, <2>3, HandStep
<1>4. ASSUME NEW p \in Compressors, DieCompressing(p)
      PROVE  CompressionInv'
  <2>1. Resting \in WorkStates /\ Resting.op = "resting"
    BY DEF WorkStates, Resting
  <2>2. work' = [work EXCEPT ![p] = Resting] /\ UNCHANGED <<path, beside, content, created, collided>>
    BY <1>4 DEF DieCompressing
  <2>3. QED
    BY <1>1, <1>2, <2>1, <2>2, HandStep
<1>5. ASSUME NEW p \in Compressors,
             OpenBeside(p) \/ WriteBeside(p) \/ RenameBeside(p) \/ FailWriting(p)
      PROVE  CompressionInv'
  BY <1>1, <1>2, <1>5, OpenStep, WriteTextStep, NameGoesStep
<1>6. CASE UNCHANGED compressionVars
  BY <1>6 DEF CompressionInv, CompressionTypes, compressionVars, Writing
<1>7. QED
  BY <1>3, <1>4, <1>5, <1>6 DEF CompressionNext

\* Whoever reads the attachment finds the text or the compressed text, however many processes compress
\* it and wherever they die, unless two have met at the temporary file (compress_in_place).
THEOREM ReadersServed == CompressionSpec => []ReaderSeesOneOrTheOther
<1>1. CompressionInit => CompressionInv
  <2> SUFFICES ASSUME CompressionInit
               PROVE  CompressionInv
    OBVIOUS
  <2>1. CompressionTypes
    <3>1. content \in [0 .. MaxFiles -> Contents]
      BY DEF CompressionInit, Contents
    <3>2. created = 0 /\ path = 0 /\ beside = Nothing /\ collided = FALSE /\ 0 \in 0 .. MaxFiles
      BY CompressionAssumption DEF CompressionInit
    <3>3. work \in [Compressors -> WorkStates]
      BY DEF CompressionInit, WorkStates
    <3>4. path \in 0 .. created /\ created \in 0 .. MaxFiles
      BY <3>2, CompressionAssumption
    <3>5. QED
      BY <3>1, <3>2, <3>3, <3>4 DEF CompressionTypes, WorkStates
  <2>2. Apart
    <3>1. content[path] = "plain" /\ beside # path
      BY CompressionAssumption DEF CompressionInit
    <3>2. \A p \in Compressors : work[p] = Resting /\ work[p].op = "resting"
      BY DEF CompressionInit, Resting
    <3>3. QED
      BY <3>1, <3>2 DEF Apart, Writing
  <2>3. QED
    BY <2>1, <2>2 DEF CompressionInv, Apart
<1>2. CompressionInv /\ [CompressionNext]_compressionVars => CompressionInv'
  BY CompressionStep
<1>3. CompressionInv => ReaderSeesOneOrTheOther
  BY DEF CompressionInv, ReaderSeesOneOrTheOther
<1>4. QED
  BY <1>1, <1>2, <1>3, PTL DEF CompressionSpec

\* One process alone never meets another: without rivals the attachment is never torn, wherever the
\* process dies (compress_in_place).
THEOREM AloneServed ==
    (\A p, q \in Compressors : p = q) =>
        (CompressionSpec => [](content[path] \in {"plain", "compressed plain"}))
<1> SUFFICES ASSUME \A p, q \in Compressors : p = q
             PROVE  CompressionSpec => [](content[path] \in {"plain", "compressed plain"})
  OBVIOUS
<1>1. CompressionInit => ~collided
  BY DEF CompressionInit
<1>2. ~collided /\ [CompressionNext]_compressionVars => ~collided'
  BY DEF CompressionNext, compressionVars, ReadAttachment, OpenBeside, WriteBeside, RenameBeside,
      FailWriting, DieCompressing
<1>3. ~collided /\ ReaderSeesOneOrTheOther => content[path] \in {"plain", "compressed plain"}
  BY DEF ReaderSeesOneOrTheOther
<1>4. QED
  BY <1>1, <1>2, <1>3, ReadersServed, PTL DEF CompressionSpec
=============================================================================
