------------------------------ MODULE Ingestion ------------------------------
(***************************************************************************)
(* Report ingestion by the public API: a report is accepted in the         *)
(* database and its attachments are moved from staging to their final      *)
(* directory, in separate steps, while other requests retry the same       *)
(* submission, the maintenance sweep removes abandoned uploads and the     *)
(* server crashes and recovers.                                            *)
(*                                                                         *)
(* A request draws one fresh upload id and at most one fresh report id, so *)
(* the request names its upload, its staging directory, its report row and *)
(* the report's directory.  A step of the model is what the code does      *)
(* between two awaits.                                                     *)
(***************************************************************************)
EXTENDS Naturals, FiniteSets

CONSTANTS
    Requests,       \* POST /reports requests; retries are further requests
    Servers,        \* public API processes
    Manifests,      \* report manifests, identified with their digests
    Submissions,    \* submission ids, chosen by the client
    SubmissionOf,   \* the submission id a manifest carries
    Challenges,     \* proof-of-work challenges
    Clients,        \* client keys
    ClientLimit,    \* limits.concurrent_uploads_per_ip
    GlobalLimit,    \* limits.concurrent_uploads_global
    RecoveryLimit,  \* LIMIT of pending_report_storage()
    Faults,         \* the kinds of failure that may strike
    None

(***************************************************************************)
(* early:      an error, a rejected payload or the deadline before the     *)
(*             request's own report is committed;                          *)
(* late:       an I/O error or the deadline during or after that commit;   *)
(* recovery:   an error while finishing another request's report;          *)
(* disconnect: the client goes away and the handler's future is dropped;   *)
(* crash:      the process dies.                                           *)
(***************************************************************************)
FaultKinds == {"early", "late", "recovery", "disconnect", "crash"}

ASSUME IngestionAssumption ==
    /\ IsFiniteSet(Requests)
    /\ SubmissionOf \in [Manifests -> Submissions]
    /\ ClientLimit \in Nat /\ GlobalLimit \in Nat /\ RecoveryLimit \in Nat
    /\ Faults \subseteq FaultKinds
    /\ Requests \cap Servers = {}
    /\ None \notin Requests \cup Manifests \cup Challenges \cup Clients \cup Servers

VARIABLES
    chState,     \* a challenge row: unissued, live, expired, or deleted by the sweep
    chManifest,  \* the manifest digest the challenge was issued for
    chReport,    \* challenges.report_id
    storage,     \* reports.storage_state of the row a request inserted
    leases,      \* upload_leases
    lapsed,      \* the leases whose expires_at has passed
    staging,     \* staging/<upload-id> directories
    reportDirs,  \* reports/<report-id> directories
    damaged,     \* uploads some of whose files were unlinked
    removing,    \* uploads whose staging directory a remove_dir_all is walking
    doomed,      \* uploads whose StagingUpload was dropped: a removal is spawned
    detached,    \* requests dropped while their rename runs on the blocking pool
    sweepSeen,   \* uploads the sweep listed as stale
    sweepDel,    \* uploads the sweep found unreferenced
    pc,          \* where each request, and each server's startup recovery, is
    server, manifest, challenge, client,    \* what a request came with
    target,      \* the report a request or a startup recovery is finishing
    guarded,     \* requests that hold an UploadLeaseGuard
    result,      \* the receipt of a finished upload, None when it failed
    todo         \* pending reports a startup recovery has yet to look at

dbVars == <<chState, chManifest, chReport, storage, leases, lapsed>>
fileVars == <<staging, reportDirs, damaged, removing, doomed, detached>>
sweepVars == <<sweepSeen, sweepDel>>
inputVars == <<server, manifest, challenge, client>>
flowVars == <<target, guarded, result, todo>>
vars == <<dbVars, fileVars, sweepVars, pc, inputVars, flowVars>>

Actors == Requests \cup Servers

FinalizePc == {"finalize", "rename", "mark"}
\* The steps inside tokio::time::timeout in submit_report.
UploadPc == {"accept", "existing", "discard"} \cup FinalizePc
\* A request that is finished: answered with a receipt or an error, dropped, or dead.
DonePc == {"ok", "failed", "dropped", "crashed"}
RequestPc == {"idle", "prepare", "checked", "staged", "release", "abandon"} \cup UploadPc \cup DonePc
ServerPc == {"down", "recover", "serving"} \cup FinalizePc

TypeOK ==
    /\ chState \in [Challenges -> {"unissued", "live", "expired", "deleted"}]
    /\ chManifest \in [Challenges -> Manifests \cup {None}]
    /\ chReport \in [Challenges -> Requests \cup {None}]
    /\ storage \in [Requests -> {"none", "pending_files", "ready"}]
    /\ leases \subseteq Requests /\ lapsed \subseteq leases
    /\ staging \subseteq Requests /\ reportDirs \subseteq Requests /\ damaged \subseteq Requests
    /\ removing \subseteq Requests /\ doomed \subseteq Requests /\ detached \subseteq Requests
    /\ sweepSeen \subseteq Requests /\ sweepDel \subseteq Requests
    /\ pc \in [Actors -> RequestPc \cup ServerPc]
    /\ \A r \in Requests : pc[r] \in RequestPc
    /\ \A s \in Servers : pc[s] \in ServerPc
    /\ server \in [Requests -> Servers \cup {None}]
    /\ manifest \in [Requests -> Manifests \cup {None}]
    /\ challenge \in [Requests -> Challenges \cup {None}]
    /\ client \in [Requests -> Clients \cup {None}]
    /\ target \in [Actors -> Requests \cup {None}]
    /\ guarded \subseteq Requests
    /\ result \in [Requests -> Requests \cup {None}]
    /\ todo \in [Servers -> SUBSET Requests]

Init ==
    /\ chState = [c \in Challenges |-> "unissued"]
    /\ chManifest = [c \in Challenges |-> None]
    /\ chReport = [c \in Challenges |-> None]
    /\ storage = [r \in Requests |-> "none"]
    /\ leases = {} /\ lapsed = {}
    /\ staging = {} /\ reportDirs = {} /\ damaged = {}
    /\ removing = {} /\ doomed = {} /\ detached = {}
    /\ sweepSeen = {} /\ sweepDel = {}
    /\ pc = [x \in Actors |-> IF x \in Servers THEN "serving" ELSE "idle"]
    /\ server = [r \in Requests |-> None]
    /\ manifest = [r \in Requests |-> None]
    /\ challenge = [r \in Requests |-> None]
    /\ client = [r \in Requests |-> None]
    /\ target = [x \in Actors |-> None]
    /\ guarded = {}
    /\ result = [r \in Requests |-> None]
    /\ todo = [s \in Servers |-> {}]

-----------------------------------------------------------------------------
(* Reading the database *)

Referenced == {r \in Requests : storage[r] # "none"}

\* Variant: the receipt is looked up by digest instead of by submission id.
RowsOfDigest(m) == {u \in Referenced : manifest[u] = m}

\* find_report_receipt: the report rows with this submission id.
RowsOf(m) == {u \in Referenced : SubmissionOf[manifest[u]] = SubmissionOf[m]}

\* A request waits on its own report between the commit and its end.
OwnsReport(r) == storage[r] # "none"

Go(x, l) == pc' = [pc EXCEPT ![x] = l]

-----------------------------------------------------------------------------
(* Challenges *)

IssueChallenge(c, m) ==
    /\ chState[c] = "unissued"
    /\ chState' = [chState EXCEPT ![c] = "live"]
    /\ chManifest' = [chManifest EXCEPT ![c] = m]
    /\ UNCHANGED <<chReport, storage, leases, lapsed, fileVars, sweepVars, pc, inputVars, flowVars>>

\* Time passes beyond the challenge's expires_at.
ExpireChallenge(c) ==
    /\ chState[c] = "live"
    /\ chState' = [chState EXCEPT ![c] = "expired"]
    /\ UNCHANGED <<chManifest, chReport, storage, leases, lapsed, fileVars, sweepVars, pc, inputVars, flowVars>>

-----------------------------------------------------------------------------
(* A request up to the point where it holds an upload lease *)

\* A request with a manifest and a signed token reaches a serving process.  The token verifies for
\* as long as its signature does, whatever became of the challenge's row.
Submit(r, s, m, c, cl) ==
    /\ pc[r] = "idle" /\ pc[s] = "serving"
    /\ chState[c] # "unissued"
    /\ server' = [server EXCEPT ![r] = s]
    /\ manifest' = [manifest EXCEPT ![r] = m]
    /\ challenge' = [challenge EXCEPT ![r] = c]
    /\ client' = [client EXCEPT ![r] = cl]
    /\ Go(r, IF chManifest[c] = m THEN "prepare" ELSE "failed")
    /\ UNCHANGED <<dbVars, fileVars, sweepVars, flowVars>>

\* Variant: an existing report is answered without finishing its storage.
FindReceiptUnfinished(r) ==
    /\ pc[r] = "prepare"
    /\ \/ /\ RowsOf(manifest[r]) = {}
          /\ Go(r, "checked")
          /\ UNCHANGED result
       \/ \E u \in RowsOf(manifest[r]) :
            /\ Go(r, IF manifest[u] = manifest[r] THEN "ok" ELSE "failed")
            /\ result' = [result EXCEPT ![r] = u]
    /\ UNCHANGED <<dbVars, fileVars, sweepVars, inputVars, target, guarded, todo>>

\* prepare_submission up to its find_receipt, and handle_existing_receipt.
FindReceipt(r) ==
    /\ pc[r] = "prepare"
    /\ \/ /\ RowsOf(manifest[r]) = {}
          /\ Go(r, "checked")
          /\ UNCHANGED <<target, result>>
       \/ \E u \in RowsOf(manifest[r]) :
            \/ /\ manifest[u] # manifest[r]
               /\ Go(r, "failed")
               /\ UNCHANGED <<target, result>>
            \/ /\ manifest[u] = manifest[r]
               /\ storage[u] = "ready"
               /\ Go(r, "ok")
               /\ result' = [result EXCEPT ![r] = u]
               /\ UNCHANGED target
            \/ /\ manifest[u] = manifest[r]
               /\ storage[u] = "pending_files"
               /\ Go(r, "finalize")
               /\ target' = [target EXCEPT ![r] = u]
               /\ UNCHANGED result
    /\ UNCHANGED <<dbVars, fileVars, sweepVars, inputVars, guarded, todo>>

\* The rest of prepare_submission: the expiry check on the token's claims, then begin_staging.
BeginStaging(r) ==
    /\ pc[r] = "checked"
    /\ \/ /\ chState[challenge[r]] # "live"
          /\ Go(r, "failed")
          /\ UNCHANGED staging
       \/ /\ chState[challenge[r]] = "live"
          /\ staging' = staging \cup {r}
          /\ Go(r, "staged")
    /\ UNCHANGED <<dbVars, reportDirs, damaged, removing, doomed, detached, sweepVars, inputVars, flowVars>>

\* Variant: the limits are compared with <=.
LeaseAvailableOneMore(r) ==
    LET held == leases \ lapsed
    IN  /\ Cardinality(held) <= GlobalLimit
        /\ Cardinality({l \in held : client[l] = client[r]}) <= ClientLimit

\* acquire_upload_lease once the expired rows are deleted.
LeaseAvailable(r) ==
    LET held == leases \ lapsed
    IN  /\ Cardinality(held) < GlobalLimit
        /\ Cardinality({l \in held : client[l] = client[r]}) < ClientLimit

\* A refused lease abandons the upload at once; a granted one starts the deadline.  The guard is
\* created before the next await.
AcquireLease(r) ==
    /\ pc[r] = "staged"
    /\ lapsed' = {}
    /\ \/ /\ LeaseAvailable(r)
          /\ leases' = (leases \ lapsed) \cup {r}
          /\ guarded' = guarded \cup {r}
          /\ Go(r, "accept")
       \/ /\ ~LeaseAvailable(r)
          /\ leases' = leases \ lapsed
          /\ Go(r, "abandon")
          /\ UNCHANGED guarded
    /\ UNCHANGED <<chState, chManifest, chReport, storage, fileVars, sweepVars, inputVars, target, result, todo>>

-----------------------------------------------------------------------------
(* The upload, inside its deadline *)

\* The challenge row that accept_report requires.
ChallengeValid(r) ==
    /\ chState[challenge[r]] = "live"
    /\ chManifest[challenge[r]] = manifest[r]
    /\ chReport[challenge[r]] = None

\* The rows an accepting transaction writes.
InsertReport(r) ==
    /\ storage' = [storage EXCEPT ![r] = "pending_files"]
    /\ chReport' = [chReport EXCEPT ![challenge[r]] = r]

\* The parts are received into staging and validated, then accept_report runs: one transaction
\* under the submission's advisory lock.  An accepted report is committed and its
\* staging marked referenced before the next await.
AcceptReport(r) ==
    /\ pc[r] = "accept"
    /\ \/ \E u \in RowsOf(manifest[r]) :
            /\ Go(r, IF manifest[u] = manifest[r] THEN "existing" ELSE "release")
            /\ doomed' = IF manifest[u] = manifest[r] THEN doomed ELSE doomed \cup {r}
            /\ UNCHANGED <<storage, chReport, target>>
       \/ /\ RowsOf(manifest[r]) = {}
          /\ ~ChallengeValid(r)
          /\ Go(r, "release")
          /\ doomed' = doomed \cup {r}
          /\ UNCHANGED <<storage, chReport, target>>
       \/ /\ RowsOf(manifest[r]) = {}
          /\ ChallengeValid(r)
          /\ InsertReport(r)
          /\ target' = [target EXCEPT ![r] = r]
          /\ Go(r, "finalize")
          /\ UNCHANGED doomed
    /\ UNCHANGED <<chState, chManifest, leases, lapsed, staging, reportDirs, damaged, removing, detached,
                   sweepVars, inputVars, guarded, result, todo>>

\* accept_report's second find_receipt, after the transaction that found an existing row.
ReadReceipt(r) ==
    /\ pc[r] = "existing"
    /\ \E u \in RowsOf(manifest[r]) :
        /\ target' = [target EXCEPT ![r] = u]
        /\ result' = [result EXCEPT ![r] = IF storage[u] = "ready" THEN u ELSE None]
    /\ Go(r, "discard")
    /\ UNCHANGED <<dbVars, fileVars, sweepVars, inputVars, guarded, todo>>

\* remove_dir_all opens the staging directory and unlinks files in it; the directory itself goes
\* in a later step, and a rename may come between the two.
StartRemoval(u) ==
    /\ removing' = removing \cup ({u} \cap staging)
    /\ damaged' = damaged \cup ({u} \cap staging)

\* The upload of an existing report is a duplicate: its own staging is removed, then the existing
\* report is finished if it was still pending when its receipt was read.
DiscardUpload(r) ==
    /\ pc[r] = "discard"
    /\ StartRemoval(r)
    /\ IF result[r] = None
       THEN Go(r, "finalize") /\ UNCHANGED doomed
       ELSE Go(r, "release") /\ doomed' = doomed \cup {r}
    /\ UNCHANGED <<dbVars, staging, reportDirs, detached, sweepVars, inputVars, flowVars>>

-----------------------------------------------------------------------------
(* Finishing a report: its own request, a retry, or the startup recovery *)

\* The staging directory of a retry's own upload is dropped with its PreparedSubmission.
DropStaging(x) ==
    doomed' = IF x \in guarded /\ ~OwnsReport(x) THEN doomed \cup {x} ELSE doomed

\* Where an actor goes when it has finished its target, or has failed to.
Return(x, receipt) ==
    /\ result' = IF x \in Requests THEN [result EXCEPT ![x] = receipt] ELSE result
    /\ DropStaging(x)
    /\ Go(x, IF x \in Servers THEN "recover"
             ELSE IF x \in guarded THEN "release"
             ELSE IF receipt = None THEN "failed" ELSE "ok")

\* FileAttachmentStore::finalize up to the rename.
Finalize(x) ==
    /\ pc[x] = "finalize"
    /\ \/ /\ target[x] \notin reportDirs
          /\ Go(x, "rename")
          /\ UNCHANGED <<result, doomed>>
       \/ /\ target[x] \in reportDirs
          /\ target[x] \notin staging
          /\ Go(x, "mark")
          /\ UNCHANGED <<result, doomed>>
       \/ /\ target[x] \in reportDirs
          /\ target[x] \in staging
          /\ Return(x, None)
    /\ UNCHANGED <<dbVars, staging, reportDirs, damaged, removing, detached, sweepVars, inputVars, target, guarded, todo>>

\* Variant: the directory is copied and the staging copy stays behind.
CopyDirectory(u) ==
    /\ reportDirs' = reportDirs \cup {u}
    /\ UNCHANGED staging

\* rename(2) fails when the staging directory is gone, because someone else renamed or removed it.
MoveDirectory(u) ==
    /\ staging' = staging \ {u}
    /\ reportDirs' = reportDirs \cup {u}

Rename(x) ==
    /\ pc[x] = "rename"
    /\ \/ /\ target[x] \in staging
          /\ MoveDirectory(target[x])
          /\ Go(x, "mark")
          /\ UNCHANGED <<result, doomed>>
       \/ /\ target[x] \notin staging
          /\ Return(x, None)
          /\ UNCHANGED <<staging, reportDirs>>
    /\ UNCHANGED <<dbVars, damaged, removing, detached, sweepVars, inputVars, target, guarded, todo>>

\* Variant: a misspelt storage state.
SetReadyMisspelt(u) ==
    storage' = [storage EXCEPT ![u] = IF @ = "pending_files" THEN "stored" ELSE @]

\* mark_report_storage_ready: an UPDATE that asks for a pending row.
SetReady(u) ==
    storage' = [storage EXCEPT ![u] = IF @ = "pending_files" THEN "ready" ELSE @]

\* The request that owns the report fails when someone else marked it; a recovery does not mind.
MarkReady(x) ==
    /\ pc[x] = "mark"
    /\ SetReady(target[x])
    /\ Return(x, IF x = target[x] /\ storage[x] # "pending_files" THEN None ELSE target[x])
    /\ UNCHANGED <<chState, chManifest, chReport, leases, lapsed, staging, reportDirs, damaged, removing, detached,
                   sweepVars, inputVars, target, guarded, todo>>

-----------------------------------------------------------------------------
(* The end of a request *)

\* Variant: the release waits until it finds its lease row.
ReleaseLeaseFound(r) ==
    /\ r \in leases
    /\ leases' = leases \ {r}
    /\ lapsed' = lapsed \ {r}

\* release_upload_lease; an error is only logged, and leaves the lease to expire.
ReleaseLease(r) ==
    \/ leases' = leases \ {r} /\ lapsed' = lapsed \ {r}
    \/ Faults \cap {"early", "late"} # {} /\ UNCHANGED <<leases, lapsed>>

\* lease.release(), then the answer, or the clean-up that goes with an error.
Release(r) ==
    /\ pc[r] = "release"
    /\ ReleaseLease(r)
    /\ guarded' = guarded \ {r}
    /\ Go(r, IF result[r] = None THEN "abandon" ELSE "ok")
    /\ UNCHANGED <<chState, chManifest, chReport, storage, fileVars, sweepVars, inputVars, target, result, todo>>

\* abandon_submission removes the upload's staging directory, whoever refers to it; a StagingUpload
\* that the handler still holds is dropped with the answer.
Abandon(r) ==
    /\ pc[r] = "abandon"
    /\ StartRemoval(r)
    /\ doomed' = IF OwnsReport(r) THEN doomed ELSE doomed \cup {r}
    /\ Go(r, "failed")
    /\ UNCHANGED <<dbVars, staging, reportDirs, detached, sweepVars, inputVars, flowVars>>

\* A spawned StagingUpload removal runs.
RunDrop(u) ==
    /\ u \in doomed
    /\ doomed' = doomed \ {u}
    /\ StartRemoval(u)
    /\ UNCHANGED <<dbVars, staging, reportDirs, detached, sweepVars, pc, inputVars, flowVars>>

\* remove_dir_all ends: it removes the directory it was given, unless that moved away meanwhile.
RemoveDirectory(u) ==
    /\ u \in removing
    /\ removing' = removing \ {u}
    /\ staging' = staging \ {u}
    /\ UNCHANGED <<dbVars, reportDirs, damaged, doomed, detached, sweepVars, pc, inputVars, flowVars>>

\* remove_dir_all fails half-way, or dies with its process.
RemovalFails(u) ==
    /\ u \in removing
    /\ removing' = removing \ {u}
    /\ UNCHANGED <<dbVars, staging, reportDirs, damaged, doomed, detached, sweepVars, pc, inputVars, flowVars>>

\* The rename of a dropped request runs to its end on the blocking pool.
RunDetached(r) ==
    /\ r \in detached
    /\ detached' = detached \ {r}
    /\ IF target[r] \in staging
       THEN MoveDirectory(target[r])
       ELSE UNCHANGED <<staging, reportDirs>>
    /\ UNCHANGED <<dbVars, damaged, removing, doomed, sweepVars, pc, inputVars, flowVars>>

\* The release that a dropped UploadLeaseGuard spawned.
ReleaseDropped(r) ==
    /\ pc[r] = "dropped" /\ r \in guarded
    /\ ReleaseLease(r)
    /\ guarded' = guarded \ {r}
    /\ UNCHANGED <<chState, chManifest, chReport, storage, fileVars, sweepVars, pc, inputVars, target, result, todo>>

-----------------------------------------------------------------------------
(* Failures *)

\* What a request's interruption is called: the owner of a committed report fails late.
FaultOf(x) ==
    IF x \in Servers \/ x \notin guarded THEN (IF pc[x] \in FinalizePc THEN "recovery" ELSE "early")
    ELSE IF OwnsReport(x) THEN "late"
    ELSE IF pc[x] \in FinalizePc THEN "recovery" ELSE "early"

\* An operation returns an error, or the deadline drops the upload: then its own rename may still
\* run.  Before the lease is held there is no deadline, and an error after begin_staging abandons.
Fail(x) ==
    /\ pc[x] \in {"prepare", "checked", "staged"} \cup UploadPc
    /\ FaultOf(x) \in Faults
    /\ detached' \in {detached} \cup (IF x \in guarded /\ pc[x] = "rename" THEN {detached \cup {x}} ELSE {})
    /\ IF pc[x] = "staged"
       THEN Go(x, "abandon") /\ UNCHANGED <<result, doomed>>
       ELSE Return(x, None)
    /\ UNCHANGED <<dbVars, staging, reportDirs, damaged, removing, sweepVars, inputVars, target, guarded, todo>>

\* The deadline, a lost connection or a disconnect hits accept_report after COMMIT was sent: the
\* report is there, and the future that would mark its staging referenced is gone.
CommitUnacknowledged(r) ==
    /\ pc[r] = "accept"
    /\ "late" \in Faults
    /\ RowsOf(manifest[r]) = {} /\ ChallengeValid(r)
    /\ InsertReport(r)
    /\ doomed' = doomed \cup {r}
    /\ Go(r, "release") \/ ("disconnect" \in Faults /\ Go(r, "dropped"))
    /\ UNCHANGED <<chState, chManifest, leases, lapsed, staging, reportDirs, damaged, removing, detached,
                   sweepVars, inputVars, flowVars>>

\* mark_storage_ready takes effect although its caller was interrupted.
MarkUnacknowledged(r) ==
    /\ pc[r] = "mark"
    /\ FaultOf(r) \in Faults
    /\ SetReady(target[r])
    /\ Return(r, None)
    /\ UNCHANGED <<chState, chManifest, chReport, leases, lapsed, staging, reportDirs, damaged, removing, detached,
                   sweepVars, inputVars, target, guarded, todo>>

\* Dropping the handler's future runs the destructors of what it holds; what it was waiting for
\* may take effect all the same.
Disconnect(r) ==
    /\ "disconnect" \in Faults
    /\ pc[r] \notin DonePc \cup {"idle"}
    /\ Go(r, "dropped")
    /\ staging' \in {staging} \cup (IF pc[r] = "checked" THEN {staging \cup {r}} ELSE {})
    /\ leases' \in {leases} \cup
            (IF pc[r] = "staged" /\ LeaseAvailable(r) THEN {(leases \ lapsed) \cup {r}} ELSE {})
    /\ lapsed' = lapsed \cap leases'
    /\ detached' \in {detached} \cup (IF pc[r] = "rename" THEN {detached \cup {r}} ELSE {})
    /\ doomed' = IF pc[r] \in {"staged", "abandon"} \cup UploadPc /\ r \in staging /\ ~OwnsReport(r)
                 THEN doomed \cup {r} ELSE doomed
    /\ UNCHANGED <<chState, chManifest, chReport, storage, reportDirs, damaged, removing, sweepVars, inputVars, flowVars>>

\* A process dies: its requests, spawned tasks and blocking operations die with it.
Crash(s) ==
    LET dead == {r \in Requests : server[r] = s}
    IN  /\ "crash" \in Faults
        /\ pc[s] # "down"
        /\ pc' = [x \in Actors |-> IF x = s THEN "down"
                                   ELSE IF x \in dead /\ pc[x] \notin DonePc THEN "crashed"
                                   ELSE pc[x]]
        /\ doomed' = doomed \ dead
        /\ detached' = detached \ dead
        /\ guarded' = guarded \ dead
        /\ target' = [x \in Actors |-> IF x \in dead \cup {s} THEN None ELSE target[x]]
        /\ todo' = [todo EXCEPT ![s] = {}]
        /\ UNCHANGED <<dbVars, staging, reportDirs, damaged, removing, sweepVars, inputVars, result>>

-----------------------------------------------------------------------------
(* Startup recovery *)

Pending == {r \in Requests : storage[r] = "pending_files"}

\* Variant: a restarted process serves without looking for pending reports.
StartServerBlank(s) ==
    /\ pc[s] = "down"
    /\ Go(s, "recover")
    /\ UNCHANGED <<dbVars, fileVars, sweepVars, inputVars, flowVars>>

\* recover_pending_storage: pending_report_storage() returns at most its LIMIT of rows.
StartServer(s) ==
    /\ pc[s] = "down"
    /\ \E batch \in SUBSET Pending :
        /\ Cardinality(batch) <= RecoveryLimit
        /\ batch = Pending \/ Cardinality(batch) = RecoveryLimit
        /\ todo' = [todo EXCEPT ![s] = batch]
    /\ Go(s, "recover")
    /\ UNCHANGED <<dbVars, fileVars, sweepVars, inputVars, target, guarded, result>>

RecoverNext(s) ==
    /\ pc[s] = "recover"
    /\ \/ \E u \in todo[s] :
            /\ target' = [target EXCEPT ![s] = u]
            /\ todo' = [todo EXCEPT ![s] = @ \ {u}]
            /\ Go(s, "finalize")
       \/ /\ todo[s] = {}
          /\ target' = [target EXCEPT ![s] = None]
          /\ Go(s, "serving")
          /\ UNCHANGED todo
    /\ UNCHANGED <<dbVars, fileVars, sweepVars, inputVars, guarded, result>>

-----------------------------------------------------------------------------
(* The maintenance sweep *)

\* A lease outlives its upload's deadline by 30 seconds.
LapseLease(r) ==
    /\ r \in leases \ lapsed
    /\ ~(pc[r] \in UploadPc /\ r \in guarded)
    /\ lapsed' = lapsed \cup {r}
    /\ UNCHANGED <<chState, chManifest, chReport, storage, leases, fileVars, sweepVars, pc, inputVars, flowVars>>

\* The maintenance loop starts once the startup recovery is done.
MaintenanceRuns == \E s \in Servers : pc[s] = "serving"

\* sweep_expired_ingestion_state.
SweepExpired ==
    /\ MaintenanceRuns
    /\ leases' = leases \ lapsed
    /\ lapsed' = {}
    /\ chState' = [c \in Challenges |-> IF chState[c] = "expired" THEN "deleted" ELSE chState[c]]
    /\ UNCHANGED <<chManifest, chReport, storage, fileVars, sweepVars, pc, inputVars, flowVars>>

\* stale_staging_uploads: an upload's directory is older than staging_retention_seconds, which is
\* at least a minute longer than the upload deadline, only when its request is over.
SweepList(u) ==
    /\ MaintenanceRuns
    /\ u \in staging \ sweepSeen
    /\ pc[u] \in DonePc
    /\ sweepSeen' = sweepSeen \cup {u}
    /\ UNCHANGED <<dbVars, fileVars, sweepDel, pc, inputVars, flowVars>>

\* Variant: age alone decides what the sweep removes.
SweepCheckAgeOnly(u) ==
    /\ MaintenanceRuns
    /\ u \in sweepSeen
    /\ sweepSeen' = sweepSeen \ {u}
    /\ sweepDel' = sweepDel \cup {u}
    /\ UNCHANGED <<dbVars, fileVars, pc, inputVars, flowVars>>

\* Variant: the reference test is inverted.
SweepCheckInverted(u) ==
    /\ MaintenanceRuns
    /\ u \in sweepSeen
    /\ sweepSeen' = sweepSeen \ {u}
    /\ sweepDel' = IF storage[u] # "none" THEN sweepDel \cup {u} ELSE sweepDel
    /\ UNCHANGED <<dbVars, fileVars, pc, inputVars, flowVars>>

\* staging_upload_is_referenced.
SweepCheck(u) ==
    /\ MaintenanceRuns
    /\ u \in sweepSeen
    /\ sweepSeen' = sweepSeen \ {u}
    /\ sweepDel' = IF storage[u] = "none" THEN sweepDel \cup {u} ELSE sweepDel
    /\ UNCHANGED <<dbVars, fileVars, pc, inputVars, flowVars>>

SweepRemove(u) ==
    /\ MaintenanceRuns
    /\ u \in sweepDel
    /\ sweepDel' = sweepDel \ {u}
    /\ StartRemoval(u)
    /\ UNCHANGED <<dbVars, staging, reportDirs, doomed, detached, sweepSeen, pc, inputVars, flowVars>>

-----------------------------------------------------------------------------

RequestStep(r) ==
    \/ FindReceipt(r) \/ BeginStaging(r) \/ AcquireLease(r) \/ AcceptReport(r)
    \/ ReadReceipt(r) \/ DiscardUpload(r) \/ Finalize(r) \/ Rename(r) \/ MarkReady(r)
    \/ Release(r) \/ Abandon(r)

ServerStep(s) ==
    StartServer(s) \/ RecoverNext(s) \/ Finalize(s) \/ Rename(s) \/ MarkReady(s)

\* Tasks that run on their own once spawned.
TaskStep(r) ==
    RunDrop(r) \/ RemoveDirectory(r) \/ RunDetached(r) \/ ReleaseDropped(r)

SweepStep(r) == SweepList(r) \/ SweepCheck(r) \/ SweepRemove(r)

FaultStep ==
    \/ \E x \in Actors : Fail(x)
    \/ \E r \in Requests : CommitUnacknowledged(r) \/ MarkUnacknowledged(r) \/ Disconnect(r) \/ RemovalFails(r)
    \/ \E s \in Servers : Crash(s)

ClientStep ==
    \/ \E c \in Challenges, m \in Manifests : IssueChallenge(c, m)
    \/ \E r \in Requests, s \in Servers, m \in Manifests, c \in Challenges, cl \in Clients : Submit(r, s, m, c, cl)

TimeStep ==
    \/ \E c \in Challenges : ExpireChallenge(c)
    \/ \E r \in Requests : LapseLease(r)

Next ==
    \/ ClientStep \/ TimeStep \/ FaultStep \/ SweepExpired
    \/ \E r \in Requests : RequestStep(r) \/ TaskStep(r) \/ SweepStep(r)
    \/ \E s \in Servers : ServerStep(s)

Spec == Init /\ [][Next]_vars

\* A polled future, a spawned task, the maintenance loop and a supervised process run on; clients,
\* the clock and failures owe nothing.  A directory that can be removed time and again is.
FairSpec ==
    /\ Spec
    /\ \A r \in Requests :
        /\ WF_vars(RequestStep(r))
        /\ WF_vars(SweepList(r)) /\ WF_vars(SweepCheck(r)) /\ WF_vars(SweepRemove(r))
        /\ WF_vars(RunDrop(r)) /\ WF_vars(RunDetached(r)) /\ WF_vars(ReleaseDropped(r))
        /\ SF_vars(RemoveDirectory(r))
    /\ \A s \in Servers : WF_vars(ServerStep(s))

-----------------------------------------------------------------------------
(* Properties *)

\* The reports table's unique submission id: however often a submission is retried, and however
\* its requests interleave, at most one of them inserts a report, and each report has used up the
\* challenge its request presented.
OneReportPerSubmission ==
    \A u, v \in Referenced :
        /\ SubmissionOf[manifest[u]] = SubmissionOf[manifest[v]] => u = v
        /\ chReport[challenge[u]] = u

\* A client that was answered with a receipt, directly or through a retry, has a ready report made
\* from the very manifest it sent, with its directory in place (submit_report, recover_receipt).
ReceiptIsHonored ==
    \A r \in Requests : pc[r] = "ok" =>
        LET u == result[r]
        IN  u \in Requests /\ storage[u] = "ready" /\ u \in reportDirs /\ manifest[u] = manifest[r]

\* A directory under reports/ belongs to a report row, so retention will find it; and it has no
\* twin left in staging, so finalize never meets both (finalize's conflict branch).
ReportDirectoriesOwned ==
    \A u \in reportDirs : u \in Referenced /\ u \notin staging

\* The uploads being received never exceed the global and the per-client limit, although leases
\* expire, are released late or are left behind by a dead process (acquire_upload_lease).
UploadLimits ==
    LET active == {r \in Requests : pc[r] \in UploadPc /\ r \in guarded}
    IN  /\ Cardinality(active) <= GlobalLimit
        /\ \A cl \in Clients : Cardinality({r \in active : client[r] = cl}) <= ClientLimit

\* The attachments of a committed report stay whole, in staging or in the report's directory:
\* "The public API can recover an interrupted finalization" (docs/architecture.md).
CommittedFilesKept ==
    \A u \in Referenced : u \in (staging \cup reportDirs) \ damaged

\* What the properties above rest on.  The flow of a request: what it came with is known from its
\* first step, and it owns a report only from the commit on.
FlowInv ==
    \A r \in Requests :
        /\ pc[r] = "idle" => server[r] = None /\ r \notin leases
        /\ pc[r] # "idle" => /\ manifest[r] \in Manifests /\ challenge[r] \in Challenges
                            /\ client[r] \in Clients /\ server[r] \in Servers
        /\ r \in Referenced => pc[r] \in FinalizePc \cup {"release", "abandon"} \cup DonePc
        /\ pc[r] \in {"accept", "existing", "discard"} => r \in guarded
        /\ r \in guarded => pc[r] \in UploadPc \cup {"release", "dropped"}

\* Whatever is being finished is a report, of the same manifest as the request that finishes it.
TargetInv ==
    /\ \A x \in Actors : pc[x] \in FinalizePc => target[x] \in Referenced
    /\ \A x \in Actors : pc[x] = "mark" => target[x] \in reportDirs
    /\ \A r \in Requests : pc[r] \in FinalizePc => manifest[target[r]] = manifest[r]
    /\ \A r \in detached : target[r] \in Referenced
    /\ \A s \in Servers : todo[s] \subseteq Referenced
    /\ \A r \in Requests : pc[r] = "discard" => target[r] \in Referenced /\ manifest[target[r]] = manifest[r]
    /\ \A r \in Requests : pc[r] = "existing" => \E u \in Referenced : manifest[u] = manifest[r]

\* A receipt, given or about to be given, is for a ready report of the request's own manifest.
ResultInv ==
    /\ \A r \in Requests : result[r] # None =>
        /\ pc[r] # "idle"
        /\ storage[result[r]] = "ready"
        /\ manifest[result[r]] = manifest[r]
    /\ \A r \in Requests : pc[r] = "ok" => result[r] # None
    /\ \A u \in Requests : storage[u] = "ready" => u \in reportDirs

\* An upload that is under way has its lease, and the lease table respects the limits.
LeaseInv ==
    /\ \A r \in guarded : pc[r] \in UploadPc => r \in leases \ lapsed
    /\ Cardinality(leases) <= GlobalLimit
    /\ \A cl \in Clients : Cardinality({r \in leases : client[r] = cl}) <= ClientLimit

\* Without late failures, nothing that removes a staging directory has hold of an upload that is
\* under way or committed, and the owner of a report abandons it only once it was renamed.
FilesInv ==
    "late" \notin Faults =>
        /\ removing \subseteq damaged
        /\ \A r \in Requests :
            /\ r \in Referenced \/ pc[r] \in {"idle", "prepare", "checked", "staged", "accept"} =>
                r \notin damaged \cup doomed \cup sweepDel
            /\ pc[r] \in {"staged", "accept"} => r \in staging
            /\ r \in Referenced => r \in staging \cup reportDirs
            /\ r \in Referenced /\ (pc[r] = "abandon" \/ (pc[r] = "release" /\ result[r] = None)) =>
                r \in reportDirs
            /\ r \in Referenced /\ pc[r] \in FinalizePc => r \in guarded /\ target[r] = r
            /\ pc[r] \in {"idle", "prepare", "checked", "staged", "accept"} => r \notin sweepSeen

IngestionInv == TypeOK /\ FlowInv /\ OneReportPerSubmission /\ TargetInv /\ ResultInv /\ ReportDirectoriesOwned

\* No request waits for ever: each one that reaches the handler is answered, dropped or dies,
\* whoever it races for its submission (submit_report).
EveryRequestEnds ==
    \A r \in Requests : pc[r] = "prepare" ~> pc[r] \in DonePc

CrashesStop == <>[][\A s \in Servers : ~Crash(s)]_vars

\* If the process stops crashing, a report left pending by a crash becomes ready at a restart,
\* without the client (recover_pending_storage at startup).
CrashedReportsRecover ==
    CrashesStop => \A u \in Requests : (pc[u] = "crashed" /\ u \in Pending ~> storage[u] = "ready")

\* If the process stops crashing, the directory of an upload that came to nothing is removed in
\* the end, by its request, its destructor or the sweep (sweep_ingestion_state).
AbandonedStagingRemoved ==
    CrashesStop => \A u \in Requests : (pc[u] \in DonePc /\ u \notin Referenced ~> u \notin staging)

-----------------------------------------------------------------------------
(* Ingestion implements the report log *)

Log == INSTANCE ReportLog WITH
    accepted <- {manifest[u] : u \in Referenced},
    published <- {manifest[u] : u \in {v \in Requests : storage[v] = "ready"}},
    receipts <- {manifest[r] : r \in {q \in Requests : pc[q] = "ok"}}

\* Seen from the clients, requests, retries, recovery and clean-up together are the log: no second
\* report for a submission id, no receipt before its report is ready, nothing taken back.
ImplementsReportLog == Log!Spec

=============================================================================
