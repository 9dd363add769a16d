# A formal model of ladybird-reports

ladybird-reports takes crash and web-compatibility reports from browsers, keeps
them with their attachments, and helps maintainers sort them into GitHub issues.
This directory holds TLA+ models of its parts, TLC configurations that check
them on small instances, and TLAPS proofs for every size of instance.

## The system

Two long-running services, `public_api` and `admin`, each possibly in several
processes, share a PostgreSQL database and a directory of attachments. Paths
below are relative to the repository.

| Part | State it keeps | Operations | What is hard |
| --- | --- | --- | --- |
| Ingestion (`src/application/report_ingestion.rs`, `src/infrastructure/database/ingest.rs`, `src/web/public/handlers.rs`, SQL functions of `migrations/0025` and `0036`) | challenges, reports (`pending_files`, `ready`), upload leases, `staging/<upload>` and `reports/<report>` directories | issue a challenge; submit; accept; finalize; mark ready; recover at startup; sweep | retries race, the database and the file system commit separately, futures are dropped at any await, processes die |
| Discord outbox (`src/application/discord_notifications.rs`, `src/infrastructure/database/admin/notifications.rs`) | one outbox row per ready report, a singleton delivery lease with a pause | claim, send, finish, defer | replicas, expiring leases, lost answers, head-of-line retries |
| Stack index (`src/application/stack_indexing.rs`, `src/infrastructure/database/admin/stack_signatures.rs`) | one signature per report, matched or not | wake, scan, store, match | lost wake-ups, two indexers, the order in which reports become ready |
| Triage (`src/infrastructure/database/admin/reports.rs`, `issues.rs`, `src/domain/states.rs`, triggers of `migrations/0034`, `0046`) | report state, issue and fix | link, unlink, set state, resolve with a fix, act on many, reject an issue | READ COMMITTED transactions that lock different rows |
| GitHub (`github_sync.rs`, `github_duplicates.rs`, `src/web/admin/handlers/github_webhook.rs`) | an issue's GitHub identity and state, aliases, duplicate jobs, merges | synchronise, move, delete, replace, merge a duplicate | webhooks out of order, jobs that outlive their reason |
| Sessions (`src/web/admin/session.rs`, `authentication.rs`, `src/application/session_verification.rs`) | OAuth states, sessions, tokens | sign in, check, rotate tokens, recheck membership, revoke | checks that end after what they checked has changed |
| Configuration (`src/domain/configuration.rs`, `src/infrastructure/database/configuration_cache.rs`, `settings.rs`) | one row, one cached copy per process | validate, save, reload on NOTIFY | a slow reload overwrites a newer value; delays that leave no time |
| Rate limits (`src/web/public/rate_limit.rs`, `consume_rate_limit`, `src/web/admin/handlers/shares.rs`) | token buckets, a budget per process | attribute a request, consume, refuse | clocks read before locks, forged addresses |
| Retention and shares (`maintenance.rs`, `report_shares.rs`, source blocks in `reports.rs`) | reports, their files, source keys, blocks, links | sweep, remove files, delete row; block, unblock; share, open | two steps, each may fail; blocks that outlive keys |
| Report list and search (`src/domain/report_search.rs`, `list_reports`, `src/web/admin/handlers/reports.rs`) | none | parse a search, write a link, page through | reports that come and go between pages, quoting |
| Stack traces and messages (`src/domain/stack_trace.rs`, `src/domain/report_title.rs`, message part of `discord_notifications.rs`) | none | parse, sign, title, describe | two clients write one crash differently; limits of Discord |
| Compression (`src/infrastructure/attachments/filesystem.rs`, `src/application/attachment_compression.rs`) | files | compress in place at startup | a shared temporary name, crashes |

The parts meet in the database: ingestion marks a report ready, and a trigger
adds its outbox row and notifies the stack index in the same transaction; the
index links the report or drops its outbox row; the outbox announces what is
left; triage and GitHub change the states the index reads; retention removes
what ingestion stored; the configuration decides whose sessions are accepted and how
long everything is kept. The correctness of each part is in `PROJECT.json` under
`hazards`, one entry per place where the code could go wrong unseen.

## Ingestion

`Ingestion.tla` models one public API, with all its requests, retries,
processes, its recovery and its sweep. A *request* draws one fresh upload id and
inserts at most one report, so the model names the upload, its staging
directory, the report row and the report's directory all by the request. A
manifest stands for its digest, `SubmissionOf` gives the submission id in it.

| Model | Code |
| --- | --- |
| `chState`, `chManifest`, `chReport` | the row of a challenge: expiry, `manifest_digest`, `report_id` |
| `storage[r]` | `reports.storage_state` of the row request `r` inserted, `"none"` before |
| `leases`, `lapsed` | `upload_leases`, and those whose `expires_at` has passed |
| `staging`, `reportDirs` | the directories that exist |
| `damaged` | uploads with a file already unlinked by a `remove_dir_all` |
| `removing`, `doomed` | a `remove_dir_all` that is under way; one that a `StagingUpload` destructor spawned |
| `detached` | a `rename` that runs on the blocking pool after its future was dropped |
| `guarded` | requests with a live `UploadLeaseGuard` |
| `pc`, `target`, `result`, `todo` | where a request or a startup recovery is, the report it is finishing, the receipt it has, the batch left to recover |
| `sweepSeen`, `sweepDel` | what the sweep listed, and what it found unreferenced |

A step is what the code does between two awaits: `FindReceipt` is
`prepare_submission` to its query and `handle_existing_receipt`, `BeginStaging`
the rest of it, `AcquireLease` the SQL function under its advisory lock,
`AcceptReport` the whole `accept_report` transaction together with the
`mark_referenced` that follows without an await, and so on to `Release` and
`Abandon`. The reception and validation of attachments changes nothing but the
upload's own directory and is part of `AcceptReport`; its errors are `Fail`.

Failures are actions, and the constant `Faults` says which kinds may strike:
`early` (an error, a refused payload or the deadline before the report is
committed), `late` (during or after the commit), `recovery` (while finishing
someone else's report), `disconnect` (the handler's future is dropped, which
runs destructors and may leave a query or a rename to take effect), `crash`.
A statement whose caller is gone may still take effect: `CommitUnacknowledged`,
`MarkUnacknowledged`, and the choices in `Disconnect`.

What the model adds or leaves out:

- `remove_dir_all` unlinks files first and the directory last; the model starts
  it in one step and ends it in another, so a rename can come between. A request
  that awaits its removal may, in the model, go on before it ended.
- The sweeps of all processes share `sweepSeen` and `sweepDel`, and a crash does
  not empty them: more interleavings than the code has, never fewer.
- `SweepList` waits for the upload's request to be over. The code compares the
  directory's age with `staging_retention_seconds`, which configuration
  validation keeps a minute above the upload deadline
  (`src/domain/configuration.rs:798`). `LapseLease` waits likewise: a lease
  lives 30 seconds longer than the deadline.
- Ids, tokens and proofs of work either verify or not; what a token was issued
  for is `chManifest`.
- Rate limiting in front of the handlers only refuses requests.

`ReportLog.tla` is what ingestion promises: manifests are accepted once per
submission id, then published, and a receipt exists only for a published one.
`Ingestion` maps to it by its rows and its answered requests
(`ImplementsReportLog`).

### What is checked

`OneReportPerSubmission`, `ReceiptIsHonored`, `ReportDirectoriesOwned`,
`UploadLimits` and `CommittedFilesKept` are the safety properties,
`ImplementsReportLog` the refinement, `EveryRequestEnds`,
`CrashedReportsRecover` and `AbandonedStagingRemoved` the liveness.

| Run | Instance | Shows |
| --- | --- | --- |
| `ingestion_crash` | 2 requests, 1 process, 2 manifests with one submission id, 2 challenges; `early`, `recovery`, `crash` | one report per submission id, refinement, although a submission id is reused and the process dies anywhere |
| `ingestion_replicas` | 2 requests, 2 processes, 1 manifest; `crash` | receipts, files and directories, when a startup recovery races the live request and the sweep of another process |
| `ingestion_late` | 2 requests, 2 clients, limits 1 and 2; `late`, `recovery`, `disconnect` | the inductive invariant, which the receipts are part of, and the limits, with commits nobody heard of |
| `ingestion_live` | 2 requests, 1 process; `crash`; fairness | requests end, crashed reports recover, abandoned directories go |
| `ingestion_lost` | 1 request; `late` | a violation, below |

Two requests are enough for every race between an owner and a retry, an owner
and a recovery, or two uploads over one lease; the limits are one so that they
bind. The proofs cover the larger instances.

Fairness (`FairSpec`): a polled future, a spawned task, the blocking pool and
the maintenance loop make progress (weak fairness for each request, task and
process); a removal that is tried again and again succeeds (strong fairness of
`RemoveDirectory`); a process that died is restarted by its supervisor. Clients,
the clock and failures are under no obligation. The last two liveness properties
assume that crashes stop.

### A finding

`ingestion_lost`: `submit_report` removes the staging directory on every error,
and the destructor of `StagingUpload` does so until `mark_referenced` was
called. The deadline or a lost connection can hit after PostgreSQL committed the
report, and an I/O error can hit `finalize` before its rename. The report then
stays `pending_files` without its files; each retry and each recovery fails at
the rename, and the submission id is used up. The architecture document says
that an interrupted finalization can be recovered, and that only unreferenced
directories are removed. Without late failures the property holds and is proved
(`FilesKept`).

### What is proved

`IngestionProofs.tla` proves, for every finite set of requests, every set of processes, manifests, challenges and clients, every
limit and every `Faults`: type correctness, the inductive invariant,
`OneReportPerSubmission`, `ReceiptIsHonored`, `ReportDirectoriesOwned`,
`UploadLimits`, and that ingestion implements the report log; and
`CommittedFilesKept` when `"late"` is not among the faults. The only assumption
is `IngestionAssumption` (the types of the constants; requests, processes and
`None` are distinct).

`IngestionInv` strengthens the properties with three parts: `FlowInv` (a request
owns a report only from the commit on, and holds a lease guard only during its
upload), `TargetInv` (what anybody finishes is an existing report of the same
manifest; a report about to be marked has its directory), and `ResultInv` (a
receipt noted is for a ready report with a directory). Each is needed because
the next step acts on what an earlier one read: `MarkReady` trusts the rename of
a step before, `Release` the result. `LeaseInv` carries the limits: the lease
table respects them and each upload under way has its row, so the uploads are
no more than the rows. `FilesInv` carries the files: no removal, destructor or
sweep has hold of an upload that is under way or committed.

Liveness is only model-checked.


## Notifications

`Notifications.tla` models what happens between a report's becoming ready and
its Discord message: the outbox, the stack indexer and the dispatcher of every
admin replica, and what maintainers and GitHub do to the reports and issues the
matching reads.

| Model | Code |
| --- | --- |
| `ready`, `rejected`, `issueOf`, `open` | `reports.storage_state`, `state` and `issue_id`; the issues that are open on GitHub |
| `handled` | history: reports that were linked or rejected at some time |
| `signed`, `matched` | rows of `report_stack_signatures`, and those with a `matched_at` |
| `outbox`, `queuedAt` | the row of `discord_report_notifications` (`"dropped"` once deleted) and its `created_at` |
| `lease`, `leased`, `expired`, `paused` | `discord_delivery_state` |
| `dpc`, `job` | where a replica's `dispatch_once` is, and its notification |
| `posted` | reports Discord has accepted a message for |
| `ipc`, `todo` | where a replica's `index_until_it_fails` is, and what is left of its batch |
| `listening`, `woken` | `LISTEN` subscriptions, and those with an announcement queued |
| `calm` | nothing fails from now on (used by the liveness property only) |

A step is one transaction or one request: `MarkReady` with its two triggers,
`Scan` the query for a batch, `Store` one transaction of
`store_stack_signatures` including `match_indexed_report`, `Claim` the claiming
transaction up to its commit, `ReadTitle` the query after it, `Send` the
request, `Finish` and `Defer` the recording. `OwnsLease` compares ids only, as
`lock_discord_delivery` does. A lease id is named by the replica that drew it,
which is enough because a replica works under one lease at a time.

`Faults` selects what may strike: `index`, `connection`, `database`, `send`
(refused, or accepted with the answer lost), `stall` (a delivery outlasts its
lease), `crash`. A commit whose acknowledgement is lost is a step followed by a
failure. A traced report's signature is there from the start when the public API
signed it (`Inline`), and its fingerprint may be empty (`None`).

Left out: kinds without a webhook, which only wait; the lengths of back-off and
cooldown, of which `paused` keeps that they end; redefined fields, a new
algorithm version and reports excluded from matching. A `Store` is atomic: it
holds the issue-operation lock, but closing an issue and setting a report's state do
not take that lock, and what comes of their interleaving inside the transaction
is the subject of `IssueTracking.tla`. Outbox rows are ordered by the moment
their reports became ready.

### What is checked

| Run | Instance | Shows |
| --- | --- | --- |
| `notifications_delivery` | 2 replicas, a traced and an untraced report; all failures but `stall`; fairness | the inductive invariant, `DeliveredWasPosted`, `OneDeliveryAtATime`, and `EveryReportSettles` once failures stop |
| `notifications_replicas` | 2 replicas, 2 reports with one signature, 1 issue, triage of one of them; `stall` | `AnnouncedNotDropped`, and `MatchedOnce` although both indexers hold the report in their batches |
| `notifications_matching` | 1 replica, 3 reports with one signature, the third recent for the second only, 2 issues, batches of 1 | `DroppedBehindSeen`: chains of suppression, ambiguous issues, closed issues |
| `notifications_unlinked` | 1 replica, 2 reports, 1 issue | a violation, below |

Two replicas give every race over the lease and over a batch; three reports give
a suppression behind a suppressed report and two issues an ambiguous match.
`Triaged` bounds the reports maintainers act upon.

Fairness (`FairSpec`): the loops of a replica go on, as `run` in
`src/bin/admin.rs` ends the process when one of them stops, and leases and
pauses end. Reports, maintainers, GitHub and failures are under no obligation,
and the property is about what is ready once failures have stopped.

### A finding

`notifications_unlinked`: the architecture document says that a notification is
dropped behind a recent *unlinked* report. The query of `match_indexed_report`
looks at every recent report that is not rejected. A report is linked, its issue
is closed, and the crash recurs within five minutes: there is no open issue to
link the new report to, and its notification is dropped because of the linked one.

### What is proved

`NotificationsProofs.tla` proves, for every finite set of reports and of
replicas, every set of issues, every window, batch size and set of failures: the
inductive invariant, type correctness, `DeliveredWasPosted` (with stalled
deliveries too, which no run has: that a replica that finishes after its lease has
gone to another records nothing rests on the proof), `OneDeliveryAtATime` (when `"stall"` is not among the faults),
`AnnouncedNotDropped` and `MatchedOnce`; and `DroppedBehindSeen` when reports
with one signature have distinct creation times. That condition is needed: the
window includes both its ends, so two reports with the same `created_at` are
dropped behind each other.

`NotificationsInv` adds to the properties that a report under way is ready,
matched and not dropped (`JobsAnnounceable`), so the matching never takes it
away; that a row exists exactly for ready reports and is dropped only for
matched ones (`OutboxFollows`); that, without stalls, who delivers holds an
unexpired lease (`LeaseHeld`). `DroppedBehindSeen` is inductive relative to it:
when a report is dropped behind a twin that is itself dropped, the report that
speaks for the twin is earlier still, and so speaks for both.

Liveness is only model-checked.

## Issue tracking

`IssueTracking.tla` models triage and GitHub together: report rows, issue rows
with the GitHub issue each shows, the aliases of replaced links, the duplicate
jobs and their lease, and GitHub itself.

| Model | Code |
| --- | --- |
| `report` | `state`, `issue_id` and the fix of a row of `reports` |
| `issue` | a row of `issues`: its state, the GitHub issue, `github_state` (`link`), `github_updated_at` (`seen`), `resolved`, `merged_into` (`into`) |
| `jobFor`, `leaseOf`, `lapsed` | `github_duplicate_jobs`; a lease id is named by the worker that drew it |
| `worker`, `txn` | what a duplicate worker, and what a maintainer's request, holds between its steps |
| `status`, `original`, `clock` | GitHub: where each issue is, what it duplicates, the time of the latest change |
| `sent` | everything GitHub has told anybody |

`sent` never shrinks: a webhook is any message in it, so webhooks are lost,
repeated, late and out of order, and a page that has fetched an issue holds
any past state of it.

A transaction that writes report rows is two steps, because READ COMMITTED lets
others in between: its last statement, which locks the rows and, in the trigger
`follow_issue_state_on_report`, reads the issue (`Begin`), and its commit
(`Commit`) or failure (`Abort`). `Locked` are the rows it holds, `Busy` says that
it holds `lock_issue_operations`. Merging, rejecting and replacing an issue take
that lock, and are one step each. `Follow` and `Settle` are the triggers.

Left out: a second repository (an id and a number on GitHub are one thing),
webhooks without an installation, "edited" events, back-off, audit events. The
unique index on GitHub ids is a guard of `Merge`; a bulk transaction settles all
its rows at one read of the issue. A lease that another worker takes is a job
that is queued again meanwhile.

The run `tracking` (1 report, 2 local issues, 2 GitHub issues of which one exists
at the start, 1 maintainer, 1 duplicate worker, 3 changes on GitHub; 778,299
states) checks `TrackingInv`, `NothingLeftBehind`, `ChainsEnd`,
`OutOfStepOnlyByRace`, `LinkNotStolen`, `MergesDuplicates` and `NewestWins`. One
maintainer's two-step transaction races every one-step transaction of webhooks,
jobs and issue pages; three changes are enough to close an issue as a duplicate,
reopen it, and have each message arrive late; a merge needs two issues. Two
maintainers at once, and cycles of three issues, are beyond the instance; the
proofs cover them.

What the model shows of the code, all of it allowed by the properties:

- A report can stay `confirmed` on an issue that is resolved, or the other way
  round: the transaction that links it reads the issue, GitHub's webhook closes the
  issue without the lock that would make it wait, and the link is committed. That is
  the only way (`OutOfStepOnlyByRace`).
- `ensure_destination` overwrites the GitHub identity of the issue at the end of a
  merge chain without an alias for the old one, and can bring back a rejected
  destination; `finish_github_duplicate` moves a rejected report as `confirmed`, and
  marks a rejected source resolved.
- A reopening webhook makes a merged source unresolved again
  (`docs/architecture.md:53` calls it resolved history).
- An assignment with an old fetched state makes a missing or moved issue open again.
- A fetched "open" that is stored after the "closed" webhook found no issue leaves
  the issue open until GitHub's next change. Messages with one time are applied in
  any order.
- Two issues that GitHub calls duplicates of each other keep one job that fails and
  is tried again for ever; neither is merged into itself (`ChainsEnd`).

### What is proved

`IssueTrackingProofs.tla` proves every property of the run, for every finite set
of reports and of issues, every set of maintainers, workers and GitHub issues, any
depth and bounds: the inductive invariant `TrackingInv`, `NothingLeftBehind`,
`ChainsEnd`, `LinkNotStolen`, `MergesDuplicates`, `NewestWins` and
`OutOfStepOnlyByRace`. The only assumption is `TrackingAssumption` (the types of
the constants; `None` is no issue, GitHub issue, worker or fix; a landed fix is a
fix).

`TrackingInv` says what a step may trust of an earlier one. The step that commits
writes rows that were read before (`PendingStand`): they still agree with
themselves, the report was not linked elsewhere meanwhile, the issue they name
still exists and was not merged. This holds because open transactions have disjoint
rows and one of them at most the lock of the issue operations (`WritersExclude`),
which every merge takes, and because a transaction without that lock leaves the
link alone. `LinksStand` is `NothingLeftBehind` with the existence of the issue.
`GithubTold` connects duplicate jobs to what GitHub has said, which
`MergesDuplicates` needs when a job outlives the state it was made for.

`ChainsEnd` needs no more than the step that merges: one issue gets a target that
has none itself and is another one, so in a set of issues that would close a circle
the target has nowhere to go. The four action properties are what every step does
to links and to issues (`EveryStep`).

The proof changed one property. That an issue shows, when it is merged, the very
message by which GitHub called it a duplicate is false with two workers: as the target of
another merge the issue may meanwhile have got a later "closed", which ends no job.
`MergesDuplicates` says what the code ensures: the issue shows the GitHub issue as
closed, and GitHub has called that issue a duplicate.

## Access and settings

`Settings.tla` is the validation of the runtime configuration and what is derived
from it; `Access.tla` the row, the copy each process goes by, sign-in, requests and
the verification task.

| Model | Code |
| --- | --- |
| `stored`, `saves` | `runtime_configuration.value` |
| `cache`, `reload`, `saving` | `ConfigurationCache::current`; what a reload has read; what a save has committed and not yet put in its process's cache |
| `session` | the rows of `sessions`: the user, the team verified at sign-in (history), the age of the last check and of the token, and whether the refresh token is unused, used up, or has ended |
| `login`, `request` | where a sign-in and a request are between their awaits |
| `sweep` | where the verification task of a process is, with the team it started from |
| `member` | GitHub: who is on which team |
| `lost` | history: sessions whose new tokens never reached the database |

Time is what it does to a session: a check becomes due and then too old, a token
is about to expire and then expired. A session past `expires_at` is invisible to
every statement, so it ends by its removal. A row that `refresh_session_token` has
locked while it asks GitHub is `Locked`. A refresh
token is used once; it also ends without being used, past its own
`refresh_token_expires_at` or because the authorization is withdrawn at GitHub
(`RefreshTokenEnds`), and `refresh_session_token` says `AuthenticationRequired` in
each of these cases, for which the sweep revokes the session. A token that ends while
it is being rotated ends after the rotation. Notifications only make a reload earlier, so a reload may start at any
time. Text settings are what validation looks at.

The run `access` (2 processes, 1 user, 1 session, 8 documents of which 2 are valid
and the others just beyond a limit, 1 save; 427,312 states) checks `AccessInv`,
`TimelyConfiguration`, `SessionsOfTheTeam`, `RevokedForDeadTokens`, and with
fairness `CachesConverge` and `AccessEnds`. Two processes are the rivals for a
refresh token and for the cache; the save changes the team, so every sign-in,
sweep and reload meets it at each of its steps.

Fairness: the reload loop goes on (`ConfigurationCache::start` spawns it for the
life of the process), a handler that has committed reaches its last statement, and
a check that is not repeated grows old. Administrators, GitHub, users and sweeps are
under no obligation.

Observations: a sweep that started with the old team may renew sessions of people
who are on it only; it ends with the sweep, so access ends (`AccessEnds`). At the
least `membership_recheck_seconds`, 30, only one sweep of 15 seconds falls between a
check becoming due and its no longer counting, and one failed answer of GitHub
signs the user out. Proxy addresses are kept longer than the "at most five minutes"
of the comment when DNS fails.

### What is proved

`AccessProofs.tla` proves, for every set of processes, finite sets of users and
sessions, every bound on saves and every set of documents that administrators
submit: the inductive invariant `AccessInv` (with the types), `SessionsOfTheTeam`,
`RevokedForDeadTokens` and `TimelyConfiguration`. The assumptions are
`AccessAssumption` (each document has the type of a configuration, the first one is
valid, bounds and types) and `RowsAssumption` (`None` is not a session's row).

`AccessInv` adds to `SessionsOfTheTeam` what each step trusts of an earlier one: the
copies (`stored`, `cache`, `reload`, `saving`) are all validated, since each is taken
from another; a token with a session is not drawn again; the row of a rotation that
GitHub has answered is still there, because it is locked; and a refresh token that
was used up belongs to such a rotation or is among the `lost`. Without the last two
a rotation that commits could be taken for one that was lost. `RevokedForDeadTokens`
follows: what `RevokeSession` finds is not locked, so its token is either lost or has
ended by itself.

`TimelyConfiguration` follows from a fact about `Validate` alone (`ValidIsTimely`):
whatever the settings, passing validation implies `SafeTimings`. The run tries the
documents at the limits; the proof covers all of them.

Convergence of the caches and the end of access are only model-checked.

## Services

Seven parts that share no state with each other have a module each, and one run,
`services` (457,278 states), explores them one at a time: `MCServices.tla` draws the
part at the start and lets only that one move.

| Module | Models | Property |
| --- | --- | --- |
| `Retention.tla` | the maintenance transaction and the purge of each process, submissions let in before a block and the recovery of their files, blocks and their lifting, shared links | `FilesAndRows`, `BlocksHold`, `RetentionEnds` |
| `RateLimit.tla` | client addresses behind proxies, the three token buckets of a request, the budget of shared links | `RequestsLimited` |
| `Search.tla` | the search language and the searches that pages link to | `LinkFindsItsValue` |
| `Listing.tla` | the paged list of reports while rows change | `ListedOnce` |
| `Compression.tla` | compression in place, by name and by file | `ReaderSeesOneOrTheOther` |
| `StackTraces.tla` | parsing a stack and the signature of a crash, for two clients that report the same one | `SameCrashSameSignature` |
| `Announcement.tla` | title, stack preview and fields of the Discord message, by their lengths | `MessageFits` |

All seven invariants are proved as well, below.

Bounds and what is abstracted:

- Retention: 2 reports, 1 sender, 2 processes, 1 link, a purge limit of 1, three
  units of time with retentions of 2 and 1; a report may be there from before
  reports had an expiry. A report arrives `pending_files`, and its request or one
  recovery after another moves the files and marks it (one at a time; `Ingestion`
  has several at once, and the failures after which staged files are gone). The
  retention is fixed. Two processes purge one report at once, and the limit leaves
  the second for a later sweep. `RetentionEnds` assumes that some process sweeps
  again and again, that removals do not fail for ever, and that the public API
  sweeps its staging directory. It covers links, lifted blocks and keys too.
  Opening a link changes only its count of uses.
- RateLimit: 3 requests of one client, direct or through one proxy, with a forged
  header; tokens and time are whole numbers. A forged header must not lead to a fresh
  bucket.
- Search: every value of up to 4 characters of 8 kinds, in a field of an ordinary name
  and in one named `state`. A search has at most 9 bytes and 2 terms, a key 1 byte,
  so that links at the limit, and one byte beyond it, are among them; the code has
  512, 32 and 64.
- Listing: 3 reports, 2 creation times, pages of 1.
- Compression: 2 processes, 4 files; a file keeps its contents whatever name refers
  to it, as in the file system.
- StackTraces: stacks of 3 lines, of which 2 are rendered; a symbol is a sequence of
  tokens, which `BareSymbol`, `Demangled` and `FunctionName` read as the code reads
  characters. The names in it are opaque, and the machinery is one name or path of
  each list of the code. `Spelled` says what clients write for a function: its bare
  name, its path with return type, template arguments, parameters and closures, or
  the v0 mangling of Rust. The 5 functions of the instance have nested template
  arguments, an anonymous namespace, a name of the machinery's in a namespace, a
  closure, and generic arguments. The first client writes the frames of the crash
  only; the second adds machinery, lambdas, frames without a name, headers and other
  lines. C++ names are never mangled in what clients send.
- Announcement: stacks of up to 3 lines; reports with nothing and with as much as
  clients can put in them; frame numbers are 32-bit unsigned integers
  modelled as 0 .. 5, and wrap as in a release build. Discord's limits of 256, 4096
  and 6000 characters are Discord's; the code names the 1024 of a field. The excerpt
  of 8192 characters a title is made from is not modelled. That Discord refuses a
  field without a value is Discord's, too.

Observations, each an exception that a property states:

- `consume_rate_limit` reads the clock before it has the bucket's row: statements
  that overlap apply one gain twice. `RequestsLimited` allows for the time waited.
- A block cannot be lifted from the page of another report of its sender once the
  keys are forgotten, nor from any page once its own report is purged. Oldest expired
  reports whose removal keeps failing fill the purge's limit, and younger ones wait.
- A report that has expired while `pending_files` is listed for the purge like any
  other (`begin_maintenance_sweep` does not look at `storage_state`). Its directory
  is not there yet, `remove_report` succeeds, and when a recovery that has read the
  row before renames the staged files after that, they stay in `reports/` for ever,
  without a row: nothing sweeps that directory. `FilesAndRows` excepts exactly these
  reports (`late`); the staged files of a purged report are swept.
- A link whose search is longer than 512 bytes is answered with "Report search is too
  long" (`ReportSearch::parse`); values may have up to `short_text_bytes`. A link for
  a client's own field with the key `state` is answered with "Invalid report state
  filter". A link of the report page that joins platform and architecture holds two
  filters and is two such searches.
- A value with white space outside ASCII and nothing that asks for quotes is split by
  the search it links to (`filter_expression` tests ASCII, `tokenize` Unicode).
- All processes compress under one temporary name; one that opens or removes it
  while another writes can leave a torn attachment (`collided`).
- The name of a function is what stands before the first parenthesis, so a path with
  `(anonymous namespace)` yields the namespace around it, and a function whose return
  type has parentheses is named after that. The comment of `demangled` says that
  generic arguments are dropped; the names in them are kept, and the function is
  named after the last of them. A bare name of the program that is in the
  machinery's list (`abort`, `main`) counts as machinery, and one of the machinery
  that is recognised by its path only does not. A closure has its function's name in a
  path or mangled, and none when written bare. `Legible` excepts these symbols, each
  for one form only, and `SameCrashSameSignature` is about all others. Not modelled:
  digits in the disambiguator of a mangled `impl`, read as the length of a name, and
  the functions that a lambda's own path is cut to (`start()::$_0::__invoke`).
- A client may send an empty platform or architecture, which are shown as empty fields
  (`report_message` tests the build, the signal and the page for emptiness, these two
  only for being there; `validate_fields` has no minimum). Discord would refuse the
  message. `MessageFits` excepts reports that were sent so (`SentEmpty`).
- The message may exceed 6000 characters when `stack_trace_characters` is raised
  above its default to 3500; what is proved is that it does not while the setting,
  the name of the repository and 2956 characters for the title (256), the
  decoration of the stack (29) and the other fields (2671) fit into 6000. With
  the default of 3000 that is a name of up to 44 characters. A run of unnamed frames that ends at 4294967295
  overflows at `run.last + 1`. Titles can be longer than the 120 characters they
  aim at; the message cuts them at 256.

### What is proved

Each part has its own specification (`RetentionSpec`, `RateLimitSpec`,
`SearchSpec`, `ListingSpec`, `CompressionSpec`, `StacksSpec`,
`AnnouncementSpec`); in `MCServices` a behaviour of one of them is a behaviour of
its part.

`StorageProofs.tla` proves `FilesAndRows` and `BlocksHold`, for every finite set of
reports and all sets of senders, processes and links, every retention and purge
limit. `RetentionInv` adds that what a process is still to purge has expired or is
gone, and stays so (`PurgesExpired`): several processes purge the same reports, and
each acts on a list it read before. Files go before rows (`FilesFirst`), so a row
that is deleted leaves none, or the rename was late; a report is marked ready after
its files have been moved (`MovedFirst`), so what is ready and has not expired is
whole; and a block names its report only while that is stored
with the blocked key or none (`BlocksFromReports`), so that what the page offers is what the
request does.

It also proves `ReaderSeesOneOrTheOther`, for any number of processes and files:
until two processes meet at the temporary name, one at most writes, to the file
that the temporary name refers to, which is not the attachment (`CompressionInv`).
`AloneServed` draws the conclusion for one process at a time: nothing is ever torn.

`RateLimitProofs.tla` proves `RequestsLimited` for every set of requests, clients
and proxies, all forged headers, rates, capacities and budgets. `ProxiedAddress`
and `DirectAddress` say that the address of a request is its client's, whatever the
header holds; so requests pay from their own buckets (`OwnBuckets`). The limit is
about any two passes, and not inductive: what is, is that since any pass the bucket
has let pass and still holds no more than its capacity and what it gained
(`TokensCover`). Each statement that overlaps another may apply one gain again, at
most for as long as it waited. For links, the passes of a window are the latest of
all, those of the window before come next, and the rest are older than a window's
length (`WindowCovers`). Assumed is `RateLimitAssumption`: clients and proxies are
different addresses, rates and capacities are natural numbers.

`ListingProofs.tla` proves `ListedOnce` for every set of reports, creation times
and page size. `ListingInv` says that what was shown is in the order of the list, the
cursor is the last of it, and each report that has matched all the time was shown
or comes after the cursor. It is kept because a row never changes its creation
time (`StoreKeeps`) and because time and identifier together order all reports
(`NewerOrders`), which is what `ListedOnce` loses when a cursor compares times only.

`TextProofs.tla` proves the three properties of what the program makes of texts,
for texts of every length. The loops of `tokenize`, `parse_stack_trace`,
`stack_description` and the others are folds along a sequence, so each proof is an
induction over the data. The library's induction theorems take a predicate as a
parameter and cannot be applied; `NaturalInduction` derives what is needed from
the well-founded order of the natural numbers (`WFMin`), and `LoopOfIterates` turns
it into the values a loop takes, one after the other. `TokenizeLoop`,
`EscapeLoop`, `ParseLoop`, `RowsAreRead`, `RunsAreMade`, `RunsAreShown`,
`LinesAreAdded` and `FieldsAreAdded` say so for each loop of the code: there is a
function of the position that starts at the initial value, ends at the result, and
whose neighbours are one step of the loop apart.

- `LinksFindTheirValues`: after `key:"` the tokenizer is inside quotes, and the
  escaped form of the first n characters of a value leaves it there with exactly
  these n characters added to its token (`QuotedCharacterRead`, `QuotedLinkRead`).
  Without quotes the token grows by one lower-case character at a time
  (`PlainLinkRead`) up to the white space that splits the link (`PlainLinkSplit`),
  after which the first token found is not the value (`FirstTokenFound`). A link that
  is too long, an empty value and a `state` that is none are refused, and nothing
  else; the limits are any natural numbers (`SearchAssumption`).
- `CrashesHaveOneSignature`: what a symbol yields depends on its function only
  (`SymbolKey`). The text is read token by token, from one part of it to the next
  (`ReadFrom` over a concatenation): template arguments leave nothing, because their
  brackets match; what is before the first parenthesis ends with the path of the
  function, or its closure; and the last segment of that is the name. For a mangled
  symbol the path is that of its names. Neither can be taken for the machinery, whose
  paths have a part that the program's functions do not have. Then, what two stacks of
  one crash have in common is the sequence of the program's functions in them
  (`StacksAgree`), which a line of machinery leaves alone and a named frame extends in
  both. `KeysOfStack` says that the keys `parse_stack_trace` finds are the first of
  this sequence, as many as are in the lines that are rendered, and `SignatureFrames`
  at least if the stack is not cut. Assumed are `FunctionsAssumption` (what a
  declaration is: names are not punctuation, brackets match, and no part of the
  machinery's paths is a name of the program's), `StylesAssumption` and
  `ReasonAssumption` (`Absent` is neither a symbol nor a failure reason).
- `MessagesFitDiscord`: the loop that shows runs stops before the limit
  (`ShownIs`); the frames of the runs made so far are as many as the frames met
  (`RunsTally`), although the numbers in a run wrap around, because there are never
  more frames than numbers. So the last line is the mark exactly when a frame was
  skipped, a run not shown or the stack cut. `AllFieldsFit` and `TitleIs` add up
  the rest. Assumed is `AnnouncementAssumption`: a stack has fewer rendered lines
  (`MAX_RENDERED_LINES`) than there are 32-bit numbers, settings are within what
  configuration validation admits, a version has up to 256 characters and a commit
  7 to 64, which submission and `commit_field` check, and the name of the
  repository has up to 140, which is GitHub's limit and not checked by the program.

To make this possible the loops' bodies became operators with names of their own
(`AddToken`, `EscapeCharacter`, `AddRow`, `AddRun`, `Show`, `AddLine`), one for each
loop of the source.

## What stays model-checked

Every invariant and every action property that a run checks is proved. Left to TLC
alone are the liveness properties: `EveryRequestEnds`, `CrashedReportsRecover`,
`AbandonedStagingRemoved`, `EveryReportSettles`, `CachesConverge`, `AccessEnds` and
`RetentionEnds`. They rest on fairness, and the prover has no rule for `ENABLED`,
without which nothing follows from `WF` or `SF`. The two violations are
counterexamples and need no proof.

## Plan

What is left, in order:

1. **Larger instances** of `IssueTracking.tla` with two maintainers, as a check on
   the model that the proofs do not give: that the interesting cases happen.
2. **Field definitions** (`settings.rs`): their order and their effect on signatures
   when a field becomes, or ceases to be, a stack trace.

## Not modelled

- Proof of work: arithmetic on hashes. Ingestion uses that a proof verifies or not.
- The GitHub and Discord clients: requests and the parsing of answers. What an answer
  does (accepted, refused, lost, out of date) is in the modules that use them.
- Permissions and migrations: grants compared at startup, and a library.
- Rendering, forms and statistics of the admin pages; issue search, which repeats the
  report search on other columns; encryption, cookies, PNG validation.
- The backfill of failure reasons: each row is computed from its own text.
