------------------------------ MODULE Settings ------------------------------
(***************************************************************************)
(* The runtime configuration: what administrators may store, and the       *)
(* delays and lifetimes that the rest of the program derives from it.      *)
(* Text settings are what their validation looks at: an address is its     *)
(* parsed parts, a name with slashes the lengths of its components.        *)
(* The settings that nothing is validated of or derived from are left out. *)
(***************************************************************************)
EXTENDS Integers, Sequences

RateNames ==
    {"public_requests_per_minute", "public_request_burst", "challenges_per_minute",
     "challenge_burst", "challenges_per_hour", "submissions_per_minute", "submission_burst",
     "submissions_per_hour"}

PayloadNames ==
    {"maximum_fields", "short_text_bytes", "multiline_text_bytes", "metadata_bytes",
     "maximum_attachments", "attachment_bytes", "submission_bytes", "png_pixels",
     "png_decoded_bytes"}

\* IngestionLimits: whole numbers, unsigned in the program.
IngestionLimits ==
    [rate : [RateNames -> Nat], payload : [PayloadNames -> Nat],
     concurrent_uploads_per_ip : Nat, concurrent_uploads_global : Nat,
     upload_timeout_seconds : Nat]

\* A name with slashes: the lengths of its components, and whether every character in them is one
\* that the validation allows.
Names == [text : STRING, lengths : Seq(Nat), plain : BOOLEAN]

\* A label: its length, and whether it is trimmed and free of control characters.
GithubIssueLabels == [{"crash", "web_compat"} -> Seq([length : Nat, clean : BOOLEAN])]

\* A reports_issue_field_id that is absent is zero, which the validation refuses of a present one.
GithubConfigurations ==
    [repository : Names, authorization_team : Names,
     reports_issue_field_id : Int, labels : GithubIssueLabels,
     token_refresh_before_seconds : Nat, membership_recheck_seconds : Nat]

ProofOfWorkConfigurations == [expected_work : Nat, challenge_lifetime_seconds : Nat]

MaintenanceConfigurations ==
    [sweep_interval_seconds : Nat, staging_retention_seconds : Nat,
     report_retention_days : Nat, submission_source_retention_hours : Nat]

\* A parsed webhook address, of a kind of report that has one.
DiscordWebhookUrls ==
    [https : BOOLEAN, host : {"discord.com", "discordapp.com", "elsewhere"},
     webhookPath : BOOLEAN, bare : BOOLEAN]

DiscordConfigurations ==
    [webhook_urls : UNION {[kinds -> DiscordWebhookUrls] : kinds \in SUBSET {"crash", "web_compat"}},
     poll_interval_seconds : Nat, request_timeout_seconds : Nat, initial_retry_seconds : Nat,
     maximum_retry_seconds : Nat, stack_trace_lines : Nat, stack_trace_characters : Nat]

AuditConfigurations == [denied_sign_in_window_seconds : Nat, retention_days : Nat]

\* A parsed URL; bare says that it has no path, query, fragment or credentials.
Origins == [scheme : {"https", "http"}, local : BOOLEAN, bare : BOOLEAN]

RuntimeConfigurations ==
    [public_base_url : Origins, admin_base_url : Origins, github : GithubConfigurations,
     limits : IngestionLimits, proof_of_work : ProofOfWorkConfigurations,
     maintenance : MaintenanceConfigurations, discord : DiscordConfigurations,
     audit : AuditConfigurations, session_lifetime_seconds : Nat]

-----------------------------------------------------------------------------
(* Defaults *)

Name(text, lengths) == [text |-> text, lengths |-> lengths, plain |-> TRUE]

DefaultGithub ==
    [repository |-> Name("LadybirdBrowser/ladybird", <<15, 8>>),
     authorization_team |-> Name("LadybirdBrowser/maintainers", <<15, 11>>),
     reports_issue_field_id |-> 0,
     labels |-> [kind \in {"crash", "web_compat"} |->
                    <<[length |-> IF kind = "crash" THEN 5 ELSE 17, clean |-> TRUE]>>],
     token_refresh_before_seconds |-> 15 * 60, membership_recheck_seconds |-> 1800]

DefaultLimits ==
    [rate |-> [public_requests_per_minute |-> 120, public_request_burst |-> 30,
               challenges_per_minute |-> 10, challenge_burst |-> 3, challenges_per_hour |-> 100,
               submissions_per_minute |-> 5, submission_burst |-> 2, submissions_per_hour |-> 50],
     payload |-> [maximum_fields |-> 64, short_text_bytes |-> 4 * 1024,
                  multiline_text_bytes |-> 256 * 1024, metadata_bytes |-> 1024 * 1024,
                  maximum_attachments |-> 5, attachment_bytes |-> 10 * 1024 * 1024,
                  submission_bytes |-> 25 * 1024 * 1024, png_pixels |-> 25000000,
                  png_decoded_bytes |-> 32 * 1024 * 1024],
     concurrent_uploads_per_ip |-> 2, concurrent_uploads_global |-> 16,
     upload_timeout_seconds |-> 120]

DefaultDiscord ==
    [webhook_urls |-> <<>>, poll_interval_seconds |-> 2, request_timeout_seconds |-> 10,
     initial_retry_seconds |-> 30, maximum_retry_seconds |-> 3600,
     stack_trace_lines |-> 20, stack_trace_characters |-> 3000]

DefaultAudit == [denied_sign_in_window_seconds |-> 10 * 60, retention_days |-> 3650]

Defaults ==
    [public_base_url |-> [scheme |-> "https", local |-> FALSE, bare |-> TRUE],
     admin_base_url |-> [scheme |-> "http", local |-> TRUE, bare |-> TRUE],
     github |-> DefaultGithub, limits |-> DefaultLimits,
     proof_of_work |-> [expected_work |-> 5244236, challenge_lifetime_seconds |-> 600],
     maintenance |-> [sweep_interval_seconds |-> 900, staging_retention_seconds |-> 3600,
                      report_retention_days |-> 3650, submission_source_retention_hours |-> 48],
     discord |-> DefaultDiscord, audit |-> DefaultAudit,
     session_lifetime_seconds |-> 24 * 60 * 60]

-----------------------------------------------------------------------------
(* Validation *)

Within(number, least, greatest) == least <= number /\ number <= greatest

ValidateOrigin(url) == (url.scheme = "https" \/ url.local) /\ url.bare

ValidateGithubRepository(c) ==
    LET name == c.github.repository IN
    Len(name.lengths) = 2 /\ (\A i \in 1 .. 2 : name.lengths[i] > 0) /\ name.plain

ValidateGithubAuthorizationTeam(c) ==
    LET name == c.github.authorization_team IN
    Len(name.lengths) = 2 /\ (\A i \in 1 .. 2 : Within(name.lengths[i], 1, 100)) /\ name.plain

ValidateGithubLabels(c) ==
    \A kind \in {"crash", "web_compat"} :
        LET labels == c.github.labels[kind] IN
        /\ Len(labels) <= 20
        /\ \A i \in DOMAIN labels : Within(labels[i].length, 1, 50) /\ labels[i].clean

ValidateRateLimits(c) == \A n \in RateNames : Within(c.limits.rate[n], 1, 100000)

HardMaxBodyBytes == 66 * 1024 * 1024

ValidatePayloadLimits(c) ==
    LET limit == c.limits.payload IN
    /\ Within(limit.maximum_fields, 1, 256)
    /\ limit.maximum_attachments <= 16
    /\ Within(limit.metadata_bytes, 1, 2 * 1024 * 1024)
    /\ 0 < limit.short_text_bytes
    /\ limit.short_text_bytes <= limit.multiline_text_bytes
    /\ limit.multiline_text_bytes <= limit.metadata_bytes
    /\ 0 < limit.attachment_bytes
    /\ limit.attachment_bytes <= limit.submission_bytes
    /\ limit.submission_bytes <= HardMaxBodyBytes
    /\ Within(limit.png_pixels, 1, 50000000)
    /\ Within(limit.png_decoded_bytes, 1, 64 * 1024 * 1024)

ValidateOperationalLimits(c) ==
    /\ 0 < c.limits.concurrent_uploads_per_ip
    /\ c.limits.concurrent_uploads_per_ip <= c.limits.concurrent_uploads_global
    /\ c.limits.concurrent_uploads_global <= 128
    /\ Within(c.limits.upload_timeout_seconds, 5, 300)
    /\ Within(c.proof_of_work.expected_work, 1, 1000000000)
    /\ Within(c.proof_of_work.challenge_lifetime_seconds, 30, 3600)
    /\ Within(c.session_lifetime_seconds, 3600, 2592000)
    /\ Within(c.github.token_refresh_before_seconds, 60, 3600)
    /\ Within(c.github.membership_recheck_seconds, 30, 3600)
    /\ c.audit.denied_sign_in_window_seconds <= 86400
    /\ Within(c.audit.retention_days, 30, 36500)
    /\ Within(c.maintenance.sweep_interval_seconds, 60, 86400)
    /\ c.maintenance.staging_retention_seconds >= c.limits.upload_timeout_seconds + 60
    /\ c.maintenance.staging_retention_seconds <= 604800
    /\ Within(c.maintenance.report_retention_days, 30, 36500)
    /\ Within(c.maintenance.submission_source_retention_hours, 1, 8760)

ValidateDiscordWebhookUrl(url) ==
    url.https /\ url.host \in {"discord.com", "discordapp.com"} /\ url.webhookPath /\ url.bare

ValidateDiscord(c) ==
    /\ Within(c.discord.poll_interval_seconds, 1, 300)
    /\ Within(c.discord.request_timeout_seconds, 1, 60)
    /\ Within(c.discord.initial_retry_seconds, 5, 3600)
    /\ c.discord.initial_retry_seconds <= c.discord.maximum_retry_seconds
    /\ c.discord.maximum_retry_seconds <= 86400
    /\ Within(c.discord.stack_trace_lines, 1, 100)
    /\ Within(c.discord.stack_trace_characters, 256, 3500)
    /\ \A kind \in DOMAIN c.discord.webhook_urls :
          ValidateDiscordWebhookUrl(c.discord.webhook_urls[kind])

Validate(c) ==
    /\ ValidateOrigin(c.public_base_url) /\ ValidateOrigin(c.admin_base_url)
    /\ ValidateGithubRepository(c) /\ ValidateGithubAuthorizationTeam(c)
    /\ ValidateGithubLabels(c) /\ c.github.reports_issue_field_id >= 0
    /\ ValidateRateLimits(c) /\ ValidatePayloadLimits(c)
    /\ ValidateOperationalLimits(c) /\ ValidateDiscord(c)

-----------------------------------------------------------------------------
(* What is derived from it *)

LesserOf(a, b) == IF a <= b THEN a ELSE b
GreaterOf(a, b) == IF a >= b THEN a ELSE b

\* Mutant: the sleep follows the tokens only.
SweepDelayOfTokens(c) ==
    GreaterOf(15, LesserOf(60, c.github.token_refresh_before_seconds \div 2))

\* The end of sweep: how long the verification task sleeps.
SweepDelay(c) ==
    GreaterOf(15, LesserOf(60, LesserOf(c.github.membership_recheck_seconds \div 4,
                                        c.github.token_refresh_before_seconds \div 2)))

\* acquire_upload_lease: how long an upload is counted.
UploadLeaseSeconds(c) == c.limits.upload_timeout_seconds + 30

\* retry_delay_seconds; the exponent is at most twenty, so nothing overflows 64 bits.
RetryDelay(c, attempts, serverDelay) ==
    GreaterOf(serverDelay,
              LesserOf(c.discord.initial_retry_seconds * 2^LesserOf(attempts, 20),
                       c.discord.maximum_retry_seconds))

\* changed_configuration_paths, of which one matters to the sessions: setting_invalidates_sessions.
SettingInvalidatesSessions(path) == path = "github.authorization_team"

ChangedPaths(old, new) ==
    {path \in {"github.authorization_team", "other"} :
        IF path = "github.authorization_team"
        THEN old.github.authorization_team # new.github.authorization_team
        ELSE [old EXCEPT !.github.authorization_team = Name("", <<>>)]
                 # [new EXCEPT !.github.authorization_team = Name("", <<>>)]}

\* Whatever validation accepts leaves time for what depends on it: two sweeps fall into the window
\* in which a token is rotated before it expires, one into the half of the recheck period in which
\* a due membership check still counts, no upload is counted after its staging may be cleared, the
\* delays between deliveries start at the initial one and stay within the longest, and a field or
\* attachment that is allowed fits into a submission that is.
SafeTimings(c) ==
    /\ 2 * SweepDelay(c) <= c.github.token_refresh_before_seconds
    /\ 2 * SweepDelay(c) <= c.github.membership_recheck_seconds
    /\ UploadLeaseSeconds(c) < c.maintenance.staging_retention_seconds
    /\ \A n \in {0, 1, 20, 21} :
          RetryDelay(c, n, 0) \in c.discord.initial_retry_seconds .. c.discord.maximum_retry_seconds
    /\ c.limits.payload.short_text_bytes <= c.limits.payload.metadata_bytes
    /\ c.limits.payload.attachment_bytes <= HardMaxBodyBytes
=============================================================================
