------------------------------ MODULE MCAccess ------------------------------
(* A small instance of Access for TLC: the default configuration, one at the least values that    *)
(* validation accepts, with another team, and ones just below a least value or above a greatest.  *)
EXTENDS Access

Least ==
    [Defaults EXCEPT
        !.github.authorization_team = Name("LadybirdBrowser/core", <<15, 4>>),
        !.github.token_refresh_before_seconds = 60,
        !.github.membership_recheck_seconds = 30,
        !.limits.upload_timeout_seconds = 5,
        !.maintenance.staging_retention_seconds = 65,
        !.discord.initial_retry_seconds = 5,
        !.discord.maximum_retry_seconds = 5]

MCContent ==
    [default |-> Defaults,
     least |-> Least,
     recheck |-> [Least EXCEPT !.github.membership_recheck_seconds = 29],
     refresh |-> [Least EXCEPT !.github.token_refresh_before_seconds = 29],
     staging |-> [Least EXCEPT !.maintenance.staging_retention_seconds = 35],
     retry |-> [Least EXCEPT !.discord.maximum_retry_seconds = 4],
     attachment |-> [Defaults EXCEPT !.limits.payload.attachment_bytes = HardMaxBodyBytes + 1],
     teamless |-> [Defaults EXCEPT !.github.authorization_team = Name("LadybirdBrowser", <<15>>)]]

MCConfigurations == DOMAIN MCContent
=============================================================================
