------------------------------- MODULE Access -------------------------------
(***************************************************************************)
(* Who may use the admin service, and the configuration that decides it.   *)
(* One row holds the configuration; every process answers from a cached    *)
(* copy, replaced by its own saves and by a reload that reads the row and  *)
(* stores what it read in two steps.  Sign-ins, requests and the task that *)
(* keeps sessions current read the copy, then talk to GitHub, then write   *)
(* the sessions table; the configuration, the team and the session may all *)
(* change in between.                                                      *)
(*                                                                         *)
(* Time is what it does to a session: the last membership check becomes    *)
(* due and then too old, the access token is about to expire and then      *)
(* expired, the refresh token and the session end.  A session whose        *)
(* expires_at has passed is invisible to every statement, so it ends when  *)
(* its row disappears.                                                     *)
(***************************************************************************)
EXTENDS FiniteSets, Settings

CONSTANTS
    Processes,       \* admin processes
    Users,           \* GitHub accounts
    Configurations,  \* documents that administrators submit, valid or not
    Content,         \* the settings of each
    First,           \* the configuration at the start
    Sessions,        \* session tokens, each drawn once
    MaxSaves,        \* bound: changes of the configuration
    None

ASSUME AccessAssumption ==
    /\ IsFiniteSet(Sessions) /\ IsFiniteSet(Users)
    /\ Content \in [Configurations -> RuntimeConfigurations]
    /\ First \in Configurations /\ Validate(Content[First])
    /\ MaxSaves \in Nat
    /\ None \notin Configurations \cup Sessions \cup Users

VARIABLES
    stored,    \* runtime_configuration.value
    saves,     \* changes of it so far
    cache,     \* ConfigurationCache::current of each process
    reload,    \* what a running reload has read from the row
    saving,    \* what a process has committed and not yet put in its cache
    session,   \* the rows of sessions
    login,     \* where the sign-in that would draw a session token is
    request,   \* how far a request with a session token has come
    sweep,     \* what the verification task of a process is doing
    member,    \* GitHub: active members of teams
    lost       \* sessions whose new tokens GitHub issued in vain

configurationVars == <<stored, saves, cache, reload, saving>>
vars == <<configurationVars, session, login, request, sweep, member, lost>>

\* github.authorization_team
TeamOf(c) == Content[c].github.authorization_team.text

\* What update_configuration and reload let through, and the teams it names.
Valid == {c \in Configurations : Validate(Content[c])}
Teams == {TeamOf(c) : c \in Valid}

\* A row of sessions: team is the one its owner was verified for at sign-in; checked is the age of
\* the last membership check; access that of the access token; refresh says whether the refresh
\* token in the row has been used, or has ended: past its own expiry, or withdrawn at GitHub.
Rows ==
    [user : Users, team : Teams, checked : {"fresh", "due", "lapsed"},
     access : {"valid", "expiring", "expired"}, refresh : {"unused", "spent", "ended"}]

ASSUME RowsAssumption == None \notin Rows

NotBegun == [op |-> "none"]
Over == [op |-> "over"]
Asleep == [op |-> "asleep"]

\* How far a sign-in is, with the person GitHub named and the team it asked about.
LoginStates ==
    {NotBegun, Over} \cup [op : {"started"}]
        \cup [op : {"asking", "verified"}, user : Users, team : Teams]

\* What a verification sweep still has to do, and what it has in hand.
SweepStates ==
    {Asleep} \cup [op : {"tokens"}, team : Teams, left : SUBSET Sessions]
        \cup [op : {"rotated"}, team : Teams, left : SUBSET Sessions, session : Sessions]
        \cup [op : {"members"}, team : Teams, left : SUBSET Users]
        \cup [op : {"answered"}, team : Teams, left : SUBSET Users, user : Users]

\* Every variable has its type: the row and its copies, sessions, sign-ins, requests and sweeps.
TypeOK ==
    /\ stored \in Configurations /\ saves \in 0 .. MaxSaves
    /\ cache \in [Processes -> Configurations]
    /\ reload \in [Processes -> Configurations \cup {None}]
    /\ saving \subseteq Processes \X Configurations
    /\ session \in [Sessions -> Rows \cup {None}]
    /\ login \in [Sessions -> LoginStates] /\ request \in [Sessions -> {"none", "found"}]
    /\ sweep \in [Processes -> SweepStates]
    /\ member \subseteq Users \X Teams /\ lost \subseteq Sessions

\* Each process has loaded the configuration before it serves anything: ConfigurationCache::start.
Init ==
    /\ stored = First /\ saves = 0
    /\ cache = [p \in Processes |-> First] /\ reload = [p \in Processes |-> None]
    /\ saving = {}
    /\ session = [s \in Sessions |-> None]
    /\ login = [s \in Sessions |-> NotBegun] /\ request = [s \in Sessions |-> "none"]
    /\ sweep = [p \in Processes |-> Asleep]
    /\ member = Users \X Teams
    /\ lost = {}

-----------------------------------------------------------------------------
(* Configuration *)

\* A row that a token refresh has locked.
Locked(s) == \E p \in Processes : sweep[p].op = "rotated" /\ sweep[p].session = s

\* setting_invalidates_sessions, of what changed between two configurations.
InvalidatesSessions(old, new) == \E path \in ChangedPaths(Content[old], Content[new]) : SettingInvalidatesSessions(path)

\* Mutant: what is saved is not validated.
UpdateConfigurationUnvalidated(p, c) ==
    /\ c # stored
    /\ saves < MaxSaves
    /\ stored' = c /\ saves' = saves + 1
    /\ saving' = saving \cup {<<p, c>>}
    /\ UNCHANGED <<cache, reload, session, login, request, sweep, member, lost>>

\* update_configuration up to its commit; the DELETE waits for the rows that a refresh has locked.
UpdateConfiguration(p, c) ==
    /\ c \in Valid /\ c # stored
    /\ saves < MaxSaves
    /\ stored' = c /\ saves' = saves + 1
    /\ saving' = saving \cup {<<p, c>>}
    /\ IF InvalidatesSessions(stored, c)
       THEN /\ \A s \in Sessions : ~Locked(s)
            /\ session' = [s \in Sessions |-> None]
       ELSE UNCHANGED session
    /\ UNCHANGED <<cache, reload, login, request, sweep, member, lost>>

\* The handler of a save goes on: configuration_cache.set.
SetOwnCache(p, c) ==
    /\ <<p, c>> \in saving
    /\ saving' = saving \ {<<p, c>>}
    /\ cache' = [cache EXCEPT ![p] = c]
    /\ UNCHANGED <<stored, saves, reload, session, login, request, sweep, member, lost>>

\* Mutant: reload reads what the process has cached.
StartReloadCached(p) ==
    /\ reload[p] = None
    /\ reload' = [reload EXCEPT ![p] = cache[p]]
    /\ UNCHANGED <<stored, saves, cache, saving, session, login, request, sweep, member, lost>>

\* A notification, a new connection or the timer: reload reads the row.
StartReload(p) ==
    /\ reload[p] = None
    /\ reload' = [reload EXCEPT ![p] = stored]
    /\ UNCHANGED <<stored, saves, cache, saving, session, login, request, sweep, member, lost>>

\* The rest of reload; what does not validate is an error and leaves the cache as it is.
FinishReload(p) ==
    /\ reload[p] # None
    /\ cache' = [cache EXCEPT ![p] = IF reload[p] \in Valid THEN reload[p] ELSE @]
    /\ reload' = [reload EXCEPT ![p] = None]
    /\ UNCHANGED <<stored, saves, saving, session, login, request, sweep, member, lost>>

\* The team that a process goes by.
ActiveTeam(p) == TeamOf(cache[p])

-----------------------------------------------------------------------------
(* Sign-in *)

\* start_github_login, with store_oauth_state.
StartLogin(s) ==
    /\ login[s] = NotBegun
    /\ login' = [login EXCEPT ![s] = [op |-> "started"]]
    /\ UNCHANGED <<configurationVars, session, request, sweep, member, lost>>

\* github_callback up to the membership check: the state is consumed, GitHub names the account.
Callback(p, s, u) ==
    /\ login[s].op = "started"
    /\ login' = [login EXCEPT ![s] = [op |-> "asking", user |-> u, team |-> ActiveTeam(p)]]
    /\ UNCHANGED <<configurationVars, session, request, sweep, member, lost>>

\* verify_team_membership
IsMember(u, team) == <<u, team>> \in member

\* GitHub's answer: an active member goes on, anyone else is denied.
AnswerLogin(s) ==
    /\ login[s].op = "asking"
    /\ login' = [login EXCEPT ![s] =
                    IF IsMember(login[s].user, login[s].team)
                    THEN [@ EXCEPT !.op = "verified"] ELSE Over]
    /\ UNCHANGED <<configurationVars, session, request, sweep, member, lost>>

\* Mutant: the team is not compared again.
CreateSessionUnchecked(s) ==
    /\ login[s].op = "verified"
    /\ login' = [login EXCEPT ![s] = Over]
    /\ session' = [session EXCEPT ![s] =
           [user |-> login[s].user, team |-> login[s].team, checked |-> "fresh",
            access |-> "valid", refresh |-> "unused"]]
    /\ UNCHANGED <<configurationVars, request, sweep, member, lost>>

\* create_session, which holds the configuration row FOR SHARE.
CreateSession(s) ==
    /\ login[s].op = "verified"
    /\ login' = [login EXCEPT ![s] = Over]
    /\ session' = [session EXCEPT ![s] =
           IF login[s].team = TeamOf(stored)
           THEN [user |-> login[s].user, team |-> login[s].team, checked |-> "fresh",
                 access |-> "valid", refresh |-> "unused"]
           ELSE None]
    /\ UNCHANGED <<configurationVars, request, sweep, member, lost>>

\* consume_oauth_state finds nothing any more, or GitHub does not answer.
AbandonLogin(s) ==
    /\ login[s].op \in {"started", "asking"}
    /\ login' = [login EXCEPT ![s] = Over]
    /\ UNCHANGED <<configurationVars, session, request, sweep, member, lost>>

-----------------------------------------------------------------------------
(* Requests *)

\* What require_session asks of a row.
Current(row) == row.checked # "lapsed" /\ row.access # "expired"

Acceptable(s) == session[s] # None /\ Current(session[s])

\* require_session: find_session and what the row says; any other session goes to the login page.
FindSession(s) ==
    /\ request[s] = "none" /\ Acceptable(s)
    /\ request' = [request EXCEPT ![s] = "found"]
    /\ UNCHANGED <<configurationVars, session, login, sweep, member, lost>>

\* require_session: extend_session, which waits for the row, finds it, and the request is let in.
ExtendSession(s) ==
    /\ request[s] = "found" /\ session[s] # None /\ ~Locked(s)
    /\ request' = [request EXCEPT ![s] = "none"]
    /\ UNCHANGED <<configurationVars, session, login, sweep, member, lost>>

\* The row is gone since: the request goes to the login page.
RefuseRequest(s) ==
    /\ request[s] = "found" /\ session[s] = None
    /\ request' = [request EXCEPT ![s] = "none"]
    /\ UNCHANGED <<configurationVars, session, login, sweep, member, lost>>

\* A request that is let in is a logout: delete_session.
Logout(s) ==
    /\ request[s] = "found" /\ session[s] # None /\ ~Locked(s)
    /\ request' = [request EXCEPT ![s] = "none"]
    /\ session' = [session EXCEPT ![s] = None]
    /\ UNCHANGED <<configurationVars, login, sweep, member, lost>>

-----------------------------------------------------------------------------
(* The verification task *)

\* sessions_with_expiring_tokens
Expiring(rows) == {s \in Sessions : rows[s] # None /\ rows[s].access # "valid"}

\* due_session_per_user: people with a check that is due and a session whose token still works.
DueUsers(rows) ==
    {u \in Users : LET own == {s \in Sessions : rows[s] # None /\ rows[s].user = u}
                   IN  /\ \E s \in own : rows[s].checked # "fresh"
                       /\ \E s \in own : rows[s].access # "expired"}

\* The people still to be checked; after the last of them the task sleeps.
Checking(team, left) ==
    IF left = {} THEN Asleep ELSE [op |-> "members", team |-> team, left |-> left]

\* The tokens still to be rotated; after the last of them whose membership is due.
Rotating(team, left, due) ==
    IF left = {} THEN Checking(team, due) ELSE [op |-> "tokens", team |-> team, left |-> left]

\* sweep: the configuration it goes by until it ends, and the tokens to rotate first.
StartSweep(p) ==
    /\ sweep[p] = Asleep
    /\ sweep' = [sweep EXCEPT ![p] = Rotating(ActiveTeam(p), Expiring(session), DueUsers(session))]
    /\ UNCHANGED <<configurationVars, session, login, request, member, lost>>

NeedsTokens(s) == s \in Expiring(session)

\* A sweep goes on after the token of s, with the rows as they are then.
TokenDone(p, s, rows) ==
    sweep' = [sweep EXCEPT ![p] = Rotating(@.team, @.left \ {s}, DueUsers(rows))]

\* refresh_session_token up to GitHub's answer, with the row locked: the refresh token is used now.
RotateToken(p, s) ==
    /\ sweep[p].op = "tokens" /\ s \in sweep[p].left
    /\ NeedsTokens(s) /\ ~Locked(s) /\ session[s].refresh = "unused"
    /\ sweep' = [sweep EXCEPT ![p] =
                    [op |-> "rotated", team |-> @.team, left |-> @.left, session |-> s]]
    /\ session' = [session EXCEPT ![s].refresh = "spent"]
    /\ UNCHANGED <<configurationVars, login, request, member, lost>>

\* Mutant: the row is not locked while GitHub is asked.
RevokeSessionUnlocked(p, s) ==
    /\ sweep[p].op = "tokens" /\ s \in sweep[p].left
    /\ NeedsTokens(s) /\ session[s].refresh # "unused"
    /\ session' = [session EXCEPT ![s] = None]
    /\ TokenDone(p, s, session')
    /\ UNCHANGED <<configurationVars, login, request, member, lost>>

\* refresh_session_token says AuthenticationRequired, because the refresh token is past its expiry or
\* GitHub calls it bad (used before, or withdrawn): revoke_session.
RevokeSession(p, s) ==
    /\ sweep[p].op = "tokens" /\ s \in sweep[p].left
    /\ NeedsTokens(s) /\ ~Locked(s) /\ session[s].refresh # "unused"
    /\ session' = [session EXCEPT ![s] = None]
    /\ TokenDone(p, s, session')
    /\ UNCHANGED <<configurationVars, login, request, member, lost>>

\* The row is gone or needs nothing any more; or GitHub does not answer, or with an error that says
\* nothing about the token, and the next sweep asks again.
LeaveToken(p, s) ==
    /\ sweep[p].op = "tokens" /\ s \in sweep[p].left /\ ~Locked(s)
    /\ TokenDone(p, s, session)
    /\ UNCHANGED <<configurationVars, session, login, request, member, lost>>

\* refresh_session_token stores the new tokens and commits.
StoreTokens(p) ==
    /\ sweep[p].op = "rotated"
    /\ LET s == sweep[p].session IN
       /\ session' = [session EXCEPT ![s].access = "valid", ![s].refresh = "unused"]
       /\ TokenDone(p, s, session')
    /\ UNCHANGED <<configurationVars, login, request, member, lost>>

\* GitHub's answer does not arrive, or the commit fails: the row keeps a refresh token that is used.
LoseTokens(p) ==
    /\ sweep[p].op = "rotated"
    /\ TokenDone(p, sweep[p].session, session)
    /\ lost' = lost \cup {sweep[p].session}
    /\ UNCHANGED <<configurationVars, session, login, request, member>>

\* Mutant: a pending or missing membership counts.
VerifyMemberAnyone(p, u) ==
    /\ sweep[p].op = "members" /\ u \in sweep[p].left
    /\ sweep' = [sweep EXCEPT ![p] =
                    [op |-> "answered", team |-> @.team, left |-> @.left \ {u}, user |-> u]]
    /\ UNCHANGED <<configurationVars, session, login, request, member, lost>>

\* verify_team_member_identity says that a person is on the team that the sweep goes by.
VerifyMember(p, u) ==
    /\ sweep[p].op = "members" /\ u \in sweep[p].left
    /\ IsMember(u, sweep[p].team)
    /\ sweep' = [sweep EXCEPT ![p] =
                    [op |-> "answered", team |-> @.team, left |-> @.left \ {u}, user |-> u]]
    /\ UNCHANGED <<configurationVars, session, login, request, member, lost>>

\* It says otherwise, or nothing, or a failed check of theirs is recent: nothing changes.
SkipMember(p, u) ==
    /\ sweep[p].op = "members" /\ u \in sweep[p].left
    /\ sweep' = [sweep EXCEPT ![p] = Checking(@.team, @.left \ {u})]
    /\ UNCHANGED <<configurationVars, session, login, request, member, lost>>

\* refresh_membership_verification_for_user: all sessions of the person.
RefreshMembership(p) ==
    /\ sweep[p].op = "answered"
    /\ LET u == sweep[p].user  mine(s) == session[s] # None /\ session[s].user = u IN
       /\ \A s \in Sessions : mine(s) => ~Locked(s)
       /\ session' = [s \in Sessions |->
                         IF mine(s) THEN [session[s] EXCEPT !.checked = "fresh"] ELSE session[s]]
    /\ sweep' = [sweep EXCEPT ![p] = Checking(@.team, @.left)]
    /\ UNCHANGED <<configurationVars, login, request, member, lost>>

RunVerification(p) ==
    \/ StartSweep(p)
    \/ \E s \in Sessions : RotateToken(p, s) \/ RevokeSession(p, s) \/ LeaveToken(p, s)
    \/ StoreTokens(p) \/ LoseTokens(p)
    \/ \E u \in Users : VerifyMember(p, u) \/ SkipMember(p, u)
    \/ RefreshMembership(p)

-----------------------------------------------------------------------------
(* The world *)

\* The process dies and another takes its place: start loads the configuration again.
Restart(p) ==
    /\ cache' = [cache EXCEPT ![p] = stored]
    /\ reload' = [reload EXCEPT ![p] = None]
    /\ saving' = {x \in saving : x[1] # p}
    /\ sweep' = [sweep EXCEPT ![p] = Asleep]
    /\ lost' = IF sweep[p].op = "rotated" THEN lost \cup {sweep[p].session} ELSE lost
    /\ UNCHANGED <<stored, saves, session, login, request, member>>

LeaveTeam(u, t) ==
    /\ IsMember(u, t)
    /\ member' = member \ {<<u, t>>}
    /\ UNCHANGED <<configurationVars, session, login, request, sweep, lost>>

\* The last check of a session becomes due, and then too old to accept.
CheckAges(s) ==
    /\ session[s] # None /\ session[s].checked # "lapsed"
    /\ session' = [session EXCEPT ![s].checked = IF @ = "fresh" THEN "due" ELSE "lapsed"]
    /\ UNCHANGED <<configurationVars, login, request, sweep, member, lost>>

\* Its access token nears its expiry, and then passes it.
TokenAges(s) ==
    /\ session[s] # None /\ session[s].access # "expired"
    /\ session' = [session EXCEPT ![s].access = IF @ = "valid" THEN "expiring" ELSE "expired"]
    /\ UNCHANGED <<configurationVars, login, request, sweep, member, lost>>

\* Its refresh token, which nobody has used, passes its own expiry, or GitHub does not take it any
\* more: the authorization is withdrawn.
RefreshTokenEnds(s) ==
    /\ session[s] # None /\ session[s].refresh = "unused"
    /\ session' = [session EXCEPT ![s].refresh = "ended"]
    /\ UNCHANGED <<configurationVars, login, request, sweep, member, lost>>

\* Nobody used it for session_lifetime_seconds.
SessionExpires(s) ==
    /\ session[s] # None /\ ~Locked(s)
    /\ session' = [session EXCEPT ![s] = None]
    /\ UNCHANGED <<configurationVars, login, request, sweep, member, lost>>

-----------------------------------------------------------------------------
SignIn(s) ==
    \/ StartLogin(s)
    \/ \E p \in Processes, u \in Users : Callback(p, s, u)
    \/ AnswerLogin(s) \/ CreateSession(s) \/ AbandonLogin(s)

Serve(s) == FindSession(s) \/ ExtendSession(s) \/ RefuseRequest(s) \/ Logout(s)

TimePasses(s) == CheckAges(s) \/ TokenAges(s) \/ RefreshTokenEnds(s) \/ SessionExpires(s)

Configure(p) ==
    \/ \E c \in Configurations : UpdateConfiguration(p, c) \/ SetOwnCache(p, c)
    \/ StartReload(p) \/ FinishReload(p)

Next ==
    \/ \E p \in Processes : Configure(p) \/ RunVerification(p) \/ Restart(p)
    \/ \E s \in Sessions : SignIn(s) \/ Serve(s) \/ TimePasses(s)
    \/ \E u \in Users, t \in Teams : LeaveTeam(u, t)

\* The reload loop never ends, a handler that has saved goes on to its last statement, and a
\* check that is not repeated grows old.
Fairness ==
    /\ \A p \in Processes :
          /\ WF_vars(StartReload(p)) /\ WF_vars(FinishReload(p))
          /\ \A c \in Configurations : WF_vars(SetOwnCache(p, c))
    /\ \A s \in Sessions : WF_vars(CheckAges(s))

Spec == Init /\ [][Next]_vars /\ Fairness

-----------------------------------------------------------------------------
(* Properties *)

Timely == {c \in Configurations : SafeTimings(Content[c])}

\* Every configuration that is stored, or that a process goes by, leaves time for what depends on
\* it (validate, at its limits), whatever administrators submit.
TimelyConfiguration ==
    {stored} \cup {cache[p] : p \in Processes} \subseteq Timely

\* A team change applies to every session: whoever has one was verified for the team that the
\* stored configuration names, however the sign-in and the change were interleaved
\* (create_session, update_configuration).
SessionsOfTheTeam == \A s \in Sessions : session[s] # None => session[s].team = TeamOf(stored)

\* The inductive invariant, besides the types: every copy of the configuration was valid when it
\* was stored, a session token is drawn once, a row that a refresh has locked stays, and a refresh
\* token that was used is in a row that is locked or whose new tokens are lost.
AccessInv ==
    /\ TypeOK
    /\ stored \in Valid /\ cache \in [Processes -> Valid]
    /\ reload \in [Processes -> Valid \cup {None}] /\ saving \subseteq Processes \X Valid
    /\ SessionsOfTheTeam
    /\ \A s \in Sessions : session[s] # None => login[s] = Over
    /\ \A p \in Processes : sweep[p].op = "rotated" => session[sweep[p].session] \in Rows
    /\ \A s \in Sessions : session[s] # None /\ session[s].refresh = "spent" => s \in lost \/ Locked(s)

\* Nobody is signed out because two processes rotate one token: a session is revoked over its tokens
\* only when its new ones were lost between GitHub's answer and the commit, or when its refresh
\* token ended before anybody used it (refresh_session_token, sweep).
RevokedForDeadTokens ==
    [][\A p \in Processes, s \in Sessions :
          RevokeSession(p, s) => s \in lost \/ session[s].refresh = "ended"]_vars

\* Once administrators stop, every process goes by the stored configuration, although a reload or
\* a save stores in its cache what it read or wrote before a newer change.
CachesConverge == <>[](\A p \in Processes : cache[p] = stored)

\* Whoever is not on the team of the stored configuration loses access in the end: neither a
\* stale copy of the configuration nor a check that was under way keeps a session acceptable.
AccessEnds ==
    \A u \in Users :
        <>[](~IsMember(u, TeamOf(stored))) =>
            <>[](\A s \in Sessions : Acceptable(s) => session[s].user # u)
=============================================================================
