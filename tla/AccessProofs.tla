---------------------------- MODULE AccessProofs ----------------------------
(***************************************************************************)
(* Proofs about Access, for every set of processes, users, configurations  *)
(* and sessions: types, the inductive invariant, that every session is of  *)
(* the team that is stored, and that only dead tokens revoke a session.    *)
(***************************************************************************)
EXTENDS Access, TLAPS

\* The copies of the configuration that the invariant is about.
CopiesValid ==
    /\ stored \in Valid /\ cache \in [Processes -> Valid]
    /\ reload \in [Processes -> Valid \cup {None}] /\ saving \subseteq Processes \X Valid

\* A session token is drawn once.
DrawnOnce == \A s \in Sessions : session[s] # None => login[s] = Over

\* A row that is locked stays.
LockedRowsStay ==
    \A p \in Processes : sweep[p].op = "rotated" => session[sweep[p].session] \in Rows

\* A refresh token that was used is in a row that is locked or whose new tokens are lost.
UsedOrLost ==
    \A s \in Sessions : session[s] # None /\ session[s].refresh = "spent" => s \in lost \/ Locked(s)

\* What the invariant says about the sessions.
SessionsInv == SessionsOfTheTeam /\ DrawnOnce /\ LockedRowsStay /\ UsedOrLost

LEMMA AccessInvParts == AccessInv <=> TypeOK /\ CopiesValid /\ SessionsInv
BY DEF AccessInv, CopiesValid, SessionsInv, DrawnOnce, LockedRowsStay, UsedOrLost

-----------------------------------------------------------------------------
(* Types *)

\* A valid configuration is a configuration, and its team is one of the teams.
LEMMA ValidTeams == Valid \subseteq Configurations /\ \A c \in Valid : TeamOf(c) \in Teams
BY DEF Valid, Teams

\* What a sweep goes on with has its type.
LEMMA SweepTypes ==
    ASSUME NEW team \in Teams, NEW left \in SUBSET Sessions, NEW due \in SUBSET Users
    PROVE  Rotating(team, left, due) \in SweepStates /\ Checking(team, due) \in SweepStates
<1>1. \A us \in SUBSET Users : Checking(team, us) \in SweepStates
  BY DEF Checking, SweepStates
<1>2. QED
  BY <1>1 DEF Rotating, SweepStates

\* The team of a sweep that is under way.
LEMMA SweepTeam ==
    ASSUME NEW state \in SweepStates, state.op # "asleep"
    PROVE  state.team \in Teams
BY DEF SweepStates, Asleep

\* The members of a configuration step keep their types.
LEMMA ConfigureTypes ==
    ASSUME AccessAssumption, TypeOK, CopiesValid, NEW p \in Processes, Configure(p)
    PROVE  TypeOK' /\ CopiesValid'
<1>1. CASE \E c \in Configurations : UpdateConfiguration(p, c)
  BY <1>1, ValidTeams DEF UpdateConfiguration, TypeOK, CopiesValid, AccessAssumption
<1>2. CASE \E c \in Configurations : SetOwnCache(p, c)
  BY <1>2, ValidTeams DEF SetOwnCache, TypeOK, CopiesValid
<1>3. CASE StartReload(p)
  BY <1>3, ValidTeams DEF StartReload, TypeOK, CopiesValid
<1>4. CASE FinishReload(p)
  BY <1>4, ValidTeams DEF FinishReload, TypeOK, CopiesValid
<1>5. QED
  BY <1>1, <1>2, <1>3, <1>4 DEF Configure

\* Sign-ins keep the types.
LEMMA SignInTypes ==
    ASSUME TypeOK, CopiesValid, NEW s \in Sessions, SignIn(s)
    PROVE  TypeOK' /\ CopiesValid'
<1>1. CopiesValid'
  BY DEF SignIn, StartLogin, Callback, AnswerLogin, CreateSession, AbandonLogin, CopiesValid,
         configurationVars
<1>2. UNCHANGED <<configurationVars, request, sweep, member, lost>>
  BY DEF SignIn, StartLogin, Callback, AnswerLogin, CreateSession, AbandonLogin
<1>3. login' \in [Sessions -> LoginStates] /\ session' \in [Sessions -> Rows \cup {None}]
  <2>1. CASE StartLogin(s)
    BY <2>1 DEF StartLogin, TypeOK, LoginStates
  <2>2. CASE \E p \in Processes, u \in Users : Callback(p, s, u)
    BY <2>2, ValidTeams DEF Callback, TypeOK, CopiesValid, LoginStates, ActiveTeam
  <2>3. CASE AnswerLogin(s)
    BY <2>3 DEF AnswerLogin, TypeOK, LoginStates, NotBegun, Over
  <2>4. CASE CreateSession(s)
    BY <2>4 DEF CreateSession, TypeOK, LoginStates, Rows, NotBegun, Over
  <2>5. CASE AbandonLogin(s)
    BY <2>5 DEF AbandonLogin, TypeOK, LoginStates
  <2>6. QED
    BY <2>1, <2>2, <2>3, <2>4, <2>5 DEF SignIn
<1>4. QED
  BY <1>1, <1>2, <1>3 DEF TypeOK, configurationVars

\* Requests and time keep the types.
LEMMA SessionTypes ==
    ASSUME TypeOK, CopiesValid, NEW s \in Sessions, Serve(s) \/ TimePasses(s)
    PROVE  TypeOK' /\ CopiesValid'
<1>1. CASE Serve(s)
  BY <1>1 DEF Serve, FindSession, ExtendSession, RefuseRequest, Logout, TypeOK, CopiesValid,
              configurationVars
<1>2. CASE TimePasses(s)
  <2>1. session' \in [Sessions -> Rows \cup {None}]
    BY <1>2 DEF TimePasses, CheckAges, TokenAges, RefreshTokenEnds, SessionExpires, TypeOK, Rows
  <2>2. UNCHANGED <<configurationVars, login, request, sweep, member, lost>>
    BY <1>2 DEF TimePasses, CheckAges, TokenAges, RefreshTokenEnds, SessionExpires
  <2>3. QED
    BY <2>1, <2>2 DEF TypeOK, CopiesValid, configurationVars
<1>3. QED
  BY <1>1, <1>2

\* The verification task keeps the types.
LEMMA VerificationTypes ==
    ASSUME TypeOK, CopiesValid, LockedRowsStay, NEW p \in Processes, RunVerification(p)
    PROVE  TypeOK' /\ CopiesValid'
<1>1. UNCHANGED <<configurationVars, login, request, member>>
  BY DEF RunVerification, StartSweep, RotateToken, RevokeSession, LeaveToken, StoreTokens,
         LoseTokens, VerifyMember, SkipMember, RefreshMembership
<1>2. \A rows : DueUsers(rows) \in SUBSET Users
  BY DEF DueUsers
<1>3. sweep' \in [Processes -> SweepStates] /\ lost' \subseteq Sessions
  <2>1. CASE StartSweep(p)
    <3>1. ActiveTeam(p) \in Teams /\ Expiring(session) \in SUBSET Sessions
      BY ValidTeams DEF ActiveTeam, CopiesValid, Expiring
    <3>2. QED
      BY <2>1, <3>1, <1>2, SweepTypes DEF StartSweep, TypeOK
  <2>2. ASSUME NEW s \in Sessions, RotateToken(p, s)
        PROVE  sweep' \in [Processes -> SweepStates] /\ lost' \subseteq Sessions
    BY <2>2 DEF RotateToken, TypeOK, SweepStates, Asleep
  <2>3. ASSUME NEW s \in Sessions, NEW rows, TokenDone(p, s, rows), sweep[p].op \in {"tokens", "rotated"}
        PROVE  sweep' \in [Processes -> SweepStates]
    <3>1. sweep[p].team \in Teams /\ sweep[p].left \ {s} \in SUBSET Sessions
      BY <2>3 DEF TypeOK, SweepStates, Asleep
    <3>2. QED
      BY <2>3, <3>1, <1>2, SweepTypes DEF TokenDone, TypeOK
  <2>4. CASE \E s \in Sessions : RevokeSession(p, s) \/ LeaveToken(p, s)
    BY <2>4, <2>3 DEF RevokeSession, LeaveToken, TypeOK
  <2>5. CASE StoreTokens(p) \/ LoseTokens(p)
    <3>1. sweep[p].session \in Sessions
      BY <2>5 DEF StoreTokens, LoseTokens, TypeOK, SweepStates, Asleep
    <3>2. QED
      BY <2>5, <2>3, <3>1 DEF StoreTokens, LoseTokens, TypeOK
  <2>6. CASE \E u \in Users : VerifyMember(p, u)
    BY <2>6 DEF VerifyMember, TypeOK, SweepStates, Asleep
  <2>7. CASE \E u \in Users : SkipMember(p, u)
    <3>1. sweep[p].team \in Teams /\ sweep[p].left \in SUBSET Users
      BY <2>7 DEF SkipMember, TypeOK, SweepStates, Asleep
    <3>2. \A u \in Users : Checking(sweep[p].team, sweep[p].left \ {u}) \in SweepStates
      BY <3>1, SweepTypes
    <3>3. QED
      BY <2>7, <3>2 DEF SkipMember, TypeOK
  <2>8. CASE RefreshMembership(p)
    <3>1. sweep[p].team \in Teams /\ sweep[p].left \in SUBSET Users
      BY <2>8 DEF RefreshMembership, TypeOK, SweepStates, Asleep
    <3>2. Checking(sweep[p].team, sweep[p].left) \in SweepStates
      BY <3>1, SweepTypes
    <3>3. QED
      BY <2>8, <3>2 DEF RefreshMembership, TypeOK
  <2>9. QED
    BY <2>1, <2>2, <2>4, <2>5, <2>6, <2>7, <2>8 DEF RunVerification
<1>4. session' \in [Sessions -> Rows \cup {None}]
  <2>1. CASE \E s \in Sessions : RotateToken(p, s)
    <3>1. \A row \in Rows : [row EXCEPT !.refresh = "spent"] \in Rows
      BY DEF Rows
    <3>2. QED
      BY <2>1, <3>1 DEF RotateToken, NeedsTokens, Expiring, TypeOK
  <2>2. CASE \E s \in Sessions : RevokeSession(p, s)
    BY <2>2 DEF RevokeSession, TypeOK
  <2>3. CASE StoreTokens(p)
    <3>1. session[sweep[p].session] \in Rows
      BY <2>3 DEF StoreTokens, LockedRowsStay
    <3>2. [session[sweep[p].session] EXCEPT !.access = "valid", !.refresh = "unused"] \in Rows
      BY <3>1 DEF Rows
    <3>3. QED
      BY <2>3, <3>1, <3>2 DEF StoreTokens, TypeOK
  <2>4. CASE RefreshMembership(p)
    <3>1. \A row \in Rows : [row EXCEPT !.checked = "fresh"] \in Rows
      BY DEF Rows
    <3>2. QED
      BY <2>4, <3>1 DEF RefreshMembership, TypeOK
  <2>5. CASE UNCHANGED session
    BY <2>5 DEF TypeOK
  <2>6. QED
    BY <2>1, <2>2, <2>3, <2>4, <2>5
    DEF RunVerification, StartSweep, LeaveToken, LoseTokens, VerifyMember, SkipMember
<1>5. QED
  BY <1>1, <1>3, <1>4 DEF TypeOK, CopiesValid, configurationVars

\* So do a restart and people who leave their team.
LEMMA WorldTypes ==
    ASSUME TypeOK, CopiesValid,
           (\E p \in Processes : Restart(p)) \/ (\E u \in Users, t \in Teams : LeaveTeam(u, t))
    PROVE  TypeOK' /\ CopiesValid'
<1>1. ASSUME NEW p \in Processes, Restart(p)
      PROVE  TypeOK' /\ CopiesValid'
  <2>1. sweep[p].op = "rotated" => sweep[p].session \in Sessions
    BY DEF TypeOK, SweepStates, Asleep
  <2>2. QED
    BY <1>1, <2>1, ValidTeams DEF Restart, TypeOK, CopiesValid, SweepStates
<1>2. CASE \E u \in Users, t \in Teams : LeaveTeam(u, t)
  BY <1>2 DEF LeaveTeam, TypeOK, CopiesValid, configurationVars
<1>3. QED
  BY <1>1, <1>2

-----------------------------------------------------------------------------
(* Sessions *)

\* What the steps that leave the sessions, the locks and the stored configuration alone preserve.
LEMMA SessionsFrame ==
    ASSUME SessionsInv, UNCHANGED <<stored, session, login, sweep, lost>>
    PROVE  SessionsInv'
BY DEF SessionsInv, SessionsOfTheTeam, DrawnOnce, LockedRowsStay, UsedOrLost, Locked

\* A save that spares the sessions keeps the team.
LEMMA SameTeam ==
    ASSUME NEW old, NEW new, ~InvalidatesSessions(old, new)
    PROVE  TeamOf(old) = TeamOf(new)
BY DEF InvalidatesSessions, ChangedPaths, SettingInvalidatesSessions, TeamOf

\* A change of the configuration leaves no session of another team.
LEMMA ConfigureSessions ==
    ASSUME TypeOK, SessionsInv, NEW p \in Processes, Configure(p)
    PROVE  SessionsInv'
<1>1. ASSUME NEW c \in Configurations, UpdateConfiguration(p, c), InvalidatesSessions(stored, c)
      PROVE  SessionsInv'
  <2>1. session' = [s \in Sessions |-> None] /\ \A s \in Sessions : ~Locked(s)
    BY <1>1 DEF UpdateConfiguration
  <2>2. \A q \in Processes : sweep[q].op # "rotated"
    BY <2>1 DEF TypeOK, SweepStates, Locked, Asleep
  <2>3. UNCHANGED <<login, sweep, lost>>
    BY <1>1 DEF UpdateConfiguration
  <2>4. QED
    BY <2>1, <2>2, <2>3 DEF SessionsInv, SessionsOfTheTeam, DrawnOnce, LockedRowsStay, UsedOrLost
<1>2. ASSUME NEW c \in Configurations, UpdateConfiguration(p, c), ~InvalidatesSessions(stored, c)
      PROVE  SessionsInv'
  <2>1. stored' = c /\ TeamOf(c) = TeamOf(stored) /\ UNCHANGED <<session, login, sweep, lost>>
    BY <1>2, SameTeam DEF UpdateConfiguration
  <2>2. SessionsOfTheTeam'
    BY <2>1 DEF SessionsInv, SessionsOfTheTeam, TeamOf
  <2>3. (DrawnOnce /\ LockedRowsStay /\ UsedOrLost)'
    BY <2>1 DEF SessionsInv, DrawnOnce, LockedRowsStay, UsedOrLost, Locked
  <2>4. QED
    BY <2>2, <2>3 DEF SessionsInv
<1>3. CASE StartReload(p) \/ FinishReload(p) \/ \E c \in Configurations : SetOwnCache(p, c)
  BY <1>3, SessionsFrame DEF StartReload, FinishReload, SetOwnCache
<1>4. QED
  BY <1>1, <1>2, <1>3 DEF Configure

\* A sign-in draws its session for the team that is stored, and draws it once.
LEMMA SignInSessions ==
    ASSUME TypeOK, SessionsInv, NEW s \in Sessions, SignIn(s)
    PROVE  SessionsInv'
<1>1. UNCHANGED <<stored, sweep, lost>>
  BY DEF SignIn, StartLogin, Callback, AnswerLogin, CreateSession, AbandonLogin, configurationVars
<1>2. CASE CreateSession(s)
  <2>1. login[s] # Over
    BY <1>2 DEF CreateSession, Over
  <2>2. session[s] = None
    BY <2>1 DEF SessionsInv, DrawnOnce
  <2>3. /\ \A x \in Sessions \ {s} : session'[x] = session[x] /\ login'[x] = login[x]
        /\ login'[s] = Over
        /\ session'[s] # None => session'[s].team = TeamOf(stored) /\ session'[s].refresh = "unused"
    BY <1>2 DEF CreateSession, TypeOK
  <2>4. SessionsOfTheTeam' /\ DrawnOnce'
    BY <1>1, <2>3 DEF SessionsInv, SessionsOfTheTeam, DrawnOnce, TeamOf
  <2>5. LockedRowsStay'
    <3>1. ASSUME NEW p \in Processes, sweep[p].op = "rotated"
          PROVE  session'[sweep[p].session] \in Rows
      <4>1. sweep[p].session \in Sessions /\ session[sweep[p].session] \in Rows
        BY <3>1 DEF SessionsInv, LockedRowsStay, TypeOK, SweepStates, Asleep
      <4>2. CASE sweep[p].session # s
        BY <4>1, <4>2, <2>3
      <4>3. CASE sweep[p].session = s
        BY <2>2, <4>1, <4>3, RowsAssumption
      <4>4. QED
        BY <4>2, <4>3
    <3>2. QED
      BY <1>1, <3>1 DEF LockedRowsStay
  <2>6. UsedOrLost'
    BY <1>1, <2>3 DEF SessionsInv, UsedOrLost, Locked
  <2>7. QED
    BY <2>4, <2>5, <2>6 DEF SessionsInv
<1>3. CASE ~CreateSession(s)
  <2>1. UNCHANGED session
    BY <1>3 DEF SignIn, StartLogin, Callback, AnswerLogin, AbandonLogin
  <2>2. \A x \in Sessions : login[x] = Over => login'[x] = Over
    BY <1>3 DEF SignIn, StartLogin, Callback, AnswerLogin, AbandonLogin, TypeOK, Over, NotBegun
  <2>3. DrawnOnce'
    BY <2>1, <2>2 DEF SessionsInv, DrawnOnce
  <2>4. (SessionsOfTheTeam /\ LockedRowsStay /\ UsedOrLost)'
    BY <1>1, <2>1 DEF SessionsInv, SessionsOfTheTeam, LockedRowsStay, UsedOrLost, Locked
  <2>5. QED
    BY <2>3, <2>4 DEF SessionsInv
<1>4. QED
  BY <1>2, <1>3

\* Steps that end sessions that are not locked, or change only how old they are.
LEMMA MilderSessions ==
    ASSUME TypeOK, TypeOK', SessionsInv, UNCHANGED <<stored, login, sweep, lost>>,
           \A s \in Sessions :
              \/ session'[s] = None /\ ~Locked(s)
              \/ session'[s] = session[s]
              \/ /\ session[s] \in Rows /\ session'[s] \in Rows /\ session[s] # None
                 /\ session'[s].team = session[s].team
                 /\ session'[s].refresh = "spent" => session[s].refresh = "spent"
    PROVE  SessionsInv'
<1>1. SessionsOfTheTeam' /\ DrawnOnce'
  BY DEF SessionsInv, SessionsOfTheTeam, DrawnOnce, TeamOf
<1>2. LockedRowsStay'
  <2>1. ASSUME NEW p \in Processes, sweep[p].op = "rotated"
        PROVE  session'[sweep[p].session] \in Rows
    <3>1. sweep[p].session \in Sessions /\ session[sweep[p].session] \in Rows
      BY <2>1 DEF SessionsInv, LockedRowsStay, TypeOK, SweepStates, Asleep
    <3>2. Locked(sweep[p].session)
      BY <2>1 DEF Locked
    <3>3. QED
      BY <3>1, <3>2
  <2>2. QED
    BY <2>1 DEF LockedRowsStay
<1>3. UsedOrLost'
  BY DEF SessionsInv, UsedOrLost, Locked
<1>4. QED
  BY <1>1, <1>2, <1>3 DEF SessionsInv

\* Requests and time.
LEMMA ServeSessions ==
    ASSUME TypeOK, CopiesValid, SessionsInv, NEW s \in Sessions, Serve(s) \/ TimePasses(s)
    PROVE  SessionsInv'
<1>1. TypeOK'
  BY SessionTypes
<1>2. UNCHANGED <<stored, login, sweep, lost>>
  BY DEF Serve, FindSession, ExtendSession, RefuseRequest, Logout, TimePasses, CheckAges,
         TokenAges, RefreshTokenEnds, SessionExpires, configurationVars
<1>3. ASSUME NEW x \in Sessions
      PROVE  \/ session'[x] = None /\ ~Locked(x)
             \/ session'[x] = session[x]
             \/ /\ session[x] \in Rows /\ session'[x] \in Rows /\ session[x] # None
                /\ session'[x].team = session[x].team
                /\ session'[x].refresh = "spent" => session[x].refresh = "spent"
  <2>1. CASE Serve(s)
    BY <2>1 DEF Serve, FindSession, ExtendSession, RefuseRequest, Logout, TypeOK
  <2>2. CASE SessionExpires(s)
    BY <2>2 DEF SessionExpires, TypeOK
  <2>3. CASE RefreshTokenEnds(s)
    <3>1. session[s] \in Rows /\ session[s] # None
      BY <2>3 DEF RefreshTokenEnds, TypeOK
    <3>2. /\ [session[s] EXCEPT !.refresh = "ended"] \in Rows
          /\ [session[s] EXCEPT !.refresh = "ended"].team = session[s].team
          /\ [session[s] EXCEPT !.refresh = "ended"].refresh # "spent"
      BY <3>1 DEF Rows
    <3>3. session' = [session EXCEPT ![s] = [session[s] EXCEPT !.refresh = "ended"]]
      BY <2>3 DEF RefreshTokenEnds
    <3>4. QED
      BY <3>1, <3>2, <3>3 DEF TypeOK
  <2>4. CASE CheckAges(s) \/ TokenAges(s)
    <3>1. session[s] \in Rows /\ session[s] # None
      BY <2>4 DEF CheckAges, TokenAges, TypeOK
    <3>2. \A row \in Rows, a \in {"due", "lapsed"}, b \in {"expiring", "expired"} :
             /\ [row EXCEPT !.checked = a] \in Rows /\ [row EXCEPT !.access = b] \in Rows
             /\ [row EXCEPT !.checked = a].team = row.team /\ [row EXCEPT !.access = b].team = row.team
             /\ [row EXCEPT !.checked = a].refresh = row.refresh
             /\ [row EXCEPT !.access = b].refresh = row.refresh
      BY DEF Rows
    <3>3. CASE CheckAges(s)
      <4>1. PICK a \in {"due", "lapsed"} : session' = [session EXCEPT ![s].checked = a]
        BY <3>3 DEF CheckAges
      <4>2. QED
        BY <4>1, <3>1, <3>2 DEF TypeOK
    <3>4. CASE TokenAges(s)
      <4>1. PICK b \in {"expiring", "expired"} : session' = [session EXCEPT ![s].access = b]
        BY <3>4 DEF TokenAges
      <4>2. QED
        BY <4>1, <3>1, <3>2 DEF TypeOK
    <3>5. QED
      BY <2>4, <3>3, <3>4
  <2>5. QED
    BY <2>1, <2>2, <2>3, <2>4 DEF TimePasses
<1>4. QED
  BY <1>1, <1>2, <1>3, MilderSessions

\* A session whose tokens are being rotated is there, and the others are not disturbed.
LEMMA RotationSessions ==
    ASSUME TypeOK, SessionsInv, NEW p \in Processes,
           (\E s \in Sessions : RotateToken(p, s)) \/ StoreTokens(p) \/ LoseTokens(p)
    PROVE  SessionsInv'
<1>1. UNCHANGED <<stored, login>>
  BY DEF RotateToken, StoreTokens, LoseTokens, configurationVars
<1>2. ASSUME NEW s \in Sessions, RotateToken(p, s)
      PROVE  SessionsInv'
  <2>1. session[s] \in Rows /\ session[s] # None
    BY <1>2 DEF RotateToken, NeedsTokens, Expiring, TypeOK
  <2>2. /\ session'[s] = [session[s] EXCEPT !.refresh = "spent"] /\ session'[s] \in Rows
        /\ session'[s].team = session[s].team
        /\ \A x \in Sessions \ {s} : session'[x] = session[x]
    <3>1. /\ [session[s] EXCEPT !.refresh = "spent"] \in Rows
          /\ [session[s] EXCEPT !.refresh = "spent"].team = session[s].team
      BY <2>1 DEF Rows
    <3>2. session' = [session EXCEPT ![s].refresh = "spent"]
      BY <1>2 DEF RotateToken
    <3>3. session' = [session EXCEPT ![s] = [session[s] EXCEPT !.refresh = "spent"]]
      BY <3>2
    <3>4. QED
      BY <3>1, <3>3 DEF TypeOK
  <2>3. /\ sweep'[p].op = "rotated" /\ sweep'[p].session = s /\ sweep[p].op # "rotated"
        /\ \A q \in Processes \ {p} : sweep'[q] = sweep[q]
        /\ UNCHANGED lost
    BY <1>2 DEF RotateToken, TypeOK
  <2>4. SessionsOfTheTeam' /\ DrawnOnce'
    BY <1>1, <2>1, <2>2 DEF SessionsInv, SessionsOfTheTeam, DrawnOnce, TeamOf
  <2>5. LockedRowsStay'
    <3>1. \A q \in Processes \ {p} : sweep[q].op = "rotated" => sweep[q].session \in Sessions
      BY DEF TypeOK, SweepStates, Asleep
    <3>2. QED
      BY <2>2, <2>3, <3>1 DEF SessionsInv, LockedRowsStay
  <2>6. UsedOrLost'
    BY <2>2, <2>3 DEF SessionsInv, UsedOrLost, Locked
  <2>7. QED
    BY <2>4, <2>5, <2>6 DEF SessionsInv
<1>3. ASSUME StoreTokens(p) \/ LoseTokens(p)
      PROVE  SessionsInv'
  <2> DEFINE s == sweep[p].session
  <2>1. sweep[p].op = "rotated" /\ s \in Sessions /\ session[s] \in Rows
    BY <1>3 DEF StoreTokens, LoseTokens, SessionsInv, LockedRowsStay, TypeOK, SweepStates, Asleep
  <2>2. /\ \A q \in Processes \ {p} : sweep'[q] = sweep[q]
        /\ sweep'[p].op # "rotated"
    BY <1>3 DEF StoreTokens, LoseTokens, TokenDone, Rotating, Checking, Asleep, TypeOK
  <2>3. /\ \A x \in Sessions \ {s} : session'[x] = session[x] /\ (x \in lost => x \in lost')
        /\ session'[s] \in Rows /\ session'[s].team = session[s].team
        /\ session'[s].refresh = "spent" => s \in lost'
        /\ session'[s] = session[s] \/ StoreTokens(p)
    <3>1. /\ [session[s] EXCEPT !.access = "valid", !.refresh = "unused"] \in Rows
          /\ [session[s] EXCEPT !.access = "valid", !.refresh = "unused"].team = session[s].team
          /\ [session[s] EXCEPT !.access = "valid", !.refresh = "unused"].refresh = "unused"
      BY <2>1 DEF Rows
    <3>2. CASE StoreTokens(p)
      <4>1. /\ session' = [session EXCEPT ![s] = [session[s] EXCEPT !.access = "valid", !.refresh = "unused"]]
            /\ UNCHANGED lost
        BY <3>2 DEF StoreTokens
      <4>2. QED
        BY <2>1, <3>1, <3>2, <4>1 DEF TypeOK
    <3>3. CASE LoseTokens(p)
      BY <2>1, <3>3 DEF LoseTokens
    <3>4. QED
      BY <1>3, <3>2, <3>3
  <2>4. SessionsOfTheTeam' /\ DrawnOnce'
    BY <1>1, <2>1, <2>3, RowsAssumption DEF SessionsInv, SessionsOfTheTeam, DrawnOnce, TeamOf
  <2>5. LockedRowsStay'
    <3>1. \A q \in Processes \ {p} : sweep[q].op = "rotated" => sweep[q].session \in Sessions
      BY DEF TypeOK, SweepStates, Asleep
    <3>2. QED
      BY <2>2, <2>3, <3>1 DEF SessionsInv, LockedRowsStay
  <2>6. UsedOrLost'
    BY <2>1, <2>2, <2>3 DEF SessionsInv, UsedOrLost, Locked
  <2>7. QED
    BY <2>4, <2>5, <2>6 DEF SessionsInv
<1>4. QED
  BY <1>2, <1>3

\* The steps of the verification task that rotate nothing.
LEMMA CheckingSessions ==
    ASSUME TypeOK, TypeOK', SessionsInv, NEW p \in Processes,
           \/ StartSweep(p) \/ RefreshMembership(p)
           \/ \E s \in Sessions : RevokeSession(p, s) \/ LeaveToken(p, s)
           \/ \E u \in Users : VerifyMember(p, u) \/ SkipMember(p, u)
    PROVE  SessionsInv'
<1>1. UNCHANGED <<stored, login, lost>>
  BY DEF StartSweep, RefreshMembership, RevokeSession, LeaveToken, VerifyMember, SkipMember,
         configurationVars
<1>2. /\ \A q \in Processes \ {p} : sweep'[q] = sweep[q]
      /\ sweep[p].op # "rotated" /\ sweep'[p].op # "rotated"
  <2>1. \A team, left, due :
           Rotating(team, left, due).op # "rotated" /\ Checking(team, left).op # "rotated"
    BY DEF Rotating, Checking, Asleep
  <2>2. CASE StartSweep(p)
    BY <2>1, <2>2 DEF StartSweep, TypeOK, Asleep
  <2>3. CASE RefreshMembership(p)
    BY <2>1, <2>3 DEF RefreshMembership, TypeOK
  <2>4. CASE \E s \in Sessions : RevokeSession(p, s) \/ LeaveToken(p, s)
    BY <2>1, <2>4 DEF RevokeSession, LeaveToken, TokenDone, TypeOK
  <2>5. CASE \E u \in Users : VerifyMember(p, u) \/ SkipMember(p, u)
    BY <2>1, <2>5 DEF VerifyMember, SkipMember, TypeOK
  <2>6. QED
    BY <2>2, <2>3, <2>4, <2>5
<1>3. \A s \in Sessions : Locked(s) <=> Locked(s)'
  BY <1>2 DEF Locked
<1>4. ASSUME NEW x \in Sessions
      PROVE  \/ session'[x] = None /\ ~Locked(x)
             \/ session'[x] = session[x]
             \/ /\ session[x] \in Rows /\ session'[x] \in Rows /\ session[x] # None
                /\ session'[x].team = session[x].team
                /\ session'[x].refresh = "spent" => session[x].refresh = "spent"
  <2>1. CASE RefreshMembership(p)
    <3>1. \A row \in Rows :
             /\ [row EXCEPT !.checked = "fresh"] \in Rows
             /\ [row EXCEPT !.checked = "fresh"].team = row.team
             /\ [row EXCEPT !.checked = "fresh"].refresh = row.refresh
      BY DEF Rows
    <3>2. QED
      BY <2>1, <3>1 DEF RefreshMembership, TypeOK
  <2>2. CASE \E s \in Sessions : RevokeSession(p, s)
    BY <2>2 DEF RevokeSession, TypeOK
  <2>3. CASE UNCHANGED session
    BY <2>3
  <2>4. QED
    BY <2>1, <2>2, <2>3 DEF StartSweep, LeaveToken, VerifyMember, SkipMember
<1>5. SessionsOfTheTeam' /\ DrawnOnce'
  BY <1>1, <1>4 DEF SessionsInv, SessionsOfTheTeam, DrawnOnce, TeamOf
<1>6. LockedRowsStay'
  <2>1. ASSUME NEW q \in Processes, sweep'[q].op = "rotated"
        PROVE  session'[sweep'[q].session] \in Rows
    <3>1. sweep'[q] = sweep[q] /\ sweep[q].op = "rotated"
      BY <1>2, <2>1
    <3>2. sweep[q].session \in Sessions /\ session[sweep[q].session] \in Rows
      BY <3>1 DEF SessionsInv, LockedRowsStay, TypeOK, SweepStates, Asleep
    <3>3. Locked(sweep[q].session)
      BY <3>1 DEF Locked
    <3>4. QED
      BY <1>4, <3>1, <3>2, <3>3
  <2>2. QED
    BY <2>1 DEF LockedRowsStay
<1>7. UsedOrLost'
  BY <1>1, <1>3, <1>4 DEF SessionsInv, UsedOrLost
<1>8. QED
  BY <1>5, <1>6, <1>7 DEF SessionsInv

\* A process that dies while it rotates tokens loses them.
LEMMA RestartSessions ==
    ASSUME TypeOK, SessionsInv, NEW p \in Processes, Restart(p)
    PROVE  SessionsInv'
<1>1. /\ UNCHANGED <<stored, session, login>> /\ lost \subseteq lost'
      /\ sweep[p].op = "rotated" => sweep[p].session \in lost'
      /\ sweep'[p].op # "rotated" /\ \A q \in Processes \ {p} : sweep'[q] = sweep[q]
  BY DEF Restart, TypeOK, Asleep
<1>2. SessionsOfTheTeam' /\ DrawnOnce' /\ LockedRowsStay'
  BY <1>1 DEF SessionsInv, SessionsOfTheTeam, DrawnOnce, LockedRowsStay, TeamOf
<1>3. UsedOrLost'
  BY <1>1 DEF SessionsInv, UsedOrLost, Locked
<1>4. QED
  BY <1>2, <1>3 DEF SessionsInv

-----------------------------------------------------------------------------
(* Theorems *)

\* The first configuration is valid, and there is no session yet.
LEMMA AccessStart ==
    ASSUME Init
    PROVE  TypeOK /\ CopiesValid /\ SessionsInv
<1>1. First \in Valid
  BY AccessAssumption DEF Valid
<1>2. TypeOK
  BY <1>1, AccessAssumption DEF Init, TypeOK, Valid, LoginStates, SweepStates
<1>3. CopiesValid
  BY <1>1 DEF Init, CopiesValid
<1>4. SessionsInv
  BY DEF Init, SessionsInv, SessionsOfTheTeam, DrawnOnce, LockedRowsStay, UsedOrLost, Asleep
<1>5. QED
  BY <1>2, <1>3, <1>4

\* Every step keeps the invariant.
LEMMA AccessStep ==
    ASSUME TypeOK, CopiesValid, SessionsInv, [Next]_vars
    PROVE  TypeOK' /\ CopiesValid' /\ SessionsInv'
<1>1. ASSUME NEW p \in Processes, Configure(p)
      PROVE  TypeOK' /\ CopiesValid' /\ SessionsInv'
  BY <1>1, ConfigureTypes, ConfigureSessions, AccessAssumption
<1>2. ASSUME NEW p \in Processes, RunVerification(p)
      PROVE  TypeOK' /\ CopiesValid' /\ SessionsInv'
  <2>1. TypeOK' /\ CopiesValid'
    BY <1>2, VerificationTypes DEF SessionsInv
  <2>2. SessionsInv'
    BY <1>2, <2>1, RotationSessions, CheckingSessions DEF RunVerification
  <2>3. QED
    BY <2>1, <2>2
<1>3. ASSUME NEW p \in Processes, Restart(p)
      PROVE  TypeOK' /\ CopiesValid' /\ SessionsInv'
  BY <1>3, WorldTypes, RestartSessions
<1>4. ASSUME NEW s \in Sessions, SignIn(s)
      PROVE  TypeOK' /\ CopiesValid' /\ SessionsInv'
  BY <1>4, SignInTypes, SignInSessions
<1>5. ASSUME NEW s \in Sessions, Serve(s) \/ TimePasses(s)
      PROVE  TypeOK' /\ CopiesValid' /\ SessionsInv'
  BY <1>5, SessionTypes, ServeSessions
<1>6. ASSUME NEW u \in Users, NEW t \in Teams, LeaveTeam(u, t)
      PROVE  TypeOK' /\ CopiesValid' /\ SessionsInv'
  BY <1>6, WorldTypes, SessionsFrame DEF LeaveTeam, configurationVars
<1>7. CASE UNCHANGED vars
  BY <1>7, SessionsFrame DEF vars, configurationVars, TypeOK, CopiesValid
<1>8. QED
  BY <1>1, <1>2, <1>3, <1>4, <1>5, <1>6, <1>7 DEF Next

\* Types, copies and sessions together are inductive: whatever is stored, cached, read or about to
\* be cached was validated (update_configuration, reload), and tokens are used under the lock of
\* their row (refresh_session_token).
THEOREM Invariant == Spec => []AccessInv
<1>1. Init => AccessInv
  BY AccessStart, AccessInvParts
<1>2. AccessInv' <=> (TypeOK /\ CopiesValid /\ SessionsInv)'
  BY AccessInvParts, PTL
<1>3. AccessInv /\ [Next]_vars => AccessInv'
  BY AccessStep, AccessInvParts, <1>2
<1>4. QED
  BY <1>1, <1>3, PTL DEF Spec

\* Whoever has a session was verified for the team that is stored (create_session,
\* update_configuration).
THEOREM TeamSessions == Spec => []SessionsOfTheTeam
<1>1. AccessInv => SessionsOfTheTeam
  BY DEF AccessInv
<1>2. QED
  BY <1>1, Invariant, PTL

\* Nobody is signed out because two processes rotate one refresh token: a session that is revoked
\* over its tokens has a refresh token that had ended, or whose successor was lost
\* (refresh_session_token, sweep).
THEOREM DeadTokens == Spec => RevokedForDeadTokens
<1>1. ASSUME AccessInv, NEW p \in Processes, NEW s \in Sessions, RevokeSession(p, s)
      PROVE  s \in lost \/ session[s].refresh = "ended"
  <2>1. session[s] # None /\ ~Locked(s) /\ session[s].refresh # "unused"
    BY <1>1 DEF RevokeSession, NeedsTokens, Expiring
  <2>2. session[s].refresh = "spent" => s \in lost
    BY <1>1, <2>1 DEF AccessInv
  <2>3. session[s].refresh \in {"unused", "spent", "ended"}
    BY <1>1, <2>1 DEF AccessInv, TypeOK, Rows
  <2>4. QED
    BY <2>1, <2>2, <2>3
<1>2. AccessInv => \A p \in Processes, s \in Sessions :
                      RevokeSession(p, s) => s \in lost \/ session[s].refresh = "ended"
  BY <1>1
<1>3. QED
  BY <1>2, Invariant, PTL DEF Spec, RevokedForDeadTokens

-----------------------------------------------------------------------------
(* Timings *)

\* The sleep of the verification task, within half of either period.
LEMMA SweepsInTime ==
    ASSUME NEW refresh \in Nat, NEW recheck \in Nat,
           Within(refresh, 60, 3600), Within(recheck, 30, 3600)
    PROVE  LET delay == GreaterOf(15, LesserOf(60, LesserOf(recheck \div 4, refresh \div 2)))
           IN  2 * delay <= refresh /\ 2 * delay <= recheck
  BY SMT DEF GreaterOf, LesserOf, Within

\* Doubling a first delay and capping it.
LEMMA RetriesInTime ==
    ASSUME NEW c, NEW first \in Nat, NEW longest \in Nat, first <= longest,
           c.discord.initial_retry_seconds = first, c.discord.maximum_retry_seconds = longest,
           NEW n \in {0, 1, 20, 21}
    PROVE  RetryDelay(c, n, 0) \in first .. longest
<1>1. LesserOf(n, 20) \in {0, 1, 20}
  BY DEF LesserOf
<1>2. 2^LesserOf(n, 20) \in Nat \ {0}
  <2>1. \A k : k = 0 \/ k = 1 \/ k = 20 => 2^k \in Nat \ {0}
    <3>1. TAKE k
    <3>2. 2^0 \in Nat \ {0} /\ 2^1 \in Nat \ {0} /\ 2^20 \in Nat \ {0}
      OBVIOUS
    <3>3. k = 0 => 2^k = 2^0
      BY Zenon
    <3>4. k = 1 => 2^k = 2^1
      BY Zenon
    <3>5. k = 20 => 2^k = 2^20
      BY Zenon
    <3>6. QED
      BY <3>2, <3>3, <3>4, <3>5, Zenon
  <2>2. LesserOf(n, 20) = 0 \/ LesserOf(n, 20) = 1 \/ LesserOf(n, 20) = 20
    BY <1>1
  <2>3. QED
    BY <2>1, <2>2, Zenon
<1>3. \A k \in Nat \ {0} : first * k \in Nat /\ first <= first * k
  OBVIOUS
<1>4. first * 2^LesserOf(n, 20) \in Nat /\ first <= first * 2^LesserOf(n, 20)
  BY <1>2, <1>3
<1>5. QED
  BY <1>4 DEF RetryDelay, GreaterOf, LesserOf

\* What validation accepts leaves time (RuntimeConfiguration::validate).
LEMMA ValidIsTimely ==
    ASSUME NEW c \in RuntimeConfigurations, Validate(c)
    PROVE  SafeTimings(c)
<1>1. ValidateOperationalLimits(c) /\ ValidatePayloadLimits(c) /\ ValidateDiscord(c)
  BY DEF Validate
<1>2. /\ 2 * SweepDelay(c) <= c.github.token_refresh_before_seconds
      /\ 2 * SweepDelay(c) <= c.github.membership_recheck_seconds
  <2>1. /\ c.github.token_refresh_before_seconds \in Nat
        /\ c.github.membership_recheck_seconds \in Nat
    BY DEF RuntimeConfigurations, GithubConfigurations
  <2>2. /\ Within(c.github.token_refresh_before_seconds, 60, 3600)
        /\ Within(c.github.membership_recheck_seconds, 30, 3600)
    BY <1>1, SMT DEF ValidateOperationalLimits
  <2> DEFINE refresh == c.github.token_refresh_before_seconds
             recheck == c.github.membership_recheck_seconds
             delay == GreaterOf(15, LesserOf(60, LesserOf(recheck \div 4, refresh \div 2)))
  <2>3. SweepDelay(c) = delay
    BY DEF SweepDelay
  <2>4. /\ refresh \in Nat /\ recheck \in Nat
        /\ Within(refresh, 60, 3600) /\ Within(recheck, 30, 3600)
    BY <2>1, <2>2, SMT
  <2>5. 2 * delay <= refresh /\ 2 * delay <= recheck
    <3> HIDE DEF refresh, recheck
    <3>1. QED
      BY <2>4, SweepsInTime, SMT DEF delay
  <2>6. QED
    BY <2>3, <2>5
<1>3. UploadLeaseSeconds(c) < c.maintenance.staging_retention_seconds
  <2>1. c.maintenance.staging_retention_seconds \in Nat /\ c.limits.upload_timeout_seconds \in Nat
    BY DEF RuntimeConfigurations, MaintenanceConfigurations, IngestionLimits
  <2>2. c.maintenance.staging_retention_seconds >= c.limits.upload_timeout_seconds + 60
    BY <1>1, SMT DEF ValidateOperationalLimits
  <2>3. QED
    BY <2>1, <2>2 DEF UploadLeaseSeconds
<1>4. \A n \in {0, 1, 20, 21} :
         RetryDelay(c, n, 0) \in c.discord.initial_retry_seconds .. c.discord.maximum_retry_seconds
  <2>1. c.discord.initial_retry_seconds \in Nat /\ c.discord.maximum_retry_seconds \in Nat
    BY DEF RuntimeConfigurations, DiscordConfigurations
  <2>2. c.discord.initial_retry_seconds <= c.discord.maximum_retry_seconds
    BY <1>1, SMT DEF ValidateDiscord
  <2>3. QED
    BY <2>1, <2>2, RetriesInTime
<1>5. /\ c.limits.payload.short_text_bytes <= c.limits.payload.metadata_bytes
      /\ c.limits.payload.attachment_bytes <= HardMaxBodyBytes
  <2>1. c.limits.payload \in [PayloadNames -> Nat]
    BY DEF RuntimeConfigurations, IngestionLimits
  <2>2. /\ c.limits.payload.short_text_bytes \in Nat /\ c.limits.payload.multiline_text_bytes \in Nat
        /\ c.limits.payload.metadata_bytes \in Nat /\ c.limits.payload.attachment_bytes \in Nat
        /\ c.limits.payload.submission_bytes \in Nat
    BY <2>1 DEF PayloadNames
  <2>3. QED
    BY <1>1, <2>2, SMT DEF ValidatePayloadLimits, Within, HardMaxBodyBytes
<1>6. QED
  BY <1>2, <1>3, <1>4, <1>5 DEF SafeTimings

\* Every configuration that is stored, or that a process goes by, leaves time for what depends on
\* it, whatever administrators submit.
THEOREM Timing == Spec => []TimelyConfiguration
<1>1. AccessInv => TimelyConfiguration
  <2>1. Valid \subseteq Timely
    BY AccessAssumption, ValidIsTimely DEF Valid, Timely
  <2>2. QED
    BY <2>1 DEF AccessInv, TimelyConfiguration
<1>2. QED
  BY <1>1, Invariant, PTL
=============================================================================
