------------------------------- MODULE Sessions -------------------------------
(***************************************************************************)
(* Sessions and tokens of auth-service over its sessions table.  A session  *)
(* made by authenticate has a new id; the one made by complete_oauth has    *)
(* the user's sub as its id, and so is the one validate_session looks up.   *)
(* Access tokens, refresh tokens and sessions have their own lifetimes.     *)
(***************************************************************************)
EXTENDS Naturals, FiniteSets

CONSTANTS
  Users,       \* sub values
  AccessTtl, RefreshTtl, SessionTtl,  \* lifetimes, in ticks of the clock
  Leeway,      \* what the token library allows after a token's exp
  MaxTime,     \* bound: the clock
  MaxAuths     \* bound: calls of authenticate, complete_oauth and refresh_session

ASSUME SessionTimes == {AccessTtl, RefreshTtl, SessionTtl, Leeway, MaxTime, MaxAuths} \subseteq Nat

\* authenticate's session ids are generated; none is a user's sub.
ASSUME GeneratedIds == Users \cap Nat = {}

VARIABLES
  now,        \* Utc::now()
  sessions,   \* rows of the sessions table
  tokens,     \* tokens handed out
  auths,      \* calls so far
  oauthAt,    \* user -> time of the last complete_oauth that returned Ok (history)
  loggedOut   \* users logged out since then (history)

sessionVars == <<now, sessions, tokens, auths, oauthAt, loggedOut>>

SessionsInit ==
  /\ now = 0 /\ sessions = {} /\ tokens = {} /\ auths = 0
  /\ oauthAt = [u \in Users |-> 0]
  /\ loggedOut = {}

\* The session repository: the id is the primary key.
NewSession(id, u) == [id |-> id, sub |-> u, expires |-> now + SessionTtl]
CreateSession(s) ==
  /\ \A r \in sessions : r.id # s.id
  /\ sessions' = sessions \cup {s}

GetSession(id) == {s \in sessions : s.id = id}
DeleteSession(id) == sessions' = {s \in sessions : s.id # id}
IsExpired(s) == now > s.expires

\* The token repository: a pair carries the sub of its claims.  The library
\* refuses a token whose exp lies more than the leeway back.
GenerateTokens(u) ==
  {[type |-> "access", sub |-> u, exp |-> now + AccessTtl], [type |-> "refresh", sub |-> u, exp |-> now + RefreshTtl]}
Decodes(t) == now <= t.exp + Leeway
ValidateAccessToken(t) == t.type = "access" /\ Decodes(t)
ValidateRefreshToken(t) == t.type = "refresh" /\ Decodes(t)

\* validate_session: the outcome for the token t.
ValidateSession(t) ==
  CASE ~ValidateAccessToken(t) -> "invalid token"
    [] ValidateAccessToken(t) /\ now > t.exp -> "token expired"
    [] ValidateAccessToken(t) /\ now <= t.exp /\ GetSession(t.sub) = {} -> "session not found"
    [] OTHER -> IF \A s \in GetSession(t.sub) : IsExpired(s) THEN "session expired" ELSE "ok"

\* A call of authenticate; the caller may be gone once the row is written.
Authenticate(u) ==
  /\ auths < MaxAuths
  /\ auths' = auths + 1
  /\ CreateSession(NewSession(auths + 1, u))
  /\ tokens' \in {tokens, tokens \cup GenerateTokens(u)}
  /\ UNCHANGED <<now, oauthAt, loggedOut>>

\* complete_oauth: the second session of a user is refused by the primary key
\* until logout deletes the first, expired or not.
CompleteOAuth(u) ==
  /\ auths < MaxAuths
  /\ auths' = auths + 1
  /\ CreateSession(NewSession(u, u))
  /\ tokens' \in {tokens, tokens \cup GenerateTokens(u)}
  /\ oauthAt' = [oauthAt EXCEPT ![u] = now]
  /\ loggedOut' = loggedOut \ {u}
  /\ UNCHANGED now

\* Mutant: a refresh prolongs the session.
RefreshSessionSlides(t) ==
  /\ auths < MaxAuths
  /\ ValidateRefreshToken(t)
  /\ auths' = auths + 1
  /\ tokens' = tokens \cup GenerateTokens(t.sub)
  /\ sessions' = {IF s.id = t.sub THEN NewSession(s.id, s.sub) ELSE s : s \in sessions}
  /\ UNCHANGED <<now, oauthAt, loggedOut>>

\* refresh_session: new tokens from the old claims.  It looks at no session,
\* and touch_session writes last_accessed_at only; when that fails the tokens
\* are not handed out.
RefreshSession(t) ==
  /\ auths < MaxAuths
  /\ ValidateRefreshToken(t)
  /\ auths' = auths + 1
  /\ tokens' \in {tokens, tokens \cup GenerateTokens(t.sub)}
  /\ UNCHANGED <<now, sessions, oauthAt, loggedOut>>

\* logout.
Logout(id) ==
  /\ DeleteSession(id)
  /\ loggedOut' = loggedOut \cup ({id} \cap Users)
  /\ UNCHANGED <<now, tokens, auths, oauthAt>>

Tick ==
  /\ now < MaxTime
  /\ now' = now + 1
  /\ UNCHANGED <<sessions, tokens, auths, oauthAt, loggedOut>>

SessionsNext ==
  \/ \E u \in Users : Authenticate(u) \/ CompleteOAuth(u)
  \/ \E t \in tokens : RefreshSession(t)
  \/ \E s \in sessions : Logout(s.id)
  \/ Tick

-----------------------------------------------------------------------------
\* Properties

\* The session table and the tokens have their types.
SessionsTypeOK ==
  /\ now \in 0..MaxTime /\ auths \in 0..MaxAuths
  /\ sessions \subseteq [id : Users \cup (1..MaxAuths), sub : Users, expires : Nat]
  /\ tokens \subseteq [type : {"access", "refresh"}, sub : Users, exp : Nat]

\* A chain of refreshes never carries a login past its session: an access
\* token validates only until SessionTtl after the user's last OAuth login,
\* although refresh_session answers with a later expires_at.
ValidatesWithinTtl ==
  \A t \in tokens : ValidateSession(t) = "ok" => now <= oauthAt[t.sub] + SessionTtl

\* "we rely on short TTLs and session deletion": after logout of a user's
\* session no token validates, neither an old one nor one that a refresh
\* hands out afterwards, until the user logs in again.
LogoutHolds == \A t \in tokens : t.sub \in loggedOut => ValidateSession(t) # "ok"

\* No token outlives its login: it ends with the session's time or with the
\* logout, and no refresh revives it.
TokensEnd ==
  ValidatesWithinTtl /\ LogoutHolds

\* "Validate access token and return session": while a session of a user lives,
\* the user's access token that has not expired validates.
AuthenticatedValidates ==
  \A s \in sessions, t \in tokens :
    s.sub = t.sub /\ ~IsExpired(s) /\ t.type = "access" /\ now <= t.exp => ValidateSession(t) = "ok"

SessionsSpec == SessionsInit /\ [][SessionsNext]_sessionVars
=============================================================================
