---------------------------- MODULE AccountProofs ----------------------------
(***************************************************************************)
(* Proofs about a customer's account: the sessions of auth-service, the     *)
(* bearer token verifier of web-bff, the events of the billing provider and *)
(* the quota its calls of AI, bot and admin operations use.                 *)
(***************************************************************************)
EXTENDS Sessions, OidcVerifier, BillingWebhook, GuardedUse, FiniteSetTheorems, TLAPS

-----------------------------------------------------------------------------
\* Sessions

\* The row that validate_session looks up is the one of the last OAuth login,
\* with that login's expiry, and logout has not deleted it.
LoginRows ==
  \A s \in sessions : s.id \in Users =>
    s.expires = oauthAt[s.id] + SessionTtl /\ s.id \notin loggedOut

SessionInv ==
  /\ SessionsTypeOK
  /\ oauthAt \in [Users -> Nat]
  /\ LoginRows

\* The clock, the calls and the lifetimes are numbers.
LEMMA SessionNumbers ==
  ASSUME SessionsTypeOK
  PROVE  /\ AccessTtl \in Nat /\ RefreshTtl \in Nat /\ SessionTtl \in Nat /\ Leeway \in Nat
         /\ MaxTime \in Nat /\ MaxAuths \in Nat /\ now \in Nat /\ auths \in Nat
<1>1. AccessTtl \in Nat /\ RefreshTtl \in Nat /\ SessionTtl \in Nat /\ Leeway \in Nat /\ MaxTime \in Nat /\ MaxAuths \in Nat
  BY Zenon, SessionTimes
<1>. QED BY <1>1 DEF SessionsTypeOK

\* What generate_tokens hands out are tokens of the user.
LEMMA TokensTyped ==
  ASSUME SessionsTypeOK, NEW u \in Users
  PROVE  GenerateTokens(u) \subseteq [type : {"access", "refresh"}, sub : Users, exp : Nat]
  BY SessionNumbers DEF GenerateTokens

\* Two rows never have one id, so create_session adds a row for an id that has none.
LEMMA SessionStep ==
  ASSUME SessionInv, [SessionsNext]_sessionVars
  PROVE  SessionInv'
<1>1. /\ now \in Nat /\ auths \in Nat /\ SessionTtl \in Nat /\ MaxTime \in Nat /\ MaxAuths \in Nat
      /\ now <= MaxTime /\ auths <= MaxAuths
  BY SessionNumbers DEF SessionInv, SessionsTypeOK
<1>2. /\ sessions \subseteq [id : Users \cup (1..MaxAuths), sub : Users, expires : Nat]
      /\ tokens \subseteq [type : {"access", "refresh"}, sub : Users, exp : Nat]
      /\ oauthAt \in [Users -> Nat] /\ LoginRows
  BY Zenon DEF SessionInv, SessionsTypeOK
<1>3. ASSUME NEW u \in Users, Authenticate(u) PROVE SessionInv'
  <2>1. /\ now' = now /\ auths' = auths + 1 /\ auths < MaxAuths /\ oauthAt' = oauthAt /\ loggedOut' = loggedOut
        /\ sessions' = sessions \cup {NewSession(auths + 1, u)}
        /\ tokens' \in {tokens, tokens \cup GenerateTokens(u)}
    BY Zenon, <1>3 DEF Authenticate, CreateSession
  <2>2. NewSession(auths + 1, u) \in [id : Users \cup (1..MaxAuths), sub : Users, expires : Nat]
    BY <1>1, <2>1 DEF NewSession
  <2>3. SessionsTypeOK'
    BY <1>1, <1>2, <2>1, <2>2, TokensTyped DEF SessionInv, SessionsTypeOK
  <2>4. NewSession(auths + 1, u).id \notin Users
    BY <1>1, GeneratedIds DEF NewSession
  <2>. QED BY Zenon, <1>2, <2>1, <2>3, <2>4 DEF SessionInv, LoginRows
<1>4. ASSUME NEW u \in Users, CompleteOAuth(u) PROVE SessionInv'
  <2>1. /\ now' = now /\ auths' = auths + 1 /\ auths < MaxAuths
        /\ oauthAt' = [oauthAt EXCEPT ![u] = now] /\ loggedOut' = loggedOut \ {u}
        /\ \A r \in sessions : r.id # u
        /\ sessions' = sessions \cup {NewSession(u, u)}
        /\ tokens' \in {tokens, tokens \cup GenerateTokens(u)}
    BY Zenon, <1>4 DEF CompleteOAuth, CreateSession, NewSession
  <2>2. NewSession(u, u) \in [id : Users \cup (1..MaxAuths), sub : Users, expires : Nat]
    BY <1>1, <2>1 DEF NewSession
  <2>3. SessionsTypeOK'
    BY <1>1, <1>2, <2>1, <2>2, TokensTyped DEF SessionInv, SessionsTypeOK
  <2>4. oauthAt' \in [Users -> Nat] /\ oauthAt'[u] = now /\ \A v \in Users : v # u => oauthAt'[v] = oauthAt[v]
    BY Zenon, <1>1, <1>2, <2>1
  <2>5. NewSession(u, u).id = u /\ NewSession(u, u).expires = now + SessionTtl
    BY Zenon DEF NewSession
  <2>6. ASSUME NEW s \in sessions', s.id \in Users PROVE s.expires = oauthAt'[s.id] + SessionTtl /\ s.id \notin loggedOut'
    BY Zenon, <1>2, <2>1, <2>4, <2>5, <2>6 DEF LoginRows
  <2>. QED BY Zenon, <2>3, <2>4, <2>6 DEF SessionInv, LoginRows
<1>5. ASSUME NEW t \in tokens, RefreshSession(t) PROVE SessionInv'
  <2>1. /\ UNCHANGED <<now, sessions, oauthAt, loggedOut>> /\ auths' = auths + 1 /\ auths < MaxAuths
        /\ tokens' \in {tokens, tokens \cup GenerateTokens(t.sub)} /\ t.sub \in Users
    BY Zenon, <1>2, <1>5 DEF RefreshSession
  <2>2. SessionsTypeOK'
    BY <1>1, <1>2, <2>1, TokensTyped DEF SessionInv, SessionsTypeOK
  <2>. QED BY Zenon, <1>2, <2>1, <2>2 DEF SessionInv, LoginRows
<1>6. ASSUME NEW r \in sessions, Logout(r.id) PROVE SessionInv'
  <2>1. /\ UNCHANGED <<now, tokens, auths, oauthAt>> /\ sessions' = {s \in sessions : s.id # r.id}
        /\ loggedOut' = loggedOut \cup ({r.id} \cap Users)
    BY Zenon, <1>6 DEF Logout, DeleteSession
  <2>. QED BY Zenon, <1>2, <2>1 DEF SessionInv, SessionsTypeOK, LoginRows
<1>7. ASSUME Tick PROVE SessionInv'
  BY <1>1, <1>2, <1>7 DEF Tick, SessionInv, SessionsTypeOK, LoginRows
<1>8. ASSUME UNCHANGED sessionVars PROVE SessionInv'
  BY Zenon, <1>2, <1>8 DEF sessionVars, SessionInv, SessionsTypeOK, LoginRows
<1>. QED BY Zenon, <1>3, <1>4, <1>5, <1>6, <1>7, <1>8 DEF SessionsNext

\* However logins, refreshes and logouts follow each other: an access token
\* validates only while the session of the user's last OAuth login lasts, and
\* not after its logout.
THEOREM SessionsCorrect == SessionsSpec => [](SessionsTypeOK /\ TokensEnd)
<1>1. SessionsInit => SessionInv
  BY SessionTimes DEF SessionsInit, SessionInv, SessionsTypeOK, LoginRows
<1>2. SessionInv => SessionsTypeOK /\ TokensEnd
  <2>. SUFFICES ASSUME SessionInv PROVE SessionsTypeOK /\ TokensEnd
    BY Zenon
  <2>1. \A t \in tokens : ValidateSession(t) = "ok" => \E s \in sessions : s.id = t.sub /\ ~IsExpired(s)
    BY Zenon DEF ValidateSession, GetSession
  <2>2. \A s \in sessions : ~IsExpired(s) => now <= s.expires
    BY SessionNumbers DEF IsExpired, SessionInv, SessionsTypeOK
  <2>3. \A t \in tokens : t.sub \in Users
    BY Zenon DEF SessionInv, SessionsTypeOK
  <2>. QED BY Zenon, <2>1, <2>2, <2>3 DEF SessionInv, LoginRows, TokensEnd, ValidatesWithinTtl, LogoutHolds
<1>. QED BY <1>1, <1>2, SessionStep, PTL DEF SessionsSpec

-----------------------------------------------------------------------------
\* The token verifier

\* Key sets as the issuer has published them, and a request in the course of verify.
KeySets == (SUBSET (1..newestKey)) \cup {NoKeys}
BearerStates == [at : Ended \cup {"discover", "fetch", "store", "introspect"}, token : BearerTokens,
                 keys : KeySets, again : BOOLEAN]

\* What is known of a request `it` whose key was (s) published so far and no call
\* of which has failed: its key is published still, and in the set it has
\* fetched; and it is refused only for its token or for want of an endpoint.
Knows(it, s) ==
  /\ it.at \in {"fetch", "store"} => oidc = "jwt"
  /\ it.at = "introspect" => oidc # "jwt"
  /\ it.at = "discover" => oidc # "url"
  /\ it.at \notin Ended /\ s => it.token.kid \in issuerKeys
  /\ it.at = "store" /\ s => it.token.kid \in it.keys
  /\ it.at = "refused" /\ it.token.good /\ s => oidc = "no_endpoint"

OidcInv == OidcTypeOK /\ \A b \in Bearers : Knows(bearer[b], steady[b])

\* The invariant's types, by name.
LEMMA OidcTypes ==
  OidcTypeOK <=>
    /\ newestKey \in 1..MaxKeys /\ issuerKeys \in (SUBSET (1..newestKey)) \ {{}}
    /\ oidc \in Checks /\ discovered \in BOOLEAN /\ jwks \in KeySets
    /\ bearer \in [Bearers -> BearerStates] /\ steady \in [Bearers -> BOOLEAN]
    /\ fetchFaults \in 0..MaxFetchFaults
  BY Zenon DEF OidcTypeOK, KeySets, BearerStates

\* A step of one request leaves the others as they are.
LEMMA OneBearer ==
  ASSUME OidcInv, NEW b \in Bearers, NEW r \in BearerStates, NEW s \in BOOLEAN,
         bearer' = [bearer EXCEPT ![b] = r], steady' = [steady EXCEPT ![b] = s], Knows(r, s),
         UNCHANGED <<issuerKeys, newestKey, oidc>>, discovered' \in BOOLEAN, jwks' \in KeySets,
         fetchFaults' \in 0..MaxFetchFaults
  PROVE  OidcInv'
<1>1. /\ newestKey \in 1..MaxKeys /\ issuerKeys \in (SUBSET (1..newestKey)) \ {{}} /\ oidc \in Checks
      /\ bearer \in [Bearers -> BearerStates] /\ steady \in [Bearers -> BOOLEAN]
  BY Zenon, OidcTypes DEF OidcInv
<1>2. KeySets' = KeySets /\ BearerStates' = BearerStates
  BY Zenon DEF KeySets, BearerStates
<1>3. bearer' \in [Bearers -> BearerStates] /\ steady' \in [Bearers -> BOOLEAN]
  BY Zenon, <1>1
<1>4. OidcTypeOK'
  BY Zenon, <1>1, <1>2, <1>3 DEF OidcTypeOK, KeySets, BearerStates
<1>5. ASSUME NEW c \in Bearers PROVE Knows(bearer[c], steady[c])'
  <2>1. CASE c = b
    <3>1. bearer'[c] = r /\ steady'[c] = s
      BY Zenon, <1>1, <2>1
    <3>. QED BY <3>1 DEF Knows
  <2>2. CASE c # b
    <3>1. bearer'[c] = bearer[c] /\ steady'[c] = steady[c] /\ Knows(bearer[c], steady[c])
      BY Zenon, <1>1, <2>2 DEF OidcInv
    <3>. QED BY <3>1 DEF Knows
  <2>. QED BY Zenon, <2>1, <2>2
<1>. QED BY Zenon, <1>4, <1>5 DEF OidcInv

\* A request that is not yet made.
LEMMA FreshRequest == NoRequest \in BearerStates
<1>1. [kid |-> 0, good |-> FALSE] \in BearerTokens
  BY OidcBounds DEF BearerTokens
<1>2. "idle" \in Ended \cup {"discover", "fetch", "store", "introspect"} /\ NoKeys \in KeySets
  BY Zenon DEF Ended, KeySets
<1>3. FALSE \in BOOLEAN
  BY Zenon
<1>. QED BY Zenon, <1>1, <1>2, <1>3 DEF BearerStates, NoRequest

\* What a decode leads to: acceptance, a last refresh, or a refusal for a key that
\* is not in the set or a token that is not good.
LEMMA Decoded ==
  ASSUME OidcInv, NEW token \in BearerTokens, NEW keys \in KeySets, NEW again \in BOOLEAN, NEW s \in BOOLEAN,
         oidc = "jwt", s => token.kid \in issuerKeys, s /\ ~again => token.kid \in keys
  PROVE  AfterDecode(token, keys, again) \in BearerStates /\ Knows(AfterDecode(token, keys, again), s)
<1>1. NoRequest \in BearerStates /\ NoRequest.at = "idle"
  BY Zenon, FreshRequest DEF NoRequest
<1>2. CASE DecodeWithJwks(token, keys)
  <2>1. AfterDecode(token, keys, again) = NoRequest
    BY Zenon, <1>2 DEF AfterDecode
  <2>. QED BY Zenon, <1>1, <2>1 DEF Knows, Ended
<1>3. CASE ~DecodeWithJwks(token, keys)
  <2>1. PICK r : r = AfterDecode(token, keys, again)
    BY Zenon
  <2>2. r = [NoRequest EXCEPT !.at = IF again THEN "discover" ELSE "refused", !.token = token]
    BY Zenon, <1>3, <2>1 DEF AfterDecode
  <2>3. r.at = (IF again THEN "discover" ELSE "refused") /\ r.token = token /\ r \in BearerStates
    BY Zenon, <1>1, <2>2 DEF NoRequest, BearerStates, Ended, KeySets
  <2>4. token.good => token.kid \notin keys
    BY Zenon, <1>3 DEF DecodeWithJwks
  <2>. QED BY Zenon, <2>1, <2>3, <2>4 DEF Knows, Ended
<1>. QED BY Zenon, <1>2, <1>3

\* A request starts.
LEMMA VerifyStep ==
  ASSUME OidcInv, NEW b \in Bearers, NEW token \in BearerTokens, token.kid <= newestKey, Verify(b, token)
  PROVE  OidcInv'
<1>1. /\ oidc \in Checks /\ discovered \in BOOLEAN /\ jwks \in KeySets /\ fetchFaults \in 0..MaxFetchFaults
      /\ issuerKeys \subseteq 1..newestKey /\ newestKey \in Nat
  BY OidcTypes, OidcBounds DEF OidcInv
<1>2. (token.kid \in issuerKeys) \in BOOLEAN
  OBVIOUS
<1>3. PICK s \in BOOLEAN : s = (token.kid \in issuerKeys)
  BY Zenon, <1>2
<1>4. UNCHANGED <<issuerKeys, newestKey, oidc, discovered, jwks, fetchFaults>> /\ steady' = [steady EXCEPT ![b] = s]
  BY Zenon, <1>3 DEF Verify
<1>5. s => token.kid \in issuerKeys
  BY Zenon, <1>3
<1>6. ASSUME NEW r \in BearerStates, r.token = token, r.at = "refused" => ~s,
             r.at = "refused" \/ (r.at = "discover" /\ oidc # "url") \/ (r.at = "introspect" /\ oidc # "jwt"),
             bearer' = [bearer EXCEPT ![b] = r]
      PROVE  OidcInv'
  <2>1. Knows(r, s)
    BY Zenon, <1>5, <1>6 DEF Knows, Ended
  <2>. QED BY Zenon, <1>1, <1>4, <1>6, <2>1, OneBearer
<1>7. ASSUME NEW at \in {"discover", "refused", "introspect"}
      PROVE  /\ [NoRequest EXCEPT !.at = at, !.token = token] \in BearerStates
             /\ [NoRequest EXCEPT !.at = at, !.token = token].at = at
             /\ [NoRequest EXCEPT !.at = at, !.token = token].token = token
  BY Zenon, FreshRequest DEF BearerStates, Ended
<1>8. CASE oidc = "url"
  <2>1. bearer' = [bearer EXCEPT ![b] = [NoRequest EXCEPT !.at = "introspect", !.token = token]]
    BY Zenon, <1>8 DEF Verify
  <2>. QED BY Zenon, <1>6, <1>7, <1>8, <2>1
<1>9. CASE oidc \in {"endpoint", "no_endpoint"}
  <2>1. bearer' = [bearer EXCEPT ![b] = [NoRequest EXCEPT !.at = "discover", !.token = token]]
    BY Zenon, <1>9 DEF Verify
  <2>. QED BY Zenon, <1>6, <1>7, <1>9, <2>1
<1>10. CASE oidc = "jwt" /\ token.kid = 0
  <2>1. bearer' = [bearer EXCEPT ![b] = [NoRequest EXCEPT !.at = "refused", !.token = token]]
    BY Zenon, <1>10 DEF Verify
  <2>2. ~s
    BY <1>1, <1>5, <1>10
  <2>. QED BY Zenon, <1>6, <1>7, <2>1, <2>2
<1>11. CASE oidc = "jwt" /\ token.kid # 0 /\ jwks = NoKeys
  <2>1. bearer' = [bearer EXCEPT ![b] = [NoRequest EXCEPT !.at = "discover", !.token = token, !.again = TRUE]]
    BY Zenon, <1>11 DEF Verify
  <2>2. PICK f \in BOOLEAN : f = TRUE
    BY Zenon
  <2>3. PICK r : r = [NoRequest EXCEPT !.at = "discover", !.token = token, !.again = f]
    BY Zenon
  <2>4. r \in BearerStates /\ r.at = "discover" /\ r.token = token
    BY Zenon, <2>3, FreshRequest DEF BearerStates
  <2>5. bearer' = [bearer EXCEPT ![b] = r]
    BY Zenon, <2>1, <2>2, <2>3
  <2>. QED BY Zenon, <1>6, <1>11, <2>4, <2>5
<1>12. CASE oidc = "jwt" /\ token.kid # 0 /\ jwks # NoKeys
  <2>1. bearer' = [bearer EXCEPT ![b] = AfterDecode(token, jwks, TRUE)]
    BY Zenon, <1>12 DEF Verify
  <2>2. PICK f \in BOOLEAN : f = TRUE
    BY Zenon
  <2>3. AfterDecode(token, jwks, f) \in BearerStates /\ Knows(AfterDecode(token, jwks, f), s)
    BY Zenon, <1>1, <1>5, <1>12, <2>2, Decoded
  <2>4. bearer' = [bearer EXCEPT ![b] = AfterDecode(token, jwks, f)]
    BY Zenon, <2>1, <2>2
  <2>. QED BY Zenon, <1>1, <1>4, <2>3, <2>4, OneBearer
<1>. QED BY Zenon, <1>1, <1>8, <1>9, <1>10, <1>11, <1>12 DEF Checks

\* The steps of a request under way.
LEMMA BearerStep ==
  ASSUME OidcInv, NEW b \in Bearers,
         Discover(b) \/ FetchKeys(b) \/ StoreKeys(b) \/ Introspect(b) \/ FetchFails(b)
  PROVE  OidcInv'
<1>1. /\ oidc \in Checks /\ discovered \in BOOLEAN /\ jwks \in KeySets /\ fetchFaults \in 0..MaxFetchFaults
      /\ issuerKeys \in SUBSET (1..newestKey) /\ MaxFetchFaults \in Nat
      /\ bearer \in [Bearers -> BearerStates] /\ steady \in [Bearers -> BOOLEAN]
  BY Zenon, OidcTypes, OidcBounds DEF OidcInv
<1>2. PICK it \in BearerStates : it = bearer[b]
  BY Zenon, <1>1
<1>3. PICK s \in BOOLEAN : s = steady[b]
  BY Zenon, <1>1
<1>4. Knows(it, s) /\ steady = [steady EXCEPT ![b] = s]
  BY Zenon, <1>1, <1>2, <1>3 DEF OidcInv
<1>5. /\ it.at \in Ended \cup {"discover", "fetch", "store", "introspect"} /\ it.token \in BearerTokens
      /\ it.keys \in KeySets /\ it.again \in BOOLEAN
  BY Zenon DEF BearerStates
<1>6. CASE Discover(b)
  <2>1. PICK at : at = CASE oidc = "jwt" -> "fetch" [] oidc = "endpoint" -> "introspect" [] oidc = "no_endpoint" -> "refused"
    BY Zenon
  <2>2. /\ oidc = "jwt" => at = "fetch"
        /\ oidc = "endpoint" => at = "introspect"
        /\ oidc = "no_endpoint" => at = "refused"
    BY Zenon, <2>1
  <2>3. PICK r : r = [it EXCEPT !.at = at]
    BY Zenon
  <2>4. it.at = "discover" /\ bearer' = [bearer EXCEPT ![b] = r]
    BY Zenon, <1>2, <1>6, <2>1, <2>3 DEF Discover
  <2>5. oidc # "url"
    BY Zenon, <1>4, <2>4 DEF Knows
  <2>6. at \in {"fetch", "introspect", "refused"}
    BY Zenon, <1>1, <2>2, <2>5 DEF Checks
  <2>7. r \in BearerStates /\ r.at = at /\ r.token = it.token
    BY Zenon, <2>3, <2>6 DEF BearerStates, Ended
  <2>8. Knows(r, s)
    BY Zenon, <1>1, <1>4, <2>2, <2>4, <2>5, <2>6, <2>7 DEF Knows, Ended, Checks
  <2>9. discovered' \in BOOLEAN /\ UNCHANGED <<issuerKeys, newestKey, oidc, jwks, fetchFaults>>
    BY Zenon, <1>6 DEF Discover
  <2>10. steady' = [steady EXCEPT ![b] = s]
    BY Zenon, <1>4, <1>6 DEF Discover
  <2>. QED BY Zenon, <1>1, <2>4, <2>7, <2>8, <2>9, <2>10, OneBearer
<1>7. CASE FetchKeys(b)
  <2>1. PICK r : r = [it EXCEPT !.at = "store", !.keys = issuerKeys]
    BY Zenon
  <2>2. it.at = "fetch" /\ bearer' = [bearer EXCEPT ![b] = r]
    BY Zenon, <1>1, <1>2, <1>7, <2>1 DEF FetchKeys
  <2>3. r \in BearerStates /\ r.at = "store" /\ r.keys = issuerKeys /\ r.token = it.token
    BY Zenon, <1>1, <2>1 DEF BearerStates, KeySets
  <2>4. Knows(r, s)
    BY Zenon, <1>4, <2>2, <2>3 DEF Knows, Ended
  <2>5. UNCHANGED <<issuerKeys, newestKey, oidc, discovered, jwks, fetchFaults>>
    BY Zenon, <1>7 DEF FetchKeys
  <2>6. steady' = [steady EXCEPT ![b] = s]
    BY Zenon, <1>4, <1>7 DEF FetchKeys
  <2>. QED BY Zenon, <1>1, <2>2, <2>3, <2>4, <2>5, <2>6, OneBearer
<1>8. CASE StoreKeys(b)
  <2>1. it.at = "store" /\ jwks' = it.keys /\ bearer' = [bearer EXCEPT ![b] = AfterDecode(it.token, it.keys, it.again)]
    BY Zenon, <1>2, <1>8 DEF StoreKeys
  <2>2. AfterDecode(it.token, it.keys, it.again) \in BearerStates /\ Knows(AfterDecode(it.token, it.keys, it.again), s)
    BY Zenon, <1>4, <1>5, <2>1, Decoded DEF Knows, Ended
  <2>3. UNCHANGED <<issuerKeys, newestKey, oidc, discovered, fetchFaults>>
    BY Zenon, <1>8 DEF StoreKeys
  <2>4. steady' = [steady EXCEPT ![b] = s]
    BY Zenon, <1>4, <1>8 DEF StoreKeys
  <2>. QED BY Zenon, <1>1, <1>5, <2>1, <2>2, <2>3, <2>4, OneBearer
<1>9. CASE Introspect(b)
  <2>1. PICK r : r = IF it.token.good THEN NoRequest ELSE [it EXCEPT !.at = "refused"]
    BY Zenon
  <2>2. it.at = "introspect" /\ bearer' = [bearer EXCEPT ![b] = r]
    BY Zenon, <1>2, <1>9, <2>1 DEF Introspect
  <2>3. r \in BearerStates /\ (r.at = "idle" \/ (r.at = "refused" /\ ~r.token.good))
    <3>1. CASE it.token.good
      BY Zenon, <2>1, <3>1, FreshRequest DEF NoRequest
    <3>2. CASE ~it.token.good
      BY Zenon, <2>1, <3>2 DEF BearerStates, Ended
    <3>. QED BY Zenon, <3>1, <3>2
  <2>4. Knows(r, s)
    BY Zenon, <2>3 DEF Knows, Ended
  <2>5. UNCHANGED <<issuerKeys, newestKey, oidc, discovered, jwks, fetchFaults>>
    BY Zenon, <1>9 DEF Introspect
  <2>6. steady' = [steady EXCEPT ![b] = s]
    BY Zenon, <1>4, <1>9 DEF Introspect
  <2>. QED BY Zenon, <1>1, <2>2, <2>3, <2>4, <2>5, <2>6, OneBearer
<1>10. CASE FetchFails(b)
  <2>1. PICK r : r = [it EXCEPT !.at = "refused"]
    BY Zenon
  <2>2. bearer' = [bearer EXCEPT ![b] = r] /\ steady' = [steady EXCEPT ![b] = FALSE]
    BY Zenon, <1>1, <1>2, <1>10, <2>1 DEF FetchFails
  <2>3. r \in BearerStates /\ r.at = "refused"
    BY Zenon, <2>1 DEF BearerStates, Ended
  <2>4. Knows(r, FALSE)
    BY Zenon, <2>3 DEF Knows
  <2>5. fetchFaults' \in 0..MaxFetchFaults
    BY <1>1, <1>10 DEF FetchFails
  <2>. QED BY Zenon, <1>1, <1>10, <2>2, <2>3, <2>4, <2>5, OneBearer DEF FetchFails
<1>. QED BY Zenon, <1>6, <1>7, <1>8, <1>9, <1>10

\* The issuer publishes a key: no set loses one.
LEMMA PublishStep ==
  ASSUME OidcInv, PublishKey
  PROVE  OidcInv'
<1>1. /\ newestKey \in 1..MaxKeys /\ issuerKeys \in (SUBSET (1..newestKey)) \ {{}} /\ MaxKeys \in Nat
      /\ oidc \in Checks /\ discovered \in BOOLEAN /\ jwks \in KeySets
      /\ bearer \in [Bearers -> BearerStates] /\ steady \in [Bearers -> BOOLEAN] /\ fetchFaults \in 0..MaxFetchFaults
  BY Zenon, OidcTypes, OidcBounds DEF OidcInv
<1>2. /\ newestKey < MaxKeys /\ newestKey' = newestKey + 1 /\ issuerKeys' = issuerKeys \cup {newestKey + 1}
      /\ UNCHANGED <<oidc, discovered, jwks, bearer, steady, fetchFaults>>
  BY Zenon DEF PublishKey
<1>3. newestKey' \in 1..MaxKeys /\ issuerKeys' \in (SUBSET (1..newestKey')) \ {{}} /\ 1..newestKey \subseteq 1..newestKey'
  BY <1>1, <1>2
<1>4. KeySets \subseteq KeySets'
  BY Zenon, <1>3 DEF KeySets
<1>5. BearerStates \subseteq BearerStates'
  BY Zenon, <1>4 DEF BearerStates
<1>6. OidcTypeOK'
  <2>1. bearer' \in [Bearers -> BearerStates'] /\ jwks' \in KeySets'
    BY Zenon, <1>1, <1>2, <1>4, <1>5
  <2>. QED BY Zenon, <1>1, <1>2, <1>3, <2>1 DEF OidcTypeOK, KeySets, BearerStates
<1>7. \A b \in Bearers : Knows(bearer[b], steady[b])'
  BY Zenon, <1>2 DEF OidcInv, Knows
<1>. QED BY Zenon, <1>6, <1>7 DEF OidcInv

\* The issuer retires a key: the requests that carry it are no longer steady.
LEMMA RetireStep ==
  ASSUME OidcInv, RetireKey
  PROVE  OidcInv'
<1>1. /\ newestKey \in 1..MaxKeys /\ issuerKeys \in (SUBSET (1..newestKey)) \ {{}}
      /\ oidc \in Checks /\ discovered \in BOOLEAN /\ jwks \in KeySets
      /\ bearer \in [Bearers -> BearerStates] /\ steady \in [Bearers -> BOOLEAN] /\ fetchFaults \in 0..MaxFetchFaults
  BY Zenon, OidcTypes DEF OidcInv
<1>2. PICK oldest \in issuerKeys :
        /\ issuerKeys # {oldest} /\ issuerKeys' = issuerKeys \ {oldest}
        /\ steady' = [b \in Bearers |-> steady[b] /\ (bearer[b].at \in Ended \/ bearer[b].token.kid # oldest)]
  BY Zenon DEF RetireKey
<1>3. UNCHANGED <<newestKey, oidc, discovered, jwks, bearer, fetchFaults>>
  BY Zenon DEF RetireKey
<1>4. issuerKeys' \in (SUBSET (1..newestKey)) \ {{}}
  BY Zenon, <1>1, <1>2
<1>5. KeySets' = KeySets /\ BearerStates' = BearerStates
  BY Zenon, <1>3 DEF KeySets, BearerStates
<1>6. steady' \in [Bearers -> BOOLEAN]
  BY Zenon, <1>2
<1>7. OidcTypeOK'
  BY Zenon, <1>1, <1>3, <1>4, <1>5, <1>6 DEF OidcTypeOK, KeySets, BearerStates
<1>8. ASSUME NEW b \in Bearers PROVE Knows(bearer[b], steady[b])'
  <2>1. steady'[b] => steady[b] /\ (bearer[b].at \in Ended \/ bearer[b].token.kid # oldest)
    BY Zenon, <1>2
  <2>. QED BY Zenon, <1>2, <1>3, <2>1 DEF OidcInv, Knows
<1>. QED BY Zenon, <1>7, <1>8 DEF OidcInv

\* However the issuer's keys rotate and the requests interleave over the two
\* caches: a good token whose key stays published is refused only when a call of
\* the request fails or there is no endpoint to ask.
THEOREM VerifierCorrect == OidcSpec => [](OidcTypeOK /\ PublishedKeyIsAccepted)
<1>1. OidcInit => OidcInv
  <2>. SUFFICES ASSUME OidcInit PROVE OidcInv
    BY Zenon
  <2>1. bearer \in [Bearers -> BearerStates] /\ jwks \in KeySets /\ steady \in [Bearers -> BOOLEAN]
    BY Zenon, FreshRequest DEF OidcInit, KeySets
  <2>2. OidcTypeOK
    <3>1. newestKey \in 1..MaxKeys /\ issuerKeys \in (SUBSET (1..newestKey)) \ {{}} /\ fetchFaults \in 0..MaxFetchFaults
      BY OidcBounds DEF OidcInit
    <3>2. oidc \in Checks /\ discovered \in BOOLEAN
      BY Zenon DEF OidcInit
    <3>. QED BY Zenon, <2>1, <3>1, <3>2, OidcTypes
  <2>3. \A b \in Bearers : bearer[b].at = "idle"
    BY Zenon DEF OidcInit, NoRequest
  <2>. QED BY Zenon, <2>2, <2>3 DEF OidcInv, Knows, Ended
<1>2. OidcInv /\ [OidcNext]_oidcVars => OidcInv'
  <2>. SUFFICES ASSUME OidcInv, [OidcNext]_oidcVars PROVE OidcInv'
    BY Zenon
  <2>1. CASE UNCHANGED oidcVars
    BY Zenon, <2>1 DEF oidcVars, OidcInv, OidcTypeOK, Knows
  <2>2. ASSUME NEW b \in Bearers, NEW token \in BearerTokens, token.kid <= newestKey, Verify(b, token) PROVE OidcInv'
    BY Zenon, <2>2, VerifyStep
  <2>3. ASSUME NEW b \in Bearers, Discover(b) \/ FetchKeys(b) \/ StoreKeys(b) \/ Introspect(b) \/ FetchFails(b)
        PROVE  OidcInv'
    BY Zenon, <2>3, BearerStep
  <2>. QED BY Zenon, <2>1, <2>2, <2>3, PublishStep, RetireStep DEF OidcNext
<1>3. OidcInv => OidcTypeOK /\ PublishedKeyIsAccepted
  BY Zenon DEF OidcInv, Knows, PublishedKeyIsAccepted
<1>. QED BY <1>1, <1>2, <1>3, PTL DEF OidcSpec

-----------------------------------------------------------------------------
\* The billing webhook

\* The request is past its insert: it alone owns the event's row.
Owns(h) == handlerAt[h] \in {"project", "processed", "failed"}
Faulted == webhookFaults # << >>

\* What a request knows about the event it carries.
HandlerKnows ==
  \A h \in Handlers :
    /\ handlerAt[h] # "idle" => carried[h] \in BillingEvents
    /\ \A e \in BillingEvents : carried[h] = e =>
         /\ Owns(h) => ledger[e].status = "received"
         /\ handlerAt[h] = "project" => ~Applied(e)
         /\ handlerAt[h] = "processed" => Applied(e)
         /\ handlerAt[h] = "failed" => Faulted

OneOwner ==
  \A g, h \in Handlers : Owns(g) /\ Owns(h) /\ carried[g] = carried[h] => g = h

\* What a row of the ledger says about its event.
RowKnows ==
  \A e \in BillingEvents :
    /\ Applied(e) => ledger[e].status # "absent"
    /\ ledger[e].status \in {"absent", "received"} => ledger[e].attempts = 0
    /\ ledger[e].status = "received" => Faulted \/ \E h \in Handlers : Owns(h) /\ carried[h] = e
    /\ ledger[e].status = "failed" => Faulted

WebhookInv ==
  WebhookTypeOK /\ HandlerKnows /\ OneOwner /\ RowKnows /\ EventsAreHandledOnce

\* A fault is remembered.
LEMMA FaultStep ==
  ASSUME webhookFaults \in Seq(WebhookFaults), Len(webhookFaults) <= MaxWebhookFaults,
         NEW kind, WebhookFault(kind)
  PROVE  /\ webhookFaults' \in Seq(WebhookFaults) /\ Len(webhookFaults') <= MaxWebhookFaults
         /\ Faulted'
<1>1. /\ Append(webhookFaults, kind) \in Seq(WebhookFaults)
      /\ Len(Append(webhookFaults, kind)) = Len(webhookFaults) + 1
      /\ Len(webhookFaults) \in Nat
  BY DEF WebhookFault
<1>2. webhookFaults' # << >>
  BY <1>1 DEF WebhookFault
<1>. QED
  BY <1>1, <1>2, WebhookFaultsAssumption DEF WebhookFault, Faulted

\* Projecting an event that was not projected adds it, and only it.
LEMMA ProjectStep ==
  ASSUME applied \in Seq(BillingEvents), entitled \in BOOLEAN, effect \in [BillingEvents -> Effects],
         NEW e \in BillingEvents, Project(e)
  PROVE  /\ applied' \in Seq(BillingEvents) /\ entitled' \in BOOLEAN
         /\ \A x \in BillingEvents : Applied(x)' <=> Applied(x) \/ x = e
         /\ AppliedOnce /\ ~Applied(e) => AppliedOnce'
<1>1. applied' = Append(applied, e)
  BY Zenon DEF Project
<1>2. /\ applied' \in Seq(BillingEvents) /\ Len(applied) \in Nat /\ Len(applied') = Len(applied) + 1
      /\ \A i \in 1..Len(applied) : applied'[i] = applied[i]
      /\ applied'[Len(applied) + 1] = e
  BY <1>1
<1>3. entitled' \in BOOLEAN
  BY Zenon DEF Project
<1>4. ASSUME NEW x \in BillingEvents PROVE Applied(x)' <=> Applied(x) \/ x = e
  <2>1. Applied(x)' <=> \E i \in 1..Len(applied) + 1 : applied'[i] = x
    BY Zenon, <1>2 DEF Applied
  <2>. QED BY <1>2, <2>1 DEF Applied
<1>5. ASSUME AppliedOnce, ~Applied(e) PROVE AppliedOnce'
  <2>. SUFFICES ASSUME NEW i \in 1..Len(applied'), NEW j \in 1..Len(applied'), i < j
                PROVE  applied'[i] # applied'[j]
    BY <1>2 DEF AppliedOnce
  <2>1. i \in 1..Len(applied) /\ applied'[i] = applied[i]
    BY <1>2
  <2>2. CASE j \in 1..Len(applied)
    BY <1>2, <1>5, <2>1, <2>2 DEF AppliedOnce
  <2>3. CASE j = Len(applied) + 1
    BY Zenon, <1>2, <1>5, <2>1, <2>3 DEF Applied
  <2>. QED BY <1>2, <2>2, <2>3
<1>. QED BY Zenon, <1>2, <1>3, <1>4, <1>5

\* A step of request h, which carries event e, leaves the other requests and the
\* other events alone.
StepApart(h, e) ==
  /\ Faulted => Faulted'
  /\ handlerAt[h] # "idle" => carried[h] = e
  /\ handlerAt'[h] # "idle" => carried'[h] = e
  /\ \A g \in Handlers \ {h} : handlerAt'[g] = handlerAt[g] /\ carried'[g] = carried[g]
  /\ \A x \in BillingEvents \ {e} :
       ledger'[x] = ledger[x] /\ (Applied(x)' <=> Applied(x)) /\ (x \in acked' <=> x \in acked)

\* The step leaves h knowing what HandlerKnows says of it; only the request that
\* creates the row of e comes to own it.
RequestAfter(h, e) ==
  /\ Owns(h)' => ledger'[e].status = "received" /\ (Owns(h) \/ ledger[e].status = "absent")
  /\ handlerAt'[h] = "project" => ~Applied(e)'
  /\ handlerAt'[h] = "processed" => Applied(e)'
  /\ handlerAt'[h] = "failed" => Faulted'

\* The step leaves the row of e as RowKnows says; h owns the row, or creates it,
\* or leaves it alone.
RowAfter(h, e) ==
  /\ Owns(h) \/ ledger[e].status = "absent" \/ (ledger'[e] = ledger[e] /\ (Applied(e)' <=> Applied(e)))
  /\ Applied(e)' => ledger'[e].status # "absent"
  /\ ledger'[e].status \in {"absent", "received"} => ledger'[e].attempts = 0
  /\ ledger'[e].status = "received" =>
       Faulted' \/ Owns(h)' \/ (ledger[e].status = "received" /\ ~Owns(h))
  /\ ledger'[e].status = "failed" => Faulted'
  /\ ledger'[e].status = "processed" => Applied(e)'

\* The step leaves the acknowledgement of e true.
AckAfter(h, e) ==
  e \in acked' =>
    \/ Applied(e)' \/ handlerAt'[h] = "project"
    \/ \E g \in Handlers \ {h} : carried[g] = e /\ handlerAt[g] = "project"
    \/ Faulted' /\ ledger'[e].status \in {"received", "failed"}

\* A step of one request touches one event, and the requests that carry the
\* same event know nothing the step changes: what is to be shown about a step is
\* about its own request and event.
LEMMA OneEventStep ==
  ASSUME WebhookInv, WebhookTypeOK', AppliedOnce', NEW h \in Handlers, NEW e \in BillingEvents,
         StepApart(h, e), RequestAfter(h, e), RowAfter(h, e), AckAfter(h, e)
  PROVE  WebhookInv'
<1>. USE DEF StepApart, RequestAfter, RowAfter, AckAfter
<1>1. \A g \in Handlers \ {h} : (Owns(g)' <=> Owns(g)) /\ (Owns(g) => carried[g] \in BillingEvents)
  BY Zenon DEF Owns, WebhookInv, HandlerKnows
<1>2. (Owns(h) => carried[h] = e) /\ (Owns(h)' => carried'[h] = e)
  BY Zenon DEF Owns
<1>3. \A g \in Handlers \ {h} : \A x \in BillingEvents : Owns(g) /\ carried[g] = x =>
        ledger'[x] = ledger[x] /\ (Applied(x)' <=> Applied(x))
  <2>. SUFFICES ASSUME NEW g \in Handlers \ {h}, Owns(g), carried[g] = e
                PROVE  ledger'[e] = ledger[e] /\ (Applied(e)' <=> Applied(e))
    BY Zenon
  <2>1. ledger[e].status = "received"
    BY Zenon DEF WebhookInv, HandlerKnows
  <2>2. ~Owns(h)
    BY Zenon, <1>2 DEF WebhookInv, OneOwner
  <2>. QED BY Zenon, <2>1, <2>2
<1>4. HandlerKnows'
  <2>1. ASSUME NEW g \in Handlers \ {h}
        PROVE  /\ handlerAt'[g] # "idle" => carried'[g] \in BillingEvents
               /\ \A x \in BillingEvents : carried'[g] = x =>
                    /\ Owns(g)' => ledger'[x].status = "received"
                    /\ handlerAt'[g] = "project" => ~Applied(x)'
                    /\ handlerAt'[g] = "processed" => Applied(x)'
                    /\ handlerAt'[g] = "failed" => Faulted'
    <3>1. handlerAt[g] \in {"project", "processed", "failed"} <=> Owns(g)
      BY Zenon DEF Owns
    <3>. QED BY <1>1, <1>3, <3>1 DEF WebhookInv, HandlerKnows
  <2>2. /\ handlerAt'[h] # "idle" => carried'[h] \in BillingEvents
        /\ \A x \in BillingEvents : carried'[h] = x =>
             /\ Owns(h)' => ledger'[x].status = "received"
             /\ handlerAt'[h] = "project" => ~Applied(x)'
             /\ handlerAt'[h] = "processed" => Applied(x)'
             /\ handlerAt'[h] = "failed" => Faulted'
    BY Zenon, <1>2
  <2>. QED BY Zenon, <2>1, <2>2 DEF HandlerKnows
<1>5. OneOwner'
  <2>. SUFFICES ASSUME NEW f \in Handlers, NEW g \in Handlers, Owns(f)', Owns(g)',
                       carried'[f] = carried'[g], f # g
                PROVE  FALSE
    BY Zenon DEF OneOwner
  <2>1. CASE f # h /\ g # h
    BY Zenon, <1>1, <2>1 DEF WebhookInv, OneOwner
  <2>2. CASE f = h \/ g = h
    <3>1. PICK k \in Handlers \ {h} : Owns(k) /\ carried[k] = e /\ Owns(h)'
      BY <1>1, <1>2, <2>2
    <3>. QED BY Zenon, <1>2, <3>1 DEF WebhookInv, OneOwner, HandlerKnows
  <2>. QED BY Zenon, <2>1, <2>2
<1>6. RowKnows'
  <2>1. ASSUME NEW x \in BillingEvents \ {e}
        PROVE  /\ Applied(x)' => ledger'[x].status # "absent"
               /\ ledger'[x].status \in {"absent", "received"} => ledger'[x].attempts = 0
               /\ ledger'[x].status = "received" => Faulted' \/ \E g \in Handlers : Owns(g)' /\ carried'[g] = x
               /\ ledger'[x].status = "failed" => Faulted'
    BY <1>1, <1>2 DEF WebhookInv, RowKnows
  <2>2. ledger'[e].status = "received" => Faulted' \/ \E g \in Handlers : Owns(g)' /\ carried'[g] = e
    BY <1>1, <1>2 DEF WebhookInv, RowKnows
  <2>. QED BY Zenon, <2>1, <2>2 DEF RowKnows
<1>7. ProcessedWasApplied'
  BY Zenon DEF WebhookInv, EventsAreHandledOnce, ProcessedWasApplied
<1>8. AckedIsHandled'
  <2>1. ASSUME NEW x \in acked', x # e
        PROVE  \/ Applied(x)'
               \/ \E g \in Handlers : carried'[g] = x /\ handlerAt'[g] = "project"
               \/ webhookFaults' # << >> /\ ledger'[x].status \in {"received", "failed"}
    <3>1. x \in acked /\ x \in BillingEvents
      BY Zenon, <2>1 DEF WebhookTypeOK
    <3>2. handlerAt[h] = "project" => carried[h] # x
      BY Zenon, <2>1
    <3>. QED BY <2>1, <3>1, <3>2 DEF WebhookInv, EventsAreHandledOnce, AckedIsHandled, Faulted
  <2>2. e \in acked' =>
          \/ Applied(e)'
          \/ \E g \in Handlers : carried'[g] = e /\ handlerAt'[g] = "project"
          \/ webhookFaults' # << >> /\ ledger'[e].status \in {"received", "failed"}
    BY Zenon DEF Faulted
  <2>. QED BY Zenon, <2>1, <2>2 DEF AckedIsHandled
<1>. QED BY Zenon, <1>4, <1>5, <1>6, <1>7, <1>8 DEF WebhookInv, EventsAreHandledOnce

\* A delivery starts a request and touches no row.
LEMMA DeliverEventStep ==
  ASSUME WebhookInv, NEW h \in Handlers, NEW e \in BillingEvents, DeliverEvent(h, e)
  PROVE  WebhookInv'
<1>1. /\ handlerAt' = [handlerAt EXCEPT ![h] = "insert"] /\ carried' = [carried EXCEPT ![h] = e]
      /\ handlerAt[h] = "idle"
      /\ UNCHANGED <<effect, ledger, applied, entitled, acked, webhookFaults>>
  BY Zenon DEF DeliverEvent
<1>2. WebhookTypeOK'
  BY Zenon, <1>1 DEF WebhookInv, WebhookTypeOK
<1>3. /\ handlerAt'[h] = "insert" /\ carried'[h] = e
      /\ \A g \in Handlers \ {h} : handlerAt'[g] = handlerAt[g] /\ carried'[g] = carried[g]
  BY Zenon, <1>1 DEF WebhookInv, WebhookTypeOK
<1>4. /\ \A x \in BillingEvents : Applied(x)' <=> Applied(x)
      /\ AppliedOnce' /\ (Faulted' <=> Faulted) /\ ~Owns(h) /\ ~Owns(h)'
  BY Zenon, <1>1, <1>3 DEF Applied, AppliedOnce, Faulted, Owns, WebhookInv, EventsAreHandledOnce
<1>5. /\ Applied(e) => ledger[e].status # "absent"
      /\ ledger[e].status \in {"absent", "received"} => ledger[e].attempts = 0
      /\ ledger[e].status = "failed" => Faulted
      /\ ledger[e].status = "processed" => Applied(e)
      /\ e \in acked => \/ Applied(e)
                        \/ \E g \in Handlers : carried[g] = e /\ handlerAt[g] = "project"
                        \/ Faulted /\ ledger[e].status \in {"received", "failed"}
  BY Zenon DEF WebhookInv, RowKnows, EventsAreHandledOnce, ProcessedWasApplied, AckedIsHandled, Faulted
<1>6. StepApart(h, e)
  BY Zenon, <1>1, <1>3, <1>4 DEF StepApart
<1>7. RequestAfter(h, e)
  BY Zenon, <1>3, <1>4 DEF RequestAfter
<1>8. RowAfter(h, e)
  BY Zenon, <1>1, <1>4, <1>5 DEF RowAfter
<1>9. AckAfter(h, e)
  BY Zenon, <1>1, <1>4, <1>5 DEF AckAfter
<1>. QED BY Zenon, <1>2, <1>4, <1>6, <1>7, <1>8, <1>9, OneEventStep

\* What is known about the event a running request carries.
LEMMA CarriedEvent ==
  ASSUME WebhookInv, NEW h \in Handlers, handlerAt[h] # "idle", NEW e, e = carried[h]
  PROVE  /\ e \in BillingEvents
         /\ Owns(h) => ledger[e].status = "received" /\ ledger[e].attempts = 0
         /\ handlerAt[h] = "project" => ~Applied(e)
         /\ handlerAt[h] = "processed" => Applied(e)
         /\ handlerAt[h] = "failed" => Faulted
         /\ Applied(e) => ledger[e].status # "absent"
         /\ ledger[e].status \in {"absent", "received"} => ledger[e].attempts = 0
         /\ ledger[e].status = "received" => Faulted \/ \E g \in Handlers : Owns(g) /\ carried[g] = e
         /\ ledger[e].status = "failed" => Faulted
         /\ ledger[e].status = "processed" => Applied(e)
         /\ ledger[e].status \in BillingEventStatus /\ ledger[e].attempts \in Nat
         /\ e \in acked => \/ Applied(e)
                           \/ \E g \in Handlers : carried[g] = e /\ handlerAt[g] = "project"
                           \/ Faulted /\ ledger[e].status \in {"received", "failed"}
<1>1. e \in BillingEvents
  BY Zenon DEF WebhookInv, HandlerKnows
<1>2. /\ Owns(h) => ledger[e].status = "received"
      /\ handlerAt[h] = "project" => ~Applied(e)
      /\ handlerAt[h] = "processed" => Applied(e)
      /\ handlerAt[h] = "failed" => Faulted
  BY Zenon, <1>1 DEF WebhookInv, HandlerKnows
<1>3. /\ Applied(e) => ledger[e].status # "absent"
      /\ ledger[e].status \in {"absent", "received"} => ledger[e].attempts = 0
      /\ ledger[e].status = "received" => Faulted \/ \E g \in Handlers : Owns(g) /\ carried[g] = e
      /\ ledger[e].status = "failed" => Faulted
  BY Zenon, <1>1 DEF WebhookInv, RowKnows
<1>4. /\ ledger[e].status = "processed" => Applied(e)
      /\ ledger[e].status \in BillingEventStatus /\ ledger[e].attempts \in Nat
  BY Zenon, <1>1 DEF WebhookInv, EventsAreHandledOnce, ProcessedWasApplied, WebhookTypeOK
<1>5. e \in acked => \/ Applied(e)
                     \/ \E g \in Handlers : carried[g] = e /\ handlerAt[g] = "project"
                     \/ Faulted /\ ledger[e].status \in {"received", "failed"}
  BY Zenon DEF WebhookInv, EventsAreHandledOnce, AckedIsHandled, Faulted
<1>. QED BY Zenon, <1>1, <1>2, <1>3, <1>4, <1>5

\* The requests after one of them is answered.
LEMMA AnsweredRequests ==
  ASSUME WebhookInv, NEW h \in Handlers, handlerAt[h] # "idle", NEW ok \in BOOLEAN, AnswerWebhook(h, ok)
  PROVE  /\ handlerAt' \in [Handlers -> {"idle", "insert", "project", "processed", "failed"}]
         /\ carried' \in [Handlers -> BillingEvents \cup {NoEvent}]
         /\ acked' \subseteq BillingEvents
         /\ handlerAt'[h] = "idle" /\ ~Owns(h)'
         /\ \A g \in Handlers \ {h} : handlerAt'[g] = handlerAt[g] /\ carried'[g] = carried[g]
         /\ \A x \in BillingEvents \ {carried[h]} : x \in acked' <=> x \in acked
         /\ carried[h] \in acked' => ok \/ carried[h] \in acked
<1>1. /\ handlerAt \in [Handlers -> {"idle", "insert", "project", "processed", "failed"}]
      /\ carried \in [Handlers -> BillingEvents \cup {NoEvent}] /\ acked \subseteq BillingEvents
      /\ carried[h] \in BillingEvents
  BY Zenon, CarriedEvent DEF WebhookInv, WebhookTypeOK
<1>. QED BY Zenon, <1>1 DEF AnswerWebhook, Owns

\* apply_event projects the event or fails, and the request goes on to mark it.
LEMMA ApplyEventStep ==
  ASSUME WebhookInv, NEW h \in Handlers, ApplyEvent(h)
  PROVE  WebhookInv'
<1>0. PICK e \in BillingEvents : e = carried[h]
  BY Zenon, CarriedEvent DEF ApplyEvent
<1>1. /\ handlerAt[h] = "project" /\ UNCHANGED <<effect, ledger, carried, acked>>
      /\ \/ NoWebhookFault /\ Project(e) /\ handlerAt' = [handlerAt EXCEPT ![h] = "processed"]
         \/ /\ WebhookFault("project") /\ handlerAt' = [handlerAt EXCEPT ![h] = "failed"]
            /\ Project(e) \/ UNCHANGED <<applied, entitled>>
  BY Zenon, <1>0 DEF ApplyEvent, HandlerGoes
<1>2. /\ e \in BillingEvents /\ ~Applied(e) /\ ledger[e].status = "received" /\ ledger[e].attempts = 0
      /\ Owns(h)
  BY Zenon, <1>0, <1>1, CarriedEvent DEF Owns
<1>3. /\ applied \in Seq(BillingEvents) /\ entitled \in BOOLEAN /\ effect \in [BillingEvents -> Effects]
      /\ webhookFaults \in Seq(WebhookFaults) /\ Len(webhookFaults) <= MaxWebhookFaults /\ AppliedOnce
      /\ handlerAt \in [Handlers -> {"idle", "insert", "project", "processed", "failed"}]
  BY Zenon DEF WebhookInv, WebhookTypeOK, EventsAreHandledOnce
<1>4. /\ applied' \in Seq(BillingEvents) /\ entitled' \in BOOLEAN /\ AppliedOnce'
      /\ \A x \in BillingEvents \ {e} : Applied(x)' <=> Applied(x)
      /\ Project(e) => Applied(e)'
  <2>1. CASE Project(e)
    BY Zenon, <1>2, <1>3, <2>1, ProjectStep
  <2>2. CASE ~Project(e) /\ UNCHANGED <<applied, entitled>>
    BY Zenon, <1>3, <2>2 DEF Applied, AppliedOnce
  <2>. QED BY Zenon, <1>1, <2>1, <2>2
<1>5. /\ webhookFaults' \in Seq(WebhookFaults) /\ Len(webhookFaults') <= MaxWebhookFaults
      /\ Faulted => Faulted'
      /\ WebhookFault("project") => Faulted'
  BY Zenon, <1>1, <1>3, FaultStep DEF NoWebhookFault, Faulted
<1>6. /\ handlerAt' \in [Handlers -> {"idle", "insert", "project", "processed", "failed"}]
      /\ \A g \in Handlers \ {h} : handlerAt'[g] = handlerAt[g]
      /\ \/ handlerAt'[h] = "processed" /\ Project(e)
         \/ handlerAt'[h] = "failed" /\ WebhookFault("project")
  BY Zenon, <1>1, <1>3
<1>7. WebhookTypeOK'
  BY Zenon, <1>1, <1>4, <1>5, <1>6 DEF WebhookInv, WebhookTypeOK
<1>8. handlerAt'[h] # "project" /\ Owns(h)' /\ (handlerAt'[h] = "processed" => Applied(e)')
      /\ (handlerAt'[h] = "failed" => Faulted')
  BY Zenon, <1>4, <1>5, <1>6 DEF Owns
<1>9. carried[h] = e /\ carried'[h] = e /\ ledger' = ledger /\ acked' = acked /\ carried' = carried
  BY Zenon, <1>0, <1>1
<1>10. StepApart(h, e)
  BY Zenon, <1>4, <1>5, <1>6, <1>9 DEF StepApart
<1>11. RequestAfter(h, e)
  BY Zenon, <1>2, <1>8, <1>9 DEF RequestAfter
<1>12. RowAfter(h, e)
  BY Zenon, <1>2, <1>8, <1>9 DEF RowAfter
<1>13. AckAfter(h, e)
  BY Zenon, <1>2, <1>6, <1>8, <1>9 DEF AckAfter
<1>. QED BY Zenon, <1>4, <1>7, <1>10, <1>11, <1>12, <1>13, OneEventStep

\* The rows, the projections and the faults, as a step that projects nothing
\* leaves them.
LEMMA UnprojectedStep ==
  ASSUME WebhookInv, UNCHANGED <<effect, applied, entitled>>, NEW kind,
         NoWebhookFault \/ WebhookFault(kind)
  PROVE  /\ applied' \in Seq(BillingEvents) /\ entitled' \in BOOLEAN
         /\ effect' \in [BillingEvents -> Effects] /\ AppliedOnce'
         /\ \A x \in BillingEvents : Applied(x)' <=> Applied(x)
         /\ webhookFaults' \in Seq(WebhookFaults) /\ Len(webhookFaults') <= MaxWebhookFaults
         /\ Faulted => Faulted'
         /\ WebhookFault(kind) => Faulted'
<1>1. /\ applied \in Seq(BillingEvents) /\ entitled \in BOOLEAN /\ effect \in [BillingEvents -> Effects]
      /\ webhookFaults \in Seq(WebhookFaults) /\ Len(webhookFaults) <= MaxWebhookFaults /\ AppliedOnce
  BY Zenon DEF WebhookInv, WebhookTypeOK, EventsAreHandledOnce
<1>2. AppliedOnce' /\ \A x \in BillingEvents : Applied(x)' <=> Applied(x)
  BY Zenon, <1>1 DEF AppliedOnce, Applied
<1>3. /\ webhookFaults' \in Seq(WebhookFaults) /\ Len(webhookFaults') <= MaxWebhookFaults
      /\ Faulted => Faulted'
      /\ WebhookFault(kind) => Faulted'
  BY Zenon, <1>1, FaultStep DEF NoWebhookFault, Faulted
<1>. QED BY Zenon, <1>1, <1>2, <1>3

\* The insert takes the event, finds it known, or fails.
LEMMA RecordEventStep ==
  ASSUME WebhookInv, NEW h \in Handlers, RecordEvent(h)
  PROVE  WebhookInv'
<1>1. PICK e \in BillingEvents : e = carried[h]
  BY Zenon, CarriedEvent DEF RecordEvent
<1>. DEFINE row == [status |-> "received", attempts |-> 0]
            Taken == ledger[e].status = "absent" /\ ledger' = [ledger EXCEPT ![e] = row]
<1>2. /\ handlerAt[h] = "insert" /\ UNCHANGED <<effect, applied, entitled>>
      /\ \/ NoWebhookFault /\ Taken /\ HandlerGoes(h, "project")
         \/ NoWebhookFault /\ ledger[e].status # "absent" /\ ledger' = ledger /\ AnswerWebhook(h, TRUE)
         \/ WebhookFault("insert") /\ (ledger' = ledger \/ Taken) /\ AnswerWebhook(h, FALSE)
  BY Zenon, <1>1 DEF RecordEvent
<1>3. /\ applied' \in Seq(BillingEvents) /\ entitled' \in BOOLEAN
      /\ effect' \in [BillingEvents -> Effects] /\ AppliedOnce'
      /\ \A x \in BillingEvents : Applied(x)' <=> Applied(x)
      /\ webhookFaults' \in Seq(WebhookFaults) /\ Len(webhookFaults') <= MaxWebhookFaults
      /\ Faulted => Faulted'
      /\ WebhookFault("insert") => Faulted'
  BY Zenon, <1>2, UnprojectedStep
<1>4. /\ ledger' \in [BillingEvents -> [status : BillingEventStatus, attempts : Nat]]
      /\ \A x \in BillingEvents \ {e} : ledger'[x] = ledger[x]
      /\ Taken => ledger'[e].status = "received" /\ ledger'[e].attempts = 0
  <2>1. row \in [status : BillingEventStatus, attempts : Nat]
    BY DEF BillingEventStatus
  <2>2. ledger \in [BillingEvents -> [status : BillingEventStatus, attempts : Nat]]
    BY Zenon DEF WebhookInv, WebhookTypeOK
  <2>3. CASE ledger' = ledger /\ ~Taken
    BY Zenon, <2>2, <2>3
  <2>4. CASE Taken
    BY Zenon, <2>1, <2>2, <2>4
  <2>. QED BY Zenon, <1>2, <2>3, <2>4
<1>5. /\ Applied(e) => ledger[e].status # "absent"
      /\ ledger[e].status \in {"absent", "received"} => ledger[e].attempts = 0
      /\ ledger[e].status = "received" => Faulted \/ \E g \in Handlers : Owns(g) /\ carried[g] = e
      /\ ledger[e].status = "failed" => Faulted
      /\ ledger[e].status = "processed" => Applied(e)
      /\ ledger[e].status \in BillingEventStatus
      /\ e \in acked => \/ Applied(e)
                        \/ \E g \in Handlers : carried[g] = e /\ handlerAt[g] = "project"
                        \/ Faulted /\ ledger[e].status \in {"received", "failed"}
  BY <1>1, <1>2, CarriedEvent
<1>6. ~Owns(h) /\ handlerAt[h] # "idle" /\ handlerAt[h] # "project"
  BY Zenon, <1>2 DEF Owns
<1>. HIDE DEF Taken
<1>7. CASE HandlerGoes(h, "project") /\ Taken
  <2>1. /\ handlerAt' = [handlerAt EXCEPT ![h] = "project"] /\ carried' = carried /\ acked' = acked
    BY Zenon, <1>7 DEF HandlerGoes
  <2>2. WebhookTypeOK'
    BY Zenon, <1>3, <1>4, <2>1 DEF WebhookInv, WebhookTypeOK
  <2>3. handlerAt'[h] = "project" /\ \A g \in Handlers \ {h} : handlerAt'[g] = handlerAt[g]
    BY Zenon, <2>1 DEF WebhookInv, WebhookTypeOK
  <2>4. ledger[e].status = "absent" /\ Owns(h)'
    BY Zenon, <1>7, <2>3 DEF Taken, Owns
  <2>5. StepApart(h, e)
    BY Zenon, <1>1, <1>3, <1>4, <2>1, <2>3 DEF StepApart
  <2>6. RequestAfter(h, e)
    BY Zenon, <1>3, <1>4, <1>5, <1>7, <2>3, <2>4 DEF RequestAfter
  <2>7. RowAfter(h, e)
    BY Zenon, <1>3, <1>4, <1>5, <1>7, <2>4 DEF RowAfter
  <2>8. AckAfter(h, e)
    BY Zenon, <2>3 DEF AckAfter
  <2>. QED BY Zenon, <1>3, <2>2, <2>5, <2>6, <2>7, <2>8, OneEventStep
<1>8. ASSUME NEW ok \in BOOLEAN, AnswerWebhook(h, ok),
             ok => ledger[e].status # "absent" /\ ledger' = ledger /\ NoWebhookFault,
             ~ok => (ledger' = ledger \/ Taken) /\ WebhookFault("insert")
      PROVE  WebhookInv'
  <2>1. /\ handlerAt' \in [Handlers -> {"idle", "insert", "project", "processed", "failed"}]
        /\ carried' \in [Handlers -> BillingEvents \cup {NoEvent}]
        /\ acked' \subseteq BillingEvents
        /\ handlerAt'[h] = "idle" /\ ~Owns(h)'
        /\ \A g \in Handlers \ {h} : handlerAt'[g] = handlerAt[g] /\ carried'[g] = carried[g]
        /\ \A x \in BillingEvents \ {e} : x \in acked' <=> x \in acked
        /\ e \in acked' => ok \/ e \in acked
    BY Zenon, <1>1, <1>6, <1>8, AnsweredRequests
  <2>2. WebhookTypeOK'
    BY Zenon, <1>3, <1>4, <2>1 DEF WebhookTypeOK
  <2>3. ledger' = ledger \/ Taken
    BY Zenon, <1>8
  <2>4. ledger'[e].status = "absent" => ledger' = ledger
    BY Zenon, <1>4, <2>3
  <2>5. /\ ledger'[e].status \in {"absent", "received"} => ledger'[e].attempts = 0
        /\ ledger'[e].status = "received" => Faulted' \/ ledger[e].status = "received"
        /\ ledger'[e].status = "failed" => Faulted'
        /\ ledger'[e].status = "processed" => Applied(e)'
        /\ Applied(e)' => ledger'[e].status # "absent"
        /\ ledger[e].status = "absent" \/ ledger' = ledger
    BY Zenon, <1>3, <1>4, <1>5, <1>8, <2>3 DEF Taken
  <2>6. ledger[e].status \in {"received", "failed", "processed"} =>
          \/ Applied(e)
          \/ \E g \in Handlers \ {h} : carried[g] = e /\ handlerAt[g] = "project"
          \/ Faulted /\ ledger[e].status \in {"received", "failed"}
    <3>1. ASSUME NEW g \in Handlers, Owns(g), carried[g] = e
          PROVE  g # h /\ (handlerAt[g] = "project" \/ Applied(e) \/ Faulted)
      <4>1. g # h /\ handlerAt[g] # "idle"
        BY Zenon, <1>6, <3>1 DEF Owns
      <4>. QED BY Zenon, <3>1, <4>1, CarriedEvent DEF Owns
    <3>. QED BY Zenon, <1>5, <3>1
  <2>7. e \in acked' =>
          \/ Applied(e)' \/ handlerAt'[h] = "project"
          \/ \E g \in Handlers \ {h} : carried[g] = e /\ handlerAt[g] = "project"
          \/ Faulted' /\ ledger'[e].status \in {"received", "failed"}
    <3>1. CASE ok
      BY Zenon, <1>3, <1>5, <1>8, <2>6, <3>1 DEF BillingEventStatus
    <3>2. CASE ~ok /\ e \in acked
      BY Zenon, <1>3, <1>4, <1>5, <1>6, <1>8, <3>2 DEF Taken
    <3>. QED BY Zenon, <2>1, <3>1, <3>2
  <2>8. StepApart(h, e)
    BY Zenon, <1>1, <1>3, <1>4, <2>1 DEF StepApart
  <2>9. RequestAfter(h, e)
    BY Zenon, <2>1 DEF RequestAfter
  <2>10. RowAfter(h, e)
    BY Zenon, <1>3, <1>6, <2>1, <2>5 DEF RowAfter
  <2>11. AckAfter(h, e)
    BY Zenon, <2>7 DEF AckAfter
  <2>. QED BY Zenon, <1>3, <2>2, <2>8, <2>9, <2>10, <2>11, OneEventStep
<1>. QED BY Zenon, <1>2, <1>7, <1>8

\* mark_processed and mark_failed write the row of the request's event.
LEMMA MarkEventStep ==
  ASSUME WebhookInv, NEW h \in Handlers, NEW status \in {"processed", "failed"}, MarkEvent(h, status)
  PROVE  WebhookInv'
<1>1. handlerAt[h] = status /\ handlerAt[h] # "idle" /\ Owns(h)
  BY Zenon DEF MarkEvent, Owns
<1>2. PICK e \in BillingEvents : e = carried[h]
  BY Zenon, <1>1, CarriedEvent
<1>3. /\ ledger[e].status = "received" /\ ledger[e].attempts = 0
      /\ status = "processed" => Applied(e)
      /\ status = "failed" => Faulted
      /\ e \in acked => \/ Applied(e)
                        \/ \E g \in Handlers : carried[g] = e /\ handlerAt[g] = "project"
                        \/ Faulted /\ ledger[e].status \in {"received", "failed"}
  BY Zenon, <1>1, <1>2, CarriedEvent
<1>. DEFINE row == [status |-> status, attempts |-> ledger[e].attempts + 1]
            Marked == ledger' = [ledger EXCEPT ![e] = row]
<1>4. /\ UNCHANGED <<effect, applied, entitled>>
      /\ \/ NoWebhookFault /\ Marked /\ AnswerWebhook(h, status = "processed")
         \/ WebhookFault("mark") /\ (ledger' = ledger \/ Marked) /\ AnswerWebhook(h, FALSE)
  BY Zenon, <1>2 DEF MarkEvent
<1>5. /\ applied' \in Seq(BillingEvents) /\ entitled' \in BOOLEAN
      /\ effect' \in [BillingEvents -> Effects] /\ AppliedOnce'
      /\ \A x \in BillingEvents : Applied(x)' <=> Applied(x)
      /\ webhookFaults' \in Seq(WebhookFaults) /\ Len(webhookFaults') <= MaxWebhookFaults
      /\ Faulted => Faulted'
      /\ WebhookFault("mark") => Faulted'
  BY Zenon, <1>4, UnprojectedStep
<1>6. /\ ledger' \in [BillingEvents -> [status : BillingEventStatus, attempts : Nat]]
      /\ \A x \in BillingEvents \ {e} : ledger'[x] = ledger[x]
      /\ Marked => ledger'[e].status = status
      /\ Marked \/ ledger' = ledger
  <2>1. row \in [status : BillingEventStatus, attempts : Nat]
    BY <1>3 DEF BillingEventStatus
  <2>2. ledger \in [BillingEvents -> [status : BillingEventStatus, attempts : Nat]]
    BY Zenon DEF WebhookInv, WebhookTypeOK
  <2>3. CASE ledger' = ledger /\ ~Marked
    BY Zenon, <2>2, <2>3
  <2>4. CASE Marked
    BY Zenon, <2>1, <2>2, <2>4
  <2>. QED BY Zenon, <1>4, <2>3, <2>4
<1>7. PICK ok \in BOOLEAN :
        /\ AnswerWebhook(h, ok)
        /\ ok => status = "processed"
        /\ ~Marked => Faulted'
  BY Zenon, <1>4, <1>5
<1>. HIDE DEF Marked
<1>8. /\ handlerAt' \in [Handlers -> {"idle", "insert", "project", "processed", "failed"}]
      /\ carried' \in [Handlers -> BillingEvents \cup {NoEvent}]
      /\ acked' \subseteq BillingEvents
      /\ handlerAt'[h] = "idle" /\ ~Owns(h)'
      /\ \A g \in Handlers \ {h} : handlerAt'[g] = handlerAt[g] /\ carried'[g] = carried[g]
      /\ \A x \in BillingEvents \ {e} : x \in acked' <=> x \in acked
      /\ e \in acked' => ok \/ e \in acked
  BY Zenon, <1>1, <1>2, <1>7, AnsweredRequests
<1>9. WebhookTypeOK'
  BY Zenon, <1>5, <1>6, <1>8 DEF WebhookTypeOK
<1>10. \/ ledger'[e].status = status
       \/ ledger'[e].status = "received" /\ ledger'[e].attempts = 0 /\ Faulted'
  BY Zenon, <1>3, <1>6, <1>7
<1>11. status = "failed" => Faulted'
  BY Zenon, <1>3, <1>5
<1>12. (Applied(e)' \/ Faulted') /\ (status = "processed" => Applied(e)')
  BY Zenon, <1>3, <1>5
<1>13. StepApart(h, e)
  BY Zenon, <1>2, <1>5, <1>6, <1>8 DEF StepApart
<1>14. RequestAfter(h, e)
  BY Zenon, <1>8 DEF RequestAfter
<1>15. RowAfter(h, e)
  BY Zenon, <1>1, <1>3, <1>5, <1>10, <1>11 DEF RowAfter
<1>16. AckAfter(h, e)
  BY Zenon, <1>10, <1>12 DEF AckAfter
<1>. QED BY Zenon, <1>5, <1>9, <1>13, <1>14, <1>15, <1>16, OneEventStep

\* A dropped request leaves its row as it is.
LEMMA DropRequestStep ==
  ASSUME WebhookInv, NEW h \in Handlers, DropRequest(h)
  PROVE  WebhookInv'
<1>1. /\ handlerAt[h] # "idle" /\ WebhookFault("drop") /\ AnswerWebhook(h, FALSE)
      /\ UNCHANGED <<effect, ledger, applied, entitled>>
  BY Zenon DEF DropRequest
<1>2. PICK e \in BillingEvents : e = carried[h]
  BY Zenon, <1>1, CarriedEvent
<1>3. /\ Applied(e) => ledger[e].status # "absent"
      /\ ledger[e].status \in {"absent", "received"} => ledger[e].attempts = 0
      /\ ledger[e].status = "processed" => Applied(e)
      /\ e \in acked => \/ Applied(e)
                        \/ \E g \in Handlers : carried[g] = e /\ handlerAt[g] = "project"
                        \/ Faulted /\ ledger[e].status \in {"received", "failed"}
      /\ handlerAt[h] = "project" => ledger[e].status = "received"
  BY <1>1, <1>2, CarriedEvent DEF Owns
<1>4. /\ applied' \in Seq(BillingEvents) /\ entitled' \in BOOLEAN
      /\ effect' \in [BillingEvents -> Effects] /\ AppliedOnce'
      /\ \A x \in BillingEvents : Applied(x)' <=> Applied(x)
      /\ webhookFaults' \in Seq(WebhookFaults) /\ Len(webhookFaults') <= MaxWebhookFaults
      /\ Faulted'
  BY Zenon, <1>1, UnprojectedStep
<1>5. /\ handlerAt' \in [Handlers -> {"idle", "insert", "project", "processed", "failed"}]
      /\ carried' \in [Handlers -> BillingEvents \cup {NoEvent}]
      /\ acked' \subseteq BillingEvents
      /\ handlerAt'[h] = "idle" /\ ~Owns(h)'
      /\ \A g \in Handlers \ {h} : handlerAt'[g] = handlerAt[g] /\ carried'[g] = carried[g]
      /\ \A x \in BillingEvents \ {e} : x \in acked' <=> x \in acked
      /\ e \in acked' => e \in acked
  BY Zenon, <1>1, <1>2, AnsweredRequests
<1>6. WebhookTypeOK'
  BY Zenon, <1>1, <1>4, <1>5 DEF WebhookInv, WebhookTypeOK
<1>7. StepApart(h, e)
  BY Zenon, <1>1, <1>2, <1>4, <1>5 DEF StepApart
<1>8. RequestAfter(h, e)
  BY Zenon, <1>5 DEF RequestAfter
<1>9. RowAfter(h, e)
  BY Zenon, <1>1, <1>3, <1>4 DEF RowAfter
<1>10. AckAfter(h, e)
  BY Zenon, <1>1, <1>3, <1>4, <1>5 DEF AckAfter
<1>. QED BY Zenon, <1>4, <1>6, <1>7, <1>8, <1>9, <1>10, OneEventStep

\* Every step of the provider and of the requests keeps the invariant.
LEMMA WebhookStep == WebhookInv /\ [WebhookNext]_webhookVars => WebhookInv'
<1>. SUFFICES ASSUME WebhookInv, [WebhookNext]_webhookVars PROVE WebhookInv'
  BY Zenon
<1>1. CASE UNCHANGED webhookVars
  BY <1>1 DEF webhookVars, WebhookInv, WebhookTypeOK, HandlerKnows, OneOwner, RowKnows, Owns, Faulted,
              EventsAreHandledOnce, AppliedOnce, ProcessedWasApplied, AckedIsHandled, Applied
<1>2. ASSUME NEW h \in Handlers, RecordEvent(h) PROVE WebhookInv'
  BY Zenon, <1>2, RecordEventStep
<1>3. ASSUME NEW h \in Handlers, ApplyEvent(h) PROVE WebhookInv'
  BY Zenon, <1>3, ApplyEventStep
<1>4. ASSUME NEW h \in Handlers, MarkEvent(h, "processed") \/ MarkEvent(h, "failed") PROVE WebhookInv'
  BY Zenon, <1>4, MarkEventStep
<1>5. ASSUME NEW h \in Handlers, DropRequest(h) PROVE WebhookInv'
  BY Zenon, <1>5, DropRequestStep
<1>6. ASSUME NEW h \in Handlers, NEW e \in BillingEvents, DeliverEvent(h, e) PROVE WebhookInv'
  BY Zenon, <1>6, DeliverEventStep
<1>. QED BY Zenon, <1>1, <1>2, <1>3, <1>4, <1>5, <1>6 DEF WebhookNext, HandlerStep

\* For any number of events, requests in flight and failures, in any order of
\* delivery: an event is projected at most once, a processed row and a 200 stand
\* for a projection, or for a failure the ledger still shows.
THEOREM BillingCorrect == WebhookSpec => [](WebhookTypeOK /\ EventsAreHandledOnce)
<1>1. WebhookInit => WebhookInv
  <2>. SUFFICES ASSUME WebhookInit PROVE WebhookInv
    BY Zenon
  <2>1. WebhookTypeOK
    <3>1. ledger \in [BillingEvents -> [status : BillingEventStatus, attempts : Nat]]
      BY DEF WebhookInit, NoRecord, BillingEventStatus
    <3>2. webhookFaults \in Seq(WebhookFaults) /\ Len(webhookFaults) <= MaxWebhookFaults
      BY WebhookFaultsAssumption DEF WebhookInit
    <3>4. entitled \in BOOLEAN
      BY Zenon DEF WebhookInit
    <3>3. /\ applied \in Seq(BillingEvents) /\ acked \subseteq BillingEvents
          /\ handlerAt \in [Handlers -> {"idle", "insert", "project", "processed", "failed"}]
          /\ carried \in [Handlers -> BillingEvents \cup {NoEvent}]
      BY DEF WebhookInit
    <3>. QED BY Zenon, <3>1, <3>2, <3>3, <3>4 DEF WebhookInit, WebhookTypeOK
  <2>2. (\A e \in BillingEvents : ~Applied(e)) /\ AppliedOnce
    BY DEF WebhookInit, Applied, AppliedOnce
  <2>3. /\ \A h \in Handlers : handlerAt[h] = "idle" /\ ~Owns(h)
        /\ \A e \in BillingEvents : ledger[e].status = "absent" /\ ledger[e].attempts = 0
        /\ acked = {}
    BY Zenon DEF WebhookInit, NoRecord, Owns
  <2>. QED BY Zenon, <2>1, <2>2, <2>3 DEF WebhookInv, HandlerKnows, OneOwner, RowKnows, EventsAreHandledOnce,
                                   ProcessedWasApplied, AckedIsHandled
<1>2. WebhookInv => WebhookTypeOK /\ EventsAreHandledOnce
  BY Zenon DEF WebhookInv
<1>. QED BY <1>1, <1>2, WebhookStep, PTL DEF WebhookSpec

-----------------------------------------------------------------------------
(* Guarded calls. *)

Outcomes == {"none", "Denied", "Succeeded", "Failed", "NotFound"}
EarlySteps == {"new", "entitle", "tools", "prompt", "route", "reserve"}
GuardedCalls ==
  [kind : {"none", "ai", "bot", "admin"},
   step : EarlySteps \cup {"perform", "meter", "commit", "release", "record", "returned"},
   outcome : Outcomes, did : BOOLEAN]

RecordsOf(i) == {r \in traces \cup audit : r[1] = i}
MeterOf(i) == {u \in meter : u[1] = i}
Metered(i) == \E spent \in Nat : MeterOf(i) = {<<i, spent>>}

\* A call that has only its record left to write holds no quota, and an AI
\* invocation that succeeded is metered and charged.
Concluded(i) ==
  /\ reservations[i] # "Reserved"
  /\ Kind(i) = "ai" /\ call[i].did => Metered(i) /\ reservations[i] = "Committed"

\* What a call has reserved, metered and recorded at each of its steps.
Accounted(i) ==
  LET c == call[i]
      r == reservations[i] IN
  /\ (c.outcome = "Succeeded") <=> c.did
  /\ RecordsOf(i) \subseteq {<<i, c.outcome>>}
  /\ c.step # "returned" => RecordsOf(i) = {} /\ i \notin ended
  /\ r = "Committed" => c.did
  /\ r = "Released" => ~c.did
  /\ MeterOf(i) # {} => c.did
  /\ c.step \in EarlySteps => r = "None" /\ ~c.did
  /\ c.step = "perform" => ~c.did /\ r = (IF c.kind = "admin" THEN "None" ELSE "Reserved")
  /\ c.step = "meter" => c.did /\ r = "Reserved" /\ MeterOf(i) = {}
  /\ c.step = "commit" => c.did /\ r = "Reserved" /\ (c.kind = "ai" => Metered(i))
  /\ c.step = "release" => ~c.did /\ r = "Reserved"
  /\ c.step = "record" => Concluded(i)
  /\ c.step = "returned" /\ i \notin ended =>
       \/ Concluded(i) /\ RecordsOf(i) # {}
       \/ r = "None" /\ ~c.did /\ (c.outcome = "NotFound" \/ (c.kind = "bot" /\ "bot" \notin enabled))

CommittedReservations == {i \in CallIds : reservations[i] = "Committed"}

GuardedTypes ==
  /\ reservations \in [CallIds -> QuotaReservationStatus]
  /\ call \in [CallIds -> GuardedCalls]
  /\ meter \subseteq CallIds \X Nat
  /\ traces \subseteq CallIds \X Outcomes /\ audit \subseteq CallIds \X Outcomes
  /\ ended \subseteq CallIds

\* The ledger's books: what is committed is used, and with what is reserved it is
\* within the largest limit.
Booked ==
  /\ used \in Nat /\ limit.now \in Nat /\ limit.max \in Nat /\ limit.now <= limit.max
  /\ used = TotalQuantity(CommittedReservations)
  /\ used + TotalQuantity(OpenReservations) <= limit.max

GuardedInv == GuardedTypes /\ Booked /\ \A i \in CallIds : Accounted(i)

\* Reservations add up: one more is its quantity more, and a step that changes
\* no call's kind changes no sum.
LEMMA TotalFact ==
  ASSUME NEW S \in SUBSET CallIds
  PROVE  /\ TotalQuantity(S) \in Nat
         /\ \A i \in CallIds \ S : TotalQuantity(S \cup {i}) = TotalQuantity(S) + Quantity(i)
<1>0. MaxTokens \in Nat /\ QuotaQuantity \in Nat
  BY Zenon, GuardedBounds
<1>. DEFINE A == {j \in S : Kind(j) = "ai"}
            B == {j \in S : Kind(j) # "ai"}
<1>1. IsFiniteSet(A) /\ IsFiniteSet(B)
  <2>1. IsFiniteSet(CallIds)
    BY FS_Interval, GuardedBounds DEF CallIds
  <2>. QED
    BY Zenon, <2>1, FS_Subset
<1>2. Cardinality(A) \in Nat /\ Cardinality(B) \in Nat
  BY Zenon, <1>1, FS_CardinalityType
<1>3. TotalQuantity(S) = MaxTokens * Cardinality(A) + QuotaQuantity * Cardinality(B)
  BY Zenon DEF TotalQuantity
<1>. HIDE DEF A, B
<1>4. TotalQuantity(S) \in Nat
  BY <1>0, <1>2, <1>3
<1>5. ASSUME NEW i \in CallIds \ S
      PROVE  TotalQuantity(S \cup {i}) = TotalQuantity(S) + Quantity(i)
  <2>1. CASE Kind(i) = "ai"
    <3>1. {j \in S \cup {i} : Kind(j) = "ai"} = A \cup {i} /\ {j \in S \cup {i} : Kind(j) # "ai"} = B /\ i \notin A
      BY Zenon, <2>1 DEF A, B
    <3>2. Cardinality(A \cup {i}) = Cardinality(A) + 1
      BY Zenon, <1>1, <3>1, FS_AddElement
    <3>3. TotalQuantity(S \cup {i}) = MaxTokens * (Cardinality(A) + 1) + QuotaQuantity * Cardinality(B)
      BY Zenon, <3>1, <3>2 DEF TotalQuantity
    <3>4. MaxTokens * (Cardinality(A) + 1) = MaxTokens * Cardinality(A) + MaxTokens
      BY <1>0, <1>2
    <3>5. Quantity(i) = MaxTokens
      BY Zenon, <2>1 DEF Quantity
    <3>6. MaxTokens * Cardinality(A) \in Nat /\ QuotaQuantity * Cardinality(B) \in Nat
      BY <1>0, <1>2
    <3>. QED
      BY <1>0, <1>3, <3>3, <3>4, <3>5, <3>6
  <2>2. CASE Kind(i) # "ai"
    <3>1. {j \in S \cup {i} : Kind(j) # "ai"} = B \cup {i} /\ {j \in S \cup {i} : Kind(j) = "ai"} = A /\ i \notin B
      BY <2>2 DEF A, B
    <3>2. Cardinality(B \cup {i}) = Cardinality(B) + 1
      BY Zenon, <1>1, <3>1, FS_AddElement
    <3>3. TotalQuantity(S \cup {i}) = MaxTokens * Cardinality(A) + QuotaQuantity * (Cardinality(B) + 1)
      BY Zenon, <3>1, <3>2 DEF TotalQuantity
    <3>4. QuotaQuantity * (Cardinality(B) + 1) = QuotaQuantity * Cardinality(B) + QuotaQuantity
      BY <1>0, <1>2
    <3>5. Quantity(i) = QuotaQuantity
      BY Zenon, <2>2 DEF Quantity
    <3>6. MaxTokens * Cardinality(A) \in Nat /\ QuotaQuantity * Cardinality(B) \in Nat
      BY <1>0, <1>2
    <3>. QED
      BY <1>0, <1>3, <3>3, <3>4, <3>5, <3>6
  <2>. QED
    BY Zenon, <2>1, <2>2
<1>. QED
  BY Zenon, <1>4, <1>5

\* A step that keeps the kinds of a set of calls keeps their sum.
LEMMA TotalKept ==
  ASSUME NEW S, \A j \in S : Kind(j)' = Kind(j)
  PROVE  TotalQuantity(S)' = TotalQuantity(S)
<1>1. {j \in S : Kind(j)' = "ai"} = {j \in S : Kind(j) = "ai"} /\ {j \in S : Kind(j)' # "ai"} = {j \in S : Kind(j) # "ai"}
  BY Zenon
<1>. QED
  BY Zenon, <1>1 DEF TotalQuantity

\* A step of call i: the others keep their state, their reservation, their
\* records and their usage.
StepOf(i) ==
  /\ GuardedTypes' /\ enabled' = enabled
  /\ \A j \in CallIds \ {i} :
       /\ call'[j] = call[j] /\ reservations'[j] = reservations[j]
       /\ RecordsOf(j)' = RecordsOf(j) /\ MeterOf(j)' = MeterOf(j)
       /\ j \in ended' <=> j \in ended

\* A call whose state, reservation, records and usage a step keeps.
LEMMA SameAccount ==
  ASSUME NEW j \in CallIds, Accounted(j),
         call'[j] = call[j], reservations'[j] = reservations[j], enabled' = enabled,
         RecordsOf(j)' = RecordsOf(j), MeterOf(j)' = MeterOf(j), j \in ended' <=> j \in ended
  PROVE  Accounted(j)'
<1>1. Concluded(j)' <=> Concluded(j)
  BY Zenon DEF Concluded, Metered, Kind
<1>2. Metered(j)' <=> Metered(j)
  BY Zenon DEF Metered
<1>. QED
  BY Zenon, <1>1, <1>2 DEF Accounted

\* A step of one call leaves the accounts of the others.
LEMMA OthersAccounted ==
  ASSUME NEW i \in CallIds, StepOf(i), \A j \in CallIds : Accounted(j), Accounted(i)'
  PROVE  \A j \in CallIds : Accounted(j)'
BY Zenon, SameAccount DEF StepOf

\* The books are not touched by a step that leaves the ledger alone and keeps
\* the kind of every call with a reservation.
LEMMA BooksKept ==
  ASSUME Booked, limit' = limit, used' = used, reservations' = reservations,
         \A j \in CallIds : reservations[j] # "None" => Kind(j)' = Kind(j)
  PROVE  Booked'
<1>. PICK C : C = CommittedReservations
  BY Zenon
<1>. PICK O : O = OpenReservations
  BY Zenon
<1>1. CommittedReservations' = C /\ OpenReservations' = O
  BY Zenon DEF CommittedReservations, OpenReservations
<1>2. \A j \in C \cup O : Kind(j)' = Kind(j)
  BY Zenon DEF CommittedReservations, OpenReservations
<1>3. TotalQuantity(C)' = TotalQuantity(C) /\ TotalQuantity(O)' = TotalQuantity(O)
  BY Zenon, <1>2, TotalKept
<1>4. TotalQuantity(CommittedReservations)' = TotalQuantity(C)'
  BY Zenon, <1>1 DEF TotalQuantity
<1>5. TotalQuantity(OpenReservations)' = TotalQuantity(O)'
  BY Zenon, <1>1 DEF TotalQuantity
<1>. QED
  BY Zenon, <1>3, <1>4, <1>5 DEF Booked

\* reserve, commit and release move one reservation between the books.
LEMMA BooksMoved ==
  ASSUME GuardedTypes, Booked, NEW i \in CallIds, NEW status \in QuotaReservationStatus,
         reservations' = [reservations EXCEPT ![i] = status], limit' = limit,
         \A j \in CallIds : Kind(j)' = Kind(j),
         \/ reservations[i] = "None" /\ status = "Reserved" /\ Fits(i) /\ used' = used
         \/ reservations[i] = "Reserved" /\ status = "Committed" /\ used' = used + Quantity(i)
         \/ reservations[i] = "Reserved" /\ status = "Released" /\ used' = used
  PROVE  Booked'
<1>. PICK C : C = CommittedReservations
  BY Zenon
<1>. PICK O : O = OpenReservations
  BY Zenon
<1>. PICK D : D = CommittedReservations'
  BY Zenon
<1>. PICK P : P = OpenReservations'
  BY Zenon
<1>0. /\ C \in SUBSET CallIds /\ O \in SUBSET CallIds /\ D \in SUBSET CallIds /\ P \in SUBSET CallIds
      /\ reservations \in [CallIds -> QuotaReservationStatus]
  BY Zenon DEF CommittedReservations, OpenReservations, GuardedTypes
<1>1. TotalQuantity(D)' = TotalQuantity(D) /\ TotalQuantity(P)' = TotalQuantity(P)
  BY Zenon, <1>0, TotalKept
<1>2. TotalQuantity(CommittedReservations)' = TotalQuantity(D)
  BY Zenon, <1>1 DEF TotalQuantity
<1>3. TotalQuantity(OpenReservations)' = TotalQuantity(P)
  BY Zenon, <1>1 DEF TotalQuantity
<1>4. /\ \A j \in CallIds : j \in C <=> reservations[j] = "Committed"
      /\ \A j \in CallIds : j \in O <=> reservations[j] = "Reserved"
      /\ \A j \in CallIds : j \in D <=> reservations'[j] = "Committed"
      /\ \A j \in CallIds : j \in P <=> reservations'[j] = "Reserved"
      /\ reservations'[i] = status
      /\ \A j \in CallIds : j # i => reservations'[j] = reservations[j]
  BY Zenon, <1>0 DEF CommittedReservations, OpenReservations
<1>5. /\ used \in Nat /\ limit.now \in Nat /\ limit.max \in Nat /\ limit.now <= limit.max
      /\ used = TotalQuantity(C) /\ used + TotalQuantity(O) <= limit.max
  BY Zenon DEF Booked
<1>6. TotalQuantity(C) \in Nat /\ TotalQuantity(O) \in Nat /\ TotalQuantity(D) \in Nat /\ TotalQuantity(P) \in Nat
  BY Zenon, <1>0, TotalFact
<1>7. Quantity(i) \in Nat
  BY Zenon, GuardedBounds DEF Quantity
<1>8. CASE reservations[i] = "None" /\ status = "Reserved" /\ Fits(i) /\ used' = used
  <2>1. D = C /\ P = O \cup {i} /\ i \notin O
    BY Zenon, <1>0, <1>4, <1>8
  <2>2. TotalQuantity(P) = TotalQuantity(O) + Quantity(i)
    BY Zenon, <1>0, <2>1, TotalFact
  <2>3. used + TotalQuantity(O) + Quantity(i) <= limit.now
    BY Zenon, <1>8 DEF Fits
  <2>4. used + TotalQuantity(P) <= limit.max
    BY <1>5, <1>6, <1>7, <2>2, <2>3
  <2>. QED
    BY Zenon, <1>2, <1>3, <1>5, <1>8, <2>1, <2>4 DEF Booked
<1>9. CASE reservations[i] = "Reserved" /\ status # "Reserved"
  <2>1. O = P \cup {i} /\ i \notin P
    BY <1>0, <1>4, <1>9
  <2>2. TotalQuantity(O) = TotalQuantity(P) + Quantity(i)
    BY Zenon, <1>0, <2>1, TotalFact
  <2>3. CASE status = "Committed" /\ used' = used + Quantity(i)
    <3>1. D = C \cup {i} /\ i \notin C
      BY <1>0, <1>4, <1>9, <2>3
    <3>2. TotalQuantity(D) = TotalQuantity(C) + Quantity(i)
      BY Zenon, <1>0, <3>1, TotalFact
    <3>3. used' \in Nat /\ used' = TotalQuantity(D) /\ used' + TotalQuantity(P) <= limit.max
      BY <1>5, <1>6, <1>7, <2>2, <2>3, <3>2
    <3>. QED
      BY Zenon, <1>2, <1>3, <1>5, <3>3 DEF Booked
  <2>4. CASE status = "Released" /\ used' = used
    <3>1. D = C
      BY Zenon, <1>0, <1>4, <1>9, <2>4
    <3>2. used + TotalQuantity(P) <= limit.max
      BY <1>5, <1>6, <1>7, <2>2
    <3>. QED
      BY Zenon, <1>2, <1>3, <1>5, <2>4, <3>1, <3>2 DEF Booked
  <2>. QED
    BY Zenon, <1>9, <2>3, <2>4
<1>. QED
  BY Zenon, <1>8, <1>9

\* The call's state after a step; the other calls' is the same.
Becomes(i, c) ==
  /\ call' \in [CallIds -> GuardedCalls] /\ call'[i] = c
  /\ \A j \in CallIds \ {i} : call'[j] = call[j]

\* A call with one field replaced.
LEMMA CallFields ==
  ASSUME NEW c \in GuardedCalls, NEW x
  PROVE  /\ [c EXCEPT !.step = x] = [kind |-> c.kind, step |-> x, outcome |-> c.outcome, did |-> c.did]
         /\ [c EXCEPT !.outcome = x] = [kind |-> c.kind, step |-> c.step, outcome |-> x, did |-> c.did]
         /\ [c EXCEPT !.did = x] = [kind |-> c.kind, step |-> c.step, outcome |-> c.outcome, did |-> x]
BY DEF GuardedCalls

\* The call after each kind of step: a new call, a new step, a new step and
\* outcome, or the use case done.
LEMMA BecomesFact ==
  ASSUME GuardedTypes, NEW i \in CallIds
  PROVE  /\ \A c \in GuardedCalls : call' = [call EXCEPT ![i] = c] => Becomes(i, c)
         /\ \A step \in EarlySteps \cup {"perform", "meter", "commit", "release", "record", "returned"} :
              /\ Goes(i, step) => Becomes(i, [kind |-> Kind(i), step |-> step, outcome |-> call[i].outcome, did |-> call[i].did])
              /\ \A o \in Outcomes :
                   /\ call' = [call EXCEPT ![i].step = step, ![i].outcome = o] =>
                        Becomes(i, [kind |-> Kind(i), step |-> step, outcome |-> o, did |-> call[i].did])
                   /\ call' = [call EXCEPT ![i].step = step, ![i].did = TRUE, ![i].outcome = o] =>
                        Becomes(i, [kind |-> Kind(i), step |-> step, outcome |-> o, did |-> TRUE])
<1>0. call \in [CallIds -> GuardedCalls] /\ call[i] \in GuardedCalls
  BY Zenon DEF GuardedTypes
<1>1. ASSUME NEW c \in GuardedCalls, call' = [call EXCEPT ![i] = c] PROVE Becomes(i, c)
  BY Zenon, <1>0, <1>1 DEF Becomes
<1>2. ASSUME NEW step \in EarlySteps \cup {"perform", "meter", "commit", "release", "record", "returned"}
      PROVE  /\ Goes(i, step) => Becomes(i, [kind |-> Kind(i), step |-> step, outcome |-> call[i].outcome, did |-> call[i].did])
             /\ \A o \in Outcomes :
                   /\ call' = [call EXCEPT ![i].step = step, ![i].outcome = o] =>
                        Becomes(i, [kind |-> Kind(i), step |-> step, outcome |-> o, did |-> call[i].did])
                   /\ call' = [call EXCEPT ![i].step = step, ![i].did = TRUE, ![i].outcome = o] =>
                        Becomes(i, [kind |-> Kind(i), step |-> step, outcome |-> o, did |-> TRUE])
  <2>0. /\ \A d \in GuardedCalls : [d EXCEPT !.step = step] = [kind |-> d.kind, step |-> step, outcome |-> d.outcome, did |-> d.did]
        /\ \A d \in GuardedCalls, o \in Outcomes :
             [d EXCEPT !.outcome = o] = [kind |-> d.kind, step |-> d.step, outcome |-> o, did |-> d.did]
        /\ \A d \in GuardedCalls : [d EXCEPT !.did = TRUE] = [kind |-> d.kind, step |-> d.step, outcome |-> d.outcome, did |-> TRUE]
    BY Zenon, CallFields
  <2>. PICK c \in GuardedCalls : c = call[i]
    BY Zenon, <1>0
  <2>. PICK d : d = [kind |-> c.kind, step |-> step, outcome |-> c.outcome, did |-> c.did]
    BY Zenon
  <2>. PICK e : e = [kind |-> c.kind, step |-> step, outcome |-> c.outcome, did |-> TRUE]
    BY Zenon
  <2>1. /\ d \in GuardedCalls /\ e \in GuardedCalls
        /\ \A o \in Outcomes : [kind |-> c.kind, step |-> step, outcome |-> o, did |-> c.did] \in GuardedCalls
        /\ \A o \in Outcomes : [kind |-> c.kind, step |-> step, outcome |-> o, did |-> TRUE] \in GuardedCalls
        /\ d.kind = c.kind /\ d.step = step /\ d.outcome = c.outcome /\ d.did = c.did
        /\ e.kind = c.kind /\ e.step = step /\ e.outcome = c.outcome /\ e.did = TRUE
    BY Zenon DEF GuardedCalls
  <2>2. [c EXCEPT !.step = step] = d /\ [d EXCEPT !.did = TRUE] = e
    BY <2>0, <2>1
  <2>3. Goes(i, step) => Becomes(i, d)
    <3>1. [call EXCEPT ![i].step = step] = [call EXCEPT ![i] = [c EXCEPT !.step = step]]
      BY Zenon, <1>0
    <3>. QED
      BY Zenon, <1>1, <2>1, <2>2, <3>1 DEF Goes
  <2>4. ASSUME NEW o \in Outcomes
        PROVE  /\ call' = [call EXCEPT ![i].step = step, ![i].outcome = o] =>
                    Becomes(i, [kind |-> c.kind, step |-> step, outcome |-> o, did |-> c.did])
               /\ call' = [call EXCEPT ![i].step = step, ![i].did = TRUE, ![i].outcome = o] =>
                    Becomes(i, [kind |-> c.kind, step |-> step, outcome |-> o, did |-> TRUE])
    <3>1. [d EXCEPT !.outcome = o] = [kind |-> c.kind, step |-> step, outcome |-> o, did |-> c.did]
      BY <2>0, <2>1
    <3>2. [e EXCEPT !.outcome = o] = [kind |-> c.kind, step |-> step, outcome |-> o, did |-> TRUE]
      BY <2>0, <2>1
    <3>3. [call EXCEPT ![i].step = step, ![i].outcome = o]
            = [call EXCEPT ![i] = [[c EXCEPT !.step = step] EXCEPT !.outcome = o]]
      BY Zenon, <1>0
    <3>4. [call EXCEPT ![i].step = step, ![i].did = TRUE, ![i].outcome = o]
            = [call EXCEPT ![i] = [[[c EXCEPT !.step = step] EXCEPT !.did = TRUE] EXCEPT !.outcome = o]]
      BY Zenon, <1>0
    <3>5. [call EXCEPT ![i].step = step, ![i].outcome = o]
            = [call EXCEPT ![i] = [kind |-> c.kind, step |-> step, outcome |-> o, did |-> c.did]]
      BY Zenon, <2>2, <3>1, <3>3
    <3>6. [call EXCEPT ![i].step = step, ![i].did = TRUE, ![i].outcome = o]
            = [call EXCEPT ![i] = [kind |-> c.kind, step |-> step, outcome |-> o, did |-> TRUE]]
      BY Zenon, <2>2, <3>2, <3>4
    <3>. PICK x : x = [kind |-> c.kind, step |-> step, outcome |-> o, did |-> c.did]
      BY Zenon
    <3>. PICK y : y = [kind |-> c.kind, step |-> step, outcome |-> o, did |-> TRUE]
      BY Zenon
    <3>7. x \in GuardedCalls /\ y \in GuardedCalls
      BY Zenon, <2>1
    <3>. QED
      BY Zenon, <1>1, <3>5, <3>6, <3>7
  <2>. QED
    BY Zenon, <2>3, <2>4 DEF Kind
<1>. QED
  BY Zenon, <1>1, <1>2

\* A step of one call that keeps its account and the books keeps the invariant.
LEMMA CallStep ==
  ASSUME GuardedInv, NEW i \in CallIds, StepOf(i), Booked', Accounted(i)'
  PROVE  GuardedInv'
BY Zenon, OthersAccounted DEF GuardedInv, StepOf

\* Only the call's own state changes.
Alone ==
  /\ enabled' = enabled
  /\ limit' = limit /\ used' = used /\ reservations' = reservations
  /\ meter' = meter /\ traces' = traces /\ audit' = audit /\ ended' = ended

\* A step that changes only the call keeps the books, its records and its usage.
LEMMA AloneStep ==
  ASSUME GuardedInv, NEW i \in CallIds, NEW c, Becomes(i, c), Alone,
         reservations[i] # "None" => c.kind = Kind(i)
  PROVE  /\ StepOf(i) /\ Booked'
         /\ RecordsOf(i)' = RecordsOf(i) /\ MeterOf(i)' = MeterOf(i)
         /\ Metered(i)' <=> Metered(i)
<1>1. \A j : RecordsOf(j)' = RecordsOf(j) /\ MeterOf(j)' = MeterOf(j)
  BY Zenon DEF Alone, RecordsOf, MeterOf
<1>2. GuardedTypes'
  BY Zenon DEF GuardedInv, GuardedTypes, Alone, Becomes
<1>3. StepOf(i)
  BY Zenon, <1>1, <1>2 DEF StepOf, Alone, Becomes
<1>4. \A j \in CallIds : reservations[j] # "None" => Kind(j)' = Kind(j)
  BY Zenon DEF Becomes, Kind
<1>5. Booked'
  BY Zenon, <1>4, BooksKept DEF Alone, GuardedInv
<1>. QED
  BY Zenon, <1>1, <1>3, <1>5 DEF Metered

\* Before its use case the call holds nothing: it goes on to an early step, is
\* refused, or is answered that the prompt is not registered.
LEMMA EarlyStep ==
  ASSUME GuardedInv, NEW i \in CallIds, call[i].step \in EarlySteps, Alone,
         \/ \E step \in EarlySteps : Goes(i, step)
         \/ Concludes(i, "Denied")
         \/ call' = [call EXCEPT ![i].step = "returned", ![i].outcome = "NotFound"]
  PROVE  GuardedInv'
<1>0. GuardedTypes /\ Accounted(i) /\ "Denied" \in Outcomes /\ "NotFound" \in Outcomes /\ call[i].outcome \in Outcomes
  BY Zenon DEF GuardedInv, Outcomes, GuardedTypes, GuardedCalls
<1>1. reservations[i] = "None" /\ ~call[i].did /\ RecordsOf(i) = {} /\ MeterOf(i) = {} /\ i \notin ended
      /\ call[i].outcome # "Succeeded"
  BY Zenon, <1>0 DEF Accounted, EarlySteps
<1>2. \E step \in EarlySteps \cup {"record", "returned"}, o \in Outcomes :
         /\ Becomes(i, [kind |-> Kind(i), step |-> step, outcome |-> o, did |-> call[i].did])
         /\ o # "Succeeded" /\ (step = "returned" => o = "NotFound")
  <2>1. CASE \E step \in EarlySteps : Goes(i, step)
    <3>1. PICK step \in EarlySteps : Goes(i, step)
      BY Zenon, <2>1
    <3>2. Becomes(i, [kind |-> Kind(i), step |-> step, outcome |-> call[i].outcome, did |-> call[i].did])
      BY Zenon, <1>0, <3>1, BecomesFact
    <3>. QED
      BY Zenon, <1>0, <1>1, <3>2 DEF EarlySteps
  <2>2. CASE Concludes(i, "Denied")
    <3>1. Becomes(i, [kind |-> Kind(i), step |-> "record", outcome |-> "Denied", did |-> call[i].did])
      BY Zenon, <1>0, <2>2, BecomesFact DEF Concludes
    <3>2. "record" \in EarlySteps \cup {"record", "returned"} /\ "Denied" \in Outcomes
      BY Zenon DEF Outcomes
    <3>. USE <3>2
    <3>. WITNESS "record" \in EarlySteps \cup {"record", "returned"}, "Denied" \in Outcomes
    <3>. QED
      BY Zenon, <3>1
  <2>3. CASE call' = [call EXCEPT ![i].step = "returned", ![i].outcome = "NotFound"]
    <3>1. Becomes(i, [kind |-> Kind(i), step |-> "returned", outcome |-> "NotFound", did |-> call[i].did])
      BY Zenon, <1>0, <2>3, BecomesFact
    <3>. QED
      BY Zenon, <1>0, <3>1
  <2>. QED
    BY Zenon, <2>1, <2>2, <2>3
<1>3. PICK step \in EarlySteps \cup {"record", "returned"}, o \in Outcomes :
         /\ Becomes(i, [kind |-> Kind(i), step |-> step, outcome |-> o, did |-> call[i].did])
         /\ o # "Succeeded" /\ (step = "returned" => o = "NotFound")
  BY Zenon, <1>2
<1>. PICK c : c = [kind |-> Kind(i), step |-> step, outcome |-> o, did |-> call[i].did]
  BY Zenon
<1>4. /\ c.kind = Kind(i) /\ c.step = step /\ c.outcome = o /\ c.did = call[i].did
      /\ Becomes(i, c) /\ call'[i] = c
  BY Zenon, <1>3 DEF Becomes
<1>5. /\ StepOf(i) /\ Booked'
      /\ RecordsOf(i)' = RecordsOf(i) /\ MeterOf(i)' = MeterOf(i)
  BY Zenon, <1>4, AloneStep
<1>6. Concluded(i)'
  BY Zenon, <1>1, <1>4 DEF Concluded, Alone
<1>7. Accounted(i)'
  BY Zenon, <1>1, <1>3, <1>4, <1>5, <1>6 DEF Accounted, Alone, EarlySteps
<1>. QED
  BY Zenon, <1>5, <1>7, CallStep

\* A call starts at its package's first step, or is refused there and then.
LEMMA StartStep ==
  ASSUME GuardedInv, NEW i \in CallIds, NEW kind \in {"ai", "bot", "admin"}, Start(i, kind)
  PROVE  GuardedInv'
<1>. DEFINE first == CASE kind \in enabled -> [ai |-> "entitle", bot |-> "route", admin |-> "perform"][kind]
                       [] kind \notin enabled -> IF kind = "bot" THEN "returned" ELSE "record"
<1>0. GuardedTypes /\ Accounted(i) /\ Alone /\ AtStep(i, "new")
  BY Zenon DEF GuardedInv, Start, Alone, guardConfig, ledgerVars
<1>1. /\ reservations[i] = "None" /\ ~call[i].did /\ RecordsOf(i) = {} /\ MeterOf(i) = {} /\ i \notin ended
  BY Zenon, <1>0 DEF Accounted, EarlySteps, AtStep
<1>2. \/ first \in {"entitle", "route"}
      \/ first = "perform" /\ kind = "admin"
      \/ first = "returned" /\ kind = "bot" /\ "bot" \notin enabled
      \/ first = "record"
  <2>1. CASE kind \in enabled
    <3>1. first = [ai |-> "entitle", bot |-> "route", admin |-> "perform"][kind]
      BY Zenon, <2>1
    <3>2. /\ kind = "ai" => first = "entitle"
          /\ kind = "bot" => first = "route"
          /\ kind = "admin" => first = "perform"
      BY <3>1
    <3>. QED
      BY Zenon, <3>2
  <2>2. CASE kind \notin enabled
    BY Zenon, <2>2
  <2>. QED
    BY Zenon, <2>1, <2>2
<1>. PICK step : step = first
  BY Zenon
<1>. HIDE DEF first
<1>. PICK c : c = [kind |-> kind, step |-> step, outcome |-> "Denied", did |-> FALSE]
  BY Zenon
<1>3. c.kind = kind /\ c.step = step /\ c.outcome = "Denied" /\ c.did = FALSE /\ c \in GuardedCalls
  BY Zenon, <1>2 DEF GuardedCalls, EarlySteps, Outcomes
<1>4. Becomes(i, c) /\ call'[i] = c
  <2>1. call' = [call EXCEPT ![i] = c]
    BY Zenon DEF Start, first
  <2>. QED
    BY Zenon, <1>0, <1>3, <2>1, BecomesFact DEF Becomes
<1>5. /\ StepOf(i) /\ Booked'
      /\ RecordsOf(i)' = RecordsOf(i) /\ MeterOf(i)' = MeterOf(i)
  BY Zenon, <1>0, <1>1, <1>4, AloneStep
<1>6. Concluded(i)'
  BY Zenon, <1>0, <1>1, <1>3, <1>4 DEF Concluded, Alone
<1>7. Accounted(i)'
  BY Zenon, <1>0, <1>1, <1>2, <1>3, <1>4, <1>5, <1>6 DEF Accounted, Alone, EarlySteps
<1>. QED
  BY Zenon, <1>5, <1>7, CallStep

\* The provider or the use case runs under the reservation, which the call then
\* commits or releases; an admin operation holds none.
LEMMA PerformStep ==
  ASSUME GuardedInv, NEW i \in CallIds, NEW next, NEW undo, Perform(i, next, undo),
         \/ Kind(i) = "ai" /\ next = "meter" /\ undo = "release"
         \/ Kind(i) = "bot" /\ next = "commit" /\ undo = "release"
         \/ Kind(i) = "admin" /\ next = "record" /\ undo = "record"
  PROVE  GuardedInv'
<1>0. GuardedTypes /\ Accounted(i) /\ Alone /\ AtStep(i, "perform")
      /\ "Succeeded" \in Outcomes /\ "Failed" \in Outcomes
  BY Zenon DEF GuardedInv, Perform, Alone, guardConfig, ledgerVars, Outcomes
<1>1. /\ ~call[i].did /\ RecordsOf(i) = {} /\ MeterOf(i) = {} /\ i \notin ended
      /\ reservations[i] = IF Kind(i) = "admin" THEN "None" ELSE "Reserved"
  BY Zenon, <1>0 DEF Accounted, AtStep, Kind
<1>2. \E step, o : \E did \in BOOLEAN :
         /\ Becomes(i, [kind |-> Kind(i), step |-> step, outcome |-> o, did |-> did])
         /\ \/ did /\ step = next /\ o = "Succeeded"
            \/ ~did /\ step = undo /\ o = "Failed"
  <2>1. CASE call' = [call EXCEPT ![i].step = next, ![i].did = TRUE, ![i].outcome = "Succeeded"]
    <3>1. Becomes(i, [kind |-> Kind(i), step |-> next, outcome |-> "Succeeded", did |-> TRUE])
      BY Zenon, <1>0, <2>1, BecomesFact
    <3>. QED
      BY Zenon, <3>1
  <2>2. CASE call' = [call EXCEPT ![i].step = undo, ![i].outcome = "Failed"]
    <3>1. Becomes(i, [kind |-> Kind(i), step |-> undo, outcome |-> "Failed", did |-> call[i].did])
      BY Zenon, <1>0, <2>2, BecomesFact
    <3>2. call[i].did \in BOOLEAN
      BY Zenon, <1>0 DEF GuardedTypes, GuardedCalls
    <3>. QED
      BY Zenon, <1>1, <3>1, <3>2
  <2>. QED
    BY Zenon, <2>1, <2>2 DEF Perform
<1>3. PICK step, o : \E did \in BOOLEAN :
         /\ Becomes(i, [kind |-> Kind(i), step |-> step, outcome |-> o, did |-> did])
         /\ \/ did /\ step = next /\ o = "Succeeded"
            \/ ~did /\ step = undo /\ o = "Failed"
  BY Zenon, <1>2
<1>4. PICK did \in BOOLEAN :
         /\ Becomes(i, [kind |-> Kind(i), step |-> step, outcome |-> o, did |-> did])
         /\ \/ did /\ step = next /\ o = "Succeeded"
            \/ ~did /\ step = undo /\ o = "Failed"
  BY Zenon, <1>3
<1>. PICK c : c = [kind |-> Kind(i), step |-> step, outcome |-> o, did |-> did]
  BY Zenon
<1>5. /\ c.kind = Kind(i) /\ c.step = step /\ c.outcome = o /\ c.did = did
      /\ Becomes(i, c) /\ call'[i] = c
  BY Zenon, <1>4 DEF Becomes
<1>6. /\ StepOf(i) /\ Booked'
      /\ RecordsOf(i)' = RecordsOf(i) /\ MeterOf(i)' = MeterOf(i)
  BY Zenon, <1>0, <1>5, AloneStep
<1>7. step = "record" => Concluded(i)'
  BY Zenon, <1>0, <1>1, <1>4, <1>5 DEF Concluded, Alone, Kind
<1>8. Accounted(i)'
  BY Zenon, <1>0, <1>1, <1>4, <1>5, <1>6, <1>7 DEF Accounted, Alone, EarlySteps
<1>. QED
  BY Zenon, <1>6, <1>8, CallStep

\* reserve books the quantity when it fits, and refuses the call otherwise.
LEMMA ReserveStep ==
  ASSUME GuardedInv, NEW i \in CallIds, Reserve(i), Kind(i) \in {"ai", "bot"}
  PROVE  GuardedInv'
<1>0. GuardedTypes /\ Accounted(i) /\ Booked /\ AtStep(i, "reserve")
  BY Zenon DEF GuardedInv, Reserve
<1>1. /\ reservations[i] = "None" /\ ~call[i].did /\ RecordsOf(i) = {} /\ MeterOf(i) = {} /\ i \notin ended
  BY Zenon, <1>0 DEF Accounted, EarlySteps, AtStep
<1>2. CASE ~Fits(i)
  <2>1. Alone /\ Concludes(i, "Denied") /\ call[i].step \in EarlySteps
    BY Zenon, <1>2 DEF Reserve, Alone, guardConfig, AtStep, EarlySteps
  <2>. QED
    BY Zenon, <2>1, EarlyStep
<1>3. CASE Fits(i)
  <2>0. /\ Goes(i, "perform") /\ reservations' = [reservations EXCEPT ![i] = "Reserved"]
        /\ enabled' = enabled /\ limit' = limit /\ used' = used
        /\ meter' = meter /\ traces' = traces /\ audit' = audit /\ ended' = ended
    BY Zenon, <1>3 DEF Reserve, guardConfig
  <2>. PICK c : c = [kind |-> Kind(i), step |-> "perform", outcome |-> call[i].outcome, did |-> call[i].did]
    BY Zenon
  <2>1. /\ c.kind = Kind(i) /\ c.step = "perform" /\ c.outcome = call[i].outcome /\ c.did = call[i].did
        /\ Becomes(i, c) /\ call'[i] = c
    BY Zenon, <1>0, <2>0, BecomesFact DEF Becomes
  <2>2. \A j : RecordsOf(j)' = RecordsOf(j) /\ MeterOf(j)' = MeterOf(j)
    BY Zenon, <2>0 DEF RecordsOf, MeterOf
  <2>3. /\ reservations' \in [CallIds -> QuotaReservationStatus] /\ reservations'[i] = "Reserved"
        /\ \A j \in CallIds \ {i} : reservations'[j] = reservations[j]
        /\ "Reserved" \in QuotaReservationStatus
    BY Zenon, <1>0, <2>0 DEF GuardedTypes, QuotaReservationStatus
  <2>4. StepOf(i)
    BY Zenon, <1>0, <2>0, <2>1, <2>2, <2>3 DEF StepOf, GuardedTypes, Becomes
  <2>5. \A j \in CallIds : Kind(j)' = Kind(j)
    BY Zenon, <2>1 DEF Becomes, Kind
  <2>6. Booked'
    BY Zenon, <1>0, <1>1, <1>3, <2>0, <2>3, <2>5, BooksMoved
  <2>7. Accounted(i)'
    BY Zenon, <1>0, <1>1, <2>0, <2>1, <2>2, <2>3 DEF Accounted, EarlySteps, Kind
  <2>. QED
    BY Zenon, <2>4, <2>6, <2>7, CallStep
<1>. QED
  BY Zenon, <1>2, <1>3

\* commit charges a call that did its work, release gives back what one that
\* failed had reserved.
LEMMA SettleStep ==
  ASSUME GuardedInv, NEW i \in CallIds, SettleQuota(i)
  PROVE  GuardedInv'
<1>0. /\ GuardedTypes /\ Accounted(i) /\ Booked /\ Goes(i, "record")
      /\ enabled' = enabled /\ limit' = limit
      /\ meter' = meter /\ traces' = traces /\ audit' = audit /\ ended' = ended
  BY Zenon DEF GuardedInv, SettleQuota, guardConfig, CommitReservation, ReleaseReservation
<1>1. \E status \in QuotaReservationStatus :
        /\ reservations' = [reservations EXCEPT ![i] = status]
        /\ reservations[i] = "Reserved"
        /\ \/ AtStep(i, "commit") /\ status = "Committed" /\ used' = used + Quantity(i)
           \/ AtStep(i, "release") /\ status = "Released" /\ used' = used
  BY Zenon DEF SettleQuota, CommitReservation, ReleaseReservation, QuotaReservationStatus
<1>2. PICK status \in QuotaReservationStatus :
        /\ reservations' = [reservations EXCEPT ![i] = status]
        /\ reservations[i] = "Reserved"
        /\ \/ AtStep(i, "commit") /\ status = "Committed" /\ used' = used + Quantity(i)
           \/ AtStep(i, "release") /\ status = "Released" /\ used' = used
  BY Zenon, <1>1
<1>. PICK c : c = [kind |-> Kind(i), step |-> "record", outcome |-> call[i].outcome, did |-> call[i].did]
  BY Zenon
<1>3. /\ c.kind = Kind(i) /\ c.step = "record" /\ c.outcome = call[i].outcome /\ c.did = call[i].did
      /\ Becomes(i, c) /\ call'[i] = c
  BY Zenon, <1>0, BecomesFact DEF Becomes
<1>4. \A j : RecordsOf(j)' = RecordsOf(j) /\ MeterOf(j)' = MeterOf(j)
  BY Zenon, <1>0 DEF RecordsOf, MeterOf
<1>5. /\ reservations' \in [CallIds -> QuotaReservationStatus] /\ reservations'[i] = status
      /\ \A j \in CallIds \ {i} : reservations'[j] = reservations[j]
  BY Zenon, <1>0, <1>2 DEF GuardedTypes
<1>6. StepOf(i)
  BY Zenon, <1>0, <1>3, <1>4, <1>5 DEF StepOf, GuardedTypes, Becomes
<1>7. \A j \in CallIds : Kind(j)' = Kind(j)
  BY Zenon, <1>3 DEF Becomes, Kind
<1>8. Booked'
  BY Zenon, <1>0, <1>2, <1>7, BooksMoved
<1>9. Metered(i)' <=> Metered(i)
  BY Zenon, <1>4 DEF Metered
<1>10. /\ RecordsOf(i) = {} /\ i \notin ended
       /\ (c.outcome = "Succeeded") <=> c.did
       /\ MeterOf(i) # {} => c.did
       /\ status = "Committed" => c.did /\ (c.kind = "ai" => Metered(i))
       /\ status = "Released" => ~c.did
  BY Zenon, <1>0, <1>2, <1>3 DEF Accounted, AtStep, Kind
<1>11. Concluded(i)'
  BY Zenon, <1>2, <1>3, <1>5, <1>9, <1>10 DEF Concluded, Kind
<1>12. Accounted(i)'
  BY Zenon, <1>0, <1>3, <1>4, <1>5, <1>10, <1>11 DEF Accounted, EarlySteps
<1>. QED
  BY Zenon, <1>6, <1>8, <1>12, CallStep

\* The usage of a successful invocation is metered once, before its commit.
LEMMA RecordUsageStep ==
  ASSUME GuardedInv, NEW i \in CallIds, RecordUsage(i)
  PROVE  GuardedInv'
<1>0. /\ GuardedTypes /\ Accounted(i) /\ Booked /\ Goes(i, "commit") /\ AtStep(i, "meter")
      /\ enabled' = enabled /\ limit' = limit /\ used' = used /\ reservations' = reservations
      /\ traces' = traces /\ audit' = audit /\ ended' = ended
  BY Zenon DEF GuardedInv, RecordUsage, guardConfig, ledgerVars
<1>1. PICK spent \in Nat : meter' = meter \cup {<<i, spent>>}
  <2>1. 1..MaxTokens + 1 \subseteq Nat
    BY GuardedBounds
  <2>. QED
    BY Zenon, <2>1 DEF RecordUsage
<1>. PICK c : c = [kind |-> Kind(i), step |-> "commit", outcome |-> call[i].outcome, did |-> call[i].did]
  BY Zenon
<1>2. /\ c.kind = Kind(i) /\ c.step = "commit" /\ c.outcome = call[i].outcome /\ c.did = call[i].did
      /\ Becomes(i, c) /\ call'[i] = c
  BY Zenon, <1>0, BecomesFact DEF Becomes
<1>3. \A j : RecordsOf(j)' = RecordsOf(j)
  BY Zenon, <1>0 DEF RecordsOf
<1>4. \A j \in CallIds \ {i} : MeterOf(j)' = MeterOf(j)
  BY <1>1 DEF MeterOf
<1>5. /\ call[i].did /\ reservations[i] = "Reserved" /\ MeterOf(i) = {} /\ RecordsOf(i) = {} /\ i \notin ended
      /\ (call[i].outcome = "Succeeded") <=> call[i].did
  BY Zenon, <1>0 DEF Accounted, AtStep
<1>6. Metered(i)'
  <2>1. MeterOf(i)' = {<<i, spent>>}
    BY <1>1, <1>5 DEF MeterOf
  <2>. QED
    BY Zenon, <2>1 DEF Metered
<1>7. meter' \subseteq CallIds \X Nat
  BY <1>0, <1>1 DEF GuardedTypes
<1>8. StepOf(i)
  BY Zenon, <1>0, <1>2, <1>3, <1>4, <1>7 DEF StepOf, GuardedTypes, Becomes
<1>9. \A j \in CallIds : Kind(j)' = Kind(j)
  BY Zenon, <1>2 DEF Becomes, Kind
<1>10. Booked'
  BY Zenon, <1>0, <1>9, BooksKept
<1>11. Accounted(i)'
  BY Zenon, <1>0, <1>2, <1>3, <1>5, <1>6 DEF Accounted, EarlySteps
<1>. QED
  BY Zenon, <1>8, <1>10, <1>11, CallStep

\* A call writes its one record, with the outcome it returns.
LEMMA RecordStep ==
  ASSUME GuardedInv, NEW i \in CallIds, Record(i)
  PROVE  GuardedInv'
<1>0. /\ GuardedTypes /\ Accounted(i) /\ Booked /\ Goes(i, "returned") /\ AtStep(i, "record")
      /\ enabled' = enabled /\ limit' = limit /\ used' = used /\ reservations' = reservations
      /\ meter' = meter /\ ended' = ended
  BY Zenon DEF GuardedInv, Record, guardConfig, ledgerVars
<1>. PICK record : record = <<i, call[i].outcome>>
  BY Zenon
<1>1. \/ traces' = traces \cup {record} /\ audit' = audit
      \/ audit' = audit \cup {record} /\ traces' = traces
  BY Zenon DEF Record, AppendTrace, AuditCommand, AppendAudit
<1>2. record \in CallIds \X Outcomes /\ record[1] = i
  <2>1. call[i].outcome \in Outcomes
    BY Zenon, <1>0 DEF GuardedTypes, GuardedCalls
  <2>. QED
    BY Zenon, <2>1
<1>. PICK c : c = [kind |-> Kind(i), step |-> "returned", outcome |-> call[i].outcome, did |-> call[i].did]
  BY Zenon
<1>3. /\ c.kind = Kind(i) /\ c.step = "returned" /\ c.outcome = call[i].outcome /\ c.did = call[i].did
      /\ Becomes(i, c) /\ call'[i] = c
  BY Zenon, <1>0, BecomesFact DEF Becomes
<1>4. \A j : MeterOf(j)' = MeterOf(j)
  BY Zenon, <1>0 DEF MeterOf
<1>5. \A j \in CallIds \ {i} : RecordsOf(j)' = RecordsOf(j)
  <2>1. traces' \cup audit' = (traces \cup audit) \cup {record}
    BY Zenon, <1>1
  <2>. QED
    BY Zenon, <1>2, <2>1 DEF RecordsOf
<1>6. /\ Concluded(i) /\ RecordsOf(i) = {} /\ i \notin ended
      /\ (call[i].outcome = "Succeeded") <=> call[i].did
      /\ reservations[i] = "Committed" => call[i].did
      /\ reservations[i] = "Released" => ~call[i].did
      /\ MeterOf(i) # {} => call[i].did
  BY Zenon, <1>0 DEF Accounted, AtStep
<1>7. RecordsOf(i)' = {record}
  <2>1. traces' \cup audit' = (traces \cup audit) \cup {record}
    BY Zenon, <1>1
  <2>. QED
    BY Zenon, <1>2, <1>6, <2>1 DEF RecordsOf
<1>8. traces' \subseteq CallIds \X Outcomes /\ audit' \subseteq CallIds \X Outcomes
  BY Zenon, <1>0, <1>1, <1>2 DEF GuardedTypes
<1>9. StepOf(i)
  BY Zenon, <1>0, <1>3, <1>4, <1>5, <1>8 DEF StepOf, GuardedTypes, Becomes
<1>10. \A j \in CallIds : Kind(j)' = Kind(j)
  BY Zenon, <1>3 DEF Becomes, Kind
<1>11. Booked'
  BY Zenon, <1>0, <1>10, BooksKept
<1>12. Concluded(i)'
  BY Zenon, <1>0, <1>3, <1>4, <1>6 DEF Concluded, Metered, Kind
<1>13. Accounted(i)'
  BY Zenon, <1>0, <1>3, <1>4, <1>6, <1>7, <1>12 DEF Accounted, EarlySteps
<1>. QED
  BY Zenon, <1>9, <1>11, <1>13, CallStep

\* A port's error or a dropped call ends it where it is, its reservation open.
LEMMA EndsStep ==
  ASSUME GuardedInv, NEW i \in CallIds, Ends(i)
  PROVE  GuardedInv'
<1>0. /\ GuardedTypes /\ Accounted(i) /\ Booked /\ Goes(i, "returned")
      /\ enabled' = enabled /\ limit' = limit /\ used' = used /\ reservations' = reservations
      /\ meter' = meter /\ traces' = traces /\ audit' = audit /\ ended' = ended \cup {i}
  BY Zenon DEF GuardedInv, Ends, guardConfig, ledgerVars
<1>. PICK c : c = [kind |-> Kind(i), step |-> "returned", outcome |-> call[i].outcome, did |-> call[i].did]
  BY Zenon
<1>1. /\ c.kind = Kind(i) /\ c.step = "returned" /\ c.outcome = call[i].outcome /\ c.did = call[i].did
      /\ Becomes(i, c) /\ call'[i] = c
  BY Zenon, <1>0, BecomesFact DEF Becomes
<1>2. \A j : MeterOf(j)' = MeterOf(j) /\ RecordsOf(j)' = RecordsOf(j)
  BY Zenon, <1>0 DEF MeterOf, RecordsOf
<1>3. i \in ended' /\ ended' \subseteq CallIds /\ \A j \in CallIds \ {i} : j \in ended' <=> j \in ended
  BY Zenon, <1>0 DEF GuardedTypes
<1>4. StepOf(i)
  BY Zenon, <1>0, <1>1, <1>2, <1>3 DEF StepOf, GuardedTypes, Becomes
<1>5. \A j \in CallIds : Kind(j)' = Kind(j)
  BY Zenon, <1>1 DEF Becomes, Kind
<1>6. Booked'
  BY Zenon, <1>0, <1>5, BooksKept
<1>7. Accounted(i)'
  BY Zenon, <1>0, <1>1, <1>2, <1>3 DEF Accounted, EarlySteps
<1>. QED
  BY Zenon, <1>4, <1>6, <1>7, CallStep

\* set_limit may lower the limit under what is booked, but not the largest one.
LEMMA SetLimitStep ==
  ASSUME GuardedInv, NEW n \in Limits, SetLimit(n)
  PROVE  GuardedInv'
<1>0. /\ GuardedTypes /\ Booked
      /\ enabled' = enabled /\ used' = used /\ reservations' = reservations /\ call' = call
      /\ meter' = meter /\ traces' = traces /\ audit' = audit /\ ended' = ended
  BY Zenon DEF GuardedInv, SetLimit, guardConfig
<1>1. /\ n \in Nat /\ used \in Nat /\ limit.now \in Nat /\ limit.max \in Nat
      /\ TotalQuantity(OpenReservations) \in Nat
      /\ used = TotalQuantity(CommittedReservations) /\ used + TotalQuantity(OpenReservations) <= limit.max
  <2>1. OpenReservations \in SUBSET CallIds
    BY Zenon DEF OpenReservations
  <2>. QED
    BY Zenon, <1>0, <2>1, GuardedBounds, TotalFact DEF Booked
<1>2. limit'.now = n /\ limit'.max = IF n > limit.max THEN n ELSE limit.max
  BY Zenon DEF SetLimit
<1>3. /\ limit'.now \in Nat /\ limit'.max \in Nat /\ limit'.now <= limit'.max
      /\ used + TotalQuantity(OpenReservations) <= limit'.max
  BY <1>1, <1>2
<1>4. /\ TotalQuantity(OpenReservations)' = TotalQuantity(OpenReservations)
      /\ TotalQuantity(CommittedReservations)' = TotalQuantity(CommittedReservations)
  BY Zenon, <1>0 DEF TotalQuantity, OpenReservations, CommittedReservations, Kind
<1>5. Booked'
  BY Zenon, <1>0, <1>1, <1>3, <1>4 DEF Booked
<1>6. \A i \in CallIds : Accounted(i)'
  <2>1. \A i : RecordsOf(i)' = RecordsOf(i) /\ MeterOf(i)' = MeterOf(i)
    BY Zenon, <1>0 DEF RecordsOf, MeterOf
  <2>. QED
    BY Zenon, <1>0, <2>1, SameAccount DEF GuardedInv
<1>. QED
  BY Zenon, <1>0, <1>5, <1>6 DEF GuardedInv, GuardedTypes

\* Every step of every call, and every change of a limit or of the prompts,
\* keeps the invariant.
LEMMA GuardedStep == GuardedInv /\ [GuardedNext]_guardedVars => GuardedInv'
<1>. SUFFICES ASSUME GuardedInv, [GuardedNext]_guardedVars PROVE GuardedInv'
  BY Zenon
<1>1. ASSUME NEW i \in CallIds, NEW next \in EarlySteps, CheckEntitlement(i, next) PROVE GuardedInv'
  <2>1. Alone /\ call[i].step \in EarlySteps /\ (Goes(i, next) \/ Concludes(i, "Denied"))
    BY Zenon, <1>1 DEF CheckEntitlement, Alone, guardConfig, ledgerVars, AtStep, EarlySteps
  <2>. QED
    BY Zenon, <2>1, EarlyStep
<1>2. ASSUME NEW i \in CallIds, CheckTools(i) \/ SelectPrompt(i) \/ Route(i) PROVE GuardedInv'
  <2>1. Alone /\ call[i].step \in EarlySteps
    BY Zenon, <1>2 DEF CheckTools, SelectPrompt, Route, Alone, guardConfig, ledgerVars, AtStep, EarlySteps
  <2>2. \/ \E step \in EarlySteps : Goes(i, step)
        \/ Concludes(i, "Denied")
        \/ call' = [call EXCEPT ![i].step = "returned", ![i].outcome = "NotFound"]
    BY Zenon, <1>2 DEF CheckTools, SelectPrompt, Route, EarlySteps
  <2>. QED
    BY Zenon, <2>1, <2>2, EarlyStep
<1>3. "tools" \in EarlySteps /\ "reserve" \in EarlySteps
  BY Zenon DEF EarlySteps
<1>4. ASSUME NEW i \in CallIds, Invoke(i) PROVE GuardedInv'
  BY Zenon, <1>1, <1>2, <1>3, <1>4, ReserveStep, PerformStep, RecordUsageStep, SettleStep, RecordStep DEF Invoke
<1>5. ASSUME NEW i \in CallIds, Dispatch(i) PROVE GuardedInv'
  BY Zenon, <1>1, <1>2, <1>3, <1>5, ReserveStep, PerformStep, SettleStep, RecordStep DEF Dispatch
<1>6. ASSUME NEW i \in CallIds, Execute(i) PROVE GuardedInv'
  BY Zenon, <1>6, PerformStep, RecordStep DEF Execute
<1>7. ASSUME RegisterPrompt \/ UNCHANGED guardedVars PROVE GuardedInv'
  <2>1. /\ enabled' = enabled /\ limit' = limit /\ used' = used /\ reservations' = reservations /\ call' = call
        /\ meter' = meter /\ traces' = traces /\ audit' = audit /\ ended' = ended
    BY Zenon, <1>7 DEF RegisterPrompt, guardedVars, ledgerVars
  <2>2. Booked'
    BY Zenon, <2>1, BooksKept DEF GuardedInv, Kind
  <2>3. \A i \in CallIds : Accounted(i)'
    <3>1. \A i : RecordsOf(i)' = RecordsOf(i) /\ MeterOf(i)' = MeterOf(i)
      BY Zenon, <2>1 DEF RecordsOf, MeterOf
    <3>. QED
      BY Zenon, <2>1, <3>1, SameAccount DEF GuardedInv
  <2>. QED
    BY Zenon, <2>1, <2>2, <2>3 DEF GuardedInv, GuardedTypes
<1>. QED
  BY Zenon, <1>4, <1>5, <1>6, <1>7, StartStep, EndsStep, SetLimitStep DEF GuardedNext

\* Whatever the calls, their failures and the limits, the books balance: quota is
\* never overbooked, charged exactly for the work done, left open only by calls
\* that an error ended, and every answer is on record once.
THEOREM GuardedCorrect ==
  GuardedInit /\ [][GuardedNext]_guardedVars => [](GuardedTypeOK /\ CallsAreAccounted)
<1>1. GuardedInit => GuardedInv
  <2>. SUFFICES ASSUME GuardedInit PROVE GuardedInv
    BY Zenon
  <2>1. GuardedTypes
    BY Zenon DEF GuardedInit, GuardedTypes, QuotaReservationStatus, GuardedCalls, Outcomes, EarlySteps
  <2>2. ASSUME NEW i \in CallIds PROVE Accounted(i)
    <3>1. /\ call[i] = [kind |-> "none", step |-> "new", outcome |-> "none", did |-> FALSE]
          /\ reservations[i] = "None" /\ ended = {} /\ RecordsOf(i) = {} /\ MeterOf(i) = {}
      BY Zenon DEF GuardedInit, RecordsOf, MeterOf
    <3>2. /\ call[i].kind = "none" /\ call[i].step = "new" /\ call[i].outcome = "none" /\ call[i].did = FALSE
      BY <3>1
    <3>. QED
      BY Zenon, <3>1, <3>2 DEF Accounted
  <2>3. Booked
    <3>1. OpenReservations = {} /\ CommittedReservations = {}
      BY Zenon DEF GuardedInit, OpenReservations, CommittedReservations
    <3>2. TotalQuantity({}) = 0
      <4>1. {i \in {} : Kind(i) = "ai"} = {} /\ {i \in {} : Kind(i) # "ai"} = {}
        BY Zenon
      <4>2. TotalQuantity({}) = MaxTokens * Cardinality({}) + QuotaQuantity * Cardinality({})
        BY Zenon, <4>1 DEF TotalQuantity
      <4>. QED
        BY <4>2, FS_EmptySet, GuardedBounds
    <3>3. used = 0 /\ limit.now \in Nat /\ limit.max = limit.now
      BY GuardedBounds DEF GuardedInit
    <3>. QED
      BY <3>1, <3>2, <3>3 DEF Booked
  <2>. QED
    BY Zenon, <2>1, <2>2, <2>3 DEF GuardedInv
<1>2. GuardedInv => GuardedTypeOK /\ CallsAreAccounted
  <2>. SUFFICES ASSUME GuardedInv PROVE GuardedTypeOK /\ CallsAreAccounted
    BY Zenon
  <2>0. GuardedTypes /\ Booked /\ \A i \in CallIds : Accounted(i)
    BY Zenon DEF GuardedInv
  <2>1. GuardedTypeOK
    BY Zenon, <2>0 DEF GuardedTypes, Booked, GuardedTypeOK, GuardedCalls, Outcomes
  <2>2. NeverOverbooked
    BY Zenon, <2>0 DEF NeverOverbooked, Booked
  <2>3. ChargedForWork
    <3>1. \A u \in meter : call[u[1]].did
      <4>. SUFFICES ASSUME NEW u \in meter PROVE call[u[1]].did
        BY Zenon
      <4>1. u[1] \in CallIds
        BY Zenon, <2>0 DEF GuardedTypes
      <4>. QED
        BY Zenon, <2>0, <4>1 DEF Accounted, MeterOf
    <3>2. \A r \in traces \cup audit : (r[2] = "Succeeded") <=> call[r[1]].did
      <4>. SUFFICES ASSUME NEW r \in traces \cup audit PROVE (r[2] = "Succeeded") <=> call[r[1]].did
        BY Zenon
      <4>1. r[1] \in CallIds /\ r = <<r[1], r[2]>>
        BY <2>0 DEF GuardedTypes
      <4>2. r \in RecordsOf(r[1])
        BY Zenon DEF RecordsOf
      <4>3. r = <<r[1], call[r[1]].outcome>>
        BY Zenon, <2>0, <4>1, <4>2 DEF Accounted
      <4>4. r[2] = call[r[1]].outcome
        BY <4>1, <4>3
      <4>. QED
        BY Zenon, <2>0, <4>1, <4>4 DEF Accounted
    <3>. QED
      BY Zenon, <2>0, <3>1, <3>2 DEF ChargedForWork, Accounted, Booked, CommittedReservations
  <2>4. OpenIsRunningOrEnded
    <3>. SUFFICES ASSUME NEW i \in CallIds, reservations[i] = "Reserved", AtStep(i, "returned"), i \notin ended PROVE FALSE
      BY Zenon DEF OpenIsRunningOrEnded, OpenReservations
    <3>. QED
      BY Zenon, <2>0 DEF Accounted, AtStep, Concluded
  <2>5. AnsweredIsRecorded
    <3>. SUFFICES ASSUME NEW i \in CallIds, Returned(i)
                  PROVE  \/ RecordsOf(i) = {<<i, call[i].outcome>>}
                            /\ (Kind(i) = "ai" /\ call[i].did => Cardinality(MeterOf(i)) = 1 /\ reservations[i] = "Committed")
                         \/ Kind(i) = "bot" /\ "bot" \notin enabled /\ ~call[i].did
                         \/ call[i].outcome = "NotFound" /\ reservations[i] = "None"
      BY Zenon DEF AnsweredIsRecorded, RecordsOf, MeterOf
    <3>1. CASE Concluded(i) /\ RecordsOf(i) # {}
      <4>1. RecordsOf(i) = {<<i, call[i].outcome>>}
        BY Zenon, <2>0, <3>1 DEF Accounted
      <4>2. Metered(i) => Cardinality(MeterOf(i)) = 1
        BY Zenon, FS_Singleton DEF Metered
      <4>. QED
        BY Zenon, <3>1, <4>1, <4>2 DEF Concluded
    <3>2. CASE reservations[i] = "None" /\ ~call[i].did /\ (call[i].outcome = "NotFound" \/ (Kind(i) = "bot" /\ "bot" \notin enabled))
      BY Zenon, <3>2
    <3>. QED
      BY Zenon, <2>0, <3>1, <3>2 DEF Accounted, Returned, AtStep, Kind
  <2>. QED
    BY Zenon, <2>1, <2>2, <2>3, <2>4, <2>5 DEF CallsAreAccounted
<1>. QED
  BY <1>1, <1>2, GuardedStep, PTL
=============================================================================
