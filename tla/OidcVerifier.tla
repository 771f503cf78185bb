----------------------------- MODULE OidcVerifier -----------------------------
(***************************************************************************)
(* The bearer token verifier of web-bff, packages/authn/oidc-verifier.     *)
(* Requests share two caches that never expire, the discovery document and *)
(* the issuer's key set, while the issuer publishes and retires signing    *)
(* keys.  A request reads the caches, fetches and writes them back with    *)
(* awaits in between, so a key set fetched early may be stored late.       *)
(*                                                                         *)
(* A token is its key's number and whether its algorithm, signature,       *)
(* issuer, audience and expiry are good; key 0 is a header without a kid.  *)
(***************************************************************************)
EXTENDS Naturals

CONSTANTS Bearers,         \* requests that carry a token, concurrently
          MaxKeys,         \* bound on the keys the issuer ever publishes
          MaxFetchFaults   \* bound on failed or timed out calls to the issuer

ASSUME OidcBounds == MaxKeys \in Nat \ {0} /\ MaxFetchFaults \in Nat

VARIABLES
  issuerKeys,   \* the keys the issuer publishes now
  newestKey,    \* the last one it published
  oidc,         \* how the configuration has tokens checked
  discovered,   \* whether self.discovery holds the document
  jwks,         \* self.jwks: NoKeys, or the key set last stored
  bearer,       \* per request: its token, where verify stands, the set it fetched
  steady,       \* history, per request: its key was published all along, no call failed
  fetchFaults

oidcVars == <<issuerKeys, newestKey, oidc, discovered, jwks, bearer, steady, fetchFaults>>

NoKeys == {0}  \* None; a published set never holds key 0

\* No introspection credentials; credentials with a configured URL; credentials
\* and a discovery document with, or without, an introspection endpoint.
Checks == {"jwt", "url", "endpoint", "no_endpoint"}

BearerTokens == [kid : 0..MaxKeys, good : BOOLEAN]

\* A request not yet made, or made and accepted.
NoRequest == [at |-> "idle", token |-> [kid |-> 0, good |-> FALSE], keys |-> NoKeys,
              again |-> FALSE]
Ended == {"idle", "refused"}

OidcInit ==
  /\ issuerKeys = {1} /\ newestKey = 1
  /\ oidc \in Checks
  /\ discovered = FALSE /\ jwks = NoKeys
  /\ bearer = [b \in Bearers |-> NoRequest]
  /\ steady = [b \in Bearers |-> TRUE]
  /\ fetchFaults = 0
-----------------------------------------------------------------------------
(* The issuer. *)

PublishKey ==
  /\ newestKey < MaxKeys
  /\ newestKey' = newestKey + 1
  /\ issuerKeys' = issuerKeys \cup {newestKey + 1}
  /\ UNCHANGED <<oidc, discovered, jwks, bearer, steady, fetchFaults>>

RetireKey ==
  /\ \E oldest \in issuerKeys :
       /\ issuerKeys # {oldest} /\ \A other \in issuerKeys : oldest <= other
       /\ issuerKeys' = issuerKeys \ {oldest}
       /\ steady' = [b \in Bearers |->
                       steady[b] /\ (bearer[b].at \in Ended \/ bearer[b].token.kid # oldest)]
  /\ UNCHANGED <<newestKey, oidc, discovered, jwks, bearer, fetchFaults>>
-----------------------------------------------------------------------------
(* The verifier. *)

\* decode_with_jwks: the key must be in the set and the token good.
DecodeWithJwks(token, keys) == token.kid \in keys /\ token.good

\* What follows a decode with `keys`: a last refresh, when one is left.
AfterDecode(token, keys, again) ==
  IF DecodeWithJwks(token, keys) THEN NoRequest
  ELSE [NoRequest EXCEPT !.at = IF again THEN "discover" ELSE "refused", !.token = token]

\* verify: introspection when its credentials are configured; otherwise the
\* header's kid, the cached set, and a refresh when there is none or it fails.
Verify(b, token) ==
  /\ bearer[b].at \in Ended
  /\ bearer' = [bearer EXCEPT ![b] =
       CASE oidc = "url" -> [NoRequest EXCEPT !.at = "introspect", !.token = token]
         [] oidc \in {"endpoint", "no_endpoint"} ->
              [NoRequest EXCEPT !.at = "discover", !.token = token]
         [] oidc = "jwt" /\ token.kid = 0 -> [NoRequest EXCEPT !.at = "refused", !.token = token]
         [] oidc = "jwt" /\ token.kid # 0 /\ jwks = NoKeys ->
              [NoRequest EXCEPT !.at = "discover", !.token = token, !.again = TRUE]
         [] oidc = "jwt" /\ token.kid # 0 /\ jwks # NoKeys -> AfterDecode(token, jwks, TRUE)]
  /\ steady' = [steady EXCEPT ![b] = token.kid \in issuerKeys]
  /\ UNCHANGED <<issuerKeys, newestKey, oidc, discovered, jwks, fetchFaults>>

\* discovery, cached or fetched and stored, then the endpoint that is wanted.
Discover(b) ==
  /\ bearer[b].at = "discover"
  /\ discovered' = TRUE
  /\ bearer' = [bearer EXCEPT ![b].at =
       CASE oidc = "jwt" -> "fetch"
         [] oidc = "endpoint" -> "introspect"
         [] oidc = "no_endpoint" -> "refused"]
  /\ UNCHANGED <<issuerKeys, newestKey, oidc, jwks, steady, fetchFaults>>

\* fetch_json of jwks_uri: what the issuer publishes when it answers.
FetchKeys(b) ==
  /\ bearer[b].at = "fetch"
  /\ bearer' = [bearer EXCEPT ![b].at = "store", ![b].keys = issuerKeys]
  /\ UNCHANGED <<issuerKeys, newestKey, oidc, discovered, jwks, steady, fetchFaults>>

\* Mutant: refresh_jwks keeps a set that is already there, and decodes with it.
MutStoreKeys(b) ==
  /\ bearer[b].at = "store"
  /\ jwks' = IF jwks = NoKeys THEN bearer[b].keys ELSE jwks
  /\ bearer' = [bearer EXCEPT ![b] = AfterDecode(bearer[b].token, jwks', bearer[b].again)]
  /\ UNCHANGED <<issuerKeys, newestKey, oidc, discovered, steady, fetchFaults>>

\* refresh_jwks stores the set it fetched, whatever was stored meanwhile, and
\* returns it: the decode uses this request's set, not the cache.
StoreKeys(b) ==
  /\ bearer[b].at = "store"
  /\ jwks' = bearer[b].keys
  /\ bearer' = [bearer EXCEPT ![b] =
                  AfterDecode(bearer[b].token, bearer[b].keys, bearer[b].again)]
  /\ UNCHANGED <<issuerKeys, newestKey, oidc, discovered, steady, fetchFaults>>

\* introspect: the issuer says whether the token is active, with a subject and
\* an audience; its signing key plays no part.
Introspect(b) ==
  /\ bearer[b].at = "introspect"
  /\ bearer' = [bearer EXCEPT ![b] =
       IF bearer[b].token.good THEN NoRequest ELSE [bearer[b] EXCEPT !.at = "refused"]]
  /\ UNCHANGED <<issuerKeys, newestKey, oidc, discovered, jwks, steady, fetchFaults>>

\* A call fails, times out or cannot be decoded: Unauthorized.
FetchFails(b) ==
  /\ fetchFaults < MaxFetchFaults
  /\ \/ bearer[b].at \in {"fetch", "introspect"}
     \/ bearer[b].at = "discover" /\ ~discovered
  /\ bearer' = [bearer EXCEPT ![b].at = "refused"]
  /\ steady' = [steady EXCEPT ![b] = FALSE]
  /\ fetchFaults' = fetchFaults + 1
  /\ UNCHANGED <<issuerKeys, newestKey, oidc, discovered, jwks>>

OidcNext ==
  \/ PublishKey
  \/ RetireKey
  \/ \E b \in Bearers :
       \/ \E token \in BearerTokens : token.kid <= newestKey /\ Verify(b, token)
       \/ Discover(b) \/ FetchKeys(b) \/ StoreKeys(b) \/ Introspect(b) \/ FetchFails(b)
-----------------------------------------------------------------------------
\* The verifier's state, and the issuer's, has its type.
OidcTypeOK ==
  /\ newestKey \in 1..MaxKeys /\ issuerKeys \in (SUBSET (1..newestKey)) \ {{}}
  /\ oidc \in Checks
  /\ discovered \in BOOLEAN
  /\ jwks \in (SUBSET (1..newestKey)) \cup {NoKeys}
  /\ bearer \in [Bearers -> [at : Ended \cup {"discover", "fetch", "store", "introspect"},
                             token : BearerTokens, keys : (SUBSET (1..newestKey)) \cup {NoKeys},
                             again : BOOLEAN]]
  /\ steady \in [Bearers -> BOOLEAN]
  /\ fetchFaults \in 0..MaxFetchFaults

\* A good token whose key the issuer published throughout the request is never
\* refused while the issuer answers, however the caches aged or another
\* request's older key set overwrote a newer one meanwhile (decode_jwt's second
\* refresh).  The exception is introspection with no endpoint to call.
PublishedKeyIsAccepted ==
  \A b \in Bearers :
    bearer[b].at = "refused" /\ bearer[b].token.good /\ steady[b]
      => oidc = "no_endpoint"

OidcSpec == OidcInit /\ [][OidcNext]_oidcVars
=============================================================================
