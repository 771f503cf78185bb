--------------------------- MODULE PlatformServices ---------------------------
(***************************************************************************)
(* The services and packages beside the counter: notification delivery,    *)
(* tenant onboarding, sessions, guarded use, billing events, the in-memory *)
(* runtime adapters, the bearer token verifier and the indexer.  They share*)
(* no state, so a behaviour exercises one of them, chosen at the start;    *)
(* the others stay in one of their initial states.                         *)
(***************************************************************************)
EXTENDS NotificationDelivery, Onboarding, Sessions, GuardedUse, BillingWebhook,
        RuntimeAdapters, OidcVerifier, Indexer

VARIABLE service  \* the service in use

vars == <<deliveryVars, onboardingVars, sessionVars, guardedVars, webhookVars, adapterVars,
          oidcVars, indexerVars, service>>

Init ==
  /\ service \in {"delivery", "onboarding", "sessions", "guarded", "billing", "runtime", "oidc",
                 "indexer"}
  /\ DeliveryInit /\ OnboardingInit /\ SessionsInit /\ GuardedInit /\ WebhookInit
  /\ AdaptersInit /\ OidcInit /\ IndexerInit
  /\ service # "delivery" => crew = {} /\ registrations = 0
  /\ service # "onboarding" => doors = {"tenant"} /\ allowAll
  /\ service # "guarded" => enabled = {} /\ allowList = {"ai"} /\ \A n \in Limits : n <= limit.now
  /\ service # "billing" => \A e \in BillingEvents : effect[e] = "none"
  /\ service # "runtime" => adapter = "queue"
  /\ service # "oidc" => oidc = "jwt"
  /\ service # "indexer" => \A s \in 1..Feeds : feed[s] = <<>>

Next ==
  /\ \/ service = "delivery" /\ DeliveryNext /\ UNCHANGED <<onboardingVars, sessionVars, guardedVars, webhookVars, adapterVars, oidcVars, indexerVars>>
     \/ service = "onboarding" /\ OnboardingNext /\ UNCHANGED <<deliveryVars, sessionVars, guardedVars, webhookVars, adapterVars, oidcVars, indexerVars>>
     \/ service = "sessions" /\ SessionsNext /\ UNCHANGED <<deliveryVars, onboardingVars, guardedVars, webhookVars, adapterVars, oidcVars, indexerVars>>
     \/ service = "guarded" /\ GuardedNext /\ UNCHANGED <<deliveryVars, onboardingVars, sessionVars, webhookVars, adapterVars, oidcVars, indexerVars>>
     \/ service = "billing" /\ WebhookNext /\ UNCHANGED <<deliveryVars, onboardingVars, sessionVars, guardedVars, adapterVars, oidcVars, indexerVars>>
     \/ service = "runtime" /\ AdaptersNext /\ UNCHANGED <<deliveryVars, onboardingVars, sessionVars, guardedVars, webhookVars, oidcVars, indexerVars>>
     \/ service = "oidc" /\ OidcNext /\ UNCHANGED <<deliveryVars, onboardingVars, sessionVars, guardedVars, webhookVars, adapterVars, indexerVars>>
     \/ service = "indexer" /\ IndexerNext /\ UNCHANGED <<deliveryVars, onboardingVars, sessionVars, guardedVars, webhookVars, adapterVars, oidcVars>>
  /\ UNCHANGED service

FairSpec == Init /\ [][Next]_vars /\ DeliveryFairness /\ WebhookFairness /\ AdaptersFairness

\* Every service's state has its type.
TypeOK == DeliveryTypeOK /\ OnboardingTypeOK /\ SessionsTypeOK /\ GuardedTypeOK /\ WebhookTypeOK
          /\ AdaptersTypeOK /\ OidcTypeOK /\ IndexerTypeOK
=============================================================================
