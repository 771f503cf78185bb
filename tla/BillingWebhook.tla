---------------------------- MODULE BillingWebhook ----------------------------
(***************************************************************************)
(* The Creem webhook of web-bff: handle_webhook records the event in       *)
(* commercial_billing_webhook_events, projects it onto the entitlement of  *)
(* one tenant, subject and capability, and marks the record.               *)
(*                                                                         *)
(* The provider delivers events in any order, repeats a delivery until it  *)
(* is answered with 200, and may have deliveries of one event in flight    *)
(* together.  Signature and JSON of its events are valid.                  *)
(***************************************************************************)
EXTENDS Naturals, FiniteSets, Sequences

CONSTANTS
  BillingEvents,    \* provider_event_id
  Handlers,  \* webhook requests that may be in flight together
  NoEvent,   \* the absence of an event
  WebhookFaults,    \* the calls that may fail
  MaxWebhookFaults  \* bound: failed calls and dropped requests in a behaviour

WebhookFaultKinds == {"insert", "project", "mark", "drop"}
ASSUME WebhookFaultsAssumption == WebhookFaults \subseteq WebhookFaultKinds /\ MaxWebhookFaults \in Nat
ASSUME NoEventAssumption == NoEvent \notin BillingEvents

VARIABLES
  effect,    \* event -> what its type does to the entitlement
  ledger,    \* event -> its row in the ledger
  applied,   \* the projected events, oldest first
  entitled,    \* commercial_entitlements: the row of the provider is active
  acked,     \* the events the provider has had answered with 200
  handlerAt, carried, \* handler -> where its request is, and the event it carries
  webhookFaults     \* the failed calls and dropped requests, oldest first

webhookVars == <<effect, ledger, applied, entitled, acked, handlerAt, carried, webhookFaults>>

\* checkout.completed, subscription.active and subscription.paid grant;
\* subscription.canceled, subscription.expired and refund.created revoke; other
\* types, and events without the commercial metadata, do nothing.
Effects == {"grant", "revoke", "none"}
BillingEventStatus == {"absent", "received", "processed", "failed"}
NoRecord == [status |-> "absent", attempts |-> 0]

WebhookInit ==
  /\ effect \in [BillingEvents -> Effects]
  /\ ledger = [e \in BillingEvents |-> NoRecord]
  /\ applied = << >>
  /\ entitled = FALSE
  /\ acked = {}
  /\ handlerAt = [h \in Handlers |-> "idle"]
  /\ carried = [h \in Handlers |-> NoEvent]
  /\ webhookFaults = << >>

WebhookFault(kind) ==
  /\ kind \in WebhookFaults
  /\ Len(webhookFaults) < MaxWebhookFaults
  /\ webhookFaults' = Append(webhookFaults, kind)
NoWebhookFault == UNCHANGED webhookFaults

HandlerGoes(h, label) == handlerAt' = [handlerAt EXCEPT ![h] = label] /\ UNCHANGED <<carried, acked>>

\* Mutant: every request is answered with 200.
AnswerWebhookAlwaysOk(h, ok) ==
  /\ handlerAt' = [handlerAt EXCEPT ![h] = "idle"]
  /\ carried' = [carried EXCEPT ![h] = NoEvent]
  /\ acked' = acked \cup {carried[h]}

\* Mutant: the event is let go before the answer names it.
AnswerWebhookForgets(h, ok) ==
  /\ handlerAt' = [handlerAt EXCEPT ![h] = "idle"]
  /\ carried' = [carried EXCEPT ![h] = NoEvent]
  /\ acked' = IF ok THEN acked \cup {carried'[h]} ELSE acked

\* The request is answered: 200 stops the provider's retries.
AnswerWebhook(h, ok) ==
  /\ handlerAt' = [handlerAt EXCEPT ![h] = "idle"]
  /\ carried' = [carried EXCEPT ![h] = NoEvent]
  /\ acked' = IF ok THEN acked \cup {carried[h]} ELSE acked

DeliverEvent(h, e) ==
  /\ handlerAt[h] = "idle"
  /\ e \notin acked
  /\ handlerAt' = [handlerAt EXCEPT ![h] = "insert"]
  /\ carried' = [carried EXCEPT ![h] = e]
  /\ UNCHANGED <<effect, ledger, applied, entitled, acked, webhookFaults>>

\* Mutant: the first delivery is taken for a duplicate of its own row.
RecordEventOnly(h) ==
  /\ handlerAt[h] = "insert"
  /\ NoWebhookFault
  /\ ledger' = [ledger EXCEPT ![carried[h]] = [status |-> "received", attempts |-> 0]]
  /\ AnswerWebhook(h, TRUE)
  /\ UNCHANGED <<effect, applied, entitled>>

\* INSERT ... ON CONFLICT DO NOTHING: a known event is a duplicate whatever its
\* status.  On an error the row may have been written.
RecordEvent(h) ==
  LET e == carried[h]
      new == ledger[e].status = "absent"
      taken == [ledger EXCEPT ![e] = [status |-> "received", attempts |-> 0]]
  IN  /\ handlerAt[h] = "insert"
      /\ \/ NoWebhookFault /\ new /\ ledger' = taken /\ HandlerGoes(h, "project")
         \/ NoWebhookFault /\ ~new /\ ledger' = ledger /\ AnswerWebhook(h, TRUE)
         \/ /\ WebhookFault("insert")
            /\ ledger' \in {ledger} \cup IF new THEN {taken} ELSE {}
            /\ AnswerWebhook(h, FALSE)
      /\ UNCHANGED <<effect, applied, entitled>>

\* grant and revoke: an upsert to active, an UPDATE of the provider's row.
Project(e) ==
  /\ applied' = Append(applied, e)
  /\ entitled' = IF effect[e] = "none" THEN entitled ELSE effect[e] = "grant"

\* apply_event; an event without effect cannot fail.
ApplyEvent(h) ==
  /\ handlerAt[h] = "project"
  /\ \/ NoWebhookFault /\ Project(carried[h]) /\ HandlerGoes(h, "processed")
     \/ /\ effect[carried[h]] # "none"
        /\ WebhookFault("project")
        /\ Project(carried[h]) \/ UNCHANGED <<applied, entitled>>
        /\ HandlerGoes(h, "failed")
  /\ UNCHANGED <<effect, ledger>>

\* mark_processed and mark_failed; their errors answer with a failure.
MarkEvent(h, status) ==
  LET marked == [ledger EXCEPT ![carried[h]] = [status |-> status, attempts |-> @.attempts + 1]]
  IN  /\ handlerAt[h] = status
      /\ \/ NoWebhookFault /\ ledger' = marked /\ AnswerWebhook(h, status = "processed")
         \/ WebhookFault("mark") /\ ledger' \in {ledger, marked} /\ AnswerWebhook(h, FALSE)
      /\ UNCHANGED <<effect, applied, entitled>>

\* The process is killed or the provider hangs up: the request is dropped.
DropRequest(h) ==
  /\ handlerAt[h] # "idle"
  /\ WebhookFault("drop")
  /\ AnswerWebhook(h, FALSE)
  /\ UNCHANGED <<effect, ledger, applied, entitled>>

HandlerStep(h) == RecordEvent(h) \/ ApplyEvent(h) \/ MarkEvent(h, "processed") \/ MarkEvent(h, "failed")

WebhookNext ==
  \E h \in Handlers : HandlerStep(h) \/ DropRequest(h) \/ \E e \in BillingEvents : DeliverEvent(h, e)

WebhookSpec == WebhookInit /\ [][WebhookNext]_webhookVars

\* The runtime polls every request to its end.
WebhookFairness == \A h \in Handlers : WF_webhookVars(HandlerStep(h))

-----------------------------------------------------------------------------
\* Properties

\* The ledger, the entitlement and the requests have their types.
WebhookTypeOK ==
  /\ effect \in [BillingEvents -> Effects]
  /\ ledger \in [BillingEvents -> [status : BillingEventStatus, attempts : Nat]]
  /\ applied \in Seq(BillingEvents)
  /\ entitled \in BOOLEAN
  /\ acked \subseteq BillingEvents
  /\ handlerAt \in [Handlers -> {"idle", "insert", "project", "processed", "failed"}]
  /\ carried \in [Handlers -> BillingEvents \cup {NoEvent}]
  /\ webhookFaults \in Seq(WebhookFaults) /\ Len(webhookFaults) <= MaxWebhookFaults

Applied(e) == \E i \in 1..Len(applied) : applied[i] = e

\* However often and however concurrently an event is delivered, and whatever
\* fails, it is projected at most once, and a later event is never undone by a
\* repetition of an earlier one.
AppliedOnce ==
  \A i, j \in 1..Len(applied) : i # j => applied[i] # applied[j]

\* A record marked processed stands for an event that was projected.
ProcessedWasApplied ==
  \A e \in BillingEvents : ledger[e].status = "processed" => Applied(e)

\* The provider is told that an event has arrived only when the event is
\* recorded: it was projected, is being projected, or a call or request of
\* its first delivery failed.
AckedIsHandled ==
  \A e \in acked :
    \/ Applied(e)
    \/ \E h \in Handlers : carried[h] = e /\ handlerAt[h] = "project"
    \/ webhookFaults # << >> /\ ledger[e].status \in {"received", "failed"}

\* An event takes effect at most once, and neither the record nor the answer to
\* the provider claims an effect it did not have.
EventsAreHandledOnce ==
  AppliedOnce /\ ProcessedWasApplied /\ AckedIsHandled

\* As long as nothing fails, every event that is delivered is projected.
EventuallyApplied ==
  <>[](\/ webhookFaults # << >>
       \/ \A e \in BillingEvents :
            (ledger[e].status # "absent" \/ \E h \in Handlers : carried[h] = e) => Applied(e))
=============================================================================
