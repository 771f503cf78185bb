------------------------- MODULE NotificationDelivery -------------------------
(***************************************************************************)
(* packages/notification and the outbound-delivery worker: notifications    *)
(* and webhook events become delivery jobs, and workers send the due ones   *)
(* with retries until they are delivered or dead-lettered.                  *)
(*                                                                         *)
(* A method of the in-memory outbox and registry holds one mutex, so it is  *)
(* one step; deliver_due and publish await between their calls.  A job's id *)
(* is its place in creation order.  Payloads and signatures are left out.   *)
(***************************************************************************)
EXTENDS Naturals, FiniteSets, Sequences

CONSTANTS
  DeliveryWorkers,  \* tasks that run deliver_due
  Crews,            \* the sets of workers that may be running
  Endpoints,        \* ids of webhook endpoints
  Owning,           \* tenants
  MaxAttempts,      \* RetryPolicy::max_attempts
  DeliveryLimit,    \* the limit deliver_due is called with
  MaxRegistrations, \* bound: registrations in a behaviour
  MaxWork,          \* bound: jobs and workers together when a notification is sent
  MaxAbandons       \* bound: deliver_due calls that end early

ASSUME DeliveryBounds ==
  /\ IsFiniteSet(DeliveryWorkers) /\ Crews \subseteq SUBSET DeliveryWorkers
  /\ MaxAttempts \in Nat \ {0} /\ DeliveryLimit \in Nat \ {0}
  /\ "notification" \notin Endpoints    \* DeliveryTarget is an enum

VARIABLES
  crew,       \* the workers that are running
  endpoints,  \* endpoint id -> [tenant, enabled], NoEndpoint when not registered
  registrations, \* registrations so far
  publisher,  \* the publish call: [tenant, todo, read, step]
  jobs,       \* the jobs in creation order
  worker,     \* worker -> the locals of its deliver_due call
  received,   \* job -> a transport call for it succeeded (history)
  abandons    \* deliver_due calls that ended early so far

deliveryVars == <<crew, endpoints, registrations, publisher, jobs, worker, received, abandons>>

DeliveryJobStatus == {"Pending", "InProgress", "Delivered", "Failed", "DeadLettered"}
NoEndpoint == [tenant |-> "none", enabled |-> FALSE]
NotANotice == "notification"
Idle == [batch |-> <<>>, step |-> "attempt", used |-> 0, ok |-> FALSE]

\* DeliveryJob::notification and DeliveryJob::webhook.
NewJob(target) == [target |-> target, status |-> "Pending", attempts |-> 0, due |-> TRUE]

\* Either the registry is empty and no worker runs yet, or a publication is
\* under way and workers run.
DeliveryInit ==
  /\ \/ /\ crew = {}
        /\ registrations = 0
        /\ endpoints = [e \in Endpoints |-> NoEndpoint]
        /\ publisher = [tenant |-> "none", todo |-> {}, read |-> {}, step |-> "ready"]
     \/ LET e == CHOOSE e \in Endpoints : TRUE
            it == [tenant |-> CHOOSE t \in Owning : TRUE, enabled |-> TRUE]
        IN  /\ crew \in Crews
            /\ registrations = MaxRegistrations
            /\ endpoints = [i \in Endpoints |-> IF i = e THEN it ELSE NoEndpoint]
            /\ publisher = [tenant |-> it.tenant, todo |-> {e}, read |-> {<<e, it>>}, step |-> "enqueue"]
  /\ jobs = <<>>
  /\ worker = [w \in DeliveryWorkers |-> Idle]
  /\ received = <<>>
  /\ abandons = 0

MaxJobs == MaxWork + Cardinality(Endpoints)

-----------------------------------------------------------------------------
\* Producers

\* InMemoryDeliveryOutbox::enqueue.
EnqueueJob(job) ==
  /\ jobs' = Append(jobs, job)
  /\ received' = Append(received, FALSE)

\* OutboxNotificationPort::send.  (The no-op port changes nothing.)
SendNotification ==
  /\ Len(jobs) + Cardinality(publisher.todo) + Cardinality(crew) < MaxWork
  /\ EnqueueJob(NewJob(NotANotice))
  /\ UNCHANGED <<crew, endpoints, registrations, publisher, worker, abandons>>

\* InMemoryWebhookRegistry::register: the endpoint's id alone is the key.
Register(e, tenant, enabled) ==
  /\ registrations < MaxRegistrations
  /\ registrations' = registrations + 1
  /\ endpoints' = [endpoints EXCEPT ![e] = [tenant |-> tenant, enabled |-> enabled]]
  /\ UNCHANGED <<crew, publisher, jobs, worker, received, abandons>>

\* endpoints_for_tenant.
EndpointsForTenant(tenant) == {e \in Endpoints : endpoints[e].tenant = tenant /\ endpoints[e].enabled}

\* publish, up to its look at the registry.
PublishRead(tenant) ==
  /\ publisher.step = "ready"
  /\ LET found == EndpointsForTenant(tenant)
     IN  publisher' = [tenant |-> tenant, todo |-> found, read |-> {<<e, endpoints[e]>> : e \in found}, step |-> "enqueue"]
  /\ UNCHANGED <<crew, endpoints, registrations, jobs, worker, received, abandons>>

\* The loop of publish: one enqueue per endpoint, in the map's order.
PublishEnqueue(e) ==
  /\ publisher.step = "enqueue" /\ e \in publisher.todo
  /\ publisher' = [publisher EXCEPT !.todo = @ \ {e}]
  /\ EnqueueJob(NewJob(e))
  /\ UNCHANGED <<crew, endpoints, registrations, worker, abandons>>

PublishReturn ==
  /\ publisher.step = "enqueue" /\ publisher.todo = {}
  /\ publisher' = [publisher EXCEPT !.step = "returned"]
  /\ UNCHANGED <<crew, endpoints, registrations, jobs, worker, received, abandons>>

-----------------------------------------------------------------------------
\* DeliveryWorker::deliver_due

\* Mutant: a failed job is not taken up again.
IsDuePending(job) == job.status = "Pending" /\ job.due

\* The filter of claim_due.
IsDue(job) == job.status \in {"Pending", "Failed"} /\ job.due

\* The oldest due jobs in order; a due job is left out only behind a full batch.
OldestDue ==
  LET due == {j \in DOMAIN jobs : IsDue(jobs[j])}
  IN  {batch \in UNION {[1..n -> due] : n \in 1..DeliveryLimit} :
         /\ \A a, b \in DOMAIN batch : a < b => batch[a] < batch[b]
         /\ \A j \in due : \/ \E a \in DOMAIN batch : batch[a] = j
                           \/ Len(batch) = DeliveryLimit /\ \A a \in DOMAIN batch : batch[a] < j}

\* claim_due: the oldest due jobs.  They are not marked, so another worker may
\* be given the same ones.
ClaimDue(w) ==
  \E batch \in OldestDue :
      /\ w \in crew /\ worker[w].batch = <<>>
      /\ worker' = [worker EXCEPT ![w] = [Idle EXCEPT !.batch = batch]]
      /\ UNCHANGED <<crew, endpoints, registrations, publisher, jobs, received, abandons>>

\* record_attempt.  The worker keeps the count it is told.
RecordAttempt(w) ==
  LET j == Head(worker[w].batch)
  IN  /\ worker[w].batch # <<>> /\ worker[w].step = "attempt"
      /\ jobs' = [jobs EXCEPT ![j].status = "InProgress", ![j].attempts = @ + 1]
      /\ worker' = [worker EXCEPT ![w].step = "deliver", ![w].used = jobs[j].attempts + 1]
      /\ UNCHANGED <<crew, endpoints, registrations, publisher, received, abandons>>

\* The transport answers: the receiver has the message when it answers Ok.
Deliver(w, ok) ==
  LET j == Head(worker[w].batch)
  IN  /\ worker[w].batch # <<>> /\ worker[w].step = "deliver"
      /\ worker' = [worker EXCEPT ![w].step = "settle", ![w].ok = ok]
      /\ received' = [received EXCEPT ![j] = @ \/ ok]
      /\ UNCHANGED <<crew, endpoints, registrations, publisher, jobs, abandons>>

\* Mutant: retries without end.
ShouldRetryAfterAlways(used) == used <= MaxAttempts

\* RetryPolicy::should_retry_after.
ShouldRetryAfter(used) == used < MaxAttempts

\* mark_delivered, mark_retry (due again after a delay) or mark_dead_lettered.
Settled(job, ok, used) ==
  CASE ok -> [job EXCEPT !.status = "Delivered"]
    [] ~ok /\ ShouldRetryAfter(used) -> [job EXCEPT !.status = "Failed", !.due = FALSE]
    [] OTHER -> [job EXCEPT !.status = "DeadLettered"]

\* The three arms that settle an attempt.
Settle(w) ==
  LET j == Head(worker[w].batch)
  IN  /\ worker[w].batch # <<>> /\ worker[w].step = "settle"
      /\ jobs' = [jobs EXCEPT ![j] = Settled(@, worker[w].ok, worker[w].used)]
      /\ worker' = [worker EXCEPT ![w] = [Idle EXCEPT !.batch = Tail(worker[w].batch)]]
      /\ UNCHANGED <<crew, endpoints, registrations, publisher, received, abandons>>

\* An error of the outbox leaves deliver_due through `?`, and a task may be
\* dropped at an await.
Abandon(w) ==
  /\ worker[w].batch # <<>> /\ abandons < MaxAbandons
  /\ abandons' = abandons + 1
  /\ worker' = [worker EXCEPT ![w] = Idle]
  /\ UNCHANGED <<crew, endpoints, registrations, publisher, jobs, received>>

\* RetryPolicy::next_delay has passed for a job.
DelayPasses(j) ==
  /\ ~jobs[j].due
  /\ jobs' = [jobs EXCEPT ![j].due = TRUE]
  /\ UNCHANGED <<crew, endpoints, registrations, publisher, worker, received, abandons>>

DeliverySteps(w) ==
  \/ ClaimDue(w) \/ RecordAttempt(w) \/ Settle(w)
  \/ \E ok \in BOOLEAN : Deliver(w, ok)

DeliveryNext ==
  \/ SendNotification \/ PublishReturn
  \/ \E e \in Endpoints, t \in Owning, enabled \in BOOLEAN : Register(e, t, enabled)
  \/ \E t \in Owning : PublishRead(t)
  \/ \E e \in Endpoints : PublishEnqueue(e)
  \/ \E w \in DeliveryWorkers : DeliverySteps(w) \/ Abandon(w)
  \/ \E j \in DOMAIN jobs : DelayPasses(j)

DeliveryFairness ==
  /\ \A w \in DeliveryWorkers : WF_deliveryVars(DeliverySteps(w))
  /\ \A j \in 1..MaxJobs : WF_deliveryVars(j \in DOMAIN jobs /\ DelayPasses(j))

-----------------------------------------------------------------------------
\* Properties

\* Jobs, workers and endpoints of the delivery outbox have their types.
DeliveryTypeOK ==
  /\ endpoints \in [Endpoints -> [tenant : Owning, enabled : BOOLEAN] \cup {NoEndpoint}]
  /\ jobs \in Seq([target : Endpoints \cup {NotANotice}, status : DeliveryJobStatus,
                   attempts : 0..(MaxAttempts * Cardinality(DeliveryWorkers)), due : BOOLEAN])
  /\ Len(jobs) = Len(received) /\ Len(jobs) <= MaxJobs
  /\ \A w \in DeliveryWorkers : worker[w].batch \in Seq(DOMAIN jobs)

IsSettled(job) == job.status \in {"Delivered", "DeadLettered"}

\* A job marked as delivered has reached its receiver, and a job is
\* dead-lettered only when the retry policy's attempts are used up, whichever
\* workers shared it and however their calls interleaved.
OutcomeIsTrue ==
  \A j \in DOMAIN jobs :
    /\ jobs[j].status = "Delivered" => received[j]
    /\ jobs[j].status = "DeadLettered" => jobs[j].attempts >= MaxAttempts

\* claim_due hands a job to every worker that asks, so the retry policy bounds
\* the attempts per worker and not per job; with one worker it is exact.
AttemptsBounded == \A j \in DOMAIN jobs : jobs[j].attempts <= MaxAttempts * Cardinality(crew)

\* A publish call that returned has made one job for each endpoint its tenant
\* had enabled when it read the registry, and none for another tenant's,
\* whatever was registered in the meantime.
FanOut ==
  publisher.step = "returned" =>
    /\ \A r \in publisher.read : r[2].tenant = publisher.tenant /\ r[2].enabled
    /\ \A e \in Endpoints :
         Cardinality({j \in DOMAIN jobs : jobs[j].target = e}) = IF \E r \in publisher.read : r[1] = e THEN 1 ELSE 0

\* One job for each endpoint that was to be told, attempted as often as the retry
\* policy allows, and with the outcome its attempts had.
DeliveriesAreTrue ==
  OutcomeIsTrue /\ AttemptsBounded /\ FanOut

\* While workers run and no deliver_due call ends early, every job is settled in the end and
\* stays so, also when workers share jobs.
EveryJobSettles == <>[](crew = {} \/ abandons > 0 \/ \A j \in DOMAIN jobs : IsSettled(jobs[j]))
=============================================================================
