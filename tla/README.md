# Verification of axum-harness

TLA+ models of the axum-harness backend and of the tooling around it, checked with TLC on small instances and, for nearly all safety properties, proved with TLAPS for every instance. Every definition that stands for code is listed with its source lines in `PROJECT.json` under `map`; the hazards the properties answer to are under `hazards`.

## 1. The system and its inventory

A request enters through the web BFF, passes token verification, tenant resolution, authorisation and a commercial guard, changes a counter, and leaves an event in an outbox table. Workers carry the event on. Around this chain there are services with protocols of their own, and the tools that generate, check, configure and start a deployment.

```
client -> web-bff: entitlement, quota reserve -> counter-service -> quota commit, usage, audit, cache
                                                     | one transaction
                             counter + counter_idempotency + event_outbox
                                                     |
          outbox-relay (claim, publish, mark, checkpoint) -> NATS event bus + PubSub mirror
                                                     |                    |
          projector: replay event_outbox, then poll it or tail NATS -> counter_projection
payment provider -> web-bff billing webhook -> ledger -> entitlements
first login -> tenant-service, user-service -> user_tenant, authorisation tuples
```

| component | state | what is hard about it | module |
| --- | --- | --- | --- |
| counter-service, libSQL | `counter`, `counter_idempotency`, `event_outbox` | value and delta computed from a row read before the transaction; CAS retries; racing idempotency keys; dropped tasks | `CounterService`, `AtomicCounter` |
| counter-service, SurrealDB | the same tables | four requests, no transaction | `SurrealCounter` |
| outbox-relay | row status, claims, dedupe set, checkpoint | a failure or a kill between any two calls; two replicas over shared stores | `OutboxRelay` |
| worker-runtime stores | checkpoint, idempotency, dedupe | check-then-upsert claims; a torn file; maps lost at restart | inside `OutboxRelay`, `Projector` |
| projector | `counter_projection`, checkpoint, subscription | replay and live events overlap; kill between apply and advance | `Projector` |
| web-bff counter use cases, commercial stack | cache, request tasks, limits, reservations, usage | insertion after invalidation; early returns; disconnects; checks at the limit | `BffCounter` |
| billing webhook | event ledger, entitlements | redelivery, concurrent deliveries, half-done first delivery | `BillingWebhook` |
| runtime adapters | in-memory queue, lock, state | late release of an expired lock; hidden messages; stale writes | `MemoryQueue`, `MemoryLock`, `MemoryState` |
| notification delivery, outbound-delivery worker | delivery jobs, webhook registry | claim_due does not claim; InProgress is never taken up again | `NotificationDelivery` |
| tenant-service, user-service, authorisation | tenants, users, bindings, tuples | racing first logins; a failure between two statements; two services over one table | `Onboarding` |
| auth-service | sessions, tokens | the session is looked up by another id than it is stored under; refresh after logout | `Sessions` |
| AI invocation, bot channel, admin operations | reservations, meter, trace, audit | one ledger, three callers; order of usage, commit and record when one fails | `GuardedUse` |
| indexer worker, in-memory pub/sub | sinks, cursors, subscriptions | a sink that fails between two others; a cycle that starts over | `Indexer` |
| OIDC verifier | discovery and key caches | a key set fetched early is stored late; caches never expire | `OidcVerifier` |
| generated artifacts, golden baselines | directories of files | a command interrupted between two copies | `GeneratedArtifacts` |
| background development workers | processes, pid files | killed tool, torn pid file, reused pid | `DevWorkers` |
| operations commands | targets outside the repository | failure half way, rerun | `OpsCommands` |
| deployable secrets | own and shared secrets, exported environments | stale exports, overriding secrets | `DeployableSecrets` |
| platform validators | the platform model | which check catches what, and in which order | `PlatformValidators` |
| repository gates | the working tree | edits while a gate runs; errors against warnings | `RepoGates`, `Reports` |
| agent routing and handoff | changed paths, the routing and boundary manifests | prefixes against globs, order of dispatch | `AgentRouting` |
| web-bff configuration and bootstrap | settings, schemas, wired adapters | starts that fail half way beside another process | `BffBootstrap` |

What is not modelled is in section 6.

## 2. The models

Conventions: an await on another component (a statement, a store, NATS, the counter service) is a step of its own, so other tasks, a failed call, a disconnect or a kill can come between any two. A failing call is a fault of a kind; a constant says which may fail and how many do. When a write fails, the model takes both outcomes where the code cannot tell them apart. Log output, timestamps, wording, hashes and JSON are abstracted. Payloads are model values or numbers that identify them. A definition whose comment starts with "Mutant" is a plausible mistake in the definition that follows it, used to show that a property can fail; no specification uses it.

### The counter chain

**CounterService.** One task per client: `Call` starts a request, `Load` reads the row, `PrecheckMiss`/`PrecheckHit` look at the idempotency row outside the transaction, `TxCommit`, `TxKeyTaken`, `TxCasRetry` and `TxCasGiveUp` are the transaction (one step: the embedded adapter opens it with BEGIN IMMEDIATE on its own connection and rolls back when dropped), `Recheck` is the second look after a reserved key, `DbError` and `Leave` are a failed call and the end of the request. `seen` is the row a task loaded, `memo` the committed idempotency rows.

**AtomicCounter** is what the service promises, without versions to compare or retries: every accepted call takes effect in one step between call and reply. `CounterService` implements it with the mapping "a running task is pending". `BffCounter` uses it as the counter service.

**SurrealCounter** extends `CounterService` with the other repository: `commit_mutation` is the sequence compare, row, outbox entry, idempotency row, each a request that may fail or be the last one.

**OutboxRelay.** `status` is event_outbox by sequence; `bus` and `mirror` count the sends of an entry; `idem`, `dedupe`, `checkpoint` are the stores and `disk` what a restart loads. The labels of `pc` follow `main.rs`: fetch, dedupe filter, claim, start, publish, mirror, mark, complete, fail, advance. A behaviour has one `deployment`: its replicas, libSQL stores (survive a kill, seen by all replicas) or the local fallback (only the checkpoint file survives, possibly torn), and its faults.

**Projector.** An event is its sequence; a tenant's events carry versions 1, 2, 3, ..., which is `OutboxIsHistory` of `CounterService`. `view` is the version the read model shows. `Tails` lists the deployments (with or without NATS), chosen in `Init`. The relay of this model sends each event once and in order: the reordering found below needs no more than that.

**BffCounter.** `reservations`, `usage`, `limits` and `entitled` are the commercial tables, `task` holds the local variables of a request, `payment` remembers under which reservation a request was made (history), `acked` what a client was told (history). `Disconnect` drops a request at any await; a call already made to the counter service may still take effect.

### The services beside it (`PlatformServices`)

They share no state with each other, so a behaviour of `PlatformServices` exercises one of them, chosen in `Init` and never changed; the state of the others does not move. `RuntimeAdapters` does the same for the three adapters.

- **NotificationDelivery.** `SendNotification` and the publish steps make jobs; `ClaimDue`, `RecordAttempt`, `Deliver`, `Settle` are `deliver_due`, by one or two workers; `Abandon` is an error or a dropped task in between.
- **Onboarding.** A login comes through one of two doors: tenant-service behind `POST /api/tenant/init`, which also seeds four authorisation tuples one by one, or user-service. `binding` is `user_tenant` with its unique key.
- **Sessions.** A clock, the sessions table and the set of tokens handed out; `oauthAt` and `loggedOut` are history.
- **GuardedUse.** `Invoke`, `Dispatch` and `Execute` as sequences of port calls around one quota ledger whose limit may change.
- **BillingWebhook.** `ledger` is the event ledger, `applied` the projected events in order (history), `acked` the events answered with 200. The provider redelivers until then, in any order and concurrently.
- **MemoryQueue, MemoryLock, MemoryState.** A method runs under one lock, so it is one step; the exceptions are the loop of `acquire` and the release a dropped guard spawns. `abandoned` remembers the messages nobody will settle any more (history). Time is one number, `old`: the tokens up to it are past their TTL.
- **Indexer.** One cycle pulls all sources, writes every event to every sink, publishes, and sets cursors; `indexerAt` is where it is. A pull or a write may fail and ends the cycle. main registers one empty memory source; the model takes what the traits allow and the crate's tests register.
- **OidcVerifier.** The issuer rotates keys; a request reads the caches, fetches and stores with awaits in between, including the second refresh of `decode_jwt`; `steady` remembers whether the token's key was published throughout (history).

### What prepares a deployment (`Tooling`)

Composed in the same way, one part per behaviour.

- **GeneratedArtifacts.** A file is the version of the sources it was made from. Generators, `commit-golden-baseline` file by file (without the SDK where gen-sdk is not there), `verify-generated-artifacts`.
- **DevWorkers.** `dev worker start` and `stop` step by step over pid files, truncated before they are written.
- **OpsCommands.** A command is its script of checks, calls and effects; one interpreter runs it and every step may fail.
- **DeployableSecrets.** An entry is absent, unusable or a database; `export-env`, `run` and `verify-counter-db-credentials`.
- **PlatformValidators, RepoGates.** The thing validated (model, tree) is a record of what the validators read, edited one thing at a time. A validator is the set of issues it reports, `Reports!StatusOk` the exit code they mean. Gates run their checks one after the other while the tree is edited.
- **AgentRouting.** A path and a pattern are sequences of segments; `route-task` and `verify-handoff` look at staged paths, or at unstaged ones when none is staged. The rules and boundaries are those of `agent/manifests/routing-rules.yml` and `agent/codemap.yml`, cut to the paths of the instance.
- **BffBootstrap.** Two processes of a rolling update read the settings, pass the runtime guard, migrate statement group by statement group and wire their adapters; any statement may fail, and the supervisor starts the process again.

## 3. The runs

| run | instance | distinct states | shows |
| --- | --- | --- | --- |
| `counter` | 1 tenant, 2 clients, 1 key, 1 retry, 3 requests | 250,128 | the outbox is each counter's gapless history; keys and requests apply once; replies are true; refinement of `AtomicCounter`; every task ends |
| `relay` | 1 relay, local stores, 3 rows, 2 faults; and 2 relays, shared stores, 2 rows, 1 fault; batch 2 | 229,378 | marks, checkpoint and dedupe entries tell the truth; sends are in order and repeated only after faults; at-least-once if no claim, publish or settle fails |
| `projector` | 2 tenants, 4 events, batch 2, 2 faults, both deployments | 448,705 | the checkpoint is earned and never skips; the view catches up |
| `bff_counter` | 1 tenant, 2 clients, 1 key, 2 requests, quota 1 or 2, 1 fault | 439,224 | every change has a reservation of its own within the quota, no reservation is metered twice; reservations settle |
| `platform_services` | two or three concurrent actors per service, 1 or 2 faults | 187,096 | section 4 |
| `tooling` | 2 edits, 2 commands, 2 workers with 3 pids, 2 starting processes with 1 fault | 395,559 | section 4 |
| `surreal_commit` (violation) | as `counter` | | a task dropped after the row leaves a change without its event |
| `relay_skips` (violation) | 1 failing publish | | a failed row is passed by the checkpoint |
| `relay_stranded` (violation) | 1 kill, shared stores | | a claim left in progress strands its row |
| `projector_live_restart` (violation) | 2 tenants, 1 kill | | an old live event survives the restart |
| `bff_stale_read` (violation) | resets, no faults | | a read caches an older row after an acknowledged reset |
| `sessions_validate` (violation) | 1 user | | the session of an authenticated user is not found |

Why the bounds are enough to be interesting. The counter hazards need two tasks on one counter, a shared key, and one more request than retries so that a task gives up. The relay hazards need a batch with an entry before and after the failing one, and one entry beyond the batch. The projector needs two tenants whose events interleave in a log longer than a batch. The quota needs one unit and two requests; limit 2 lets both through. The lock needs a third owner that takes over from an expired one while the first one's release is pending. Onboarding needs two logins of one user and a third call to repair what a failure left. The indexer needs two sinks and two failures, so that a second cycle fails elsewhere. The verifier needs two requests and one rotation, so that an old key set can overwrite a newer one. The tools need each interrupted command to be run once more, a pid to be reused, and two edits to combine. One fault reaches every single failure; two let a failure hit the recovery from another one.

The six violation runs contradict statements of the repository, quoted under `findings` in `PROJECT.json`. The passing relay and projector properties name the conditions those runs show to be needed (`Never(...)`), so that they say exactly how far the promise goes.

Deadlock is checked in the runs of the counter, the relay and the BFF, which have a step in every state. The live projector with nothing left to receive, the services whose callers are done, and the tools at their bounds may stop.

### Fairness

- Request tasks of the counter service, the BFF and the webhook, and delivery workers: weak fairness of a task's steps. The tokio runtime polls every ready task; no step of a task waits for another task. A job's retry delay passes.
- Relay and projector: weak fairness of the loop and of restarts; faults are finitely many because their number is bounded. The supervisor that restarts the process is assumed, for `BffBootstrap` too.
- Queue: consumers poll. Lock: time passes, and a waiting `acquire` wakes every 50 ms.

No fairness is assumed of clients, of the payment provider, of new events, of operators, or of failures.

## 4. The properties

A property that stands for one promise of a component is a conjunction of named parts, each with its own comment in the module; a run reports the promise. The mutant of a promise in `PROJECT.json` breaks it through one of its parts (the last column); it is no evidence that the other parts of the promise can fail.

| promise | parts | broken by its mutant |
| --- | --- | --- |
| `OutboxIsHistory` | `OutboxOrdered`, `OutboxChain`, `OutboxMatchesCounter` | an event with the loaded version |
| `AppliedAtMostOnce` | `KeyAppliedOnce`, `RequestAppliedOnce` | a conflict that is not rolled back |
| `RepliesAreTrue` | `ReplyIsBacked`, `GivesUpOnlyUnderContention` | a fingerprint without the operation |
| `RecordsAreTrue` | `PublishedWasSent`, `ProcessedIsPublished` | an ignored error of the mark |
| `SendsAreOrderly` | `ResendsArePaidFor`, `FirstSendsInOrder` | a vector that is not emptied after its loop |
| `CheckpointIsEarned` | `CheckpointIsCovered`, `CheckpointNeverSkips` | an ignored error of apply |
| `PaidWithinQuota` | `QuotaHolds`, `AppliedIsPaid`, `UsageIsCommitted` | a reservation released after a change |
| `DeliveriesAreTrue` | `OutcomeIsTrue`, `AttemptsBounded`, `FanOut` | one retry too many |
| `AnsweredIsOnboarded` | `AnswersAgree`, `AnsweredMayUse`, `OrphansAreFailures`, `BoundHasUserRow` | seeding that stops at the first tuple found |
| `TokensEnd` | `ValidatesWithinTtl`, `LogoutHolds` | a refresh that prolongs the session |
| `CallsAreAccounted` | `NeverOverbooked`, `ChargedForWork`, `OpenIsRunningOrEnded`, `AnsweredIsRecorded` | open reservations not counted |
| `EventsAreHandledOnce` | `AppliedOnce`, `ProcessedWasApplied`, `AckedIsHandled` | 200 for a failed delivery |
| `QueueDiscipline` | `OneConsumer`, `FirstDeliveriesInOrder`, `HiddenIsHeldOrAbandoned` | a dequeued message left visible |
| `AdaptersProgress` | `UndelayedIsDelivered`, `EntryGivesWay` | a lock entry without a TTL |
| `DriftVerdictIsTrue` | `CommitMakesVerifyPass`, `NoTornBaseline` | generated files missing from the baseline are not drift |
| `NoStrayWorker` | `OneInstance`, `StopStops` | no search by name |
| `OutcomeTellsEffects` | `DryRunTouchesNothing`, `RefusalTouchesNothing`, `SuccessIsComplete` | a failed effect that is passed over |
| `DoctorVouches` | `PassedGraphIsLayered`, `PassedModelResolves`, `SilentDoctorIsComplete` | statuses that are not held against each other |
| `GatesVouch` | `PassedGateVouches`, `StrictPassIsClean`, `BaselineIsNewest` | contradicting owners that are not reported |
| `ServingIsSound` | `ServingHasItsTables`, `ProductionIsReal` | commercial tables that are not created |

On their own stand `ImplementsAtomicCounter`, `GuardIsExclusive`, `NoLostUpdate`, `PublishedKeyIsAccepted`, `IndexIsConsistent`, `OneDatabase`, `RouteIsComplete`, a type invariant per run, and the liveness properties `RequestTerminates`, `AtLeastOnce`, `CatchesUp`, `ReservationsSettle`, `EveryJobSettles`, `EventuallyApplied` and `EveryServerServes`.

## 5. The proofs

The proofs are in eight modules. Every theorem holds for any sets of tenants, clients, tasks, events, relays, owners or files and any bounds; the assumptions on constants are named in the module that declares them and evaluated by TLC on the instances. Each theorem states a property that a run also checks on its instance.

| theorem | property | module proved about | proof module |
| --- | --- | --- | --- |
| `TypeCorrect`, `OutboxCorrect`, `OnceCorrect`, `ReplyCorrect` | `TypeOK`, `OutboxIsHistory`, `AppliedAtMostOnce`, `RepliesAreTrue` | `CounterService` | `CounterServiceProofs` |
| `Refinement` | `ImplementsAtomicCounter` (safety part) | `CounterService` | `CounterServiceProofs` |
| `RelayCorrect`, `SendsCorrect` | `RecordsAreTrue`, `SendsAreOrderly` | `OutboxRelay` | `OutboxRelayProofs` |
| `ProjectorCorrect` | the action property `CheckpointIsEarned` | `Projector` | `WorkerProofs` |
| `DeliveryCorrect` | `DeliveriesAreTrue` | `NotificationDelivery` | `WorkerProofs` |
| `QuotaCorrect` | `PaidWithinQuota` | `BffCounter` | `BffCounterProofs` |
| `SessionsCorrect`, `VerifierCorrect` | `TokensEnd`, `PublishedKeyIsAccepted` | `Sessions`, `OidcVerifier` | `AccountProofs` |
| `BillingCorrect`, `GuardedCorrect` | `EventsAreHandledOnce`, `CallsAreAccounted` | `BillingWebhook`, `GuardedUse` | `AccountProofs` |
| `OnboardingCorrect` | `AnsweredIsOnboarded` | `Onboarding` | `PlatformProofs` |
| `IndexerCorrect` | `IndexIsConsistent` | `Indexer` | `PlatformProofs` |
| `LockCorrect`, `StateCorrect`, `QueueCorrect` | `GuardIsExclusive`, the action property `NoLostUpdate`, `QueueDiscipline` | the memory adapters | `PlatformProofs` |
| `WorkersCorrect`, `SecretsCorrect` | `NoStrayWorker`, `OneDatabase` | `DevWorkers`, `DeployableSecrets` | `ToolingProofs` |
| `BootstrapCorrect`, `OpsCorrect` | `ServingIsSound`, `OutcomeTellsEffects` | `BffBootstrap`, `OpsCommands` | `ToolingProofs` |
| `ArtifactsCorrect`, `GatesCorrect`, `DoctorCorrect` | `DriftVerdictIsTrue`, `GatesVouch`, `DoctorVouches` | `GeneratedArtifacts`, `RepoGates`, `PlatformValidators` | `ValidatorProofs` |

Theorems about a part of `PlatformServices` or `Tooling` are about the part's own specification. The composition, which the runs check, takes the steps of one part's next-state relation at a time and leaves the variables of the others alone.

**Counter service.** Assumptions: `NoKey` is not a key; the two bounds are naturals. The inductive invariant `IInv` adds four facts that the properties need and do not state: `SeenIsPast` (a loaded row with the current version has the current value, because versions only grow: this turns the CAS into agreement), `RequestsNumbered` (a running request has no event yet), `KeysRemembered` (a key that moved a counter has its row) and `RetriesPaid` (each retry saw another commit). `CommitAgrees` shows that at COMMIT the loaded row is the stored row; `CommitDb` and `CommitTask` re-establish the two halves of the invariant for the one action that writes tables; `LocalStep` and `AnswerTask` cover the steps that only change one task. In the refinement COMMIT is the abstract `Mutate`, an answer is an abstract answer, and everything else stutters.

**Relay.** Assumptions: the batch size is positive, and a deployment with local stores has one replica. `RecordsAreTrue` compares the stores with the bus, but what reaches the stores comes out of the local vectors of a cycle, so `RelayInv` says what a relay knows at each place of it: `JobFacts` (a success was sent, and after the UPDATE it is marked; the rest of the batch is behind what was kept of it) and `StoreFacts`. For `SendsAreOrderly` the lone replica needs more (`LocalInv`): a claim stands until it is settled (`HeldJob`); an entry that may still be claimed has had at most as many sends as there were faults (`PaidBy`); and as long as no claim, publish or settlement failed, every entry before one that was sent or is in the relay's hands was sent or is in its hands too (`Ordered`). The last one is what the order in which the cycle fetches, filters and claims is for.

**Projector.** Assumption: the batch size is positive. `CheckpointIsEarned` speaks of the checkpoint; what keeps it true is where the worker stands. `Place` says that the batch in hand is a run of consecutive events that starts at most one above the checkpoint, whatever failed before; `Written`, that the row just written shows its version; `Exact`, that without a failed read of the checkpoint the batch starts exactly one above it and everything up to it shows.

**Delivery.** Several workers may take the same job. `WithinBudget` bounds its attempts by an account: the attempts made, those that the claims in hand still allow, and those of every time the job can become due again stay within `MaxAttempts` per worker. `Published` says which endpoints a publication in progress has told.

**BFF.** Assumptions: limits and bounds are naturals. `LedgerInv` ties each request to its reservation: `TicketOf` says what the row of a request in each of its states is (reserved and not yet paid with, paying for the call in flight, without effect when it is released), `OwnTickets` that two requests never hold the same row, `PaysOnce` that no two calls and no two outbox entries are paid by one row. With them a release can never free a unit that an accepted change used, whatever step failed or whichever request was dropped.

**Accounts.** Sessions: the row a validation finds is the one of the last OAuth login, with its expiry (`LoginRows`); generated ids are assumed to differ from users' subs. Verifier: a request whose key has been published throughout has it in the set it fetched (`Knows`), however late that set is stored. Billing: one request at a time is past the insert of an event (`OneOwner`), and it knows whether the event has been applied (`HandlerKnows`, `RowKnows`). AI and bot calls: `Accounted` says what a call has reserved, metered and recorded at each of its steps, and `Booked` that the ledger's sums are those of its rows.

**Onboarding.** What the tables hold for each call in flight (`Known`), and one count, `TenantsCounted`, in which every tenant is bound, about to be bound, or left over by a failure.

**Adapters.** The lock needs that a token has one owner and that a token being released has none (`LockInv`): then a late release removes no newer entry. The state store needs that, until a delete, a copy is the stored entry or an older version of it (`StateInv`). The queue needs ids that are unique across queues and already issued, for what consumers hold and for what they abandoned, and that a hidden message was delayed or dequeued before (`QueueIds`, `QueueVisibility`).

**Indexer.** Assumption: there is a source and a sink. `CycleInHand` says how far the cycle has come: the batch holds everything of the sources pulled so far (`Pulled`), every sink has the events before the current one and every sink before the current one has that too (`SunkBefore`), and what was published was in every sink.

**Tools.** Workers: a process that runs and was not told to stop is the one its pid file names (`Supervised`), and where a command is in its list (`CommandInHand`, `StopInHand`). Bootstrap: `Wired` says what a server that has passed each step of its start finds in the database; another server's start only adds to it (`Grows`). Operations: the scripts are shown to make their checks before their effects, apart from those that do not (`ChecksFirst`, `Unchecked`), and `OpsInv` follows a script's progress (`Taken`). Artifacts: `Settled` and `CopyInHand` follow commit-golden-baseline through the files of a directory; what an interrupted copy leaves is caught by the comparison. Gates: `RanBefore` and `RanAll` say which checks have passed on the tree as it stands. Validators: without a cycle the number of services that a service reaches is a ranking (`GraphLayers`, for any finite set of names).

Only model-checked, with the reason:

- the liveness properties: the prover has no reasoning about fairness and ENABLED;
- the type invariants of `BffCounter`, `OutboxRelay` and `Projector` as theorems of their own, and those of `PlatformServices` and `Tooling`, which are conjunctions over all parts: the inductive invariants contain the types they need;
- `RouteIsComplete` (agent routing): it is about finite tables that TLC evaluates completely.

## 6. Not modelled

- Surface validators (contracts, command taxonomy, agent manifests): each reads one set of files once and reports what its condition says; a property of a passed check would restate that condition.
- Scheduler and sync-reconciler: stub loops; the queue and the lock they create are `MemoryQueue` and `MemoryLock`.
- Workflow, invocation, binding and secret adapters, the in-memory event bus, feature flags, product analytics, the inbound webhook ledger: registries and appends under one lock, without a protocol between calls; no operation completes a workflow.
- The turso cloud replica: a cloud transaction neither pulls nor pushes, and what becomes of two replicas with local commits is decided in a library. It is a hazard no property covers.
- Gateway, audit log, SDKs, contracts, kernel: stateless, appends nobody reads, data types.
- Inside the modelled parts: embedded libSQL is taken to serialise transactions as SQLite documents; NATS core is a hand-over that either happened or failed (a message lost inside the client's buffer is a hazard no property covers); eviction from full local stores (10,000 and 50,000 entries) is left out; i64 overflow is out of reach of the counters; signatures and cryptography belong to libraries; validators that match text in source files are reduced to found or not found.

## 7. Observations

Behaviour met while modelling that the properties exclude or state as it is. Two of them contradict a text of the repository:

- The in-memory queue ignores the visibility timeout (adapters/memory/queue.rs:81), while the port says that a message that is not acknowledged becomes visible again after it (ports/queue.rs:115-116). `QueueDiscipline` states the half that is kept and how far the other one goes: what is hidden is held, or was abandoned by a consumer that stopped, a nack without requeue or a failed conversion, and then it stays hidden.
- `verify-handoff` looks for a boundary as literal text (handoff.rs:120-122), while codemap.yml writes globs. A boundary with a wildcard matches no path, and a path that matches nothing is accepted, so nothing is blocked and the command prints that all modified files "are within writable boundaries" (handoff.rs:69-71) of whatever was changed. No property is stated about the verdict: as the codemap stands it is always the same.

No document contradicts the others:

- With `APP_STORE_PROVIDER=surrealdb` and no libSQL database the process serves, but `/readyz` never becomes ready, and the audit log is in memory (state.rs:156).
- Outside production, Creem billing with a commercial mode other than `local_real` has no entitlements table: the webhook's grants fail. `ServingHasItsTables` claims the table for production only.
- With two delivery workers an outcome is not final: a failed attempt that settles late takes a delivered job back to Failed.
- `verify-generated-artifacts` skips a directory that is empty or cannot be regenerated and still prints that there is no drift (platform.rs:597); `NoTornBaseline` names both conditions.
- A counter request that replays an idempotency key changes nothing, and is reserved, committed and metered like a new one (application/counter.rs:141, commercial.rs:245-276): tenants pay for requests. A request whose client leaves between reserve and commit keeps its reservation for ever: the guard has no Drop.
- A delivery of a billing event that failed after it was recorded is acknowledged when it comes again and not projected; `AckedIsHandled` counts it as handled, and `EventuallyApplied` is stated without failures.
- The indexer writes an event again to the sinks that had it when a cycle failed, and always writes its checkpoint entry with version 1, which the state adapter takes twice and refuses from then on.
- `compare_version_tags` takes the digit of a pre-release for a fourth number, so v1.0.0-rc.1 counts as newer than v1.0.0 (template.rs:184-195); `BaselineIsNewest` looks at major and minor numbers only.
- A gate reads the tree while it is edited: `PassedGateVouches` is about what was not edited meanwhile.
- The dependency graph reads the key `dependencies`, which the schema of services does not have.
- A pid file is not tied to the identity of its process, and a failed `template init` leaves the worktree as far as it got (template.rs:286); where the release anchor is not found it is left as it is.
- The OIDC caches never expire: a retired key is accepted until a refresh for another reason.
