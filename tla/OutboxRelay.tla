----------------------------- MODULE OutboxRelay -----------------------------
(***************************************************************************)
(* The outbox-relay worker: it polls event_outbox, claims entries in the   *)
(* idempotency store, hands them to the event bus and to the PubSub        *)
(* mirror, marks the rows published and advances its checkpoint.           *)
(*                                                                         *)
(* Every call to the database, to a worker store and to NATS is a step of  *)
(* its own, so a step of another replica, a failed call or a crash can     *)
(* come between any two.  An entry is its sequence number in event_outbox. *)
(***************************************************************************)
EXTENDS Naturals, Sequences, Functions

CONSTANTS
  Relays,      \* replicas of the worker
  BatchSize,   \* config.batch_size
  MaxEvents,   \* bound: rows written to event_outbox
  Deployments  \* the ways the worker is deployed, see Deployment

FaultKinds == {"poll", "claim", "publish", "mark", "settle", "advance", "crash"}

\* replicas: how many run; shared: the stores are libSQL tables or the local
\* fallback, which keeps its maps inside one process; faults: the calls that
\* may fail; events, failures: bounds on rows, and on failed calls and crashes.
Deployment == [replicas : SUBSET Relays, shared : BOOLEAN, faults : SUBSET FaultKinds, events : 0..MaxEvents, failures : Nat]

ASSUME BoundsAssumption == BatchSize \in Nat \ {0} /\ MaxEvents \in Nat
ASSUME DeploymentAssumption ==
  /\ Deployments \subseteq Deployment
  /\ \A d \in Deployments : ~d.shared => \E r \in Relays : d.replicas = {r}

VARIABLES
  deployment,  \* how the worker is deployed
  status,      \* event_outbox: the status of each row, by sequence
  bus,         \* times each entry was handed to the event bus
  mirror,      \* times each entry was handed to the PubSub mirror
  idem,        \* idempotency store: status of each entry's key
  dedupe,      \* dedupe store: the entries marked processed
  checkpoint,  \* what CheckpointStore::get returns
  disk,        \* the value a restarted worker loads
  pc,          \* where each relay is in its loop
  job,         \* the local variables of the poll cycle
  faults       \* the failed calls and crashes so far, oldest first

stores == <<idem, dedupe, checkpoint, disk>>
vars == <<deployment, status, bus, mirror, stores, pc, job, faults>>

Shared == deployment.shared
Replicas == deployment.replicas

Entries == 1..MaxEvents
IdemStatus == {"unknown", "in_progress", "completed", "failed"}
Pcs == {"sleep", "fetch", "dedupe", "claim", "start", "publish", "mirror",
        "complete", "fail", "advance", "load", "store"}

\* since: the checkpoint polled with; queue: what the running loop has left;
\* out: what it has kept; wins, losses: the results of publish_batch; seen:
\* the checkpoint mark_processed compares with.
Job == [since : 0..MaxEvents, queue : Seq(Entries), out : Seq(Entries),
        wins : Seq(Entries), losses : Seq(Entries), seen : 0..MaxEvents]
NoJob == [since |-> 0, queue |-> << >>, out |-> << >>, wins |-> << >>,
          losses |-> << >>, seen |-> 0]

Init ==
  /\ deployment \in Deployments
  /\ status = << >>
  /\ bus = [e \in Entries |-> 0]
  /\ mirror = [e \in Entries |-> 0]
  /\ idem = [e \in Entries |-> "unknown"]
  /\ dedupe = {}
  /\ checkpoint = 0
  /\ disk = 0
  /\ pc = [r \in Relays |-> "sleep"]
  /\ job = [r \in Relays |-> NoJob]
  /\ faults = << >>

-----------------------------------------------------------------------------
\* Helpers

\* A call of the given kind fails.
Fault(kind) ==
  /\ kind \in deployment.faults
  /\ Len(faults) < deployment.failures
  /\ faults' = Append(faults, kind)
NoFault == UNCHANGED faults

Go(r, label, fields) ==
  /\ pc' = [pc EXCEPT ![r] = label]
  /\ job' = [job EXCEPT ![r] = fields]

Next1(r) == Head(job[r].queue)
Rest(r) == Tail(job[r].queue)
HasWork(r, label) == pc[r] = label /\ job[r].queue # << >>
LoopOver(r, label) == pc[r] = label /\ job[r].queue = << >>

Rows == 1..Len(status)

\* WHERE status IN ('pending','failed') AND sequence > ?.  Nothing sets status
\* to failed, and retry_count is never raised.
Due(since) == {e \in Rows : status[e] = "pending" /\ e > since}

\* ORDER BY sequence LIMIT ?: due rows in order, and a due row is left out only
\* behind a full batch.
PendingRows(since) ==
  {rows \in UNION {[1..n -> Due(since)] : n \in 0..BatchSize} :
     /\ \A i, j \in DOMAIN rows : i < j => rows[i] < rows[j]
     /\ \A e \in Due(since) \ Range(rows) :
          Len(rows) = BatchSize /\ \A i \in DOMAIN rows : rows[i] < e}

\* Mutant: the row after the checkpoint is skipped.
PendingOffByOne(since) == PendingRows(since + 1)

\* fetch_pending: the one result the query has.
Pending(since) == PendingRows(since)

\* LibSqlIdempotencyStore: check, and the statuses start refuses.
StartRefused(e) == idem[e] \in {"in_progress", "completed"}

\* The upserts of start, complete and fail replace whatever is there.
SetStatus(e, outcome) == idem' = [idem EXCEPT ![e] = outcome]

\* LibSqlDedupeStore
IsDuplicate(e) == e \in dedupe
MarkProcessed(e) == dedupe' = dedupe \cup {e}

\* What a killed worker finds again.  The maps of the local fallback are gone;
\* its checkpoint is read from the file, which holds nothing readable (taken
\* for the initial 0) when the kill fell into fs::write.
Reload(r) ==
  IF Shared
  THEN UNCHANGED stores
  ELSE /\ idem' = [e \in Entries |-> "unknown"]
       /\ dedupe' = {}
       /\ disk' \in IF pc[r] = "store" THEN {disk, 0} ELSE {disk}
       /\ checkpoint' = disk'

-----------------------------------------------------------------------------
\* The steps of a relay

\* counter-service commits a mutation: one more row.
Append1 ==
  /\ Len(status) < deployment.events
  /\ status' = Append(status, "pending")
  /\ UNCHANGED <<bus, mirror, stores, pc, job, faults>>

\* poll_cycle loads the checkpoint; an error is taken for 0.
PollCheckpoint(r) ==
  /\ pc[r] = "sleep"
  /\ \/ NoFault /\ Go(r, "fetch", [NoJob EXCEPT !.since = checkpoint])
     \/ Fault("poll") /\ Go(r, "fetch", NoJob)
  /\ UNCHANGED <<status, bus, mirror, stores>>

\* fetch_pending; an error ends the cycle.
PollFetch(r) ==
  /\ pc[r] = "fetch"
  /\ \/ /\ NoFault
        /\ \E rows \in Pending(job[r].since) : Go(r, "dedupe", [NoJob EXCEPT !.queue = rows])
     \/ Fault("poll") /\ Go(r, "sleep", NoJob)
  /\ UNCHANGED <<status, bus, mirror, stores>>

\* Entries the dedupe store knows are dropped; an error counts as not known.
DedupeCheck(r) ==
  /\ HasWork(r, "dedupe")
  /\ \/ /\ NoFault /\ IsDuplicate(Next1(r))
        /\ Go(r, "dedupe", [job[r] EXCEPT !.queue = Rest(r)])
     \/ /\ (NoFault /\ ~IsDuplicate(Next1(r))) \/ Fault("poll")
        /\ Go(r, "dedupe", [job[r] EXCEPT !.queue = Rest(r), !.out = Append(@, Next1(r))])
  /\ UNCHANGED <<status, bus, mirror, stores>>

\* Mutant: the vector of the finished loop is not emptied.
HandOverKeeps(r, from, to) ==
  /\ LoopOver(r, from)
  /\ IF job[r].out = << >>
     THEN Go(r, "sleep", NoJob)
     ELSE Go(r, to, [job[r] EXCEPT !.queue = job[r].out])
  /\ NoFault
  /\ UNCHANGED <<status, bus, mirror, stores>>

\* A finished loop hands what it kept to the next one; nothing kept ends the cycle.
HandOver(r, from, to) ==
  /\ LoopOver(r, from)
  /\ IF job[r].out = << >>
     THEN Go(r, "sleep", NoJob)
     ELSE Go(r, to, [job[r] EXCEPT !.queue = job[r].out, !.out = << >>])
  /\ NoFault
  /\ UNCHANGED <<status, bus, mirror, stores>>

\* is_already_processed and the check of start: a key that is completed or in
\* progress is skipped, and so is one whose check fails.
ClaimRead(r) ==
  /\ HasWork(r, "claim")
  /\ \/ /\ NoFault
        /\ IF StartRefused(Next1(r))
           THEN Go(r, "claim", [job[r] EXCEPT !.queue = Rest(r)])
           ELSE Go(r, "start", job[r])
     \/ Fault("claim") /\ Go(r, "claim", [job[r] EXCEPT !.queue = Rest(r)])
  /\ UNCHANGED <<status, bus, mirror, stores>>

\* The upsert of start: it does not look at the status again.
ClaimWrite(r) ==
  /\ pc[r] = "start"
  /\ \/ /\ NoFault
        /\ SetStatus(Next1(r), "in_progress")
        /\ Go(r, "claim", [job[r] EXCEPT !.queue = Rest(r), !.out = Append(@, Next1(r))])
     \/ /\ Fault("claim")
        /\ Go(r, "claim", [job[r] EXCEPT !.queue = Rest(r)])
        /\ UNCHANGED idem
  /\ UNCHANGED <<status, bus, mirror, dedupe, checkpoint, disk>>

\* publish: the event bus first; a decoding or bus error fails the entry.
PublishBus(r) ==
  /\ HasWork(r, "publish")
  /\ \/ /\ NoFault
        /\ bus' = [bus EXCEPT ![Next1(r)] = @ + 1]
        /\ Go(r, "mirror", job[r])
     \/ /\ Fault("publish")
        /\ Go(r, "publish", [job[r] EXCEPT !.queue = Rest(r), !.losses = Append(@, Next1(r))])
        /\ UNCHANGED bus
  /\ UNCHANGED <<status, mirror, stores>>

\* Then the mirror; an error here fails an entry that is on the bus already.
PublishMirror(r) ==
  /\ pc[r] = "mirror"
  /\ \/ /\ NoFault
        /\ mirror' = [mirror EXCEPT ![Next1(r)] = @ + 1]
        /\ Go(r, "publish", [job[r] EXCEPT !.queue = Rest(r), !.wins = Append(@, Next1(r))])
     \/ /\ Fault("publish")
        /\ Go(r, "publish", [job[r] EXCEPT !.queue = Rest(r), !.losses = Append(@, Next1(r))])
        /\ UNCHANGED mirror
  /\ UNCHANGED <<status, bus, stores>>

Marked(entries) ==
  [e \in 1..Len(status) |->
     IF \E i \in 1..Len(entries) : entries[i] = e THEN "published" ELSE status[e]]

\* Mutant: after a failed UPDATE the successes still count as completed.
MarkPublishedErrorIgnored(r) ==
  /\ LoopOver(r, "publish")
  /\ \/ NoFault /\ status' = Marked(job[r].wins)
     \/ job[r].wins # << >> /\ Fault("mark") /\ UNCHANGED status
  /\ Go(r, "complete", [job[r] EXCEPT !.queue = job[r].wins])
  /\ UNCHANGED <<bus, mirror, stores>>

\* mark_published: one UPDATE for all successes (none without successes).  On
\* an error, whether or not the UPDATE was applied, the successes are failed.
MarkPublished(r) ==
  /\ LoopOver(r, "publish")
  /\ \/ /\ NoFault
        /\ status' = Marked(job[r].wins)
        /\ Go(r, "complete", [job[r] EXCEPT !.queue = job[r].wins])
     \/ /\ job[r].wins # << >>
        /\ Fault("mark")
        /\ status' \in {status, Marked(job[r].wins)}
        /\ Go(r, "complete", [job[r] EXCEPT !.wins = << >>,
                                            !.losses = job[r].wins \o job[r].losses])
  /\ UNCHANGED <<bus, mirror, stores>>

\* complete and fail of the idempotency store; their errors are ignored.
Settle(r, label, outcome) ==
  /\ HasWork(r, label)
  /\ \/ NoFault /\ SetStatus(Next1(r), outcome)
     \/ Fault("settle") /\ UNCHANGED idem
  /\ Go(r, label, [job[r] EXCEPT !.queue = Rest(r)])
  /\ UNCHANGED <<status, bus, mirror, dedupe, checkpoint, disk>>

Complete(r) == Settle(r, "complete", "completed")
Fail(r) == Settle(r, "fail", "failed")

FailBegin(r) ==
  /\ LoopOver(r, "complete")
  /\ Go(r, "fail", [job[r] EXCEPT !.queue = job[r].losses])
  /\ NoFault
  /\ UNCHANGED <<status, bus, mirror, stores>>

\* mark_processed_by_id: the completed entries, in the order of the batch.
AdvanceBegin(r) ==
  /\ LoopOver(r, "fail")
  /\ Go(r, "advance", [job[r] EXCEPT !.queue = job[r].wins])
  /\ NoFault
  /\ UNCHANGED <<status, bus, mirror, stores>>

DedupeMark(r) ==
  /\ HasWork(r, "advance")
  /\ \/ NoFault /\ MarkProcessed(Next1(r))
     \/ Fault("advance") /\ UNCHANGED dedupe
  /\ Go(r, "load", job[r])
  /\ UNCHANGED <<status, bus, mirror, idem, checkpoint, disk>>

\* mark_processed loads the checkpoint again; an error is taken for 0.
CheckpointLoad(r) ==
  /\ pc[r] = "load"
  /\ \/ NoFault /\ Go(r, "store", [job[r] EXCEPT !.seen = checkpoint])
     \/ Fault("advance") /\ Go(r, "store", [job[r] EXCEPT !.seen = 0])
  /\ UNCHANGED <<status, bus, mirror, stores>>

\* Mutant: the checkpoint names the next entry to process.
CheckpointAdvancePast(r) ==
  /\ pc[r] = "store"
  /\ NoFault
  /\ checkpoint' = Next1(r) + 1 /\ disk' = Next1(r) + 1
  /\ Go(r, "advance", [job[r] EXCEPT !.queue = Rest(r), !.seen = 0])
  /\ UNCHANGED <<status, bus, mirror, idem, dedupe>>

\* advance writes without comparing.  The file store keeps the value in
\* memory when persisting fails.
CheckpointAdvance(r) ==
  /\ pc[r] = "store"
  /\ \/ /\ Next1(r) <= job[r].seen
        /\ NoFault
        /\ UNCHANGED <<checkpoint, disk>>
     \/ /\ Next1(r) > job[r].seen
        /\ NoFault
        /\ checkpoint' = Next1(r)
        /\ disk' = Next1(r)
     \/ /\ Next1(r) > job[r].seen
        /\ Fault("advance")
        /\ checkpoint' = IF Shared THEN checkpoint ELSE Next1(r)
        /\ UNCHANGED disk
  /\ Go(r, "advance", [job[r] EXCEPT !.queue = Rest(r), !.seen = 0])
  /\ UNCHANGED <<status, bus, mirror, idem, dedupe>>

CycleEnd(r) ==
  /\ LoopOver(r, "advance")
  /\ Go(r, "sleep", NoJob)
  /\ NoFault
  /\ UNCHANGED <<status, bus, mirror, stores>>

\* The process is killed and restarted.
Crash(r) ==
  /\ Fault("crash")
  /\ Go(r, "sleep", NoJob)
  /\ Reload(r)
  /\ UNCHANGED <<status, bus, mirror>>

RelayStep(r) ==
  \/ PollCheckpoint(r) \/ PollFetch(r) \/ DedupeCheck(r)
  \/ HandOver(r, "dedupe", "claim") \/ ClaimRead(r) \/ ClaimWrite(r)
  \/ HandOver(r, "claim", "publish") \/ PublishBus(r) \/ PublishMirror(r)
  \/ MarkPublished(r) \/ Complete(r) \/ FailBegin(r) \/ Fail(r)
  \/ AdvanceBegin(r) \/ DedupeMark(r) \/ CheckpointLoad(r)
  \/ CheckpointAdvance(r) \/ CycleEnd(r)

Next ==
  /\ Append1 \/ \E r \in Replicas : RelayStep(r) \/ Crash(r)
  /\ UNCHANGED deployment

Spec == Init /\ [][Next]_vars

\* Every replica keeps running its loop; calls fail finitely often.
FairSpec == Spec /\ \A r \in Relays : WF_vars(r \in Replicas /\ RelayStep(r) /\ UNCHANGED deployment)

-----------------------------------------------------------------------------
\* Properties

\* The outbox, the stores and the replicas have their types.
TypeOK ==
  /\ status \in Seq({"pending", "published"}) /\ Len(status) <= MaxEvents
  /\ bus \in [Entries -> Nat]
  /\ mirror \in [Entries -> Nat]
  /\ idem \in [Entries -> IdemStatus]
  /\ dedupe \subseteq Entries
  /\ checkpoint \in 0..MaxEvents
  /\ disk \in 0..MaxEvents
  /\ pc \in [Relays -> Pcs]
  /\ job \in [Relays -> Job]
  /\ faults \in Seq(deployment.faults) /\ Len(faults) <= deployment.failures

\* A row marked published was handed to the event bus and to the mirror,
\* whatever calls fail, wherever a relay is killed and however many replicas
\* run: the UPDATE never runs ahead of the publish it records.
PublishedWasSent ==
  \A e \in Rows : status[e] = "published" => bus[e] > 0 /\ mirror[e] > 0

\* The checkpoint, in the store and in the file, and every entry the dedupe
\* store would drop, stand for rows that are marked published.
ProcessedIsPublished ==
  \A e \in Rows : e \in dedupe \/ e = checkpoint \/ e = disk => status[e] = "published"

\* Nothing the relay writes down - mark, checkpoint or dedupe entry - runs ahead
\* of the send it stands for.
RecordsAreTrue ==
  PublishedWasSent /\ ProcessedIsPublished

\* With one replica and the local stores every send after an entry's first is paid for by a failed
\* call or a crash: nothing is sent twice in a run without faults.
ResendsArePaidFor ==
  ~Shared => \A e \in Entries : bus[e] <= 1 + Len(faults)

\* No call of these kinds has failed.
Never(kinds) == \A i \in 1..Len(faults) : faults[i] \notin kinds

\* With one replica and the local stores entries reach the bus for the first
\* time in the order of their sequence, also across restarts and failed database calls, as long as no claim and no
\* publish fails.
FirstSendsInOrder ==
  ~Shared /\ Never({"claim", "publish", "settle"}) =>
    \A e, f \in Entries : e < f /\ bus[f] > 0 => bus[e] > 0

\* One replica with the local stores sends in sequence order, and again only
\* after a fault.
SendsAreOrderly ==
  ResendsArePaidFor /\ FirstSendsInOrder

\* A row written to event_outbox is sent and marked.
Delivered ==
  \A e \in Entries : (e \in Rows) ~> (e \in Rows /\ status[e] = "published")

\* At-least-once delivery: every row is sent and marked, whatever polls and
\* checkpoint writes fail and, for one replica with the local stores, whatever
\* marks fail and wherever it is killed.
AtLeastOnce ==
  []Never({"claim", "publish", "settle"} \cup IF Shared THEN {"mark", "crash"} ELSE {})
    => Delivered
=============================================================================
