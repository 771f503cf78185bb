------------------------------ MODULE Projector ------------------------------
(***************************************************************************)
(* The projector worker: on start it replays event_outbox after its        *)
(* checkpoint into counter_projection; then it either polls event_outbox   *)
(* or, when NATS is configured, applies the events of a live subscription. *)
(*                                                                         *)
(* An event is its sequence number in event_outbox.  The counter service   *)
(* numbers a tenant's events 1, 2, 3, ... (CounterService!OutboxOrdered),  *)
(* so a row of the read model is the version it shows.                     *)
(***************************************************************************)
EXTENDS Naturals, Sequences, FiniteSets

CONSTANTS
  Tenants,
  Tails,      \* the deployments: TRUE when config.nats_url is set
  BatchSize,  \* config.batch_size
  Faults,     \* the calls that may fail: a subset of FaultKinds
  MaxEvents,  \* bound: rows written to event_outbox
  MaxFaults   \* bound: failed calls and crashes in a behaviour

FaultKinds == {"get", "source", "apply", "advance", "crash"}

ASSUME FaultsAssumption == Faults \subseteq FaultKinds
ASSUME TailsAssumption == Tails \subseteq BOOLEAN
ASSUME BoundsAssumption ==
  BatchSize \in Nat \ {0} /\ MaxEvents \in Nat /\ MaxFaults \in Nat

VARIABLES
  outbox,      \* event_outbox: the tenant of each event
  view,        \* counter_projection: the version shown for each tenant
  checkpoint,  \* what the checkpoint store returns
  disk,        \* the value a restarted worker loads
  pc,
  mode,        \* the loop that is running: "replay" or "poll"
  since,       \* replay_outbox: the sequence replayed so far
  queue,       \* the fetched events that are still to be applied
  sub,         \* messages waiting in the NATS subscription
  sent,        \* the events the relay has published: 1..sent, each once, in order
  live,        \* this deployment tails NATS instead of polling
  missed,      \* an event was sent after the replay and before the subscription
  faults       \* the failed calls and crashes so far, oldest first

env == <<outbox, sent, live, missed>>
vars == <<env, view, checkpoint, disk, pc, mode, since, queue, sub, faults>>

Events == 1..MaxEvents
VersionOf(e) == Cardinality({f \in 1..e : outbox[f] = outbox[e]})
Latest(t) == Cardinality({f \in 1..Len(outbox) : outbox[f] = t})

Init ==
  /\ outbox = << >>
  /\ view = [t \in Tenants |-> 0]
  /\ checkpoint = 0 /\ disk = 0
  /\ pc = "boot" /\ mode = "replay"
  /\ since = 0 /\ queue = << >>
  /\ sub = << >>
  /\ sent = 0
  /\ live \in Tails
  /\ missed = FALSE
  /\ faults = << >>

-----------------------------------------------------------------------------
\* Helpers

Fault(kind) ==
  /\ kind \in Faults
  /\ Len(faults) < MaxFaults
  /\ faults' = Append(faults, kind)
NoFault == UNCHANGED faults

\* main returns an error, or the process is killed: it is started again.  A
\* kill inside fs::write leaves a file that reads as the initial 0.
Restart ==
  /\ pc' = "boot" /\ mode' = "replay"
  /\ since' = 0 /\ queue' = << >> /\ sub' = << >>
  /\ disk' \in IF pc = "advance" THEN {disk, 0} ELSE {disk}
  /\ checkpoint' = disk'

\* WHERE sequence > ? ORDER BY sequence ASC LIMIT ?
FetchSince(s) ==
  LET last == IF s + BatchSize < Len(outbox) THEN s + BatchSize ELSE Len(outbox)
  IN  [i \in 1..(IF last > s THEN last - s ELSE 0) |-> s + i]

\* Mutant: the version is taken from the position in the log.
ApplyUpdateSequence(e) == view' = [view EXCEPT ![outbox[e]] = e]

\* The upsert of apply_update: it replaces the row whatever its version.
ApplyUpdate(e) == view' = [view EXCEPT ![outbox[e]] = VersionOf(e)]

-----------------------------------------------------------------------------
\* The environment

\* counter-service commits a mutation.
Commit(t) ==
  /\ Len(outbox) < MaxEvents
  /\ outbox' = Append(outbox, t)
  /\ UNCHANGED <<sent, live, missed, view, checkpoint, disk, pc, mode, since, queue,
                 sub, faults>>

\* The relay publishes the next event (OutboxRelay without faults); NATS keeps
\* it for a connected subscriber only.
Send ==
  /\ live
  /\ sent < Len(outbox)
  /\ sent' = sent + 1
  /\ missed' = (missed \/ pc = "connect")
  /\ sub' = IF pc = "live" THEN Append(sub, sent + 1) ELSE sub
  /\ UNCHANGED <<outbox, live, view, checkpoint, disk, pc, mode, since, queue, faults>>

-----------------------------------------------------------------------------
\* The worker

\* main reads the checkpoint for the ReplayManager; an error is taken for 0.
Boot ==
  /\ pc = "boot"
  /\ \/ NoFault /\ since' = checkpoint
     \/ Fault("get") /\ since' = 0
  /\ pc' = "replay"
  /\ UNCHANGED <<env, view, checkpoint, disk, mode, queue, sub>>

\* A batch of replay_outbox; an empty one ends the replay.
ReplayFetch ==
  /\ pc = "replay"
  /\ \/ /\ NoFault
        /\ queue' = FetchSince(since)
        /\ pc' = IF queue' # << >> THEN "apply" ELSE IF live THEN "connect" ELSE "poll"
        /\ mode' = IF pc' = "poll" THEN "poll" ELSE mode
        /\ UNCHANGED <<since, sub, checkpoint, disk>>
     \/ Fault("source") /\ Restart
  /\ UNCHANGED <<env, view>>

\* A round of the poll loop; a failing checkpoint read is taken for 0.
PollFetch ==
  /\ pc = "poll"
  /\ \/ /\ \/ NoFault /\ queue' = FetchSince(checkpoint)
           \/ Fault("get") /\ queue' = FetchSince(0)
        /\ pc' = IF queue' # << >> THEN "apply" ELSE "poll"
        /\ UNCHANGED <<mode, since, sub, checkpoint, disk>>
     \/ Fault("source") /\ Restart
  /\ UNCHANGED <<env, view>>

\* Mutant: an error of process_event is logged and the event passed over.
ProcessEventErrorIgnored ==
  /\ pc = "apply"
  /\ \/ NoFault /\ ApplyUpdate(Head(queue))
     \/ Fault("apply") /\ UNCHANGED view
  /\ pc' = "advance"
  /\ UNCHANGED <<env, mode, since, queue, sub, checkpoint, disk>>

\* process_event on the next event; an error ends the process, whether or not
\* the row was written.
ProcessEvent ==
  /\ pc = "apply"
  /\ \/ /\ NoFault
        /\ ApplyUpdate(Head(queue))
        /\ pc' = "advance"
        /\ UNCHANGED <<mode, since, queue, sub, checkpoint, disk>>
     \/ /\ Fault("apply")
        /\ ApplyUpdate(Head(queue)) \/ UNCHANGED view
        /\ Restart
  /\ UNCHANGED env

\* The checkpoint moves past the applied event unless it is past it already.
AdvanceCheckpoint ==
  /\ pc = "advance"
  /\ \/ /\ \/ NoFault /\ checkpoint' = IF Head(queue) > checkpoint THEN Head(queue)
                                                                    ELSE checkpoint
           \/ Fault("get") /\ checkpoint' = Head(queue)
        /\ disk' = IF checkpoint' = checkpoint THEN disk ELSE checkpoint'
        /\ since' = IF mode = "replay" THEN Head(queue) ELSE since
        /\ queue' = Tail(queue)
        /\ pc' = IF queue' = << >> THEN mode ELSE "apply"
        /\ UNCHANGED <<mode, sub>>
     \/ /\ Head(queue) > checkpoint
        /\ Fault("advance")
        /\ Restart
  /\ UNCHANGED <<env, view>>

\* LiveEventSubscriber::connect, after the replay.
Connect ==
  /\ pc = "connect"
  /\ \/ /\ NoFault
        /\ pc' = "live"
        /\ UNCHANGED <<mode, since, queue, sub, checkpoint, disk>>
     \/ Fault("source") /\ Restart
  /\ UNCHANGED <<env, view>>

\* Mutant: after a live event the pending messages are dropped.
LiveEventDrains ==
  /\ pc = "live"
  /\ sub # << >>
  /\ NoFault
  /\ ApplyUpdate(Head(sub))
  /\ sub' = << >>
  /\ UNCHANGED <<env, pc, mode, since, queue, checkpoint, disk>>

\* A live event is applied; the checkpoint stays.
LiveEvent ==
  /\ pc = "live"
  /\ sub # << >>
  /\ \/ /\ NoFault
        /\ ApplyUpdate(Head(sub))
        /\ sub' = Tail(sub)
        /\ UNCHANGED <<pc, mode, since, queue, checkpoint, disk>>
     \/ /\ Fault("apply")
        /\ ApplyUpdate(Head(sub)) \/ UNCHANGED view
        /\ Restart
  /\ UNCHANGED env

Crash ==
  /\ Fault("crash")
  /\ Restart
  /\ UNCHANGED <<env, view>>

Step == Boot \/ ReplayFetch \/ PollFetch \/ ProcessEvent \/ AdvanceCheckpoint
        \/ Connect \/ LiveEvent

Next ==
  \/ \E t \in Tenants : Commit(t)
  \/ Send
  \/ Step
  \/ Crash

Spec == Init /\ [][Next]_vars

\* The worker keeps running and is restarted, the relay keeps publishing;
\* calls fail finitely often.
FairSpec == Spec /\ WF_vars(Step) /\ WF_vars(Send)

-----------------------------------------------------------------------------
\* Properties

\* The outbox, the stream, the read model and the worker have their types.
TypeOK ==
  /\ outbox \in Seq(Tenants) /\ Len(outbox) <= MaxEvents
  /\ view \in [Tenants -> Nat] /\ \A t \in Tenants : view[t] <= Latest(t)
  /\ {checkpoint, disk, since} \subseteq 0..Len(outbox)
  /\ pc \in {"boot", "replay", "poll", "apply", "advance", "connect", "live"}
  /\ mode \in {"replay", "poll"}
  /\ queue \in Seq(Events) /\ sub \in Seq(Events)
  /\ sent \in 0..Len(outbox)
  /\ live \in BOOLEAN /\ missed \in BOOLEAN
  /\ faults \in Seq(Faults) /\ Len(faults) <= MaxFaults

\* No call of this kind has failed.
Never(kind) == \A i \in 1..Len(faults) : faults[i] # kind

Shows(e) == view[outbox[e]] >= VersionOf(e)

\* The polling projector moves its checkpoint only after the event was applied:
\* whatever is at or below it, in the store or in the file, shows in the read
\* model, also while events are applied again after a restart.
CheckpointIsCovered ==
  ~live /\ Never("get") =>
    \A e \in 1..Len(outbox) : e <= checkpoint \/ e <= disk => Shows(e)

\* Whatever fails, in replay, poll loop or live tail: the checkpoint moves
\* forward one event at a time, and only to an event whose row was just
\* written.
CheckpointNeverSkips ==
  checkpoint' > checkpoint =>
    /\ checkpoint' = checkpoint + 1
    /\ view[outbox[checkpoint']] = VersionOf(checkpoint')

\* The checkpoint never runs ahead of the read model: no step moves it past an
\* event in either mode, and after no step of the polling projector is there an
\* event below it that does not show.  (Initially there are no events.)
CheckpointIsEarned ==
  [][CheckpointNeverSkips /\ CheckpointIsCovered']_vars

\* When the replay of a start is over, every event up to where it got shows in
\* the read model.
ReplayRecovers ==
  pc \in {"connect", "poll"} => \A e \in 1..Len(outbox) : e <= since => Shows(e)

\* Once no more events come, the read model shows the latest version of every
\* tenant and keeps showing it: when polling, whatever fails except the read
\* of the checkpoint; when tailing, if nothing fails and no event was sent
\* before the subscription stood.
CatchesUp ==
  [](IF live THEN faults = << >> /\ ~missed ELSE Never("get")) =>
    \A t \in Tenants : <>[](view[t] = Latest(t))
=============================================================================
