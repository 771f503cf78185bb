------------------------------ MODULE Indexer -------------------------------
(***************************************************************************)
(* The indexer worker (workers/indexer): every tick of main runs one cycle *)
(* that pulls the events of all sources, writes each to all sinks, tells   *)
(* the subscribers of the in-memory pub/sub adapter and then sets the      *)
(* cursors.  Sources and sinks are trait objects that the Indexer is built *)
(* with: main registers one memory source, which is empty, and one memory  *)
(* sink; the model takes any number of them, with events as the tests put  *)
(* into theirs, and with calls that fail as the traits allow.  A call that *)
(* fails ends the cycle, and the next tick starts over.  An event is named *)
(* by its source and its place there.                                      *)
(***************************************************************************)
EXTENDS Naturals, Sequences

CONSTANTS
  Feeds,            \* number of sources
  MaxFeed,          \* bound: events a source holds
  Sinks,            \* number of sinks
  Listeners,        \* subscribers of the pub/sub adapter
  MaxIndexFaults    \* bound: failing calls

ASSUME IndexerAssumption == Feeds \in Nat \ {0} /\ Sinks \in Nat \ {0}

VARIABLES
  feed,        \* source -> what the payloads of its events decode to
  indexerAt,   \* <<step, event, sink or source>> of the cycle
  batch,       \* the events pulled in this cycle
  stored,      \* sink -> the events written to it, once or in several cycles
  announced,   \* events published
  cursors,     \* sources with a cursor
  savedVersion,\* version of the entry indexer:checkpoints, 0 if there is none
  pattern,     \* listener -> the topic pattern it subscribed with, or <<>>
  heard,       \* listener -> the events its handler was called with
  indexFaults  \* failing calls so far

indexerVars ==
  <<feed, indexerAt, batch, stored, announced, cursors, savedVersion, pattern, heard, indexFaults>>

Payloads == {"counter", "tenant", "foreign"}
Patterns == {<<"indexer", "*">>, <<"indexer", "counter", "changed">>, <<"*", "tenant", "created">>}
IndexEvents == (1..Feeds) \X (1..MaxFeed)
Resting == <<"rest", 0, 0>>

\* An event that decodes keeps its type; any other is indexed as a placeholder
\* counter.changed.
Transform(e) ==
  IF feed[e[1]][e[2]] = "tenant" THEN <<"tenant", "created">> ELSE <<"counter", "changed">>

\* pattern_matches: a final "*" takes any rest after the literal prefix; in other
\* patterns a "*" takes a single segment.
TopicMatches(p, topic) ==
  \/ p = topic
  \/ /\ p # <<>> /\ p[Len(p)] = "*"
     /\ Len(topic) >= Len(p) /\ \A i \in 1 .. Len(p) - 1 : p[i] = topic[i]
  \/ /\ p # <<>> /\ p[Len(p)] # "*"
     /\ Len(p) = Len(topic) /\ \A i \in 1..Len(p) : p[i] \in {"*", topic[i]}

\* The memory source returns all it holds, whatever the cursor.
PullAll(s) == [i \in 1..Len(feed[s]) |-> <<s, i>>]

IndexerInit ==
  /\ feed \in [1..Feeds -> UNION {[1..n -> Payloads] : n \in 0..MaxFeed}]
  /\ indexerAt = Resting /\ batch = <<>>
  /\ stored = [k \in 1..Sinks |-> {}] /\ announced = {}
  /\ cursors = {} /\ savedVersion = 0
  /\ pattern = [l \in Listeners |-> <<>>] /\ heard = [l \in Listeners |-> {}]
  /\ indexFaults = 0

\* `?` ends the cycle.
EndCycle == indexerAt' = Resting /\ batch' = <<>>
CallFails ==
  /\ indexFaults < MaxIndexFaults
  /\ indexFaults' = indexFaults + 1
  /\ EndCycle

BeginCycle ==
  /\ indexerAt = Resting
  /\ indexerAt' = <<"pull", 0, 1>>
  /\ UNCHANGED <<feed, batch, stored, announced, cursors, savedVersion, pattern, heard, indexFaults>>

PullEvents ==
  LET s == indexerAt[3] IN
  /\ indexerAt[1] = "pull"
  /\ \/ /\ batch' = batch \o PullAll(s)
        /\ indexerAt' = IF s < Feeds THEN <<"pull", 0, s + 1>>
                        ELSE IF batch' = <<>> THEN Resting ELSE <<"write", 1, 1>>
        /\ UNCHANGED indexFaults
     \/ CallFails
  /\ UNCHANGED <<feed, stored, announced, cursors, savedVersion, pattern, heard>>

\* Event by event, sink by sink.
AfterWrite ==
  IF indexerAt[3] < Sinks THEN <<"write", indexerAt[2], indexerAt[3] + 1>>
  ELSE IF indexerAt[2] < Len(batch) THEN <<"write", indexerAt[2] + 1, 1>>
  ELSE <<"publish", 1, 0>>

\* Mutant: a sink's error is reported and passed over.
MutWriteSink ==
  /\ indexerAt[1] = "write"
  /\ \/ stored' = [stored EXCEPT ![indexerAt[3]] = @ \cup {batch[indexerAt[2]]}] /\ UNCHANGED indexFaults
     \/ indexFaults < MaxIndexFaults /\ indexFaults' = indexFaults + 1 /\ UNCHANGED stored
  /\ indexerAt' = AfterWrite
  /\ UNCHANGED <<feed, batch, announced, cursors, savedVersion, pattern, heard>>

\* A write that fails may have reached the sink.
WriteSink ==
  LET written == [stored EXCEPT ![indexerAt[3]] = @ \cup {batch[indexerAt[2]]}] IN
  /\ indexerAt[1] = "write"
  /\ \/ stored' = written /\ indexerAt' = AfterWrite /\ UNCHANGED <<batch, indexFaults>>
     \/ stored' \in {stored, written} /\ CallFails
  /\ UNCHANGED <<feed, announced, cursors, savedVersion, pattern, heard>>

\* A handler is called when its pattern matches the event's topic.
Hears(l, e) == TopicMatches(pattern[l], <<"indexer">> \o Transform(e))

\* publish calls the handlers whose pattern matches the event's topic, under
\* the lock that subscribe and unsubscribe take, and cannot fail.
PublishIndexed ==
  LET e == batch[indexerAt[2]] IN
  /\ indexerAt[1] = "publish"
  /\ announced' = announced \cup {e}
  /\ heard' = [l \in Listeners |->
       heard[l] \cup (IF Hears(l, e) THEN {e} ELSE {})]
  /\ indexerAt' = IF indexerAt[2] < Len(batch) THEN <<"publish", indexerAt[2] + 1, 0>>
                  ELSE <<"checkpoint", 0, 0>>
  /\ UNCHANGED <<feed, batch, stored, cursors, savedVersion, pattern, indexFaults>>

\* SourceCheckpoint::update for every source; a cursor is never taken away.
WithCursors == cursors \cup (1..Feeds)

\* Every source gets a cursor.  The entry is always written with version 1: the
\* adapter takes it the first two times and refuses it from then on, which is
\* only logged.
UpdateCheckpoints ==
  /\ indexerAt[1] = "checkpoint"
  /\ cursors' = WithCursors
  /\ savedVersion' = IF savedVersion < 2 THEN savedVersion + 1 ELSE savedVersion
  /\ EndCycle
  /\ UNCHANGED <<feed, stored, announced, pattern, heard, indexFaults>>

Subscribe(l, p) ==
  /\ pattern[l] = <<>>
  /\ pattern' = [pattern EXCEPT ![l] = p]
  /\ UNCHANGED <<feed, indexerAt, batch, stored, announced, cursors, savedVersion, heard, indexFaults>>

Unsubscribe(l) ==
  /\ pattern[l] # <<>>
  /\ pattern' = [pattern EXCEPT ![l] = <<>>]
  /\ UNCHANGED <<feed, indexerAt, batch, stored, announced, cursors, savedVersion, heard, indexFaults>>

IndexerNext ==
  \/ BeginCycle \/ PullEvents \/ WriteSink \/ PublishIndexed \/ UpdateCheckpoints
  \/ \E l \in Listeners : Unsubscribe(l) \/ \E p \in Patterns : Subscribe(l, p)

-----------------------------------------------------------------------------
\* Events are the sources', and the cycle is at one of its steps.
IndexerTypeOK ==
  /\ \A s \in 1..Feeds : feed[s] \in Seq(Payloads)
  /\ indexerAt \in {"rest", "pull", "write", "publish", "checkpoint"} \X (0..Feeds * MaxFeed)
                     \X (0..Feeds + Sinks)
  /\ batch \in Seq(IndexEvents)
  /\ stored \in [1..Sinks -> SUBSET IndexEvents] /\ announced \subseteq IndexEvents
  /\ cursors \subseteq 1..Feeds /\ savedVersion \in 0..2
  /\ pattern \in [Listeners -> Patterns \cup {<<>>}]
  /\ heard \in [Listeners -> SUBSET IndexEvents]
  /\ indexFaults \in 0..MaxIndexFaults

\* Whichever pulls and writes fail, in whichever cycles: downstream is told of
\* an event (step 4 of run_cycle) only when every sink has it, a source gets a
\* cursor (step 5) only when all its events are in every sink and have been
\* announced, and no sink has an event that an earlier one lacks.
IndexIsConsistent ==
  /\ \A k \in 1..Sinks : announced \subseteq stored[k]
  /\ \A s \in cursors : \A i \in 1..Len(feed[s]) : <<s, i>> \in announced
  /\ savedVersion > 0 => cursors = 1..Feeds
  /\ \A j, k \in 1..Sinks : j < k => stored[k] \subseteq stored[j]
  /\ \A l \in Listeners : heard[l] \subseteq announced
=============================================================================
