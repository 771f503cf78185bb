--------------------------- MODULE CounterService ---------------------------
(***************************************************************************)
(* counter-service over the libSQL repository: request tasks that load a   *)
(* counter, build the event, and commit row, outbox entry and idempotency  *)
(* row in one transaction, retrying when the version they loaded is stale. *)
(*                                                                         *)
(* A transaction is one step.  EmbeddedTransaction opens it with BEGIN     *)
(* IMMEDIATE on a connection of its own, so writers are serialised, no     *)
(* other connection sees its writes before COMMIT, and a transaction that  *)
(* is dropped unfinished leaves nothing behind.  Everything outside the    *)
(* transaction (the load, the first look at the idempotency row, the       *)
(* second look after a reserved key) is a step of its own.                 *)
(***************************************************************************)
EXTENDS Integers, Sequences

CONSTANTS
  Tenants,      \* tenant ids; CounterId is the tenant id
  Clients,      \* request tasks that may be in flight together
  Keys,         \* idempotency keys
  NoKey,        \* the request carries no idempotency key
  MAX_RETRIES,  \* retries after a CAS conflict (3 in run_atomic_mutation)
  MaxRequests   \* bound: mutations requested in one behaviour

ASSUME NoKeyAssumption == NoKey \notin Keys
ASSUME RetriesAssumption == MAX_RETRIES \in Nat
ASSUME RequestsAssumption == MaxRequests \in Nat

VARIABLES
  counter,      \* table counter: tenant -> [value, version]; version 0 is "no row"
  memo,         \* table counter_idempotency: committed rows; op "none" is "no row"
  outbox,       \* table event_outbox in sequence order
  pc,           \* client -> where its request task is
  req,          \* client -> the request it serves
  retries,      \* client -> CAS conflicts met so far
  seen,         \* client -> the row it loaded
  reply,        \* client -> the result it holds
  issued        \* requests started so far; numbers the requests

db == <<counter, memo, outbox>>
vars == <<counter, memo, outbox, pc, req, retries, seen, reply, issued>>

Ops == {"increment", "decrement", "reset"}
Running == {"load", "precheck", "tx", "recheck"}
NoRow == [value |-> 0, version |-> 0]
NoReply == [kind |-> "none", value |-> 0, version |-> 0]

Row == [value : Int, version : Nat]
MemoRow == [op : Ops \cup {"none"}, value : Int, version : Nat]
Event == [tenant : Tenants, op : Ops, value : Int, delta : Int, version : Nat,
          key : Keys \cup {NoKey}, request : Nat]
Request == [id : Nat, tenant : Tenants, op : Ops, key : Keys \cup {NoKey}]
Reply == [kind : {"none", "ok", "value", "conflict", "cas", "db"},
          value : Int, version : Nat]

Success(value, version) == [kind |-> "ok", value |-> value, version |-> version]
Failure(kind) == [kind |-> kind, value |-> 0, version |-> 0]

\* new_value of run_atomic_mutation, and the SET clause of the CAS update.
NextValue(op, v) ==
  IF op = "increment" THEN v + 1 ELSE IF op = "decrement" THEN v - 1 ELSE 0

\* insert_value: the value of a row created by the operation.
InsertValue(op) ==
  IF op = "increment" THEN 1 ELSE IF op = "decrement" THEN -1 ELSE 0

Init ==
  /\ counter = [t \in Tenants |-> NoRow]
  /\ memo = [t \in Tenants |-> [k \in Keys |->
               [op |-> "none", value |-> 0, version |-> 0]]]
  /\ outbox = << >>
  /\ pc = [c \in Clients |-> "idle"]
  /\ req \in [Clients -> {[id |-> 0, tenant |-> t, op |-> "reset", key |-> NoKey] :
                            t \in Tenants}]
  /\ retries = [c \in Clients |-> 0]
  /\ seen = [c \in Clients |-> NoRow]
  /\ reply = [c \in Clients |-> NoReply]
  /\ issued = 0

Goto(c, label) == pc' = [pc EXCEPT ![c] = label]

\* The task returns r to its caller.
Answer(c, r) ==
  /\ Goto(c, "done")
  /\ reply' = [reply EXCEPT ![c] = r]
  /\ UNCHANGED <<req, retries, seen, issued>>
-----------------------------------------------------------------------------
\* A caller invokes increment, decrement or reset, with or without a key.
Call(c, t, op, k) ==
  /\ pc[c] = "idle"
  /\ issued < MaxRequests
  /\ issued' = issued + 1
  /\ req' = [req EXCEPT ![c] = [id |-> issued + 1, tenant |-> t, op |-> op, key |-> k]]
  /\ Goto(c, "load")
  /\ UNCHANGED <<db, retries, seen, reply>>

\* get_value: one read, zero when there is no row.
GetValue(c, t) ==
  /\ pc[c] = "idle"
  /\ Answer(c, [kind |-> "value", value |-> counter[t].value, version |-> 0])
  /\ UNCHANGED db

\* The load at the head of the retry loop.
Load(c) ==
  /\ pc[c] = "load"
  /\ seen' = [seen EXCEPT ![c] = counter[req[c].tenant]]
  /\ Goto(c, "precheck")
  /\ UNCHANGED <<db, req, retries, reply, issued>>

\* load_idempotency_outcome: the committed row of the request's key.
Remembered(c) ==
  req[c].key # NoKey /\ memo[req[c].tenant][req[c].key].op # "none"

\* Mutant: the request fingerprint leaves the operation out.
MemoOutcomeAnyOp(c) ==
  LET m == memo[req[c].tenant][req[c].key] IN Success(m.value, m.version)

\* request_hash covers tenant, resource and operation, so a row of the same
\* tenant and key differs from the request exactly in the operation.
MemoOutcome(c) ==
  LET m == memo[req[c].tenant][req[c].key]
  IN  IF m.op # req[c].op THEN Failure("conflict") ELSE Success(m.value, m.version)

\* The look at the idempotency row before the transaction is opened.
PrecheckHit(c) ==
  /\ pc[c] = "precheck"
  /\ Remembered(c)
  /\ Answer(c, MemoOutcome(c))
  /\ UNCHANGED db

PrecheckMiss(c) ==
  /\ pc[c] = "precheck"
  /\ ~Remembered(c)
  /\ Goto(c, "tx")
  /\ UNCHANGED <<db, req, retries, seen, reply, issued>>

\* INSERT ... ON CONFLICT DO NOTHING reserves no row: another request has
\* committed the key since the first look.  Roll back and look again.
TxKeyTaken(c) ==
  /\ pc[c] = "tx"
  /\ Remembered(c)
  /\ Goto(c, "recheck")
  /\ UNCHANGED <<db, req, retries, seen, reply, issued>>

Recheck(c) ==
  /\ pc[c] = "recheck"
  /\ Answer(c, IF Remembered(c) THEN MemoOutcome(c) ELSE Failure("db"))
  /\ UNCHANGED db

\* Mutant: the UPDATE has no version condition.
CasMatchesAlways(c) == req[c].tenant \in Tenants

\* The CAS statement matches: an INSERT needs the row to be absent, an UPDATE
\* needs the version that was loaded.
CasMatches(c) == counter[req[c].tenant].version = seen[c].version

RowAfter(c) ==
  LET row == counter[req[c].tenant]
  IN  IF seen[c].version = 0
      THEN [value |-> InsertValue(req[c].op), version |-> 1]
      ELSE [value |-> NextValue(req[c].op, row.value), version |-> row.version + 1]

\* Mutant: the event records the version that was loaded.
EventOfOldVersion(c) ==
  LET v == NextValue(req[c].op, seen[c].value)
  IN  [tenant |-> req[c].tenant, op |-> req[c].op, value |-> v,
       delta |-> v - seen[c].value, version |-> seen[c].version,
       key |-> req[c].key, request |-> req[c].id]

\* build_event: computed from the loaded row, before the transaction.
EventOf(c) ==
  LET v == NextValue(req[c].op, seen[c].value)
  IN  [tenant |-> req[c].tenant, op |-> req[c].op, value |-> v,
       delta |-> v - seen[c].value, version |-> seen[c].version + 1,
       key |-> req[c].key, request |-> req[c].id]

\* Reserve the key, move the row, insert the outbox entry, complete the key, COMMIT.
TxCommit(c) ==
  LET t == req[c].tenant
      e == EventOf(c)
  IN  /\ pc[c] = "tx"
      /\ ~Remembered(c)
      /\ CasMatches(c)
      /\ counter' = [counter EXCEPT ![t] = RowAfter(c)]
      /\ outbox' = Append(outbox, e)
      /\ memo' = IF req[c].key = NoKey THEN memo
                 ELSE [memo EXCEPT ![t][req[c].key] =
                         [op |-> req[c].op, value |-> e.value, version |-> e.version]]
      /\ Answer(c, Success(e.value, e.version))

\* Mutant: a CAS conflict returns without rolling back the outbox insert.
TxCasRetryNoRollback(c) ==
  /\ pc[c] = "tx"
  /\ ~Remembered(c)
  /\ ~CasMatches(c)
  /\ retries[c] < MAX_RETRIES
  /\ outbox' = Append(outbox, EventOf(c))
  /\ retries' = [retries EXCEPT ![c] = @ + 1]
  /\ Goto(c, "load")
  /\ UNCHANGED <<counter, memo, req, seen, reply, issued>>

\* Mutant: the bound on the retries is not tested.
TxCasRetryUncounted(c) ==
  /\ pc[c] = "tx"
  /\ ~Remembered(c)
  /\ ~CasMatches(c)
  /\ retries' = [retries EXCEPT ![c] = @ + 1]
  /\ Goto(c, "load")
  /\ UNCHANGED <<db, req, seen, reply, issued>>

\* Mutant: the retry keeps the stale row and does not count.
TxCasRetryStale(c) ==
  /\ pc[c] = "tx"
  /\ ~Remembered(c)
  /\ ~CasMatches(c)
  /\ Goto(c, "precheck")
  /\ UNCHANGED <<db, req, retries, seen, reply, issued>>

\* No row matched: roll back, and load again while retries are left.
TxCasRetry(c) ==
  /\ pc[c] = "tx"
  /\ ~Remembered(c)
  /\ ~CasMatches(c)
  /\ retries[c] < MAX_RETRIES
  /\ retries' = [retries EXCEPT ![c] = @ + 1]
  /\ Goto(c, "load")
  /\ UNCHANGED <<db, req, seen, reply, issued>>

TxCasGiveUp(c) ==
  /\ pc[c] = "tx"
  /\ ~Remembered(c)
  /\ ~CasMatches(c)
  /\ retries[c] = MAX_RETRIES
  /\ Answer(c, Failure("cas"))
  /\ UNCHANGED db

\* Any statement of the task may fail; inside the transaction that rolls it back.
DbError(c) ==
  /\ pc[c] \in Running
  /\ Answer(c, Failure("db"))
  /\ UNCHANGED db

\* The caller takes its answer, or disconnects and its task is dropped at an
\* await: an open transaction is dropped with it.
Leave(c) ==
  /\ pc[c] # "idle"
  /\ Goto(c, "idle")
  /\ retries' = [retries EXCEPT ![c] = 0]
  /\ seen' = [seen EXCEPT ![c] = NoRow]
  /\ reply' = [reply EXCEPT ![c] = NoReply]
  /\ UNCHANGED <<db, req, issued>>

\* The steps of run_atomic_mutation proper.
Step(c) ==
  \/ Load(c)
  \/ PrecheckHit(c)
  \/ PrecheckMiss(c)
  \/ TxKeyTaken(c)
  \/ Recheck(c)
  \/ TxCommit(c)
  \/ TxCasRetry(c)
  \/ TxCasGiveUp(c)

Next ==
  \E c \in Clients :
    \/ \E t \in Tenants, op \in Ops, k \in Keys \cup {NoKey} : Call(c, t, op, k)
    \/ \E t \in Tenants : GetValue(c, t)
    \/ Step(c)
    \/ DbError(c)
    \/ Leave(c)

Spec == Init /\ [][Next]_vars

\* An async task that is ready is polled: its own steps are weakly fair.
\* Nothing is assumed of callers.
FairSpec == Spec /\ \A c \in Clients : WF_vars(Step(c))
-----------------------------------------------------------------------------
\* The rows, the idempotency records, the outbox and the calls have their types.
TypeOK ==
  /\ counter \in [Tenants -> Row]
  /\ memo \in [Tenants -> [Keys -> MemoRow]]
  /\ outbox \in Seq(Event)
  /\ pc \in [Clients -> Running \cup {"idle", "done"}]
  /\ req \in [Clients -> Request]
  /\ retries \in [Clients -> 0..MAX_RETRIES]
  /\ seen \in [Clients -> Row]
  /\ reply \in [Clients -> Reply]
  /\ issued \in 0..MaxRequests

\* The outbox announces the changes of a tenant's counter in version order:
\* the sequence number the relay and the projector resume from never runs
\* against CounterChanged.version.
OutboxOrdered ==
  \A i, j \in 1..Len(outbox) :
    i < j /\ outbox[i].tenant = outbox[j].tenant
      => outbox[i].version < outbox[j].version

\* No update is lost and no event is phantom: every event continues the event
\* of the version before it, in value and in delta, although value and delta
\* are computed from a row read before the transaction was opened.
OutboxChain ==
  \A i \in 1..Len(outbox) :
    \/ /\ outbox[i].version = 1
       /\ outbox[i].value = NextValue(outbox[i].op, 0)
       /\ outbox[i].delta = outbox[i].value
    \/ \E j \in 1..Len(outbox) :
         /\ j < i
         /\ outbox[j].tenant = outbox[i].tenant
         /\ outbox[i].version = outbox[j].version + 1
         /\ outbox[i].value = NextValue(outbox[i].op, outbox[j].value)
         /\ outbox[i].delta = outbox[i].value - outbox[j].value

\* The newest event of a tenant is the tenant's row: a consumer that has read
\* the whole outbox knows every counter.
OutboxMatchesCounter ==
  \A t \in Tenants :
    /\ counter[t].version = 0 => counter[t].value = 0
    /\ \A i \in 1..Len(outbox) :
         outbox[i].tenant = t => outbox[i].version <= counter[t].version
    /\ counter[t].version > 0 =>
         \E i \in 1..Len(outbox) :
           /\ outbox[i].tenant = t
           /\ outbox[i].version = counter[t].version
           /\ outbox[i].value = counter[t].value

\* The outbox is the history of every counter: in order, without a gap, a lost
\* update or a phantom, and up to the row as it stands.
OutboxIsHistory ==
  OutboxOrdered /\ OutboxChain /\ OutboxMatchesCounter

\* An idempotency key moves a counter at most once, whatever tasks race with
\* it, and the remembered result is the result of that one change.
KeyAppliedOnce ==
  /\ \A i, j \in 1..Len(outbox) :
       /\ outbox[i].key # NoKey
       /\ outbox[i].key = outbox[j].key
       /\ outbox[i].tenant = outbox[j].tenant
       => i = j
  /\ \A t \in Tenants, k \in Keys :
       memo[t][k].op # "none" =>
         \E i \in 1..Len(outbox) :
           /\ outbox[i].tenant = t
           /\ outbox[i].key = k
           /\ outbox[i].op = memo[t][k].op
           /\ outbox[i].value = memo[t][k].value
           /\ outbox[i].version = memo[t][k].version

\* A success reply is backed by a change of exactly the requested kind, made
\* by this request or remembered under its key; an error reply means that
\* the request changed nothing.
ReplyIsBacked ==
  \A c \in Clients : pc[c] = "done" =>
    /\ reply[c].kind = "ok" =>
         \E i \in 1..Len(outbox) :
           /\ outbox[i].tenant = req[c].tenant
           /\ outbox[i].op = req[c].op
           /\ outbox[i].value = reply[c].value
           /\ outbox[i].version = reply[c].version
           /\ \/ outbox[i].request = req[c].id
              \/ req[c].key # NoKey /\ outbox[i].key = req[c].key
    /\ reply[c].kind \in {"conflict", "cas", "db"} =>
         \A i \in 1..Len(outbox) : outbox[i].request # req[c].id

\* The retry loop of run_atomic_mutation never applies one request twice.
RequestAppliedOnce ==
  \A i, j \in 1..Len(outbox) :
    outbox[i].request = outbox[j].request => i = j

\* Neither a key that clients repeat nor the retry loop inside one call changes
\* a counter twice.
AppliedAtMostOnce ==
  KeyAppliedOnce /\ RequestAppliedOnce

\* A request reports a CAS conflict only for a counter with more than
\* MAX_RETRIES changes behind it: each of its tries failed on a newer version.
\* (It bounds the counter's version, and does not say during which of the
\* request's tries the changes were committed.)
GivesUpOnlyUnderContention ==
  \A c \in Clients :
    pc[c] = "done" /\ reply[c].kind = "cas" =>
      counter[req[c].tenant].version > MAX_RETRIES

\* What a client is told is what happened: success, refusal or contention.
RepliesAreTrue ==
  ReplyIsBacked /\ GivesUpOnlyUnderContention

\* What makes the invariants above inductive.
\* A loaded row is a past row: it carries the current version only when it
\* carries the current value too.
SeenIsPast ==
  \A c \in Clients : pc[c] \in Running \ {"load"} =>
    LET row == counter[req[c].tenant]
    IN  /\ seen[c].version <= row.version
        /\ seen[c].version = row.version => seen[c].value = row.value

\* Requests are numbered apart, and a running request has no event yet.
RequestsNumbered ==
  /\ \A c \in Clients : req[c].id <= issued
  /\ \A c, d \in Clients : c # d /\ pc[d] \in Running => req[c].id # req[d].id
  /\ \A i \in 1..Len(outbox) : outbox[i].request <= issued
  /\ \A c \in Clients, i \in 1..Len(outbox) :
       pc[c] \in Running => outbox[i].request # req[c].id

\* A key that moved a counter is remembered.
KeysRemembered ==
  \A i \in 1..Len(outbox) :
    outbox[i].key # NoKey => memo[outbox[i].tenant][outbox[i].key].op # "none"

\* Each retry was paid for by another task's commit.
RetriesPaid ==
  \A c \in Clients :
    /\ pc[c] = "idle" => retries[c] = 0
    /\ pc[c] = "load" => retries[c] <= counter[req[c].tenant].version
    /\ pc[c] \in Running \ {"load"} => retries[c] <= seen[c].version

DbInv ==
  /\ OutboxOrdered
  /\ OutboxChain
  /\ OutboxMatchesCounter
  /\ KeyAppliedOnce
  /\ KeysRemembered
  /\ RequestAppliedOnce

TaskInv ==
  /\ SeenIsPast
  /\ RequestsNumbered
  /\ RetriesPaid
  /\ ReplyIsBacked
  /\ GivesUpOnlyUnderContention

IInv == TypeOK /\ DbInv /\ TaskInv

\* Every request task ends: the retry loop is bounded and nothing in the task
\* waits for another task.
RequestTerminates ==
  \A c \in Clients : pc[c] \in Running ~> pc[c] \notin Running

\* The promise: see AtomicCounter.
Abstract ==
  INSTANCE AtomicCounter WITH
    phase <- [c \in Clients |-> IF pc[c] \in Running THEN "pending" ELSE pc[c]]

\* The service implements the atomic counter: whatever is interleaved, each
\* call takes effect at one instant (its COMMIT) or not at all.
ImplementsAtomicCounter == Abstract!Spec
=============================================================================
