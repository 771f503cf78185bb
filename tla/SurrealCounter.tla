---------------------------- MODULE SurrealCounter ----------------------------
(***************************************************************************)
(* counter-service over the SurrealDB repository, which web-bff wires in    *)
(* when SurrealDB is configured.  The application service is the one of     *)
(* CounterService; commit_mutation is a sequence of HTTP requests here,     *)
(* each a step of its own, with nothing that takes an earlier one back.     *)
(***************************************************************************)
EXTENDS CounterService

InCommit == {"update", "upsert", "create", "outbox", "complete"}

(* The next request of commit_mutation.                                    *)
Continue(c, label) == Goto(c, label) /\ UNCHANGED <<req, retries, seen, reply, issued>>

(* commit_mutation reads the row again and compares the versions; without  *)
(* a row it goes through upsert.                                           *)
Compare(c) ==
  /\ pc[c] = "tx"
  /\ CasMatches(c)
  /\ Continue(c, IF seen[c].version > 0 THEN "update" ELSE "upsert")
  /\ UNCHANGED db

(* CasConflict: the application service loads again, or gives up.          *)
CompareFails(c) ==
  /\ pc[c] = "tx"
  /\ ~CasMatches(c)
  /\ \/ /\ retries[c] < MAX_RETRIES
        /\ retries' = [retries EXCEPT ![c] = @ + 1]
        /\ Goto(c, "load")
        /\ UNCHANGED <<req, seen, reply, issued>>
     \/ retries[c] = MAX_RETRIES /\ Answer(c, Failure("cas"))
  /\ UNCHANGED db

WriteRow(c) ==
  LET event == EventOf(c) IN
  counter' = [counter EXCEPT ![req[c].tenant] = [value |-> event.value, version |-> event.version]]

(* upsert looks for the row once more.                                     *)
Upsert(c) ==
  /\ pc[c] = "upsert"
  /\ Continue(c, IF counter[req[c].tenant] = NoRow THEN "create" ELSE "update")
  /\ UNCHANGED db

(* CREATE: the unique index on the counter key refuses a second row.       *)
Create(c) ==
  /\ pc[c] = "create"
  /\ IF counter[req[c].tenant] = NoRow
       THEN WriteRow(c) /\ Continue(c, "outbox")
       ELSE Answer(c, Failure("db")) /\ UNCHANGED counter
  /\ UNCHANGED <<memo, outbox>>

(* UPDATE: the filter is the counter key, not the version.                 *)
Update(c) ==
  /\ pc[c] = "update"
  /\ WriteRow(c)
  /\ Continue(c, "outbox")
  /\ UNCHANGED <<memo, outbox>>

Committed(c) == Answer(c, Success(EventOf(c).value, EventOf(c).version))

WriteOutbox(c) ==
  /\ pc[c] = "outbox"
  /\ outbox' = Append(outbox, EventOf(c))
  /\ IF req[c].key = NoKey THEN Committed(c) ELSE Continue(c, "complete")
  /\ UNCHANGED <<counter, memo>>

(* The unique index on the idempotency key refuses a second completion.    *)
WriteIdempotencyCompletion(c) ==
  LET event == EventOf(c) IN
  /\ pc[c] = "complete"
  /\ IF Remembered(c)
       THEN Answer(c, Failure("db")) /\ UNCHANGED memo
       ELSE /\ memo' = [memo EXCEPT ![req[c].tenant][req[c].key] =
                          [op |-> req[c].op, value |-> event.value, version |-> event.version]]
            /\ Committed(c)
  /\ UNCHANGED <<counter, outbox>>

(* A request of the commit fails: what the earlier ones wrote stays.       *)
CommitError(c) == pc[c] \in InCommit /\ Answer(c, Failure("db")) /\ UNCHANGED db

SurrealNext ==
  \E c \in Clients :
    \/ \E t \in Tenants, op \in Ops, k \in Keys \cup {NoKey} : Call(c, t, op, k)
    \/ \E t \in Tenants : GetValue(c, t)
    \/ Load(c) \/ PrecheckHit(c) \/ PrecheckMiss(c)
    \/ Compare(c) \/ CompareFails(c)
    \/ Upsert(c) \/ Create(c) \/ Update(c)
    \/ WriteOutbox(c) \/ WriteIdempotencyCompletion(c)
    \/ DbError(c) \/ CommitError(c) \/ Leave(c)

SurrealSpec == Init /\ [][SurrealNext]_vars

-----------------------------------------------------------------------------
(* ports/repository.rs:118-121, of commit_mutation: "Executes CAS counter  *)
(* update + event_outbox write in a single BEGIN/COMMIT transaction. If    *)
(* either the CAS mutation or outbox write fails, the entire transaction   *)
(* rolls back - no orphaned events, no phantom counter mutations."  So     *)
(* whenever no task is inside a commit, the outbox tells each counter's    *)
(* whole story.                                                            *)
AtomicCommit ==
  (\A c \in Clients : pc[c] \notin InCommit) => OutboxChain /\ OutboxMatchesCounter
=============================================================================
