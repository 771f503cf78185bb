--------------------------- MODULE AtomicCounter ---------------------------
(***************************************************************************)
(* What the counter service promises its callers, with no database,        *)
(* versions to compare or retries in sight: every accepted call takes      *)
(* effect in one indivisible step between its start and its reply, a call  *)
(* that reports an error has no effect, and a call that reuses an          *)
(* idempotency key is answered from memory.  CounterService implements it. *)
(***************************************************************************)
EXTENDS Integers, Sequences

CONSTANTS
  Tenants,      \* tenant ids; a tenant owns one counter
  Clients,      \* request tasks that may be in flight together
  Keys,         \* idempotency keys
  NoKey,        \* the absence of an idempotency key
  MaxRequests   \* bound on the number of mutations requested

VARIABLES
  counter,      \* tenant -> the stored row
  memo,         \* tenant -> key -> the remembered outcome
  outbox,       \* every change announced, oldest first
  phase,        \* client -> "idle" | "pending" | "done"
  req,          \* client -> its request
  reply,        \* client -> its answer
  issued        \* mutations requested so far

vars == <<counter, memo, outbox, phase, req, reply, issued>>

Ops == {"increment", "decrement", "reset"}

NoReply == [kind |-> "none", value |-> 0, version |-> 0]

Failure(kind) == [kind |-> kind, value |-> 0, version |-> 0]

Success(value, version) == [kind |-> "ok", value |-> value, version |-> version]

\* The value of a counter after an operation on value v.
NextValue(op, v) ==
  IF op = "increment" THEN v + 1 ELSE IF op = "decrement" THEN v - 1 ELSE 0

Init ==
  /\ counter = [t \in Tenants |-> [value |-> 0, version |-> 0]]
  /\ memo = [t \in Tenants |-> [k \in Keys |->
               [op |-> "none", value |-> 0, version |-> 0]]]
  /\ outbox = << >>
  /\ phase = [c \in Clients |-> "idle"]
  /\ req \in [Clients -> {[id |-> 0, tenant |-> t, op |-> "reset", key |-> NoKey] :
                            t \in Tenants}]
  /\ reply = [c \in Clients |-> NoReply]
  /\ issued = 0

Call(c, t, op, k) ==
  /\ phase[c] = "idle"
  /\ issued < MaxRequests
  /\ issued' = issued + 1
  /\ req' = [req EXCEPT ![c] = [id |-> issued + 1, tenant |-> t, op |-> op, key |-> k]]
  /\ phase' = [phase EXCEPT ![c] = "pending"]
  /\ UNCHANGED <<counter, memo, outbox, reply>>

\* A read returns the value of the moment.
GetValue(c, t) ==
  /\ phase[c] = "idle"
  /\ phase' = [phase EXCEPT ![c] = "done"]
  /\ reply' = [reply EXCEPT ![c] =
                 [kind |-> "value", value |-> counter[t].value, version |-> 0]]
  /\ UNCHANGED <<counter, memo, outbox, req, issued>>

Remembered(c) ==
  req[c].key # NoKey /\ memo[req[c].tenant][req[c].key].op # "none"

Answer(c, r) ==
  /\ phase' = [phase EXCEPT ![c] = "done"]
  /\ reply' = [reply EXCEPT ![c] = r]
  /\ UNCHANGED <<req, issued>>

\* The one step in which a call takes effect.
Mutate(c) ==
  LET t == req[c].tenant
      v == NextValue(req[c].op, counter[t].value)
      n == counter[t].version + 1
  IN  /\ phase[c] = "pending"
      /\ ~Remembered(c)
      /\ counter' = [counter EXCEPT ![t] = [value |-> v, version |-> n]]
      /\ outbox' = Append(outbox, [tenant |-> t, op |-> req[c].op, value |-> v,
                                   delta |-> v - counter[t].value, version |-> n,
                                   key |-> req[c].key, request |-> req[c].id])
      /\ memo' = IF req[c].key = NoKey THEN memo
                 ELSE [memo EXCEPT ![t][req[c].key] =
                         [op |-> req[c].op, value |-> v, version |-> n]]
      /\ Answer(c, Success(v, n))

\* A reused key is answered from memory, or refused when the operation differs.
Replay(c) ==
  LET m == memo[req[c].tenant][req[c].key]
  IN  /\ phase[c] = "pending"
      /\ Remembered(c)
      /\ Answer(c, IF m.op = req[c].op THEN Success(m.value, m.version)
                   ELSE Failure("conflict"))
      /\ UNCHANGED <<counter, memo, outbox>>

\* An error reply is a promise that nothing happened.
Fail(c) ==
  /\ phase[c] = "pending"
  /\ \E kind \in {"cas", "db"} : Answer(c, Failure(kind))
  /\ UNCHANGED <<counter, memo, outbox>>

\* The caller goes away before or after the call takes effect.
Leave(c) ==
  /\ phase[c] # "idle"
  /\ phase' = [phase EXCEPT ![c] = "idle"]
  /\ reply' = [reply EXCEPT ![c] = NoReply]
  /\ UNCHANGED <<counter, memo, outbox, req, issued>>

Next ==
  \E c \in Clients :
    \/ \E t \in Tenants, op \in Ops, k \in Keys \cup {NoKey} : Call(c, t, op, k)
    \/ \E t \in Tenants : GetValue(c, t)
    \/ Mutate(c)
    \/ Replay(c)
    \/ Fail(c)
    \/ Leave(c)

Spec == Init /\ [][Next]_vars
=============================================================================
