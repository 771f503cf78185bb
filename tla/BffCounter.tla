------------------------------ MODULE BffCounter ------------------------------
(***************************************************************************)
(* The counter use cases of web-bff: what a mutation request does around   *)
(* the call of the counter service (entitlement check, quota reservation,  *)
(* commit or release, usage metering, audit, cache invalidation), and the  *)
(* cache-first read.  The counter service is AtomicCounter, which          *)
(* CounterService is proved to implement; commercial mode is enabled.      *)
(*                                                                         *)
(* Every await is a step: requests interleave between any two, and a       *)
(* request whose client disconnects is dropped at any of them.             *)
(***************************************************************************)
EXTENDS Integers, Sequences, FiniteSets

CONSTANTS
  Tenants, Clients, Keys, NoKey, MaxRequests,   \* as in AtomicCounter
  Mutations,  \* the mutations requested: a subset of its Ops
  Limits,     \* the quotas a tenant may have
  NoRow,      \* the absence of a cache entry
  Faults,     \* the calls that may fail: a subset of FaultKinds
  MaxFaults   \* bound: failed calls and dropped requests in a behaviour

FaultKinds == {"entitlement", "quota", "usage", "audit", "drop"}

ASSUME LimitsAssumption == Limits \subseteq Nat
ASSUME FaultsAssumption == Faults \subseteq FaultKinds
ASSUME BoundsAssumption == MaxRequests \in Nat /\ MaxFaults \in Nat

VARIABLES
  counter, memo, outbox, phase, req, reply, issued,   \* as in AtomicCounter
  pc,            \* client -> the await its request is at
  task,          \* client -> the local variables of its request
  entitled,      \* tenant -> an active row in commercial_entitlements
  limits,        \* commercial_quota_limits
  reservations,  \* commercial_quota_reservations, oldest first
  payment,       \* request id -> the reservation it was made under
  usage,         \* commercial_usage_events: the reservation each is for
  audited,       \* the reservations whose mutation was audited
  cache,         \* tenant -> the cached row, or NoRow
  acked,         \* client -> tenant -> latest version acknowledged to it
  faults         \* the failed calls and dropped requests, oldest first

Counter == INSTANCE AtomicCounter

service == <<counter, memo, outbox, phase, req, reply, issued>>
ledger == <<limits, reservations, usage, audited>>
vars == <<service, pc, task, entitled, ledger, payment, cache, acked, faults>>

Pcs == {"idle", "entitle", "reserve", "call", "wait", "release", "commit", "usage",
        "audit", "invalidate", "load", "insert"}
Statuses == {"reserved", "committed", "released"}
Row == [value : Int, version : Nat]
ZeroRow == [value |-> 0, version |-> 0]

\* ticket: the reservation the guard holds, 0 for none; row: the row of the
\* counter the request has seen (the code keeps its value).
NoTask(t) == [tenant |-> t, op |-> "none", key |-> NoKey, ticket |-> 0, row |-> ZeroRow]

Init ==
  /\ Counter!Init
  /\ pc = [c \in Clients |-> "idle"]
  /\ task \in [Clients -> {NoTask(t) : t \in Tenants}]
  /\ entitled \in [Tenants -> BOOLEAN]
  /\ limits \in [Tenants -> Limits]
  /\ reservations = << >> /\ payment = << >>
  /\ usage = << >> /\ audited = {}
  /\ cache = [t \in Tenants |-> NoRow]
  /\ acked = [c \in Clients |-> [t \in Tenants |-> 0]]
  /\ faults = << >>

-----------------------------------------------------------------------------
\* Helpers

Fault(kind) ==
  /\ kind \in Faults
  /\ Len(faults) < MaxFaults
  /\ faults' = Append(faults, kind)
NoFault == UNCHANGED faults

Go(c, label) == pc' = [pc EXCEPT ![c] = label]

\* The request is over; its task is dropped.
End(c) ==
  /\ Go(c, "idle")
  /\ task' = [task EXCEPT ![c] = NoTask(task[c].tenant)]

\* SUM(quantity) ... status IN ('reserved', 'committed'); every quantity is 1.
Held(t) ==
  {i \in 1..Len(reservations) : reservations[i].tenant = t
                                /\ reservations[i].status \in {"reserved", "committed"}}

\* The WHERE of the INSERT ... SELECT.
Fits(t) == Cardinality(Held(t)) + 1 <= limits[t]

\* UPDATE ... WHERE reservation_id = ? AND status = 'reserved'
Transition(i, status) ==
  reservations' = IF reservations[i].status = "reserved"
                  THEN [reservations EXCEPT ![i].status = status] ELSE reservations

-----------------------------------------------------------------------------
\* A mutation request

\* The tenant is resolved and authorization granted.
Begin(c, t, op, k) ==
  /\ pc[c] = "idle"
  /\ Len(reservations) < MaxRequests
  /\ Go(c, "entitle")
  /\ task' = [task EXCEPT ![c] = [NoTask(t) EXCEPT !.op = op, !.key = k]]
  /\ UNCHANGED <<service, entitled, ledger, payment, cache, acked, faults>>

\* LibSqlEntitlementResolver::check looks for an active row: from_config gives
\* it an empty list of capabilities that are allowed without one.
Entitled(t) == entitled[t]

\* The first step of the reservation; a refusal or an error ends the request.
CheckEntitlement(c) ==
  /\ pc[c] = "entitle"
  /\ \/ NoFault /\ Entitled(task[c].tenant) /\ Go(c, "reserve") /\ UNCHANGED task
     \/ NoFault /\ ~Entitled(task[c].tenant) /\ End(c)
     \/ Fault("entitlement") /\ End(c)
  /\ UNCHANGED <<service, entitled, ledger, payment, cache, acked>>

\* Mutant: the ticket is the number of reservations before the insert.
ReserveOldTicket(c) ==
  LET t == task[c].tenant
  IN  /\ pc[c] = "reserve"
      /\ NoFault
      /\ Len(reservations) < MaxRequests
      /\ Fits(t)
      /\ reservations' = Append(reservations, [tenant |-> t, status |-> "reserved"])
      /\ Go(c, "call")
      /\ task' = [task EXCEPT ![c].ticket = Len(reservations)]
      /\ UNCHANGED <<service, entitled, limits, usage, audited, payment, cache, acked>>

\* QuotaLedger::reserve: one INSERT ... SELECT that compares and inserts.  An
\* error ends the request; the row may have been written.
Reserve(c) ==
  LET t == task[c].tenant
      added == Append(reservations, [tenant |-> t, status |-> "reserved"])
  IN  /\ pc[c] = "reserve"
      /\ Len(reservations) < MaxRequests
      /\ \/ /\ NoFault /\ Fits(t)
            /\ reservations' = added
            /\ Go(c, "call")
            /\ task' = [task EXCEPT ![c].ticket = Len(reservations) + 1]
         \/ NoFault /\ ~Fits(t) /\ End(c) /\ UNCHANGED reservations
         \/ /\ Fault("quota")
            /\ reservations' \in {reservations} \cup IF Fits(t) THEN {added} ELSE {}
            /\ End(c)
      /\ UNCHANGED <<service, entitled, limits, usage, audited, payment, cache, acked>>

CallService(c) ==
  /\ pc[c] = "call"
  /\ Counter!Call(c, task[c].tenant, task[c].op, task[c].key)
  /\ payment' = Append(payment, task[c].ticket)
  /\ Go(c, "wait")
  /\ UNCHANGED <<task, entitled, ledger, cache, acked, faults>>

\* The counter service at work on the call.
Serve(c) ==
  /\ pc[c] = "wait"
  /\ Counter!Mutate(c) \/ Counter!Replay(c) \/ Counter!Fail(c)
  /\ UNCHANGED <<pc, task, entitled, ledger, payment, cache, acked, faults>>

\* Mutant: the reservation is released after a success as well.
ReturnReleases(c) ==
  /\ pc[c] = "wait" /\ phase[c] = "done"
  /\ Go(c, "release")
  /\ task' = [task EXCEPT ![c].row = [value |-> reply[c].value, version |-> reply[c].version]]
  /\ Counter!Leave(c)
  /\ UNCHANGED <<entitled, ledger, payment, cache, acked, faults>>

\* The match on the service's result.
Return(c) ==
  /\ pc[c] = "wait" /\ phase[c] = "done"
  /\ Go(c, IF reply[c].kind = "ok" THEN "commit" ELSE "release")
  /\ task' = [task EXCEPT ![c].row = [value |-> reply[c].value, version |-> reply[c].version]]
  /\ Counter!Leave(c)
  /\ UNCHANGED <<entitled, ledger, payment, cache, acked, faults>>

\* Mutant: the service's error is returned before the guard is released.
ReleaseForgotten(c) ==
  /\ pc[c] = "release"
  /\ NoFault /\ UNCHANGED reservations
  /\ End(c)
  /\ UNCHANGED <<service, entitled, limits, usage, audited, payment, cache, acked>>

\* guard.release(): its error is logged.
Release(c) ==
  /\ pc[c] = "release"
  /\ \/ NoFault /\ Transition(task[c].ticket, "released")
     \/ Fault("quota") /\ UNCHANGED reservations
  /\ End(c)
  /\ UNCHANGED <<service, entitled, limits, usage, audited, payment, cache, acked>>

\* guard.commit(), first half.  An error ends the request although the counter
\* has changed; the cache is not invalidated.
CommitQuota(c) ==
  /\ pc[c] = "commit"
  /\ \/ /\ NoFault
        /\ Transition(task[c].ticket, "committed")
        /\ Go(c, "usage") /\ UNCHANGED task
     \/ /\ Fault("quota")
        /\ Transition(task[c].ticket, "committed") \/ UNCHANGED reservations
        /\ End(c)
  /\ UNCHANGED <<service, entitled, limits, usage, audited, payment, cache, acked>>

\* UsageMeter::record inserts a row.
Metered(ticket) == Append(usage, ticket)

\* guard.commit(), second half.
RecordUsage(c) ==
  /\ pc[c] = "usage"
  /\ \/ /\ NoFault
        /\ usage' = Metered(task[c].ticket)
        /\ Go(c, "audit") /\ UNCHANGED task
     \/ /\ Fault("usage")
        /\ usage' \in {usage, Metered(task[c].ticket)}
        /\ End(c)
  /\ UNCHANGED <<service, entitled, limits, reservations, audited, payment, cache, acked>>

\* append_audit: its error is logged.
AppendAudit(c) ==
  /\ pc[c] = "audit"
  /\ \/ NoFault /\ audited' = audited \cup {task[c].ticket}
     \/ Fault("audit") /\ UNCHANGED audited
  /\ Go(c, "invalidate")
  /\ UNCHANGED <<service, task, entitled, limits, reservations, usage, payment, cache, acked>>

\* The cache entry goes and the value is returned to the client.
Invalidate(c) ==
  /\ pc[c] = "invalidate"
  /\ cache' = [cache EXCEPT ![task[c].tenant] = NoRow]
  /\ acked' = [acked EXCEPT ![c][task[c].tenant] =
                 IF task[c].row.version > @ THEN task[c].row.version ELSE @]
  /\ End(c)
  /\ UNCHANGED <<service, entitled, ledger, payment, faults>>

-----------------------------------------------------------------------------
\* A read request

\* get_value finds no cache entry; with one it returns it and changes nothing.
CacheMiss(c, t) ==
  /\ pc[c] = "idle"
  /\ cache[t] = NoRow
  /\ Go(c, "load")
  /\ task' = [task EXCEPT ![c] = NoTask(t)]
  /\ UNCHANGED <<service, entitled, ledger, payment, cache, acked, faults>>

Load(c) ==
  /\ pc[c] = "load"
  /\ Counter!GetValue(c, task[c].tenant)
  /\ task' = [task EXCEPT ![c].row = counter[task[c].tenant]]
  /\ Go(c, "insert")
  /\ UNCHANGED <<entitled, ledger, payment, cache, acked, faults>>

Insert(c) ==
  /\ pc[c] = "insert"
  /\ cache' = [cache EXCEPT ![task[c].tenant] = task[c].row]
  /\ Counter!Leave(c)
  /\ End(c)
  /\ UNCHANGED <<entitled, ledger, payment, acked, faults>>

-----------------------------------------------------------------------------
\* The environment

\* The client disconnects: the request's future is dropped at its await, and
\* with it the call of the service.  The guard has no Drop.
Disconnect(c) ==
  /\ pc[c] # "idle"
  /\ Fault("drop")
  /\ End(c)
  /\ IF phase[c] = "idle" THEN UNCHANGED service ELSE Counter!Leave(c)
  /\ UNCHANGED <<entitled, ledger, payment, cache, acked>>

\* moka drops an entry after its time to live, or for space.
Expire(t) ==
  /\ cache[t] # NoRow
  /\ cache' = [cache EXCEPT ![t] = NoRow]
  /\ UNCHANGED <<service, pc, task, entitled, ledger, payment, acked, faults>>

\* Billing events grant and revoke the entitlement.
Grant(t) ==
  /\ ~entitled[t]
  /\ entitled' = [entitled EXCEPT ![t] = TRUE]
  /\ UNCHANGED <<service, pc, task, ledger, payment, cache, acked, faults>>
Revoke(t) ==
  /\ entitled[t]
  /\ entitled' = [entitled EXCEPT ![t] = FALSE]
  /\ UNCHANGED <<service, pc, task, ledger, payment, cache, acked, faults>>

WriteStep(c) ==
  \/ CheckEntitlement(c) \/ Reserve(c) \/ CallService(c) \/ Serve(c) \/ Return(c)
  \/ Release(c) \/ CommitQuota(c) \/ RecordUsage(c) \/ AppendAudit(c) \/ Invalidate(c)
Step(c) == WriteStep(c) \/ Load(c) \/ Insert(c)

Next ==
  \/ \E c \in Clients :
       \/ \E t \in Tenants, op \in Mutations, k \in Keys \cup {NoKey} : Begin(c, t, op, k)
       \/ \E t \in Tenants : CacheMiss(c, t)
       \/ Step(c)
       \/ Disconnect(c)
  \/ \E t \in Tenants : Expire(t) \/ Grant(t) \/ Revoke(t)

Spec == Init /\ [][Next]_vars

\* The runtime polls every request to its end.
FairSpec == Spec /\ \A c \in Clients : WF_vars(Step(c))

-----------------------------------------------------------------------------
\* Properties

\* The quota, the requests, the cache and the counter have their types.
TypeOK ==
  /\ pc \in [Clients -> Pcs]
  /\ task \in [Clients -> [tenant : Tenants, op : Mutations \cup {"none"},
                           key : Keys \cup {NoKey}, ticket : 0..MaxRequests, row : Row]]
  /\ entitled \in [Tenants -> BOOLEAN]
  /\ limits \in [Tenants -> Limits]
  /\ reservations \in Seq([tenant : Tenants, status : Statuses])
  /\ payment \in Seq(1..Len(reservations)) /\ Len(payment) = issued
  /\ usage \in Seq(1..Len(reservations))
  /\ audited \subseteq 1..Len(reservations)
  /\ cache \in [Tenants -> Row \cup {NoRow}]
  /\ acked \in [Clients -> [Tenants -> Nat]]
  /\ faults \in Seq(Faults) /\ Len(faults) <= MaxFaults

\* Requests that check the quota at the same time never take a tenant over
\* its limit.
QuotaHolds ==
  \A t \in Tenants : Cardinality(Held(t)) <= limits[t]

\* Every change of the counter is made under a reservation of its own that
\* still counts against the tenant's quota, also when the ledger fails or the
\* client has gone: nobody changes a counter for free.
AppliedIsPaid ==
  /\ \A i \in 1..Len(outbox) : payment[outbox[i].request] \in Held(outbox[i].tenant)
  /\ \A i, j \in 1..Len(outbox) :
       i # j => payment[outbox[i].request] # payment[outbox[j].request]

\* A usage event stands for one committed reservation, and no reservation is
\* metered twice.
UsageIsCommitted ==
  /\ \A i \in 1..Len(usage) : reservations[usage[i]].status = "committed"
  /\ \A i, j \in 1..Len(usage) : i # j => usage[i] # usage[j]

\* No tenant changes its counter more often than its limit allows: what is held
\* stays within the limit, every change has a reservation of its own among what
\* is held, and no reservation is metered twice.  (A request is charged, not a
\* change: one that replays an idempotency key changes nothing, and is reserved,
\* committed and metered again.)
PaidWithinQuota ==
  QuotaHolds /\ AppliedIsPaid /\ UsageIsCommitted

\* As long as no call fails and no client leaves, every reservation is
\* committed, metered and audited, or released.
ReservationsSettle ==
  [](faults = << >>) =>
    \A i \in 1..MaxRequests :
      (i <= Len(reservations)) ~>
        /\ i <= Len(reservations)
        /\ \/ reservations[i].status = "released"
           \/ /\ reservations[i].status = "committed"
              /\ \E j \in 1..Len(usage) : usage[j] = i
              /\ i \in audited

\* A client that was told its reset (or other mutation) succeeded is not
\* answered from the cache with an older row.
ReadYourWrite ==
  \A c \in Clients, t \in Tenants :
    cache[t] # NoRow => cache[t].version >= acked[c][t]
=============================================================================
