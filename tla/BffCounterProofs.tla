--------------------------- MODULE BffCounterProofs ---------------------------
(***************************************************************************)
(* Proofs about the counter use cases of web-bff, for any tenants, clients,*)
(* limits, faults and bounds: no tenant changes its counter more often     *)
(* than its quota allows, and no change is charged or metered twice.       *)
(*                                                                         *)
(* The invariant follows the reservation a request holds, its ticket: no   *)
(* two requests hold the same one, it is the one the call of the counter   *)
(* service is recorded under, and it is released only when that call had   *)
(* no effect.                                                              *)
(***************************************************************************)
EXTENDS BffCounter, FiniteSetTheorems, TLAPS

-----------------------------------------------------------------------------
\* The invariant

OpNames == Mutations \cup {"none", "reset"}
Task == [tenant : Tenants, op : Mutations \cup {"none"}, key : Keys \cup {NoKey},
         ticket : 0..MaxRequests, row : Row]
Reservation == [tenant : Tenants, status : Statuses]
Request == [id : Nat, tenant : Tenants, op : OpNames, key : Keys \cup {NoKey}]
Reply == [kind : {"none", "ok", "value", "conflict", "cas", "db"}, value : Int, version : Nat]
Memo == [op : OpNames, value : Int, version : Nat]
Entry == [tenant : Tenants, op : OpNames, value : Int, delta : Int, version : Nat,
          key : Keys \cup {NoKey}, request : Nat]

\* The types of the requests and of web-bff's own state.
RequestTypes ==
  /\ pc \in [Clients -> Pcs] /\ task \in [Clients -> Task]
  /\ entitled \in [Tenants -> BOOLEAN] /\ limits \in [Tenants -> Limits]
  /\ cache \in [Tenants -> Row \cup {NoRow}]
  /\ acked \in [Clients -> [Tenants -> Nat]]
  /\ faults \in Seq(Faults) /\ Len(faults) <= MaxFaults

\* The types of the counter service.
ServiceTypes ==
  /\ counter \in [Tenants -> Row]
  /\ memo \in [Tenants -> [Keys -> Memo]]
  /\ outbox \in Seq(Entry)
  /\ phase \in [Clients -> {"idle", "pending", "done"}]
  /\ req \in [Clients -> Request] /\ reply \in [Clients -> Reply]
  /\ issued \in Nat

\* The types of the ledger.
LedgerTypes ==
  /\ reservations \in Seq(Reservation) /\ Len(reservations) <= MaxRequests
  /\ payment \in Seq(1..Len(reservations)) /\ Len(payment) = issued
  /\ usage \in Seq(1..Len(reservations))
  /\ audited \subseteq 1..Len(reservations)

\* The awaits between the reservation and the end of a request.
Holding == {"call", "wait", "release", "commit", "usage", "audit", "invalidate"}

\* The request of client c holds a ticket of its tenant, still reserved until it
\* is settled; it pays for the call it makes and for no other, and after a call
\* without effect for none.
TicketOf(c) ==
  LET i == task[c].ticket
  IN  /\ pc[c] \in Holding => i \in 1..Len(reservations) /\ reservations[i].tenant = task[c].tenant
      /\ pc[c] \in {"call", "wait", "release", "commit"} => reservations[i].status = "reserved"
      /\ pc[c] = "call" => \A k \in 1..Len(payment) : payment[k] # i
      /\ pc[c] = "wait" => req[c].id \in 1..issued /\ payment[req[c].id] = i /\ req[c].tenant = task[c].tenant
      /\ pc[c] = "wait" /\ (phase[c] = "pending" \/ reply[c].kind # "ok") =>
           \A k \in 1..Len(outbox) : outbox[k].request # req[c].id
      /\ pc[c] = "release" => \A k \in 1..Len(outbox) : payment[outbox[k].request] # i
      /\ pc[c] = "usage" => reservations[i].status = "committed" /\ \A k \in 1..Len(usage) : usage[k] # i

OwnTickets ==
  \A c, d \in Clients : c # d /\ pc[c] \in Holding /\ pc[d] \in Holding => task[c].ticket # task[d].ticket

\* A reservation pays once, and a call takes effect once.
PaysOnce ==
  /\ \A i, j \in 1..Len(payment) : i # j => payment[i] # payment[j]
  /\ \A i, j \in 1..Len(outbox) : i # j => outbox[i].request # outbox[j].request
  /\ \A i \in 1..Len(outbox) : outbox[i].request \in 1..issued
                               /\ payment[outbox[i].request] \in Held(outbox[i].tenant)

LedgerInv ==
  (\A c \in Clients : TicketOf(c)) /\ OwnTickets /\ PaysOnce /\ QuotaHolds /\ UsageIsCommitted

BffInv == RequestTypes /\ ServiceTypes /\ LedgerTypes /\ LedgerInv

-----------------------------------------------------------------------------
\* The steps actions are made of

\* A failed call is recorded; one that does not fail changes nothing.
LEMMA Faulted ==
  ASSUME RequestTypes, NEW k, Fault(k) \/ NoFault
  PROVE  faults' \in Seq(Faults) /\ Len(faults') <= MaxFaults
<1>1. CASE NoFault
  BY Zenon, <1>1 DEF NoFault, RequestTypes
<1>2. CASE Fault(k)
  <2>1. /\ k \in Faults /\ faults \in Seq(Faults) /\ Len(faults) < MaxFaults /\ faults' = Append(faults, k)
    BY Zenon, <1>2 DEF Fault, RequestTypes
  <2>2. faults' \in Seq(Faults) /\ Len(faults') = Len(faults) + 1 /\ Len(faults) \in Nat /\ MaxFaults \in Nat
    BY <2>1, BoundsAssumption
  <2>. QED BY <2>1, <2>2
<1>. QED BY Zenon, <1>1, <1>2

\* The local variables of a new request.
LEMMA FreshTask == ASSUME NEW t \in Tenants PROVE NoTask(t) \in Task
<1>1. 0 \in 0..MaxRequests
  BY BoundsAssumption
<1>2. ZeroRow \in Row
  BY DEF ZeroRow, Row
<1>. QED BY Zenon, <1>1, <1>2 DEF NoTask, Task

\* A request moves on to its next await.
LEMMA Goes ==
  ASSUME RequestTypes, NEW c \in Clients, NEW label \in Pcs, Go(c, label)
  PROVE  pc' \in [Clients -> Pcs] /\ pc'[c] = label /\ \A d \in Clients : d # c => pc'[d] = pc[d]
BY Zenon DEF Go, RequestTypes

\* A request ends.
LEMMA Ends ==
  ASSUME RequestTypes, NEW c \in Clients, End(c)
  PROVE  /\ pc' \in [Clients -> Pcs] /\ pc'[c] = "idle" /\ task' \in [Clients -> Task]
         /\ \A d \in Clients : d # c => pc'[d] = pc[d] /\ task'[d] = task[d]
<1>1. NoTask(task[c].tenant) \in Task
  BY Zenon, FreshTask DEF RequestTypes, Task
<1>2. "idle" \in Pcs
  BY Zenon DEF Pcs
<1>. QED BY Zenon, <1>1, <1>2, Goes DEF End, RequestTypes

\* A step that touches neither the ledger nor the calls paid from it: some
\* requests are dropped, begun or moved on where they hold no ticket or have
\* settled it.
LEMMA QuietLedger ==
  ASSUME LedgerInv, UNCHANGED <<reservations, payment, usage, outbox, issued, limits, req>>,
         \A d \in Clients :
           \/ pc'[d] \notin Holding
           \/ pc[d] = "audit" /\ pc'[d] = "invalidate" /\ task'[d] = task[d]
           \/ pc'[d] = pc[d] /\ task'[d] = task[d] /\ phase'[d] = phase[d] /\ reply'[d] = reply[d]
  PROVE  LedgerInv'
<1>1. \A t : Held(t)' = Held(t)
  BY Zenon DEF Held
<1>2. ASSUME NEW d \in Clients PROVE TicketOf(d)'
  <2>1. CASE pc'[d] \notin Holding
    BY Zenon, <2>1 DEF TicketOf, Holding
  <2>2. CASE pc[d] = "audit" /\ pc'[d] = "invalidate" /\ task'[d] = task[d]
    BY Zenon, <2>2 DEF LedgerInv, TicketOf, Holding
  <2>3. CASE pc'[d] = pc[d] /\ task'[d] = task[d] /\ phase'[d] = phase[d] /\ reply'[d] = reply[d]
    BY <2>3 DEF LedgerInv, TicketOf
  <2>. QED BY Zenon, <2>1, <2>2, <2>3
<1>3. OwnTickets'
  <2>1. \A d \in Clients : pc'[d] \in Holding => pc[d] \in Holding /\ task'[d] = task[d]
    BY Zenon DEF Holding
  <2>. QED BY <2>1 DEF LedgerInv, OwnTickets
<1>4. PaysOnce' /\ UsageIsCommitted'
  BY <1>1 DEF LedgerInv, PaysOnce, UsageIsCommitted
<1>5. QuotaHolds'
  BY Zenon, <1>1 DEF LedgerInv, QuotaHolds
<1>. QED BY Zenon, <1>2, <1>3, <1>4, <1>5 DEF LedgerInv

\* A request that another one's step leaves alone keeps its ticket, if the step
\* does not touch the ticket: its row, its payment and its meter.
LEMMA Bystander ==
  ASSUME ServiceTypes, LedgerTypes, NEW d \in Clients, TicketOf(d),
         pc'[d] = pc[d], task'[d] = task[d], req'[d] = req[d], phase'[d] = phase[d], reply'[d] = reply[d],
         Len(reservations') \in Nat, Len(reservations') >= Len(reservations), issued' \in Nat, issued' >= issued,
         Len(payment') = issued',
         pc[d] \in Holding => reservations'[task[d].ticket] = reservations[task[d].ticket],
         \A k \in 1..Len(payment) : payment'[k] = payment[k],
         \A k \in 1..issued' : k \in 1..Len(payment) \/ pc[d] # "call" \/ payment'[k] # task[d].ticket,
         \A k \in 1..Len(outbox') :
           \/ k \in 1..Len(outbox) /\ outbox'[k] = outbox[k] /\ outbox[k].request \in 1..issued
           \/ (pc[d] = "wait" => outbox'[k].request # req[d].id)
              /\ (pc[d] = "release" => payment'[outbox'[k].request] # task[d].ticket),
         \A k \in 1..Len(usage') : (k \in 1..Len(usage) /\ usage'[k] = usage[k]) \/ pc[d] # "usage" \/ usage'[k] # task[d].ticket
  PROVE  TicketOf(d)'
<1>1. Len(reservations) \in Nat /\ issued \in Nat /\ Len(payment) = issued
  BY DEF ServiceTypes, LedgerTypes
<1>. DEFINE i == task[d].ticket
<1>2. /\ pc[d] \in Holding => i \in 1..Len(reservations) /\ reservations[i].tenant = task[d].tenant
      /\ pc[d] \in {"call", "wait", "release", "commit"} => reservations[i].status = "reserved"
      /\ pc[d] = "call" => \A k \in 1..Len(payment) : payment[k] # i
      /\ pc[d] = "wait" => req[d].id \in 1..issued /\ payment[req[d].id] = i /\ req[d].tenant = task[d].tenant
      /\ pc[d] = "wait" /\ (phase[d] = "pending" \/ reply[d].kind # "ok") =>
           \A k \in 1..Len(outbox) : outbox[k].request # req[d].id
      /\ pc[d] = "release" => \A k \in 1..Len(outbox) : payment[outbox[k].request] # i
      /\ pc[d] = "usage" => reservations[i].status = "committed" /\ \A k \in 1..Len(usage) : usage[k] # i
  BY Zenon DEF TicketOf
<1>3. pc[d] \in {"call", "wait", "release", "commit", "usage"} => pc[d] \in Holding
  BY Zenon DEF Holding
<1>4. /\ pc[d] \in Holding => i \in 1..Len(reservations') /\ reservations'[i].tenant = task[d].tenant
      /\ pc[d] \in {"call", "wait", "release", "commit"} => reservations'[i].status = "reserved"
      /\ pc[d] = "usage" => reservations'[i].status = "committed"
  BY <1>1, <1>2, <1>3
<1>5. /\ pc[d] = "call" => \A k \in 1..Len(payment') : payment'[k] # i
      /\ pc[d] = "wait" => req[d].id \in 1..issued' /\ payment'[req[d].id] = i /\ req[d].tenant = task[d].tenant
  BY <1>1, <1>2
<1>6. pc[d] = "wait" /\ (phase[d] = "pending" \/ reply[d].kind # "ok") =>
        \A k \in 1..Len(outbox') : outbox'[k].request # req[d].id
  BY Zenon, <1>2
<1>7. pc[d] = "release" => \A k \in 1..Len(outbox') : payment'[outbox'[k].request] # i
  BY Zenon, <1>1, <1>2
<1>8. pc[d] = "usage" => \A k \in 1..Len(usage') : usage'[k] # i
  BY Zenon, <1>2
<1>. HIDE DEF i
<1>9. task'[d].ticket = i
  BY Zenon DEF i
<1>. QED BY Zenon, <1>4, <1>5, <1>6, <1>7, <1>8, <1>9 DEF TicketOf

\* The service's answer to client c.
LEMMA Answered ==
  ASSUME ServiceTypes, NEW c \in Clients, NEW r \in Reply, Counter!Answer(c, r)
  PROVE  /\ phase' \in [Clients -> {"idle", "pending", "done"}] /\ reply' \in [Clients -> Reply]
         /\ phase'[c] = "done" /\ reply'[c] = r /\ UNCHANGED <<req, issued>>
         /\ \A d \in Clients : d # c => phase'[d] = phase[d] /\ reply'[d] = reply[d]
BY Zenon DEF ServiceTypes, Counter!Answer

\* The caller leaves.
LEMMA Left ==
  ASSUME ServiceTypes, NEW c \in Clients, Counter!Leave(c)
  PROVE  /\ ServiceTypes' /\ UNCHANGED <<counter, memo, outbox, req, issued>>
         /\ \A d \in Clients : d # c => phase'[d] = phase[d] /\ reply'[d] = reply[d]
<1>1. Counter!NoReply \in Reply
  BY DEF Counter!NoReply, Reply
<1>. QED BY Zenon, <1>1 DEF ServiceTypes, Counter!Leave

\* The read of the counter.
LEMMA Got ==
  ASSUME ServiceTypes, NEW c \in Clients, NEW t \in Tenants, Counter!GetValue(c, t)
  PROVE  /\ ServiceTypes' /\ UNCHANGED <<counter, memo, outbox, req, issued>>
         /\ \A d \in Clients : d # c => phase'[d] = phase[d] /\ reply'[d] = reply[d]
<1>1. [kind |-> "value", value |-> counter[t].value, version |-> 0] \in Reply
  BY Zenon DEF ServiceTypes, Reply, Row
<1>. QED BY Zenon, <1>1 DEF ServiceTypes, Counter!GetValue

-----------------------------------------------------------------------------
\* The actions that leave the ledger alone

\* A request is accepted.
LEMMA BeginStep ==
  ASSUME BffInv, NEW c \in Clients, NEW t \in Tenants, NEW op \in Mutations, NEW k \in Keys \cup {NoKey},
         Begin(c, t, op, k)
  PROVE  BffInv'
<1>1. /\ Go(c, "entitle") /\ task' = [task EXCEPT ![c] = [NoTask(t) EXCEPT !.op = op, !.key = k]]
      /\ UNCHANGED <<counter, memo, outbox, phase, req, reply, issued, entitled, limits, reservations, usage, audited,
                     payment, cache, acked, faults>>
      /\ RequestTypes /\ ServiceTypes /\ LedgerTypes /\ LedgerInv
  BY Zenon DEF Begin, service, ledger, BffInv
<1>2. [NoTask(t) EXCEPT !.op = op, !.key = k] \in Task
  <2>1. NoTask(t) \in Task
    BY Zenon, FreshTask
  <2>. QED BY Zenon, <2>1 DEF Task
<1>3. /\ pc' \in [Clients -> Pcs] /\ pc'[c] = "entitle" /\ \A d \in Clients : d # c => pc'[d] = pc[d]
  BY Zenon, <1>1, Goes DEF Pcs
<1>4. RequestTypes' /\ ServiceTypes' /\ LedgerTypes'
  BY Zenon, <1>1, <1>2, <1>3 DEF RequestTypes, ServiceTypes, LedgerTypes
<1>5. \A d \in Clients : d # c => task'[d] = task[d]
  BY Zenon, <1>1 DEF RequestTypes
<1>6. LedgerInv'
  BY Zenon, <1>1, <1>3, <1>5, QuietLedger DEF Holding
<1>. QED BY Zenon, <1>4, <1>6 DEF BffInv

\* The entitlement is there, or it is not, or it cannot be read.
LEMMA EntitlementStep ==
  ASSUME BffInv, NEW c \in Clients, CheckEntitlement(c)
  PROVE  BffInv'
<1>1a. RequestTypes /\ ServiceTypes /\ LedgerTypes /\ LedgerInv
  BY Zenon DEF BffInv
<1>1b. UNCHANGED <<entitled, cache, acked>>
  BY Zenon DEF CheckEntitlement, service, ledger
<1>1c. UNCHANGED <<counter, memo, outbox, phase, req, reply, issued>>
  BY Zenon DEF CheckEntitlement, service, ledger
<1>1d. UNCHANGED <<limits, reservations, usage, audited, payment>>
  BY Zenon DEF CheckEntitlement, service, ledger
<1>1e. (Go(c, "reserve") /\ UNCHANGED task) \/ End(c)
  BY Zenon DEF CheckEntitlement, service, ledger
<1>2. faults' \in Seq(Faults) /\ Len(faults') <= MaxFaults
  BY Zenon, <1>1a, <1>1b, <1>1c, <1>1d, <1>1e, Faulted DEF CheckEntitlement
<1>3. /\ pc' \in [Clients -> Pcs] /\ pc'[c] \in {"reserve", "idle"} /\ task' \in [Clients -> Task]
      /\ \A d \in Clients : d # c => pc'[d] = pc[d] /\ task'[d] = task[d]
  <2>1. "reserve" \in Pcs /\ task \in [Clients -> Task]
    BY Zenon, <1>1a, <1>1b, <1>1c, <1>1d, <1>1e DEF Pcs, RequestTypes
  <2>. QED BY Zenon, <1>1a, <1>1b, <1>1c, <1>1d, <1>1e, <2>1, Goes, Ends
<1>4. RequestTypes' /\ ServiceTypes' /\ LedgerTypes'
  BY Zenon, <1>1a, <1>1b, <1>1c, <1>1d, <1>1e, <1>2, <1>3 DEF RequestTypes, ServiceTypes, LedgerTypes
<1>5. LedgerInv'
  BY Zenon, <1>1a, <1>1b, <1>1c, <1>1d, <1>1e, <1>3, QuietLedger DEF Holding
<1>. QED BY Zenon, <1>4, <1>5 DEF BffInv

\* The audit.
LEMMA AuditStep ==
  ASSUME BffInv, NEW c \in Clients, AppendAudit(c)
  PROVE  BffInv'
<1>1a. RequestTypes /\ ServiceTypes /\ LedgerTypes /\ LedgerInv
  BY Zenon DEF BffInv
<1>1b. UNCHANGED <<task, entitled, cache, acked>>
  BY Zenon DEF AppendAudit, service
<1>1c. UNCHANGED <<counter, memo, outbox, phase, req, reply, issued>>
  BY Zenon DEF AppendAudit, service
<1>1d. UNCHANGED <<limits, reservations, usage, payment>>
  BY Zenon DEF AppendAudit, service
<1>1e. pc[c] = "audit" /\ Go(c, "invalidate") /\ audited' \in {audited, audited \cup {task[c].ticket}}
  BY Zenon DEF AppendAudit, service
<1>2. faults' \in Seq(Faults) /\ Len(faults') <= MaxFaults
  BY Zenon, <1>1a, <1>1b, <1>1c, <1>1d, <1>1e, Faulted DEF AppendAudit
<1>3. /\ pc' \in [Clients -> Pcs] /\ pc'[c] = "invalidate" /\ \A d \in Clients : d # c => pc'[d] = pc[d]
  BY Zenon, <1>1a, <1>1b, <1>1c, <1>1d, <1>1e, Goes DEF Pcs
<1>4. task[c].ticket \in 1..Len(reservations)
  BY Zenon, <1>1a, <1>1b, <1>1c, <1>1d, <1>1e DEF LedgerInv, TicketOf, Holding
<1>5. RequestTypes' /\ ServiceTypes' /\ LedgerTypes'
  BY Zenon, <1>1a, <1>1b, <1>1c, <1>1d, <1>1e, <1>2, <1>3, <1>4 DEF RequestTypes, ServiceTypes, LedgerTypes
<1>6. LedgerInv'
  BY Zenon, <1>1a, <1>1b, <1>1c, <1>1d, <1>1e, <1>3, QuietLedger DEF Holding
<1>. QED BY Zenon, <1>5, <1>6 DEF BffInv

\* The cache entry goes and the client is answered.
LEMMA InvalidateStep ==
  ASSUME BffInv, NEW c \in Clients, Invalidate(c)
  PROVE  BffInv'
<1>1. /\ UNCHANGED <<counter, memo, outbox, phase, req, reply, issued, entitled, limits, reservations, usage, audited,
                     payment, faults>>
      /\ cache' = [cache EXCEPT ![task[c].tenant] = NoRow]
      /\ acked' = [acked EXCEPT ![c][task[c].tenant] =
                     IF task[c].row.version > @ THEN task[c].row.version ELSE @]
      /\ End(c) /\ RequestTypes /\ ServiceTypes /\ LedgerTypes /\ LedgerInv
  BY Zenon DEF Invalidate, service, ledger, BffInv
<1>2. /\ pc' \in [Clients -> Pcs] /\ pc'[c] = "idle" /\ task' \in [Clients -> Task]
      /\ \A d \in Clients : d # c => pc'[d] = pc[d] /\ task'[d] = task[d]
  BY Zenon, <1>1, Ends
<1>3. task[c].tenant \in Tenants /\ task[c].row.version \in Nat
  BY Zenon, <1>1 DEF RequestTypes, Task, Row
<1>4. cache' \in [Tenants -> Row \cup {NoRow}] /\ acked' \in [Clients -> [Tenants -> Nat]]
  BY Zenon, <1>1, <1>3 DEF RequestTypes
<1>5. RequestTypes' /\ ServiceTypes' /\ LedgerTypes'
  BY Zenon, <1>1, <1>2, <1>4 DEF RequestTypes, ServiceTypes, LedgerTypes
<1>6. LedgerInv'
  BY Zenon, <1>1, <1>2, QuietLedger DEF Holding
<1>. QED BY Zenon, <1>5, <1>6 DEF BffInv

\* A read misses the cache.
LEMMA CacheMissStep ==
  ASSUME BffInv, NEW c \in Clients, NEW t \in Tenants, CacheMiss(c, t)
  PROVE  BffInv'
<1>1a. RequestTypes /\ ServiceTypes /\ LedgerTypes /\ LedgerInv
  BY Zenon DEF BffInv
<1>1b. UNCHANGED <<entitled, cache, acked, faults>>
  BY Zenon DEF CacheMiss, service, ledger
<1>1c. UNCHANGED <<counter, memo, outbox, phase, req, reply, issued>>
  BY Zenon DEF CacheMiss, service, ledger
<1>1d. UNCHANGED <<limits, reservations, usage, audited, payment>>
  BY Zenon DEF CacheMiss, service, ledger
<1>1e. Go(c, "load") /\ task' = [task EXCEPT ![c] = NoTask(t)]
  BY Zenon DEF CacheMiss, service, ledger
<1>2. NoTask(t) \in Task
  BY Zenon, FreshTask
<1>3. /\ pc' \in [Clients -> Pcs] /\ pc'[c] = "load" /\ \A d \in Clients : d # c => pc'[d] = pc[d]
  BY Zenon, <1>1a, <1>1b, <1>1c, <1>1d, <1>1e, Goes DEF Pcs
<1>4. task' \in [Clients -> Task] /\ \A d \in Clients : d # c => task'[d] = task[d]
  BY Zenon, <1>1a, <1>1b, <1>1c, <1>1d, <1>1e, <1>2 DEF RequestTypes
<1>5. RequestTypes' /\ ServiceTypes' /\ LedgerTypes'
  BY Zenon, <1>1a, <1>1b, <1>1c, <1>1d, <1>1e, <1>3, <1>4 DEF RequestTypes, ServiceTypes, LedgerTypes
<1>6. LedgerInv'
  BY Zenon, <1>1a, <1>1b, <1>1c, <1>1d, <1>1e, <1>3, <1>4, QuietLedger DEF Holding
<1>. QED BY Zenon, <1>5, <1>6 DEF BffInv

\* The row is read.
LEMMA LoadStep ==
  ASSUME BffInv, NEW c \in Clients, Load(c)
  PROVE  BffInv'
<1>1a. RequestTypes /\ ServiceTypes /\ LedgerTypes /\ LedgerInv
  BY Zenon DEF BffInv
<1>1b. UNCHANGED <<entitled, cache, acked, faults>>
  BY Zenon DEF Load, ledger
<1>1d. UNCHANGED <<limits, reservations, usage, audited, payment>>
  BY Zenon DEF Load, ledger
<1>1e. Go(c, "insert") /\ Counter!GetValue(c, task[c].tenant)
  BY Zenon DEF Load, ledger
<1>1f. task' = [task EXCEPT ![c].row = counter[task[c].tenant]]
  BY Zenon DEF Load, ledger
<1>2. task[c] \in Task /\ task[c].tenant \in Tenants /\ counter[task[c].tenant] \in Row
  BY Zenon, <1>1a, <1>1b, <1>1d, <1>1e, <1>1f DEF RequestTypes, ServiceTypes, Task
<1>3. /\ ServiceTypes' /\ UNCHANGED <<counter, memo, outbox, req, issued>>
      /\ \A d \in Clients : d # c => phase'[d] = phase[d] /\ reply'[d] = reply[d]
  BY Zenon, <1>1a, <1>1b, <1>1d, <1>1e, <1>1f, <1>2, Got
<1>4. /\ pc' \in [Clients -> Pcs] /\ pc'[c] = "insert" /\ \A d \in Clients : d # c => pc'[d] = pc[d]
  BY Zenon, <1>1a, <1>1b, <1>1d, <1>1e, <1>1f, Goes DEF Pcs
<1>5. task' \in [Clients -> Task] /\ \A d \in Clients : d # c => task'[d] = task[d]
  <2>1. [task[c] EXCEPT !.row = counter[task[c].tenant]] \in Task
    BY Zenon, <1>2 DEF Task
  <2>. QED BY Zenon, <1>1a, <1>1b, <1>1d, <1>1e, <1>1f, <2>1 DEF RequestTypes
<1>6. RequestTypes' /\ LedgerTypes'
  BY Zenon, <1>1a, <1>1b, <1>1d, <1>1e, <1>1f, <1>3, <1>4, <1>5 DEF RequestTypes, LedgerTypes
<1>7. LedgerInv'
  BY Zenon, <1>1a, <1>1b, <1>1d, <1>1e, <1>1f, <1>3, <1>4, <1>5, QuietLedger DEF Holding
<1>. QED BY Zenon, <1>3, <1>6, <1>7 DEF BffInv

\* The row is cached.
LEMMA InsertStep ==
  ASSUME BffInv, NEW c \in Clients, Insert(c)
  PROVE  BffInv'
<1>1a. RequestTypes /\ ServiceTypes /\ LedgerTypes /\ LedgerInv
  BY Zenon DEF BffInv
<1>1b. UNCHANGED <<entitled, acked, faults>>
  BY Zenon DEF Insert, ledger
<1>1d. UNCHANGED <<limits, reservations, usage, audited, payment>>
  BY Zenon DEF Insert, ledger
<1>1e. End(c) /\ Counter!Leave(c) /\ cache' = [cache EXCEPT ![task[c].tenant] = task[c].row]
  BY Zenon DEF Insert, ledger
<1>2. /\ ServiceTypes' /\ UNCHANGED <<counter, memo, outbox, req, issued>>
      /\ \A d \in Clients : d # c => phase'[d] = phase[d] /\ reply'[d] = reply[d]
  BY Zenon, <1>1a, <1>1b, <1>1d, <1>1e, Left
<1>3. /\ pc' \in [Clients -> Pcs] /\ pc'[c] = "idle" /\ task' \in [Clients -> Task]
      /\ \A d \in Clients : d # c => pc'[d] = pc[d] /\ task'[d] = task[d]
  BY Zenon, <1>1a, <1>1b, <1>1d, <1>1e, Ends
<1>4. cache' \in [Tenants -> Row \cup {NoRow}]
  BY Zenon, <1>1a, <1>1b, <1>1d, <1>1e DEF RequestTypes, Task
<1>5. RequestTypes' /\ LedgerTypes'
  BY Zenon, <1>1a, <1>1b, <1>1d, <1>1e, <1>2, <1>3, <1>4 DEF RequestTypes, LedgerTypes
<1>6. LedgerInv'
  BY Zenon, <1>1a, <1>1b, <1>1d, <1>1e, <1>2, <1>3, QuietLedger DEF Holding
<1>. QED BY Zenon, <1>2, <1>5, <1>6 DEF BffInv

\* The client disconnects; the ticket stays as it is.
LEMMA DisconnectStep ==
  ASSUME BffInv, NEW c \in Clients, Disconnect(c)
  PROVE  BffInv'
<1>1a. RequestTypes /\ ServiceTypes /\ LedgerTypes /\ LedgerInv
  BY Zenon DEF BffInv
<1>1b. UNCHANGED <<entitled, cache, acked>>
  BY Zenon DEF Disconnect, service, ledger
<1>1d. UNCHANGED <<limits, reservations, usage, audited, payment>>
  BY Zenon DEF Disconnect, service, ledger
<1>1e. End(c) /\ Fault("drop")
  BY Zenon DEF Disconnect, service, ledger
<1>1f. UNCHANGED <<counter, memo, outbox, phase, req, reply, issued>> \/ Counter!Leave(c)
  BY Zenon DEF Disconnect, service, ledger
<1>2. /\ ServiceTypes' /\ UNCHANGED <<counter, memo, outbox, req, issued>>
      /\ \A d \in Clients : d # c => phase'[d] = phase[d] /\ reply'[d] = reply[d]
  <2>1. CASE Counter!Leave(c)
    BY Zenon, <1>1a, <1>1b, <1>1d, <1>1e, <1>1f, <2>1, Left
  <2>2. CASE UNCHANGED <<counter, memo, outbox, phase, req, reply, issued>>
    BY Zenon, <1>1a, <1>1b, <1>1d, <1>1e, <1>1f, <2>2 DEF ServiceTypes
  <2>. QED BY Zenon, <1>1a, <1>1b, <1>1d, <1>1e, <1>1f, <2>1, <2>2
<1>3. /\ pc' \in [Clients -> Pcs] /\ pc'[c] = "idle" /\ task' \in [Clients -> Task]
      /\ \A d \in Clients : d # c => pc'[d] = pc[d] /\ task'[d] = task[d]
  BY Zenon, <1>1a, <1>1b, <1>1d, <1>1e, <1>1f, Ends
<1>4. faults' \in Seq(Faults) /\ Len(faults') <= MaxFaults
  BY Zenon, <1>1a, <1>1b, <1>1d, <1>1e, <1>1f, Faulted
<1>5. RequestTypes' /\ LedgerTypes'
  BY Zenon, <1>1a, <1>1b, <1>1d, <1>1e, <1>1f, <1>2, <1>3, <1>4 DEF RequestTypes, LedgerTypes
<1>6. LedgerInv'
  BY Zenon, <1>1a, <1>1b, <1>1d, <1>1e, <1>1f, <1>2, <1>3, QuietLedger DEF Holding
<1>. QED BY Zenon, <1>2, <1>5, <1>6 DEF BffInv

\* A cache entry expires, or a billing event changes the entitlement.
LEMMA TenantStep ==
  ASSUME BffInv, NEW t \in Tenants, Expire(t) \/ Grant(t) \/ Revoke(t)
  PROVE  BffInv'
<1>1. /\ UNCHANGED <<counter, memo, outbox, phase, req, reply, issued, pc, task, limits, reservations, usage, audited,
                     payment, acked, faults>>
      /\ cache' \in {cache, [cache EXCEPT ![t] = NoRow]}
      /\ entitled' = entitled \/ (\E b \in BOOLEAN : entitled' = [entitled EXCEPT ![t] = b])
      /\ RequestTypes /\ ServiceTypes /\ LedgerTypes /\ LedgerInv
  BY Zenon DEF Expire, Grant, Revoke, service, ledger, BffInv
<1>2. entitled' \in [Tenants -> BOOLEAN]
  BY Zenon, <1>1 DEF RequestTypes
<1>3. cache' \in [Tenants -> Row \cup {NoRow}]
  BY Zenon, <1>1 DEF RequestTypes
<1>4. RequestTypes' /\ ServiceTypes' /\ LedgerTypes'
  BY Zenon, <1>1, <1>2, <1>3 DEF RequestTypes, ServiceTypes, LedgerTypes
<1>5. LedgerInv'
  BY Zenon, <1>1, QuietLedger
<1>. QED BY Zenon, <1>4, <1>5 DEF BffInv

-----------------------------------------------------------------------------
\* The ledger

\* What a tenant holds can be counted.
LEMMA HeldIsFinite ==
  ASSUME NEW n \in Nat, NEW S, S \subseteq 1..n
  PROVE  IsFiniteSet(S) /\ Cardinality(S) \in Nat
<1>1. IsFiniteSet(1..n)
  BY FS_Interval
<1>2. IsFiniteSet(S)
  BY Zenon, <1>1, FS_Subset
<1>. QED BY Zenon, <1>2, FS_CardinalityType

\* The INSERT ... SELECT: one more row, within the tenant's limit.
LEMMA RowAdded ==
  ASSUME RequestTypes, LedgerTypes, QuotaHolds, NEW t \in Tenants, Fits(t), Len(reservations) < MaxRequests,
         reservations' = Append(reservations, [tenant |-> t, status |-> "reserved"]), limits' = limits
  PROVE  /\ reservations' \in Seq(Reservation) /\ Len(reservations') = Len(reservations) + 1
         /\ Len(reservations) \in Nat /\ Len(reservations') <= MaxRequests
         /\ \A i \in 1..Len(reservations) : reservations'[i] = reservations[i]
         /\ reservations'[Len(reservations) + 1] = [tenant |-> t, status |-> "reserved"]
         /\ \A u : Held(u) \subseteq Held(u)'
         /\ QuotaHolds'
<1>1. reservations \in Seq(Reservation) /\ [tenant |-> t, status |-> "reserved"] \in Reservation
  BY Zenon DEF LedgerTypes, Reservation, Statuses
<1>2. PICK n \in Nat : n = Len(reservations)
  BY <1>1
<1>3. /\ reservations' \in Seq(Reservation) /\ Len(reservations') = n + 1
      /\ \A i \in 1..n : reservations'[i] = reservations[i]
      /\ reservations'[n + 1] = [tenant |-> t, status |-> "reserved"]
  BY <1>1, <1>2
<1>4. n + 1 <= MaxRequests
  BY <1>2, BoundsAssumption
<1>5. \A i \in 1..n + 1 : i \in 1..n \/ i = n + 1
  OBVIOUS
<1>6. ASSUME NEW u PROVE Held(u)' = IF u = t THEN Held(u) \cup {n + 1} ELSE Held(u)
  <2>1. /\ Held(u) = {i \in 1..n : reservations[i].tenant = u /\ reservations[i].status \in {"reserved", "committed"}}
        /\ Held(u)' = {i \in 1..n + 1 : reservations'[i].tenant = u /\ reservations'[i].status \in {"reserved", "committed"}}
    BY Zenon, <1>2, <1>3 DEF Held
  <2>. QED BY <1>3, <1>5, <2>1
<1>7. ASSUME NEW u \in Tenants PROVE Cardinality(Held(u)') <= limits[u]
  <2>1. Held(u) \subseteq 1..n /\ limits[u] \in Nat /\ Cardinality(Held(u)) <= limits[u]
    BY Zenon, <1>2, LimitsAssumption DEF Held, RequestTypes, QuotaHolds
  <2>2. IsFiniteSet(Held(u)) /\ Cardinality(Held(u)) \in Nat
    BY Zenon, <2>1, HeldIsFinite
  <2>3. CASE u = t
    <3>1. n + 1 \notin Held(u)
      BY <2>1
    <3>2. Cardinality(Held(u) \cup {n + 1}) = Cardinality(Held(u)) + 1
      BY Zenon, <2>2, <3>1, FS_AddElement
    <3>3. Cardinality(Held(u)) + 1 <= limits[u]
      BY Zenon, <2>3 DEF Fits
    <3>. QED BY Zenon, <1>6, <2>3, <3>2, <3>3
  <2>4. CASE u # t
    BY Zenon, <1>6, <2>1, <2>4
  <2>. QED BY Zenon, <2>3, <2>4
<1>. QED BY Zenon, <1>2, <1>3, <1>4, <1>6, <1>7 DEF QuotaHolds

\* The UPDATE of a reservation that is still reserved.
LEMMA RowSettled ==
  ASSUME RequestTypes, LedgerTypes, QuotaHolds, NEW i \in 1..Len(reservations), NEW s \in {"released", "committed"},
         reservations[i].status = "reserved", Transition(i, s), limits' = limits
  PROVE  /\ reservations' \in Seq(Reservation) /\ Len(reservations') = Len(reservations) /\ Len(reservations) \in Nat
         /\ \A k \in 1..Len(reservations) : k # i => reservations'[k] = reservations[k]
         /\ reservations'[i].tenant = reservations[i].tenant /\ reservations'[i].status = s
         /\ \A u, k : k \in Held(u) /\ (k # i \/ s = "committed") => k \in Held(u)'
         /\ QuotaHolds'
<1>1. /\ reservations \in Seq(Reservation) /\ reservations[i] \in Reservation
      /\ reservations' = [reservations EXCEPT ![i] = [reservations[i] EXCEPT !.status = s]]
  BY DEF LedgerTypes, Transition
<1>2. PICK n \in Nat : n = Len(reservations)
  BY <1>1
<1>3. PICK row : row = [reservations[i] EXCEPT !.status = s]
  BY Zenon
<1>4. row \in Reservation /\ row.tenant = reservations[i].tenant /\ row.status = s
  BY Zenon, <1>1, <1>3 DEF Reservation, Statuses
<1>5. /\ reservations' \in Seq(Reservation) /\ Len(reservations') = n
      /\ \A k \in 1..n : k # i => reservations'[k] = reservations[k]
      /\ reservations'[i] = row
  BY <1>1, <1>2, <1>3, <1>4
<1>6. \A u : /\ Held(u) = {k \in 1..n : reservations[k].tenant = u /\ reservations[k].status \in {"reserved", "committed"}}
             /\ Held(u)' = {k \in 1..n : reservations'[k].tenant = u /\ reservations'[k].status \in {"reserved", "committed"}}
  BY Zenon, <1>2, <1>5 DEF Held
<1>7. ASSUME NEW u, NEW k \in Held(u), k # i \/ s = "committed" PROVE k \in Held(u)'
  BY Zenon, <1>4, <1>5, <1>6, <1>7
<1>8. ASSUME NEW u \in Tenants PROVE Cardinality(Held(u)') <= limits[u]
  <2>1. Held(u)' \subseteq Held(u) /\ Held(u) \subseteq 1..n
    BY Zenon, <1>4, <1>5, <1>6
  <2>2. IsFiniteSet(Held(u)) /\ Cardinality(Held(u)) \in Nat /\ Cardinality(Held(u)') \in Nat
    BY Zenon, <2>1, HeldIsFinite
  <2>3. Cardinality(Held(u)') <= Cardinality(Held(u))
    BY Zenon, <2>1, <2>2, FS_Subset
  <2>4. limits[u] \in Nat /\ Cardinality(Held(u)) <= limits[u]
    BY Zenon, LimitsAssumption DEF RequestTypes, QuotaHolds
  <2>. QED BY <2>2, <2>3, <2>4
<1>. QED BY Zenon, <1>2, <1>4, <1>5, <1>7, <1>8 DEF QuotaHolds

\* What a change of the reservation table by c's request leaves alone: the rest of
\* the ledger, the calls of the service and the other requests.
Elsewhere(c) ==
  /\ UNCHANGED <<limits, payment, usage, audited>> /\ UNCHANGED <<outbox, issued, req, phase, reply>>
  /\ \A d \in Clients : d # c => pc'[d] = pc[d] /\ task'[d] = task[d]

\* A row is inserted: its number is the ticket of the request, which has paid for
\* nothing yet, or nobody's when the insert reported an error.
LEMMA NewRow ==
  ASSUME BffInv, NEW c \in Clients, NEW t \in Tenants, Fits(t), Len(reservations) < MaxRequests,
         reservations' = Append(reservations, [tenant |-> t, status |-> "reserved"]),
         Elsewhere(c),
         pc'[c] = "idle" \/ (pc'[c] = "call" /\ task'[c].ticket = Len(reservations) + 1 /\ task'[c].tenant = t)
  PROVE  LedgerTypes' /\ LedgerInv'
<1>1. RequestTypes /\ ServiceTypes /\ LedgerTypes /\ LedgerInv /\ QuotaHolds
  BY Zenon DEF BffInv, LedgerInv
<1>e1. UNCHANGED <<limits, payment, usage, audited>>
  BY Zenon DEF Elsewhere
<1>e2. UNCHANGED <<outbox, issued, req, phase, reply>>
  BY Zenon DEF Elsewhere
<1>e3. \A d \in Clients : d # c => pc'[d] = pc[d] /\ task'[d] = task[d]
  BY Zenon DEF Elsewhere
<1>2. /\ reservations' \in Seq(Reservation) /\ Len(reservations') = Len(reservations) + 1
      /\ Len(reservations) \in Nat /\ Len(reservations') <= MaxRequests
      /\ \A i \in 1..Len(reservations) : reservations'[i] = reservations[i]
      /\ reservations'[Len(reservations) + 1] = [tenant |-> t, status |-> "reserved"]
      /\ \A u : Held(u) \subseteq Held(u)'
      /\ QuotaHolds'
  BY Zenon, <1>e1, <1>1, RowAdded
<1>3. /\ payment \in Seq(1..Len(reservations)) /\ usage \in Seq(1..Len(reservations)) /\ audited \subseteq 1..Len(reservations)
      /\ Len(payment) = issued /\ issued \in Nat /\ outbox \in Seq(Entry)
  BY Zenon, <1>1 DEF LedgerTypes, ServiceTypes
<1>4. LedgerTypes'
  <2>1. 1..Len(reservations) \subseteq 1..Len(reservations')
    BY <1>2
  <2>2. payment \in Seq(1..Len(reservations')) /\ usage \in Seq(1..Len(reservations'))
    BY <1>3, <2>1
  <2>. QED BY <1>e1, <1>e2, <1>2, <1>3 DEF LedgerTypes
<1>5. \A d \in Clients : pc[d] \in Holding => task[d].ticket \in 1..Len(reservations)
  BY Zenon, <1>1 DEF LedgerInv, TicketOf
<1>6. ASSUME NEW d \in Clients, d # c PROVE TicketOf(d)'
  <2>1. TicketOf(d)
    BY Zenon, <1>1 DEF LedgerInv
  <2>2. pc[d] \in Holding => reservations'[task[d].ticket] = reservations[task[d].ticket]
    BY <1>5
  <2>3. /\ Len(reservations') \in Nat /\ Len(reservations') >= Len(reservations) /\ issued >= issued
        /\ \A k \in 1..Len(outbox) : outbox[k].request \in 1..issued
    BY <1>e3, <1>1, <1>2, <1>3 DEF LedgerInv, PaysOnce
  <2>. QED BY Zenon, <1>e1, <1>e2, <1>e3, <1>1, <1>3, <1>6, <2>1, <2>2, <2>3, Bystander
<1>7. TicketOf(c)'
  <2>1. CASE pc'[c] = "idle"
    BY Zenon, <2>1 DEF TicketOf, Holding
  <2>2. CASE pc'[c] = "call" /\ task'[c].ticket = Len(reservations) + 1 /\ task'[c].tenant = t
    <3>1. \A k \in 1..Len(payment) : payment[k] # Len(reservations) + 1
      BY <1>3
    <3>2. Len(reservations) + 1 \in 1..Len(reservations')
      BY <1>2
    <3>. QED BY SMTT(30), <1>e1, <2>2, <3>1 DEF TicketOf
  <2>. QED BY Zenon, <2>1, <2>2
<1>8. OwnTickets'
  <2>1. "idle" \notin Holding
    BY Zenon DEF Holding
  <2>2. \A d \in Clients : d # c /\ pc'[d] \in Holding => task'[d].ticket \in 1..Len(reservations)
    BY Zenon, <1>e3, <1>5
  <2>3. pc'[c] \in Holding => task'[c].ticket = Len(reservations) + 1
    BY Zenon, <2>1
  <2>4. \A d \in Clients : d # c => pc'[d] = pc[d] /\ task'[d] = task[d]
    BY Zenon, <1>e3
  <2>5. ASSUME NEW a \in Clients, NEW b \in Clients, a # b, pc'[a] \in Holding, pc'[b] \in Holding
        PROVE  task'[a].ticket # task'[b].ticket
    <3>1. CASE a = c
      BY <2>2, <2>3, <2>5, <3>1
    <3>2. CASE b = c
      BY <2>2, <2>3, <2>5, <3>2
    <3>3. CASE a # c /\ b # c
      BY Zenon, <1>1, <2>4, <2>5, <3>3 DEF LedgerInv, OwnTickets
    <3>. QED BY Zenon, <3>1, <3>2, <3>3
  <2>. QED BY Zenon, <2>5 DEF OwnTickets
<1>9. PaysOnce'
  <2>1. PaysOnce
    BY Zenon, <1>1 DEF LedgerInv
  <2>2. \A u : Held(u) \subseteq Held(u)'
    BY Zenon, <1>2
  <2>. QED BY Zenon, <1>e1, <1>e2, <2>1, <2>2 DEF PaysOnce
<1>10. UsageIsCommitted'
  BY <1>e1, <1>1, <1>2, <1>3 DEF LedgerInv, UsageIsCommitted
<1>. QED BY Zenon, <1>2, <1>4, <1>6, <1>7, <1>8, <1>9, <1>10 DEF LedgerInv

\* The reservation.
LEMMA ReserveStep ==
  ASSUME BffInv, NEW c \in Clients, Reserve(c)
  PROVE  BffInv'
<1>. DEFINE t == task[c].tenant
            added == Append(reservations, [tenant |-> t, status |-> "reserved"])
<1>1a. RequestTypes /\ ServiceTypes /\ LedgerTypes /\ LedgerInv
  BY Zenon DEF BffInv
<1>1b. UNCHANGED <<entitled, cache, acked>>
  BY Zenon DEF Reserve
<1>1c. UNCHANGED <<counter, memo, outbox, phase, req, reply, issued>>
  BY Zenon DEF Reserve, service
<1>1d. UNCHANGED <<limits, usage, audited, payment>>
  BY Zenon DEF Reserve
<1>1e. Len(reservations) < MaxRequests
  BY Zenon DEF Reserve
<1>2. t \in Tenants /\ task[c] \in Task /\ task \in [Clients -> Task]
  BY Zenon, <1>1a, <1>1e DEF RequestTypes, Task
<1>3. \/ Fits(t) /\ reservations' = added /\ Go(c, "call") /\ task' = [task EXCEPT ![c].ticket = Len(reservations) + 1]
      \/ reservations' = reservations /\ End(c)
      \/ Fits(t) /\ reservations' = added /\ End(c)
  BY Zenon DEF Reserve
<1>4. faults' \in Seq(Faults) /\ Len(faults') <= MaxFaults
  BY Zenon, <1>1a, <1>1e, Faulted DEF Reserve
<1>5. ServiceTypes'
  BY Zenon, <1>1a, <1>1c, <1>1e DEF ServiceTypes
<1>6. CASE Fits(t) /\ reservations' = added /\ Go(c, "call") /\ task' = [task EXCEPT ![c].ticket = Len(reservations) + 1]
  <2>1. /\ pc' \in [Clients -> Pcs] /\ pc'[c] = "call" /\ \A d \in Clients : d # c => pc'[d] = pc[d]
    BY Zenon, <1>1a, <1>1e, <1>6, Goes DEF Pcs
  <2>2. Len(reservations) + 1 \in 0..MaxRequests
    BY <1>1e, BoundsAssumption
  <2>3. [task[c] EXCEPT !.ticket = Len(reservations) + 1] \in Task
    BY Zenon, <1>2, <2>2 DEF Task
  <2>4. /\ task' \in [Clients -> Task] /\ task'[c] = [task[c] EXCEPT !.ticket = Len(reservations) + 1]
        /\ \A d \in Clients : d # c => task'[d] = task[d]
    BY Zenon, <1>2, <1>6, <2>3
  <2>5. task'[c].ticket = Len(reservations) + 1 /\ task'[c].tenant = t
    BY <2>4
  <2>6. RequestTypes'
    BY Zenon, <1>1a, <1>1b, <1>1d, <1>1e, <1>4, <2>1, <2>4 DEF RequestTypes
  <2>7. LedgerTypes' /\ LedgerInv'
    <3>1. Elsewhere(c)
      BY Zenon, <1>1c, <1>1d, <2>1, <2>4 DEF Elsewhere
    <3>. QED BY Zenon, <1>1e, <1>2, <1>6, <2>1, <2>5, <3>1, NewRow
  <2>. QED BY Zenon, <1>5, <2>6, <2>7 DEF BffInv
<1>7. CASE End(c) /\ (reservations' = reservations \/ (Fits(t) /\ reservations' = added))
  <2>1. /\ pc' \in [Clients -> Pcs] /\ pc'[c] = "idle" /\ task' \in [Clients -> Task]
        /\ \A d \in Clients : d # c => pc'[d] = pc[d] /\ task'[d] = task[d]
    BY Zenon, <1>1a, <1>1e, <1>7, Ends
  <2>2. RequestTypes'
    BY Zenon, <1>1a, <1>1b, <1>1d, <1>1e, <1>4, <2>1 DEF RequestTypes
  <2>3. LedgerTypes' /\ LedgerInv'
    <3>1. CASE reservations' = reservations
      BY Zenon, <1>1a, <1>1c, <1>1d, <1>1e, <2>1, <3>1, QuietLedger DEF LedgerTypes, Holding
    <3>2. CASE Fits(t) /\ reservations' = added
      <4>1. Elsewhere(c)
        BY Zenon, <1>1c, <1>1d, <2>1 DEF Elsewhere
      <4>. QED BY Zenon, <1>1e, <1>2, <2>1, <3>2, <4>1, NewRow
    <3>. QED BY Zenon, <1>7, <3>1, <3>2
  <2>. QED BY Zenon, <1>5, <2>2, <2>3 DEF BffInv
<1>. QED BY Zenon, <1>3, <1>6, <1>7

-----------------------------------------------------------------------------
\* The call of the counter service

\* The call is made, and paid for by the ticket.
LEMMA CallStep ==
  ASSUME BffInv, NEW c \in Clients, CallService(c)
  PROVE  BffInv'
<1>1a. RequestTypes /\ ServiceTypes /\ LedgerTypes /\ LedgerInv
  BY Zenon DEF BffInv
<1>1b. UNCHANGED <<task, entitled, cache, acked, faults>>
  BY Zenon DEF CallService
<1>1c. UNCHANGED <<counter, memo, outbox, reply>>
  BY Zenon DEF CallService, Counter!Call
<1>1d. UNCHANGED <<limits, reservations, usage, audited>>
  BY Zenon DEF CallService, ledger
<1>1e. pc[c] = "call" /\ Go(c, "wait") /\ payment' = Append(payment, task[c].ticket) /\ issued' = issued + 1
  BY Zenon DEF CallService, Counter!Call
<1>1f. req' = [req EXCEPT ![c] = [id |-> issued + 1, tenant |-> task[c].tenant, op |-> task[c].op, key |-> task[c].key]]
  BY Zenon DEF CallService, Counter!Call
<1>1g. phase' = [phase EXCEPT ![c] = "pending"]
  BY Zenon DEF CallService, Counter!Call
<1>2. PICK i : i = task[c].ticket
  BY Zenon
<1>3. /\ i \in 1..Len(reservations) /\ reservations[i].tenant = task[c].tenant /\ reservations[i].status = "reserved"
      /\ \A k \in 1..Len(payment) : payment[k] # i
  BY Zenon, <1>1a, <1>1e, <1>1g, <1>2 DEF LedgerInv, TicketOf, Holding
<1>4. /\ payment \in Seq(1..Len(reservations)) /\ issued \in Nat /\ Len(payment) = issued
      /\ \A k \in 1..Len(outbox) : outbox[k].request \in 1..issued
  <2>1. issued \in Nat
    BY Zenon, <1>1a DEF ServiceTypes
  <2>2. payment \in Seq(1..Len(reservations)) /\ Len(payment) = issued
    BY Zenon, <1>1a DEF LedgerTypes
  <2>3. \A k \in 1..Len(outbox) : outbox[k].request \in 1..issued
    BY Zenon, <1>1a DEF LedgerInv, PaysOnce
  <2>. QED BY Zenon, <2>1, <2>2, <2>3
<1>5. /\ payment' \in Seq(1..Len(reservations)) /\ Len(payment') = issued + 1 /\ payment'[issued + 1] = i
      /\ \A k \in 1..issued : payment'[k] = payment[k]
  BY <1>1e, <1>2, <1>3, <1>4
<1>6. \A k \in 1..issued + 1 : k \in 1..issued \/ k = issued + 1
  BY <1>4
<1>7. task[c].tenant \in Tenants /\ task[c].op \in OpNames /\ task[c].key \in Keys \cup {NoKey}
  BY Zenon, <1>1a, <1>1e DEF RequestTypes, Task, OpNames
<1>8. /\ req' \in [Clients -> Request] /\ req'[c].id = issued + 1 /\ req'[c].tenant = task[c].tenant
      /\ \A d \in Clients : d # c => req'[d] = req[d]
  BY <1>1a, <1>1e, <1>1f, <1>7 DEF ServiceTypes, Request
<1>9. /\ phase' \in [Clients -> {"idle", "pending", "done"}] /\ phase'[c] = "pending"
      /\ \A d \in Clients : d # c => phase'[d] = phase[d]
  BY Zenon, <1>1a, <1>1e, <1>1g DEF ServiceTypes
<1>10. /\ pc' \in [Clients -> Pcs] /\ pc'[c] = "wait" /\ \A d \in Clients : d # c => pc'[d] = pc[d]
  BY Zenon, <1>1a, <1>1d, <1>1e, Goes DEF Pcs
<1>11. RequestTypes' /\ ServiceTypes' /\ LedgerTypes'
  BY <1>1a, <1>1b, <1>1c, <1>1d, <1>1e, <1>4, <1>5, <1>8, <1>9, <1>10 DEF RequestTypes, ServiceTypes, LedgerTypes
<1>12. \A t : Held(t)' = Held(t)
  BY Zenon, <1>1d, <1>1e DEF Held
<1>13. ASSUME NEW d \in Clients, d # c PROVE TicketOf(d)'
  <2>1. TicketOf(d) /\ (pc[d] = "call" => task[d].ticket # i)
    BY Zenon, <1>1a, <1>1d, <1>1e, <1>2, <1>13 DEF LedgerInv, OwnTickets, Holding
  <2>2. \A k \in 1..issued' : k \in 1..Len(payment) \/ pc[d] # "call" \/ payment'[k] # task[d].ticket
    BY <1>1d, <1>1e, <1>5, <2>1
  <2>3. Len(reservations) \in Nat /\ Len(reservations) >= Len(reservations) /\ issued' \in Nat /\ issued' >= issued
    BY <1>1d, <1>1e, <1>4
  <2>. QED BY <1>1a, <1>1b, <1>1c, <1>1d, <1>1e, <1>1f, <1>1g, <1>4, <1>9, <1>10, <2>1, <2>2, <2>3, Bystander
<1>14. TicketOf(c)'
  <2>1. \A k \in 1..Len(outbox) : outbox[k].request # issued + 1
    BY <1>4
  <2>2. issued + 1 \in 1..issued'
    BY <1>1d, <1>1e, <1>4
  <2>. QED BY <1>1b, <1>1c, <1>1d, <1>1e, <1>1f, <1>1g, <1>2, <1>3, <1>5, <1>8, <1>10, <2>1 DEF TicketOf
<1>15. OwnTickets'
  <2>1. \A d \in Clients : pc'[d] \in Holding => pc[d] \in Holding
    BY Zenon, <1>1d, <1>1e, <1>10 DEF Holding
  <2>. QED BY Zenon, <1>1a, <1>1b, <1>1d, <1>1e, <2>1 DEF LedgerInv, OwnTickets
<1>16. PaysOnce'
  <2>1. ASSUME NEW k \in 1..Len(payment'), NEW l \in 1..Len(payment'), k # l PROVE payment'[k] # payment'[l]
    BY <1>1a, <1>1d, <1>1e, <1>1f, <1>3, <1>4, <1>5, <2>1 DEF LedgerInv, PaysOnce
  <2>2. \A k \in 1..Len(outbox) : outbox[k].request \in 1..issued' /\ payment'[outbox[k].request] = payment[outbox[k].request]
    BY <1>1d, <1>1e, <1>4, <1>5
  <2>. QED BY Zenon, <1>1a, <1>1c, <1>1d, <1>1e, <1>1f, <1>1g, <1>12, <2>1, <2>2 DEF LedgerInv, PaysOnce
<1>17. QuotaHolds' /\ UsageIsCommitted'
  BY Zenon, <1>1a, <1>1d, <1>1e, <1>12 DEF LedgerInv, QuotaHolds, UsageIsCommitted
<1>. QED BY Zenon, <1>11, <1>13, <1>14, <1>15, <1>16, <1>17 DEF BffInv, LedgerInv

\* What the counter service leaves alone while it answers a request.
ServiceOnly == UNCHANGED <<pc, task, entitled, cache, acked, faults>> /\ UNCHANGED <<ledger, payment>>

\* The service answers without a change: a reused key, or an error.
LEMMA NoEffectStep ==
  ASSUME BffInv, NEW c \in Clients, pc[c] = "wait", phase[c] = "pending", NEW r \in Reply, Counter!Answer(c, r),
         UNCHANGED <<counter, memo, outbox>>, ServiceOnly
  PROVE  BffInv'
<1>1a. RequestTypes /\ ServiceTypes /\ LedgerTypes /\ LedgerInv
  BY Zenon DEF BffInv
<1>1b. UNCHANGED <<pc, task, entitled, cache, acked, faults>>
  BY Zenon DEF ServiceOnly
<1>1c. UNCHANGED <<counter, memo, outbox>>
  BY Zenon DEF ledger
<1>1d. UNCHANGED <<limits, reservations, usage, audited, payment>>
  BY Zenon DEF ServiceOnly, ledger
<1>2. /\ phase' \in [Clients -> {"idle", "pending", "done"}] /\ reply' \in [Clients -> Reply]
      /\ phase'[c] = "done" /\ reply'[c] = r /\ UNCHANGED <<req, issued>>
      /\ \A d \in Clients : d # c => phase'[d] = phase[d] /\ reply'[d] = reply[d]
  BY Zenon, <1>1a, <1>1d, Answered
<1>3. RequestTypes' /\ ServiceTypes' /\ LedgerTypes'
  BY Zenon, <1>1a, <1>1b, <1>1d, <1>2 DEF RequestTypes, ServiceTypes, LedgerTypes
<1>4. \A t : Held(t)' = Held(t)
  BY Zenon, <1>1d DEF Held
<1>5. ASSUME NEW d \in Clients PROVE TicketOf(d)'
  <2>1. TicketOf(d)
    BY Zenon, <1>1a, <1>1d DEF LedgerInv
  <2>2. CASE d = c
    BY Zenon, <1>1b, <1>1d, <1>2, <2>1 DEF TicketOf
  <2>3. CASE d # c
    BY Zenon, <1>1b, <1>1d, <1>2, <2>1 DEF TicketOf
  <2>. QED BY Zenon, <2>2, <2>3
<1>6. OwnTickets' /\ PaysOnce' /\ QuotaHolds' /\ UsageIsCommitted'
  <2>1. OwnTickets /\ PaysOnce /\ QuotaHolds /\ UsageIsCommitted
    BY Zenon, <1>1a, <1>1d DEF LedgerInv
  <2>2. UNCHANGED <<outbox, issued, pc, task, limits, reservations, usage, payment>>
    BY Zenon, <1>1b, <1>1d, <1>2
  <2>3. OwnTickets'
    BY Zenon, <2>1, <2>2 DEF OwnTickets
  <2>4. PaysOnce'
    BY Zenon, <1>4, <2>1, <2>2 DEF PaysOnce
  <2>5. QuotaHolds' /\ UsageIsCommitted'
    BY Zenon, <1>4, <2>1, <2>2 DEF QuotaHolds, UsageIsCommitted
  <2>. QED BY Zenon, <2>3, <2>4, <2>5
<1>. QED BY Zenon, <1>3, <1>5, <1>6 DEF BffInv, LedgerInv

\* The call takes effect: the entry it adds to the outbox is paid for by the
\* ticket, and by no other entry's.
LEMMA MutateStep ==
  ASSUME BffInv, NEW c \in Clients, pc[c] = "wait", Counter!Mutate(c),
         ServiceOnly
  PROVE  BffInv'
<1>. DEFINE t == req[c].tenant
            v == Counter!NextValue(req[c].op, counter[t].value)
            n == counter[t].version + 1
<1>1a. RequestTypes /\ ServiceTypes /\ LedgerTypes /\ LedgerInv
  BY Zenon DEF BffInv
<1>1b. UNCHANGED <<pc, task, entitled, cache, acked, faults>>
  BY Zenon DEF ServiceOnly
<1>1d. UNCHANGED <<limits, reservations, usage, audited, payment>>
  BY Zenon DEF ServiceOnly, ledger
<1>2. /\ t \in Tenants /\ counter[t] \in Row /\ req[c].op \in OpNames /\ req[c].key \in Keys \cup {NoKey} /\ req[c].id \in Nat
  BY Zenon, <1>1a DEF ServiceTypes, Request
<1>3. v \in Int /\ n \in Nat /\ v - counter[t].value \in Int
  BY <1>2 DEF Counter!NextValue, Row
<1>4. PICK entry \in Entry : /\ entry.tenant = t /\ entry.request = req[c].id
                             /\ outbox' = Append(outbox, entry)
  <2>. DEFINE e == [tenant |-> t, op |-> req[c].op, value |-> v, delta |-> v - counter[t].value, version |-> n,
                    key |-> req[c].key, request |-> req[c].id]
  <2>1. e \in Entry /\ e.tenant = t /\ e.request = req[c].id
    BY Zenon, <1>2, <1>3 DEF Entry
  <2>2. outbox' = Append(outbox, e)
    BY Zenon DEF Counter!Mutate
  <2>. HIDE DEF e
  <2>. QED BY Zenon, <2>1, <2>2
<1>5. /\ phase[c] = "pending" /\ counter' = [counter EXCEPT ![t] = [value |-> v, version |-> n]]
      /\ memo' = IF req[c].key = NoKey THEN memo
                 ELSE [memo EXCEPT ![t][req[c].key] = [op |-> req[c].op, value |-> v, version |-> n]]
      /\ Counter!Answer(c, Counter!Success(v, n))
  BY Zenon DEF Counter!Mutate
<1>. HIDE DEF v, n
<1>6. Counter!Success(v, n) \in Reply /\ Counter!Success(v, n).kind = "ok"
  BY Zenon, <1>3 DEF Counter!Success, Reply
<1>7. /\ phase' \in [Clients -> {"idle", "pending", "done"}] /\ reply' \in [Clients -> Reply]
      /\ phase'[c] = "done" /\ reply'[c].kind = "ok" /\ UNCHANGED <<req, issued>>
      /\ \A d \in Clients : d # c => phase'[d] = phase[d] /\ reply'[d] = reply[d]
  BY Zenon, <1>1a, <1>5, <1>6, Answered
<1>8. outbox \in Seq(Entry)
  BY Zenon, <1>1a DEF ServiceTypes
<1>9. PICK l \in Nat : l = Len(outbox)
  BY <1>8
<1>10. /\ outbox' \in Seq(Entry) /\ Len(outbox') = l + 1 /\ outbox'[l + 1] = entry
       /\ \A k \in 1..l : outbox'[k] = outbox[k]
  BY <1>4, <1>8, <1>9
<1>11. \A k \in 1..l + 1 : k \in 1..l \/ k = l + 1
  OBVIOUS
<1>12. counter' \in [Tenants -> Row]
  BY Zenon, <1>1a, <1>2, <1>3, <1>5 DEF ServiceTypes, Row
<1>13. memo' \in [Tenants -> [Keys -> Memo]]
  <2>1. [op |-> req[c].op, value |-> v, version |-> n] \in Memo
    BY Zenon, <1>2, <1>3 DEF Memo
  <2>2. memo \in [Tenants -> [Keys -> Memo]]
    BY Zenon, <1>1a DEF ServiceTypes
  <2>3. CASE req[c].key = NoKey
    BY Zenon, <1>5, <2>2, <2>3
  <2>4. CASE req[c].key # NoKey
    BY Zenon, <1>2, <1>5, <2>1, <2>2
  <2>. QED BY Zenon, <2>3, <2>4
<1>14. RequestTypes' /\ ServiceTypes' /\ LedgerTypes'
  BY SMTT(30), <1>1a, <1>1b, <1>1d, <1>7, <1>10, <1>12, <1>13 DEF RequestTypes, ServiceTypes, LedgerTypes
<1>. HIDE DEF t
<1>15. PICK i : i = task[c].ticket
  BY Zenon
<1>16. /\ i \in 1..Len(reservations) /\ reservations[i].tenant = t /\ reservations[i].status = "reserved"
       /\ req[c].id \in 1..issued /\ payment[req[c].id] = i
       /\ \A k \in 1..l : outbox[k].request # req[c].id /\ outbox[k].request \in 1..issued
  BY Zenon, <1>1a, <1>5, <1>9, <1>15 DEF LedgerInv, TicketOf, Holding, PaysOnce, t
<1>17. \A u : Held(u)' = Held(u)
  BY Zenon, <1>1d DEF Held
<1>18. ASSUME NEW d \in Clients, d # c PROVE TicketOf(d)'
  <2>1. TicketOf(d) /\ (pc[d] \in {"wait", "release"} => task[d].ticket # i)
    BY Zenon, <1>1a, <1>15, <1>18 DEF LedgerInv, OwnTickets, Holding
  <2>2. /\ pc[d] = "wait" => entry.request # req[d].id
        /\ pc[d] = "release" => payment[entry.request] # task[d].ticket
    BY Zenon, <1>4, <1>16, <2>1 DEF TicketOf
  <2>3. \A k \in 1..Len(outbox') :
           \/ k \in 1..Len(outbox) /\ outbox'[k] = outbox[k] /\ outbox[k].request \in 1..issued
           \/ (pc[d] = "wait" => outbox'[k].request # req[d].id)
              /\ (pc[d] = "release" => payment[outbox'[k].request] # task[d].ticket)
    BY Zenon, <1>9, <1>10, <1>11, <1>16, <2>2
  <2>4. Len(reservations) \in Nat /\ Len(reservations) >= Len(reservations) /\ issued \in Nat /\ issued >= issued
        /\ Len(payment) = issued
    BY <1>1a DEF LedgerTypes
  <2>. QED BY Zenon, <1>1a, <1>1b, <1>1d, <1>7, <1>18, <2>1, <2>3, <2>4, Bystander
<1>19. TicketOf(c)'
  <2>1. TicketOf(c)
    BY Zenon, <1>1a DEF LedgerInv
  <2>. QED BY Zenon, <1>1b, <1>1d, <1>7, <2>1 DEF TicketOf
<1>20. OwnTickets' /\ QuotaHolds' /\ UsageIsCommitted'
  BY Zenon, <1>1a, <1>1b, <1>1d, <1>17 DEF LedgerInv, OwnTickets, QuotaHolds, UsageIsCommitted
<1>21. PaysOnce'
  <2>1. ASSUME NEW k \in 1..l + 1, NEW m \in 1..l + 1, k # m PROVE outbox'[k].request # outbox'[m].request
    BY SMTT(30), <1>1a, <1>4, <1>10, <1>16, <2>1 DEF LedgerInv, PaysOnce
  <2>2. i \in Held(t)
    BY Zenon, <1>16 DEF Held
  <2>3. ASSUME NEW k \in 1..l + 1
        PROVE  outbox'[k].request \in 1..issued /\ payment[outbox'[k].request] \in Held(outbox'[k].tenant)
    <3>1. CASE k \in 1..l
      BY Zenon, <1>1a, <1>9, <1>10, <3>1 DEF LedgerInv, PaysOnce
    <3>2. CASE k = l + 1
      BY Zenon, <1>4, <1>10, <1>16, <2>2, <3>2
    <3>. QED BY <3>1, <3>2
  <2>4. \A k, m \in 1..Len(payment) : k # m => payment[k] # payment[m]
    BY Zenon, <1>1a DEF LedgerInv, PaysOnce
  <2>. QED BY Zenon, <1>1d, <1>7, <1>10, <1>17, <2>1, <2>3, <2>4 DEF PaysOnce
<1>. QED BY Zenon, <1>14, <1>18, <1>19, <1>20, <1>21 DEF BffInv, LedgerInv

\* The counter service at work.
LEMMA ServeStep ==
  ASSUME BffInv, NEW c \in Clients, Serve(c)
  PROVE  BffInv'
<1>1. pc[c] = "wait" /\ ServiceOnly /\ ServiceTypes
  BY Zenon DEF Serve, BffInv, ServiceOnly
<1>2. CASE Counter!Mutate(c)
  BY Zenon, <1>1, <1>2, MutateStep
<1>3. CASE Counter!Replay(c)
  <2>. DEFINE m == memo[req[c].tenant][req[c].key]
  <2>1. req[c].key \in Keys /\ req[c].tenant \in Tenants
    BY Zenon, <1>1, <1>3 DEF Counter!Replay, Counter!Remembered, ServiceTypes, Request
  <2>2. m \in Memo
    BY Zenon, <1>1, <2>1 DEF ServiceTypes
  <2>3. phase[c] = "pending" /\ UNCHANGED <<counter, memo, outbox>>
        /\ Counter!Answer(c, IF m.op = req[c].op THEN Counter!Success(m.value, m.version) ELSE Counter!Failure("conflict"))
    BY Zenon, <1>3 DEF Counter!Replay
  <2>. HIDE DEF m
  <2>4. Counter!Success(m.value, m.version) \in Reply /\ Counter!Failure("conflict") \in Reply
    BY <2>2 DEF Counter!Success, Counter!Failure, Reply, Memo
  <2>5. PICK r \in Reply : Counter!Answer(c, r)
    BY Zenon, <2>3, <2>4
  <2>. QED BY Zenon, <1>1, <2>3, <2>5, NoEffectStep
<1>4. CASE Counter!Fail(c)
  <2>1. PICK kind \in {"cas", "db"} : Counter!Answer(c, Counter!Failure(kind))
    BY Zenon, <1>4 DEF Counter!Fail
  <2>2. Counter!Failure(kind) \in Reply /\ phase[c] = "pending" /\ UNCHANGED <<counter, memo, outbox>>
    BY <1>4 DEF Counter!Fail, Counter!Failure, Reply
  <2>. QED BY Zenon, <1>1, <2>1, <2>2, NoEffectStep
<1>. QED BY Zenon, <1>2, <1>3, <1>4 DEF Serve

\* The service's result is matched: after a success the ticket is committed, after
\* an error, which had no effect, it is released.
LEMMA ReturnStep ==
  ASSUME BffInv, NEW c \in Clients, Return(c)
  PROVE  BffInv'
<1>. DEFINE row == [value |-> reply[c].value, version |-> reply[c].version]
<1>1a. RequestTypes /\ ServiceTypes /\ LedgerTypes /\ LedgerInv
  BY Zenon DEF BffInv
<1>1b. UNCHANGED <<entitled, cache, acked, faults>>
  BY Zenon DEF Return
<1>1d. UNCHANGED <<limits, reservations, usage, audited, payment>>
  BY Zenon DEF Return, ledger
<1>1e. pc[c] = "wait" /\ phase[c] = "done" /\ Go(c, IF reply[c].kind = "ok" THEN "commit" ELSE "release")
  BY Zenon DEF Return
<1>1f. task' = [task EXCEPT ![c].row = row] /\ Counter!Leave(c)
  BY Zenon DEF Return
<1>2. /\ ServiceTypes' /\ UNCHANGED <<counter, memo, outbox, req, issued>>
      /\ \A d \in Clients : d # c => phase'[d] = phase[d] /\ reply'[d] = reply[d]
  BY Zenon, <1>1a, <1>1d, <1>1e, <1>1f, Left
<1>3. row \in Row
  BY Zenon, <1>1a, <1>1d, <1>1e DEF ServiceTypes, Reply, Row
<1>. HIDE DEF row
<1>4. /\ task' \in [Clients -> Task] /\ task'[c].ticket = task[c].ticket /\ task'[c].tenant = task[c].tenant
      /\ \A d \in Clients : d # c => task'[d] = task[d]
  <2>1. task[c] \in Task /\ [task[c] EXCEPT !.row = row] \in Task
    BY Zenon, <1>1a, <1>1d, <1>1e, <1>3 DEF RequestTypes, Task
  <2>. QED BY Zenon, <1>1a, <1>1d, <1>1e, <1>1f, <2>1 DEF RequestTypes, Task
<1>5. /\ pc' \in [Clients -> Pcs] /\ pc'[c] = (IF reply[c].kind = "ok" THEN "commit" ELSE "release")
      /\ \A d \in Clients : d # c => pc'[d] = pc[d]
  BY Zenon, <1>1a, <1>1d, <1>1e, Goes DEF Pcs
<1>6. RequestTypes' /\ LedgerTypes'
  BY Zenon, <1>1a, <1>1b, <1>1d, <1>1e, <1>1f, <1>2, <1>4, <1>5 DEF RequestTypes, LedgerTypes
<1>7. \A t : Held(t)' = Held(t)
  BY Zenon, <1>1d, <1>1e DEF Held
<1>8. ASSUME NEW d \in Clients, d # c PROVE TicketOf(d)'
  <2>1. TicketOf(d)
    BY Zenon, <1>1a, <1>1d, <1>1e, <1>1f DEF LedgerInv
  <2>. QED BY <1>1d, <1>1e, <1>1f, <1>2, <1>5, <1>8, <2>1 DEF TicketOf
<1>9. TicketOf(c)'
  <2>1. TicketOf(c)
    BY Zenon, <1>1a, <1>1d, <1>1e DEF LedgerInv
  <2>2. ASSUME reply[c].kind # "ok", NEW k \in 1..Len(outbox) PROVE payment[outbox[k].request] # task[c].ticket
    <3>1. outbox[k].request # req[c].id /\ req[c].id \in 1..issued /\ payment[req[c].id] = task[c].ticket
      BY Zenon, <1>1d, <1>1e, <2>1, <2>2 DEF TicketOf
    <3>2. outbox[k].request \in 1..issued /\ Len(payment) = issued
      BY Zenon, <1>1a, <1>1d, <1>1e DEF LedgerInv, PaysOnce, LedgerTypes
    <3>. QED BY Zenon, <1>1a, <1>1d, <1>1e, <3>1, <3>2 DEF LedgerInv, PaysOnce
  <2>3. /\ task[c].ticket \in 1..Len(reservations) /\ reservations[task[c].ticket].tenant = task[c].tenant
        /\ reservations[task[c].ticket].status = "reserved"
    BY Zenon, <1>1d, <1>1e, <1>1f, <2>1 DEF TicketOf, Holding
  <2>4. pc'[c] = "commit" \/ (pc'[c] = "release" /\ reply[c].kind # "ok")
    BY Zenon, <1>5
  <2>. QED BY Zenon, <1>1d, <1>1e, <1>2, <1>4, <2>2, <2>3, <2>4 DEF TicketOf
<1>10. OwnTickets'
  <2>1. \A d \in Clients : (pc'[d] \in Holding => pc[d] \in Holding) /\ task'[d].ticket = task[d].ticket
    BY Zenon, <1>1d, <1>1e, <1>4, <1>5 DEF Holding
  <2>. QED BY Zenon, <1>1a, <1>1d, <1>1e, <2>1 DEF LedgerInv, OwnTickets
<1>11. PaysOnce' /\ QuotaHolds' /\ UsageIsCommitted'
  BY Zenon, <1>1a, <1>1d, <1>1e, <1>2, <1>7 DEF LedgerInv, PaysOnce, QuotaHolds, UsageIsCommitted
<1>. QED BY Zenon, <1>2, <1>6, <1>8, <1>9, <1>10, <1>11 DEF BffInv, LedgerInv

-----------------------------------------------------------------------------
\* The settlement

\* A ticket is settled by the request that holds it: released when its call had no
\* effect, committed otherwise.
LEMMA SettleStep ==
  ASSUME BffInv, NEW c \in Clients, NEW s \in {"released", "committed"}, Transition(task[c].ticket, s),
         pc[c] = IF s = "released" THEN "release" ELSE "commit",
         Elsewhere(c),
         pc'[c] = "idle" \/ (pc'[c] = "usage" /\ s = "committed" /\ task'[c] = task[c])
  PROVE  LedgerTypes' /\ LedgerInv'
<1>1. RequestTypes /\ ServiceTypes /\ LedgerTypes /\ LedgerInv /\ QuotaHolds /\ TicketOf(c)
  BY Zenon DEF BffInv, LedgerInv
<1>e1. UNCHANGED <<limits, payment, usage, audited>>
  BY Zenon DEF Elsewhere
<1>e2. UNCHANGED <<outbox, issued, req, phase, reply>>
  BY Zenon DEF Elsewhere
<1>e3. \A d \in Clients : d # c => pc'[d] = pc[d] /\ task'[d] = task[d]
  BY Zenon DEF Elsewhere
<1>2. PICK i : i = task[c].ticket
  BY Zenon
<1>3. /\ i \in 1..Len(reservations) /\ reservations[i].status = "reserved" /\ reservations[i].tenant = task[c].tenant
      /\ s = "released" => \A k \in 1..Len(outbox) : payment[outbox[k].request] # i
  BY Zenon, <1>1, <1>2 DEF TicketOf, Holding
<1>4. /\ reservations' \in Seq(Reservation) /\ Len(reservations') = Len(reservations) /\ Len(reservations) \in Nat
      /\ \A k \in 1..Len(reservations) : k # i => reservations'[k] = reservations[k]
      /\ reservations'[i].tenant = reservations[i].tenant /\ reservations'[i].status = s
      /\ \A u, k : k \in Held(u) /\ (k # i \/ s = "committed") => k \in Held(u)'
      /\ QuotaHolds'
  <2>1. Transition(i, s)
    BY Zenon, <1>2
  <2>. QED BY Zenon, <1>e1, <1>1, <1>3, <2>1, RowSettled
<1>5. LedgerTypes'
  BY Zenon, <1>e1, <1>e2, <1>1, <1>4 DEF LedgerTypes
<1>6. /\ issued \in Nat /\ Len(payment) = issued /\ usage \in Seq(1..Len(reservations))
      /\ \A k \in 1..Len(outbox) : outbox[k].request \in 1..issued /\ payment[outbox[k].request] \in Held(outbox[k].tenant)
      /\ \A k \in 1..Len(usage) : reservations[usage[k]].status = "committed"
  BY <1>e1, <1>1 DEF LedgerTypes, LedgerInv, PaysOnce, UsageIsCommitted
<1>7. \A k \in 1..Len(usage) : usage[k] # i /\ usage[k] \in 1..Len(reservations)
  <2>1. "reserved" # "committed"
    BY Zenon
  <2>. QED BY <1>3, <1>6
<1>8. ASSUME NEW d \in Clients, d # c PROVE TicketOf(d)'
  <2>1. /\ TicketOf(d)
        /\ pc[d] \in Holding => task[d].ticket # i /\ task[d].ticket \in 1..Len(reservations)
    BY Zenon, <1>1, <1>2, <1>8 DEF LedgerInv, OwnTickets, TicketOf, Holding
  <2>2. pc[d] \in Holding => reservations'[task[d].ticket] = reservations[task[d].ticket]
    BY Zenon, <1>4, <2>1
  <2>3. Len(reservations') \in Nat /\ Len(reservations') >= Len(reservations) /\ issued >= issued
    BY <1>4, <1>6
  <2>. QED BY Zenon, <1>e1, <1>e2, <1>e3, <1>1, <1>6, <1>8, <2>1, <2>2, <2>3, Bystander
<1>9. TicketOf(c)'
  <2>1. CASE pc'[c] = "idle"
    BY Zenon, <2>1 DEF TicketOf, Holding
  <2>2. CASE pc'[c] = "usage" /\ s = "committed" /\ task'[c] = task[c]
    BY Zenon, <1>e1, <1>2, <1>3, <1>4, <1>7, <2>2 DEF TicketOf
  <2>. QED BY Zenon, <2>1, <2>2
<1>10. OwnTickets'
  <2>1. \A d \in Clients : pc'[d] \in Holding => pc[d] \in Holding /\ task'[d] = task[d]
    BY Zenon, <1>e3 DEF Holding
  <2>. QED BY Zenon, <1>1, <2>1 DEF LedgerInv, OwnTickets
<1>11. PaysOnce'
  <2>1. \A k \in 1..Len(outbox) : payment[outbox[k].request] \in Held(outbox[k].tenant)'
    BY Zenon, <1>e1, <1>e2, <1>e3, <1>3, <1>4, <1>6
  <2>2. /\ \A k, l \in 1..Len(payment) : k # l => payment[k] # payment[l]
        /\ \A k, l \in 1..Len(outbox) : k # l => outbox[k].request # outbox[l].request
    BY Zenon, <1>1 DEF LedgerInv, PaysOnce
  <2>. QED BY Zenon, <1>e1, <1>e2, <1>e3, <1>6, <2>1, <2>2 DEF PaysOnce
<1>12. UsageIsCommitted'
  BY Zenon, <1>e1, <1>1, <1>4, <1>7 DEF LedgerInv, UsageIsCommitted
<1>. QED BY Zenon, <1>4, <1>5, <1>8, <1>9, <1>10, <1>11, <1>12 DEF LedgerInv

\* guard.release().
LEMMA ReleaseStep ==
  ASSUME BffInv, NEW c \in Clients, Release(c)
  PROVE  BffInv'
<1>1a. RequestTypes /\ ServiceTypes /\ LedgerTypes /\ LedgerInv
  BY Zenon DEF BffInv
<1>1b. UNCHANGED <<entitled, cache, acked>>
  BY Zenon DEF Release
<1>1c. UNCHANGED <<counter, memo, outbox, phase, req, reply, issued>>
  BY Zenon DEF Release, service
<1>1d. UNCHANGED <<limits, usage, audited, payment>>
  BY Zenon DEF Release
<1>1e. pc[c] = "release" /\ End(c) /\ (Transition(task[c].ticket, "released") \/ UNCHANGED reservations)
  BY Zenon DEF Release
<1>2. faults' \in Seq(Faults) /\ Len(faults') <= MaxFaults
  BY Zenon, <1>1a, <1>1d, Faulted DEF Release
<1>3. /\ pc' \in [Clients -> Pcs] /\ pc'[c] = "idle" /\ task' \in [Clients -> Task]
      /\ \A d \in Clients : d # c => pc'[d] = pc[d] /\ task'[d] = task[d]
  BY Zenon, <1>1a, <1>1d, <1>1e, Ends
<1>4. RequestTypes' /\ ServiceTypes'
  BY Zenon, <1>1a, <1>1b, <1>1c, <1>1d, <1>2, <1>3 DEF RequestTypes, ServiceTypes
<1>5. LedgerTypes' /\ LedgerInv'
  <2>1. CASE UNCHANGED reservations
    BY Zenon, <1>1a, <1>1c, <1>1d, <1>3, <2>1, QuietLedger DEF LedgerTypes, Holding
  <2>2. CASE Transition(task[c].ticket, "released")
    <3>1. Elsewhere(c)
      BY Zenon, <1>1c, <1>1d, <1>3 DEF Elsewhere
    <3>. QED BY Zenon, <1>1e, <1>3, <2>2, <3>1, SettleStep
  <2>. QED BY Zenon, <1>1d, <1>1e, <2>1, <2>2
<1>. QED BY Zenon, <1>4, <1>5 DEF BffInv

\* guard.commit(), first half.
LEMMA CommitQuotaStep ==
  ASSUME BffInv, NEW c \in Clients, CommitQuota(c)
  PROVE  BffInv'
<1>1a. RequestTypes /\ ServiceTypes /\ LedgerTypes /\ LedgerInv
  BY Zenon DEF BffInv
<1>1b. UNCHANGED <<entitled, cache, acked>>
  BY Zenon DEF CommitQuota
<1>1c. UNCHANGED <<counter, memo, outbox, phase, req, reply, issued>>
  BY Zenon DEF CommitQuota, service
<1>1d. UNCHANGED <<limits, usage, audited, payment>>
  BY Zenon DEF CommitQuota
<1>1e. pc[c] = "commit"
  BY Zenon DEF CommitQuota
<1>1f. \/ Transition(task[c].ticket, "committed") /\ Go(c, "usage") /\ UNCHANGED task
       \/ (Transition(task[c].ticket, "committed") \/ UNCHANGED reservations) /\ End(c)
  BY Zenon DEF CommitQuota
<1>2. faults' \in Seq(Faults) /\ Len(faults') <= MaxFaults
  BY Zenon, <1>1a, <1>1d, Faulted DEF CommitQuota
<1>3. CASE Transition(task[c].ticket, "committed") /\ Go(c, "usage") /\ UNCHANGED task
  <2>1. /\ pc' \in [Clients -> Pcs] /\ pc'[c] = "usage" /\ \A d \in Clients : d # c => pc'[d] = pc[d]
    BY Zenon, <1>1a, <1>1d, <1>3, Goes DEF Pcs
  <2>2. RequestTypes' /\ ServiceTypes'
    BY Zenon, <1>1a, <1>1b, <1>1c, <1>1d, <1>2, <1>3, <2>1 DEF RequestTypes, ServiceTypes
  <2>3. LedgerTypes' /\ LedgerInv'
    <3>1. Elsewhere(c)
      BY Zenon, <1>1c, <1>1d, <1>3, <2>1 DEF Elsewhere
    <3>. QED BY Zenon, <1>1e, <1>3, <2>1, <3>1, SettleStep
  <2>. QED BY Zenon, <2>2, <2>3 DEF BffInv
<1>4. CASE (Transition(task[c].ticket, "committed") \/ UNCHANGED reservations) /\ End(c)
  <2>1. /\ pc' \in [Clients -> Pcs] /\ pc'[c] = "idle" /\ task' \in [Clients -> Task]
        /\ \A d \in Clients : d # c => pc'[d] = pc[d] /\ task'[d] = task[d]
    BY Zenon, <1>1a, <1>1d, <1>4, Ends
  <2>2. RequestTypes' /\ ServiceTypes'
    BY Zenon, <1>1a, <1>1b, <1>1c, <1>1d, <1>2, <2>1 DEF RequestTypes, ServiceTypes
  <2>3. LedgerTypes' /\ LedgerInv'
    <3>1. CASE UNCHANGED reservations
      BY Zenon, <1>1a, <1>1c, <1>1d, <2>1, <3>1, QuietLedger DEF LedgerTypes, Holding
    <3>2. CASE Transition(task[c].ticket, "committed")
      <4>1. Elsewhere(c)
        BY Zenon, <1>1c, <1>1d, <2>1 DEF Elsewhere
      <4>. QED BY Zenon, <1>1e, <2>1, <3>2, <4>1, SettleStep
    <3>. QED BY Zenon, <1>4, <3>1, <3>2
  <2>. QED BY Zenon, <2>2, <2>3 DEF BffInv
<1>. QED BY Zenon, <1>1d, <1>1f, <1>3, <1>4

\* guard.commit(), second half: the committed ticket is metered, once.
LEMMA UsageStep ==
  ASSUME BffInv, NEW c \in Clients, RecordUsage(c)
  PROVE  BffInv'
<1>1a. RequestTypes /\ ServiceTypes /\ LedgerTypes /\ LedgerInv
  BY Zenon DEF BffInv
<1>1b. UNCHANGED <<entitled, cache, acked>>
  BY Zenon DEF RecordUsage, Metered
<1>1c. UNCHANGED <<counter, memo, outbox, phase, req, reply, issued>>
  BY Zenon DEF RecordUsage, Metered, service
<1>1d. UNCHANGED <<limits, reservations, audited, payment>>
  BY Zenon DEF RecordUsage, Metered
<1>1e. pc[c] = "usage" /\ (usage' = usage \/ usage' = Append(usage, task[c].ticket))
  BY Zenon DEF RecordUsage, Metered
<1>1f. (Go(c, "audit") /\ UNCHANGED task) \/ End(c)
  BY Zenon DEF RecordUsage, Metered
<1>2. faults' \in Seq(Faults) /\ Len(faults') <= MaxFaults
  BY Zenon, <1>1a, <1>1d, Faulted DEF RecordUsage, Metered
<1>3. /\ pc' \in [Clients -> Pcs] /\ task' \in [Clients -> Task]
      /\ pc'[c] = "idle" \/ (pc'[c] = "audit" /\ task'[c] = task[c])
      /\ \A d \in Clients : d # c => pc'[d] = pc[d] /\ task'[d] = task[d]
  <2>1. "audit" \in Pcs /\ task \in [Clients -> Task]
    BY Zenon, <1>1a, <1>1d DEF Pcs, RequestTypes
  <2>. QED BY Zenon, <1>1a, <1>1d, <1>1f, <2>1, Goes, Ends
<1>4. PICK i : i = task[c].ticket
  BY Zenon
<1>5. /\ i \in 1..Len(reservations) /\ reservations[i].tenant = task[c].tenant /\ reservations[i].status = "committed"
      /\ \A k \in 1..Len(usage) : usage[k] # i
  BY Zenon, <1>1a, <1>1d, <1>1e, <1>1f, <1>4 DEF LedgerInv, TicketOf, Holding
<1>6. usage \in Seq(1..Len(reservations)) /\ Len(usage) \in Nat /\ UsageIsCommitted
  BY <1>1a, <1>1d DEF LedgerTypes, LedgerInv
<1>7. /\ usage' \in Seq(1..Len(reservations))
      /\ \A k \in 1..Len(usage') : (k \in 1..Len(usage) /\ usage'[k] = usage[k]) \/ (k = Len(usage) + 1 /\ usage'[k] = i)
  <2>1. CASE usage' = usage
    BY Zenon, <1>6, <2>1
  <2>2. CASE usage' = Append(usage, i)
    <3>1. usage' \in Seq(1..Len(reservations)) /\ Len(usage') = Len(usage) + 1 /\ usage'[Len(usage) + 1] = i
          /\ \A k \in 1..Len(usage) : usage'[k] = usage[k]
      BY <1>5, <1>6, <2>2
    <3>2. \A k \in 1..Len(usage) + 1 : k \in 1..Len(usage) \/ k = Len(usage) + 1
      BY <1>6
    <3>. QED BY <3>1
  <2>. QED BY Zenon, <1>1d, <1>1e, <1>4, <2>1, <2>2
<1>8. RequestTypes' /\ ServiceTypes' /\ LedgerTypes'
  BY Zenon, <1>1a, <1>1b, <1>1c, <1>1d, <1>2, <1>3, <1>7 DEF RequestTypes, ServiceTypes, LedgerTypes
<1>9. \A t : Held(t)' = Held(t)
  BY Zenon, <1>1d DEF Held
<1>10. ASSUME NEW d \in Clients, d # c PROVE TicketOf(d)'
  <2>1. TicketOf(d) /\ (pc[d] = "usage" => task[d].ticket # i)
    BY Zenon, <1>1a, <1>1d, <1>1e, <1>4, <1>10 DEF LedgerInv, OwnTickets, Holding
  <2>2. \A k \in 1..Len(usage') : (k \in 1..Len(usage) /\ usage'[k] = usage[k]) \/ pc[d] # "usage" \/ usage'[k] # task[d].ticket
    BY Zenon, <1>7, <2>1
  <2>3. /\ Len(reservations) \in Nat /\ Len(reservations) >= Len(reservations) /\ issued \in Nat /\ issued >= issued
        /\ Len(payment) = issued /\ \A k \in 1..Len(outbox) : outbox[k].request \in 1..issued
    <3>1. Len(reservations) \in Nat /\ Len(payment) = issued
      BY <1>1a, <1>1d DEF LedgerTypes
    <3>2. issued \in Nat
      BY Zenon, <1>1a, <1>1d DEF ServiceTypes
    <3>3. PaysOnce
      BY Zenon, <1>1a, <1>1d DEF LedgerInv
    <3>4. \A k \in 1..Len(outbox) : outbox[k].request \in 1..issued
      BY Zenon, <3>3 DEF PaysOnce
    <3>. QED BY <3>1, <3>4
  <2>. QED BY Zenon, <1>1a, <1>1c, <1>1d, <1>3, <1>10, <2>1, <2>2, <2>3, Bystander
<1>11. TicketOf(c)'
  <2>1. CASE pc'[c] = "idle"
    BY Zenon, <2>1 DEF TicketOf, Holding
  <2>2. CASE pc'[c] = "audit" /\ task'[c] = task[c]
    BY Zenon, <1>1c, <1>1d, <1>4, <1>5, <2>2 DEF TicketOf
  <2>. QED BY Zenon, <1>3, <2>1, <2>2
<1>12. OwnTickets'
  <2>1. \A d \in Clients : pc'[d] \in Holding => pc[d] \in Holding /\ task'[d] = task[d]
    BY Zenon, <1>1c, <1>1d, <1>1e, <1>3 DEF Holding
  <2>. QED BY Zenon, <1>1a, <1>1c, <1>1d, <2>1 DEF LedgerInv, OwnTickets
<1>13. PaysOnce' /\ QuotaHolds'
  BY Zenon, <1>1a, <1>1c, <1>1d, <1>1e, <1>9 DEF LedgerInv, PaysOnce, QuotaHolds
<1>14. UsageIsCommitted'
  <2>1. \A k \in 1..Len(usage') : reservations[usage'[k]].status = "committed"
    BY Zenon, <1>5, <1>6, <1>7 DEF UsageIsCommitted
  <2>2. \A k, l \in 1..Len(usage') : k # l => usage'[k] # usage'[l]
    BY Zenon, <1>5, <1>6, <1>7 DEF UsageIsCommitted
  <2>. QED BY Zenon, <1>1c, <1>1d, <2>1, <2>2 DEF UsageIsCommitted
<1>. QED BY Zenon, <1>8, <1>10, <1>11, <1>12, <1>13, <1>14 DEF BffInv, LedgerInv

-----------------------------------------------------------------------------
\* The theorem

\* Before the first request.
LEMMA BffInvInit == Init => BffInv
<1>. SUFFICES ASSUME Init PROVE BffInv
  BY Zenon
<1>1. /\ counter = [t \in Tenants |-> [value |-> 0, version |-> 0]]
      /\ memo = [t \in Tenants |-> [k \in Keys |-> [op |-> "none", value |-> 0, version |-> 0]]]
  BY Zenon DEF Init, Counter!Init
<1>2. outbox = << >> /\ issued = 0
  BY Zenon DEF Init, Counter!Init
<1>3. /\ phase = [c \in Clients |-> "idle"] /\ reply = [c \in Clients |-> Counter!NoReply]
      /\ req \in [Clients -> {[id |-> 0, tenant |-> t, op |-> "reset", key |-> NoKey] : t \in Tenants}]
  BY Zenon DEF Init, Counter!Init
<1>4. ServiceTypes
  <2>1. counter \in [Tenants -> Row]
    BY <1>1 DEF Row
  <2>2. memo \in [Tenants -> [Keys -> Memo]]
    <3>1. [op |-> "none", value |-> 0, version |-> 0] \in Memo
      BY DEF Memo, OpNames
    <3>. QED BY Zenon, <1>1, <3>1
  <2>3. Counter!NoReply \in Reply /\ \A t \in Tenants : [id |-> 0, tenant |-> t, op |-> "reset", key |-> NoKey] \in Request
    BY DEF Counter!NoReply, Reply, Request, OpNames
  <2>4. /\ phase \in [Clients -> {"idle", "pending", "done"}] /\ reply \in [Clients -> Reply]
        /\ req \in [Clients -> Request]
    BY Zenon, <1>3, <2>3
  <2>. QED BY <1>2, <2>1, <2>2, <2>4 DEF ServiceTypes
<1>5. pc = [c \in Clients |-> "idle"] /\ task \in [Clients -> {NoTask(t) : t \in Tenants}]
  BY Zenon DEF Init
<1>6. /\ entitled \in [Tenants -> BOOLEAN] /\ cache = [t \in Tenants |-> NoRow]
      /\ acked = [c \in Clients |-> [t \in Tenants |-> 0]] /\ faults = << >>
  BY Zenon DEF Init
<1>7. limits \in [Tenants -> Limits]
  BY Zenon DEF Init
<1>8. reservations = << >> /\ payment = << >> /\ usage = << >> /\ audited = {}
  BY Zenon DEF Init
<1>9. RequestTypes
  <2>1. {NoTask(t) : t \in Tenants} \subseteq Task /\ "idle" \in Pcs
    BY Zenon, FreshTask DEF Pcs
  <2>2. pc \in [Clients -> Pcs] /\ task \in [Clients -> Task]
    BY Zenon, <1>5, <2>1
  <2>. QED BY <1>6, <1>7, <2>2, BoundsAssumption DEF RequestTypes
<1>10. LedgerTypes
  BY <1>2, <1>8, BoundsAssumption DEF LedgerTypes
<1>11. \A c \in Clients : pc[c] = "idle" /\ pc[c] \notin Holding
  BY Zenon, <1>5 DEF Holding
<1>12. \A c \in Clients : TicketOf(c)
  BY Zenon, <1>11 DEF TicketOf
<1>13. OwnTickets
  BY Zenon, <1>11 DEF OwnTickets
<1>14. PaysOnce
  BY <1>2, <1>8 DEF PaysOnce
<1>15. UsageIsCommitted
  BY <1>8 DEF UsageIsCommitted
<1>16. QuotaHolds
  <2>1. \A t : Held(t) = {}
    BY <1>8 DEF Held
  <2>2. Cardinality({}) = 0
    BY Zenon, FS_EmptySet
  <2>3. \A t \in Tenants : limits[t] \in Nat
    BY Zenon, <1>7, LimitsAssumption
  <2>. QED BY <2>1, <2>2, <2>3 DEF QuotaHolds
<1>. QED BY Zenon, <1>4, <1>9, <1>10, <1>12, <1>13, <1>14, <1>15, <1>16 DEF BffInv, LedgerInv

\* Every step keeps the invariant.
LEMMA BffInvStep == BffInv /\ [Next]_vars => BffInv'
<1>. SUFFICES ASSUME BffInv, [Next]_vars PROVE BffInv'
  BY Zenon
<1>1. CASE UNCHANGED vars
  <2>1. UNCHANGED <<counter, memo, outbox, phase, req, reply, issued, pc, task, entitled, limits, reservations, usage, audited,
                    payment, cache, acked, faults>>
    BY Zenon, <1>1 DEF vars, service, ledger
  <2>2. RequestTypes' /\ ServiceTypes' /\ LedgerTypes'
    BY Zenon, <2>1 DEF BffInv, RequestTypes, ServiceTypes, LedgerTypes
  <2>3. LedgerInv'
    BY Zenon, <2>1, QuietLedger DEF BffInv
  <2>. QED BY Zenon, <2>2, <2>3 DEF BffInv
<1>2. ASSUME NEW c \in Clients, WriteStep(c) PROVE BffInv'
  BY Zenon, <1>2, EntitlementStep, ReserveStep, CallStep, ServeStep, ReturnStep, ReleaseStep, CommitQuotaStep, UsageStep,
     AuditStep, InvalidateStep DEF WriteStep
<1>3. ASSUME NEW c \in Clients, Load(c) \/ Insert(c) \/ Disconnect(c) PROVE BffInv'
  BY Zenon, <1>3, LoadStep, InsertStep, DisconnectStep
<1>4. ASSUME NEW c \in Clients, NEW t \in Tenants, CacheMiss(c, t) PROVE BffInv'
  BY Zenon, <1>4, CacheMissStep
<1>5. ASSUME NEW c \in Clients, NEW t \in Tenants, NEW op \in Mutations, NEW k \in Keys \cup {NoKey}, Begin(c, t, op, k)
      PROVE  BffInv'
  BY Zenon, <1>5, BeginStep
<1>6. ASSUME NEW t \in Tenants, Expire(t) \/ Grant(t) \/ Revoke(t) PROVE BffInv'
  BY Zenon, <1>6, TenantStep
<1>. QED BY Zenon, <1>1, <1>2, <1>3, <1>4, <1>5, <1>6 DEF Next, Step

\* Whatever requests interleave, ledger calls fail and clients disconnect: no
\* tenant is over its quota, every change of a counter is held against the quota by
\* a reservation of its own, and what is metered is committed and metered once.
THEOREM QuotaCorrect == Spec => [](TypeOK /\ PaidWithinQuota)
<1>1. BffInv => TypeOK /\ PaidWithinQuota
  <2>. SUFFICES ASSUME BffInv PROVE TypeOK /\ PaidWithinQuota
    BY Zenon
  <2>1. TypeOK
    BY Zenon DEF BffInv, RequestTypes, LedgerTypes, Task, Reservation, TypeOK
  <2>2. AppliedIsPaid
    <3>1. Len(payment) = issued /\ PaysOnce
      BY Zenon DEF BffInv, LedgerTypes, LedgerInv
    <3>. QED BY Zenon, <3>1 DEF PaysOnce, AppliedIsPaid
  <2>. QED BY Zenon, <2>1, <2>2 DEF BffInv, LedgerInv, PaidWithinQuota
<1>. QED BY <1>1, BffInvInit, BffInvStep, PTL DEF Spec
=============================================================================
