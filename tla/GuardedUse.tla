------------------------------ MODULE GuardedUse ------------------------------
(***************************************************************************)
(* The guarded operations of the capability packages around one quota       *)
(* ledger: AI invocations, bot commands and admin operations.  Call i is    *)
(* the i-th call; its reservation, if it gets one, has the same number.     *)
(* Every call to a port is a step of its own.                               *)
(***************************************************************************)
EXTENDS Naturals, FiniteSets

CONSTANTS
  MaxGuarded,        \* bound: calls
  Limits,            \* limits an operator sets
  MaxTokens,         \* max_tokens of an AI invocation
  QuotaQuantity,     \* quota_quantity of a bot route
  MaxLimitChanges,   \* bound: calls of set_limit
  MaxGuardedFailures \* bound: calls ended by a port's error or dropped

\* Quantities and limits are u64.
ASSUME GuardedBounds ==
  MaxGuarded \in Nat /\ Limits \subseteq Nat /\ MaxTokens \in Nat /\ QuotaQuantity \in Nat

VARIABLES
  enabled,      \* the packages whose mode is not Disabled
  allowList,    \* capabilities of the static entitlement resolver
  prompts,      \* versions registered for the prompt key
  limit,        \* the ledger's limit, largest set so far, and number of changes
  used,         \* the ledger's committed usage
  reservations, \* call -> status of its reservation
  call,         \* call -> where it is and what it did
  meter,        \* usage events: <<call, tokens>>
  traces, audit, \* <<call, outcome>> of the AI trace store and of the audit sink
  ended         \* calls ended by an error of a port or dropped (history)

guardedVars == <<enabled, allowList, prompts, limit, used, reservations, call, meter, traces, audit, ended>>
ledgerVars == <<limit, used, reservations>>
guardConfig == <<enabled, allowList, prompts>>

CallIds == 1..MaxGuarded
QuotaReservationStatus == {"None", "Reserved", "Committed", "Released"}
Kind(i) == call[i].kind
Quantity(i) == IF Kind(i) = "ai" THEN MaxTokens ELSE QuotaQuantity

GuardedInit ==
  /\ enabled \in {{}, {"ai", "bot", "admin"}} /\ allowList \in {{"ai"}, {"ai", "bot"}}
  /\ prompts = 0
  /\ limit \in {[now |-> n, max |-> n, changes |-> 0] : n \in Limits}
  /\ used = 0 /\ reservations = [i \in CallIds |-> "None"]
  /\ call = [i \in CallIds |-> [kind |-> "none", step |-> "new", outcome |-> "none", did |-> FALSE]]
  /\ meter = {} /\ traces = {} /\ audit = {} /\ ended = {}

AtStep(i, step) == call[i].step = step
Goes(i, step) == call' = [call EXCEPT ![i].step = step]
\* The call is to leave a record with the outcome, and then returns.
Concludes(i, outcome) == call' = [call EXCEPT ![i].step = "record", ![i].outcome = outcome]

\* The in-memory ledger.
OpenReservations == {i \in CallIds : reservations[i] = "Reserved"}
TotalQuantity(S) ==
  MaxTokens * Cardinality({i \in S : Kind(i) = "ai"}) + QuotaQuantity * Cardinality({i \in S : Kind(i) # "ai"})
\* Mutant: open reservations are not counted.
FitsCommitted(i) == used + Quantity(i) <= limit.now
Fits(i) == used + TotalQuantity(OpenReservations) + Quantity(i) <= limit.now
SetLimit(n) ==
  /\ limit.changes < MaxLimitChanges
  /\ limit' = [now |-> n, max |-> IF n > limit.max THEN n ELSE limit.max, changes |-> limit.changes + 1]
  /\ UNCHANGED <<guardConfig, used, reservations, call, meter, traces, audit, ended>>
CommitReservation(i) ==
  /\ reservations[i] = "Reserved"
  /\ reservations' = [reservations EXCEPT ![i] = "Committed"]
  /\ used' = used + Quantity(i)
  /\ UNCHANGED limit
ReleaseReservation(i) ==
  /\ reservations[i] = "Reserved"
  /\ reservations' = [reservations EXCEPT ![i] = "Released"]
  /\ UNCHANGED <<limit, used>>

\* entitlement.check, and the reservation of the quota.
CheckEntitlement(i, next) ==
  /\ AtStep(i, "entitle")
  /\ IF Kind(i) \in allowList THEN Goes(i, next) ELSE Concludes(i, "Denied")
  /\ UNCHANGED <<guardConfig, ledgerVars, meter, traces, audit, ended>>
Reserve(i) ==
  /\ AtStep(i, "reserve")
  /\ IF Fits(i) THEN Goes(i, "perform") /\ reservations' = [reservations EXCEPT ![i] = "Reserved"]
                ELSE Concludes(i, "Denied") /\ UNCHANGED reservations
  /\ UNCHANGED <<guardConfig, limit, used, meter, traces, audit, ended>>

\* The provider or the use case: it succeeds, or the call goes on to undo.
Perform(i, next, undo) ==
  /\ AtStep(i, "perform")
  /\ \/ call' = [call EXCEPT ![i].step = next, ![i].did = TRUE, ![i].outcome = "Succeeded"]
     \/ call' = [call EXCEPT ![i].step = undo, ![i].outcome = "Failed"]
  /\ UNCHANGED <<guardConfig, ledgerVars, meter, traces, audit, ended>>
SettleQuota(i) ==
  /\ \/ AtStep(i, "commit") /\ CommitReservation(i)
     \/ AtStep(i, "release") /\ ReleaseReservation(i)
  /\ Goes(i, "record")
  /\ UNCHANGED <<guardConfig, meter, traces, audit, ended>>

\* The records of an AI invocation, a bot command and an admin operation.
AppendTrace(i) == traces' = traces \cup {<<i, call[i].outcome>>} /\ UNCHANGED audit
AuditCommand(i) == audit' = audit \cup {<<i, call[i].outcome>>} /\ UNCHANGED traces
AppendAudit(i) == audit' = audit \cup {<<i, call[i].outcome>>} /\ UNCHANGED traces
Record(i) ==
  /\ AtStep(i, "record")
  /\ CASE Kind(i) = "ai" -> AppendTrace(i) [] Kind(i) = "bot" -> AuditCommand(i) [] OTHER -> AppendAudit(i)
  /\ Goes(i, "returned")
  /\ UNCHANGED <<guardConfig, ledgerVars, meter, ended>>

\* A call starts at its package's first step; a disabled package records the
\* refusal, except the bot channel, which skips the command silently.
Start(i, kind) ==
  LET first == CASE kind \in enabled -> [ai |-> "entitle", bot |-> "route", admin |-> "perform"][kind]
                 [] kind \notin enabled -> IF kind = "bot" THEN "returned" ELSE "record"
  IN  /\ AtStep(i, "new") /\ \A j \in 1..i - 1 : ~AtStep(j, "new")
      /\ call' = [call EXCEPT ![i] = [kind |-> kind, step |-> first, outcome |-> "Denied", did |-> FALSE]]
      /\ UNCHANGED <<guardConfig, ledgerVars, meter, traces, audit, ended>>

\* AiInvocationService::invoke: the tools asked for are permitted or not; the
\* prompt version is the last registered; usage is metered before the commit.
CheckTools(i) ==
  /\ AtStep(i, "tools")
  /\ Goes(i, "prompt") \/ Concludes(i, "Denied")
  /\ UNCHANGED <<guardConfig, ledgerVars, meter, traces, audit, ended>>
SelectPrompt(i) ==
  /\ AtStep(i, "prompt")
  /\ IF prompts = 0 THEN call' = [call EXCEPT ![i].step = "returned", ![i].outcome = "NotFound"] ELSE Goes(i, "reserve")
  /\ UNCHANGED <<guardConfig, ledgerVars, meter, traces, audit, ended>>
RecordUsage(i) ==
  /\ AtStep(i, "meter")
  /\ \E tokens \in 1..MaxTokens + 1 : meter' = meter \cup {<<i, tokens>>}
  /\ Goes(i, "commit")
  /\ UNCHANGED <<guardConfig, ledgerVars, traces, audit, ended>>
Invoke(i) ==
  /\ Kind(i) = "ai"
  /\ \/ CheckEntitlement(i, "tools") \/ CheckTools(i) \/ SelectPrompt(i) \/ Reserve(i)
     \/ Perform(i, "meter", "release") \/ RecordUsage(i) \/ SettleQuota(i) \/ Record(i)

\* GuardedBotCommandDispatcher::dispatch: a command without a route is denied.
Route(i) ==
  /\ AtStep(i, "route")
  /\ Goes(i, "entitle") \/ Concludes(i, "Denied")
  /\ UNCHANGED <<guardConfig, ledgerVars, meter, traces, audit, ended>>
Dispatch(i) ==
  /\ Kind(i) = "bot"
  /\ Route(i) \/ CheckEntitlement(i, "reserve") \/ Reserve(i) \/ Perform(i, "commit", "release") \/ SettleQuota(i) \/ Record(i)

\* AdminOperationExecutor::execute.
Execute(i) == Kind(i) = "admin" /\ (Perform(i, "record", "record") \/ Record(i))

\* A port returns an error, or the caller drops the call: it ends where it is.
Ends(i) ==
  /\ call[i].step \notin {"new", "returned"} /\ Cardinality(ended) < MaxGuardedFailures
  /\ ended' = ended \cup {i}
  /\ Goes(i, "returned")
  /\ UNCHANGED <<guardConfig, ledgerVars, meter, traces, audit>>

RegisterPrompt ==
  /\ prompts = 0 /\ prompts' = 1
  /\ UNCHANGED <<enabled, allowList, ledgerVars, call, meter, traces, audit, ended>>

GuardedNext ==
  \/ \E i \in CallIds : (\E kind \in {"ai", "bot", "admin"} : Start(i, kind)) \/ Invoke(i) \/ Dispatch(i) \/ Execute(i) \/ Ends(i)
  \/ \E n \in Limits : SetLimit(n)
  \/ RegisterPrompt

-----------------------------------------------------------------------------
\* Properties

Returned(i) == AtStep(i, "returned") /\ i \notin ended

\* The ledger and the calls have their types.
GuardedTypeOK ==
  /\ reservations \in [CallIds -> QuotaReservationStatus] /\ used \in Nat /\ ended \subseteq CallIds
  /\ \A i \in CallIds : call[i].outcome \in {"none", "Denied", "Succeeded", "Failed", "NotFound"} /\ call[i].did \in BOOLEAN

\* Concurrent calls never overbook: committed and open quota together stay
\* within the largest limit that was ever set, however calls interleave, fail
\* and see the limit change.
NeverOverbooked == used + TotalQuantity(OpenReservations) <= limit.max

\* Quota is charged exactly for what was done: a committed reservation, a
\* metered token and a record of success all belong to a call whose provider
\* or use case succeeded, and a released one to a call whose did not.
ChargedForWork ==
  /\ \A i \in CallIds : reservations[i] = "Committed" => call[i].did
  /\ \A i \in CallIds : reservations[i] = "Released" => ~call[i].did
  /\ \A u \in meter : call[u[1]].did
  /\ \A r \in traces \cup audit : (r[2] = "Succeeded") <=> call[r[1]].did
  /\ used = TotalQuantity({i \in CallIds : reservations[i] = "Committed"})

\* A call that returned by itself left no reservation open; one that an error
\* or a drop ended may, and then keeps the quota for ever.
OpenIsRunningOrEnded ==
  \A i \in OpenReservations : AtStep(i, "returned") => i \in ended

\* Every answer is on record: a call that returned by itself has exactly one
\* record with its outcome (a metered AI success included), except a skipped
\* bot command and an invocation whose prompt is not registered.
AnsweredIsRecorded ==
  \A i \in CallIds : Returned(i) =>
    \/ {r \in traces \cup audit : r[1] = i} = {<<i, call[i].outcome>>}
       /\ (Kind(i) = "ai" /\ call[i].did => Cardinality({u \in meter : u[1] = i}) = 1 /\ reservations[i] = "Committed")
    \/ Kind(i) = "bot" /\ "bot" \notin enabled /\ ~call[i].did
    \/ call[i].outcome = "NotFound" /\ reservations[i] = "None"

\* The quota, the meter and the records together tell what the calls did, and
\* no more was booked than the limit allowed.
CallsAreAccounted ==
  NeverOverbooked /\ ChargedForWork /\ OpenIsRunningOrEnded /\ AnsweredIsRecorded
=============================================================================
