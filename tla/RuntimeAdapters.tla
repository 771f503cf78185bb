---------------------------- MODULE RuntimeAdapters ----------------------------
(***************************************************************************)
(* The in-memory adapters of packages/runtime side by side.  They share no  *)
(* state, so a behaviour exercises one of them, chosen at the start.        *)
(***************************************************************************)
EXTENDS MemoryQueue, MemoryLock, MemoryState

VARIABLE adapter  \* the adapter in use

adapterVars == <<queueVars, lockVars, stateVars, adapter>>

AdaptersInit ==
  /\ adapter \in {"queue", "lock", "state"}
  /\ QueueInit /\ LockInit /\ StateInit

AdaptersNext ==
  /\ \/ adapter = "queue" /\ QueueNext /\ UNCHANGED <<lockVars, stateVars>>
     \/ adapter = "lock" /\ LockNext /\ UNCHANGED <<queueVars, stateVars>>
     \/ adapter = "state" /\ StateNext /\ UNCHANGED <<queueVars, lockVars>>
  /\ UNCHANGED adapter

AdaptersFairness == QueueFairness /\ LockFairness

AdaptersTypeOK == QueueTypeOK /\ LockTypeOK /\ StateTypeOK

\* Nobody waits for ever on the queue or the lock: an undelayed message is
\* dequeued, and a lock entry nobody releases gives way to the next acquire.
AdaptersProgress ==
  UndelayedIsDelivered /\ EntryGivesWay
=============================================================================
