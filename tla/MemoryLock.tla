------------------------------- MODULE MemoryLock -------------------------------
(***************************************************************************)
(* MemoryLock, the in-memory adapter of the Lock port of packages/runtime   *)
(* (the conflict lock of the sync-reconciler worker), for one lock name.    *)
(*                                                                         *)
(* A token is the number of its acquisition.  Time only appears as `old`:   *)
(* the acquisitions up to it are at least 5 seconds (the TTL) ago.          *)
(***************************************************************************)
EXTENDS Naturals

CONSTANTS
  Owners,    \* tasks that lock
  MaxAcquires  \* bound: acquisitions in a behaviour

ASSUME LockBounds == MaxAcquires \in Nat \ {0}

VARIABLES
  lock,      \* the token in the map, 0 when there is no entry
  issued,    \* the last token issued
  old,       \* the last token whose TTL has passed
  guard,     \* owner -> the token of its LockGuard, 0 without one
  waiting,   \* the owners inside the loop of acquire
  releasing  \* the tokens whose release task is spawned and has not run

lockVars == <<lock, issued, old, guard, waiting, releasing>>

Tokens == 1..MaxAcquires

LockInit ==
  /\ lock = 0 /\ issued = 0 /\ old = 0
  /\ guard = [o \in Owners |-> 0]
  /\ waiting = {}
  /\ releasing = {}

\* Mutant: the TTL of an entry is not looked at.
TryAcquireLockNoTtl(o) ==
  /\ lock = 0
  /\ issued < MaxAcquires
  /\ issued' = issued + 1
  /\ lock' = issued'
  /\ guard' = [guard EXCEPT ![o] = issued']

\* Without an entry, or with one whose TTL has passed, a new token is stored.
TryAcquireLock(o) ==
  /\ lock <= old
  /\ issued < MaxAcquires
  /\ issued' = issued + 1
  /\ lock' = issued'
  /\ guard' = [guard EXCEPT ![o] = issued']

\* try_acquire that succeeds; AlreadyLocked changes nothing.
TryAcquire(o) ==
  /\ guard[o] = 0 /\ o \notin waiting
  /\ TryAcquireLock(o)
  /\ UNCHANGED <<old, waiting, releasing>>

\* acquire enters its loop.
StartAcquire(o) ==
  /\ guard[o] = 0 /\ o \notin waiting
  /\ waiting' = waiting \cup {o}
  /\ UNCHANGED <<lock, issued, old, guard, releasing>>

\* A round of the loop that finds the lock free; any other sleeps 50 ms.
Acquire(o) ==
  /\ o \in waiting
  /\ TryAcquireLock(o)
  /\ waiting' = waiting \ {o}
  /\ UNCHANGED <<old, releasing>>

\* A round of the loop that finds the timeout elapsed.
Timeout(o) ==
  /\ o \in waiting
  /\ waiting' = waiting \ {o}
  /\ UNCHANGED <<lock, issued, old, guard, releasing>>

\* LockGuard::drop spawns the release, or only logs outside a tokio runtime.
DropGuard(o) ==
  /\ guard[o] # 0
  /\ guard' = [guard EXCEPT ![o] = 0]
  /\ releasing' \in {releasing, releasing \cup {guard[o]}}
  /\ UNCHANGED <<lock, issued, old, waiting>>

\* Mutant: the entry is removed whoever owns it.
ReleaseInternalUnchecked(t) ==
  /\ t \in releasing
  /\ releasing' = releasing \ {t}
  /\ lock' = 0
  /\ UNCHANGED <<issued, old, guard, waiting>>

\* release_internal: only the entry with this token is removed.
ReleaseInternal(t) ==
  /\ t \in releasing
  /\ releasing' = releasing \ {t}
  /\ lock' = IF lock = t THEN 0 ELSE lock
  /\ UNCHANGED <<issued, old, guard, waiting>>

\* Time passes: the TTLs end in the order of the acquisitions.
Elapse ==
  /\ old < issued
  /\ old' = old + 1
  /\ UNCHANGED <<lock, issued, guard, waiting, releasing>>

LockNext ==
  \/ Elapse
  \/ \E t \in Tokens : ReleaseInternal(t)
  \/ \E o \in Owners :
       TryAcquire(o) \/ StartAcquire(o) \/ Acquire(o) \/ Timeout(o) \/ DropGuard(o)

LockSpec == LockInit /\ [][LockNext]_lockVars

\* Time passes, and a task inside acquire is woken every 50 ms.
LockFairness == WF_lockVars(Elapse) /\ WF_lockVars(\E o \in Owners : Acquire(o))

-----------------------------------------------------------------------------
\* Properties

\* Tokens are numbers of acquisitions that have happened.
LockTypeOK ==
  /\ lock \in 0..MaxAcquires /\ issued \in 0..MaxAcquires /\ old \in 0..issued
  /\ guard \in [Owners -> 0..MaxAcquires]
  /\ waiting \subseteq Owners
  /\ releasing \subseteq Tokens

\* Within its TTL a guard is the only one: its token is in the map, however
\* late the releases of earlier, expired guards run.
GuardIsExclusive ==
  \A o \in Owners : guard[o] > old => lock = guard[o]

\* "All locks have a TTL to prevent deadlocks": an entry, its guard dropped
\* without a release or never dropped, does not hold up the tasks inside
\* acquire for ever.
EntryGivesWay ==
  \A t \in 1 .. MaxAcquires - 1 : lock = t ~> (lock # t \/ waiting = {})
=============================================================================
