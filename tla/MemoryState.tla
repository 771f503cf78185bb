------------------------------ MODULE MemoryState ------------------------------
(***************************************************************************)
(* MemoryState, the in-memory adapter of the State port of packages/runtime *)
(* (the checkpoint store of the indexer worker), for one key.               *)
(*                                                                         *)
(* A write's value is its number, and keeps the number of the write its     *)
(* writer had read: 0 when the writer built a new entry.                    *)
(***************************************************************************)
EXTENDS Naturals

CONSTANTS
  Writers,   \* tasks that read and write the key
  MaxWrites  \* bound: successful writes in a behaviour

ASSUME StateBounds == MaxWrites \in Nat \ {0}

VARIABLES
  store,   \* the entry of the key, NoEntry when there is none
  copy,    \* writer -> the StateEntry it holds, NoEntry without one
  writes,  \* successful writes so far
  deleted  \* the key has been deleted

stateVars == <<store, copy, writes, deleted>>

NoEntry == [version |-> 0, value |-> 0, read |-> 0]

StateInit ==
  /\ store = NoEntry
  /\ copy = [w \in Writers |-> NoEntry]
  /\ writes = 0
  /\ deleted = FALSE

\* StateEntry::new: an entry made without reading has version 1.
New(w) ==
  /\ copy' = [copy EXCEPT ![w] = [version |-> 1, value |-> 0, read |-> 0]]
  /\ UNCHANGED <<store, writes, deleted>>

Get(w) ==
  /\ store # NoEntry
  /\ copy' = [copy EXCEPT ![w] = store]
  /\ UNCHANGED <<store, writes, deleted>>

\* Mutant: the version is compared and not incremented.
SetKeepsVersion(w) ==
  LET entry == copy[w]
  IN  /\ entry # NoEntry
      /\ writes < MaxWrites
      /\ store = NoEntry \/ store.version = entry.version
      /\ store' = [version |-> entry.version, value |-> writes + 1, read |-> entry.value]
      /\ writes' = writes + 1
      /\ copy' = [copy EXCEPT ![w] = NoEntry]
      /\ UNCHANGED deleted

\* set consumes the entry: over an existing one the versions must agree and the
\* version grows, otherwise the entry is stored as it is.
Set(w) ==
  LET entry == copy[w]
      version == IF store = NoEntry THEN entry.version ELSE entry.version + 1
  IN  /\ entry # NoEntry
      /\ writes < MaxWrites
      /\ store = NoEntry \/ store.version = entry.version
      /\ store' = [version |-> version, value |-> writes + 1, read |-> entry.value]
      /\ writes' = writes + 1
      /\ copy' = [copy EXCEPT ![w] = NoEntry]
      /\ UNCHANGED deleted

\* VersionConflict.
SetConflicts(w) ==
  /\ copy[w] # NoEntry
  /\ store # NoEntry /\ store.version # copy[w].version
  /\ copy' = [copy EXCEPT ![w] = NoEntry]
  /\ UNCHANGED <<store, writes, deleted>>

Delete ==
  /\ store # NoEntry
  /\ store' = NoEntry
  /\ deleted' = TRUE
  /\ UNCHANGED <<copy, writes>>

StateNext ==
  \/ Delete
  \/ \E w \in Writers : New(w) \/ Get(w) \/ Set(w) \/ SetConflicts(w)

StateSpec == StateInit /\ [][StateNext]_stateVars

-----------------------------------------------------------------------------
\* Properties

\* A version never exceeds the number of writes.
StateTypeOK ==
  LET Entry == [version : 0..MaxWrites, value : 0..MaxWrites, read : 0..MaxWrites]
  IN  store \in Entry /\ copy \in [Writers -> Entry] /\ writes \in 0..MaxWrites /\ deleted \in BOOLEAN

\* "Fails if version changed": as long as the key is not deleted, a write based
\* on an entry that was read replaces exactly that entry, so no write in between
\* is lost.  (A write based on a new entry is not protected: its version 1 is
\* the version of the first write.)
NoLostUpdate ==
  [][(store' # store /\ ~deleted' /\ store'.read # 0) => store'.read = store.value]_stateVars
=============================================================================
