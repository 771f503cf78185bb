---------------------------- MODULE MCOutboxRelay ----------------------------
(* OutboxRelay on small instances. *)
EXTENDS OutboxRelay

CONSTANTS r1, r2

One == [replicas |-> {r1}, shared |-> FALSE, faults |-> FaultKinds, events |-> 3, failures |-> 2]
Two == [replicas |-> {r1, r2}, shared |-> TRUE, faults |-> FaultKinds, events |-> 2, failures |-> 1]

\* One replica with the local stores, and two replicas sharing the tables.
OneAndTwo == {One, Two}
\* One replica whose publish fails once, and one whose process is killed once.
PublishFails == {[One EXCEPT !.faults = {"publish"}, !.events = 2, !.failures = 1]}
CrashShared == {[Two EXCEPT !.replicas = {r1}, !.faults = {"crash"}]}
=============================================================================
