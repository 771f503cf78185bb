------------------------ MODULE CounterServiceProofs ------------------------
(***************************************************************************)
(* Proofs about CounterService, for any number of tenants, tasks, keys,    *)
(* retries and requests.                                                   *)
(***************************************************************************)
EXTENDS CounterService, TLAPS

\* What Append does, in the form every step below needs it: the outbox table
\* only grows, at its end.
LEMMA AppendFacts ==
  ASSUME NEW S, NEW s \in Seq(S), NEW e \in S
  PROVE  /\ Append(s, e) \in Seq(S)
         /\ Len(s) \in Nat
         /\ Len(Append(s, e)) = Len(s) + 1
         /\ \A i \in 1..Len(s) : Append(s, e)[i] = s[i] /\ s[i] \in S
         /\ Append(s, e)[Len(s) + 1] = e
  OBVIOUS

\* NextValue stays an integer: the arithmetic of the SET clauses is total.
LEMMA NextValueType ==
  ASSUME NEW op, NEW v \in Int
  PROVE  NextValue(op, v) \in Int
  BY DEF NextValue

\* The event built from a loaded row is a well-formed outbox entry.
LEMMA EventOfType ==
  ASSUME TypeOK, NEW c \in Clients
  PROVE  EventOf(c) \in Event
<1>1. req[c] \in Request /\ seen[c] \in Row
  BY Zenon DEF TypeOK
<1>2. NextValue(req[c].op, seen[c].value) \in Int
  BY Zenon, <1>1, NextValueType DEF Row
<1>. QED
  BY <1>1, <1>2 DEF EventOf, Event, Request, Row

\* The initial tables and tasks are well-formed.
LEMMA InitType == Init => TypeOK
<1>. SUFFICES ASSUME Init PROVE TypeOK
  BY Zenon
<1>1. req \in [Clients -> Request]
  BY DEF Init, Request, Ops
<1>2. outbox \in Seq(Event)
  BY DEF Init
<1>. QED
  BY <1>1, <1>2, RetriesAssumption, RequestsAssumption
  DEF Init, TypeOK, Row, NoRow, MemoRow, Reply, NoReply

\* No step of the service leaves the types of the tables and task records.
LEMMA NextType == TypeOK /\ [Next]_vars => TypeOK'
<1>. SUFFICES ASSUME TypeOK, [Next]_vars PROVE TypeOK'
  BY Zenon
<1>. USE RetriesAssumption, RequestsAssumption
<1>1. CASE UNCHANGED vars
  BY Zenon, <1>1 DEF TypeOK, vars
<1>2. ASSUME NEW c \in Clients, NEW t \in Tenants, NEW op \in Ops,
             NEW k \in Keys \cup {NoKey}, Call(c, t, op, k)
      PROVE  TypeOK'
  BY <1>2 DEF TypeOK, Call, Goto, db, Running, Request
<1>3. ASSUME NEW c \in Clients, NEW t \in Tenants, GetValue(c, t)
      PROVE  TypeOK'
  BY Zenon, <1>3 DEF TypeOK, GetValue, Answer, Goto, db, Reply, Row
<1>4. ASSUME NEW c \in Clients, Load(c) PROVE TypeOK'
  BY Zenon, <1>4 DEF TypeOK, Load, Goto, db, Running, Request
<1>5. ASSUME NEW c \in Clients, PrecheckHit(c) \/ Recheck(c) PROVE TypeOK'
  <2>1. Remembered(c) => MemoOutcome(c) \in Reply
    <3>1. Remembered(c) => memo[req[c].tenant][req[c].key] \in MemoRow
      BY DEF TypeOK, Remembered, Request
    <3>. QED BY <3>1 DEF MemoOutcome, MemoRow, Failure, Success, Reply
  <2>2. Failure("db") \in Reply
    BY DEF Failure, Reply
  <2>. QED BY Zenon, <1>5, <2>1, <2>2 DEF TypeOK, PrecheckHit, Recheck, Answer, Goto, db
<1>6. ASSUME NEW c \in Clients, PrecheckMiss(c) \/ TxKeyTaken(c) PROVE TypeOK'
  BY Zenon, <1>6 DEF TypeOK, PrecheckMiss, TxKeyTaken, Goto, db, Running
<1>7. ASSUME NEW c \in Clients, TxCommit(c) PROVE TypeOK'
  <2>1. EventOf(c) \in Event
    BY Zenon, EventOfType
  <2>2. RowAfter(c) \in Row
    BY NextValueType DEF TypeOK, RowAfter, InsertValue, Row, Request
  <2>3. counter' \in [Tenants -> Row]
    BY Zenon, <1>7, <2>2 DEF TypeOK, TxCommit
  <2>4. memo' \in [Tenants -> [Keys -> MemoRow]]
    <3>1. [op |-> req[c].op, value |-> EventOf(c).value, version |-> EventOf(c).version]
            \in MemoRow
      BY Zenon, <2>1 DEF TypeOK, Event, MemoRow, Request
    <3>. QED BY Zenon, <1>7, <3>1 DEF TypeOK, TxCommit
  <2>5. outbox' \in Seq(Event)
    BY Zenon, <1>7, <2>1, AppendFacts DEF TypeOK, TxCommit
  <2>6. Success(EventOf(c).value, EventOf(c).version) \in Reply
    BY Zenon, <2>1 DEF Event, Success, Reply
  <2>. QED BY Zenon, <1>7, <2>3, <2>4, <2>5, <2>6 DEF TypeOK, TxCommit, Answer, Goto
<1>8. ASSUME NEW c \in Clients, TxCasRetry(c) PROVE TypeOK'
  BY <1>8 DEF TypeOK, TxCasRetry, Goto, db, Running
<1>9. ASSUME NEW c \in Clients, TxCasGiveUp(c) \/ DbError(c) PROVE TypeOK'
  <2>1. Failure("cas") \in Reply /\ Failure("db") \in Reply
    BY DEF Failure, Reply
  <2>. QED BY Zenon, <1>9, <2>1 DEF TypeOK, TxCasGiveUp, DbError, Answer, Goto, db
<1>10. ASSUME NEW c \in Clients, Leave(c) PROVE TypeOK'
  BY <1>10 DEF TypeOK, Leave, Goto, db, NoRow, NoReply, Row, Reply
<1>. QED
  BY Zenon, <1>1, <1>2, <1>3, <1>4, <1>5, <1>6, <1>7, <1>8, <1>9, <1>10 DEF Next, Step
\* The type invariant of the service.
THEOREM TypeCorrect == Spec => []TypeOK
  BY InitType, NextType, PTL DEF Spec
-----------------------------------------------------------------------------
\* A step that writes no table keeps every fact about the tables alone.
LEMMA QuietDb == DbInv /\ UNCHANGED db => DbInv'
  BY DEF DbInv, OutboxOrdered, OutboxChain, OutboxMatchesCounter, KeyAppliedOnce,
         KeysRemembered, RequestAppliedOnce, db

\* The heart of the argument.  COMMIT finds the version that was loaded, so
\* the row that was loaded is the row that is there: the event built from the
\* loaded row describes the row the UPDATE writes.
LEMMA CommitAgrees ==
  ASSUME IInv, NEW c \in Clients, TxCommit(c)
  PROVE  /\ EventOf(c).tenant = req[c].tenant
         /\ EventOf(c).op = req[c].op
         /\ EventOf(c).key = req[c].key
         /\ EventOf(c).request = req[c].id
         /\ EventOf(c).version = counter[req[c].tenant].version + 1
         /\ EventOf(c).value = NextValue(req[c].op, counter[req[c].tenant].value)
         /\ EventOf(c).delta = EventOf(c).value - counter[req[c].tenant].value
         /\ RowAfter(c) = [value |-> EventOf(c).value, version |-> EventOf(c).version]
<1>. DEFINE row == counter[req[c].tenant]
<1>1. req[c] \in Request /\ seen[c] \in Row /\ row \in Row
  BY Zenon DEF IInv, TypeOK, Request
<1>2. seen[c].version = row.version /\ seen[c].value = row.value
  BY Zenon DEF IInv, TaskInv, SeenIsPast, TxCommit, CasMatches, Running
<1>3. row.version = 0 => row.value = 0
  BY Zenon, <1>1 DEF IInv, DbInv, OutboxMatchesCounter, Request
<1>4. RowAfter(c) = [value |-> EventOf(c).value, version |-> EventOf(c).version]
  BY <1>1, <1>2, <1>3 DEF EventOf, RowAfter, InsertValue, NextValue, Row
<1>5. EventOf(c).delta = EventOf(c).value - row.value
  BY Zenon, <1>1, <1>2 DEF EventOf, NextValue, Row
<1>. QED
  BY Zenon, <1>1, <1>2, <1>4, <1>5 DEF EventOf

\* COMMIT keeps every fact about the tables.
LEMMA CommitDb ==
  ASSUME IInv, NEW c \in Clients, TxCommit(c)
  PROVE  DbInv'
<1>. DEFINE t == req[c].tenant  e == EventOf(c)  n == Len(outbox)
<1>1. /\ req[c] \in Request /\ t \in Tenants /\ counter[t] \in Row
      /\ outbox \in Seq(Event) /\ counter \in [Tenants -> Row]
      /\ memo \in [Tenants -> [Keys -> MemoRow]]
  BY Zenon DEF IInv, TypeOK, Request
<1>2. e \in Event
  BY Zenon, EventOfType DEF IInv
<1>3. /\ n \in Nat /\ Len(outbox') = n + 1 /\ outbox'[n + 1] = e
      /\ \A i \in 1..n : outbox'[i] = outbox[i] /\ outbox[i] \in Event
  BY <1>1, <1>2, AppendFacts DEF TxCommit
<1>4. counter' = [counter EXCEPT ![t] = [value |-> e.value, version |-> e.version]]
  BY Zenon, CommitAgrees DEF TxCommit
<1>5. /\ e.tenant = t /\ e.version = counter[t].version + 1
      /\ e.value = NextValue(e.op, counter[t].value)
      /\ e.delta = e.value - counter[t].value
      /\ e.op = req[c].op /\ e.key = req[c].key /\ e.request = req[c].id
  BY Zenon, CommitAgrees
<1>6. OutboxMatchesCounter
  BY Zenon DEF IInv, DbInv
<1>. HIDE DEF t, e, n
<1>7. OutboxOrdered'
  <2>. SUFFICES ASSUME NEW i \in 1..(n + 1), NEW j \in 1..(n + 1), i < j,
                       outbox'[i].tenant = outbox'[j].tenant
                PROVE  outbox'[i].version < outbox'[j].version
    BY Zenon, <1>3 DEF OutboxOrdered
  <2>1. CASE j \in 1..n
    <3>1. i \in 1..n
      BY <1>3, <2>1
    <3>. QED BY Zenon, <1>3, <2>1, <3>1 DEF IInv, DbInv, OutboxOrdered, n
  <2>2. CASE j = n + 1
    <3>1. i \in 1..n /\ outbox'[i] = outbox[i] /\ outbox[i].version \in Nat
      BY <1>3, <2>2 DEF Event
    <3>2. outbox[i].version <= counter[t].version
      BY Zenon, <1>1, <1>3, <1>5, <1>6, <2>2, <3>1 DEF OutboxMatchesCounter, n
    <3>. QED BY <1>1, <1>3, <1>5, <2>2, <3>1, <3>2 DEF Row
  <2>. QED BY <1>3, <2>1, <2>2
<1>8. OutboxChain'
  <2>. DEFINE Continues(o, i, j) ==
         /\ o[j].tenant = o[i].tenant
         /\ o[i].version = o[j].version + 1
         /\ o[i].value = NextValue(o[i].op, o[j].value)
         /\ o[i].delta = o[i].value - o[j].value
       Starts(o, i) ==
         /\ o[i].version = 1
         /\ o[i].value = NextValue(o[i].op, 0)
         /\ o[i].delta = o[i].value
  <2>. SUFFICES ASSUME NEW i \in 1..(n + 1)
                PROVE  \/ Starts(outbox', i)
                       \/ \E j \in 1..(n + 1) : j < i /\ Continues(outbox', i, j)
    BY <1>3 DEF OutboxChain
  <2>1. CASE i \in 1..n
    <3>1. \/ Starts(outbox, i)
          \/ \E j \in 1..n : j < i /\ Continues(outbox, i, j)
      BY Zenon, <2>1 DEF IInv, DbInv, OutboxChain, n
    <3>. QED BY <1>3, <2>1, <3>1
  <2>2. CASE i = n + 1 /\ counter[t].version = 0
    <3>1. counter[t].value = 0
      BY Zenon, <1>1, <1>6, <2>2 DEF OutboxMatchesCounter
    <3>. QED BY <1>2, <1>3, <1>5, <2>2, <3>1 DEF Event
  <2>3. CASE i = n + 1 /\ counter[t].version # 0
    <3>1. PICK j \in 1..n : /\ outbox[j].tenant = t
                            /\ outbox[j].version = counter[t].version
                            /\ outbox[j].value = counter[t].value
      <4>1. counter[t].version > 0
        BY <1>1, <2>3 DEF Row
      <4>. QED BY Zenon, <1>1, <1>6, <4>1 DEF OutboxMatchesCounter, n
    <3>2. Continues(outbox', n + 1, j)
      BY Zenon, <1>3, <1>5, <3>1
    <3>. QED BY <1>3, <2>3, <3>1, <3>2
  <2>. QED BY <1>3, <2>1, <2>2, <2>3
<1>9. OutboxMatchesCounter'
  <2>. SUFFICES ASSUME NEW u \in Tenants
                PROVE  /\ counter'[u].version = 0 => counter'[u].value = 0
                       /\ \A i \in 1..(n + 1) : outbox'[i].tenant = u =>
                            outbox'[i].version <= counter'[u].version
                       /\ counter'[u].version > 0 => \E i \in 1..(n + 1) :
                            /\ outbox'[i].tenant = u
                            /\ outbox'[i].version = counter'[u].version
                            /\ outbox'[i].value = counter'[u].value
    BY Zenon, <1>3 DEF OutboxMatchesCounter
  <2>1. CASE u = t
    <3>1. counter'[u].version = e.version /\ counter'[u].value = e.value
      BY Zenon, <1>1, <1>4, <2>1
    <3>2. e.version \in Nat /\ e.version > 0 /\ counter[t].version \in Nat
      BY <1>1, <1>5 DEF Row
    <3>3. \A i \in 1..n : outbox[i].tenant = t =>
            outbox[i].version \in Nat /\ outbox[i].version <= counter[t].version
      BY Zenon, <1>1, <1>3, <1>6 DEF OutboxMatchesCounter, Event, n
    <3>4. \A i \in 1..(n + 1) : i \in 1..n \/ i = n + 1
      BY <1>3
    <3>5. n + 1 \in 1..(n + 1)
      BY <1>3
    <3>. QED BY <1>3, <1>5, <2>1, <3>1, <3>2, <3>3, <3>4, <3>5
  <2>2. CASE u # t
    <3>1. counter'[u] = counter[u]
      BY Zenon, <1>1, <1>4, <2>2
    <3>2. \A i \in 1..(n + 1) : outbox'[i].tenant = u => i \in 1..n
      BY <1>3, <1>5, <2>2
    <3>3. 1..n \subseteq 1..(n + 1)
      BY <1>3
    <3>. QED BY <1>3, <1>6, <3>1, <3>2, <3>3 DEF OutboxMatchesCounter, n
  <2>. QED BY Zenon, <2>1, <2>2
<1>10. ~Remembered(c) /\ memo' = IF req[c].key = NoKey THEN memo
         ELSE [memo EXCEPT ![t][req[c].key] =
                 [op |-> req[c].op, value |-> e.value, version |-> e.version]]
  BY Zenon DEF TxCommit, t, e
<1>11. \A u \in Tenants, k \in Keys : memo'[u][k] =
         IF u = t /\ k = req[c].key
         THEN [op |-> req[c].op, value |-> e.value, version |-> e.version]
         ELSE memo[u][k]
  BY Zenon, <1>1, <1>10, NoKeyAssumption
<1>12. \A i \in 1..n : ~(/\ req[c].key # NoKey
                        /\ outbox[i].tenant = t /\ outbox[i].key = req[c].key)
  BY Zenon, <1>10 DEF IInv, DbInv, KeysRemembered, Remembered, t, n
<1>13. \A i \in 1..(n + 1) : i \in 1..n \/ i = n + 1
  BY <1>3
<1>14. KeyAppliedOnce'
  <2>1. \A i, j \in 1..(n + 1) :
          /\ outbox'[i].key # NoKey
          /\ outbox'[i].key = outbox'[j].key
          /\ outbox'[i].tenant = outbox'[j].tenant
          => i = j
    BY <1>3, <1>5, <1>12, <1>13 DEF IInv, DbInv, KeyAppliedOnce, n
  <2>2. ASSUME NEW u \in Tenants, NEW k \in Keys, memo'[u][k].op # "none"
        PROVE  \E i \in 1..(n + 1) :
                 /\ outbox'[i].tenant = u
                 /\ outbox'[i].key = k
                 /\ outbox'[i].op = memo'[u][k].op
                 /\ outbox'[i].value = memo'[u][k].value
                 /\ outbox'[i].version = memo'[u][k].version
    <3>1. CASE u = t /\ k = req[c].key
      <4>1. n + 1 \in 1..(n + 1)
        BY <1>3
      <4>. QED BY <1>3, <1>5, <1>11, <3>1, <4>1
    <3>2. CASE ~(u = t /\ k = req[c].key)
      <4>1. memo'[u][k] = memo[u][k]
        BY Zenon, <1>11, <3>2
      <4>2. PICK i \in 1..n :
              /\ outbox[i].tenant = u
              /\ outbox[i].key = k
              /\ outbox[i].op = memo[u][k].op
              /\ outbox[i].value = memo[u][k].value
              /\ outbox[i].version = memo[u][k].version
        BY <2>2, <4>1 DEF IInv, DbInv, KeyAppliedOnce, n
      <4>. QED BY <1>3, <4>1, <4>2
    <3>. QED BY Zenon, <3>1, <3>2
  <2>. QED BY <1>3, <2>1, <2>2 DEF KeyAppliedOnce
<1>15. KeysRemembered'
  <2>. SUFFICES ASSUME NEW i \in 1..(n + 1), outbox'[i].key # NoKey
                PROVE  memo'[outbox'[i].tenant][outbox'[i].key].op # "none"
    BY Zenon, <1>3 DEF KeysRemembered
  <2>1. outbox'[i] \in Event
    BY Zenon, <1>2, <1>3, <1>13
  <2>2. outbox'[i].tenant \in Tenants /\ outbox'[i].key \in Keys
    BY Zenon, <2>1 DEF Event
  <2>3. req[c].op # "none"
    BY Zenon, <1>1 DEF Request, Ops
  <2>4. i \in 1..n => memo[outbox'[i].tenant][outbox'[i].key].op # "none"
    BY Zenon, <1>3 DEF IInv, DbInv, KeysRemembered, n
  <2>5. i = n + 1 => outbox'[i].tenant = t /\ outbox'[i].key = req[c].key
    BY Zenon, <1>3, <1>5
  <2>. QED BY <1>11, <1>13, <2>2, <2>3, <2>4, <2>5
<1>16. RequestAppliedOnce'
  <2>1. \A i \in 1..n : outbox[i].request # e.request
    BY Zenon, <1>5 DEF IInv, TaskInv, RequestsNumbered, TxCommit, Running, n
  <2>. QED BY Zenon, <1>3, <1>13, <2>1 DEF IInv, DbInv, RequestAppliedOnce, n
<1>. QED BY Zenon, <1>7, <1>8, <1>9, <1>14, <1>15, <1>16 DEF DbInv

-----------------------------------------------------------------------------
\* COMMIT keeps every fact about the tasks: the version moves past whatever
\* the other tasks have loaded.
LEMMA CommitTask ==
  ASSUME IInv, NEW c \in Clients, TxCommit(c)
  PROVE  TaskInv'
<1>. DEFINE t == req[c].tenant  e == EventOf(c)  n == Len(outbox)
<1>1. /\ \A d \in Clients : req[d] \in Request /\ seen[d] \in Row /\ retries[d] \in 0..MAX_RETRIES
      /\ counter \in [Tenants -> Row] /\ outbox \in Seq(Event) /\ issued \in Nat
      /\ pc \in [Clients -> Running \cup {"idle", "done"}]
      /\ reply \in [Clients -> Reply]
  BY RequestsAssumption DEF IInv, TypeOK
<1>2. /\ e \in Event /\ t \in Tenants
  BY Zenon, <1>1, EventOfType DEF IInv, Request
<1>3. /\ n \in Nat /\ Len(outbox') = n + 1 /\ outbox'[n + 1] = e
      /\ \A i \in 1..n : outbox'[i] = outbox[i] /\ outbox[i] \in Event
  BY <1>1, <1>2, AppendFacts DEF TxCommit
<1>4. counter' = [counter EXCEPT ![t] = [value |-> e.value, version |-> e.version]]
  BY Zenon, CommitAgrees DEF TxCommit
<1>5. /\ e.tenant = t /\ e.version = counter[t].version + 1
      /\ e.op = req[c].op /\ e.key = req[c].key /\ e.request = req[c].id
  BY Zenon, CommitAgrees
<1>6. /\ pc' = [pc EXCEPT ![c] = "done"] /\ pc[c] = "tx"
      /\ reply' = [reply EXCEPT ![c] = Success(e.value, e.version)]
      /\ UNCHANGED <<req, retries, seen, issued>>
  BY Zenon DEF TxCommit, Answer, Goto
<1>7. \A u \in Tenants : counter[u].version \in Nat /\ counter[u].version <= counter'[u].version
      /\ counter'[u].version \in Nat
      /\ (counter'[u] = counter[u] \/ counter[u].version < counter'[u].version)
  BY <1>1, <1>2, <1>4, <1>5 DEF Row
<1>8. \A d \in Clients : req[d].tenant \in Tenants /\ seen[d].version \in Nat
      /\ retries[d] \in Nat /\ req[d].id \in Nat
  BY <1>1, RetriesAssumption DEF Request, Row
<1>9. \A d \in Clients : pc'[d] \in Running => d # c /\ pc[d] \in Running /\ pc'[d] = pc[d]
  BY Zenon, <1>1, <1>6 DEF Running
<1>10. \A i \in 1..(n + 1) : i \in 1..n \/ i = n + 1
  BY <1>3
<1>. HIDE DEF t, e, n
<1>11. SeenIsPast'
  BY <1>6, <1>7, <1>8, <1>9 DEF IInv, TaskInv, SeenIsPast
<1>12. RequestsNumbered'
  <2>1. /\ \A d \in Clients : req'[d].id <= issued'
        /\ \A d, f \in Clients : d # f /\ pc'[f] \in Running => req'[d].id # req'[f].id
    BY Zenon, <1>6, <1>9 DEF IInv, TaskInv, RequestsNumbered
  <2>2. \A i \in 1..(n + 1) : outbox'[i].request <= issued'
    BY Zenon, <1>3, <1>5, <1>6, <1>10 DEF IInv, TaskInv, RequestsNumbered, n
  <2>3. \A d \in Clients, i \in 1..(n + 1) :
          pc'[d] \in Running => outbox'[i].request # req'[d].id
    BY <1>3, <1>5, <1>6, <1>9, <1>10 DEF IInv, TaskInv, RequestsNumbered, n
  <2>. QED BY Zenon, <1>3, <2>1, <2>2, <2>3 DEF RequestsNumbered
<1>13. RetriesPaid'
  BY <1>6, <1>7, <1>8, <1>9 DEF IInv, TaskInv, RetriesPaid, Running
<1>14. ReplyIsBacked'
  <2>. SUFFICES ASSUME NEW d \in Clients, pc'[d] = "done"
                PROVE  /\ reply'[d].kind = "ok" =>
                            \E i \in 1..(n + 1) :
                              /\ outbox'[i].tenant = req'[d].tenant
                              /\ outbox'[i].op = req'[d].op
                              /\ outbox'[i].value = reply'[d].value
                              /\ outbox'[i].version = reply'[d].version
                              /\ \/ outbox'[i].request = req'[d].id
                                 \/ req'[d].key # NoKey /\ outbox'[i].key = req'[d].key
                       /\ reply'[d].kind \in {"conflict", "cas", "db"} =>
                            \A i \in 1..(n + 1) : outbox'[i].request # req'[d].id
    BY <1>3 DEF ReplyIsBacked
  <2>1. CASE d = c
    <3>1. reply'[d] = Success(e.value, e.version)
      BY Zenon, <1>1, <1>6, <2>1
    <3>2. n + 1 \in 1..(n + 1)
      BY <1>3
    <3>3. t = req[c].tenant
      BY Zenon DEF t
    <3>4. reply'[c].kind = "ok" /\ reply'[c].value = e.value /\ reply'[c].version = e.version
      BY <2>1, <3>1 DEF Success
    <3>5. req'[c] = req[c] /\ outbox'[n + 1] = e
      BY Zenon, <1>3, <1>6
    <3>. QED BY Zenon, <1>5, <2>1, <3>2, <3>3, <3>4, <3>5
  <2>2. CASE d # c
    <3>1. pc[d] = "done" /\ reply'[d] = reply[d] /\ req'[d] = req[d]
      BY Zenon, <1>1, <1>6, <2>2
    <3>2. reply[d].kind = "ok" =>
            \E i \in 1..n :
              /\ outbox[i].tenant = req[d].tenant
              /\ outbox[i].op = req[d].op
              /\ outbox[i].value = reply[d].value
              /\ outbox[i].version = reply[d].version
              /\ \/ outbox[i].request = req[d].id
                 \/ req[d].key # NoKey /\ outbox[i].key = req[d].key
      BY Zenon, <3>1 DEF IInv, TaskInv, ReplyIsBacked, n
    <3>3. reply[d].kind \in {"conflict", "cas", "db"} =>
            \A i \in 1..n : outbox[i].request # req[d].id
      BY Zenon, <3>1 DEF IInv, TaskInv, ReplyIsBacked, n
    <3>4. req[d].id # e.request
      BY Zenon, <1>5, <1>6, <2>2 DEF IInv, TaskInv, RequestsNumbered, Running
    <3>5. 1..n \subseteq 1..(n + 1)
      BY <1>3
    <3>. QED BY Zenon, <1>3, <1>10, <3>1, <3>2, <3>3, <3>4, <3>5
  <2>. QED BY Zenon, <2>1, <2>2
<1>15. GivesUpOnlyUnderContention'
  <2>. SUFFICES ASSUME NEW d \in Clients, pc'[d] = "done", reply'[d].kind = "cas"
                PROVE  counter'[req'[d].tenant].version > MAX_RETRIES
    BY Zenon DEF GivesUpOnlyUnderContention
  <2>1. d # c /\ pc[d] = "done" /\ reply[d].kind = "cas"
    BY Zenon, <1>1, <1>6 DEF Success
  <2>2. counter[req[d].tenant].version > MAX_RETRIES
    BY Zenon, <2>1 DEF IInv, TaskInv, GivesUpOnlyUnderContention
  <2>. QED BY <1>6, <1>7, <1>8, <2>2, RetriesAssumption
<1>. QED BY Zenon, <1>11, <1>12, <1>13, <1>14, <1>15 DEF TaskInv

\* The facts about one task, gathered: what TaskInv says of it apart from the
\* numbering of requests.
SeenOK(c) ==
  pc[c] \in Running \ {"load"} =>
    /\ seen[c].version <= counter[req[c].tenant].version
    /\ seen[c].version = counter[req[c].tenant].version =>
         seen[c].value = counter[req[c].tenant].value

RetriesOK(c) ==
  /\ pc[c] = "idle" => retries[c] = 0
  /\ pc[c] = "load" => retries[c] <= counter[req[c].tenant].version
  /\ pc[c] \in Running \ {"load"} => retries[c] <= seen[c].version

Backs(i, c) ==
  /\ outbox[i].tenant = req[c].tenant
  /\ outbox[i].op = req[c].op
  /\ outbox[i].value = reply[c].value
  /\ outbox[i].version = reply[c].version
  /\ \/ outbox[i].request = req[c].id
     \/ req[c].key # NoKey /\ outbox[i].key = req[c].key

ReplyOK(c) ==
  pc[c] = "done" =>
    /\ reply[c].kind = "ok" => \E i \in 1..Len(outbox) : Backs(i, c)
    /\ reply[c].kind \in {"conflict", "cas", "db"} =>
         \A i \in 1..Len(outbox) : outbox[i].request # req[c].id
    /\ reply[c].kind = "cas" => counter[req[c].tenant].version > MAX_RETRIES

TasksOK == \A c \in Clients : SeenOK(c) /\ RetriesOK(c) /\ ReplyOK(c)

\* TaskInv, task by task.
LEMMA TaskInvSplit == TaskInv <=> RequestsNumbered /\ TasksOK
<1>1. SeenIsPast <=> \A c \in Clients : SeenOK(c)
  BY Zenon DEF SeenIsPast, SeenOK
<1>2. RetriesPaid <=> \A c \in Clients : RetriesOK(c)
  BY Zenon DEF RetriesPaid, RetriesOK
<1>3. ReplyIsBacked /\ GivesUpOnlyUnderContention <=> \A c \in Clients : ReplyOK(c)
  BY Zenon DEF ReplyIsBacked, GivesUpOnlyUnderContention, ReplyOK, Backs
<1>. QED BY Zenon, <1>1, <1>2, <1>3 DEF TaskInv, TasksOK

\* A step of task c that writes no table and starts no request has to account
\* for task c only.
LEMMA LocalStep ==
  ASSUME TaskInv, NEW c \in Clients, UNCHANGED <<counter, memo, outbox, req, issued>>,
         \A d \in Clients \ {c} : /\ pc'[d] = pc[d] /\ seen'[d] = seen[d]
                                  /\ retries'[d] = retries[d] /\ reply'[d] = reply[d],
         pc'[c] \in Running => pc[c] \in Running,
         SeenOK(c)', RetriesOK(c)', ReplyOK(c)'
  PROVE  TaskInv'
<1>0. RequestsNumbered /\ \A d \in Clients : SeenOK(d) /\ RetriesOK(d) /\ ReplyOK(d)
  BY Zenon, TaskInvSplit DEF TasksOK
<1>1. RequestsNumbered'
  BY Zenon, <1>0 DEF RequestsNumbered
<1>2. ASSUME NEW d \in Clients, d # c
      PROVE  SeenOK(d)' /\ RetriesOK(d)' /\ ReplyOK(d)'
  <2>1. pc'[d] = pc[d] /\ seen'[d] = seen[d] /\ retries'[d] = retries[d] /\ reply'[d] = reply[d]
    BY Zenon, <1>2
  <2>2. SeenOK(d)'
    BY Zenon, <1>0, <2>1 DEF SeenOK
  <2>3. RetriesOK(d)'
    BY Zenon, <1>0, <2>1 DEF RetriesOK
  <2>4. ReplyOK(d)'
    <3>1. \A i \in 1..Len(outbox) : Backs(i, d) => Backs(i, d)'
      BY Zenon, <2>1 DEF Backs
    <3>2. ReplyOK(d)
      BY Zenon, <1>0
    <3>3. counter' = counter /\ outbox' = outbox /\ req' = req
      BY Zenon
    <3>. QED BY Zenon, <2>1, <3>1, <3>2, <3>3 DEF ReplyOK
  <2>. QED BY Zenon, <2>2, <2>3, <2>4
<1>3. TasksOK'
  BY Zenon, <1>2 DEF TasksOK
<1>. QED BY <1>1, <1>3, TaskInvSplit, PTL

\* The types a step of one task relies on.
LEMMA TaskTypes ==
  ASSUME TypeOK
  PROVE  /\ pc \in [Clients -> Running \cup {"idle", "done"}]
         /\ req \in [Clients -> Request] /\ retries \in [Clients -> 0..MAX_RETRIES]
         /\ seen \in [Clients -> Row] /\ reply \in [Clients -> Reply]
         /\ issued \in Nat /\ MAX_RETRIES \in Nat
         /\ \A d \in Clients : /\ req[d].tenant \in Tenants /\ req[d].id \in Nat
                               /\ seen[d].version \in Nat /\ retries[d] \in Nat
                               /\ counter[req[d].tenant].version \in Nat
         /\ \A i \in 1..Len(outbox) : outbox[i].request \in Nat
<1>1. /\ pc \in [Clients -> Running \cup {"idle", "done"}]
      /\ req \in [Clients -> Request] /\ retries \in [Clients -> 0..MAX_RETRIES]
      /\ seen \in [Clients -> Row] /\ reply \in [Clients -> Reply]
      /\ issued \in Nat /\ counter \in [Tenants -> Row] /\ outbox \in Seq(Event)
  BY RequestsAssumption DEF TypeOK
<1>2. \A d \in Clients : req[d] \in Request /\ seen[d] \in Row /\ retries[d] \in 0..MAX_RETRIES
  BY Zenon, <1>1
<1>3. \A d \in Clients : req[d].tenant \in Tenants /\ req[d].id \in Nat
  BY Zenon, <1>2 DEF Request
<1>4. \A d \in Clients : seen[d].version \in Nat /\ retries[d] \in Nat
  BY <1>2, RetriesAssumption DEF Row
<1>5. \A u \in Tenants : counter[u].version \in Nat
  BY Zenon, <1>1 DEF Row
<1>6. \A i \in 1..Len(outbox) : outbox[i] \in Event
  BY <1>1
<1>7. \A i \in 1..Len(outbox) : outbox[i].request \in Nat
  BY Zenon, <1>6 DEF Event
<1>. QED BY Zenon, <1>1, <1>3, <1>4, <1>5, <1>7, RetriesAssumption

\* A running task that returns a backed result keeps the facts about tasks.
LEMMA AnswerTask ==
  ASSUME IInv, NEW c \in Clients, pc[c] \in Running, UNCHANGED db,
         pc' = [pc EXCEPT ![c] = "done"], UNCHANGED <<req, retries, seen, issued>>,
         \A d \in Clients \ {c} : reply'[d] = reply[d],
         reply'[c].kind = "ok" => \E i \in 1..Len(outbox) : Backs(i, c)',
         reply'[c].kind = "cas" => counter[req[c].tenant].version > MAX_RETRIES
  PROVE  TaskInv'
<1>1. pc'[c] = "done" /\ pc'[c] \notin Running /\ \A d \in Clients \ {c} : pc'[d] = pc[d]
  BY Zenon, TaskTypes DEF IInv, Running
<1>2. counter' = counter /\ outbox' = outbox /\ memo' = memo
  BY Zenon DEF db
<1>3. \A i \in 1..Len(outbox) : outbox[i].request # req[c].id
  BY Zenon DEF IInv, TaskInv, RequestsNumbered
<1>4. SeenOK(c)' /\ RetriesOK(c)'
  BY Zenon, <1>1 DEF SeenOK, RetriesOK, Running
<1>5. ReplyOK(c)'
  BY Zenon, <1>1, <1>2, <1>3 DEF ReplyOK
<1>6. TaskInv
  BY Zenon DEF IInv
<1>. QED BY Zenon, <1>1, <1>2, <1>4, <1>5, <1>6, LocalStep

\* Starting a request keeps the facts about tasks: its number is fresh.
LEMMA CallTask ==
  ASSUME IInv, NEW c \in Clients, NEW t \in Tenants, NEW op \in Ops,
         NEW k \in Keys \cup {NoKey}, Call(c, t, op, k)
  PROVE  TaskInv'
<1>1. /\ pc[c] = "idle" /\ pc' = [pc EXCEPT ![c] = "load"] /\ issued' = issued + 1
      /\ req' = [req EXCEPT ![c] =
                   [id |-> issued + 1, tenant |-> t, op |-> op, key |-> k]]
      /\ UNCHANGED <<counter, memo, outbox, retries, seen, reply>>
  BY Zenon DEF Call, Goto, db
<1>2. /\ pc'[c] = "load" /\ req'[c].id = issued + 1 /\ req'[c].tenant = t
      /\ \A d \in Clients \ {c} : req'[d] = req[d] /\ pc'[d] = pc[d]
  BY Zenon, <1>1, TaskTypes DEF IInv
<1>3. RequestsNumbered /\ \A d \in Clients : SeenOK(d) /\ RetriesOK(d) /\ ReplyOK(d)
  BY Zenon, TaskInvSplit DEF IInv, TasksOK
<1>4. /\ issued \in Nat /\ counter[t].version \in Nat
      /\ \A d \in Clients : req[d].id \in Nat
      /\ \A i \in 1..Len(outbox) : outbox[i].request \in Nat
  BY Zenon, TaskTypes DEF IInv, TypeOK, Row
<1>5. RequestsNumbered'
  <2>1. /\ \A d \in Clients : req[d].id <= issued
        /\ \A i \in 1..Len(outbox) : outbox[i].request <= issued
    BY Zenon, <1>3 DEF RequestsNumbered
  <2>2. \A d \in Clients : req'[d].id <= issued'
    BY <1>1, <1>2, <1>4, <2>1
  <2>3. ASSUME NEW d \in Clients, NEW f \in Clients, d # f, pc'[f] \in Running
        PROVE  req'[d].id # req'[f].id
    <3>1. CASE f = c
      BY <1>2, <1>4, <2>1, <2>3, <3>1
    <3>2. CASE f # c
      <4>1. req[d].id # req[f].id
        BY Zenon, <1>2, <1>3, <2>3, <3>2 DEF RequestsNumbered
      <4>. QED BY <1>2, <1>4, <2>1, <2>3, <3>2, <4>1
    <3>. QED BY Zenon, <3>1, <3>2
  <2>4. \A i \in 1..Len(outbox) : outbox[i].request <= issued'
    BY <1>1, <1>4, <2>1
  <2>5. ASSUME NEW d \in Clients, NEW i \in 1..Len(outbox), pc'[d] \in Running
        PROVE  outbox[i].request # req'[d].id
    <3>1. CASE d = c
      BY <1>2, <1>4, <2>1, <3>1
    <3>2. CASE d # c
      BY Zenon, <1>2, <1>3, <2>5, <3>2 DEF RequestsNumbered
    <3>. QED BY Zenon, <3>1, <3>2
  <2>. QED BY Zenon, <1>1, <2>2, <2>3, <2>4, <2>5 DEF RequestsNumbered
<1>6. ASSUME NEW d \in Clients PROVE SeenOK(d)' /\ RetriesOK(d)' /\ ReplyOK(d)'
  <2>1. CASE d = c
    <3>1. retries[c] = 0
      BY Zenon, <1>1, <1>3 DEF RetriesOK
    <3>2. retries'[c] <= counter'[req'[c].tenant].version
      BY <1>1, <1>2, <1>4, <3>1
    <3>3. SeenOK(c)' /\ ReplyOK(c)'
      BY Zenon, <1>2 DEF SeenOK, ReplyOK
    <3>4. RetriesOK(c)'
      BY Zenon, <1>2, <3>2 DEF RetriesOK
    <3>. QED BY Zenon, <2>1, <3>3, <3>4
  <2>2. CASE d # c
    <3>1. SeenOK(d)'
      BY Zenon, <1>1, <1>2, <1>3, <2>2 DEF SeenOK
    <3>2. RetriesOK(d)'
      BY Zenon, <1>1, <1>2, <1>3, <2>2 DEF RetriesOK
    <3>3. ReplyOK(d)'
      <4>1. /\ pc'[d] = pc[d] /\ reply'[d] = reply[d] /\ req'[d] = req[d]
            /\ counter' = counter /\ outbox' = outbox
        BY Zenon, <1>1, <1>2, <2>2
      <4>2. \A i \in 1..Len(outbox) : Backs(i, d) => Backs(i, d)'
        BY Zenon, <4>1 DEF Backs
      <4>. QED BY Zenon, <1>3, <4>1, <4>2 DEF ReplyOK
    <3>. QED BY Zenon, <3>1, <3>2, <3>3
  <2>. QED BY Zenon, <2>1, <2>2
<1>7. TasksOK'
  BY Zenon, <1>6 DEF TasksOK
<1>. QED BY <1>5, <1>7, TaskInvSplit, PTL

\* A step inside the retry loop, or leaving it without a result, keeps the
\* facts about tasks.
LEMMA LoopTask ==
  ASSUME IInv, NEW c \in Clients,
         Load(c) \/ PrecheckMiss(c) \/ TxKeyTaken(c) \/ TxCasRetry(c) \/ Leave(c)
  PROVE  TaskInv'
<1>0. TypeOK /\ TaskInv /\ SeenOK(c) /\ RetriesOK(c)
  BY Zenon, TaskInvSplit DEF IInv, TasksOK
<1>1. UNCHANGED <<counter, memo, outbox, req, issued>>
  BY Zenon DEF Load, PrecheckMiss, TxKeyTaken, TxCasRetry, Leave, db
<1>2. \A d \in Clients \ {c} : /\ pc'[d] = pc[d] /\ seen'[d] = seen[d]
                               /\ retries'[d] = retries[d] /\ reply'[d] = reply[d]
  BY Zenon, <1>0, TaskTypes DEF Load, PrecheckMiss, TxKeyTaken, TxCasRetry, Leave, Goto
<1>3. CASE Load(c)
  <2>1. pc[c] = "load" /\ pc'[c] = "precheck" /\ seen'[c] = counter[req[c].tenant]
        /\ retries'[c] = retries[c]
    BY Zenon, <1>0, <1>3, TaskTypes DEF Load, Goto
  <2>2. /\ seen'[c].version = counter'[req'[c].tenant].version
        /\ seen'[c].value = counter'[req'[c].tenant].value
        /\ seen'[c].version \in Nat /\ retries'[c] <= seen'[c].version
    BY Zenon, <1>0, <1>1, <2>1, TaskTypes DEF RetriesOK
  <2>3. SeenOK(c)' /\ RetriesOK(c)' /\ ReplyOK(c)'
    BY <2>1, <2>2 DEF SeenOK, RetriesOK, ReplyOK
  <2>. QED BY Zenon, <1>0, <1>1, <1>2, <2>1, <2>3, LocalStep DEF Running
<1>4. CASE PrecheckMiss(c) \/ TxKeyTaken(c)
  <2>1. /\ pc[c] \in {"precheck", "tx"} /\ pc'[c] \in {"tx", "recheck"}
        /\ seen'[c] = seen[c] /\ retries'[c] = retries[c]
    BY Zenon, <1>0, <1>4, TaskTypes DEF PrecheckMiss, TxKeyTaken, Goto
  <2>2. SeenOK(c)' /\ RetriesOK(c)' /\ ReplyOK(c)'
    BY Zenon, <1>0, <1>1, <2>1 DEF SeenOK, RetriesOK, ReplyOK, Running
  <2>. QED BY Zenon, <1>0, <1>1, <1>2, <2>1, <2>2, LocalStep DEF Running
<1>5. CASE TxCasRetry(c)
  <2>1. /\ pc[c] = "tx" /\ pc'[c] = "load" /\ retries'[c] = retries[c] + 1
        /\ seen[c].version # counter[req[c].tenant].version
    BY Zenon, <1>0, <1>5, TaskTypes DEF TxCasRetry, Goto, CasMatches
  <2>2. /\ seen[c].version <= counter[req[c].tenant].version
        /\ retries[c] <= seen[c].version
    BY Zenon, <1>0, <2>1 DEF SeenOK, RetriesOK, Running
  <2>3. retries'[c] <= counter'[req'[c].tenant].version
    <3>1. /\ seen[c].version \in Nat /\ retries[c] \in Nat
          /\ counter[req[c].tenant].version \in Nat
      BY Zenon, <1>0, TaskTypes
    <3>2. retries[c] + 1 <= counter[req[c].tenant].version
      BY <2>1, <2>2, <3>1
    <3>. QED BY Zenon, <1>1, <2>1, <3>2
  <2>4. SeenOK(c)' /\ RetriesOK(c)' /\ ReplyOK(c)'
    BY Zenon, <2>1, <2>3 DEF SeenOK, RetriesOK, ReplyOK
  <2>. QED BY Zenon, <1>0, <1>1, <1>2, <2>1, <2>4, LocalStep DEF Running
<1>6. CASE Leave(c)
  <2>1. pc'[c] = "idle" /\ retries'[c] = 0
    BY Zenon, <1>0, <1>6, TaskTypes DEF Leave, Goto
  <2>2. SeenOK(c)' /\ RetriesOK(c)' /\ ReplyOK(c)'
    BY Zenon, <2>1 DEF SeenOK, RetriesOK, ReplyOK, Running
  <2>. QED BY Zenon, <1>0, <1>1, <1>2, <2>1, <2>2, LocalStep DEF Running
<1>. QED BY Zenon, <1>3, <1>4, <1>5, <1>6

\* A read keeps the facts about tasks.
LEMMA GetValueTask ==
  ASSUME IInv, NEW c \in Clients, NEW t \in Tenants, GetValue(c, t)
  PROVE  TaskInv'
<1>1. TypeOK /\ TaskInv
  BY Zenon DEF IInv
<1>2. /\ UNCHANGED <<counter, memo, outbox, req, issued, retries, seen>>
      /\ pc' = [pc EXCEPT ![c] = "done"]
      /\ reply' = [reply EXCEPT ![c] =
                     [kind |-> "value", value |-> counter[t].value, version |-> 0]]
  BY Zenon DEF GetValue, Answer, Goto, db
<1>3. /\ pc'[c] = "done" /\ reply'[c].kind = "value"
      /\ \A d \in Clients \ {c} : pc'[d] = pc[d] /\ reply'[d] = reply[d]
  BY Zenon, <1>1, <1>2, TaskTypes
<1>4. SeenOK(c)' /\ RetriesOK(c)' /\ ReplyOK(c)'
  BY Zenon, <1>3 DEF SeenOK, RetriesOK, ReplyOK, Running
<1>. QED BY Zenon, <1>1, <1>2, <1>3, <1>4, LocalStep DEF Running

\* An answer from the idempotency row keeps the facts about tasks: the row is
\* backed by the event of the change it remembers.
LEMMA MemoTask ==
  ASSUME IInv, NEW c \in Clients, PrecheckHit(c) \/ Recheck(c)
  PROVE  TaskInv'
<1>. DEFINE m == memo[req[c].tenant][req[c].key]
<1>1. /\ pc[c] \in Running /\ UNCHANGED db /\ pc' = [pc EXCEPT ![c] = "done"]
      /\ UNCHANGED <<req, retries, seen, issued>>
  BY Zenon DEF PrecheckHit, Recheck, Running, Answer, Goto
<1>2. CASE Remembered(c)
  <2>1. /\ reply'[c] = MemoOutcome(c) /\ \A d \in Clients \ {c} : reply'[d] = reply[d]
    BY Zenon, <1>2, TaskTypes DEF IInv, PrecheckHit, Recheck, Answer
  <2>2. req[c].tenant \in Tenants /\ req[c].key \in Keys /\ m.op # "none"
    BY Zenon, <1>2 DEF IInv, TypeOK, Remembered, Request
  <2>3. PICK i \in 1..Len(outbox) :
          /\ outbox[i].tenant = req[c].tenant
          /\ outbox[i].key = req[c].key
          /\ outbox[i].op = m.op
          /\ outbox[i].value = m.value
          /\ outbox[i].version = m.version
    <3>1. KeyAppliedOnce
      BY Zenon DEF IInv, DbInv
    <3>. QED BY <2>2, <3>1 DEF KeyAppliedOnce
  <2>4. /\ reply'[c].kind # "cas"
        /\ reply'[c].kind = "ok" =>
             /\ m.op = req[c].op
             /\ reply'[c].value = m.value /\ reply'[c].version = m.version
    <3>1. CASE m.op # req[c].op
      BY <2>1, <3>1 DEF MemoOutcome, Failure
    <3>2. CASE m.op = req[c].op
      BY <2>1, <3>2 DEF MemoOutcome, Success
    <3>. QED BY Zenon, <3>1, <3>2
  <2>5. reply'[c].kind = "ok" => Backs(i, c)'
    BY Zenon, <1>1, <1>2, <2>3, <2>4 DEF Backs, db, Remembered
  <2>. QED BY Zenon, <1>1, <2>1, <2>4, <2>5, AnswerTask
<1>3. CASE ~Remembered(c)
  <2>1. /\ reply'[c] = Failure("db") /\ \A d \in Clients \ {c} : reply'[d] = reply[d]
    BY Zenon, <1>3, TaskTypes DEF IInv, PrecheckHit, Recheck, Answer
  <2>2. reply'[c].kind = "db"
    BY <2>1 DEF Failure
  <2>. QED BY Zenon, <1>1, <2>1, <2>2, AnswerTask
<1>. QED BY Zenon, <1>2, <1>3

\* An error answer keeps the facts about tasks.
LEMMA ErrorTask ==
  ASSUME IInv, NEW c \in Clients, TxCasGiveUp(c) \/ DbError(c)
  PROVE  TaskInv'
<1>1. /\ pc[c] \in Running /\ UNCHANGED db /\ pc' = [pc EXCEPT ![c] = "done"]
      /\ UNCHANGED <<req, retries, seen, issued>>
  BY Zenon DEF TxCasGiveUp, DbError, Running, Answer, Goto
<1>2. \A d \in Clients \ {c} : reply'[d] = reply[d]
  BY Zenon, TaskTypes DEF IInv, TxCasGiveUp, DbError, Answer
<1>3. reply'[c].kind \in {"cas", "db"} /\ (reply'[c].kind = "cas" => TxCasGiveUp(c))
  <2>1. reply \in [Clients -> Reply]
    BY Zenon, TaskTypes DEF IInv
  <2>2. CASE TxCasGiveUp(c)
    BY Zenon, <2>1, <2>2 DEF TxCasGiveUp, Answer, Failure
  <2>3. CASE DbError(c)
    BY Zenon, <2>1, <2>3 DEF DbError, Answer, Failure
  <2>. QED BY Zenon, <2>2, <2>3
<1>4. ASSUME TxCasGiveUp(c) PROVE counter[req[c].tenant].version > MAX_RETRIES
  <2>1. /\ pc[c] = "tx" /\ seen[c].version # counter[req[c].tenant].version
        /\ retries[c] = MAX_RETRIES
    BY Zenon, <1>4 DEF TxCasGiveUp, CasMatches
  <2>2. SeenOK(c) /\ RetriesOK(c)
    BY Zenon, TaskInvSplit DEF IInv, TasksOK
  <2>3. seen[c].version <= counter[req[c].tenant].version /\ retries[c] <= seen[c].version
    BY Zenon, <2>1, <2>2 DEF SeenOK, RetriesOK, Running
  <2>4. /\ seen[c].version \in Nat /\ MAX_RETRIES \in Nat
        /\ counter[req[c].tenant].version \in Nat
    BY Zenon, TaskTypes DEF IInv
  <2>. QED BY <2>1, <2>3, <2>4
<1>. QED BY Zenon, <1>1, <1>2, <1>3, <1>4, AnswerTask
-----------------------------------------------------------------------------
\* The initial state satisfies the inductive invariant.
LEMMA InitInv == Init => IInv
<1>0. SUFFICES ASSUME Init PROVE IInv
  BY Zenon
<1>1. Len(outbox) = 0 /\ 1..Len(outbox) = {}
  BY <1>0 DEF Init
<1>2. DbInv
  <2>1. \A t \in Tenants : counter[t].version = 0 /\ counter[t].value = 0
    BY Zenon, <1>0 DEF Init, NoRow
  <2>2. \A t \in Tenants, k \in Keys : memo[t][k].op = "none"
    BY Zenon, <1>0 DEF Init
  <2>3. OutboxMatchesCounter
    <3>1. ASSUME NEW t \in Tenants PROVE ~(counter[t].version > 0)
      <4>1. counter[t].version = 0
        BY Zenon, <2>1
      <4>. QED BY <4>1
    <3>2. \A i \in 1..Len(outbox) : FALSE
      BY Zenon, <1>1
    <3>. QED BY Zenon, <2>1, <3>1, <3>2 DEF OutboxMatchesCounter
  <2>4. OutboxOrdered /\ OutboxChain /\ RequestAppliedOnce
    BY Zenon, <1>1 DEF OutboxOrdered, OutboxChain, RequestAppliedOnce
  <2>5. KeyAppliedOnce /\ KeysRemembered
    BY Zenon, <1>1, <2>2 DEF KeyAppliedOnce, KeysRemembered
  <2>. QED BY Zenon, <2>3, <2>4, <2>5 DEF DbInv
<1>3. issued = 0 /\ \A c \in Clients : pc[c] = "idle" /\ req[c].id = 0 /\ retries[c] = 0
  BY <1>0 DEF Init
<1>4. ASSUME NEW c \in Clients PROVE SeenOK(c) /\ RetriesOK(c) /\ ReplyOK(c)
  <2>1. pc[c] = "idle" /\ pc[c] \notin Running /\ retries[c] = 0
    BY Zenon, <1>3 DEF Running
  <2>. QED BY Zenon, <2>1 DEF SeenOK, RetriesOK, ReplyOK
<1>5. RequestsNumbered
  <2>1. \A c \in Clients : pc[c] \notin Running
    BY Zenon, <1>3 DEF Running
  <2>. QED BY <1>1, <1>3, <2>1 DEF RequestsNumbered
<1>. QED BY Zenon, <1>0, <1>2, <1>4, <1>5, InitType, TaskInvSplit DEF IInv, TasksOK

\* Every step preserves the inductive invariant.
LEMMA NextInv == IInv /\ [Next]_vars => IInv'
<1>. SUFFICES ASSUME IInv, [Next]_vars PROVE IInv'
  BY Zenon
<1>1. TypeOK'
  BY Zenon, NextType DEF IInv
<1>2. ASSUME UNCHANGED db, TaskInv' PROVE IInv'
  BY Zenon, <1>1, <1>2, QuietDb DEF IInv
<1>3. CASE UNCHANGED vars
  <2>1. TaskInv'
    BY Zenon, <1>3 DEF vars, IInv, TaskInv, SeenIsPast, RequestsNumbered, RetriesPaid,
       ReplyIsBacked, GivesUpOnlyUnderContention
  <2>. QED BY Zenon, <1>2, <1>3, <2>1 DEF vars, db
<1>4. ASSUME NEW c \in Clients, NEW t \in Tenants, NEW op \in Ops,
             NEW k \in Keys \cup {NoKey}, Call(c, t, op, k)
      PROVE  IInv'
  BY Zenon, <1>2, <1>4, CallTask DEF Call
<1>5. ASSUME NEW c \in Clients, NEW t \in Tenants, GetValue(c, t) PROVE IInv'
  BY Zenon, <1>2, <1>5, GetValueTask DEF GetValue
<1>6. ASSUME NEW c \in Clients,
             Load(c) \/ PrecheckMiss(c) \/ TxKeyTaken(c) \/ TxCasRetry(c) \/ Leave(c)
      PROVE  IInv'
  <2>1. UNCHANGED db
    BY Zenon, <1>6 DEF Load, PrecheckMiss, TxKeyTaken, TxCasRetry, Leave, db
  <2>. QED BY Zenon, <1>2, <1>6, <2>1, LoopTask
<1>7. ASSUME NEW c \in Clients, PrecheckHit(c) \/ Recheck(c) PROVE IInv'
  BY Zenon, <1>2, <1>7, MemoTask DEF PrecheckHit, Recheck
<1>8. ASSUME NEW c \in Clients, TxCommit(c) PROVE IInv'
  BY Zenon, <1>1, <1>8, CommitDb, CommitTask DEF IInv
<1>9. ASSUME NEW c \in Clients, TxCasGiveUp(c) \/ DbError(c) PROVE IInv'
  BY Zenon, <1>2, <1>9, ErrorTask DEF TxCasGiveUp, DbError
<1>. QED BY Zenon, <1>3, <1>4, <1>5, <1>6, <1>7, <1>8, <1>9 DEF Next, Step

\* The inductive invariant holds in every reachable state.
THEOREM Invariance == Spec => []IInv
  BY InitInv, NextInv, PTL DEF Spec

\* The outbox is the gapless history of every counter and ends at its row:
\* commit_mutation loses no update and writes no phantom event.
THEOREM OutboxCorrect == Spec => []OutboxIsHistory
<1>1. IInv => OutboxIsHistory
  BY Zenon DEF IInv, DbInv, OutboxIsHistory
<1>. QED BY <1>1, Invariance, PTL

\* Neither a repeated idempotency key nor the loop of run_atomic_mutation
\* changes a counter twice.
THEOREM OnceCorrect == Spec => []AppliedAtMostOnce
<1>1. IInv => AppliedAtMostOnce
  BY Zenon DEF IInv, DbInv, AppliedAtMostOnce
<1>. QED BY <1>1, Invariance, PTL

\* Replies tell the truth about what the request did, and a request is given
\* up only when it was overtaken more often than it may retry.
THEOREM ReplyCorrect == Spec => []RepliesAreTrue
<1>1. IInv => RepliesAreTrue
  BY Zenon DEF IInv, TaskInv, RepliesAreTrue
<1>. QED BY <1>1, Invariance, PTL

-----------------------------------------------------------------------------
\* The refinement mapping: a running task is a pending call.
Phase == [c \in Clients |-> IF pc[c] \in Running THEN "pending" ELSE pc[c]]

\* How a step of one task looks in the abstract phases.
LEMMA PhaseStep ==
  ASSUME TypeOK, NEW c \in Clients, NEW label, Goto(c, label)
  PROVE  Phase' = [Phase EXCEPT ![c] = IF label \in Running THEN "pending" ELSE label]
  BY Zenon DEF Phase, Goto, TypeOK

\* Every step of the service is a step of the atomic counter or changes
\* nothing the atomic counter knows of.
LEMMA StepRefines == IInv /\ [Next]_vars => [Abstract!Next]_(Abstract!vars)
<1>. SUFFICES ASSUME IInv, [Next]_vars PROVE [Abstract!Next]_(Abstract!vars)
  BY Zenon
<1>t. TypeOK
  BY Zenon DEF IInv
<1>1. CASE UNCHANGED vars
  BY Zenon, <1>1 DEF vars, Abstract!vars
<1>2. ASSUME NEW c \in Clients, NEW t \in Tenants, NEW op \in Ops,
             NEW k \in Keys \cup {NoKey}, Call(c, t, op, k)
      PROVE  Abstract!Call(c, t, op, k)
  <2>1. Phase' = [Phase EXCEPT ![c] = "pending"] /\ Phase[c] = "idle"
    BY Zenon, <1>t, <1>2, PhaseStep DEF Call, Phase, Running
  <2>. QED BY Zenon, <1>2, <2>1 DEF Call, Abstract!Call, Phase, db
<1>3. ASSUME NEW c \in Clients, NEW t \in Tenants, GetValue(c, t)
      PROVE  Abstract!GetValue(c, t)
  <2>1. Phase' = [Phase EXCEPT ![c] = "done"] /\ Phase[c] = "idle"
    BY Zenon, <1>t, <1>3, PhaseStep DEF GetValue, Answer, Phase, Running
  <2>. QED BY Zenon, <1>3, <2>1 DEF GetValue, Answer, Abstract!GetValue, Phase, db
<1>4. ASSUME NEW c \in Clients,
             Load(c) \/ PrecheckMiss(c) \/ TxKeyTaken(c) \/ TxCasRetry(c)
      PROVE  UNCHANGED Abstract!vars
  <2>1. Phase' = Phase
    BY Zenon, <1>t, <1>4 DEF Load, PrecheckMiss, TxKeyTaken, TxCasRetry, Goto, Phase, Running, TypeOK
  <2>. QED BY Zenon, <1>4, <2>1 DEF Load, PrecheckMiss, TxKeyTaken, TxCasRetry, Abstract!vars, Phase, db
<1>5. ASSUME NEW c \in Clients, PrecheckHit(c) \/ Recheck(c)
      PROVE  Abstract!Replay(c) \/ Abstract!Fail(c)
  <2>1. Phase[c] = "pending"
    BY Zenon, <1>5 DEF PrecheckHit, Recheck, Phase, Running
  <2>2. Phase' = [Phase EXCEPT ![c] = "done"]
    BY Zenon, <1>t, <1>5, PhaseStep DEF PrecheckHit, Recheck, Answer, Running
  <2>3. CASE Remembered(c)
    <3>1. /\ reply' = [reply EXCEPT ![c] = MemoOutcome(c)]
          /\ UNCHANGED <<counter, memo, outbox, req, issued>>
      BY Zenon, <1>5, <2>3 DEF PrecheckHit, Recheck, Answer, db
    <3>2. MemoOutcome(c) =
            IF memo[req[c].tenant][req[c].key].op = req[c].op
            THEN Abstract!Success(memo[req[c].tenant][req[c].key].value,
                                  memo[req[c].tenant][req[c].key].version)
            ELSE Abstract!Failure("conflict")
      BY Zenon DEF MemoOutcome, Abstract!Success, Success, Abstract!Failure, Failure
    <3>. QED BY Zenon, <2>1, <2>2, <2>3, <3>1, <3>2 DEF Abstract!Replay, Abstract!Answer,
           Abstract!Remembered, Remembered, Phase
  <2>4. CASE ~Remembered(c)
    <3>1. /\ reply' = [reply EXCEPT ![c] = Failure("db")]
          /\ UNCHANGED <<counter, memo, outbox, req, issued>>
      BY Zenon, <1>5, <2>4 DEF PrecheckHit, Recheck, Answer, db
    <3>. QED BY Zenon, <2>1, <2>2, <3>1 DEF Abstract!Fail, Abstract!Answer, Abstract!Failure,
           Failure, Phase
  <2>. QED BY Zenon, <2>3, <2>4
<1>6. ASSUME NEW c \in Clients, TxCasGiveUp(c) \/ DbError(c)
      PROVE  Abstract!Fail(c)
  <2>1. Phase[c] = "pending"
    BY Zenon, <1>6 DEF TxCasGiveUp, DbError, Phase, Running
  <2>2. PICK kind \in {"cas", "db"} : Answer(c, Failure(kind)) /\ UNCHANGED db
    BY Zenon, <1>6 DEF TxCasGiveUp, DbError
  <2>3. Phase' = [Phase EXCEPT ![c] = "done"]
    BY Zenon, <1>t, <2>2, PhaseStep DEF Answer, Running
  <2>. QED BY Zenon, <2>1, <2>2, <2>3 DEF Abstract!Fail, Abstract!Answer, Answer,
         Abstract!Failure, Failure, Phase, db
<1>7. ASSUME NEW c \in Clients, TxCommit(c) PROVE Abstract!Mutate(c)
  <2>1. Phase[c] = "pending"
    BY Zenon, <1>7 DEF TxCommit, Phase, Running
  <2>2. Phase' = [Phase EXCEPT ![c] = "done"]
    BY Zenon, <1>t, <1>7, PhaseStep DEF TxCommit, Answer, Running
  <2>3. /\ EventOf(c).version = counter[req[c].tenant].version + 1
        /\ EventOf(c).value = NextValue(req[c].op, counter[req[c].tenant].value)
        /\ EventOf(c) = [tenant |-> req[c].tenant, op |-> req[c].op,
                         value |-> EventOf(c).value, delta |-> EventOf(c).delta,
                         version |-> EventOf(c).version, key |-> req[c].key,
                         request |-> req[c].id]
        /\ EventOf(c).delta = EventOf(c).value - counter[req[c].tenant].value
        /\ RowAfter(c) = [value |-> EventOf(c).value, version |-> EventOf(c).version]
    <3>1. EventOf(c) = [tenant |-> req[c].tenant, op |-> req[c].op,
                         value |-> EventOf(c).value, delta |-> EventOf(c).delta,
                         version |-> EventOf(c).version, key |-> req[c].key,
                         request |-> req[c].id]
      BY Zenon DEF EventOf
    <3>. QED BY Zenon, <1>7, <3>1, CommitAgrees
  <2>4. \A op, v : Abstract!NextValue(op, v) = NextValue(op, v)
    BY Zenon DEF Abstract!NextValue, NextValue
  <2>5. \A v, w : Abstract!Success(v, w) = Success(v, w)
    BY Zenon DEF Abstract!Success, Success
  <2>. QED BY Zenon, <1>7, <2>1, <2>2, <2>3, <2>4, <2>5 DEF TxCommit, Abstract!Mutate, Abstract!Remembered,
         Remembered, Answer, Abstract!Answer, Phase
<1>8. ASSUME NEW c \in Clients, Leave(c) PROVE Abstract!Leave(c)
  <2>1. Phase' = [Phase EXCEPT ![c] = "idle"] /\ Phase[c] # "idle"
    BY Zenon, <1>t, <1>8, PhaseStep DEF Leave, Phase, Running
  <2>. QED BY Zenon, <1>8, <2>1 DEF Leave, Abstract!Leave, NoReply, Abstract!NoReply, Phase, db
<1>. QED
  BY <1>1, <1>2, <1>3, <1>4, <1>5, <1>6, <1>7, <1>8 DEF Next, Step, Abstract!Next, Abstract!Ops, Ops

\* The counter service implements the atomic counter.
THEOREM Refinement == Spec => ImplementsAtomicCounter
<1>1. Init => Abstract!Init
  <2>. SUFFICES ASSUME Init PROVE Abstract!Init
    BY Zenon
  <2>1. [c \in Clients |-> IF pc[c] \in Running THEN "pending" ELSE pc[c]]
          = [c \in Clients |-> "idle"]
    BY Zenon DEF Init, Running
  <2>. QED BY Zenon, <2>1 DEF Init, Abstract!Init, NoRow, NoReply, Abstract!NoReply
<1>. QED
  BY <1>1, StepRefines, Invariance, PTL DEF Spec, ImplementsAtomicCounter, Abstract!Spec
=============================================================================
