------------------------------ MODULE MemoryQueue ------------------------------
(***************************************************************************)
(* MemoryQueue, the in-memory adapter of the Queue port of packages/runtime *)
(* (the job queue of the scheduler worker).                                 *)
(*                                                                         *)
(* Every method runs under one write lock, so an operation is one step.     *)
(* Consumers ack and nack the messages they have dequeued; a consumer may   *)
(* stop, or ask for a body type the message does not have.                  *)
(***************************************************************************)
EXTENDS Naturals, Sequences

CONSTANTS
  Queues,      \* queue names
  Consumers,   \* tasks that dequeue
  MaxMessages, \* bound: messages enqueued in a behaviour
  MaxDequeues  \* bound: times one message is dequeued, by the requeues it gets

ASSUME QueueBounds == MaxMessages \in Nat /\ MaxDequeues \in Nat \ {0}

VARIABLES
  queue,     \* name -> its messages, in the order of arrival
  enqueued,  \* messages enqueued so far: the last message_id
  inHand,    \* consumer -> the messages it has dequeued and not settled
  abandoned  \* dequeued messages no consumer will settle any more

queueVars == <<queue, enqueued, inHand, abandoned>>

Ids == 1..MaxMessages
Message == [id : Ids, delayed : BOOLEAN, visible : BOOLEAN, count : 0..MaxDequeues]

QueueInit ==
  /\ queue = [q \in Queues |-> << >>]
  /\ enqueued = 0
  /\ inHand = [c \in Consumers |-> {}]
  /\ abandoned = {}

\* A message with visible_after set starts hidden; nothing compares it with the
\* clock afterwards.
Enqueue(q, delayed) ==
  /\ enqueued < MaxMessages
  /\ enqueued' = enqueued + 1
  /\ queue' = [queue EXCEPT ![q] = Append(@,
       [id |-> enqueued', delayed |-> delayed, visible |-> ~delayed, count |-> 0])]
  /\ UNCHANGED <<inHand, abandoned>>

\* Position i holds the first visible message of q.
FirstVisible(q, i) ==
  /\ queue[q][i].visible
  /\ \A j \in 1 .. i - 1 : ~queue[q][j].visible

\* Mutant: a dequeued message stays visible.
DequeueVisible(c, q) ==
  \E i \in 1..Len(queue[q]) :
    /\ FirstVisible(q, i)
    /\ queue' = [queue EXCEPT ![q][i].count = @ + 1]
    /\ inHand' = [inHand EXCEPT ![c] = @ \cup {queue[q][i].id}]
    /\ UNCHANGED <<enqueued, abandoned>>

\* The message is hidden and counted before its body is converted: when the
\* conversion fails the caller gets an error and the message stays hidden.
Dequeue(c, q) ==
  \E i \in 1..Len(queue[q]) :
    /\ FirstVisible(q, i)
    /\ queue' = [queue EXCEPT ![q][i].visible = FALSE, ![q][i].count = @ + 1]
    /\ \/ inHand' = [inHand EXCEPT ![c] = @ \cup {queue[q][i].id}] /\ UNCHANGED abandoned
       \/ abandoned' = abandoned \cup {queue[q][i].id} /\ UNCHANGED inHand
    /\ UNCHANGED enqueued

\* messages.retain: all but the message with this id; no two have the same.
Retain(messages, id) ==
  IF \E i \in DOMAIN messages : messages[i].id = id
  THEN LET p == CHOOSE i \in DOMAIN messages : messages[i].id = id
       IN  SubSeq(messages, 1, p - 1) \o SubSeq(messages, p + 1, Len(messages))
  ELSE messages

\* ack: the message leaves every queue.
Ack(c, id) ==
  /\ id \in inHand[c]
  /\ queue' = [q \in Queues |-> Retain(queue[q], id)]
  /\ inHand' = [inHand EXCEPT ![c] = @ \ {id}]
  /\ UNCHANGED <<enqueued, abandoned>>

\* nack: with requeue the message is visible again, without it nothing changes
\* ("for now, just remove it" removes nothing).
Nack(c, id, requeue) ==
  /\ id \in inHand[c]
  /\ requeue => \A q \in Queues : \A i \in DOMAIN queue[q] :
       queue[q][i].id = id => queue[q][i].count < MaxDequeues
  /\ queue' = [q \in Queues |-> [i \in DOMAIN queue[q] |->
       IF requeue /\ queue[q][i].id = id
       THEN [queue[q][i] EXCEPT !.visible = TRUE]
       ELSE queue[q][i]]]
  /\ inHand' = [inHand EXCEPT ![c] = @ \ {id}]
  /\ abandoned' = IF requeue THEN abandoned ELSE abandoned \cup {id}
  /\ UNCHANGED enqueued

\* A consumer stops without settling: _visibility_timeout is not used.
Stop(c) ==
  /\ inHand[c] # {}
  /\ inHand' = [inHand EXCEPT ![c] = {}]
  /\ abandoned' = abandoned \cup inHand[c]
  /\ UNCHANGED <<queue, enqueued>>

QueueNext ==
  \/ \E q \in Queues, delayed \in BOOLEAN : Enqueue(q, delayed)
  \/ \E c \in Consumers :
       \/ \E q \in Queues : Dequeue(c, q)
       \/ \E id \in Ids : Ack(c, id) \/ \E requeue \in BOOLEAN : Nack(c, id, requeue)
       \/ Stop(c)

QueueSpec == QueueInit /\ [][QueueNext]_queueVars

\* Consumers keep polling every queue.
QueueFairness == \A q \in Queues : WF_queueVars(\E c \in Consumers : Dequeue(c, q))

-----------------------------------------------------------------------------
\* Properties

\* The queues hold messages, the consumers hold ids.
QueueTypeOK ==
  /\ queue \in [Queues -> Seq(Message)]
  /\ enqueued \in 0..MaxMessages
  /\ inHand \in [Consumers -> SUBSET Ids]
  /\ abandoned \subseteq Ids

\* "The message becomes invisible to other consumers" (ports/queue.rs): a message
\* somebody is working on is hidden in its queue and in nobody else's hands,
\* whatever is nacked, acknowledged or enqueued meanwhile.
OneConsumer ==
  \A c \in Consumers : \A id \in inHand[c] :
    /\ \A d \in Consumers \ {c} : id \notin inHand[d]
    /\ \A q \in Queues : \A i \in 1..Len(queue[q]) : queue[q][i].id = id => ~queue[q][i].visible

\* "FIFO": no message is dequeued before every undelayed message that arrived in
\* its queue earlier and is still there has been dequeued once, through
\* requeues and acknowledgements in any order.
FirstDeliveriesInOrder ==
  \A q \in Queues : \A i, j \in 1..Len(queue[q]) :
    (i < j /\ queue[q][j].count > 0 /\ ~queue[q][i].delayed) => queue[q][i].count > 0

\* "If not acknowledged within this time, it will become visible again" is not
\* what the adapter does: it takes the timeout and never looks at it.  What is dequeued and left unsettled,
\* because its consumer stopped, asked for another type or nacked it without
\* requeue, stays in its queue hidden for good; and nothing else is lost this
\* way: every other hidden message that was dequeued is in some consumer's hands.
HiddenIsHeldOrAbandoned ==
  \A q \in Queues : \A i \in 1..Len(queue[q]) :
    LET id == queue[q][i].id IN
    /\ id \in abandoned => ~queue[q][i].visible /\ \A c \in Consumers : id \notin inHand[c]
    /\ ~queue[q][i].visible /\ queue[q][i].count > 0 =>
         id \in abandoned \/ \E c \in Consumers : id \in inHand[c]

\* A message is with one consumer at a time, first deliveries keep the order of
\* arrival, and only what a consumer left unsettled is hidden from all.
QueueDiscipline ==
  OneConsumer /\ FirstDeliveriesInOrder /\ HiddenIsHeldOrAbandoned

\* Every message enqueued without a delay is dequeued, provided that no message
\* is requeued for ever: a requeued message keeps its place at the head.
UndelayedIsDelivered ==
  \A id \in Ids :
    (\E q \in Queues : \E i \in 1..Len(queue[q]) : queue[q][i].id = id /\ ~queue[q][i].delayed)
      ~> (\A q \in Queues : \A i \in 1..Len(queue[q]) : queue[q][i].id = id => queue[q][i].count > 0)
=============================================================================
