-------------------------- MODULE OutboxRelayProofs --------------------------
(***************************************************************************)
(* Proofs about the outbox relay: what it writes down is true, for any     *)
(* number of rows, replicas and failed calls; and one replica with the     *)
(* local stores sends entries again only after a fault, and for the first  *)
(* time in the order of their sequence.  The second rests on the first and *)
(* on an invariant of the lone replica.                                    *)
(***************************************************************************)
EXTENDS OutboxRelay, TLAPS

(* The inductive invariant. *)

Published == {e \in Rows : status[e] = "published"}
Sent(e) == bus[e] > 0

Increasing(s) == \A i, j \in 1..Len(s) : i < j => s[i] < s[j]
InOrder(s, t) == Increasing(s) /\ Increasing(t) /\ \A e \in Range(s), f \in Range(t) : e < f

\* The places of the cycle where the batch is still being narrowed or sent, and
\* those after the UPDATE.
Sending == {"dedupe", "claim", "start", "publish", "mirror"}
Settling == {"complete", "fail", "advance", "load", "store"}

\* What a relay at a place of its cycle knows about its local variables: they
\* name rows, the rest of the batch is in order behind what was kept of it, and
\* a success was sent, and marked once the UPDATE is over.
JobFacts(at, j) ==
  /\ Range(j.queue) \cup Range(j.out) \cup Range(j.wins) \cup Range(j.losses) \subseteq Rows
  /\ at \in {"start", "mirror", "load", "store"} => j.queue # << >>
  /\ at \in Sending => InOrder(j.out, j.queue)
  /\ at \in {"publish", "mirror"} => j.out = << >>
  /\ at = "mirror" => Sent(Head(j.queue))
  /\ \A e \in Range(j.wins) : Sent(e) /\ mirror[e] > 0
  /\ at \in Settling => Range(j.wins) \subseteq Published
  /\ at \in Settling \ {"fail"} => Range(j.queue) \subseteq Range(j.wins)
  /\ at = "fail" => Range(j.queue) \subseteq Range(j.losses)

\* The stores name published rows, and these were sent.
StoreFacts ==
  /\ dedupe \subseteq Published
  /\ {checkpoint, disk} \subseteq Published \cup {0}
  /\ \A e \in Published : Sent(e) /\ mirror[e] > 0

RelayInv ==
  /\ TypeOK /\ deployment \in Deployments
  /\ \A r \in Relays : JobFacts(pc[r], job[r])
  /\ StoreFacts

-----------------------------------------------------------------------------
(* Sequences of entries, by what they hold. *)

\* The members of a sequence.
LEMMA SeqMembers ==
  ASSUME NEW s \in Seq(Entries)
  PROVE  /\ Range(s) = {s[i] : i \in 1..Len(s)} /\ Range(s) \subseteq Entries
         /\ Len(s) \in Nat
<1>1. DOMAIN s = 1..Len(s) /\ Len(s) \in Nat /\ \A i \in 1..Len(s) : s[i] \in Entries
  OBVIOUS
<1>. QED BY Zenon, <1>1 DEF Range

\* The empty sequence.
LEMMA NoMembers ==
  /\ << >> \in Seq(Entries) /\ Range(<< >>) = {} /\ Increasing(<< >>)
  /\ \A s \in Seq(Entries) : InOrder(s, << >>) <=> Increasing(s)
  /\ \A s \in Seq(Entries) : InOrder(<< >>, s) <=> Increasing(s)
<1>1. << >> \in Seq(Entries) /\ Len(<< >>) = 0
  OBVIOUS
<1>2. Range(<< >>) = {}
  <2>1. DOMAIN << >> = {}
    OBVIOUS
  <2>. QED BY Zenon, <2>1 DEF Range
<1>3. Increasing(<< >>)
  BY <1>1 DEF Increasing
<1>. QED BY Zenon, <1>1, <1>2, <1>3 DEF InOrder

\* A loop takes the head of its queue and leaves the rest.
LEMMA TakeHead ==
  ASSUME NEW s \in Seq(Entries), s # << >>
  PROVE  /\ Head(s) \in Entries /\ Head(s) \in Range(s)
         /\ Tail(s) \in Seq(Entries)
         /\ Range(s) = {Head(s)} \cup Range(Tail(s))
         /\ Increasing(s) => Increasing(Tail(s)) /\ \A e \in Range(Tail(s)) : Head(s) < e
<1>1. /\ Len(s) \in Nat \ {0} /\ Head(s) = s[1] /\ s[1] \in Entries
      /\ Tail(s) \in Seq(Entries) /\ Len(Tail(s)) = Len(s) - 1
      /\ \A i \in 1..Len(s) - 1 : Tail(s)[i] = s[i + 1]
  OBVIOUS
<1>2. Range(s) = {s[i] : i \in 1..Len(s)}
  BY Zenon, SeqMembers
<1>3. Range(Tail(s)) = {s[i + 1] : i \in 1..Len(s) - 1}
  <2>1. Range(Tail(s)) = {Tail(s)[i] : i \in 1..Len(Tail(s))}
    BY Zenon, <1>1, SeqMembers
  <2>. QED BY Zenon, <1>1, <2>1
<1>4. \A e : e \in Range(s) <=> e = s[1] \/ e \in Range(Tail(s))
  <2>1. ASSUME NEW i \in 1..Len(s), i # 1 PROVE s[i] \in Range(Tail(s))
    <3>1. i - 1 \in 1..Len(s) - 1 /\ s[i] = s[(i - 1) + 1]
      BY <1>1, <2>1
    <3>. QED BY Zenon, <1>3, <3>1
  <2>2. ASSUME NEW i \in 1..Len(s) - 1 PROVE s[i + 1] \in Range(s)
    <3>1. i + 1 \in 1..Len(s)
      BY <1>1
    <3>. QED BY Zenon, <1>2, <3>1
  <2>3. s[1] \in Range(s)
    BY <1>1, <1>2
  <2>. QED BY Zenon, <1>2, <1>3, <2>1, <2>2, <2>3
<1>5. Increasing(s) => Increasing(Tail(s))
  <2>. SUFFICES ASSUME Increasing(s), NEW i \in 1..Len(Tail(s)), NEW j \in 1..Len(Tail(s)), i < j
                PROVE  Tail(s)[i] < Tail(s)[j]
    BY Zenon DEF Increasing
  <2>1. i + 1 \in 1..Len(s) /\ j + 1 \in 1..Len(s) /\ i + 1 < j + 1
    BY <1>1
  <2>. QED BY Zenon, <1>1, <2>1 DEF Increasing
<1>6. Increasing(s) => \A e \in Range(Tail(s)) : Head(s) < e
  <2>. SUFFICES ASSUME Increasing(s), NEW i \in 1..Len(s) - 1 PROVE s[1] < s[i + 1]
    BY Zenon, <1>1, <1>3
  <2>1. 1 \in 1..Len(s) /\ i + 1 \in 1..Len(s) /\ 1 < i + 1
    BY <1>1
  <2>. QED BY Zenon, <2>1 DEF Increasing
<1>. QED BY Zenon, <1>1, <1>4, <1>5, <1>6

\* A loop keeps an entry.
LEMMA KeepEntry ==
  ASSUME NEW s \in Seq(Entries), NEW e \in Entries
  PROVE  /\ Append(s, e) \in Seq(Entries)
         /\ Range(Append(s, e)) = Range(s) \cup {e}
         /\ Increasing(s) /\ (\A x \in Range(s) : x < e) => Increasing(Append(s, e))
<1>1. /\ Len(s) \in Nat /\ Append(s, e) \in Seq(Entries) /\ Len(Append(s, e)) = Len(s) + 1
      /\ \A i \in 1..Len(s) : Append(s, e)[i] = s[i]
      /\ Append(s, e)[Len(s) + 1] = e
  OBVIOUS
<1>2. Range(s) = {s[i] : i \in 1..Len(s)}
  BY Zenon, SeqMembers
<1>3. Range(Append(s, e)) = {Append(s, e)[i] : i \in 1..Len(s) + 1}
  BY Zenon, <1>1, SeqMembers
<1>4. \A x : x \in Range(Append(s, e)) <=> x \in Range(s) \/ x = e
  BY <1>1, <1>2, <1>3
<1>5. ASSUME Increasing(s), \A x \in Range(s) : x < e PROVE Increasing(Append(s, e))
  <2>. SUFFICES ASSUME NEW i \in 1..Len(s) + 1, NEW j \in 1..Len(s) + 1, i < j
                PROVE  Append(s, e)[i] < Append(s, e)[j]
    BY Zenon, <1>1 DEF Increasing
  <2>1. CASE j = Len(s) + 1
    <3>1. i \in 1..Len(s) /\ s[i] \in Range(s)
      BY <1>1, <1>2, <2>1
    <3>. QED BY Zenon, <1>1, <1>5, <2>1, <3>1
  <2>2. CASE j \in 1..Len(s)
    BY <1>1, <1>5, <2>2 DEF Increasing
  <2>. QED BY <1>1, <2>1, <2>2
<1>. QED BY Zenon, <1>1, <1>4, <1>5

\* The failed mark joins two lists.
LEMMA JoinEntries ==
  ASSUME NEW s \in Seq(Entries), NEW t \in Seq(Entries)
  PROVE  s \o t \in Seq(Entries) /\ Range(s \o t) = Range(s) \cup Range(t)
<1>1. /\ s \o t \in Seq(Entries) /\ Len(s \o t) = Len(s) + Len(t)
      /\ \A i \in 1..Len(s) + Len(t) : (s \o t)[i] = IF i <= Len(s) THEN s[i] ELSE t[i - Len(s)]
  OBVIOUS
<1>2. /\ Range(s) = {s[i] : i \in 1..Len(s)} /\ Range(t) = {t[i] : i \in 1..Len(t)}
      /\ Len(s) \in Nat /\ Len(t) \in Nat
  BY Zenon, SeqMembers
<1>3. Range(s \o t) = {(s \o t)[i] : i \in 1..Len(s) + Len(t)}
  BY Zenon, <1>1, SeqMembers
<1>4. ASSUME NEW i \in 1..Len(s) + Len(t) PROVE (s \o t)[i] \in Range(s) \cup Range(t)
  BY <1>1, <1>2
<1>5. ASSUME NEW i \in 1..Len(s) PROVE s[i] \in Range(s \o t)
  BY <1>1, <1>2, <1>3
<1>6. ASSUME NEW i \in 1..Len(t) PROVE t[i] \in Range(s \o t)
  <2>1. Len(s) + i \in 1..Len(s) + Len(t) /\ (s \o t)[Len(s) + i] = t[i]
    BY <1>1, <1>2
  <2>. QED BY Zenon, <1>3, <2>1
<1>7. Range(s \o t) \subseteq Range(s) \cup Range(t)
  BY Zenon, <1>3, <1>4
<1>8. Range(s) \subseteq Range(s \o t) /\ Range(t) \subseteq Range(s \o t)
  BY Zenon, <1>2, <1>5, <1>6
<1>. QED BY Zenon, <1>1, <1>7, <1>8

-----------------------------------------------------------------------------
(* Steps. *)

\* Faults are counted and never forgotten.
LEMMA RecordFault ==
  ASSUME TypeOK, deployment \in Deployments, deployment' = deployment, NEW kind, NoFault \/ Fault(kind)
  PROVE  /\ faults' \in Seq(deployment'.faults) /\ Len(faults') <= deployment'.failures
         /\ Len(faults) \in Nat /\ Len(faults') \in Nat /\ Len(faults) <= Len(faults')
         /\ Fault(kind) => Len(faults') = Len(faults) + 1
         /\ \A K : Never(K)' => Never(K)
         /\ \A K : Fault(kind) /\ kind \in K => ~Never(K)'
<1>1. /\ faults \in Seq(deployment.faults) /\ Len(faults) <= deployment.failures /\ Len(faults) \in Nat
      /\ deployment.failures \in Nat
  BY DeploymentAssumption DEF TypeOK, Deployment
<1>2. CASE NoFault
  <2>1. faults' = faults
    BY Zenon, <1>2 DEF NoFault
  <2>2. ~Fault(kind)
    <3>1. ASSUME Fault(kind) PROVE FALSE
      <4>1. Len(Append(faults, kind)) = Len(faults) + 1 /\ Append(faults, kind) = faults
        BY <1>1, <2>1, <3>1 DEF Fault
      <4>. QED BY <1>1, <4>1
    <3>. QED BY Zenon, <3>1
  <2>. QED BY <1>1, <2>1, <2>2 DEF Never
<1>3. CASE Fault(kind)
  <2>1. /\ faults' = Append(faults, kind) /\ kind \in deployment.faults /\ Len(faults) < deployment.failures
    BY Zenon, <1>3 DEF Fault
  <2>2. /\ faults' \in Seq(deployment.faults) /\ Len(faults') = Len(faults) + 1
        /\ \A i \in 1..Len(faults) : faults'[i] = faults[i]
        /\ faults'[Len(faults) + 1] = kind
    BY <1>1, <2>1
  <2>3. ASSUME NEW K PROVE (Never(K)' => Never(K)) /\ (kind \in K => ~Never(K)')
    BY <1>1, <2>2 DEF Never
  <2>. QED BY <1>1, <2>1, <2>2, <2>3
<1>. QED BY Zenon, <1>2, <1>3

\* What a relay knows stays true while rows are added, marked and sent.
LEMMA FactsKept ==
  ASSUME NEW r \in Relays, JobFacts(pc'[r], job'[r]), job'[r] \in Job,
         Rows \subseteq Rows', Published \subseteq Published',
         \A e \in Rows : (Sent(e) => Sent(e)') /\ (mirror[e] > 0 => mirror'[e] > 0)
  PROVE  JobFacts(pc[r], job[r])'
<1>1. Range(job'[r].wins) \subseteq Rows
  BY Zenon DEF JobFacts
<1>2. pc'[r] = "mirror" => Head(job'[r].queue) \in Rows /\ Sent(Head(job'[r].queue))
  <2>. SUFFICES ASSUME pc'[r] = "mirror" PROVE Head(job'[r].queue) \in Rows /\ Sent(Head(job'[r].queue))
    BY Zenon
  <2>1. /\ job'[r].queue \in Seq(Entries) /\ job'[r].queue # << >> /\ Range(job'[r].queue) \subseteq Rows
        /\ Sent(Head(job'[r].queue))
    BY Zenon DEF JobFacts, Job
  <2>. QED BY Zenon, <2>1, TakeHead
<1>. QED BY Zenon, <1>1, <1>2 DEF JobFacts, Sent

\* A step of one relay that changes neither the outbox nor what was sent.
LEMMA StoreStep ==
  ASSUME RelayInv, NEW r \in Relays, NEW at \in Pcs, NEW j \in Job, Go(r, at, j), JobFacts(at, j),
         NEW kind, NoFault \/ Fault(kind), UNCHANGED <<deployment, status, bus, mirror>>,
         idem' \in [Entries -> IdemStatus],
         dedupe' \subseteq Published, {checkpoint', disk'} \subseteq Published \cup {0}
  PROVE  RelayInv'
<1>1. /\ pc' \in [Relays -> Pcs] /\ job' \in [Relays -> Job]
      /\ pc'[r] = at /\ job'[r] = j
      /\ \A s \in Relays \ {r} : pc'[s] = pc[s] /\ job'[s] = job[s]
  BY Zenon DEF Go, RelayInv, TypeOK
<1>2. Rows' = Rows /\ Published' = Published /\ \A e : Sent(e)' <=> Sent(e)
  BY Zenon DEF Rows, Published, Sent
<1>3. ASSUME NEW s \in Relays PROVE JobFacts(pc[s], job[s])'
  <2>1. JobFacts(pc'[s], job'[s]) /\ job'[s] \in Job
    BY Zenon, <1>1 DEF RelayInv
  <2>. QED BY Zenon, <1>2, <2>1, FactsKept
<1>4. StoreFacts'
  BY Zenon, <1>2 DEF RelayInv, StoreFacts
<1>5. Published \subseteq Entries /\ Rows \subseteq Entries
  BY BoundsAssumption DEF Published, Rows, RelayInv, TypeOK, Entries
<1>6. TypeOK'
  <2>1. faults' \in Seq(deployment'.faults) /\ Len(faults') <= deployment'.failures
    BY Zenon, RecordFault DEF RelayInv
  <2>2. /\ dedupe' \subseteq Entries /\ checkpoint' \in 0..MaxEvents /\ disk' \in 0..MaxEvents
    <3>1. checkpoint' \in Published \cup {0} /\ disk' \in Published \cup {0} /\ dedupe' \subseteq Published
      BY Zenon
    <3>2. Entries \cup {0} \subseteq 0..MaxEvents
      BY BoundsAssumption DEF Entries
    <3>. QED BY Zenon, <1>5, <3>1, <3>2
  <2>. QED BY Zenon, <1>1, <2>1, <2>2 DEF RelayInv, TypeOK
<1>. QED BY Zenon, <1>3, <1>4, <1>6 DEF RelayInv

\* A step that moves one relay and may record a fault.
LEMMA QuietStep ==
  ASSUME RelayInv, NEW r \in Relays, NEW at \in Pcs, NEW j \in Job, Go(r, at, j), JobFacts(at, j),
         NEW kind, NoFault \/ Fault(kind), UNCHANGED <<deployment, status, bus, mirror, stores>>
  PROVE  RelayInv'
<1>1. /\ idem' \in [Entries -> IdemStatus]
      /\ dedupe' \subseteq Published /\ {checkpoint', disk'} \subseteq Published \cup {0}
  BY Zenon DEF stores, RelayInv, StoreFacts, TypeOK
<1>. QED BY Zenon, <1>1, StoreStep

\* The relay between two cycles.
LEMMA IdleJob ==
  /\ \A n \in 0..MaxEvents : [NoJob EXCEPT !.since = n] \in Job /\ JobFacts("fetch", [NoJob EXCEPT !.since = n])
  /\ NoJob \in Job /\ JobFacts("fetch", NoJob) /\ JobFacts("sleep", NoJob)
<1>1. NoJob \in Job /\ \A n \in 0..MaxEvents : [NoJob EXCEPT !.since = n] \in Job
  <2>1. << >> \in Seq(Entries) /\ 0 \in 0..MaxEvents
    BY NoMembers, BoundsAssumption
  <2>. QED BY Zenon, <2>1 DEF NoJob, Job
<1>2. ASSUME NEW j \in Job, j.queue = << >>, j.out = << >>, j.wins = << >>, j.losses = << >>,
             NEW at \in {"fetch", "sleep"}
      PROVE  JobFacts(at, j)
  BY Zenon, <1>2, NoMembers DEF JobFacts, Sending, Settling
<1>3. NoJob.queue = << >> /\ NoJob.out = << >> /\ NoJob.wins = << >> /\ NoJob.losses = << >>
  BY Zenon DEF NoJob
<1>4. ASSUME NEW n \in 0..MaxEvents, NEW j, j = [NoJob EXCEPT !.since = n]
      PROVE  j.queue = << >> /\ j.out = << >> /\ j.wins = << >> /\ j.losses = << >>
  BY Zenon, <1>4 DEF NoJob
<1>. QED BY Zenon, <1>1, <1>2, <1>3, <1>4

\* The local variables of a relay, and the parts of them a step uses.
LEMMA JobOf ==
  ASSUME RelayInv, NEW r \in Relays
  PROVE  /\ job[r] \in Job /\ JobFacts(pc[r], job[r])
         /\ job[r].since \in 0..MaxEvents /\ job[r].seen \in 0..MaxEvents
         /\ job[r].queue \in Seq(Entries) /\ job[r].out \in Seq(Entries)
         /\ job[r].wins \in Seq(Entries) /\ job[r].losses \in Seq(Entries)
<1>1. job[r] \in Job /\ JobFacts(pc[r], job[r])
  BY Zenon DEF RelayInv, TypeOK
<1>. QED BY Zenon, <1>1 DEF Job

\* Polling: the checkpoint, the rows, and the check for duplicates.
LEMMA PollCheckpointStep ==
  ASSUME RelayInv, NEW r \in Relays, PollCheckpoint(r), deployment' = deployment
  PROVE  RelayInv'
<1>1. PICK j \in Job : Go(r, "fetch", j) /\ JobFacts("fetch", j)
  BY Zenon, IdleJob DEF PollCheckpoint, RelayInv, TypeOK
<1>. QED BY Zenon, <1>1, QuietStep DEF PollCheckpoint, Pcs

\* What the query returns.
LEMMA PendingFacts ==
  ASSUME RelayInv, NEW since \in 0..MaxEvents, NEW rows \in Pending(since)
  PROVE  /\ rows \in Seq(Entries) /\ Increasing(rows) /\ Range(rows) \subseteq Rows
         /\ \A e \in Rows : e > since /\ status[e] = "pending" /\ e \notin Range(rows) =>
              \A f \in Range(rows) : f < e
<1>1. /\ rows \in UNION {[1..n -> Due(since)] : n \in 0..BatchSize}
      /\ \A i, j \in DOMAIN rows : i < j => rows[i] < rows[j]
      /\ \A e \in Due(since) \ Range(rows) : \A i \in DOMAIN rows : rows[i] < e
  BY Zenon DEF Pending, PendingRows
<1>2. PICK n \in 0..BatchSize : rows \in [1..n -> Due(since)]
  BY Zenon, <1>1
<1>3. Due(since) \subseteq Rows /\ Rows \subseteq Entries
  BY BoundsAssumption DEF Due, Rows, RelayInv, TypeOK, Entries
<1>4. rows \in Seq(Entries) /\ Len(rows) = n /\ DOMAIN rows = 1..n
  BY <1>2, <1>3, BoundsAssumption
<1>5. Range(rows) = {rows[i] : i \in 1..n}
  BY Zenon, <1>4, SeqMembers
<1>6. Increasing(rows)
  BY Zenon, <1>1, <1>4 DEF Increasing
<1>7. Range(rows) \subseteq Rows
  BY Zenon, <1>2, <1>3, <1>5
<1>. QED BY <1>1, <1>4, <1>5, <1>6, <1>7 DEF Due

\* The rows fetch_pending returns are in the log, above the checkpoint it asked for.
LEMMA PollFetchStep ==
  ASSUME RelayInv, NEW r \in Relays, PollFetch(r), deployment' = deployment
  PROVE  RelayInv'
<1>1. CASE Go(r, "sleep", NoJob) /\ Fault("poll")
  BY Zenon, <1>1, IdleJob, QuietStep DEF PollFetch, Pcs
<1>2. ASSUME NEW rows \in Pending(job[r].since), Go(r, "dedupe", [NoJob EXCEPT !.queue = rows]), NoFault
      PROVE  RelayInv'
  <2>. DEFINE j == [NoJob EXCEPT !.queue = rows]
  <2>1. rows \in Seq(Entries) /\ Increasing(rows) /\ Range(rows) \subseteq Rows
    BY Zenon, <1>2, JobOf, PendingFacts
  <2>2. j \in Job /\ j.queue = rows /\ j.out = << >> /\ j.wins = << >> /\ j.losses = << >>
    <3>1. << >> \in Seq(Entries) /\ 0 \in 0..MaxEvents
      BY NoMembers, BoundsAssumption
    <3>. QED BY Zenon, <2>1, <3>1 DEF NoJob, Job
  <2>. HIDE DEF j
  <2>3. JobFacts("dedupe", j)
    BY Zenon, <2>1, <2>2, NoMembers DEF JobFacts, Sending, Settling
  <2>4. Go(r, "dedupe", j)
    BY Zenon, <1>2 DEF j
  <2>. QED BY Zenon, <1>2, <2>2, <2>3, <2>4, QuietStep DEF PollFetch, Pcs
<1>. QED BY Zenon, <1>1, <1>2 DEF PollFetch

\* The entry at the head of the running loop, and what is left after it.
LEMMA HeadOf ==
  ASSUME RelayInv, NEW r \in Relays, job[r].queue # << >>
  PROVE  /\ Rest(r) \in Seq(Entries) /\ Next1(r) \in Entries /\ Next1(r) \in Range(job[r].queue)
         /\ Range(job[r].queue) = {Next1(r)} \cup Range(Rest(r))
         /\ Increasing(job[r].queue) => Increasing(Rest(r)) /\ \A e \in Range(Rest(r)) : Next1(r) < e
BY Zenon, JobOf, TakeHead DEF Rest, Next1

\* The local variables when a loop has passed over an entry, or has kept it.
Passed(r) == [job[r] EXCEPT !.queue = Rest(r)]
Kept(r) == [job[r] EXCEPT !.queue = Rest(r), !.out = Append(@, Next1(r))]

\* A loop passes over an entry.
LEMMA PassOver ==
  ASSUME RelayInv, NEW r \in Relays, job[r].queue # << >>
  PROVE  /\ Passed(r) \in Job /\ Passed(r).queue = Rest(r) /\ Passed(r).out = job[r].out
         /\ Passed(r).wins = job[r].wins /\ Passed(r).losses = job[r].losses
         /\ pc[r] \in Sending => JobFacts("claim", Passed(r)) /\ JobFacts("dedupe", Passed(r))
<1>1. /\ Passed(r) \in Job /\ Passed(r).queue = Rest(r) /\ Passed(r).out = job[r].out
      /\ Passed(r).wins = job[r].wins /\ Passed(r).losses = job[r].losses
  BY Zenon, HeadOf, JobOf DEF Job, Passed
<1>2. PICK j \in Job : j = Passed(r)
  BY Zenon, <1>1
<1>3. ASSUME pc[r] \in Sending PROVE JobFacts("claim", j) /\ JobFacts("dedupe", j)
  BY Zenon, <1>1, <1>2, <1>3, HeadOf, JobOf DEF JobFacts, InOrder, Sending, Settling
<1>. QED BY Zenon, <1>1, <1>2, <1>3

\* A loop keeps an entry.
LEMMA KeepOne ==
  ASSUME RelayInv, NEW r \in Relays, job[r].queue # << >>
  PROVE  /\ Kept(r) \in Job /\ Kept(r).queue = Rest(r) /\ Kept(r).out = Append(job[r].out, Next1(r))
         /\ Kept(r).wins = job[r].wins /\ Kept(r).losses = job[r].losses
         /\ Range(Kept(r).out) = Range(job[r].out) \cup {Next1(r)}
         /\ pc[r] \in Sending => JobFacts("claim", Kept(r)) /\ JobFacts("dedupe", Kept(r))
<1>1. /\ Append(job[r].out, Next1(r)) \in Seq(Entries)
      /\ Range(Append(job[r].out, Next1(r))) = Range(job[r].out) \cup {Next1(r)}
      /\ Increasing(job[r].out) /\ (\A x \in Range(job[r].out) : x < Next1(r)) =>
           Increasing(Append(job[r].out, Next1(r)))
  BY Zenon, HeadOf, JobOf, KeepEntry
<1>2. /\ Kept(r) \in Job /\ Kept(r).queue = Rest(r) /\ Kept(r).out = Append(job[r].out, Next1(r))
      /\ Kept(r).wins = job[r].wins /\ Kept(r).losses = job[r].losses
  BY Zenon, <1>1, HeadOf, JobOf DEF Job, Kept
<1>3. PICK j \in Job : j = Kept(r)
  BY Zenon, <1>2
<1>4. ASSUME pc[r] \in Sending PROVE JobFacts("claim", j) /\ JobFacts("dedupe", j)
  <2>1. InOrder(job[r].out, job[r].queue)
    BY Zenon, <1>4, JobOf DEF JobFacts
  <2>2. InOrder(j.out, j.queue)
    BY Zenon, <1>1, <1>2, <1>3, <2>1, HeadOf DEF InOrder
  <2>3. Range(j.queue) \cup Range(j.out) \cup Range(j.wins) \cup Range(j.losses) \subseteq Rows
    BY Zenon, <1>1, <1>2, <1>3, HeadOf, JobOf DEF JobFacts
  <2>. QED BY Zenon, <1>2, <1>3, <2>2, <2>3, JobOf DEF JobFacts, Sending, Settling
<1>. QED BY Zenon, <1>1, <1>2, <1>3, <1>4

\* The check for duplicates.
LEMMA DedupeCheckStep ==
  ASSUME RelayInv, NEW r \in Relays, DedupeCheck(r), deployment' = deployment
  PROVE  RelayInv'
<1>1. job[r].queue # << >> /\ pc[r] \in Sending /\ UNCHANGED <<deployment, status, bus, mirror, stores>>
  BY Zenon DEF DedupeCheck, HasWork, Sending
<1>2. /\ Passed(r) \in Job /\ JobFacts("dedupe", Passed(r))
      /\ Kept(r) \in Job /\ JobFacts("dedupe", Kept(r))
  BY Zenon, <1>1, PassOver, KeepOne
<1>3. /\ NoFault \/ Fault("poll")
      /\ Go(r, "dedupe", Passed(r)) \/ Go(r, "dedupe", Kept(r))
  BY Zenon DEF DedupeCheck, Passed, Kept
<1>. QED BY Zenon, <1>1, <1>2, <1>3, QuietStep DEF Pcs

\* The change from one loop to the next.
LEMMA HandOverStep ==
  ASSUME RelayInv, NEW r \in Relays, deployment' = deployment,
         HandOver(r, "dedupe", "claim") \/ HandOver(r, "claim", "publish")
  PROVE  RelayInv'
<1>1. /\ job[r].queue = << >> /\ pc[r] \in Sending /\ NoFault
      /\ UNCHANGED <<deployment, status, bus, mirror, stores>>
  BY Zenon DEF HandOver, LoopOver, Sending
<1>. DEFINE j == [job[r] EXCEPT !.queue = job[r].out, !.out = << >>]
<1>2. Go(r, "sleep", NoJob) \/ Go(r, "claim", j) \/ Go(r, "publish", j)
  BY Zenon DEF HandOver
<1>3. /\ j \in Job /\ j.queue = job[r].out /\ j.out = << >>
      /\ j.wins = job[r].wins /\ j.losses = job[r].losses
  BY Zenon, JobOf, NoMembers DEF Job
<1>. HIDE DEF j
<1>4. JobFacts("claim", j) /\ JobFacts("publish", j)
  <2>1. Increasing(job[r].out)
    BY Zenon, <1>1, JobOf DEF JobFacts, InOrder
  <2>2. InOrder(j.out, j.queue)
    BY Zenon, <1>3, <2>1, JobOf, NoMembers
  <2>. QED BY Zenon, <1>3, <2>2, JobOf, NoMembers DEF JobFacts, Sending, Settling
<1>. QED BY Zenon, <1>1, <1>2, <1>3, <1>4, IdleJob, QuietStep DEF Pcs

\* The two halves of a claim.
LEMMA ClaimStep ==
  ASSUME RelayInv, NEW r \in Relays, ClaimRead(r) \/ ClaimWrite(r), deployment' = deployment
  PROVE  RelayInv'
<1>1. CASE ClaimRead(r)
  <2>1. /\ job[r].queue # << >> /\ pc[r] = "claim" /\ UNCHANGED <<deployment, status, bus, mirror, stores>>
        /\ NoFault \/ Fault("claim")
        /\ Go(r, "claim", Passed(r)) \/ Go(r, "start", job[r])
    BY Zenon, <1>1 DEF ClaimRead, HasWork, Passed
  <2>2. Passed(r) \in Job /\ JobFacts("claim", Passed(r))
    BY Zenon, <2>1, PassOver DEF Sending
  <2>3. job[r] \in Job /\ JobFacts("start", job[r])
    BY Zenon, <2>1, JobOf DEF JobFacts, Sending, Settling
  <2>. QED BY Zenon, <2>1, <2>2, <2>3, QuietStep DEF Pcs
<1>2. CASE ClaimWrite(r)
  <2>1. /\ pc[r] = "start" /\ UNCHANGED <<deployment, status, bus, mirror, dedupe, checkpoint, disk>>
        /\ NoFault \/ Fault("claim")
        /\ Go(r, "claim", Passed(r)) \/ Go(r, "claim", Kept(r))
        /\ idem' = idem \/ SetStatus(Next1(r), "in_progress")
    BY Zenon, <1>2 DEF ClaimWrite, Passed, Kept
  <2>2. job[r].queue # << >>
    BY Zenon, <2>1, JobOf DEF JobFacts
  <2>3. Passed(r) \in Job /\ JobFacts("claim", Passed(r)) /\ Kept(r) \in Job /\ JobFacts("claim", Kept(r))
    BY Zenon, <2>1, <2>2, PassOver, KeepOne DEF Sending
  <2>4. idem' \in [Entries -> IdemStatus]
    BY Zenon, <2>1 DEF RelayInv, TypeOK, SetStatus, IdemStatus
  <2>5. dedupe' \subseteq Published /\ {checkpoint', disk'} \subseteq Published \cup {0}
    BY Zenon, <2>1 DEF RelayInv, StoreFacts
  <2>. QED BY Zenon, <2>1, <2>3, <2>4, <2>5, StoreStep DEF Pcs
<1>. QED BY Zenon, <1>1, <1>2

\* Settling: complete and fail, and the two changes of loop between them.
LEMMA SettleStep ==
  ASSUME RelayInv, NEW r \in Relays, Complete(r) \/ Fail(r), deployment' = deployment
  PROVE  RelayInv'
<1>. DEFINE p == [job[r] EXCEPT !.queue = Rest(r)]
<1>1. PICK at \in {"complete", "fail"}, outcome \in {"completed", "failed"} : Settle(r, at, outcome)
  BY Zenon DEF Complete, Fail
<1>2. /\ job[r].queue # << >> /\ pc[r] = at
      /\ UNCHANGED <<deployment, status, bus, mirror, dedupe, checkpoint, disk>>
      /\ NoFault \/ Fault("settle")
      /\ Go(r, at, p)
      /\ idem' = idem \/ SetStatus(Next1(r), outcome)
  BY Zenon, <1>1 DEF Settle, HasWork
<1>. HIDE DEF p
<1>3. /\ p \in Job /\ p.queue = Rest(r) /\ p.out = job[r].out
      /\ p.wins = job[r].wins /\ p.losses = job[r].losses
      /\ Range(job[r].queue) = {Next1(r)} \cup Range(Rest(r))
  <2>1. p = Passed(r)
    BY Zenon DEF p, Passed
  <2>. QED BY Zenon, <1>2, <2>1, PassOver, HeadOf
<1>4. JobFacts(at, p)
  BY Zenon, <1>2, <1>3, JobOf DEF JobFacts, Sending, Settling
<1>5. idem' \in [Entries -> IdemStatus]
  BY Zenon, <1>2 DEF RelayInv, TypeOK, SetStatus, IdemStatus
<1>6. dedupe' \subseteq Published /\ {checkpoint', disk'} \subseteq Published \cup {0}
  BY Zenon, <1>2 DEF RelayInv, StoreFacts
<1>. QED BY Zenon, <1>2, <1>3, <1>4, <1>5, <1>6, StoreStep DEF Pcs

\* The loops over failures and advances start from the losses and the wins.
LEMMA BeginStep ==
  ASSUME RelayInv, NEW r \in Relays, FailBegin(r) \/ AdvanceBegin(r) \/ CycleEnd(r), deployment' = deployment
  PROVE  RelayInv'
<1>1. NoFault /\ UNCHANGED <<deployment, status, bus, mirror, stores>>
  BY Zenon DEF FailBegin, AdvanceBegin, CycleEnd
<1>2. CASE FailBegin(r)
  <2>. DEFINE j == [job[r] EXCEPT !.queue = job[r].losses]
  <2>1. /\ j \in Job /\ j.queue = job[r].losses /\ j.out = job[r].out
        /\ j.wins = job[r].wins /\ j.losses = job[r].losses
    <3>1. job[r] \in Job
      BY Zenon, JobOf
    <3>. QED BY Zenon, <3>1 DEF Job
  <2>2. Go(r, "fail", j) /\ pc[r] = "complete"
    BY Zenon, <1>2 DEF FailBegin, LoopOver
  <2>. HIDE DEF j
  <2>3. JobFacts("fail", j)
    BY Zenon, <2>1, <2>2, JobOf DEF JobFacts, Sending, Settling
  <2>. QED BY Zenon, <1>1, <2>1, <2>2, <2>3, QuietStep DEF Pcs
<1>3. CASE AdvanceBegin(r)
  <2>. DEFINE j == [job[r] EXCEPT !.queue = job[r].wins]
  <2>1. /\ j \in Job /\ j.queue = job[r].wins /\ j.out = job[r].out
        /\ j.wins = job[r].wins /\ j.losses = job[r].losses
    <3>1. job[r] \in Job
      BY Zenon, JobOf
    <3>. QED BY Zenon, <3>1 DEF Job
  <2>2. Go(r, "advance", j) /\ pc[r] = "fail"
    BY Zenon, <1>3 DEF AdvanceBegin, LoopOver
  <2>. HIDE DEF j
  <2>3. JobFacts("advance", j)
    BY Zenon, <2>1, <2>2, JobOf DEF JobFacts, Sending, Settling
  <2>. QED BY Zenon, <1>1, <2>1, <2>2, <2>3, QuietStep DEF Pcs
<1>4. CASE CycleEnd(r)
  BY Zenon, <1>1, <1>4, IdleJob, QuietStep DEF CycleEnd, Pcs
<1>. QED BY Zenon, <1>2, <1>3, <1>4

\* Advancing: the dedupe store, and the checkpoint read and written.
LEMMA DedupeMarkStep ==
  ASSUME RelayInv, NEW r \in Relays, DedupeMark(r), deployment' = deployment
  PROVE  RelayInv'
<1>1. /\ job[r].queue # << >> /\ pc[r] = "advance" /\ Go(r, "load", job[r])
      /\ NoFault \/ Fault("advance")
      /\ UNCHANGED <<deployment, status, bus, mirror, idem, checkpoint, disk>>
      /\ dedupe' = dedupe \/ dedupe' = dedupe \cup {Next1(r)}
  BY Zenon DEF DedupeMark, HasWork, MarkProcessed
<1>2. Next1(r) \in Published
  BY Zenon, <1>1, JobOf, TakeHead DEF JobFacts, Next1, Settling
<1>3. JobFacts("load", job[r]) /\ job[r] \in Job
  BY Zenon, <1>1, JobOf DEF JobFacts, Sending, Settling
<1>4. /\ idem' \in [Entries -> IdemStatus]
      /\ dedupe' \subseteq Published /\ {checkpoint', disk'} \subseteq Published \cup {0}
  BY Zenon, <1>1, <1>2 DEF RelayInv, StoreFacts, TypeOK
<1>. QED BY Zenon, <1>1, <1>3, <1>4, StoreStep DEF Pcs

\* The checkpoint read before an advance; an error is taken for 0.
LEMMA CheckpointLoadStep ==
  ASSUME RelayInv, NEW r \in Relays, CheckpointLoad(r), deployment' = deployment
  PROVE  RelayInv'
<1>1. PICK n \in 0..MaxEvents : Go(r, "store", [job[r] EXCEPT !.seen = n])
  <2>1. checkpoint \in 0..MaxEvents /\ 0 \in 0..MaxEvents
    BY BoundsAssumption DEF RelayInv, TypeOK
  <2>. QED BY Zenon, <2>1 DEF CheckpointLoad
<1>2. /\ pc[r] = "load" /\ UNCHANGED <<deployment, status, bus, mirror, stores>>
      /\ NoFault \/ Fault("advance")
  BY Zenon DEF CheckpointLoad
<1>. DEFINE j == [job[r] EXCEPT !.seen = n]
<1>3. /\ j \in Job /\ j.queue = job[r].queue /\ j.out = job[r].out
      /\ j.wins = job[r].wins /\ j.losses = job[r].losses
  BY Zenon, JobOf DEF Job
<1>. HIDE DEF j
<1>4. JobFacts("store", j)
  BY Zenon, <1>2, <1>3, JobOf DEF JobFacts, Sending, Settling
<1>5. Go(r, "store", j)
  BY Zenon, <1>1 DEF j
<1>. QED BY Zenon, <1>2, <1>3, <1>4, <1>5, QuietStep DEF Pcs

\* A checkpoint is stored only for an entry that was published.
LEMMA CheckpointAdvanceStep ==
  ASSUME RelayInv, NEW r \in Relays, CheckpointAdvance(r), deployment' = deployment
  PROVE  RelayInv'
<1>. DEFINE j == [job[r] EXCEPT !.queue = Rest(r), !.seen = 0]
<1>1. /\ pc[r] = "store" /\ Go(r, "advance", j)
      /\ NoFault \/ Fault("advance")
      /\ UNCHANGED <<deployment, status, bus, mirror, idem, dedupe>>
      /\ checkpoint' \in {checkpoint, Next1(r)} /\ disk' \in {disk, Next1(r)}
  BY Zenon DEF CheckpointAdvance
<1>2. job[r].queue # << >>
  BY Zenon, <1>1, JobOf DEF JobFacts
<1>3. /\ Rest(r) \in Seq(Entries) /\ Range(job[r].queue) = {Next1(r)} \cup Range(Rest(r))
  BY Zenon, <1>2, HeadOf
<1>4. Next1(r) \in Published
  BY Zenon, <1>1, <1>3, JobOf DEF JobFacts, Settling
<1>5. /\ j \in Job /\ j.queue = Rest(r) /\ j.out = job[r].out
      /\ j.wins = job[r].wins /\ j.losses = job[r].losses
  <2>1. 0 \in 0..MaxEvents
    BY BoundsAssumption
  <2>. QED BY Zenon, <1>3, <2>1, JobOf DEF Job
<1>. HIDE DEF j
<1>6. JobFacts("advance", j)
  BY Zenon, <1>1, <1>3, <1>5, JobOf DEF JobFacts, Sending, Settling
<1>7. /\ idem' \in [Entries -> IdemStatus] /\ dedupe' \subseteq Published
      /\ {checkpoint', disk'} \subseteq Published \cup {0}
  BY Zenon, <1>1, <1>4 DEF RelayInv, StoreFacts, TypeOK
<1>. QED BY Zenon, <1>1, <1>5, <1>6, <1>7, StoreStep DEF Pcs

\* A killed relay starts again with what its stores kept.
LEMMA CrashStep ==
  ASSUME RelayInv, NEW r \in Relays, Crash(r), deployment' = deployment
  PROVE  RelayInv'
<1>1. /\ Go(r, "sleep", NoJob) /\ Fault("crash") /\ Reload(r) /\ UNCHANGED <<deployment, status, bus, mirror>>
  BY Zenon DEF Crash
<1>2. idem' \in [Entries -> IdemStatus]
  BY Zenon, <1>1 DEF Reload, RelayInv, TypeOK, IdemStatus, stores
<1>3. dedupe' \subseteq Published /\ {checkpoint', disk'} \subseteq Published \cup {0}
  BY Zenon, <1>1 DEF Reload, RelayInv, StoreFacts, stores
<1>. QED BY Zenon, <1>1, <1>2, <1>3, IdleJob, StoreStep DEF Pcs

\* A step that adds rows, sends or marks.
LEMMA OutboxStep ==
  ASSUME RelayInv, TypeOK', UNCHANGED <<deployment, stores>>, NEW r,
         \A s \in Relays \ {r} : pc'[s] = pc[s] /\ job'[s] = job[s],
         r \in Relays => JobFacts(pc[r], job[r])',
         Rows \subseteq Rows', Published \subseteq Published',
         \A e \in Rows : (Sent(e) => Sent(e)') /\ (mirror[e] > 0 => mirror'[e] > 0),
         \A e \in Published' \ Published : Sent(e)' /\ mirror'[e] > 0
  PROVE  RelayInv'
<1>1. ASSUME NEW s \in Relays PROVE JobFacts(pc[s], job[s])'
  <2>1. CASE s # r
    <3>1. JobFacts(pc'[s], job'[s]) /\ job'[s] \in Job
      BY Zenon, <2>1, JobOf
    <3>. QED BY Zenon, <3>1, FactsKept
  <2>. QED BY Zenon, <2>1
<1>2. StoreFacts'
  <2>1. Published \subseteq Rows
    BY Zenon DEF Published
  <2>. QED BY Zenon, <2>1 DEF RelayInv, StoreFacts, stores
<1>. QED BY Zenon, <1>1, <1>2 DEF RelayInv

\* counter-service writes a row.
LEMMA Append1Step ==
  ASSUME RelayInv, Append1, deployment' = deployment
  PROVE  RelayInv'
<1>1. /\ Len(status) < deployment.events /\ status' = Append(status, "pending")
      /\ UNCHANGED <<bus, mirror, stores, pc, job, faults>>
  BY Zenon DEF Append1
<1>2. status \in Seq({"pending", "published"}) /\ deployment.events \in 0..MaxEvents /\ Len(status) \in Nat
  BY DeploymentAssumption DEF RelayInv, TypeOK, Deployment
<1>3. /\ status' \in Seq({"pending", "published"}) /\ Len(status') = Len(status) + 1
      /\ \A i \in 1..Len(status) : status'[i] = status[i]
      /\ status'[Len(status) + 1] = "pending"
  BY <1>1, <1>2
<1>4. Rows \subseteq Rows' /\ Published' = Published
  BY <1>2, <1>3 DEF Rows, Published
<1>5. TypeOK'
  BY <1>1, <1>2, <1>3, BoundsAssumption DEF RelayInv, TypeOK, stores
<1>6. \A e : (Sent(e)' <=> Sent(e)) /\ mirror'[e] = mirror[e]
  BY Zenon, <1>1 DEF Sent
<1>7. ASSUME NEW r \in Relays PROVE JobFacts(pc[r], job[r])'
  <2>1. JobFacts(pc'[r], job'[r]) /\ job'[r] \in Job
    BY Zenon, <1>1, JobOf
  <2>. QED BY Zenon, <1>4, <1>6, <2>1, FactsKept
<1>8. StoreFacts'
  BY Zenon, <1>1, <1>4, <1>6 DEF RelayInv, StoreFacts, stores
<1>. QED BY Zenon, <1>5, <1>7, <1>8 DEF RelayInv

\* publish counts the entry on the bus before it goes on to the mirror.
LEMMA PublishBusStep ==
  ASSUME RelayInv, NEW r \in Relays, PublishBus(r), deployment' = deployment
  PROVE  RelayInv'
<1>. DEFINE j == [job[r] EXCEPT !.queue = Rest(r), !.losses = Append(@, Next1(r))]
<1>1. /\ job[r].queue # << >> /\ pc[r] = "publish" /\ UNCHANGED <<deployment, status, mirror, stores>>
      /\ \/ NoFault /\ bus' = [bus EXCEPT ![Next1(r)] = @ + 1] /\ Go(r, "mirror", job[r])
         \/ Fault("publish") /\ bus' = bus /\ Go(r, "publish", j)
  BY Zenon DEF PublishBus, HasWork
<1>2. /\ Rest(r) \in Seq(Entries) /\ Next1(r) \in Entries
      /\ Range(job[r].queue) = {Next1(r)} \cup Range(Rest(r))
      /\ Increasing(job[r].queue) => Increasing(Rest(r)) /\ \A e \in Range(Rest(r)) : Next1(r) < e
  BY Zenon, <1>1, HeadOf
<1>3. CASE bus' = bus /\ Go(r, "publish", j) /\ Fault("publish")
  <2>1. /\ Append(job[r].losses, Next1(r)) \in Seq(Entries)
        /\ Range(Append(job[r].losses, Next1(r))) = Range(job[r].losses) \cup {Next1(r)}
    BY Zenon, <1>2, JobOf, KeepEntry
  <2>2. /\ j \in Job /\ j.queue = Rest(r) /\ j.out = job[r].out /\ j.wins = job[r].wins
        /\ j.losses = Append(job[r].losses, Next1(r))
    BY Zenon, <1>2, <2>1, JobOf DEF Job
  <2>3. JobFacts("publish", j)
    <3>1. InOrder(job[r].out, job[r].queue)
      BY Zenon, <1>1, JobOf DEF JobFacts, Sending
    <3>2. InOrder(j.out, j.queue)
      BY Zenon, <1>2, <2>2, <3>1 DEF InOrder
    <3>. QED BY Zenon, <1>1, <1>2, <2>1, <2>2, <3>2, JobOf DEF JobFacts, Sending, Settling
  <2>. HIDE DEF j
  <2>. QED BY Zenon, <1>1, <1>3, <2>2, <2>3, QuietStep DEF Pcs
<1>4. CASE bus' = [bus EXCEPT ![Next1(r)] = @ + 1] /\ Go(r, "mirror", job[r]) /\ NoFault
  <2>1. /\ bus \in [Entries -> Nat] /\ pc \in [Relays -> Pcs] /\ job \in [Relays -> Job]
    BY Zenon DEF RelayInv, TypeOK
  <2>2. /\ bus' \in [Entries -> Nat] /\ bus'[Next1(r)] > 0
        /\ \A e \in Entries : Sent(e) => Sent(e)'
    BY <1>2, <1>4, <2>1 DEF Sent
  <2>3. /\ pc' \in [Relays -> Pcs] /\ job' = job /\ pc'[r] = "mirror"
        /\ \A s \in Relays \ {r} : pc'[s] = pc[s]
    BY Zenon, <1>4, <2>1 DEF Go, Pcs
  <2>4. TypeOK'
    BY Zenon, <1>1, <1>4, <2>1, <2>2, <2>3 DEF RelayInv, TypeOK, stores, NoFault
  <2>5. Rows' = Rows /\ Published' = Published /\ Rows \subseteq Entries
    BY <1>1, BoundsAssumption DEF Rows, Published, RelayInv, TypeOK, Entries
  <2>6. JobFacts(pc[r], job[r])'
    <3>1. Range(job[r].wins) \subseteq Rows /\ job[r].out = << >> /\ InOrder(job[r].out, job[r].queue)
      BY Zenon, <1>1, JobOf DEF JobFacts, Sending
    <3>2. Sent(Head(job[r].queue))'
      BY Zenon, <2>2, <2>3 DEF Next1, Sent
    <3>3. \A e \in Range(job[r].wins) : Sent(e)' /\ mirror'[e] > 0
      BY Zenon, <1>1, <2>2, <2>5, <3>1, JobOf DEF JobFacts
    <3>4. Range(job[r].queue) \cup Range(job[r].out) \cup Range(job[r].wins) \cup Range(job[r].losses) \subseteq Rows
      BY Zenon, JobOf DEF JobFacts
    <3>. QED BY Zenon, <1>1, <2>3, <2>5, <3>1, <3>2, <3>3, <3>4 DEF JobFacts, Sent, Sending, Settling
  <2>. QED BY Zenon, <1>1, <2>2, <2>3, <2>4, <2>5, <2>6, OutboxStep
<1>. QED BY Zenon, <1>1, <1>3, <1>4

\* The entry that reached both is a success; one the mirror refuses is not.
LEMMA PublishMirrorStep ==
  ASSUME RelayInv, NEW r \in Relays, PublishMirror(r), deployment' = deployment
  PROVE  RelayInv'
<1>. DEFINE l == [job[r] EXCEPT !.queue = Rest(r), !.losses = Append(@, Next1(r))]
            w == [job[r] EXCEPT !.queue = Rest(r), !.wins = Append(@, Next1(r))]
<1>1. /\ pc[r] = "mirror" /\ UNCHANGED <<deployment, status, bus, stores>>
      /\ \/ NoFault /\ mirror' = [mirror EXCEPT ![Next1(r)] = @ + 1] /\ Go(r, "publish", w)
         \/ Fault("publish") /\ mirror' = mirror /\ Go(r, "publish", l)
  BY Zenon DEF PublishMirror
<1>2. job[r].queue # << >> /\ Sent(Next1(r)) /\ job[r].out = << >> /\ InOrder(job[r].out, job[r].queue)
  BY Zenon, <1>1, JobOf DEF JobFacts, Sending, Next1
<1>3. /\ Rest(r) \in Seq(Entries) /\ Next1(r) \in Entries
      /\ Range(job[r].queue) = {Next1(r)} \cup Range(Rest(r))
      /\ Increasing(job[r].queue) => Increasing(Rest(r)) /\ \A e \in Range(Rest(r)) : Next1(r) < e
  BY Zenon, <1>2, HeadOf
<1>4. InOrder(job[r].out, Rest(r))
  BY Zenon, <1>2, <1>3 DEF InOrder
<1>5. CASE mirror' = mirror /\ Go(r, "publish", l) /\ Fault("publish")
  <2>1. /\ Append(job[r].losses, Next1(r)) \in Seq(Entries)
        /\ Range(Append(job[r].losses, Next1(r))) = Range(job[r].losses) \cup {Next1(r)}
    BY Zenon, <1>3, JobOf, KeepEntry
  <2>2. /\ l \in Job /\ l.queue = Rest(r) /\ l.out = job[r].out /\ l.wins = job[r].wins
        /\ l.losses = Append(job[r].losses, Next1(r))
    BY Zenon, <1>3, <2>1, JobOf DEF Job
  <2>. HIDE DEF l
  <2>3. JobFacts("publish", l)
    BY Zenon, <1>2, <1>3, <1>4, <2>1, <2>2, JobOf DEF JobFacts, Sending, Settling
  <2>. QED BY Zenon, <1>1, <1>5, <2>2, <2>3, QuietStep DEF Pcs
<1>6. CASE mirror' = [mirror EXCEPT ![Next1(r)] = @ + 1] /\ Go(r, "publish", w) /\ NoFault
  <2>1. /\ mirror \in [Entries -> Nat] /\ pc \in [Relays -> Pcs] /\ job \in [Relays -> Job]
    BY Zenon DEF RelayInv, TypeOK
  <2>2. /\ mirror' \in [Entries -> Nat] /\ mirror'[Next1(r)] > 0
        /\ \A e \in Entries : mirror[e] > 0 => mirror'[e] > 0
    BY <1>3, <1>6, <2>1
  <2>3. /\ Append(job[r].wins, Next1(r)) \in Seq(Entries)
        /\ Range(Append(job[r].wins, Next1(r))) = Range(job[r].wins) \cup {Next1(r)}
    BY Zenon, <1>3, JobOf, KeepEntry
  <2>4. /\ w \in Job /\ w.queue = Rest(r) /\ w.out = job[r].out /\ w.losses = job[r].losses
        /\ w.wins = Append(job[r].wins, Next1(r))
    BY Zenon, <1>3, <2>3, JobOf DEF Job
  <2>5. /\ pc' \in [Relays -> Pcs] /\ job' \in [Relays -> Job] /\ pc'[r] = "publish" /\ job'[r] = w
        /\ \A s \in Relays \ {r} : pc'[s] = pc[s] /\ job'[s] = job[s]
    BY Zenon, <1>6, <2>1, <2>4 DEF Go, Pcs
  <2>. HIDE DEF w
  <2>6. TypeOK'
    BY Zenon, <1>1, <1>6, <2>1, <2>2, <2>5 DEF RelayInv, TypeOK, stores, NoFault
  <2>7. Rows' = Rows /\ Published' = Published /\ Rows \subseteq Entries /\ \A e : Sent(e)' <=> Sent(e)
    BY <1>1, BoundsAssumption DEF Rows, Published, RelayInv, TypeOK, Entries, Sent
  <2>8. JobFacts(pc[r], job[r])'
    <3>1. /\ Range(job[r].queue) \cup Range(job[r].out) \cup Range(job[r].wins) \cup Range(job[r].losses) \subseteq Rows
          /\ \A e \in Range(job[r].wins) : Sent(e) /\ mirror[e] > 0
      BY Zenon, JobOf DEF JobFacts
    <3>2. Range(w.queue) \cup Range(w.out) \cup Range(w.wins) \cup Range(w.losses) \subseteq Rows
      BY Zenon, <1>3, <2>3, <2>4, <3>1
    <3>3. \A e \in Range(w.wins) : Sent(e)' /\ mirror'[e] > 0
      BY Zenon, <1>2, <1>3, <2>2, <2>3, <2>4, <2>7, <3>1
    <3>. QED BY Zenon, <1>2, <1>4, <2>4, <2>5, <2>7, <3>2, <3>3 DEF JobFacts, Sent, Sending, Settling
  <2>. QED BY Zenon, <1>1, <2>2, <2>5, <2>6, <2>7, <2>8, OutboxStep
<1>. QED BY Zenon, <1>1, <1>5, <1>6

\* The UPDATE marks the successes, which were sent.
LEMMA MarkPublishedStep ==
  ASSUME RelayInv, NEW r \in Relays, MarkPublished(r), deployment' = deployment
  PROVE  RelayInv'
<1>. DEFINE w == [job[r] EXCEPT !.queue = job[r].wins]
            l == [job[r] EXCEPT !.wins = << >>, !.losses = job[r].wins \o job[r].losses]
<1>1. /\ job[r].queue = << >> /\ pc[r] = "publish" /\ UNCHANGED <<deployment, bus, mirror, stores>>
      /\ \/ NoFault /\ status' = Marked(job[r].wins) /\ Go(r, "complete", w)
         \/ /\ Fault("mark") /\ Go(r, "complete", l)
            /\ status' = status \/ status' = Marked(job[r].wins)
  BY Zenon DEF MarkPublished, LoopOver
<1>2. /\ status \in Seq({"pending", "published"}) /\ Len(status) \in Nat /\ Len(status) <= MaxEvents
      /\ pc \in [Relays -> Pcs] /\ job \in [Relays -> Job]
  BY DEF RelayInv, TypeOK
<1>3. /\ Range(job[r].queue) \cup Range(job[r].out) \cup Range(job[r].wins) \cup Range(job[r].losses) \subseteq Rows
      /\ \A e \in Range(job[r].wins) : Sent(e) /\ mirror[e] > 0
  BY Zenon, JobOf DEF JobFacts
<1>4. Range(job[r].wins) = {job[r].wins[i] : i \in 1..Len(job[r].wins)}
  BY Zenon, JobOf, SeqMembers
<1>5. /\ status' \in Seq({"pending", "published"}) /\ Len(status') = Len(status)
      /\ Rows' = Rows
      /\ Published' = Published \/ Published' = Published \cup Range(job[r].wins)
      /\ status' = Marked(job[r].wins) => Published' = Published \cup Range(job[r].wins)
  <2>1. CASE status' = Marked(job[r].wins)
    <3>1. status' = [e \in 1..Len(status) |-> IF e \in Range(job[r].wins) THEN "published" ELSE status[e]]
      BY Zenon, <1>4, <2>1 DEF Marked
    <3>2. status' \in Seq({"pending", "published"}) /\ Len(status') = Len(status)
      BY <1>2, <3>1
    <3>3. Rows' = Rows
      BY Zenon, <3>2 DEF Rows
    <3>4. Published' = Published \cup Range(job[r].wins)
      <4>1. \A e \in Rows : status'[e] = IF e \in Range(job[r].wins) THEN "published" ELSE status[e]
        BY Zenon, <3>1 DEF Rows
      <4>. QED BY Zenon, <1>3, <3>3, <4>1 DEF Published
    <3>. QED BY Zenon, <3>2, <3>3, <3>4
  <2>2. CASE status' = status /\ status' # Marked(job[r].wins)
    BY Zenon, <1>2, <2>2 DEF Rows, Published
  <2>. QED BY Zenon, <1>1, <2>1, <2>2
<1>6. PICK k \in Job : /\ Go(r, "complete", k)
                       /\ k.out = << >> /\ k.seen = job[r].seen
                       /\ Range(k.queue) \subseteq Range(k.wins)
                       /\ Range(k.wins) \cup Range(k.losses) = Range(job[r].wins) \cup Range(job[r].losses)
                       /\ Range(k.wins) \subseteq Range(job[r].wins)
                       /\ Range(k.wins) \subseteq Published'
                       /\ NoFault \/ Fault("mark")
  <2>0. job[r].out = << >>
    BY Zenon, <1>1, JobOf DEF JobFacts
  <2>1. CASE NoFault /\ status' = Marked(job[r].wins) /\ Go(r, "complete", w)
    <3>1. w \in Job /\ w.out = << >> /\ w.seen = job[r].seen /\ w.queue = job[r].wins /\ w.wins = job[r].wins /\ w.losses = job[r].losses
      BY Zenon, <2>0, JobOf DEF Job
    <3>. QED BY Zenon, <1>5, <2>1, <3>1
  <2>2. CASE Fault("mark") /\ Go(r, "complete", l)
    <3>1. /\ job[r].wins \o job[r].losses \in Seq(Entries)
          /\ Range(job[r].wins \o job[r].losses) = Range(job[r].wins) \cup Range(job[r].losses)
      BY Zenon, JobOf, JoinEntries
    <3>2. /\ l \in Job /\ l.out = << >> /\ l.seen = job[r].seen /\ l.queue = << >> /\ l.wins = << >>
          /\ l.losses = job[r].wins \o job[r].losses
      BY Zenon, <1>1, <2>0, <3>1, JobOf, NoMembers DEF Job
    <3>. QED BY Zenon, <2>2, <3>1, <3>2, NoMembers
  <2>. QED BY Zenon, <1>1, <2>1, <2>2
<1>7. /\ pc' \in [Relays -> Pcs] /\ job' \in [Relays -> Job] /\ pc'[r] = "complete" /\ job'[r] = k
      /\ \A s \in Relays \ {r} : pc'[s] = pc[s] /\ job'[s] = job[s]
  BY Zenon, <1>2, <1>6 DEF Go, Pcs
<1>8. TypeOK'
  BY Zenon, <1>1, <1>2, <1>5, <1>6, <1>7, RecordFault DEF RelayInv, TypeOK, stores, NoFault
<1>9. \A e : (Sent(e)' <=> Sent(e)) /\ mirror'[e] = mirror[e]
  BY Zenon, <1>1 DEF Sent
<1>10. JobFacts(pc[r], job[r])'
  <2>1. Range(k.queue) \cup Range(k.out) \cup Range(k.wins) \cup Range(k.losses) \subseteq Rows
    BY Zenon, <1>3, <1>6, NoMembers
  <2>2. \A e \in Range(k.wins) : Sent(e)' /\ mirror'[e] > 0
    BY Zenon, <1>3, <1>6, <1>9
  <2>. QED BY Zenon, <1>5, <1>6, <1>7, <2>1, <2>2 DEF JobFacts, Sent, Sending, Settling
<1>. QED BY Zenon, <1>1, <1>3, <1>5, <1>7, <1>8, <1>9, <1>10, OutboxStep

\* Every step of the worker and of the counter service keeps the invariant.
LEMMA RelayInvStep ==
  RelayInv /\ [Next]_vars => RelayInv'
<1>. SUFFICES ASSUME RelayInv, [Next]_vars PROVE RelayInv'
  BY Zenon
<1>1. CASE UNCHANGED vars
  BY Zenon, <1>1 DEF RelayInv, TypeOK, JobFacts, StoreFacts, Published, Sent, Rows, vars, stores
<1>2. CASE Append1 /\ deployment' = deployment
  BY Zenon, <1>2, Append1Step
<1>3. ASSUME NEW r \in Replicas, RelayStep(r) \/ Crash(r), deployment' = deployment PROVE RelayInv'
  <2>1. r \in Relays
    BY Zenon, DeploymentAssumption DEF RelayInv, Deployment, Replicas
  <2>. QED BY Zenon, <1>3, <2>1, PollCheckpointStep, PollFetchStep, DedupeCheckStep, HandOverStep, ClaimStep,
              PublishBusStep, PublishMirrorStep, MarkPublishedStep, SettleStep, BeginStep, DedupeMarkStep,
              CheckpointLoadStep, CheckpointAdvanceStep, CrashStep DEF RelayStep
<1>. QED BY Zenon, <1>1, <1>2, <1>3 DEF Next

\* It holds before the first row.
LEMMA RelayInvInit == Init => RelayInv
<1>. SUFFICES ASSUME Init PROVE RelayInv
  BY Zenon
<1>1. /\ << >> \in Seq(Entries) /\ Range(<< >>) = {} /\ 0 \in 0..MaxEvents
      /\ << >> \in Seq({"pending", "published"}) /\ Len(<< >>) = 0
      /\ deployment \in Deployment /\ << >> \in Seq(deployment.faults)
      /\ deployment.failures \in Nat
  BY NoMembers, BoundsAssumption, DeploymentAssumption DEF Init, Deployment
<1>2. NoJob \in Job
  BY Zenon, <1>1 DEF NoJob, Job
<1>3. TypeOK
  BY <1>1, <1>2 DEF Init, TypeOK, IdemStatus, Pcs
<1>4. ASSUME NEW r \in Relays PROVE JobFacts(pc[r], job[r])
  BY Zenon, <1>1 DEF Init, JobFacts, NoJob, Sending, Settling
<1>5. Rows = {}
  BY <1>1 DEF Rows, Init
<1>6. StoreFacts
  BY Zenon, <1>5 DEF Init, StoreFacts, Published
<1>. QED BY Zenon, <1>3, <1>4, <1>6 DEF RelayInv, Init

\* What the worker writes down is true: for any number of rows, replicas and
\* failed calls, a row marked published was sent on the bus and on the mirror, and
\* the checkpoint, its file and the dedupe store name published rows.
THEOREM RelayCorrect == Spec => [](TypeOK /\ RecordsAreTrue)
<1>1. RelayInv => TypeOK /\ RecordsAreTrue
  BY DEF RelayInv, RecordsAreTrue, PublishedWasSent, ProcessedIsPublished, StoreFacts, Published, Sent, Rows
<1>. QED BY <1>1, RelayInvInit, RelayInvStep, PTL DEF Spec

-----------------------------------------------------------------------------
(* One replica with the local stores. *)

Alone(r) == ~Shared /\ Replicas = {r}

\* What is in the relay's hands on its way to the bus, and of this what it has
\* claimed.
InHand(at, j) == IF at \in Sending THEN Range(j.out) \cup Range(j.queue) ELSE {}
Claimed(at, j) ==
  IF at \in {"claim", "start"} THEN Range(j.out)
  ELSE IF at \in {"publish", "mirror"} THEN Range(j.queue) ELSE {}

\* A claim stands until it is settled, and an entry fails once in a cycle.
HeldJob(at, j) ==
  /\ \A e \in Claimed(at, j) : idem[e] = "in_progress"
  /\ at \in {"fetch", "dedupe", "claim", "start"} => j.losses = << >>
  /\ at \in {"publish", "mirror"} => \A e \in Range(j.losses), f \in Range(j.queue) : e < f

\* Every send of the entry so far has been paid for by a fault.
Paid(e) == bus[e] <= Len(faults)

PaidJob(at, j) ==
  /\ at \in {"claim", "start"} => \A e \in Range(j.out) : Paid(e)
  /\ at = "start" => Paid(Head(j.queue))
  /\ at = "publish" => \A e \in Range(j.queue) : Paid(e)
  /\ at = "mirror" => \A e \in Range(Tail(j.queue)) : Paid(e)
  /\ \A e \in Range(j.losses) : Paid(e)

\* An entry that may be claimed is paid for, and one that is sent was.
PaidBy(r) ==
  /\ \A e \in Entries : bus[e] <= 1 + Len(faults)
  /\ \A e \in Entries : idem[e] \in {"unknown", "failed"} => Paid(e)
  /\ PaidJob(pc[r], job[r])

Steady == Never({"claim", "publish", "settle"})

OrderJob(at, j) ==
  /\ at = "fetch" => \A e \in Entries : e <= j.since => Sent(e)
  /\ \A e \in InHand(at, j) : \A f \in 1..e - 1 : Sent(f) \/ f \in InHand(at, j)

\* No claim, publish or settlement having failed: the entries before one that
\* was sent, up to the checkpoint, or before one in the relay's hands were sent
\* or are in its hands too.
Ordered(r) ==
  /\ \A e, f \in Entries : e < f /\ Sent(f) => Sent(e)
  /\ \A e \in Entries : e <= checkpoint \/ e <= disk => Sent(e)
  /\ \A e \in Entries : StartRefused(e) => Sent(e) \/ e \in Claimed(pc[r], job[r])
  /\ OrderJob(pc[r], job[r])

Orderly(r) == HeldJob(pc[r], job[r]) /\ PaidBy(r) /\ (Steady => Ordered(r))
LocalInv == \A r \in Relays : Alone(r) => Orderly(r)

-----------------------------------------------------------------------------
(* The steps. *)

\* A failed call is on record from then on.
LEMMA Faulted ==
  ASSUME RelayInv, NEW k, Fault(k)
  PROVE  /\ Len(faults) \in Nat /\ Len(faults') = Len(faults) + 1
         /\ Steady' => Steady
         /\ k \in {"claim", "publish", "settle"} => ~Steady'
<1>1. faults \in Seq(deployment.faults) /\ k \in deployment.faults /\ faults' = Append(faults, k)
  BY Zenon DEF RelayInv, TypeOK, Fault
<1>2. /\ Len(faults) \in Nat /\ Len(faults') = Len(faults) + 1 /\ faults'[Len(faults) + 1] = k
      /\ \A i \in 1..Len(faults) : i \in 1..Len(faults') /\ faults'[i] = faults[i]
  BY <1>1
<1>3. Steady' => Steady
  BY Zenon, <1>2 DEF Steady, Never
<1>4. k \in {"claim", "publish", "settle"} => ~Steady'
  <2>1. Len(faults) + 1 \in 1..Len(faults')
    BY <1>2
  <2>. QED BY Zenon, <1>2, <2>1 DEF Steady, Never
<1>. QED BY Zenon, <1>2, <1>3, <1>4

\* What the local variables of a cycle name are entries.
LEMMA JobMembers ==
  ASSUME NEW j \in Job
  PROVE  /\ Range(j.queue) \subseteq Entries /\ Range(j.out) \subseteq Entries
         /\ Range(j.wins) \subseteq Entries /\ Range(j.losses) \subseteq Entries
         /\ j.queue # << >> => Head(j.queue) \in Entries /\ Range(Tail(j.queue)) \subseteq Entries
<1>1. /\ j.queue \in Seq(Entries) /\ j.out \in Seq(Entries) /\ j.wins \in Seq(Entries) /\ j.losses \in Seq(Entries)
  BY Zenon DEF Job
<1>2. Range(j.queue) \subseteq Entries /\ Range(j.out) \subseteq Entries
  BY Zenon, <1>1, SeqMembers
<1>3. Range(j.wins) \subseteq Entries /\ Range(j.losses) \subseteq Entries
  BY Zenon, <1>1, SeqMembers
<1>4. ASSUME j.queue # << >> PROVE Head(j.queue) \in Entries /\ Range(Tail(j.queue)) \subseteq Entries
  BY <1>1, <1>2, <1>4, TakeHead
<1>. QED BY Zenon, <1>2, <1>3, <1>4

\* A failed call pays for every send so far.
LEMMA PaidAfterFault ==
  ASSUME RelayInv, RelayInv', NEW r \in Relays, PaidBy(r), bus' = bus, NEW k, Fault(k)
  PROVE  PaidBy(r)'
<1>1. /\ Len(faults) \in Nat /\ Len(faults') = Len(faults) + 1 /\ bus \in [Entries -> Nat]
      /\ \A e \in Entries : bus[e] <= 1 + Len(faults)
  BY Zenon, Faulted DEF RelayInv, TypeOK, PaidBy
<1>2. ASSUME NEW e \in Entries PROVE Paid(e)' /\ bus'[e] <= 1 + Len(faults')
  <2>1. bus[e] \in Nat /\ bus[e] <= 1 + Len(faults)
    BY Zenon, <1>1
  <2>. QED BY <1>1, <2>1 DEF Paid
<1>3. /\ job'[r] \in Job
      /\ pc'[r] \in {"start", "mirror"} => job'[r].queue # << >>
  BY Zenon DEF RelayInv, TypeOK, JobFacts
<1>4. /\ Range(job'[r].queue) \subseteq Entries /\ Range(job'[r].out) \subseteq Entries
      /\ Range(job'[r].losses) \subseteq Entries
      /\ job'[r].queue # << >> => Head(job'[r].queue) \in Entries /\ Range(Tail(job'[r].queue)) \subseteq Entries
  BY Zenon, <1>3, JobMembers
<1>5. \A e \in Entries : bus'[e] <= Len(faults')
  BY Zenon, <1>2 DEF Paid
<1>6. PaidJob(pc[r], job[r])'
  BY Zenon, <1>3, <1>4, <1>5 DEF PaidJob, Paid
<1>. QED BY Zenon, <1>2, <1>5, <1>6 DEF PaidBy, Paid

\* A step that sends nothing.
LEMMA OrderlyStep ==
  ASSUME RelayInv, RelayInv', NEW r \in Relays, Orderly(r), bus' = bus,
         NEW k, NoFault \/ Fault(k),
         HeldJob(pc[r], job[r])',
         NoFault => PaidJob(pc[r], job[r])' /\ \A e \in Entries : idem'[e] \in {"unknown", "failed"} => Paid(e),
         Ordered(r) /\ Steady' =>
           /\ \A e \in Entries : e <= checkpoint' \/ e <= disk' => Sent(e)
           /\ \A e \in Entries : StartRefused(e)' => Sent(e) \/ e \in Claimed(pc'[r], job'[r])
           /\ OrderJob(pc[r], job[r])'
  PROVE  Orderly(r)'
<1>1. PaidBy(r)'
  <2>1. CASE Fault(k)
    BY Zenon, <2>1, PaidAfterFault DEF Orderly
  <2>2. CASE NoFault
    BY Zenon, <2>2 DEF NoFault, Orderly, PaidBy, Paid
  <2>. QED BY Zenon, <2>1, <2>2
<1>2. Steady' => Steady
  BY Zenon, Faulted DEF NoFault, Steady, Never
<1>3. \A e : Sent(e)' <=> Sent(e)
  BY Zenon DEF Sent
<1>4. ASSUME Steady' PROVE Ordered(r)'
  <2>1. Ordered(r)
    BY Zenon, <1>2, <1>4 DEF Orderly
  <2>2. \A e, f \in Entries : e < f /\ Sent(f) => Sent(e)
    BY Zenon, <2>1 DEF Ordered
  <2>3. \A e, f \in Entries : e < f /\ Sent(f)' => Sent(e)'
    BY Zenon, <2>2 DEF Sent
  <2>4. /\ \A e \in Entries : e <= checkpoint' \/ e <= disk' => Sent(e)'
        /\ \A e \in Entries : StartRefused(e)' => Sent(e)' \/ e \in Claimed(pc'[r], job'[r])
        /\ OrderJob(pc[r], job[r])'
    BY Zenon, <1>3, <1>4, <2>1
  <2>. QED BY Zenon, <2>3, <2>4 DEF Ordered
<1>. QED BY Zenon, <1>1, <1>4 DEF Orderly

\* Where a step leaves the relay.
LEMMA Gone ==
  ASSUME RelayInv, NEW r \in Relays, NEW at, NEW j, Go(r, at, j)
  PROVE  pc'[r] = at /\ job'[r] = j
BY Zenon DEF RelayInv, TypeOK, Go

\* A step to a place where nothing is in the relay's hands.
LEMMA OutsideStep ==
  ASSUME RelayInv, RelayInv', NEW r \in Relays, Orderly(r), bus' = bus,
         NEW k, NoFault \/ Fault(k), pc'[r] \in Settling \cup {"sleep"},
         NoFault => /\ \A e \in Range(job'[r].losses) : Paid(e)
                    /\ \A e \in Entries : idem'[e] \in {"unknown", "failed"} => Paid(e),
         Ordered(r) /\ Steady' =>
           /\ \A e \in Entries : e <= checkpoint' \/ e <= disk' => Sent(e)
           /\ \A e \in Entries : StartRefused(e)' => Sent(e)
  PROVE  Orderly(r)'
<1>1. /\ Claimed(pc'[r], job'[r]) = {} /\ InHand(pc'[r], job'[r]) = {}
      /\ pc'[r] \notin {"fetch", "dedupe", "claim", "start", "publish", "mirror"}
  BY Zenon DEF Claimed, InHand, Settling, Sending
<1>2. HeldJob(pc[r], job[r])'
  BY Zenon, <1>1 DEF HeldJob
<1>3. ASSUME NoFault PROVE PaidJob(pc[r], job[r])'
  <2>1. \A e \in Range(job'[r].losses) : Paid(e)'
    BY Zenon, <1>3 DEF Paid, NoFault
  <2>. QED BY Zenon, <1>1, <2>1 DEF PaidJob
<1>4. OrderJob(pc[r], job[r])'
  BY Zenon, <1>1 DEF OrderJob
<1>. QED BY Zenon, <1>2, <1>3, <1>4, OrderlyStep

\* Such a step that leaves the stores alone and forgets no claim.
LEMMA OutsideQuiet ==
  ASSUME RelayInv, RelayInv', NEW r \in Relays, Orderly(r), UNCHANGED <<bus, idem, checkpoint, disk>>,
         NEW k, NoFault \/ Fault(k), pc'[r] \in Settling \cup {"sleep"},
         Claimed(pc[r], job[r]) = {},
         NoFault => Range(job'[r].losses) \subseteq Range(job[r].losses)
  PROVE  Orderly(r)'
<1>1. /\ \A e \in Range(job[r].losses) : Paid(e)
      /\ \A e \in Entries : idem[e] \in {"unknown", "failed"} => Paid(e)
  BY Zenon DEF Orderly, PaidBy, PaidJob
<1>2. ASSUME Ordered(r)
      PROVE  /\ \A e \in Entries : e <= checkpoint' \/ e <= disk' => Sent(e)
             /\ \A e \in Entries : StartRefused(e)' => Sent(e)
  BY Zenon, <1>2 DEF Ordered, StartRefused
<1>. QED BY Zenon, <1>1, <1>2, OutsideStep

\* The steps to such a place that leave the stores alone.
LEMMA OrderlyLeave ==
  ASSUME RelayInv, RelayInv', NEW r \in Relays, Orderly(r),
         \/ MarkPublished(r) \/ FailBegin(r) \/ AdvanceBegin(r) \/ DedupeMark(r) \/ CheckpointLoad(r) \/ CycleEnd(r)
  PROVE  Orderly(r)'
<1>1. Range(<< >>) = {}
  BY Zenon, NoMembers
<1>2. CASE MarkPublished(r)
  <2>1. PICK j : /\ Go(r, "complete", j) /\ (NoFault \/ Fault("mark"))
                 /\ NoFault => j.losses = job[r].losses
                 /\ UNCHANGED <<bus, idem, checkpoint, disk>> /\ LoopOver(r, "publish")
    <3>1. CASE NoFault /\ Go(r, "complete", [job[r] EXCEPT !.queue = job[r].wins])
      <4>. DEFINE w == [job[r] EXCEPT !.queue = job[r].wins]
      <4>1. Go(r, "complete", w) /\ w.losses = job[r].losses
        BY Zenon, <3>1, JobOf DEF Job
      <4>. HIDE DEF w
      <4>. QED BY Zenon, <1>2, <3>1, <4>1 DEF MarkPublished, stores
    <3>2. CASE Fault("mark") /\ Go(r, "complete", [job[r] EXCEPT !.wins = << >>, !.losses = job[r].wins \o job[r].losses])
      <4>1. ~NoFault
        BY <3>2, Faulted DEF NoFault
      <4>. QED BY Zenon, <1>2, <3>2, <4>1 DEF MarkPublished, stores
    <3>. QED BY Zenon, <1>2, <3>1, <3>2 DEF MarkPublished
  <2>2. pc'[r] = "complete" /\ job'[r] = j
    BY Zenon, <2>1, Gone
  <2>3. Claimed(pc[r], job[r]) = {}
    BY Zenon, <1>1, <2>1 DEF LoopOver, Claimed
  <2>. QED BY Zenon, <2>1, <2>2, <2>3, OutsideQuiet DEF Settling
<1>3. CASE FailBegin(r) \/ AdvanceBegin(r) \/ DedupeMark(r) \/ CheckpointLoad(r)
  <2>1. PICK at, j :
          /\ at \in {"fail", "advance", "load", "store"}
          /\ Go(r, at, j) /\ j.losses = job[r].losses
          /\ NoFault \/ Fault("advance")
          /\ UNCHANGED <<bus, idem, checkpoint, disk>> /\ pc[r] \in Settling
    <3>1. /\ [job[r] EXCEPT !.queue = job[r].losses].losses = job[r].losses
          /\ [job[r] EXCEPT !.queue = job[r].wins].losses = job[r].losses
          /\ [job[r] EXCEPT !.seen = checkpoint].losses = job[r].losses
          /\ [job[r] EXCEPT !.seen = 0].losses = job[r].losses
      BY Zenon, JobOf DEF Job
    <3>2. CASE FailBegin(r)
      <4>. DEFINE w == [job[r] EXCEPT !.queue = job[r].losses]
      <4>1. Go(r, "fail", w) /\ w.losses = job[r].losses
        BY Zenon, <3>1, <3>2 DEF FailBegin
      <4>. HIDE DEF w
      <4>. QED BY <3>2, <4>1 DEF FailBegin, LoopOver, stores, Settling
    <3>3. CASE AdvanceBegin(r)
      <4>. DEFINE w == [job[r] EXCEPT !.queue = job[r].wins]
      <4>1. Go(r, "advance", w) /\ w.losses = job[r].losses
        BY Zenon, <3>1, <3>3 DEF AdvanceBegin
      <4>. HIDE DEF w
      <4>. QED BY <3>3, <4>1 DEF AdvanceBegin, LoopOver, stores, Settling
    <3>4. CASE DedupeMark(r)
      BY <3>4 DEF DedupeMark, HasWork, stores, Settling
    <3>5. CASE CheckpointLoad(r)
      <4>1. CASE Go(r, "store", [job[r] EXCEPT !.seen = checkpoint]) /\ NoFault
        <5>. DEFINE w == [job[r] EXCEPT !.seen = checkpoint]
        <5>1. Go(r, "store", w) /\ w.losses = job[r].losses
          BY Zenon, <3>1, <4>1
        <5>. HIDE DEF w
        <5>. QED BY <3>5, <4>1, <5>1 DEF CheckpointLoad, stores, Settling
      <4>2. CASE Go(r, "store", [job[r] EXCEPT !.seen = 0]) /\ Fault("advance")
        <5>. DEFINE w == [job[r] EXCEPT !.seen = 0]
        <5>1. Go(r, "store", w) /\ w.losses = job[r].losses
          BY Zenon, <3>1, <4>2
        <5>. HIDE DEF w
        <5>. QED BY <3>5, <4>2, <5>1 DEF CheckpointLoad, stores, Settling
      <4>. QED BY Zenon, <3>5, <4>1, <4>2 DEF CheckpointLoad
    <3>. QED BY Zenon, <1>3, <3>2, <3>3, <3>4, <3>5
  <2>2. pc'[r] = at /\ job'[r] = j
    BY Zenon, <2>1, Gone
  <2>3. Claimed(pc[r], job[r]) = {}
    BY Zenon, <2>1 DEF Claimed, Settling
  <2>. QED BY Zenon, <2>1, <2>2, <2>3, OutsideQuiet DEF Settling
<1>4. CASE CycleEnd(r)
  <2>1. pc'[r] = "sleep" /\ job'[r] = NoJob /\ NoFault /\ UNCHANGED <<bus, idem, checkpoint, disk>> /\ pc[r] = "advance"
    BY Zenon, <1>4, Gone DEF CycleEnd, LoopOver, stores
  <2>2. Claimed(pc[r], job[r]) = {} /\ Range(job'[r].losses) = {}
    BY <1>1, <2>1 DEF Claimed, NoJob
  <2>. QED BY Zenon, <2>1, <2>2, OutsideQuiet
<1>. QED BY Zenon, <1>2, <1>3, <1>4

\* Settling an entry: a completed one was sent, a failed one was paid for.
LEMMA OrderlySettle ==
  ASSUME RelayInv, RelayInv', NEW r \in Relays, Orderly(r), Complete(r) \/ Fail(r)
  PROVE  Orderly(r)'
<1>. DEFINE p == [job[r] EXCEPT !.queue = Rest(r)]
<1>1. PICK at, outcome :
        /\ <<at, outcome>> \in {<<"complete", "completed">>, <<"fail", "failed">>}
        /\ Settle(r, at, outcome)
  BY DEF Complete, Fail
<1>2. /\ at \in {"complete", "fail"} /\ (at = "complete" => outcome = "completed") /\ (at = "fail" => outcome = "failed")
      /\ job[r].queue # << >> /\ pc[r] = at /\ UNCHANGED <<bus, checkpoint, disk>>
      /\ NoFault \/ Fault("settle")
      /\ Go(r, at, p)
      /\ idem' = idem \/ idem' = [idem EXCEPT ![Next1(r)] = outcome]
      /\ idem \in [Entries -> IdemStatus]
  BY Zenon, <1>1 DEF Settle, HasWork, SetStatus, RelayInv, TypeOK
<1>3. p.losses = job[r].losses
  BY Zenon, JobOf DEF Job
<1>4. pc'[r] = at /\ job'[r].losses = job[r].losses
  <2>. HIDE DEF p
  <2>1. pc'[r] = at /\ job'[r] = p
    BY Zenon, <1>2, Gone
  <2>. QED BY Zenon, <1>3, <2>1
<1>5. Next1(r) \in Entries /\ Next1(r) \in Range(job[r].queue)
  BY Zenon, <1>2, JobOf, TakeHead DEF Next1
<1>6. (at = "complete" => Sent(Next1(r))) /\ (at = "fail" => Next1(r) \in Range(job[r].losses))
  <2>1. JobFacts(pc[r], job[r])
    BY Zenon, JobOf
  <2>2. CASE at = "complete"
    BY Zenon, <1>2, <1>5, <2>1, <2>2 DEF JobFacts, Settling
  <2>3. CASE at = "fail"
    BY Zenon, <1>2, <1>5, <2>1, <2>3 DEF JobFacts
  <2>. QED BY Zenon, <1>2, <2>2, <2>3
<1>7. Claimed(pc[r], job[r]) = {}
  BY Zenon, <1>2 DEF Claimed
<1>8. /\ \A e \in Range(job[r].losses) : Paid(e)
      /\ \A e \in Entries : idem[e] \in {"unknown", "failed"} => Paid(e)
  BY Zenon DEF Orderly, PaidBy, PaidJob
<1>9. ASSUME NEW e \in Entries, idem'[e] \in {"unknown", "failed"} PROVE Paid(e)
  BY Zenon, <1>2, <1>5, <1>6, <1>8, <1>9
<1>10. ASSUME Ordered(r), NEW e \in Entries, StartRefused(e)' PROVE Sent(e)
  <2>1. StartRefused(e) => Sent(e)
    BY Zenon, <1>7, <1>10 DEF Ordered
  <2>. QED BY Zenon, <1>2, <1>5, <1>6, <1>10, <2>1 DEF StartRefused
<1>11. ASSUME Ordered(r) PROVE \A e \in Entries : e <= checkpoint' \/ e <= disk' => Sent(e)
  BY Zenon, <1>2, <1>11 DEF Ordered
<1>12. at \in Settling
  BY Zenon, <1>2 DEF Settling
<1>. QED BY Zenon, <1>2, <1>4, <1>8, <1>9, <1>10, <1>11, <1>12, OutsideStep

\* The checkpoint moves to an entry that was sent, and so were those before it.
LEMMA OrderlyAdvance ==
  ASSUME RelayInv, RelayInv', NEW r \in Relays, Orderly(r), CheckpointAdvance(r)
  PROVE  Orderly(r)'
<1>. DEFINE p == [job[r] EXCEPT !.queue = Rest(r), !.seen = 0]
<1>1. /\ pc[r] = "store" /\ UNCHANGED <<bus, idem>> /\ Go(r, "advance", p)
      /\ NoFault \/ Fault("advance")
      /\ checkpoint' = checkpoint \/ checkpoint' = Next1(r)
      /\ disk' = disk \/ disk' = Next1(r)
  BY Zenon DEF CheckpointAdvance
<1>2. p.losses = job[r].losses
  BY Zenon, JobOf DEF Job
<1>3. pc'[r] = "advance" /\ job'[r].losses = job[r].losses
  <2>. HIDE DEF p
  <2>1. pc'[r] = "advance" /\ job'[r] = p
    BY Zenon, <1>1, Gone
  <2>. QED BY Zenon, <1>2, <2>1
<1>4. job[r].queue # << >> /\ Range(job[r].queue) \subseteq Range(job[r].wins) /\ \A e \in Range(job[r].wins) : Sent(e)
  <2>1. JobFacts(pc[r], job[r])
    BY Zenon, JobOf
  <2>. QED BY Zenon, <1>1, <2>1 DEF JobFacts, Settling
<1>5. Next1(r) \in Entries /\ Sent(Next1(r))
  BY Zenon, <1>4, JobOf, TakeHead DEF Next1
<1>6. Claimed(pc[r], job[r]) = {}
  BY Zenon, <1>1 DEF Claimed
<1>7. /\ \A e \in Range(job[r].losses) : Paid(e)
      /\ \A e \in Entries : idem[e] \in {"unknown", "failed"} => Paid(e)
  BY Zenon DEF Orderly, PaidBy, PaidJob
<1>8. ASSUME Ordered(r), NEW e \in Entries, e <= checkpoint' \/ e <= disk' PROVE Sent(e)
  <2>1. e <= Next1(r) => Sent(e)
    <3>1. e \in Nat /\ Next1(r) \in Nat
      BY <1>5, BoundsAssumption DEF Entries
    <3>. QED BY <1>5, <1>8, <3>1 DEF Ordered
  <2>2. e <= checkpoint \/ e <= disk => Sent(e)
    BY Zenon, <1>8 DEF Ordered
  <2>. QED BY Zenon, <1>1, <1>8, <2>1, <2>2
<1>9. ASSUME Ordered(r), NEW e \in Entries, StartRefused(e)' PROVE Sent(e)
  BY Zenon, <1>1, <1>6, <1>9 DEF Ordered, StartRefused
<1>10. "advance" \in Settling
  BY Zenon DEF Settling
<1>. QED BY Zenon, <1>1, <1>3, <1>7, <1>8, <1>9, <1>10, OutsideStep

\* A killed worker loses its claims; its checkpoint file names what it did
\* before, or nothing.
LEMMA OrderlyCrash ==
  ASSUME RelayInv, RelayInv', NEW r \in Relays, Orderly(r), ~Shared, Crash(r)
  PROVE  Orderly(r)'
<1>1. /\ Fault("crash") /\ Go(r, "sleep", NoJob) /\ bus' = bus
      /\ idem' = [e \in Entries |-> "unknown"]
      /\ disk' \in {disk, 0} /\ checkpoint' = disk'
  BY Zenon DEF Crash, Reload
<1>2. pc'[r] = "sleep"
  BY Zenon, <1>1, Gone
<1>3. ~NoFault
  BY <1>1, Faulted DEF NoFault
<1>4. ASSUME Ordered(r), NEW e \in Entries, e <= checkpoint' \/ e <= disk' PROVE Sent(e)
  <2>1. e \in Nat /\ ~(e <= 0)
    BY BoundsAssumption DEF Entries
  <2>. QED BY Zenon, <1>1, <1>4, <2>1 DEF Ordered
<1>5. \A e \in Entries : ~StartRefused(e)'
  BY Zenon, <1>1 DEF StartRefused
<1>. QED BY Zenon, <1>1, <1>2, <1>3, <1>4, <1>5, OutsideStep

\* A step that changes no store.
LEMMA InsideStep ==
  ASSUME RelayInv, RelayInv', NEW r \in Relays, Orderly(r), UNCHANGED <<bus, idem, checkpoint, disk>>,
         NEW k, NoFault \/ Fault(k),
         HeldJob(pc[r], job[r])',
         NoFault => PaidJob(pc[r], job[r])',
         Ordered(r) /\ Steady' =>
           /\ \A e \in Entries : StartRefused(e) => Sent(e) \/ e \in Claimed(pc'[r], job'[r])
           /\ OrderJob(pc[r], job[r])'
  PROVE  Orderly(r)'
<1>1. \A e \in Entries : idem'[e] \in {"unknown", "failed"} => Paid(e)
  BY Zenon DEF Orderly, PaidBy
<1>2. ASSUME Ordered(r) PROVE \A e \in Entries : e <= checkpoint' \/ e <= disk' => Sent(e)
  BY Zenon, <1>2 DEF Ordered
<1>3. \A e \in Entries : StartRefused(e)' <=> StartRefused(e)
  BY Zenon DEF StartRefused
<1>. QED BY Zenon, <1>1, <1>2, <1>3, OrderlyStep

\* What leaves the relay's hands was sent.
LEMMA HandsKept ==
  ASSUME RelayInv, NEW r \in Relays, OrderJob(pc[r], job[r]), pc'[r] \in Sending,
         \A e \in Entries : Sent(e) => Sent(e)',
         InHand(pc'[r], job'[r]) \subseteq InHand(pc[r], job[r]),
         \A e \in InHand(pc[r], job[r]) \ InHand(pc'[r], job'[r]) : Sent(e)'
  PROVE  OrderJob(pc[r], job[r])'
<1>1. InHand(pc[r], job[r]) \subseteq Entries
  BY Zenon, JobOf, JobMembers DEF InHand
<1>2. pc'[r] # "fetch"
  BY Zenon DEF Sending
<1>3. ASSUME NEW e \in InHand(pc'[r], job'[r]), NEW f \in 1..e - 1
      PROVE  Sent(f)' \/ f \in InHand(pc'[r], job'[r])
  <2>1. e \in InHand(pc[r], job[r]) /\ e \in Entries
    BY Zenon, <1>1
  <2>2. Sent(f) \/ f \in InHand(pc[r], job[r])
    BY Zenon, <2>1 DEF OrderJob
  <2>3. f \in Entries
    BY <2>1, BoundsAssumption DEF Entries
  <2>. QED BY Zenon, <2>2, <2>3
<1>4. \A e \in InHand(pc'[r], job'[r]) : \A f \in 1..e - 1 : Sent(f)' \/ f \in InHand(pc'[r], job'[r])
  BY Zenon, <1>3
<1>. QED BY Zenon, <1>2, <1>4 DEF OrderJob, InHand

\* Polling starts behind what was sent.
LEMMA OrderlyPoll ==
  ASSUME RelayInv, RelayInv', NEW r \in Relays, Orderly(r), PollCheckpoint(r)
  PROVE  Orderly(r)'
<1>1. PICK c \in {0, checkpoint} :
        /\ pc[r] = "sleep" /\ UNCHANGED <<bus, idem, checkpoint, disk>>
        /\ NoFault \/ Fault("poll")
        /\ Go(r, "fetch", [NoJob EXCEPT !.since = c])
  <2>1. NoJob = [NoJob EXCEPT !.since = 0]
    BY DEF NoJob
  <2>. QED BY Zenon, <2>1 DEF PollCheckpoint, stores
<1>2. pc'[r] = "fetch" /\ job'[r] = [NoJob EXCEPT !.since = c]
  BY Zenon, <1>1, Gone
<1>3. job'[r].since = c /\ job'[r].losses = << >>
  BY Zenon, <1>2 DEF NoJob
<1>4. Claimed(pc'[r], job'[r]) = {} /\ InHand(pc'[r], job'[r]) = {} /\ Claimed(pc[r], job[r]) = {}
  BY Zenon, <1>1, <1>2 DEF Claimed, InHand, Sending
<1>5. HeldJob(pc[r], job[r])'
  BY Zenon, <1>2, <1>3, <1>4 DEF HeldJob
<1>6. PaidJob(pc[r], job[r])'
  BY Zenon, <1>2, <1>3, NoMembers DEF PaidJob
<1>7. ASSUME Ordered(r)
      PROVE  /\ \A e \in Entries : StartRefused(e) => Sent(e)
             /\ \A e \in Entries : e <= c => Sent(e)
  <2>1. \A e \in Entries : ~(e <= 0)
    BY BoundsAssumption DEF Entries
  <2>. QED BY Zenon, <1>1, <1>4, <1>7, <2>1 DEF Ordered
<1>8. ASSUME Ordered(r) PROVE OrderJob(pc[r], job[r])'
  <2>1. \A e \in Entries : e <= job'[r].since => Sent(e)'
    BY Zenon, <1>1, <1>3, <1>7, <1>8 DEF Sent
  <2>. QED BY Zenon, <1>4, <2>1 DEF OrderJob
<1>. QED BY Zenon, <1>1, <1>4, <1>5, <1>6, <1>7, <1>8, InsideStep

\* The rows before one that is fetched were sent or are fetched with it.
LEMMA OrderlyFetch ==
  ASSUME RelayInv, RelayInv', NEW r \in Relays, Orderly(r), PollFetch(r)
  PROVE  Orderly(r)'
<1>. DEFINE batch(rows) == [NoJob EXCEPT !.queue = rows]
<1>1. /\ pc[r] = "fetch" /\ UNCHANGED <<bus, idem, checkpoint, disk>>
      /\ \/ Fault("poll") /\ Go(r, "sleep", NoJob)
         \/ NoFault /\ \E rows \in Pending(job[r].since) : Go(r, "dedupe", batch(rows))
  BY Zenon DEF PollFetch, stores
<1>2. Claimed(pc[r], job[r]) = {}
  BY Zenon, <1>1 DEF Claimed
<1>3. CASE Fault("poll") /\ Go(r, "sleep", NoJob)
  <2>1. pc'[r] = "sleep" /\ job'[r] = NoJob
    BY Zenon, <1>3, Gone
  <2>2. Range(job'[r].losses) = {}
    BY <2>1, NoMembers DEF NoJob
  <2>. QED BY Zenon, <1>1, <1>2, <1>3, <2>1, <2>2, OutsideQuiet
<1>. HIDE DEF batch
<1>4. ASSUME NEW rows \in Pending(job[r].since), Go(r, "dedupe", batch(rows)), NoFault
      PROVE  Orderly(r)'
  <2>1. pc'[r] = "dedupe" /\ job'[r] = batch(rows)
    BY Zenon, <1>4, Gone
  <2>2. job'[r].queue = rows /\ job'[r].out = << >> /\ job'[r].losses = << >>
    BY Zenon, <2>1 DEF NoJob, batch
  <2>3. /\ rows \in Seq(Entries) /\ Increasing(rows) /\ Range(rows) \subseteq Rows
        /\ \A e \in Rows : e > job[r].since /\ status[e] = "pending" /\ e \notin Range(rows) =>
             \A f \in Range(rows) : f < e
    BY Zenon, JobOf, PendingFacts
  <2>4. Claimed(pc'[r], job'[r]) = {} /\ InHand(pc'[r], job'[r]) = Range(rows)
    BY Zenon, <2>1, <2>2, NoMembers DEF Claimed, InHand, Sending
  <2>5. HeldJob(pc[r], job[r])'
    BY Zenon, <2>1, <2>2, <2>4 DEF HeldJob
  <2>6. PaidJob(pc[r], job[r])'
    BY Zenon, <2>1, <2>2, NoMembers DEF PaidJob
  <2>7. ASSUME Ordered(r), NEW e \in Range(rows), NEW f \in 1..e - 1 PROVE Sent(f) \/ f \in Range(rows)
    <3>1. /\ e \in Rows /\ Rows \subseteq Entries /\ Len(status) \in Nat /\ status \in Seq({"pending", "published"})
          /\ job[r].since \in Nat
      <4>1. status \in Seq({"pending", "published"}) /\ Len(status) \in Nat /\ Len(status) <= MaxEvents
        BY DEF RelayInv, TypeOK
      <4>2. Rows \subseteq Entries
        BY <4>1, BoundsAssumption DEF Rows, Entries
      <4>3. job[r].since \in Nat
        BY JobOf, BoundsAssumption
      <4>. QED BY Zenon, <2>3, <4>1, <4>2, <4>3
    <3>2. f \in Rows /\ f \in Entries /\ f < e /\ f \in Nat /\ e \in Nat
      BY <3>1 DEF Rows
    <3>3. status[f] \in {"pending", "published"}
      BY <3>1, <3>2 DEF Rows
    <3>4. CASE status[f] = "published"
      BY Zenon, <3>2, <3>4 DEF RelayInv, StoreFacts, Published
    <3>5. CASE f <= job[r].since
      BY Zenon, <1>1, <2>7, <3>2, <3>5 DEF Ordered, OrderJob
    <3>6. CASE status[f] = "pending" /\ f > job[r].since
      <4>1. f \notin Range(rows) => e < f
        BY Zenon, <2>3, <3>2, <3>6
      <4>. QED BY <3>2, <4>1
    <3>. QED BY <3>1, <3>2, <3>3, <3>4, <3>5, <3>6
  <2>8. ASSUME Ordered(r) PROVE OrderJob(pc[r], job[r])'
    <3>1. \A e \in Range(rows) : \A f \in 1..e - 1 : Sent(f)' \/ f \in Range(rows)
      BY Zenon, <1>1, <2>7, <2>8 DEF Sent
    <3>. QED BY Zenon, <2>1, <2>4, <3>1 DEF OrderJob
  <2>9. ASSUME Ordered(r) PROVE \A e \in Entries : StartRefused(e) => Sent(e)
    BY Zenon, <1>2, <2>9 DEF Ordered
  <2>. QED BY Zenon, <1>1, <1>4, <2>5, <2>6, <2>8, <2>9, InsideStep
<1>. QED BY Zenon, <1>1, <1>3, <1>4

\* The dedupe store drops only what was sent.
LEMMA OrderlyDedupe ==
  ASSUME RelayInv, RelayInv', NEW r \in Relays, Orderly(r), DedupeCheck(r)
  PROVE  Orderly(r)'
<1>1. /\ pc[r] = "dedupe" /\ job[r].queue # << >> /\ UNCHANGED <<bus, idem, checkpoint, disk>>
      /\ NoFault \/ Fault("poll")
      /\ \/ Go(r, "dedupe", Passed(r)) /\ Next1(r) \in dedupe
         \/ Go(r, "dedupe", Kept(r))
  BY Zenon DEF DedupeCheck, HasWork, IsDuplicate, stores, Passed, Kept
<1>2. /\ Passed(r).queue = Rest(r) /\ Passed(r).out = job[r].out /\ Passed(r).losses = job[r].losses
      /\ Kept(r).queue = Rest(r) /\ Kept(r).losses = job[r].losses
      /\ Range(Kept(r).out) = Range(job[r].out) \cup {Next1(r)}
  BY Zenon, <1>1, PassOver, KeepOne
<1>3. Range(job[r].queue) = {Next1(r)} \cup Range(Rest(r))
  BY Zenon, <1>1, HeadOf
<1>4. Next1(r) \in dedupe => Sent(Next1(r))
  BY Zenon DEF RelayInv, StoreFacts
<1>5. PICK j : /\ pc'[r] = "dedupe" /\ job'[r] = j /\ j.queue = Rest(r) /\ j.losses = job[r].losses
               /\ \/ Range(j.out) = Range(job[r].out) \cup {Next1(r)}
                  \/ j.out = job[r].out /\ Sent(Next1(r))
  <2>1. CASE Go(r, "dedupe", Passed(r)) /\ Next1(r) \in dedupe
    <3>1. pc'[r] = "dedupe" /\ job'[r] = Passed(r)
      BY Zenon, <2>1, Gone
    <3>. QED BY Zenon, <1>2, <1>4, <2>1, <3>1
  <2>2. CASE Go(r, "dedupe", Kept(r))
    <3>1. pc'[r] = "dedupe" /\ job'[r] = Kept(r)
      BY Zenon, <2>2, Gone
    <3>. QED BY Zenon, <1>2, <3>1
  <2>. QED BY Zenon, <1>1, <2>1, <2>2
<1>6. /\ Claimed(pc'[r], job'[r]) = {} /\ Claimed(pc[r], job[r]) = {}
      /\ InHand(pc'[r], job'[r]) = Range(j.out) \cup Range(Rest(r))
      /\ InHand(pc[r], job[r]) = Range(job[r].out) \cup {Next1(r)} \cup Range(Rest(r))
  BY Zenon, <1>1, <1>3, <1>5 DEF Claimed, InHand, Sending
<1>7. HeldJob(pc[r], job[r])'
  BY Zenon, <1>1, <1>5, <1>6 DEF HeldJob, Orderly
<1>8. ASSUME NoFault PROVE PaidJob(pc[r], job[r])'
  BY Zenon, <1>1, <1>5, <1>8 DEF PaidJob, Orderly, PaidBy, Paid, NoFault
<1>9. ASSUME Ordered(r) PROVE OrderJob(pc[r], job[r])'
  <2>1. OrderJob(pc[r], job[r]) /\ pc'[r] \in Sending /\ \A e : Sent(e) <=> Sent(e)'
    BY Zenon, <1>1, <1>5, <1>9 DEF Ordered, Sending, Sent
  <2>2. /\ InHand(pc'[r], job'[r]) \subseteq InHand(pc[r], job[r])
        /\ \A e \in InHand(pc[r], job[r]) \ InHand(pc'[r], job'[r]) : Sent(e)
    BY Zenon, <1>5, <1>6
  <2>. QED BY Zenon, <2>1, <2>2, HandsKept
<1>10. ASSUME Ordered(r) PROVE \A e \in Entries : StartRefused(e) => Sent(e)
  BY Zenon, <1>6, <1>10 DEF Ordered
<1>. QED BY Zenon, <1>1, <1>7, <1>8, <1>9, <1>10, InsideStep

\* A finished loop hands on what it kept.
LEMMA OrderlyHandOver ==
  ASSUME RelayInv, RelayInv', NEW r \in Relays, Orderly(r),
         HandOver(r, "dedupe", "claim") \/ HandOver(r, "claim", "publish")
  PROVE  Orderly(r)'
<1>. DEFINE j == [job[r] EXCEPT !.queue = job[r].out, !.out = << >>]
<1>1. /\ job[r].queue = << >> /\ NoFault /\ UNCHANGED <<bus, idem, checkpoint, disk>>
      /\ \/ pc[r] \in {"dedupe", "claim"} /\ job[r].out = << >> /\ Go(r, "sleep", NoJob)
         \/ pc[r] = "dedupe" /\ Go(r, "claim", j)
         \/ pc[r] = "claim" /\ Go(r, "publish", j)
  BY Zenon DEF HandOver, LoopOver, stores
<1>2. j.queue = job[r].out /\ j.out = << >> /\ j.losses = job[r].losses
  BY Zenon, JobOf DEF Job
<1>3. Range(<< >>) = {}
  BY Zenon, NoMembers
<1>. HIDE DEF j
<1>4. CASE pc[r] \in {"dedupe", "claim"} /\ job[r].out = << >> /\ Go(r, "sleep", NoJob)
  <2>1. pc'[r] = "sleep" /\ job'[r] = NoJob
    BY Zenon, <1>4, Gone
  <2>2. Claimed(pc[r], job[r]) = {} /\ Range(job'[r].losses) = {}
    BY <1>3, <1>4, <2>1 DEF Claimed, NoJob
  <2>. QED BY Zenon, <1>1, <2>1, <2>2, OutsideQuiet
<1>5. ASSUME NEW from \in {"dedupe", "claim"}, NEW to \in {"claim", "publish"}, pc[r] = from, Go(r, to, j),
             from = "dedupe" <=> to = "claim"
      PROVE  Orderly(r)'
  <2>1. pc'[r] = to /\ job'[r] = j
    BY Zenon, <1>5, Gone
  <2>2. /\ Claimed(pc'[r], job'[r]) = Claimed(pc[r], job[r])
        /\ InHand(pc'[r], job'[r]) = InHand(pc[r], job[r]) /\ pc'[r] \in Sending
    <3>1. Range(job'[r].queue) = Range(job[r].out) /\ Range(job'[r].out) = {} /\ Range(job[r].queue) = {}
      BY Zenon, <1>1, <1>2, <1>3, <2>1
    <3>2. CASE from = "dedupe"
      <4>1. pc[r] = "dedupe" /\ pc'[r] = "claim"
        BY Zenon, <1>5, <2>1, <3>2
      <4>. QED BY Zenon, <3>1, <4>1 DEF Claimed, InHand, Sending
    <3>3. CASE from = "claim"
      <4>1. pc[r] = "claim" /\ pc'[r] = "publish"
        BY Zenon, <1>5, <2>1, <3>3
      <4>. QED BY Zenon, <3>1, <4>1 DEF Claimed, InHand, Sending
    <3>. QED BY Zenon, <3>2, <3>3
  <2>3. HeldJob(pc[r], job[r]) /\ PaidJob(pc[r], job[r]) /\ job[r].losses = << >>
    BY Zenon, <1>5 DEF Orderly, PaidBy, HeldJob
  <2>4. HeldJob(pc[r], job[r])'
    <3>1. \A e \in Claimed(pc'[r], job'[r]) : idem'[e] = "in_progress"
      BY Zenon, <1>1, <2>2, <2>3 DEF HeldJob
    <3>2. job'[r].losses = << >>
      BY Zenon, <1>2, <2>1, <2>3
    <3>. QED BY Zenon, <1>3, <3>1, <3>2 DEF HeldJob
  <2>5. PaidJob(pc[r], job[r])'
    <3>1. to = "publish" => \A e \in Range(job'[r].queue) : Paid(e)
      BY Zenon, <1>2, <1>5, <2>1, <2>3 DEF PaidJob
    <3>2. \A e : Paid(e)' <=> Paid(e)
      BY Zenon, <1>1 DEF Paid, NoFault
    <3>3. Range(job'[r].losses) = {} /\ Range(job'[r].out) = {}
      BY Zenon, <1>2, <1>3, <2>1, <2>3
    <3>. QED BY Zenon, <1>5, <2>1, <3>1, <3>2, <3>3 DEF PaidJob
  <2>6. ASSUME Ordered(r)
        PROVE  /\ \A e \in Entries : StartRefused(e) => Sent(e) \/ e \in Claimed(pc'[r], job'[r])
               /\ OrderJob(pc[r], job[r])'
    <3>1. OrderJob(pc[r], job[r]) /\ \A e \in Entries : StartRefused(e) => Sent(e) \/ e \in Claimed(pc'[r], job'[r])
      BY Zenon, <2>2, <2>6 DEF Ordered
    <3>2. \A e : Sent(e) <=> Sent(e)'
      BY Zenon, <1>1 DEF Sent
    <3>. QED BY Zenon, <2>2, <3>1, <3>2, HandsKept
  <2>. QED BY Zenon, <1>1, <2>4, <2>5, <2>6, InsideStep
<1>. QED BY Zenon, <1>1, <1>4, <1>5

\* A claim is refused only for an entry that was sent.
LEMMA OrderlyClaimRead ==
  ASSUME RelayInv, RelayInv', NEW r \in Relays, Orderly(r), ClaimRead(r)
  PROVE  Orderly(r)'
<1>1. /\ pc[r] = "claim" /\ job[r].queue # << >> /\ UNCHANGED <<bus, idem, checkpoint, disk>>
      /\ \/ NoFault /\ StartRefused(Next1(r)) /\ Go(r, "claim", Passed(r))
         \/ NoFault /\ ~StartRefused(Next1(r)) /\ Go(r, "start", job[r])
         \/ Fault("claim") /\ Go(r, "claim", Passed(r))
  BY Zenon DEF ClaimRead, HasWork, stores, Passed
<1>2. Range(job[r].queue) = {Next1(r)} \cup Range(Rest(r)) /\ Next1(r) \in Entries /\ Next1(r) \in Range(job[r].queue)
  BY Zenon, <1>1, HeadOf
<1>3. HeldJob(pc[r], job[r]) /\ PaidJob(pc[r], job[r])
  BY Zenon DEF Orderly, PaidBy
<1>4. \A e : (Paid(e)' <=> Paid(e)) \/ ~NoFault
  BY Zenon, <1>1 DEF Paid, NoFault
<1>5. \A e : Sent(e) <=> Sent(e)'
  BY Zenon, <1>1 DEF Sent
<1>6. CASE Go(r, "claim", Passed(r)) /\ ((NoFault /\ StartRefused(Next1(r))) \/ Fault("claim"))
  <2>1. pc'[r] = "claim" /\ job'[r] = Passed(r)
    BY Zenon, <1>6, Gone
  <2>2. job'[r].queue = Rest(r) /\ job'[r].out = job[r].out /\ job'[r].losses = job[r].losses
    BY Zenon, <1>1, <2>1, PassOver
  <2>3. /\ Claimed(pc'[r], job'[r]) = Claimed(pc[r], job[r])
        /\ InHand(pc[r], job[r]) = Range(job[r].out) \cup {Next1(r)} \cup Range(Rest(r))
        /\ InHand(pc'[r], job'[r]) = Range(job[r].out) \cup Range(Rest(r)) /\ pc'[r] \in Sending
    BY Zenon, <1>1, <1>2, <2>1, <2>2 DEF Claimed, InHand, Sending
  <2>4. HeldJob(pc[r], job[r])'
    BY Zenon, <1>1, <1>3, <2>1, <2>2, <2>3 DEF HeldJob
  <2>5. ASSUME NoFault PROVE PaidJob(pc[r], job[r])'
    BY Zenon, <1>1, <1>3, <1>4, <2>1, <2>2, <2>5 DEF PaidJob
  <2>6. ASSUME Ordered(r), Steady'
        PROVE  /\ \A e \in Entries : StartRefused(e) => Sent(e) \/ e \in Claimed(pc'[r], job'[r])
               /\ OrderJob(pc[r], job[r])'
    <3>1. OrderJob(pc[r], job[r]) /\ \A e \in Entries : StartRefused(e) => Sent(e) \/ e \in Claimed(pc[r], job[r])
      BY Zenon, <2>6 DEF Ordered
    <3>2. StartRefused(Next1(r))
      BY Zenon, <1>6, <2>6, Faulted
    <3>3. Next1(r) \notin Range(job[r].out)
      <4>1. InOrder(job[r].out, job[r].queue) /\ Range(job[r].out) \subseteq Entries
        BY Zenon, <1>1, JobOf, SeqMembers DEF JobFacts, Sending
      <4>2. ~(Next1(r) < Next1(r))
        BY <1>2, BoundsAssumption DEF Entries
      <4>. QED BY Zenon, <1>2, <4>1, <4>2 DEF InOrder
    <3>4. Sent(Next1(r))
      BY Zenon, <1>1, <1>2, <3>1, <3>2, <3>3 DEF Claimed
    <3>5. OrderJob(pc[r], job[r])'
      BY Zenon, <1>5, <2>3, <3>1, <3>4, HandsKept
    <3>. QED BY Zenon, <2>3, <3>1, <3>5
  <2>. QED BY Zenon, <1>1, <1>6, <2>4, <2>5, <2>6, InsideStep
<1>7. CASE NoFault /\ ~StartRefused(Next1(r)) /\ Go(r, "start", job[r])
  <2>1. pc'[r] = "start" /\ job'[r] = job[r]
    BY Zenon, <1>7, Gone
  <2>2. /\ Claimed(pc'[r], job'[r]) = Claimed(pc[r], job[r])
        /\ InHand(pc'[r], job'[r]) = InHand(pc[r], job[r]) /\ pc'[r] \in Sending
    BY Zenon, <1>1, <2>1 DEF Claimed, InHand, Sending
  <2>3. HeldJob(pc[r], job[r])'
    BY Zenon, <1>1, <1>3, <2>1, <2>2 DEF HeldJob
  <2>4. Paid(Next1(r))
    <3>1. idem[Next1(r)] \in IdemStatus
      BY Zenon, <1>2 DEF RelayInv, TypeOK
    <3>. QED BY Zenon, <1>2, <1>7, <3>1 DEF Orderly, PaidBy, StartRefused, IdemStatus
  <2>5. PaidJob(pc[r], job[r])'
    <3>1. Paid(Head(job[r].queue))
      BY Zenon, <2>4 DEF Next1
    <3>. QED BY Zenon, <1>1, <1>3, <1>4, <1>7, <2>1, <3>1 DEF PaidJob
  <2>6. ASSUME Ordered(r)
        PROVE  /\ \A e \in Entries : StartRefused(e) => Sent(e) \/ e \in Claimed(pc'[r], job'[r])
               /\ OrderJob(pc[r], job[r])'
    <3>1. OrderJob(pc[r], job[r]) /\ \A e \in Entries : StartRefused(e) => Sent(e) \/ e \in Claimed(pc'[r], job'[r])
      BY Zenon, <2>2, <2>6 DEF Ordered
    <3>. QED BY Zenon, <1>5, <2>2, <3>1, HandsKept
  <2>. QED BY Zenon, <1>1, <1>7, <2>3, <2>5, <2>6, InsideStep
<1>. QED BY Zenon, <1>1, <1>6, <1>7

\* The upsert of a claim.
LEMMA OrderlyClaimWrite ==
  ASSUME RelayInv, RelayInv', NEW r \in Relays, Orderly(r), ClaimWrite(r)
  PROVE  Orderly(r)'
<1>1. /\ pc[r] = "start" /\ UNCHANGED <<bus, checkpoint, disk>>
      /\ \/ NoFault /\ idem' = [idem EXCEPT ![Next1(r)] = "in_progress"] /\ Go(r, "claim", Kept(r))
         \/ Fault("claim") /\ idem' = idem /\ Go(r, "claim", Passed(r))
  BY Zenon DEF ClaimWrite, SetStatus, Kept, Passed
<1>2. /\ job[r].queue # << >> /\ idem \in [Entries -> IdemStatus]
  BY Zenon, <1>1, JobOf DEF JobFacts, RelayInv, TypeOK
<1>3. Range(job[r].queue) = {Next1(r)} \cup Range(Rest(r)) /\ Next1(r) \in Entries
  BY Zenon, <1>2, HeadOf
<1>4. HeldJob(pc[r], job[r]) /\ PaidJob(pc[r], job[r]) /\ \A e \in Entries : idem[e] \in {"unknown", "failed"} => Paid(e)
  BY Zenon DEF Orderly, PaidBy
<1>5. CASE NoFault /\ idem' = [idem EXCEPT ![Next1(r)] = "in_progress"] /\ Go(r, "claim", Kept(r))
  <2>1. pc'[r] = "claim" /\ job'[r] = Kept(r)
    BY Zenon, <1>5, Gone
  <2>2. /\ job'[r].queue = Rest(r) /\ job'[r].losses = job[r].losses
        /\ Range(job'[r].out) = Range(job[r].out) \cup {Next1(r)} /\ Range(job[r].out) \subseteq Entries
    <3>1. Range(job[r].out) \subseteq Entries
      BY Zenon, JobOf, SeqMembers
    <3>2. /\ Kept(r).queue = Rest(r) /\ Kept(r).losses = job[r].losses
          /\ Range(Kept(r).out) = Range(job[r].out) \cup {Next1(r)}
      BY Zenon, <1>2, KeepOne
    <3>. QED BY Zenon, <2>1, <3>1, <3>2
  <2>3. /\ Claimed(pc[r], job[r]) = Range(job[r].out) /\ Claimed(pc'[r], job'[r]) = Range(job[r].out) \cup {Next1(r)}
        /\ InHand(pc'[r], job'[r]) = InHand(pc[r], job[r]) /\ pc'[r] \in Sending
    BY Zenon, <1>1, <1>3, <2>1, <2>2 DEF Claimed, InHand, Sending
  <2>4. \A e \in Entries : idem'[e] = IF e = Next1(r) THEN "in_progress" ELSE idem[e]
    BY Zenon, <1>2, <1>5
  <2>5. HeldJob(pc[r], job[r])'
    <3>1. \A e \in Claimed(pc'[r], job'[r]) : idem'[e] = "in_progress"
      BY Zenon, <1>3, <1>4, <2>2, <2>3, <2>4 DEF HeldJob
    <3>. QED BY Zenon, <1>1, <1>4, <2>1, <2>2, <3>1 DEF HeldJob
  <2>6. PaidJob(pc[r], job[r])'
    <3>1. \A e : Paid(e)' <=> Paid(e)
      BY Zenon, <1>1, <1>5 DEF Paid, NoFault
    <3>2. Paid(Next1(r)) /\ (\A e \in Range(job[r].out) : Paid(e)) /\ (\A e \in Range(job[r].losses) : Paid(e))
      BY Zenon, <1>1, <1>4 DEF PaidJob, Next1
    <3>. QED BY Zenon, <2>1, <2>2, <3>1, <3>2 DEF PaidJob
  <2>7. \A e \in Entries : idem'[e] \in {"unknown", "failed"} => Paid(e)
    BY Zenon, <1>4, <2>4
  <2>8. ASSUME Ordered(r)
        PROVE  /\ \A e \in Entries : e <= checkpoint' \/ e <= disk' => Sent(e)
               /\ \A e \in Entries : StartRefused(e)' => Sent(e) \/ e \in Claimed(pc'[r], job'[r])
               /\ OrderJob(pc[r], job[r])'
    <3>1. /\ OrderJob(pc[r], job[r]) /\ \A e \in Entries : e <= checkpoint' \/ e <= disk' => Sent(e)
      BY Zenon, <1>1, <2>8 DEF Ordered
    <3>2. \A e : Sent(e) <=> Sent(e)'
      BY Zenon, <1>1 DEF Sent
    <3>3. ASSUME NEW e \in Entries, StartRefused(e)' PROVE Sent(e) \/ e \in Claimed(pc'[r], job'[r])
      <4>1. e # Next1(r) => StartRefused(e)
        BY Zenon, <2>4, <3>3 DEF StartRefused
      <4>. QED BY Zenon, <2>3, <2>8, <4>1 DEF Ordered
    <3>4. OrderJob(pc[r], job[r])'
      BY Zenon, <2>3, <3>1, <3>2, HandsKept
    <3>. QED BY Zenon, <3>1, <3>3, <3>4
  <2>. QED BY Zenon, <1>1, <1>5, <2>5, <2>6, <2>7, <2>8, OrderlyStep
<1>6. CASE Fault("claim") /\ idem' = idem /\ Go(r, "claim", Passed(r))
  <2>1. pc'[r] = "claim" /\ job'[r] = Passed(r)
    BY Zenon, <1>6, Gone
  <2>2. job'[r].out = job[r].out /\ job'[r].losses = job[r].losses
    BY Zenon, <1>2, <2>1, PassOver
  <2>3. Claimed(pc'[r], job'[r]) = Claimed(pc[r], job[r])
    BY Zenon, <1>1, <2>1, <2>2 DEF Claimed
  <2>4. HeldJob(pc[r], job[r])'
    BY Zenon, <1>1, <1>4, <1>6, <2>1, <2>2, <2>3 DEF HeldJob
  <2>5. ~Steady' /\ ~NoFault
    BY <1>6, Faulted DEF NoFault
  <2>. QED BY Zenon, <1>1, <1>6, <2>4, <2>5, InsideStep
<1>. QED BY Zenon, <1>1, <1>5, <1>6

\* The local variables after an entry has failed, and after it has reached both.
Lost(r) == [job[r] EXCEPT !.queue = Rest(r), !.losses = Append(@, Next1(r))]
Won(r) == [job[r] EXCEPT !.queue = Rest(r), !.wins = Append(@, Next1(r))]

\* An entry that is being published, and the results so far.
LEMMA Publishing ==
  ASSUME RelayInv, NEW r \in Relays, Orderly(r), pc[r] \in {"publish", "mirror"}, job[r].queue # << >>
  PROVE  /\ Next1(r) \in Entries /\ Range(job[r].queue) = {Next1(r)} \cup Range(Rest(r))
         /\ Range(Rest(r)) \subseteq Entries /\ Range(job[r].losses) \subseteq Entries
         /\ \A e \in Range(Rest(r)) : Next1(r) < e
         /\ \A e \in Range(job[r].losses) : e < Next1(r) /\ \A f \in Range(Rest(r)) : e < f
         /\ \A e \in Range(job[r].queue) : idem[e] = "in_progress"
         /\ Claimed(pc[r], job[r]) = Range(job[r].queue) /\ InHand(pc[r], job[r]) = Range(job[r].queue)
         /\ Lost(r).queue = Rest(r) /\ Range(Lost(r).losses) = Range(job[r].losses) \cup {Next1(r)}
         /\ Lost(r).out = << >> /\ Won(r).out = << >>
         /\ Won(r).queue = Rest(r) /\ Won(r).losses = job[r].losses
<1>1. /\ Next1(r) \in Entries /\ Range(job[r].queue) = {Next1(r)} \cup Range(Rest(r)) /\ Rest(r) \in Seq(Entries)
      /\ Increasing(job[r].queue) => Increasing(Rest(r)) /\ \A e \in Range(Rest(r)) : Next1(r) < e
  BY Zenon, HeadOf
<1>2. Range(Rest(r)) \subseteq Entries
  BY Zenon, <1>1, SeqMembers
<1>3. Range(job[r].losses) \subseteq Entries
  BY Zenon, JobOf, SeqMembers
<1>4. job[r].out = << >> /\ Increasing(job[r].queue)
  BY Zenon, JobOf DEF JobFacts, InOrder, Sending
<1>5. HeldJob(pc[r], job[r])
  BY Zenon DEF Orderly
<1>6. Claimed(pc[r], job[r]) = Range(job[r].queue) /\ InHand(pc[r], job[r]) = Range(job[r].queue)
  <2>1. Range(job[r].out) = {}
    BY Zenon, <1>4, NoMembers
  <2>2. pc[r] \in Sending /\ pc[r] \notin {"claim", "start"}
    BY Zenon DEF Sending
  <2>3. InHand(pc[r], job[r]) = Range(job[r].out) \cup Range(job[r].queue)
    BY Zenon, <2>2 DEF InHand
  <2>. QED BY Zenon, <2>1, <2>2, <2>3 DEF Claimed
<1>7. \A e \in Range(job[r].queue) : idem[e] = "in_progress"
  BY Zenon, <1>5, <1>6 DEF HeldJob
<1>8. \A e \in Range(job[r].losses), f \in Range(job[r].queue) : e < f
  BY Zenon, <1>5 DEF HeldJob
<1>9. /\ Lost(r).queue = Rest(r) /\ Lost(r).losses = Append(job[r].losses, Next1(r))
      /\ Lost(r).out = << >> /\ Won(r).out = << >>
      /\ Won(r).queue = Rest(r) /\ Won(r).losses = job[r].losses
  BY Zenon, <1>4, JobOf DEF Job, Lost, Won
<1>10. Range(Lost(r).losses) = Range(job[r].losses) \cup {Next1(r)}
  BY Zenon, <1>1, <1>9, JobOf, KeepEntry
<1>. QED BY Zenon, <1>1, <1>2, <1>3, <1>4, <1>6, <1>7, <1>8, <1>9, <1>10

\* An entry that the bus or the mirror refuses.
LEMMA OrderlyLose ==
  ASSUME RelayInv, RelayInv', NEW r \in Relays, Orderly(r), pc[r] \in {"publish", "mirror"}, job[r].queue # << >>,
         Fault("publish"), Go(r, "publish", Lost(r)), UNCHANGED <<bus, idem, checkpoint, disk>>
  PROVE  Orderly(r)'
<1>1. pc'[r] = "publish" /\ job'[r] = Lost(r)
  BY Zenon, Gone
<1>2. ~Steady' /\ ~NoFault
  BY Faulted DEF NoFault
<1>3. HeldJob(pc[r], job[r])'
  <2>1. Claimed(pc'[r], job'[r]) \subseteq Range(job[r].queue)
    BY Zenon, <1>1, Publishing DEF Claimed
  <2>2. \A e \in Claimed(pc'[r], job'[r]) : idem'[e] = "in_progress"
    BY Zenon, <2>1, Publishing
  <2>3. \A e \in Range(job'[r].losses), f \in Range(job'[r].queue) : e < f
    BY Zenon, <1>1, Publishing
  <2>. QED BY Zenon, <1>1, <2>2, <2>3 DEF HeldJob
<1>. QED BY Zenon, <1>2, <1>3, InsideStep

\* The entry is handed to the bus: it was paid for, and those before it were sent.
LEMMA OrderlyPublishBus ==
  ASSUME RelayInv, RelayInv', NEW r \in Relays, Orderly(r), PublishBus(r)
  PROVE  Orderly(r)'
<1>1. /\ pc[r] = "publish" /\ job[r].queue # << >> /\ UNCHANGED <<idem, checkpoint, disk>>
      /\ \/ NoFault /\ bus' = [bus EXCEPT ![Next1(r)] = @ + 1] /\ Go(r, "mirror", job[r])
         \/ Fault("publish") /\ bus' = bus /\ Go(r, "publish", Lost(r))
  BY Zenon DEF PublishBus, HasWork, stores, Lost
<1>2. CASE Fault("publish") /\ bus' = bus /\ Go(r, "publish", Lost(r))
  BY Zenon, <1>1, <1>2, OrderlyLose
<1>3. CASE NoFault /\ bus' = [bus EXCEPT ![Next1(r)] = @ + 1] /\ Go(r, "mirror", job[r])
  <2>1. pc'[r] = "mirror" /\ job'[r] = job[r] /\ faults' = faults
    BY Zenon, <1>3, Gone DEF NoFault
  <2>2. /\ Next1(r) \in Entries /\ Range(job[r].queue) = {Next1(r)} \cup Range(Rest(r))
        /\ Range(Rest(r)) \subseteq Entries /\ Range(job[r].losses) \subseteq Entries
        /\ \A e \in Range(Rest(r)) : Next1(r) < e
        /\ \A e \in Range(job[r].losses) : e < Next1(r)
        /\ \A e \in Range(job[r].queue) : idem[e] = "in_progress"
        /\ Claimed(pc[r], job[r]) = Range(job[r].queue) /\ InHand(pc[r], job[r]) = Range(job[r].queue)
    BY Zenon, <1>1, Publishing
  <2>3. /\ bus \in [Entries -> Nat] /\ Len(faults) \in Nat
        /\ \A e \in Entries : e # Next1(r) => bus'[e] = bus[e]
        /\ bus'[Next1(r)] = bus[Next1(r)] + 1
    <3>1. bus \in [Entries -> Nat] /\ faults \in Seq(deployment.faults)
      BY Zenon DEF RelayInv, TypeOK
    <3>. QED BY <1>3, <2>2, <3>1
  <2>4. HeldJob(pc[r], job[r]) /\ PaidJob(pc[r], job[r])
    BY Zenon DEF Orderly, PaidBy
  <2>5. Claimed(pc'[r], job'[r]) = Claimed(pc[r], job[r]) /\ InHand(pc'[r], job'[r]) = InHand(pc[r], job[r])
    BY Zenon, <1>1, <2>1 DEF Claimed, InHand, Sending
  <2>6. HeldJob(pc[r], job[r])'
    BY Zenon, <1>1, <2>1, <2>4, <2>5 DEF HeldJob
  <2>7. PaidBy(r)'
    <3>1. Paid(Next1(r)) /\ \A e \in Range(Rest(r)) : Paid(e)
      BY Zenon, <1>1, <2>2, <2>4 DEF PaidJob
    <3>2. ASSUME NEW e \in Entries PROVE bus'[e] <= 1 + Len(faults')
      <4>1. bus[e] \in Nat /\ bus[e] <= 1 + Len(faults)
        BY Zenon, <2>3 DEF Orderly, PaidBy
      <4>2. CASE e = Next1(r)
        <5>1. bus[e] <= Len(faults) /\ bus'[e] = bus[e] + 1 /\ faults' = faults
          BY Zenon, <2>1, <2>3, <3>1, <4>2 DEF Paid
        <5>. QED BY <2>3, <4>1, <5>1
      <4>3. CASE e # Next1(r)
        BY Zenon, <2>1, <2>3, <4>1, <4>3
      <4>. QED BY Zenon, <4>2, <4>3
    <3>3. ASSUME NEW e \in Entries, e # Next1(r), Paid(e) PROVE Paid(e)'
      BY Zenon, <2>1, <2>3, <3>3 DEF Paid
    <3>4. ASSUME NEW e \in Entries, idem'[e] \in {"unknown", "failed"} PROVE Paid(e)'
      <4>1. e # Next1(r)
        BY Zenon, <1>1, <2>2, <3>4
      <4>2. Paid(e)
        BY Zenon, <1>1, <3>4 DEF Orderly, PaidBy
      <4>. QED BY Zenon, <3>3, <4>1, <4>2
    <3>5. \A e \in Range(Tail(job'[r].queue)) : Paid(e)'
      <4>1. ASSUME NEW e \in Range(Rest(r)) PROVE Paid(e)'
        <5>1. e \in Entries /\ e # Next1(r)
          BY <2>2, BoundsAssumption DEF Entries
        <5>. QED BY Zenon, <3>1, <3>3, <5>1
      <4>. QED BY Zenon, <2>1, <4>1 DEF Rest
    <3>6. ASSUME NEW e \in Range(job[r].losses) PROVE Paid(e)'
      <4>1. e \in Entries /\ e # Next1(r)
        BY <2>2, BoundsAssumption DEF Entries
      <4>2. Paid(e)
        BY Zenon, <2>4 DEF PaidJob
      <4>. QED BY Zenon, <3>3, <4>1, <4>2
    <3>7. PaidJob(pc[r], job[r])'
      BY Zenon, <2>1, <3>5, <3>6 DEF PaidJob
    <3>. QED BY Zenon, <3>2, <3>4, <3>7 DEF PaidBy
  <2>8. \A e \in Entries : Sent(e) => Sent(e)'
    BY <2>3 DEF Sent
  <2>9. ASSUME Steady' PROVE Ordered(r)'
    <3>1. Ordered(r)
      BY Zenon, <2>1, <2>9 DEF Orderly, Steady, Never
    <3>2. ASSUME NEW e \in Entries, NEW f \in Entries, e < f, Sent(f)' PROVE Sent(e)'
      <4>1. CASE f # Next1(r)
        BY Zenon, <2>3, <2>8, <3>1, <3>2, <4>1 DEF Sent, Ordered
      <4>2. CASE f = Next1(r)
        <5>1. Next1(r) \in InHand(pc[r], job[r]) /\ e \in 1..Next1(r) - 1
          BY <2>2, <3>2, <4>2, BoundsAssumption DEF Entries
        <5>2. Sent(e) \/ e \in Range(job[r].queue)
          BY Zenon, <2>2, <3>1, <5>1 DEF Ordered, OrderJob
        <5>3. e \notin Range(job[r].queue)
          BY <2>2, <3>2, <4>2, BoundsAssumption DEF Entries
        <5>. QED BY Zenon, <2>8, <5>2, <5>3
      <4>. QED BY Zenon, <4>1, <4>2
    <3>3. \A e \in Entries : e <= checkpoint' \/ e <= disk' => Sent(e)'
      BY Zenon, <1>1, <2>8, <3>1 DEF Ordered
    <3>4. \A e \in Entries : StartRefused(e)' => Sent(e)' \/ e \in Claimed(pc'[r], job'[r])
      BY Zenon, <1>1, <2>5, <2>8, <3>1 DEF Ordered, StartRefused
    <3>5. OrderJob(pc[r], job[r])'
      <4>1. OrderJob(pc[r], job[r]) /\ pc'[r] \in Sending
        BY Zenon, <2>1, <3>1 DEF Ordered, Sending
      <4>. QED BY Zenon, <2>5, <2>8, <4>1, HandsKept
    <3>. QED BY Zenon, <3>2, <3>3, <3>4, <3>5 DEF Ordered
  <2>. QED BY Zenon, <2>6, <2>7, <2>9 DEF Orderly
<1>. QED BY Zenon, <1>1, <1>2, <1>3

\* The mirror has it too: it leaves the relay's hands, sent.
LEMMA OrderlyPublishMirror ==
  ASSUME RelayInv, RelayInv', NEW r \in Relays, Orderly(r), PublishMirror(r)
  PROVE  Orderly(r)'
<1>1. /\ pc[r] = "mirror" /\ UNCHANGED <<bus, idem, checkpoint, disk>>
      /\ \/ NoFault /\ Go(r, "publish", Won(r))
         \/ Fault("publish") /\ Go(r, "publish", Lost(r))
  BY Zenon DEF PublishMirror, stores, Lost, Won
<1>2. job[r].queue # << >> /\ Sent(Next1(r))
  BY Zenon, <1>1, JobOf DEF JobFacts, Next1
<1>3. CASE Fault("publish") /\ Go(r, "publish", Lost(r))
  BY Zenon, <1>1, <1>2, <1>3, OrderlyLose
<1>4. CASE NoFault /\ Go(r, "publish", Won(r))
  <2>1. pc'[r] = "publish" /\ job'[r] = Won(r)
    BY Zenon, <1>4, Gone
  <2>2. /\ Range(job[r].queue) = {Next1(r)} \cup Range(Rest(r))
        /\ \A e \in Range(job[r].losses) : \A f \in Range(Rest(r)) : e < f
        /\ \A e \in Range(job[r].queue) : idem[e] = "in_progress"
        /\ Claimed(pc[r], job[r]) = Range(job[r].queue) /\ InHand(pc[r], job[r]) = Range(job[r].queue)
        /\ Won(r).queue = Rest(r) /\ Won(r).losses = job[r].losses /\ Won(r).out = << >>
    BY Zenon, <1>1, <1>2, Publishing
  <2>3. /\ Claimed(pc'[r], job'[r]) = Range(Rest(r)) /\ pc'[r] \in Sending
        /\ InHand(pc'[r], job'[r]) = Range(<< >>) \cup Range(Rest(r))
    BY Zenon, <2>1, <2>2 DEF Claimed, InHand, Sending
  <2>4. InHand(pc'[r], job'[r]) = Range(Rest(r))
    BY Zenon, <2>3, NoMembers
  <2>5. HeldJob(pc[r], job[r])'
    BY Zenon, <1>1, <2>1, <2>2, <2>3 DEF HeldJob
  <2>6. PaidJob(pc[r], job[r])'
    <3>1. (\A e \in Range(Rest(r)) : Paid(e)) /\ \A e \in Range(job[r].losses) : Paid(e)
      BY Zenon, <1>1 DEF Orderly, PaidBy, PaidJob, Rest
    <3>2. \A e : Paid(e)' <=> Paid(e)
      BY Zenon, <1>1, <1>4 DEF Paid, NoFault
    <3>. QED BY Zenon, <2>1, <2>2, <3>1, <3>2 DEF PaidJob
  <2>7. ASSUME Ordered(r)
        PROVE  /\ \A e \in Entries : StartRefused(e) => Sent(e) \/ e \in Claimed(pc'[r], job'[r])
               /\ OrderJob(pc[r], job[r])'
    <3>1. OrderJob(pc[r], job[r]) /\ \A e \in Entries : StartRefused(e) => Sent(e) \/ e \in Range(job[r].queue)
      BY Zenon, <2>2, <2>7 DEF Ordered
    <3>2. \A e : Sent(e) <=> Sent(e)'
      BY Zenon, <1>1 DEF Sent
    <3>3. OrderJob(pc[r], job[r])'
      BY Zenon, <1>2, <2>2, <2>3, <2>4, <3>1, <3>2, HandsKept
    <3>. QED BY Zenon, <1>2, <2>2, <2>3, <3>1, <3>3
  <2>. QED BY Zenon, <1>1, <1>4, <2>5, <2>6, <2>7, InsideStep
<1>. QED BY Zenon, <1>1, <1>3, <1>4

\* A row more.
LEMMA OrderlyAppend ==
  ASSUME NEW r, Orderly(r), UNCHANGED <<bus, idem, checkpoint, disk, pc, job, faults>>
  PROVE  Orderly(r)'
<1>1. /\ \A e : (Sent(e)' <=> Sent(e)) /\ (Paid(e)' <=> Paid(e)) /\ (StartRefused(e)' <=> StartRefused(e))
      /\ Steady' <=> Steady
  BY Zenon DEF Sent, Paid, StartRefused, Steady, Never
<1>2. HeldJob(pc[r], job[r])'
  BY Zenon DEF Orderly, HeldJob
<1>3. PaidBy(r)'
  BY Zenon, <1>1 DEF Orderly, PaidBy, PaidJob
<1>4. Ordered(r) => Ordered(r)'
  BY Zenon, <1>1 DEF Ordered, OrderJob
<1>. QED BY Zenon, <1>1, <1>2, <1>3, <1>4 DEF Orderly

\* Every step keeps the invariant of the lone replica.
LEMMA LocalInvStep ==
  RelayInv /\ RelayInv' /\ LocalInv /\ [Next]_vars => LocalInv'
<1>. SUFFICES ASSUME RelayInv, RelayInv', LocalInv, [Next]_vars, NEW r \in Relays, Alone(r)' PROVE Orderly(r)'
  BY Zenon DEF LocalInv
<1>1. deployment' = deployment
  BY Zenon DEF Next, vars
<1>2. ~Shared /\ Replicas = {r} /\ Orderly(r)
  BY Zenon, <1>1 DEF Alone, LocalInv, Shared, Replicas
<1>3. CASE UNCHANGED vars
  BY Zenon, <1>2, <1>3, OrderlyAppend DEF vars, stores
<1>4. CASE Append1
  BY Zenon, <1>2, <1>4, OrderlyAppend DEF Append1, stores
<1>5. CASE RelayStep(r) \/ Crash(r)
  BY Zenon, <1>2, <1>5, OrderlyPoll, OrderlyFetch, OrderlyDedupe, OrderlyHandOver, OrderlyClaimRead, OrderlyClaimWrite,
     OrderlyPublishBus, OrderlyPublishMirror, OrderlyLeave, OrderlySettle, OrderlyAdvance, OrderlyCrash DEF RelayStep
<1>. QED BY Zenon, <1>2, <1>3, <1>4, <1>5 DEF Next

\* It holds before the first row.
LEMMA LocalInvInit == Init => LocalInv
<1>. SUFFICES ASSUME Init, NEW r \in Relays PROVE Orderly(r)
  BY Zenon DEF LocalInv
<1>1. /\ pc[r] = "sleep" /\ job[r] = NoJob /\ faults = << >> /\ checkpoint = 0 /\ disk = 0
      /\ \A e \in Entries : bus[e] = 0 /\ idem[e] = "unknown"
  BY Zenon DEF Init
<1>2. Range(job[r].losses) = {} /\ Len(faults) = 0 /\ \A e \in Entries : e \in Nat /\ e > 0
  BY <1>1, NoMembers, BoundsAssumption DEF NoJob, Entries
<1>3. Claimed(pc[r], job[r]) = {} /\ InHand(pc[r], job[r]) = {}
  BY Zenon, <1>1 DEF Claimed, InHand, Sending
<1>4. HeldJob(pc[r], job[r])
  BY Zenon, <1>1, <1>3 DEF HeldJob
<1>5. PaidBy(r)
  BY <1>1, <1>2 DEF PaidBy, PaidJob, Paid
<1>6. Ordered(r)
  BY <1>1, <1>2, <1>3 DEF Ordered, OrderJob, Sent, StartRefused
<1>. QED BY Zenon, <1>4, <1>5, <1>6 DEF Orderly

\* One replica with the local stores sends an entry again only when a failed call
\* or a crash has paid for it, and sends entries for the first time in the order
\* of their sequence as long as no claim, publish or settlement fails.
THEOREM SendsCorrect == Spec => []SendsAreOrderly
<1>1. RelayInv /\ LocalInv => SendsAreOrderly
  <2>. SUFFICES ASSUME RelayInv, LocalInv, ~Shared
                PROVE  /\ \A e \in Entries : bus[e] <= 1 + Len(faults)
                       /\ Never({"claim", "publish", "settle"}) =>
                            \A e, f \in Entries : e < f /\ bus[f] > 0 => bus[e] > 0
    BY Zenon DEF SendsAreOrderly, ResendsArePaidFor, FirstSendsInOrder
  <2>1. PICK r \in Relays : Replicas = {r}
    BY Zenon, DeploymentAssumption DEF RelayInv, Shared, Replicas
  <2>2. Orderly(r)
    BY Zenon, <2>1 DEF LocalInv, Alone
  <2>. QED BY Zenon, <2>2 DEF Orderly, PaidBy, Ordered, Steady, Sent
<1>2. RelayInv /\ LocalInv /\ [Next]_vars => RelayInv' /\ LocalInv'
  BY Zenon, RelayInvStep, LocalInvStep
<1>. QED BY <1>1, <1>2, RelayInvInit, LocalInvInit, PTL DEF Spec
=============================================================================
