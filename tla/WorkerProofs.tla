---------------------------- MODULE WorkerProofs ----------------------------
(***************************************************************************)
(* Proofs about two workers.                                               *)
(*                                                                         *)
(* The projector, for any tenants, batch size, faults and bounds: the      *)
(* types of its state, and that its checkpoint never runs ahead of the     *)
(* read model.                                                             *)
(* CheckpointIsEarned is not inductive: it speaks of the checkpoint alone, *)
(* and what keeps it true is where the worker stands in its batch.         *)
(* ProjectorInv says that the batch in hand is a run of consecutive events *)
(* that starts no further than one above the checkpoint, whatever failed,  *)
(* and exactly one above it as long as no read of the checkpoint failed.   *)
(*                                                                         *)
(* Outbound delivery, for any workers, endpoints, attempts and limit.      *)
(* DeliveryInv carries what every worker has in hand and the budget of     *)
(* attempts each job has left, which bounds what several workers that      *)
(* took the same job can still do with it.                                 *)
(***************************************************************************)
EXTENDS Projector, NotificationDelivery, FiniteSetTheorems, TLAPS

-----------------------------------------------------------------------------
\* Versions

\* Over a longer prefix of the outbox a tenant has at least as many events.
LEMMA CountGrows ==
  ASSUME NEW o, NEW t, NEW m \in Nat, NEW n \in Nat, m <= n
  PROVE  /\ Cardinality({f \in 1..m : o[f] = t}) \in Nat
         /\ Cardinality({f \in 1..n : o[f] = t}) \in Nat
         /\ Cardinality({f \in 1..m : o[f] = t}) <= Cardinality({f \in 1..n : o[f] = t})
<1>1. IsFiniteSet(1..n)
  BY FS_Interval
<1>2. {f \in 1..n : o[f] = t} \subseteq 1..n /\ {f \in 1..m : o[f] = t} \subseteq {f \in 1..n : o[f] = t}
  OBVIOUS
<1>3. IsFiniteSet({f \in 1..n : o[f] = t})
  BY Zenon, <1>1, <1>2, FS_Subset
<1>4. /\ IsFiniteSet({f \in 1..m : o[f] = t})
      /\ Cardinality({f \in 1..m : o[f] = t}) <= Cardinality({f \in 1..n : o[f] = t})
  BY Zenon, <1>2, <1>3, FS_Subset
<1>. QED BY Zenon, <1>3, <1>4, FS_CardinalityType

\* A sequence over a set is one over a larger set.
LEMMA WiderSeq == ASSUME NEW S, NEW T, S \subseteq T, NEW q \in Seq(S) PROVE q \in Seq(T)
<1>1. Len(q) \in Nat /\ q \in [1..Len(q) -> T]
  OBVIOUS
<1>. QED BY <1>1

\* An event's version is at most its tenant's latest, and at least the version of
\* an earlier event of the tenant.
LEMMA Versions ==
  ASSUME outbox \in Seq(Tenants), NEW e \in 1..Len(outbox)
  PROVE  /\ VersionOf(e) \in Nat /\ Latest(outbox[e]) \in Nat /\ VersionOf(e) <= Latest(outbox[e])
         /\ \A d \in 1..e : outbox[d] = outbox[e] => VersionOf(d) <= VersionOf(e)
<1>1. e \in Nat /\ Len(outbox) \in Nat /\ e <= Len(outbox)
  OBVIOUS
<1>2. \A d \in 1..e : d \in Nat /\ d <= e
  BY <1>1
<1>3. VersionOf(e) \in Nat /\ Latest(outbox[e]) \in Nat /\ VersionOf(e) <= Latest(outbox[e])
  BY Zenon, <1>1, CountGrows DEF VersionOf, Latest
<1>4. ASSUME NEW d \in 1..e, outbox[d] = outbox[e] PROVE VersionOf(d) <= VersionOf(e)
  <2>1. d \in Nat /\ d <= e
    BY Zenon, <1>2
  <2>2. Cardinality({f \in 1..d : outbox[f] = outbox[e]}) <= Cardinality({f \in 1..e : outbox[f] = outbox[e]})
    BY Zenon, <1>1, <2>1, CountGrows
  <2>. QED BY Zenon, <1>4, <2>2 DEF VersionOf
<1>. QED BY Zenon, <1>3, <1>4

-----------------------------------------------------------------------------
\* The invariant

Pcs == {"boot", "replay", "poll", "apply", "advance", "connect", "live"}
Busy == pc \in {"apply", "advance"}

\* The types, with the two queues holding events that are in the outbox.
Types ==
  /\ outbox \in Seq(Tenants) /\ Len(outbox) <= MaxEvents
  /\ view \in [Tenants -> Nat] /\ \A t \in Tenants : view[t] <= Latest(t)
  /\ checkpoint \in 0..Len(outbox) /\ disk \in 0..Len(outbox) /\ since \in 0..Len(outbox)
  /\ pc \in Pcs /\ mode \in {"replay", "poll"}
  /\ queue \in Seq(1..Len(outbox)) /\ sub \in Seq(1..Len(outbox))
  /\ sent \in 0..Len(outbox)
  /\ live \in BOOLEAN /\ missed \in BOOLEAN
  /\ faults \in Seq(Faults) /\ Len(faults) <= MaxFaults

\* The loop the worker is in, and where in the outbox its batch starts.
Place ==
  /\ pc \in {"boot", "replay", "connect", "live"} => mode = "replay"
  /\ pc = "poll" => mode = "poll"
  /\ pc \in {"connect", "live"} => live
  /\ mode = "poll" => ~live
  /\ disk <= checkpoint
  /\ pc = "replay" => since <= checkpoint
  /\ Busy =>
       /\ queue # << >>
       /\ \A i \in 1..Len(queue) : queue[i] = Head(queue) + (i - 1)
       /\ Head(queue) <= checkpoint + 1

\* The event whose row was just written shows the version it should.
Written ==
  pc = "advance" => view[outbox[Head(queue)]] = VersionOf(Head(queue))

\* As long as no read of the checkpoint failed, the polling worker works right
\* above the checkpoint, and everything up to it shows.
Exact ==
  ~live /\ Never("get") =>
    /\ pc = "replay" => since = checkpoint
    /\ Busy => Head(queue) = checkpoint + 1
    /\ \A e \in 1..Len(outbox) : e <= checkpoint => Shows(e)

ProjectorInv == Types /\ Place /\ Written /\ Exact

-----------------------------------------------------------------------------
\* The steps actions are made of

\* A failed call is recorded; one that does not fail changes nothing.
LEMMA Faulted ==
  ASSUME Types, NEW k, Fault(k) \/ NoFault
  PROVE  /\ faults' \in Seq(Faults) /\ Len(faults') <= MaxFaults
         /\ Never("get")' => Never("get")
         /\ Fault("get") => ~Never("get")'
<1>1. CASE NoFault
  <2>1. ~Fault("get")
    BY <1>1 DEF NoFault, Fault, Types
  <2>. QED BY Zenon, <1>1, <2>1 DEF NoFault, Types, Never
<1>2. CASE Fault(k)
  <2>1. /\ k \in Faults /\ faults \in Seq(Faults) /\ Len(faults) < MaxFaults /\ faults' = Append(faults, k)
    BY Zenon, <1>2 DEF Fault, Types
  <2>2. /\ faults' \in Seq(Faults) /\ Len(faults') = Len(faults) + 1 /\ faults'[Len(faults) + 1] = k
        /\ \A i \in 1..Len(faults) : faults'[i] = faults[i]
    BY <2>1
  <2>3. Len(faults) \in Nat /\ MaxFaults \in Nat
    BY <2>1, BoundsAssumption
  <2>4. Never("get")' => Never("get")
    BY <2>2, <2>3 DEF Never
  <2>5. Fault("get") => k = "get"
    BY <2>1, <2>2, <2>3 DEF Fault
  <2>6. k = "get" => ~Never("get")'
    BY <2>2, <2>3 DEF Never
  <2>. QED BY <2>1, <2>2, <2>3, <2>4, <2>5, <2>6
<1>. QED BY Zenon, <1>1, <1>2

\* The upsert of an event keeps the read model within what was written, and what
\* shows up to the event goes on showing, the event itself included.
LEMMA Upsert ==
  ASSUME Types, NEW e \in 1..Len(outbox), ApplyUpdate(e), outbox' = outbox
  PROVE  /\ view' \in [Tenants -> Nat] /\ \A t \in Tenants : view'[t] <= Latest(t)
         /\ view'[outbox[e]] = VersionOf(e)
         /\ \A d \in 1..e : Shows(d) \/ d = e => Shows(d)'
<1>1. /\ outbox \in Seq(Tenants) /\ outbox[e] \in Tenants /\ view \in [Tenants -> Nat]
      /\ \A t \in Tenants : view[t] <= Latest(t)
  BY DEF Types
<1>2. /\ VersionOf(e) \in Nat /\ VersionOf(e) <= Latest(outbox[e])
      /\ \A d \in 1..e : outbox[d] = outbox[e] => VersionOf(d) <= VersionOf(e)
  BY Zenon, <1>1, Versions
<1>3. view' = [view EXCEPT ![outbox[e]] = VersionOf(e)]
  BY Zenon DEF ApplyUpdate
<1>4. view' \in [Tenants -> Nat] /\ \A t \in Tenants : view'[t] <= Latest(t)
  BY Zenon, <1>1, <1>2, <1>3
<1>5. ASSUME NEW d \in 1..e, Shows(d) \/ d = e PROVE Shows(d)'
  <2>1. VersionOf(d)' = VersionOf(d)
    BY Zenon DEF VersionOf
  <2>2. CASE outbox[d] = outbox[e]
    BY Zenon, <1>1, <1>2, <1>3, <2>1, <2>2 DEF Shows
  <2>3. CASE outbox[d] # outbox[e]
    BY <1>1, <1>3, <1>5, <2>1, <2>3 DEF Shows
  <2>. QED BY Zenon, <2>2, <2>3
<1>. QED BY Zenon, <1>1, <1>2, <1>3, <1>4, <1>5

\* What the worker reads after a sequence: the events right above it.
LEMMA Fetched ==
  ASSUME outbox \in Seq(Tenants), NEW s \in 0..Len(outbox)
  PROVE  /\ FetchSince(s) \in Seq(1..Len(outbox))
         /\ FetchSince(s) # << >> =>
              /\ Head(FetchSince(s)) = s + 1
              /\ \A i \in 1..Len(FetchSince(s)) : FetchSince(s)[i] = Head(FetchSince(s)) + (i - 1)
<1>. DEFINE last == IF s + BatchSize < Len(outbox) THEN s + BatchSize ELSE Len(outbox)
            n == IF last > s THEN last - s ELSE 0
<1>1. n \in Nat /\ s \in Nat /\ s + n <= Len(outbox) /\ Len(outbox) \in Nat
  BY BoundsAssumption
<1>2. FetchSince(s) = [i \in 1..n |-> s + i]
  BY Zenon DEF FetchSince
<1>. HIDE DEF n
<1>3. [i \in 1..n |-> s + i] \in Seq(1..Len(outbox)) /\ Len([i \in 1..n |-> s + i]) = n
  BY <1>1
<1>4. [i \in 1..n |-> s + i] # << >> => n > 0 /\ Head([i \in 1..n |-> s + i]) = s + 1
  BY <1>1, <1>3
<1>. QED BY <1>1, <1>2, <1>3, <1>4

\* A restart: the process keeps only what the checkpoint file says.
LEMMA RestartStep ==
  ASSUME ProjectorInv, Restart, UNCHANGED env, NEW k, Fault(k),
         \/ UNCHANGED view
         \/ \E e \in 1..Len(outbox) : ApplyUpdate(e) /\ (live \/ (Busy /\ e = Head(queue)))
  PROVE  ProjectorInv'
<1>1. Types /\ Place /\ Exact /\ UNCHANGED <<outbox, sent, live, missed>>
  BY Zenon DEF ProjectorInv, env
<1>2. /\ faults' \in Seq(Faults) /\ Len(faults') <= MaxFaults /\ (Never("get")' => Never("get"))
  BY Zenon, <1>1, Faulted
<1>3. /\ pc' = "boot" /\ mode' = "replay" /\ since' = 0 /\ queue' = << >> /\ sub' = << >>
      /\ (disk' = disk \/ disk' = 0) /\ checkpoint' = disk'
  BY Zenon DEF Restart
<1>4. view' \in [Tenants -> Nat] /\ \A t \in Tenants : view'[t] <= Latest(t)
  BY Zenon, <1>1, Upsert DEF Types
<1>5. Types'
  <2>1. \A t : Latest(t)' = Latest(t)
    BY Zenon, <1>1 DEF Latest
  <2>2. queue' \in Seq(1..Len(outbox)) /\ sub' \in Seq(1..Len(outbox)) /\ Len(outbox) \in Nat
    BY <1>1, <1>3 DEF Types
  <2>. QED BY <1>1, <1>2, <1>3, <1>4, <2>1, <2>2 DEF Types, Pcs
<1>6. Place' /\ Written'
  BY <1>1, <1>3 DEF Place, Written, Busy, Types
<1>7. Exact'
  <2>. SUFFICES ASSUME ~live, Never("get"), NEW e \in 1..Len(outbox), e <= checkpoint' PROVE Shows(e)'
    BY Zenon, <1>1, <1>2, <1>3 DEF Exact, Busy, Types
  <2>1. e <= checkpoint /\ Shows(e)
    BY <1>1, <1>3 DEF Exact, Place, Types
  <2>2. CASE UNCHANGED view
    BY Zenon, <1>1, <2>1, <2>2 DEF Shows, VersionOf
  <2>3. CASE Busy /\ ApplyUpdate(Head(queue)) /\ Head(queue) \in 1..Len(outbox)
    <3>1. Head(queue) = checkpoint + 1
      BY Zenon, <1>1, <2>3 DEF Exact
    <3>2. e \in 1..Head(queue)
      BY <1>1, <2>1, <3>1 DEF Types
    <3>. QED BY Zenon, <1>1, <2>1, <2>3, <3>2, Upsert
  <2>. QED BY Zenon, <2>2, <2>3
<1>. QED BY Zenon, <1>5, <1>6, <1>7 DEF ProjectorInv

-----------------------------------------------------------------------------
\* The actions

\* A mutation is committed: versions and what shows stay as they were.
LEMMA CommitStep ==
  ASSUME ProjectorInv, NEW t \in Tenants, Commit(t)
  PROVE  ProjectorInv'
<1>1. /\ Types /\ Place /\ Written /\ Exact /\ outbox \in Seq(Tenants)
      /\ outbox' = Append(outbox, t) /\ Len(outbox) < MaxEvents
      /\ UNCHANGED <<sent, live, missed, view, checkpoint, disk, pc, mode, since, queue, sub, faults>>
  BY Zenon DEF ProjectorInv, Types, Commit
<1>2. /\ outbox' \in Seq(Tenants) /\ Len(outbox') = Len(outbox) + 1 /\ Len(outbox) \in Nat
      /\ \A e \in 1..Len(outbox) : outbox'[e] = outbox[e]
  BY <1>1
<1>3. ASSUME NEW e \in 1..Len(outbox) PROVE VersionOf(e)' = VersionOf(e)
  <2>1. {f \in 1..e : outbox'[f] = outbox'[e]} = {f \in 1..e : outbox[f] = outbox[e]}
    BY <1>2
  <2>. QED BY Zenon, <2>1 DEF VersionOf
<1>4. ASSUME NEW u \in Tenants PROVE view[u] <= Latest(u)'
  <2>1. {f \in 1..Len(outbox) : outbox'[f] = u} = {f \in 1..Len(outbox) : outbox[f] = u}
    BY Zenon, <1>2
  <2>2. /\ Cardinality({f \in 1..Len(outbox) : outbox'[f] = u}) \in Nat
        /\ Cardinality({f \in 1..Len(outbox') : outbox'[f] = u}) \in Nat
        /\ Cardinality({f \in 1..Len(outbox) : outbox'[f] = u})
             <= Cardinality({f \in 1..Len(outbox') : outbox'[f] = u})
    <3>1. Len(outbox) \in Nat /\ Len(outbox') \in Nat /\ Len(outbox) <= Len(outbox')
      BY <1>2
    <3>. QED BY Zenon, <3>1, CountGrows
  <2>3. view[u] \in Nat /\ view[u] <= Latest(u)
    BY Zenon, <1>1 DEF Types
  <2>4. /\ Latest(u) = Cardinality({f \in 1..Len(outbox) : outbox[f] = u})
        /\ Latest(u)' = Cardinality({f \in 1..Len(outbox') : outbox'[f] = u})
    BY Zenon DEF Latest
  <2>. DEFINE before == Cardinality({f \in 1..Len(outbox) : outbox'[f] = u})
              after == Cardinality({f \in 1..Len(outbox') : outbox'[f] = u})
  <2>5. Latest(u) = before /\ Latest(u)' = after /\ before \in Nat /\ after \in Nat /\ before <= after
    BY Zenon, <2>1, <2>2, <2>4
  <2>. HIDE DEF before, after
  <2>. QED BY <2>3, <2>5
<1>5. Types'
  <2>1. queue' \in Seq(1..Len(outbox')) /\ sub' \in Seq(1..Len(outbox'))
    <3>1. 1..Len(outbox) \subseteq 1..Len(outbox')
      BY <1>2
    <3>. QED BY <1>1, <3>1 DEF Types
  <2>2. Len(outbox') <= MaxEvents
    BY <1>1, <1>2, BoundsAssumption
  <2>. QED BY <1>1, <1>2, <1>4, <2>1, <2>2 DEF Types
<1>6. Place'
  BY Zenon, <1>1 DEF Place, Busy
<1>7. Written'
  <2>. SUFFICES ASSUME pc = "advance" PROVE view[outbox'[Head(queue)]] = VersionOf(Head(queue))'
    BY Zenon, <1>1 DEF Written
  <2>1. Head(queue) \in 1..Len(outbox)
    <3>1. queue \in Seq(1..Len(outbox)) /\ queue # << >>
      BY Zenon, <1>1 DEF Types, Place, Busy
    <3>. QED BY <3>1
  <2>. QED BY Zenon, <1>1, <1>2, <1>3, <2>1 DEF Written
<1>8. Exact'
  <2>. SUFFICES ASSUME ~live, Never("get"), NEW e \in 1..Len(outbox'), e <= checkpoint PROVE Shows(e)'
    BY Zenon, <1>1 DEF Exact, Busy, Never
  <2>1. e \in 1..Len(outbox)
    BY <1>1, <1>2 DEF Types
  <2>. QED BY Zenon, <1>1, <1>2, <1>3, <2>1 DEF Exact, Shows
<1>. QED BY Zenon, <1>5, <1>6, <1>7, <1>8 DEF ProjectorInv

\* Steps that leave the read model and the outbox alone.
LEMMA QuietStep ==
  ASSUME ProjectorInv, UNCHANGED <<outbox, view, live>>, NEW k, Fault(k) \/ NoFault,
         checkpoint' \in 0..Len(outbox), disk' \in 0..Len(outbox), since' \in 0..Len(outbox),
         pc' \in Pcs \ {"advance"}, mode' \in {"replay", "poll"}, sent' \in 0..Len(outbox), missed' \in BOOLEAN,
         queue' \in Seq(1..Len(outbox)), sub' \in Seq(1..Len(outbox)), Place',
         ~live /\ Never("get") /\ Never("get")' =>
           /\ pc' = "replay" => since' = checkpoint'
           /\ pc' = "apply" => Head(queue') = checkpoint' + 1
           /\ \A e \in 1..Len(outbox) : e <= checkpoint' => e <= checkpoint \/ Shows(e)
  PROVE  ProjectorInv'
<1>1. Types /\ Exact
  BY Zenon DEF ProjectorInv
<1>2. faults' \in Seq(Faults) /\ Len(faults') <= MaxFaults /\ (Never("get")' => Never("get"))
  BY Zenon, <1>1, Faulted
<1>3. Types'
  <2>1. \A t : Latest(t)' = Latest(t)
    BY Zenon DEF Latest
  <2>. QED BY Zenon, <1>1, <1>2, <2>1 DEF Types
<1>4. Written'
  BY Zenon DEF Written
<1>5. Exact'
  <2>1. \A e : Shows(e)' <=> Shows(e)
    BY Zenon DEF Shows, VersionOf
  <2>. QED BY Zenon, <1>1, <1>2, <2>1 DEF Exact, Busy
<1>. QED BY Zenon, <1>3, <1>4, <1>5 DEF ProjectorInv

\* The relay publishes the next event.
LEMMA SendStep == ASSUME ProjectorInv, Send PROVE ProjectorInv'
<1>1. /\ Types /\ Place /\ Written /\ Exact /\ sent < Len(outbox) /\ sent' = sent + 1
      /\ missed' = (missed \/ pc = "connect")
      /\ sub' = IF pc = "live" THEN Append(sub, sent + 1) ELSE sub
      /\ UNCHANGED <<outbox, live, view, checkpoint, disk, pc, mode, since, queue, faults>>
  BY Zenon DEF ProjectorInv, Send
<1>2. missed' \in BOOLEAN
  BY Zenon, <1>1
<1>3. sent' \in 0..Len(outbox) /\ sub' \in Seq(1..Len(outbox))
  <2>1. sent \in 0..Len(outbox) /\ sub \in Seq(1..Len(outbox)) /\ Len(outbox) \in Nat
    BY <1>1 DEF Types
  <2>2. sent + 1 \in 1..Len(outbox)
    BY <1>1, <2>1
  <2>3. Append(sub, sent + 1) \in Seq(1..Len(outbox))
    BY <2>1, <2>2
  <2>4. sent' \in 0..Len(outbox)
    BY <1>1, <2>1, <2>2
  <2>5. sub' = sub \/ sub' = Append(sub, sent + 1)
    BY Zenon, <1>1
  <2>. QED BY Zenon, <2>1, <2>3, <2>4, <2>5
<1>4. Types'
  <2>1. \A t : Latest(t)' = Latest(t)
    BY Zenon, <1>1 DEF Latest
  <2>. QED BY Zenon, <1>1, <1>2, <1>3, <2>1 DEF Types
<1>5. Place' /\ Written'
  BY Zenon, <1>1 DEF Place, Written, Busy, VersionOf
<1>6. Exact'
  BY Zenon, <1>1 DEF Exact, Busy, Never, Shows, VersionOf
<1>. QED BY Zenon, <1>4, <1>5, <1>6 DEF ProjectorInv

\* The worker starts from the checkpoint, or from 0 when it cannot read it.
LEMMA BootStep == ASSUME ProjectorInv, Boot PROVE ProjectorInv'
<1>1. Types /\ Place /\ Exact
  BY Zenon DEF ProjectorInv
<1>2. /\ pc = "boot" /\ pc' = "replay" /\ UNCHANGED <<outbox, sent, live, missed, view, checkpoint, disk, mode, queue, sub>>
      /\ \/ NoFault /\ since' = checkpoint
         \/ Fault("get") /\ since' = 0
  BY Zenon DEF Boot, env
<1>3. checkpoint \in Nat /\ since' \in 0..Len(outbox) /\ since' <= checkpoint
  BY <1>1, <1>2 DEF Types
<1>4. Place'
  BY Zenon, <1>1, <1>2, <1>3 DEF Place, Busy
<1>5. Never("get")' => since' = checkpoint
  BY Zenon, <1>1, <1>2, Faulted
<1>6. \/ NoFault
      \/ Fault("get")
  BY Zenon, <1>2
<1>. QED BY Zenon, <1>1, <1>2, <1>3, <1>4, <1>5, <1>6, QuietStep DEF Types, Exact, Pcs

\* A batch fetched above a sequence no further than the checkpoint, in the replay
\* (where it is since) and in the poll loop.
LEMMA FetchStep ==
  ASSUME ProjectorInv, NEW s \in 0..Len(outbox), s <= checkpoint, NEW k, Fault(k) \/ NoFault,
         pc \in {"replay", "poll"}, queue' = FetchSince(s),
         ~live /\ Never("get")' => s = checkpoint,
         pc' \in {"apply", "poll", "connect"}, pc' = "apply" <=> queue' # << >>,
         pc' = "connect" => live, pc' = "poll" => mode' = "poll",
         mode' = mode \/ (mode' = "poll" /\ ~live /\ pc' = "poll"),
         pc' = "connect" => mode' = "replay",
         UNCHANGED <<env, view, since, sub, checkpoint, disk>>
  PROVE  ProjectorInv'
<1>1. Types /\ Place /\ Exact /\ UNCHANGED <<outbox, sent, live, missed>> /\ outbox \in Seq(Tenants) /\ checkpoint \in Nat
  BY DEF ProjectorInv, env, Types
<1>2. /\ queue' \in Seq(1..Len(outbox))
      /\ queue' # << >> =>
           Head(queue') = s + 1 /\ \A i \in 1..Len(queue') : queue'[i] = Head(queue') + (i - 1)
  BY Zenon, <1>1, Fetched
<1>3. Place'
  BY <1>1, <1>2 DEF Place, Busy
<1>. QED BY Zenon, <1>1, <1>2, <1>3, QuietStep DEF Types, Exact, Pcs

\* A batch of the replay, or its end.
LEMMA ReplayFetchStep == ASSUME ProjectorInv, ReplayFetch PROVE ProjectorInv'
<1>1. Types /\ Place /\ Exact /\ pc = "replay" /\ mode = "replay" /\ since <= checkpoint /\ since \in 0..Len(outbox)
      /\ live \in BOOLEAN
  BY Zenon DEF ProjectorInv, ReplayFetch, Place, Types
<1>2. CASE Fault("source") /\ Restart /\ UNCHANGED <<env, view>>
  BY Zenon, <1>2, RestartStep
<1>3. CASE /\ NoFault /\ queue' = FetchSince(since)
           /\ pc' = IF queue' # << >> THEN "apply" ELSE IF live THEN "connect" ELSE "poll"
           /\ mode' = IF pc' = "poll" THEN "poll" ELSE mode
           /\ UNCHANGED <<since, sub, checkpoint, disk, env, view>>
  <2>1. ~live /\ Never("get")' => since = checkpoint
    BY Zenon, <1>1, <1>3, Faulted DEF Exact
  <2>. QED BY Zenon, <1>1, <1>3, <2>1, FetchStep
<1>. QED BY Zenon, <1>2, <1>3 DEF ReplayFetch

\* A round of the poll loop.
LEMMA PollFetchStep == ASSUME ProjectorInv, PollFetch PROVE ProjectorInv'
<1>1. Types /\ Place /\ Exact /\ pc = "poll" /\ mode = "poll" /\ ~live /\ checkpoint \in 0..Len(outbox)
      /\ 0 \in 0..Len(outbox) /\ 0 <= checkpoint /\ checkpoint <= checkpoint
  BY DEF ProjectorInv, PollFetch, Place, Types
<1>2. CASE Fault("source") /\ Restart /\ UNCHANGED <<env, view>>
  BY Zenon, <1>2, RestartStep
<1>3. CASE /\ NoFault /\ queue' = FetchSince(checkpoint)
           /\ pc' = IF queue' # << >> THEN "apply" ELSE "poll"
           /\ UNCHANGED <<mode, since, sub, checkpoint, disk, env, view>>
  BY Zenon, <1>1, <1>3, FetchStep
<1>4. CASE /\ Fault("get") /\ queue' = FetchSince(0)
           /\ pc' = IF queue' # << >> THEN "apply" ELSE "poll"
           /\ UNCHANGED <<mode, since, sub, checkpoint, disk, env, view>>
  <2>1. ~Never("get")'
    BY Zenon, <1>1, <1>4, Faulted
  <2>. QED BY Zenon, <1>1, <1>4, <2>1, FetchStep
<1>. QED BY Zenon, <1>2, <1>3, <1>4 DEF PollFetch

\* An event is applied: from a batch, with the checkpoint right below it or past
\* it already, or from the subscription of a live worker.
LEMMA ApplyStep ==
  ASSUME ProjectorInv, NEW e \in 1..Len(outbox), ApplyUpdate(e), NoFault, UNCHANGED env,
         UNCHANGED <<mode, since, queue, checkpoint, disk>>, sub' \in Seq(1..Len(outbox)),
         \/ pc = "apply" /\ pc' = "advance" /\ e = Head(queue)
         \/ pc = "live" /\ pc' = "live"
  PROVE  ProjectorInv'
<1>1. Types /\ Place /\ Exact /\ UNCHANGED <<outbox, sent, live, missed, faults>>
  BY Zenon DEF ProjectorInv, env, NoFault
<1>2. /\ view' \in [Tenants -> Nat] /\ \A t \in Tenants : view'[t] <= Latest(t)
      /\ view'[outbox[e]] = VersionOf(e)
      /\ \A d \in 1..e : Shows(d) \/ d = e => Shows(d)'
  BY Zenon, <1>1, Upsert
<1>3. Types'
  <2>1. \A t : Latest(t)' = Latest(t)
    BY Zenon, <1>1 DEF Latest
  <2>. QED BY Zenon, <1>1, <1>2, <2>1 DEF Types, Pcs
<1>4. Place'
  BY Zenon, <1>1 DEF Place, Busy
<1>5. Written'
  BY Zenon, <1>1, <1>2 DEF Written, VersionOf
<1>6. Exact'
  <2>. SUFFICES ASSUME ~live, Never("get") PROVE Exact'
    BY Zenon, <1>1 DEF Exact, Never
  <2>1. pc = "apply" /\ pc' = "advance" /\ e = checkpoint + 1
    BY Zenon, <1>1 DEF Place, Exact, Busy
  <2>2. ASSUME NEW d \in 1..Len(outbox), d <= checkpoint PROVE Shows(d)'
    <3>1. Shows(d) /\ d \in 1..e
      BY <1>1, <2>1, <2>2 DEF Exact, Types
    <3>. QED BY Zenon, <1>2, <3>1
  <2>. QED BY Zenon, <1>1, <2>1, <2>2 DEF Exact, Busy
<1>. QED BY Zenon, <1>3, <1>4, <1>5, <1>6 DEF ProjectorInv

\* The next event of the batch.
LEMMA ProcessEventStep == ASSUME ProjectorInv, ProcessEvent PROVE ProjectorInv'
<1>1. pc = "apply" /\ Busy /\ queue \in Seq(1..Len(outbox)) /\ queue # << >> /\ sub \in Seq(1..Len(outbox))
  BY Zenon DEF ProjectorInv, ProcessEvent, Place, Types, Busy
<1>2. Head(queue) \in 1..Len(outbox)
  BY <1>1
<1>3. CASE /\ NoFault /\ ApplyUpdate(Head(queue)) /\ pc' = "advance"
           /\ UNCHANGED <<mode, since, queue, sub, checkpoint, disk, env>>
  BY Zenon, <1>1, <1>2, <1>3, ApplyStep
<1>4. CASE Fault("apply") /\ (ApplyUpdate(Head(queue)) \/ UNCHANGED view) /\ Restart /\ UNCHANGED env
  BY Zenon, <1>1, <1>2, <1>4, RestartStep
<1>. QED BY Zenon, <1>3, <1>4 DEF ProcessEvent

\* The next event of the subscription.
LEMMA LiveEventStep == ASSUME ProjectorInv, LiveEvent PROVE ProjectorInv'
<1>1. pc = "live" /\ live /\ sub \in Seq(1..Len(outbox)) /\ sub # << >>
  BY Zenon DEF ProjectorInv, LiveEvent, Place, Types
<1>2. Head(sub) \in 1..Len(outbox) /\ Tail(sub) \in Seq(1..Len(outbox))
  BY <1>1
<1>3. CASE /\ NoFault /\ ApplyUpdate(Head(sub)) /\ sub' = Tail(sub)
           /\ UNCHANGED <<pc, mode, since, queue, checkpoint, disk, env>>
  BY Zenon, <1>1, <1>2, <1>3, ApplyStep
<1>4. CASE Fault("apply") /\ (ApplyUpdate(Head(sub)) \/ UNCHANGED view) /\ Restart /\ UNCHANGED env
  <2>1. UNCHANGED view \/ \E e \in 1..Len(outbox) : ApplyUpdate(e) /\ (live \/ (Busy /\ e = Head(queue)))
    <3>1. CASE UNCHANGED view
      BY Zenon, <3>1
    <3>2. CASE ApplyUpdate(Head(sub))
      <4>1. live /\ Head(sub) \in 1..Len(outbox)
        BY Zenon, <1>1, <1>2
      <4>. QED BY Zenon, <3>2, <4>1
    <3>. QED BY Zenon, <1>4, <3>1, <3>2
  <2>. QED BY Zenon, <1>4, <2>1, RestartStep
<1>. QED BY Zenon, <1>3, <1>4 DEF LiveEvent

\* The checkpoint moves to the event h just applied, or is past it already, and q
\* is the rest of the batch.
LEMMA AdvanceTo ==
  ASSUME ProjectorInv, pc = "advance", UNCHANGED <<env, view, mode, sub>>, NEW k, Fault(k) \/ NoFault,
         NEW h \in 1..Len(outbox), NEW q \in Seq(1..Len(outbox)),
         h = Head(queue), h <= checkpoint + 1,
         q # << >> => Head(q) = h + 1 /\ \A i \in 1..Len(q) : q[i] = Head(q) + (i - 1),
         checkpoint' = h \/ (checkpoint' = checkpoint /\ h <= checkpoint),
         disk' = checkpoint' \/ (disk' = disk /\ checkpoint' = checkpoint),
         since' = IF mode = "replay" THEN h ELSE since,
         queue' = q, pc' = IF q = << >> THEN mode ELSE "apply"
  PROVE  ProjectorInv' /\ CheckpointNeverSkips
<1>1. /\ Types /\ Place /\ Exact /\ Written /\ UNCHANGED <<outbox, sent, live, missed>> /\ Busy
  BY Zenon DEF ProjectorInv, env, Busy
<1>2. /\ Len(outbox) \in Nat /\ checkpoint \in 0..Len(outbox) /\ disk \in 0..Len(outbox)
      /\ since \in 0..Len(outbox) /\ mode \in {"replay", "poll"} /\ disk <= checkpoint
  BY <1>1 DEF Types, Place
<1>3. /\ checkpoint' \in 0..Len(outbox) /\ h <= checkpoint' /\ since' \in 0..Len(outbox)
  BY <1>2
<1>4. disk' \in 0..Len(outbox) /\ disk' <= checkpoint'
  BY <1>2, <1>3
<1>5. Place'
  <2>1. mode = "poll" => ~live
    BY Zenon, <1>1 DEF Place
  <2>2. pc' = "replay" => since' <= checkpoint'
    BY Zenon, <1>2, <1>3
  <2>3. pc' = "apply" => q # << >> /\ Head(q) <= checkpoint' + 1
    BY <1>2, <1>3
  <2>. QED BY Zenon, <1>1, <1>2, <1>4, <2>1, <2>2, <2>3 DEF Place, Busy
<1>6. VersionOf(h) \in Nat /\ view[outbox[h]] = VersionOf(h) /\ Shows(h)
  <2>1. VersionOf(h) \in Nat /\ view[outbox[h]] = VersionOf(h)
    <3>1. outbox \in Seq(Tenants) /\ view[outbox[h]] = VersionOf(h)
      BY Zenon, <1>1 DEF Written, Types
    <3>. QED BY Zenon, <3>1, Versions
  <2>. QED BY <2>1 DEF Shows
<1>7. ASSUME ~live, Never("get"), Never("get")'
      PROVE  /\ pc' = "replay" => since' = checkpoint'
             /\ pc' = "apply" => Head(queue') = checkpoint' + 1
             /\ \A e \in 1..Len(outbox) : e <= checkpoint' => e <= checkpoint \/ Shows(e)
  <2>1. h = checkpoint + 1 /\ checkpoint' = h
    BY <1>1, <1>2, <1>7 DEF Exact
  <2>2. \A e \in 1..Len(outbox) : e <= checkpoint' => e <= checkpoint \/ e = h
    BY <1>2, <2>1
  <2>3. pc' = "replay" => since' = checkpoint'
    BY Zenon, <1>2, <2>1
  <2>4. pc' = "apply" => Head(queue') = checkpoint' + 1
    BY Zenon, <1>2, <2>1
  <2>. QED BY Zenon, <1>6, <2>2, <2>3, <2>4
<1>8. ProjectorInv'
  <2>1. sent \in 0..Len(outbox) /\ missed \in BOOLEAN /\ sub \in Seq(1..Len(outbox)) /\ pc' \in Pcs \ {"advance"}
    BY Zenon, <1>1, <1>2 DEF Types, Pcs
  <2>. QED BY Zenon, <1>1, <1>2, <1>3, <1>4, <1>5, <1>7, <2>1, QuietStep
<1>9. CheckpointNeverSkips
  <2>. SUFFICES ASSUME checkpoint' > checkpoint PROVE checkpoint' = checkpoint + 1 /\ checkpoint' = h
    BY Zenon, <1>6 DEF CheckpointNeverSkips
  <2>. QED BY <1>2
<1>. QED BY Zenon, <1>8, <1>9

\* The advance: the rest of the batch starts right above the event, and the
\* checkpoint moves to the event or is past it.
LEMMA Advanced ==
  ASSUME ProjectorInv, pc = "advance", UNCHANGED <<env, view, mode, sub>>,
         \/ NoFault /\ checkpoint' = IF Head(queue) > checkpoint THEN Head(queue) ELSE checkpoint
         \/ Fault("get") /\ checkpoint' = Head(queue),
         disk' = IF checkpoint' = checkpoint THEN disk ELSE checkpoint',
         since' = IF mode = "replay" THEN Head(queue) ELSE since,
         queue' = Tail(queue),
         pc' = IF queue' = << >> THEN mode ELSE "apply"
  PROVE  /\ ProjectorInv'
         /\ CheckpointNeverSkips
<1>1. /\ Types /\ Place /\ Exact /\ Written /\ UNCHANGED <<outbox, sent, live, missed>> /\ Busy
  BY Zenon DEF ProjectorInv, env, Busy
<1>2. PICK h, q : h = Head(queue) /\ q = Tail(queue)
  BY Zenon
<1>3. /\ queue \in Seq(1..Len(outbox)) /\ queue # << >> /\ Len(outbox) \in Nat
      /\ checkpoint \in 0..Len(outbox) /\ disk \in 0..Len(outbox) /\ since \in 0..Len(outbox)
      /\ mode \in {"replay", "poll"} /\ disk <= checkpoint /\ h <= checkpoint + 1
  BY <1>1, <1>2 DEF Types, Place
<1>4. \A i \in 1..Len(queue) : queue[i] = h + (i - 1)
  BY Zenon, <1>1, <1>2 DEF Place
<1>5. /\ h \in 1..Len(outbox) /\ q \in Seq(1..Len(outbox))
      /\ q # << >> => Head(q) = h + 1 /\ \A i \in 1..Len(q) : q[i] = Head(q) + (i - 1)
  <2>1. h \in 1..Len(outbox) /\ q \in Seq(1..Len(outbox))
    BY <1>2, <1>3
  <2>6. Len(queue) \in Nat /\ Len(queue) > 0 /\ Len(q) = Len(queue) - 1
    BY <1>2, <1>3
  <2>2. \A i \in 1..Len(q) : q[i] = queue[i + 1] /\ i + 1 \in 1..Len(queue)
    BY <1>2, <1>3, <2>6
  <2>3. ASSUME NEW i \in 1..Len(q) PROVE q[i] = h + i
    <3>1. q[i] = queue[i + 1] /\ i + 1 \in 1..Len(queue)
      BY Zenon, <2>2
    <3>2. q[i] = h + ((i + 1) - 1)
      BY Zenon, <1>4, <3>1
    <3>. QED BY <2>1, <2>6, <3>2
  <2>4. q # << >> => Head(q) = q[1] /\ 1 \in 1..Len(q)
    BY <2>1
  <2>5. q # << >> => Head(q) = h + 1
    BY Zenon, <2>1, <2>3, <2>4
  <2>7. q # << >> => \A i \in 1..Len(q) : q[i] = Head(q) + (i - 1)
    BY <2>1, <2>3, <2>5, <2>6
  <2>. QED BY Zenon, <2>1, <2>5, <2>7
<1>6. /\ disk' = IF checkpoint' = checkpoint THEN disk ELSE checkpoint'
      /\ since' = IF mode = "replay" THEN h ELSE since
      /\ queue' = q /\ pc' = IF q = << >> THEN mode ELSE "apply"
  BY Zenon, <1>2
<1>7. checkpoint' = h \/ (checkpoint' = checkpoint /\ h <= checkpoint)
  <2>1. checkpoint' = h \/ (checkpoint' = checkpoint /\ ~(h > checkpoint))
    BY Zenon, <1>2
  <2>2. h \in Int /\ checkpoint \in Int
    BY <1>3, <1>5
  <2>. QED BY <2>1, <2>2
<1>8. disk' = checkpoint' \/ (disk' = disk /\ checkpoint' = checkpoint)
  BY Zenon, <1>6
<1>9. \/ NoFault
      \/ Fault("get")
  BY Zenon
<1>. QED BY Zenon, <1>2, <1>3, <1>5, <1>6, <1>8, <1>9, <1>7, AdvanceTo

\* No other step moves the checkpoint up: a restart reads the file, which is
\* never above the store.
LEMMA RestartSkipsNothing == ASSUME ProjectorInv, Restart PROVE CheckpointNeverSkips
<1>1. disk \in Nat /\ checkpoint \in Nat /\ disk <= checkpoint
  BY DEF ProjectorInv, Types, Place
<1>2. checkpoint' = disk \/ checkpoint' = 0
  BY Zenon DEF Restart
<1>3. ~(checkpoint' > checkpoint)
  BY <1>1, <1>2
<1>. QED BY Zenon, <1>3 DEF CheckpointNeverSkips

\* The advance, or its failure.
LEMMA AdvanceStep == ASSUME ProjectorInv, AdvanceCheckpoint PROVE ProjectorInv' /\ CheckpointNeverSkips
<1>1. CASE Fault("advance") /\ Restart /\ UNCHANGED <<env, view>>
  BY Zenon, <1>1, RestartStep, RestartSkipsNothing
<1>2. CASE /\ \/ NoFault /\ checkpoint' = IF Head(queue) > checkpoint THEN Head(queue) ELSE checkpoint
              \/ Fault("get") /\ checkpoint' = Head(queue)
           /\ disk' = IF checkpoint' = checkpoint THEN disk ELSE checkpoint'
           /\ since' = IF mode = "replay" THEN Head(queue) ELSE since
           /\ queue' = Tail(queue)
           /\ pc' = IF queue' = << >> THEN mode ELSE "apply"
           /\ UNCHANGED <<mode, sub, env, view>>
  BY Zenon, <1>2, Advanced DEF AdvanceCheckpoint
<1>. QED BY Zenon, <1>1, <1>2 DEF AdvanceCheckpoint

\* The subscription.
LEMMA ConnectStep == ASSUME ProjectorInv, Connect PROVE ProjectorInv'
<1>1. CASE Fault("source") /\ Restart /\ UNCHANGED <<env, view>>
  BY Zenon, <1>1, RestartStep
<1>2. CASE NoFault /\ pc' = "live" /\ UNCHANGED <<mode, since, queue, sub, checkpoint, disk, env, view>>
  <2>1. /\ Types /\ Place /\ live /\ mode = "replay" /\ UNCHANGED <<outbox, sent, live, missed>>
    BY Zenon, <1>2 DEF ProjectorInv, Connect, Place, env
  <2>2. Place'
    BY Zenon, <1>2, <2>1 DEF Place, Busy
  <2>. QED BY Zenon, <1>2, <2>1, <2>2, QuietStep DEF Types, Pcs
<1>. QED BY Zenon, <1>1, <1>2 DEF Connect

-----------------------------------------------------------------------------
\* The theorem

\* A worker that has not started, with an empty outbox.
LEMMA ProjectorInvInit == Init => ProjectorInv
<1>. SUFFICES ASSUME Init PROVE ProjectorInv
  BY Zenon
<1>1. /\ outbox = << >> /\ outbox \in Seq(Tenants) /\ Len(outbox) = 0 /\ 0 \in 0..Len(outbox)
      /\ view = [t \in Tenants |-> 0] /\ checkpoint = 0 /\ disk = 0 /\ since = 0 /\ sent = 0
      /\ pc = "boot" /\ mode = "replay" /\ queue = << >> /\ sub = << >> /\ faults = << >>
  BY DEF Init
<1>2. live \in BOOLEAN /\ missed \in BOOLEAN
  BY Zenon, TailsAssumption DEF Init
<1>3. queue \in Seq(1..Len(outbox)) /\ sub \in Seq(1..Len(outbox)) /\ faults \in Seq(Faults) /\ Len(faults) = 0
  BY <1>1
<1>4. \A t \in Tenants : view[t] \in Nat /\ view[t] <= Latest(t)
  <2>. SUFFICES ASSUME NEW t \in Tenants PROVE 0 <= Latest(t)
    BY Zenon, <1>1
  <2>1. 0 \in Nat /\ 0 <= 0
    OBVIOUS
  <2>2. Cardinality({f \in 1..0 : outbox[f] = t}) \in Nat
    BY Zenon, <2>1, CountGrows
  <2>. QED BY <1>1, <2>2 DEF Latest
<1>5. Types
  BY <1>1, <1>2, <1>3, <1>4, BoundsAssumption DEF Types, Pcs
<1>6. Place /\ Written /\ Exact
  BY <1>1 DEF Place, Written, Exact, Busy
<1>. QED BY Zenon, <1>5, <1>6 DEF ProjectorInv

\* Every step keeps the invariant, and none moves the checkpoint past an event.
LEMMA ProjectorInvStep == ASSUME ProjectorInv, [Next]_vars PROVE ProjectorInv' /\ CheckpointNeverSkips
<1>1. checkpoint' = checkpoint => CheckpointNeverSkips
  <2>1. checkpoint \in Nat
    BY DEF ProjectorInv, Types
  <2>2. checkpoint' = checkpoint => ~(checkpoint' > checkpoint)
    BY <2>1
  <2>. QED BY Zenon, <2>2 DEF CheckpointNeverSkips
<1>2. CASE UNCHANGED vars
  <2>1. UNCHANGED <<outbox, sent, live, missed, view, checkpoint, disk, pc, mode, since, queue, sub, faults>>
    BY Zenon, <1>2 DEF vars, env
  <2>2. Types' /\ Place' /\ Written'
    BY Zenon, <2>1 DEF ProjectorInv, Types, Latest, Place, Busy, Written, VersionOf
  <2>3. Exact'
    BY Zenon, <2>1 DEF ProjectorInv, Exact, Never, Busy, Shows, VersionOf
  <2>. QED BY Zenon, <1>1, <2>1, <2>2, <2>3 DEF ProjectorInv
<1>3. ASSUME NEW t \in Tenants, Commit(t) PROVE ProjectorInv' /\ checkpoint' = checkpoint
  BY Zenon, <1>3, CommitStep DEF Commit
<1>4. CASE Send
  BY Zenon, <1>4, <1>1, SendStep DEF Send
<1>5. CASE Boot
  BY Zenon, <1>5, <1>1, BootStep DEF Boot
<1>6. CASE ReplayFetch \/ PollFetch \/ Connect
  <2>1. ProjectorInv'
    BY Zenon, <1>6, ReplayFetchStep, PollFetchStep, ConnectStep
  <2>2. Restart \/ checkpoint' = checkpoint
    BY Zenon, <1>6 DEF ReplayFetch, PollFetch, Connect
  <2>. QED BY Zenon, <1>1, <2>1, <2>2, RestartSkipsNothing
<1>7. CASE ProcessEvent \/ LiveEvent
  <2>1. ProjectorInv'
    BY Zenon, <1>7, ProcessEventStep, LiveEventStep
  <2>2. Restart \/ checkpoint' = checkpoint
    BY Zenon, <1>7 DEF ProcessEvent, LiveEvent
  <2>. QED BY Zenon, <1>1, <2>1, <2>2, RestartSkipsNothing
<1>8. CASE AdvanceCheckpoint
  BY Zenon, <1>8, AdvanceStep
<1>9. CASE Crash
  BY Zenon, <1>9, RestartStep, RestartSkipsNothing DEF Crash
<1>. QED BY Zenon, <1>2, <1>3, <1>4, <1>5, <1>6, <1>7, <1>8, <1>9, <1>1 DEF Next, Step

\* The projector worker keeps its types, and its checkpoint is never ahead of the
\* read model, whatever fails and whenever it is restarted: process_event comes
\* before the advance, the batch has no gaps, and the file is not above the store.
THEOREM ProjectorCorrect == Spec => []TypeOK /\ CheckpointIsEarned
<1>1. ProjectorInv => TypeOK
  <2>. SUFFICES ASSUME ProjectorInv PROVE TypeOK
    BY Zenon
  <2>1. Types /\ Len(outbox) \in Nat /\ 1..Len(outbox) \subseteq Events
    BY BoundsAssumption DEF ProjectorInv, Types, Events
  <2>2. queue \in Seq(Events) /\ sub \in Seq(Events)
    <3>1. queue \in Seq(1..Len(outbox)) /\ sub \in Seq(1..Len(outbox)) /\ 1..Len(outbox) \subseteq 1..MaxEvents
      BY Zenon, <2>1 DEF Types, Events
    <3>. QED BY Zenon, <3>1, WiderSeq DEF Events
  <2>. QED BY Zenon, <2>1, <2>2 DEF Types, TypeOK, Pcs
<1>2. ProjectorInv => CheckpointIsCovered
  <2>. SUFFICES ASSUME ProjectorInv, ~live, Never("get"), NEW e \in 1..Len(outbox), e <= checkpoint \/ e <= disk
                PROVE  Shows(e)
    BY Zenon DEF CheckpointIsCovered
  <2>1. e <= checkpoint
    BY DEF ProjectorInv, Types, Place
  <2>. QED BY Zenon, <2>1 DEF ProjectorInv, Exact
<1>3. ProjectorInv /\ [Next]_vars => ProjectorInv' /\ CheckpointNeverSkips
  BY Zenon, ProjectorInvStep
<1>4. ProjectorInv /\ ProjectorInv' /\ [Next]_vars => [CheckpointNeverSkips /\ CheckpointIsCovered']_vars
  <2>1. ProjectorInv' => CheckpointIsCovered'
    BY <1>2, PTL
  <2>. QED BY Zenon, <1>3, <2>1
<1>. QED BY <1>1, <1>3, <1>4, ProjectorInvInit, PTL DEF Spec, CheckpointIsEarned

-----------------------------------------------------------------------------
(* Outbound delivery. *)

DeliveryJobs ==
  [target : Endpoints \cup {NotANotice}, status : DeliveryJobStatus, attempts : Nat, due : BOOLEAN]

\* The locals of deliver_due: an increasing batch of jobs, and of the first one
\* what the outbox and the transport have said.
Locals == [batch : Seq(Nat), step : {"attempt", "deliver", "settle"}, used : Nat, ok : BOOLEAN]
Increasing(batch) == \A a, b \in DOMAIN batch : a < b => batch[a] < batch[b]
InHand(w) ==
  /\ worker[w] \in Locals /\ Increasing(worker[w].batch)
  /\ \A a \in DOMAIN worker[w].batch : worker[w].batch[a] \in DOMAIN jobs
  /\ worker[w].batch # << >> => w \in crew
  /\ worker[w].step # "attempt" => worker[w].batch # << >> /\ worker[w].used <= jobs[worker[w].batch[1]].attempts
  /\ worker[w].step = "settle" /\ worker[w].ok => received[worker[w].batch[1]]

\* The workers that have claimed the job and not attempted it yet, and those
\* whose failed attempt would make it due again.
Holds(at, j) == \E a \in DOMAIN at.batch : at.batch[a] = j /\ (a = 1 => at.step = "attempt")
Retries(at, j) == at.step # "attempt" /\ at.batch[1] = j /\ at.used < MaxAttempts
Holding(j) == {w \in crew : Holds(worker[w], j)}
Retrying(j) == {w \in crew : Retries(worker[w], j)}

\* How often the job can still become due, and the attempts claims allow before.
RetriesLeft(j) ==
  Cardinality(Retrying(j)) + (IF jobs[j].attempts < MaxAttempts THEN MaxAttempts - 1 - jobs[j].attempts ELSE 0)
ClaimsLeft(j) ==
  IF jobs[j].status \in {"Pending", "Failed"} THEN Cardinality(crew) ELSE Cardinality(Holding(j))

\* Every time the job is due each worker can attempt it once.
WithinBudget(j) ==
  jobs[j].attempts + ClaimsLeft(j) + Cardinality(crew) * RetriesLeft(j) <= MaxAttempts * Cardinality(crew)

\* The jobs of an endpoint, and whether the publication has told it.
JobsFor(e) == {j \in DOMAIN jobs : jobs[j].target = e}
Told(e) == (\E r \in publisher.read : r[1] = e) /\ e \notin publisher.todo

Published ==
  /\ DOMAIN publisher = {"tenant", "todo", "read", "step"}
  /\ publisher.step = "ready" => publisher.read = {} /\ publisher.todo = {}
  /\ publisher.step = "returned" => publisher.todo = {}
  /\ \A e \in publisher.todo : \E r \in publisher.read : r[1] = e
  /\ \A r \in publisher.read : r[2].tenant = publisher.tenant /\ r[2].enabled
  /\ \A e \in Endpoints : IF Told(e) THEN \E j \in DOMAIN jobs : JobsFor(e) = {j} ELSE JobsFor(e) = {}

DeliveryInv ==
  /\ crew \in SUBSET DeliveryWorkers
  /\ jobs \in Seq(DeliveryJobs) /\ received \in Seq(BOOLEAN) /\ Len(received) = Len(jobs)
  /\ DOMAIN worker = DeliveryWorkers
  /\ \A w \in DeliveryWorkers : InHand(w)
  /\ OutcomeIsTrue
  /\ \A j \in DOMAIN jobs : WithinBudget(j)
  /\ Published

-----------------------------------------------------------------------------

\* A product grows with its factor.
LEMMA TimesGrows == \A k, x, y \in Nat : x <= y => k * x <= k * y
<1>1. SUFFICES ASSUME NEW k \in Nat, NEW x \in Nat, NEW y \in Nat, x <= y PROVE k * x <= k * y
  BY Zenon
<1>2. PICK d \in Nat : y = x + d
  <2>1. y - x \in Nat /\ y = x + (y - x)
    BY <1>1
  <2>2. QED
    BY Zenon, <2>1
<1>3. k * d \in Nat /\ k * x \in Nat
  OBVIOUS
<1>4. k * y = k * x + k * d
  BY <1>2
<1>5. QED
  BY <1>3, <1>4

\* The workers with a claim on a job and those that may make it due again are
\* some of the crew.
LEMMA CrewCounts ==
  ASSUME NEW S, NEW C, IsFiniteSet(C), S \subseteq C
  PROVE  IsFiniteSet(S) /\ Cardinality(S) \in Nat /\ Cardinality(C) \in Nat /\ Cardinality(S) <= Cardinality(C)
<1>1. QED
  BY Zenon, FS_Subset, FS_CardinalityType

\* The budget in numbers: attempts made, claims and retries left.
Budget(a, c, k, r) == a + c + k * r <= MaxAttempts * k
Still(a) == IF a < MaxAttempts THEN MaxAttempts - 1 - a ELSE 0

\* Fewer claims and fewer retries keep a job within its budget.
LEMMA BudgetShrinks ==
  ASSUME NEW a \in Nat, NEW c \in Nat, NEW d \in Nat, NEW k \in Nat, NEW r \in Nat, NEW q \in Nat,
         Budget(a, c, k, r), d <= c, q <= r
  PROVE  Budget(a, d, k, q)
<1>1. k * q <= k * r /\ k * q \in Nat /\ k * r \in Nat /\ MaxAttempts * k \in Nat
  BY TimesGrows, DeliveryBounds
<1>2. QED
  BY <1>1 DEF Budget

\* record_attempt turns one claim into one attempt.
LEMMA BudgetAttempts ==
  ASSUME NEW a \in Nat, NEW c \in Nat, NEW d \in Nat, NEW k \in Nat, NEW r \in Nat, NEW q \in Nat,
         Budget(a, c, k, r), d + 1 <= c, q <= r
  PROVE  Budget(a + 1, d, k, q)
<1>1. k * q <= k * r /\ k * q \in Nat /\ k * r \in Nat /\ MaxAttempts * k \in Nat
  BY TimesGrows, DeliveryBounds
<1>2. QED
  BY <1>1 DEF Budget

\* mark_retry gives up one retry and lets every worker claim the job once.
LEMMA BudgetRetries ==
  ASSUME NEW a \in Nat, NEW c \in Nat, NEW k \in Nat, NEW r \in Nat, NEW q \in Nat,
         Budget(a, c, k, r), q + 1 <= r
  PROVE  Budget(a, k, k, q)
<1>1. k * (q + 1) <= k * r /\ k * q \in Nat /\ k * r \in Nat /\ MaxAttempts * k \in Nat
  BY TimesGrows, DeliveryBounds
<1>2. k * (q + 1) = k * q + k
  OBVIOUS
<1>3. QED
  BY <1>1, <1>2 DEF Budget

\* A new job has one round of claims and a retry for each further attempt.
LEMMA BudgetStarts == ASSUME NEW k \in Nat PROVE Budget(0, k, k, 0 + Still(0))
<1>1. MaxAttempts \in Nat /\ MaxAttempts > 0 /\ Still(0) = MaxAttempts - 1 /\ Still(0) \in Nat
  BY DeliveryBounds DEF Still
<1>2. PICK m \in Nat : m = Still(0) /\ MaxAttempts = m + 1
  BY <1>1
<1>3. k * m \in Nat /\ k * (m + 1) = k * m + k /\ (m + 1) * k = k * (m + 1)
  OBVIOUS
<1>4. QED
  BY <1>2, <1>3 DEF Budget

\* The budget of a job in numbers.
LEMMA BudgetOf == ASSUME NEW j PROVE
  WithinBudget(j) <=> Budget(jobs[j].attempts, ClaimsLeft(j), Cardinality(crew),
                             Cardinality(Retrying(j)) + Still(jobs[j].attempts))
<1>1. QED
  BY Zenon DEF WithinBudget, Budget, RetriesLeft, Still

\* Both counts of a job are numbers the crew bounds.
LEMMA CountsOf ==
  ASSUME NEW j, IsFiniteSet(crew)
  PROVE  /\ Cardinality(crew) \in Nat
         /\ IsFiniteSet(Holding(j)) /\ Cardinality(Holding(j)) \in Nat /\ Cardinality(Holding(j)) <= Cardinality(crew)
         /\ IsFiniteSet(Retrying(j)) /\ Cardinality(Retrying(j)) \in Nat
         /\ ClaimsLeft(j) \in Nat /\ Cardinality(Holding(j)) <= ClaimsLeft(j) /\ ClaimsLeft(j) <= Cardinality(crew)
<1>1. Holding(j) \subseteq crew /\ Retrying(j) \subseteq crew
  BY Zenon DEF Holding, Retrying
<1>2. /\ IsFiniteSet(Holding(j)) /\ Cardinality(Holding(j)) \in Nat /\ Cardinality(crew) \in Nat
      /\ Cardinality(Holding(j)) <= Cardinality(crew)
  BY Zenon, <1>1, CrewCounts
<1>3. IsFiniteSet(Retrying(j)) /\ Cardinality(Retrying(j)) \in Nat
  BY Zenon, <1>1, CrewCounts
<1>4. QED
  BY <1>2, <1>3 DEF ClaimsLeft

\* What is left is a number, and an attempt below the limit uses one retry up.
LEMMA StillFact ==
  ASSUME NEW a \in Nat
  PROVE  Still(a) \in Nat /\ (a + 1 < MaxAttempts => Still(a + 1) + 1 = Still(a))
           /\ (a + 1 >= MaxAttempts => Still(a + 1) = 0)
<1>1. QED
  BY DeliveryBounds DEF Still

IsOpen(job) == job.status \in {"Pending", "Failed"}

\* A step that neither attempts a job nor makes it due again keeps its budget.
LEMMA JobKept ==
  ASSUME NEW j, IsFiniteSet(crew), crew' = crew, WithinBudget(j),
         jobs[j].attempts \in Nat, jobs'[j].attempts = jobs[j].attempts,
         Retrying(j)' \subseteq Retrying(j),
         (IsOpen(jobs[j]) /\ IsOpen(jobs'[j])) \/ (~ IsOpen(jobs'[j]) /\ Holding(j)' \subseteq Holding(j))
  PROVE  WithinBudget(j)'
<1>1. IsFiniteSet(crew') /\ Cardinality(crew') = Cardinality(crew)
  BY Zenon
<1>2. /\ IsFiniteSet(Retrying(j)) /\ Cardinality(Retrying(j)) \in Nat
      /\ Cardinality(Retrying(j)') \in Nat /\ Cardinality(Retrying(j)') <= Cardinality(Retrying(j))
  BY Zenon, CountsOf, CrewCounts
<1>3. /\ ClaimsLeft(j) \in Nat /\ Cardinality(Holding(j)) <= ClaimsLeft(j) /\ Cardinality(crew) \in Nat
      /\ Cardinality(Holding(j)) \in Nat /\ IsFiniteSet(Holding(j))
  BY Zenon, CountsOf
<1>4. ClaimsLeft(j)' \in Nat /\ ClaimsLeft(j)' <= ClaimsLeft(j)
  <2>1. CASE IsOpen(jobs[j]) /\ IsOpen(jobs'[j])
    BY <2>1, <1>1, <1>3 DEF ClaimsLeft, IsOpen
  <2>2. CASE ~ IsOpen(jobs'[j]) /\ Holding(j)' \subseteq Holding(j)
    <3>1. Cardinality(Holding(j)') \in Nat /\ Cardinality(Holding(j)') <= Cardinality(Holding(j))
      BY Zenon, <2>2, <1>3, CrewCounts
    <3>2. ClaimsLeft(j)' = Cardinality(Holding(j)')
      BY Zenon, <2>2 DEF ClaimsLeft, IsOpen
    <3>3. QED
      BY <3>1, <3>2, <1>3
  <2>3. QED
    BY Zenon, <2>1, <2>2
<1>5. PICK r \in Nat, q \in Nat :
        /\ r = Cardinality(Retrying(j)) + Still(jobs[j].attempts)
        /\ q = Cardinality(Retrying(j)') + Still(jobs[j].attempts) /\ q <= r
  BY <1>2, StillFact
<1>6. Budget(jobs[j].attempts, ClaimsLeft(j), Cardinality(crew), r)
  BY Zenon, <1>5, BudgetOf
<1>7. Budget(jobs[j].attempts, ClaimsLeft(j)', Cardinality(crew), q)
  BY Zenon, <1>3, <1>4, <1>5, <1>6, BudgetShrinks
<1>8. Budget(jobs'[j].attempts, ClaimsLeft(j)', Cardinality(crew'), Cardinality(Retrying(j)') + Still(jobs'[j].attempts))
  BY Zenon, <1>1, <1>5, <1>7
<1>9. QED
  BY Zenon, <1>8 DEF WithinBudget, Budget, RetriesLeft, Still

\* record_attempt by a worker that holds the job.
LEMMA JobAttempted ==
  ASSUME NEW j, NEW w \in Holding(j), IsFiniteSet(crew), crew' = crew, WithinBudget(j),
         jobs[j].attempts \in Nat, jobs'[j].attempts = jobs[j].attempts + 1, ~ IsOpen(jobs'[j]),
         Holding(j)' \subseteq Holding(j) \ {w}, Retrying(j)' \subseteq Retrying(j) \cup {w},
         jobs[j].attempts + 1 >= MaxAttempts => Retrying(j)' \subseteq Retrying(j)
  PROVE  WithinBudget(j)'
<1>1. Cardinality(crew') = Cardinality(crew)
  BY Zenon
<1>2. /\ ClaimsLeft(j) \in Nat /\ Cardinality(Holding(j)) <= ClaimsLeft(j) /\ Cardinality(crew) \in Nat
      /\ Cardinality(Holding(j)) \in Nat /\ IsFiniteSet(Holding(j))
      /\ IsFiniteSet(Retrying(j)) /\ Cardinality(Retrying(j)) \in Nat
  BY Zenon, CountsOf
<1>3. ClaimsLeft(j)' \in Nat /\ ClaimsLeft(j)' + 1 <= ClaimsLeft(j)
  <2>1. IsFiniteSet(Holding(j) \ {w}) /\ Cardinality(Holding(j) \ {w}) = Cardinality(Holding(j)) - 1
    BY Zenon, <1>2, FS_RemoveElement
  <2>2. Cardinality(Holding(j)') \in Nat /\ Cardinality(Holding(j)') <= Cardinality(Holding(j) \ {w})
    BY Zenon, <2>1, CrewCounts
  <2>3. ClaimsLeft(j)' = Cardinality(Holding(j)')
    BY Zenon DEF ClaimsLeft, IsOpen
  <2>4. QED
    BY <1>2, <2>1, <2>2, <2>3
<1>4. /\ Cardinality(Retrying(j)') \in Nat
      /\ Cardinality(Retrying(j)') + Still(jobs[j].attempts + 1) <= Cardinality(Retrying(j)) + Still(jobs[j].attempts)
  <2>1. CASE jobs[j].attempts + 1 >= MaxAttempts
    <3>1. Cardinality(Retrying(j)') \in Nat /\ Cardinality(Retrying(j)') <= Cardinality(Retrying(j))
      BY Zenon, <2>1, <1>2, CrewCounts
    <3>2. QED
      BY <2>1, <3>1, <1>2, StillFact
  <2>2. CASE ~ (jobs[j].attempts + 1 >= MaxAttempts)
    <3>1. /\ IsFiniteSet(Retrying(j) \cup {w})
          /\ Cardinality(Retrying(j) \cup {w}) <= Cardinality(Retrying(j)) + 1
          /\ Cardinality(Retrying(j) \cup {w}) \in Nat
      <4>1. w \in Retrying(j) => Retrying(j) \cup {w} = Retrying(j)
        BY Zenon
      <4>2. w \notin Retrying(j) => /\ IsFiniteSet(Retrying(j) \cup {w})
                                    /\ Cardinality(Retrying(j) \cup {w}) = Cardinality(Retrying(j)) + 1
        BY Zenon, <1>2, FS_AddElement
      <4>3. CASE w \in Retrying(j)
        <5>1. IsFiniteSet(Retrying(j) \cup {w}) /\ Cardinality(Retrying(j) \cup {w}) = Cardinality(Retrying(j))
          BY <1>2, <4>1, <4>3, Zenon
        <5>2. QED
          BY <1>2, <5>1
      <4>4. CASE w \notin Retrying(j)
        BY <1>2, <4>2, <4>4
      <4>5. QED
        BY Zenon, <4>3, <4>4
    <3>2. Cardinality(Retrying(j)') \in Nat /\ Cardinality(Retrying(j)') <= Cardinality(Retrying(j) \cup {w})
      BY Zenon, <3>1, CrewCounts
    <3>3. jobs[j].attempts + 1 < MaxAttempts
      BY <2>2, DeliveryBounds
    <3>4. Still(jobs[j].attempts + 1) + 1 = Still(jobs[j].attempts) /\ Still(jobs[j].attempts + 1) \in Nat
      BY <3>3, StillFact
    <3>5. QED
      BY <3>1, <3>2, <3>4, <1>2
  <2>3. QED
    BY Zenon, <2>1, <2>2
<1>5. PICK r \in Nat, q \in Nat :
        /\ r = Cardinality(Retrying(j)) + Still(jobs[j].attempts)
        /\ q = Cardinality(Retrying(j)') + Still(jobs[j].attempts + 1) /\ q <= r
  BY <1>2, <1>4, StillFact
<1>6. Budget(jobs[j].attempts, ClaimsLeft(j), Cardinality(crew), r)
  BY Zenon, <1>5, BudgetOf
<1>7. Budget(jobs[j].attempts + 1, ClaimsLeft(j)', Cardinality(crew), q)
  BY Zenon, <1>2, <1>3, <1>5, <1>6, BudgetAttempts
<1>8. Budget(jobs'[j].attempts, ClaimsLeft(j)', Cardinality(crew'), Cardinality(Retrying(j)') + Still(jobs'[j].attempts))
  BY Zenon, <1>1, <1>5, <1>7
<1>9. QED
  BY Zenon, <1>8 DEF WithinBudget, Budget, RetriesLeft, Still

\* mark_retry by a worker whose attempt allows another.
LEMMA JobRetried ==
  ASSUME NEW j, NEW w \in Retrying(j), IsFiniteSet(crew), crew' = crew, WithinBudget(j),
         jobs[j].attempts \in Nat, jobs'[j].attempts = jobs[j].attempts, IsOpen(jobs'[j]),
         Retrying(j)' \subseteq Retrying(j) \ {w}
  PROVE  WithinBudget(j)'
<1>1. Cardinality(crew') = Cardinality(crew)
  BY Zenon
<1>2. ClaimsLeft(j) \in Nat /\ Cardinality(crew) \in Nat /\ IsFiniteSet(Retrying(j)) /\ Cardinality(Retrying(j)) \in Nat
  BY Zenon, CountsOf
<1>3. ClaimsLeft(j)' = Cardinality(crew)
  BY Zenon, <1>1 DEF ClaimsLeft, IsOpen
<1>4. IsFiniteSet(Retrying(j) \ {w}) /\ Cardinality(Retrying(j) \ {w}) = Cardinality(Retrying(j)) - 1
  BY Zenon, <1>2, FS_RemoveElement
<1>5. Cardinality(Retrying(j)') \in Nat /\ Cardinality(Retrying(j)') <= Cardinality(Retrying(j) \ {w})
  BY Zenon, <1>4, CrewCounts
<1>6. PICK r \in Nat, q \in Nat :
        /\ r = Cardinality(Retrying(j)) + Still(jobs[j].attempts)
        /\ q = Cardinality(Retrying(j)') + Still(jobs[j].attempts) /\ q + 1 <= r
  BY <1>2, <1>4, <1>5, StillFact
<1>7. Budget(jobs[j].attempts, ClaimsLeft(j), Cardinality(crew), r)
  BY Zenon, <1>6, BudgetOf
<1>8. Budget(jobs[j].attempts, Cardinality(crew), Cardinality(crew), q)
  <2>1. PICK a \in Nat, c \in Nat, k \in Nat : a = jobs[j].attempts /\ c = ClaimsLeft(j) /\ k = Cardinality(crew)
    BY Zenon, <1>2
  <2>2. Budget(a, c, k, r) => Budget(a, k, k, q)
    BY <1>6, BudgetRetries
  <2>3. QED
    BY Zenon, <1>7, <2>1, <2>2
<1>9. Budget(jobs'[j].attempts, ClaimsLeft(j)', Cardinality(crew'), Cardinality(Retrying(j)') + Still(jobs'[j].attempts))
  BY Zenon, <1>1, <1>3, <1>6, <1>8
<1>10. QED
  BY Zenon, <1>9 DEF WithinBudget, Budget, RetriesLeft, Still

\* enqueue: nobody has seen the job yet.
LEMMA JobCreated ==
  ASSUME NEW j, IsFiniteSet(crew), crew' = crew, jobs'[j].attempts = 0, IsOpen(jobs'[j]), Retrying(j)' = {}
  PROVE  WithinBudget(j)'
<1>1. Cardinality(crew') = Cardinality(crew) /\ Cardinality(crew) \in Nat
  BY Zenon, FS_CardinalityType
<1>2. ClaimsLeft(j)' = Cardinality(crew) /\ Cardinality(Retrying(j)') = 0
  BY Zenon, <1>1, FS_EmptySet DEF ClaimsLeft, IsOpen
<1>3. Budget(0, Cardinality(crew), Cardinality(crew), 0 + Still(0))
  BY Zenon, <1>1, BudgetStarts
<1>4. Budget(jobs'[j].attempts, ClaimsLeft(j)', Cardinality(crew'), Cardinality(Retrying(j)') + Still(jobs'[j].attempts))
  BY Zenon, <1>1, <1>2, <1>3
<1>5. QED
  BY Zenon, <1>4 DEF WithinBudget, Budget, RetriesLeft, Still

-----------------------------------------------------------------------------

HasLocals(at, b, st, u, o) == at = [batch |-> b, step |-> st, used |-> u, ok |-> o]

\* The fields of what a worker has in hand, and their types.
LEMMA LocalFields ==
  ASSUME NEW at, NEW b, NEW st, NEW u, NEW o, HasLocals(at, b, st, u, o)
  PROVE  /\ at.batch = b /\ at.step = st /\ at.used = u /\ at.ok = o
         /\ b \in Seq(Nat) /\ st \in {"attempt", "deliver", "settle"} /\ u \in Nat /\ o \in BOOLEAN => at \in Locals
<1>1. QED
  BY Zenon DEF Locals, HasLocals

\* A batch that is not empty has a first job, and its tail the others.
LEMMA BatchFact ==
  ASSUME NEW s \in Seq(Nat), s # << >>
  PROVE  /\ Head(s) = s[1] /\ 1 \in DOMAIN s /\ s[1] \in Nat /\ Len(s) \in Nat /\ DOMAIN s = 1..Len(s)
         /\ Tail(s) \in Seq(Nat) /\ DOMAIN Tail(s) = 1..(Len(s) - 1)
         /\ \A a \in DOMAIN Tail(s) : a + 1 \in DOMAIN s /\ a + 1 # 1 /\ Tail(s)[a] = s[a + 1]
<1>1. Len(s) \in Nat /\ Len(s) >= 1 /\ DOMAIN s = 1..Len(s)
  OBVIOUS
<1>2. Head(s) = s[1] /\ Tail(s) \in Seq(Nat) /\ Len(Tail(s)) = Len(s) - 1
  BY <1>1
<1>3. DOMAIN Tail(s) = 1..(Len(s) - 1)
  BY <1>1, <1>2
<1>4. \A a \in 1..(Len(s) - 1) : Tail(s)[a] = s[a + 1]
  BY <1>1, <1>2
<1>5. QED
  BY <1>1, <1>2, <1>3, <1>4

\* A step that leaves a worker and forgets nothing of its jobs leaves it as it was.
LEMMA InHandKept ==
  ASSUME NEW w, worker'[w] = worker[w], crew' = crew, InHand(w),
         \A j \in DOMAIN jobs : /\ j \in DOMAIN jobs' /\ jobs[j].attempts \in Nat /\ jobs'[j].attempts \in Nat
                                /\ jobs[j].attempts <= jobs'[j].attempts
                                /\ received[j] => received'[j]
  PROVE  InHand(w)'
<1>1. worker[w] \in Locals
  BY Zenon DEF InHand
<1>2. worker[w].batch # << >> => 1 \in DOMAIN worker[w].batch
  BY Zenon, <1>1, BatchFact DEF Locals
<1>3. worker[w].used \in Nat
  BY Zenon, <1>1 DEF Locals
<1>4. QED
  BY <1>1, <1>2, <1>3 DEF InHand

\* The publication depends on the jobs' targets alone.
LEMMA PublishedKept ==
  ASSUME Published, publisher' = publisher, DOMAIN jobs' = DOMAIN jobs,
         \A j \in DOMAIN jobs : jobs'[j].target = jobs[j].target
  PROVE  Published'
<1>1. \A e : JobsFor(e)' = JobsFor(e)
  BY Zenon DEF JobsFor
<1>2. QED
  BY Zenon, <1>1 DEF Published, Told

\* A step of one worker changes the claims and retries of that worker only.
LEMMA OthersKeep ==
  ASSUME NEW w, NEW j, crew' = crew, \A v \in crew : v # w => worker'[v] = worker[v]
  PROVE  /\ Holding(j)' \subseteq Holding(j) \cup {w} /\ Retrying(j)' \subseteq Retrying(j) \cup {w}
         /\ (Holds(worker'[w], j) => Holds(worker[w], j)) => Holding(j)' \subseteq Holding(j)
         /\ ~ Holds(worker'[w], j) => Holding(j)' \subseteq Holding(j) \ {w}
         /\ (Retries(worker'[w], j) => Retries(worker[w], j)) => Retrying(j)' \subseteq Retrying(j)
         /\ ~ Retries(worker'[w], j) => Retrying(j)' \subseteq Retrying(j) \ {w}
<1>1. QED
  BY Zenon DEF Holding, Retrying

-----------------------------------------------------------------------------

\* The crew is finite and a job's attempts are counted.
LEMMA DeliveryFacts ==
  ASSUME DeliveryInv
  PROVE  /\ IsFiniteSet(crew) /\ DOMAIN jobs = 1..Len(jobs) /\ Len(jobs) \in Nat
         /\ DOMAIN received = DOMAIN jobs
         /\ \A j \in DOMAIN jobs : jobs[j] \in DeliveryJobs /\ received[j] \in BOOLEAN
         /\ \A j \in DOMAIN jobs : jobs[j].attempts \in Nat
<1>1. IsFiniteSet(crew)
  BY Zenon, DeliveryBounds, FS_Subset DEF DeliveryInv
<1>2. /\ DOMAIN jobs = 1..Len(jobs) /\ Len(jobs) \in Nat /\ DOMAIN received = DOMAIN jobs
      /\ \A j \in DOMAIN jobs : jobs[j] \in DeliveryJobs /\ received[j] \in BOOLEAN
  BY DEF DeliveryInv
<1>3. \A j \in DOMAIN jobs : jobs[j].attempts \in Nat
  BY Zenon, <1>2 DEF DeliveryJobs
<1>4. QED
  BY Zenon, <1>1, <1>2, <1>3

\* claim_due gives a worker due jobs; they stay open.
LEMMA ClaimKeeps ==
  ASSUME DeliveryInv, NEW w \in DeliveryWorkers, ClaimDue(w)
  PROVE  DeliveryInv'
<1>1. PICK batch \in OldestDue :
        /\ w \in crew /\ worker[w].batch = << >>
        /\ worker' = [worker EXCEPT ![w] = [Idle EXCEPT !.batch = batch]]
        /\ UNCHANGED <<crew, endpoints, registrations, publisher, jobs, received, abandons>>
  BY Zenon DEF ClaimDue
<1>2. crew' = crew /\ jobs' = jobs /\ received' = received /\ publisher' = publisher
  BY Zenon, <1>1
<1>3. /\ IsFiniteSet(crew) /\ DOMAIN jobs = 1..Len(jobs) /\ Len(jobs) \in Nat
      /\ \A j \in DOMAIN jobs : jobs[j].attempts \in Nat
  BY Zenon, DeliveryFacts
<1>4. /\ batch \in Seq(Nat) /\ Increasing(batch)
      /\ \A a \in DOMAIN batch : batch[a] \in DOMAIN jobs /\ IsOpen(jobs[batch[a]])
  <2>1. PICK n \in 1..DeliveryLimit : batch \in [1..n -> {j \in DOMAIN jobs : IsDue(jobs[j])}]
    BY Zenon DEF OldestDue
  <2>2. \A a \in 1..n : batch[a] \in DOMAIN jobs /\ IsOpen(jobs[batch[a]])
    BY Zenon, <2>1 DEF IsDue, IsOpen
  <2>3. batch \in [1..n -> Nat] /\ n \in Nat
    BY <1>3, <2>1, <2>2, DeliveryBounds
  <2>4. batch \in Seq(Nat)
    BY <2>3
  <2>5. Increasing(batch)
    BY Zenon DEF OldestDue, Increasing
  <2>6. QED
    BY Zenon, <2>1, <2>2, <2>4, <2>5
<1>5. /\ worker'[w] = [batch |-> batch, step |-> "attempt", used |-> 0, ok |-> FALSE]
      /\ DOMAIN worker' = DeliveryWorkers /\ \A v \in DeliveryWorkers : v # w => worker'[v] = worker[v]
  BY Zenon, <1>1 DEF DeliveryInv, Idle
<1>6. \A v \in DeliveryWorkers : InHand(v)'
  <2>1. SUFFICES ASSUME NEW v \in DeliveryWorkers PROVE InHand(v)'
    BY Zenon
  <2>2. CASE v # w
    BY <1>2, <1>3, <1>5, <2>2, InHandKept DEF DeliveryInv
  <2>3. CASE v = w
    <3>1. worker'[w] \in Locals
      <4>1. 0 \in Nat
        BY Zenon
      <4>2. HasLocals(worker'[w], batch, "attempt", 0, FALSE)
        BY <1>5, Zenon DEF HasLocals
      <4>3. QED
        BY <1>4, <4>1, <4>2, LocalFields, Zenon
    <3>2. worker'[w].batch = batch /\ worker'[w].step = "attempt"
      BY <1>5
    <3>3. QED
      BY Zenon, <1>1, <1>2, <1>4, <2>3, <3>1, <3>2 DEF InHand
  <2>4. QED
    BY Zenon, <2>2, <2>3
<1>7. \A j \in DOMAIN jobs : WithinBudget(j)'
  <2>1. SUFFICES ASSUME NEW j \in DOMAIN jobs PROVE WithinBudget(j)'
    BY Zenon
  <2>2. \A v \in crew : v # w => worker'[v] = worker[v]
    BY Zenon, <1>5 DEF DeliveryInv
  <2>3. ~ Retries(worker'[w], j)
    BY <1>5 DEF Retries
  <2>4. Retrying(j)' \subseteq Retrying(j)
    BY Zenon, <1>2, <2>2, <2>3, OthersKeep
  <2>5. ~ IsOpen(jobs[j]) => ~ Holds(worker'[w], j)
    BY <1>4, <1>5 DEF Holds
  <2>6. ~ IsOpen(jobs[j]) => Holding(j)' \subseteq Holding(j)
    BY Zenon, <1>2, <2>2, <2>5, OthersKeep
  <2>7. WithinBudget(j)
    BY Zenon DEF DeliveryInv
  <2>8. QED
    BY Zenon, <1>2, <1>3, <2>4, <2>6, <2>7, JobKept
<1>8. Published'
  BY Zenon, <1>2, PublishedKept DEF DeliveryInv
<1>9. OutcomeIsTrue'
  BY Zenon, <1>2 DEF DeliveryInv, OutcomeIsTrue
<1>10. QED
  BY Zenon, <1>2, <1>5, <1>6, <1>7, <1>8, <1>9 DEF DeliveryInv

\* A deliver_due call that ends early gives its claims up.
LEMMA AbandonKeeps ==
  ASSUME DeliveryInv, NEW w \in DeliveryWorkers, Abandon(w)
  PROVE  DeliveryInv'
<1>2. crew' = crew /\ jobs' = jobs /\ received' = received /\ publisher' = publisher
  BY Zenon DEF Abandon
<1>3. IsFiniteSet(crew) /\ \A j \in DOMAIN jobs : jobs[j].attempts \in Nat
  BY Zenon, DeliveryFacts
<1>5. /\ worker'[w] = [batch |-> << >>, step |-> "attempt", used |-> 0, ok |-> FALSE]
      /\ DOMAIN worker' = DeliveryWorkers /\ \A v \in DeliveryWorkers : v # w => worker'[v] = worker[v]
  BY Zenon DEF DeliveryInv, Idle, Abandon
<1>6. \A v \in DeliveryWorkers : InHand(v)'
  <2>1. SUFFICES ASSUME NEW v \in DeliveryWorkers PROVE InHand(v)'
    BY Zenon
  <2>2. CASE v # w
    BY <1>2, <1>3, <1>5, <2>2, InHandKept DEF DeliveryInv
  <2>3. CASE v = w
    <3>1. worker'[w] \in Locals /\ worker'[w].batch = << >> /\ worker'[w].step = "attempt"
      <4>1. 0 \in Nat /\ << >> \in Seq(Nat)
        OBVIOUS
      <4>2. HasLocals(worker'[w], << >>, "attempt", 0, FALSE)
        BY <1>5, Zenon DEF HasLocals
      <4>3. QED
        BY <4>1, <4>2, LocalFields, Zenon
    <3>2. QED
      BY <2>3, <3>1 DEF InHand, Increasing
  <2>4. QED
    BY Zenon, <2>2, <2>3
<1>7. \A j \in DOMAIN jobs : WithinBudget(j)'
  <2>1. SUFFICES ASSUME NEW j \in DOMAIN jobs PROVE WithinBudget(j)'
    BY Zenon
  <2>2. \A v \in crew : v # w => worker'[v] = worker[v]
    BY Zenon, <1>5 DEF DeliveryInv
  <2>3. ~ Retries(worker'[w], j) /\ ~ Holds(worker'[w], j)
    <3>1. DOMAIN << >> = {}
      OBVIOUS
    <3>2. HasLocals(worker'[w], << >>, "attempt", 0, FALSE)
      BY <1>5, Zenon DEF HasLocals
    <3>3. worker'[w].batch = << >> /\ worker'[w].step = "attempt"
      BY <3>2, LocalFields, Zenon
    <3>4. QED
      BY <3>1, <3>3, Zenon DEF Retries, Holds
  <2>4. Retrying(j)' \subseteq Retrying(j) /\ Holding(j)' \subseteq Holding(j)
    BY Zenon, <1>2, <2>2, <2>3, OthersKeep
  <2>5. WithinBudget(j)
    BY Zenon DEF DeliveryInv
  <2>6. QED
    BY Zenon, <1>2, <1>3, <2>4, <2>5, JobKept
<1>8. Published'
  BY Zenon, <1>2, PublishedKept DEF DeliveryInv
<1>9. OutcomeIsTrue'
  BY Zenon, <1>2 DEF DeliveryInv, OutcomeIsTrue
<1>10. QED
  BY Zenon, <1>2, <1>5, <1>6, <1>7, <1>8, <1>9 DEF DeliveryInv

\* The job at the head of a worker's batch, and the worker's place in the crew.
LEMMA HeadFact ==
  ASSUME DeliveryInv, NEW w \in DeliveryWorkers, worker[w].batch # << >>
  PROVE  /\ worker[w] \in Locals /\ worker[w].batch \in Seq(Nat) /\ w \in crew
         /\ Head(worker[w].batch) = worker[w].batch[1] /\ 1 \in DOMAIN worker[w].batch
         /\ Head(worker[w].batch) \in DOMAIN jobs
         /\ \A a \in DOMAIN worker[w].batch : a # 1 => worker[w].batch[a] # Head(worker[w].batch)
<1>1. InHand(w)
  BY Zenon DEF DeliveryInv
<1>2. worker[w] \in Locals /\ worker[w].batch \in Seq(Nat) /\ w \in crew
  BY Zenon, <1>1 DEF InHand, Locals
<1>3. Head(worker[w].batch) = worker[w].batch[1] /\ 1 \in DOMAIN worker[w].batch
        /\ Len(worker[w].batch) \in Nat /\ DOMAIN worker[w].batch = 1..Len(worker[w].batch)
  BY Zenon, <1>2, BatchFact
<1>4. \A a \in DOMAIN worker[w].batch : worker[w].batch[a] \in Nat
  BY <1>2
<1>5. \A a \in DOMAIN worker[w].batch : a # 1 => worker[w].batch[1] < worker[w].batch[a]
  BY <1>1, <1>3 DEF InHand, Increasing
<1>6. QED
  BY <1>1, <1>2, <1>3, <1>4, <1>5 DEF InHand

\* record_attempt uses the worker's claim on the job up.
LEMMA RecordKeeps ==
  ASSUME DeliveryInv, NEW w \in DeliveryWorkers, RecordAttempt(w)
  PROVE  DeliveryInv'
<1>1. /\ worker[w].batch # << >> /\ worker[w].step = "attempt"
      /\ crew' = crew /\ received' = received /\ publisher' = publisher
  BY Zenon DEF RecordAttempt
<1>2. /\ worker[w] \in Locals /\ worker[w].batch \in Seq(Nat) /\ w \in crew
      /\ Head(worker[w].batch) = worker[w].batch[1] /\ 1 \in DOMAIN worker[w].batch
      /\ Head(worker[w].batch) \in DOMAIN jobs
      /\ \A a \in DOMAIN worker[w].batch : a # 1 => worker[w].batch[a] # Head(worker[w].batch)
  BY Zenon, <1>1, HeadFact
<1>3. PICK h \in DOMAIN jobs : h = Head(worker[w].batch)
  BY Zenon, <1>2
<1>4. /\ IsFiniteSet(crew) /\ DOMAIN jobs = 1..Len(jobs) /\ Len(jobs) \in Nat
      /\ \A j \in DOMAIN jobs : jobs[j].attempts \in Nat /\ jobs[j] \in DeliveryJobs
  BY Zenon, DeliveryFacts
<1>5. /\ jobs' = [jobs EXCEPT ![h].status = "InProgress", ![h].attempts = @ + 1]
      /\ worker' = [worker EXCEPT ![w].step = "deliver", ![w].used = jobs[h].attempts + 1]
  BY Zenon, <1>3 DEF RecordAttempt
<1>6. /\ DOMAIN jobs' = DOMAIN jobs /\ \A j \in DOMAIN jobs : j # h => jobs'[j] = jobs[j]
      /\ jobs'[h] = [target |-> jobs[h].target, status |-> "InProgress", attempts |-> jobs[h].attempts + 1, due |-> jobs[h].due]
  BY Zenon, <1>4, <1>5 DEF DeliveryJobs
<1>7. jobs' \in Seq(DeliveryJobs) /\ Len(jobs') = Len(jobs)
  <2>1. \A j \in DOMAIN jobs : jobs'[j] \in DeliveryJobs
    BY <1>4, <1>6 DEF DeliveryJobs, DeliveryJobStatus
  <2>2. jobs \in Seq(DeliveryJobs)
    BY Zenon DEF DeliveryInv
  <2>3. jobs' = [j \in DOMAIN jobs |-> jobs'[j]]
    BY Zenon, <1>4, <1>5, <2>2
  <2>4. jobs' \in [1..Len(jobs) -> DeliveryJobs]
    BY Zenon, <1>4, <2>1, <2>3
  <2>5. QED
    BY <1>4, <2>4
<1>8. /\ worker'[w] = [batch |-> worker[w].batch, step |-> "deliver", used |-> jobs[h].attempts + 1, ok |-> worker[w].ok]
      /\ DOMAIN worker' = DeliveryWorkers /\ \A v \in DeliveryWorkers : v # w => worker'[v] = worker[v]
  BY Zenon, <1>2, <1>5 DEF DeliveryInv, Locals
<1>9. /\ \A j \in DOMAIN jobs : /\ j \in DOMAIN jobs' /\ jobs'[j].attempts \in Nat
                                /\ jobs[j].attempts <= jobs'[j].attempts /\ jobs'[j].target = jobs[j].target
      /\ jobs'[h].attempts = jobs[h].attempts + 1 /\ jobs'[h].status = "InProgress"
  BY <1>4, <1>6
<1>10. \A v \in DeliveryWorkers : InHand(v)'
  <2>1. SUFFICES ASSUME NEW v \in DeliveryWorkers PROVE InHand(v)'
    BY Zenon
  <2>2. CASE v # w
    BY Zenon, <1>1, <1>4, <1>8, <1>9, <2>2, InHandKept DEF DeliveryInv
  <2>3. CASE v = w
    <3>1. worker'[w] \in Locals /\ worker'[w].batch = worker[w].batch /\ worker'[w].step = "deliver"
            /\ worker'[w].used = jobs[h].attempts + 1
      <4>1. jobs[h].attempts + 1 \in Nat
        BY <1>4
      <4>2. worker[w].ok \in BOOLEAN
        BY <1>2, Zenon DEF Locals
      <4>3. HasLocals(worker'[w], worker[w].batch, "deliver", jobs[h].attempts + 1, worker[w].ok)
        BY <1>8, Zenon DEF HasLocals
      <4>4. QED
        BY <1>2, <4>1, <4>2, <4>3, LocalFields
    <3>2. InHand(w)
      BY Zenon DEF DeliveryInv
    <3>3. worker'[w].used <= jobs'[worker'[w].batch[1]].attempts
      <4>1. PICK n \in Nat : n = jobs[h].attempts + 1
        BY <1>4
      <4>2. n <= n
        OBVIOUS
      <4>3. worker'[w].used = n /\ worker'[w].batch[1] = h /\ jobs'[h].attempts = n
        BY <1>2, <1>3, <1>9, <3>1, <4>1, Zenon
      <4>4. QED
        BY <4>2, <4>3, Zenon
    <3>4. QED
      BY Zenon, <1>1, <1>2, <1>6, <2>3, <3>1, <3>2, <3>3 DEF InHand
  <2>4. QED
    BY Zenon, <2>2, <2>3
<1>11. \A j \in DOMAIN jobs : WithinBudget(j)'
  <2>1. SUFFICES ASSUME NEW j \in DOMAIN jobs PROVE WithinBudget(j)'
    BY Zenon
  <2>2. \A v \in crew : v # w => worker'[v] = worker[v]
    BY Zenon, <1>8 DEF DeliveryInv
  <2>3. WithinBudget(j)
    BY Zenon DEF DeliveryInv
  <2>4. Retries(worker'[w], j) => j = h /\ jobs[h].attempts + 1 < MaxAttempts
    <3>1. HasLocals(worker'[w], worker[w].batch, "deliver", jobs[h].attempts + 1, worker[w].ok)
      BY <1>8, Zenon DEF HasLocals
    <3>2. worker'[w].batch = worker[w].batch /\ worker'[w].used = jobs[h].attempts + 1
      BY <3>1, LocalFields
    <3>3. QED
      BY <1>2, <1>3, <3>2, Zenon DEF Retries
  <2>5. Holds(worker'[w], j) => Holds(worker[w], j) /\ j # h
    BY <1>2, <1>3, <1>8 DEF Holds
  <2>6. CASE j # h
    <3>1. Retrying(j)' \subseteq Retrying(j) /\ Holding(j)' \subseteq Holding(j)
      BY Zenon, <1>1, <2>2, <2>4, <2>5, <2>6, OthersKeep
    <3>2. jobs'[j] = jobs[j]
      BY Zenon, <1>6, <2>6
    <3>3. QED
      BY Zenon, <1>1, <1>4, <2>3, <3>1, <3>2, JobKept
  <2>7. CASE j = h
    <3>1. w \in Holding(j)
      BY Zenon, <1>1, <1>2, <1>3, <2>7 DEF Holding, Holds
    <3>2. Holding(j)' \subseteq Holding(j) \ {w}
      BY Zenon, <1>1, <2>2, <2>5, <2>7, OthersKeep
    <3>3. Retrying(j)' \subseteq Retrying(j) \cup {w}
      BY Zenon, <1>1, <2>2, OthersKeep
    <3>4. jobs[j].attempts + 1 >= MaxAttempts => ~ Retries(worker'[w], j)
      BY <1>4, <2>4, <2>7, DeliveryBounds
    <3>5. jobs[j].attempts + 1 >= MaxAttempts => Retrying(j)' \subseteq Retrying(j)
      BY Zenon, <1>1, <2>2, <3>4, OthersKeep
    <3>6. jobs'[j].attempts = jobs[j].attempts + 1 /\ ~ IsOpen(jobs'[j])
      BY Zenon, <1>9, <2>7 DEF IsOpen
    <3>7. QED
      BY Zenon, <1>1, <1>4, <2>3, <3>1, <3>2, <3>3, <3>5, <3>6, JobAttempted
  <2>8. QED
    BY Zenon, <2>6, <2>7
<1>12. Published'
  BY Zenon, <1>1, <1>6, <1>9, PublishedKept DEF DeliveryInv
<1>13. OutcomeIsTrue'
  BY Zenon, <1>1, <1>6, <1>9 DEF DeliveryInv, OutcomeIsTrue
<1>14. QED
  BY Zenon, <1>1, <1>6, <1>7, <1>8, <1>10, <1>11, <1>12, <1>13 DEF DeliveryInv

\* The transport's answer changes no claim, and a receiver keeps what it has.
LEMMA DeliverKeeps ==
  ASSUME DeliveryInv, NEW w \in DeliveryWorkers, NEW ok \in BOOLEAN, Deliver(w, ok)
  PROVE  DeliveryInv'
<1>1. /\ worker[w].batch # << >> /\ worker[w].step = "deliver"
      /\ crew' = crew /\ jobs' = jobs /\ publisher' = publisher
  BY Zenon DEF Deliver
<1>2. /\ worker[w] \in Locals /\ worker[w].batch \in Seq(Nat) /\ w \in crew
      /\ Head(worker[w].batch) = worker[w].batch[1] /\ 1 \in DOMAIN worker[w].batch
      /\ Head(worker[w].batch) \in DOMAIN jobs
  BY Zenon, <1>1, HeadFact
<1>3. PICK h \in DOMAIN jobs : h = Head(worker[w].batch)
  BY Zenon, <1>2
<1>4. /\ IsFiniteSet(crew) /\ DOMAIN received = DOMAIN jobs /\ DOMAIN jobs = 1..Len(jobs)
      /\ \A j \in DOMAIN jobs : jobs[j].attempts \in Nat /\ received[j] \in BOOLEAN
  BY Zenon, DeliveryFacts
<1>5. /\ received' = [received EXCEPT ![h] = @ \/ ok]
      /\ worker' = [worker EXCEPT ![w].step = "settle", ![w].ok = ok]
  BY Zenon, <1>3 DEF Deliver
<1>6. /\ \A j \in DOMAIN jobs : received[j] => received'[j]
      /\ ok => received'[h]
  BY Zenon, <1>4, <1>5
<1>7. received' \in Seq(BOOLEAN) /\ Len(received') = Len(received)
  <2>1. received \in Seq(BOOLEAN) /\ (received[h] \/ ok) \in BOOLEAN
    BY Zenon, <1>4 DEF DeliveryInv
  <2>2. QED
    BY <1>4, <1>5, <2>1
<1>8. /\ worker'[w] = [batch |-> worker[w].batch, step |-> "settle", used |-> worker[w].used, ok |-> ok]
      /\ DOMAIN worker' = DeliveryWorkers /\ \A v \in DeliveryWorkers : v # w => worker'[v] = worker[v]
  BY Zenon, <1>2, <1>5 DEF DeliveryInv, Locals
<1>9. \A v \in DeliveryWorkers : InHand(v)'
  <2>1. SUFFICES ASSUME NEW v \in DeliveryWorkers PROVE InHand(v)'
    BY Zenon
  <2>2. CASE v # w
    <3>1. \A j \in DOMAIN jobs : jobs[j].attempts <= jobs[j].attempts
      BY <1>4
    <3>2. QED
      BY <1>1, <1>4, <1>6, <1>8, <2>2, <3>1, InHandKept, Zenon DEF DeliveryInv
  <2>3. CASE v = w
    <3>1. worker'[w] \in Locals /\ worker'[w].batch = worker[w].batch /\ worker'[w].step = "settle"
            /\ worker'[w].used = worker[w].used /\ worker'[w].ok = ok
      <4>1. worker[w].used \in Nat
        BY <1>2, Zenon DEF Locals
      <4>2. HasLocals(worker'[w], worker[w].batch, "settle", worker[w].used, ok)
        BY <1>8, Zenon DEF HasLocals
      <4>3. QED
        BY <1>2, <4>1, <4>2, LocalFields
    <3>2. InHand(w)
      BY Zenon DEF DeliveryInv
    <3>3. worker'[w].ok => received'[worker'[w].batch[1]]
      BY Zenon, <1>2, <1>3, <1>6, <3>1
    <3>4. QED
      BY Zenon, <1>1, <1>2, <2>3, <3>1, <3>2, <3>3 DEF InHand
  <2>4. QED
    BY Zenon, <2>2, <2>3
<1>10. \A j \in DOMAIN jobs : WithinBudget(j)'
  <2>1. SUFFICES ASSUME NEW j \in DOMAIN jobs PROVE WithinBudget(j)'
    BY Zenon
  <2>2. \A v \in crew : v # w => worker'[v] = worker[v]
    BY Zenon, <1>8 DEF DeliveryInv
  <2>3. WithinBudget(j)
    BY Zenon DEF DeliveryInv
  <2>4. Retries(worker'[w], j) => Retries(worker[w], j)
    BY <1>1, <1>8 DEF Retries
  <2>5. Holds(worker'[w], j) => Holds(worker[w], j)
    BY <1>1, <1>8 DEF Holds
  <2>6. Retrying(j)' \subseteq Retrying(j) /\ Holding(j)' \subseteq Holding(j)
    BY Zenon, <1>1, <2>2, <2>4, <2>5, OthersKeep
  <2>7. QED
    BY Zenon, <1>1, <1>4, <2>3, <2>6, JobKept
<1>11. Published'
  BY Zenon, <1>1, PublishedKept DEF DeliveryInv
<1>12. OutcomeIsTrue'
  BY Zenon, <1>1, <1>6 DEF DeliveryInv, OutcomeIsTrue
<1>13. QED
  BY Zenon, <1>1, <1>4, <1>7, <1>8, <1>9, <1>10, <1>11, <1>12 DEF DeliveryInv

\* mark_delivered, mark_retry and mark_dead_lettered record what the attempt came
\* to; only mark_retry makes the job due again, and the attempt behind it was one
\* that the policy follows by another.
LEMMA SettleKeeps ==
  ASSUME DeliveryInv, NEW w \in DeliveryWorkers, Settle(w)
  PROVE  DeliveryInv'
<1>1. /\ worker[w].batch # << >> /\ worker[w].step = "settle"
      /\ crew' = crew /\ received' = received /\ publisher' = publisher
  BY Zenon DEF Settle
<1>2. /\ worker[w] \in Locals /\ worker[w].batch \in Seq(Nat) /\ w \in crew
      /\ Head(worker[w].batch) = worker[w].batch[1] /\ 1 \in DOMAIN worker[w].batch
      /\ Head(worker[w].batch) \in DOMAIN jobs
  BY Zenon, <1>1, HeadFact
<1>3. PICK h \in DOMAIN jobs : h = Head(worker[w].batch)
  BY Zenon, <1>2
<1>4. /\ IsFiniteSet(crew) /\ DOMAIN jobs = 1..Len(jobs) /\ Len(jobs) \in Nat
      /\ \A j \in DOMAIN jobs : jobs[j].attempts \in Nat /\ jobs[j] \in DeliveryJobs
  BY Zenon, DeliveryFacts
<1>5. PICK tail : /\ tail = Tail(worker[w].batch) /\ tail \in Seq(Nat)
                  /\ \A a \in DOMAIN tail : a + 1 \in DOMAIN worker[w].batch /\ a + 1 # 1
                                              /\ tail[a] = worker[w].batch[a + 1] /\ a \in Nat
  <2>1. PICK s : s = worker[w].batch /\ s \in Seq(Nat) /\ s # << >>
    BY Zenon, <1>1, <1>2
  <2>2. /\ Tail(s) \in Seq(Nat) /\ DOMAIN Tail(s) = 1..(Len(s) - 1) /\ Len(s) \in Nat
        /\ \A a \in DOMAIN Tail(s) : a + 1 \in DOMAIN s /\ a + 1 # 1 /\ Tail(s)[a] = s[a + 1]
    BY Zenon, <2>1, BatchFact
  <2>3. \A a \in DOMAIN Tail(s) : a \in Nat
    BY <2>2
  <2>4. QED
    BY <2>1, <2>2, <2>3, Zenon
<1>6. PICK job : job = Settled(jobs[h], worker[w].ok, worker[w].used)
  BY Zenon
<1>7. jobs' = [jobs EXCEPT ![h] = job] /\ worker' = [worker EXCEPT ![w] = [Idle EXCEPT !.batch = tail]]
  BY Zenon, <1>3, <1>5, <1>6 DEF Settle
<1>8. InHand(w)
  BY Zenon DEF DeliveryInv
<1>9. /\ worker[w].used \in Nat /\ worker[w].ok \in BOOLEAN /\ worker[w].used <= jobs[h].attempts
      /\ worker[w].ok => received[h]
  BY Zenon, <1>1, <1>2, <1>3, <1>8 DEF InHand, Locals
<1>10. /\ job \in DeliveryJobs /\ job.target = jobs[h].target /\ job.attempts = jobs[h].attempts
       /\ \/ job.status = "Delivered" /\ received[h]
          \/ job.status = "Failed" /\ worker[w].used < MaxAttempts
          \/ job.status = "DeadLettered" /\ worker[w].used >= MaxAttempts
  <2>1. jobs[h] \in DeliveryJobs
    BY Zenon, <1>4
  <2>2. CASE worker[w].ok
    <3>1. job = [jobs[h] EXCEPT !.status = "Delivered"]
      BY Zenon, <1>6, <2>2 DEF Settled
    <3>2. QED
      BY Zenon, <1>9, <2>1, <2>2, <3>1 DEF DeliveryJobs, DeliveryJobStatus
  <2>3. CASE ~ worker[w].ok /\ ShouldRetryAfter(worker[w].used)
    <3>1. job = [jobs[h] EXCEPT !.status = "Failed", !.due = FALSE]
      BY Zenon, <1>6, <2>3 DEF Settled
    <3>2. QED
      BY Zenon, <2>1, <2>3, <3>1 DEF DeliveryJobs, DeliveryJobStatus, ShouldRetryAfter
  <2>4. CASE ~ worker[w].ok /\ ~ ShouldRetryAfter(worker[w].used)
    <3>1. job = [jobs[h] EXCEPT !.status = "DeadLettered"]
      BY Zenon, <1>6, <2>4 DEF Settled
    <3>2. worker[w].used >= MaxAttempts
      BY <1>9, <2>4, DeliveryBounds DEF ShouldRetryAfter
    <3>3. QED
      BY Zenon, <2>1, <3>1, <3>2 DEF DeliveryJobs, DeliveryJobStatus
  <2>5. QED
    BY Zenon, <2>2, <2>3, <2>4
<1>11. /\ DOMAIN jobs' = DOMAIN jobs /\ jobs'[h] = job /\ \A j \in DOMAIN jobs : j # h => jobs'[j] = jobs[j]
       /\ jobs' \in Seq(DeliveryJobs) /\ Len(jobs') = Len(jobs)
  BY <1>4, <1>7, <1>10 DEF DeliveryInv
<1>12. /\ worker'[w] = [batch |-> tail, step |-> "attempt", used |-> 0, ok |-> FALSE]
       /\ DOMAIN worker' = DeliveryWorkers /\ \A v \in DeliveryWorkers : v # w => worker'[v] = worker[v]
  BY Zenon, <1>7 DEF DeliveryInv, Idle
<1>13. \A j \in DOMAIN jobs : /\ j \in DOMAIN jobs' /\ jobs'[j].attempts \in Nat
                              /\ jobs'[j].attempts = jobs[j].attempts /\ jobs'[j].target = jobs[j].target
  BY Zenon, <1>4, <1>10, <1>11
<1>14. \A v \in DeliveryWorkers : InHand(v)'
  <2>1. SUFFICES ASSUME NEW v \in DeliveryWorkers PROVE InHand(v)'
    BY Zenon
  <2>2. CASE v # w
    <3>1. \A j \in DOMAIN jobs : jobs[j].attempts <= jobs'[j].attempts
      BY <1>4, <1>13
    <3>2. QED
      BY Zenon, <1>1, <1>4, <1>12, <1>13, <2>2, <3>1, InHandKept DEF DeliveryInv
  <2>3. CASE v = w
    <3>1. worker'[w] \in Locals /\ worker'[w].batch = tail /\ worker'[w].step = "attempt"
      BY <1>5, <1>12 DEF Locals
    <3>2. \A a \in DOMAIN tail : tail[a] \in DOMAIN jobs'
      BY Zenon, <1>5, <1>8, <1>11 DEF InHand
    <3>3. Increasing(tail)
      <4>1. SUFFICES ASSUME NEW a \in DOMAIN tail, NEW b \in DOMAIN tail, a < b PROVE tail[a] < tail[b]
        BY Zenon DEF Increasing
      <4>2. a + 1 < b + 1
        BY <1>5, <4>1
      <4>3. QED
        BY Zenon, <1>5, <1>8, <4>2 DEF InHand, Increasing
    <3>4. QED
      BY Zenon, <1>1, <1>2, <2>3, <3>1, <3>2, <3>3 DEF InHand
  <2>4. QED
    BY Zenon, <2>2, <2>3
<1>15. \A j \in DOMAIN jobs : WithinBudget(j)'
  <2>1. SUFFICES ASSUME NEW j \in DOMAIN jobs PROVE WithinBudget(j)'
    BY Zenon
  <2>2. \A v \in crew : v # w => worker'[v] = worker[v]
    BY Zenon, <1>12 DEF DeliveryInv
  <2>3. WithinBudget(j)
    BY Zenon DEF DeliveryInv
  <2>4. ~ Retries(worker'[w], j)
    BY <1>12 DEF Retries
  <2>5. Holds(worker'[w], j) => Holds(worker[w], j)
    BY <1>5, <1>12 DEF Holds
  <2>6. Retrying(j)' \subseteq Retrying(j) \ {w} /\ Holding(j)' \subseteq Holding(j)
    BY Zenon, <1>1, <2>2, <2>4, <2>5, OthersKeep
  <2>7. CASE j = h /\ job.status = "Failed"
    <3>1. worker[w].used < MaxAttempts
      BY Zenon, <1>10, <2>7
    <3>2. w \in Retrying(j)
      BY Zenon, <1>1, <1>2, <1>3, <2>7, <3>1 DEF Retrying, Retries
    <3>3. IsOpen(jobs'[j])
      BY Zenon, <1>11, <2>7 DEF IsOpen
    <3>4. QED
      BY Zenon, <1>1, <1>4, <1>13, <2>3, <2>6, <3>2, <3>3, JobRetried
  <2>8. CASE ~ (j = h /\ job.status = "Failed")
    <3>1. Retrying(j)' \subseteq Retrying(j)
      BY Zenon, <2>6
    <3>2. (IsOpen(jobs[j]) /\ IsOpen(jobs'[j])) \/ ~ IsOpen(jobs'[j])
      BY Zenon, <1>10, <1>11, <2>8 DEF IsOpen
    <3>3. QED
      BY Zenon, <1>1, <1>4, <1>13, <2>3, <2>6, <3>1, <3>2, JobKept
  <2>9. QED
    BY Zenon, <2>7, <2>8
<1>16. Published'
  BY Zenon, <1>1, <1>11, <1>13, PublishedKept DEF DeliveryInv
<1>17. OutcomeIsTrue'
  <2>1. SUFFICES ASSUME NEW j \in DOMAIN jobs
                 PROVE  /\ jobs'[j].status = "Delivered" => received'[j]
                        /\ jobs'[j].status = "DeadLettered" => jobs'[j].attempts >= MaxAttempts
    BY Zenon, <1>11 DEF OutcomeIsTrue
  <2>2. CASE j # h
    BY Zenon, <1>1, <1>11, <2>2 DEF DeliveryInv, OutcomeIsTrue
  <2>3. CASE j = h
    BY <1>1, <1>4, <1>9, <1>10, <1>11, <2>3, DeliveryBounds
  <2>4. QED
    BY Zenon, <2>2, <2>3
<1>18. QED
  BY Zenon, <1>1, <1>11, <1>12, <1>14, <1>15, <1>16, <1>17 DEF DeliveryInv

\* A delay that has passed changes neither status nor count.
LEMMA DelayKeeps ==
  ASSUME DeliveryInv, NEW h \in DOMAIN jobs, DelayPasses(h)
  PROVE  DeliveryInv'
<1>1. /\ crew' = crew /\ received' = received /\ publisher' = publisher /\ worker' = worker
      /\ jobs' = [jobs EXCEPT ![h].due = TRUE]
  BY Zenon DEF DelayPasses
<1>2. /\ IsFiniteSet(crew) /\ DOMAIN jobs = 1..Len(jobs) /\ Len(jobs) \in Nat
      /\ \A j \in DOMAIN jobs : jobs[j].attempts \in Nat /\ jobs[j] \in DeliveryJobs
  BY Zenon, DeliveryFacts
<1>3. /\ DOMAIN jobs' = DOMAIN jobs /\ \A j \in DOMAIN jobs : j # h => jobs'[j] = jobs[j]
      /\ jobs'[h] = [target |-> jobs[h].target, status |-> jobs[h].status, attempts |-> jobs[h].attempts, due |-> TRUE]
  BY Zenon, <1>1, <1>2 DEF DeliveryJobs
<1>4. \A j \in DOMAIN jobs : /\ j \in DOMAIN jobs' /\ jobs'[j].attempts = jobs[j].attempts /\ jobs'[j].target = jobs[j].target
                             /\ jobs'[j].status = jobs[j].status /\ jobs'[j] \in DeliveryJobs
  <2>1. SUFFICES ASSUME NEW j \in DOMAIN jobs
                 PROVE  /\ jobs'[j].attempts = jobs[j].attempts /\ jobs'[j].target = jobs[j].target
                        /\ jobs'[j].status = jobs[j].status /\ jobs'[j] \in DeliveryJobs
    BY Zenon, <1>3
  <2>2. CASE j # h
    BY Zenon, <1>2, <1>3, <2>2
  <2>3. CASE j = h
    <3>1. jobs[h] \in DeliveryJobs
      BY Zenon, <1>2
    <3>2. jobs[h].target \in Endpoints \cup {NotANotice} /\ jobs[h].status \in DeliveryJobStatus /\ jobs[h].attempts \in Nat
      BY Zenon, <3>1 DEF DeliveryJobs
    <3>3. jobs'[h] \in DeliveryJobs
      BY <1>3, <3>2 DEF DeliveryJobs
    <3>4. jobs'[h].attempts = jobs[h].attempts /\ jobs'[h].target = jobs[h].target /\ jobs'[h].status = jobs[h].status
      BY <1>3
    <3>5. QED
      BY <2>3, <3>3, <3>4, Zenon
  <2>4. QED
    BY Zenon, <2>2, <2>3
<1>5. jobs' \in Seq(DeliveryJobs) /\ Len(jobs') = Len(jobs)
  <2>1. jobs' = [j \in DOMAIN jobs |-> jobs'[j]]
    BY Zenon, <1>1, <1>2 DEF DeliveryInv
  <2>2. jobs' \in [1..Len(jobs) -> DeliveryJobs]
    BY Zenon, <1>2, <1>4, <2>1
  <2>3. QED
    BY <1>2, <2>2
<1>6. \A v \in DeliveryWorkers : InHand(v)'
  <2>1. \A j \in DOMAIN jobs : jobs'[j].attempts \in Nat /\ jobs[j].attempts <= jobs'[j].attempts
    BY <1>2, <1>4
  <2>2. QED
    BY Zenon, <1>1, <1>2, <1>4, <2>1, InHandKept DEF DeliveryInv
<1>7. \A j \in DOMAIN jobs : WithinBudget(j)'
  <2>1. SUFFICES ASSUME NEW j \in DOMAIN jobs PROVE WithinBudget(j)'
    BY Zenon
  <2>2. Retrying(j)' = Retrying(j) /\ Holding(j)' = Holding(j)
    BY Zenon, <1>1 DEF Retrying, Holding
  <2>3. IsOpen(jobs'[j]) <=> IsOpen(jobs[j])
    BY Zenon, <1>4 DEF IsOpen
  <2>4. WithinBudget(j)
    BY Zenon DEF DeliveryInv
  <2>5. QED
    BY Zenon, <1>1, <1>2, <1>4, <2>2, <2>3, <2>4, JobKept
<1>8. Published'
  BY Zenon, <1>1, <1>3, <1>4, PublishedKept DEF DeliveryInv
<1>9. OutcomeIsTrue'
  BY Zenon, <1>1, <1>3, <1>4 DEF DeliveryInv, OutcomeIsTrue
<1>10. QED
  BY Zenon, <1>1, <1>3, <1>5, <1>6, <1>7, <1>8, <1>9 DEF DeliveryInv

\* enqueue appends a job nobody has seen, and changes no other.
LEMMA EnqueueKeeps ==
  ASSUME DeliveryInv, NEW target \in Endpoints \cup {NotANotice}, EnqueueJob(NewJob(target)),
         crew' = crew, worker' = worker
  PROVE  /\ jobs' \in Seq(DeliveryJobs) /\ received' \in Seq(BOOLEAN) /\ Len(received') = Len(jobs')
         /\ \A w \in DeliveryWorkers : InHand(w)'
         /\ OutcomeIsTrue' /\ \A j \in DOMAIN jobs' : WithinBudget(j)'
         /\ \A e : JobsFor(e)' = IF e = target THEN JobsFor(e) \cup {Len(jobs) + 1} ELSE JobsFor(e)
         /\ Len(jobs) + 1 \in DOMAIN jobs'
<1>1. /\ IsFiniteSet(crew) /\ DOMAIN jobs = 1..Len(jobs) /\ Len(jobs) \in Nat
      /\ \A j \in DOMAIN jobs : jobs[j].attempts \in Nat
  BY Zenon, DeliveryFacts
<1>2. jobs \in Seq(DeliveryJobs) /\ received \in Seq(BOOLEAN) /\ Len(received) = Len(jobs)
  BY Zenon DEF DeliveryInv
<1>3. PICK job : /\ job = NewJob(target) /\ job \in DeliveryJobs /\ job.target = target
                 /\ job.status = "Pending" /\ job.attempts = 0
  <2>1. NewJob(target) \in DeliveryJobs
    BY Zenon DEF NewJob, DeliveryJobs, DeliveryJobStatus
  <2>2. NewJob(target).target = target /\ NewJob(target).status = "Pending" /\ NewJob(target).attempts = 0
    BY Zenon DEF NewJob
  <2>3. QED
    BY Zenon, <2>1, <2>2
<1>4. jobs' = Append(jobs, job) /\ received' = Append(received, FALSE)
  BY Zenon, <1>3 DEF EnqueueJob
<1>5. PICK n \in Nat : n = Len(jobs) + 1
  BY <1>1
<1>6. /\ jobs' \in Seq(DeliveryJobs) /\ Len(jobs') = n /\ jobs'[n] = job
      /\ \A j \in DOMAIN jobs : jobs'[j] = jobs[j]
  BY <1>1, <1>2, <1>3, <1>4, <1>5
<1>7. /\ received' \in Seq(BOOLEAN) /\ Len(received') = n /\ \A j \in DOMAIN jobs : received'[j] = received[j]
  <2>1. PICK b \in BOOLEAN : b = FALSE
    BY Zenon
  <2>2. /\ received' \in Seq(BOOLEAN) /\ Len(received') = Len(received) + 1
        /\ \A j \in 1..Len(received) : received'[j] = received[j]
    <3>1. received' = Append(received, b)
      BY Zenon, <1>4, <2>1
    <3>2. /\ Append(received, b) \in Seq(BOOLEAN) /\ Len(Append(received, b)) = Len(received) + 1
          /\ \A j \in 1..Len(received) : Append(received, b)[j] = received[j]
      BY <1>2
    <3>3. QED
      BY <3>1, <3>2, Zenon
  <2>3. QED
    BY Zenon, <1>1, <1>2, <1>5, <2>2
<1>8. DOMAIN jobs' = DOMAIN jobs \cup {n} /\ n \notin DOMAIN jobs
  BY <1>1, <1>5, <1>6
<1>9. \A w \in DeliveryWorkers : InHand(w)'
  <2>1. \A j \in DOMAIN jobs : jobs'[j].attempts \in Nat /\ jobs[j].attempts <= jobs'[j].attempts /\ j \in DOMAIN jobs'
    BY <1>1, <1>6, <1>8
  <2>2. QED
    BY Zenon, <1>1, <1>7, <2>1, InHandKept DEF DeliveryInv
<1>10. \A j \in DOMAIN jobs' : WithinBudget(j)'
  <2>1. SUFFICES ASSUME NEW j \in DOMAIN jobs' PROVE WithinBudget(j)'
    BY Zenon
  <2>2. Retrying(j)' = Retrying(j) /\ Holding(j)' = Holding(j)
    BY Zenon DEF Retrying, Holding
  <2>3. CASE j \in DOMAIN jobs
    <3>1. jobs'[j] = jobs[j] /\ WithinBudget(j)
      BY Zenon, <1>6, <2>3 DEF DeliveryInv
    <3>2. QED
      BY Zenon, <1>1, <2>2, <2>3, <3>1, JobKept
  <2>4. CASE j = n
    <3>1. \A w \in crew : ~ Retries(worker[w], n)
      <4>1. SUFFICES ASSUME NEW w \in crew, worker[w].step # "attempt" PROVE worker[w].batch[1] # n
        BY Zenon DEF Retries
      <4>2. InHand(w)
        BY Zenon DEF DeliveryInv
      <4>3. worker[w].batch \in Seq(Nat) /\ worker[w].batch # << >>
        BY Zenon, <4>1, <4>2 DEF InHand, Locals
      <4>4. 1 \in DOMAIN worker[w].batch
        BY Zenon, <4>3, BatchFact
      <4>5. QED
        BY Zenon, <1>8, <4>2, <4>4 DEF InHand
    <3>2. Retrying(j)' = {}
      BY Zenon, <2>2, <2>4, <3>1 DEF Retrying
    <3>3. jobs'[j].attempts = 0 /\ IsOpen(jobs'[j])
      BY Zenon, <1>3, <1>6, <2>4 DEF IsOpen
    <3>4. QED
      BY Zenon, <1>1, <3>2, <3>3, JobCreated
  <2>5. QED
    BY Zenon, <1>8, <2>3, <2>4
<1>11. OutcomeIsTrue'
  BY Zenon, <1>3, <1>6, <1>7, <1>8 DEF DeliveryInv, OutcomeIsTrue
<1>12. \A e : JobsFor(e)' = IF e = target THEN JobsFor(e) \cup {n} ELSE JobsFor(e)
  BY Zenon, <1>3, <1>6, <1>8 DEF JobsFor
<1>13. QED
  BY Zenon, <1>5, <1>6, <1>7, <1>8, <1>9, <1>10, <1>11, <1>12

\* A notification adds a job that is no endpoint's.
LEMMA SendKeeps == ASSUME DeliveryInv, SendNotification PROVE DeliveryInv'
<1>1. EnqueueJob(NewJob(NotANotice)) /\ crew' = crew /\ worker' = worker /\ publisher' = publisher
  BY Zenon DEF SendNotification
<1>2. /\ jobs' \in Seq(DeliveryJobs) /\ received' \in Seq(BOOLEAN) /\ Len(received') = Len(jobs')
      /\ \A w \in DeliveryWorkers : InHand(w)'
      /\ OutcomeIsTrue' /\ \A j \in DOMAIN jobs' : WithinBudget(j)'
      /\ \A e : JobsFor(e)' = IF e = NotANotice THEN JobsFor(e) \cup {Len(jobs) + 1} ELSE JobsFor(e)
  BY Zenon, <1>1, EnqueueKeeps
<1>3. \A e \in Endpoints : JobsFor(e)' = JobsFor(e)
  BY Zenon, <1>2, DeliveryBounds DEF NotANotice
<1>4. \A e \in Endpoints : Told(e)' <=> Told(e)
  BY Zenon, <1>1 DEF Told
<1>5. \A e \in Endpoints : IF Told(e)' THEN \E j \in DOMAIN jobs' : JobsFor(e)' = {j} ELSE JobsFor(e)' = {}
  <2>1. SUFFICES ASSUME NEW e \in Endpoints
                 PROVE  IF Told(e)' THEN \E j \in DOMAIN jobs' : JobsFor(e)' = {j} ELSE JobsFor(e)' = {}
    BY Zenon
  <2>2. CASE ~ Told(e)
    BY Zenon, <1>3, <1>4, <2>2 DEF DeliveryInv, Published
  <2>3. CASE Told(e)
    <3>1. PICK j : JobsFor(e) = {j}
      BY Zenon, <2>3 DEF DeliveryInv, Published
    <3>2. JobsFor(e)' = {j} /\ j \in DOMAIN jobs'
      BY Zenon, <1>3, <3>1 DEF JobsFor
    <3>3. QED
      BY Zenon, <1>4, <2>3, <3>2
  <2>4. QED
    BY Zenon, <2>2, <2>3
<1>6. Published'
  BY Zenon, <1>1, <1>5 DEF DeliveryInv, Published
<1>7. QED
  BY Zenon, <1>1, <1>2, <1>6 DEF DeliveryInv

\* publish makes the one job of an endpoint it had still to tell.
LEMMA PublishEnqueueKeeps == ASSUME DeliveryInv, NEW f \in Endpoints, PublishEnqueue(f) PROVE DeliveryInv'
<1>1. /\ EnqueueJob(NewJob(f)) /\ crew' = crew /\ worker' = worker
      /\ publisher.step = "enqueue" /\ f \in publisher.todo /\ publisher' = [publisher EXCEPT !.todo = @ \ {f}]
  BY Zenon DEF PublishEnqueue
<1>2. /\ jobs' \in Seq(DeliveryJobs) /\ received' \in Seq(BOOLEAN) /\ Len(received') = Len(jobs')
      /\ \A w \in DeliveryWorkers : InHand(w)'
      /\ OutcomeIsTrue' /\ \A j \in DOMAIN jobs' : WithinBudget(j)'
      /\ \A e : JobsFor(e)' = IF e = f THEN JobsFor(e) \cup {Len(jobs) + 1} ELSE JobsFor(e)
      /\ Len(jobs) + 1 \in DOMAIN jobs'
  BY Zenon, <1>1, EnqueueKeeps
<1>3. Published
  BY Zenon DEF DeliveryInv
<1>4. /\ publisher'.todo = publisher.todo \ {f} /\ publisher'.step = "enqueue"
      /\ publisher'.read = publisher.read /\ publisher'.tenant = publisher.tenant
      /\ DOMAIN publisher' = {"tenant", "todo", "read", "step"}
  BY Zenon, <1>1, <1>3 DEF Published
<1>5. \A e \in Endpoints : IF Told(e)' THEN \E j \in DOMAIN jobs' : JobsFor(e)' = {j} ELSE JobsFor(e)' = {}
  <2>1. SUFFICES ASSUME NEW e \in Endpoints
                 PROVE  IF Told(e)' THEN \E j \in DOMAIN jobs' : JobsFor(e)' = {j} ELSE JobsFor(e)' = {}
    BY Zenon
  <2>2. CASE e = f
    <3>1. ~ Told(e) /\ Told(e)'
      BY Zenon, <1>1, <1>3, <1>4, <2>2 DEF Told, Published
    <3>2. JobsFor(e) = {}
      BY Zenon, <1>3, <3>1 DEF Published
    <3>3. JobsFor(e)' = {Len(jobs) + 1}
      BY Zenon, <1>2, <2>2, <3>2
    <3>4. QED
      BY Zenon, <1>2, <3>1, <3>3
  <2>3. CASE e # f
    <3>1. Told(e)' <=> Told(e)
      BY Zenon, <1>4, <2>3 DEF Told
    <3>2. JobsFor(e)' = JobsFor(e)
      BY Zenon, <1>2, <2>3
    <3>3. CASE Told(e)
      <4>1. PICK j : JobsFor(e) = {j}
        BY Zenon, <1>3, <3>3 DEF Published
      <4>2. JobsFor(e)' = {j} /\ j \in DOMAIN jobs'
        BY Zenon, <3>2, <4>1 DEF JobsFor
      <4>3. QED
        BY Zenon, <3>1, <3>3, <4>2
    <3>4. CASE ~ Told(e)
      BY Zenon, <1>3, <3>1, <3>2, <3>4 DEF Published
    <3>5. QED
      BY Zenon, <3>3, <3>4
  <2>4. QED
    BY Zenon, <2>2, <2>3
<1>6. Published'
  BY Zenon, <1>3, <1>4, <1>5 DEF Published
<1>7. QED
  BY Zenon, <1>1, <1>2, <1>6 DEF DeliveryInv

\* register, publish's look at the registry and its return leave jobs and workers.
LEMMA PublisherKeeps ==
  ASSUME DeliveryInv, crew' = crew, worker' = worker, jobs' = jobs, received' = received, Published'
  PROVE  DeliveryInv'
<1>1. \A w \in DeliveryWorkers : InHand(w)' <=> InHand(w)
  BY Zenon DEF InHand
<1>2. \A j \in DOMAIN jobs : WithinBudget(j)' <=> WithinBudget(j)
  BY Zenon DEF WithinBudget, ClaimsLeft, RetriesLeft, Holding, Retrying
<1>3. OutcomeIsTrue' <=> OutcomeIsTrue
  BY Zenon DEF OutcomeIsTrue
<1>4. QED
  BY Zenon, <1>1, <1>2, <1>3 DEF DeliveryInv

\* publish reads the endpoints its tenant has enabled, before any has a job.
LEMMA PublishReadKeeps == ASSUME DeliveryInv, NEW t \in Owning, PublishRead(t) PROVE DeliveryInv'
<1>1. /\ publisher.step = "ready" /\ crew' = crew /\ worker' = worker /\ jobs' = jobs /\ received' = received
      /\ publisher' = [tenant |-> t, todo |-> EndpointsForTenant(t),
                       read |-> {<<e, endpoints[e]>> : e \in EndpointsForTenant(t)}, step |-> "enqueue"]
  BY Zenon DEF PublishRead
<1>2. Published
  BY Zenon DEF DeliveryInv
<1>3. \A e \in Endpoints : JobsFor(e)' = {}
  BY <1>1, <1>2 DEF Published, Told, JobsFor
<1>4. /\ DOMAIN publisher' = {"tenant", "todo", "read", "step"} /\ publisher'.tenant = t /\ publisher'.step = "enqueue"
      /\ publisher'.todo = EndpointsForTenant(t)
      /\ publisher'.read = {<<e, endpoints[e]>> : e \in EndpointsForTenant(t)}
  BY Zenon, <1>1
<1>5. \A r \in publisher'.read : \E e \in EndpointsForTenant(t) : r = <<e, endpoints[e]>>
  BY Zenon, <1>4
<1>6. \A e \in EndpointsForTenant(t) : <<e, endpoints[e]>> \in publisher'.read
  BY Zenon, <1>4
<1>7. \A e : ~ Told(e)'
  BY <1>4, <1>5 DEF Told
<1>8. \A r \in publisher'.read : r[2].tenant = t /\ r[2].enabled
  BY <1>5 DEF EndpointsForTenant
<1>9. \A e \in publisher'.todo : \E r \in publisher'.read : r[1] = e
  <2>1. \A e : <<e, endpoints[e]>>[1] = e
    BY Zenon
  <2>2. QED
    BY <1>4, <1>6, <2>1, Zenon
<1>10. Published'
  BY Zenon, <1>3, <1>4, <1>7, <1>8, <1>9 DEF Published
<1>11. QED
  BY Zenon, <1>1, <1>10, PublisherKeeps

\* publish returns once nothing is left to tell.
LEMMA PublishReturnKeeps == ASSUME DeliveryInv, PublishReturn PROVE DeliveryInv'
<1>1. /\ publisher.step = "enqueue" /\ publisher.todo = {} /\ publisher' = [publisher EXCEPT !.step = "returned"]
      /\ crew' = crew /\ worker' = worker /\ jobs' = jobs /\ received' = received
  BY Zenon DEF PublishReturn
<1>2. Published
  BY Zenon DEF DeliveryInv
<1>3. /\ DOMAIN publisher' = {"tenant", "todo", "read", "step"} /\ publisher'.tenant = publisher.tenant
      /\ publisher'.step = "returned" /\ publisher'.todo = {} /\ publisher'.read = publisher.read
  BY Zenon, <1>1, <1>2 DEF Published
<1>4. \A e : JobsFor(e)' = JobsFor(e) /\ (Told(e)' <=> Told(e))
  BY Zenon, <1>1, <1>3 DEF JobsFor, Told
<1>5. Published'
  BY Zenon, <1>1, <1>2, <1>3, <1>4 DEF Published
<1>6. QED
  BY Zenon, <1>1, <1>5, PublisherKeeps

\* A registration changes the registry alone; so does a step of another component.
LEMMA DeliveryStutters ==
  ASSUME DeliveryInv, crew' = crew, worker' = worker, jobs' = jobs, received' = received, publisher' = publisher
  PROVE  DeliveryInv'
<1>1. Published'
  BY Zenon, PublishedKept DEF DeliveryInv
<1>2. QED
  BY Zenon, <1>1, PublisherKeeps

\* Every step of the outbox, the registry and the workers keeps the invariant.
LEMMA DeliveryStep == ASSUME DeliveryInv, [DeliveryNext]_deliveryVars PROVE DeliveryInv'
<1>1. CASE SendNotification
  BY Zenon, <1>1, SendKeeps
<1>2. CASE PublishReturn
  BY Zenon, <1>2, PublishReturnKeeps
<1>3. CASE \E e \in Endpoints, t \in Owning, enabled \in BOOLEAN : Register(e, t, enabled)
  BY Zenon, <1>3, DeliveryStutters DEF Register
<1>4. CASE \E t \in Owning : PublishRead(t)
  BY Zenon, <1>4, PublishReadKeeps
<1>5. CASE \E e \in Endpoints : PublishEnqueue(e)
  BY Zenon, <1>5, PublishEnqueueKeeps
<1>6. CASE \E w \in DeliveryWorkers : DeliverySteps(w) \/ Abandon(w)
  BY Zenon, <1>6, ClaimKeeps, RecordKeeps, DeliverKeeps, SettleKeeps, AbandonKeeps DEF DeliverySteps
<1>7. CASE \E j \in DOMAIN jobs : DelayPasses(j)
  BY Zenon, <1>7, DelayKeeps
<1>8. CASE UNCHANGED deliveryVars
  BY Zenon, <1>8, DeliveryStutters DEF deliveryVars
<1>9. QED
  BY Zenon, <1>1, <1>2, <1>3, <1>4, <1>5, <1>6, <1>7, <1>8 DEF DeliveryNext

\* Nothing is queued, claimed or told at the start.
LEMMA DeliveryStarts == ASSUME DeliveryInit PROVE DeliveryInv
<1>1. jobs = << >> /\ received = << >> /\ worker = [w \in DeliveryWorkers |-> Idle]
  BY Zenon DEF DeliveryInit
<1>2. /\ jobs \in Seq(DeliveryJobs) /\ received \in Seq(BOOLEAN) /\ Len(received) = Len(jobs) /\ DOMAIN jobs = {}
      /\ DOMAIN worker = DeliveryWorkers
  BY <1>1
<1>3. crew \in SUBSET DeliveryWorkers
  BY Zenon, DeliveryBounds DEF DeliveryInit
<1>4. \A w \in DeliveryWorkers : InHand(w)
  <2>1. SUFFICES ASSUME NEW w \in DeliveryWorkers PROVE InHand(w)
    BY Zenon
  <2>2. worker[w] \in Locals /\ worker[w].batch = << >> /\ worker[w].step = "attempt"
    BY <1>1 DEF Idle, Locals
  <2>3. QED
    BY <2>2 DEF InHand, Increasing
<1>5. \A e : JobsFor(e) = {}
  BY Zenon, <1>2 DEF JobsFor
<1>6. Published
  <2>1. CASE publisher = [tenant |-> "none", todo |-> {}, read |-> {}, step |-> "ready"]
    BY Zenon, <1>5, <2>1 DEF Published, Told
  <2>2. CASE ~ (publisher = [tenant |-> "none", todo |-> {}, read |-> {}, step |-> "ready"])
    <3>1. PICK e, it : /\ publisher = [tenant |-> it.tenant, todo |-> {e}, read |-> {<<e, it>>}, step |-> "enqueue"]
                       /\ it.enabled
      <4>1. PICK e : e = CHOOSE f \in Endpoints : TRUE
        BY Zenon
      <4>2. PICK it : it = [tenant |-> CHOOSE t \in Owning : TRUE, enabled |-> TRUE]
        BY Zenon
      <4>3. it.enabled
        BY Zenon, <4>2
      <4>4. publisher = [tenant |-> it.tenant, todo |-> {e}, read |-> {<<e, it>>}, step |-> "enqueue"]
        BY <2>2, <4>1, <4>2, Zenon DEF DeliveryInit
      <4>5. QED
        BY Zenon, <4>3, <4>4
    <3>2. /\ DOMAIN publisher = {"tenant", "todo", "read", "step"} /\ publisher.tenant = it.tenant
          /\ publisher.todo = {e} /\ publisher.read = {<<e, it>>} /\ publisher.step = "enqueue"
      BY Zenon, <3>1
    <3>3. \A f : ~ Told(f)
      BY <3>2 DEF Told
    <3>4. <<e, it>>[1] = e /\ <<e, it>>[2] = it
      BY Zenon
    <3>5. \A f \in publisher.todo : \E r \in publisher.read : r[1] = f
      BY Zenon, <3>2, <3>4
    <3>6. \A r \in publisher.read : r[2].tenant = publisher.tenant /\ r[2].enabled
      BY Zenon, <3>1, <3>2, <3>4
    <3>7. QED
      BY Zenon, <1>5, <3>2, <3>3, <3>5, <3>6 DEF Published
  <2>3. QED
    BY Zenon, <2>1, <2>2
<1>7. QED
  BY Zenon, <1>2, <1>3, <1>4, <1>6 DEF DeliveryInv, OutcomeIsTrue

\* A job within its budget has at most the policy's attempts for each worker, and
\* a publication that returned has told each endpoint once.
LEMMA DeliverySafe == ASSUME DeliveryInv PROVE DeliveriesAreTrue
<1>1. AttemptsBounded
  <2>1. SUFFICES ASSUME NEW j \in DOMAIN jobs PROVE jobs[j].attempts <= MaxAttempts * Cardinality(crew)
    BY Zenon DEF AttemptsBounded
  <2>2. WithinBudget(j)
    BY Zenon DEF DeliveryInv
  <2>3. IsFiniteSet(crew) /\ jobs[j].attempts \in Nat
    BY Zenon, DeliveryFacts
  <2>4. ClaimsLeft(j) \in Nat /\ Cardinality(crew) \in Nat /\ Cardinality(Retrying(j)) \in Nat
    BY Zenon, <2>3, CountsOf
  <2>5. RetriesLeft(j) \in Nat
    BY <2>3, <2>4, DeliveryBounds DEF RetriesLeft
  <2>6. Cardinality(crew) * RetriesLeft(j) \in Nat /\ MaxAttempts * Cardinality(crew) \in Nat
    BY <2>4, <2>5, DeliveryBounds
  <2>7. QED
    BY <2>2, <2>3, <2>4, <2>6 DEF WithinBudget
<1>2. FanOut
  <2>1. SUFFICES ASSUME publisher.step = "returned", NEW e \in Endpoints
                 PROVE  Cardinality(JobsFor(e)) = IF \E r \in publisher.read : r[1] = e THEN 1 ELSE 0
    BY Zenon DEF FanOut, JobsFor, DeliveryInv, Published
  <2>2. Told(e) <=> \E r \in publisher.read : r[1] = e
    BY Zenon, <2>1 DEF DeliveryInv, Published, Told
  <2>3. IF Told(e) THEN \E j \in DOMAIN jobs : JobsFor(e) = {j} ELSE JobsFor(e) = {}
    BY Zenon DEF DeliveryInv, Published
  <2>4. QED
    BY Zenon, <2>2, <2>3, FS_Singleton, FS_EmptySet
<1>3. QED
  BY Zenon, <1>1, <1>2 DEF DeliveriesAreTrue, DeliveryInv

\* However many workers share the delivery outbox and however their calls
\* interleave or end early: a job marked delivered was received, one dead-lettered
\* has used its attempts up, no job is attempted more often than the retry policy
\* allows each worker, and a publish call that returned made exactly one job for
\* each endpoint its tenant had enabled.
THEOREM DeliveryCorrect == DeliveryInit /\ [][DeliveryNext]_deliveryVars => []DeliveriesAreTrue
<1>1. DeliveryInit => DeliveryInv
  BY Zenon, DeliveryStarts
<1>2. DeliveryInv /\ [DeliveryNext]_deliveryVars => DeliveryInv'
  BY Zenon, DeliveryStep
<1>3. DeliveryInv => DeliveriesAreTrue
  BY Zenon, DeliverySafe
<1>4. QED
  BY <1>1, <1>2, <1>3, PTL
=============================================================================
