---------------------------- MODULE PipelineAcks ----------------------------
(***************************************************************************)
(* What an acknowledged addition means, for every number of writers and    *)
(* every size of queue, batch and pipeline, whether or not contexts end,   *)
(* transactions fail and the holder is stopped: Redis has shown its        *)
(* records since it was submitted.                                         *)
(***************************************************************************)
EXTENDS PipelineJobs

(* Some delta takes value v to this outcome. *)
Sets(ds, v, to) == \E n \in DOMAIN ds : ds[n].v = v /\ ds[n].to = to

(* Each value that is touched has a last delta. *)
HasLast(ds) ==
  \A v \in Values : Touches(ds, v) => \E n \in DOMAIN ds : ds[n].v = v /\ LastFor(ds, n)

(* No live plan before plan k touches v, or none at all. *)
Before(v, k) == \A j \in DOMAIN flight : j < k /\ Live(j) => ~Touches(flight[j].deltas, v)
Settled(v) == \A j \in DOMAIN flight : Live(j) => ~Touches(flight[j].deltas, v)

(* The additions AddAckedIsStored is about. *)
Owed(w) == Additive(w) /\ (Limit = 0 \/ Count(w) = 1)

(* Redis has shown this value as asked, or it is in doubt and no plan will settle that. *)
There(w, v) == v \in effect[w] \/ (v \in unsure /\ Settled(v))

(* What Redis holds as asked for is in the history. *)
Shown ==
  /\ effect \in [Writers -> SUBSET Values]
  /\ \A w \in Writers : wpc[w] # "new" =>
       \A v \in ValuesOf(w) : stored[v] = job[w].to => v \in effect[w]

(* Of the facts about live plans those that a stop, which drops plans, leaves true. *)
PlanOf(i) ==
  /\ flight[i].gen <= gen /\ flight[i].deltas # <<>> /\ HasLast(flight[i].deltas)
  /\ Live(i) =>
       /\ flight[i].seq <= pendSeq
       /\ \A j \in DOMAIN flight : i < j /\ Live(j) => flight[i].seq < flight[j].seq
       /\ \A v \in Values : Touches(flight[i].deltas, v) =>
            (pend[v] # Unplanned /\ pend[v].seq >= flight[i].seq) \/ (i = 1 /\ Reached(v))

Marked ==
  /\ \A i \in DOMAIN flight : PlanOf(i)
  /\ cpc \in {"stored", "refused", "commit"} => Live(1)

(* The deltas of every job accepted so far are collected. *)
Listed ==
  ppc = "check" =>
    \A w \in Checked : fate[w] = "none" => \A v \in ValuesOf(w) : Sets(deltas, v, job[w].to)

(* What Plan has looked at is in the draft, found full, or there already. *)
Drawn ==
  ppc = "plan" =>
    /\ HasLast(applied)
    /\ \A n \in DOMAIN applied : over[applied[n].v] # Unplanned
    /\ \A w \in ToSet(batch) : fate[w] = "none" /\ Owed(w) =>
         \A v \in ValuesOf(w) :
           \/ There(w, v)
           \/ Sets(todo, v, job[w].to) \/ Sets(applied, v, job[w].to)
           \/ Limit > 0 /\ v \in rejected

(* A batch without a plan has nothing to store. *)
Found ==
  ppc = "answer" =>
    \A w \in ToSet(batch) : fate[w] = "none" /\ Owed(w) =>
      \A v \in ValuesOf(w) : There(w, v)

(* A live plan has what its owners asked for, unless it is there already. *)
Carried ==
  \A i \in DOMAIN flight : Live(i) =>
    \A w \in OwnerOf(i) : Owed(w) =>
      \A v \in ValuesOf(w) :
        v \in effect[w] \/ Sets(flight[i].deltas, v, job[w].to) \/ (v \in unsure /\ Before(v, i))

(* Those about to be acknowledged have been stored. *)
Saved ==
  cpc \in {"stored", "commit", "publish"} =>
    \A w \in held : Owed(w) => ValuesOf(w) \subseteq effect[w] \cup unsure

AckInv == Shown /\ Marked /\ Listed /\ Drawn /\ Found /\ Carried /\ Saved

-----------------------------------------------------------------------------
(* Deltas *)

(* Each value still has a last delta when there is one more. *)
LEMMA LastAppend ==
  ASSUME NEW ds \in Seq(Delta), NEW d \in Delta, HasLast(ds)
  PROVE  HasLast(Append(ds, d))
<1> DEFINE es == Append(ds, d)
<1>1. /\ DOMAIN es = 1..(Len(ds) + 1) /\ DOMAIN ds = 1..Len(ds) /\ Len(ds) \in Nat
      /\ \A i \in 1..Len(ds) : es[i] = ds[i]
      /\ es[Len(ds) + 1] = d
  BY AppendGives
<1> HIDE DEF es
<1>2. SUFFICES ASSUME NEW v \in Values, Touches(es, v)
               PROVE  \E n \in DOMAIN es : es[n].v = v /\ LastFor(es, n)
  BY DEF HasLast, es
<1>3. CASE v = d.v
  <2>1. Len(ds) + 1 \in DOMAIN es /\ \A m \in DOMAIN es : ~(m > Len(ds) + 1)
    BY <1>1
  <2> QED
    BY <1>1, <1>3, <2>1 DEF LastFor
<1>4. CASE v # d.v
  <2>1. Touches(ds, v)
    <3>1. PICK m \in DOMAIN es : es[m].v = v
      BY <1>2 DEF Touches
    <3>2. m # Len(ds) + 1
      BY <1>1, <1>4, <3>1
    <3> QED
      BY <1>1, <3>1, <3>2 DEF Touches
  <2>2. PICK n \in DOMAIN ds : ds[n].v = v /\ LastFor(ds, n)
    BY <2>1 DEF HasLast
  <2>3. n \in DOMAIN es /\ es[n].v = v
    BY <1>1, <2>2
  <2>4. ASSUME NEW m \in DOMAIN es, m > n
        PROVE  es[m].v # es[n].v
    <3>1. CASE m = Len(ds) + 1
      BY <1>1, <1>4, <2>3, <3>1
    <3>2. CASE m # Len(ds) + 1
      <4>1. m \in DOMAIN ds /\ es[m] = ds[m] /\ es[n] = ds[n]
        BY <1>1, <3>2
      <4> QED
        BY <2>2, <2>4, <4>1 DEF LastFor
    <3> QED
      BY <3>1, <3>2
  <2> QED
    BY <2>3, <2>4 DEF LastFor
<1> QED
  BY <1>3, <1>4

(* What is set stays set, and the new delta sets its value. *)
LEMMA SetsAppend ==
  ASSUME NEW ds \in Seq(Delta), NEW d \in Delta
  PROVE  /\ Sets(Append(ds, d), d.v, d.to)
         /\ \A v, to : Sets(ds, v, to) => Sets(Append(ds, d), v, to)
<1>1. /\ DOMAIN Append(ds, d) = 1..(Len(ds) + 1) /\ DOMAIN ds = 1..Len(ds) /\ Len(ds) \in Nat
      /\ \A i \in 1..Len(ds) : Append(ds, d)[i] = ds[i]
      /\ Append(ds, d)[Len(ds) + 1] = d
  BY AppendGives
<1>2. Len(ds) + 1 \in DOMAIN Append(ds, d) /\ DOMAIN ds \subseteq DOMAIN Append(ds, d)
  BY <1>1
<1> QED
  BY <1>1, <1>2 DEF Sets

(* The deltas of two sequences one after the other. *)
LEMMA SetsConcat ==
  ASSUME NEW s \in Seq(Delta), NEW t \in Seq(Delta), NEW v, NEW to, Sets(s, v, to) \/ Sets(t, v, to)
  PROVE  Sets(s \o t, v, to)
<1>1. /\ \A i \in DOMAIN s : i \in DOMAIN (s \o t) /\ (s \o t)[i] = s[i]
      /\ \A i \in DOMAIN t : Len(s) + i \in DOMAIN (s \o t) /\ (s \o t)[Len(s) + i] = t[i]
  OBVIOUS
<1> QED
  BY <1>1 DEF Sets

(* The first delta is looked at: the others are still to do. *)
LEMMA SetsTail ==
  ASSUME NEW ds \in Seq(Delta), ds # <<>>, NEW v, NEW to, Sets(ds, v, to)
  PROVE  Sets(Tail(ds), v, to) \/ (Head(ds).v = v /\ Head(ds).to = to)
<1>1. /\ DOMAIN Tail(ds) = 1..(Len(ds) - 1) /\ DOMAIN ds = 1..Len(ds) /\ Len(ds) \in Nat
      /\ \A i \in 1..(Len(ds) - 1) : Tail(ds)[i] = ds[i + 1]
      /\ Head(ds) = ds[1]
  OBVIOUS
<1>2. PICK n \in DOMAIN ds : ds[n].v = v /\ ds[n].to = to
  BY DEF Sets
<1>3. CASE n = 1
  BY <1>1, <1>2, <1>3
<1>4. CASE n # 1
  <2>1. n - 1 \in DOMAIN Tail(ds) /\ Tail(ds)[n - 1] = ds[n]
    BY <1>1, <1>4
  <2> QED
    BY <1>2, <2>1 DEF Sets
<1> QED
  BY <1>3, <1>4

-----------------------------------------------------------------------------
(* Steps *)

(* A plan is made: the only step that adds one to the flight. *)
NewPlan == PlannerPlanned /\ PlanEnd

(* What else the steps of the planner write. *)
LEMMA PlannerRest ==
  ASSUME PPlanner
  PROVE  /\ pendSeq' = pendSeq \/ NewPlan
         /\ flight' = flight \/ NewPlan \/ PlannerDrop
         /\ owners' = owners \/ NewPlan \/ PlannerDrop
         /\ pend' = pend \/ NewPlan
         /\ draft' = draft \/ PlannerPlan \/ PlannerSweepPlan \/ PlannerDelta
<1>1. CASE PlannerPlanned
  BY <1>1 DEF PlannerPlanned, NewPlan, PlanNothing, PlanEnd, pending, draft
<1>2. CASE PlannerDelta
  BY <1>2, DeltaWrites DEF pvars, pending, channel
<1>3. CASE PlannerDrop
  BY <1>3 DEF PlannerDrop, pending
<1>4. CASE PlannerPlan
  BY <1>4 DEF PlannerPlan, PlanBatch, PlanBegin, pending, channel
<1>5. CASE PlannerSweepPlan
  BY <1>5 DEF PlannerSweepPlan, PlanSweep, PlanBegin, pending, channel
<1>6. CASE PlannerSweep
  BY <1>6 DEF PlannerSweep, Expired, pending, channel, draft
<1>7. CASE PlannerSend
  BY <1>7 DEF PlannerSend, vars, pending, draft
<1>8. CASE \/ PlannerTake \/ PlannerGather \/ PlannerStart \/ PlannerCheck \/ PlannerNoPlan
           \/ PlannerAnswer \/ PlannerRefuse \/ PlannerExit
  BY <1>8 DEF PlannerTake, PlannerGather, PlannerStart, PlannerCheck, PlannerNoPlan, PlannerAnswer,
     PlannerRefuse, PlannerExit, vars, pending, channel, draft
<1> QED
  BY <1>1, <1>2, <1>3, <1>4, <1>5, <1>6, <1>7, <1>8 DEF PPlanner

(* What else the steps of the committer write. *)
LEMMA CommitterRest ==
  ASSUME PCommitter
  PROVE  /\ pendSeq' = pendSeq \/ CommitterCommitted \/ CommitterAbort
         /\ effect' = effect \/ \E o \in {"ok", "lost", "torn"} : CommitterStore(o)
<1>1. CASE CommitterStale
  BY <1>1 DEF CommitterStale, SkipStale, pending, redis
<1>2. CASE CommitterCommit
  BY <1>2 DEF CommitterCommit, CommitBegin, pending, redis
<1>3. CASE CommitterDelta
  BY <1>3 DEF CommitterDelta, CommitDelta, pvars, redis
<1>4. CASE CommitterTake \/ CommitterPublish \/ CommitterExit
  BY <1>4 DEF CommitterTake, CommitterPublish, CommitterExit, vars, pending, redis
<1>5. CASE CommitterCommitted \/ CommitterAbort
  BY <1>5 DEF CommitterCommitted, CommitterAbort, redis
<1>6. CASE \E o \in {"ok", "lost", "torn"} : CommitterStore(o)
  <2>1. PICK o \in {"ok", "lost", "torn"} : CommitterStore(o)
    BY <1>6
  <2>2. pendSeq' = pendSeq
    BY <2>1 DEF CommitterStore, vars, pending
  <2> QED
    BY <1>6, <2>2
<1> QED
  BY <1>1, <1>2, <1>3, <1>4, <1>5, <1>6 DEF PCommitter

(* Other steps leave plans, contents and outcomes alone. *)
LEMMA OtherSteps ==
  ASSUME (\E w \in Writers : Writer(w) \/ Deadline(w)) \/ Rest
  PROVE  /\ UNCHANGED <<committed, pending, mu, draft, flight, done, owners, held, cpc, ppc>>
         /\ UNCHANGED <<batch, idx, deltas, fate, stored, unsure, reply>>
         /\ effect' = effect \/ \E w \in Writers : Submit(w)
<1>1. UNCHANGED <<committed, pending, mu, draft, flight, done, owners, held, cpc, ppc>>
  BY WriterWrites, RestWrites DEF vars, channel, committer
<1>2. UNCHANGED <<batch, idx, deltas, fate, stored, unsure, reply>>
  BY WriterWrites, RestWrites DEF planning, redis
<1>3. effect' = effect \/ \E w \in Writers : Submit(w)
  <2>1. ASSUME NEW w \in Writers, Writer(w) \/ Deadline(w)
        PROVE  effect' = effect \/ Submit(w)
    BY <2>1 DEF Writer, SubmitCount, SubmitSend, SubmitRetract, SubmitReturn, Deadline, redis
  <2>2. CASE Rest
    BY <2>2, RestWrites DEF redis
  <2> QED
    BY <2>1, <2>2
<1> QED
  BY <1>1, <1>2, <1>3

(* Without a new plan, plans stay where they are or all move up, with their owners. *)
LEMMA FlightMoves ==
  ASSUME JobInv, StoreInv, Marked, [PNext]_<<vars, pvars>>, ~NewPlan
  PROVE  \E k \in {0, 1} : \A i \in DOMAIN flight' :
           /\ i \in Nat \ {0} /\ i + k \in DOMAIN flight /\ flight'[i] = flight[i + k]
           /\ OwnerOf(i)' = OwnerOf(i + k)
           /\ Live(i)' => Live(i + k)
<1>0. JobTypes /\ Locks /\ Channel /\ SetTypes /\ Aligned
  BY DEF JobInv, StoreInv
<1>1. \A i \in DOMAIN flight' : i \in Nat \ {0} /\ i + 0 = i
  <2>1. flight' \in Seq(Plan)
    BY <1>0, SetTypesStep DEF SetTypes
  <2> QED
    BY <2>1
<1>2. SUFFICES \/ \A i \in DOMAIN flight' : /\ i \in DOMAIN flight /\ flight'[i] = flight[i]
                                            /\ OwnerOf(i)' = OwnerOf(i) /\ (Live(i)' => Live(i))
               \/ \A i \in DOMAIN flight' : /\ i + 1 \in DOMAIN flight /\ flight'[i] = flight[i + 1]
                                            /\ OwnerOf(i)' = OwnerOf(i + 1)
                                            /\ (Live(i)' => Live(i + 1))
  BY <1>1
<1>3. CASE UNCHANGED <<flight, gen, owners, held, Busy>>
  <2>1. \A i \in DOMAIN flight' : OwnerOf(i)' = OwnerOf(i)
    BY <1>3 DEF OwnerOf
  <2> QED
    BY <1>3, <2>1 DEF Live
<1>4. CASE (\E w \in Writers : Writer(w) \/ Deadline(w)) \/ Rest
  <2>1. UNCHANGED <<flight, gen, owners, held, Busy>>
    BY <1>4, OtherSteps DEF pending, Busy
  <2> QED
    BY <1>3, <2>1
<1>5. CASE PPlanner
  <2>1. UNCHANGED <<gen, held, Busy>>
    BY <1>5, PlannerWrites DEF committer, Busy
  <2>2. CASE PlannerDrop
    <3>1. \A i \in DOMAIN flight' : i \in DOMAIN flight /\ flight'[i] = flight[i] /\ OwnerOf(i)' = OwnerOf(i)
      BY <1>0, <2>2, FlightDrops
    <3> QED
      BY <2>1, <3>1 DEF Live
  <2>3. CASE ~PlannerDrop
    <3>1. UNCHANGED <<flight, owners>>
      BY <1>5, <2>3, PlannerRest
    <3> QED
      BY <1>3, <2>1, <3>1
  <2> QED
    BY <2>2, <2>3
<1>6. CASE CommitterTake
  <2>1. UNCHANGED <<flight, gen>>
    BY <1>6 DEF CommitterTake, vars, pending
  <2>2. \A i \in DOMAIN flight : OwnerOf(i)' = OwnerOf(i)
    BY <1>0, <1>6, FlightTaken
  <2> QED
    BY <2>1, <2>2 DEF Live
<1>7. CASE CommitterStale \/ CommitterCommitted \/ CommitterAbort
  <2>1. /\ Busy /\ ~Busy' /\ owners' = owners /\ flight' = Tail(flight)
        /\ gen' = gen \/ gen' = gen + 1
    BY <1>0, <1>7 DEF CommitterStale, SkipStale, CommitterCommitted, CommitEnd, CommitterAbort,
       Abort, Locks, channel, Busy, pending
  <2>2. \A i \in DOMAIN flight' : /\ i + 1 \in DOMAIN flight /\ flight'[i] = flight[i + 1]
                                  /\ OwnerOf(i)' = OwnerOf(i + 1)
    BY <1>0, <2>1, TraceMovesUp
  <2>3. ASSUME NEW i \in DOMAIN flight', Live(i)' PROVE Live(i + 1)
    <3>1. flight[i + 1].gen <= gen /\ flight[i + 1].gen = gen'
      BY <2>2, <2>3 DEF Marked, PlanOf, Live
    <3>2. gen \in Nat
      BY <1>0 DEF SetTypes
    <3>3. gen' # gen + 1
      BY <3>1, <3>2
    <3> QED
      BY <2>1, <3>1, <3>3 DEF Live
  <2> QED
    BY <2>2, <2>3
<1>8. CASE \/ (\E o \in {"ok", "lost", "torn"} : CommitterStore(o)) \/ CommitterCommit
           \/ CommitterDelta \/ CommitterPublish \/ CommitterExit
  <2>1. CASE \E o \in {"ok", "lost", "torn"} : CommitterStore(o)
    <3>1. PICK o \in {"ok", "lost", "torn"} : CommitterStore(o)
      BY <2>1
    <3> QED
      BY <1>3, <3>1 DEF CommitterStore, vars, pending, channel, Busy
  <2>2. CASE CommitterDelta
    BY <1>3, <2>2 DEF CommitterDelta, CommitDelta, pvars, channel, committer, Busy
  <2>3. CASE CommitterCommit \/ CommitterPublish \/ CommitterExit
    BY <1>3, <2>3 DEF CommitterCommit, CommitBegin, CommitterPublish, CommitterExit, vars, pending,
       channel, Busy
  <2> QED
    BY <1>8, <2>1, <2>2, <2>3
<1> QED
  BY <1>4, <1>5, <1>6, <1>7, <1>8, Steps DEF PCommitter

(* Values that no live plan touches stay so. *)
LEMMA SettledStays ==
  ASSUME JobInv, StoreInv, Marked, [PNext]_<<vars, pvars>>, ~NewPlan, NEW v, Settled(v)
  PROVE  Settled(v)'
<1>1. PICK k \in {0, 1} : \A i \in DOMAIN flight' :
        i + k \in DOMAIN flight /\ flight'[i] = flight[i + k] /\ (Live(i)' => Live(i + k))
  BY FlightMoves
<1> QED
  BY <1>1 DEF Settled, Touches

(* What the store writes, for the history. *)
LEMMA StoreGives ==
  ASSUME JobInv, StoreInv, Marked, NEW o \in {"ok", "lost", "torn"}, CommitterStore(o)
  PROVE  LET ds == Head(flight).deltas IN
         /\ cpc = "held" /\ Busy /\ 1 \in DOMAIN flight /\ Head(flight) = flight[1] /\ Live(1)
         /\ ds \in Seq(Delta) /\ HasLast(ds)
         /\ o = "lost" => UNCHANGED <<stored, unsure, effect>>
         /\ o # "lost" => stored' = Written(stored, ds)
         /\ \A v \in Values : v \in unsure /\ ~Touches(ds, v) => v \in unsure'
         /\ o = "torn" => unsure \subseteq unsure'
         /\ o # "lost" => \A w \in Writers : effect'[w] = effect[w] \cup
              {v \in ValuesOf(w) : Sets(ds, v, job[w].to) \/ (Touches(ds, v) /\ w \in held /\ v \in unsure)}
         /\ UNCHANGED <<held, job, wpc>>
<1> DEFINE ds == Head(flight).deltas
           touched == {ds[n].v : n \in DOMAIN ds}
<1>0. JobTypes /\ SetTypes /\ Aligned
  BY DEF JobInv, StoreInv
<1>1. /\ cpc = "held" /\ Head(flight).gen = gen
      /\ o = "lost" => UNCHANGED <<stored, unsure, effect>>
      /\ o # "lost" => stored' = Written(stored, ds)
      /\ o = "ok" => unsure' = unsure \ touched
      /\ o = "torn" => unsure' = unsure \cup touched
      /\ o # "lost" => effect' = [w \in Writers |-> effect[w] \cup
           {v \in ValuesOf(w) \cap touched : \/ \E n \in DOMAIN ds : ds[n] = [v |-> v, to |-> job[w].to]
                                             \/ w \in held /\ v \in unsure}]
      /\ UNCHANGED <<held, job, wpc>>
  BY DEF CommitterStore, writer
<1>2. Busy /\ flight # <<>>
  BY <1>0, <1>1 DEF Aligned, Busy, JobTypes, SetTypes
<1>3. /\ Head(flight) = flight[1] /\ 1 \in DOMAIN flight /\ ds \in Seq(Delta)
      /\ \A n \in DOMAIN ds : ds[n] \in Delta
  BY <1>0, <1>2, OldestPlan
<1>4. Live(1) /\ HasLast(ds)
  BY <1>1, <1>3 DEF Live, Marked, PlanOf
<1> HIDE DEF ds
<1>5. \A v : v \in touched <=> Touches(ds, v)
  BY DEF Touches
<1>6. \A v, to : (\E n \in DOMAIN ds : ds[n] = [v |-> v, to |-> to]) <=> Sets(ds, v, to)
  <2>1. \A n \in DOMAIN ds : \A v, to : ds[n] = [v |-> v, to |-> to] <=> ds[n].v = v /\ ds[n].to = to
    BY <1>3 DEF Delta
  <2> QED
    BY <2>1 DEF Sets
<1>7. \A v, to : Sets(ds, v, to) => Touches(ds, v)
  BY DEF Sets, Touches
<1> HIDE DEF touched
<1>8. ASSUME o # "lost", NEW w \in Writers
      PROVE  effect'[w] = effect[w] \cup
        {v \in ValuesOf(w) : Sets(ds, v, job[w].to) \/ (Touches(ds, v) /\ w \in held /\ v \in unsure)}
  <2>1. effect'[w] = effect[w] \cup
          {v \in ValuesOf(w) \cap touched : \/ \E n \in DOMAIN ds : ds[n] = [v |-> v, to |-> job[w].to]
                                            \/ w \in held /\ v \in unsure}
    BY <1>1, <1>8
  <2> QED
    BY <1>5, <1>6, <1>7, <2>1
<1>9. \A v \in Values : v \in unsure /\ ~Touches(ds, v) => v \in unsure'
  BY <1>1, <1>5
<1> QED
  BY <1>1, <1>2, <1>3, <1>4, <1>8, <1>9 DEF ds

(* The history grows, and doubt about a value stays until a plan touches it. *)
LEMMA DoubtStays ==
  ASSUME JobInv, StoreInv, Shown, Marked, [PNext]_<<vars, pvars>>,
         NEW w \in Writers, wpc[w] # "new"
  PROVE  /\ effect[w] \subseteq effect'[w]
         /\ \A v \in Values : v \in unsure /\ Settled(v) => v \in unsure'
<1>1. CASE \E o \in {"ok", "lost", "torn"} : CommitterStore(o)
  <2>1. PICK o \in {"ok", "lost", "torn"} : CommitterStore(o)
    BY <1>1
  <2>2. /\ 1 \in DOMAIN flight /\ Head(flight) = flight[1] /\ Live(1)
        /\ \A v \in Values : v \in unsure /\ ~Touches(Head(flight).deltas, v) => v \in unsure'
        /\ o = "lost" => effect' = effect
    BY <2>1, StoreGives
  <2>3. o # "lost" => effect[w] \subseteq effect'[w]
    BY <2>1, StoreGives
  <2>4. \A v : Settled(v) => ~Touches(Head(flight).deltas, v)
    BY <2>2 DEF Settled
  <2> QED
    BY <2>2, <2>3, <2>4
<1>2. CASE \E x \in Writers : Submit(x)
  <2>1. PICK x \in Writers : Submit(x)
    BY <1>2
  <2>2. x # w /\ unsure' = unsure /\ \E e : effect' = [effect EXCEPT ![x] = e]
    BY <2>1 DEF Submit
  <2> QED
    BY <2>2 DEF Shown
<1>3. CASE ~((\E o \in {"ok", "lost", "torn"} : CommitterStore(o)) \/ \E x \in Writers : Submit(x))
  <2>1. UNCHANGED <<effect, unsure>>
    BY <1>3, Steps, OtherSteps, PlannerWrites, CommitterWrites, CommitterRest DEF redis
  <2> QED
    BY <2>1
<1> QED
  BY <1>1, <1>2, <1>3

LEMMA ShownStep ==
  ASSUME JobInv, StoreInv, Asked, Shown, Marked, [PNext]_<<vars, pvars>>
  PROVE  Shown'
<1>0. JobTypes /\ SetTypes
  BY DEF JobInv, StoreInv
<1>1. \A x \in Writers : wpc[x] # "new" => job'[x] = job[x]
  BY <1>0, JobStays
<1>2. CASE \E x \in Writers : Submit(x)
  <2>1. PICK x \in Writers : Submit(x)
    BY <1>2
  <2>2. PICK s \in Scripts : LET to == IF s.op = "add" THEN [exp |-> now + s.ttl, why |-> WhyOf[x]] ELSE Absent IN
          /\ job' = [job EXCEPT ![x] = [vals |-> s.vals, to |-> to]]
          /\ effect' = [effect EXCEPT ![x] = {v \in ToSet(s.vals) : stored[v] = to}]
    BY <2>1 DEF Submit
  <2> DEFINE to == IF s.op = "add" THEN [exp |-> now + s.ttl, why |-> WhyOf[x]] ELSE Absent
  <2>3. /\ job'[x].vals = s.vals /\ job'[x].to = to
        /\ effect' = [effect EXCEPT ![x] = {v \in ToSet(s.vals) : stored[v] = to}]
    BY <1>0, <2>2 DEF SetTypes
  <2>4. stored' = stored /\ \A y \in Writers \ {x} : job'[y] = job[y] /\ wpc'[y] = wpc[y]
    BY <1>0, <2>1 DEF Submit, Return, JobTypes, SetTypes
  <2> HIDE DEF to
  <2>5. ToSet(s.vals) \subseteq Values
    <3>1. s.vals \in Seq(Values)
      BY PipelineAssumption DEF Script
    <3> QED
      BY <3>1, ToSetType
  <2>6. effect' \in [Writers -> SUBSET Values]
    BY <2>3, <2>5 DEF Shown
  <2>7. ASSUME NEW w \in Writers, wpc'[w] # "new", NEW v \in ToSet(job'[w].vals), stored'[v] = job'[w].to
        PROVE  v \in effect'[w]
    <3>1. CASE w = x
      BY <2>3, <2>4, <2>7, <3>1 DEF Shown
    <3>2. CASE w # x
      BY <2>3, <2>4, <2>7, <3>2 DEF Shown, ValuesOf
    <3> QED
      BY <3>1, <3>2
  <2> QED
    BY <2>6, <2>7 DEF Shown, ValuesOf
<1>3. CASE \E o \in {"ok", "lost", "torn"} : CommitterStore(o)
  <2> DEFINE ds == Head(flight).deltas
  <2>1. PICK o \in {"ok", "lost", "torn"} : CommitterStore(o)
    BY <1>3
  <2>2. /\ ds \in Seq(Delta) /\ HasLast(ds) /\ UNCHANGED <<job, wpc>>
        /\ o = "lost" => UNCHANGED <<stored, effect>>
        /\ o # "lost" => stored' = Written(stored, ds)
    BY <2>1, StoreGives
  <2>3. o # "lost" => \A w \in Writers : effect'[w] = effect[w] \cup
           {v \in ValuesOf(w) : Sets(ds, v, job[w].to) \/ (Touches(ds, v) /\ w \in held /\ v \in unsure)}
    BY <2>1, StoreGives
  <2> HIDE DEF ds
  <2>4. CASE o = "lost"
    BY <2>2, <2>4 DEF Shown, ValuesOf
  <2>5. CASE o # "lost"
    <3>1. \A w \in Writers : ValuesOf(w) \subseteq Values
      BY <1>0, ToSetType DEF ValuesOf, SetTypes
    <3>2. effect' \in [Writers -> SUBSET Values]
      <4>1. effect' = [w \in Writers |-> effect'[w]]
        BY <2>1, <2>5 DEF CommitterStore
      <4>2. \A w \in Writers : effect'[w] \in SUBSET Values
        BY <2>3, <2>5, <3>1 DEF Shown
      <4> QED
        BY <4>1, <4>2
    <3>3. ASSUME NEW w \in Writers, wpc[w] # "new", NEW v \in ValuesOf(w), stored'[v] = job[w].to
          PROVE  v \in effect'[w]
      <4>0. v \in Values
        BY <3>1
      <4>1. CASE Touches(ds, v)
        <5>1. PICK n \in DOMAIN ds : ds[n].v = v /\ LastFor(ds, n)
          BY <2>2, <4>0, <4>1 DEF HasLast
        <5>2. stored'[v] = ds[n].to
          BY <2>2, <2>5, <4>0, <5>1, WrittenGives
        <5>3. Sets(ds, v, job[w].to)
          BY <3>3, <5>1, <5>2 DEF Sets
        <5> QED
          BY <2>3, <2>5, <5>3
      <4>2. CASE ~Touches(ds, v)
        <5>1. stored'[v] = stored[v]
          BY <2>2, <2>5, <4>0, <4>2, WrittenGives DEF Touches
        <5>2. v \in effect[w]
          BY <3>3, <5>1 DEF Shown
        <5> QED
          BY <2>3, <2>5, <5>2
      <4> QED
        BY <4>1, <4>2
    <3> QED
      BY <2>2, <3>2, <3>3 DEF Shown, ValuesOf
  <2> QED
    BY <2>4, <2>5
<1>4. CASE ~((\E o \in {"ok", "lost", "torn"} : CommitterStore(o)) \/ \E x \in Writers : Submit(x))
  <2>1. UNCHANGED <<effect, stored, job>>
    BY <1>4, Steps, OtherSteps, PlannerWrites, CommitterWrites, CommitterRest, WriterWrites, RestWrites
       DEF redis, writer
  <2>2. \A x \in Writers : wpc[x] = "new" => wpc'[x] = "new"
    <3>1. CASE \E w \in Writers : Writer(w) \/ Deadline(w)
      <4>1. PICK w \in Writers : Writer(w) \/ Deadline(w)
        BY <3>1
      <4> QED
        BY <1>0, <1>4, <4>1, WriterWrites DEF SubmitCount, SubmitSend, SubmitRetract, SubmitReturn, Return,
           JobTypes
    <3>2. CASE ~\E w \in Writers : Writer(w) \/ Deadline(w)
      BY <3>2, Steps, PlannerWrites, CommitterWrites, RestWrites DEF writer
    <3> QED
      BY <3>1, <3>2
  <2> QED
    BY <2>1, <2>2 DEF Shown, ValuesOf
<1> QED
  BY <1>2, <1>3, <1>4

-----------------------------------------------------------------------------
(* The marks of the plans *)

(* A plan keeps its marks when nothing about plans changes. *)
LEMMA PlanKept ==
  ASSUME NEW i \in DOMAIN flight, PlanOf(i), UNCHANGED <<flight, gen, pend, pendSeq>>,
         \A v \in Values : Reached(v) => Reached(v)'
  PROVE  PlanOf(i)'
<1>1. Live(i)' = Live(i) /\ \A j \in DOMAIN flight : Live(j)' = Live(j)
  BY DEF Live
<1>2. HasLast(flight'[i].deltas) <=> HasLast(flight[i].deltas)
  OBVIOUS
<1>3. ASSUME Live(i), NEW v \in Values, Touches(flight[i].deltas, v)
      PROVE  (pend'[v] # Unplanned /\ pend'[v].seq >= flight'[i].seq) \/ (i = 1 /\ Reached(v)')
  BY <1>3 DEF PlanOf
<1> QED
  BY <1>1, <1>2, <1>3 DEF PlanOf

(* The fields of the plans and outcomes, for arithmetic. *)
LEMMA MarkTypes ==
  ASSUME SetTypes
  PROVE  /\ \A i \in DOMAIN flight : /\ i \in Nat \ {0} /\ flight[i] \in Plan
                                     /\ flight[i].seq \in Nat /\ flight[i].gen \in Nat
                                     /\ flight[i].deltas \in Seq(Delta)
         /\ \A v \in Values : pend[v] # Unplanned => pend[v].seq \in Nat
         /\ pendSeq \in Nat /\ gen \in Nat /\ done \in Nat
<1>1. \A i \in DOMAIN flight : i \in Nat \ {0} /\ flight[i] \in Plan
  BY DEF SetTypes
<1>2. \A v \in Values : pend[v] # Unplanned => pend[v] \in [to : Slot, seq : Nat]
  BY DEF SetTypes
<1>3. \A v \in Values : pend[v] # Unplanned => pend[v].seq \in Nat
  BY <1>2
<1> QED
  BY <1>1, <1>3, PlanFields DEF SetTypes

(* A new plan is the last one. *)
LEMMA NewPlanGives ==
  ASSUME JobInv, StoreInv, NewPlan
  PROVE  LET kept == {x \in ToSet(batch) : fate'[x] = "none"}
             p == [deltas |-> applied, seq |-> pendSeq + 1, hash |-> acc, gen |-> gen]
         IN
         /\ mu = "plan" /\ ppc = "plan" /\ ppc' = "refuse" /\ todo = <<>> /\ applied # <<>>
         /\ UNCHANGED <<gen, cpc, held, job, wpc, unsure, effect, stored, entries>>
         /\ pendSeq' = pendSeq + 1
         /\ \A v \in Values : pend'[v] = IF over[v] # Unplanned
                                         THEN [to |-> over[v], seq |-> pendSeq + 1] ELSE pend[v]
         /\ \A i \in DOMAIN flight : /\ i \in DOMAIN flight' /\ flight'[i] = flight[i]
                                     /\ OwnerOf(i)' = OwnerOf(i) /\ i <= Len(flight) /\ i \in Nat
         /\ \A i \in DOMAIN flight' :
              \/ i \in DOMAIN flight
              \/ /\ i = Len(flight) + 1 /\ flight'[i] = p /\ OwnerOf(i)' = kept
                 /\ flight'[i].deltas = applied /\ flight'[i].seq = pendSeq + 1 /\ flight'[i].gen = gen
         /\ Len(flight) \in Nat
<1> DEFINE kept == {x \in ToSet(batch) : fate'[x] = "none"}
           p == [deltas |-> applied, seq |-> pendSeq + 1, hash |-> acc, gen |-> gen]
<1>0. JobTypes /\ Locks /\ SetTypes /\ Aligned
  BY DEF JobInv, StoreInv
<1>1. /\ mu = "plan" /\ ppc' = "refuse" /\ todo = <<>> /\ applied # <<>>
      /\ owners' = Append(owners, kept) /\ flight' = Append(flight, p)
      /\ UNCHANGED <<gen, cpc, held, job, wpc, unsure, effect, stored, entries>>
      /\ pendSeq' = pendSeq + 1
      /\ \A v \in Values : pend'[v] = IF over[v] # Unplanned
                                      THEN [to |-> over[v], seq |-> pendSeq + 1] ELSE pend[v]
  BY DEF NewPlan, PlannerPlanned, PlanNothing, PlanEnd, committed, committer, writer, redis
<1>2. ppc = "plan"
  BY <1>0, <1>1 DEF Locks
<1>3. p \in Plan /\ kept \in SUBSET Writers
  BY <1>0, ToSetType DEF SetTypes, Plan, JobTypes
<1>4. p.deltas = applied /\ p.seq = pendSeq + 1 /\ p.gen = gen
  OBVIOUS
<1>5. Len(flight) \in Nat
  BY <1>0 DEF SetTypes
<1> HIDE DEF p, kept
<1>6. /\ \A i \in DOMAIN flight : /\ i \in DOMAIN flight' /\ flight'[i] = flight[i]
                                  /\ OwnerOf(i)' = OwnerOf(i) /\ i <= Len(flight) /\ i \in Nat
      /\ \A i \in DOMAIN flight' :
           i \in DOMAIN flight \/ (i = Len(flight) + 1 /\ flight'[i] = p /\ OwnerOf(i)' = kept)
  BY <1>0, <1>1, <1>3, FlightGrows
<1>7. \A i \in DOMAIN flight' :
        \/ i \in DOMAIN flight
        \/ /\ i = Len(flight) + 1 /\ flight'[i] = p /\ OwnerOf(i)' = kept
           /\ flight'[i].deltas = applied /\ flight'[i].seq = pendSeq + 1 /\ flight'[i].gen = gen
  BY <1>4, <1>6
<1> QED
  BY <1>1, <1>2, <1>5, <1>6, <1>7 DEF p, kept

(* A new plan marks its values. *)
LEMMA MarkedNew ==
  ASSUME JobInv, StoreInv, Marked, Drawn, NewPlan
  PROVE  Marked'
<1>0. JobTypes /\ Locks /\ SetTypes /\ Aligned
  BY DEF JobInv, StoreInv
<1>1. /\ mu = "plan" /\ ppc = "plan" /\ applied # <<>>
      /\ UNCHANGED <<gen, cpc, held>> /\ pendSeq' = pendSeq + 1
      /\ \A v \in Values : pend'[v] = IF over[v] # Unplanned
                                      THEN [to |-> over[v], seq |-> pendSeq + 1] ELSE pend[v]
      /\ \A i \in DOMAIN flight : i \in DOMAIN flight' /\ flight'[i] = flight[i]
                                  /\ i <= Len(flight) /\ i \in Nat
      /\ \A i \in DOMAIN flight' :
           \/ i \in DOMAIN flight
           \/ /\ i = Len(flight) + 1
              /\ flight'[i].deltas = applied /\ flight'[i].seq = pendSeq + 1 /\ flight'[i].gen = gen
      /\ Len(flight) \in Nat
  BY NewPlanGives
<1>2. HasLast(applied) /\ \A v : Touches(applied, v) => over[v] # Unplanned
  BY <1>1 DEF Drawn, Touches
<1>3. \A v \in Values : over[v] # Unplanned => pend'[v] # Unplanned /\ pend'[v].seq = pendSeq + 1
  <2>1. ASSUME NEW v \in Values, over[v] # Unplanned
        PROVE  pend'[v] # Unplanned /\ pend'[v].seq = pendSeq + 1
    <3>1. pend'[v] = [to |-> over[v], seq |-> pendSeq + 1]
      BY <1>1, <2>1
    <3>2. over[v] \in Slot /\ pendSeq + 1 \in Nat
      BY <1>0, <2>1 DEF SetTypes
    <3>3. [to |-> over[v], seq |-> pendSeq + 1] # Unplanned
      BY <3>2, SetAssumption
    <3> QED
      BY <3>1, <3>3
  <2> QED
    BY <2>1
<1>4. \A v : ~Reached(v)
  BY <1>1 DEF Reached
<1>5. ASSUME NEW i \in DOMAIN flight', i \notin DOMAIN flight
      PROVE  PlanOf(i)'
  <2>1. /\ i = Len(flight) + 1
        /\ flight'[i].deltas = applied /\ flight'[i].seq = pendSeq + 1 /\ flight'[i].gen = gen
    BY <1>1, <1>5
  <2>2. \A j \in DOMAIN flight' : ~(i < j)
    BY <1>1, <2>1
  <2>3. pendSeq \in Nat /\ gen \in Nat
    BY <1>0 DEF SetTypes
  <2>4. HasLast(flight'[i].deltas)
    BY <1>2, <2>1
  <2>5. \A v \in Values : Touches(flight'[i].deltas, v) => pend'[v] # Unplanned /\ pend'[v].seq >= flight'[i].seq
    BY <1>2, <1>3, <2>1, <2>3
  <2> QED
    BY <1>1, <2>1, <2>2, <2>3, <2>4, <2>5 DEF PlanOf
<1>6. ASSUME NEW i \in DOMAIN flight
      PROVE  PlanOf(i)'
  <2>1. PlanOf(i) /\ flight'[i] = flight[i] /\ i \in DOMAIN flight'
    BY <1>1 DEF Marked
  <2>2. flight[i].seq \in Nat /\ pendSeq \in Nat /\ gen \in Nat
    BY <1>0, MarkTypes
  <2>3. CASE Live(i)
    <3>1. flight'[i].seq <= pendSeq'
      BY <1>1, <2>1, <2>2, <2>3 DEF PlanOf
    <3>2. \A j \in DOMAIN flight' : i < j /\ Live(j)' => flight'[i].seq < flight'[j].seq
      <4>1. ASSUME NEW j \in DOMAIN flight', i < j, Live(j)' PROVE flight'[i].seq < flight'[j].seq
        <5>1. CASE j \in DOMAIN flight
          BY <1>1, <2>1, <2>3, <4>1, <5>1 DEF PlanOf, Live
        <5>2. CASE j \notin DOMAIN flight
          BY <1>1, <2>1, <2>2, <2>3, <5>2 DEF PlanOf
        <5> QED
          BY <5>1, <5>2
      <4> QED
        BY <4>1
    <3>3. ASSUME NEW v \in Values, Touches(flight'[i].deltas, v)
          PROVE  pend'[v] # Unplanned /\ pend'[v].seq >= flight'[i].seq
      <4>1. pend[v] # Unplanned /\ pend[v].seq >= flight[i].seq
        BY <1>4, <2>1, <2>3, <3>3 DEF PlanOf
      <4>2. CASE over[v] # Unplanned
        BY <1>3, <2>1, <2>2, <2>3, <4>2 DEF PlanOf
      <4>3. CASE over[v] = Unplanned
        BY <1>1, <2>1, <4>1, <4>3
      <4> QED
        BY <4>2, <4>3
    <3> QED
      BY <1>1, <2>1, <3>1, <3>2, <3>3 DEF PlanOf
  <2>4. CASE ~Live(i)
    BY <1>1, <2>1, <2>4 DEF PlanOf, Live
  <2> QED
    BY <2>3, <2>4
<1>7. cpc' \in {"stored", "refused", "commit"} => Live(1)'
  <2>1. ASSUME cpc \in {"stored", "refused", "commit"} PROVE 1 \in DOMAIN flight /\ Live(1)
    <3>1. Busy /\ flight # <<>>
      BY <1>0, <2>1 DEF Aligned, Busy, JobTypes, SetTypes
    <3> QED
      BY <1>0, <2>1, <3>1, OldestPlan DEF Marked
  <2> QED
    BY <1>1, <2>1 DEF Live
<1> QED
  BY <1>5, <1>6, <1>7 DEF Marked

(* The last plan is dropped, its marks stay. *)
LEMMA MarkedDrop ==
  ASSUME JobInv, StoreInv, Marked, PlannerDrop
  PROVE  Marked'
<1>0. JobTypes /\ Locks /\ Channel /\ SetTypes /\ Aligned
  BY DEF JobInv, StoreInv
<1>1. /\ ppc = "send" /\ flight' = Front(flight)
      /\ UNCHANGED <<gen, pend, pendSeq, mu, done, cpc, Busy>>
  BY DEF PlannerDrop, pending, committer, Busy
<1>2. \A i \in DOMAIN flight' : i \in DOMAIN flight /\ flight'[i] = flight[i]
  BY <1>0, FlightDrops
<1>3. Busy => Head(flight') = Head(flight) /\ 1 \in DOMAIN flight'
  <2>1. ASSUME Busy PROVE 1 \in DOMAIN flight'
    <3>1. flight \in Seq(Plan) /\ Len(flight) > 1
      BY <1>0, <1>1, <2>1 DEF JobTypes, SetTypes, Channel, Aligned
    <3>2. DOMAIN Front(flight) = 1..(Len(flight) - 1) /\ Len(flight) \in Nat
      BY <3>1, FrontGives
    <3> QED
      BY <1>1, <3>1, <3>2
  <2> QED
    BY <1>0, <2>1, OldestStays DEF PPlanner
<1>4. \A v \in Values : Reached(v) => Reached(v)'
  <2>1. mu = "commit" => Head(flight') = Head(flight)
    BY <1>0, <1>3 DEF Locks, Busy
  <2> QED
    BY <1>1, <2>1 DEF Reached
<1>5. ASSUME NEW i \in DOMAIN flight' PROVE PlanOf(i)'
  <2>1. PlanOf(i) /\ flight'[i] = flight[i]
    BY <1>2 DEF Marked
  <2>2. \A j \in DOMAIN flight' : j \in DOMAIN flight /\ flight'[j] = flight[j] /\ (Live(j)' <=> Live(j))
    BY <1>1, <1>2 DEF Live
  <2>3. ASSUME Live(i), NEW v \in Values, Touches(flight[i].deltas, v)
        PROVE  (pend'[v] # Unplanned /\ pend'[v].seq >= flight'[i].seq) \/ (i = 1 /\ Reached(v)')
    BY <1>1, <1>4, <2>1, <2>3 DEF PlanOf
  <2> QED
    BY <1>1, <2>1, <2>2, <2>3 DEF PlanOf
<1>6. cpc' \in {"stored", "refused", "commit"} => Live(1)'
  <2>1. cpc \in {"stored", "refused", "commit"} => Busy /\ Live(1)
    BY DEF Busy, Marked
  <2> QED
    BY <1>1, <1>2, <1>3, <2>1 DEF Live
<1> QED
  BY <1>5, <1>6 DEF Marked

(* The oldest plan is gone. *)
LEMMA MarkedTail ==
  ASSUME JobInv, StoreInv, Marked, CommitterStale \/ CommitterCommitted \/ CommitterAbort
  PROVE  Marked'
<1>0. JobTypes /\ Locks /\ SetTypes /\ Aligned
  BY DEF JobInv, StoreInv
<1>1. /\ flight' = Tail(flight) /\ cpc' \in {"idle", "publish"} /\ Busy
      /\ \/ UNCHANGED <<gen, pend, pendSeq>>
         \/ gen' = gen /\ pend = NothingPlanned
         \/ gen' = gen + 1
  BY <1>0 DEF CommitterStale, SkipStale, CommitterCommitted, CommitEnd, CommitterAbort, Abort,
     Locks, Busy, pending
<1>2. \A i \in DOMAIN flight' : /\ i \in Nat \ {0} /\ i + 1 \in DOMAIN flight /\ i + 1 # 1
                                /\ flight'[i] = flight[i + 1]
  <2>1. flight \in Seq(Plan) /\ Len(flight) > 0
    BY <1>0, <1>1 DEF SetTypes, Aligned, JobTypes
  <2> QED
    BY <1>1, <2>1, TailGives
<1>3. ASSUME NEW i \in DOMAIN flight' PROVE PlanOf(i)'
  <2>1. PlanOf(i + 1) /\ flight'[i] = flight[i + 1] /\ i + 1 # 1 /\ i + 1 \in DOMAIN flight
    BY <1>2 DEF Marked
  <2>2. gen \in Nat /\ flight[i + 1].gen \in Nat /\ flight[i + 1].gen <= gen
    BY <1>0, <2>1, MarkTypes DEF PlanOf
  <2>3. flight'[i].gen <= gen' /\ flight'[i].deltas # <<>> /\ HasLast(flight'[i].deltas)
    BY <1>1, <2>1, <2>2 DEF PlanOf
  <2>4. CASE Live(i)'
    <3>1. gen' = gen
      BY <1>1, <2>1, <2>2, <2>4 DEF Live
    <3>2. Live(i + 1)
      BY <2>1, <2>4, <3>1 DEF Live
    <3>3. \A v \in Values : Touches(flight[i + 1].deltas, v) =>
            pend[v] # Unplanned /\ pend[v].seq >= flight[i + 1].seq
      BY <2>1, <3>2 DEF PlanOf
    <3>4. pend # NothingPlanned
      <4>1. flight[i + 1].deltas \in Seq(Delta) /\ flight[i + 1].deltas # <<>>
        BY <1>0, <2>1, MarkTypes DEF PlanOf
      <4>2. 1 \in DOMAIN flight[i + 1].deltas /\ flight[i + 1].deltas[1] \in Delta
        BY <4>1
      <4>3. flight[i + 1].deltas[1].v \in Values
        BY <4>2, DeltaFields
      <4>4. Touches(flight[i + 1].deltas, flight[i + 1].deltas[1].v)
        BY <4>2 DEF Touches
      <4> QED
        BY <3>3, <4>3, <4>4 DEF NothingPlanned
    <3>5. UNCHANGED <<pend, pendSeq>>
      <4>1. gen # gen + 1
        BY <2>2
      <4> QED
        BY <1>1, <3>1, <3>4, <4>1
    <3>6. \A j \in DOMAIN flight' : i < j /\ Live(j)' => flight'[i].seq < flight'[j].seq
      <4>1. ASSUME NEW j \in DOMAIN flight', i < j, Live(j)' PROVE flight'[i].seq < flight'[j].seq
        <5>1. j + 1 \in DOMAIN flight /\ flight'[j] = flight[j + 1] /\ i + 1 < j + 1
          BY <1>2, <4>1
        <5>2. Live(j + 1)
          BY <3>1, <4>1, <5>1 DEF Live
        <5> QED
          BY <2>1, <3>2, <5>1, <5>2 DEF PlanOf
      <4> QED
        BY <4>1
    <3> QED
      BY <2>1, <2>3, <3>2, <3>3, <3>5, <3>6 DEF PlanOf
  <2>5. CASE ~Live(i)'
    BY <2>3, <2>5 DEF PlanOf
  <2> QED
    BY <2>4, <2>5
<1> QED
  BY <1>1, <1>3 DEF Marked

(* A delta is committed: the mark it takes away is its own. *)
LEMMA MarkedDelta ==
  ASSUME JobInv, StoreInv, Marked, CommitterDelta
  PROVE  Marked'
<1> DEFINE d == Head(flight).deltas[done + 1]
<1>0. JobTypes /\ Locks /\ SetTypes /\ Aligned
  BY DEF JobInv, StoreInv
<1>1. /\ mu = "commit" /\ mu' = "commit" /\ done' = done + 1
      /\ UNCHANGED <<flight, gen, pendSeq, cpc>>
      /\ pend' = IF pend[d.v] # Unplanned /\ pend[d.v].seq = Head(flight).seq
                 THEN [pend EXCEPT ![d.v] = Unplanned] ELSE pend
  BY DEF CommitterDelta, CommitDelta, OwnOutcome, pvars, committer
<1>2. cpc = "commit" /\ Busy /\ flight # <<>> /\ Live(1)
  BY <1>0, <1>1 DEF Locks, Aligned, Busy, JobTypes, SetTypes, Marked
<1>3. Head(flight) = flight[1] /\ 1 \in DOMAIN flight
  BY <1>0, <1>2, OldestPlan
<1>4. done \in Nat
  BY <1>0 DEF SetTypes
<1>5. \A v \in Values : (v = d.v => Reached(v)') /\ (Reached(v) => Reached(v)')
  <2>1. done + 1 \in 1..(done + 1) /\ 1..done \subseteq 1..(done + 1)
    BY <1>4
  <2> QED
    BY <1>1, <2>1 DEF Reached
<1> HIDE DEF d
<1>6. ASSUME NEW i \in DOMAIN flight PROVE PlanOf(i)'
  <2>1. PlanOf(i)
    BY DEF Marked
  <2>2. \A j \in DOMAIN flight : Live(j)' <=> Live(j)
    BY <1>1 DEF Live
  <2>3. ASSUME Live(i), NEW v \in Values, Touches(flight[i].deltas, v), ~(i = 1 /\ Reached(v)')
        PROVE  pend'[v] # Unplanned /\ pend'[v].seq >= flight[i].seq
    <3>1. pend[v] # Unplanned /\ pend[v].seq >= flight[i].seq
      BY <1>5, <2>1, <2>3 DEF PlanOf
    <3>2. pend'[v] = pend[v]
      <4>1. CASE v = d.v
        <5>1. i # 1 /\ i \in Nat \ {0} /\ flight[1].seq \in Nat /\ flight[i].seq \in Nat /\ pend[v].seq \in Nat
          BY <1>0, <1>3, <1>5, <2>3, <3>1, <4>1, MarkTypes
        <5>2. flight[1].seq < flight[i].seq
          BY <1>2, <1>3, <2>3, <5>1 DEF Marked, PlanOf
        <5>3. pend[v].seq # flight[1].seq
          BY <3>1, <5>1, <5>2
        <5> QED
          BY <1>1, <1>3, <4>1, <5>3
      <4>2. CASE v # d.v
        BY <1>0, <1>1, <4>2 DEF SetTypes
      <4> QED
        BY <4>1, <4>2
    <3> QED
      BY <3>1, <3>2
  <2> QED
    BY <1>1, <2>1, <2>2, <2>3 DEF PlanOf
<1> QED
  BY <1>1, <1>2, <1>6 DEF Marked, Live

LEMMA MarkedStep ==
  ASSUME JobInv, StoreInv, Marked, Drawn, [PNext]_<<vars, pvars>>
  PROVE  Marked'
<1>0. JobTypes /\ Locks /\ SetTypes /\ Aligned
  BY DEF JobInv, StoreInv
<1>1. ASSUME UNCHANGED <<flight, gen, pend, pendSeq, done>>, mu = "commit" => mu' = "commit"
      PROVE  \A i \in DOMAIN flight' : PlanOf(i)'
  <2>1. \A v \in Values : Reached(v) => Reached(v)'
    BY <1>1 DEF Reached
  <2> QED
    BY <1>1, <2>1, PlanKept DEF Marked
<1>2. CASE (\E w \in Writers : Writer(w) \/ Deadline(w)) \/ Rest
  <2>1. UNCHANGED <<flight, gen, pend, pendSeq, done, mu, cpc>>
    BY <1>2, OtherSteps DEF pending
  <2> QED
    BY <1>1, <2>1 DEF Marked, Live
<1>3. CASE NewPlan
  BY <1>3, MarkedNew
<1>4. CASE PlannerDrop
  BY <1>4, MarkedDrop
<1>5. CASE PPlanner /\ ~NewPlan /\ ~PlannerDrop
  <2>1. UNCHANGED <<flight, gen, pend, pendSeq, done, cpc>>
    BY <1>5, PlannerRest, PlannerWrites DEF committer
  <2>2. mu = "commit" => mu' = "commit"
    BY <1>5, PlannerWrites DEF PlannerPlan, PlanBatch, PlanBegin, PlannerPlanned, PlanNothing, PlanEnd,
       PlannerSweepPlan, PlanSweep
  <2> QED
    BY <1>1, <2>1, <2>2 DEF Marked, Live
<1>6. CASE CommitterStale \/ CommitterCommitted \/ CommitterAbort
  BY <1>6, MarkedTail
<1>7. CASE CommitterDelta
  BY <1>7, MarkedDelta
<1>8. CASE CommitterCommit
  <2>1. /\ cpc = "stored" /\ mu = "free" /\ UNCHANGED <<flight, gen, pend, pendSeq>>
    BY <1>8 DEF CommitterCommit, CommitBegin, pending
  <2>2. \A v \in Values : ~Reached(v)
    BY <2>1 DEF Reached
  <2>3. \A i \in DOMAIN flight' : PlanOf(i)'
    BY <2>1, <2>2, PlanKept DEF Marked
  <2> QED
    BY <2>1, <2>3 DEF Marked, Live
<1>9. CASE CommitterTake \/ CommitterPublish \/ CommitterExit
  <2>1. /\ UNCHANGED <<flight, gen, pend, pendSeq, done, mu>>
        /\ cpc' \notin {"stored", "refused", "commit"}
    BY <1>9 DEF CommitterTake, CommitterPublish, CommitterExit, vars, pending
  <2> QED
    BY <1>1, <2>1 DEF Marked
<1>10. CASE \E o \in {"ok", "lost", "torn"} : CommitterStore(o)
  <2>1. PICK o \in {"ok", "lost", "torn"} : CommitterStore(o)
    BY <1>10
  <2>2. UNCHANGED <<flight, gen, pend, pendSeq, done, mu>>
    BY <2>1 DEF CommitterStore, vars, pending
  <2>3. Live(1)
    BY <2>1, StoreGives
  <2> QED
    BY <1>1, <2>2, <2>3 DEF Marked, Live
<1> QED
  BY <1>2, <1>3, <1>4, <1>5, <1>6, <1>7, <1>8, <1>9, <1>10, Steps DEF PCommitter


-----------------------------------------------------------------------------
(* The deltas of a batch *)

(* plan() looks at one more job, and collects its deltas if it accepts it. *)
LEMMA ListedCheck ==
  ASSUME JobInv, SetTypes, Listed, PlannerCheck
  PROVE  Listed'
<1> DEFINE w == batch[idx]
<1>0. JobTypes
  BY DEF JobInv
<1>1. /\ ppc = "check" /\ idx <= Len(batch) /\ idx' = idx + 1 /\ UNCHANGED <<batch, job>>
      /\ \/ fate[w] = "none" /\ deltas' = deltas \o JobDeltas(w) /\ fate' = fate
         \/ deltas' = deltas /\ fate' = [fate EXCEPT ![w] = IF @ = "none" THEN "full" ELSE @]
  BY DEF PlannerCheck, writer
<1>2. idx \in DOMAIN batch /\ w \in Writers /\ idx \in Nat /\ DOMAIN batch \subseteq Nat
  BY <1>0, <1>1 DEF JobTypes
<1>3. Checked' = Checked \cup {w}
  <2>1. {k \in DOMAIN batch : k < idx + 1} = {k \in DOMAIN batch : k < idx} \cup {idx}
    BY <1>2
  <2> QED
    BY <1>1, <2>1 DEF Checked
<1>4. \A x \in Checked : x \in Writers
  BY <1>0, CheckedType
<1> HIDE DEF w
<1>5. \A x \in Checked : fate[x] = "none" => \A v \in ValuesOf(x) : Sets(deltas, v, job[x].to)
  BY <1>1 DEF Listed
<1>6. CASE fate[w] = "none" /\ deltas' = deltas \o JobDeltas(w) /\ fate' = fate
  <2>1. deltas \in Seq(Delta) /\ JobDeltas(w) \in Seq(Delta)
    BY <1>2, JobDeltasType DEF SetTypes
  <2>2. \A v \in ValuesOf(w) : Sets(JobDeltas(w), v, job[w].to)
    BY DEF ValuesOf, ToSet, Sets, JobDeltas
  <2>3. \A x \in Checked \cup {w} : fate[x] = "none" =>
          \A v \in ValuesOf(x) : Sets(deltas \o JobDeltas(w), v, job[x].to)
    BY <1>5, <2>1, <2>2, SetsConcat
  <2> QED
    BY <1>1, <1>3, <1>6, <2>3 DEF Listed, ValuesOf
<1>7. CASE deltas' = deltas /\ fate' = [fate EXCEPT ![w] = IF @ = "none" THEN "full" ELSE @]
  <2>1. fate'[w] # "none" /\ \A x \in Writers \ {w} : fate'[x] = fate[x]
    BY <1>0, <1>2, <1>7 DEF JobTypes
  <2> QED
    BY <1>1, <1>3, <1>4, <1>5, <1>7, <2>1 DEF Listed, ValuesOf
<1> QED
  BY <1>1, <1>6, <1>7

LEMMA ListedStep ==
  ASSUME JobInv, SetTypes, Asked, Listed, [PNext]_<<vars, pvars>>
  PROVE  Listed'
<1>0. JobTypes
  BY DEF JobInv
<1>1. CASE PlannerStart
  <2>1. idx' = 1 /\ batch' = batch
    BY <1>1 DEF PlannerStart
  <2>2. \A k \in DOMAIN batch : ~(k < 1)
    BY <1>0 DEF JobTypes
  <2>3. Checked' = {}
    BY <2>1, <2>2 DEF Checked
  <2> QED
    BY <2>3 DEF Listed
<1>2. CASE PlannerCheck
  BY <1>2, ListedCheck
<1>3. CASE ppc' # "check"
  BY <1>3 DEF Listed
<1>4. CASE ppc' = "check" /\ ~(PlannerStart \/ PlannerCheck)
  <2>1. ppc = "check" /\ UNCHANGED <<batch, idx, fate, deltas>> /\ Checked' = Checked
    BY <1>4, CheckStays
  <2>2. \A x \in Checked : job'[x] = job[x]
    BY <1>0, <2>1, CheckedType, SentStays DEF Desk
  <2> QED
    BY <2>1, <2>2 DEF Listed, ValuesOf
<1> QED
  BY <1>1, <1>2, <1>3, <1>4

-----------------------------------------------------------------------------
(* The draft of a plan *)

(* What is there stays there as long as no plan is made. *)
LEMMA ThereStays ==
  ASSUME JobInv, StoreInv, Shown, Marked, [PNext]_<<vars, pvars>>, ~NewPlan,
         NEW w \in Writers, wpc[w] # "new", NEW v \in Values, There(w, v)
  PROVE  There(w, v)'
<1>1. effect[w] \subseteq effect'[w]
  BY DoubtStays
<1>2. v \in unsure /\ Settled(v) => v \in unsure' /\ Settled(v)'
  BY DoubtStays, SettledStays
<1> QED
  BY <1>1, <1>2 DEF There

(* The jobs of a batch have been sent, and stay as they are. *)
LEMMA BatchStays ==
  ASSUME JobInv, StoreInv, Asked, [PNext]_<<vars, pvars>>, ppc \in {"plan", "answer"},
         NEW w \in ToSet(batch)
  PROVE  w \in Writers /\ wpc[w] # "new" /\ job'[w] = job[w] /\ ValuesOf(w) \subseteq Values
<1>1. w \in Desk
  BY DEF Desk
<1>2. w \in Writers /\ job'[w] = job[w]
  BY <1>1, SentStays DEF StoreInv
<1>3. wpc[w] # "new"
  BY <1>1 DEF JobInv, Open
<1>4. ValuesOf(w) \subseteq Values
  BY <1>2, ToSetType DEF StoreInv, SetTypes, ValuesOf
<1> QED
  BY <1>2, <1>3, <1>4

(* An addition of what memory has and no plan touches is there already. *)
LEMMA SkipFinds ==
  ASSUME JobInv, StoreInv, Shown, Marked, mu = "plan", NEW w \in Writers, wpc[w] # "new",
         NEW v \in ValuesOf(w), v \in Values, pend[v] = Unplanned, entries[v] = job[w].to
  PROVE  There(w, v)
<1>0. JobTypes /\ Locks /\ SetTypes /\ Aligned /\ Committing /\ MemoryMatchesStore
  BY DEF JobInv, StoreInv
<1>1. Settled(v)
  BY DEF Settled, Marked, PlanOf, Reached
<1>2. CASE v \notin unsure
  <2>1. cpc # "commit"
    BY <1>0 DEF Locks
  <2>2. CASE cpc = "stored"
    <3>1. flight # <<>> /\ Live(1)
      BY <1>0, <2>2 DEF Aligned, Busy, JobTypes, SetTypes, Marked
    <3>2. Head(flight) = flight[1] /\ 1 \in DOMAIN flight
      BY <1>0, <3>1, OldestPlan
    <3>3. \A n \in DOMAIN Head(flight).deltas : Head(flight).deltas[n].v # v
      BY <1>1, <3>1, <3>2 DEF Settled, Touches
    <3>4. entries[v] = stored[v]
      BY <1>0, <1>2, <2>2, <3>3 DEF Committing
    <3> QED
      BY <3>4 DEF Shown, There
  <2>3. CASE cpc # "stored"
    <3>1. entries[v] = stored[v]
      BY <1>0, <1>2, <2>1, <2>3 DEF MemoryMatchesStore
    <3> QED
      BY <3>1 DEF Shown, There
  <2> QED
    BY <2>2, <2>3
<1> QED
  BY <1>1, <1>2 DEF There

(* Plan starts: every accepted delta is still to do. *)
LEMMA DrawnBegins ==
  ASSUME JobInv, StoreInv, Listed, PlannerPlan \/ PlannerSweepPlan
  PROVE  Drawn'
<1>0. JobTypes
  BY DEF JobInv
<1>1. applied' = <<>> /\ UNCHANGED <<fate, job>>
  BY DEF PlannerPlan, PlannerSweepPlan, PlanBatch, PlanSweep, PlanBegin, planning, writer
<1>2. HasLast(applied') /\ DOMAIN applied' = {}
  BY <1>1 DEF HasLast, Touches
<1>3. CASE PlannerPlan
  <2>1. todo' = deltas /\ batch' = batch /\ ppc = "check" /\ idx > Len(batch)
    BY <1>3 DEF PlannerPlan, PlanBatch, PlanBegin, planning
  <2>2. ToSet(batch) \subseteq Checked
    <3>1. \A k \in DOMAIN batch : k < idx
      BY <1>0, <2>1 DEF JobTypes
    <3> QED
      BY <3>1 DEF Checked, ToSet
  <2>3. \A w \in ToSet(batch) : fate[w] = "none" => \A v \in ValuesOf(w) : Sets(deltas, v, job[w].to)
    BY <2>1, <2>2 DEF Listed
  <2> QED
    BY <1>1, <1>2, <2>1, <2>3 DEF Drawn, ValuesOf
<1>4. CASE PlannerSweepPlan
  <2>1. ToSet(batch') = {}
    BY <1>4, ToSetNone DEF PlannerSweepPlan
  <2> QED
    BY <1>2, <2>1 DEF Drawn
<1> QED
  BY <1>3, <1>4

(* Plan looks at one more delta: it draws it, rejects it or has it already. *)
LEMMA DrawnGoesOn ==
  ASSUME JobInv, StoreInv, Asked, Drafted, Shown, Marked, Drawn, PlannerDelta
  PROVE  Drawn'
<1> DEFINE d == Head(todo)
<1>0. JobTypes /\ Locks /\ SetTypes
  BY DEF JobInv, StoreInv
<1>1. /\ ppc = "plan" /\ mu = "plan" /\ todo # <<>> /\ todo' = Tail(todo)
      /\ UNCHANGED <<job, wpc, fate, batch, effect, unsure, flight, gen>>
  BY <1>0, DeltaWrites DEF Locks, pvars, writer, planning, redis, pending
<1>2. \/ UNCHANGED <<over, applied, rejected>> /\ BatchLookup(d.v) = d.to /\ (d.to = Absent \/ ~FromFlight(d.v))
      \/ UNCHANGED <<over, applied>> /\ rejected' = rejected \cup {d.v} /\ Limit > 0
      \/ /\ over' = [over EXCEPT ![d.v] = d.to] /\ applied' = Append(applied, d)
         /\ rejected' = rejected
  BY DeltaWrites DEF PlanReject, PlanSkip, PlanInsert, PlanRefresh, PlanRemove, DraftDelta
<1>3. d \in Delta /\ d.v \in Values /\ d.to \in Slot /\ todo \in Seq(Delta) /\ applied \in Seq(Delta)
  <2>1. todo \in Seq(Delta) /\ applied \in Seq(Delta)
    BY <1>0 DEF SetTypes
  <2>2. d \in Delta
    BY <1>1, <2>1
  <2> QED
    BY <2>1, <2>2, DeltaFields
<1> HIDE DEF d
<1>4. HasLast(applied')
  BY <1>1, <1>2, <1>3, LastAppend DEF Drawn
<1>5. \A n \in DOMAIN applied' : over'[applied'[n].v] # Unplanned
  <2>1. \A n \in DOMAIN applied : over[applied[n].v] # Unplanned /\ applied[n].v \in Values
    <3>1. \A n \in DOMAIN applied : applied[n] \in Delta
      BY <1>3
    <3> QED
      BY <1>1, <3>1, DeltaFields DEF Drawn
  <2>2. CASE over' = [over EXCEPT ![d.v] = d.to] /\ applied' = Append(applied, d)
    <3>1. d.to # Unplanned
      BY <1>3, SetAssumption
    <3>2. \A u \in Values : over'[u] = IF u = d.v THEN d.to ELSE over[u]
      BY <1>0, <2>2 DEF SetTypes
    <3>3. \A n \in DOMAIN applied' : (n \in DOMAIN applied /\ applied'[n] = applied[n]) \/ applied'[n] = d
      <4>1. /\ DOMAIN applied' = 1..(Len(applied) + 1) /\ DOMAIN applied = 1..Len(applied)
            /\ \A i \in 1..Len(applied) : applied'[i] = applied[i]
            /\ applied'[Len(applied) + 1] = d /\ Len(applied) \in Nat
        BY <1>3, <2>2, AppendGives
      <4> QED
        BY <4>1
    <3> QED
      BY <1>3, <2>1, <3>1, <3>2, <3>3
  <2> QED
    BY <1>2, <2>1, <2>2
<1>6. ASSUME NEW w \in ToSet(batch), fate[w] = "none", Owed(w), NEW v \in ValuesOf(w)
      PROVE  \/ There(w, v) \/ Sets(todo', v, job[w].to) \/ Sets(applied', v, job[w].to)
             \/ Limit > 0 /\ v \in rejected'
  <2>0. w \in Writers /\ wpc[w] # "new" /\ v \in Values
    BY <1>0, <1>1, PlacesType, ToSetType DEF Desk, JobInv, Open, SetTypes, ValuesOf
  <2>1. \A to : Sets(applied, v, to) => Sets(applied', v, to)
    <3>1. CASE applied' = Append(applied, d)
      BY <1>3, <3>1, SetsAppend
    <3> QED
      BY <1>2, <3>1
  <2>2. \/ There(w, v) \/ Sets(todo, v, job[w].to) \/ Sets(applied, v, job[w].to)
        \/ Limit > 0 /\ v \in rejected
    BY <1>1, <1>6 DEF Drawn
  <2>3. rejected \subseteq rejected'
    BY <1>2
  <2>4. CASE Sets(todo, v, job[w].to) /\ ~Sets(todo', v, job[w].to)
    <3>1. d.v = v /\ d.to = job[w].to /\ d.to # Absent
      BY <1>1, <1>3, <1>6, <2>4, SetsTail DEF d, Owed, Additive
    <3>2. CASE UNCHANGED <<over, applied, rejected>> /\ BatchLookup(d.v) = d.to /\ ~FromFlight(d.v)
      <4>1. CASE over[v] # Unplanned
        <5>1. PICK n \in DOMAIN applied : applied[n] = [v |-> v, to |-> over[v]]
          BY <1>1, <2>0, <4>1 DEF Drafted
        <5>2. over[v] = job[w].to
          BY <3>1, <3>2, <4>1 DEF BatchLookup
        <5> QED
          BY <2>1, <5>1, <5>2 DEF Sets
      <4>2. CASE over[v] = Unplanned
        <5>1. pend[v] = Unplanned /\ entries[v] = job[w].to
          BY <3>1, <3>2, <4>2 DEF BatchLookup, FromFlight, Lookup
        <5> QED
          BY <1>1, <2>0, <5>1, SkipFinds
      <4> QED
        BY <4>1, <4>2
    <3>3. CASE rejected' = rejected \cup {d.v} /\ Limit > 0
      BY <3>1, <3>3
    <3>4. CASE applied' = Append(applied, d)
      BY <1>3, <3>1, <3>4, SetsAppend
    <3> QED
      BY <1>2, <3>1, <3>2, <3>3, <3>4
  <2> QED
    BY <2>1, <2>2, <2>3, <2>4
<1>7. \A w, v : There(w, v)' <=> There(w, v)
  BY <1>1 DEF There, Settled, Live
<1>8. \A w : Owed(w)' <=> Owed(w)
  BY <1>1 DEF Owed, Additive, Count
<1> QED
  BY <1>1, <1>4, <1>5, <1>6, <1>7, <1>8 DEF Drawn, ValuesOf

LEMMA DrawnStep ==
  ASSUME JobInv, StoreInv, Asked, Drafted, Shown, Marked, Listed, Drawn, [PNext]_<<vars, pvars>>
  PROVE  Drawn'
<1>1. CASE PlannerPlan \/ PlannerSweepPlan
  BY <1>1, DrawnBegins
<1>2. CASE PlannerDelta
  BY <1>2, DrawnGoesOn
<1>3. CASE ppc' # "plan"
  BY <1>3 DEF Drawn
<1>4. CASE ppc' = "plan" /\ ~(PlannerPlan \/ PlannerSweepPlan \/ PlannerDelta)
  <2>1. ~PPlanner /\ ppc = "plan" /\ UNCHANGED <<todo, over, applied, rejected, batch, fate>>
    BY <1>4, DraftStays DEF draft
  <2>2. ~NewPlan
    BY <2>1 DEF NewPlan, PPlanner
  <2>3. \A w \in ToSet(batch) : w \in Writers /\ wpc[w] # "new" /\ job'[w] = job[w] /\ ValuesOf(w) \subseteq Values
    BY <2>1, BatchStays
  <2>4. \A w \in ToSet(batch) : \A v \in ValuesOf(w) : There(w, v) => There(w, v)'
    BY <2>2, <2>3, ThereStays
  <2>5. \A w \in ToSet(batch) : (Owed(w)' <=> Owed(w)) /\ ValuesOf(w)' = ValuesOf(w)
    BY <2>3 DEF Owed, Additive, Count, ValuesOf
  <2> QED
    BY <2>1, <2>3, <2>4, <2>5 DEF Drawn
<1> QED
  BY <1>1, <1>2, <1>3, <1>4

-----------------------------------------------------------------------------
(* The end of Plan *)

(* A job that is accepted after Plan has nothing that was rejected. *)
LEMMA DecideKeeps ==
  ASSUME JobInv, StoreInv, Drawn, ppc = "plan", todo = <<>>, Decide,
         NEW w \in ToSet(batch), fate'[w] = "none", Owed(w), NEW v \in ValuesOf(w)
  PROVE  There(w, v) \/ Sets(applied, v, job[w].to)
<1>0. JobTypes /\ SetTypes
  BY DEF JobInv, StoreInv
<1>1. w \in Writers
  BY <1>0, ToSetType DEF JobTypes
<1>2. fate[w] = "none" /\ ~(Count(w) = 1 /\ job[w].vals[1] \in rejected)
  BY <1>1 DEF Decide
<1>3. \/ There(w, v) \/ Sets(todo, v, job[w].to) \/ Sets(applied, v, job[w].to)
      \/ Limit > 0 /\ v \in rejected
  BY <1>2 DEF Drawn
<1>4. ~Sets(todo, v, job[w].to)
  BY DEF Sets
<1>5. ASSUME Limit > 0 PROVE v \notin rejected
  <2>1. Count(w) = 1
    BY <1>5, SetAssumption DEF Owed
  <2>2. job[w].vals \in Seq(Values) /\ Len(job[w].vals) = 1
    BY <1>0, <1>1, <2>1 DEF SetTypes, Count
  <2>3. v = job[w].vals[1]
    BY <2>2 DEF ValuesOf, ToSet
  <2> QED
    BY <1>2, <2>1, <2>3
<1> QED
  BY <1>3, <1>4, <1>5

LEMMA FoundStep ==
  ASSUME JobInv, StoreInv, Asked, Shown, Marked, Listed, Drawn, Found, [PNext]_<<vars, pvars>>
  PROVE  Found'
<1>0. JobTypes /\ Locks /\ SetTypes
  BY DEF JobInv, StoreInv
<1>1. CASE PlannerNoPlan
  <2>1. ppc = "check" /\ deltas = <<>> /\ idx > Len(batch) /\ UNCHANGED <<batch, fate, job>>
    BY <1>1 DEF PlannerNoPlan, planning, writer
  <2>2. ToSet(batch) \subseteq Checked
    <3>1. \A k \in DOMAIN batch : k < idx
      BY <1>0, <2>1 DEF JobTypes
    <3> QED
      BY <3>1 DEF Checked, ToSet
  <2>3. \A w \in ToSet(batch) : fate[w] = "none" => ValuesOf(w) = {}
    BY <2>1, <2>2 DEF Listed, Sets
  <2> QED
    BY <2>1, <2>3 DEF Found, ValuesOf
<1>2. CASE PlannerPlanned /\ ppc' = "answer"
  <2>1. /\ Decide /\ mu = "plan" /\ todo = <<>> /\ applied = <<>>
        /\ UNCHANGED <<batch, job, effect, unsure, flight, gen>>
    BY <1>2 DEF PlannerPlanned, PlanNothing, PlanEnd, writer, redis, pending
  <2>2. ppc = "plan"
    BY <1>0, <2>1 DEF Locks
  <2>3. \A v, to : ~Sets(applied, v, to)
    BY <2>1 DEF Sets
  <2>4. \A w \in ToSet(batch) : fate'[w] = "none" /\ Owed(w) => \A v \in ValuesOf(w) : There(w, v)
    BY <2>1, <2>2, <2>3, DecideKeeps
  <2>5. \A w, v : There(w, v)' <=> There(w, v)
    BY <2>1 DEF There, Settled, Live
  <2> QED
    BY <2>1, <2>4, <2>5 DEF Found, Owed, Additive, Count, ValuesOf
<1>3. CASE ppc' # "answer"
  BY <1>3 DEF Found
<1>4. CASE ppc' = "answer" /\ ~(PlannerNoPlan \/ PlannerPlanned)
  <2>1. ~PPlanner
    BY <1>0, <1>4 DEF PPlanner, PlannerTake, PlannerGather, PlannerStart, PlannerCheck, PlannerPlan,
       PlannerDelta, PlannerAnswer, PlannerRefuse, PlannerSend, PlannerDrop, PlannerSweep,
       PlannerSweepPlan, PlannerExit, Resume, PlanReject, PlanSkip, PlanInsert, PlanRefresh,
       PlanRemove, Locks, pvars
  <2>2. ppc = "answer" /\ UNCHANGED <<batch, fate>>
    BY <1>4, <2>1, Steps, WriterWrites, RestWrites, CommitterWrites DEF planning
  <2>3. ~NewPlan
    BY <2>1 DEF NewPlan, PPlanner
  <2>4. \A w \in ToSet(batch) : w \in Writers /\ wpc[w] # "new" /\ job'[w] = job[w] /\ ValuesOf(w) \subseteq Values
    BY <2>2, BatchStays
  <2>5. \A w \in ToSet(batch) : \A v \in ValuesOf(w) : There(w, v) => There(w, v)'
    BY <2>3, <2>4, ThereStays
  <2>6. \A w \in ToSet(batch) : (Owed(w)' <=> Owed(w)) /\ ValuesOf(w)' = ValuesOf(w)
    BY <2>4 DEF Owed, Additive, Count, ValuesOf
  <2> QED
    BY <2>2, <2>5, <2>6 DEF Found
<1> QED
  BY <1>1, <1>2, <1>3, <1>4

-----------------------------------------------------------------------------
(* The plans on their way *)

(* The owners of a plan have been sent, and stay as they are. *)
LEMMA OwnerStays ==
  ASSUME JobInv, StoreInv, Asked, [PNext]_<<vars, pvars>>, NEW i \in DOMAIN flight, NEW w \in OwnerOf(i)
  PROVE  w \in Writers /\ wpc[w] # "new" /\ job'[w] = job[w] /\ ValuesOf(w) \subseteq Values
<1>0. JobTypes /\ Open /\ SetTypes /\ Aligned
  BY DEF JobInv, StoreInv
<1>1. w \in Hands \/ \E j \in DOMAIN owners : w \in owners[j]
  BY <1>0, OwnerPlace
<1>2. w \in Writers
  BY <1>0, <1>1, PlacesType
<1>3. wpc[w] # "new"
  BY <1>0, <1>1 DEF Open
<1>4. ValuesOf(w) \subseteq Values
  BY <1>0, <1>2, ToSetType DEF SetTypes, ValuesOf
<1> QED
  BY <1>0, <1>2, <1>3, <1>4, JobStays

(* What the transaction of plan 1 does for the jobs of a later plan, or of its own. *)
LEMMA StoreCarries ==
  ASSUME JobInv, StoreInv, Marked, NEW o \in {"ok", "lost", "torn"}, CommitterStore(o),
         NEW i \in DOMAIN flight, NEW w \in OwnerOf(i), w \in Writers, NEW v \in ValuesOf(w),
         v \in Values, v \in unsure, Before(v, i)
  PROVE  v \in effect'[w] \/ v \in unsure'
<1>1. /\ Busy /\ 1 \in DOMAIN flight /\ Head(flight) = flight[1] /\ Live(1)
      /\ Touches(flight[1].deltas, v) \/ v \in unsure'
      /\ o = "lost" => unsure' = unsure
  BY StoreGives
<1>2. o # "lost" /\ Touches(flight[1].deltas, v) /\ w \in held => v \in effect'[w]
  BY <1>1, StoreGives
<1>3. i \in Nat \ {0}
  BY MarkTypes DEF StoreInv
<1>4. Touches(flight[1].deltas, v) => i = 1
  BY <1>1, <1>3 DEF Before
<1>5. i = 1 => w \in held
  BY <1>1 DEF OwnerOf
<1> QED
  BY <1>1, <1>2, <1>4, <1>5

(* A new plan has what its owners asked for. *)
LEMMA CarriedNew ==
  ASSUME JobInv, StoreInv, Drawn, Carried, NewPlan
  PROVE  Carried'
<1>1. /\ ppc = "plan" /\ todo = <<>>
      /\ UNCHANGED <<gen, job, unsure, effect>> /\ Len(flight) \in Nat
      /\ \A i \in DOMAIN flight : /\ i \in DOMAIN flight' /\ flight'[i] = flight[i]
                                  /\ OwnerOf(i)' = OwnerOf(i) /\ i <= Len(flight) /\ i \in Nat
      /\ \A i \in DOMAIN flight' :
           \/ i \in DOMAIN flight
           \/ /\ i = Len(flight) + 1 /\ flight'[i].deltas = applied
              /\ OwnerOf(i)' = {x \in ToSet(batch) : fate'[x] = "none"}
  BY NewPlanGives
<1>2. Decide
  BY DEF NewPlan, PlannerPlanned
<1>3. \A j \in DOMAIN flight : Live(j)' <=> Live(j)
  BY <1>1 DEF Live
<1>4. ASSUME NEW i \in DOMAIN flight', Live(i)', NEW w \in OwnerOf(i)', Owed(w), NEW v \in ValuesOf(w)
      PROVE  v \in effect[w] \/ Sets(flight'[i].deltas, v, job[w].to) \/ (v \in unsure /\ Before(v, i)')
  <2>1. CASE i \in DOMAIN flight
    <3>1. v \in effect[w] \/ Sets(flight[i].deltas, v, job[w].to) \/ (v \in unsure /\ Before(v, i))
      BY <1>1, <1>3, <1>4, <2>1 DEF Carried
    <3>2. \A j \in DOMAIN flight' : j < i => j \in DOMAIN flight
      BY <1>1, <2>1
    <3>3. Before(v, i) => Before(v, i)'
      BY <1>1, <1>3, <3>2 DEF Before
    <3> QED
      BY <1>1, <2>1, <3>1, <3>3
  <2>2. CASE i \notin DOMAIN flight
    <3>1. i = Len(flight) + 1 /\ flight'[i].deltas = applied /\ w \in ToSet(batch) /\ fate'[w] = "none"
      BY <1>1, <1>4, <2>2
    <3>2. There(w, v) \/ Sets(applied, v, job[w].to)
      BY <1>1, <1>2, <1>4, <3>1, DecideKeeps
    <3>3. \A j \in DOMAIN flight' : j < i => j \in DOMAIN flight
      BY <1>1, <3>1
    <3>4. Settled(v) => Before(v, i)'
      BY <1>1, <1>3, <3>3 DEF Settled, Before
    <3> QED
      BY <3>1, <3>2, <3>4 DEF There
  <2> QED
    BY <2>1, <2>2
<1>5. \A w : (Owed(w)' <=> Owed(w)) /\ ValuesOf(w)' = ValuesOf(w)
  BY <1>1 DEF Owed, Additive, Count, ValuesOf
<1> QED
  BY <1>1, <1>4, <1>5 DEF Carried

LEMMA CarriedStep ==
  ASSUME JobInv, StoreInv, Asked, Shown, Marked, Drawn, Carried, [PNext]_<<vars, pvars>>
  PROVE  Carried'
<1>1. CASE NewPlan
  BY <1>1, CarriedNew
<1>2. CASE ~NewPlan
  <2>1. PICK k \in {0, 1} : \A i \in DOMAIN flight' :
          /\ i \in Nat \ {0} /\ i + k \in DOMAIN flight /\ flight'[i] = flight[i + k]
          /\ OwnerOf(i)' = OwnerOf(i + k) /\ (Live(i)' => Live(i + k))
    BY <1>2, FlightMoves
  <2>2. ASSUME NEW i \in DOMAIN flight', Live(i)', NEW w \in OwnerOf(i)', Owed(w)', NEW v \in ValuesOf(w)'
        PROVE  \/ v \in effect'[w] \/ Sets(flight'[i].deltas, v, job'[w].to)
               \/ v \in unsure' /\ Before(v, i)'
    <3>1. i + k \in DOMAIN flight /\ flight'[i] = flight[i + k] /\ Live(i + k) /\ w \in OwnerOf(i + k)
      BY <2>1, <2>2
    <3>2. w \in Writers /\ wpc[w] # "new" /\ job'[w] = job[w] /\ ValuesOf(w) \subseteq Values
      BY <3>1, OwnerStays
    <3>3. Owed(w) /\ v \in ValuesOf(w) /\ v \in Values
      BY <2>2, <3>2 DEF Owed, Additive, Count, ValuesOf
    <3>4. \/ v \in effect[w] \/ Sets(flight[i + k].deltas, v, job[w].to)
          \/ v \in unsure /\ Before(v, i + k)
      BY <3>1, <3>3 DEF Carried
    <3>5. effect[w] \subseteq effect'[w]
      BY <3>2, DoubtStays
    <3>6. ASSUME Before(v, i + k) PROVE Before(v, i)'
      <4>1. \A j \in DOMAIN flight' : j < i => j + k < i + k
        BY <2>1
      <4> QED
        BY <2>1, <3>6, <4>1 DEF Before
    <3>7. ASSUME v \in unsure, Before(v, i + k) PROVE v \in effect'[w] \/ v \in unsure'
      <4>1. CASE \E o \in {"ok", "lost", "torn"} : CommitterStore(o)
        BY <3>1, <3>2, <3>3, <3>7, <4>1, StoreCarries
      <4>2. CASE ~\E o \in {"ok", "lost", "torn"} : CommitterStore(o)
        <5>1. unsure' = unsure
          BY <4>2, Steps, OtherSteps, PlannerWrites, CommitterWrites DEF redis
        <5> QED
          BY <3>7, <5>1
      <4> QED
        BY <4>1, <4>2
    <3> QED
      BY <3>1, <3>2, <3>4, <3>5, <3>6, <3>7
  <2> QED
    BY <2>2 DEF Carried
<1> QED
  BY <1>1, <1>2

(* A transaction that succeeded has stored what the jobs in hand asked for. *)
LEMMA SavedStep ==
  ASSUME JobInv, StoreInv, Asked, Shown, Marked, Carried, Saved, [PNext]_<<vars, pvars>>
  PROVE  Saved'
<1>0. JobTypes /\ Locks /\ Open /\ SetTypes /\ Aligned
  BY DEF JobInv, StoreInv
<1>1. CASE \E o \in {"ok", "lost", "torn"} : CommitterStore(o)
  <2>1. PICK o \in {"ok", "lost", "torn"} : CommitterStore(o)
    BY <1>1
  <2>2. /\ Busy /\ 1 \in DOMAIN flight /\ Head(flight) = flight[1] /\ Live(1)
        /\ UNCHANGED <<held, job, wpc>>
    BY <2>1, StoreGives
  <2>3. CASE o = "ok"
    <3>1. ASSUME NEW w \in held, Owed(w), NEW v \in ValuesOf(w) PROVE v \in effect'[w] \/ v \in unsure'
      <4>1. w \in OwnerOf(1)
        BY <2>2, <3>1 DEF OwnerOf
      <4>2. w \in Writers /\ wpc[w] # "new" /\ ValuesOf(w) \subseteq Values
        BY <2>2, <4>1, OwnerStays
      <4>3. v \in effect[w] \/ Sets(flight[1].deltas, v, job[w].to) \/ (v \in unsure /\ Before(v, 1))
        BY <2>2, <3>1, <4>1 DEF Carried
      <4>4. CASE v \in effect[w]
        BY <4>2, <4>4, DoubtStays
      <4>5. CASE Sets(flight[1].deltas, v, job[w].to)
        BY <2>1, <2>2, <2>3, <4>2, <4>5, StoreGives
      <4>6. CASE v \in unsure /\ Before(v, 1)
        BY <2>1, <2>2, <4>1, <4>2, <4>6, StoreCarries
      <4> QED
        BY <4>3, <4>4, <4>5, <4>6
    <3> QED
      BY <2>2, <3>1 DEF Saved, Owed, Additive, Count, ValuesOf
  <2>4. CASE o # "ok"
    BY <2>1, <2>4 DEF CommitterStore, Saved
  <2> QED
    BY <2>3, <2>4
<1>2. CASE /\ cpc' \in {"stored", "commit", "publish"}
           /\ ~\E o \in {"ok", "lost", "torn"} : CommitterStore(o)
  <2>1. cpc \in {"stored", "commit", "publish"} /\ held' = held /\ unsure' = unsure
    <3>1. CASE PCommitter
      <4>1. cpc \in {"stored", "commit", "publish"}
        BY <1>0, <1>2, <3>1, CommitterWrites DEF CommitterTake, CommitterStale, CommitterCommit,
           CommitterCommitted, CommitEnd, CommitterPublish, CommitterAbort, CommitterExit, Locks
      <4>2. held' = held
        BY <1>2, <3>1, CommitterWrites DEF CommitterTake
      <4> QED
        BY <1>2, <3>1, <4>1, <4>2, CommitterWrites
    <3>2. CASE ~PCommitter
      BY <1>2, <3>2, Steps, OtherSteps, PlannerWrites DEF committer, redis
    <3> QED
      BY <3>1, <3>2
  <2>2. \A w \in held : w \in Writers /\ wpc[w] # "new"
    BY <1>0, <2>1 DEF JobTypes, Open, Hands
  <2>3. \A w \in held : job'[w] = job[w] /\ effect[w] \subseteq effect'[w]
    BY <1>0, <2>2, JobStays, DoubtStays
  <2> QED
    BY <2>1, <2>3 DEF Saved, Owed, Additive, Count, ValuesOf
<1>3. CASE cpc' \notin {"stored", "commit", "publish"}
  BY <1>3 DEF Saved
<1> QED
  BY <1>1, <1>2, <1>3

-----------------------------------------------------------------------------
LEMMA AckInvStep ==
  ASSUME JobInv, StoreInv, TraceInv, AckInv, [PNext]_<<vars, pvars>>
  PROVE  AckInv'
<1>1. SetTypes /\ Asked /\ Drafted /\ Shown /\ Marked /\ Listed /\ Drawn /\ Found /\ Carried /\ Saved
  BY DEF StoreInv, TraceInv, AckInv
<1>2. Shown' /\ Marked'
  BY <1>1, ShownStep, MarkedStep
<1>3. Listed' /\ Drawn' /\ Found'
  BY <1>1, ListedStep, DrawnStep, FoundStep
<1>4. Carried' /\ Saved'
  BY <1>1, CarriedStep, SavedStep
<1> QED
  BY <1>2, <1>3, <1>4 DEF AckInv

(***************************************************************************)
(* Where an accepted addition is: every live plan has the deltas its       *)
(* owners asked for, except what Redis has shown since they were sent or   *)
(* what is in doubt and touched by no plan before; a batch without a plan  *)
(* has nothing but that; and a value without a pending outcome is touched  *)
(* by no live plan, so that what Plan skips is what Redis holds.           *)
(***************************************************************************)
THEOREM AcksCovered == PSpec => [](JobInv /\ StoreInv /\ TraceInv /\ AckInv)
<1>1. PInit => AckInv
  <2> SUFFICES ASSUME PInit PROVE AckInv
    OBVIOUS
  <2>1. /\ ppc = "idle" /\ cpc = "idle" /\ flight = <<>> /\ effect = [w \in Writers |-> {}]
        /\ \A w \in Writers : wpc[w] = "new"
    BY DEF PInit, Init
  <2>2. Shown
    BY <2>1 DEF Shown
  <2>3. Marked /\ Carried
    BY <2>1 DEF Marked, Carried
  <2>4. Listed /\ Drawn /\ Found /\ Saved
    BY <2>1 DEF Listed, Drawn, Found, Saved
  <2> QED
    BY <2>2, <2>3, <2>4 DEF AckInv
<1>2. JobInv /\ StoreInv /\ TraceInv /\ AckInv /\ [PNext]_<<vars, pvars>> => AckInv'
  BY AckInvStep
<1> QED
  BY <1>1, <1>2, TracesOwned, PTL DEF PSpec

(* Whoever is acknowledged is in a batch without a plan, or in one that was stored. *)
LEMMA AckMeans ==
  ASSUME JobInv, AckInv, [PNext]_<<vars, pvars>>, NEW w \in Writers, reply[w] = "none",
         reply'[w] = "ok", Owed(w)
  PROVE  ValuesOf(w) \subseteq effect[w] \cup unsure
<1>0. JobTypes
  BY DEF JobInv
<1>1. CASE PlannerAnswer \/ PlannerRefuse
  <2>1. w \in Desk /\ fate[w] = "none" /\ ppc \in {"answer", "refuse"}
    BY <1>0, <1>1, PlannerAnswers DEF JobTypes
  <2>2. ppc = "answer" /\ w \in ToSet(batch)
    BY <2>1 DEF Desk
  <2> QED
    BY <2>1, <2>2 DEF AckInv, Found, There
<1>2. CASE CommitterStale \/ CommitterPublish \/ CommitterAbort
  <2>1. w \in held /\ cpc = "publish"
    BY <1>0, <1>2, CommitterAnswers
  <2> QED
    BY <2>1 DEF AckInv, Saved
<1> QED
  BY <1>1, <1>2, Steps, WriterWrites, PlannerWrites, CommitterWrites, RestWrites

(***************************************************************************)
(* An addition is acknowledged only when Redis has held each of its        *)
(* records at some time since it was submitted: neither a repetition of    *)
(* what is only planned, nor a plan that a failed transaction voids, nor a *)
(* batch that changes nothing is acknowledged before.  Values in doubt,    *)
(* and writes of several records to a set with a limit, are left out.      *)
(***************************************************************************)
THEOREM PipelineAddAckedIsStored == PSpec => AddAckedIsStored
<1>1. JobInv /\ AckInv /\ [PNext]_<<vars, pvars>> =>
        [\A w \in Writers :
           reply[w] = "none" /\ reply'[w] = "ok" /\ Additive(w) /\ (Limit = 0 \/ Count(w) = 1)
             => ValuesOf(w) \subseteq effect[w] \cup unsure]_reply
  BY AckMeans DEF Owed
<1> QED
  BY <1>1, AcksCovered, PTL DEF PSpec, AddAckedIsStored
=============================================================================
