---------------------------- MODULE PipelineJobs ----------------------------
(***************************************************************************)
(* What happens to the jobs of a pipeline, for every number of writers and *)
(* every size of queue, batch and pipeline, whether or not contexts end,   *)
(* transactions fail and the holder is stopped: no job is lost or answered *)
(* twice, memory and Redis agree between two commits, and a refused write  *)
(* leaves nothing behind.                                                  *)
(***************************************************************************)
EXTENDS Pipeline, ActiveSetProofs

(* A sequence that holds nothing twice. *)
NoRepeat(s) == \A i, j \in DOMAIN s : s[i] = s[j] => i = j

(* The jobs the planner has still to decide about or to refuse. *)
Desk ==
  IF ppc \in {"gather", "check", "plan", "answer"} THEN ToSet(batch)
  ELSE IF ppc = "refuse" THEN {w \in ToSet(batch) : fate[w] # "none"}
  ELSE {}

(* The jobs the committer has still to answer. *)
Hands == IF cpc \in {"idle", "exit"} THEN {} ELSE held

(* The committer works on the oldest plan in flight. *)
Busy == cpc \in {"held", "stored", "refused", "commit"}

(* The jobs that the answer to plan i of the flight goes to. *)
OwnerOf(i) == IF ~Busy THEN owners[i] ELSE IF i = 1 THEN held ELSE owners[i - 1]

-----------------------------------------------------------------------------
(* Types of what the pipeline keeps. *)
JobTypes ==
  /\ wpc \in [Writers -> {"new", "count", "send", "wait", "done"}]
  /\ late \in [Writers -> BOOLEAN]
  /\ reply \in [Writers -> Codes]
  /\ fate \in [Writers -> {"none", "stale", "full"}]
  /\ ppc \in {"idle", "gather", "check", "plan", "answer", "refuse", "send", "sweep", "exit"}
  /\ cpc \in {"idle", "held", "stored", "refused", "commit", "publish", "exit"}
  /\ jobs \in Seq(Writers) /\ batch \in Seq(Writers)
  /\ owners \in Seq(SUBSET Writers) /\ held \in SUBSET Writers
  /\ sent \in Nat /\ idx \in Nat \ {0}

(* Whoever is inside a loop under the mutex of the set is where it says. *)
Locks == (mu = "plan" <=> ppc = "plan") /\ (mu = "commit" <=> cpc = "commit")

(* A plan that is not in the channel yet is the last one, with the planner. *)
Channel == Len(owners) = sent + (IF ppc \in {"refuse", "send"} THEN 1 ELSE 0)

(* A job is in one place, and once. *)
Apart ==
  /\ \A w \in ToSet(jobs) : w \notin Desk /\ w \notin Hands
  /\ \A w \in Desk : w \notin Hands
  /\ \A i \in DOMAIN owners : \A w \in owners[i] :
       /\ w \notin ToSet(jobs) /\ w \notin Desk /\ w \notin Hands
       /\ \A j \in DOMAIN owners : w \in owners[j] => i = j
  /\ NoRepeat(jobs)
  /\ ppc \in {"gather", "check"} => NoRepeat(batch)

(* A job in one of the places was sent and is not answered. *)
Open ==
  /\ \A w \in ToSet(jobs) \cup Desk \cup Hands : reply[w] = "none" /\ wpc[w] \in {"wait", "done"}
  /\ \A i \in DOMAIN owners : \A w \in owners[i] : reply[w] = "none" /\ wpc[w] \in {"wait", "done"}
  /\ \A w \in Writers : wpc[w] \in {"new", "count", "send"} => reply[w] = "none"

(* Only jobs whose context is over are stale; the accepted ones have a plan. *)
Fates ==
  /\ \A w \in Writers : fate[w] = "stale" => late[w]
  /\ ppc = "refuse" => \A w \in ToSet(batch) : fate[w] = "none" => w \in owners[Len(owners)]

JobInv == JobTypes /\ Locks /\ Channel /\ Apart /\ Open /\ Fates /\ NoJobLost

-----------------------------------------------------------------------------
(* Types of what the set keeps, as far as deltas are concerned. *)
SetTypes ==
  /\ job \in [Writers -> [vals : Seq(Values), to : Slot]]
  /\ entries \in [Values -> Slot]
  /\ pend \in [Values -> [to : Slot, seq : Nat] \cup {Unplanned}]
  /\ over \in [Values -> Slot \cup {Unplanned}]
  /\ todo \in Seq(Delta) /\ applied \in Seq(Delta) /\ deltas \in Seq(Delta)
  /\ flight \in Seq(Plan)
  /\ gen \in Nat /\ seq \in Nat /\ pendSeq \in Nat /\ done \in Nat
  /\ hash \in SUBSET Values /\ pendHash \in SUBSET Values /\ acc \in SUBSET Values
  /\ heap \in SUBSET (Values \X Nat)
  /\ victims \in SUBSET Values
  /\ unsure \in SUBSET Values
  /\ now \in 0..MaxNow

(* The plans in flight are those with owners, and the one in hand. *)
Aligned == Len(flight) = Len(owners) + (IF Busy THEN 1 ELSE 0)

(* While a stored plan is being committed, its deltas from here on are ahead in Redis. *)
Committing ==
  cpc \in {"stored", "commit"} =>
    LET ds   == Head(flight).deltas
        from == IF cpc = "commit" THEN done ELSE 0
    IN \A v \in Values \ unsure :
         /\ (\A n \in DOMAIN ds : n > from => ds[n].v # v) => entries[v] = stored[v]
         /\ \A n \in DOMAIN ds :
              n > from /\ ds[n].v = v /\ LastFor(ds, n) => stored[v] = ds[n].to

StoreInv == SetTypes /\ Aligned /\ Committing /\ MemoryMatchesStore

-----------------------------------------------------------------------------
(* A record of this writer. *)
Mine(w, e) == e # Absent /\ e.why = WhyOf[w]

(* What writers ask for: in their own name, each value once. *)
Asked ==
  \A w \in Writers :
    /\ job[w].to # Absent => job[w].to.why = WhyOf[w]
    /\ NoRepeat(job[w].vals)
    /\ wpc[w] = "new" => job[w] = NoJob

(* The additions among some deltas are those of accepted jobs of a set. *)
From(ds, ws) ==
  \A n \in DOMAIN ds :
    ds[n].to # Absent =>
      \E x \in ws : fate[x] = "none" /\ ds[n].to = job[x].to /\ ds[n].v \in ValuesOf(x)

(* A writer with a name of its own has each of its records there once. *)
Single(w, ds) ==
  \A m, n \in DOMAIN ds :
    Mine(w, ds[m].to) /\ Mine(w, ds[n].to) /\ ds[m].v = ds[n].v => m = n

(* The jobs looked at so far. *)
Checked == {batch[i] : i \in {k \in DOMAIN batch : k < idx}}

(* The deltas collected so far. *)
Collected ==
  ppc = "check" =>
    /\ From(deltas, Checked)
    /\ \A w \in Writers : Sole(w) => Single(w, deltas)

(* What a writer with a name of its own asks for is planned, rejected or still to come. *)
DraftOf(w) ==
  /\ Single(w, todo)
  /\ \A m \in DOMAIN todo, n \in DOMAIN applied :
       Mine(w, todo[m].to) /\ Mine(w, applied[n].to) => todo[m].v # applied[n].v
  /\ Uncontended(w) => \A v \in rejected \cap ValuesOf(w) :
       /\ \A n \in DOMAIN todo : todo[n].v = v => ~Mine(w, todo[n].to)
       /\ \A n \in DOMAIN applied : applied[n].v = v => ~Mine(w, applied[n].to)

(* The draft of a plan. *)
Drafted ==
  ppc = "plan" =>
    /\ From(todo, ToSet(batch)) /\ From(applied, ToSet(batch))
    /\ \A v \in Values : over[v] # Unplanned =>
         \E n \in DOMAIN applied : applied[n] = [v |-> v, to |-> over[v]]
    /\ \A w \in Writers : Sole(w) => DraftOf(w)

(* The answer of this writer is, or will be, the full of another one. *)
Misjudged(w) ==
  /\ ~(Count(w) > 1 \/ Uncontended(w))
  /\ reply[w] = "full" \/ (ppc = "refuse" /\ w \in ToSet(batch) /\ fate[w] = "full")

(* No plan has been made for this job. *)
Unasked(w) == wpc[w] \in {"new", "count", "send"} \/ w \in ToSet(jobs) \/ w \in Desk

(* Where the records of a writer with a name of its own can be. *)
TraceOf(w) ==
  /\ \A v \in Values : Mine(w, entries[v]) =>
       reply[w] = "ok" \/ (w \in held /\ cpc \in {"commit", "publish"})
  /\ \A i \in DOMAIN flight : \A n \in DOMAIN flight[i].deltas :
       Mine(w, flight[i].deltas[n].to) => w \in OwnerOf(i)
  /\ \A v \in Values : pend[v] # Unplanned /\ Mine(w, pend[v].to) =>
       /\ ~Unasked(w)
       /\ reply[w] \notin {"full", "store_unavailable"}
       /\ \A i \in DOMAIN flight : w \in OwnerOf(i) => flight[i].gen = gen

Traces == \A w \in Writers : Sole(w) => Misjudged(w) \/ TraceOf(w)

TraceInv == Asked /\ Collected /\ Drafted /\ Traces

-----------------------------------------------------------------------------
(* Sequences *)

(* The elements of a sequence with one more at its end. *)
LEMMA ToSetAppend ==
  ASSUME NEW S, NEW s \in Seq(S), NEW e \in S
  PROVE  /\ ToSet(Append(s, e)) = ToSet(s) \cup {e}
         /\ NoRepeat(s) /\ e \notin ToSet(s) => NoRepeat(Append(s, e))
<1>1. /\ DOMAIN Append(s, e) = DOMAIN s \cup {Len(s) + 1}
      /\ Len(s) + 1 \notin DOMAIN s
      /\ \A i \in DOMAIN s : Append(s, e)[i] = s[i]
      /\ Append(s, e)[Len(s) + 1] = e
  OBVIOUS
<1> QED
  BY <1>1, Zenon DEF ToSet, NoRepeat

(* The elements of a sequence without its head. *)
LEMMA ToSetTail ==
  ASSUME NEW S, NEW s \in Seq(S), s # <<>>, NoRepeat(s)
  PROVE  /\ ToSet(Tail(s)) = ToSet(s) \ {Head(s)}
         /\ Head(s) \in ToSet(s) /\ Head(s) \in S
         /\ NoRepeat(Tail(s))
         /\ Tail(s) \in Seq(S)
<1>1. /\ Tail(s) \in Seq(S) /\ Len(Tail(s)) = Len(s) - 1 /\ Len(s) \in Nat \ {0}
      /\ \A i \in 1..(Len(s) - 1) : Tail(s)[i] = s[i + 1]
      /\ DOMAIN s = 1..Len(s) /\ DOMAIN Tail(s) = 1..(Len(s) - 1)
      /\ Head(s) = s[1] /\ s[1] \in S
  OBVIOUS
<1>2. ToSet(Tail(s)) \subseteq ToSet(s) \ {Head(s)}
  BY <1>1 DEF ToSet, NoRepeat
<1>3. ASSUME NEW x \in ToSet(s), x # Head(s) PROVE x \in ToSet(Tail(s))
  <2>1. PICK i \in DOMAIN s : x = s[i]
    BY DEF ToSet
  <2>2. i - 1 \in DOMAIN Tail(s) /\ Tail(s)[i - 1] = x
    BY <1>1, <1>3, <2>1
  <2> QED
    BY <2>2 DEF ToSet
<1>4. NoRepeat(Tail(s))
  BY <1>1 DEF NoRepeat
<1>5. Head(s) \in ToSet(s)
  BY <1>1 DEF ToSet
<1> QED
  BY <1>1, <1>2, <1>3, <1>4, <1>5

(* The sequence of one element. *)
LEMMA ToSetOne ==
  ASSUME NEW S, NEW e \in S
  PROVE  <<e>> \in Seq(S) /\ ToSet(<<e>>) = {e} /\ NoRepeat(<<e>>)
  BY DEF ToSet, NoRepeat

(* The empty sequence. *)
LEMMA ToSetNone ==
  ASSUME NEW S
  PROVE  <<>> \in Seq(S) /\ ToSet(<<>>) = {} /\ NoRepeat(<<>>)
  BY DEF ToSet, NoRepeat

(* The elements of a sequence are of its type. *)
LEMMA ToSetType ==
  ASSUME NEW S, NEW s \in Seq(S)
  PROVE  ToSet(s) \subseteq S
  BY DEF ToSet

(* A sequence without its last element. *)
LEMMA FrontGives ==
  ASSUME NEW S, NEW s \in Seq(S), Len(s) > 0
  PROVE  /\ Front(s) \in Seq(S) /\ Len(Front(s)) = Len(s) - 1
         /\ DOMAIN Front(s) = 1..(Len(s) - 1)
         /\ \A i \in 1..(Len(s) - 1) : Front(s)[i] = s[i]
<1>1. \A k \in Nat : k < Len(s) =>
        /\ SubSeq(s, 1, k) = [i \in 1..k |-> s[i]]
        /\ SubSeq(s, 1, k) \in Seq(S) /\ Len(SubSeq(s, 1, k)) = k
  OBVIOUS
<1>2. Len(s) - 1 \in Nat /\ Len(s) - 1 < Len(s)
  OBVIOUS
<1> QED
  BY <1>1, <1>2 DEF Front

(* A sequence without its first element. *)
LEMMA TailGives ==
  ASSUME NEW S, NEW s \in Seq(S), Len(s) > 0
  PROVE  /\ Tail(s) \in Seq(S) /\ Len(Tail(s)) = Len(s) - 1
         /\ DOMAIN Tail(s) = 1..(Len(s) - 1)
         /\ \A i \in 1..(Len(s) - 1) : Tail(s)[i] = s[i + 1]
         /\ Head(s) = s[1] /\ Head(s) \in S
  OBVIOUS

(* Two sequences one after the other. *)
LEMMA ConcatType ==
  ASSUME NEW S, NEW s \in Seq(S), NEW t \in Seq(S)
  PROVE  s \o t \in Seq(S)
  OBVIOUS

(* A sequence with one more element at its end. *)
LEMMA AppendGives ==
  ASSUME NEW S, NEW s \in Seq(S), NEW e \in S
  PROVE  /\ Append(s, e) \in Seq(S) /\ Len(Append(s, e)) = Len(s) + 1
         /\ DOMAIN Append(s, e) = 1..(Len(s) + 1) /\ DOMAIN s = 1..Len(s)
         /\ \A i \in 1..Len(s) : Append(s, e)[i] = s[i]
         /\ Append(s, e)[Len(s) + 1] = e
  OBVIOUS

-----------------------------------------------------------------------------
(* Who writes what *)

(* The writes of the handlers. *)
LEMMA WriterWrites ==
  ASSUME NEW w \in Writers, Writer(w) \/ Deadline(w)
  PROVE  /\ UNCHANGED <<vars, reply, ppc, planning, channel, committer, stored, unsure, stopped>>
         /\ jobs' = jobs \/ SubmitSend(w)
         /\ wpc' = wpc \/ Submit(w) \/ SubmitCount(w) \/ SubmitSend(w) \/ SubmitRetract(w)
                       \/ SubmitReturn(w)
         /\ late' = late \/ Deadline(w)
         /\ job' = job \/ Submit(w)
  BY DEF Writer, Submit, SubmitCount, SubmitSend, SubmitRetract, SubmitReturn, Deadline, redis,
         queue

(* What the loop of Set.Plan leaves alone, delta by delta. *)
LEMMA DeltaWrites ==
  ASSUME PlannerDelta
  PROVE  /\ UNCHANGED <<pvars, committed, pending, mu, flight, done, victims, now>>
         /\ mu = "plan" /\ todo # <<>> /\ todo' = Tail(todo)
         /\ \/ PlanReject \/ PlanSkip \/ PlanInsert \/ PlanRefresh \/ PlanRemove
  BY DEF PlannerDelta, PlanReject, PlanSkip, PlanInsert, PlanRefresh, PlanRemove, DraftDelta

(* The writes of the planner. *)
LEMMA PlannerWrites ==
  ASSUME PPlanner
  PROVE  /\ UNCHANGED <<writer, committer, redis, stopped, entries, seq, hash, gen, done, now>>
         /\ jobs' = jobs \/ PlannerTake \/ PlannerGather
         /\ batch' = batch \/ PlannerTake \/ PlannerGather \/ PlannerSweepPlan
         /\ owners' = owners \/ PlannerPlanned \/ PlannerDrop
         /\ sent' = sent \/ PlannerSend
         /\ reply' = reply \/ PlannerAnswer \/ PlannerRefuse
         /\ fate' = fate \/ PlannerStart \/ PlannerCheck \/ PlannerPlanned
         /\ ppc' = ppc \/ PlannerTake \/ PlannerStart \/ PlannerPlan \/ PlannerNoPlan
              \/ PlannerPlanned \/ PlannerAnswer \/ PlannerRefuse \/ PlannerSend \/ PlannerDrop
              \/ PlannerSweep \/ PlannerSweepPlan \/ PlannerExit
         /\ mu' = mu \/ PlannerPlan \/ PlannerPlanned \/ PlannerSweepPlan
         /\ flight' = flight \/ PlannerPlanned \/ PlannerDrop
         /\ pend' = pend \/ PlannerPlanned
         /\ <<idx, deltas>>' = <<idx, deltas>> \/ PlannerStart \/ PlannerCheck
<1> USE DEF writer, queue, planning, channel, committer, redis, pending, committed, draft
<1>1. CASE PlannerTake
  BY <1>1 DEF PlannerTake, vars
<1>2. CASE PlannerGather
  BY <1>2 DEF PlannerGather, vars
<1>3. CASE PlannerStart
  BY <1>3 DEF PlannerStart, vars
<1>4. CASE PlannerCheck
  BY <1>4 DEF PlannerCheck, vars
<1>5. CASE PlannerPlan
  BY <1>5 DEF PlannerPlan, PlanBatch, PlanBegin
<1>6. CASE PlannerNoPlan
  BY <1>6 DEF PlannerNoPlan, vars
<1>7. CASE PlannerDelta
  BY <1>7, DeltaWrites DEF pvars
<1>8. CASE PlannerPlanned
  BY <1>8 DEF PlannerPlanned, PlanNothing, PlanEnd
<1>9. CASE PlannerAnswer
  BY <1>9 DEF PlannerAnswer, vars
<1>10. CASE PlannerRefuse
  BY <1>10 DEF PlannerRefuse, vars
<1>11. CASE PlannerSend
  BY <1>11 DEF PlannerSend, vars
<1>12. CASE PlannerDrop
  BY <1>12 DEF PlannerDrop
<1>13. CASE PlannerSweep
  BY <1>13 DEF PlannerSweep, Expired
<1>14. CASE PlannerSweepPlan
  BY <1>14 DEF PlannerSweepPlan, PlanSweep, PlanBegin
<1>15. CASE PlannerExit
  BY <1>15 DEF PlannerExit, vars
<1> QED
  BY <1>1, <1>2, <1>3, <1>4, <1>5, <1>6, <1>7, <1>8, <1>9, <1>10, <1>11, <1>12, <1>13, <1>14,
     <1>15 DEF PPlanner

(* The writes of the committer. *)
LEMMA CommitterWrites ==
  ASSUME PCommitter
  PROVE  /\ UNCHANGED <<writer, queue, ppc, planning, draft, victims, stopped, now>>
         /\ owners' = owners \/ CommitterTake
         /\ sent' = sent \/ CommitterTake
         /\ held' = held \/ CommitterTake
         /\ reply' = reply \/ CommitterStale \/ CommitterPublish \/ CommitterAbort
         /\ \/ cpc' = cpc
            \/ CommitterTake \/ CommitterStale \/ (\E o \in {"ok", "lost", "torn"} : CommitterStore(o))
            \/ CommitterCommit \/ CommitterCommitted \/ CommitterPublish \/ CommitterAbort
            \/ CommitterExit
         /\ mu' = mu \/ CommitterCommit \/ CommitterCommitted
         /\ flight' = flight \/ CommitterStale \/ CommitterCommitted \/ CommitterAbort
         /\ entries' = entries \/ CommitterDelta
         /\ pend' = pend \/ CommitterDelta \/ CommitterAbort
         /\ gen' = gen \/ CommitterAbort
         /\ done' = done \/ CommitterCommit \/ CommitterDelta
         /\ \/ <<stored, unsure>>' = <<stored, unsure>>
            \/ \E o \in {"ok", "lost", "torn"} : CommitterStore(o)
<1> USE DEF writer, queue, planning, channel, committer, redis, pending, committed, draft
<1>1. CASE CommitterTake
  BY <1>1 DEF CommitterTake, vars
<1>2. CASE CommitterStale
  BY <1>2 DEF CommitterStale, SkipStale
<1>3. ASSUME NEW o \in {"ok", "lost", "torn"}, CommitterStore(o)
      PROVE  UNCHANGED <<vars, writer, reply, queue, ppc, planning, channel, held, stopped>>
  BY <1>3 DEF CommitterStore
<1>4. CASE \E o \in {"ok", "lost", "torn"} : CommitterStore(o)
  BY <1>3, <1>4 DEF vars
<1>5. CASE CommitterCommit
  BY <1>5 DEF CommitterCommit, CommitBegin
<1>6. CASE CommitterDelta
  BY <1>6 DEF CommitterDelta, CommitDelta, pvars
<1>7. CASE CommitterCommitted
  BY <1>7 DEF CommitterCommitted, CommitEnd
<1>8. CASE CommitterPublish
  BY <1>8 DEF CommitterPublish, vars
<1>9. CASE CommitterAbort
  BY <1>9 DEF CommitterAbort, Abort, Settle
<1>10. CASE CommitterExit
  BY <1>10 DEF CommitterExit, vars
<1> QED
  BY <1>1, <1>2, <1>4, <1>5, <1>6, <1>7, <1>8, <1>9, <1>10 DEF PCommitter

(* A stop, a tick of the clock and a step of something else. *)
Rest == Shutdown \/ Clock \/ UNCHANGED <<vars, pvars>>

(* Of all these variables the clock and the stop write only their own. *)
LEMMA RestWrites ==
  ASSUME Rest
  PROVE  /\ UNCHANGED <<writer, reply, queue, ppc, planning, channel, committer, redis>>
         /\ UNCHANGED <<committed, pending, mu, draft, flight, done, victims>>
         /\ stopped' = stopped \/ stopped' = TRUE
  BY DEF Rest, Shutdown, Clock, Tick, vars, pvars

(* The steps of a pipeline. *)
LEMMA Steps ==
  ASSUME [PNext]_<<vars, pvars>>
  PROVE  (\E w \in Writers : Writer(w) \/ Deadline(w)) \/ PPlanner \/ PCommitter \/ Rest
  BY DEF PNext, Rest

-----------------------------------------------------------------------------
(* The jobs *)

LEMMA JobTypesInit == ASSUME PInit PROVE JobTypes
  BY DEF PInit, JobTypes, Codes

(* An answer is one of the codes. *)
LEMMA AnswerType ==
  ASSUME reply \in [Writers -> Codes], NEW ws, NEW code, \A w \in Writers : code[w] \in Codes,
         Answer(ws, code)
  PROVE  /\ reply' \in [Writers -> Codes]
         /\ \A w \in Writers : reply'[w] = IF w \in ws THEN code[w] ELSE reply[w]
  BY DEF Answer

LEMMA WriterJobTypes ==
  ASSUME JobTypes, NEW w \in Writers, Writer(w) \/ Deadline(w)
  PROVE  JobTypes'
<1> USE DEF JobTypes
<1>1. /\ UNCHANGED <<reply, fate, ppc, cpc, batch, owners, held, sent, idx>>
  BY WriterWrites DEF planning, channel, committer
<1>2. jobs' \in Seq(Writers)
  <2>1. jobs' = jobs \/ jobs' = Append(jobs, w)
    BY WriterWrites DEF SubmitSend
  <2>2. jobs \in Seq(Writers)
    OBVIOUS
  <2> HIDE DEF JobTypes
  <2> QED
    BY <2>1, <2>2
<1>3. wpc' \in [Writers -> {"new", "count", "send", "wait", "done"}]
  BY WriterWrites DEF Submit, SubmitCount, SubmitSend, SubmitRetract, SubmitReturn, Return
<1>4. late' \in [Writers -> BOOLEAN]
  BY WriterWrites DEF Deadline
<1> QED
  BY <1>1, <1>2, <1>3, <1>4

LEMMA PlannerJobTypes ==
  ASSUME JobTypes, Channel, PPlanner
  PROVE  JobTypes'
<1> USE DEF JobTypes
<1>1. UNCHANGED <<wpc, late, cpc, held>>
  BY PlannerWrites DEF writer, committer
<1>2. jobs' \in Seq(Writers) /\ batch' \in Seq(Writers)
  <2>1. CASE PlannerTake
    <3>1. jobs # <<>> /\ jobs' = Tail(jobs) /\ batch' = <<Head(jobs)>>
      BY <2>1 DEF PlannerTake, Take
    <3> QED
      BY <3>1
  <2>2. CASE PlannerGather
    <3>1. jobs # <<>> /\ jobs' = Tail(jobs) /\ batch' = Append(batch, Head(jobs))
      BY <2>2 DEF PlannerGather, Take
    <3> QED
      BY <3>1
  <2>3. CASE PlannerSweepPlan
    <3>1. jobs' = jobs /\ batch' = <<>>
      BY <2>3 DEF PlannerSweepPlan, queue
    <3> QED
      BY <3>1
  <2> QED
    BY <2>1, <2>2, <2>3, PlannerWrites
<1>3. fate' \in [Writers -> {"none", "stale", "full"}]
  <2>1. CASE PlannerStart
    BY <2>1 DEF PlannerStart
  <2>2. CASE PlannerCheck
    BY <2>2 DEF PlannerCheck
  <2>3. CASE PlannerPlanned
    BY <2>3 DEF PlannerPlanned, Decide
  <2> QED
    BY <2>1, <2>2, <2>3, PlannerWrites
<1>4. owners' \in Seq(SUBSET Writers)
  <2>1. CASE PlannerPlanned
    <3> DEFINE kept == {w \in ToSet(batch) : fate'[w] = "none"}
    <3>1. kept \in SUBSET Writers
      BY ToSetType
    <3>2. owners' = owners \/ owners' = Append(owners, kept)
      BY <2>1 DEF PlannerPlanned
    <3>3. owners \in Seq(SUBSET Writers)
      OBVIOUS
    <3> HIDE DEF kept, JobTypes
    <3> QED
      BY <3>1, <3>2, <3>3
  <2>2. CASE PlannerDrop
    <3>1. ppc = "send" /\ owners' = Front(owners)
      BY <2>2 DEF PlannerDrop
    <3>2. Len(owners) > 0
      BY <3>1 DEF Channel
    <3> QED
      BY <3>1, <3>2, FrontGives
  <2> QED
    BY <2>1, <2>2, PlannerWrites
<1>5. sent' \in Nat /\ idx' \in Nat \ {0}
  <2>1. sent' = sent \/ sent' = sent + 1
    BY PlannerWrites DEF PlannerSend
  <2>2. idx' = idx \/ idx' = 1 \/ idx' = idx + 1
    BY PlannerWrites DEF PlannerStart, PlannerCheck
  <2> QED
    BY <2>1, <2>2
<1>6. ppc' \in {"idle", "gather", "check", "plan", "answer", "refuse", "send", "sweep", "exit"}
  BY PlannerWrites DEF PlannerTake, PlannerStart, PlannerPlan, PlannerNoPlan, PlannerPlanned,
     PlannerAnswer, PlannerRefuse, PlannerSend, PlannerDrop, PlannerSweep, PlannerSweepPlan,
     PlannerExit, Resume
<1>7. reply' \in [Writers -> Codes]
  <2>1. CASE PlannerAnswer
    <3>1. Answer({w \in ToSet(batch) : fate[w] # "stale"},
                 [w \in Writers |-> IF fate[w] = "none" THEN "ok" ELSE fate[w]])
      BY <2>1 DEF PlannerAnswer
    <3> QED
      BY <3>1 DEF Answer, Codes
  <2>2. CASE PlannerRefuse
    <3>1. Answer({w \in ToSet(batch) : fate[w] \notin {"none", "stale"}}, fate)
      BY <2>2 DEF PlannerRefuse
    <3> QED
      BY <3>1 DEF Answer, Codes
  <2> QED
    BY <2>1, <2>2, PlannerWrites
<1> QED
  BY <1>1, <1>2, <1>3, <1>4, <1>5, <1>6, <1>7

LEMMA CommitterJobTypes ==
  ASSUME JobTypes, Channel, PCommitter
  PROVE  JobTypes'
<1> USE DEF JobTypes
<1>1. UNCHANGED <<wpc, late, ppc, jobs, batch, fate, idx>>
  BY CommitterWrites DEF writer, queue, planning
<1>2. owners' \in Seq(SUBSET Writers) /\ held' \in SUBSET Writers /\ sent' \in Nat
  <2>1. CASE CommitterTake
    <3>1. sent > 0 /\ sent' = sent - 1 /\ held' = Head(owners) /\ owners' = Tail(owners)
      BY <2>1 DEF CommitterTake
    <3>2. Len(owners) > 0
      BY <3>1 DEF Channel
    <3> QED
      BY <3>1, <3>2
  <2> QED
    BY <2>1, CommitterWrites
<1>3. cpc' \in {"idle", "held", "stored", "refused", "commit", "publish", "exit"}
  BY CommitterWrites DEF CommitterTake, CommitterStale, CommitterStore, CommitterCommit,
     CommitterCommitted, CommitterPublish, CommitterAbort, CommitterExit
<1>4. reply' \in [Writers -> Codes]
  BY CommitterWrites, AnswerType DEF CommitterStale, CommitterPublish, CommitterAbort, Fail, Codes
<1> QED
  BY <1>1, <1>2, <1>3, <1>4

(* Locks and Channel hold at the start. *)
LEMMA LocksInit == ASSUME PInit PROVE Locks /\ Channel
  BY DEF PInit, Init, Locks, Channel

LEMMA LocksStep ==
  ASSUME JobTypes, Locks, [PNext]_<<vars, pvars>>
  PROVE  Locks'
<1> USE DEF Locks
<1>1. CASE \E w \in Writers : Writer(w) \/ Deadline(w)
  BY <1>1, WriterWrites DEF vars, committer
<1>2. CASE PPlanner
  <2>1. cpc' = cpc
    BY <1>2, PlannerWrites DEF committer
  <2>2. CASE PlannerPlan \/ PlannerSweepPlan
    BY <2>1, <2>2 DEF PlannerPlan, PlanBatch, PlannerSweepPlan, PlanSweep, PlanBegin
  <2>3. CASE PlannerPlanned
    BY <2>1, <2>3 DEF PlannerPlanned, PlanNothing, PlanEnd
  <2>4. CASE ~(PlannerPlan \/ PlannerSweepPlan \/ PlannerPlanned)
    <3>1. mu' = mu
      BY <1>2, <2>4, PlannerWrites
    <3>2. ppc' = ppc \/ (ppc # "plan" /\ ppc' # "plan")
      BY <1>2, <2>4, PlannerWrites DEF PlannerTake, PlannerStart, PlannerNoPlan, PlannerAnswer,
         PlannerRefuse, PlannerSend, PlannerDrop, PlannerSweep, PlannerExit, Resume
    <3> QED
      BY <2>1, <3>1, <3>2
  <2> QED
    BY <2>2, <2>3, <2>4
<1>3. CASE PCommitter
  <2>1. ppc' = ppc
    BY <1>3, CommitterWrites
  <2>2. CASE CommitterCommit
    BY <2>1, <2>2 DEF CommitterCommit, CommitBegin
  <2>3. CASE CommitterCommitted
    BY <2>1, <2>3 DEF CommitterCommitted, CommitEnd
  <2>4. CASE ~(CommitterCommit \/ CommitterCommitted)
    <3>1. mu' = mu
      BY <1>3, <2>4, CommitterWrites
    <3>2. cpc' = cpc \/ (cpc # "commit" /\ cpc' # "commit")
      BY <1>3, <2>4, CommitterWrites DEF CommitterTake, CommitterStale, CommitterStore,
         CommitterPublish, CommitterAbort, CommitterExit
    <3> QED
      BY <2>1, <3>1, <3>2
  <2> QED
    BY <2>2, <2>3, <2>4
<1>4. CASE Rest
  BY <1>4, RestWrites DEF committer
<1> QED
  BY <1>1, <1>2, <1>3, <1>4, Steps

LEMMA ChannelStep ==
  ASSUME JobTypes, Locks, Channel, [PNext]_<<vars, pvars>>
  PROVE  Channel'
<1> USE DEF Channel
<1>0. sent \in Nat /\ owners \in Seq(SUBSET Writers) /\ Len(owners) \in Nat
  BY DEF JobTypes
<1>1. CASE \E w \in Writers : Writer(w) \/ Deadline(w)
  BY <1>1, WriterWrites DEF channel
<1>2. CASE PPlanner
  <2>1. CASE PlannerPlanned
    <3>1. ppc = "plan" /\ sent' = sent
      BY <2>1 DEF PlannerPlanned, PlanNothing, PlanEnd, Locks
    <3>2. \/ owners' = owners /\ ppc' = "answer"
          \/ Len(owners') = Len(owners) + 1 /\ ppc' = "refuse"
      BY <1>0, <2>1 DEF PlannerPlanned
    <3> QED
      BY <1>0, <3>1, <3>2
  <2>2. CASE PlannerDrop
    <3>1. /\ ppc = "send" /\ ppc' \in {"idle", "sweep"} /\ sent' = sent
          /\ owners' = Front(owners)
      BY <2>2 DEF PlannerDrop, Resume
    <3> QED
      BY <1>0, <3>1, FrontGives
  <2>3. CASE PlannerSend
    <3>1. /\ ppc = "send" /\ ppc' \in {"idle", "sweep"} /\ sent' = sent + 1
          /\ owners' = owners
      BY <2>3 DEF PlannerSend, Resume
    <3> QED
      BY <1>0, <3>1
  <2>4. CASE ~(PlannerPlanned \/ PlannerDrop \/ PlannerSend)
    <3>1. owners' = owners /\ sent' = sent
      BY <1>2, <2>4, PlannerWrites
    <3>2. ppc' \in {"refuse", "send"} <=> ppc \in {"refuse", "send"}
      BY <1>2, <2>4, PlannerWrites DEF PlannerTake, PlannerStart, PlannerPlan, PlannerNoPlan,
         PlannerAnswer, PlannerRefuse, PlannerSweep, PlannerSweepPlan, PlannerExit, Resume, Locks,
         PlanSweep, PlanBegin
    <3> QED
      BY <3>1, <3>2
  <2> QED
    BY <2>1, <2>2, <2>3, <2>4
<1>3. CASE PCommitter
  <2>1. ppc' = ppc
    BY <1>3, CommitterWrites
  <2>2. CASE CommitterTake
    <3>1. sent > 0 /\ sent' = sent - 1 /\ owners' = Tail(owners)
      BY <2>2 DEF CommitterTake
    <3>2. Len(Tail(owners)) = Len(owners) - 1
      BY <1>0, <3>1, TailGives
    <3> QED
      BY <1>0, <2>1, <3>1, <3>2
  <2>3. CASE ~CommitterTake
    BY <1>3, <2>1, <2>3, CommitterWrites
  <2> QED
    BY <2>2, <2>3
<1>4. CASE Rest
  BY <1>4, RestWrites DEF channel
<1> QED
  BY <1>1, <1>2, <1>3, <1>4, Steps

-----------------------------------------------------------------------------
(* Where the jobs are *)

(* What the planner does to the jobs on its desk. *)
LEMMA DeskWrites ==
  ASSUME JobTypes, Locks, PPlanner
  PROVE  \/ Desk' = Desk
         \/ PlannerTake \/ PlannerGather \/ PlannerPlanned \/ PlannerAnswer \/ PlannerRefuse
<1> SUFFICES ASSUME ~(PlannerTake \/ PlannerGather \/ PlannerPlanned \/ PlannerAnswer \/ PlannerRefuse)
             PROVE  Desk' = Desk
  OBVIOUS
<1>1. CASE PlannerSweepPlan
  <2>1. ppc = "sweep" /\ ppc' = "plan" /\ batch' = <<>>
    BY <1>1 DEF PlannerSweepPlan
  <2> QED
    BY <2>1, ToSetNone DEF Desk
<1>2. CASE ~PlannerSweepPlan
  <2>1. batch' = batch
    BY <1>2, PlannerWrites
  <2>2. \/ ppc' = ppc
        \/ /\ ppc \in {"gather", "check", "plan", "answer"}
           /\ ppc' \in {"gather", "check", "plan", "answer"}
        \/ /\ ppc \notin {"gather", "check", "plan", "answer", "refuse"}
           /\ ppc' \notin {"gather", "check", "plan", "answer", "refuse"}
    BY <1>2, PlannerWrites DEF PlannerStart, PlannerPlan, PlannerNoPlan, PlannerSend, PlannerDrop,
       PlannerSweep, PlannerExit, Resume
  <2>3. ppc = "refuse" => fate' = fate
    BY <1>2, PlannerWrites DEF PlannerStart, PlannerCheck
  <2> QED
    BY <2>1, <2>2, <2>3 DEF Desk
<1> QED
  BY <1>1, <1>2

(* What the committer does to the jobs in its hands. *)
LEMMA HandsWrites ==
  ASSUME JobTypes, Locks, PCommitter
  PROVE  \/ Hands' = Hands
         \/ CommitterTake \/ CommitterStale \/ CommitterPublish \/ CommitterAbort
<1> SUFFICES ASSUME ~(CommitterTake \/ CommitterStale \/ CommitterPublish \/ CommitterAbort)
             PROVE  Hands' = Hands
  OBVIOUS
<1>1. held' = held
  BY CommitterWrites
<1>2. cpc' = cpc \/ (cpc' \in {"idle", "exit"} <=> cpc \in {"idle", "exit"})
  <2>1. CASE CommitterCommitted
    BY <2>1, CommitterWrites DEF CommitterCommitted, CommitEnd, Locks, JobTypes
  <2> QED
    BY <2>1, CommitterWrites DEF CommitterStore, CommitterCommit, CommitterExit
<1> QED
  BY <1>1, <1>2 DEF Hands

(* Handlers, clock and stop move no job that has been sent. *)
LEMMA PlacesKept ==
  ASSUME (\E w \in Writers : Writer(w) \/ Deadline(w)) \/ Rest
  PROVE  UNCHANGED <<Desk, Hands, owners, batch, reply, fate, ppc, cpc, held, idx>>
<1>1. UNCHANGED <<ppc, batch, fate, cpc, held, owners, reply, idx>>
  BY WriterWrites, RestWrites DEF planning, committer, channel
<1> QED
  BY <1>1 DEF Desk, Hands

LEMMA ApartInit == ASSUME PInit PROVE Apart /\ Open /\ Fates /\ NoJobLost
<1>1. /\ jobs = <<>> /\ batch = <<>> /\ owners = <<>> /\ ppc = "idle" /\ cpc = "idle"
      /\ \A w \in Writers : reply[w] = "none" /\ fate[w] = "none" /\ wpc[w] = "new"
  BY DEF PInit
<1>2. Desk = {} /\ Hands = {} /\ DOMAIN owners = {} /\ ToSet(jobs) = {} /\ NoRepeat(jobs)
  BY <1>1, ToSetNone DEF Desk, Hands
<1>3. Apart
  BY <1>1, <1>2 DEF Apart
<1>4. Open
  BY <1>1, <1>2 DEF Open
<1>5. Fates /\ NoJobLost
  BY <1>1 DEF Fates, NoJobLost, InPipeline
<1> QED
  BY <1>3, <1>4, <1>5

(* A job that is sent was nowhere before. *)
LEMMA WriterApart ==
  ASSUME JobTypes, Apart, Open, NEW w \in Writers, Writer(w) \/ Deadline(w)
  PROVE  Apart' /\ Open'
<1>1. /\ UNCHANGED <<Desk, Hands, owners, batch, reply, ppc>>
  BY PlacesKept
<1>2. CASE SubmitSend(w)
  <2>1. /\ jobs' = Append(jobs, w) /\ wpc[w] = "send"
        /\ \A x \in Writers : wpc'[x] = IF x = w THEN "wait" ELSE wpc[x]
    BY <1>2 DEF SubmitSend, JobTypes
  <2>2. /\ w \notin ToSet(jobs) /\ w \notin Desk /\ w \notin Hands
        /\ \A i \in DOMAIN owners : w \notin owners[i]
        /\ reply[w] = "none"
    BY <2>1 DEF Open
  <2>3. ToSet(jobs') = ToSet(jobs) \cup {w} /\ (NoRepeat(jobs) => NoRepeat(jobs'))
    BY <2>1, <2>2, ToSetAppend DEF JobTypes
  <2>4. Apart'
    BY <1>1, <2>2, <2>3 DEF Apart
  <2>5. /\ Desk \subseteq Writers /\ Hands \subseteq Writers /\ ToSet(jobs) \subseteq Writers
        /\ \A i \in DOMAIN owners : owners[i] \subseteq Writers
    BY ToSetType DEF Desk, Hands, JobTypes
  <2>6. Open'
    BY <1>1, <2>1, <2>2, <2>3, <2>5 DEF Open
  <2> QED
    BY <2>4, <2>6
<1>3. CASE ~SubmitSend(w)
  <2>1. jobs' = jobs
    BY <1>3, WriterWrites
  <2>2. Apart'
    BY <1>1, <2>1 DEF Apart
  <2>3. \A x \in Writers : \/ wpc'[x] = wpc[x]
                           \/ wpc[x] = "wait" /\ wpc'[x] = "done"
                           \/ wpc[x] \in {"new", "count", "send"}
    BY <1>3, WriterWrites DEF Submit, SubmitCount, SubmitRetract, SubmitReturn, Return, JobTypes
  <2>4. \A x \in Writers : wpc'[x] \in {"new", "count", "send"} => wpc[x] \in {"new", "count", "send"}
    BY <1>3, WriterWrites DEF Submit, SubmitCount, SubmitRetract, SubmitReturn, Return, JobTypes
  <2>5. /\ Desk \subseteq Writers /\ Hands \subseteq Writers /\ ToSet(jobs) \subseteq Writers
        /\ \A i \in DOMAIN owners : owners[i] \subseteq Writers
    BY ToSetType DEF Desk, Hands, JobTypes
  <2>6. Open'
    BY <1>1, <2>1, <2>3, <2>4, <2>5 DEF Open
  <2> QED
    BY <2>2, <2>6
<1> QED
  BY <1>2, <1>3

(* The planner takes the job at the head of the channel. *)
LEMMA TakeApart ==
  ASSUME JobTypes, Apart, Open, PlannerTake \/ PlannerGather
  PROVE  Apart' /\ Open'
<1>1. /\ UNCHANGED <<Hands, owners, reply, wpc>>
      /\ jobs # <<>> /\ jobs' = Tail(jobs) /\ ppc' = "gather"
      /\ jobs \in Seq(Writers) /\ batch \in Seq(Writers)
  BY DEF PlannerTake, PlannerGather, Take, Hands, committer, channel, writer, JobTypes
<1>2. /\ ToSet(jobs') = ToSet(jobs) \ {Head(jobs)} /\ Head(jobs) \in ToSet(jobs)
      /\ NoRepeat(jobs') /\ Head(jobs) \in Writers
  BY <1>1, ToSetTail DEF Apart
<1>3. Desk' = Desk \cup {Head(jobs)} /\ NoRepeat(batch')
  <2>1. CASE PlannerTake
    <3>1. Desk = {} /\ batch' = <<Head(jobs)>>
      BY <2>1 DEF PlannerTake, Desk
    <3> QED
      BY <1>1, <1>2, <3>1, ToSetOne DEF Desk
  <2>2. CASE PlannerGather
    <3>1. ppc = "gather" /\ batch' = Append(batch, Head(jobs)) /\ Desk = ToSet(batch)
      BY <2>2 DEF PlannerGather, Desk
    <3>2. NoRepeat(batch) /\ Head(jobs) \notin ToSet(batch)
      BY <1>2, <3>1 DEF Apart
    <3> QED
      BY <1>1, <1>2, <3>1, <3>2, ToSetAppend DEF Desk
  <2> QED
    BY <2>1, <2>2
<1>4. Apart'
  BY <1>1, <1>2, <1>3 DEF Apart
<1>5. Open'
  BY <1>1, <1>2, <1>3 DEF Open
<1> QED
  BY <1>4, <1>5

(* The accepted jobs leave the desk with their plan. *)
LEMMA PlannedApart ==
  ASSUME JobTypes, Locks, Apart, Open, PlannerPlanned
  PROVE  /\ Apart' /\ Open'
         /\ ppc = "plan"
         /\ \/ PlanNothing /\ owners' = owners /\ ppc' = "answer"
            \/ /\ PlanEnd /\ ppc' = "refuse"
               /\ owners' = Append(owners, {w \in ToSet(batch) : fate'[w] = "none"})
<1> DEFINE kept == {w \in ToSet(batch) : fate'[w] = "none"}
<1>1. /\ UNCHANGED <<Hands, jobs, batch, reply, wpc>>
      /\ ppc = "plan" /\ Desk = ToSet(batch)
  BY DEF PlannerPlanned, PlanNothing, PlanEnd, Locks, Hands, committer, writer, queue, Desk
<1>2. \/ PlanNothing /\ owners' = owners /\ ppc' = "answer"
      \/ PlanEnd /\ ppc' = "refuse" /\ owners' = Append(owners, kept)
  BY DEF PlannerPlanned
<1>3. kept \in SUBSET Writers /\ kept \subseteq Desk /\ owners \in Seq(SUBSET Writers)
  BY <1>1, ToSetType DEF JobTypes
<1>4. CASE owners' = owners /\ ppc' = "answer"
  <2>1. Desk' = Desk
    BY <1>1, <1>4 DEF Desk
  <2> QED
    BY <1>1, <1>2, <1>4, <2>1 DEF Apart, Open
<1>5. CASE ppc' = "refuse" /\ owners' = Append(owners, kept)
  <2>1. Desk' = Desk \ kept
    BY <1>1, <1>5 DEF Desk
  <2> HIDE DEF kept
  <2>2. /\ DOMAIN owners' = 1..(Len(owners) + 1) /\ DOMAIN owners = 1..Len(owners)
        /\ \A i \in 1..Len(owners) : owners'[i] = owners[i]
        /\ owners'[Len(owners) + 1] = kept /\ Len(owners) \in Nat
    BY <1>3, <1>5, AppendGives
  <2>3. \A i \in DOMAIN owners' : (i \in DOMAIN owners /\ owners'[i] = owners[i])
                                  \/ (i = Len(owners) + 1 /\ owners'[i] = kept)
    BY <2>2
  <2>4. Apart'
    BY <1>1, <1>3, <1>5, <2>1, <2>3 DEF Apart
  <2>5. Open'
    BY <1>1, <1>3, <1>5, <2>1, <2>3 DEF Open
  <2> QED
    BY <1>1, <1>2, <2>4, <2>5 DEF kept
<1> QED
  BY <1>2, <1>4, <1>5

(* The planner answers jobs on its desk, all but the stale ones, and clears it. *)
LEMMA PlannerAnswers ==
  ASSUME JobTypes, PlannerAnswer \/ PlannerRefuse
  PROVE  /\ UNCHANGED <<Hands, jobs, owners, wpc, batch, fate, sent, late, cpc, held>>
         /\ Desk' = {}
         /\ \A w \in Writers :
              reply'[w] = IF w \in Desk /\ fate[w] # "stale"
                          THEN (IF fate[w] = "none" THEN "ok" ELSE fate[w])
                          ELSE reply[w]
         /\ \/ ppc = "answer" /\ ppc' \in {"idle", "sweep"}
            \/ ppc = "refuse" /\ ppc' = "send"
<1>1. UNCHANGED <<Hands, jobs, owners, wpc, batch, fate, sent, late, cpc, held>>
  BY DEF PlannerAnswer, PlannerRefuse, Hands, committer, queue, writer, planning, channel
<1>2. CASE PlannerAnswer
  <2>1. /\ ppc = "answer" /\ ppc' \in {"idle", "sweep"} /\ Desk = ToSet(batch) /\ Desk' = {}
        /\ Answer({w \in ToSet(batch) : fate[w] # "stale"},
                  [w \in Writers |-> IF fate[w] = "none" THEN "ok" ELSE fate[w]])
    BY <1>2 DEF PlannerAnswer, Resume, Desk
  <2> QED
    BY <1>1, <2>1 DEF Answer
<1>3. CASE PlannerRefuse
  <2>1. /\ ppc = "refuse" /\ ppc' = "send" /\ Desk' = {}
        /\ Desk = {w \in ToSet(batch) : fate[w] # "none"}
        /\ Answer({w \in ToSet(batch) : fate[w] \notin {"none", "stale"}}, fate)
    BY <1>3 DEF PlannerRefuse, Desk
  <2> QED
    BY <1>1, <2>1 DEF Answer
<1> QED
  BY <1>2, <1>3

(* The committer answers the jobs in its hands and has none afterwards. *)
LEMMA CommitterAnswers ==
  ASSUME JobTypes, CommitterStale \/ CommitterPublish \/ CommitterAbort
  PROVE  /\ UNCHANGED <<Desk, jobs, owners, wpc, batch, fate, ppc, late, held>>
         /\ Hands = held /\ Hands' = {} /\ cpc' = "idle"
         /\ \A w \in Writers : w \notin held => reply'[w] = reply[w]
         /\ \A w \in Writers \cap held :
              \/ reply'[w] = "ok" /\ cpc = "publish"
              \/ reply'[w] = "store_unavailable" /\ ~CommitterPublish
<1>1. UNCHANGED <<Desk, jobs, owners, wpc, batch, fate, ppc, late, held>>
  BY DEF CommitterStale, CommitterPublish, CommitterAbort, Desk, queue, writer, planning, channel
<1>2. Hands = held /\ Hands' = {} /\ cpc' = "idle"
  BY DEF CommitterStale, CommitterPublish, CommitterAbort, Hands
<1>3. CASE CommitterPublish
  <2>1. cpc = "publish" /\ Answer(held, [w \in Writers |-> "ok"])
    BY <1>3 DEF CommitterPublish
  <2> QED
    BY <1>1, <1>2, <2>1 DEF Answer
<1>4. CASE ~CommitterPublish
  <2>1. Answer(held, [w \in Writers |-> "store_unavailable"])
    BY <1>4 DEF CommitterStale, CommitterAbort, Fail
  <2> QED
    BY <1>1, <1>2, <1>4, <2>1 DEF Answer
<1> QED
  BY <1>3, <1>4

(* The jobs in the places are jobs of writers. *)
LEMMA PlacesType ==
  ASSUME JobTypes
  PROVE  /\ Desk \subseteq Writers /\ Hands \subseteq Writers /\ ToSet(jobs) \subseteq Writers
         /\ \A i \in DOMAIN owners : owners[i] \subseteq Writers
         /\ DOMAIN owners = 1..Len(owners) /\ Len(owners) \in Nat
  BY ToSetType DEF Desk, Hands, JobTypes

LEMMA PlannerApart ==
  ASSUME JobTypes, Locks, Channel, Apart, Open, PPlanner
  PROVE  Apart' /\ Open'
<1>1. CASE PlannerTake \/ PlannerGather
  BY <1>1, TakeApart
<1>2. CASE PlannerPlanned
  BY <1>2, PlannedApart
<1>3. CASE PlannerAnswer \/ PlannerRefuse
  <2>1. Apart'
    BY <1>3, PlannerAnswers DEF Apart
  <2>2. Open'
    BY <1>3, PlannerAnswers, PlacesType DEF Apart, Open
  <2> QED
    BY <2>1, <2>2
<1>4. CASE PlannerDrop
  <2>1. /\ UNCHANGED <<Desk, Hands, jobs, reply, wpc>> /\ ppc' \notin {"gather", "check"}
        /\ ppc = "send" /\ owners' = Front(owners)
    BY <1>4 DEF PlannerDrop, Resume, Desk, Hands, committer, queue, writer, planning
  <2>2. \A i \in DOMAIN owners' : i \in DOMAIN owners /\ owners'[i] = owners[i]
    <3>1. owners \in Seq(SUBSET Writers) /\ Len(owners) > 0
      BY <2>1 DEF Channel, JobTypes
    <3> QED
      BY <2>1, <3>1, FrontGives
  <2> QED
    BY <2>1, <2>2 DEF Apart, Open
<1>5. CASE ~(PlannerTake \/ PlannerGather \/ PlannerPlanned \/ PlannerAnswer \/ PlannerRefuse
             \/ PlannerDrop)
  <2>1. UNCHANGED <<Desk, Hands, jobs, owners, reply, wpc>>
    BY <1>5, PlannerWrites, DeskWrites DEF Hands, committer, writer
  <2>2. ppc' \in {"gather", "check"} => ppc \in {"gather", "check"} /\ batch' = batch
    BY <1>5, PlannerWrites DEF PlannerStart, PlannerPlan, PlannerNoPlan, PlannerSend,
       PlannerSweep, PlannerSweepPlan, PlannerExit, Resume
  <2> QED
    BY <2>1, <2>2 DEF Apart, Open
<1> QED
  BY <1>1, <1>2, <1>3, <1>4, <1>5

LEMMA CommitterApart ==
  ASSUME JobTypes, Locks, Channel, Apart, Open, PCommitter
  PROVE  Apart' /\ Open'
<1>1. ppc' = ppc /\ batch' = batch /\ jobs' = jobs /\ Desk' = Desk /\ wpc' = wpc
  BY CommitterWrites DEF planning, queue, writer, Desk
<1>2. CASE CommitterTake
  <2>1. /\ sent > 0 /\ owners' = Tail(owners) /\ reply' = reply
        /\ Hands = {} /\ Hands' = Head(owners)
    BY <1>2 DEF CommitterTake, Hands
  <2>2. /\ \A i \in DOMAIN owners' : i + 1 \in DOMAIN owners /\ owners'[i] = owners[i + 1]
        /\ \A i \in DOMAIN owners' : i \in Nat /\ i + 1 # 1
        /\ 1 \in DOMAIN owners /\ Hands' = owners[1]
    <3>1. owners \in Seq(SUBSET Writers) /\ Len(owners) > 0
      BY <2>1 DEF Channel, JobTypes
    <3> QED
      BY <2>1, <3>1, TailGives
  <2>3. Apart'
    BY <1>1, <2>1, <2>2 DEF Apart
  <2>4. Open'
    BY <1>1, <2>1, <2>2 DEF Open
  <2> QED
    BY <2>3, <2>4
<1>3. CASE CommitterStale \/ CommitterPublish \/ CommitterAbort
  <2>1. Apart'
    BY <1>3, CommitterAnswers DEF Apart
  <2>2. Open'
    BY <1>3, CommitterAnswers, PlacesType DEF Apart, Open
  <2> QED
    BY <2>1, <2>2
<1>4. CASE ~(CommitterTake \/ CommitterStale \/ CommitterPublish \/ CommitterAbort)
  <2>1. Hands' = Hands /\ owners' = owners /\ reply' = reply
    BY <1>4, CommitterWrites, HandsWrites
  <2> QED
    BY <1>1, <2>1 DEF Apart, Open
<1> QED
  BY <1>2, <1>3, <1>4

LEMMA ApartStep ==
  ASSUME JobTypes, Locks, Channel, Apart, Open, [PNext]_<<vars, pvars>>
  PROVE  Apart' /\ Open'
<1>1. CASE Rest
  <2>1. UNCHANGED <<Desk, Hands, owners, batch, reply, ppc, jobs, wpc>>
    BY <1>1, PlacesKept, RestWrites DEF queue, writer
  <2> QED
    BY <2>1 DEF Apart, Open
<1> QED
  BY <1>1, Steps, WriterApart, PlannerApart, CommitterApart

LEMMA FatesStep ==
  ASSUME JobInv, JobTypes', [PNext]_<<vars, pvars>>
  PROVE  Fates'
<1>0. JobTypes /\ Locks /\ Channel /\ Apart /\ Open /\ Fates
  BY DEF JobInv
<1>1. \A w \in Writers : late[w] => late'[w]
  <2>1. CASE \E w \in Writers : Writer(w) \/ Deadline(w)
    <3>1. late' = late \/ \E w \in Writers : late' = [late EXCEPT ![w] = TRUE]
      BY <2>1, WriterWrites DEF Deadline
    <3> QED
      BY <1>0, <3>1 DEF JobTypes
  <2> QED
    BY <2>1, Steps, PlannerWrites, CommitterWrites, RestWrites DEF writer
<1>2. \A w \in Writers : fate'[w] = "stale" => late[w]
  <2>1. CASE PPlanner
    <3>1. CASE PlannerStart
      BY <3>1 DEF PlannerStart
    <3>2. CASE PlannerCheck
      BY <1>0, <3>2 DEF PlannerCheck, JobTypes, Fates
    <3>3. CASE PlannerPlanned
      BY <1>0, <3>3 DEF PlannerPlanned, Decide, Fates
    <3> QED
      BY <1>0, <2>1, <3>1, <3>2, <3>3, PlannerWrites DEF Fates
  <2>2. CASE ~PPlanner
    <3>1. fate' = fate
      BY <2>2, Steps, WriterWrites, CommitterWrites, RestWrites DEF planning
    <3> QED
      BY <1>0, <3>1 DEF Fates
  <2> QED
    BY <2>1, <2>2
<1>3. ppc' = "refuse" => \A w \in ToSet(batch') : fate'[w] = "none" => w \in owners'[Len(owners')]
  <2> SUFFICES ASSUME ppc' = "refuse", NEW w \in ToSet(batch'), fate'[w] = "none"
               PROVE  w \in owners'[Len(owners')]
    OBVIOUS
  <2>1. CASE PlannerPlanned
    <3> DEFINE kept == {x \in ToSet(batch) : fate'[x] = "none"}
    <3>1. batch' = batch /\ owners' = Append(owners, kept)
      BY <1>0, <2>1, PlannedApart DEF PlannerPlanned
    <3>2. w \in kept /\ kept \in SUBSET Writers /\ owners \in Seq(SUBSET Writers)
      BY <1>0, <3>1, ToSetType DEF JobTypes
    <3> HIDE DEF kept
    <3> QED
      BY <3>1, <3>2, AppendGives
  <2>2. CASE PPlanner /\ ~PlannerPlanned
    <3>1. ppc = "refuse"
      BY <2>2, PlannerWrites DEF PlannerTake, PlannerStart, PlannerPlan, PlannerNoPlan,
         PlannerAnswer, PlannerRefuse, PlannerSend, PlannerDrop, PlannerSweep, PlannerSweepPlan,
         PlannerExit, Resume
    <3>2. batch' = batch /\ fate' = fate /\ owners' = owners
      BY <2>2, <3>1, PlannerWrites DEF PlannerTake, PlannerGather, PlannerSweepPlan, PlannerStart,
         PlannerCheck, PlannerDrop
    <3> QED
      BY <1>0, <3>1, <3>2 DEF Fates
  <2>3. CASE CommitterTake
    <3>1. ppc = "refuse" /\ batch' = batch /\ fate' = fate /\ owners' = Tail(owners) /\ sent > 0
      BY <2>3 DEF CommitterTake, planning
    <3>2. w \in owners[Len(owners)] /\ owners \in Seq(SUBSET Writers) /\ Len(owners) > 1
      BY <1>0, <3>1 DEF Fates, Channel, JobTypes
    <3> QED
      BY <3>1, <3>2, TailGives
  <2>4. CASE ~PPlanner /\ ~CommitterTake
    <3>1. UNCHANGED <<ppc, batch, fate, owners>>
      BY <2>4, Steps, PlacesKept, CommitterWrites DEF planning
    <3> QED
      BY <1>0, <3>1 DEF Fates
  <2> QED
    BY <2>1, <2>2, <2>3, <2>4 DEF PPlanner
<1> QED
  BY <1>1, <1>2, <1>3 DEF Fates, JobTypes

(* The job of this writer is in one of the places. *)
Somewhere(w) ==
  \/ w \in ToSet(jobs) \/ w \in Desk \/ w \in Hands
  \/ \E i \in DOMAIN owners : w \in owners[i]

(* NoJobLost in terms of the places. *)
LEMMA LostMeans ==
  ASSUME JobTypes, Channel, Fates
  PROVE  NoJobLost <=> \A w \in Writers :
           wpc[w] = "wait" /\ reply[w] = "none" /\ ~late[w] /\ ~stopped => Somewhere(w)
<1>1. ppc = "refuse" => Len(owners) \in DOMAIN owners
  BY PlacesType DEF Channel, JobTypes
<1> QED
  BY <1>1 DEF NoJobLost, InPipeline, Somewhere, Desk, Hands, Fates

(* No step loses a job: it stays, moves on, or is answered. *)
LEMMA SomewhereStep ==
  ASSUME JobInv, [PNext]_<<vars, pvars>>, NEW w \in Writers, Somewhere(w)
  PROVE  Somewhere(w)' \/ reply'[w] # "none" \/ late[w] \/ stopped
<1>0. JobTypes /\ Locks /\ Channel /\ Apart /\ Open /\ Fates
  BY DEF JobInv
<1>1. CASE (\E x \in Writers : Writer(x) \/ Deadline(x)) \/ Rest
  <2>1. UNCHANGED <<Desk, Hands, owners>>
    BY <1>1, PlacesKept
  <2>2. jobs' = jobs \/ \E x \in Writers : jobs' = Append(jobs, x)
    BY <1>1, WriterWrites, RestWrites DEF SubmitSend, queue
  <2>3. ToSet(jobs) \subseteq ToSet(jobs')
    <3>1. jobs \in Seq(Writers)
      BY <1>0 DEF JobTypes
    <3>2. ASSUME NEW x \in Writers, jobs' = Append(jobs, x)
          PROVE  ToSet(jobs') = ToSet(jobs) \cup {x}
      BY <3>1, <3>2, ToSetAppend
    <3> QED
      BY <2>2, <3>2
  <2> QED
    BY <2>1, <2>3 DEF Somewhere
<1>2. CASE PlannerTake \/ PlannerGather
  <2>1. UNCHANGED <<Hands, owners>> /\ jobs # <<>> /\ jobs' = Tail(jobs) /\ ppc' = "gather"
    BY <1>2 DEF PlannerTake, PlannerGather, Take, Hands, committer, channel
  <2>2. ToSet(jobs') = ToSet(jobs) \ {Head(jobs)} /\ Head(jobs) \in Writers
    BY <1>0, <2>1, ToSetTail DEF Apart, JobTypes
  <2>3. Desk \subseteq Desk' /\ Head(jobs) \in Desk'
    <3>1. CASE PlannerTake
      BY <2>1, <2>2, <3>1, ToSetOne DEF PlannerTake, Desk
    <3>2. CASE PlannerGather
      BY <1>0, <2>1, <2>2, <3>2, ToSetAppend DEF PlannerGather, Desk, JobTypes
    <3> QED
      BY <1>2, <3>1, <3>2
  <2> QED
    BY <2>1, <2>2, <2>3 DEF Somewhere
<1>3. CASE PlannerPlanned
  <2> DEFINE kept == {x \in ToSet(batch) : fate'[x] = "none"}
  <2>1. UNCHANGED <<Hands, jobs, batch>> /\ Desk = ToSet(batch)
    BY <1>0, <1>3, PlannedApart DEF PlannerPlanned, Hands, committer, queue, Desk
  <2>2. \/ owners' = owners /\ Desk' = Desk
        \/ owners' = Append(owners, kept) /\ Desk' = Desk \ kept
    BY <1>0, <1>3, <2>1, PlannedApart DEF Desk
  <2>3. kept \in SUBSET Writers /\ owners \in Seq(SUBSET Writers)
    BY <1>0, ToSetType DEF JobTypes
  <2> HIDE DEF kept
  <2>4. CASE owners' = Append(owners, kept) /\ Desk' = Desk \ kept
    <3>1. /\ \A i \in DOMAIN owners : i \in DOMAIN owners' /\ owners'[i] = owners[i]
          /\ \E i \in DOMAIN owners' : owners'[i] = kept
      BY <2>3, <2>4, AppendGives
    <3> QED
      BY <2>1, <2>4, <3>1 DEF Somewhere
  <2> QED
    BY <2>1, <2>2, <2>4 DEF Somewhere
<1>4. CASE PlannerAnswer \/ PlannerRefuse
  BY <1>0, <1>4, PlannerAnswers DEF Somewhere, Fates, JobTypes
<1>5. CASE PlannerDrop
  BY <1>5 DEF PlannerDrop
<1>6. CASE PPlanner /\ ~(PlannerTake \/ PlannerGather \/ PlannerPlanned \/ PlannerAnswer
                         \/ PlannerRefuse \/ PlannerDrop)
  <2>1. UNCHANGED <<Desk, Hands, jobs, owners>>
    BY <1>0, <1>6, PlannerWrites, DeskWrites DEF Hands, committer
  <2> QED
    BY <2>1 DEF Somewhere
<1>7. CASE CommitterTake
  <2>1. /\ UNCHANGED <<Desk, jobs>> /\ Hands = {} /\ Hands' = Head(owners) /\ sent > 0
        /\ owners' = Tail(owners)
    BY <1>7 DEF CommitterTake, Desk, Hands, planning, queue
  <2>2. owners \in Seq(SUBSET Writers) /\ Len(owners) > 0
    BY <1>0, <2>1 DEF Channel, JobTypes
  <2>3. \A i \in DOMAIN owners : owners[i] = Hands' \/ \E j \in DOMAIN owners' : owners'[j] = owners[i]
    <3> SUFFICES ASSUME NEW i \in DOMAIN owners, i # 1
                 PROVE  i - 1 \in DOMAIN owners' /\ owners'[i - 1] = owners[i]
      BY <2>1, <2>2, TailGives
    <3> QED
      BY <2>1, <2>2, TailGives
  <2> QED
    BY <2>1, <2>3 DEF Somewhere
<1>8. CASE CommitterStale \/ CommitterPublish \/ CommitterAbort
  BY <1>0, <1>8, CommitterAnswers DEF Somewhere
<1>9. CASE PCommitter /\ ~(CommitterTake \/ CommitterStale \/ CommitterPublish \/ CommitterAbort)
  <2>1. UNCHANGED <<Desk, Hands, jobs, owners>>
    BY <1>0, <1>9, CommitterWrites, HandsWrites DEF Desk, planning, queue
  <2> QED
    BY <2>1 DEF Somewhere
<1> QED
  BY <1>1, <1>2, <1>3, <1>4, <1>5, <1>6, <1>7, <1>8, <1>9, Steps

(* Only jobs that are not answered yet get an answer. *)
LEMMA OpenStays ==
  ASSUME JobInv, [PNext]_<<vars, pvars>>, NEW w \in Writers, reply[w] # "none"
  PROVE  reply'[w] = reply[w]
<1>0. JobTypes /\ Open
  BY DEF JobInv
<1>1. CASE PlannerAnswer \/ PlannerRefuse
  BY <1>0, <1>1, PlannerAnswers DEF Open
<1>2. CASE CommitterStale \/ CommitterPublish \/ CommitterAbort
  BY <1>0, <1>2, CommitterAnswers DEF Open
<1> QED
  BY <1>1, <1>2, Steps, WriterWrites, PlannerWrites, CommitterWrites, RestWrites

LEMMA NoJobLostStep ==
  ASSUME JobInv, JobTypes', Channel', Fates', [PNext]_<<vars, pvars>>
  PROVE  NoJobLost'
<1>0. JobTypes /\ Channel /\ Fates /\ Open /\ NoJobLost
  BY DEF JobInv
<1>1. ASSUME NEW w \in Writers, wpc'[w] = "wait", reply'[w] = "none", ~late'[w], ~stopped'
      PROVE  Somewhere(w)'
  <2>1. ~stopped /\ ~late[w]
    <3>1. stopped => stopped'
      BY Steps, WriterWrites, PlannerWrites, CommitterWrites, RestWrites DEF writer
    <3>2. late[w] => late'[w]
      <4>1. CASE \E x \in Writers : Writer(x) \/ Deadline(x)
        <5>1. late' = late \/ \E x \in Writers : late' = [late EXCEPT ![x] = TRUE]
          BY <4>1, WriterWrites DEF Deadline
        <5> QED
          BY <1>0, <5>1 DEF JobTypes
      <4> QED
        BY <4>1, Steps, PlannerWrites, CommitterWrites, RestWrites DEF writer
    <3> QED
      BY <1>1, <3>1, <3>2
  <2>2. CASE SubmitSend(w)
    <3>1. jobs' = Append(jobs, w)
      BY <2>2 DEF SubmitSend
    <3> QED
      BY <1>0, <3>1, ToSetAppend DEF Somewhere, JobTypes
  <2>3. CASE ~SubmitSend(w)
    <3>1. wpc[w] = "wait"
      <4>1. ASSUME NEW x \in Writers, Writer(x) \/ Deadline(x)
            PROVE  wpc[w] = "wait"
        BY <1>0, <1>1, <2>3, <4>1, WriterWrites DEF Submit, SubmitCount, SubmitSend,
           SubmitRetract, SubmitReturn, Return, JobTypes
      <4>2. CASE ~\E x \in Writers : Writer(x) \/ Deadline(x)
        BY <1>1, <4>2, Steps, PlannerWrites, CommitterWrites, RestWrites DEF writer
      <4> QED
        BY <4>1, <4>2
    <3>2. reply[w] = "none"
      BY <1>1, OpenStays
    <3> QED
      BY <1>0, <1>1, <2>1, <3>1, <3>2, LostMeans, SomewhereStep
  <2> QED
    BY <2>2, <2>3
<1> HIDE DEF JobTypes
<1>2. NoJobLost' <=> \A w \in Writers :
         wpc'[w] = "wait" /\ reply'[w] = "none" /\ ~late'[w] /\ ~stopped' => Somewhere(w)'
  <2>1. (ppc = "refuse" => Len(owners) \in DOMAIN owners)'
    <3>1. owners' \in Seq(SUBSET Writers) /\ sent' \in Nat
      BY DEF JobTypes
    <3>2. ppc' = "refuse" => Len(owners') = sent' + 1
      BY DEF Channel
    <3> QED
      BY <3>1, <3>2
  <2> QED
    BY <2>1 DEF NoJobLost, InPipeline, Somewhere, Desk, Hands, Fates
<1> QED
  BY <1>1, <1>2

LEMMA JobInvStep ==
  ASSUME JobInv, [PNext]_<<vars, pvars>>
  PROVE  JobInv'
<1>0. JobTypes /\ Locks /\ Channel /\ Apart /\ Open /\ Fates
  BY DEF JobInv
<1>1. JobTypes'
  <2>1. CASE Rest
    BY <1>0, <2>1, RestWrites DEF JobTypes, writer, queue, planning, channel, committer
  <2> QED
    BY <1>0, <2>1, Steps, WriterJobTypes, PlannerJobTypes, CommitterJobTypes
<1>2. Locks' /\ Channel' /\ Apart' /\ Open' /\ Fates'
  BY <1>0, <1>1, LocksStep, ChannelStep, ApartStep, FatesStep
<1>3. NoJobLost'
  BY <1>1, <1>2, NoJobLostStep
<1> QED
  BY <1>1, <1>2, <1>3 DEF JobInv

(***************************************************************************)
(* In every pipeline a job is in one place at a time, in the channel, with *)
(* the planner, in a plan or with the committer, and nobody has answered a *)
(* job that somebody still has to answer.                                  *)
(***************************************************************************)
THEOREM JobsKept == PSpec => []JobInv
<1>1. PInit => JobInv
  BY JobTypesInit, LocksInit, ApartInit DEF JobInv
<1>2. JobInv /\ [PNext]_<<vars, pvars>> => JobInv'
  BY JobInvStep
<1> QED
  BY <1>1, <1>2, PTL DEF PSpec

(***************************************************************************)
(* The pipeline loses no job: however handlers, planner and committer are  *)
(* interleaved, a writer that waits in Submit has its job in one of the    *)
(* places until it is answered or its context ends, or the holder stops.   *)
(***************************************************************************)
THEOREM PipelineNoJobLost == PSpec => []NoJobLost
<1>1. JobInv => NoJobLost
  BY DEF JobInv
<1> QED
  BY <1>1, JobsKept, PTL

(***************************************************************************)
(* Planner and committer never both answer a job, nor one of them twice:   *)
(* the reply channel of capacity one never blocks either of them.          *)
(***************************************************************************)
THEOREM PipelineAnsweredOnce == PSpec => AnsweredOnce
<1>1. JobInv /\ [PNext]_<<vars, pvars>> =>
        [\A w \in Writers : reply[w] # "none" => reply'[w] = reply[w]]_reply
  BY OpenStays
<1>2. JobInv => \A w \in Writers : InPipeline(w) => reply[w] = "none"
  <2> SUFFICES ASSUME JobInv, NEW w \in Writers, InPipeline(w)
               PROVE  reply[w] = "none"
    OBVIOUS
  <2>1. JobTypes /\ Channel /\ Fates /\ Open
    BY DEF JobInv
  <2>2. ppc = "refuse" => Len(owners) \in DOMAIN owners
    BY <2>1 DEF JobTypes, Channel
  <2>3. Somewhere(w)
    BY <2>1, <2>2 DEF InPipeline, Somewhere, Desk, Hands, Fates
  <2> QED
    BY <2>1, <2>3 DEF Open, Somewhere
<1> QED
  BY <1>1, <1>2, JobsKept, PTL DEF PSpec, AnsweredOnce

-----------------------------------------------------------------------------
(* Memory and Redis *)

LEMMA SetTypesInit == ASSUME PInit PROVE SetTypes
<1>1. TypeOK
  BY InitTypeOK DEF PInit
<1>2. /\ job = [w \in Writers |-> NoJob] /\ deltas = <<>> /\ stored = entries /\ unsure = {}
      /\ now = 0
  BY DEF PInit, Init
<1>3. job \in [Writers -> [vals : Seq(Values), to : Slot]]
  BY <1>2 DEF NoJob, Slot
<1>4. now \in 0..MaxNow
  BY <1>2, SetAssumption
<1>5. heap \in SUBSET (Values \X Nat)
  <2>1. heap \subseteq Values \X Exps /\ Exps \subseteq Nat
    BY <1>1, SetAssumption DEF TypeOK
  <2> QED
    BY <2>1
<1> QED
  BY <1>1, <1>2, <1>3, <1>4, <1>5 DEF TypeOK, SetTypes

(* What a writer asks for is a sequence of values and an entry, or none. *)
LEMMA WriterSetTypes ==
  ASSUME SetTypes, NEW w \in Writers, Writer(w) \/ Deadline(w)
  PROVE  SetTypes'
<1>1. UNCHANGED <<vars, planning, stored, unsure>>
  BY WriterWrites
<1>2. job' \in [Writers -> [vals : Seq(Values), to : Slot]]
  <2>1. CASE Submit(w)
    <3>1. PICK s \in Scripts :
            job' = [job EXCEPT ![w] =
              [vals |-> s.vals,
               to |-> IF s.op = "add" THEN [exp |-> now + s.ttl, why |-> WhyOf[w]] ELSE Absent]]
      BY <2>1 DEF Submit
    <3>2. s.vals \in Seq(Values) /\ WhyOf[w] \in Whys /\ (s.op = "add" => now + s.ttl \in Exps)
      BY PipelineAssumption DEF SetTypes, Script
    <3> QED
      BY <3>1, <3>2 DEF SetTypes, Slot, Entry
  <2> QED
    BY <2>1, WriterWrites DEF SetTypes
<1> QED
  BY <1>1, <1>2 DEF SetTypes, vars, committed, pending, draft, planning

(* The loop of Set.Plan works on deltas. *)
LEMMA DraftSetTypes ==
  ASSUME SetTypes, PlannerDelta
  PROVE  SetTypes'
<1>1. /\ UNCHANGED <<pvars, committed, pending, flight, done, victims, now>>
      /\ todo # <<>> /\ todo' = Tail(todo)
  BY DeltaWrites
<1>2. Head(todo) \in Delta /\ Tail(todo) \in Seq(Delta)
  BY <1>1 DEF SetTypes
<1>3. Head(todo).v \in Values /\ Head(todo).to \in Slot
  BY <1>2, DeltaFields
<1>4. /\ over' = over \/ over' = [over EXCEPT ![Head(todo).v] = Head(todo).to]
      /\ applied' = applied \/ applied' = Append(applied, Head(todo))
      /\ acc' = acc \/ acc' = Toggle(acc, Head(todo).v)
  BY DeltaWrites DEF PlanReject, PlanSkip, PlanInsert, PlanRefresh, PlanRemove, DraftDelta
<1>5. over' \in [Values -> Slot \cup {Unplanned}]
  BY <1>3, <1>4 DEF SetTypes
<1>6. applied' \in Seq(Delta)
  <2>1. applied \in Seq(Delta)
    BY DEF SetTypes
  <2> QED
    BY <1>2, <1>4, <2>1
<1>7. acc' \in SUBSET Values
  BY <1>3, <1>4 DEF SetTypes, Toggle
<1> QED
  BY <1>1, <1>2, <1>5, <1>6, <1>7 DEF SetTypes, committed, pending, pvars, writer, planning, redis

(* A chunk of a sweep is a sequence of deltas. *)
LEMMA ChunkType ==
  ASSUME SetTypes, NEW ds \in Chunks
  PROVE  ds \in Seq(Delta)
<1> DEFINE n == IF Cardinality(victims) < BatchMax THEN Cardinality(victims) ELSE BatchMax
<1>1. n \in Nat
  <2>1. IsFiniteSet(victims)
    BY SetAssumption, FS_Subset DEF SetTypes
  <2> QED
    BY <2>1, FS_CardinalityType, SetAssumption
<1>2. ds \in [1..n -> Delta]
  BY DEF Chunks, SetTypes, Delta, Slot
<1> HIDE DEF n
<1> QED
  BY <1>1, <1>2

(* The deltas of a job are deltas. *)
LEMMA JobDeltasType ==
  ASSUME SetTypes, NEW w \in Writers
  PROVE  JobDeltas(w) \in Seq(Delta)
<1>1. job[w].vals \in Seq(Values) /\ job[w].to \in Slot
  BY DEF SetTypes
<1>2. DOMAIN job[w].vals = 1..Len(job[w].vals) /\ Len(job[w].vals) \in Nat
  BY <1>1
<1> QED
  BY <1>1, <1>2 DEF JobDeltas, Delta

(* The planner keeps the types of the set. *)
LEMMA PlannerSetTypes ==
  ASSUME JobTypes, SetTypes, Channel, Aligned, PPlanner
  PROVE  SetTypes'
<1>0. UNCHANGED <<job, entries, gen, seq, done, hash, stored, unsure, now>>
  BY PlannerWrites DEF writer, redis
<1>1. CASE PlannerTake \/ PlannerGather \/ PlannerNoPlan \/ PlannerAnswer \/ PlannerRefuse
           \/ PlannerSend \/ PlannerExit
  <2>1. UNCHANGED <<vars, deltas>>
    BY <1>1 DEF PlannerTake, PlannerGather, PlannerNoPlan, PlannerAnswer, PlannerRefuse,
       PlannerSend, PlannerExit, planning
  <2> QED
    BY <1>0, <2>1 DEF SetTypes, vars, committed, pending, draft
<1>2. CASE PlannerStart \/ PlannerCheck
  <2>1. UNCHANGED vars
    BY <1>2 DEF PlannerStart, PlannerCheck
  <2>2. deltas' \in Seq(Delta)
    <3>1. deltas \in Seq(Delta)
      BY DEF SetTypes
    <3>2. CASE PlannerStart
      BY <3>2 DEF PlannerStart
    <3>3. CASE PlannerCheck
      <4>1. deltas' = deltas \/ deltas' = deltas \o JobDeltas(batch[idx])
        BY <3>3 DEF PlannerCheck
      <4>2. batch[idx] \in Writers
        BY <3>3 DEF PlannerCheck, JobTypes
      <4>3. JobDeltas(batch[idx]) \in Seq(Delta)
        BY <4>2, JobDeltasType
      <4> QED
        BY <3>1, <4>1, <4>3, ConcatType, Zenon
    <3> QED
      BY <1>2, <3>2, <3>3
  <2> QED
    BY <1>0, <2>1, <2>2 DEF SetTypes, vars, committed, pending, draft
<1>3. CASE PlannerPlan \/ PlannerSweepPlan
  <2>1. /\ UNCHANGED <<committed, pending, flight, done, deltas>>
        /\ over' = NothingPlanned /\ acc' = pendHash /\ applied' = <<>>
        /\ victims' \subseteq victims
    BY <1>3 DEF PlannerPlan, PlanBatch, PlannerSweepPlan, PlanSweep, PlanBegin, planning
  <2>2. todo' \in Seq(Delta)
    BY <1>3, ClientBatchType, ChunkType DEF PlannerPlan, PlanBatch, PlannerSweepPlan, PlanSweep,
       PlanBegin
  <2> QED
    BY <1>0, <2>1, <2>2 DEF SetTypes, committed, pending, NothingPlanned
<1>4. CASE PlannerDelta
  BY <1>4, DraftSetTypes
<1>5. CASE PlannerPlanned
  <2> DEFINE p == [deltas |-> applied, seq |-> pendSeq + 1, hash |-> acc, gen |-> gen]
  <2>1. UNCHANGED <<heap, todo, over, acc, applied, victims, deltas>>
    BY <1>5 DEF PlannerPlanned, PlanNothing, PlanEnd, committed, draft
  <2>2. CASE PlanNothing
    <3>1. UNCHANGED <<pend, pendSeq, pendHash, flight>>
      BY <2>2 DEF PlanNothing, pending
    <3> QED
      BY <1>0, <2>1, <3>1 DEF SetTypes
  <2>3. CASE PlanEnd
    <3>1. /\ pend' = [v \in Values |->
                        IF over[v] # Unplanned THEN [to |-> over[v], seq |-> pendSeq + 1]
                                               ELSE pend[v]]
          /\ pendSeq' = pendSeq + 1 /\ pendHash' = acc /\ flight' = Append(flight, p)
      BY <2>3 DEF PlanEnd
    <3>2. p \in Plan /\ flight \in Seq(Plan) /\ pendSeq \in Nat /\ acc \in SUBSET Values
      BY DEF SetTypes, Plan
    <3>3. pend' \in [Values -> [to : Slot, seq : Nat] \cup {Unplanned}]
      BY <3>1 DEF SetTypes
    <3> HIDE DEF p
    <3>4. flight' \in Seq(Plan) /\ pendSeq' \in Nat /\ pendHash' \in SUBSET Values
      BY <3>1, <3>2
    <3> QED
      BY <1>0, <2>1, <3>3, <3>4 DEF SetTypes
  <2> QED
    BY <1>5, <2>2, <2>3 DEF PlannerPlanned
<1>6. CASE PlannerDrop
  <2>1. /\ UNCHANGED <<committed, pending, draft, victims, deltas>>
        /\ ppc = "send" /\ flight' = Front(flight)
    BY <1>6 DEF PlannerDrop, planning
  <2>2. flight \in Seq(Plan) /\ Len(flight) > 0
    BY <2>1 DEF SetTypes, JobTypes, Channel, Aligned
  <2>3. flight' \in Seq(Plan)
    BY <2>1, <2>2, FrontGives
  <2> QED
    BY <1>0, <2>1, <2>3 DEF SetTypes, committed, pending, draft
<1>7. CASE PlannerSweep
  <2>1. /\ UNCHANGED <<pending, draft, flight, deltas>>
        /\ heap' = (heap \ Due)
             \cup {<<it[1], entries[it[1]].exp>> : it \in {i \in Due : Stays(i)}}
        /\ victims' = {it[1] : it \in {i \in Due : Swept(i)}}
    BY <1>7 DEF PlannerSweep, Expired, planning
  <2>2. ASSUME NEW it \in Due
        PROVE  it[1] \in Values /\ (Stays(it) => entries[it[1]].exp \in Nat)
    <3>1. it[1] \in Values /\ entries[it[1]] \in Slot
      BY DEF Due, SetTypes
    <3> QED
      BY <3>1, EntryFields DEF Stays
  <2>3. heap' \in SUBSET (Values \X Nat) /\ victims' \in SUBSET Values
    BY <2>1, <2>2 DEF SetTypes
  <2> QED
    BY <1>0, <2>1, <2>3 DEF SetTypes, pending, draft
<1> QED
  BY <1>1, <1>2, <1>3, <1>4, <1>5, <1>6, <1>7 DEF PPlanner

(* The oldest plan in flight and its deltas have their types. *)
LEMMA OldestPlan ==
  ASSUME SetTypes, flight # <<>>
  PROVE  /\ Head(flight) = flight[1] /\ 1 \in DOMAIN flight
         /\ Head(flight) \in Plan /\ Tail(flight) \in Seq(Plan)
         /\ Head(flight).deltas \in Seq(Delta) /\ Head(flight).seq \in Nat
         /\ \A n \in DOMAIN Head(flight).deltas :
              Head(flight).deltas[n].v \in Values /\ Head(flight).deltas[n].to \in Slot
<1>1. /\ Head(flight) = flight[1] /\ 1 \in DOMAIN flight
      /\ Head(flight) \in Plan /\ Tail(flight) \in Seq(Plan)
  BY DEF SetTypes
<1>2. Head(flight).deltas \in Seq(Delta) /\ Head(flight).seq \in Nat
  BY <1>1, PlanFields
<1>3. \A n \in DOMAIN Head(flight).deltas : Head(flight).deltas[n] \in Delta
  BY <1>2
<1> QED
  BY <1>1, <1>2, <1>3, DeltaFields

(* The committer keeps the types of the set. *)
LEMMA CommitterSetTypes ==
  ASSUME JobTypes, SetTypes, Locks, Aligned, PCommitter
  PROVE  SetTypes'
<1>0. UNCHANGED <<job, deltas, draft, victims, now>>
  BY CommitterWrites DEF writer, planning
<1>1. CASE CommitterTake \/ CommitterPublish \/ CommitterExit
  <2>1. UNCHANGED <<vars, stored, unsure>>
    BY <1>1 DEF CommitterTake, CommitterPublish, CommitterExit, redis
  <2> QED
    BY <1>0, <2>1 DEF SetTypes, vars, committed, pending, draft
<1>2. CASE CommitterStale
  <2>1. UNCHANGED <<committed, pending, done, redis>> /\ flight # <<>> /\ flight' = Tail(flight)
    BY <1>2 DEF CommitterStale, SkipStale
  <2>2. flight' \in Seq(Plan)
    BY <2>1, OldestPlan
  <2> QED
    BY <1>0, <2>1, <2>2 DEF SetTypes, committed, pending, draft, redis
<1>3. ASSUME NEW o \in {"ok", "lost", "torn"}, CommitterStore(o) PROVE SetTypes'
  <2>1. UNCHANGED vars /\ cpc = "held"
    BY <1>3 DEF CommitterStore
  <2>2. flight # <<>>
    BY <2>1 DEF Aligned, Busy, JobTypes, SetTypes
  <2>3. unsure' \subseteq unsure \cup
          {Head(flight).deltas[n].v : n \in DOMAIN Head(flight).deltas}
    BY <1>3 DEF CommitterStore
  <2>4. unsure' \in SUBSET Values
    BY <2>2, <2>3, OldestPlan DEF SetTypes
  <2> QED
    BY <1>0, <2>1, <2>4 DEF SetTypes, vars, committed, pending, draft
<1>4. CASE CommitterCommit
  <2>1. UNCHANGED <<committed, pending, flight, redis>> /\ done' = 0
    BY <1>4 DEF CommitterCommit, CommitBegin
  <2> QED
    BY <1>0, <2>1 DEF SetTypes, committed, pending, draft, redis
<1>5. CASE CommitterDelta
  <2> DEFINE d == Head(flight).deltas[done + 1]
  <2>1. /\ cpc = "commit" /\ done < Len(Head(flight).deltas) /\ done' = done + 1
        /\ entries' = [entries EXCEPT ![d.v] = d.to]
        /\ hash' = hash \/ hash' = Toggle(hash, d.v)
        /\ heap' = heap \/ (d.to # Absent /\ heap' = heap \cup {<<d.v, d.to.exp>>})
        /\ pend' = pend \/ pend' = [pend EXCEPT ![d.v] = Unplanned]
        /\ UNCHANGED <<seq, pendSeq, pendHash, gen, flight, stored, unsure>>
    BY <1>5 DEF CommitterDelta, CommitDelta, pvars, redis, Locks
  <2>2. flight # <<>>
    BY <2>1 DEF Aligned, Busy, JobTypes, SetTypes
  <2>3. d.v \in Values /\ d.to \in Slot /\ done + 1 \in Nat
    <3>1. Head(flight).deltas \in Seq(Delta) /\ done \in Nat
      BY <2>2, OldestPlan DEF SetTypes
    <3>2. done + 1 \in DOMAIN Head(flight).deltas
      BY <2>1, <3>1
    <3> QED
      BY <2>2, <3>1, <3>2, OldestPlan
  <2> HIDE DEF d
  <2>4. /\ entries' \in [Values -> Slot]
        /\ pend' \in [Values -> [to : Slot, seq : Nat] \cup {Unplanned}]
    BY <2>1, <2>3 DEF SetTypes
  <2>5. hash' \in SUBSET Values
    BY <2>1, <2>3 DEF SetTypes, Toggle
  <2>6. heap' \in SUBSET (Values \X Nat)
    <3>1. heap \subseteq Values \X Nat
      BY DEF SetTypes
    <3>2. d.to # Absent => <<d.v, d.to.exp>> \in Values \X Nat
      BY <2>3, EntryFields
    <3> QED
      BY <2>1, <3>1, <3>2
  <2> QED
    BY <1>0, <2>1, <2>3, <2>4, <2>5, <2>6 DEF SetTypes, draft
<1>6. CASE CommitterCommitted
  <2>1. /\ cpc = "commit" /\ flight' = Tail(flight) /\ seq' = Head(flight).seq
        /\ pendSeq' = pendSeq \/ pendSeq' = Head(flight).seq
        /\ pendHash' = pendHash \/ pendHash' = hash
        /\ UNCHANGED <<entries, hash, heap, pend, gen, done, stored, unsure>>
    BY <1>6 DEF CommitterCommitted, CommitEnd, redis, Locks
  <2>2. flight # <<>>
    BY <2>1 DEF Aligned, Busy, JobTypes, SetTypes
  <2>3. Tail(flight) \in Seq(Plan) /\ Head(flight).seq \in Nat
    BY <2>2, OldestPlan
  <2> QED
    BY <1>0, <2>1, <2>3 DEF SetTypes, draft
<1>7. CASE CommitterAbort
  <2>1. /\ flight # <<>> /\ flight' = Tail(flight) /\ gen' = gen + 1
        /\ pend' = NothingPlanned /\ pendSeq' = seq /\ pendHash' = hash
        /\ UNCHANGED <<committed, done, stored, unsure>>
    BY <1>7 DEF CommitterAbort, Abort, Settle, redis
  <2>2. Tail(flight) \in Seq(Plan)
    BY <2>1, OldestPlan
  <2> QED
    BY <1>0, <2>1, <2>2 DEF SetTypes, draft, committed, NothingPlanned
<1> QED
  BY <1>1, <1>2, <1>3, <1>4, <1>5, <1>6, <1>7 DEF PCommitter

LEMMA SetTypesStep ==
  ASSUME JobInv, SetTypes, Aligned, [PNext]_<<vars, pvars>>
  PROVE  SetTypes'
<1>0. JobTypes /\ Locks /\ Channel
  BY DEF JobInv
<1>1. CASE Rest
  <2>1. UNCHANGED <<job, deltas, stored, unsure, entries, seq, hash, heap, pend, pendSeq, pendHash,
                    gen, todo, over, acc, applied, flight, done, victims>>
    BY <1>1, RestWrites DEF writer, planning, redis, committed, pending, draft
  <2>2. now' = now \/ (now < MaxNow /\ now' = now + 1)
    BY <1>1 DEF Rest, Shutdown, Clock, Tick, vars
  <2>3. now' \in 0..MaxNow
    BY <2>2, SetAssumption DEF SetTypes
  <2> QED
    BY <2>1, <2>3 DEF SetTypes
<1> QED
  BY <1>0, <1>1, Steps, WriterSetTypes, PlannerSetTypes, CommitterSetTypes

(* Plans in flight and their owners move together. *)
LEMMA AlignedStep ==
  ASSUME JobInv, SetTypes, Aligned, [PNext]_<<vars, pvars>>
  PROVE  Aligned'
<1>0. /\ JobTypes /\ Locks /\ Channel
      /\ owners \in Seq(SUBSET Writers) /\ flight \in Seq(Plan)
  BY DEF JobInv, JobTypes, SetTypes
<1>1. CASE (\E w \in Writers : Writer(w) \/ Deadline(w)) \/ Rest
  <2>1. UNCHANGED <<flight, owners, cpc>>
    BY <1>1, WriterWrites, RestWrites, PlacesKept DEF vars
  <2> QED
    BY <2>1 DEF Aligned, Busy
<1>2. CASE PPlanner
  <2>1. cpc' = cpc
    BY <1>2, PlannerWrites DEF committer
  <2>2. CASE PlannerPlanned
    <3>1. \/ owners' = owners /\ flight' = flight
          \/ \E o, p : owners' = Append(owners, o) /\ flight' = Append(flight, p)
      BY <2>2 DEF PlannerPlanned, PlanNothing, PlanEnd
    <3>2. \A o : Len(Append(owners, o)) = Len(owners) + 1
      BY <1>0
    <3>3. \A p : Len(Append(flight, p)) = Len(flight) + 1
      BY <1>0
    <3> QED
      BY <1>0, <2>1, <3>1, <3>2, <3>3 DEF Aligned, Busy
  <2>3. CASE PlannerDrop
    <3>1. ppc = "send" /\ owners' = Front(owners) /\ flight' = Front(flight)
      BY <2>3 DEF PlannerDrop
    <3>2. Len(owners) > 0 /\ Len(flight) > 0
      BY <1>0, <3>1 DEF Channel, Aligned, JobTypes
    <3>3. Len(owners') = Len(owners) - 1 /\ Len(flight') = Len(flight) - 1
      BY <1>0, <3>1, <3>2, FrontGives
    <3> QED
      BY <1>0, <2>1, <3>2, <3>3 DEF Aligned, Busy
  <2>4. CASE ~(PlannerPlanned \/ PlannerDrop)
    BY <1>2, <2>1, <2>4, PlannerWrites DEF Aligned, Busy
  <2> QED
    BY <2>2, <2>3, <2>4
<1>3. CASE CommitterTake
  <2>1. /\ cpc = "idle" /\ cpc' = "held" /\ sent > 0 /\ owners' = Tail(owners)
        /\ flight' = flight
    BY <1>3 DEF CommitterTake, vars
  <2>2. Len(owners) > 0
    BY <1>0, <2>1 DEF Channel, JobTypes
  <2>3. Len(owners') = Len(owners) - 1
    BY <1>0, <2>1, <2>2, TailGives
  <2> QED
    BY <1>0, <2>1, <2>3 DEF Aligned, Busy
<1>4. CASE CommitterStale \/ CommitterCommitted \/ CommitterAbort
  <2>1. /\ cpc \in {"held", "commit", "refused"} /\ cpc' \in {"idle", "publish"}
        /\ owners' = owners /\ flight' = Tail(flight)
    BY <1>0, <1>4 DEF CommitterStale, SkipStale, CommitterCommitted, CommitEnd, CommitterAbort,
       Abort, Locks, channel
  <2>2. Len(flight) > 0
    BY <1>0, <2>1 DEF Aligned, Busy
  <2>3. Len(flight') = Len(flight) - 1
    BY <1>0, <2>1, <2>2, TailGives
  <2> QED
    BY <1>0, <2>1, <2>3 DEF Aligned, Busy
<1>5. CASE PCommitter /\ ~(CommitterTake \/ CommitterStale \/ CommitterCommitted \/ CommitterAbort)
  <2>1. UNCHANGED <<flight, owners>>
    BY <1>5, CommitterWrites
  <2>2. Busy' = Busy
    BY <1>5, CommitterWrites DEF CommitterStore, CommitterCommit, CommitterPublish, CommitterExit,
       Busy
  <2> QED
    BY <2>1, <2>2 DEF Aligned
<1> QED
  BY <1>1, <1>2, <1>3, <1>4, <1>5, Steps

(* Outside a commit the planner leaves the oldest plan in flight where it is. *)
LEMMA OldestStays ==
  ASSUME JobInv, SetTypes, Aligned, Busy, PPlanner
  PROVE  Head(flight') = Head(flight)
<1>0. /\ owners \in Seq(SUBSET Writers) /\ flight \in Seq(Plan) /\ Len(flight) = Len(owners) + 1
  BY DEF JobInv, JobTypes, SetTypes, Aligned
<1>1. CASE PlannerPlanned
  <2>1. flight' = flight \/ \E p : flight' = Append(flight, p)
    BY <1>1 DEF PlannerPlanned, PlanNothing, PlanEnd
  <2>2. Len(flight) > 0 /\ \A p : Head(Append(flight, p)) = Head(flight)
    BY <1>0
  <2> QED
    BY <2>1, <2>2
<1>2. CASE PlannerDrop
  <2>1. ppc = "send" /\ flight' = Front(flight)
    BY <1>2 DEF PlannerDrop
  <2>2. Len(flight) > 1
    BY <1>0, <2>1 DEF JobInv, JobTypes, Channel
  <2>3. flight' \in Seq(Plan) /\ Len(flight') > 0 /\ flight'[1] = flight[1]
    BY <1>0, <2>1, <2>2, FrontGives
  <2> QED
    BY <1>0, <2>2, <2>3
<1> QED
  BY <1>1, <1>2, PlannerWrites

(* What a transaction leaves behind, value by value. *)
LEMMA WrittenGives ==
  ASSUME NEW ds \in Seq(Delta), NEW c, NEW v \in Values
  PROVE  /\ (\A n \in DOMAIN ds : ds[n].v # v) => Written(c, ds)[v] = c[v]
         /\ \A n \in DOMAIN ds : ds[n].v = v /\ LastFor(ds, n) => Written(c, ds)[v] = ds[n].to
<1> DEFINE its == {n \in DOMAIN ds : ds[n].v = v}
<1>1. Written(c, ds)[v] = IF its = {} THEN c[v] ELSE ds[Max(its)].to
  BY DEF Written
<1>2. ASSUME NEW n \in DOMAIN ds, ds[n].v = v, LastFor(ds, n)
      PROVE  Max(its) = n
  <2>1. n \in its /\ its \subseteq Nat /\ \A y \in its : n >= y
    BY <1>2 DEF LastFor
  <2> QED
    BY <2>1 DEF Max
<1> QED
  BY <1>1, <1>2

(* A stored transaction is ahead of memory in the deltas of its plan only. *)
LEMMA StoredStep ==
  ASSUME JobInv, SetTypes, Aligned, MemoryMatchesStore,
         NEW o \in {"ok", "lost", "torn"}, CommitterStore(o)
  PROVE  Committing' /\ MemoryMatchesStore'
<1> DEFINE ds == Head(flight).deltas
           touched == {ds[n].v : n \in DOMAIN ds}
<1>1. /\ cpc = "held" /\ cpc' = IF o = "ok" THEN "stored" ELSE "refused"
      /\ UNCHANGED <<entries, flight, done>>
      /\ o = "lost" => UNCHANGED <<stored, unsure>>
      /\ o # "lost" => stored' = Written(stored, ds)
      /\ o = "ok" => unsure' = unsure \ touched
      /\ o = "torn" => unsure' = unsure \cup touched
  BY DEF CommitterStore, vars, committed
<1>2. ds \in Seq(Delta)
  <2>1. flight # <<>>
    BY <1>1 DEF Aligned, Busy, JobInv, JobTypes, SetTypes
  <2> QED
    BY <2>1, OldestPlan
<1> HIDE DEF ds
<1>3. \A v \in Values \ unsure : entries[v] = stored[v]
  BY <1>1 DEF MemoryMatchesStore
<1>4. \A v \in Values : v \notin touched <=> \A n \in DOMAIN ds : ds[n].v # v
  OBVIOUS
<1> HIDE DEF touched
<1>5. MemoryMatchesStore'
  <2>1. CASE o = "ok"
    BY <1>1, <2>1 DEF MemoryMatchesStore
  <2>2. CASE o = "lost"
    BY <1>1, <1>3, <2>2 DEF MemoryMatchesStore
  <2>3. CASE o = "torn"
    BY <1>1, <1>2, <1>3, <1>4, <2>3, WrittenGives DEF MemoryMatchesStore
  <2> QED
    BY <2>1, <2>2, <2>3
<1>6. Committing'
  <2>1. CASE o = "ok"
    <3>1. cpc' = "stored" /\ stored' = Written(stored, ds) /\ unsure' = unsure \ touched
      BY <1>1, <2>1
    <3>2. ASSUME NEW v \in Values \ unsure'
          PROVE  /\ (\A n \in DOMAIN ds : n > 0 => ds[n].v # v) => entries[v] = stored'[v]
                 /\ \A n \in DOMAIN ds : n > 0 /\ ds[n].v = v /\ LastFor(ds, n) => stored'[v] = ds[n].to
      <4>1. \A n \in DOMAIN ds : n > 0
        BY <1>2
      <4> QED
        BY <1>2, <1>3, <1>4, <3>1, <3>2, <4>1, WrittenGives
    <3> QED
      BY <1>1, <3>1, <3>2 DEF Committing, ds
  <2>2. CASE o # "ok"
    BY <1>1, <2>2 DEF Committing
  <2> QED
    BY <2>1, <2>2
<1> QED
  BY <1>5, <1>6

(* Each delta that is committed brings memory nearer to Redis. *)
LEMMA CommittingStep ==
  ASSUME JobInv, SetTypes, Aligned, Committing, CommitterDelta
  PROVE  Committing' /\ MemoryMatchesStore'
<1> DEFINE ds == Head(flight).deltas
           d == ds[done + 1]
<1>1. /\ cpc = "commit" /\ cpc' = "commit" /\ done < Len(ds) /\ done' = done + 1
      /\ entries' = [entries EXCEPT ![d.v] = d.to]
      /\ UNCHANGED <<flight, stored, unsure>>
  BY DEF CommitterDelta, CommitDelta, pvars, redis, committer, JobInv, Locks
<1>2. flight # <<>>
  BY <1>1 DEF Aligned, Busy, JobInv, JobTypes, SetTypes
<1>3. ds \in Seq(Delta) /\ done \in Nat /\ entries \in [Values -> Slot]
  BY <1>2, OldestPlan DEF SetTypes
<1>4. \A v \in Values \ unsure :
        /\ (\A n \in DOMAIN ds : n > done => ds[n].v # v) => entries[v] = stored[v]
        /\ \A n \in DOMAIN ds : n > done /\ ds[n].v = v /\ LastFor(ds, n) => stored[v] = ds[n].to
  BY <1>1 DEF Committing
<1> HIDE DEF ds
<1>5. ASSUME NEW v \in Values \ unsure
      PROVE  /\ (\A n \in DOMAIN ds : n > done + 1 => ds[n].v # v) => entries'[v] = stored[v]
             /\ \A n \in DOMAIN ds :
                  n > done + 1 /\ ds[n].v = v /\ LastFor(ds, n) => stored[v] = ds[n].to
  <2>1. done + 1 \in DOMAIN ds /\ done + 1 > done
    BY <1>1, <1>3
  <2>2. \A n \in DOMAIN ds : n > done + 1 => n > done
    BY <1>3
  <2>3. \A n \in DOMAIN ds : n > done => n > done + 1 \/ n = done + 1
    BY <1>3
  <2>4. ASSUME \A n \in DOMAIN ds : n > done + 1 => ds[n].v # v
        PROVE  entries'[v] = stored[v]
    <3>1. CASE v = d.v
      <4>1. LastFor(ds, done + 1)
        BY <2>1, <2>4, <3>1 DEF LastFor
      <4>2. stored[v] = d.to
        BY <1>4, <2>1, <3>1, <4>1
      <4> QED
        BY <1>1, <1>3, <3>1, <4>2
    <3>2. CASE v # d.v
      <4>1. entries[v] = stored[v]
        BY <1>4, <2>3, <2>4, <3>2
      <4> QED
        BY <1>1, <1>3, <3>2, <4>1
    <3> QED
      BY <3>1, <3>2
  <2> QED
    BY <1>4, <2>2, <2>4
<1> QED
  BY <1>1, <1>5 DEF Committing, MemoryMatchesStore, ds

LEMMA StoreInvStep ==
  ASSUME JobInv, StoreInv, [PNext]_<<vars, pvars>>
  PROVE  StoreInv'
<1>0. SetTypes /\ Aligned /\ Committing /\ MemoryMatchesStore /\ JobTypes /\ Locks
  BY DEF StoreInv, JobInv
<1>1. SetTypes' /\ Aligned'
  BY <1>0, SetTypesStep, AlignedStep
<1>2. Committing' /\ MemoryMatchesStore'
  <2>1. CASE (\E w \in Writers : Writer(w) \/ Deadline(w)) \/ Rest
    <3>1. UNCHANGED <<cpc, flight, done, entries, stored, unsure>>
      BY <2>1, WriterWrites, RestWrites, PlacesKept DEF vars, committed, redis
    <3> QED
      BY <1>0, <3>1 DEF Committing, MemoryMatchesStore
  <2>2. CASE PPlanner
    <3>1. UNCHANGED <<cpc, done, entries, stored, unsure>>
      BY <2>2, PlannerWrites DEF committer, redis
    <3>2. Busy => Head(flight)' = Head(flight)
      BY <1>0, <2>2, OldestStays
    <3> QED
      BY <1>0, <3>1, <3>2 DEF Committing, MemoryMatchesStore, Busy
  <2>3. CASE \E o \in {"ok", "lost", "torn"} : CommitterStore(o)
    BY <1>0, <2>3, StoredStep
  <2>4. CASE CommitterCommit
    <3>1. /\ cpc = "stored" /\ cpc' = "commit" /\ done' = 0
          /\ UNCHANGED <<flight, entries, stored, unsure>>
      BY <2>4 DEF CommitterCommit, CommitBegin, committed, redis
    <3> QED
      BY <1>0, <3>1 DEF Committing, MemoryMatchesStore
  <2>5. CASE CommitterDelta
    BY <1>0, <2>5, CommittingStep
  <2>6. CASE CommitterCommitted
    <3>1. /\ cpc = "commit" /\ cpc' = "publish" /\ done = Len(Head(flight).deltas)
          /\ UNCHANGED <<entries, stored, unsure>>
      BY <1>0, <2>6 DEF CommitterCommitted, CommitEnd, redis, Locks
    <3>2. Head(flight).deltas \in Seq(Delta)
      <4>1. flight # <<>>
        BY <1>0, <3>1 DEF Aligned, Busy, JobTypes, SetTypes
      <4> QED
        BY <1>0, <4>1, OldestPlan
    <3>3. \A n \in DOMAIN Head(flight).deltas : ~(n > done)
      BY <3>1, <3>2
    <3> QED
      BY <1>0, <3>1, <3>3 DEF Committing, MemoryMatchesStore
  <2>7. CASE PCommitter /\ ~((\E o \in {"ok", "lost", "torn"} : CommitterStore(o))
                             \/ CommitterCommit \/ CommitterDelta \/ CommitterCommitted)
    <3>1. UNCHANGED <<entries, stored, unsure>>
      BY <2>7, CommitterWrites
    <3>2. cpc \notin {"stored", "commit"} /\ cpc' \notin {"stored", "commit"}
      BY <2>7 DEF PCommitter, CommitterTake, CommitterStale, CommitterPublish, CommitterAbort,
         CommitterExit
    <3> QED
      BY <1>0, <3>1, <3>2 DEF Committing, MemoryMatchesStore
  <2> QED
    BY <2>1, <2>2, <2>3, <2>4, <2>5, <2>6, <2>7, Steps
<1> QED
  BY <1>1, <1>2 DEF StoreInv

(***************************************************************************)
(* While a plan is being committed, what memory lacks of Redis is exactly  *)
(* the last delta of each value that is still to be applied.               *)
(***************************************************************************)
THEOREM StoreFollowed == PSpec => [](JobInv /\ StoreInv)
<1>1. PInit => StoreInv
  <2> SUFFICES ASSUME PInit PROVE StoreInv
    OBVIOUS
  <2>1. cpc = "idle" /\ flight = <<>> /\ owners = <<>> /\ stored = entries
    BY DEF PInit, Init
  <2> QED
    BY <2>1, SetTypesInit DEF StoreInv, Aligned, Busy, Committing, MemoryMatchesStore
<1>2. JobInv /\ StoreInv /\ [PNext]_<<vars, pvars>> => StoreInv'
  BY StoreInvStep
<1> QED
  BY <1>1, <1>2, JobsKept, PTL DEF PSpec

(***************************************************************************)
(* Whatever is in flight, refused, torn or dropped by a stop: between two  *)
(* commits Redis and memory hold the same, except for values of a          *)
(* transaction that failed after having been applied.                      *)
(***************************************************************************)
THEOREM PipelineMemoryMatchesStore == PSpec => []MemoryMatchesStore
<1>1. StoreInv => MemoryMatchesStore
  BY DEF StoreInv
<1> QED
  BY <1>1, StoreFollowed, PTL

-----------------------------------------------------------------------------
(* Refused writes *)

(* A job is written once, by Submit, before it is sent. *)
LEMMA JobStays ==
  ASSUME Asked, JobTypes, SetTypes, [PNext]_<<vars, pvars>>
  PROVE  /\ \A x \in Writers : job'[x] = job[x] \/ (wpc[x] = "new" /\ job[x] = NoJob)
         /\ Asked'
<1>1. CASE \E w \in Writers : Submit(w)
  <2>1. PICK w \in Writers : Submit(w)
    BY <1>1
  <2>2. PICK s \in Scripts :
          job' = [job EXCEPT ![w] =
            [vals |-> s.vals,
             to |-> IF s.op = "add" THEN [exp |-> now + s.ttl, why |-> WhyOf[w]] ELSE Absent]]
    BY <2>1 DEF Submit
  <2>3. /\ wpc[w] = "new" /\ wpc'[w] # "new"
        /\ \A x \in Writers \ {w} : wpc'[x] = wpc[x]
    BY <2>1 DEF Submit, Return, JobTypes
  <2>4. /\ \A x \in Writers \ {w} : job'[x] = job[x]
        /\ job'[w].vals = s.vals /\ job'[w].to \in {Absent, [exp |-> now + s.ttl, why |-> WhyOf[w]]}
    BY <2>2 DEF SetTypes
  <2>5. NoRepeat(s.vals)
    BY PipelineAssumption DEF IsInjective, NoRepeat
  <2>6. Asked'
    BY <2>3, <2>4, <2>5 DEF Asked
  <2> QED
    BY <2>3, <2>4, <2>6 DEF Asked
<1>2. CASE ~\E w \in Writers : Submit(w)
  <2>1. job' = job
    BY <1>2, Steps, WriterWrites, PlannerWrites, CommitterWrites, RestWrites DEF writer
  <2>2. \A x \in Writers : wpc'[x] = "new" => wpc[x] = "new"
    <3>1. ASSUME NEW w \in Writers, Writer(w) \/ Deadline(w), NEW x \in Writers, wpc'[x] = "new"
          PROVE  wpc[x] = "new"
      BY <1>2, <3>1, WriterWrites DEF SubmitCount, SubmitSend, SubmitRetract, SubmitReturn, Return,
         JobTypes
    <3>2. CASE ~\E w \in Writers : Writer(w) \/ Deadline(w)
      BY <3>2, Steps, PlannerWrites, CommitterWrites, RestWrites DEF writer
    <3> QED
      BY <3>1, <3>2
  <2> QED
    BY <2>1, <2>2 DEF Asked
<1> QED
  BY <1>1, <1>2

(* Who has no job yet contends with nobody. *)
LEMMA ContendedStays ==
  ASSUME Asked, JobTypes, SetTypes, [PNext]_<<vars, pvars>>, NEW w \in Writers, Uncontended(w)'
  PROVE  Uncontended(w)
<1>1. NoJob.to = Absent /\ ToSet(NoJob.vals) = {}
  BY ToSetNone DEF NoJob
<1>2. \A x \in Writers : job'[x] = job[x] \/ job[x] = NoJob
  BY JobStays
<1>3. \A x \in Writers \ {w} : job'[x].to # Absent => ToSet(job'[w].vals) \cap ToSet(job'[x].vals) = {}
  BY DEF Uncontended, Additive, ValuesOf
<1> QED
  BY <1>1, <1>2, <1>3 DEF Uncontended, Additive, ValuesOf

(* The jobs in the places have been written, and stay as they are. *)
LEMMA SentStays ==
  ASSUME JobInv, Asked, SetTypes, [PNext]_<<vars, pvars>>, NEW x \in Desk
  PROVE  x \in Writers /\ job'[x] = job[x]
<1>1. x \in Writers /\ wpc[x] # "new"
  BY PlacesType DEF JobInv, Open
<1> QED
  BY <1>1, JobStays DEF JobInv

LEMMA MisjudgedStays ==
  ASSUME JobInv, Asked, SetTypes, [PNext]_<<vars, pvars>>, NEW w \in Writers, Misjudged(w)
  PROVE  Misjudged(w)'
<1>0. JobTypes /\ Locks /\ Open
  BY DEF JobInv
<1>1. wpc[w] # "new"
  <2>1. CASE reply[w] = "full"
    BY <1>0, <2>1 DEF Open
  <2>2. CASE ppc = "refuse" /\ w \in ToSet(batch) /\ fate[w] = "full"
    BY <1>0, <2>2 DEF Open, Desk
  <2> QED
    BY <2>1, <2>2 DEF Misjudged
<1>2. job'[w] = job[w]
  BY <1>0, <1>1, JobStays
<1>3. ~(Count(w) > 1 \/ Uncontended(w))'
  <2>1. ~(Count(w) > 1) /\ ~Uncontended(w)
    BY DEF Misjudged
  <2>2. ~Uncontended(w)'
    BY <1>0, <2>1, ContendedStays
  <2>3. ~(Count(w) > 1)'
    BY <1>2, <2>1 DEF Count
  <2> QED
    BY <2>2, <2>3
<1>4. (reply[w] = "full" \/ (ppc = "refuse" /\ w \in ToSet(batch) /\ fate[w] = "full"))'
  <2>1. CASE reply[w] = "full"
    BY <2>1, OpenStays
  <2>2. CASE ppc = "refuse" /\ w \in ToSet(batch) /\ fate[w] = "full"
    <3>1. CASE PlannerRefuse
      <4>1. w \in Desk
        BY <2>2 DEF Desk
      <4> QED
        BY <1>0, <2>2, <3>1, <4>1, PlannerAnswers
    <3>2. CASE PPlanner /\ ~PlannerRefuse
      <4>1. ppc' = ppc
        BY <1>0, <2>2, <3>2, PlannerWrites DEF PlannerTake, PlannerStart, PlannerPlan,
           PlannerNoPlan, PlannerPlanned, PlanNothing, PlanEnd, PlannerAnswer, PlannerSend,
           PlannerDrop, PlannerSweep, PlannerSweepPlan, PlannerExit, Locks
      <4>2. UNCHANGED <<batch, fate>>
        BY <1>0, <2>2, <3>2, PlannerWrites DEF PlannerTake, PlannerGather, PlannerSweepPlan,
           PlannerStart, PlannerCheck, PlannerPlanned, PlanNothing, PlanEnd, Locks
      <4> QED
        BY <2>2, <4>1, <4>2
    <3>3. CASE ~PPlanner
      <4>1. UNCHANGED <<ppc, batch, fate>>
        BY <3>3, Steps, PlacesKept, CommitterWrites DEF planning
      <4> QED
        BY <2>2, <4>1
    <3> QED
      BY <3>1, <3>2, <3>3
  <2> QED
    BY <2>1, <2>2 DEF Misjudged
<1> QED
  BY <1>3, <1>4 DEF Misjudged

(* A record in the name of a writer who shares it with nobody is from its own job. *)
LEMMA FromOwn ==
  ASSUME Asked, NEW w \in Writers, Sole(w), NEW ds, NEW ws \in SUBSET Writers, From(ds, ws),
         NEW n \in DOMAIN ds, Mine(w, ds[n].to)
  PROVE  w \in ws /\ fate[w] = "none" /\ ds[n].to = job[w].to /\ ds[n].v \in ValuesOf(w)
<1>1. PICK x \in ws : fate[x] = "none" /\ ds[n].to = job[x].to /\ ds[n].v \in ValuesOf(x)
  BY DEF From, Mine
<1>2. WhyOf[x] = WhyOf[w]
  BY <1>1 DEF Asked, Mine
<1>3. x = w
  BY <1>2 DEF Sole
<1> QED
  BY <1>1, <1>3

(* The elements of two sequences one after the other. *)
LEMMA ConcatGives ==
  ASSUME NEW S, NEW s \in Seq(S), NEW t \in Seq(S), NEW k \in DOMAIN (s \o t)
  PROVE  \/ k \in DOMAIN s /\ (s \o t)[k] = s[k]
         \/ /\ k \notin DOMAIN s /\ k - Len(s) \in DOMAIN t /\ (s \o t)[k] = t[k - Len(s)]
            /\ k = Len(s) + (k - Len(s))
  OBVIOUS

LEMMA CheckedType ==
  ASSUME JobTypes
  PROVE  Checked \subseteq ToSet(batch) /\ Checked \subseteq Writers
  BY ToSetType DEF Checked, ToSet, JobTypes

(* plan() looks at one more job. *)
LEMMA CheckCollects ==
  ASSUME JobInv, SetTypes, Asked, Collected, PlannerCheck
  PROVE  Collected'
<1> DEFINE w == batch[idx]
<1>0. JobTypes /\ Apart
  BY DEF JobInv
<1>1. /\ ppc = "check" /\ idx <= Len(batch) /\ idx' = idx + 1
      /\ UNCHANGED <<batch, job>>
      /\ \/ fate[w] = "none" /\ deltas' = deltas \o JobDeltas(w) /\ fate' = fate
         \/ deltas' = deltas /\ \A x \in Writers \ {w} : fate'[x] = fate[x]
  BY <1>0 DEF PlannerCheck, writer, JobTypes
<1>2. idx \in DOMAIN batch /\ w \in Writers /\ idx \in Nat /\ DOMAIN batch \subseteq Nat
  BY <1>0, <1>1 DEF JobTypes
<1>3. w \notin Checked
  <2>1. \A i \in DOMAIN batch : batch[i] = batch[idx] => i = idx
    BY <1>0, <1>1, <1>2 DEF Apart, NoRepeat
  <2> QED
    BY <1>2, <2>1 DEF Checked
<1>4. Checked' = Checked \cup {w}
  <2>1. {k \in DOMAIN batch : k < idx + 1} = {k \in DOMAIN batch : k < idx} \cup {idx}
    BY <1>2
  <2> QED
    BY <1>1, <2>1 DEF Checked
<1> HIDE DEF w
<1>5. From(deltas, Checked) /\ \A u \in Writers : Sole(u) => Single(u, deltas)
  BY <1>1 DEF Collected
<1>6. Checked \subseteq Writers
  BY <1>0, CheckedType
<1>7. CASE deltas' = deltas /\ \A x \in Writers \ {w} : fate'[x] = fate[x]
  <2>1. \A x \in Checked : fate'[x] = fate[x]
    BY <1>3, <1>6, <1>7
  <2>2. From(deltas, Checked)'
    BY <1>1, <1>4, <1>5, <1>7, <2>1 DEF From, ValuesOf
  <2>3. \A u \in Writers : Sole(u) => Single(u, deltas)'
    BY <1>5, <1>7 DEF Single
  <2> QED
    BY <2>2, <2>3 DEF Collected, Sole
<1>8. CASE fate[w] = "none" /\ deltas' = deltas \o JobDeltas(w) /\ fate' = fate
  <2> DEFINE new(k) == k - Len(deltas)
  <2>1. \A k \in DOMAIN deltas' :
          \/ k \in DOMAIN deltas /\ deltas'[k] = deltas[k]
          \/ /\ k \notin DOMAIN deltas /\ new(k) \in DOMAIN job[w].vals /\ k = Len(deltas) + new(k)
             /\ deltas'[k].v = job[w].vals[new(k)] /\ deltas'[k].to = job[w].to
    <3>1. deltas \in Seq(Delta) /\ JobDeltas(w) \in Seq(Delta)
      BY <1>2, JobDeltasType DEF SetTypes
    <3>2. DOMAIN JobDeltas(w) = DOMAIN job[w].vals
      BY DEF JobDeltas
    <3>3. \A j \in DOMAIN job[w].vals : JobDeltas(w)[j].v = job[w].vals[j] /\ JobDeltas(w)[j].to = job[w].to
      BY DEF JobDeltas
    <3> QED
      BY <1>8, <3>1, <3>2, <3>3, ConcatGives
  <2> HIDE DEF new
  <2>2. From(deltas, Checked)'
    <3>1. ASSUME NEW k \in DOMAIN deltas', deltas'[k].to # Absent
          PROVE  \E x \in Checked' : /\ fate'[x] = "none" /\ deltas'[k].to = job'[x].to
                                     /\ deltas'[k].v \in ToSet(job'[x].vals)
      <4>1. CASE k \in DOMAIN deltas /\ deltas'[k] = deltas[k]
        BY <1>1, <1>4, <1>5, <1>8, <3>1, <4>1 DEF From, ValuesOf
      <4>2. CASE /\ new(k) \in DOMAIN job[w].vals
                 /\ deltas'[k].v = job[w].vals[new(k)] /\ deltas'[k].to = job[w].to
        <5>1. deltas'[k].v \in ToSet(job[w].vals)
          BY <4>2 DEF ToSet
        <5> QED
          BY <1>1, <1>4, <1>8, <4>2, <5>1
      <4> QED
        BY <2>1, <4>1, <4>2
    <3> QED
      BY <3>1 DEF From, ValuesOf
  <2>3. ASSUME NEW u \in Writers, Sole(u) PROVE Single(u, deltas)'
    <3>1. Single(u, deltas)
      BY <1>5, <2>3
    <3>2. ASSUME NEW k \in DOMAIN deltas', k \notin DOMAIN deltas, Mine(u, deltas'[k].to)
          PROVE  u = w
      <4>1. deltas'[k].to = job[w].to
        BY <2>1, <3>2
      <4>2. WhyOf[w] = WhyOf[u]
        BY <1>2, <3>2, <4>1 DEF Asked, Mine
      <4> QED
        BY <1>2, <2>3, <4>2 DEF Sole
    <3>3. ASSUME NEW k \in DOMAIN deltas, Mine(u, deltas[k].to)
          PROVE  u # w
      BY <1>3, <1>5, <1>6, <2>3, <3>3, FromOwn
    <3>4. NoRepeat(job[w].vals)
      BY <1>2 DEF Asked
    <3>5. ASSUME NEW m \in DOMAIN deltas', NEW n \in DOMAIN deltas',
                 Mine(u, deltas'[m].to), Mine(u, deltas'[n].to), deltas'[m].v = deltas'[n].v
          PROVE  m = n
      <4>1. CASE m \in DOMAIN deltas /\ n \in DOMAIN deltas
        BY <2>1, <3>1, <3>5, <4>1 DEF Single
      <4>2. CASE m \notin DOMAIN deltas /\ n \notin DOMAIN deltas
        <5>1. new(m) = new(n)
          BY <2>1, <3>4, <3>5, <4>2 DEF NoRepeat
        <5> QED
          BY <2>1, <4>2, <5>1
      <4>3. CASE (m \in DOMAIN deltas) # (n \in DOMAIN deltas)
        BY <2>1, <3>2, <3>3, <3>5, <4>3
      <4> QED
        BY <4>1, <4>2, <4>3
    <3> QED
      BY <3>5 DEF Single
  <2> QED
    BY <2>2, <2>3 DEF Collected, Sole
<1> QED
  BY <1>1, <1>7, <1>8

(* Between two jobs that plan() looks at nobody touches what it has collected. *)
LEMMA CheckStays ==
  ASSUME JobInv, [PNext]_<<vars, pvars>>, ppc' = "check", ~(PlannerStart \/ PlannerCheck)
  PROVE  ppc = "check" /\ UNCHANGED <<batch, idx, fate, deltas>> /\ Checked' = Checked
<1>0. Locks
  BY DEF JobInv
<1>1. CASE PPlanner
  <2>1. ppc = "check"
    BY <1>1, PlannerWrites DEF PlannerTake, PlannerPlan, PlannerNoPlan, PlannerPlanned,
       PlannerAnswer, PlannerRefuse, PlannerSend, PlannerDrop, PlannerSweep, PlannerSweepPlan,
       PlannerExit, Resume
  <2>2. UNCHANGED <<batch, fate>>
    BY <1>0, <1>1, <2>1, PlannerWrites DEF PlannerTake, PlannerGather, PlannerSweepPlan,
       PlannerPlanned, PlanNothing, PlanEnd, Locks
  <2> QED
    BY <1>1, <2>1, <2>2, PlannerWrites DEF Checked
<1>2. CASE ~PPlanner
  BY <1>2, Steps, WriterWrites, RestWrites, CommitterWrites DEF planning, Checked
<1> QED
  BY <1>1, <1>2

LEMMA CollectedStep ==
  ASSUME JobInv, SetTypes, Asked, Collected, [PNext]_<<vars, pvars>>
  PROVE  Collected'
<1>0. JobTypes /\ Locks
  BY DEF JobInv
<1>1. CASE PlannerStart
  <2>1. deltas' = <<>>
    BY <1>1 DEF PlannerStart
  <2> QED
    BY <2>1 DEF Collected, From, Single
<1>2. CASE PlannerCheck
  BY <1>2, CheckCollects
<1>3. CASE ppc' # "check"
  BY <1>3 DEF Collected
<1>4. CASE ppc' = "check" /\ ~(PlannerStart \/ PlannerCheck)
  <2>1. ppc = "check" /\ UNCHANGED <<batch, idx, fate, deltas>> /\ Checked' = Checked
    BY <1>4, CheckStays
  <2>2. \A x \in Checked : job'[x] = job[x]
    BY <1>0, <2>1, CheckedType, SentStays DEF Desk
  <2> QED
    BY <2>1, <2>2 DEF Collected, From, Single, ValuesOf, Sole
<1> QED
  BY <1>1, <1>2, <1>3, <1>4

(* The draft starts with the deltas of the accepted jobs, or with removals. *)
LEMMA DraftBegins ==
  ASSUME JobInv, SetTypes, Collected, PlannerPlan \/ PlannerSweepPlan
  PROVE  Drafted'
<1>1. applied' = <<>> /\ over' = NothingPlanned /\ rejected' = {} /\ UNCHANGED <<fate, job>>
  BY DEF PlannerPlan, PlannerSweepPlan, PlanBatch, PlanSweep, PlanBegin, planning, writer
<1>2. /\ From(todo, ToSet(batch))' /\ \A w \in Writers : Sole(w) => Single(w, todo)'
  <2>1. CASE PlannerPlan
    <3>1. todo' = deltas /\ batch' = batch /\ ppc = "check"
      BY <2>1 DEF PlannerPlan, PlanBatch, PlanBegin, planning
    <3>2. Checked \subseteq ToSet(batch)
      BY CheckedType DEF JobInv
    <3> QED
      BY <1>1, <3>1, <3>2 DEF Collected, From, Single, ValuesOf
  <2>2. CASE PlannerSweepPlan
    <3>1. PICK ds \in Chunks : todo' = ds
      BY <2>2 DEF PlannerSweepPlan, PlanSweep, PlanBegin
    <3>2. \A n \in DOMAIN ds : ds[n].to = Absent
      BY DEF Chunks
    <3> QED
      BY <3>1, <3>2 DEF From, Single, Mine
  <2> QED
    BY <2>1, <2>2
<1>3. From(applied, ToSet(batch))'
  BY <1>1 DEF From
<1>4. \A v \in Values : over'[v] = Unplanned
  BY <1>1 DEF NothingPlanned
<1>5. \A w \in Writers : Sole(w) => DraftOf(w)'
  BY <1>1, <1>2 DEF DraftOf
<1> QED
  BY <1>2, <1>3, <1>4, <1>5 DEF Drafted, Sole

(* Plan looks at one more delta. *)
LEMMA DraftGoesOn ==
  ASSUME JobInv, SetTypes, Asked, Drafted, PlannerDelta
  PROVE  Drafted'
<1> DEFINE d == Head(todo)
<1>0. JobTypes /\ Locks
  BY DEF JobInv
<1>1. /\ ppc = "plan" /\ todo # <<>> /\ todo' = Tail(todo)
      /\ UNCHANGED <<ppc, job, fate, batch>>
  BY <1>0, DeltaWrites DEF Locks, pvars, writer, planning
<1>2. \/ UNCHANGED <<over, applied, rejected>>
      \/ UNCHANGED <<over, applied>> /\ rejected' = rejected \cup {d.v} /\ d.to # Absent
      \/ /\ over' = [over EXCEPT ![d.v] = d.to] /\ applied' = Append(applied, d)
         /\ rejected' = rejected
  BY DeltaWrites DEF PlanReject, PlanSkip, PlanInsert, PlanRefresh, PlanRemove, DraftDelta
<1>3. /\ \A m \in DOMAIN todo' : m + 1 \in DOMAIN todo /\ todo'[m] = todo[m + 1] /\ m + 1 # 1
      /\ 1 \in DOMAIN todo /\ d = todo[1] /\ d \in Delta
      /\ \A m, n \in DOMAIN todo' : m + 1 = n + 1 => m = n
  <2>1. todo \in Seq(Delta) /\ Len(todo) > 0
    BY <1>1 DEF SetTypes
  <2> QED
    BY <1>1, <2>1, TailGives
<1>4. /\ From(todo, ToSet(batch)) /\ From(applied, ToSet(batch))
      /\ \A v \in Values : over[v] # Unplanned =>
           \E n \in DOMAIN applied : applied[n] = [v |-> v, to |-> over[v]]
      /\ \A w \in Writers : Sole(w) => DraftOf(w)
  BY <1>1 DEF Drafted
<1>5. applied \in Seq(Delta) /\ ToSet(batch) \in SUBSET Writers
  BY <1>0, ToSetType DEF SetTypes, JobTypes
<1> HIDE DEF d
<1>6. /\ \A n \in DOMAIN applied : n \in DOMAIN applied' /\ applied'[n] = applied[n]
      /\ \A n \in DOMAIN applied' : \/ n \in DOMAIN applied /\ applied'[n] = applied[n]
                                    \/ applied' = Append(applied, d) /\ applied'[n] = d
      /\ applied' = Append(applied, d) => \E n \in DOMAIN applied' : applied'[n] = d
  <2>1. CASE applied' = Append(applied, d)
    <3>1. /\ DOMAIN applied' = 1..(Len(applied) + 1) /\ DOMAIN applied = 1..Len(applied)
          /\ \A i \in 1..Len(applied) : applied'[i] = applied[i]
          /\ applied'[Len(applied) + 1] = d /\ Len(applied) \in Nat
      BY <1>3, <1>5, <2>1, AppendGives
    <3> QED
      BY <2>1, <3>1
  <2>2. CASE applied' = applied
    <3>1. applied # Append(applied, d)
      BY <1>3, <1>5
    <3> QED
      BY <2>2, <3>1
  <2> QED
    BY <1>2, <2>1, <2>2
<1>7. From(todo, ToSet(batch))'
  BY <1>1, <1>3, <1>4 DEF From, ValuesOf
<1>8. From(applied, ToSet(batch))'
  <2>1. ASSUME NEW n \in DOMAIN applied', applied'[n].to # Absent
        PROVE  \E x \in ToSet(batch) :
                 fate[x] = "none" /\ applied'[n].to = job[x].to /\ applied'[n].v \in ValuesOf(x)
    <3>1. CASE n \in DOMAIN applied /\ applied'[n] = applied[n]
      BY <1>4, <2>1, <3>1 DEF From
    <3>2. CASE applied'[n] = d
      BY <1>3, <1>4, <2>1, <3>2 DEF From
    <3> QED
      BY <1>6, <3>1, <3>2
  <2> QED
    BY <1>1, <2>1 DEF From, ValuesOf
<1>9. \A v \in Values : over'[v] # Unplanned =>
        \E n \in DOMAIN applied' : applied'[n] = [v |-> v, to |-> over'[v]]
  <2>1. CASE over' = over
    BY <1>4, <1>6, <2>1
  <2>2. CASE over' = [over EXCEPT ![d.v] = d.to] /\ applied' = Append(applied, d)
    <3> SUFFICES ASSUME NEW v \in Values, over'[v] # Unplanned
                 PROVE  \E n \in DOMAIN applied' : applied'[n] = [v |-> v, to |-> over'[v]]
      OBVIOUS
    <3>1. CASE v = d.v
      <4>1. over'[v] = d.to
        BY <2>2, <3>1 DEF SetTypes
      <4>2. d = [v |-> v, to |-> d.to]
        BY <1>3, <3>1 DEF Delta
      <4> QED
        BY <1>6, <2>2, <4>1, <4>2
    <3>2. CASE v # d.v
      <4>1. over'[v] = over[v]
        BY <2>2, <3>2 DEF SetTypes
      <4> QED
        BY <1>4, <1>6, <4>1
    <3> QED
      BY <3>1, <3>2
  <2> QED
    BY <1>2, <2>1, <2>2
<1>10. ASSUME NEW w \in Writers, Sole(w) PROVE DraftOf(w)'
  <2>0. DraftOf(w)
    BY <1>4, <1>10
  <2>1. Single(w, todo)'
    BY <1>3, <2>0 DEF Single, DraftOf
  <2>2. ASSUME NEW m \in DOMAIN todo', NEW n \in DOMAIN applied',
               Mine(w, todo'[m].to), Mine(w, applied'[n].to)
        PROVE  todo'[m].v # applied'[n].v
    <3>1. CASE n \in DOMAIN applied /\ applied'[n] = applied[n]
      BY <1>3, <2>0, <2>2, <3>1 DEF DraftOf
    <3>2. CASE applied'[n] = d
      BY <1>3, <2>0, <2>2, <3>2 DEF DraftOf, Single
    <3> QED
      BY <1>6, <3>1, <3>2
  <2>3. ASSUME Uncontended(w), NEW v \in rejected' \cap ValuesOf(w)
        PROVE  /\ \A n \in DOMAIN todo' : todo'[n].v = v => ~Mine(w, todo'[n].to)
               /\ \A n \in DOMAIN applied' : applied'[n].v = v => ~Mine(w, applied'[n].to)
    <3>1. CASE v \in rejected
      BY <1>3, <1>6, <2>0, <2>3, <3>1 DEF DraftOf
    <3>2. CASE v \notin rejected
      <4>1. v = d.v /\ d.to # Absent /\ applied' = applied
        BY <1>2, <2>3, <3>2
      <4>2. PICK x \in ToSet(batch) : d.to = job[x].to /\ d.v \in ValuesOf(x)
        BY <1>3, <1>4, <4>1 DEF From
      <4>3. x = w
        BY <1>5, <2>3, <4>1, <4>2 DEF Uncontended, Additive
      <4>4. Mine(w, d.to)
        BY <4>1, <4>2, <4>3 DEF Asked, Mine
      <4>5. \A n \in DOMAIN todo' : todo'[n].v = v => ~Mine(w, todo'[n].to)
        BY <1>3, <2>0, <4>1, <4>4 DEF DraftOf, Single
      <4>6. \A n \in DOMAIN applied : applied[n].v = v => ~Mine(w, applied[n].to)
        BY <1>3, <2>0, <4>1, <4>4 DEF DraftOf
      <4> QED
        BY <4>1, <4>5, <4>6
    <3> QED
      BY <3>1, <3>2
  <2>4. Uncontended(w)' = Uncontended(w) /\ ValuesOf(w)' = ValuesOf(w)
    BY <1>1 DEF Uncontended, ValuesOf, Additive
  <2> QED
    BY <2>1, <2>2, <2>3, <2>4 DEF DraftOf
<1> QED
  BY <1>7, <1>8, <1>9, <1>10 DEF Drafted, Sole

(* Between two deltas of Plan nobody touches the draft. *)
LEMMA DraftStays ==
  ASSUME JobInv, [PNext]_<<vars, pvars>>, ppc' = "plan",
         ~(PlannerPlan \/ PlannerSweepPlan \/ PlannerDelta)
  PROVE  ~PPlanner /\ ppc = "plan" /\ UNCHANGED <<draft, batch, fate>>
<1>1. ~PPlanner
  BY DEF PPlanner, PlannerTake, PlannerGather, PlannerStart, PlannerCheck, PlannerNoPlan,
     PlannerPlanned, PlannerAnswer, PlannerRefuse, PlannerSend, PlannerDrop, PlannerSweep,
     PlannerExit, Resume
<1> QED
  BY <1>1, Steps, WriterWrites, RestWrites, CommitterWrites DEF planning, vars

LEMMA DraftedStep ==
  ASSUME JobInv, SetTypes, Asked, Collected, Drafted, [PNext]_<<vars, pvars>>
  PROVE  Drafted'
<1>0. JobTypes /\ Locks
  BY DEF JobInv
<1>1. CASE PlannerPlan \/ PlannerSweepPlan
  BY <1>1, DraftBegins
<1>2. CASE PlannerDelta
  BY <1>2, DraftGoesOn
<1>3. CASE ppc' # "plan"
  BY <1>3 DEF Drafted
<1>4. CASE ppc' = "plan" /\ ~(PlannerPlan \/ PlannerSweepPlan \/ PlannerDelta)
  <2>1. ppc = "plan" /\ UNCHANGED <<draft, batch, fate>>
    BY <1>4, DraftStays
  <2>2. /\ \A x \in ToSet(batch) : job'[x] = job[x]
        /\ ToSet(batch) \in SUBSET Writers
    BY <1>0, <2>1, SentStays, ToSetType DEF Desk, JobTypes
  <2>3. /\ From(todo, ToSet(batch)) /\ From(applied, ToSet(batch))
        /\ \A w \in Writers : Sole(w) => DraftOf(w)
    BY <2>1 DEF Drafted
  <2>4. From(todo, ToSet(batch))' /\ From(applied, ToSet(batch))'
    BY <2>1, <2>2, <2>3 DEF From, ValuesOf, draft
  <2>5. ASSUME NEW w \in Writers, Sole(w) PROVE DraftOf(w)'
    <3>1. DraftOf(w)
      BY <2>3, <2>5
    <3>2. Uncontended(w)' => Uncontended(w)
      BY <1>0, ContendedStays
    <3>3. CASE job'[w] = job[w]
      BY <2>1, <3>1, <3>2, <3>3 DEF DraftOf, Single, ValuesOf, draft
    <3>4. CASE job'[w] # job[w]
      <4>1. w \notin ToSet(batch)
        BY <2>2, <3>4
      <4>2. /\ \A n \in DOMAIN todo : ~Mine(w, todo[n].to)
            /\ \A n \in DOMAIN applied : ~Mine(w, applied[n].to)
        BY <2>2, <2>3, <2>5, <4>1, FromOwn
      <4> QED
        BY <2>1, <4>2 DEF DraftOf, Single, draft
    <3> QED
      BY <3>3, <3>4
  <2> QED
    BY <2>1, <2>4, <2>5 DEF Drafted, Sole, draft
<1> QED
  BY <1>1, <1>2, <1>3, <1>4

(* The jobs of a plan are with the committer, or those of one of the owners. *)
LEMMA OwnerPlace ==
  ASSUME JobTypes, SetTypes, Aligned, NEW i \in DOMAIN flight
  PROVE  \/ Busy /\ i = 1 /\ OwnerOf(i) = held /\ Hands = held
         \/ Busy /\ i # 1 /\ i - 1 \in DOMAIN owners /\ OwnerOf(i) = owners[i - 1]
         \/ ~Busy /\ i \in DOMAIN owners /\ OwnerOf(i) = owners[i]
<1>1. /\ owners \in Seq(SUBSET Writers) /\ flight \in Seq(Plan) /\ i \in 1..Len(flight)
      /\ Len(flight) = Len(owners) + (IF Busy THEN 1 ELSE 0)
  BY DEF JobTypes, SetTypes, Aligned
<1>2. Busy => Hands = held
  BY DEF Busy, Hands
<1> QED
  BY <1>1, <1>2 DEF OwnerOf

(* A step that changes no plan and no contents adds no trace. *)
LEMMA TraceKept ==
  ASSUME NEW w \in Writers, TraceOf(w),
         UNCHANGED <<entries, pend, gen, flight, owners, held, Busy>>,
         cpc \in {"commit", "publish"} => cpc' \in {"commit", "publish"},
         reply'[w] = reply[w], Unasked(w)' => Unasked(w)
  PROVE  TraceOf(w)'
<1>1. \A i : OwnerOf(i)' = OwnerOf(i)
  BY DEF OwnerOf
<1> QED
  BY <1>1 DEF TraceOf

(* The oldest plan leaves the flight: the others move up. *)
LEMMA TraceMovesUp ==
  ASSUME JobTypes, SetTypes, Aligned, Busy, ~Busy', owners' = owners, flight' = Tail(flight),
         NEW i \in DOMAIN flight'
  PROVE  /\ i + 1 \in DOMAIN flight /\ flight'[i] = flight[i + 1]
         /\ OwnerOf(i)' = OwnerOf(i + 1)
<1>1. flight \in Seq(Plan) /\ Len(flight) > 0
  BY DEF SetTypes, Aligned, JobTypes
<1>2. i + 1 \in DOMAIN flight /\ flight'[i] = flight[i + 1] /\ i + 1 # 1 /\ (i + 1) - 1 = i
  BY <1>1, TailGives
<1> QED
  BY <1>2 DEF OwnerOf

(* A plan with its owners joins the others. *)
LEMMA FlightGrows ==
  ASSUME JobTypes, SetTypes, Aligned, NEW kept \in SUBSET Writers, NEW p \in Plan,
         owners' = Append(owners, kept), flight' = Append(flight, p), UNCHANGED <<cpc, held>>
  PROVE  /\ \A i \in DOMAIN flight : /\ i \in DOMAIN flight' /\ flight'[i] = flight[i]
                                     /\ OwnerOf(i)' = OwnerOf(i) /\ i <= Len(flight) /\ i \in Nat
         /\ \A i \in DOMAIN flight' :
              i \in DOMAIN flight \/ (i = Len(flight) + 1 /\ flight'[i] = p /\ OwnerOf(i)' = kept)
<1>1. /\ owners \in Seq(SUBSET Writers) /\ flight \in Seq(Plan)
      /\ Len(flight) = Len(owners) + (IF Busy THEN 1 ELSE 0) /\ Busy' = Busy
  BY DEF JobTypes, SetTypes, Aligned, Busy
<1>2. /\ DOMAIN owners' = 1..(Len(owners) + 1) /\ Len(owners) \in Nat
      /\ \A i \in 1..Len(owners) : owners'[i] = owners[i]
      /\ owners'[Len(owners) + 1] = kept
  BY <1>1, AppendGives
<1>3. /\ DOMAIN flight' = 1..(Len(flight) + 1) /\ DOMAIN flight = 1..Len(flight)
      /\ \A i \in 1..Len(flight) : flight'[i] = flight[i]
      /\ flight'[Len(flight) + 1] = p /\ Len(flight) \in Nat
  BY <1>1, AppendGives
<1>4. \A i \in DOMAIN flight : i \in DOMAIN flight' /\ i <= Len(flight) /\ i \in Nat
  BY <1>3
<1>5. \A i \in DOMAIN flight' : i \in DOMAIN flight \/ i = Len(flight) + 1
  BY <1>3
<1>6. \A i \in DOMAIN flight : OwnerOf(i)' = OwnerOf(i)
  BY <1>1, <1>2, <1>3 DEF OwnerOf
<1>7. ASSUME NEW i \in DOMAIN flight', i = Len(flight) + 1
      PROVE  OwnerOf(i)' = kept
  <2>1. CASE Busy
    <3>1. i # 1 /\ i - 1 = Len(owners) + 1
      BY <1>1, <1>2, <1>7, <2>1
    <3> QED
      BY <1>1, <1>2, <2>1, <3>1 DEF OwnerOf
  <2>2. CASE ~Busy
    <3>1. i = Len(owners) + 1
      BY <1>1, <1>2, <1>7, <2>2
    <3> QED
      BY <1>1, <1>2, <2>2, <3>1 DEF OwnerOf
  <2> QED
    BY <2>1, <2>2
<1> QED
  BY <1>3, <1>4, <1>5, <1>6, <1>7

(* A plan that is dropped was the last one. *)
LEMMA FlightDrops ==
  ASSUME JobTypes, Channel, SetTypes, Aligned, PlannerDrop, NEW i \in DOMAIN flight'
  PROVE  i \in DOMAIN flight /\ flight'[i] = flight[i] /\ OwnerOf(i)' = OwnerOf(i)
<1>1. /\ ppc = "send" /\ owners' = Front(owners) /\ flight' = Front(flight)
      /\ UNCHANGED <<held, Busy>>
  BY DEF PlannerDrop, committer, Busy
<1>2. /\ owners \in Seq(SUBSET Writers) /\ flight \in Seq(Plan) /\ Len(owners) > 0
      /\ Len(flight) = Len(owners) + (IF Busy THEN 1 ELSE 0)
  BY <1>1 DEF JobTypes, SetTypes, Channel, Aligned
<1>3. /\ DOMAIN flight' = 1..(Len(flight) - 1) /\ DOMAIN flight = 1..Len(flight)
      /\ \A j \in 1..(Len(flight) - 1) : flight'[j] = flight[j]
      /\ Len(flight) \in Nat /\ Len(owners) \in Nat
      /\ \A j \in 1..(Len(owners) - 1) : owners'[j] = owners[j]
  <2>1. Len(flight) > 0 /\ Len(flight) \in Nat /\ Len(owners) \in Nat /\ DOMAIN flight = 1..Len(flight)
    BY <1>2
  <2>2. DOMAIN Front(flight) = 1..(Len(flight) - 1) /\ \A j \in 1..(Len(flight) - 1) : Front(flight)[j] = flight[j]
    BY <1>2, <2>1, FrontGives
  <2>3. \A j \in 1..(Len(owners) - 1) : Front(owners)[j] = owners[j]
    BY <1>2, FrontGives
  <2> QED
    BY <1>1, <2>1, <2>2, <2>3
<1>4. i \in DOMAIN flight /\ flight'[i] = flight[i] /\ i \in Nat
  BY <1>3
<1>5. Busy /\ i # 1 => owners'[i - 1] = owners[i - 1]
  BY <1>2, <1>3
<1>6. ~Busy => owners'[i] = owners[i]
  BY <1>2, <1>3
<1> QED
  BY <1>1, <1>4, <1>5, <1>6 DEF OwnerOf

(* The committer takes the oldest plan, whose owners stay the same. *)
LEMMA FlightTaken ==
  ASSUME JobTypes, Channel, SetTypes, Aligned, CommitterTake, NEW i \in DOMAIN flight
  PROVE  OwnerOf(i)' = OwnerOf(i)
<1>1. /\ cpc = "idle" /\ cpc' = "held" /\ sent > 0 /\ held' = Head(owners)
      /\ owners' = Tail(owners)
  BY DEF CommitterTake
<1>2. /\ owners \in Seq(SUBSET Writers) /\ Len(owners) > 0 /\ flight \in Seq(Plan)
      /\ Len(flight) = Len(owners) /\ ~Busy /\ Busy'
  BY <1>1 DEF JobTypes, SetTypes, Channel, Aligned, Busy
<1>3. i \in 1..Len(owners)
  BY <1>2
<1>4. i # 1 => i - 1 \in 1..(Len(owners) - 1) /\ (i - 1) + 1 = i
  BY <1>2, <1>3
<1>5. i # 1 => owners'[i - 1] = owners[i]
  BY <1>1, <1>2, <1>4, TailGives
<1>6. held' = owners[1]
  BY <1>1, <1>2
<1> QED
  BY <1>2, <1>5, <1>6 DEF OwnerOf

(* Handlers, the clock and a stop leave no trace. *)
LEMMA WriterTrace ==
  ASSUME JobInv, NEW w \in Writers, TraceOf(w),
         (\E x \in Writers : Writer(x) \/ Deadline(x)) \/ Rest
  PROVE  TraceOf(w)'
<1>1. UNCHANGED <<entries, pend, gen, flight, owners, held, cpc, reply, Desk>>
  BY PlacesKept, WriterWrites, RestWrites DEF vars, committed, pending
<1>2. Unasked(w)' => Unasked(w)
  <2>1. CASE Rest
    BY <1>1, <2>1, RestWrites DEF Unasked, writer, queue
  <2>2. ASSUME NEW x \in Writers, Writer(x) \/ Deadline(x), Unasked(w)', ~Unasked(w) PROVE FALSE
    <3>1. wpc[w] \in {"wait", "done"}
      BY <2>2 DEF Unasked, JobInv, JobTypes
    <3>2. wpc'[w] \in {"wait", "done"}
      BY <2>2, <3>1, WriterWrites DEF Submit, SubmitCount, SubmitSend, SubmitRetract, SubmitReturn,
         Return, JobInv, JobTypes
    <3>3. jobs' = jobs \/ (jobs' = Append(jobs, x) /\ x # w)
      BY <2>2, <3>1, WriterWrites DEF SubmitSend
    <3>4. w \in ToSet(jobs') => w \in ToSet(jobs)
      <4>1. jobs \in Seq(Writers)
        BY DEF JobInv, JobTypes
      <4>2. ToSet(Append(jobs, x)) = ToSet(jobs) \cup {x}
        BY <4>1, ToSetAppend
      <4> QED
        BY <3>3, <4>2
    <3> QED
      BY <1>1, <2>2, <3>2, <3>4 DEF Unasked
  <2> QED
    BY <2>1, <2>2
<1>3. Busy' = Busy
  BY <1>1 DEF Busy
<1> QED
  BY <1>1, <1>2, <1>3, TraceKept

(* A new plan has the records of its owners, and of nobody else. *)
LEMMA PlannedTrace ==
  ASSUME JobInv, StoreInv, Asked, Drafted, PlannerPlanned, PlanEnd,
         NEW w \in Writers, Sole(w), TraceOf(w), ~Misjudged(w)'
  PROVE  TraceOf(w)'
<1> DEFINE kept == {x \in ToSet(batch) : fate'[x] = "none"}
           p == [deltas |-> applied, seq |-> pendSeq + 1, hash |-> acc, gen |-> gen]
<1>0. JobTypes /\ Locks /\ Apart /\ Open /\ SetTypes /\ Aligned
  BY DEF JobInv, StoreInv
<1>1. /\ ppc = "plan" /\ ppc' = "refuse" /\ Desk = ToSet(batch) /\ Desk' = Desk \ kept
      /\ owners' = Append(owners, kept) /\ flight' = Append(flight, p)
      /\ UNCHANGED <<entries, gen, cpc, held, reply, jobs, wpc, job, batch>>
      /\ \A v \in Values : pend'[v] = IF over[v] # Unplanned
                                      THEN [to |-> over[v], seq |-> pendSeq + 1] ELSE pend[v]
  BY DEF PlannerPlanned, PlanNothing, PlanEnd, committed, committer, writer, queue, JobInv, Locks,
         Desk
<1>2. /\ From(applied, ToSet(batch)) /\ DraftOf(w)
      /\ \A v \in Values : over[v] # Unplanned =>
           \E n \in DOMAIN applied : applied[n] = [v |-> v, to |-> over[v]]
  BY <1>1 DEF Drafted
<1>3. ToSet(batch) \in SUBSET Writers /\ kept \in SUBSET Writers
  BY <1>0, ToSetType DEF JobTypes
<1>4. ASSUME NEW n \in DOMAIN applied, Mine(w, applied[n].to)
      PROVE  w \in kept
  <2>1. w \in ToSet(batch) /\ fate[w] = "none" /\ applied[n].v \in ValuesOf(w)
    BY <1>2, <1>3, <1>4, FromOwn
  <2>2. CASE Count(w) = 1 /\ job[w].vals[1] \in rejected
    <3>1. fate'[w] = "full"
      BY <2>1, <2>2 DEF PlannerPlanned, Decide
    <3>2. Uncontended(w)
      <4>1. Count(w)' = Count(w) /\ Uncontended(w)' = Uncontended(w)
        BY <1>1 DEF Count, Uncontended, Additive, ValuesOf
      <4>2. ~(Count(w) > 1)
        BY <2>2
      <4> QED
        BY <1>1, <2>1, <3>1, <4>1, <4>2 DEF Misjudged
    <3>3. job[w].vals \in Seq(Values) /\ Len(job[w].vals) = 1
      BY <1>0, <2>2 DEF SetTypes, Count
    <3>4. ValuesOf(w) = {job[w].vals[1]}
      BY <3>3 DEF ValuesOf, ToSet
    <3> QED
      BY <1>2, <1>4, <2>1, <2>2, <3>2, <3>4 DEF DraftOf
  <2>3. CASE ~(Count(w) = 1 /\ job[w].vals[1] \in rejected)
    BY <2>1, <2>3 DEF PlannerPlanned, Decide
  <2> QED
    BY <2>2, <2>3
<1>5. /\ \A i \in DOMAIN flight : OwnerOf(i)' = OwnerOf(i) /\ flight'[i] = flight[i]
      /\ \A i \in DOMAIN flight' :
           i \in DOMAIN flight \/ (flight'[i] = p /\ OwnerOf(i)' = kept)
  <2>1. p \in Plan
    BY <1>0 DEF SetTypes, Plan
  <2> HIDE DEF p, kept
  <2> QED
    BY <1>0, <1>1, <1>3, <2>1, FlightGrows
<1>6. \A v \in Values : Mine(w, entries'[v]) =>
        reply'[w] = "ok" \/ (w \in held' /\ cpc' \in {"commit", "publish"})
  BY <1>1 DEF TraceOf
<1>7. \A i \in DOMAIN flight' : \A n \in DOMAIN flight'[i].deltas :
        Mine(w, flight'[i].deltas[n].to) => w \in OwnerOf(i)'
  BY <1>4, <1>5 DEF TraceOf
<1>8. ASSUME NEW v \in Values, pend'[v] # Unplanned, Mine(w, pend'[v].to)
      PROVE  /\ ~Unasked(w)'
             /\ reply'[w] \notin {"full", "store_unavailable"}
             /\ \A i \in DOMAIN flight' : w \in OwnerOf(i)' => flight'[i].gen = gen'
  <2>1. CASE over[v] # Unplanned
    <3>1. Mine(w, over[v])
      <4>1. pend'[v] = [to |-> over[v], seq |-> pendSeq + 1]
        BY <1>1, <2>1
      <4> QED
        BY <1>8, <4>1 DEF Mine
    <3>2. PICK n \in DOMAIN applied : applied[n] = [v |-> v, to |-> over[v]]
      BY <1>2, <2>1
    <3>3. w \in kept
      BY <1>4, <3>1, <3>2
    <3>4. w \in Desk /\ w \notin Desk' /\ w \notin ToSet(jobs) /\ w \notin Hands
      BY <1>0, <1>1, <3>3 DEF Apart
    <3>5. reply[w] = "none" /\ wpc[w] \in {"wait", "done"}
      BY <1>0, <3>4 DEF Open
    <3>6. \A i \in DOMAIN owners : w \notin owners[i]
      BY <1>0, <3>4 DEF Apart
    <3>7. \A i \in DOMAIN flight : w \notin OwnerOf(i)
      BY <1>0, <3>4, <3>6, OwnerPlace
    <3>8. ~Unasked(w)'
      BY <1>1, <3>4, <3>5 DEF Unasked
    <3> QED
      BY <1>1, <1>5, <3>5, <3>7, <3>8
  <2>2. CASE over[v] = Unplanned
    <3>1. pend'[v] = pend[v]
      BY <1>1, <2>2
    <3>2. /\ ~Unasked(w) /\ reply[w] \notin {"full", "store_unavailable"}
          /\ \A i \in DOMAIN flight : w \in OwnerOf(i) => flight[i].gen = gen
      BY <1>8, <3>1 DEF TraceOf
    <3>3. w \notin kept /\ ~Unasked(w)'
      BY <1>1, <3>2 DEF Unasked
    <3> QED
      BY <1>1, <1>5, <3>2, <3>3
  <2> QED
    BY <2>1, <2>2
<1> QED
  BY <1>6, <1>7, <1>8 DEF TraceOf

LEMMA PlannerTrace ==
  ASSUME JobInv, StoreInv, Asked, Drafted, PPlanner,
         NEW w \in Writers, Sole(w), TraceOf(w), ~Misjudged(w)', reply[w] # "none" => reply'[w] = reply[w]
  PROVE  TraceOf(w)'
<1>0. JobTypes /\ Locks /\ Channel /\ Apart /\ Open /\ SetTypes /\ Aligned
  BY DEF JobInv, StoreInv
<1>1. UNCHANGED <<entries, gen, cpc, held, wpc, Busy>>
  BY PlannerWrites DEF committer, writer, Busy
<1>2. CASE PlannerTake \/ PlannerGather
  <2>1. /\ UNCHANGED <<owners, flight, pend, reply>> /\ jobs # <<>> /\ jobs' = Tail(jobs)
        /\ ppc' = "gather" /\ jobs \in Seq(Writers) /\ batch \in Seq(Writers)
    BY <1>0, <1>2 DEF PlannerTake, PlannerGather, Take, channel, vars, pending, JobTypes
  <2>2. ToSet(jobs') = ToSet(jobs) \ {Head(jobs)} /\ Head(jobs) \in ToSet(jobs) /\ Head(jobs) \in Writers
    BY <1>0, <2>1, ToSetTail DEF Apart
  <2>3. Desk' \subseteq Desk \cup {Head(jobs)}
    <3>1. CASE PlannerTake
      BY <2>1, <2>2, <3>1, ToSetOne DEF PlannerTake, Desk
    <3>2. CASE PlannerGather
      BY <2>1, <2>2, <3>2, ToSetAppend DEF PlannerGather, Desk
    <3> QED
      BY <1>2, <3>1, <3>2
  <2>4. Unasked(w)' => Unasked(w)
    BY <1>1, <2>2, <2>3 DEF Unasked
  <2> QED
    BY <1>1, <2>1, <2>4, TraceKept
<1>3. CASE PlannerAnswer \/ PlannerRefuse
  <2>1. UNCHANGED <<owners, flight, pend, jobs>> /\ Desk' = {}
    BY <1>0, <1>3, PlannerAnswers DEF PlannerAnswer, PlannerRefuse, vars, pending
  <2>2. w \in Desk \/ reply'[w] = reply[w]
    BY <1>0, <1>3, PlannerAnswers
  <2>3. Unasked(w)' => Unasked(w)
    BY <1>1, <2>1 DEF Unasked
  <2>4. \A i : OwnerOf(i)' = OwnerOf(i)
    BY <1>1, <2>1 DEF OwnerOf
  <2>5. \A v \in Values : Mine(w, entries'[v]) =>
          reply'[w] = "ok" \/ (w \in held' /\ cpc' \in {"commit", "publish"})
    BY <1>1 DEF TraceOf
  <2>6. \A i \in DOMAIN flight' : \A n \in DOMAIN flight'[i].deltas :
          Mine(w, flight'[i].deltas[n].to) => w \in OwnerOf(i)'
    BY <2>1, <2>4 DEF TraceOf
  <2>7. \A v \in Values : pend'[v] # Unplanned /\ Mine(w, pend'[v].to) =>
          /\ ~Unasked(w)'
          /\ reply'[w] \notin {"full", "store_unavailable"}
          /\ \A i \in DOMAIN flight' : w \in OwnerOf(i)' => flight'[i].gen = gen'
    <3>1. ~Unasked(w) => reply'[w] = reply[w]
      BY <2>2 DEF Unasked
    <3> QED
      BY <1>1, <2>1, <2>3, <2>4, <3>1 DEF TraceOf
  <2> QED
    BY <2>5, <2>6, <2>7 DEF TraceOf
<1>4. CASE PlannerPlanned
  <2>1. CASE PlanEnd
    BY <1>4, <2>1, PlannedTrace
  <2>2. CASE ~PlanEnd
    <3>1. /\ UNCHANGED <<owners, flight, pend, reply, jobs, batch>>
          /\ ppc = "plan" /\ ppc' = "answer"
      BY <1>0, <1>4, <2>2 DEF PlannerPlanned, PlanNothing, pending, queue, Locks
    <3>2. Desk' = Desk
      BY <3>1 DEF Desk
    <3>3. Unasked(w)' => Unasked(w)
      BY <1>1, <3>1, <3>2 DEF Unasked
    <3> QED
      BY <1>1, <3>1, <3>3, TraceKept
  <2> QED
    BY <2>1, <2>2
<1>5. CASE PlannerDrop
  <2>1. /\ UNCHANGED <<pend, reply, jobs, Desk>> /\ ppc = "send"
        /\ owners' = Front(owners) /\ flight' = Front(flight)
    BY <1>5 DEF PlannerDrop, pending, queue, planning, Desk, Resume
  <2>4. \A i \in DOMAIN flight' : i \in DOMAIN flight /\ flight'[i] = flight[i] /\ OwnerOf(i)' = OwnerOf(i)
    BY <1>0, <1>5, FlightDrops
  <2>5. Unasked(w)' => Unasked(w)
    BY <1>1, <2>1 DEF Unasked
  <2> QED
    BY <1>1, <2>1, <2>4, <2>5 DEF TraceOf
<1>6. CASE ~(PlannerTake \/ PlannerGather \/ PlannerPlanned \/ PlannerAnswer \/ PlannerRefuse
             \/ PlannerDrop)
  <2>1. UNCHANGED <<Desk, jobs, owners, reply, pend, flight>>
    BY <1>0, <1>6, PlannerWrites, DeskWrites
  <2>2. Unasked(w)' => Unasked(w)
    BY <1>1, <2>1 DEF Unasked
  <2> QED
    BY <1>1, <2>1, <2>2, TraceKept
<1> QED
  BY <1>2, <1>3, <1>4, <1>5, <1>6

LEMMA CommitterTrace ==
  ASSUME JobInv, StoreInv, PCommitter,
         NEW w \in Writers, Sole(w), TraceOf(w), reply[w] # "none" => reply'[w] = reply[w]
  PROVE  TraceOf(w)'
<1>0. JobTypes /\ Locks /\ Channel /\ Apart /\ Open /\ SetTypes /\ Aligned
  BY DEF JobInv, StoreInv
<1>1. UNCHANGED <<Desk, jobs, wpc>> /\ Unasked(w)' = Unasked(w)
  BY CommitterWrites DEF Desk, planning, queue, writer, Unasked
<1>2. CASE CommitterTake
  <2>1. /\ cpc = "idle" /\ cpc' = "held" /\ sent > 0 /\ held' = Head(owners)
        /\ owners' = Tail(owners) /\ UNCHANGED <<entries, pend, gen, flight, reply>>
    BY <1>2 DEF CommitterTake, vars, committed, pending
  <2>3. \A i \in DOMAIN flight : OwnerOf(i)' = OwnerOf(i)
    BY <1>0, <1>2, FlightTaken
  <2> QED
    BY <1>1, <2>1, <2>3 DEF TraceOf
<1>3. CASE CommitterStale \/ CommitterCommitted \/ CommitterAbort
  <2>1. /\ Busy /\ ~Busy' /\ UNCHANGED <<owners, held, entries>> /\ flight' = Tail(flight)
        /\ cpc' \in {"idle", "publish"} /\ flight # <<>>
    <3>1. /\ Busy /\ ~Busy' /\ UNCHANGED <<owners, held, entries>> /\ flight' = Tail(flight)
          /\ cpc' \in {"idle", "publish"}
      BY <1>0, <1>3 DEF CommitterStale, SkipStale, CommitterCommitted, CommitEnd, CommitterAbort,
         Abort, Locks, channel, Busy, committed
    <3> QED
      BY <1>0, <3>1 DEF Aligned, SetTypes, JobTypes
  <2>2. \A i \in DOMAIN flight' : /\ i + 1 \in DOMAIN flight /\ flight'[i] = flight[i + 1]
                                  /\ OwnerOf(i)' = OwnerOf(i + 1)
    BY <1>0, <2>1, TraceMovesUp
  <2>3. \A v \in Values : Mine(w, entries'[v]) =>
          reply'[w] = "ok" \/ (w \in held' /\ cpc' \in {"commit", "publish"})
    <3>1. cpc \in {"commit", "publish"} => cpc' = "publish"
      BY <1>3 DEF CommitterStale, CommitterCommitted, CommitterAbort
    <3> QED
      BY <2>1, <3>1 DEF TraceOf
  <2>4. \A i \in DOMAIN flight' : \A n \in DOMAIN flight'[i].deltas :
          Mine(w, flight'[i].deltas[n].to) => w \in OwnerOf(i)'
    BY <2>2 DEF TraceOf
  <2>5. ASSUME NEW v \in Values, pend'[v] # Unplanned, Mine(w, pend'[v].to)
        PROVE  /\ ~Unasked(w)'
               /\ reply'[w] \notin {"full", "store_unavailable"}
               /\ \A i \in DOMAIN flight' : w \in OwnerOf(i)' => flight'[i].gen = gen'
    <3>1. ~CommitterAbort
      <4>1. CommitterAbort => pend' = NothingPlanned
        BY DEF CommitterAbort, Abort, Settle
      <4> QED
        BY <2>5, <4>1 DEF NothingPlanned
    <3>2. pend' = pend /\ gen' = gen
      BY <1>3, <3>1 DEF CommitterStale, SkipStale, CommitterCommitted, CommitEnd, pending
    <3>3. /\ ~Unasked(w) /\ reply[w] \notin {"full", "store_unavailable"}
          /\ \A i \in DOMAIN flight : w \in OwnerOf(i) => flight[i].gen = gen
      BY <2>5, <3>2 DEF TraceOf
    <3>4. reply'[w] = reply[w]
      <4>1. CASE CommitterStale
        <5>1. Head(flight).gen # gen
          BY <4>1 DEF CommitterStale, SkipStale
        <5>2. 1 \in DOMAIN flight /\ Head(flight) = flight[1] /\ OwnerOf(1) = held
          BY <1>0, <2>1, OldestPlan DEF OwnerOf
        <5>3. w \notin held
          BY <3>3, <5>1, <5>2
        <5> QED
          BY <1>0, <4>1, <5>3, CommitterAnswers
      <4>2. CASE CommitterCommitted
        BY <4>2 DEF CommitterCommitted
      <4> QED
        BY <1>3, <3>1, <4>1, <4>2
    <3> QED
      BY <1>1, <2>2, <3>2, <3>3, <3>4
  <2> QED
    BY <2>3, <2>4, <2>5 DEF TraceOf
<1>4. CASE CommitterDelta
  <2> DEFINE d == Head(flight).deltas[done + 1]
  <2>1. /\ cpc = "commit" /\ done < Len(Head(flight).deltas)
        /\ entries' = [entries EXCEPT ![d.v] = d.to]
        /\ pend' = pend \/ pend' = [pend EXCEPT ![d.v] = Unplanned]
        /\ UNCHANGED <<flight, gen, owners, held, cpc, reply>>
    BY <1>0, <1>4 DEF CommitterDelta, CommitDelta, pvars, channel, committer, Locks
  <2>2. flight # <<>> /\ Busy
    BY <1>0, <2>1 DEF Aligned, Busy, JobTypes, SetTypes
  <2>3. 1 \in DOMAIN flight /\ Head(flight) = flight[1] /\ done + 1 \in DOMAIN flight[1].deltas
    <3>1. Head(flight).deltas \in Seq(Delta) /\ done \in Nat
      BY <1>0, <2>2, OldestPlan DEF SetTypes
    <3> QED
      BY <1>0, <2>1, <2>2, <3>1, OldestPlan
  <2>4. Mine(w, d.to) => w \in held
    BY <2>2, <2>3 DEF TraceOf, OwnerOf
  <2> HIDE DEF d
  <2>5. \A v \in Values : entries'[v] = entries[v] \/ entries'[v] = d.to
    BY <1>0, <2>1 DEF SetTypes
  <2>6. \A v \in Values : pend'[v] = pend[v] \/ pend'[v] = Unplanned
    BY <1>0, <2>1 DEF SetTypes
  <2>7. \A i : OwnerOf(i)' = OwnerOf(i)
    BY <2>1 DEF OwnerOf, Busy
  <2>8. \A v \in Values : Mine(w, entries'[v]) =>
          reply'[w] = "ok" \/ (w \in held' /\ cpc' \in {"commit", "publish"})
    BY <2>1, <2>4, <2>5 DEF TraceOf
  <2> QED
    BY <1>1, <2>1, <2>6, <2>7, <2>8 DEF TraceOf
<1>5. CASE CommitterPublish
  <2>1. /\ cpc = "publish" /\ cpc' = "idle"
        /\ UNCHANGED <<entries, pend, gen, flight, owners, held, Busy>>
    BY <1>5 DEF CommitterPublish, vars, committed, pending, channel, Busy
  <2>2. w \in held => reply'[w] = "ok"
    BY <1>0, <1>5, CommitterAnswers
  <2>3. w \notin held => reply'[w] = reply[w]
    BY <1>0, <1>5, CommitterAnswers
  <2>4. \A i : OwnerOf(i)' = OwnerOf(i)
    BY <2>1 DEF OwnerOf
  <2> QED
    BY <1>1, <2>1, <2>2, <2>3, <2>4 DEF TraceOf
<1>6. CASE (\E o \in {"ok", "lost", "torn"} : CommitterStore(o)) \/ CommitterCommit \/ CommitterExit
  <2>1. /\ UNCHANGED <<entries, pend, gen, flight, owners, held, Busy, reply>>
        /\ cpc \in {"commit", "publish"} => cpc' \in {"commit", "publish"}
    BY <1>6 DEF CommitterStore, CommitterCommit, CommitBegin, CommitterExit, vars, committed,
       pending, channel, Busy
  <2> QED
    BY <1>1, <2>1, TraceKept
<1> QED
  BY <1>2, <1>3, <1>4, <1>5, <1>6 DEF PCommitter

LEMMA TraceInvStep ==
  ASSUME JobInv, StoreInv, TraceInv, [PNext]_<<vars, pvars>>
  PROVE  TraceInv'
<1>0. Asked /\ Collected /\ Drafted /\ Traces /\ JobTypes /\ SetTypes
  BY DEF TraceInv, JobInv, StoreInv
<1>1. Asked' /\ Collected' /\ Drafted'
  BY <1>0, JobStays, CollectedStep, DraftedStep
<1>2. ASSUME NEW w \in Writers, Sole(w), ~Misjudged(w)' PROVE TraceOf(w)'
  <2>1. TraceOf(w)
    BY <1>0, <1>2, MisjudgedStays DEF Traces
  <2>2. reply[w] # "none" => reply'[w] = reply[w]
    BY OpenStays
  <2> QED
    BY <1>0, <1>2, <2>1, <2>2, Steps, WriterTrace, PlannerTrace, CommitterTrace
<1> QED
  BY <1>1, <1>2 DEF TraceInv, Traces, Sole

(***************************************************************************)
(* Where the records of a writer can be: in memory only once its answer is *)
(* ok or while its own plan is being committed, in a plan only if the      *)
(* answer to that plan goes to it, and pending only if its plan is not     *)
(* void and it has not been refused.                                       *)
(***************************************************************************)
THEOREM TracesOwned == PSpec => [](JobInv /\ StoreInv /\ TraceInv)
<1>1. PInit => TraceInv
  <2> SUFFICES ASSUME PInit PROVE TraceInv
    OBVIOUS
  <2>1. /\ ppc = "idle" /\ cpc = "idle" /\ flight = <<>> /\ pend = NothingPlanned
        /\ \A w \in Writers : job[w] = NoJob
        /\ \A v \in Present(entries) : entries[v].why = Boot
    BY DEF PInit, Init, Load
  <2>2. Asked
    BY <2>1, ToSetNone DEF Asked, NoJob
  <2>3. Collected /\ Drafted
    BY <2>1 DEF Collected, Drafted
  <2>4. ASSUME NEW w \in Writers PROVE TraceOf(w)
    <3>1. WhyOf[w] # Boot
      BY PipelineAssumption
    <3>2. \A v \in Values : ~Mine(w, entries[v])
      BY <2>1, <3>1 DEF Mine, Present
    <3> QED
      BY <2>1, <3>2 DEF TraceOf, NothingPlanned
  <2> QED
    BY <2>2, <2>3, <2>4 DEF TraceInv, Traces
<1>2. JobInv /\ StoreInv /\ TraceInv /\ [PNext]_<<vars, pvars>> => TraceInv'
  BY TraceInvStep
<1> QED
  BY <1>1, <1>2, StoreFollowed, PTL DEF PSpec

(***************************************************************************)
(* A write answered store_unavailable by the committer is not in memory,   *)
(* not pending and in no plan, and so never gets there, although plans     *)
(* made on top of it were in flight; the same holds of a write answered    *)
(* full, unless it is of one record that another writer adds as well.      *)
(***************************************************************************)
THEOREM PipelineRefusedLeavesNoTrace == PSpec => []RefusedLeavesNoTrace
<1>1. JobInv /\ StoreInv /\ TraceInv => RefusedLeavesNoTrace
  <2> SUFFICES ASSUME JobInv, StoreInv, TraceInv, NEW w \in Writers, Sole(w),
                      \/ reply[w] = "store_unavailable"
                      \/ reply[w] = "full" /\ (Count(w) > 1 \/ Uncontended(w))
               PROVE  NoTrace(w)
    BY DEF RefusedLeavesNoTrace
  <2>0. JobTypes /\ Open /\ SetTypes /\ Aligned
    BY DEF JobInv, StoreInv
  <2>1. w \notin Hands /\ w \notin Desk /\ \A i \in DOMAIN owners : w \notin owners[i]
    BY <2>0 DEF Open
  <2>2. ~Misjudged(w)
    BY <2>1 DEF Misjudged, Desk
  <2>3. TraceOf(w)
    BY <2>2 DEF TraceInv, Traces
  <2>4. \A v \in Values : ~Mine(w, entries[v])
    BY <2>1, <2>3 DEF TraceOf, Hands
  <2>5. \A v \in Values : ~Mine(w, Lookup(v))
    BY <2>3, <2>4 DEF TraceOf, Lookup
  <2>6. \A i \in DOMAIN flight : w \notin OwnerOf(i)
    BY <2>0, <2>1, OwnerPlace
  <2>7. \A i \in DOMAIN flight : \A n \in DOMAIN flight[i].deltas : ~Mine(w, flight[i].deltas[n].to)
    BY <2>3, <2>6 DEF TraceOf
  <2> QED
    BY <2>4, <2>5, <2>7 DEF NoTrace, Mine
<1> QED
  BY <1>1, TracesOwned, PTL
=============================================================================
