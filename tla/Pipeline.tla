------------------------------- MODULE Pipeline -------------------------------
(***************************************************************************)
(* The way of a write through one holder: internal/keeper/keeper.go,       *)
(* Submit, planner, gather, plan, answer, committer and commit, on top of  *)
(* the set of module ActiveSet, whose actions it takes.                    *)
(*                                                                         *)
(* A writer (a handler goroutine of the bus) counts its records into       *)
(* queued, sends its job to the channel jobs and waits for the reply.  The *)
(* planner gathers jobs, checks deadlines and the limit, plans, answers    *)
(* what is decided already and sends the plan to the channel of batches.   *)
(* The committer stores each plan in Redis, then commits it to the set and *)
(* answers, or aborts.  The state store may fail before or after it has    *)
(* applied a transaction.  A stop ends both goroutines.                    *)
(***************************************************************************)
EXTENDS ActiveSet, SequencesExt

CONSTANTS
  Writers,     \* calls of Submit
  WhyOf,       \* per writer: the Origin and Reason of its records
  Boot,        \* the origin of the records the set was loaded with
  LoadedExps,  \* expiry instants of those records
  Scripts,     \* what a writer may ask for: [op, vals, ttl]
  QueueMax,    \* Options.QueueMax: records, and the capacity of jobs
  Depth,       \* Options.Pipeline: the capacity of batches
  Coalesce,    \* Options.Coalesce > 0: gather waits for a window
  Deadlines,   \* whether the context of a writer may end early
  Torn,        \* whether the state store may fail after having applied
  MayStop      \* whether the holder may be shut down

Script == [op : {"add", "remove"}, vals : Seq(Values), ttl : Nat]

ASSUME PipelineAssumption ==
  /\ IsFiniteSet(Writers)
  /\ Boot \in Whys /\ WhyOf \in [Writers -> Whys \ {Boot}]
  /\ LoadedExps \subseteq Exps
  /\ Scripts \subseteq Script
  /\ \A s \in Scripts : s.vals # <<>> /\ IsInjective(s.vals)
  /\ \A s \in Scripts, t \in 0..MaxNow : s.op = "add" => s.ttl > 0 /\ t + s.ttl \in Exps
  /\ QueueMax \in Nat \ {0} /\ Depth \in Nat \ {0}
  /\ FlightMax = Depth + 2
  /\ {Coalesce, Deadlines, Torn, MayStop} \subseteq BOOLEAN

VARIABLES
  job,      \* per writer: its records (vals) and what becomes of them (to)
  wpc,      \* per writer: where it is in Submit
  late,     \* per writer: its context is done
  outcome,  \* per writer: what Submit returned
  reply,    \* per writer: its reply channel, of capacity one
  queued,   \* records counted in and not taken out by gather
  jobs,     \* the channel of jobs
  ppc,      \* where the planner is
  batch,    \* the jobs gathered
  idx,      \* plan: the job looked at
  room,     \* plan: running size
  seen,     \* plan: values of additions accepted so far
  deltas,   \* plan: deltas of the accepted jobs
  fate,     \* plan: per writer, the code decided, or none
  owners,   \* per plan not taken by the committer: the jobs it answers
  sent,     \* how many of those are in the channel of batches
  cpc,      \* where the committer is
  held,     \* the jobs of the batch the committer holds
  stored,   \* the contents of the set in Redis
  unsure,   \* values of a transaction that failed after it was applied
  stopped,  \* h.stop is closed
  effect    \* history, per writer: its values that Redis showed as asked, or
            \* that were in doubt until the transaction it is answered for

writer    == <<job, wpc, late, outcome>>
queue     == <<queued, jobs>>
planning  == <<batch, idx, room, seen, deltas, fate>>
channel   == <<owners, sent>>
committer == <<cpc, held>>
redis     == <<stored, unsure, effect>>
pvars     == <<writer, reply, queue, ppc, planning, channel, committer, redis, stopped>>

Count(w) == Len(job[w].vals)
ValuesOf(w) == ToSet(job[w].vals)
Additive(w) == job[w].to # Absent

JobDeltas(w) == [i \in DOMAIN job[w].vals |-> [v |-> job[w].vals[i], to |-> job[w].to]]

(* Fault: a ZADD that leaves members alone that are there. *)
WrittenOnlyNew(contents, ds) ==
  FoldLeft(LAMBDA c, d : [c EXCEPT ![d.v] = IF @ # Absent /\ d.to # Absent THEN @ ELSE d.to],
           contents, ds)

(* What Redis holds once it has run the transaction: per value its last delta. *)
Written(contents, ds) ==
  [v \in Values |-> LET its == {n \in DOMAIN ds : ds[n].v = v} IN
                    IF its = {} THEN contents[v] ELSE ds[Max(its)].to]

(* Send its code to each writer of a set: the reply channels have room. *)
Answer(ws, code) == reply' = [w \in Writers |-> IF w \in ws THEN code[w] ELSE reply[w]]

NoJob == [vals |-> <<>>, to |-> Absent]

PInit ==
  /\ Init
  /\ \A v \in Present(entries) : entries[v].why = Boot /\ entries[v].exp \in LoadedExps
  /\ job = [w \in Writers |-> NoJob]
  /\ wpc = [w \in Writers |-> "new"]
  /\ late = [w \in Writers |-> FALSE]
  /\ outcome = [w \in Writers |-> "none"]
  /\ reply = [w \in Writers |-> "none"]
  /\ queued = 0 /\ jobs = <<>>
  /\ ppc = "idle"
  /\ batch = <<>> /\ idx = 1 /\ room = 0 /\ seen = {} /\ deltas = <<>>
  /\ fate = [w \in Writers |-> "none"]
  /\ owners = <<>> /\ sent = 0
  /\ cpc = "idle" /\ held = {}
  /\ stored = entries /\ unsure = {}
  /\ stopped = FALSE
  /\ effect = [w \in Writers |-> {}]

-----------------------------------------------------------------------------
(* Submit *)

Return(w, code) ==
  /\ outcome' = [outcome EXCEPT ![w] = code]
  /\ wpc' = [wpc EXCEPT ![w] = "done"]

(***************************************************************************)
(* A request passes validation and meets the queue: it is refused when its *)
(* records do not fit.  The counter is raised only afterwards.             *)
(***************************************************************************)
Submit(w) ==
  /\ wpc[w] = "new"
  /\ \E s \in Scripts :
       LET to == IF s.op = "add" THEN [exp |-> now + s.ttl, why |-> WhyOf[w]] ELSE Absent IN
       /\ job' = [job EXCEPT ![w] = [vals |-> s.vals, to |-> to]]
       /\ effect' = [effect EXCEPT ![w] = {v \in ToSet(s.vals) : stored[v] = to}]
       /\ IF queued + Len(s.vals) > QueueMax
          THEN Return(w, "overloaded")
          ELSE wpc' = [wpc EXCEPT ![w] = "count"] /\ UNCHANGED outcome
  /\ UNCHANGED <<vars, late, reply, queue, ppc, planning, channel, committer, stored,
                 unsure, stopped>>

SubmitCount(w) ==
  /\ wpc[w] = "count"
  /\ queued' = queued + Count(w)
  /\ wpc' = [wpc EXCEPT ![w] = "send"]
  /\ UNCHANGED <<vars, job, late, outcome, reply, jobs, ppc, planning, channel, committer,
                 redis, stopped>>

SubmitSend(w) ==
  /\ wpc[w] = "send"
  /\ Len(jobs) < QueueMax
  /\ jobs' = Append(jobs, w)
  /\ wpc' = [wpc EXCEPT ![w] = "wait"]
  /\ UNCHANGED <<vars, job, late, outcome, reply, queued, ppc, planning, channel, committer,
                 redis, stopped>>

(* Fault: the records of a job that was not sent stay counted. *)
SubmitRetractKeepsCount(w) ==
  /\ wpc[w] = "send"
  /\ \/ late[w] /\ Return(w, "store_unavailable")
     \/ stopped /\ Return(w, "unknown_set")
  /\ UNCHANGED <<vars, job, late, reply, queued, jobs, ppc, planning, channel, committer,
                 redis, stopped>>

(* The context ends, or the holder stops, before the job is in the channel. *)
SubmitRetract(w) ==
  /\ wpc[w] = "send"
  /\ \/ late[w] /\ Return(w, "store_unavailable")
     \/ stopped /\ Return(w, "unknown_set")
  /\ queued' = queued - Count(w)
  /\ UNCHANGED <<vars, job, late, reply, jobs, ppc, planning, channel, committer, redis,
                 stopped>>

(* Fault: a writer whose job is in the channel waits for the reply only. *)
SubmitReturnWaits(w) ==
  /\ wpc[w] = "wait" /\ reply[w] # "none"
  /\ Return(w, reply[w])
  /\ UNCHANGED <<vars, job, late, reply, queue, ppc, planning, channel, committer, redis,
                 stopped>>

(* The reply, or the end of the context: the job itself stays where it is. *)
SubmitReturn(w) ==
  /\ wpc[w] = "wait"
  /\ \/ reply[w] # "none" /\ Return(w, reply[w])
     \/ late[w] /\ Return(w, "store_unavailable")
  /\ UNCHANGED <<vars, job, late, reply, queue, ppc, planning, channel, committer, redis,
                 stopped>>

Deadline(w) ==
  /\ Deadlines
  /\ wpc[w] \in {"count", "send", "wait"} /\ ~late[w]
  /\ late' = [late EXCEPT ![w] = TRUE]
  /\ UNCHANGED <<vars, job, wpc, outcome, reply, queue, ppc, planning, channel, committer,
                 redis, stopped>>

Writer(w) ==
  Submit(w) \/ SubmitCount(w) \/ SubmitSend(w) \/ SubmitRetract(w) \/ SubmitReturn(w)

-----------------------------------------------------------------------------
(* The planner *)

Gathered == Len(FlattenSeq([i \in DOMAIN batch |-> job[batch[i]].vals]))

(* The job at the head of the channel leaves it, and the count. *)
Take ==
  /\ jobs # <<>>
  /\ jobs' = Tail(jobs)
  /\ queued' = queued - Count(Head(jobs))

PlannerTake ==
  /\ ppc = "idle"
  /\ Take
  /\ batch' = <<Head(jobs)>>
  /\ ppc' = "gather"
  /\ UNCHANGED <<vars, writer, reply, idx, room, seen, deltas, fate, channel, committer,
                 redis, stopped>>

(* Fault: a job gathered replaces the ones before it. *)
PlannerGatherForgets ==
  /\ ppc = "gather" /\ Gathered < BatchMax
  /\ Take
  /\ batch' = <<Head(jobs)>>
  /\ UNCHANGED <<vars, writer, reply, ppc, idx, room, seen, deltas, fate, channel, committer,
                 redis, stopped>>

PlannerGather ==
  /\ ppc = "gather" /\ Gathered < BatchMax
  /\ Take
  /\ batch' = Append(batch, Head(jobs))
  /\ UNCHANGED <<vars, writer, reply, ppc, idx, room, seen, deltas, fate, channel, committer,
                 redis, stopped>>

(* plan starts: it reads the clock, and then the size of the set. *)
PlannerStart ==
  /\ ppc = "gather"
  /\ Gathered >= BatchMax \/ jobs = <<>> \/ Coalesce
  /\ mu = "free"
  /\ ppc' = "check"
  /\ idx' = 1
  /\ room' = Size
  /\ seen' = {}
  /\ deltas' = <<>>
  /\ fate' = [w \in Writers |-> IF w \in ToSet(batch) /\ late[w] THEN "stale" ELSE "none"]
  /\ UNCHANGED <<vars, writer, reply, queue, batch, channel, committer, redis, stopped>>

(* Fresh: how many of some values would be new, those seen left out. *)
Fresh(vs) == Cardinality({v \in vs \ seen : Lookup(v) = Absent})

(* Fault: the deltas of a job that does not fit are planned all the same. *)
PlannerCheckGoesOn ==
  LET w       == batch[idx]
      limited == Additive(w) /\ Limit > 0
      fresh   == Fresh(ValuesOf(w))
      full    == limited /\ room + fresh > Limit
  IN
  /\ ppc = "check" /\ idx <= Len(batch)
  /\ fate[w] = "none" /\ limited => mu = "free"
  /\ IF fate[w] = "none"
     THEN /\ deltas' = deltas \o JobDeltas(w)
          /\ seen' = IF limited THEN seen \cup ValuesOf(w) ELSE seen
          /\ room' = IF limited THEN room + fresh ELSE room
     ELSE UNCHANGED <<deltas, seen, room>>
  /\ fate' = [fate EXCEPT ![w] = IF @ = "none" /\ full THEN "full" ELSE @]
  /\ idx' = idx + 1
  /\ UNCHANGED <<vars, writer, reply, queue, ppc, batch, channel, committer, redis, stopped>>

(***************************************************************************)
(* One job is looked at.  Fresh takes the mutex anew for every job: the    *)
(* pending changes may differ from those room was read with.               *)
(***************************************************************************)
PlannerCheck ==
  LET w       == batch[idx]
      limited == Additive(w) /\ Limit > 0
      fresh   == Fresh(ValuesOf(w))
      full    == limited /\ room + fresh > Limit
  IN
  /\ ppc = "check" /\ idx <= Len(batch)
  /\ fate[w] = "none" /\ limited => mu = "free"
  /\ IF fate[w] = "none" /\ ~full
     THEN /\ deltas' = deltas \o JobDeltas(w)
          /\ seen' = IF limited THEN seen \cup ValuesOf(w) ELSE seen
          /\ room' = IF limited THEN room + fresh ELSE room
          /\ UNCHANGED fate
     ELSE /\ fate' = [fate EXCEPT ![w] = IF @ = "none" THEN "full" ELSE @]
          /\ UNCHANGED <<deltas, seen, room>>
  /\ idx' = idx + 1
  /\ UNCHANGED <<vars, writer, reply, queue, ppc, batch, channel, committer, redis, stopped>>

(* Every job is looked at: the accepted deltas go to Set.Plan. *)
PlannerPlan ==
  /\ ppc = "check" /\ idx > Len(batch)
  /\ deltas \in ClientBatches
  /\ PlanBatch(deltas)
  /\ ppc' = "plan"
  /\ UNCHANGED <<writer, reply, queue, planning, channel, committer, redis, stopped>>

(* Every job was refused or stale: Set.Plan is not called. *)
PlannerNoPlan ==
  /\ ppc = "check" /\ idx > Len(batch) /\ deltas = <<>>
  /\ ppc' = "answer"
  /\ UNCHANGED <<vars, writer, reply, queue, planning, channel, committer, redis, stopped>>

PlannerDelta ==
  /\ PlanReject \/ PlanSkip \/ PlanInsert \/ PlanRefresh \/ PlanRemove
  /\ UNCHANGED pvars

(* A job of one record that Plan rejected is full after all. *)
Decide ==
  fate' = [w \in Writers |->
             IF w \in ToSet(batch) /\ fate[w] = "none" /\ Count(w) = 1 /\ job[w].vals[1] \in rejected
             THEN "full" ELSE fate[w]]

(* Fault: the batch handed on holds the refused jobs too. *)
PlannerPlannedKeepsRefused ==
  /\ Decide
  /\ \/ PlanNothing /\ ppc' = "answer" /\ UNCHANGED owners
     \/ PlanEnd /\ ppc' = "refuse" /\ owners' = Append(owners, ToSet(batch))
  /\ UNCHANGED <<writer, reply, queue, batch, idx, room, seen, deltas, sent, committer,
                 redis, stopped>>

PlannerPlanned ==
  /\ Decide
  /\ \/ PlanNothing /\ ppc' = "answer" /\ UNCHANGED owners
     \/ /\ PlanEnd
        /\ ppc' = "refuse"
        /\ owners' = Append(owners, {w \in ToSet(batch) : fate'[w] = "none"})
  /\ UNCHANGED <<writer, reply, queue, batch, idx, room, seen, deltas, sent, committer,
                 redis, stopped>>

(* The sweep goes on while there are victims. *)
Resume == IF victims = {} THEN "idle" ELSE "sweep"

(* Fault: only the refusals of a batch that changes nothing are answered. *)
PlannerAnswerRefusals ==
  /\ ppc = "answer"
  /\ Answer({w \in ToSet(batch) : fate[w] \notin {"none", "stale"}}, fate)
  /\ ppc' = Resume
  /\ UNCHANGED <<vars, writer, queue, planning, channel, committer, redis, stopped>>

(* Nothing was planned: every job is answered, unless it is stale. *)
PlannerAnswer ==
  /\ ppc = "answer"
  /\ Answer({w \in ToSet(batch) : fate[w] # "stale"},
            [w \in Writers |-> IF fate[w] = "none" THEN "ok" ELSE fate[w]])
  /\ ppc' = Resume
  /\ UNCHANGED <<vars, writer, queue, planning, channel, committer, redis, stopped>>

(* Refusals are answered before the batch is handed on. *)
PlannerRefuse ==
  /\ ppc = "refuse"
  /\ Answer({w \in ToSet(batch) : fate[w] \notin {"none", "stale"}}, fate)
  /\ ppc' = "send"
  /\ UNCHANGED <<vars, writer, queue, planning, channel, committer, redis, stopped>>

PlannerSend ==
  /\ ppc = "send" /\ sent < Depth
  /\ sent' = sent + 1
  /\ ppc' = Resume
  /\ UNCHANGED <<vars, writer, reply, queue, planning, owners, committer, redis, stopped>>

(***************************************************************************)
(* A closed stop is as good a choice for select as a channel that is       *)
(* ready: the plan is dropped, its changes stay pending in the set, and    *)
(* the planner goes back to its loop.                                      *)
(***************************************************************************)
PlannerDrop ==
  /\ ppc = "send" /\ stopped
  /\ flight' = Front(flight)
  /\ owners' = Front(owners)
  /\ ppc' = Resume
  /\ UNCHANGED <<committed, pending, mu, draft, done, victims, now, batches, loaded, writer,
                 reply, queue, planning, sent, committer, redis, stopped>>

(* The sweep ticker fires. *)
PlannerSweep ==
  /\ ppc = "idle"
  /\ Expired
  /\ ppc' = IF victims' = {} THEN "idle" ELSE "sweep"
  /\ UNCHANGED <<writer, reply, queue, planning, channel, committer, redis, stopped>>

PlannerSweepPlan ==
  /\ ppc = "sweep"
  /\ PlanSweep
  /\ batch' = <<>>
  /\ ppc' = "plan"
  /\ UNCHANGED <<writer, reply, queue, idx, room, seen, deltas, fate, channel, committer,
                 redis, stopped>>

PlannerExit ==
  /\ ppc = "idle" /\ stopped
  /\ ppc' = "exit"
  /\ UNCHANGED <<vars, writer, reply, queue, planning, channel, committer, redis, stopped>>

PPlanner ==
  \/ PlannerTake \/ PlannerGather \/ PlannerStart \/ PlannerCheck \/ PlannerPlan
  \/ PlannerNoPlan \/ PlannerDelta \/ PlannerPlanned \/ PlannerAnswer \/ PlannerRefuse
  \/ PlannerSend \/ PlannerDrop \/ PlannerSweep \/ PlannerSweepPlan \/ PlannerExit

-----------------------------------------------------------------------------
(* The committer *)

CommitterTake ==
  /\ cpc = "idle" /\ sent > 0
  /\ sent' = sent - 1
  /\ held' = Head(owners)
  /\ owners' = Tail(owners)
  /\ cpc' = "held"
  /\ UNCHANGED <<vars, writer, reply, queue, ppc, planning, redis, stopped>>

Fail == Answer(held, [w \in Writers |-> "store_unavailable"])

(* Fault: the committer gives a batch up and does not abort. *)
CommitterGivesUp ==
  /\ cpc = "held" /\ mu = "free"
  /\ flight' = Tail(flight)
  /\ Fail
  /\ cpc' = "idle"
  /\ UNCHANGED <<committed, pending, mu, draft, done, victims, now, batches, loaded, writer,
                 queue, ppc, planning, channel, held, redis, stopped>>

(* The plan is older than the last Abort: refused without a store call. *)
CommitterStale ==
  /\ cpc = "held"
  /\ SkipStale
  /\ Fail
  /\ cpc' = "idle"
  /\ UNCHANGED <<writer, queue, ppc, planning, channel, held, redis, stopped>>

(***************************************************************************)
(* state.Commit: one MULTI/EXEC of every delta, the package and the meta.  *)
(* It succeeds, fails with no effect, or fails although it was applied.    *)
(***************************************************************************)
CommitterStore(outcomeOf) ==
  LET p == Head(flight)
      touched == {p.deltas[n].v : n \in DOMAIN p.deltas}
  IN
  /\ cpc = "held" /\ mu = "free" /\ p.gen = gen
  /\ outcomeOf # "ok" => gen < MaxAborts
  /\ outcomeOf = "torn" => Torn
  /\ cpc' = IF outcomeOf = "ok" THEN "stored" ELSE "refused"
  /\ IF outcomeOf = "lost"
     THEN UNCHANGED <<stored, unsure, effect>>
     ELSE /\ stored' = Written(stored, p.deltas)
          /\ unsure' = IF outcomeOf = "ok" THEN unsure \ touched ELSE unsure \cup touched
          /\ effect' = [w \in Writers |-> effect[w] \cup
                {v \in ValuesOf(w) \cap touched :
                   \/ \E n \in DOMAIN p.deltas : p.deltas[n] = [v |-> v, to |-> job[w].to]
                   \/ w \in held /\ v \in unsure}]
  /\ UNCHANGED <<vars, writer, reply, queue, ppc, planning, channel, held, stopped>>

CommitterCommit ==
  /\ cpc = "stored"
  /\ CommitBegin
  /\ cpc' = "commit"
  /\ UNCHANGED <<writer, reply, queue, ppc, planning, channel, held, redis, stopped>>

CommitterDelta == CommitDelta /\ UNCHANGED pvars

CommitterCommitted ==
  /\ CommitEnd
  /\ cpc' = "publish"
  /\ UNCHANGED <<writer, reply, queue, ppc, planning, channel, held, redis, stopped>>

(* The diff frame is published, then the jobs of the batch are answered. *)
CommitterPublish ==
  /\ cpc = "publish"
  /\ Answer(held, [w \in Writers |-> "ok"])
  /\ cpc' = "idle"
  /\ UNCHANGED <<vars, writer, queue, ppc, planning, channel, held, redis, stopped>>

CommitterAbort ==
  /\ cpc = "refused"
  /\ Abort
  /\ Fail
  /\ cpc' = "idle"
  /\ UNCHANGED <<writer, queue, ppc, planning, channel, held, redis, stopped>>

CommitterExit ==
  /\ cpc = "idle" /\ stopped
  /\ cpc' = "exit"
  /\ UNCHANGED <<vars, writer, reply, queue, ppc, planning, channel, held, redis, stopped>>

PCommitter ==
  \/ CommitterTake \/ CommitterStale \/ \E o \in {"ok", "lost", "torn"} : CommitterStore(o)
  \/ CommitterCommit \/ CommitterDelta \/ CommitterCommitted \/ CommitterPublish
  \/ CommitterAbort \/ CommitterExit

-----------------------------------------------------------------------------
Shutdown ==
  /\ MayStop /\ ~stopped
  /\ stopped' = TRUE
  /\ UNCHANGED <<vars, writer, reply, queue, ppc, planning, channel, committer, redis>>

Clock == Tick /\ UNCHANGED pvars

PNext ==
  \/ \E w \in Writers : Writer(w) \/ Deadline(w)
  \/ PPlanner \/ PCommitter \/ Shutdown \/ Clock

PSpec == PInit /\ [][PNext]_<<vars, pvars>>

(***************************************************************************)
(* Every goroutine that can take a step takes one in the end: the planner, *)
(* the committer (each store call has a timeout of its own) and each       *)
(* handler.  Nothing is assumed of deadlines, sweeps or the clock.         *)
(***************************************************************************)
PFairSpec ==
  /\ PSpec
  /\ WF_<<vars, pvars>>(PPlanner)
  /\ WF_<<vars, pvars>>(PCommitter)
  /\ \A w \in Writers : WF_<<vars, pvars>>(Writer(w))

-----------------------------------------------------------------------------
Codes == {"none", "ok", "full", "store_unavailable", "unknown_set", "overloaded"}

(* Type invariant. *)
PTypeOK ==
  /\ TypeOK
  /\ job \in [Writers -> [vals : Seq(Values), to : Slot]]
  /\ wpc \in [Writers -> {"new", "count", "send", "wait", "done"}]
  /\ late \in [Writers -> BOOLEAN]
  /\ outcome \in [Writers -> Codes]
  /\ reply \in [Writers -> Codes]
  /\ queued \in Nat
  /\ jobs \in Seq(Writers)
  /\ ppc \in {"idle", "gather", "check", "plan", "answer", "refuse", "send", "sweep", "exit"}
  /\ batch \in Seq(Writers)
  /\ idx \in Nat /\ room \in Nat /\ seen \subseteq Values
  /\ deltas \in Seq(Delta)
  /\ fate \in [Writers -> {"none", "stale", "full"}]
  /\ owners \in Seq(SUBSET Writers)
  /\ sent \in 0..Depth
  /\ cpc \in {"idle", "held", "stored", "refused", "commit", "publish", "exit"}
  /\ held \subseteq Writers
  /\ stored \in [Values -> Slot]
  /\ unsure \subseteq Values
  /\ stopped \in BOOLEAN
  /\ effect \in [Writers -> SUBSET Values]

(***************************************************************************)
(* The count that admission compares with QueueMax is the records of the   *)
(* jobs that are on their way into the channel or in it: no path through   *)
(* Submit, take or a timeout leaks a record or returns one twice.          *)
(***************************************************************************)
QueueAccounted ==
  queued = MapThenSumSet(Count, {w \in Writers : wpc[w] = "send"} \cup ToSet(jobs))

(* The job is in the channel, in the planner's hands, in a plan or in the committer's hands. *)
InPipeline(w) ==
  \/ w \in ToSet(jobs)
  \/ ppc \in {"gather", "check", "plan", "answer", "refuse"} /\ w \in ToSet(batch)
  \/ \E i \in DOMAIN owners : w \in owners[i]
  \/ cpc \notin {"idle", "exit"} /\ w \in held

(***************************************************************************)
(* A writer that waits and whose context is not over has its job in the    *)
(* channel, in the planner's hands, in a batch or in the committer's       *)
(* hands, until it is answered: the pipeline loses no job.                 *)
(***************************************************************************)
NoJobLost ==
  \A w \in Writers :
    wpc[w] = "wait" /\ reply[w] = "none" /\ ~late[w] /\ ~stopped => InPipeline(w)

(***************************************************************************)
(* A job is answered at most once: neither planner nor committer sends to  *)
(* a reply channel that has been sent to, where it could block for ever.   *)
(* An answer never changes, and what planner and committer have at hand to *)
(* answer has no answer yet, so that the same one is not sent again.       *)
(***************************************************************************)
AnsweredOnce ==
  /\ [](\A w \in Writers : InPipeline(w) => reply[w] = "none")
  /\ [][\A w \in Writers : reply[w] # "none" => reply'[w] = reply[w]]_reply

(***************************************************************************)
(* When an addition is acknowledged its record has been in Redis since it  *)
(* was submitted, although a repetition of a record that is only planned   *)
(* must not count as made: README.md's "stores the record".  Left out are  *)
(* values whose last transaction failed after it was applied, where memory *)
(* does not know what Redis holds: an addition of what memory has is not   *)
(* stored again.  So are, where the set has a limit, writes of several     *)
(* records, which AllOrNothing is about.                                   *)
(***************************************************************************)
AddAckedIsStored ==
  [][\A w \in Writers :
       reply[w] = "none" /\ reply'[w] = "ok" /\ Additive(w) /\ (Limit = 0 \/ Count(w) = 1)
         => ValuesOf(w) \subseteq effect[w] \cup unsure]_reply

(* No other writer has the origin of this one. *)
Sole(w) == \A x \in Writers \ {w} : WhyOf[x] # WhyOf[w]

(* No record of this writer is in memory or about to be. *)
NoTrace(w) ==
  \A v \in Values :
    LET mine(e) == e # Absent /\ e.why = WhyOf[w] IN
    /\ ~mine(entries[v]) /\ ~mine(Lookup(v))
    /\ \A i \in DOMAIN flight : flight[i].gen = gen =>
         \A n \in DOMAIN flight[i].deltas : ~mine(flight[i].deltas[n].to)

(* Nobody else adds a value of this write. *)
Uncontended(w) == \A x \in Writers \ {w} : Additive(x) => ValuesOf(w) \cap ValuesOf(x) = {}

(***************************************************************************)
(* An addition the committer answered with store_unavailable is not in     *)
(* memory and never gets there: the plans made on top of it are void too.  *)
(* One refused as full has left nothing behind, in the set or in a plan,   *)
(* if it is of several records or nobody else adds its record: plan() asks *)
(* per value, not per job, whether Set.Plan rejected an addition, see      *)
(* FullLeavesNoTrace.                                                      *)
(***************************************************************************)
RefusedLeavesNoTrace ==
  \A w \in Writers :
    /\ \/ reply[w] = "store_unavailable"
       \/ reply[w] = "full" /\ (Count(w) > 1 \/ Uncontended(w))
    /\ Sole(w)
    => NoTrace(w)

(***************************************************************************)
(* "A write is accepted in full or rejected in full" (README.md): no write *)
(* that was answered full has a record in the set or in a plan.            *)
(***************************************************************************)
FullLeavesNoTrace == \A w \in Writers : reply[w] = "full" /\ Sole(w) => NoTrace(w)

(***************************************************************************)
(* Redis and memory hold the same, except for the plan being committed and *)
(* for values of a transaction that failed after having been applied,      *)
(* until the next commit that writes them.                                 *)
(***************************************************************************)
MemoryMatchesStore ==
  cpc \notin {"stored", "commit"} =>
    \A v \in Values \ unsure : entries[v] = stored[v]

(***************************************************************************)
(* Every write gets an answer (README.md): from the pipeline itself while  *)
(* the holder runs, and at the latest when the context of the sender ends, *)
(* wherever the job is by then and whether or not the holder was stopped.  *)
(***************************************************************************)
EveryWriteAnswered ==
  \A w \in Writers :
    /\ wpc[w] = "count" ~> (wpc[w] = "done" \/ stopped)
    /\ late[w] ~> wpc[w] = "done"

(***************************************************************************)
(* An acknowledged write, addition or removal, has been true of Redis at   *)
(* some time since it was submitted: "stores the record, publishes a delta *)
(* and answers" (README.md).                                               *)
(***************************************************************************)
AckedIsStored == \A w \in Writers : reply[w] = "ok" => effect[w] = ValuesOf(w)

(***************************************************************************)
(* "A write is accepted in full or rejected in full" (README.md): of the   *)
(* additions of a write that has its answer, Redis has got all or none.    *)
(***************************************************************************)
AllOrNothing ==
  \A w \in Writers :
    Additive(w) /\ reply[w] # "none" => effect[w] = {} \/ effect[w] = ValuesOf(w)
=============================================================================
