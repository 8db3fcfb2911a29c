--------------------------- MODULE PipelineProofs ---------------------------
(***************************************************************************)
(* The pipeline of a holder that is not stopped implements ActiveSet:      *)
(* whatever writers, planner and committer do, the set only makes steps of *)
(* its own specification.  What ActiveSetProofs proves of the set is so    *)
(* true of the set inside the pipeline, for every number of writers, every *)
(* queue, batch and pipeline size and every set of requests.  And the      *)
(* count of the queue is what the jobs in it add up to.                    *)
(***************************************************************************)
EXTENDS PipelineJobs

(* The writers leave the set alone: Submit works on the queue. *)
LEMMA WriterSteps ==
  ASSUME NEW w \in Writers, Writer(w) \/ Deadline(w)
  PROVE  UNCHANGED <<vars, stopped>>
  BY DEF Writer, Submit, SubmitCount, SubmitSend, SubmitRetract, SubmitReturn, Deadline

(* Each step of the planner is a step of the set's planner, or none. *)
LEMMA PlannerSteps ==
  ASSUME PPlanner, stopped = FALSE
  PROVE  (Planner \/ UNCHANGED vars) /\ stopped' = stopped
<1>1. CASE PlannerPlan
  BY <1>1 DEF PlannerPlan, Planner, PlanJobs, PlanBatch, PlanBegin
<1>2. CASE PlannerDelta
  BY <1>2 DEF PlannerDelta, Planner, pvars
<1>3. CASE PlannerPlanned
  BY <1>3 DEF PlannerPlanned, Planner
<1>4. CASE PlannerSweep
  BY <1>4 DEF PlannerSweep, Planner
<1>5. CASE PlannerSweepPlan
  BY <1>5 DEF PlannerSweepPlan, Planner
<1>6. CASE PlannerTake \/ PlannerGather \/ PlannerStart
  BY <1>6 DEF PlannerTake, PlannerGather, PlannerStart
<1>7. CASE PlannerCheck \/ PlannerNoPlan \/ PlannerAnswer
  BY <1>7 DEF PlannerCheck, PlannerNoPlan, PlannerAnswer
<1>8. CASE PlannerRefuse \/ PlannerSend \/ PlannerExit
  BY <1>8 DEF PlannerRefuse, PlannerSend, PlannerExit
<1>9. CASE PlannerDrop
  BY <1>9, stopped = FALSE DEF PlannerDrop
<1> QED BY <1>1, <1>2, <1>3, <1>4, <1>5, <1>6, <1>7, <1>8, <1>9 DEF PPlanner

(* Each step of the committer is a step of the set's committer, or none. *)
LEMMA CommitterSteps ==
  ASSUME PCommitter
  PROVE  (Committer \/ UNCHANGED vars) /\ stopped' = stopped
<1>1. CASE CommitterTake \/ CommitterPublish \/ CommitterExit
  BY <1>1 DEF CommitterTake, CommitterPublish, CommitterExit
<1>2. ASSUME NEW o \in {"ok", "lost", "torn"}, CommitterStore(o)
      PROVE  UNCHANGED <<vars, stopped>>
  BY <1>2 DEF CommitterStore
<1>3. CASE CommitterStale
  BY <1>3 DEF CommitterStale, Committer
<1>4. CASE CommitterCommit
  BY <1>4 DEF CommitterCommit, Committer
<1>5. CASE CommitterDelta
  BY <1>5 DEF CommitterDelta, Committer, pvars
<1>6. CASE CommitterCommitted
  BY <1>6 DEF CommitterCommitted, Committer
<1>7. CASE CommitterAbort
  BY <1>7 DEF CommitterAbort, Committer
<1> QED BY <1>1, <1>2, <1>3, <1>4, <1>5, <1>6, <1>7 DEF PCommitter

(***************************************************************************)
(* While nobody stops the holder, every behaviour of the pipeline is, for  *)
(* the set in it, a behaviour of ActiveSet: keeper.go calls Plan, Commit,  *)
(* Abort and Expired only in the orders set.go is correct for.             *)
(***************************************************************************)
THEOREM PipelineImplementsSet ==
  ASSUME MayStop = FALSE
  PROVE  PSpec => Spec
<1> DEFINE Running == stopped = FALSE
<1>1. PInit => Init /\ Running
  BY DEF PInit
<1>2. Running /\ [PNext]_<<vars, pvars>> => [Next]_vars /\ Running'
  <2> SUFFICES ASSUME stopped = FALSE, [PNext]_<<vars, pvars>>
               PROVE  [Next]_vars /\ stopped' = FALSE
    OBVIOUS
  <2>1. CASE \E w \in Writers : Writer(w) \/ Deadline(w)
    BY <2>1, WriterSteps
  <2>2. CASE PPlanner
    BY <2>2, PlannerSteps DEF Next
  <2>3. CASE PCommitter
    BY <2>3, CommitterSteps DEF Next
  <2>4. CASE Shutdown
    BY <2>4, MayStop = FALSE DEF Shutdown
  <2>5. CASE Clock
    BY <2>5 DEF Clock, Next, pvars
  <2>6. CASE UNCHANGED <<vars, pvars>>
    BY <2>6 DEF pvars
  <2> QED BY <2>1, <2>2, <2>3, <2>4, <2>5, <2>6 DEF PNext
<1> HIDE DEF Running
<1> QED BY <1>1, <1>2, PTL DEF PSpec, Spec

(***************************************************************************)
(* In the pipeline, too, the contents a commit leads to are those its plan *)
(* announced, whatever was in flight and whatever was refused before: the  *)
(* check at the end of commit() cannot fail while the holder is running.   *)
(***************************************************************************)
THEOREM PipelineCommits ==
  ASSUME MayStop = FALSE
  PROVE  PSpec => []CommittedMatchesPlan
BY PipelineImplementsSet, CommitMatches, PTL

-----------------------------------------------------------------------------
(* Records, and how many *)

(* The records that a writer asks for, by what all writers ask for. *)
Length(j, w) == Len(j[w].vals)

(* The records of the jobs of some writers, one by one: record i of writer w. *)
Records(j, ws) == {r \in ws \X Nat : r[2] \in 1..Length(j, r[1])}

(* Their number, as QueueAccounted sums it. *)
Total(j, ws) == MapThenSumSet(LAMBDA w : Len(j[w].vals), ws)

(* Among subsets of a finite set there is one that contains none of the others. *)
LEMMA LeastSubset ==
  ASSUME NEW S, IsFiniteSet(S), NEW T, T \subseteq SUBSET S, T # {}
  PROVE  \E x \in T : \A y \in T : y \subseteq x => y = x
<1>1. IsWellFoundedOn(StrictSubsetOrdering(S), SUBSET S)
  BY FS_StrictSubsetOrderingWellFounded, FS_FiniteSubsetsOfFinite
<1>2. PICK x \in T : \A y \in T : ~(<<y, x>> \in StrictSubsetOrdering(S))
  BY <1>1, WFMin
<1> QED
  BY <1>2 DEF StrictSubsetOrdering

(* The records of one writer. *)
LEMMA RecordsOfOne ==
  ASSUME NEW j, NEW w, Length(j, w) \in Nat
  PROVE  IsFiniteSet(Records(j, {w})) /\ Cardinality(Records(j, {w})) = Length(j, w)
<1> DEFINE f == [i \in 1..Length(j, w) |-> <<w, i>>]
<1>1. f \in Bijection(1..Length(j, w), Records(j, {w}))
  <2>1. f \in [1..Length(j, w) -> Records(j, {w})]
    BY DEF Records
  <2>2. \A m, n \in 1..Length(j, w) : f[m] = f[n] => m = n
    OBVIOUS
  <2>3. \A r \in Records(j, {w}) : \E i \in 1..Length(j, w) : f[i] = r
    BY DEF Records
  <2> HIDE DEF f
  <2> QED
    BY <2>1, <2>2, <2>3 DEF Bijection, Injection, Surjection, IsInjective
<1>2. IsFiniteSet(1..Length(j, w)) /\ Cardinality(1..Length(j, w)) = Length(j, w)
  BY FS_Interval
<1>3. ExistsBijection(1..Length(j, w), Records(j, {w}))
  BY <1>1 DEF ExistsBijection
<1> QED
  BY <1>2, <1>3, FS_Bijection

(* The records of one more writer. *)
LEMMA RecordsAdd ==
  ASSUME NEW j, NEW ws, NEW w, w \notin ws, Length(j, w) \in Nat, IsFiniteSet(Records(j, ws))
  PROVE  /\ IsFiniteSet(Records(j, ws \cup {w}))
         /\ Cardinality(Records(j, ws \cup {w})) = Cardinality(Records(j, ws)) + Length(j, w)
<1>1. IsFiniteSet(Records(j, {w})) /\ Cardinality(Records(j, {w})) = Length(j, w)
  BY RecordsOfOne
<1>2. Records(j, ws \cup {w}) = Records(j, ws) \cup Records(j, {w}) /\ Records(j, ws) \cap Records(j, {w}) = {}
  BY DEF Records
<1>3. Cardinality(Records(j, ws)) \in Nat
  BY FS_CardinalityType
<1>4. /\ IsFiniteSet(Records(j, ws) \cup Records(j, {w}))
      /\ Cardinality(Records(j, ws) \cup Records(j, {w}))
           = Cardinality(Records(j, ws)) + Cardinality(Records(j, {w}))
               - Cardinality(Records(j, ws) \cap Records(j, {w}))
  BY <1>1, FS_Union
<1>5. Cardinality(Records(j, ws) \cap Records(j, {w})) = 0
  BY <1>2, FS_EmptySet
<1> DEFINE a == Cardinality(Records(j, ws))
           b == Cardinality(Records(j, {w}))
           c == Cardinality(Records(j, ws) \cap Records(j, {w}))
           d == Cardinality(Records(j, ws \cup {w}))
<1>6. IsFiniteSet(Records(j, ws \cup {w})) /\ d = a + b - c
  BY <1>2, <1>4, Zenon
<1>7. a \in Nat /\ b = Length(j, w) /\ c = 0
  BY <1>1, <1>3, <1>5
<1> HIDE DEF a, b, c, d
<1>8. d = a + Length(j, w)
  BY <1>6, <1>7
<1> QED
  BY <1>6, <1>8 DEF a, d

(* They are finitely many. *)
LEMMA RecordsFinite ==
  ASSUME NEW j, NEW ws, IsFiniteSet(ws), \A w \in ws : Length(j, w) \in Nat
  PROVE  IsFiniteSet(Records(j, ws)) /\ Cardinality(Records(j, ws)) \in Nat
<1> DEFINE Bad == {s \in SUBSET ws : ~IsFiniteSet(Records(j, s))}
<1>1. SUFFICES ASSUME Bad # {} PROVE FALSE
  <2>1. ws \in SUBSET ws
    OBVIOUS
  <2> QED
    BY <2>1, FS_CardinalityType
<1> Bad \subseteq SUBSET ws
  OBVIOUS
<1> HIDE DEF Bad
<1>2. PICK s \in Bad : \A t \in Bad : t \subseteq s => t = s
  BY <1>1, LeastSubset
<1> USE DEF Bad
<1>3. s # {}
  <2>1. Records(j, {}) = {}
    BY DEF Records
  <2> QED
    BY <2>1, FS_EmptySet
<1>4. PICK w \in s : TRUE
  BY <1>3
<1>5. IsFiniteSet(Records(j, s \ {w}))
  BY <1>2, <1>4
<1>6. (s \ {w}) \cup {w} = s /\ w \notin s \ {w} /\ w \in ws
  BY <1>2, <1>4
<1> QED
  BY <1>5, <1>6, RecordsAdd

(* The sum over the jobs counts their records. *)
LEMMA SumIsRecords ==
  ASSUME NEW j, NEW ws, IsFiniteSet(ws), \A w \in ws : Length(j, w) \in Nat
  PROVE  Total(j, ws) = Cardinality(Records(j, ws))
<1> DEFINE Pick(s) == CHOOSE x \in s : TRUE
           Rec(g) == [s \in SUBSET ws |-> IF s = {} THEN 0 ELSE Length(j, Pick(s)) + g[s \ {Pick(s)}]]
           G == [s \in SUBSET ws |-> Cardinality(Records(j, s))]
           iter == CHOOSE g : g = Rec(g)
<1>1. \A s \in SUBSET ws : s # {} =>
        /\ Pick(s) \in s /\ s \ {Pick(s)} \in SUBSET ws
        /\ Cardinality(Records(j, s)) = Length(j, Pick(s)) + Cardinality(Records(j, s \ {Pick(s)}))
  <2> SUFFICES ASSUME NEW s \in SUBSET ws, s # {}
               PROVE  /\ Pick(s) \in s /\ s \ {Pick(s)} \in SUBSET ws
                      /\ Cardinality(Records(j, s)) = Length(j, Pick(s)) + Cardinality(Records(j, s \ {Pick(s)}))
    OBVIOUS
  <2>1. Pick(s) \in s
    OBVIOUS
  <2> HIDE DEF Pick
  <2>2. /\ s \ {Pick(s)} \in SUBSET ws /\ Pick(s) \notin s \ {Pick(s)}
        /\ (s \ {Pick(s)}) \cup {Pick(s)} = s /\ Length(j, Pick(s)) \in Nat
    BY <2>1
  <2>3. IsFiniteSet(s \ {Pick(s)})
    BY <2>2, FS_Subset
  <2>4. IsFiniteSet(Records(j, s \ {Pick(s)})) /\ Cardinality(Records(j, s \ {Pick(s)})) \in Nat
    BY <2>2, <2>3, RecordsFinite
  <2> QED
    BY <2>1, <2>2, <2>4, RecordsAdd
<1>2. Records(j, {}) = {} /\ Cardinality(Records(j, {})) = 0
  BY FS_EmptySet DEF Records
<1> HIDE DEF Pick
<1>3. G = Rec(G)
  BY <1>1, <1>2
<1>4. iter = Rec(iter)
  BY <1>3
<1>5. iter[ws] = G[ws]
  <2> DEFINE Bad == {s \in SUBSET ws : iter[s] # G[s]}
  <2>1. SUFFICES ASSUME Bad # {} PROVE FALSE
    <3>1. ws \in SUBSET ws
      OBVIOUS
    <3> QED
      BY <3>1, Zenon
  <2> Bad \subseteq SUBSET ws
    OBVIOUS
  <2> HIDE DEF Bad
  <2>2. PICK s \in Bad : \A t \in Bad : t \subseteq s => t = s
    BY <2>1, LeastSubset
  <2> USE DEF Bad
  <2> HIDE DEF iter
  <2>3. s # {}
    BY <1>2, <1>4, <2>2
  <2>4. iter[s \ {Pick(s)}] = G[s \ {Pick(s)}]
    <3> DEFINE t == s \ {Pick(s)}
    <3>1. t \in SUBSET ws /\ t \subseteq s /\ t # s
      BY <1>1, <2>3
    <3> HIDE DEF t
    <3>2. t \notin Bad
      BY <2>2, <3>1
    <3>3. iter[t] = G[t]
      BY <3>1, <3>2
    <3> QED
      BY <3>3 DEF t
  <2> QED
    BY <1>1, <1>4, <2>2, <2>3, <2>4
<1> QED
  BY <1>5, Zenon DEF Total, Length, MapThenSumSet, MapThenFoldSet, Pick

(* The number of records of one more writer. *)
LEMMA TotalAdd ==
  ASSUME NEW j, NEW ws, NEW w, w \notin ws, IsFiniteSet(ws), \A x \in ws \cup {w} : Length(j, x) \in Nat
  PROVE  /\ Total(j, ws) \in Nat
         /\ Total(j, ws \cup {w}) = Total(j, ws) + Length(j, w)
<1>1. IsFiniteSet(ws \cup {w})
  BY FS_AddElement
<1>2. Total(j, ws) = Cardinality(Records(j, ws))
  BY SumIsRecords
<1>3. Total(j, ws \cup {w}) = Cardinality(Records(j, ws \cup {w}))
  BY <1>1, SumIsRecords
<1>4. IsFiniteSet(Records(j, ws)) /\ Cardinality(Records(j, ws)) \in Nat
  BY RecordsFinite
<1>5. Cardinality(Records(j, ws \cup {w})) = Cardinality(Records(j, ws)) + Length(j, w)
  BY <1>4, RecordsAdd
<1> QED
  BY <1>2, <1>3, <1>4, <1>5

(* Who asks for something else does not count while it is not one of them. *)
LEMMA TotalSame ==
  ASSUME NEW j, NEW k, NEW ws, IsFiniteSet(ws), \A x \in ws : j[x] = k[x] /\ Length(j, x) \in Nat
  PROVE  Total(j, ws) = Total(k, ws)
<1>1. \A x \in ws : Length(k, x) = Length(j, x)
  BY DEF Length
<1>2. Records(j, ws) = Records(k, ws)
  BY <1>1 DEF Records
<1>3. Total(j, ws) = Cardinality(Records(j, ws))
  BY SumIsRecords
<1>4. Total(k, ws) = Cardinality(Records(k, ws))
  BY <1>1, SumIsRecords
<1> QED
  BY <1>2, <1>3, <1>4

-----------------------------------------------------------------------------
(* The count of the queue *)

(* The writers whose records are counted. *)
Counted == {w \in Writers : wpc[w] = "send"} \cup ToSet(jobs)

(* The sum of QueueAccounted, by name. *)
LEMMA Accounts ==
  /\ QueueAccounted <=> queued = Total(job, Counted)
  /\ QueueAccounted' <=> queued' = Total(job', Counted')
  BY Zenon DEF QueueAccounted, Total, Counted, Count, MapThenSumSet, MapThenFoldSet

(* They are finitely many, and so are their records. *)
LEMMA CountedType ==
  ASSUME JobTypes, SetTypes
  PROVE  /\ Counted \subseteq Writers /\ IsFiniteSet(Counted)
         /\ \A w \in Writers : Length(job, w) \in Nat /\ Length(job, w) = Count(w)
<1>1. Counted \subseteq Writers
  BY ToSetType DEF Counted, JobTypes
<1>2. IsFiniteSet(Counted)
  BY <1>1, FS_Subset, PipelineAssumption
<1>3. \A w \in Writers : job[w].vals \in Seq(Values)
  BY DEF SetTypes
<1> QED
  BY <1>1, <1>2, <1>3 DEF Length, Count

(* A step moves at most one job in or out, and counts it. *)
LEMMA CountedMoves ==
  ASSUME JobInv, SetTypes, Asked, [PNext]_<<vars, pvars>>
  PROVE  \/ queued' = queued /\ Counted' = Counted
         \/ \E w \in Writers : /\ w \notin Counted /\ wpc[w] = "count"
                               /\ Counted' = Counted \cup {w}
                               /\ queued' = queued + Count(w)
         \/ \E w \in Counted : /\ Counted' = Counted \ {w}
                               /\ queued' = queued - Count(w)
<1>1. JobTypes /\ NoRepeat(jobs) /\ \A w \in ToSet(jobs) : w \in Writers /\ wpc[w] \in {"wait", "done"}
  BY ToSetType DEF JobInv, Apart, Open, JobTypes
<1>2. ASSUME NEW w \in Writers, Submit(w)
      PROVE  queued' = queued /\ Counted' = Counted
  <2>1. UNCHANGED <<queued, jobs>> /\ \A x \in Writers : wpc'[x] = "send" <=> wpc[x] = "send"
    BY <1>1, <1>2 DEF Submit, Return, queue, JobTypes
  <2> QED
    BY <2>1 DEF Counted
<1>3. ASSUME NEW w \in Writers, SubmitCount(w)
      PROVE  /\ w \notin Counted /\ wpc[w] = "count"
             /\ Counted' = Counted \cup {w} /\ queued' = queued + Count(w)
  <2>1. jobs' = jobs /\ \A x \in Writers : wpc'[x] = "send" <=> wpc[x] = "send" \/ x = w
    BY <1>1, <1>3 DEF SubmitCount, JobTypes
  <2>2. wpc[w] = "count" /\ w \notin ToSet(jobs)
    BY <1>1, <1>3 DEF SubmitCount
  <2> QED
    BY <1>3, <2>1, <2>2 DEF Counted, SubmitCount
<1>4. ASSUME NEW w \in Writers, SubmitSend(w)
      PROVE  queued' = queued /\ Counted' = Counted
  <2>1. wpc[w] = "send" /\ \A x \in Writers : wpc'[x] = "send" <=> wpc[x] = "send" /\ x # w
    BY <1>1, <1>4 DEF SubmitSend, JobTypes
  <2>2. ToSet(jobs') = ToSet(jobs) \cup {w}
    BY <1>1, <1>4, ToSetAppend DEF SubmitSend, JobTypes
  <2> QED
    BY <1>1, <1>4, <2>1, <2>2 DEF Counted, SubmitSend
<1>5. ASSUME NEW w \in Writers, SubmitRetract(w)
      PROVE  w \in Counted /\ Counted' = Counted \ {w} /\ queued' = queued - Count(w)
  <2>1. wpc[w] = "send" /\ \A x \in Writers : wpc'[x] = "send" <=> wpc[x] = "send" /\ x # w
    BY <1>1, <1>5 DEF SubmitRetract, Return, JobTypes
  <2>2. jobs' = jobs /\ w \notin ToSet(jobs)
    BY <1>1, <1>5, <2>1 DEF SubmitRetract
  <2> QED
    BY <1>1, <1>5, <2>1, <2>2 DEF Counted, SubmitRetract
<1>6. ASSUME NEW w \in Writers, SubmitReturn(w) \/ Deadline(w)
      PROVE  queued' = queued /\ Counted' = Counted
  <2>1. UNCHANGED <<queued, jobs>> /\ \A x \in Writers : wpc'[x] = "send" <=> wpc[x] = "send"
    BY <1>1, <1>6 DEF SubmitReturn, Deadline, Return, queue, JobTypes
  <2> QED
    BY <2>1 DEF Counted
<1>7. ASSUME PlannerTake \/ PlannerGather
      PROVE  /\ Head(jobs) \in Counted /\ Counted' = Counted \ {Head(jobs)}
             /\ queued' = queued - Count(Head(jobs))
  <2>1. /\ jobs # <<>> /\ jobs' = Tail(jobs) /\ queued' = queued - Count(Head(jobs)) /\ wpc' = wpc
    BY <1>7 DEF PlannerTake, PlannerGather, Take, writer
  <2>2. ToSet(jobs') = ToSet(jobs) \ {Head(jobs)} /\ Head(jobs) \in ToSet(jobs)
    BY <1>1, <2>1, ToSetTail DEF JobTypes
  <2> QED
    BY <1>1, <2>1, <2>2 DEF Counted
<1>8. ASSUME PPlanner, ~(PlannerTake \/ PlannerGather)
      PROVE  queued' = queued /\ Counted' = Counted
  <2>1. UNCHANGED <<queued, jobs>>
    BY <1>8 DEF PPlanner, PlannerStart, PlannerCheck, PlannerPlan, PlannerNoPlan, PlannerDelta,
                PlannerPlanned, PlannerAnswer, PlannerRefuse, PlannerSend, PlannerDrop,
                PlannerSweep, PlannerSweepPlan, PlannerExit, queue, pvars
  <2>2. wpc' = wpc
    BY <1>8, PlannerWrites DEF writer
  <2> QED
    BY <2>1, <2>2 DEF Counted
<1>9. ASSUME PCommitter \/ Rest
      PROVE  queued' = queued /\ Counted' = Counted
  BY <1>9, CommitterWrites, RestWrites DEF queue, writer, Counted
<1>10. ASSUME PPlanner, PlannerTake \/ PlannerGather
       PROVE  \E w \in Counted : Counted' = Counted \ {w} /\ queued' = queued - Count(w)
  BY <1>7, <1>10
<1> QED
  BY <1>2, <1>3, <1>4, <1>5, <1>6, <1>8, <1>9, <1>10, Steps DEF Writer

LEMMA QueueStep ==
  ASSUME JobInv, SetTypes, Asked, QueueAccounted, [PNext]_<<vars, pvars>>
  PROVE  QueueAccounted'
<1>1. JobTypes /\ queued = Total(job, Counted)
  BY Accounts DEF JobInv
<1>2. /\ Counted \subseteq Writers /\ IsFiniteSet(Counted)
      /\ \A w \in Writers : Length(job, w) \in Nat /\ Length(job, w) = Count(w)
  BY <1>1, CountedType
<1>3. \A w \in Counted : wpc[w] \in {"send", "wait", "done"}
  BY <1>1 DEF Counted, JobInv, Open
<1>4. \A w \in Writers : wpc[w] = "count" => job'[w] = job[w]
  BY <1>1, JobStays
<1>5. \A w \in Counted : job'[w] = job[w]
  BY <1>1, <1>2, <1>3, JobStays
<1>6. CASE queued' = queued /\ Counted' = Counted
  <2>1. Total(job, Counted) = Total(job', Counted)
    BY <1>2, <1>5, TotalSame
  <2> QED
    BY <1>1, <1>6, <2>1, Accounts
<1>7. ASSUME NEW w \in Writers, w \notin Counted, Counted' = Counted \cup {w},
             queued' = queued + Count(w), wpc[w] = "count"
      PROVE  QueueAccounted'
  <2>1. Total(job, Counted \cup {w}) = Total(job, Counted) + Length(job, w)
    BY <1>2, <1>7, TotalAdd
  <2>2. IsFiniteSet(Counted \cup {w})
    BY <1>2, FS_AddElement
  <2>3. Total(job, Counted \cup {w}) = Total(job', Counted \cup {w})
    BY <1>2, <1>4, <1>5, <1>7, <2>2, TotalSame
  <2> QED
    BY <1>1, <1>2, <1>7, <2>1, <2>3, Accounts
<1>8. ASSUME NEW w \in Counted, Counted' = Counted \ {w}, queued' = queued - Count(w)
      PROVE  QueueAccounted'
  <2> DEFINE ws == Counted \ {w}
  <2>1. w \notin ws /\ ws \cup {w} = Counted /\ w \in Writers /\ ws \subseteq Writers
    BY <1>2
  <2>2. IsFiniteSet(ws)
    BY <1>2, FS_RemoveElement
  <2>3. \A x \in ws : job'[x] = job[x]
    BY <1>5
  <2> HIDE DEF ws
  <2>4. Total(job, ws) \in Nat /\ Total(job, ws \cup {w}) = Total(job, ws) + Length(job, w)
    BY <1>2, <2>1, <2>2, TotalAdd
  <2>5. Total(job, ws) = Total(job', ws)
    BY <1>2, <2>1, <2>2, <2>3, TotalSame
  <2>6. queued' = Total(job', ws)
    <3>1. Total(job, Counted) = Total(job, ws \cup {w})
      BY <2>1, Zenon
    <3> QED
      BY <1>1, <1>2, <1>8, <2>1, <2>4, <2>5, <3>1
  <2> QED
    BY <1>8, <2>6, Accounts DEF ws
<1> QED
  BY <1>6, <1>7, <1>8, CountedMoves

(***************************************************************************)
(* The count that Submit compares with the limit of the queue is the sum   *)
(* of the records on their way into the channel or in it, for every number *)
(* of writers: neither a context that ends, nor a stop, nor the planner    *)
(* leaves a record counted or gives one back twice.                        *)
(***************************************************************************)
THEOREM PipelineQueueAccounted == PSpec => []QueueAccounted
<1>1. PInit => QueueAccounted
  <2> SUFFICES ASSUME PInit PROVE QueueAccounted
    OBVIOUS
  <2>1. Counted = {} /\ queued = 0
    BY ToSetNone DEF PInit, Counted
  <2>2. Total(job, {}) = Cardinality(Records(job, {}))
    BY FS_EmptySet, SumIsRecords
  <2>3. Cardinality(Records(job, {})) = 0
    BY FS_EmptySet DEF Records
  <2> QED
    BY <2>1, <2>2, <2>3, Accounts
<1>2. JobInv /\ StoreInv /\ TraceInv /\ QueueAccounted /\ [PNext]_<<vars, pvars>> => QueueAccounted'
  BY QueueStep DEF StoreInv, TraceInv
<1> QED
  BY <1>1, <1>2, TracesOwned, PTL DEF PSpec
=============================================================================
