--------------------------- MODULE ActiveSetProofs ---------------------------
(* Proofs about ActiveSet, for every value of its constants. *)
EXTENDS ActiveSetInv, FiniteSetTheorems, TLAPS

-----------------------------------------------------------------------------
(* Toggling a value of Values stays within Values. *)
LEMMA ToggleType ==
  ASSUME NEW h \in SUBSET Values, NEW v \in Values
  PROVE  Toggle(h, v) \in SUBSET Values
BY DEF Toggle

(* The number of values of a hash is a natural number. *)
LEMMA HashCardinality ==
  ASSUME NEW h \in SUBSET Values
  PROVE  IsFiniteSet(h) /\ Cardinality(h) \in Nat
<1>1. IsFiniteSet(h)
  BY SetAssumption, FS_Subset
<1> QED
  BY <1>1, FS_CardinalityType

(* The number of values present in a map of entries is a natural number. *)
LEMMA PresentCardinality ==
  ASSUME NEW f
  PROVE  Present(f) \in SUBSET Values /\ Cardinality(Present(f)) \in Nat
BY HashCardinality DEF Present

(* The fields of a delta and of a plan have their types. *)
LEMMA DeltaFields ==
  ASSUME NEW d \in Delta
  PROVE  d.v \in Values /\ d.to \in Slot
BY DEF Delta

(* The fields of an entry have their types. *)
LEMMA EntryFields ==
  ASSUME NEW e \in Slot, e # Absent
  PROVE  e \in Entry /\ e.exp \in Exps /\ e.exp \in Nat
BY SetAssumption DEF Slot, Entry

(* The fields of a plan have their types. *)
LEMMA PlanFields ==
  ASSUME NEW p \in Plan
  PROVE  /\ p.deltas \in Seq(Delta) /\ p.seq \in Nat /\ p.gen \in Nat
         /\ p.hash \in SUBSET Values
BY DEF Plan

(* Type correctness of a batch. *)
LEMMA ClientBatchType ==
  ASSUME NEW ds \in ClientBatches
  PROVE  ds \in Seq(Delta)
BY SetAssumption DEF ClientBatches, ClientDelta

(* A freshly loaded set is type correct. *)
LEMMA InitTypeOK == Init => TypeOK
<1> SUFFICES ASSUME Init PROVE TypeOK
  OBVIOUS
<1> USE DEF Init, Load
<1>1. entries \in [Values -> Slot] /\ hash \in SUBSET Values
  BY DEF Present
<1>2. heap \in SUBSET (Values \X Exps)
  BY <1>1, SetAssumption DEF Present, Slot, Entry
<1>3. pendSize \in Nat /\ loaded \in Nat
  BY PresentCardinality
<1>4. /\ pend \in [Values -> [to : Slot, seq : Nat] \cup {Unplanned}]
      /\ over \in [Values -> Slot \cup {Unplanned}]
  BY DEF NothingPlanned
<1> QED
  BY <1>1, <1>2, <1>3, <1>4 DEF TypeOK

(* The draft never goes below zero: a value it removes is counted in size. *)
LEMMA RemovalShrinks ==
  ASSUME NEW h \in SUBSET Values, NEW v \in h
  PROVE  Cardinality(h) - 1 \in Nat /\ Cardinality(Toggle(h, v)) = Cardinality(h) - 1
<1>1. IsFiniteSet(h)
  BY HashCardinality
<1>2. Cardinality(h \ {v}) = Cardinality(h) - 1 /\ Cardinality(h \ {v}) \in Nat
  BY <1>1, FS_RemoveElement, HashCardinality
<1> QED
  BY <1>2 DEF Toggle

(* A value the draft adds is counted once in size. *)
LEMMA InsertionGrows ==
  ASSUME NEW h \in SUBSET Values, NEW v \in Values \ h
  PROVE  Cardinality(Toggle(h, v)) = Cardinality(h) + 1
<1>1. IsFiniteSet(h)
  BY HashCardinality
<1> QED
  BY <1>1, FS_AddElement DEF Toggle

(* The oldest plan in flight and the delta a Commit looks at have their types. *)
LEMMA HeadPlanType ==
  ASSUME TypeOK, flight # <<>>
  PROVE  /\ Head(flight) = flight[1] /\ 1 \in DOMAIN flight
         /\ Head(flight) \in Plan
         /\ Tail(flight) \in Seq(Plan)
         /\ Head(flight).deltas \in Seq(Delta)
         /\ Head(flight).seq \in Nat /\ Head(flight).gen \in Nat
         /\ Head(flight).hash \in SUBSET Values
<1>1. /\ Head(flight) = flight[1] /\ 1 \in DOMAIN flight
      /\ Head(flight) \in Plan
      /\ Tail(flight) \in Seq(Plan)
  BY DEF TypeOK
<1> QED
  BY <1>1, PlanFields

(* The delta Commit applies next is a delta over Values. *)
LEMMA CommitDeltaType ==
  ASSUME TypeOK, FlightInv, mu = "commit", done < Len(Head(flight).deltas)
  PROVE  /\ done + 1 \in DOMAIN Head(flight).deltas
         /\ Head(flight).deltas[done + 1] \in Delta
         /\ Head(flight).deltas[done + 1].v \in Values
         /\ Head(flight).deltas[done + 1].to \in Slot
<1>1. flight # <<>>
  BY DEF FlightInv
<1>2. Head(flight).deltas \in Seq(Delta) /\ done \in Nat
  BY <1>1, HeadPlanType DEF TypeOK
<1>3. done + 1 \in 1..Len(Head(flight).deltas)
  BY <1>2
<1>4. Head(flight).deltas[done + 1] \in Delta
  BY <1>2, <1>3
<1> QED
  BY <1>2, <1>3, <1>4, DeltaFields

(* No step breaks type correctness, given what is known of flight and draft. *)
LEMMA NextTypeOK == TypeOK /\ FlightInv /\ DraftInv /\ [Next]_vars => TypeOK'
<1> SUFFICES ASSUME TypeOK, FlightInv, DraftInv, [Next]_vars PROVE TypeOK'
  OBVIOUS
<1> USE SetAssumption DEF TypeOK, committed, pending, draft
<1>1. ASSUME NEW ds \in Seq(Delta), PlanBegin(ds),
             victims' \in SUBSET Values, batches' \in Nat
      PROVE  TypeOK'
  BY <1>1 DEF PlanBegin, NothingPlanned, Size
<1>2. CASE PlanJobs
  <2>1. PICK ds \in ClientBatches : PlanBegin(ds)
    BY <1>2 DEF PlanJobs, PlanBatch
  <2>2. victims' \in SUBSET Values /\ batches' \in Nat
    BY <1>2 DEF PlanJobs, PlanBatch
  <2> QED
    BY <1>1, <2>1, <2>2, ClientBatchType
<1>3. CASE PlanSweep
  <2>1. PICK ds \in Chunks : /\ PlanBegin(ds)
                             /\ victims' = victims \ {ds[i].v : i \in DOMAIN ds}
    BY <1>3 DEF PlanSweep
  <2>2. ds \in Seq(Delta)
    <3>1. Cardinality(victims) \in Nat
      BY HashCardinality
    <3>2. PICK n \in Nat : ds \in [1..n -> {[v |-> x, to |-> Absent] : x \in victims}]
      BY <2>1, <3>1 DEF Chunks
    <3>3. {[v |-> x, to |-> Absent] : x \in victims} \subseteq Delta
      BY DEF Delta, Slot
    <3> QED
      BY <3>2, <3>3
  <2>3. victims' \in SUBSET Values /\ batches' \in Nat
    BY <1>3, <2>1 DEF PlanSweep
  <2> QED
    BY <1>1, <2>1, <2>2, <2>3
<1>4. CASE Expired
  <2>1. heap' \in SUBSET (Values \X Exps)
    BY <1>4 DEF Expired, Due, Slot, Entry, Stays, Swept
  <2>2. victims' \in SUBSET Values
    BY <1>4 DEF Expired, Due, Stays, Swept
  <2> QED
    BY <1>4, <2>1, <2>2 DEF Expired, Stays, Swept
<1>5. CASE PlanReject
  <2>1. Head(todo) \in Delta /\ Tail(todo) \in Seq(Delta)
    BY <1>5 DEF PlanReject
  <2> QED
    BY <1>5, <2>1, DeltaFields DEF PlanReject
<1>6. CASE PlanSkip
  BY <1>6 DEF PlanSkip
<1>7. ASSUME NEW d \in Delta, d = Head(todo), todo # <<>>, DraftDelta(d),
             size' \in Nat, acc' \in SUBSET Values
      PROVE  TypeOK'
  <2>1. todo' \in Seq(Delta) /\ applied' \in Seq(Delta)
    BY <1>7 DEF DraftDelta
  <2>2. over' \in [Values -> Slot \cup {Unplanned}]
    BY <1>7, DeltaFields DEF DraftDelta
  <2> QED
    BY <1>7, <2>1, <2>2 DEF DraftDelta
<1>8. CASE PlanInsert
  <2>1. Head(todo) \in Delta /\ Head(todo).v \in Values
    BY <1>8, DeltaFields DEF PlanInsert
  <2> QED
    BY <1>7, <1>8, <2>1, ToggleType DEF PlanInsert
<1>9. CASE PlanRefresh
  BY <1>7, <1>9 DEF PlanRefresh
<1>10. CASE PlanRemove
  <2> DEFINE d == Head(todo)
  <2>1. d \in Delta /\ d.v \in Values /\ todo # <<>>
    BY <1>10, DeltaFields DEF PlanRemove
  <2>2. d.v \in acc /\ size = Cardinality(acc)
    BY <1>10, <2>1 DEF PlanRemove, DraftInv
  <2>3. size' \in Nat /\ acc' \in SUBSET Values
    BY <1>10, <2>1, <2>2, RemovalShrinks, ToggleType DEF PlanRemove
  <2> QED
    BY <1>7, <1>10, <2>1, <2>3 DEF PlanRemove
<1>11. CASE PlanNothing
  BY <1>11 DEF PlanNothing
<1>12. CASE PlanEnd
  BY <1>12 DEF PlanEnd, Plan
<1>13. CASE CommitBegin
  BY <1>13 DEF CommitBegin
<1>14. CASE CommitDelta
  <2> DEFINE d == Head(flight).deltas[done + 1]
  <2>1. d \in Delta /\ d.v \in Values /\ d.to \in Slot
    BY <1>14, CommitDeltaType DEF CommitDelta, Flips, OwnOutcome
  <2>2. entries' \in [Values -> Slot] /\ done' \in Nat
    BY <1>14, <2>1 DEF CommitDelta, Flips, OwnOutcome
  <2>3. hash' \in SUBSET Values
    BY <1>14, <2>1, ToggleType DEF CommitDelta, Flips, OwnOutcome
  <2>4. heap' \in SUBSET (Values \X Exps)
    <3>1. d.to # Absent => d.to.exp \in Exps
      BY <2>1 DEF Slot, Entry
    <3> QED
      BY <1>14, <2>1, <3>1 DEF CommitDelta, Flips, OwnOutcome
  <2>5. pend' \in [Values -> [to : Slot, seq : Nat] \cup {Unplanned}]
    BY <1>14, <2>1 DEF CommitDelta, Flips, OwnOutcome
  <2> QED
    BY <1>14, <2>2, <2>3, <2>4, <2>5 DEF CommitDelta, Flips, OwnOutcome
<1>15. CASE CommitEnd
  <2>1. flight # <<>>
    BY <1>15 DEF CommitEnd, FlightInv
  <2>2. Tail(flight) \in Seq(Plan) /\ Head(flight).seq \in Nat
    BY <2>1, HeadPlanType
  <2> QED
    BY <1>15, <2>2, PresentCardinality DEF CommitEnd
<1>16. CASE Abort
  BY <1>16, PresentCardinality DEF Abort, Settle, NothingPlanned
<1>17. CASE SkipStale
  BY <1>17 DEF SkipStale
<1>18. CASE Tick
  BY <1>18 DEF Tick
<1>19. CASE UNCHANGED vars
  BY <1>19 DEF vars
<1> QED
  BY <1>2, <1>3, <1>4, <1>5, <1>6, <1>8, <1>9, <1>10, <1>11, <1>12, <1>13, <1>14,
     <1>15, <1>16, <1>17, <1>18, <1>19 DEF Next, Planner, Committer

-----------------------------------------------------------------------------
(* The inductive invariant *)

(* A freshly loaded set satisfies the inductive invariant. *)
LEMMA InitSetInv == Init => SetInv
<1> SUFFICES ASSUME Init PROVE SetInv
  OBVIOUS
<1> USE DEF Init, Load
<1>1. flight = <<>> /\ DOMAIN flight = {} /\ mu = "free" /\ victims = {} /\ ~LastLive
  BY DEF LastLive
<1>2. pend = NothingPlanned /\ \A v \in Values : pend[v] = Unplanned
  BY DEF NothingPlanned
<1>3. entries \in [Values -> Slot]
  OBVIOUS
<1>4. FlightInv
  BY <1>1 DEF FlightInv
<1>5. ChainInv
  BY <1>1 DEF ChainInv, HashIsContent
<1>6. PendInv
  BY <1>1, <1>2 DEF PendInv
<1>7. LookupInv
  BY <1>1, <1>2 DEF LookupInv, Present, Reached
<1>8. LimitInv
  BY <1>1, PresentCardinality, SetAssumption DEF LimitInv, Cap
<1>9. ExpiryTracked
  <2> SUFFICES ASSUME NEW v \in Present(entries), entries[v].exp > 0
               PROVE  \E it \in heap : it[1] = v /\ it[2] <= entries[v].exp
    BY DEF ExpiryTracked
  <2>1. entries[v].exp \in Nat
    BY <1>3, EntryFields DEF Present
  <2> DEFINE item == <<v, entries[v].exp>>
  <2>2. item \in heap
    OBVIOUS
  <2>3. item[1] = v /\ item[2] <= entries[v].exp
    BY <2>1
  <2> HIDE DEF item, Init, Load
  <2> QED
    BY <2>2, <2>3
<1>10. HeapInv
  BY DEF HeapInv
<1> QED
  BY <1>1, <1>4, <1>5, <1>6, <1>7, <1>8, <1>9, <1>10
     DEF SetInv, CommitInv, DraftInv, SweepTakesExpired, VictimInv

(***************************************************************************)
(* A step of the planner outside PlanEnd leaves contents, pending changes  *)
(* and flight alone, and what is said of them too.                         *)
(***************************************************************************)
LEMMA PlannerFrame ==
  ASSUME SetInv, UNCHANGED <<committed, pending, flight, done>>,
         mu # "commit", mu' # "commit"
  PROVE  /\ FlightInv' /\ ChainInv' /\ PendInv' /\ LookupInv' /\ CommitInv'
         /\ ExpiryTracked' /\ HeapInv'
<1> USE DEF SetInv, committed, pending, Live, LastLive, FirstLive
<1>1. FlightInv'
  BY DEF FlightInv
<1>2. ChainInv'
  BY DEF ChainInv, HashIsContent, Link
<1>3. PendInv'
  BY DEF PendInv, Reached
<1>4. LookupInv'
  BY DEF LookupInv, Reached
<1>5. CommitInv'
  BY DEF CommitInv
<1>6. ExpiryTracked' /\ HeapInv'
  BY DEF ExpiryTracked, HeapInv
<1> QED
  BY <1>1, <1>2, <1>3, <1>4, <1>5, <1>6

(* What the last deltas of a sequence say, when one is added. *)
LEMMA TouchesAppend ==
  ASSUME NEW s \in Seq(Delta), NEW d \in Delta, NEW v
  PROVE  Touches(Append(s, d), v) <=> Touches(s, v) \/ v = d.v
<1>1. DOMAIN Append(s, d) = DOMAIN s \cup {Len(s) + 1}
  OBVIOUS
<1> QED
  BY <1>1 DEF Touches

(* The last delta for a value in a longer plan is the new one, or the old last. *)
LEMMA LastForAppend ==
  ASSUME NEW s \in Seq(Delta), NEW d \in Delta
  PROVE  /\ LastFor(Append(s, d), Len(s) + 1)
         /\ \A n \in DOMAIN s : LastFor(Append(s, d), n) <=> LastFor(s, n) /\ s[n].v # d.v
<1> DEFINE t == Append(s, d)
<1>1. /\ DOMAIN t = DOMAIN s \cup {Len(s) + 1}
      /\ \A n \in DOMAIN s : t[n] = s[n] /\ n < Len(s) + 1 /\ n \in Nat
      /\ t[Len(s) + 1] = d
  OBVIOUS
<1>2. LastFor(t, Len(s) + 1)
  BY DEF LastFor
<1>3. ASSUME NEW n \in DOMAIN s
      PROVE  LastFor(t, n) <=> LastFor(s, n) /\ s[n].v # d.v
  <2> HIDE DEF t
  <2> QED
    BY <1>1 DEF LastFor
<1> QED
  BY <1>2, <1>3

(* A value touched by the rest of a sequence is touched by all of it. *)
LEMMA TouchesTail ==
  ASSUME NEW s \in Seq(Delta), s # <<>>, NEW v, Touches(Tail(s), v)
  PROVE  Touches(s, v)
<1>1. PICK n \in DOMAIN Tail(s) : Tail(s)[n].v = v
  BY DEF Touches
<1>2. n + 1 \in DOMAIN s /\ s[n + 1] = Tail(s)[n]
  BY <1>1
<1> QED
  BY <1>1, <1>2 DEF Touches

(* A call of Plan starts from the pending contents. *)
LEMMA PlanBeginDraft ==
  ASSUME TypeOK, SetInv, NEW ds, PlanBegin(ds)
  PROVE  DraftInv' /\ LimitInv'
<1> USE DEF PlanBegin, SetInv, committed, pending, Size
<1>1. ASSUME NEW v \in Values
      PROVE  /\ over'[v] = Unplanned /\ ~Touches(applied', v)
             /\ BatchLookup(v)' = Lookup(v)
             /\ Lookup(v) # Absent <=> v \in pendHash
  <2>1. over'[v] = Unplanned
    BY DEF NothingPlanned
  <2>2. BatchLookup(v)' = Lookup(v)
    BY <2>1 DEF BatchLookup, Lookup
  <2>3. ~Touches(applied', v)
    BY DEF Touches
  <2>4. Lookup(v) # Absent <=> v \in pendHash
    BY DEF Lookup, LookupInv, Reached
  <2> QED
    BY <2>1, <2>2, <2>3, <2>4
<1>2. DraftInv'
  BY <1>1 DEF DraftInv, LookupInv
<1>3. LimitInv'
  BY DEF LimitInv, Cap, Live
<1> QED
  BY <1>2, <1>3

(* Starting to plan a batch of the planner preserves the invariant. *)
LEMMA PlanJobsStep ==
  ASSUME TypeOK, SetInv, PlanJobs
  PROVE  SetInv'
<1>1. PICK ds \in ClientBatches : PlanBegin(ds)
  BY DEF PlanJobs, PlanBatch
<1>2. DraftInv' /\ LimitInv'
  BY <1>1, PlanBeginDraft
<1>3. /\ FlightInv' /\ ChainInv' /\ PendInv' /\ LookupInv' /\ CommitInv'
      /\ ExpiryTracked' /\ HeapInv'
  BY <1>1, PlannerFrame DEF PlanBegin, Size
<1>4. victims' = {}
  BY DEF PlanJobs, PlanBatch
<1> QED
  BY <1>2, <1>3, <1>4 DEF SetInv, SweepTakesExpired, VictimInv

(* Starting to plan a chunk of a sweep preserves the invariant. *)
LEMMA PlanSweepStep ==
  ASSUME TypeOK, SetInv, PlanSweep
  PROVE  SetInv'
<1>1. PICK ds \in Chunks : /\ PlanBegin(ds)
                           /\ victims' = victims \ {ds[i].v : i \in DOMAIN ds}
  BY DEF PlanSweep
<1>2. DraftInv' /\ LimitInv'
  BY <1>1, PlanBeginDraft
<1>3. /\ FlightInv' /\ ChainInv' /\ PendInv' /\ LookupInv' /\ CommitInv'
      /\ ExpiryTracked' /\ HeapInv'
  BY <1>1, PlannerFrame DEF PlanBegin, Size
<1>4. SweepTakesExpired'
  BY <1>1 DEF PlanBegin, SetInv, SweepTakesExpired, committed, pending, Size
<1>5. VictimInv'
  <2> SUFFICES ASSUME NEW v \in victims'
               PROVE  /\ \A i \in DOMAIN flight : Live(i) => ~Touches(flight[i].deltas, v)
                      /\ ~Touches(todo', v) /\ ~Touches(applied', v)
    BY <1>1 DEF PlanBegin, VictimInv, pending, Live, Touches, Size
  <2>1. v \in victims /\ ~Touches(ds, v)
    BY <1>1 DEF Touches
  <2> QED
    BY <1>1, <2>1 DEF PlanBegin, SetInv, VictimInv, Touches, Size
<1> QED
  BY <1>2, <1>3, <1>4, <1>5 DEF SetInv

(* Skipping a delta, or rejecting it, only shortens what is left to plan. *)
LEMMA PlanPassStep ==
  ASSUME TypeOK, SetInv, PlanReject \/ PlanSkip
  PROVE  SetInv'
<1>1. /\ UNCHANGED <<committed, pending, mu, over, size, acc, applied, flight, done,
                     victims, now, loaded>>
      /\ mu = "plan" /\ todo # <<>> /\ todo' = Tail(todo)
  BY DEF PlanReject, PlanSkip
<1>2. /\ FlightInv' /\ ChainInv' /\ PendInv' /\ LookupInv' /\ CommitInv'
      /\ ExpiryTracked' /\ HeapInv'
  BY <1>1, PlannerFrame
<1> USE DEF SetInv, committed, pending
<1>3. DraftInv'
  BY <1>1 DEF DraftInv, BatchLookup, Lookup
<1>4. LimitInv'
  BY <1>1 DEF LimitInv, Cap, Live
<1>5. SweepTakesExpired'
  BY <1>1 DEF SweepTakesExpired
<1>6. VictimInv'
  <2>1. todo \in Seq(Delta)
    BY DEF TypeOK
  <2>2. \A v \in Values : Touches(todo', v) => Touches(todo, v)
    BY <1>1, <2>1, TouchesTail
  <2>3. victims \subseteq Values
    BY DEF TypeOK
  <2> QED
    BY <1>1, <2>2, <2>3 DEF VictimInv, Live
<1> QED
  BY <1>2, <1>3, <1>4, <1>5, <1>6

(* What a delta does to the draft of Plan: hash, size and outcomes agree. *)
LEMMA DraftDeltaStep ==
  ASSUME TypeOK, SetInv, NEW d \in Delta, mu = "plan", todo # <<>>, d = Head(todo),
         DraftDelta(d),
         acc' = IF (BatchLookup(d.v) = Absent) <=> (d.to = Absent) THEN acc ELSE Toggle(acc, d.v),
         size' = Cardinality(acc'), Limit > 0 => size' <= Cap
  PROVE  SetInv'
<1> USE DEF SetInv, committed, pending
<1>1. /\ UNCHANGED <<committed, pending, mu, flight, done, victims, now, loaded>>
      /\ todo' = Tail(todo) /\ applied' = Append(applied, d)
      /\ over' = [over EXCEPT ![d.v] = d.to]
  BY DEF DraftDelta
<1>2. /\ FlightInv' /\ ChainInv' /\ PendInv' /\ LookupInv' /\ CommitInv'
      /\ ExpiryTracked' /\ HeapInv'
  BY <1>1, PlannerFrame
<1>3. /\ d.v \in Values /\ d.to \in Slot /\ d.to # Unplanned
      /\ applied \in Seq(Delta) /\ todo \in Seq(Delta)
      /\ over \in [Values -> Slot \cup {Unplanned}]
      /\ acc \in SUBSET Values
  BY DeltaFields, SetAssumption DEF TypeOK
<1>4. /\ over'[d.v] = d.to
      /\ \A v \in Values : v # d.v => over'[v] = over[v]
  BY <1>1, <1>3
<1>5. /\ BatchLookup(d.v)' = d.to
      /\ \A v \in Values : v # d.v => BatchLookup(v)' = BatchLookup(v)
  BY <1>1, <1>3, <1>4 DEF BatchLookup, Lookup
<1>6. \A v \in Values : v # d.v => (v \in acc' <=> v \in acc)
  BY <1>3 DEF Toggle
<1>7. BatchLookup(d.v) # Absent <=> d.v \in acc
  BY <1>3 DEF DraftInv
<1>8. d.v \in acc' <=> d.to # Absent
  BY <1>3, <1>7 DEF Toggle
<1>9. DraftInv'
  <2>1. ASSUME NEW v \in Values
        PROVE  /\ (BatchLookup(v) # Absent <=> v \in acc)'
               /\ (over[v] = Unplanned => (v \in acc <=> v \in pendHash))'
               /\ (over[v] # Unplanned <=> Touches(applied, v))'
               /\ (over[v] # Unplanned =>
                     \E n \in DOMAIN applied : applied[n].v = v /\ LastFor(applied, n))'
    <3>1. CASE v = d.v
      <4>1. Len(applied) + 1 \in DOMAIN applied' /\ applied'[Len(applied) + 1] = d
        BY <1>1, <1>3
      <4>2. LastFor(applied', Len(applied) + 1)
        BY <1>1, <1>3, LastForAppend
      <4>3. Touches(applied', v)
        BY <3>1, <4>1 DEF Touches
      <4> QED
        BY <1>3, <1>4, <1>5, <1>8, <3>1, <4>1, <4>2, <4>3
    <3>2. CASE v # d.v
      <4>1. Touches(applied', v) <=> Touches(applied, v)
        BY <1>1, <1>3, <3>2, TouchesAppend
      <4>2. ASSUME over[v] # Unplanned
            PROVE  \E n \in DOMAIN applied' : applied'[n].v = v /\ LastFor(applied', n)
        <5>1. PICK n \in DOMAIN applied : applied[n].v = v /\ LastFor(applied, n)
          BY <4>2 DEF DraftInv
        <5>2. n \in DOMAIN applied' /\ applied'[n] = applied[n]
          BY <1>1, <1>3
        <5>3. LastFor(applied', n)
          BY <1>1, <1>3, <3>2, <5>1, LastForAppend
        <5> QED
          BY <5>1, <5>2, <5>3
      <4>3. /\ BatchLookup(v) # Absent <=> v \in acc
            /\ over[v] = Unplanned => (v \in acc <=> v \in pendHash)
            /\ over[v] # Unplanned <=> Touches(applied, v)
        BY DEF DraftInv
      <4> QED
        BY <1>1, <1>4, <1>5, <1>6, <3>2, <4>1, <4>2, <4>3
    <3> QED
      BY <3>1, <3>2
  <2>2. ASSUME NEW n \in DOMAIN applied', LastFor(applied', n)
        PROVE  over'[applied'[n].v] = applied'[n].to
    <3>1. CASE n = Len(applied) + 1
      BY <1>1, <1>3, <1>4, <3>1
    <3>2. CASE n # Len(applied) + 1
      <4>1. n \in DOMAIN applied /\ applied'[n] = applied[n]
        BY <1>1, <1>3, <3>2
      <4>2. LastFor(applied, n) /\ applied[n].v # d.v
        BY <1>1, <1>3, <2>2, <4>1, LastForAppend
      <4>3. applied[n].v \in Values
        BY <1>3, <4>1, DeltaFields
      <4> QED
        BY <1>4, <4>1, <4>2, <4>3 DEF DraftInv
    <3> QED
      BY <3>1, <3>2
  <2> QED
    BY <2>1, <2>2 DEF DraftInv
<1>10. LimitInv'
  BY <1>1 DEF LimitInv, Cap, Live
<1>11. SweepTakesExpired'
  BY <1>1 DEF SweepTakesExpired
<1>12. VictimInv'
  <2>1. victims \subseteq Values
    BY DEF TypeOK
  <2>2. \A v \in Values : Touches(todo', v) => Touches(todo, v)
    BY <1>1, <1>3, TouchesTail
  <2>3. Touches(todo, d.v)
    <3>1. 1 \in DOMAIN todo /\ todo[1] = d
      BY <1>3
    <3> QED
      BY <3>1 DEF Touches
  <2>4. \A v \in Values : Touches(applied', v) => Touches(applied, v) \/ Touches(todo, v)
    BY <1>1, <1>3, <2>3, TouchesAppend
  <2> QED
    BY <1>1, <2>1, <2>2, <2>4 DEF VictimInv, Live
<1> QED
  BY <1>2, <1>9, <1>10, <1>11, <1>12

(* Planning one delta preserves the invariant. *)
LEMMA PlanDeltaStep ==
  ASSUME TypeOK, SetInv, PlanInsert \/ PlanRefresh \/ PlanRemove
  PROVE  SetInv'
<1> DEFINE d == Head(todo)
<1>1. mu = "plan" /\ todo # <<>> /\ DraftDelta(d)
  BY DEF PlanInsert, PlanRefresh, PlanRemove
<1>2. d \in Delta /\ d.v \in Values /\ acc \in SUBSET Values
  BY <1>1, DeltaFields DEF TypeOK
<1>3. size = Cardinality(acc) /\ (BatchLookup(d.v) # Absent <=> d.v \in acc)
  BY <1>1, <1>2 DEF SetInv, DraftInv
<1>4. (Limit > 0 => size <= Cap) /\ size \in Nat /\ Limit \in Nat /\ loaded \in Nat
  BY <1>1, SetAssumption DEF SetInv, LimitInv, TypeOK
<1>5. CASE PlanInsert
  <2>1. d.to # Absent /\ BatchLookup(d.v) = Absent /\ acc' = Toggle(acc, d.v)
        /\ size' = size + 1 /\ (Limit = 0 \/ size < Limit)
    BY <1>5 DEF PlanInsert
  <2>2. size' = Cardinality(acc')
    BY <1>2, <1>3, <2>1, InsertionGrows
  <2>3. Limit > 0 => size' <= Cap
    BY <1>4, <2>1 DEF Cap
  <2> QED
    BY <1>1, <1>2, <2>1, <2>2, <2>3, DraftDeltaStep
<1>6. CASE PlanRefresh
  <2>1. d.to # Absent /\ BatchLookup(d.v) # Absent /\ acc' = acc /\ size' = size
    BY <1>6 DEF PlanRefresh
  <2> QED
    BY <1>1, <1>2, <1>3, <1>4, <2>1, DraftDeltaStep
<1>7. CASE PlanRemove
  <2>1. d.to = Absent /\ BatchLookup(d.v) # Absent /\ acc' = Toggle(acc, d.v)
        /\ size' = size - 1
    BY <1>7 DEF PlanRemove
  <2>2. size' = Cardinality(acc')
    BY <1>2, <1>3, <2>1, RemovalShrinks
  <2>3. Limit > 0 => size' <= Cap
    BY <1>4, <2>1 DEF Cap
  <2> QED
    BY <1>1, <1>2, <2>1, <2>2, <2>3, DraftDeltaStep
<1> QED
  BY <1>5, <1>6, <1>7

(* A call of Plan that changes nothing puts nothing in flight. *)
LEMMA PlanNothingStep ==
  ASSUME TypeOK, SetInv, PlanNothing
  PROVE  SetInv'
<1>1. /\ UNCHANGED <<committed, pending, draft, flight, done, victims, now, loaded>>
      /\ mu = "plan" /\ mu' = "free"
  BY DEF PlanNothing
<1>2. /\ FlightInv' /\ ChainInv' /\ PendInv' /\ LookupInv' /\ CommitInv'
      /\ ExpiryTracked' /\ HeapInv'
  BY <1>1, PlannerFrame
<1>3. DraftInv' /\ LimitInv' /\ SweepTakesExpired' /\ VictimInv'
  BY <1>1 DEF SetInv, DraftInv, LimitInv, Cap, Live, SweepTakesExpired, VictimInv,
              committed, pending
<1> QED
  BY <1>2, <1>3 DEF SetInv

(***************************************************************************)
(* PlanEnd: the draft becomes the last plan in flight.  It starts from the *)
(* pending hash, which is that of the plan before it, or the committed one *)
(* when no plan of this generation is in flight.                           *)
(***************************************************************************)
LEMMA PlanEndStep ==
  ASSUME TypeOK, SetInv, PlanEnd
  PROVE  SetInv'
<1>0. PICK N \in Nat : N = Len(flight)
  BY DEF TypeOK
<1> DEFINE p == [deltas |-> applied, seq |-> pendSeq + 1, hash |-> acc, gen |-> gen]
<1>1. /\ UNCHANGED <<committed, gen, draft, done, victims, now, batches, loaded>>
      /\ mu = "plan" /\ mu' = "free" /\ applied # <<>>
      /\ flight' = Append(flight, p)
      /\ pendSeq' = pendSeq + 1 /\ pendHash' = acc /\ pendSize' = size
  BY DEF PlanEnd
<1>2. /\ flight \in Seq(Plan) /\ N = Len(flight) /\ N \in Nat
      /\ pendSeq \in Nat /\ seq \in Nat /\ gen \in Nat /\ applied \in Seq(Delta)
  BY <1>0 DEF TypeOK
<1>3. /\ DOMAIN flight = 1..N /\ Len(flight') = N + 1 /\ DOMAIN flight' = 1..(N + 1)
      /\ flight' # <<>>
      /\ \A i \in 1..N : flight'[i] = flight[i] /\ i # N + 1
      /\ flight'[N + 1] = p
  BY <1>1, <1>2
<1>4. /\ \A i \in 1..N : Live(i)' <=> Live(i)
      /\ Live(N + 1)'
  BY <1>1, <1>2, <1>3 DEF Live
<1>5. /\ \A i \in 1..N : FirstLive(i)' <=> FirstLive(i)
      /\ FirstLive(N + 1)' <=> ~LastLive
      /\ LastLive'
  <2>1. ASSUME NEW i \in 1..N PROVE FirstLive(i)' <=> FirstLive(i)
    <3>1. i # 1 => i - 1 \in 1..N
      BY <1>2
    <3> QED
      BY <1>4, <3>1 DEF FirstLive
  <2>2. FirstLive(N + 1)' <=> ~LastLive
    <3>1. N + 1 = 1 <=> flight = <<>>
      BY <1>2
    <3>2. N + 1 # 1 => N \in 1..N /\ (N + 1) - 1 = N
      BY <1>2
    <3> QED
      BY <1>2, <1>4, <3>1, <3>2 DEF FirstLive, LastLive
  <2>3. LastLive'
    BY <1>3, <1>4 DEF LastLive
  <2> QED
    BY <2>1, <2>2, <2>3
<1> HIDE DEF p
<1>6. p.deltas = applied /\ p.seq = pendSeq + 1 /\ p.hash = acc /\ p.gen = gen
  BY DEF p
<1>7. \A v \in Values : /\ over[v] # Unplanned => pend'[v] = [to |-> over[v], seq |-> pendSeq + 1]
                        /\ over[v] = Unplanned => pend'[v] = pend[v]
  BY DEF PlanEnd
<1>8. \A v \in Values : over[v] # Unplanned => /\ pend'[v] # Unplanned
                                              /\ pend'[v].to = over[v]
                                              /\ pend'[v].seq = pendSeq + 1
  <2> SUFFICES ASSUME NEW v \in Values, over[v] # Unplanned
               PROVE  /\ pend'[v] # Unplanned
                      /\ pend'[v].to = over[v]
                      /\ pend'[v].seq = pendSeq + 1
    OBVIOUS
  <2>1. over[v] \in Slot /\ pendSeq + 1 \in Nat
    BY DEF TypeOK
  <2>2. pend'[v] = [to |-> over[v], seq |-> pendSeq + 1]
    BY <1>7
  <2>3. pend'[v] \in [to : Slot, seq : Nat]
    BY <2>1, <2>2
  <2> QED
    BY <2>2, <2>3, SetAssumption
<1>9. DraftInv /\ SetInv
  BY DEF SetInv
<1>10. Link(pendHash, p)
  <2>1. ASSUME NEW n \in DOMAIN applied, LastFor(applied, n)
        PROVE  applied[n].v \in acc <=> applied[n].to # Absent
    <3>1. applied[n] \in Delta /\ applied[n].v \in Values /\ applied[n].to \in Slot
      BY <1>2, DeltaFields
    <3>2. over[applied[n].v] = applied[n].to
      BY <1>1, <1>9, <2>1 DEF DraftInv
    <3>3. over[applied[n].v] # Unplanned
      BY <3>1, <3>2, SetAssumption
    <3> QED
      BY <1>1, <1>9, <3>1, <3>2, <3>3 DEF DraftInv, BatchLookup
  <2>2. ASSUME NEW v \in Values, ~Touches(applied, v)
        PROVE  v \in acc <=> v \in pendHash
    BY <1>1, <1>9, <2>2 DEF DraftInv
  <2> QED
    BY <1>6, <2>1, <2>2 DEF Link
<1>11. FlightInv'
  <2> USE <1>9 DEF SetInv, FlightInv
  <2>1. ASSUME NEW i \in 1..(N + 1)
        PROVE  /\ flight'[i].gen <= gen
               /\ flight'[i].deltas # <<>>
               /\ Live(i)' => flight'[i].seq = pendSeq' - (N + 1 - i)
               /\ FirstLive(i)' => flight'[i].seq = seq + 1
               /\ \A v \in Values : Touches(flight'[i].deltas, v) =>
                    \E n \in DOMAIN flight'[i].deltas :
                      flight'[i].deltas[n].v = v /\ LastFor(flight'[i].deltas, n)
    <3>1. CASE i \in 1..N
      <4>1. Live(i) => flight[i].seq = pendSeq - (N - i)
        BY <1>2, <1>3, <3>1
      <4>2. pendSeq' - (N + 1 - i) = pendSeq - (N - i)
        BY <1>1, <1>2, <3>1
      <4> QED
        BY <1>3, <1>4, <1>5, <3>1, <4>1, <4>2
    <3>2. CASE i = N + 1
      <4>1. pendSeq' - (N + 1 - i) = pendSeq + 1
        BY <1>1, <1>2, <3>2
      <4>2. FirstLive(i)' => pendSeq = seq
        BY <1>5, <3>2
      <4>3. \A v \in Values : Touches(applied, v) =>
              \E n \in DOMAIN applied : applied[n].v = v /\ LastFor(applied, n)
        BY <1>1 DEF DraftInv
      <4>4. gen <= gen
        BY <1>2
      <4> QED
        BY <1>1, <1>3, <1>6, <3>2, <4>1, <4>2, <4>3, <4>4
    <3> QED
      BY <1>2, <3>1, <3>2
  <2>2. ASSUME NEW i \in 1..(N + 1), NEW j \in 1..(N + 1), i < j, Live(i)'
        PROVE  Live(j)'
    <3>1. j = N + 1 \/ (j \in 1..N /\ i \in 1..N)
      BY <1>2, <2>2
    <3> QED
      BY <1>3, <1>4, <2>2, <3>1
  <2>3. seq' = seq /\ gen' = gen
    BY <1>1 DEF committed
  <2> QED
    BY <1>1, <1>3, <1>5, <2>1, <2>2, <2>3
<1>12. ChainInv'
  <2>1. HashIsContent'
    BY <1>1, <1>9 DEF SetInv, ChainInv, HashIsContent, committed
  <2>2. ASSUME NEW i \in 1..(N + 1)
        PROVE  /\ FirstLive(i)' => Link(hash, flight'[i])
               /\ Live(i)' /\ i > 1 /\ Live(i - 1)' => Link(flight'[i - 1].hash, flight'[i])
    <3>1. CASE i \in 1..N
      <4>1. i > 1 => i - 1 \in 1..N
        BY <1>2, <3>1
      <4> QED
        BY <1>3, <1>4, <1>5, <1>9, <3>1, <4>1 DEF SetInv, ChainInv
    <3>2. CASE i = N + 1
      <4>1. i > 1 => i - 1 = N /\ N \in 1..N /\ flight # <<>>
        BY <1>2, <3>2
      <4>2. pendHash = IF LastLive THEN flight[N].hash ELSE hash
        BY <1>2, <1>9 DEF SetInv, ChainInv
      <4>3. i > 1 /\ Live(i - 1)' => LastLive
        BY <1>2, <1>4, <4>1 DEF LastLive
      <4> QED
        BY <1>3, <1>5, <1>10, <3>2, <4>1, <4>2, <4>3
    <3> QED
      BY <1>2, <3>1, <3>2
  <2>3. pendHash' = flight'[N + 1].hash
    BY <1>1, <1>3, <1>6
  <2>4. hash' = hash
    BY <1>1 DEF committed
  <2> QED
    BY <1>3, <1>5, <2>1, <2>2, <2>3, <2>4 DEF ChainInv, Link
<1>13. PendInv'
  <2>1. \A v \in Values : pend'[v] # Unplanned => pend'[v].seq <= pendSeq'
    <3> SUFFICES ASSUME NEW v \in Values, pend'[v] # Unplanned PROVE pend'[v].seq <= pendSeq'
      OBVIOUS
    <3>1. CASE over[v] = Unplanned
      <4>1. pend[v] # Unplanned /\ pend'[v] = pend[v]
        BY <1>7, <3>1
      <4>2. pend[v].seq \in Nat /\ pend[v].seq <= pendSeq
        BY <1>9, <4>1 DEF SetInv, PendInv, TypeOK
      <4> QED
        BY <1>1, <1>2, <4>1, <4>2
    <3>2. CASE over[v] # Unplanned
      BY <1>1, <1>2, <1>8, <3>2
    <3> QED
      BY <3>1, <3>2
  <2>2. ASSUME NEW i \in 1..(N + 1), NEW v \in Values, Live(i)', Touches(flight'[i].deltas, v)
        PROVE  pend'[v] # Unplanned /\ pend'[v].seq >= flight'[i].seq
    <3>1. CASE i \in 1..N
      <4>1. pend[v] # Unplanned /\ pend[v].seq >= flight[i].seq
        BY <1>1, <1>3, <1>4, <1>9, <2>2, <3>1 DEF SetInv, PendInv, Reached
      <4>2. flight[i].seq = pendSeq - (N - i)
        BY <1>2, <1>3, <1>4, <1>9, <2>2, <3>1 DEF SetInv, FlightInv
      <4>3. flight[i].seq <= pendSeq + 1
        BY <1>2, <3>1, <4>2
      <4> QED
        BY <1>3, <1>7, <1>8, <3>1, <4>1, <4>3
    <3>2. CASE i = N + 1
      <4>1. over[v] # Unplanned
        BY <1>1, <1>3, <1>6, <1>9, <2>2, <3>2 DEF DraftInv
      <4> QED
        BY <1>2, <1>3, <1>6, <1>8, <3>2, <4>1
    <3> QED
      BY <1>2, <3>1, <3>2
  <2>3. ASSUME NEW i \in 1..(N + 1), NEW v \in Values, Live(i)',
               pend'[v] # Unplanned, pend'[v].seq = flight'[i].seq
        PROVE  \E n \in DOMAIN flight'[i].deltas :
                 /\ flight'[i].deltas[n].v = v
                 /\ LastFor(flight'[i].deltas, n)
                 /\ flight'[i].deltas[n].to = pend'[v].to
    <3>1. CASE i \in 1..N
      <4>1. flight[i].seq = pendSeq - (N - i)
        BY <1>2, <1>3, <1>4, <1>9, <2>3, <3>1 DEF SetInv, FlightInv
      <4>2. flight[i].seq # pendSeq + 1
        BY <1>2, <3>1, <4>1
      <4>3. over[v] = Unplanned
        BY <1>3, <1>8, <2>3, <3>1, <4>2
      <4>4. pend'[v] = pend[v]
        BY <1>7, <4>3
      <4> QED
        BY <1>3, <1>4, <1>9, <2>3, <3>1, <4>4 DEF SetInv, PendInv
    <3>2. CASE i = N + 1
      <4>1. over[v] # Unplanned
        <5> SUFFICES ASSUME over[v] = Unplanned PROVE FALSE
          OBVIOUS
        <5>1. pend[v] # Unplanned /\ pend[v].seq = pendSeq + 1
          BY <1>3, <1>6, <1>7, <2>3, <3>2
        <5>2. pend[v].seq <= pendSeq
          BY <1>9, <5>1 DEF SetInv, PendInv
        <5> QED
          BY <1>2, <5>1, <5>2
      <4>2. PICK n \in DOMAIN applied : applied[n].v = v /\ LastFor(applied, n)
        BY <1>1, <1>9, <4>1 DEF DraftInv
      <4>3. applied[n].to = over[v]
        BY <1>1, <1>9, <4>2 DEF DraftInv
      <4> QED
        BY <1>3, <1>6, <1>8, <3>2, <4>1, <4>2, <4>3
    <3> QED
      BY <1>2, <3>1, <3>2
  <2> QED
    BY <1>3, <2>1, <2>2, <2>3 DEF PendInv
<1>14. LookupInv'
  <2>1. size = Cardinality(acc)
    BY <1>1, <1>9 DEF DraftInv
  <2>2. ASSUME NEW v \in Values
        PROVE  /\ pend'[v] # Unplanned => (pend'[v].to # Absent <=> v \in acc)
               /\ pend'[v] = Unplanned => (entries[v] # Absent <=> v \in acc)
    <3>1. BatchLookup(v) # Absent <=> v \in acc
      BY <1>1, <1>9 DEF DraftInv
    <3>2. CASE over[v] # Unplanned
      BY <1>8, <3>1, <3>2 DEF BatchLookup
    <3>3. CASE over[v] = Unplanned
      BY <1>7, <3>1, <3>3 DEF BatchLookup, Lookup
    <3> QED
      BY <3>2, <3>3
  <2>3. entries' = entries
    BY <1>1 DEF committed
  <2> QED
    BY <1>1, <2>1, <2>2, <2>3 DEF LookupInv, Reached
<1>15. LimitInv'
  <2> SUFFICES ASSUME Limit > 0
               PROVE  /\ pendSize' <= Cap'
                      /\ \A i \in DOMAIN flight' : Live(i)' => Cardinality(flight'[i].hash) <= Cap'
                      /\ Cardinality(hash') <= Cap'
    BY <1>1 DEF LimitInv
  <2>1. Cap' = Cap /\ hash' = hash
    BY <1>1 DEF Cap, committed
  <2>2. size <= Cap /\ size = Cardinality(acc) /\ Cardinality(hash) <= Cap
    BY <1>1, <1>9 DEF SetInv, LimitInv, DraftInv
  <2>3. ASSUME NEW i \in 1..(N + 1), Live(i)'
        PROVE  Cardinality(flight'[i].hash) <= Cap
    <3>1. CASE i \in 1..N
      BY <1>3, <1>4, <1>9, <2>3, <3>1 DEF SetInv, LimitInv
    <3>2. CASE i = N + 1
      BY <1>3, <1>6, <2>2, <3>2
    <3> QED
      BY <1>2, <3>1, <3>2
  <2> QED
    BY <1>1, <1>3, <2>1, <2>2, <2>3
<1>16. /\ CommitInv' /\ DraftInv' /\ ExpiryTracked' /\ HeapInv'
  BY <1>1, <1>9 DEF SetInv, CommitInv, DraftInv, ExpiryTracked, HeapInv, Present, committed
<1>17. SweepTakesExpired' /\ VictimInv'
  <2> SUFFICES ASSUME NEW v \in victims
               PROVE  /\ pend'[v] = Unplanned
                      /\ entries[v] # Absent /\ entries[v].exp > 0 /\ entries[v].exp <= now
                      /\ \A i \in 1..(N + 1) : Live(i)' => ~Touches(flight'[i].deltas, v)
    BY <1>1, <1>3 DEF SweepTakesExpired, VictimInv, committed
  <2>1. v \in Values /\ ~Touches(applied, v)
    BY <1>1, <1>9 DEF TypeOK, SetInv, VictimInv
  <2>2. over[v] = Unplanned
    BY <1>1, <1>9, <2>1 DEF DraftInv
  <2>3. ASSUME NEW i \in 1..(N + 1), Live(i)'
        PROVE  ~Touches(flight'[i].deltas, v)
    <3>1. CASE i \in 1..N
      BY <1>3, <1>4, <1>9, <2>3, <3>1 DEF SetInv, VictimInv
    <3>2. CASE i = N + 1
      BY <1>3, <1>6, <2>1, <3>2
    <3> QED
      BY <1>2, <3>1, <3>2
  <2> QED
    BY <1>7, <1>9, <2>1, <2>2, <2>3 DEF SetInv, SweepTakesExpired
<1> QED
  BY <1>11, <1>12, <1>13, <1>14, <1>15, <1>16, <1>17 DEF SetInv

(* Starting to commit the oldest plan preserves the invariant. *)
LEMMA CommitBeginStep ==
  ASSUME TypeOK, SetInv, CommitBegin
  PROVE  SetInv'
<1>1. /\ UNCHANGED <<committed, pending, draft, flight, victims, now, loaded>>
      /\ mu = "free" /\ mu' = "commit" /\ done' = 0
      /\ flight # <<>> /\ Head(flight).gen = gen
  BY DEF CommitBegin
<1>2. Head(flight) = flight[1] /\ Head(flight).deltas \in Seq(Delta)
  BY <1>1, HeadPlanType
<1>3. Live(1)
  BY <1>1, <1>2 DEF Live
<1> USE DEF SetInv, committed, pending
<1>4. FlightInv'
  BY <1>1, <1>2, <1>3 DEF FlightInv, Live, LastLive, FirstLive
<1>5. ChainInv'
  BY <1>1 DEF ChainInv, HashIsContent, Link, Live, LastLive, FirstLive
<1>6. \A v \in Values : ~Reached(v) /\ ~Reached(v)'
  BY <1>1 DEF Reached
<1>7. PendInv'
  BY <1>1, <1>6 DEF PendInv, Live
<1>8. LookupInv'
  BY <1>1, <1>6 DEF LookupInv
<1>9. CommitInv' /\ DraftInv' /\ ExpiryTracked' /\ HeapInv'
  BY <1>1 DEF CommitInv, DraftInv, ExpiryTracked, HeapInv
<1>10. LimitInv' /\ SweepTakesExpired' /\ VictimInv'
  BY <1>1 DEF LimitInv, Cap, Live, SweepTakesExpired, VictimInv
<1> QED
  BY <1>4, <1>5, <1>7, <1>8, <1>9, <1>10

(* The last delta of a plan for a value is unique. *)
LEMMA LastForUnique ==
  ASSUME NEW s \in Seq(Delta), NEW m \in DOMAIN s, NEW n \in DOMAIN s,
         LastFor(s, m), LastFor(s, n), s[m].v = s[n].v
  PROVE  m = n
<1>1. m \in Nat /\ n \in Nat
  OBVIOUS
<1>2. ~(m > n) /\ ~(n > m)
  BY DEF LastFor
<1> QED
  BY <1>1, <1>2

(***************************************************************************)
(* While a Commit is under way its plan is live, hence every plan is; the  *)
(* plans are numbered upwards.                                             *)
(***************************************************************************)
LEMMA CommitFlight ==
  ASSUME TypeOK, SetInv, mu = "commit"
  PROVE  /\ flight # <<>> /\ Head(flight) = flight[1] /\ 1 \in DOMAIN flight
         /\ done \in Nat /\ done <= Len(Head(flight).deltas)
         /\ \A i \in DOMAIN flight : Live(i) /\ (FirstLive(i) <=> i = 1)
         /\ \A i \in DOMAIN flight : flight[i].seq = flight[1].seq + (i - 1)
         /\ flight[1].seq = seq + 1 /\ flight[1].seq = pendSeq - (Len(flight) - 1)
         /\ LastLive
<1>1. flight # <<>> /\ Live(1) /\ done <= Len(Head(flight).deltas)
  BY DEF SetInv, FlightInv
<1>2. Head(flight) = flight[1] /\ 1 \in DOMAIN flight
  BY <1>1, HeadPlanType
<1>3. done \in Nat /\ flight \in Seq(Plan) /\ pendSeq \in Nat
  BY DEF TypeOK
<1>4. \A i \in DOMAIN flight : Live(i)
  <2> TAKE i \in DOMAIN flight
  <2>1. i = 1 \/ 1 < i
    BY <1>3
  <2> QED
    BY <1>1, <1>2, <2>1 DEF SetInv, FlightInv
<1>5. \A i \in DOMAIN flight : FirstLive(i) <=> i = 1
  <2> TAKE i \in DOMAIN flight
  <2>1. i # 1 => i - 1 \in DOMAIN flight
    BY <1>3
  <2> QED
    BY <1>4, <2>1 DEF FirstLive
<1>6. \A i \in DOMAIN flight : flight[i].seq = pendSeq - (Len(flight) - i)
  BY <1>4 DEF SetInv, FlightInv
<1>7. \A i \in DOMAIN flight : flight[i].seq = flight[1].seq + (i - 1)
  BY <1>2, <1>3, <1>6
<1>8. flight[1].seq = seq + 1
  BY <1>2, <1>5 DEF SetInv, FlightInv
<1>9. LastLive
  BY <1>1, <1>3, <1>4 DEF LastLive
<1> QED
  BY <1>1, <1>2, <1>3, <1>4, <1>5, <1>6, <1>7, <1>8, <1>9

(* One delta of a Commit: contents, hash, pending changes and heap move together. *)
LEMMA CommitDeltaStep ==
  ASSUME TypeOK, SetInv, CommitDelta
  PROVE  SetInv'
<1>0. PICK p \in Plan : p = flight[1] /\ p = Head(flight)
  BY HeadPlanType, CommitFlight DEF CommitDelta, Flips, OwnOutcome
<1>1. PICK k \in Nat : k = done
  BY DEF TypeOK
<1>2. PICK d \in Delta : /\ d = p.deltas[k + 1] /\ k + 1 \in DOMAIN p.deltas
                         /\ d.v \in Values /\ d.to \in Slot
  BY <1>0, <1>1, CommitDeltaType DEF CommitDelta, SetInv, Flips, OwnOutcome
<1>3. /\ UNCHANGED <<seq, pendSeq, pendHash, pendSize, gen, mu, draft, flight, victims,
                     now, loaded>>
      /\ mu = "commit" /\ k < Len(p.deltas) /\ done' = k + 1
      /\ entries' = [entries EXCEPT ![d.v] = d.to]
      /\ hash' = IF (entries[d.v] = Absent) # (d.to = Absent) THEN Toggle(hash, d.v) ELSE hash
      /\ heap' = IF /\ d.to # Absent /\ d.to.exp > 0
                    /\ entries[d.v] = Absent \/ entries[d.v].exp = 0
                                             \/ d.to.exp < entries[d.v].exp
                 THEN heap \cup {<<d.v, d.to.exp>>}
                 ELSE heap
      /\ pend' = IF pend[d.v] # Unplanned /\ pend[d.v].seq = p.seq
                 THEN [pend EXCEPT ![d.v] = Unplanned]
                 ELSE pend
  BY <1>0, <1>1, <1>2 DEF CommitDelta, Flips, OwnOutcome
<1>4. /\ entries \in [Values -> Slot] /\ hash \in SUBSET Values
      /\ pend \in [Values -> [to : Slot, seq : Nat] \cup {Unplanned}]
      /\ p.deltas \in Seq(Delta) /\ p.seq \in Nat
  BY PlanFields DEF TypeOK
<1>5. /\ entries'[d.v] = d.to
      /\ \A v \in Values : v # d.v => entries'[v] = entries[v]
  BY <1>2, <1>3, <1>4
<1>6. /\ \A v \in Values : v # d.v => pend'[v] = pend[v]
      /\ \/ pend'[d.v] = pend[d.v]
         \/ pend[d.v] # Unplanned /\ pend[d.v].seq = p.seq /\ pend'[d.v] = Unplanned
      /\ ~(pend'[d.v] # Unplanned /\ pend'[d.v].seq = p.seq)
  BY <1>2, <1>3, <1>4
<1>7. Touches(p.deltas, d.v)
  BY <1>2 DEF Touches
<1>8. \A v \in Values : /\ Reached(v) => Reached(v)'
                        /\ v = d.v => Reached(v)'
                        /\ v # d.v => (Reached(v)' <=> Reached(v))
  <2>1. 1..(k + 1) = (1..k) \cup {k + 1}
    OBVIOUS
  <2> QED
    BY <1>0, <1>1, <1>2, <1>3, <2>1 DEF Reached
<1>9. FlightInv'
  <2>1. k + 1 <= Len(Head(flight).deltas)
    BY <1>0, <1>3, <1>4
  <2> QED
    BY <1>3, <2>1 DEF SetInv, FlightInv, Live, LastLive, FirstLive
<1>10. HashIsContent'
  <2>1. hash = Present(entries)
    BY DEF SetInv, ChainInv, HashIsContent
  <2>2. ASSUME NEW v \in Values PROVE v \in hash' <=> entries'[v] # Absent
    <3>1. v \in hash <=> entries[v] # Absent
      BY <2>1 DEF Present
    <3>2. CASE v = d.v
      <4>1. CASE (entries[d.v] = Absent) <=> (d.to = Absent)
        BY <1>3, <1>5, <3>1, <3>2, <4>1
      <4>2. CASE ~((entries[d.v] = Absent) <=> (d.to = Absent))
        <5>1. hash' = Toggle(hash, d.v)
          BY <1>3, <4>2
        <5> QED
          BY <1>5, <3>1, <3>2, <4>2, <5>1 DEF Toggle
      <4> QED
        BY <4>1, <4>2
    <3>3. CASE v # d.v
      <4>1. v \in hash' <=> v \in hash
        BY <1>3, <3>3 DEF Toggle
      <4> QED
        BY <1>5, <3>1, <3>3, <4>1
    <3> QED
      BY <3>2, <3>3
  <2>3. hash' \subseteq Values
    BY <1>2, <1>3, <1>4, ToggleType
  <2> QED
    BY <2>2, <2>3 DEF HashIsContent, Present
<1>11. ChainInv'
  <2>1. Link(hash, p)
    BY <1>0, CommitFlight, <1>3 DEF SetInv, ChainInv
  <2>2. \A v \in Values : v # d.v => (v \in hash' <=> v \in hash)
    BY <1>3 DEF Toggle
  <2>3. Link(hash', p)
    BY <1>7, <2>1, <2>2 DEF Link
  <2>4. ASSUME NEW i \in DOMAIN flight
        PROVE  /\ FirstLive(i) => Link(hash', flight[i])
               /\ Live(i) /\ i > 1 /\ Live(i - 1) => Link(flight[i - 1].hash, flight[i])
    BY <1>0, <1>3, <2>3, CommitFlight DEF SetInv, ChainInv
  <2>5. pendHash = flight[Len(flight)].hash /\ LastLive
    BY <1>3, CommitFlight DEF SetInv, ChainInv
  <2> QED
    BY <1>3, <1>10, <2>4, <2>5 DEF ChainInv, Live, FirstLive, LastLive, Link
<1>12. PendInv'
  <2>1. ASSUME NEW v \in Values, pend'[v] # Unplanned PROVE pend'[v].seq <= pendSeq
    BY <1>6, <2>1 DEF SetInv, PendInv
  <2>2. ASSUME NEW i \in DOMAIN flight, NEW v \in Values, Touches(flight[i].deltas, v)
        PROVE  \/ pend'[v] # Unplanned /\ pend'[v].seq >= flight[i].seq
               \/ i = 1 /\ Reached(v)'
    <3>1. \/ pend[v] # Unplanned /\ pend[v].seq >= flight[i].seq
          \/ i = 1 /\ Reached(v)
      BY <1>3, <2>2, CommitFlight DEF SetInv, PendInv
    <3>2. CASE pend'[v] = pend[v]
      BY <1>8, <3>1, <3>2
    <3>3. CASE pend'[v] # pend[v]
      <4>1. v = d.v /\ pend[v].seq = p.seq
        BY <1>6, <3>3
      <4>2. i \in Nat /\ i >= 1 /\ flight[i].seq = p.seq + (i - 1)
        <5>1. i \in Nat /\ i >= 1
          BY DEF TypeOK
        <5>2. flight[i].seq = p.seq + (i - 1)
          BY <1>0, <1>3, CommitFlight
        <5> QED
          BY <5>1, <5>2
      <4>3. i # 1 => ~(p.seq >= flight[i].seq)
        BY <1>4, <4>2
      <4> QED
        BY <1>8, <3>1, <4>1, <4>3
    <3> QED
      BY <3>2, <3>3
  <2>3. ASSUME NEW i \in DOMAIN flight, NEW v \in Values,
               pend'[v] # Unplanned, pend'[v].seq = flight[i].seq
        PROVE  \E n \in DOMAIN flight[i].deltas :
                 /\ flight[i].deltas[n].v = v
                 /\ LastFor(flight[i].deltas, n)
                 /\ flight[i].deltas[n].to = pend'[v].to
    <3>1. pend'[v] = pend[v]
      BY <1>6, <2>3
    <3> QED
      BY <1>3, <2>3, <3>1, CommitFlight DEF SetInv, PendInv
  <2> QED
    BY <1>3, <2>1, <2>2, <2>3 DEF PendInv
<1>13. LookupInv'
  <2>1. ASSUME NEW v \in Values
        PROVE  /\ pend'[v] # Unplanned => (pend'[v].to # Absent <=> v \in pendHash)
               /\ pend'[v] = Unplanned /\ ~Reached(v)' => (entries'[v] # Absent <=> v \in pendHash)
               /\ pend'[v] = Unplanned /\ Reached(v)' =>
                    \A n \in DOMAIN p.deltas :
                      LastFor(p.deltas, n) /\ p.deltas[n].v = v =>
                        (p.deltas[n].to # Absent <=> v \in pendHash)
    <3>1. /\ pend[v] # Unplanned => (pend[v].to # Absent <=> v \in pendHash)
          /\ pend[v] = Unplanned /\ ~Reached(v) => (entries[v] # Absent <=> v \in pendHash)
          /\ pend[v] = Unplanned /\ Reached(v) =>
               \A n \in DOMAIN p.deltas :
                 LastFor(p.deltas, n) /\ p.deltas[n].v = v =>
                   (p.deltas[n].to # Absent <=> v \in pendHash)
      BY <1>0 DEF SetInv, LookupInv
    <3>2. CASE v # d.v
      BY <1>5, <1>6, <1>8, <3>1, <3>2
    <3>3. CASE v = d.v /\ pend[v] = Unplanned
      <4>1. Reached(v)
        BY <1>0, <1>3, <1>7, <3>3, CommitFlight DEF SetInv, PendInv
      <4> QED
        BY <1>6, <1>8, <3>1, <3>3, <4>1
    <3>4. CASE v = d.v /\ pend[v] # Unplanned /\ pend'[v] = pend[v]
      BY <3>1, <3>4
    <3>5. CASE v = d.v /\ pend[v] # Unplanned /\ pend'[v] # pend[v]
      <4>1. pend'[v] = Unplanned /\ pend[v].seq = p.seq /\ Reached(v)'
        BY <1>6, <1>8, <3>5
      <4>2. PICK m \in DOMAIN p.deltas : /\ p.deltas[m].v = v
                                         /\ LastFor(p.deltas, m)
                                         /\ p.deltas[m].to = pend[v].to
        BY <1>0, <1>3, <3>5, <4>1, CommitFlight DEF SetInv, PendInv
      <4>3. ASSUME NEW n \in DOMAIN p.deltas, LastFor(p.deltas, n), p.deltas[n].v = v
            PROVE  p.deltas[n].to # Absent <=> v \in pendHash
        <5>1. n = m
          BY <1>4, <4>2, <4>3, LastForUnique
        <5> QED
          BY <3>1, <3>5, <4>2, <5>1
      <4> QED
        BY <4>1, <4>3
    <3> QED
      BY <3>2, <3>3, <3>4, <3>5
  <2>2. pendSize = Cardinality(pendHash)
    BY DEF SetInv, LookupInv
  <2> QED
    BY <1>0, <1>3, <2>1, <2>2 DEF LookupInv
<1>14. CommitInv'
  <2> SUFFICES ASSUME NEW n \in 1..(k + 1),
                      \A m \in 1..(k + 1) : m > n => p.deltas[m].v # p.deltas[n].v
               PROVE  entries'[p.deltas[n].v] = p.deltas[n].to
    BY <1>0, <1>3 DEF CommitInv
  <2>1. CASE n = k + 1
    BY <1>2, <1>5, <2>1
  <2>2. CASE n # k + 1
    <3>1. n \in 1..k /\ k + 1 > n /\ k + 1 \in 1..(k + 1)
      BY <2>2
    <3>2. p.deltas[n].v # d.v
      BY <1>2, <3>1
    <3>3. \A m \in 1..k : m > n => p.deltas[m].v # p.deltas[n].v
      OBVIOUS
    <3>4. entries[p.deltas[n].v] = p.deltas[n].to
      BY <1>0, <1>1, <1>3, <3>1, <3>3 DEF SetInv, CommitInv
    <3>5. p.deltas[n].v \in Values
      BY <1>3, <1>4, <3>1, DeltaFields
    <3> QED
      BY <1>5, <3>2, <3>4, <3>5
  <2> QED
    BY <2>1, <2>2
<1>15. ExpiryTracked' /\ HeapInv'
  <2>1. heap \subseteq heap' /\ HeapInv'
    BY <1>3 DEF SetInv, HeapInv
  <2>2. ASSUME NEW v \in Values, entries'[v] # Absent, entries'[v].exp > 0
        PROVE  \E it \in heap' : it[1] = v /\ it[2] <= entries'[v].exp
    <3>1. CASE v # d.v
      <4>1. entries'[v] = entries[v]
        BY <1>5, <3>1
      <4>2. \E it \in heap : it[1] = v /\ it[2] <= entries[v].exp
        BY <2>2, <4>1 DEF SetInv, ExpiryTracked, Present
      <4> QED
        BY <2>1, <4>1, <4>2
    <3>2. CASE v = d.v /\ heap' = heap \cup {<<d.v, d.to.exp>>}
      <4> DEFINE item == <<d.v, d.to.exp>>
      <4>1. item \in heap'
        BY <3>2
      <4>2. d.to.exp \in Nat
        BY <1>2, <1>5, <2>2, <3>2, EntryFields
      <4>3. item[1] = v /\ item[2] <= entries'[v].exp
        BY <1>5, <3>2, <4>2
      <4> HIDE DEF item
      <4> QED
        BY <4>1, <4>3
    <3>3. CASE v = d.v /\ heap' # heap \cup {<<d.v, d.to.exp>>}
      <4>1. entries[v] # Absent /\ entries[v].exp # 0 /\ ~(d.to.exp < entries[v].exp)
        BY <1>3, <1>5, <2>2, <3>3
      <4>2. entries[v].exp \in Nat /\ d.to.exp \in Nat
        BY <1>2, <1>4, <1>5, <2>2, <3>3, <4>1, EntryFields
      <4>3. PICK it \in heap : it[1] = v /\ it[2] <= entries[v].exp
        BY <4>1, <4>2 DEF SetInv, ExpiryTracked, Present
      <4>4. it[2] \in Nat
        BY SetAssumption DEF TypeOK
      <4>5. it[2] <= entries'[v].exp
        BY <1>5, <3>3, <4>1, <4>2, <4>3, <4>4
      <4> QED
        BY <2>1, <4>3, <4>5
    <3> QED
      BY <3>1, <3>2, <3>3
  <2> QED
    BY <2>1, <2>2 DEF ExpiryTracked, Present
<1>16. LimitInv' /\ DraftInv'
  BY <1>3 DEF SetInv, LimitInv, DraftInv, Cap, Live
<1>17. SweepTakesExpired' /\ VictimInv'
  <2>1. ASSUME NEW v \in victims
        PROVE  v \in Values /\ v # d.v
    BY <1>0, <1>3, <1>7, CommitFlight DEF SetInv, VictimInv, TypeOK
  <2>2. SweepTakesExpired'
    BY <1>3, <1>5, <1>6, <2>1 DEF SetInv, SweepTakesExpired
  <2>3. VictimInv'
    BY <1>3 DEF SetInv, VictimInv, Live
  <2> QED
    BY <2>2, <2>3
<1> QED
  BY <1>9, <1>11, <1>12, <1>13, <1>14, <1>15, <1>16, <1>17 DEF SetInv

(* What indexing the rest of the flight means. *)
LEMMA TailFlight ==
  ASSUME TypeOK, flight # <<>>, flight' = Tail(flight)
  PROVE  /\ Len(flight') = Len(flight) - 1 /\ DOMAIN flight' = 1..(Len(flight) - 1)
         /\ \A i \in DOMAIN flight' : /\ i \in Nat /\ i >= 1
                                      /\ i + 1 \in DOMAIN flight /\ flight'[i] = flight[i + 1]
         /\ flight' = <<>> <=> Len(flight) = 1
<1>1. flight \in Seq(Plan) /\ Len(flight) \in Nat /\ Len(flight) >= 1
  <2>1. flight \in Seq(Plan) /\ Len(flight) \in Nat
    BY DEF TypeOK
  <2>2. Len(flight) # 0
    BY <2>1
  <2> QED
    BY <2>1, <2>2
<1>2. /\ flight' \in Seq(Plan) /\ Len(flight') = Len(flight) - 1
      /\ DOMAIN flight' = 1..(Len(flight) - 1)
  BY <1>1
<1>3. ASSUME NEW i \in 1..(Len(flight) - 1)
      PROVE  i \in Nat /\ i >= 1 /\ i + 1 \in DOMAIN flight /\ flight'[i] = flight[i + 1]
  BY <1>1
<1>4. flight' = <<>> <=> Len(flight) = 1
  <2>1. flight' = <<>> => Len(flight') = 0
    OBVIOUS
  <2>2. Len(flight') = 0 => flight' = <<>>
    BY <1>2
  <2> QED
    BY <1>1, <1>2, <2>1, <2>2
<1> QED
  BY <1>2, <1>3, <1>4

(***************************************************************************)
(* When every delta of the plan is applied, the contents have the hash the *)
(* plan announced: values the plan does not touch have not changed, and    *)
(* the last delta for each value it touches is what the contents hold.     *)
(***************************************************************************)
LEMMA CommitReachesPlan ==
  ASSUME TypeOK, SetInv, mu = "commit", done = Len(Head(flight).deltas)
  PROVE  hash = Head(flight).hash
<1> DEFINE p == Head(flight)
<1>1. p \in Plan /\ p = flight[1] /\ p.deltas \in Seq(Delta) /\ p.hash \in SUBSET Values
  BY CommitFlight, HeadPlanType
<1>2. Link(hash, p)
  BY <1>1, CommitFlight DEF SetInv, ChainInv
<1>3. hash = Present(entries)
  BY DEF SetInv, ChainInv, HashIsContent
<1>4. 1..done = DOMAIN p.deltas
  BY <1>1
<1>5. ASSUME NEW v \in Values PROVE v \in hash <=> v \in p.hash
  <2>1. CASE Touches(p.deltas, v)
    <3>1. PICK n \in DOMAIN p.deltas : p.deltas[n].v = v /\ LastFor(p.deltas, n)
      BY <1>1, <2>1, CommitFlight DEF SetInv, FlightInv
    <3>2. entries[v] = p.deltas[n].to
      BY <1>4, <3>1 DEF SetInv, CommitInv, LastFor
    <3>3. v \in p.hash <=> p.deltas[n].to # Absent
      BY <1>2, <3>1 DEF Link
    <3> QED
      BY <1>3, <3>2, <3>3 DEF Present
  <2>2. CASE ~Touches(p.deltas, v)
    BY <1>2, <2>2 DEF Link
  <2> QED
    BY <2>1, <2>2
<1> QED
  BY <1>1, <1>3, <1>5 DEF Present

(***************************************************************************)
(* The end of a Commit.  Resetting the pending numbers when nothing is     *)
(* pending changes nothing: no other plan can be in flight then.           *)
(***************************************************************************)
LEMMA CommitEndStep ==
  ASSUME TypeOK, SetInv, CommitEnd
  PROVE  SetInv'
<1>0. PICK p \in Plan : p = flight[1] /\ p = Head(flight) /\ 1 \in DOMAIN flight
  BY HeadPlanType, CommitFlight DEF CommitEnd
<1>1. /\ UNCHANGED <<entries, hash, heap, pend, gen, draft, victims, now, loaded>>
      /\ mu = "commit" /\ done = Len(p.deltas) /\ mu' = "free"
      /\ seq' = p.seq /\ flight' = Tail(flight)
  BY <1>0 DEF CommitEnd
<1>2. /\ flight \in Seq(Plan) /\ flight # <<>> /\ Len(flight) \in Nat /\ pendSeq \in Nat
      /\ p.deltas \in Seq(Delta) /\ p.seq \in Nat
  BY <1>1, CommitFlight, PlanFields DEF TypeOK
<1>3. hash = p.hash
  BY <1>0, <1>1, CommitReachesPlan
<1>4. hash = Present(entries)
  BY DEF SetInv, ChainInv, HashIsContent
<1>5. pend = NothingPlanned => Len(flight) = 1
  <2> SUFFICES ASSUME pend = NothingPlanned, Len(flight) # 1 PROVE FALSE
    OBVIOUS
  <2>1. 2 \in DOMAIN flight /\ Live(2)
    <3>1. Len(flight) # 0 /\ DOMAIN flight = 1..Len(flight)
      BY <1>2
    <3>2. 2 \in DOMAIN flight
      BY <1>2, <3>1
    <3> QED
      BY <1>1, <3>2, CommitFlight
  <2>2. flight[2].deltas \in Seq(Delta) /\ flight[2].deltas # <<>>
    BY <1>2, <2>1, PlanFields DEF SetInv, FlightInv
  <2>3. 1 \in DOMAIN flight[2].deltas /\ flight[2].deltas[1].v \in Values
    BY <2>2, DeltaFields
  <2>4. pend[flight[2].deltas[1].v] # Unplanned
    BY <2>1, <2>3 DEF SetInv, PendInv, Touches
  <2> QED
    BY <2>3, <2>4 DEF NothingPlanned
<1>6. pendHash = IF LastLive THEN flight[Len(flight)].hash ELSE hash
  BY DEF SetInv, ChainInv
<1>7. pendSeq' = pendSeq /\ pendHash' = pendHash /\ pendSize' = pendSize
  <2>1. CASE pend = NothingPlanned
    <3>1. pendHash = hash /\ pendSeq = p.seq
      BY <1>0, <1>1, <1>2, <1>3, <1>5, <1>6, <2>1, CommitFlight
    <3>2. pendSize = Cardinality(Present(entries))
      BY <1>4, <3>1 DEF SetInv, LookupInv
    <3>3. pendSeq' = p.seq /\ pendHash' = hash /\ pendSize' = Cardinality(Present(entries))
      BY <1>0, <2>1 DEF CommitEnd
    <3> QED
      BY <3>1, <3>2, <3>3
  <2>2. CASE pend # NothingPlanned
    BY <2>2 DEF CommitEnd
  <2> QED
    BY <2>1, <2>2
<1>8. /\ Len(flight') = Len(flight) - 1 /\ DOMAIN flight' = 1..(Len(flight) - 1)
      /\ \A i \in DOMAIN flight' : /\ i \in Nat /\ i >= 1
                                   /\ i + 1 \in DOMAIN flight /\ flight'[i] = flight[i + 1]
      /\ flight' = <<>> <=> Len(flight) = 1
  BY <1>1, <1>2, TailFlight
<1>9. \A i \in DOMAIN flight' : Live(i)' /\ Live(i + 1) /\ (i = 1 \/ i - 1 \in DOMAIN flight')
  <2> TAKE i \in DOMAIN flight'
  <2>1. i = 1 \/ i - 1 \in DOMAIN flight'
    BY <1>2, <1>8
  <2>2. Live(i + 1)
    BY <1>1, <1>8, CommitFlight
  <2>3. Live(i)'
    BY <1>1, <1>8, <2>2 DEF Live
  <2> QED
    BY <2>1, <2>2, <2>3
<1>10. \A i \in DOMAIN flight' : FirstLive(i)' <=> i = 1
  BY <1>9 DEF FirstLive
<1>11. LastLive' <=> Len(flight) # 1
  <2>1. Len(flight) # 1 => Len(flight') \in DOMAIN flight'
    BY <1>2, <1>8
  <2> QED
    BY <1>8, <1>9, <2>1 DEF LastLive
<1>12. FlightInv'
  <2>1. ASSUME NEW i \in DOMAIN flight'
        PROVE  /\ flight'[i].gen <= gen
               /\ flight'[i].deltas # <<>>
               /\ flight'[i].seq = pendSeq - (Len(flight') - i)
               /\ i = 1 => flight'[i].seq = seq' + 1
               /\ \A v \in Values : Touches(flight'[i].deltas, v) =>
                    \E n \in DOMAIN flight'[i].deltas :
                      flight'[i].deltas[n].v = v /\ LastFor(flight'[i].deltas, n)
    <3>1. flight[i + 1].seq = pendSeq - (Len(flight) - (i + 1))
      BY <1>8, <1>9 DEF SetInv, FlightInv
    <3>2. flight[i + 1].seq = p.seq + ((i + 1) - 1)
      BY <1>0, <1>1, <1>8, CommitFlight
    <3>3. pendSeq - (Len(flight) - (i + 1)) = pendSeq - (Len(flight') - i)
      BY <1>2, <1>8
    <3>4. i = 1 => flight[i + 1].seq = seq' + 1
      BY <1>1, <1>2, <3>2
    <3> QED
      BY <1>8, <3>1, <3>3, <3>4 DEF SetInv, FlightInv
  <2>2. ~LastLive' => pendSeq = seq'
    BY <1>0, <1>1, <1>2, <1>11, CommitFlight
  <2> QED
    BY <1>1, <1>7, <1>9, <1>10, <2>1, <2>2 DEF FlightInv
<1>13. ChainInv'
  <2>1. ASSUME NEW i \in DOMAIN flight'
        PROVE  /\ i = 1 => Link(hash, flight'[i])
               /\ i > 1 => Link(flight'[i - 1].hash, flight'[i])
    <3>1. /\ Live(i + 1) /\ i + 1 \in DOMAIN flight /\ i + 1 > 1 /\ (i + 1) - 1 = i
          /\ i \in DOMAIN flight /\ Live(i)
      BY <1>1, <1>2, <1>8, <1>9, CommitFlight
    <3>2. Link(flight[i].hash, flight[i + 1])
      BY <3>1 DEF SetInv, ChainInv
    <3>3. i > 1 => flight'[i - 1] = flight[i]
      <4>1. i > 1 => i - 1 \in DOMAIN flight' /\ (i - 1) + 1 = i
        BY <1>8, <1>9
      <4> QED
        BY <1>8, <4>1
    <3> QED
      BY <1>0, <1>3, <1>8, <3>2, <3>3
  <2>2. pendHash = IF LastLive' THEN flight'[Len(flight')].hash ELSE hash
    <3>1. CASE Len(flight) = 1
      BY <1>0, <1>1, <1>3, <1>6, <1>11, <3>1
    <3>2. CASE Len(flight) # 1
      <4>1. Len(flight') \in DOMAIN flight' /\ Len(flight') + 1 = Len(flight)
        BY <1>2, <1>8, <3>2
      <4> QED
        BY <1>1, <1>6, <1>8, <1>11, <3>2, <4>1, CommitFlight
    <3> QED
      BY <3>1, <3>2
  <2>3. HashIsContent'
    BY <1>1, <1>4 DEF HashIsContent, Present
  <2> QED
    BY <1>1, <1>7, <1>10, <2>1, <2>2, <2>3 DEF ChainInv, Link
<1>14. PendInv'
  <2>1. ASSUME NEW i \in DOMAIN flight', NEW v \in Values
        PROVE  /\ Touches(flight'[i].deltas, v) =>
                    pend[v] # Unplanned /\ pend[v].seq >= flight'[i].seq
               /\ pend[v] # Unplanned /\ pend[v].seq = flight'[i].seq =>
                    \E n \in DOMAIN flight'[i].deltas :
                      /\ flight'[i].deltas[n].v = v
                      /\ LastFor(flight'[i].deltas, n)
                      /\ flight'[i].deltas[n].to = pend[v].to
    <3>1. Live(i + 1) /\ i + 1 \in DOMAIN flight /\ i + 1 # 1 /\ flight'[i] = flight[i + 1]
      BY <1>8, <1>9
    <3> QED
      BY <3>1 DEF SetInv, PendInv
  <2> QED
    BY <1>1, <1>7, <2>1 DEF SetInv, PendInv
<1>15. LookupInv'
  <2>1. ASSUME NEW v \in Values, pend[v] = Unplanned
        PROVE  entries[v] # Absent <=> v \in pendHash
    <3>1. CASE ~Reached(v)
      BY <2>1, <3>1 DEF SetInv, LookupInv
    <3>2. CASE Reached(v)
      <4>1. Touches(p.deltas, v)
        BY <1>0, <1>1, <1>2, <3>2 DEF Reached, Touches
      <4>2. PICK n \in DOMAIN p.deltas : p.deltas[n].v = v /\ LastFor(p.deltas, n)
        BY <1>0, <4>1 DEF SetInv, FlightInv
      <4>3. p.deltas[n].to # Absent <=> v \in pendHash
        BY <1>0, <2>1, <3>2, <4>2 DEF SetInv, LookupInv
      <4>4. 1..done = DOMAIN p.deltas
        BY <1>1, <1>2
      <4>5. entries[v] = p.deltas[n].to
        BY <1>0, <1>1, <4>2, <4>4 DEF SetInv, CommitInv, LastFor
      <4> QED
        BY <4>3, <4>5
    <3> QED
      BY <3>1, <3>2
  <2> QED
    BY <1>1, <1>7, <2>1 DEF SetInv, LookupInv, Reached
<1>16. LimitInv'
  <2>1. Limit > 0 => Cardinality(hash) <= Cap
    BY <1>0, <1>1, <1>3, CommitFlight DEF SetInv, LimitInv
  <2>2. Limit > 0 => \A i \in DOMAIN flight' : Cardinality(flight'[i].hash) <= Cap
    BY <1>8, <1>9 DEF SetInv, LimitInv
  <2> QED
    BY <1>1, <1>7, <2>1, <2>2 DEF SetInv, LimitInv, Cap
<1>17. CommitInv' /\ DraftInv' /\ ExpiryTracked' /\ HeapInv' /\ SweepTakesExpired'
  BY <1>1 DEF SetInv, CommitInv, DraftInv, ExpiryTracked, Present, HeapInv, SweepTakesExpired
<1>18. VictimInv'
  BY <1>1, <1>8, <1>9 DEF SetInv, VictimInv
<1> QED
  BY <1>12, <1>13, <1>14, <1>15, <1>16, <1>17, <1>18 DEF SetInv

(* Abort: no plan in flight belongs to the new generation. *)
LEMMA AbortStep ==
  ASSUME TypeOK, SetInv, Abort
  PROVE  SetInv'
<1>1. /\ UNCHANGED <<committed, draft, done, victims, now, loaded>>
      /\ mu = "free" /\ mu' = "free" /\ flight # <<>> /\ flight' = Tail(flight)
      /\ gen' = gen + 1 /\ pend' = NothingPlanned /\ pendSeq' = seq
      /\ pendHash' = hash /\ pendSize' = Cardinality(Present(entries))
  BY DEF Abort, Settle
<1>2. /\ DOMAIN flight' = 1..(Len(flight) - 1) /\ Len(flight) \in Nat
      /\ \A i \in DOMAIN flight' : i + 1 \in DOMAIN flight /\ flight'[i] = flight[i + 1]
      /\ gen \in Nat
  BY <1>1, TailFlight DEF TypeOK
<1>3. \A i \in DOMAIN flight' : flight'[i].gen <= gen /\ flight'[i].gen \in Nat
  <2> TAKE i \in DOMAIN flight'
  <2>1. flight[i + 1] \in Plan /\ flight[i + 1].gen <= gen
    BY <1>2 DEF TypeOK, SetInv, FlightInv
  <2> QED
    BY <1>2, <2>1, PlanFields
<1>4. \A i \in DOMAIN flight' : ~Live(i)' /\ ~FirstLive(i)'
  BY <1>1, <1>2, <1>3 DEF Live, FirstLive
<1>5. ~LastLive'
  <2>1. flight' # <<>> => Len(flight') \in DOMAIN flight'
    BY <1>1 DEF TypeOK
  <2> QED
    BY <1>4, <2>1 DEF LastLive
<1>6. /\ seq' = seq /\ hash' = hash /\ entries' = entries /\ heap' = heap
      /\ \A v \in Values : pend'[v] = Unplanned /\ ~Reached(v)'
  BY <1>1 DEF committed, NothingPlanned, Reached
<1>7. hash = Present(entries)
  BY DEF SetInv, ChainInv, HashIsContent
<1>8. FlightInv'
  <2>1. ASSUME NEW i \in DOMAIN flight'
        PROVE  /\ flight'[i].gen <= gen'
               /\ flight'[i].deltas # <<>>
               /\ \A v \in Values : Touches(flight'[i].deltas, v) =>
                    \E n \in DOMAIN flight'[i].deltas :
                      flight'[i].deltas[n].v = v /\ LastFor(flight'[i].deltas, n)
    <3>1. flight'[i].gen <= gen'
      BY <1>1, <1>2, <1>3
    <3> QED
      BY <1>2, <3>1 DEF SetInv, FlightInv
  <2> QED
    BY <1>1, <1>4, <1>6, <2>1 DEF FlightInv
<1>9. ChainInv'
  BY <1>1, <1>4, <1>5, <1>6, <1>7 DEF ChainInv, HashIsContent, Present
<1>10. PendInv'
  BY <1>4, <1>6 DEF PendInv
<1>11. LookupInv'
  BY <1>1, <1>6, <1>7 DEF LookupInv, Present
<1>12. LimitInv'
  BY <1>1, <1>4, <1>6, <1>7 DEF SetInv, LimitInv, Cap
<1>13. CommitInv' /\ DraftInv' /\ ExpiryTracked' /\ HeapInv'
  BY <1>1, <1>6 DEF SetInv, CommitInv, DraftInv, ExpiryTracked, Present, HeapInv
<1>14. SweepTakesExpired' /\ VictimInv'
  BY <1>1, <1>4, <1>6 DEF SetInv, SweepTakesExpired, VictimInv, TypeOK
<1> QED
  BY <1>8, <1>9, <1>10, <1>11, <1>12, <1>13, <1>14 DEF SetInv

(* Refusing a void plan drops nothing that counts. *)
LEMMA SkipStaleStep ==
  ASSUME TypeOK, SetInv, SkipStale
  PROVE  SetInv'
<1>1. /\ UNCHANGED <<committed, pending, draft, done, victims, now, loaded>>
      /\ mu = "free" /\ mu' = "free" /\ flight # <<>> /\ flight' = Tail(flight)
      /\ Head(flight).gen # gen
  BY DEF SkipStale
<1>2. ~Live(1) /\ flight \in Seq(Plan) /\ Len(flight) \in Nat /\ pendSeq \in Nat
  BY <1>1, HeadPlanType DEF Live, TypeOK
<1>3. /\ Len(flight') = Len(flight) - 1 /\ DOMAIN flight' = 1..(Len(flight) - 1)
      /\ \A i \in DOMAIN flight' : /\ i \in Nat /\ i >= 1
                                   /\ i + 1 \in DOMAIN flight /\ flight'[i] = flight[i + 1]
      /\ flight' = <<>> <=> Len(flight) = 1
  BY <1>1, TailFlight
<1>4. /\ seq' = seq /\ hash' = hash /\ entries' = entries /\ heap' = heap /\ pend' = pend
      /\ pendSeq' = pendSeq /\ pendHash' = pendHash /\ pendSize' = pendSize /\ gen' = gen
      /\ \A v \in Values : ~Reached(v)' /\ ~Reached(v)
  BY <1>1 DEF committed, pending, Reached
<1>5. \A i \in DOMAIN flight' : Live(i)' <=> Live(i + 1)
  BY <1>3, <1>4 DEF Live
<1>6. ASSUME NEW i \in DOMAIN flight'
      PROVE  /\ i > 1 => i - 1 \in DOMAIN flight' /\ flight'[i - 1] = flight[i]
                         /\ (Live(i - 1)' <=> Live(i))
             /\ FirstLive(i)' <=> FirstLive(i + 1)
             /\ i + 1 > 1 /\ (i + 1) - 1 = i /\ i + 1 # 1
  <2>1. i + 1 > 1 /\ (i + 1) - 1 = i /\ i + 1 # 1 /\ (i = 1 \/ i > 1)
    BY <1>3
  <2>2. i > 1 => i - 1 \in DOMAIN flight' /\ (i - 1) + 1 = i
    BY <1>2, <1>3
  <2>3. i > 1 => flight'[i - 1] = flight[i] /\ (Live(i - 1)' <=> Live(i))
    BY <1>3, <1>5, <2>2
  <2>4. FirstLive(i)' <=> FirstLive(i + 1)
    BY <1>2, <1>5, <2>1, <2>3 DEF FirstLive
  <2> QED
    BY <2>1, <2>2, <2>3, <2>4
<1>7. LastLive' <=> LastLive
  <2>1. CASE Len(flight) = 1
    BY <1>2, <1>3, <2>1 DEF LastLive
  <2>2. CASE Len(flight) # 1
    <3>1. Len(flight') \in DOMAIN flight' /\ Len(flight') + 1 = Len(flight)
      BY <1>1, <1>2, <1>3, <2>2
    <3>2. PICK n \in DOMAIN flight' : n = Len(flight')
      BY <3>1
    <3>3. LastLive' <=> Live(n)'
      BY <1>3, <2>2, <3>2 DEF LastLive, Live
    <3>4. LastLive <=> Live(n + 1)
      BY <1>1, <3>1, <3>2 DEF LastLive
    <3> QED
      BY <1>5, <3>2, <3>3, <3>4
  <2> QED
    BY <2>1, <2>2
<1>8. FlightInv'
  <2>1. ASSUME NEW i \in DOMAIN flight'
        PROVE  /\ flight'[i].gen <= gen
               /\ flight'[i].deltas # <<>>
               /\ Live(i + 1) => flight'[i].seq = pendSeq - (Len(flight') - i)
               /\ FirstLive(i + 1) => flight'[i].seq = seq + 1
               /\ \A v \in Values : Touches(flight'[i].deltas, v) =>
                    \E n \in DOMAIN flight'[i].deltas :
                      flight'[i].deltas[n].v = v /\ LastFor(flight'[i].deltas, n)
    <3>1. Len(flight') - i = Len(flight) - (i + 1)
      BY <1>2, <1>3
    <3> QED
      BY <1>3, <3>1 DEF SetInv, FlightInv
  <2>2. ASSUME NEW i \in DOMAIN flight', NEW j \in DOMAIN flight', i < j, Live(i + 1)
        PROVE  Live(j + 1)
    <3>1. i + 1 < j + 1 /\ i + 1 \in DOMAIN flight /\ j + 1 \in DOMAIN flight
      BY <1>3, <2>2
    <3> QED
      BY <2>2, <3>1 DEF SetInv, FlightInv
  <2>3. ~LastLive => pendSeq = seq
    BY DEF SetInv, FlightInv
  <2> QED
    BY <1>1, <1>4, <1>5, <1>6, <1>7, <2>1, <2>2, <2>3 DEF FlightInv
<1>9. ChainInv'
  <2>1. ASSUME NEW i \in DOMAIN flight'
        PROVE  /\ FirstLive(i)' => Link(hash, flight'[i])
               /\ Live(i)' /\ i > 1 /\ Live(i - 1)' => Link(flight'[i - 1].hash, flight'[i])
    BY <1>3, <1>5, <1>6 DEF SetInv, ChainInv
  <2>2. pendHash = IF LastLive' THEN flight'[Len(flight')].hash ELSE hash
    <3>1. LastLive' => Len(flight') \in DOMAIN flight' /\ Len(flight') + 1 = Len(flight)
      BY <1>1, <1>2, <1>3 DEF LastLive
    <3>2. LastLive' => flight'[Len(flight')] = flight[Len(flight)]
      BY <1>3, <3>1
    <3> QED
      BY <1>7, <3>2 DEF SetInv, ChainInv
  <2>3. HashIsContent'
    BY <1>4 DEF SetInv, ChainInv, HashIsContent, Present
  <2> QED
    BY <1>4, <2>1, <2>2, <2>3 DEF ChainInv, Link
<1>10. PendInv'
  <2>1. ASSUME NEW i \in DOMAIN flight', NEW v \in Values, Live(i + 1)
        PROVE  /\ Touches(flight'[i].deltas, v) =>
                    pend[v] # Unplanned /\ pend[v].seq >= flight'[i].seq
               /\ pend[v] # Unplanned /\ pend[v].seq = flight'[i].seq =>
                    \E n \in DOMAIN flight'[i].deltas :
                      /\ flight'[i].deltas[n].v = v
                      /\ LastFor(flight'[i].deltas, n)
                      /\ flight'[i].deltas[n].to = pend[v].to
    BY <1>3, <1>4, <2>1 DEF SetInv, PendInv
  <2> QED
    BY <1>4, <1>5, <2>1 DEF SetInv, PendInv
<1>11. LookupInv'
  BY <1>4 DEF SetInv, LookupInv
<1>12. LimitInv'
  BY <1>1, <1>3, <1>4, <1>5 DEF SetInv, LimitInv, Cap
<1>13. CommitInv' /\ DraftInv' /\ ExpiryTracked' /\ HeapInv' /\ SweepTakesExpired'
  BY <1>1, <1>4 DEF SetInv, CommitInv, DraftInv, ExpiryTracked, Present, HeapInv,
                    SweepTakesExpired
<1>14. VictimInv'
  BY <1>1, <1>3, <1>5 DEF SetInv, VictimInv
<1> QED
  BY <1>8, <1>9, <1>10, <1>11, <1>12, <1>13, <1>14 DEF SetInv

(* A sweep looks at the heap: it keeps an item for every entry that expires. *)
LEMMA ExpiredStep ==
  ASSUME TypeOK, SetInv, Expired
  PROVE  SetInv'
<1> DEFINE kept == {<<it[1], entries[it[1]].exp>> :
                      it \in {i \in Due : entries[i[1]] # Absent /\ entries[i[1]].exp >= i[2]}}
<1>1. /\ UNCHANGED <<entries, seq, hash, pending, mu, draft, flight, done, now, loaded>>
      /\ mu = "free"
      /\ heap' = (heap \ Due) \cup kept
      /\ victims' = {it[1] : it \in {i \in Due : /\ entries[i[1]] # Absent
                                                 /\ entries[i[1]].exp = i[2]
                                                 /\ pend[i[1]] = Unplanned}}
  BY DEF Expired, Stays, Swept
<1>2. /\ entries \in [Values -> Slot] /\ heap \in SUBSET (Values \X Exps) /\ now \in Nat
      /\ Due \subseteq heap
  BY DEF TypeOK, Due
<1>3. \A it \in heap : it[1] \in Values /\ it[2] \in Nat /\ it[2] > 0
  BY <1>2, SetAssumption DEF SetInv, HeapInv
<1> USE DEF pending
<1>4. /\ FlightInv' /\ ChainInv' /\ PendInv' /\ LookupInv' /\ CommitInv' /\ DraftInv'
      /\ LimitInv'
  <2> USE DEF SetInv, Live, LastLive, FirstLive
  <2>1. FlightInv'
    BY <1>1 DEF FlightInv
  <2>2. ChainInv'
    BY <1>1 DEF ChainInv, HashIsContent, Link, Present
  <2>3. PendInv'
    BY <1>1 DEF PendInv, Reached
  <2>4. LookupInv'
    BY <1>1 DEF LookupInv, Reached
  <2>5. CommitInv' /\ DraftInv' /\ LimitInv'
    BY <1>1 DEF CommitInv, DraftInv, LimitInv, Cap
  <2> QED
    BY <2>1, <2>2, <2>3, <2>4, <2>5
<1>5. HeapInv'
  <2> SUFFICES ASSUME NEW x \in heap' PROVE x[2] > 0
    BY DEF HeapInv
  <2>1. CASE x \in heap
    BY <1>3, <2>1
  <2>2. CASE x \in kept
    <3>1. PICK it \in Due : /\ entries[it[1]] # Absent /\ entries[it[1]].exp >= it[2]
                            /\ x = <<it[1], entries[it[1]].exp>>
      BY <2>2
    <3>2. it[1] \in Values /\ it[2] \in Nat /\ it[2] > 0
      BY <1>2, <1>3
    <3>3. entries[it[1]].exp \in Nat
      BY <1>2, <3>1, <3>2, EntryFields
    <3> QED
      BY <3>1, <3>2, <3>3
  <2> QED
    BY <1>1, <2>1, <2>2
<1>6. ExpiryTracked'
  <2> SUFFICES ASSUME NEW v \in Values, entries[v] # Absent, entries[v].exp > 0
               PROVE  \E it \in heap' : it[1] = v /\ it[2] <= entries[v].exp
    BY <1>1 DEF ExpiryTracked, Present
  <2>1. entries[v].exp \in Nat
    BY <1>2, EntryFields
  <2>2. PICK it \in heap : it[1] = v /\ it[2] <= entries[v].exp
    BY DEF SetInv, ExpiryTracked, Present
  <2>3. CASE it \notin Due
    BY <1>1, <2>2, <2>3
  <2>4. CASE it \in Due
    <3> DEFINE item == <<v, entries[v].exp>>
    <3>1. entries[it[1]] # Absent /\ entries[it[1]].exp >= it[2] /\ item = <<it[1], entries[it[1]].exp>>
      BY <1>3, <2>1, <2>2
    <3>2. item \in heap'
      BY <1>1, <2>4, <3>1
    <3>3. item[1] = v /\ item[2] <= entries[v].exp
      BY <2>1
    <3> HIDE DEF item
    <3> QED
      BY <3>2, <3>3
  <2> QED
    BY <2>3, <2>4
<1>7. ASSUME NEW v \in victims'
      PROVE  /\ v \in Values /\ pend[v] = Unplanned
             /\ entries[v] # Absent /\ entries[v].exp > 0 /\ entries[v].exp <= now
  <2>1. PICK it \in Due : /\ v = it[1] /\ entries[v] # Absent
                          /\ entries[v].exp = it[2] /\ pend[v] = Unplanned
    BY <1>1
  <2> QED
    BY <1>2, <1>3, <2>1 DEF Due
<1>8. SweepTakesExpired'
  BY <1>1, <1>7 DEF SweepTakesExpired
<1>9. VictimInv'
  <2>1. ASSUME NEW v \in victims', NEW i \in DOMAIN flight, Live(i)
        PROVE  ~Touches(flight[i].deltas, v)
    BY <1>1, <1>7, <2>1 DEF SetInv, PendInv, Reached
  <2> QED
    BY <1>1, <2>1 DEF VictimInv, Live
<1> QED
  BY <1>4, <1>5, <1>6, <1>8, <1>9 DEF SetInv

(* Steps that only move the clock, or nothing. *)
LEMMA IdleStep ==
  ASSUME TypeOK, SetInv, Tick \/ UNCHANGED vars
  PROVE  SetInv'
<1>1. /\ UNCHANGED <<committed, pending, mu, draft, flight, done, victims, loaded>>
      /\ now' = now \/ now' = now + 1
  BY DEF Tick, vars
<1> USE DEF SetInv, committed, pending, draft, Live, LastLive, FirstLive
<1>2. FlightInv'
  BY <1>1 DEF FlightInv
<1>3. ChainInv'
  BY <1>1 DEF ChainInv, HashIsContent, Link
<1>4. PendInv'
  BY <1>1 DEF PendInv, Reached
<1>5. LookupInv'
  BY <1>1 DEF LookupInv, Reached
<1>6. CommitInv' /\ DraftInv' /\ LimitInv'
  BY <1>1 DEF CommitInv, DraftInv, BatchLookup, Lookup, LimitInv, Cap
<1>7. ExpiryTracked' /\ HeapInv' /\ VictimInv'
  BY <1>1 DEF ExpiryTracked, HeapInv, VictimInv
<1>8. SweepTakesExpired'
  <2> SUFFICES ASSUME NEW v \in victims
               PROVE  /\ pend'[v] = Unplanned
                      /\ entries'[v] # Absent /\ entries'[v].exp > 0 /\ entries'[v].exp <= now'
    BY <1>1 DEF SweepTakesExpired
  <2>1. /\ pend[v] = Unplanned /\ v \in Values
        /\ entries[v] # Absent /\ entries[v].exp > 0 /\ entries[v].exp <= now
    BY DEF SweepTakesExpired, TypeOK
  <2>2. entries[v].exp \in Nat /\ now \in Nat
    BY <2>1, EntryFields DEF TypeOK
  <2> QED
    BY <1>1, <2>1, <2>2
<1> QED
  BY <1>2, <1>3, <1>4, <1>5, <1>6, <1>7, <1>8

(* No step breaks the inductive invariant. *)
LEMMA NextSetInv == TypeOK /\ SetInv /\ [Next]_vars => SetInv'
<1> SUFFICES ASSUME TypeOK, SetInv, [Next]_vars PROVE SetInv'
  OBVIOUS
<1>1. CASE PlanJobs
  BY <1>1, PlanJobsStep
<1>2. CASE PlanSweep
  BY <1>2, PlanSweepStep
<1>3. CASE Expired
  BY <1>3, ExpiredStep
<1>4. CASE PlanReject \/ PlanSkip
  BY <1>4, PlanPassStep
<1>5. CASE PlanInsert \/ PlanRefresh \/ PlanRemove
  BY <1>5, PlanDeltaStep
<1>6. CASE PlanNothing
  BY <1>6, PlanNothingStep
<1>7. CASE PlanEnd
  BY <1>7, PlanEndStep
<1>8. CASE CommitBegin
  BY <1>8, CommitBeginStep
<1>9. CASE CommitDelta
  BY <1>9, CommitDeltaStep
<1>10. CASE CommitEnd
  BY <1>10, CommitEndStep
<1>11. CASE Abort
  BY <1>11, AbortStep
<1>12. CASE SkipStale
  BY <1>12, SkipStaleStep
<1>13. CASE Tick \/ UNCHANGED vars
  BY <1>13, IdleStep
<1> QED
  BY <1>1, <1>2, <1>3, <1>4, <1>5, <1>6, <1>7, <1>8, <1>9, <1>10, <1>11, <1>12, <1>13
     DEF Next, Planner, Committer

-----------------------------------------------------------------------------
(* Theorems about the specification *)

(***************************************************************************)
(* The inductive invariant: plans in flight, pending outcomes, the draft   *)
(* of a Plan, the progress of a Commit and the committed contents fit      *)
(* together at every step (set.go: Plan, Commit, Abort, Expired).          *)
(***************************************************************************)
THEOREM Invariance == Spec => [](TypeOK /\ SetInv)
<1>1. Init => TypeOK /\ SetInv
  BY InitTypeOK, InitSetInv
<1>2. TypeOK /\ SetInv /\ [Next]_vars => (TypeOK /\ SetInv)'
  <2>1. SetInv => FlightInv /\ DraftInv
    BY DEF SetInv
  <2> QED
    BY <2>1, NextTypeOK, NextSetInv
<1> QED
  BY <1>1, <1>2, PTL DEF Spec

(***************************************************************************)
(* Every variable of the set, of Plan, of Commit and of the sweep keeps    *)
(* its type; the sizes, which Plan counts down, never go below zero.       *)
(***************************************************************************)
THEOREM TypeCorrect == Spec => []TypeOK
BY Invariance, PTL

(***************************************************************************)
(* The check of commit() in keeper.go ("committed state differs from the   *)
(* plan") never fires: a plan computed against changes that are still in   *)
(* flight announces the very hash its Commit arrives at, or is void.       *)
(***************************************************************************)
THEOREM CommitMatches == Spec => []CommittedMatchesPlan
<1>1. TypeOK /\ SetInv => CommittedMatchesPlan
  BY CommitReachesPlan DEF CommittedMatchesPlan
<1> QED
  BY <1>1, Invariance, PTL

(***************************************************************************)
(* The incrementally toggled hash of the set is the hash of its contents   *)
(* (set.go: Commit, load).                                                 *)
(***************************************************************************)
THEOREM HashCorrect == Spec => []HashIsContent
<1>1. TypeOK /\ SetInv => HashIsContent
  BY DEF SetInv, ChainInv
<1> QED
  BY <1>1, Invariance, PTL

(***************************************************************************)
(* pendHash and pendSize, from which Plan starts and which Size() returns, *)
(* describe the contents that the pending changes lead to.                 *)
(***************************************************************************)
THEOREM PendingCorrect == Spec => []PendingCoherent
<1>1. TypeOK /\ SetInv => PendingCoherent
  <2> SUFFICES ASSUME TypeOK, SetInv, mu # "commit"
               PROVE  /\ pendHash = {v \in Values : Lookup(v) # Absent}
                      /\ pendSize = Cardinality(pendHash)
    BY DEF PendingCoherent
  <2>1. \A v \in Values : v \in pendHash <=> Lookup(v) # Absent
    BY DEF SetInv, LookupInv, Lookup, Reached
  <2>2. pendHash \in SUBSET Values /\ pendSize = Cardinality(pendHash)
    BY DEF TypeOK, SetInv, LookupInv
  <2> QED
    BY <2>1, <2>2
<1> QED
  BY <1>1, Invariance, PTL

(***************************************************************************)
(* The limit of the definition holds for the committed contents although   *)
(* Plan counts changes that may still be aborted.                          *)
(***************************************************************************)
THEOREM LimitCorrect == Spec => []LimitRespected
<1>1. TypeOK /\ SetInv => LimitRespected
  BY DEF SetInv, LimitInv, ChainInv, HashIsContent, LimitRespected
<1> QED
  BY <1>1, Invariance, PTL

(***************************************************************************)
(* No entry that expires is lost from the expiry heap (set.go: Commit      *)
(* pushes nothing when an entry is extended; Expired drops items).         *)
(***************************************************************************)
THEOREM ExpiryCorrect == Spec => []ExpiryTracked
<1>1. TypeOK /\ SetInv => ExpiryTracked
  BY DEF SetInv
<1> QED
  BY <1>1, Invariance, PTL

(***************************************************************************)
(* The values Expired returned are still expired, and untouched by any     *)
(* plan, when the planner gets round to planning their removal.            *)
(***************************************************************************)
THEOREM SweepCorrect == Spec => []SweepTakesExpired
<1>1. TypeOK /\ SetInv => SweepTakesExpired
  BY DEF SetInv
<1> QED
  BY <1>1, Invariance, PTL

(***************************************************************************)
(* Committed changes are numbered consecutively: a plan whose number is    *)
(* not the next one is never applied (set.go: Plan, Commit, Abort).        *)
(***************************************************************************)
THEOREM SeqCorrect == Spec => SeqConsecutive
<1>1. TypeOK /\ SetInv /\ [Next]_vars => [seq' = seq + 1]_seq
  <2> SUFFICES ASSUME TypeOK, SetInv, [Next]_vars, seq' # seq PROVE seq' = seq + 1
    OBVIOUS
  <2>1. CASE CommitEnd
    <3>1. mu = "commit" /\ seq' = Head(flight).seq
      BY <2>1 DEF CommitEnd
    <3> QED
      BY <3>1, CommitFlight
  <2>2. CASE ~CommitEnd
    BY <2>2 DEF Next, Planner, Committer, vars, committed, PlanJobs, PlanBatch, PlanSweep,
                PlanBegin, Expired, PlanReject, PlanSkip, PlanInsert, PlanRefresh, PlanRemove,
                DraftDelta, PlanNothing, PlanEnd, CommitBegin, CommitDelta, Abort,
                SkipStale, Tick, Flips, OwnOutcome, Size, Stays, Swept
  <2> QED
    BY <2>1, <2>2
<1> QED
  BY <1>1, Invariance, PTL DEF Spec, SeqConsecutive
=============================================================================
