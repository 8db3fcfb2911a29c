------------------------------ MODULE ActiveSet ------------------------------
(***************************************************************************)
(* One active dataset in memory: internal/set/set.go.                      *)
(*                                                                         *)
(* A set holds its committed contents (entries, seq, hash) and, on top of  *)
(* them, the outcome of every change that has been planned but not yet     *)
(* stored (pend, pendSeq, pendHash, pendSize).  One planner goroutine      *)
(* calls Plan; one committer goroutine receives the plans in order and     *)
(* calls Commit, or Abort when the state store refused one.  All methods   *)
(* run under the mutex of the set.  Plan and Commit are loops over deltas: *)
(* each iteration is an action here, taken while the mutex is held, so     *)
(* that their invariants can be stated between two iterations.             *)
(*                                                                         *)
(* The keyed hash of a set is the XOR of the hashes of its values.  It is  *)
(* modelled as the set of values XORed in: toggling a value is the XOR     *)
(* with its hash, and two contents have the same hash exactly when they    *)
(* hold the same values (no collision of SipHash; values have different    *)
(* material).  Exp, Origin and Reason are not part of the hash.            *)
(***************************************************************************)
EXTENDS Integers, Sequences, FiniteSets

CONSTANTS
  Values,      \* the canonical values a set may hold
  Exps,        \* expiry instants; 0 is "never", which only loaded records have
  Whys,        \* what Origin and Reason of a record can be
  Limit,       \* Definition.Limit; 0 is "no limit"
  BatchMax,    \* Options.BatchMax: the most removals a sweep plans at once
  FlightMax,   \* the most plans between Plan and Commit: the pipeline
  MaxDeltas,   \* bound: deltas of clients in one call of Plan
  MaxBatches,  \* bound: batches of client deltas
  MaxAborts,   \* bound: refusals of the state store
  MaxNow,      \* bound: the clock
  Absent,      \* no entry under this value
  Unplanned    \* no pending change for this value

Entry == [exp : Exps, why : Whys]
Slot  == Entry \cup {Absent}

(* A delta sets a value to an entry (OpAdd) or to Absent (OpRemove). *)
Delta == [v : Values, to : Slot]

ASSUME SetAssumption ==
  /\ IsFiniteSet(Values)
  /\ Exps \subseteq Nat
  /\ Limit \in Nat
  /\ BatchMax \in Nat \ {0}
  /\ FlightMax \in Nat \ {0}
  /\ MaxDeltas \in Nat /\ MaxBatches \in Nat /\ MaxAborts \in Nat /\ MaxNow \in Nat
  /\ Absent \notin Entry
  /\ Unplanned \notin Slot
  /\ Unplanned \notin [to : Slot, seq : Nat]

VARIABLES
  entries,   \* committed contents
  seq,       \* number of the last committed change
  hash,      \* hash of the committed contents
  heap,      \* expiry heap: <<value, exp>> items (duplicates are immaterial)
  pend,      \* per value: the last planned outcome and the plan it is from
  pendSeq, pendHash, pendSize,  \* seq, hash and size after every plan
  gen,       \* bumped by Abort: plans of an older generation are void
  mu,        \* who is inside a loop under the mutex
  todo,      \* Plan: deltas still to look at
  over,      \* Plan: outcome per value of this batch
  size,      \* Plan: running size
  acc,       \* Plan: running hash
  applied,   \* Plan: the deltas that change something
  rejected,  \* Plan: values whose addition found the set full
  flight,    \* plans handed to the committer, oldest first
  done,      \* Commit: deltas of the oldest plan applied so far
  victims,   \* values Expired returned whose removal is not planned yet
  now,       \* the clock
  batches,   \* history: client batches so far (for the bound MaxBatches)
  loaded     \* history: number of records the set was loaded with

committed == <<entries, seq, hash, heap>>
pending   == <<pend, pendSeq, pendHash, pendSize, gen>>
draft     == <<todo, over, size, acc, applied, rejected>>
vars      == <<committed, pending, mu, draft, flight, done, victims, now,
               batches, loaded>>

Plan == [deltas : Seq(Delta), seq : Nat, hash : SUBSET Values, gen : Nat]

-----------------------------------------------------------------------------
(* XOR of a hash with the hash of one value. *)
Toggle(h, v) == IF v \in h THEN h \ {v} ELSE h \cup {v}

Present(f) == {v \in Values : f[v] # Absent}

NothingPlanned == [v \in Values |-> Unplanned]

(* The contents a reader of the plans sees: pending first, then committed. *)
Lookup(v) == IF pend[v] # Unplanned THEN pend[v].to ELSE entries[v]

(* Fault: Plan does not see what earlier plans have decided. *)
BatchLookupCommitted(v) == IF over[v] # Unplanned THEN over[v] ELSE entries[v]

(* lookup inside Plan: the deltas of the same batch come first. *)
BatchLookup(v) == IF over[v] # Unplanned THEN over[v] ELSE Lookup(v)

(* Fault: what is only planned counts as made. *)
FromFlightNever(v) == FALSE

(* The outcome seen is that of an earlier plan, not stored yet. *)
FromFlight(v) == over[v] = Unplanned /\ pend[v] # Unplanned

(* Fault: the size leaves the plans in flight out. *)
CommittedSize == Cardinality(Present(entries))

(* The size once every plan in flight is committed: Set.Size, and in Plan. *)
Size == pendSize

(* Fault: settle forgets the number of the next change. *)
SettleKeepsSeq ==
  /\ pend' = NothingPlanned
  /\ pendHash' = hash
  /\ pendSize' = Cardinality(Present(entries))
  /\ UNCHANGED pendSeq

(* Fault: settle leaves the outcomes of the void plans behind. *)
SettleKeepsOutcomes ==
  /\ pendSeq' = seq
  /\ pendHash' = hash
  /\ pendSize' = Cardinality(Present(entries))
  /\ UNCHANGED pend

(* settle: drop every pending change. *)
Settle ==
  /\ pend' = NothingPlanned
  /\ pendSeq' = seq
  /\ pendHash' = hash
  /\ pendSize' = Cardinality(Present(entries))

(***************************************************************************)
(* load: the records of the state store become the contents.  They may be  *)
(* more than Limit, which can be lowered while a set is full.              *)
(***************************************************************************)
Load ==
  /\ entries \in [Values -> Slot]
  /\ seq = 0
  /\ hash = Present(entries)
  /\ heap = {<<v, entries[v].exp>> : v \in {u \in Present(entries) : entries[u].exp > 0}}
  /\ pend = NothingPlanned
  /\ pendSeq = seq
  /\ pendHash = hash
  /\ pendSize = Cardinality(Present(entries))
  /\ gen = 0

Init ==
  /\ Load
  /\ mu = "free"
  /\ todo = <<>> /\ over = NothingPlanned /\ size = 0 /\ acc = {} /\ applied = <<>>
  /\ rejected = {}
  /\ flight = <<>>
  /\ done = 0
  /\ victims = {}
  /\ now = 0
  /\ batches = 0
  /\ loaded = Cardinality(Present(entries))

-----------------------------------------------------------------------------
(* Set.Plan *)

(***************************************************************************)
(* The planner calls Plan only after its previous batch went into the      *)
(* channel, so the number of plans in flight is bounded.                   *)
(***************************************************************************)
PlanBegin(ds) ==
  /\ mu = "free"
  /\ Len(flight) < FlightMax
  /\ mu' = "plan"
  /\ todo' = ds
  /\ over' = NothingPlanned
  /\ size' = Size
  /\ acc' = pendHash
  /\ applied' = <<>>
  /\ rejected' = {}
  /\ UNCHANGED <<committed, pending, flight, done, now, loaded>>

(* An addition that would grow a full set is rejected. *)
PlanReject ==
  LET d == Head(todo) IN
  /\ mu = "plan" /\ todo # <<>>
  /\ d.to # Absent /\ BatchLookup(d.v) = Absent
  /\ Limit > 0 /\ size >= Limit
  /\ todo' = Tail(todo)
  /\ rejected' = rejected \cup {d.v}
  /\ UNCHANGED <<committed, pending, mu, over, size, acc, applied, flight, done,
                 victims, now, batches, loaded>>

(***************************************************************************)
(* A delta that changes nothing is skipped: removing what is not there, or *)
(* adding what is there already, unless that is only planned.              *)
(***************************************************************************)
PlanSkip ==
  LET d == Head(todo) IN
  /\ mu = "plan" /\ todo # <<>>
  /\ BatchLookup(d.v) = d.to
  /\ d.to = Absent \/ ~FromFlight(d.v)
  /\ todo' = Tail(todo)
  /\ UNCHANGED <<committed, pending, mu, over, size, acc, applied, rejected, flight,
                 done, victims, now, batches, loaded>>

(* A delta of the batch takes effect on the draft. *)
DraftDelta(d) ==
  /\ todo' = Tail(todo)
  /\ over' = [over EXCEPT ![d.v] = d.to]
  /\ applied' = Append(applied, d)
  /\ UNCHANGED <<committed, pending, mu, rejected, flight, done, victims, now,
                 batches, loaded>>

PlanInsert ==
  LET d == Head(todo) IN
  /\ mu = "plan" /\ todo # <<>>
  /\ d.to # Absent /\ BatchLookup(d.v) = Absent
  /\ Limit = 0 \/ size < Limit
  /\ acc' = Toggle(acc, d.v)
  /\ size' = size + 1
  /\ DraftDelta(d)

PlanRefresh ==
  LET d == Head(todo) IN
  /\ mu = "plan" /\ todo # <<>>
  /\ d.to # Absent /\ BatchLookup(d.v) # Absent
  /\ FromFlight(d.v) \/ BatchLookup(d.v) # d.to
  /\ UNCHANGED <<acc, size>>
  /\ DraftDelta(d)

PlanRemove ==
  LET d == Head(todo) IN
  /\ mu = "plan" /\ todo # <<>>
  /\ d.to = Absent /\ BatchLookup(d.v) # Absent
  /\ acc' = Toggle(acc, d.v)
  /\ size' = size - 1
  /\ DraftDelta(d)

(* Nothing to change: no plan, no sequence number. *)
PlanNothing ==
  /\ mu = "plan" /\ todo = <<>> /\ applied = <<>>
  /\ mu' = "free"
  /\ UNCHANGED <<committed, pending, draft, flight, done, victims, now, batches, loaded>>

(* The outcome of the batch becomes pending and its plan goes into flight. *)
PlanEnd ==
  /\ mu = "plan" /\ todo = <<>> /\ applied # <<>>
  /\ pend' = [v \in Values |->
                IF over[v] # Unplanned THEN [to |-> over[v], seq |-> pendSeq + 1]
                                       ELSE pend[v]]
  /\ pendSeq' = pendSeq + 1
  /\ pendHash' = acc
  /\ pendSize' = size
  /\ flight' = Append(flight, [deltas |-> applied, seq |-> pendSeq + 1,
                               hash |-> acc, gen |-> gen])
  /\ mu' = "free"
  /\ UNCHANGED <<committed, gen, draft, done, victims, now, batches, loaded>>

-----------------------------------------------------------------------------
(* The committer: Set.Commit and Set.Abort *)

(* The state store took the oldest plan: the committer enters Set.Commit. *)
CommitBegin ==
  /\ mu = "free"
  /\ flight # <<>> /\ Head(flight).gen = gen
  /\ mu' = "commit"
  /\ done' = 0
  /\ UNCHANGED <<committed, pending, draft, flight, victims, now, batches, loaded>>

(* Fault: a value goes into the hash whenever it is written. *)
FlipsAlways(cur, to) == TRUE

(* Writing an entry over another changes whether the value is there. *)
Flips(cur, to) == (cur = Absent) # (to = Absent)

(* Fault: a commit drops the pending outcome of a later plan too. *)
AnyOutcome(v, n) == pend[v] # Unplanned

(* The pending outcome of a value is that of plan number n. *)
OwnOutcome(v, n) == pend[v] # Unplanned /\ pend[v].seq = n

(***************************************************************************)
(* One delta reaches the contents.  An expiry item is pushed only when it  *)
(* is earlier than the one the value already has.                          *)
(***************************************************************************)
CommitDelta ==
  LET p   == Head(flight)
      d   == p.deltas[done + 1]
      cur == entries[d.v]
  IN
  /\ mu = "commit" /\ done < Len(p.deltas)
  /\ entries' = [entries EXCEPT ![d.v] = d.to]
  /\ hash' = IF Flips(cur, d.to) THEN Toggle(hash, d.v) ELSE hash
  /\ heap' = IF /\ d.to # Absent /\ d.to.exp > 0
                /\ cur = Absent \/ cur.exp = 0 \/ d.to.exp < cur.exp
             THEN heap \cup {<<d.v, d.to.exp>>}
             ELSE heap
  /\ pend' = IF OwnOutcome(d.v, p.seq) THEN [pend EXCEPT ![d.v] = Unplanned] ELSE pend
  /\ done' = done + 1
  /\ UNCHANGED <<seq, pendSeq, pendHash, pendSize, gen, mu, draft, flight, victims,
                 now, batches, loaded>>

CommitEnd ==
  LET p == Head(flight) IN
  /\ mu = "commit" /\ done = Len(p.deltas)
  /\ seq' = p.seq
  /\ IF pend = NothingPlanned
     THEN /\ pendSeq' = p.seq
          /\ pendHash' = hash
          /\ pendSize' = Cardinality(Present(entries))
     ELSE UNCHANGED <<pendSeq, pendHash, pendSize>>
  /\ flight' = Tail(flight)
  /\ mu' = "free"
  /\ UNCHANGED <<entries, hash, heap, pend, gen, draft, done, victims, now, batches, loaded>>

(* Fault: the plans made on top of a refused one stay valid. *)
AbortKeepsGen ==
  /\ mu = "free"
  /\ flight # <<>> /\ Head(flight).gen = gen
  /\ gen < MaxAborts
  /\ Settle
  /\ flight' = Tail(flight)
  /\ UNCHANGED <<committed, gen, mu, draft, done, victims, now, batches, loaded>>

(* The state store refused the oldest plan: everything planned is void. *)
Abort ==
  /\ mu = "free"
  /\ flight # <<>> /\ Head(flight).gen = gen
  /\ gen < MaxAborts
  /\ Settle
  /\ gen' = gen + 1
  /\ flight' = Tail(flight)
  /\ UNCHANGED <<committed, mu, draft, done, victims, now, batches, loaded>>

(* A plan made before the last Abort is refused without a store call. *)
SkipStale ==
  /\ mu = "free"
  /\ flight # <<>> /\ Head(flight).gen # gen
  /\ flight' = Tail(flight)
  /\ UNCHANGED <<committed, pending, mu, draft, done, victims, now, batches, loaded>>

-----------------------------------------------------------------------------
(* The planner's calls *)

(* A client's addition always expires (Submit); only loaded records may not. *)
ClientDelta == {d \in Delta : d.to = Absent \/ d.to.exp > 0}

ClientBatches == UNION {[1..n -> ClientDelta] : n \in 1..MaxDeltas}

(* The deltas of a batch of accepted jobs are planned. *)
PlanBatch(ds) ==
  /\ victims = {}
  /\ batches < MaxBatches
  /\ PlanBegin(ds)
  /\ batches' = batches + 1
  /\ UNCHANGED victims

(* Any such batch; todo' names it, so that TLC need not try them all in turn. *)
PlanJobs == todo' \in ClientBatches /\ PlanBatch(todo')

Due == {it \in heap : it[2] <= now}

(* Fault: the item of an entry that was extended is dropped. *)
StaysExact(it) == entries[it[1]] # Absent /\ entries[it[1]].exp = it[2]

(* Fault: the item of a value with a change in flight is dropped. *)
StaysSettled(it) ==
  entries[it[1]] # Absent /\ entries[it[1]].exp >= it[2] /\ pend[it[1]] = Unplanned

(* A due item is pushed again: its entry is there, perhaps extended. *)
Stays(it) == entries[it[1]] # Absent /\ entries[it[1]].exp >= it[2]

(* Fault: a value is swept although a change of it is in flight. *)
SweptBlindly(it) == entries[it[1]] # Absent /\ entries[it[1]].exp = it[2]

(* A due item names a value to remove: no change of it is in flight. *)
Swept(it) == entries[it[1]] # Absent /\ entries[it[1]].exp = it[2] /\ pend[it[1]] = Unplanned

(***************************************************************************)
(* Expired: pop the due items.  An item whose entry is gone or has an      *)
(* earlier expiry is dropped, one whose entry was extended goes back with  *)
(* the new expiry, and one that still holds goes back too, its value being *)
(* returned unless a change of it is in flight.                            *)
(***************************************************************************)
Expired ==
  /\ mu = "free" /\ victims = {}
  /\ Len(flight) < FlightMax
  /\ heap' = (heap \ Due) \cup {<<it[1], entries[it[1]].exp>> : it \in {i \in Due : Stays(i)}}
  /\ victims' = {it[1] : it \in {i \in Due : Swept(i)}}
  /\ UNCHANGED <<entries, seq, hash, pending, mu, draft, flight, done, now, batches, loaded>>

(* Removals of at most BatchMax victims, in some order. *)
Chunks ==
  LET n == IF Cardinality(victims) < BatchMax THEN Cardinality(victims) ELSE BatchMax
  IN  {ds \in [1..n -> {[v |-> x, to |-> Absent] : x \in victims}] :
         \A i, j \in 1..n : ds[i] = ds[j] => i = j}

(* The sweep plans the removal of the next chunk of victims. *)
PlanSweep ==
  /\ victims # {}
  /\ \E ds \in Chunks :
       /\ PlanBegin(ds)
       /\ victims' = victims \ {ds[i].v : i \in DOMAIN ds}
  /\ UNCHANGED batches

Tick ==
  /\ now < MaxNow
  /\ now' = now + 1
  /\ UNCHANGED <<committed, pending, mu, draft, flight, done, victims, batches, loaded>>

-----------------------------------------------------------------------------
Planner ==
  \/ PlanJobs \/ PlanSweep \/ Expired
  \/ PlanReject \/ PlanSkip \/ PlanInsert \/ PlanRefresh \/ PlanRemove
  \/ PlanNothing \/ PlanEnd

Committer == CommitBegin \/ CommitDelta \/ CommitEnd \/ Abort \/ SkipStale

Next == Planner \/ Committer \/ Tick

Spec == Init /\ [][Next]_vars

(***************************************************************************)
(* Both goroutines keep running: the Go scheduler does not starve them and *)
(* nothing they wait for is waited for forever.  MaxAborts bounds how      *)
(* often the state store refuses, so it answers in the end.                *)
(***************************************************************************)
FairSpec == Spec /\ WF_vars(Planner) /\ WF_vars(Committer)

-----------------------------------------------------------------------------
(* Type invariant. *)
TypeOK ==
  /\ entries \in [Values -> Slot]
  /\ seq \in Nat
  /\ hash \in SUBSET Values
  /\ heap \in SUBSET (Values \X Exps)
  /\ pend \in [Values -> [to : Slot, seq : Nat] \cup {Unplanned}]
  /\ pendSeq \in Nat /\ pendHash \in SUBSET Values /\ pendSize \in Nat
  /\ gen \in Nat
  /\ mu \in {"free", "plan", "commit"}
  /\ todo \in Seq(Delta)
  /\ over \in [Values -> Slot \cup {Unplanned}]
  /\ size \in Nat
  /\ acc \in SUBSET Values
  /\ applied \in Seq(Delta)
  /\ rejected \in SUBSET Values
  /\ flight \in Seq(Plan)
  /\ done \in Nat
  /\ victims \in SUBSET Values
  /\ now \in Nat
  /\ batches \in Nat
  /\ loaded \in Nat

(***************************************************************************)
(* What commit() checks and logs as an error ("committed state differs     *)
(* from the plan"): once every delta of a plan is applied, the hash of the *)
(* contents is the one the plan announced, however many plans were in      *)
(* flight when it was made and whichever of them were aborted.             *)
(***************************************************************************)
CommittedMatchesPlan ==
  mu = "commit" /\ done = Len(Head(flight).deltas) => hash = Head(flight).hash

(***************************************************************************)
(* The running hash, toggled delta by delta through plans, commits and     *)
(* aborts, is the hash of what the set holds: what mirrors compare and a   *)
(* restart recomputes from the stored records.                             *)
(***************************************************************************)
HashIsContent == hash = Present(entries)

(***************************************************************************)
(* Whenever the mutex is free, pendHash and pendSize describe the contents *)
(* the pending changes lead to: Size() and the limit check of Plan count   *)
(* what is really going to be there.                                       *)
(***************************************************************************)
PendingCoherent ==
  mu # "commit" =>
    /\ pendHash = {v \in Values : Lookup(v) # Absent}
    /\ pendSize = Cardinality(pendHash)

Cap == IF loaded > Limit THEN loaded ELSE Limit

(***************************************************************************)
(* A set with a limit never holds more than the limit (or than it was      *)
(* loaded with), although a plan counts in changes that are still in       *)
(* flight and may be aborted.                                              *)
(***************************************************************************)
LimitRespected ==
  Limit > 0 /\ mu # "commit" => Cardinality(Present(entries)) <= Cap

(***************************************************************************)
(* Every entry that expires has an item in the expiry heap that comes due  *)
(* no later than the entry, so that a sweep finds it: Commit pushes no     *)
(* item when an entry is extended, and Expired drops items.                *)
(***************************************************************************)
ExpiryTracked ==
  \A v \in Present(entries) :
    entries[v].exp > 0 => \E it \in heap : it[1] = v /\ it[2] <= entries[v].exp

(***************************************************************************)
(* What the sweep is going to remove is expired in the committed contents  *)
(* and stays so until its removal is planned: no commit in between can     *)
(* have extended it.                                                       *)
(***************************************************************************)
SweepTakesExpired ==
  \A v \in victims :
    /\ pend[v] = Unplanned
    /\ entries[v] # Absent /\ entries[v].exp > 0 /\ entries[v].exp <= now

(***************************************************************************)
(* Committed changes are numbered without gaps, also when plans were       *)
(* aborted in between: a mirror one step behind can apply the next diff.   *)
(***************************************************************************)
SeqConsecutive == [][seq' = seq + 1]_seq

IsExpired(v) == entries[v] # Absent /\ entries[v].exp > 0 /\ entries[v].exp <= now

(***************************************************************************)
(* An expired entry leaves the set, or is extended, in the end: a removal  *)
(* that was skipped or aborted is tried again by a later sweep.            *)
(***************************************************************************)
ExpiredLeaves == \A v \in Values : IsExpired(v) ~> ~IsExpired(v)
=============================================================================
