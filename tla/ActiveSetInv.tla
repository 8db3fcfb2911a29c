---------------------------- MODULE ActiveSetInv ----------------------------
(***************************************************************************)
(* The inductive invariant of ActiveSet behind its safety properties.  TLC *)
(* checks it on small instances, ActiveSetProofs proves it.                *)
(***************************************************************************)
EXTENDS ActiveSet

Live(i) == flight[i].gen = gen
LastLive == flight # <<>> /\ Live(Len(flight))
FirstLive(i) == Live(i) /\ (i = 1 \/ ~Live(i - 1))

Touches(ds, v) == \E n \in DOMAIN ds : ds[n].v = v
LastFor(ds, n) == \A m \in DOMAIN ds : m > n => ds[m].v # ds[n].v

(* Value v has been reached by the Commit that is under way. *)
Reached(v) == mu = "commit" /\ \E n \in 1..done : Head(flight).deltas[n].v = v

(* Plan p takes contents with hash h to contents with hash p.hash. *)
Link(h, p) ==
  /\ \A n \in DOMAIN p.deltas :
       LastFor(p.deltas, n) => (p.deltas[n].v \in p.hash <=> p.deltas[n].to # Absent)
  /\ \A v \in Values : ~Touches(p.deltas, v) => (v \in p.hash <=> v \in h)

(* The plans of the current generation are the last ones in flight, and    *)
(* number the changes after seq without gaps.                              *)
FlightInv ==
  /\ \A i \in DOMAIN flight :
       /\ flight[i].gen <= gen
       /\ flight[i].deltas # <<>>
       /\ Live(i) => flight[i].seq = pendSeq - (Len(flight) - i)
       /\ FirstLive(i) => flight[i].seq = seq + 1
       /\ \A v \in Values : Touches(flight[i].deltas, v) =>
            \E n \in DOMAIN flight[i].deltas :
              flight[i].deltas[n].v = v /\ LastFor(flight[i].deltas, n)
  /\ \A i, j \in DOMAIN flight : i < j /\ Live(i) => Live(j)
  /\ ~LastLive => pendSeq = seq
  /\ mu = "commit" => flight # <<>> /\ Live(1) /\ done <= Len(Head(flight).deltas)

(* Each live plan starts from the hash the one before it ends with. *)
ChainInv ==
  /\ HashIsContent
  /\ \A i \in DOMAIN flight :
       /\ FirstLive(i) => Link(hash, flight[i])
       /\ Live(i) /\ i > 1 /\ Live(i - 1) => Link(flight[i - 1].hash, flight[i])
  /\ pendHash = IF LastLive THEN flight[Len(flight)].hash ELSE hash

(* pend holds, for each value, the outcome of the last live plan for it. *)
PendInv ==
  /\ \A v \in Values : pend[v] # Unplanned => pend[v].seq <= pendSeq
  /\ \A i \in DOMAIN flight, v \in Values :
       Live(i) =>
         /\ Touches(flight[i].deltas, v) =>
              \/ pend[v] # Unplanned /\ pend[v].seq >= flight[i].seq
              \/ i = 1 /\ Reached(v)
         /\ pend[v] # Unplanned /\ pend[v].seq = flight[i].seq =>
              \E n \in DOMAIN flight[i].deltas :
                /\ flight[i].deltas[n].v = v
                /\ LastFor(flight[i].deltas, n)
                /\ flight[i].deltas[n].to = pend[v].to

(* pendHash describes the contents the pending changes lead to, also while *)
(* a Commit has applied only some of its deltas.                           *)
LookupInv ==
  /\ pendSize = Cardinality(pendHash)
  /\ \A v \in Values :
       /\ pend[v] # Unplanned => (pend[v].to # Absent <=> v \in pendHash)
       /\ pend[v] = Unplanned /\ ~Reached(v) => (entries[v] # Absent <=> v \in pendHash)
       /\ pend[v] = Unplanned /\ Reached(v) =>
            \A n \in DOMAIN Head(flight).deltas :
              LastFor(Head(flight).deltas, n) /\ Head(flight).deltas[n].v = v =>
                (Head(flight).deltas[n].to # Absent <=> v \in pendHash)

(* The deltas a Commit has applied so far are in the contents. *)
CommitInv ==
  mu = "commit" =>
    \A n \in 1..done :
      (\A m \in 1..done : m > n => Head(flight).deltas[m].v # Head(flight).deltas[n].v)
        => entries[Head(flight).deltas[n].v] = Head(flight).deltas[n].to

(* The draft of a Plan agrees with the deltas it has applied so far. *)
DraftInv ==
  mu = "plan" =>
    /\ size = Cardinality(acc)
    /\ \A v \in Values :
         /\ BatchLookup(v) # Absent <=> v \in acc
         /\ over[v] = Unplanned => (v \in acc <=> v \in pendHash)
         /\ over[v] # Unplanned <=> Touches(applied, v)
         /\ over[v] # Unplanned =>
              \E n \in DOMAIN applied : applied[n].v = v /\ LastFor(applied, n)
    /\ \A n \in DOMAIN applied :
         LastFor(applied, n) => over[applied[n].v] = applied[n].to

(* Every hash a commit can lead to is within the limit. *)
LimitInv ==
  Limit > 0 =>
    /\ pendSize <= Cap
    /\ mu = "plan" => size <= Cap
    /\ \A i \in DOMAIN flight : Live(i) => Cardinality(flight[i].hash) <= Cap
    /\ mu # "commit" => Cardinality(hash) <= Cap

(* "Never" is not an instant of the heap. *)
HeapInv == \A it \in heap : it[2] > 0

(* Nothing in flight and nothing being planned touches a victim. *)
VictimInv ==
  \A v \in victims :
    /\ \A i \in DOMAIN flight : Live(i) => ~Touches(flight[i].deltas, v)
    /\ mu = "plan" => ~Touches(todo, v) /\ ~Touches(applied, v)

(***************************************************************************)
(* The conjunction: plans in flight, pending outcomes, draft and contents  *)
(* fit together at every step of Plan, Commit and Abort.  It is inductive. *)
(***************************************************************************)
SetInv ==
  /\ FlightInv /\ ChainInv /\ PendInv /\ LookupInv /\ CommitInv /\ DraftInv
  /\ LimitInv /\ HeapInv /\ ExpiryTracked /\ SweepTakesExpired /\ VictimInv
=============================================================================
