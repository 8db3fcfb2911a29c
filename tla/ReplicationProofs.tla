-------------------------- MODULE ReplicationProofs --------------------------
(***************************************************************************)
(* Proofs about Replication, for every set of mirrors, values and changes, *)
(* every pair of lifetimes that the configuration accepts, and any number  *)
(* of commits, torn transactions, crashes and epochs.                      *)
(*                                                                         *)
(* The properties speak of mirrors and of memory; what makes them true is  *)
(* what Redis holds between a crash and the next start.  RInv says it, one *)
(* conjunct per subject.                                                   *)
(***************************************************************************)
EXTENDS Replication, TLAPS

(* Same, with the number of torn transactions as a parameter. *)
Alike(t, r, s) == Hash(r) = Hash(s) /\ (t = 0 => r = s)

(* The change leads from the state before number n to the one n names, if both are named *)
(* and in one epoch.                                                                     *)
Leads(n, change) ==
  n \in DOMAIN history /\ n - 1 \in DOMAIN history /\ history[n - 1].epoch = history[n].epoch
    => Alike(torn, Apply(history[n - 1].recs, change), history[n].recs)

(* The types, without the bounds of the model. *)
Ref == Nat \X Nat

Call == [pc : {"idle", "read", "put"}, who : Mirrors \cup {"http"}, epoch : Nat, seq : Nat,
         recs : Recs, age : Nat]

MirrorState == [pc : {"idle", "read", "ask", "wait", "load"}, epoch : Nat, seq : Nat,
                recs : Recs, goal : Nat, ref : Ref]

Shape ==
  /\ up \in BOOLEAN
  /\ mem \in [epoch : Nat, seq : Nat, recs : Recs]
  /\ commit \in [pc : {"idle", "stored", "publish"}, change : Batches, age : 0..ReplyLag]
  /\ snap \in [epoch : Nat, seq : Nat, age : Nat]
  /\ pack \in Call
  /\ store \in [epoch : Nat, seq : Nat, hash : SUBSET Values, recs : Recs]
  /\ DOMAIN pkgs \subseteq Nat
  /\ \A n \in DOMAIN pkgs : pkgs[n] \in [change : Batches, left : 0..DiffTTL]
  /\ DOMAIN objs \subseteq Ref
  /\ \A o \in DOMAIN objs : objs[o] \in [recs : Recs, left : 1..SnapshotTTL]
  /\ frames \subseteq [epoch : Nat, seq : Nat, hash : SUBSET Values, inline : Batches]
  /\ mirror \in [Mirrors -> MirrorState]
  /\ DOMAIN history \subseteq Nat
  /\ \A n \in DOMAIN history : history[n] \in [epoch : Nat, recs : Recs]
  /\ epochs \in Nat /\ torn \in Nat /\ faults \in Nat /\ crashes \in Nat

(* Numbers and epochs only grow: the number in memory is the last one named, an epoch *)
(* has its numbers without a gap, and a later epoch has later numbers.                *)
Numbers ==
  /\ mem.seq \in DOMAIN history
  /\ history[mem.seq].epoch = mem.epoch
  /\ Alike(torn, mem.recs, history[mem.seq].recs)
  /\ \A n \in DOMAIN history : n <= mem.seq
  /\ \A a, b \in DOMAIN history : a <= b => history[a].epoch <= history[b].epoch
  /\ \A a, b \in DOMAIN history : history[a].epoch = history[b].epoch =>
       \A c \in a..b : c \in DOMAIN history /\ history[c].epoch = history[a].epoch

(* Redis is at the number of memory or one ahead; a start that died after Reset leaves *)
(* a new epoch behind, which has a number above.                                       *)
Ahead ==
  /\ mem.epoch <= store.epoch /\ store.epoch <= epochs
  /\ mem.seq <= store.seq
  /\ up => store.epoch = mem.epoch
  /\ store.epoch = mem.epoch => store.seq <= mem.seq + 1
  /\ store.epoch # mem.epoch => mem.seq < store.seq
  /\ \A n \in DOMAIN pkgs : n <= store.seq

(* What Redis holds under the number of memory, and under the next one. *)
Stored ==
  /\ store.epoch = mem.epoch /\ store.seq = mem.seq =>
       store.hash = Hash(mem.recs) /\ (torn = 0 => store.recs = mem.recs)
  /\ store.epoch = mem.epoch /\ mem.seq + 1 \in DOMAIN pkgs =>
       /\ store.hash = Hash(Apply(mem.recs, pkgs[mem.seq + 1].change))
       /\ torn = 0 => store.recs = Apply(mem.recs, pkgs[mem.seq + 1].change)
  /\ up /\ commit.pc # "stored" /\ torn = 0 => store.seq = mem.seq

(* A package leads to its number. *)
Packages == \A n \in DOMAIN pkgs : Leads(n, pkgs[n].change)

(* Package n is in Redis for some time yet; t <= 0 says nothing. *)
Lasts(n, t) == t > 0 => n \in DOMAIN pkgs /\ pkgs[n].left >= t

(* The committer between its steps. *)
Committing ==
  /\ ~up => commit.pc = "idle" /\ pack.pc = "idle" /\ snap = NoSnap
  /\ commit.pc = "stored" =>
       /\ store.seq = mem.seq + 1
       /\ store.hash = Hash(Apply(mem.recs, commit.change))
       /\ torn = 0 => store.recs = Apply(mem.recs, commit.change)
       /\ mem.seq + 1 \in DOMAIN pkgs => pkgs[mem.seq + 1].change = commit.change
       /\ Lasts(mem.seq + 1, DiffTTL - commit.age)
  /\ commit.pc = "publish" => Leads(mem.seq, commit.change)

(* A frame speaks of a named state, and a package in it leads there. *)
Frames ==
  \A f \in frames :
    /\ f.seq \in DOMAIN history /\ history[f.seq].epoch = f.epoch
    /\ f.hash = Hash(history[f.seq].recs)
    /\ f.inline # NoChange => Leads(f.seq, f.inline)

(* A snapshot, packed or being packed, is the state its key names. *)
Objects ==
  /\ \A o \in DOMAIN objs :
       /\ o[2] \in DOMAIN history /\ history[o[2]].epoch = o[1]
       /\ Alike(torn, objs[o].recs, history[o[2]].recs)
  /\ pack.pc # "idle" =>
       /\ pack.seq \in DOMAIN history /\ history[pack.seq].epoch = pack.epoch
       /\ pack.epoch = mem.epoch
       /\ Alike(torn, pack.recs, history[pack.seq].recs)

(* A mirror is at a named state, reads towards a later one of its epoch, and loads no *)
(* snapshot of an earlier epoch.                                                      *)
Mirrored ==
  \A m \in Mirrors :
    /\ mirror[m].seq \in DOMAIN history
    /\ history[mirror[m].seq].epoch = mirror[m].epoch
    /\ Alike(torn, mirror[m].recs, history[mirror[m].seq].recs)
    /\ mirror[m].pc = "read" =>
         /\ mirror[m].goal \in DOMAIN history /\ history[mirror[m].goal].epoch = mirror[m].epoch
         /\ mirror[m].seq < mirror[m].goal
    /\ mirror[m].pc = "load" => mirror[m].epoch <= mirror[m].ref[1]

Key(s) == <<s.epoch, s.seq>>

(* The packages after a snapshot outlive it by Spare. *)
Bridged(s) == \A n \in (s.seq + 1)..mem.seq : Lasts(n, objs[Key(s)].left + Spare)

(* How long the object of a snapshot, and the packages after it, still live. *)
Lifetimes ==
  /\ pack.pc = "read" =>
       /\ pack.age <= CallLag
       /\ \A n \in (pack.seq + 1)..mem.seq : Lasts(n, DiffTTL - ReplyLag - pack.age)
  /\ pack.pc = "put" =>
       /\ pack.age <= ReplyLag
       /\ SnapshotTTL > pack.age =>
            Key(pack) \in DOMAIN objs /\ objs[Key(pack)].left >= SnapshotTTL - pack.age
       /\ Key(pack) \in DOMAIN objs => Bridged(pack)
  /\ snap # NoSnap /\ Key(snap) \in DOMAIN objs => Bridged(snap)
  /\ Usable => Key(snap) \in DOMAIN objs
                 /\ objs[Key(snap)].left >= SnapshotTTL - ReplyLag - snap.age

(* The inductive invariant. *)
RInv == /\ Shape /\ Numbers /\ Ahead /\ Stored /\ Packages /\ Committing /\ Frames
        /\ Objects /\ Mirrored /\ Lifetimes
------------------------------------------------------------------------------
(* Operators. *)

(* The lifetimes New makes of a configuration that config.Load accepts: packages live at *)
(* least twice as long as snapshots.  Nothing relates them to the time of the calls.     *)
LEMMA TTLs ==
  /\ SnapshotTTL \in Nat \ {0} /\ DiffTTL \in Nat /\ DiffTTL >= 2 * SnapshotTTL
  /\ CallLag \in Nat /\ ReplyLag \in Nat /\ SnapMargin \in Nat
  /\ ReplyLag < SnapMargin
  /\ Spare \in Int /\ Spare = DiffTTL - SnapshotTTL - CallLag - ReplyLag
  BY ReplicationAssumption DEF SnapshotTTL, DiffTTL, Loads, Spare

(* A function with one value added or replaced. *)
LEMMA WithGives ==
  ASSUME NEW f, NEW k, NEW x
  PROVE  /\ DOMAIN With(f, k, x) = DOMAIN f \cup {k}
         /\ With(f, k, x)[k] = x
         /\ \A y \in DOMAIN f : y # k => With(f, k, x)[y] = f[y]
  BY DEF With

LEMMA WithType ==
  ASSUME NEW f, NEW k, NEW x, NEW K, NEW X, k \in K, x \in X,
         DOMAIN f \subseteq K, \A y \in DOMAIN f : f[y] \in X
  PROVE  /\ DOMAIN With(f, k, x) \subseteq K
         /\ \A y \in DOMAIN With(f, k, x) : With(f, k, x)[y] \in X
  BY DEF With

(* Time takes one from every lifetime and removes what had no more than that. *)
LEMMA ElapsedGives ==
  ASSUME NEW f
  PROVE  /\ DOMAIN Elapsed(f) = {k \in DOMAIN f : f[k].left > 1}
         /\ \A k \in DOMAIN Elapsed(f) : Elapsed(f)[k] = [f[k] EXCEPT !.left = @ - 1]
  BY DEF Elapsed

(* Applying a batch to records gives records. *)
LEMMA ApplyType ==
  ASSUME NEW r \in Recs, NEW c \in Batches
  PROVE  Apply(r, c) \in Recs
  <1>1. PICK S \in SUBSET Values : c \in [S -> Exps \cup {Absent}]
    BY DEF Batches
  <1> QED BY <1>1 DEF Apply, Recs

(* The empty records and the empty batch. *)
LEMMA EmptyType == Empty \in Recs /\ NoChange \in Batches
  <1>1. NoChange \in [{} -> Exps \cup {Absent}]
    BY DEF NoChange
  <1> QED BY <1>1 DEF Batches, Empty, Recs

(* Nothing waits, and no reference. *)
LEMMA IdleType == Idle \in Call /\ NoRef \in Ref
  BY EmptyType DEF Idle, Call, NoRef, Ref

(* A snapshot call names an object. *)
LEMMA PackRef ==
  ASSUME Shape
  PROVE  <<pack.epoch, pack.seq>> \in Ref /\ <<snap.epoch, snap.seq>> \in Ref
  BY DEF Shape, Call, Ref

(* The hash is a set of values. *)
LEMMA HashType == \A r : Hash(r) \in SUBSET Values
  BY DEF Hash

(* Plan leaves a batch a batch. *)
LEMMA PlannedType ==
  ASSUME NEW c \in Changes
  PROVE  Planned(c) \in Batches
  <1>1. c \in Batches
    BY ReplicationAssumption
  <1>2. PICK S \in SUBSET Values : c \in [S -> Exps \cup {Absent}]
    BY <1>1 DEF Batches
  <1> DEFINE D == {w \in DOMAIN c : c[w] # mem.recs[w]}
  <1>3. D \in SUBSET Values /\ Planned(c) \in [D -> Exps \cup {Absent}]
    BY <1>2 DEF Planned
  <1> QED BY <1>3 DEF Batches

(* Alike is an equivalence, which batches preserve and torn transactions weaken. *)
LEMMA AlikeFacts ==
  ASSUME NEW t \in Nat
  PROVE  /\ \A r : Alike(t, r, r)
         /\ \A r, s : Alike(t, r, s) => Alike(t, s, r) /\ Hash(r) = Hash(s)
         /\ \A r, s, q : Alike(t, r, s) /\ Alike(t, s, q) => Alike(t, r, q)
         /\ \A u \in Nat : \A r, s : Alike(t, r, s) /\ (u = 0 => t = 0) => Alike(u, r, s)
  BY DEF Alike

LEMMA AlikeTrans ==
  ASSUME NEW t, NEW r, NEW s, NEW q, Alike(t, r, s), Alike(t, s, q)
  PROVE  Alike(t, r, q)
  BY DEF Alike

LEMMA AlikeApply ==
  ASSUME NEW t \in Nat, NEW r, NEW s, NEW c, Alike(t, r, s)
  PROVE  Alike(t, Apply(r, c), Apply(s, c))
  <1>1. Hash(r) = Hash(s) /\ (t = 0 => r = s)
    BY DEF Alike
  <1>2. \A v \in Values : (r[v] # Absent) <=> (s[v] # Absent)
    BY <1>1 DEF Hash
  <1>3. Hash(Apply(r, c)) = Hash(Apply(s, c))
    BY <1>2 DEF Hash, Apply
  <1> QED BY <1>1, <1>3 DEF Alike

------------------------------------------------------------------------------
(* Types. *)

(* A transaction keeps the types of store and packages. *)
LEMMA TransactionShape ==
  ASSUME Shape, NEW c \in Batches, Transaction(c)
  PROVE  /\ store' \in [epoch : Nat, seq : Nat, hash : SUBSET Values, recs : Recs]
         /\ DOMAIN pkgs' \subseteq Nat
         /\ \A n \in DOMAIN pkgs' : pkgs'[n] \in [change : Batches, left : 0..DiffTTL]
  <1>1. Apply(store.recs, c) \in Recs /\ Hash(Apply(mem.recs, c)) \in SUBSET Values
    BY ApplyType, HashType DEF Shape
  <1>2. mem.seq + 1 \in Nat
    BY DEF Shape
  <1>3. store' \in [epoch : Nat, seq : Nat, hash : SUBSET Values, recs : Recs]
    BY <1>1, <1>2 DEF Transaction, Shape
  <1> DEFINE p == [change |-> c, left |-> DiffTTL]
  <1>4. p \in [change : Batches, left : 0..DiffTTL]
    BY TTLs
  <1>5. pkgs' = With(pkgs, mem.seq + 1, p)
    BY DEF Transaction
  <1> DEFINE X == [change : Batches, left : 0..DiffTTL]
  <1>6. DOMAIN pkgs \subseteq Nat /\ \A n \in DOMAIN pkgs : pkgs[n] \in X
    BY DEF Shape
  <1> HIDE DEF p, X
  <1>7. DOMAIN pkgs' \subseteq Nat /\ \A n \in DOMAIN pkgs' : pkgs'[n] \in X
    BY <1>2, <1>4, <1>5, <1>6, WithType DEF X
  <1> QED BY <1>3, <1>7 DEF X

(* Naming a state keeps the type of history. *)
LEMMA NamedShape ==
  ASSUME Shape, NEW n \in Nat, NEW e \in Nat, NEW r \in Recs, history' = Named(n, e, r)
  PROVE  /\ DOMAIN history' \subseteq Nat
         /\ \A k \in DOMAIN history' : history'[k] \in [epoch : Nat, recs : Recs]
  <1> DEFINE h == [epoch |-> e, recs |-> r]
             X == [epoch : Nat, recs : Recs]
  <1>1. h \in X
    OBVIOUS
  <1>2. history' = history \/ history' = With(history, n, h)
    BY DEF Named
  <1>3. DOMAIN history \subseteq Nat /\ \A k \in DOMAIN history : history[k] \in X
    BY DEF Shape
  <1> HIDE DEF h, X
  <1>4. DOMAIN history' \subseteq Nat /\ \A k \in DOMAIN history' : history'[k] \in X
    BY <1>1, <1>2, <1>3, WithType
  <1> QED BY <1>4 DEF X

(* So does storing a snapshot. *)
LEMMA PutShape ==
  ASSUME Shape, PutObject
  PROVE  /\ DOMAIN objs' \subseteq Ref
         /\ \A o \in DOMAIN objs' : objs'[o] \in [recs : Recs, left : 1..SnapshotTTL]
  <1> DEFINE p == [recs |-> pack.recs, left |-> SnapshotTTL]
             k == <<pack.epoch, pack.seq>>
             X == [recs : Recs, left : 1..SnapshotTTL]
  <1>1. p \in X /\ k \in Ref
    BY TTLs DEF Shape, Call, Ref
  <1>2. objs' = With(objs, k, p)
    BY DEF PutObject
  <1>3. DOMAIN objs \subseteq Ref /\ \A o \in DOMAIN objs : objs[o] \in X
    BY DEF Shape
  <1> HIDE DEF p, k, X
  <1>4. DOMAIN objs' \subseteq Ref /\ \A o \in DOMAIN objs' : objs'[o] \in X
    BY <1>1, <1>2, <1>3, WithType
  <1> QED BY <1>4 DEF X

(* The state a start mounts has its type. *)
LEMMA MountedShape ==
  ASSUME Shape, NEW keep \in BOOLEAN
  PROVE  Mounted(keep) \in [epoch : Nat, seq : Nat, recs : Recs]
  BY EmptyType DEF Mounted, Seq0, Shape

(* Time keeps the types of what Redis holds. *)
LEMMA ClockShape ==
  ASSUME Shape, Clock
  PROVE  Shape'
  <1>1. /\ DOMAIN pkgs' \subseteq Nat
        /\ \A n \in DOMAIN pkgs' : pkgs'[n] \in [change : Batches, left : 0..DiffTTL]
    <2>1. pkgs' = Elapsed(pkgs)
      BY DEF Clock
    <2> SUFFICES ASSUME NEW n \in DOMAIN pkgs'
                 PROVE  n \in Nat /\ pkgs'[n] \in [change : Batches, left : 0..DiffTTL]
      OBVIOUS
    <2>2. n \in DOMAIN pkgs /\ pkgs[n].left > 1 /\ pkgs'[n] = [pkgs[n] EXCEPT !.left = @ - 1]
      BY <2>1, ElapsedGives
    <2>3. n \in Nat /\ pkgs[n] \in [change : Batches, left : 0..DiffTTL]
      BY <2>2 DEF Shape
    <2> QED BY <2>2, <2>3, TTLs
  <1>2. /\ DOMAIN objs' \subseteq Ref
        /\ \A o \in DOMAIN objs' : objs'[o] \in [recs : Recs, left : 1..SnapshotTTL]
    <2>1. objs' = Elapsed(objs)
      BY DEF Clock
    <2> SUFFICES ASSUME NEW o \in DOMAIN objs'
                 PROVE  o \in Ref /\ objs'[o] \in [recs : Recs, left : 1..SnapshotTTL]
      OBVIOUS
    <2>2. o \in DOMAIN objs /\ objs[o].left > 1 /\ objs'[o] = [objs[o] EXCEPT !.left = @ - 1]
      BY <2>1, ElapsedGives
    <2>3. o \in Ref /\ objs[o] \in [recs : Recs, left : 1..SnapshotTTL]
      BY <2>2 DEF Shape
    <2> QED BY <2>2, <2>3, TTLs
  <1>3. commit' \in [pc : {"idle", "stored", "publish"}, change : Batches, age : 0..ReplyLag]
    BY TTLs DEF Clock, Shape
  <1>4. pack' \in Call
    BY DEF Clock, Shape, Call
  <1>5. snap' \in [epoch : Nat, seq : Nat, age : Nat]
    BY DEF Clock, Shape
  <1>6. UNCHANGED <<up, mem, store, frames, mirror, history, epochs, torn, faults, crashes>>
    BY DEF Clock, count
  <1> QED BY <1>1, <1>2, <1>3, <1>4, <1>5, <1>6 DEF Shape

(* The ways a mirror changes. *)
LEMMA MirrorShape ==
  ASSUME mirror \in [Mirrors -> MirrorState]
  PROVE  /\ \A m \in Mirrors, pc \in {"idle", "ask"} :
              Turns(m, pc) => mirror' \in [Mirrors -> MirrorState]
         /\ \A m \in Mirrors, pc \in {"idle", "read"}, e \in Nat, s \in Nat, r \in Recs :
              Moved(m, e, s, r, pc) => mirror' \in [Mirrors -> MirrorState]
         /\ \A w : \A pc \in {"ask", "load"}, ref \in Ref :
              Reply(w, pc, ref) => mirror' \in [Mirrors -> MirrorState]
  <1>1. NoRef \in Ref
    BY IdleType
  <1>2. ASSUME NEW m \in Mirrors, NEW pc \in {"idle", "ask"}, Turns(m, pc)
        PROVE  mirror' \in [Mirrors -> MirrorState]
    BY <1>1, <1>2 DEF Turns, MirrorState
  <1>3. ASSUME NEW m \in Mirrors, NEW pc \in {"idle", "read"}, NEW e \in Nat, NEW s \in Nat,
               NEW r \in Recs, Moved(m, e, s, r, pc)
        PROVE  mirror' \in [Mirrors -> MirrorState]
    BY <1>1, <1>3 DEF Moved, MirrorState
  <1>4. ASSUME NEW w, NEW pc \in {"ask", "load"}, NEW ref \in Ref, Reply(w, pc, ref)
        PROVE  mirror' \in [Mirrors -> MirrorState]
    BY <1>4 DEF Reply, MirrorState
  <1> QED BY <1>2, <1>3, <1>4

(* The types are an invariant of their own. *)
LEMMA ShapeStep ==
  ASSUME Shape, RNext
  PROVE  Shape'
  <1> USE DEF keeper, redis, count
  <1>0. mirror \in [Mirrors -> MirrorState] /\ Usable \in BOOLEAN
    BY DEF Shape, Usable
  <1>1. ASSUME NEW c \in Changes, CommitStore(Planned(c)) PROVE Shape'
    <2>1. Planned(c) \in Batches
      BY PlannedType
    <2>2. commit' \in [pc : {"idle", "stored", "publish"}, change : Batches, age : 0..ReplyLag]
      BY <1>1, <2>1, TTLs DEF CommitStore
    <2> QED BY <1>1, <2>1, <2>2, TransactionShape DEF CommitStore, Shape
  <1>2. ASSUME NEW c \in Changes, CommitTorn(Planned(c)) PROVE Shape'
    BY <1>2, PlannedType, TransactionShape DEF CommitTorn, Shape
  <1>3. CASE CommitMemory
    <2>1. mem.seq + 1 \in Nat /\ mem.epoch \in Nat /\ Apply(mem.recs, commit.change) \in Recs
      BY ApplyType DEF Shape
    <2>2. /\ DOMAIN history' \subseteq Nat
          /\ \A k \in DOMAIN history' : history'[k] \in [epoch : Nat, recs : Recs]
      BY <1>3, <2>1, NamedShape DEF CommitMemory
    <2>3. mem' \in [epoch : Nat, seq : Nat, recs : Recs]
      BY <1>3, <2>1 DEF CommitMemory, Shape
    <2>4. commit' \in [pc : {"idle", "stored", "publish"}, change : Batches, age : 0..ReplyLag]
      <3>1. commit \in [pc : {"idle", "stored", "publish"}, change : Batches, age : 0..ReplyLag]
        BY DEF Shape
      <3>2. commit' = [commit EXCEPT !.pc = "publish", !.age = 0]
        BY <1>3 DEF CommitMemory
      <3>3. 0 \in 0..ReplyLag
        BY TTLs
      <3> QED BY <3>1, <3>2, <3>3
    <2> QED BY <1>3, <2>2, <2>3, <2>4 DEF CommitMemory, Shape
  <1>4. CASE CommitPublish
    <2>1. commit' \in [pc : {"idle", "stored", "publish"}, change : Batches, age : 0..ReplyLag]
      BY <1>4, TTLs, EmptyType DEF CommitPublish, NoBatch
    <2>2. TickOf(mem) \in [epoch : Nat, seq : Nat, hash : SUBSET Values, inline : Batches]
      BY EmptyType, HashType DEF Shape, TickOf
    <2>3. (IF commit.change \in Small THEN commit.change ELSE NoChange) \in Batches
      BY EmptyType DEF Shape
    <2>4. frames' \subseteq [epoch : Nat, seq : Nat, hash : SUBSET Values, inline : Batches]
      BY <1>4, <2>2, <2>3 DEF CommitPublish, Shape
    <2> QED BY <1>4, <2>1, <2>4 DEF CommitPublish, Shape
  <1>5. CASE Tick
    <2>1. frames' \subseteq [epoch : Nat, seq : Nat, hash : SUBSET Values, inline : Batches]
      BY <1>5, EmptyType, HashType DEF Tick, Shape, TickOf
    <2> QED BY <1>5, <2>1 DEF Tick, Shape
  <1>6. ASSUME NEW w \in Mirrors \cup {"http"}, SnapshotCached(w) PROVE Shape'
    <2>1. mirror' \in [Mirrors -> MirrorState]
      <3>1. /\ w \in Mirrors
            /\ mirror' = [mirror EXCEPT ![w].pc = "load", ![w].ref = <<snap.epoch, snap.seq>>]
        BY <1>6 DEF SnapshotCached
      <3>2. <<snap.epoch, snap.seq>> \in Ref
        BY PackRef
      <3> QED BY <1>0, <3>1, <3>2 DEF MirrorState
    <2> QED BY <1>6, <2>1 DEF SnapshotCached, Shape
  <1>7. ASSUME NEW w \in Mirrors \cup {"http"}, SnapshotRead(w) PROVE Shape'
    <2>1. mirror' \in [Mirrors -> MirrorState]
      BY <1>7 DEF SnapshotRead, MirrorState, Shape
    <2>2. pack' \in Call
      BY <1>7 DEF SnapshotRead, Call, Shape
    <2> QED BY <1>7, <2>1, <2>2 DEF SnapshotRead, Shape
  <1>8. CASE SnapshotPut
    <2>1. pack' \in Call
      BY <1>8 DEF SnapshotPut, Call, Shape
    <2> QED BY <1>8, <2>1, PutShape DEF SnapshotPut, Shape
  <1>9. CASE SnapshotFails
    <2>1. /\ DOMAIN objs' \subseteq Ref
          /\ \A o \in DOMAIN objs' : objs'[o] \in [recs : Recs, left : 1..SnapshotTTL]
      BY <1>9, PutShape DEF SnapshotFails, Shape
    <2>2. mirror' \in [Mirrors -> MirrorState]
      BY <1>9, <1>0, IdleType, MirrorShape DEF SnapshotFails
    <2> QED BY <1>9, <2>1, <2>2, IdleType DEF SnapshotFails, Shape
  <1>10. CASE SnapshotEnd
    <2>1. mirror' \in [Mirrors -> MirrorState]
      BY <1>10, <1>0, PackRef, MirrorShape DEF SnapshotEnd
    <2>2. snap' \in [epoch : Nat, seq : Nat, age : Nat]
      BY <1>10 DEF SnapshotEnd, Call, Shape
    <2> QED BY <1>10, <2>1, <2>2, IdleType DEF SnapshotEnd, Shape
  <1>11. CASE Crash
    <2>1. commit' \in [pc : {"idle", "stored", "publish"}, change : Batches, age : 0..ReplyLag]
      BY <1>11, TTLs, EmptyType DEF Crash, NoBatch
    <2>2. snap' \in [epoch : Nat, seq : Nat, age : Nat]
      BY <1>11 DEF Crash, NoSnap
    <2>3. pack' \in Call
      BY <1>11, IdleType DEF Crash
    <2>4. crashes' \in Nat
      BY <1>11 DEF Crash, Shape
    <2> QED BY <1>11, <2>1, <2>2, <2>3, <2>4 DEF Crash, Shape
  <1>12. ASSUME NEW keep \in BOOLEAN, Start(keep) \/ StartFails(keep) PROVE Shape'
    <2> DEFINE s == Mounted(keep)
    <2>1. s \in [epoch : Nat, seq : Nat, recs : Recs]
      BY MountedShape
    <2> HIDE DEF s
    <2>2. /\ store' \in [epoch : Nat, seq : Nat, hash : SUBSET Values, recs : Recs]
          /\ epochs' \in Nat
      BY <1>12, <2>1, HashType DEF Start, StartFails, Reset, Shape, s
    <2>3. CASE Start(keep)
      <3>1. mem' = s /\ history' = Named(s.seq, s.epoch, s.recs) /\ frames' = frames \cup {TickOf(s)}
        BY <2>3 DEF Start, s
      <3>2. /\ DOMAIN history' \subseteq Nat
            /\ \A k \in DOMAIN history' : history'[k] \in [epoch : Nat, recs : Recs]
        BY <3>1, <2>1, NamedShape
      <3>3. frames' \subseteq [epoch : Nat, seq : Nat, hash : SUBSET Values, inline : Batches]
        BY <3>1, <2>1, EmptyType, HashType DEF Shape, TickOf
      <3> QED BY <2>1, <2>2, <2>3, <3>1, <3>2, <3>3 DEF Start, Shape
    <2>4. CASE StartFails(keep)
      BY <2>2, <2>4 DEF StartFails, Shape
    <2> QED BY <1>12, <2>3, <2>4
  <1>13. ASSUME NEW m \in Mirrors, MirrorStep(m) PROVE Shape'
    <2>1. mirror[m] \in MirrorState
      BY <1>0
    <2>2. mirror[m].seq + 1 \in Nat /\ mirror[m].epoch \in Nat /\ mirror[m].recs \in Recs
      BY <2>1 DEF MirrorState
    <2>3. ASSUME NEW f \in frames, Hear(m, f) PROVE mirror' \in [Mirrors -> MirrorState]
      <3>1. f.epoch \in Nat /\ f.seq \in Nat /\ f.inline \in Batches
        BY DEF Shape
      <3>2. Apply(mirror[m].recs, f.inline) \in Recs
        BY <3>1, <2>2, ApplyType
      <3>3. CASE mirror' = [mirror EXCEPT ![m].pc = "read", ![m].goal = f.seq]
        BY <1>0, <3>1, <3>3 DEF MirrorState
      <3>4. CASE Turns(m, "ask")
        BY <1>0, <3>4, MirrorShape
      <3>5. CASE Moved(m, mirror[m].epoch, f.seq, Apply(mirror[m].recs, f.inline), "idle")
        BY <1>0, <2>2, <3>1, <3>2, <3>5, MirrorShape
      <3> QED BY <2>3, <3>3, <3>4, <3>5 DEF Hear
    <2>4. ASSUME ReadPackage(m) PROVE mirror' \in [Mirrors -> MirrorState]
      <3>1. CASE mirror[m].seq + 1 \in DOMAIN pkgs
        <4> DEFINE n  == mirror[m].seq + 1
                   pc == IF n = mirror[m].goal THEN "idle" ELSE "read"
        <4>1. Apply(mirror[m].recs, pkgs[n].change) \in Recs
          BY <3>1, <2>2, ApplyType DEF Shape
        <4>2. Moved(m, mirror[m].epoch, n, Apply(mirror[m].recs, pkgs[n].change), pc)
          BY <2>4, <3>1 DEF ReadPackage
        <4>3. pc \in {"idle", "read"} /\ n \in Nat
          BY <2>2
        <4> HIDE DEF pc, n
        <4> QED BY <1>0, <2>2, <4>1, <4>2, <4>3, MirrorShape
      <3>2. CASE mirror[m].seq + 1 \notin DOMAIN pkgs
        <4>1. Turns(m, "ask")
          BY <2>4, <3>2 DEF ReadPackage
        <4> QED BY <1>0, <4>1, MirrorShape
      <3> QED BY <3>1, <3>2
    <2>5. ASSUME Timeout(m) \/ LoadObject(m) PROVE mirror' \in [Mirrors -> MirrorState]
      <3>1. mirror[m].ref \in DOMAIN objs => objs[mirror[m].ref].recs \in Recs
        BY DEF Shape
      <3>2. mirror[m].ref \in Ref
        BY <2>1 DEF MirrorState
      <3>3. mirror[m].ref[1] \in Nat /\ mirror[m].ref[2] \in Nat
        BY <3>2 DEF Ref
      <3>4. \/ Turns(m, "ask") \/ Turns(m, "idle")
            \/ /\ mirror[m].ref \in DOMAIN objs
               /\ Moved(m, mirror[m].ref[1], mirror[m].ref[2], objs[mirror[m].ref].recs, "idle")
        BY <2>5 DEF Timeout, LoadObject
      <3> QED BY <1>0, <3>1, <3>3, <3>4, MirrorShape
    <2>6. mirror' \in [Mirrors -> MirrorState]
      BY <1>13, <2>3, <2>4, <2>5 DEF MirrorStep
    <2>7. UNCHANGED <<keeper, redis, frames, history, count>>
      BY <1>13 DEF MirrorStep, Hear, ReadPackage, Timeout, LoadObject
    <2> QED BY <2>6, <2>7 DEF Shape
  <1> QED
    BY <1>1, <1>2, <1>3, <1>4, <1>5, <1>6, <1>7, <1>8, <1>9, <1>10, <1>11, <1>12, <1>13,
       ClockShape DEF RNext, Committer, Snapshots, Process

------------------------------------------------------------------------------
(* What a step leaves alone. *)

(* The fields that the arithmetic below is about. *)
LEMMA Fields ==
  ASSUME Shape
  PROVE  /\ mem.epoch \in Nat /\ mem.seq \in Nat /\ store.epoch \in Nat /\ store.seq \in Nat
         /\ epochs \in Nat /\ torn \in Nat
         /\ commit.age \in 0..ReplyLag
         /\ snap.epoch \in Nat /\ snap.seq \in Nat /\ snap.age \in Nat
         /\ pack.epoch \in Nat /\ pack.seq \in Nat /\ pack.age \in Nat
         /\ \A n \in DOMAIN pkgs : n \in Nat /\ pkgs[n].left \in 0..DiffTTL
         /\ \A o \in DOMAIN objs : objs[o].left \in 1..SnapshotTTL
         /\ \A n \in DOMAIN history : n \in Nat /\ history[n].epoch \in Nat
         /\ \A f \in frames : f.seq \in Nat /\ f.epoch \in Nat
  BY DEF Shape, Call

LEMMA MirrorFields ==
  ASSUME Shape, NEW m \in Mirrors
  PROVE  /\ mirror[m] \in MirrorState
         /\ mirror[m].epoch \in Nat /\ mirror[m].seq \in Nat /\ mirror[m].goal \in Nat
         /\ mirror[m].ref \in Ref /\ mirror[m].ref[1] \in Nat /\ mirror[m].ref[2] \in Nat
  <1>1. mirror[m] \in MirrorState
    BY DEF Shape
  <1>2. mirror[m].ref \in Ref
    BY <1>1 DEF MirrorState
  <1> QED BY <1>1, <1>2 DEF MirrorState, Ref

(* The actions that write a variable. *)
Transacts == \E c \in Changes : CommitStore(Planned(c)) \/ CommitTorn(Planned(c))
Starts == \E keep \in BOOLEAN : Start(keep)

LEMMA Writes ==
  ASSUME RNext
  PROVE  /\ UNCHANGED torn \/ Transacts
         /\ UNCHANGED <<mem, history>> \/ CommitMemory \/ Starts
         /\ UNCHANGED store \/ Transacts \/ \E keep \in BOOLEAN : Start(keep) \/ StartFails(keep)
         /\ UNCHANGED epochs \/ \E keep \in BOOLEAN : Start(keep) \/ StartFails(keep)
         /\ UNCHANGED pkgs \/ Transacts \/ Clock
         /\ UNCHANGED objs \/ SnapshotPut \/ SnapshotFails \/ Clock
         /\ UNCHANGED frames \/ CommitPublish \/ Tick \/ Starts
         /\ UNCHANGED up \/ Crash \/ Starts
         /\ UNCHANGED commit \/ Transacts \/ CommitMemory \/ CommitPublish \/ Crash \/ Clock
         /\ UNCHANGED pack \/ Snapshots \/ Crash \/ Clock
         /\ UNCHANGED snap \/ SnapshotEnd \/ Crash \/ Clock
         /\ UNCHANGED mirror \/ Snapshots \/ \E m \in Mirrors : MirrorStep(m)
  <1> USE DEF keeper, redis, count
  <1>1. CASE Transacts
    BY <1>1 DEF Transacts, CommitStore, CommitTorn
  <1>2. CASE CommitMemory
    BY <1>2 DEF CommitMemory
  <1>3. CASE CommitPublish
    BY <1>3 DEF CommitPublish
  <1>4. CASE Tick
    BY <1>4 DEF Tick
  <1>5. CASE Snapshots
    <2>1. ASSUME NEW w \in Mirrors \cup {"http"}, SnapshotCached(w) \/ SnapshotRead(w)
          PROVE  UNCHANGED <<up, mem, commit, snap, redis, frames, history, count>>
      BY <2>1 DEF SnapshotCached, SnapshotRead
    <2>2. ASSUME SnapshotPut \/ SnapshotFails
          PROVE  UNCHANGED <<up, mem, commit, snap, store, pkgs, frames, history, epochs, torn>>
      BY <2>2 DEF SnapshotPut, SnapshotFails
    <2>3. ASSUME SnapshotEnd
          PROVE  UNCHANGED <<up, mem, commit, redis, frames, history, count>>
      BY <2>3 DEF SnapshotEnd
    <2> QED BY <1>5, <2>1, <2>2, <2>3 DEF Snapshots
  <1>6. CASE Crash
    BY <1>6 DEF Crash
  <1>7. ASSUME NEW keep \in BOOLEAN, Start(keep)
        PROVE  UNCHANGED <<commit, snap, pack, pkgs, objs, mirror, torn>>
    BY <1>7 DEF Start
  <1>8. ASSUME NEW keep \in BOOLEAN, StartFails(keep)
        PROVE  UNCHANGED <<keeper, pkgs, objs, frames, mirror, history, torn>>
    BY <1>8 DEF StartFails
  <1>9. ASSUME NEW m \in Mirrors, MirrorStep(m)
        PROVE  UNCHANGED <<keeper, redis, frames, history, count>>
    BY <1>9 DEF MirrorStep, Hear, ReadPackage, Timeout, LoadObject
  <1>10. CASE Clock
    BY <1>10 DEF Clock
  <1> QED
    BY <1>1, <1>2, <1>3, <1>4, <1>5, <1>6, <1>7, <1>8, <1>9, <1>10
    DEF RNext, Committer, Process, Transacts, Starts

------------------------------------------------------------------------------
(* Numbers. *)

(* Names stay what they are, new ones are above; Same may only become weaker. *)
Grown ==
  /\ \A k \in DOMAIN history : k \in DOMAIN history' /\ history'[k] = history[k]
  /\ \A k \in DOMAIN history' : k \in DOMAIN history \/ k > mem.seq
  /\ torn' \in Nat /\ (torn' = 0 => torn = 0)

(* What is true of a named state stays true. *)
LEMMA NamesStay ==
  ASSUME Shape, Grown
  PROVE  \A e, n, r :
           n \in DOMAIN history /\ history[n].epoch = e /\ Alike(torn, r, history[n].recs)
             => n \in DOMAIN history' /\ history'[n].epoch = e /\ Alike(torn', r, history'[n].recs)
  BY AlikeFacts, Fields DEF Grown

(* Leads after the step, for a number and a change as they are before it. *)
LeadsThen(n, change) ==
  n \in DOMAIN history' /\ n - 1 \in DOMAIN history' /\ history'[n - 1].epoch = history'[n].epoch
    => Alike(torn', Apply(history'[n - 1].recs, change), history'[n].recs)

LEMMA LeadsStay ==
  ASSUME Shape, Numbers, Grown, NEW n \in Nat, n <= mem.seq, NEW c, Leads(n, c)
  PROVE  LeadsThen(n, c)
  <1> SUFFICES ASSUME n \in DOMAIN history', n - 1 \in DOMAIN history',
                      history'[n - 1].epoch = history'[n].epoch
               PROVE  Alike(torn', Apply(history'[n - 1].recs, c), history'[n].recs)
    BY DEF LeadsThen
  <1>1. mem.seq \in Nat /\ torn \in Nat /\ torn' \in Nat
    BY Fields DEF Grown
  <1>2. n \in DOMAIN history /\ n - 1 \in DOMAIN history
    BY <1>1 DEF Grown
  <1>3. history'[n] = history[n] /\ history'[n - 1] = history[n - 1]
    BY <1>2 DEF Grown
  <1>4. Alike(torn, Apply(history[n - 1].recs, c), history[n].recs)
    BY <1>2, <1>3 DEF Leads
  <1> QED BY <1>1, <1>3, <1>4, AlikeFacts DEF Grown

(* Memory takes a state under a number that is its own, the next one of its epoch, or *)
(* a later one of a later epoch.                                                      *)
LEMMA NewName ==
  ASSUME Shape, Shape', Numbers, torn' = torn,
         history' = Named(mem'.seq, mem'.epoch, mem'.recs),
         \/ /\ mem'.seq = mem.seq /\ mem'.epoch = mem.epoch
            /\ Alike(torn, mem'.recs, mem.recs)
         \/ mem'.seq = mem.seq + 1 /\ mem'.epoch = mem.epoch
         \/ mem'.seq > mem.seq /\ mem'.epoch > mem.epoch
  PROVE  /\ Grown /\ Numbers'
         /\ mem'.seq # mem.seq => history'[mem'.seq].recs = mem'.recs
  <1>1. /\ mem.seq \in Nat /\ mem'.seq \in Nat /\ mem.epoch \in Nat /\ mem'.epoch \in Nat
        /\ torn \in Nat
        /\ \A n \in DOMAIN history : n \in Nat /\ history[n].epoch \in Nat /\ n <= mem.seq
    <2>1. mem'.seq \in Nat /\ mem'.epoch \in Nat
      BY DEF Shape
    <2> QED BY <2>1, Fields DEF Numbers
  <1>2. \A n \in DOMAIN history : history[n].epoch <= mem.epoch
    BY <1>1 DEF Numbers
  <1>3. CASE mem'.seq = mem.seq
    <2>1. history' = history /\ mem'.epoch = mem.epoch
      BY <1>1, <1>3 DEF Named, Numbers
    <2>2. Alike(torn, mem'.recs, history[mem.seq].recs)
      BY <1>1, <1>3, AlikeFacts DEF Numbers
    <2> QED BY <1>1, <1>3, <2>1, <2>2 DEF Numbers, Grown
  <1>4. CASE mem'.seq # mem.seq
    <2> DEFINE h == [epoch |-> mem'.epoch, recs |-> mem'.recs]
    <2>1. mem'.seq > mem.seq /\ mem'.seq \notin DOMAIN history
      BY <1>1, <1>4
    <2>2. history' = With(history, mem'.seq, h)
      BY <2>1 DEF Named
    <2>3. h.epoch = mem'.epoch /\ h.recs = mem'.recs
      OBVIOUS
    <2> HIDE DEF h
    <2>4. /\ DOMAIN history' = DOMAIN history \cup {mem'.seq}
          /\ history'[mem'.seq] = h
          /\ \A k \in DOMAIN history : history'[k] = history[k]
      BY <2>1, <2>2 DEF With
    <2>5. Grown
      BY <1>1, <2>1, <2>4 DEF Grown
    <2>6. history'[mem'.seq].recs = mem'.recs /\ history'[mem'.seq].epoch = mem'.epoch
      BY <2>3, <2>4
    <2>7. \A n \in DOMAIN history' : n <= mem'.seq
      BY <1>1, <2>1, <2>4
    <2>8. \A a, b \in DOMAIN history' : a <= b => history'[a].epoch <= history'[b].epoch
      <3>1. mem.epoch <= mem'.epoch
        BY <1>1, <1>4
      <3>2. \A a \in DOMAIN history' : a # mem'.seq => a < mem'.seq /\ a \in DOMAIN history
        BY <1>1, <2>1, <2>4
      <3>3. \A a \in DOMAIN history : history'[a].epoch <= mem'.epoch
        BY <1>1, <1>2, <2>4, <3>1
      <3>4. \A a, b \in DOMAIN history : a <= b => history[a].epoch <= history[b].epoch
        BY DEF Numbers
      <3> QED BY <1>1, <2>4, <2>6, <3>2, <3>3, <3>4
    <2>9. ASSUME NEW a \in DOMAIN history', NEW b \in DOMAIN history',
                 history'[a].epoch = history'[b].epoch, NEW c \in a..b
          PROVE  c \in DOMAIN history' /\ history'[c].epoch = history'[a].epoch
      <3>1. CASE a \in DOMAIN history /\ b \in DOMAIN history
        BY <2>4, <2>9, <3>1 DEF Numbers
      <3>2. CASE a = mem'.seq
        BY <1>1, <2>1, <2>4, <2>9, <3>2
      <3>3. CASE a \in DOMAIN history /\ b = mem'.seq
        <4>1. history[a].epoch = mem'.epoch
          BY <2>4, <2>6, <2>9, <3>3
        <4>2. mem'.seq = mem.seq + 1 /\ mem'.epoch = mem.epoch
          BY <1>1, <1>2, <1>4, <3>3, <4>1
        <4>3. c = b \/ c \in a..mem.seq
          BY <1>1, <2>9, <3>3, <4>2
        <4>4. history[a].epoch = history[mem.seq].epoch /\ mem.seq \in DOMAIN history
          BY <4>1, <4>2 DEF Numbers
        <4>5. c \in a..mem.seq => c \in DOMAIN history /\ history[c].epoch = history[a].epoch
          BY <3>3, <4>4 DEF Numbers
        <4> QED BY <2>4, <2>6, <2>9, <3>3, <4>3, <4>5
      <3> QED BY <2>4, <3>1, <3>2, <3>3
    <2>10. Alike(torn', mem'.recs, history'[mem'.seq].recs)
      BY <1>1, <2>6, AlikeFacts
    <2> QED BY <2>4, <2>5, <2>6, <2>7, <2>8, <2>9, <2>10 DEF Numbers
  <1> QED BY <1>3, <1>4

(* What a start finds: the state of memory, the next one of the epoch, or a new epoch. *)
LEMMA MountedForms ==
  ASSUME Shape, Ahead, Stored, NEW keep \in BOOLEAN
  PROVE  LET s == Mounted(keep) IN
         /\ \/ s.seq = mem.seq /\ s.epoch = mem.epoch /\ Alike(torn, s.recs, mem.recs)
            \/ s.seq = mem.seq + 1 /\ s.epoch = mem.epoch
            \/ s.seq > mem.seq /\ s.epoch > mem.epoch
         /\ \/ s = [epoch |-> store.epoch, seq |-> store.seq, recs |-> store.recs] /\ Resumes
            \/ s.epoch > epochs /\ s.seq > store.seq
  <1> DEFINE s == Mounted(keep)
             A == \/ s.seq = mem.seq /\ s.epoch = mem.epoch /\ Alike(torn, s.recs, mem.recs)
                  \/ s.seq = mem.seq + 1 /\ s.epoch = mem.epoch
                  \/ s.seq > mem.seq /\ s.epoch > mem.epoch
             B == \/ /\ s = [epoch |-> store.epoch, seq |-> store.seq, recs |-> store.recs]
                     /\ Resumes
                  \/ s.epoch > epochs /\ s.seq > store.seq
  <1> SUFFICES A /\ B
    OBVIOUS
  <1>1. /\ mem.epoch \in Nat /\ mem.seq \in Nat /\ store.epoch \in Nat /\ store.seq \in Nat
        /\ epochs \in Nat /\ torn \in Nat
    BY Fields
  <1>2. CASE keep /\ Resumes
    <2>1. s = [epoch |-> store.epoch, seq |-> store.seq, recs |-> store.recs]
      BY <1>2 DEF Mounted
    <2>2. s.seq = store.seq /\ s.epoch = store.epoch /\ s.recs = store.recs
      BY <2>1
    <2>3. B
      BY <1>2, <2>1
    <2> HIDE DEF s, B
    <2>4. CASE store.epoch = mem.epoch /\ store.seq = mem.seq
      <3>1. Hash(store.recs) = Hash(mem.recs) /\ (torn = 0 => store.recs = mem.recs)
        BY <1>2, <2>4 DEF Stored, Resumes
      <3> QED BY <2>2, <2>3, <2>4, <3>1 DEF Alike
    <2>5. CASE store.epoch = mem.epoch /\ store.seq # mem.seq
      BY <1>1, <2>2, <2>3, <2>5 DEF Ahead
    <2>6. CASE store.epoch # mem.epoch
      BY <1>1, <2>2, <2>3, <2>6 DEF Ahead
    <2> QED BY <2>4, <2>5, <2>6
  <1>3. CASE ~(keep /\ Resumes)
    <2>1. s.epoch = epochs + 1 /\ s.seq = Seq0
      BY <1>3 DEF Mounted
    <2>2. Seq0 > mem.seq /\ Seq0 > store.seq
      BY <1>1 DEF Seq0
    <2> HIDE DEF s
    <2> QED BY <1>1, <2>1, <2>2 DEF Ahead
  <1> QED BY <1>2, <1>3

------------------------------------------------------------------------------
(* The keeper and Redis. *)

(* A transaction, whether its answer arrived or not. *)
LEMMA TransactGives ==
  ASSUME Shape, Transacts
  PROVE  \E c \in Batches :
           /\ up /\ commit.pc = "idle"
           /\ store' = [store EXCEPT !.seq = mem.seq + 1, !.hash = Hash(Apply(mem.recs, c)),
                                     !.recs = Apply(@, c)]
           /\ pkgs' = With(pkgs, mem.seq + 1, [change |-> c, left |-> DiffTTL])
           /\ UNCHANGED <<up, mem, history, epochs, pack, snap, objs>>
           /\ \/ commit' = [pc |-> "stored", change |-> c, age |-> 0] /\ torn' = torn
              \/ commit' = commit /\ torn' = torn + 1
  <1>1. PICK c \in Changes : CommitStore(Planned(c)) \/ CommitTorn(Planned(c))
    BY DEF Transacts
  <1>2. Planned(c) \in Batches
    BY PlannedType
  <1> QED BY <1>1, <1>2 DEF CommitStore, CommitTorn, Transaction, keeper, count

(* The fields of store and packages after it. *)
LEMMA TransactFields ==
  ASSUME Shape, NEW c,
         store' = [store EXCEPT !.seq = mem.seq + 1, !.hash = Hash(Apply(mem.recs, c)),
                                !.recs = Apply(@, c)],
         pkgs' = With(pkgs, mem.seq + 1, [change |-> c, left |-> DiffTTL])
  PROVE  /\ store'.seq = mem.seq + 1 /\ store'.epoch = store.epoch
         /\ store'.hash = Hash(Apply(mem.recs, c)) /\ store'.recs = Apply(store.recs, c)
         /\ DOMAIN pkgs' = DOMAIN pkgs \cup {mem.seq + 1}
         /\ pkgs'[mem.seq + 1].change = c /\ pkgs'[mem.seq + 1].left = DiffTTL
         /\ \A n \in DOMAIN pkgs : n # mem.seq + 1 => pkgs'[n] = pkgs[n]
  <1>1. store \in [epoch : Nat, seq : Nat, hash : SUBSET Values, recs : Recs]
    BY DEF Shape
  <1>2. /\ store'.seq = mem.seq + 1 /\ store'.epoch = store.epoch
        /\ store'.hash = Hash(Apply(mem.recs, c)) /\ store'.recs = Apply(store.recs, c)
    BY <1>1
  <1>3. /\ DOMAIN pkgs' = DOMAIN pkgs \cup {mem.seq + 1}
        /\ pkgs'[mem.seq + 1].change = c /\ pkgs'[mem.seq + 1].left = DiffTTL
        /\ \A n \in DOMAIN pkgs : n # mem.seq + 1 => pkgs'[n] = pkgs[n]
    BY DEF With
  <1> QED BY <1>2, <1>3

(* The fields of memory after a commit. *)
LEMMA MemoryFields ==
  ASSUME Shape, CommitMemory
  PROVE  /\ up /\ commit.pc = "stored" /\ commit'.pc = "publish"
         /\ commit'.change = commit.change
         /\ mem'.seq = mem.seq + 1 /\ mem'.epoch = mem.epoch
         /\ mem'.recs = Apply(mem.recs, commit.change)
         /\ history' = Named(mem'.seq, mem'.epoch, mem'.recs)
         /\ UNCHANGED <<up, store, pkgs, objs, epochs, torn, pack, snap>>
  <1>1. mem \in [epoch : Nat, seq : Nat, recs : Recs]
    BY DEF Shape
  <1>2. commit \in [pc : {"idle", "stored", "publish"}, change : Batches, age : 0..ReplyLag]
    BY DEF Shape
  <1>3. mem' = [mem EXCEPT !.seq = @ + 1, !.recs = Apply(@, commit.change)]
    BY DEF CommitMemory
  <1>4. /\ mem'.seq = mem.seq + 1 /\ mem'.epoch = mem.epoch
        /\ mem'.recs = Apply(mem.recs, commit.change)
    BY <1>1, <1>3
  <1>5. commit' = [commit EXCEPT !.pc = "publish", !.age = 0]
    BY DEF CommitMemory
  <1>6. commit'.pc = "publish" /\ commit'.change = commit.change
    BY <1>2, <1>5
  <1> QED BY <1>4, <1>6 DEF CommitMemory, redis, count

(* What a start, whole or not, writes to Redis. *)
LEMMA ResetFields ==
  ASSUME Shape, Ahead, Stored, NEW keep \in BOOLEAN, Start(keep) \/ StartFails(keep)
  PROVE  LET s == Mounted(keep) IN
         /\ ~up /\ UNCHANGED <<pkgs, objs, pack, snap, commit, torn>>
         /\ store'.epoch = s.epoch /\ store'.seq = s.seq
         /\ store'.hash = Hash(s.recs) /\ store'.recs = s.recs
         /\ s.epoch \in Nat /\ s.seq \in Nat /\ s.epoch >= store.epoch /\ s.seq >= store.seq
         /\ epochs' >= s.epoch
         /\ Start(keep) => mem' = s /\ history' = Named(mem'.seq, mem'.epoch, mem'.recs) /\ up'
         /\ StartFails(keep) => UNCHANGED <<mem, history, up>>
  <1> DEFINE s == Mounted(keep)
  <1>1. s \in [epoch : Nat, seq : Nat, recs : Recs]
    BY MountedShape
  <1>2. \/ s = [epoch |-> store.epoch, seq |-> store.seq, recs |-> store.recs]
        \/ s.epoch > epochs /\ s.seq > store.seq
    BY MountedForms
  <1>3. Start(keep) => mem' = s /\ history' = Named(mem'.seq, mem'.epoch, mem'.recs) /\ up'
    BY DEF Start
  <1>4. StartFails(keep) => UNCHANGED <<mem, history, up>>
    BY DEF StartFails, keeper
  <1>5. ~up /\ UNCHANGED <<pkgs, objs, pack, snap, commit, torn>> /\ Reset(s)
    BY DEF Start, StartFails, keeper
  <1> HIDE DEF s
  <1>6. store'.epoch = s.epoch /\ store'.seq = s.seq
        /\ store'.hash = Hash(s.recs) /\ store'.recs = s.recs
    BY <1>5 DEF Reset
  <1>7. epochs' >= s.epoch
    BY <1>1, <1>5, Fields DEF Reset
  <1>8. s.epoch \in Nat /\ s.seq \in Nat /\ s.epoch >= store.epoch /\ s.seq >= store.seq
    BY <1>1, <1>2, Fields DEF Ahead
  <1> QED BY <1>3, <1>4, <1>5, <1>6, <1>7, <1>8 DEF s

(* Numbers keep growing. *)
LEMMA NumbersStep ==
  ASSUME RInv, RNext
  PROVE  Grown /\ Numbers'
  <1>1. Shape /\ Shape' /\ Numbers /\ Ahead /\ Stored
    BY ShapeStep DEF RInv
  <1>2. mem.seq \in Nat /\ torn \in Nat
    BY <1>1, Fields
  <1>3. CASE UNCHANGED <<mem, history>>
    <2>1. torn' = torn \/ torn' = torn + 1
      BY <1>1, Writes, TransactGives
    <2>2. Grown
      BY <1>2, <1>3, <2>1 DEF Grown
    <2>3. Alike(torn', mem.recs, history[mem.seq].recs)
      BY <1>1, <1>2, <2>2, AlikeFacts DEF Numbers, Grown
    <2> QED BY <1>1, <1>3, <2>2, <2>3 DEF Numbers
  <1>4. CASE CommitMemory
    BY <1>1, <1>4, MemoryFields, NewName
  <1>5. CASE Starts
    <2>1. PICK keep \in BOOLEAN : Start(keep)
      BY <1>5 DEF Starts
    <2>2. mem' = Mounted(keep) /\ history' = Named(mem'.seq, mem'.epoch, mem'.recs) /\ torn' = torn
      BY <1>1, <2>1, ResetFields
    <2>3. \/ mem'.seq = mem.seq /\ mem'.epoch = mem.epoch /\ Alike(torn, mem'.recs, mem.recs)
          \/ mem'.seq = mem.seq + 1 /\ mem'.epoch = mem.epoch
          \/ mem'.seq > mem.seq /\ mem'.epoch > mem.epoch
      BY <1>1, <2>2, MountedForms
    <2> QED BY <1>1, <2>2, <2>3, NewName
  <1> QED BY <1>3, <1>4, <1>5, Writes

(* Time leaves of the packages some, and those as they are. *)
LEMMA ClockGives ==
  ASSUME Shape, Clock
  PROVE  /\ \A n \in DOMAIN pkgs' : n \in DOMAIN pkgs /\ pkgs'[n].change = pkgs[n].change
         /\ \A n \in DOMAIN pkgs : pkgs[n].left > 1 =>
              n \in DOMAIN pkgs' /\ pkgs'[n].left = pkgs[n].left - 1
         /\ \A o \in DOMAIN objs' : /\ o \in DOMAIN objs /\ objs'[o].recs = objs[o].recs
                                    /\ objs[o].left > 1 /\ objs'[o].left = objs[o].left - 1
         /\ \A o \in DOMAIN objs : objs[o].left > 1 => o \in DOMAIN objs'
         /\ UNCHANGED <<up, mem, store, frames, mirror, history, epochs, torn>>
  <1>1. \A n \in DOMAIN pkgs' : pkgs'[n] = [pkgs[n] EXCEPT !.left = @ - 1]
    BY ElapsedGives DEF Clock
  <1>2. \A o \in DOMAIN objs' : objs'[o] = [objs[o] EXCEPT !.left = @ - 1]
    BY ElapsedGives DEF Clock
  <1>3. /\ DOMAIN pkgs' = {n \in DOMAIN pkgs : pkgs[n].left > 1}
        /\ DOMAIN objs' = {o \in DOMAIN objs : objs[o].left > 1}
    BY ElapsedGives DEF Clock
  <1>4. \A n \in DOMAIN pkgs : pkgs[n] \in [change : Batches, left : 0..DiffTTL]
    BY DEF Shape
  <1>5. \A o \in DOMAIN objs : objs[o] \in [recs : Recs, left : 1..SnapshotTTL]
    BY DEF Shape
  <1>6. \A n \in DOMAIN pkgs' : pkgs'[n].change = pkgs[n].change /\ pkgs'[n].left = pkgs[n].left - 1
    BY <1>1, <1>3, <1>4
  <1>7. \A o \in DOMAIN objs' : objs'[o].recs = objs[o].recs /\ objs'[o].left = objs[o].left - 1
    BY <1>2, <1>3, <1>5
  <1>8. UNCHANGED <<up, mem, store, frames, mirror, history, epochs, torn>>
    BY DEF Clock, count
  <1> QED BY <1>3, <1>6, <1>7, <1>8

(* Redis stays at the number of memory or one ahead. *)
LEMMA AheadStep ==
  ASSUME RInv, RNext
  PROVE  Ahead'
  <1>1. Shape /\ Shape' /\ Ahead /\ Stored /\ Committing
    BY ShapeStep DEF RInv
  <1>2. /\ mem.epoch \in Nat /\ mem.seq \in Nat /\ store.epoch \in Nat /\ store.seq \in Nat
        /\ epochs \in Nat /\ \A n \in DOMAIN pkgs : n \in Nat
    BY <1>1, Fields
  <1>3. CASE Transacts
    <2>1. PICK c \in Batches :
            /\ up /\ UNCHANGED <<up, mem, epochs>>
            /\ store' = [store EXCEPT !.seq = mem.seq + 1, !.hash = Hash(Apply(mem.recs, c)),
                                      !.recs = Apply(@, c)]
            /\ pkgs' = With(pkgs, mem.seq + 1, [change |-> c, left |-> DiffTTL])
      BY <1>1, <1>3, TransactGives
    <2>2. /\ store'.seq = mem.seq + 1 /\ store'.epoch = store.epoch
          /\ DOMAIN pkgs' = DOMAIN pkgs \cup {mem.seq + 1}
      BY <1>1, <2>1, TransactFields
    <2> QED BY <1>1, <1>2, <2>1, <2>2 DEF Ahead
  <1>4. CASE CommitMemory
    <2>1. /\ mem'.seq = mem.seq + 1 /\ mem'.epoch = mem.epoch /\ store.seq = mem.seq + 1
          /\ UNCHANGED <<up, store, pkgs, epochs>> /\ up
      BY <1>1, <1>4, MemoryFields DEF Committing
    <2> QED BY <1>1, <1>2, <2>1 DEF Ahead
  <1>5. ASSUME NEW keep \in BOOLEAN, Start(keep) \/ StartFails(keep)
        PROVE  Ahead'
    <2> DEFINE s == Mounted(keep)
    <2>1. /\ ~up /\ UNCHANGED pkgs
          /\ store'.epoch = s.epoch /\ store'.seq = s.seq
          /\ s.epoch \in Nat /\ s.seq \in Nat /\ s.epoch >= store.epoch /\ s.seq >= store.seq
          /\ epochs' >= s.epoch
      BY <1>1, <1>5, ResetFields
    <2>2. \A n \in DOMAIN pkgs' : n <= store'.seq
      BY <1>1, <1>2, <2>1 DEF Ahead
    <2>3. CASE Start(keep)
      <3>1. mem' = s
        BY <1>1, <2>3, ResetFields
      <3> HIDE DEF s
      <3> QED BY <2>1, <2>2, <3>1, <1>1 DEF Ahead, Shape
    <2>4. CASE StartFails(keep)
      <3>1. UNCHANGED <<mem, up>>
        BY <1>1, <2>4, ResetFields
      <3>2. \/ s.epoch = store.epoch /\ s.seq = store.seq
            \/ s.epoch > epochs /\ s.seq > store.seq
        BY <1>1, MountedForms
      <3>3. epochs' \in Nat
        BY <1>1 DEF Shape
      <3> HIDE DEF s
      <3> QED BY <1>1, <1>2, <2>1, <2>2, <3>1, <3>2, <3>3 DEF Ahead
    <2> QED BY <1>5, <2>3, <2>4
  <1>6. CASE Crash
    <2>1. ~up' /\ UNCHANGED <<mem, store, pkgs, epochs>>
      BY <1>6 DEF Crash, redis
    <2> QED BY <1>1, <2>1 DEF Ahead
  <1>7. CASE Clock
    BY <1>1, <1>7, ClockGives DEF Ahead
  <1>8. CASE UNCHANGED <<up, mem, store, pkgs, epochs>>
    BY <1>1, <1>8 DEF Ahead
  <1> QED BY <1>3, <1>4, <1>5, <1>6, <1>7, <1>8, Writes DEF Starts

(* Redis keeps holding what memory has, or will have. *)
LEMMA StoredStep ==
  ASSUME RInv, RNext
  PROVE  Stored'
  <1>1. Shape /\ Shape' /\ Ahead /\ Stored /\ Committing
    BY ShapeStep DEF RInv
  <1>2. /\ mem.epoch \in Nat /\ mem.seq \in Nat /\ store.epoch \in Nat /\ store.seq \in Nat
        /\ epochs \in Nat /\ torn \in Nat /\ \A n \in DOMAIN pkgs : n \in Nat
    BY <1>1, Fields
  <1>3. CASE Transacts
    <2>1. PICK c \in Batches :
            /\ up /\ UNCHANGED <<up, mem>> /\ commit.pc = "idle"
            /\ store' = [store EXCEPT !.seq = mem.seq + 1, !.hash = Hash(Apply(mem.recs, c)),
                                      !.recs = Apply(@, c)]
            /\ pkgs' = With(pkgs, mem.seq + 1, [change |-> c, left |-> DiffTTL])
            /\ \/ commit' = [pc |-> "stored", change |-> c, age |-> 0] /\ torn' = torn
               \/ commit' = commit /\ torn' = torn + 1
      BY <1>1, <1>3, TransactGives
    <2>2. /\ store'.seq = mem.seq + 1 /\ store'.epoch = store.epoch
          /\ store'.hash = Hash(Apply(mem.recs, c)) /\ store'.recs = Apply(store.recs, c)
          /\ pkgs'[mem.seq + 1].change = c
      BY <1>1, <2>1, TransactFields
    <2>3. torn' = 0 => torn = 0 /\ commit'.pc = "stored"
      BY <1>2, <2>1
    <2>4. torn = 0 => store.recs = mem.recs
      BY <1>1, <2>1 DEF Stored, Ahead
    <2> QED BY <1>2, <2>1, <2>2, <2>3, <2>4 DEF Stored
  <1>4. CASE CommitMemory
    <2>1. /\ mem'.seq = mem.seq + 1 /\ mem'.recs = Apply(mem.recs, commit.change)
          /\ UNCHANGED <<up, store, pkgs, torn>>
          /\ store.seq = mem.seq + 1 /\ store.hash = Hash(Apply(mem.recs, commit.change))
          /\ torn = 0 => store.recs = Apply(mem.recs, commit.change)
      BY <1>1, <1>4, MemoryFields DEF Committing
    <2>2. mem'.seq + 1 \notin DOMAIN pkgs'
      BY <1>1, <1>2, <2>1 DEF Ahead
    <2> QED BY <2>1, <2>2 DEF Stored
  <1>5. ASSUME NEW keep \in BOOLEAN, Start(keep) \/ StartFails(keep)
        PROVE  Stored'
    <2> DEFINE s == Mounted(keep)
    <2>1. /\ ~up /\ UNCHANGED <<pkgs, torn>>
          /\ store'.epoch = s.epoch /\ store'.seq = s.seq
          /\ store'.hash = Hash(s.recs) /\ store'.recs = s.recs
          /\ s.epoch \in Nat /\ s.seq \in Nat /\ s.epoch >= store.epoch /\ s.seq >= store.seq
      BY <1>1, <1>5, ResetFields
    <2>2. CASE Start(keep)
      <3>1. mem' = s
        BY <1>1, <2>2, ResetFields
      <3> HIDE DEF s
      <3>2. mem'.seq + 1 \notin DOMAIN pkgs'
        BY <1>1, <1>2, <2>1, <3>1 DEF Ahead
      <3> QED BY <2>1, <3>1, <3>2 DEF Stored
    <2>3. CASE StartFails(keep)
      <3>1. UNCHANGED <<mem, up>>
        BY <1>1, <2>3, ResetFields
      <3>2. CASE s = [epoch |-> store.epoch, seq |-> store.seq, recs |-> store.recs] /\ Resumes
        <4>1. s.epoch = store.epoch /\ s.seq = store.seq /\ s.recs = store.recs
              /\ Hash(s.recs) = store.hash
          BY <3>2 DEF Resumes
        <4> HIDE DEF s
        <4> QED BY <1>1, <2>1, <3>1, <4>1 DEF Stored
      <3>3. CASE s.epoch > epochs
        <4> HIDE DEF s
        <4>1. store'.epoch # mem.epoch
          BY <1>1, <1>2, <2>1, <3>3 DEF Ahead
        <4> QED BY <2>1, <3>1, <4>1 DEF Stored
      <3> QED BY <1>1, <3>2, <3>3, MountedForms
    <2> QED BY <1>5, <2>2, <2>3
  <1>6. CASE Crash
    <2>1. ~up' /\ UNCHANGED <<mem, store, pkgs, torn>>
      BY <1>6 DEF Crash, redis
    <2> QED BY <1>1, <2>1 DEF Stored
  <1>7. CASE Clock
    <2>1. commit'.pc = commit.pc
      BY <1>1, <1>7 DEF Clock, Shape
    <2> QED BY <1>1, <1>7, <2>1, ClockGives DEF Stored
  <1>8. CASE CommitPublish
    <2>1. commit.pc = "publish" /\ UNCHANGED <<up, mem, store, pkgs, torn>>
      BY <1>8 DEF CommitPublish, redis, count
    <2> QED BY <1>1, <2>1 DEF Stored
  <1>9. CASE UNCHANGED <<up, mem, store, pkgs, torn, commit>>
    BY <1>1, <1>9 DEF Stored
  <1> QED BY <1>3, <1>4, <1>5, <1>6, <1>7, <1>8, <1>9, Writes DEF Starts

(* The batch in memory leads to the number it gets. *)
LEMMA MemoryLeads ==
  ASSUME RInv, RNext, CommitMemory
  PROVE  Alike(torn', Apply(history'[mem.seq].recs, commit.change), history'[mem.seq + 1].recs)
  <1> DEFINE c == commit.change
  <1>1. Shape /\ Numbers /\ Grown
    BY NumbersStep DEF RInv
  <1>2. /\ mem'.seq = mem.seq + 1 /\ mem'.recs = Apply(mem.recs, c) /\ commit.change = c
        /\ mem.seq \in Nat /\ torn \in Nat /\ torn' = torn
    BY <1>1, Fields, MemoryFields
  <1>3. history'[mem.seq + 1].recs = Apply(mem.recs, c)
    <2>1. Shape' /\ mem'.epoch = mem.epoch /\ history' = Named(mem'.seq, mem'.epoch, mem'.recs)
      BY <1>1, ShapeStep, MemoryFields
    <2> QED BY <1>1, <1>2, <2>1, NewName
  <1>4. history'[mem.seq] = history[mem.seq]
    BY <1>1 DEF Grown, Numbers
  <1>5. Alike(torn, Apply(history[mem.seq].recs, c), Apply(mem.recs, c))
    BY <1>1, <1>2, AlikeApply, AlikeFacts DEF Numbers
  <1> QED BY <1>2, <1>3, <1>4, <1>5

(* Packages keep leading to their numbers. *)
LEMMA PackagesStep ==
  ASSUME RInv, RNext
  PROVE  Packages'
  <1>1. Shape /\ Shape' /\ Numbers /\ Numbers' /\ Ahead /\ Ahead' /\ Stored /\ Packages /\ Committing
    BY ShapeStep, NumbersStep, AheadStep DEF RInv
  <1>2. Grown
    BY NumbersStep
  <1>3. /\ mem.epoch \in Nat /\ mem.seq \in Nat /\ store.epoch \in Nat /\ store.seq \in Nat
        /\ torn \in Nat /\ \A n \in DOMAIN pkgs : n \in Nat
        /\ \A n \in DOMAIN history : n \in Nat /\ history[n].epoch \in Nat
    BY <1>1, Fields
  <1>4. \A n \in DOMAIN pkgs : n <= mem.seq => LeadsThen(n, pkgs[n].change)
    BY <1>1, <1>2, <1>3, LeadsStay DEF Packages
  <1> SUFFICES ASSUME NEW n \in DOMAIN pkgs', n \in DOMAIN history', n - 1 \in DOMAIN history',
                      history'[n - 1].epoch = history'[n].epoch
               PROVE  Alike(torn', Apply(history'[n - 1].recs, pkgs'[n].change), history'[n].recs)
    BY DEF Packages, Leads
  <1>5. CASE UNCHANGED <<mem, history>>
    <2>1. n <= mem.seq
      BY <1>1, <1>5 DEF Numbers
    <2>2. n \in DOMAIN pkgs /\ pkgs'[n].change = pkgs[n].change
      <3>1. CASE Transacts
        <4>1. PICK c \in Batches :
            /\ store' = [store EXCEPT !.seq = mem.seq + 1, !.hash = Hash(Apply(mem.recs, c)),
                                      !.recs = Apply(@, c)]
            /\ pkgs' = With(pkgs, mem.seq + 1, [change |-> c, left |-> DiffTTL])
          BY <1>1, <3>1, TransactGives
        <4>2. /\ DOMAIN pkgs' = DOMAIN pkgs \cup {mem.seq + 1}
              /\ \A k \in DOMAIN pkgs : k # mem.seq + 1 => pkgs'[k] = pkgs[k]
          BY <1>1, <4>1, TransactFields
        <4> QED BY <1>3, <2>1, <4>2
      <3> QED BY <1>1, <3>1, Writes, ClockGives
    <2> QED BY <1>4, <2>1, <2>2 DEF LeadsThen
  <1>6. CASE CommitMemory
    <2>1. pkgs' = pkgs /\ mem'.seq = mem.seq + 1
      BY <1>1, <1>6, MemoryFields
    <2>2. n <= mem.seq + 1
      BY <1>1, <2>1 DEF Numbers
    <2>3. CASE n = mem.seq + 1
      <3>1. pkgs'[n].change = commit.change
        BY <1>1, <1>6, <2>1, <2>3, MemoryFields DEF Committing
      <3>2. n - 1 = mem.seq
        BY <1>3, <2>3
      <3> QED BY <1>6, <2>3, <3>1, <3>2, MemoryLeads
    <2> QED BY <1>3, <1>4, <2>1, <2>2, <2>3 DEF LeadsThen
  <1>7. CASE Starts
    <2>1. PICK keep \in BOOLEAN : Start(keep)
      BY <1>7 DEF Starts
    <2> DEFINE s == Mounted(keep)
    <2>2. /\ mem' = s /\ pkgs' = pkgs /\ torn' = torn
          /\ history' = Named(mem'.seq, mem'.epoch, mem'.recs)
      BY <1>1, <2>1, ResetFields
    <2>3. /\ \/ s.seq = mem.seq /\ s.epoch = mem.epoch /\ Alike(torn, s.recs, mem.recs)
             \/ s.seq = mem.seq + 1 /\ s.epoch = mem.epoch
             \/ s.seq > mem.seq /\ s.epoch > mem.epoch
          /\ \/ s = [epoch |-> store.epoch, seq |-> store.seq, recs |-> store.recs] /\ Resumes
             \/ s.epoch > epochs /\ s.seq > store.seq
      BY <1>1, MountedForms
    <2>4. CASE n <= mem.seq
      BY <1>4, <2>2, <2>4 DEF LeadsThen
    <2>5. CASE n > mem.seq
      <3>1. n = mem'.seq /\ n \notin DOMAIN history
        <4>1. history' = history \/ DOMAIN history' = DOMAIN history \cup {mem'.seq}
          BY <2>2 DEF Named, With
        <4> QED BY <1>1, <1>3, <2>5, <4>1 DEF Numbers
      <3>2. n - 1 \in DOMAIN history /\ history'[n - 1] = history[n - 1]
        <4>1. history' = history \/ DOMAIN history' = DOMAIN history \cup {mem'.seq}
          BY <2>2 DEF Named, With
        <4> QED BY <1>2, <1>3, <2>2, <2>5, <3>1, <4>1 DEF Grown
      <3>3. history[n - 1].epoch <= mem.epoch
        BY <1>1, <1>3, <3>2 DEF Numbers
      <3>4. history'[n].epoch = s.epoch
        BY <1>1, <2>2, <3>1 DEF Numbers
      <3> HIDE DEF s
      <3>5. s.seq = mem.seq + 1 /\ s.epoch = mem.epoch
        BY <1>3, <2>2, <2>3, <2>5, <3>1, <3>2, <3>3, <3>4
      <3>6. s = [epoch |-> store.epoch, seq |-> store.seq, recs |-> store.recs] /\ Resumes
        BY <1>1, <1>3, <2>3, <3>5, Fields DEF Ahead
      <3>7. s.recs = store.recs /\ s.epoch = store.epoch /\ s.seq = store.seq
        BY <3>6
      <3>8. n = mem.seq + 1 /\ n - 1 = mem.seq
        BY <1>3, <2>2, <3>1, <3>5
      <3>9. Alike(torn, Apply(mem.recs, pkgs[n].change), s.recs)
        BY <1>1, <2>2, <3>5, <3>6, <3>7, <3>8 DEF Stored, Resumes, Alike
      <3>10. Alike(torn, Apply(history[n - 1].recs, pkgs[n].change), Apply(mem.recs, pkgs[n].change))
        BY <1>1, <1>3, <3>8, AlikeApply, AlikeFacts DEF Numbers
      <3>11. history'[n].recs = s.recs
        BY <1>1, <1>3, <2>2, <3>1, <3>5, NewName
      <3> QED BY <1>3, <2>2, <3>2, <3>9, <3>10, <3>11, AlikeFacts
    <2> QED BY <1>3, <2>2, <2>4, <2>5
  <1> QED BY <1>5, <1>6, <1>7, Writes

(* The same after the step, and that time takes one from it. *)
WillLast(n, t) == t > 0 => n \in DOMAIN pkgs' /\ pkgs'[n].left >= t

LEMMA LastsOn ==
  ASSUME Shape, Clock, NEW n, NEW t \in Int, Lasts(n, t)
  PROVE  WillLast(n, t - 1)
  <1> SUFFICES ASSUME t > 1 PROVE n \in DOMAIN pkgs' /\ pkgs'[n].left >= t - 1
    BY DEF WillLast
  <1>1. n \in DOMAIN pkgs /\ pkgs[n].left >= t
    BY DEF Lasts
  <1>2. pkgs[n].left \in Nat
    BY <1>1, Fields, TTLs
  <1>3. pkgs[n].left > 1
    BY <1>1, <1>2
  <1>4. n \in DOMAIN pkgs' /\ pkgs'[n].left = pkgs[n].left - 1
    BY <1>1, <1>3, ClockGives
  <1> QED BY <1>1, <1>2, <1>4

(* The committer keeps what it needs between its steps. *)
LEMMA CommittingStep ==
  ASSUME RInv, RNext
  PROVE  Committing'
  <1>1. /\ Shape /\ Shape' /\ Numbers /\ Numbers' /\ Ahead /\ Stored /\ Committing /\ Lifetimes
        /\ Grown
    BY ShapeStep, NumbersStep DEF RInv
  <1>2. /\ mem.seq \in Nat /\ torn \in Nat /\ mem'.seq \in Nat
        /\ commit.age \in 0..ReplyLag
        /\ \A n \in DOMAIN pkgs : n \in Nat /\ pkgs[n].left \in 0..DiffTTL
    BY <1>1, Fields DEF Shape
  <1>3. commit \in [pc : {"idle", "stored", "publish"}, change : Batches, age : 0..ReplyLag]
    BY <1>1 DEF Shape
  <1>4. ~up' => commit'.pc = "idle" /\ pack'.pc = "idle" /\ snap' = NoSnap
    <2>1. CASE Crash
      BY <2>1 DEF Crash, NoBatch, Idle
    <2>2. CASE Starts
      BY <2>2 DEF Starts, Start
    <2>3. ASSUME ~up, Clock
          PROVE  commit'.pc = "idle" /\ pack'.pc = "idle" /\ snap' = NoSnap
      BY <1>1, <2>3 DEF Committing, Clock, Usable
    <2>4. ASSUME ~up PROVE ~Transacts /\ ~CommitMemory /\ ~CommitPublish /\ ~Snapshots
      BY <2>4 DEF Transacts, CommitStore, CommitTorn, CommitMemory, CommitPublish, Snapshots,
                  SnapshotCached, SnapshotRead, SnapshotPut, SnapshotFails, SnapshotEnd
    <2>5. SnapshotEnd => Snapshots
      BY DEF Snapshots
    <2> QED BY <1>1, <2>1, <2>2, <2>3, <2>4, <2>5, Writes DEF Committing
  <1>5. ASSUME commit'.pc = "publish"
        PROVE  Leads(mem.seq, commit.change)'
    <2>1. CASE CommitMemory
      <3>1. mem'.seq = mem.seq + 1 /\ commit'.change = commit.change /\ mem'.seq - 1 = mem.seq
        BY <1>1, <1>2, <2>1, MemoryFields
      <3> QED BY <2>1, <3>1, MemoryLeads DEF Leads
    <2>2. CASE commit.pc = "publish" /\ commit'.change = commit.change /\ UNCHANGED mem
      <3>1. LeadsThen(mem.seq, commit.change)
        BY <1>1, <1>2, <2>2, LeadsStay DEF Committing
      <3> QED BY <2>2, <3>1 DEF Leads, LeadsThen
    <2>3. CASE Transacts
      <3>1. PICK c \in Batches :
              /\ commit.pc = "idle"
              /\ \/ commit' = [pc |-> "stored", change |-> c, age |-> 0]
                 \/ commit' = commit
        BY <1>1, <2>3, TransactGives
      <3> QED BY <1>5, <3>1
    <2>4. CASE CommitPublish \/ Crash
      BY <1>5, <2>4 DEF CommitPublish, Crash, NoBatch
    <2>5. CASE Starts
      <3>1. ~up /\ commit' = commit
        BY <2>5 DEF Starts, Start
      <3> QED BY <1>1, <1>5, <3>1 DEF Committing
    <2>6. CASE Clock
      <3>1. commit'.pc = commit.pc /\ commit'.change = commit.change /\ UNCHANGED mem
        BY <1>3, <2>6 DEF Clock
      <3> QED BY <1>5, <2>2, <3>1
    <2> QED BY <1>5, <2>1, <2>2, <2>3, <2>4, <2>5, <2>6, Writes
  <1> DEFINE S(c) ==
       /\ store'.seq = mem'.seq + 1
       /\ store'.hash = Hash(Apply(mem'.recs, commit'.change))
       /\ torn' = 0 => store'.recs = Apply(mem'.recs, commit'.change)
       /\ mem'.seq + 1 \in DOMAIN pkgs' => pkgs'[mem'.seq + 1].change = commit'.change
       /\ WillLast(mem'.seq + 1, DiffTTL - c)
  <1>6. ASSUME commit'.pc = "stored" PROVE S(commit'.age)
    <2>1. CASE Transacts
      <3>1. PICK c \in Batches :
            /\ up /\ UNCHANGED mem /\ commit.pc = "idle"
            /\ store' = [store EXCEPT !.seq = mem.seq + 1, !.hash = Hash(Apply(mem.recs, c)),
                                      !.recs = Apply(@, c)]
            /\ pkgs' = With(pkgs, mem.seq + 1, [change |-> c, left |-> DiffTTL])
            /\ \/ commit' = [pc |-> "stored", change |-> c, age |-> 0] /\ torn' = torn
               \/ commit' = commit /\ torn' = torn + 1
        BY <1>1, <2>1, TransactGives
      <3>2. /\ store'.seq = mem.seq + 1 /\ store'.epoch = store.epoch
            /\ store'.hash = Hash(Apply(mem.recs, c)) /\ store'.recs = Apply(store.recs, c)
            /\ pkgs'[mem.seq + 1].change = c /\ pkgs'[mem.seq + 1].left = DiffTTL
            /\ mem.seq + 1 \in DOMAIN pkgs'
        BY <1>1, <3>1, TransactFields
      <3>3. commit' = [pc |-> "stored", change |-> c, age |-> 0] /\ torn' = torn
        BY <1>6, <3>1
      <3>4. torn = 0 => store.recs = mem.recs
        BY <1>1, <3>1 DEF Stored, Ahead
      <3>5. WillLast(mem.seq + 1, DiffTTL - 0)
        BY <3>2, TTLs DEF WillLast
      <3> QED BY <3>1, <3>2, <3>3, <3>4, <3>5
    <2>2. CASE Clock
      <3>1. commit.pc = "stored" /\ commit'.change = commit.change
            /\ commit.age < ReplyLag /\ commit'.age = commit.age + 1
        BY <1>3, <1>6, <2>2 DEF Clock
      <3>2. /\ mem.seq + 1 \in DOMAIN pkgs => pkgs[mem.seq + 1].change = commit.change
            /\ Lasts(mem.seq + 1, DiffTTL - commit.age)
        BY <1>1, <3>1 DEF Committing
      <3>3. /\ mem.seq + 1 \in DOMAIN pkgs' =>
                 mem.seq + 1 \in DOMAIN pkgs /\ pkgs'[mem.seq + 1].change = pkgs[mem.seq + 1].change
            /\ UNCHANGED <<mem, store, torn>>
        BY <1>1, <2>2, ClockGives
      <3>4. WillLast(mem.seq + 1, DiffTTL - commit'.age)
        <4>1. DiffTTL - commit.age \in Int
          BY <1>2, TTLs
        <4>2. WillLast(mem.seq + 1, (DiffTTL - commit.age) - 1)
          BY <1>1, <2>2, <3>2, <4>1, LastsOn
        <4>3. DiffTTL - commit'.age = (DiffTTL - commit.age) - 1
          BY <1>2, <3>1, TTLs
        <4> QED BY <4>2, <4>3
      <3> QED BY <1>1, <3>1, <3>2, <3>3, <3>4 DEF Committing
    <2>3. CASE CommitMemory
      BY <1>1, <1>6, <2>3, MemoryFields
    <2>4. CASE CommitPublish \/ Crash
      BY <1>6, <2>4 DEF CommitPublish, Crash, NoBatch
    <2>5. ASSUME NEW keep \in BOOLEAN, Start(keep) \/ StartFails(keep) PROVE FALSE
      <3>1. ~up /\ commit' = commit
        BY <1>1, <2>5, ResetFields
      <3> QED BY <1>1, <1>6, <3>1 DEF Committing
    <2>6. CASE UNCHANGED <<mem, store, pkgs, commit, torn>>
      BY <1>1, <1>6, <2>6 DEF Committing, Lasts, WillLast
    <2> QED BY <2>1, <2>2, <2>3, <2>4, <2>5, <2>6, Writes DEF Starts
  <1> QED BY <1>4, <1>5, <1>6 DEF Committing, Lasts, WillLast

(* Frames stay true of what their numbers name. *)
LEMMA FramesStep ==
  ASSUME RInv, RNext
  PROVE  Frames'
  <1>1. Shape /\ Numbers /\ Numbers' /\ Committing /\ Frames /\ Grown
    BY NumbersStep DEF RInv
  <1>2. mem.seq \in Nat /\ torn \in Nat /\ torn' \in Nat
    BY <1>1, Fields DEF Grown
  <1> DEFINE Fine(f) == /\ f.seq \in DOMAIN history' /\ history'[f.seq].epoch = f.epoch
                        /\ f.hash = Hash(history'[f.seq].recs)
                        /\ f.inline # NoChange => LeadsThen(f.seq, f.inline)
  <1>3. ASSUME NEW f \in frames PROVE Fine(f)
    <2>1. f.seq \in DOMAIN history /\ f.seq <= mem.seq /\ f.seq \in Nat
      BY <1>1, Fields DEF Frames, Numbers
    <2>2. history'[f.seq] = history[f.seq] /\ f.seq \in DOMAIN history'
      BY <1>1, <2>1 DEF Grown
    <2>3. f.inline # NoChange => LeadsThen(f.seq, f.inline)
      BY <1>1, <2>1, LeadsStay DEF Frames
    <2> QED BY <1>1, <2>2, <2>3 DEF Frames
  <1>4. Hash(mem'.recs) = Hash(history'[mem'.seq].recs)
    BY <1>1, <1>2, AlikeFacts DEF Numbers
  <1>5. Fine(TickOf(mem'))
    BY <1>1, <1>4 DEF Numbers, TickOf
  <1>6. ASSUME NEW f \in frames' PROVE Fine(f)
    <2>1. CASE Tick \/ Starts
      <3>1. f \in frames \/ f = TickOf(mem')
        BY <1>6, <2>1 DEF Tick, Starts, Start, keeper
      <3> QED BY <1>3, <1>5, <3>1
    <2>2. CASE CommitPublish
      <3> DEFINE c == IF commit.change \in Small THEN commit.change ELSE NoChange
      <3>1. /\ f \in frames \/ f = [TickOf(mem) EXCEPT !.inline = c]
            /\ commit.pc = "publish" /\ UNCHANGED <<mem, history, torn>>
        BY <1>6, <2>2 DEF CommitPublish, count
      <3>2. c # NoChange => c = commit.change
        OBVIOUS
      <3> HIDE DEF c
      <3>3. ASSUME f = [TickOf(mem) EXCEPT !.inline = c] PROVE Fine(f)
        <4>1. /\ f.seq = mem.seq /\ f.epoch = mem.epoch /\ f.hash = Hash(mem.recs) /\ f.inline = c
          BY <3>3 DEF TickOf
        <4>2. c # NoChange => LeadsThen(mem.seq, c)
          BY <1>1, <1>2, <3>1, <3>2, LeadsStay DEF Committing
        <4> QED BY <1>1, <1>4, <3>1, <4>1, <4>2 DEF Numbers
      <3> QED BY <1>3, <3>1, <3>3
    <2>3. CASE UNCHANGED frames
      BY <1>3, <1>6, <2>3
    <2> QED BY <2>1, <2>2, <2>3, Writes
  <1> QED BY <1>6 DEF Frames, Leads, LeadsThen

------------------------------------------------------------------------------
(* Snapshots and mirrors. *)

(* The fields of what a snapshot call writes. *)
LEMMA PutFields ==
  ASSUME Shape, PutObject
  PROVE  /\ DOMAIN objs' = DOMAIN objs \cup {Key(pack)}
         /\ objs'[Key(pack)].recs = pack.recs /\ objs'[Key(pack)].left = SnapshotTTL
         /\ \A o \in DOMAIN objs : o # Key(pack) => objs'[o] = objs[o]
  <1> DEFINE k == Key(pack)
             p == [recs |-> pack.recs, left |-> SnapshotTTL]
  <1>1. objs' = With(objs, k, p)
    BY DEF PutObject, Key
  <1>2. p.recs = pack.recs /\ p.left = SnapshotTTL
    OBVIOUS
  <1> HIDE DEF k, p
  <1>3. /\ DOMAIN objs' = DOMAIN objs \cup {k} /\ objs'[k] = p
        /\ \A o \in DOMAIN objs : o # k => objs'[o] = objs[o]
    BY <1>1 DEF With
  <1> QED BY <1>2, <1>3 DEF k

(* A snapshot stays the state its key names. *)
LEMMA ObjectsStep ==
  ASSUME RInv, RNext
  PROVE  Objects'
  <1>1. Shape /\ Shape' /\ Numbers /\ Numbers' /\ Ahead /\ Stored /\ Committing /\ Objects /\ Grown
    BY ShapeStep, NumbersStep DEF RInv
  <1> DEFINE True(e, n, r) == /\ n \in DOMAIN history' /\ history'[n].epoch = e
                              /\ Alike(torn', r, history'[n].recs)
  <1>2. \A o \in DOMAIN objs : True(o[1], o[2], objs[o].recs)
    BY <1>1, NamesStay DEF Objects
  <1>3. pack.pc # "idle" => True(pack.epoch, pack.seq, pack.recs)
    BY <1>1, NamesStay DEF Objects
  <1>4. True(mem'.epoch, mem'.seq, mem'.recs)
    BY <1>1 DEF Numbers
  <1>5. pack \in Call
    BY <1>1 DEF Shape
  <1> HIDE DEF True
  <1>6. ASSUME NEW o \in DOMAIN objs' PROVE True(o[1], o[2], objs'[o].recs)
    <2>1. CASE PutObject /\ pack.pc # "idle"
      <3>1. CASE o = Key(pack)
        <4>1. o[1] = pack.epoch /\ o[2] = pack.seq /\ objs'[o].recs = pack.recs
          BY <1>1, <2>1, <3>1, PutFields DEF Key
        <4> QED BY <1>3, <2>1, <4>1
      <3>2. CASE o # Key(pack)
        BY <1>1, <1>2, <2>1, <3>2, PutFields
      <3> QED BY <3>1, <3>2
    <2>2. CASE UNCHANGED objs
      BY <1>2, <2>2
    <2>3. CASE SnapshotPut \/ SnapshotFails
      <3>1. (PutObject /\ pack.pc # "idle") \/ UNCHANGED objs
        BY <2>3 DEF SnapshotPut, SnapshotFails
      <3> QED BY <2>1, <2>2, <3>1
    <2>4. CASE Clock
      BY <1>1, <1>2, <2>4, ClockGives
    <2> QED BY <2>2, <2>3, <2>4, Writes
  <1>7. ASSUME pack'.pc # "idle"
        PROVE  True(pack'.epoch, pack'.seq, pack'.recs) /\ pack'.epoch = mem'.epoch
    <2>1. CASE pack.pc # "idle" /\ UNCHANGED mem /\ pack'.epoch = pack.epoch /\ pack'.seq = pack.seq
               /\ pack'.recs = pack.recs
      BY <1>1, <1>3, <2>1 DEF Objects
    <2>2. CASE Crash
      BY <1>7, <2>2 DEF Crash, Idle
    <2>3. CASE Clock
      <3>1. UNCHANGED mem /\ pack'.pc = pack.pc /\ pack'.epoch = pack.epoch /\ pack'.seq = pack.seq
            /\ pack'.recs = pack.recs
        BY <1>5, <2>3 DEF Clock, Call
      <3> QED BY <1>7, <2>1, <3>1
    <2>4. CASE Snapshots
      <3>1. ASSUME NEW w \in Mirrors \cup {"http"}, SnapshotCached(w) PROVE UNCHANGED <<mem, pack>>
        BY <3>1 DEF SnapshotCached, keeper
      <3>2. ASSUME NEW w \in Mirrors \cup {"http"}, SnapshotRead(w)
            PROVE  pack'.epoch = mem'.epoch /\ pack'.seq = mem'.seq /\ pack'.recs = mem'.recs
        BY <3>2 DEF SnapshotRead
      <3>3. ASSUME SnapshotPut
            PROVE  UNCHANGED mem /\ pack.pc # "idle" /\ pack'.epoch = pack.epoch
                   /\ pack'.seq = pack.seq /\ pack'.recs = pack.recs
        BY <1>5, <3>3 DEF SnapshotPut, Call
      <3>4. ~SnapshotFails /\ ~SnapshotEnd
        BY <1>7 DEF SnapshotFails, SnapshotEnd, Idle
      <3>5. CASE UNCHANGED <<mem, pack>>
        BY <1>7, <2>1, <3>5
      <3>6. CASE pack'.epoch = mem'.epoch /\ pack'.seq = mem'.seq /\ pack'.recs = mem'.recs
        BY <1>4, <3>6
      <3> QED BY <2>1, <2>4, <3>1, <3>2, <3>3, <3>4, <3>5, <3>6 DEF Snapshots
    <2>5. CASE UNCHANGED <<mem, pack>>
      BY <1>7, <2>1, <2>5
    <2>6. CASE CommitMemory
      <3>1. mem'.epoch = mem.epoch /\ pack' = pack
        BY <1>1, <2>6, MemoryFields
      <3> QED BY <1>1, <1>3, <1>7, <3>1 DEF Objects
    <2>7. CASE Starts
      <3>1. ~up /\ pack' = pack
        BY <2>7 DEF Starts, Start
      <3> QED BY <1>1, <1>7, <3>1 DEF Committing
    <2> QED BY <2>2, <2>3, <2>4, <2>5, <2>6, <2>7, Writes
  <1> QED BY <1>6, <1>7 DEF Objects, True

(* The fields of a mirror after a step of its own. *)
LEMMA TurnsFields ==
  ASSUME Shape, NEW m \in Mirrors, NEW pc, Turns(m, pc)
  PROVE  /\ mirror'[m].pc = pc /\ mirror'[m].epoch = mirror[m].epoch
         /\ mirror'[m].seq = mirror[m].seq /\ mirror'[m].recs = mirror[m].recs
         /\ \A k \in Mirrors : k # m => mirror'[k] = mirror[k]
  <1>1. mirror \in [Mirrors -> MirrorState]
    BY DEF Shape
  <1> QED BY <1>1 DEF Turns, MirrorState

LEMMA MovedFields ==
  ASSUME Shape, NEW m \in Mirrors, NEW e, NEW s, NEW r, NEW pc, Moved(m, e, s, r, pc)
  PROVE  /\ mirror'[m].pc = pc /\ mirror'[m].epoch = e
         /\ mirror'[m].seq = s /\ mirror'[m].recs = r
         /\ pc = "read" => mirror'[m].goal = mirror[m].goal
         /\ \A k \in Mirrors : k # m => mirror'[k] = mirror[k]
  <1>1. mirror \in [Mirrors -> MirrorState]
    BY DEF Shape
  <1> QED BY <1>1 DEF Moved

(* Snapshots are handed out with the epoch of memory, and move no mirror. *)
LEMMA SnapshotsFields ==
  ASSUME Shape, Objects, Snapshots, NEW m \in Mirrors
  PROVE  /\ mirror'[m].epoch = mirror[m].epoch /\ mirror'[m].seq = mirror[m].seq
         /\ mirror'[m].recs = mirror[m].recs
         /\ \/ mirror'[m] = mirror[m]
            \/ mirror'[m].pc \in {"ask", "wait"}
            \/ mirror'[m].pc = "load" /\ mirror'[m].ref[1] = mem.epoch
  <1>1. mirror \in [Mirrors -> MirrorState]
    BY DEF Shape
  <1>2. ASSUME NEW w \in Mirrors \cup {"http"}, SnapshotCached(w)
        PROVE  \/ mirror'[m] = mirror[m]
               \/ mirror'[m] = [mirror[m] EXCEPT !.pc = "load", !.ref = <<mem.epoch, snap.seq>>]
    <2>1. snap.epoch = mem.epoch
      BY <1>2 DEF SnapshotCached, Usable
    <2> QED BY <1>1, <1>2, <2>1 DEF SnapshotCached
  <1>3. ASSUME NEW w \in Mirrors \cup {"http"}, SnapshotRead(w)
        PROVE  mirror'[m] = mirror[m] \/ mirror'[m] = [mirror[m] EXCEPT !.pc = "wait"]
    BY <1>3 DEF SnapshotRead
  <1>4. ASSUME SnapshotFails
        PROVE  mirror'[m] = mirror[m] \/ mirror'[m] = [mirror[m] EXCEPT !.pc = "ask", !.ref = NoRef]
    BY <1>4 DEF SnapshotFails, Reply
  <1>5. ASSUME SnapshotEnd
        PROVE  \/ mirror'[m] = mirror[m]
               \/ mirror'[m] = [mirror[m] EXCEPT !.pc = "load", !.ref = <<mem.epoch, pack.seq>>]
    <2>1. pack.epoch = mem.epoch
      BY <1>5 DEF SnapshotEnd, Objects
    <2> QED BY <1>5, <2>1 DEF SnapshotEnd, Reply
  <1>6. SnapshotPut => mirror' = mirror
    BY DEF SnapshotPut
  <1>7. \/ mirror'[m] = mirror[m]
        \/ mirror'[m] = [mirror[m] EXCEPT !.pc = "wait"]
        \/ mirror'[m] = [mirror[m] EXCEPT !.pc = "ask", !.ref = NoRef]
        \/ \E n : mirror'[m] = [mirror[m] EXCEPT !.pc = "load", !.ref = <<mem.epoch, n>>]
    BY <1>2, <1>3, <1>4, <1>5, <1>6 DEF Snapshots
  <1>8. mirror[m] \in MirrorState
    BY <1>1
  <1>9. ASSUME NEW n, mirror'[m] = [mirror[m] EXCEPT !.pc = "load", !.ref = <<mem.epoch, n>>]
        PROVE  /\ mirror'[m].epoch = mirror[m].epoch /\ mirror'[m].seq = mirror[m].seq
               /\ mirror'[m].recs = mirror[m].recs
               /\ mirror'[m].pc = "load" /\ mirror'[m].ref[1] = mem.epoch
    <2>1. mirror'[m].ref = <<mem.epoch, n>>
      BY <1>8, <1>9 DEF MirrorState
    <2>2. mirror'[m].ref[1] = mem.epoch
      BY <2>1
    <2> QED BY <1>8, <1>9, <2>2 DEF MirrorState
  <1>10. CASE \/ mirror'[m] = mirror[m]
              \/ mirror'[m] = [mirror[m] EXCEPT !.pc = "wait"]
              \/ mirror'[m] = [mirror[m] EXCEPT !.pc = "ask", !.ref = NoRef]
    BY <1>8, <1>10 DEF MirrorState
  <1> QED BY <1>7, <1>9, <1>10

(* What a mirror does by itself: it turns to something else, or moves to a named state *)
(* with a higher number.                                                               *)
LEMMA MirrorMoves ==
  ASSUME RInv, NEW m \in Mirrors, MirrorStep(m)
  PROVE  /\ UNCHANGED <<mem, history, torn>>
         /\ \A k \in Mirrors : k # m => mirror'[k] = mirror[k]
         /\ LET x == mirror[m]
                y == mirror'[m]
            IN \/ /\ y.epoch = x.epoch /\ y.seq = x.seq /\ y.recs = x.recs
                  /\ \/ y.pc \in {"ask", "idle"}
                     \/ /\ y.pc = "read" /\ y.goal \in DOMAIN history
                        /\ history[y.goal].epoch = x.epoch /\ x.seq < y.goal
               \/ /\ y.seq > x.seq
                  /\ y.seq \in DOMAIN history /\ history[y.seq].epoch = y.epoch
                  /\ Alike(torn, y.recs, history[y.seq].recs)
                  /\ \/ y.pc = "idle"
                     \/ /\ y.pc = "read" /\ y.goal \in DOMAIN history
                        /\ history[y.goal].epoch = y.epoch /\ y.seq < y.goal
  <1> DEFINE x == mirror[m]
             y == mirror'[m]
             Rest == \A k \in Mirrors : k # m => mirror'[k] = mirror[k]
             Stays == y.epoch = x.epoch /\ y.seq = x.seq /\ y.recs = x.recs
             Reads == /\ y.pc = "read" /\ y.goal \in DOMAIN history
                      /\ history[y.goal].epoch = y.epoch /\ y.seq < y.goal
             Goes == /\ y.seq > x.seq
                     /\ y.seq \in DOMAIN history /\ history[y.seq].epoch = y.epoch
                     /\ Alike(torn, y.recs, history[y.seq].recs)
  <1>1. Shape /\ Numbers /\ Packages /\ Frames /\ Objects /\ Mirrored
    BY DEF RInv
  <1>2. UNCHANGED <<mem, history, torn>>
    BY DEF MirrorStep, Hear, ReadPackage, Timeout, LoadObject, keeper, count
  <1>3. /\ x \in MirrorState /\ x.epoch \in Nat /\ x.seq \in Nat /\ x.goal \in Nat
        /\ x.ref \in Ref /\ x.ref[1] \in Nat /\ x.ref[2] \in Nat
    BY <1>1, MirrorFields
  <1>4. /\ x.seq \in DOMAIN history /\ history[x.seq].epoch = x.epoch
        /\ Alike(torn, x.recs, history[x.seq].recs)
        /\ x.pc = "read" => /\ x.goal \in DOMAIN history /\ history[x.goal].epoch = x.epoch
                            /\ x.seq < x.goal
        /\ x.pc = "load" => x.epoch <= x.ref[1]
    BY <1>1 DEF Mirrored
  <1>5. /\ torn \in Nat
        /\ \A n \in DOMAIN history : n \in Nat /\ history[n].epoch \in Nat
    BY <1>1, Fields
  <1>6. ASSUME NEW n, n = x.seq + 1, n \in DOMAIN history, history[n].epoch = x.epoch,
               NEW c, Leads(n, c)
        PROVE  Alike(torn, Apply(x.recs, c), history[n].recs)
    <2>1. n - 1 = x.seq
      BY <1>3, <1>6
    <2>2. Alike(torn, Apply(history[x.seq].recs, c), history[n].recs)
      BY <1>4, <1>6, <2>1 DEF Leads
    <2>3. Alike(torn, Apply(x.recs, c), Apply(history[x.seq].recs, c))
      BY <1>4, <1>5, AlikeApply
    <2> QED BY <2>2, <2>3, AlikeTrans
  <1> DEFINE Result == /\ Rest
                       /\ \/ Stays /\ (y.pc \in {"ask", "idle"} \/ Reads)
                          \/ Goes /\ (y.pc = "idle" \/ Reads)
  <1>7. ASSUME NEW pc \in {"ask", "idle"}, Turns(m, pc) PROVE Result
    <2>1. Rest /\ Stays /\ y.pc = pc
      BY <1>1, <1>7, TurnsFields
    <2> QED BY <2>1
  <1>8. ASSUME NEW f \in frames, Hear(m, f) PROVE Result
    <2>1. /\ f.seq \in DOMAIN history /\ history[f.seq].epoch = f.epoch
          /\ f.inline # NoChange => Leads(f.seq, f.inline)
      BY <1>1 DEF Frames
    <2>2. CASE f.epoch = x.epoch /\ f.seq = x.seq + 1 /\ f.inline # NoChange
               /\ Moved(m, x.epoch, f.seq, Apply(x.recs, f.inline), "idle")
      <3>1. /\ y.pc = "idle" /\ y.epoch = x.epoch /\ y.seq = f.seq
            /\ y.recs = Apply(x.recs, f.inline) /\ Rest
        BY <1>1, <2>2, MovedFields
      <3>2. Alike(torn, Apply(x.recs, f.inline), history[f.seq].recs)
        BY <1>6, <2>1, <2>2
      <3> QED BY <1>3, <2>1, <2>2, <3>1, <3>2
    <2>3. CASE f.epoch = x.epoch /\ f.seq > x.seq
               /\ mirror' = [mirror EXCEPT ![m].pc = "read", ![m].goal = f.seq]
      <3>1. /\ y.pc = "read" /\ y.goal = f.seq /\ y.epoch = x.epoch /\ y.seq = x.seq
            /\ y.recs = x.recs /\ Rest
        <4>1. mirror \in [Mirrors -> MirrorState]
          BY <1>1 DEF Shape
        <4> QED BY <2>3, <4>1 DEF MirrorState
      <3> QED BY <1>3, <1>5, <2>1, <2>3, <3>1
    <2> QED BY <1>7, <1>8, <2>2, <2>3 DEF Hear
  <1>9. ASSUME ReadPackage(m) PROVE Result
    <2> DEFINE n  == x.seq + 1
               pc == IF n = x.goal THEN "idle" ELSE "read"
    <2>1. CASE n \in DOMAIN pkgs
      <3>1. Moved(m, x.epoch, n, Apply(x.recs, pkgs[n].change), pc) /\ x.pc = "read"
        BY <1>9, <2>1 DEF ReadPackage
      <3>2. (n = x.goal => pc = "idle") /\ (n # x.goal => pc = "read")
        OBVIOUS
      <3>3. n \in x.seq..x.goal
        BY <1>3, <1>4, <3>1
      <3>4. n \in DOMAIN history /\ history[n].epoch = x.epoch
        BY <1>1, <1>4, <3>1, <3>3 DEF Numbers
      <3>5. Alike(torn, Apply(x.recs, pkgs[n].change), history[n].recs)
        BY <1>1, <1>6, <2>1, <3>4 DEF Packages
      <3> HIDE DEF pc
      <3>6. /\ y.pc = pc /\ y.epoch = x.epoch /\ y.seq = n
            /\ y.recs = Apply(x.recs, pkgs[n].change) /\ Rest
            /\ pc = "read" => y.goal = x.goal
        BY <1>1, <3>1, MovedFields
      <3> QED BY <1>3, <1>4, <3>1, <3>2, <3>3, <3>4, <3>5, <3>6
    <2>2. CASE n \notin DOMAIN pkgs
      BY <1>7, <1>9, <2>2 DEF ReadPackage
    <2> QED BY <2>1, <2>2
  <1>10. ASSUME LoadObject(m) PROVE Result
    <2>1. CASE x.ref \in DOMAIN objs /\ ~(x.ref[1] = x.epoch /\ x.ref[2] <= x.seq)
               /\ Moved(m, x.ref[1], x.ref[2], objs[x.ref].recs, "idle")
      <3>1. /\ y.pc = "idle" /\ y.epoch = x.ref[1] /\ y.seq = x.ref[2]
            /\ y.recs = objs[x.ref].recs /\ Rest
        BY <1>1, <2>1, MovedFields
      <3>2. /\ x.ref[2] \in DOMAIN history /\ history[x.ref[2]].epoch = x.ref[1]
            /\ Alike(torn, objs[x.ref].recs, history[x.ref[2]].recs)
        BY <1>1, <2>1 DEF Objects
      <3>3. x.epoch <= x.ref[1]
        BY <1>4, <1>10 DEF LoadObject
      <3>4. \A a, b \in DOMAIN history : a <= b => history[a].epoch <= history[b].epoch
        BY <1>1 DEF Numbers
      <3>5. x.ref[2] > x.seq
        BY <1>3, <1>4, <2>1, <3>2, <3>3, <3>4
      <3> QED BY <3>1, <3>2, <3>5
    <2> QED BY <1>7, <1>10, <2>1 DEF LoadObject
  <1>11. Timeout(m) => Result
    BY <1>7 DEF Timeout
  <1>12. Result
    BY <1>8, <1>9, <1>10, <1>11 DEF MirrorStep
  <1> QED BY <1>2, <1>12

(* Mirrors stay at named states. *)
LEMMA MirroredStep ==
  ASSUME RInv, RNext
  PROVE  Mirrored'
  <1>1. Shape /\ Shape' /\ Numbers /\ Objects /\ Mirrored /\ Grown
    BY ShapeStep, NumbersStep DEF RInv
  <1> SUFFICES ASSUME NEW m \in Mirrors
               PROVE  LET y == mirror'[m] IN
                      /\ y.seq \in DOMAIN history' /\ history'[y.seq].epoch = y.epoch
                      /\ Alike(torn', y.recs, history'[y.seq].recs)
                      /\ y.pc = "read" =>
                           /\ y.goal \in DOMAIN history' /\ history'[y.goal].epoch = y.epoch
                           /\ y.seq < y.goal
                      /\ y.pc = "load" => y.epoch <= y.ref[1]
    BY DEF Mirrored
  <1> DEFINE x == mirror[m]
             y == mirror'[m]
  <1>2. /\ x.seq \in DOMAIN history' /\ history'[x.seq].epoch = x.epoch
        /\ Alike(torn', x.recs, history'[x.seq].recs)
    BY <1>1, NamesStay DEF Mirrored
  <1>3. x.pc = "read" => /\ x.goal \in DOMAIN history' /\ history'[x.goal].epoch = x.epoch
                         /\ x.seq < x.goal
    BY <1>1 DEF Mirrored, Grown
  <1>4. x.pc = "load" => x.epoch <= x.ref[1]
    BY <1>1 DEF Mirrored
  <1>5. x.epoch <= mem.epoch
    <2>1. x.seq \in DOMAIN history /\ history[x.seq].epoch = x.epoch
      BY <1>1 DEF Mirrored
    <2> QED BY <1>1, <2>1, Fields DEF Numbers
  <1>6. CASE y = x
    BY <1>2, <1>3, <1>4, <1>6
  <1>7. CASE Snapshots
    <2>1. /\ y.epoch = x.epoch /\ y.seq = x.seq /\ y.recs = x.recs
          /\ \/ y = x
             \/ y.pc \in {"ask", "wait"}
             \/ y.pc = "load" /\ y.ref[1] = mem.epoch
      BY <1>1, <1>7, SnapshotsFields
    <2> QED BY <1>2, <1>3, <1>4, <1>5, <2>1
  <1>8. ASSUME NEW k \in Mirrors, MirrorStep(k), y # x PROVE k = m
    BY <1>8, MirrorMoves
  <1>9. CASE MirrorStep(m)
    <2>1. UNCHANGED <<mem, history, torn>>
      BY <1>9, MirrorMoves
    <2>2. \/ /\ y.epoch = x.epoch /\ y.seq = x.seq /\ y.recs = x.recs
             /\ \/ y.pc \in {"ask", "idle"}
                \/ /\ y.pc = "read" /\ y.goal \in DOMAIN history
                   /\ history[y.goal].epoch = x.epoch /\ x.seq < y.goal
          \/ /\ y.seq \in DOMAIN history /\ history[y.seq].epoch = y.epoch
             /\ Alike(torn, y.recs, history[y.seq].recs)
             /\ \/ y.pc = "idle"
                \/ /\ y.pc = "read" /\ y.goal \in DOMAIN history
                   /\ history[y.goal].epoch = y.epoch /\ y.seq < y.goal
      BY <1>9, MirrorMoves
    <2> QED BY <1>2, <2>1, <2>2
  <1> QED BY <1>6, <1>7, <1>8, <1>9, Writes

------------------------------------------------------------------------------
(* Lifetimes. *)

LEMMA LastsLess ==
  ASSUME Shape, NEW n, NEW t \in Int, NEW u \in Int, u <= t, Lasts(n, t)
  PROVE  Lasts(n, u)
  <1> SUFFICES ASSUME u > 0 PROVE n \in DOMAIN pkgs /\ pkgs[n].left >= u
    BY DEF Lasts
  <1>1. n \in DOMAIN pkgs /\ pkgs[n].left >= t
    BY DEF Lasts
  <1>2. pkgs[n].left \in Nat
    BY <1>1, Fields, TTLs
  <1> QED BY <1>1, <1>2

(* An object that nobody writes keeps its distance to the packages after it: time takes *)
(* as much from both, and a new package has its whole life, but for a lost ReplyLag.    *)
LEMMA BridgeStays ==
  ASSUME RInv, RNext, up, NEW q \in Nat, NEW k \in DOMAIN objs, k \in DOMAIN objs',
         objs'[k] = objs[k] \/ Clock,
         \A n \in (q + 1)..mem.seq : Lasts(n, objs[k].left + Spare)
  PROVE  \A n \in (q + 1)..mem'.seq : WillLast(n, objs'[k].left + Spare)
  <1>1. Shape /\ Committing
    BY DEF RInv
  <1>2. /\ mem.seq \in Nat /\ commit.age \in 0..ReplyLag
        /\ objs[k].left \in 1..SnapshotTTL
    BY <1>1, Fields
  <1>3. ASSUME UNCHANGED <<mem, pkgs>>, objs'[k] = objs[k]
        PROVE  \A n \in (q + 1)..mem'.seq : WillLast(n, objs'[k].left + Spare)
    BY <1>3 DEF Lasts, WillLast
  <1>4. CASE Clock
    <2>1. mem' = mem /\ objs'[k].left = objs[k].left - 1
      BY <1>1, <1>4, ClockGives
    <2> SUFFICES ASSUME NEW n \in (q + 1)..mem.seq
                 PROVE  WillLast(n, objs'[k].left + Spare)
      BY <2>1
    <2>2. Lasts(n, objs[k].left + Spare)
      OBVIOUS
    <2>3. objs[k].left + Spare \in Int
      BY <1>2, TTLs
    <2>4. WillLast(n, (objs[k].left + Spare) - 1)
      BY <1>1, <1>4, <2>2, <2>3, LastsOn
    <2>5. objs'[k].left + Spare = (objs[k].left + Spare) - 1
      BY <1>2, <2>1, TTLs
    <2> QED BY <2>4, <2>5
  <1>5. CASE Transacts /\ ~Clock
    <2>1. PICK c \in Batches :
            /\ mem' = mem
            /\ store' = [store EXCEPT !.seq = mem.seq + 1, !.hash = Hash(Apply(mem.recs, c)),
                                      !.recs = Apply(@, c)]
            /\ pkgs' = With(pkgs, mem.seq + 1, [change |-> c, left |-> DiffTTL])
      BY <1>1, <1>5, TransactGives
    <2>2. /\ DOMAIN pkgs' = DOMAIN pkgs \cup {mem.seq + 1}
          /\ \A n \in DOMAIN pkgs : n # mem.seq + 1 => pkgs'[n] = pkgs[n]
      BY <1>1, <2>1, TransactFields
    <2>3. \A n \in (q + 1)..mem.seq : n # mem.seq + 1
      BY <1>2
    <2> QED BY <1>5, <2>1, <2>2, <2>3 DEF Lasts, WillLast
  <1>6. CASE CommitMemory /\ ~Clock
    <2>1. /\ mem'.seq = mem.seq + 1 /\ pkgs' = pkgs
          /\ Lasts(mem.seq + 1, DiffTTL - commit.age)
      BY <1>1, <1>6, MemoryFields DEF Committing
    <2>2. \A n \in (q + 1)..mem'.seq : n \in (q + 1)..mem.seq \/ n = mem.seq + 1
      BY <1>2, <2>1
    <2>3. objs[k].left + Spare <= DiffTTL - commit.age
      BY <1>2, TTLs
    <2>4. Lasts(mem.seq + 1, objs[k].left + Spare)
      BY <1>1, <1>2, <2>1, <2>3, LastsLess, TTLs
    <2> QED BY <1>6, <2>1, <2>2, <2>4 DEF Lasts, WillLast
  <1>7. ~Starts
    BY DEF Starts, Start
  <1> QED BY <1>3, <1>4, <1>5, <1>6, <1>7, Writes

(* The same for the packages after a state that is being packed. *)
LEMMA ReadStays ==
  ASSUME RInv, RNext, up, pack.pc = "read", pack'.pc = "read"
  PROVE  /\ pack'.age <= CallLag /\ pack'.seq = pack.seq
         /\ \A n \in (pack'.seq + 1)..mem'.seq : WillLast(n, DiffTTL - ReplyLag - pack'.age)
  <1>1. Shape /\ Committing /\ Lifetimes
    BY DEF RInv
  <1>2. /\ mem.seq \in Nat /\ commit.age \in 0..ReplyLag /\ pack.age \in Nat /\ pack.seq \in Nat
        /\ DiffTTL - ReplyLag - pack.age \in Int
    BY <1>1, Fields, TTLs
  <1>3. /\ pack.age <= CallLag
        /\ \A n \in (pack.seq + 1)..mem.seq : Lasts(n, DiffTTL - ReplyLag - pack.age)
    BY <1>1 DEF Lifetimes
  <1>4. pack \in Call
    BY <1>1 DEF Shape
  <1>5. CASE Clock
    <2>1. pack.age < CallLag /\ pack'.age = pack.age + 1 /\ pack'.seq = pack.seq
      BY <1>4, <1>5 DEF Clock, Call
    <2>2. mem' = mem
      BY <1>1, <1>5, ClockGives
    <2>3. ASSUME NEW n \in (pack.seq + 1)..mem.seq
          PROVE  WillLast(n, DiffTTL - ReplyLag - pack'.age)
      <3>1. WillLast(n, (DiffTTL - ReplyLag - pack.age) - 1)
        BY <1>1, <1>2, <1>3, <1>5, LastsOn
      <3>2. DiffTTL - ReplyLag - pack'.age = (DiffTTL - ReplyLag - pack.age) - 1
        BY <1>2, <2>1, TTLs
      <3> QED BY <3>1, <3>2
    <2>4. pack'.age <= CallLag
      BY <1>2, <2>1, TTLs
    <2> QED BY <2>1, <2>2, <2>3, <2>4
  <1>6. ~Clock => pack' = pack
    <2>1. ~SnapshotPut
      <3>1. SnapshotPut => pack' = [pack EXCEPT !.pc = "put", !.age = 0]
        BY DEF SnapshotPut
      <3> QED BY <1>4, <3>1 DEF Call
    <2>2. ASSUME NEW w \in Mirrors \cup {"http"}
          PROVE  ~SnapshotCached(w) /\ ~SnapshotRead(w)
      BY DEF SnapshotCached, SnapshotRead
    <2>3. SnapshotFails \/ SnapshotEnd \/ Crash => pack' = Idle
      BY DEF SnapshotFails, SnapshotEnd, Crash
    <2>4. Idle.pc # "read"
      BY DEF Idle
    <2> QED BY <2>1, <2>2, <2>3, <2>4, Writes DEF Snapshots
  <1>7. CASE Transacts /\ ~Clock
    <2>1. PICK c \in Batches :
            /\ mem' = mem
            /\ store' = [store EXCEPT !.seq = mem.seq + 1, !.hash = Hash(Apply(mem.recs, c)),
                                      !.recs = Apply(@, c)]
            /\ pkgs' = With(pkgs, mem.seq + 1, [change |-> c, left |-> DiffTTL])
      BY <1>1, <1>7, TransactGives
    <2>2. /\ DOMAIN pkgs' = DOMAIN pkgs \cup {mem.seq + 1}
          /\ \A n \in DOMAIN pkgs : n # mem.seq + 1 => pkgs'[n] = pkgs[n]
      BY <1>1, <2>1, TransactFields
    <2>3. \A n \in (pack.seq + 1)..mem.seq : n # mem.seq + 1
      BY <1>2
    <2> QED BY <1>3, <1>6, <1>7, <2>1, <2>2, <2>3 DEF Lasts, WillLast
  <1>8. CASE CommitMemory /\ ~Clock
    <2>1. /\ mem'.seq = mem.seq + 1 /\ pkgs' = pkgs
          /\ Lasts(mem.seq + 1, DiffTTL - commit.age)
      BY <1>1, <1>8, MemoryFields DEF Committing
    <2>2. \A n \in (pack.seq + 1)..mem'.seq : n \in (pack.seq + 1)..mem.seq \/ n = mem.seq + 1
      BY <1>2, <2>1
    <2>3. /\ DiffTTL - ReplyLag - pack.age <= DiffTTL - commit.age
          /\ DiffTTL - commit.age \in Int
      BY <1>2, TTLs
    <2>4. Lasts(mem.seq + 1, DiffTTL - ReplyLag - pack.age)
      BY <1>1, <1>2, <2>1, <2>3, LastsLess
    <2> QED BY <1>3, <1>6, <1>8, <2>1, <2>2, <2>4 DEF Lasts, WillLast
  <1>9. ~Starts
    BY DEF Starts, Start
  <1>10. CASE UNCHANGED <<mem, pkgs>> /\ ~Clock
    BY <1>3, <1>6, <1>10 DEF Lasts, WillLast
  <1> QED BY <1>5, <1>7, <1>8, <1>9, <1>10, Writes

(* The packages after a packed state live Spare longer than a snapshot that comes now. *)
LEMMA ReadBridges ==
  ASSUME RInv, pack.pc = "read"
  PROVE  \A n \in (pack.seq + 1)..mem.seq : Lasts(n, SnapshotTTL + Spare)
  <1>1. Shape /\ Lifetimes
    BY DEF RInv
  <1>2. pack.age \in Nat
    BY <1>1, Fields
  <1>3. /\ pack.age <= CallLag
        /\ \A n \in (pack.seq + 1)..mem.seq : Lasts(n, DiffTTL - ReplyLag - pack.age)
    BY <1>1 DEF Lifetimes
  <1>4. /\ SnapshotTTL + Spare <= DiffTTL - ReplyLag - pack.age
        /\ SnapshotTTL + Spare \in Int /\ DiffTTL - ReplyLag - pack.age \in Int
    BY <1>2, <1>3, TTLs
  <1> QED BY <1>1, <1>3, <1>4, LastsLess

(* What a step does to the snapshot call. *)
LEMMA PackForms ==
  ASSUME RInv, RNext
  PROVE  \/ pack'.pc = "idle"
         \/ pack' = pack
         \/ /\ up /\ Clock /\ pack'.pc = pack.pc /\ pack'.epoch = pack.epoch
            /\ pack'.seq = pack.seq /\ pack'.age = pack.age + 1
            /\ pack.pc = "put" => pack.age < ReplyLag
         \/ /\ up /\ pack'.pc = "read" /\ pack'.seq = mem.seq /\ pack'.age = 0
            /\ UNCHANGED <<mem, pkgs, objs, snap>>
         \/ /\ up /\ SnapshotPut /\ pack.pc = "read" /\ pack'.pc = "put" /\ pack'.epoch = pack.epoch
            /\ pack'.seq = pack.seq /\ pack'.age = 0 /\ PutObject /\ UNCHANGED <<mem, pkgs, snap>>
  <1>1. Shape /\ Committing
    BY DEF RInv
  <1>2. pack \in Call
    BY <1>1 DEF Shape
  <1>3. CASE Clock
    <2>1. CASE pack.pc = "idle"
      BY <1>3, <2>1 DEF Clock
    <2>2. CASE pack.pc # "idle"
      <3>1. pack' = [pack EXCEPT !.age = @ + 1] /\ (pack.pc = "put" => pack.age < ReplyLag) /\ up
        BY <1>1, <1>3, <2>2 DEF Clock, Committing
      <3> QED BY <1>2, <1>3, <3>1 DEF Call
    <2> QED BY <2>1, <2>2
  <1>4. ASSUME SnapshotFails \/ SnapshotEnd \/ Crash PROVE pack'.pc = "idle"
    BY <1>4 DEF SnapshotFails, SnapshotEnd, Crash, Idle
  <1>5. ASSUME NEW w \in Mirrors \cup {"http"}, SnapshotCached(w) PROVE pack' = pack
    BY <1>5 DEF SnapshotCached, keeper
  <1>6. ASSUME NEW w \in Mirrors \cup {"http"}, SnapshotRead(w)
        PROVE  /\ up /\ pack'.pc = "read" /\ pack'.seq = mem.seq /\ pack'.age = 0
               /\ UNCHANGED <<mem, pkgs, objs, snap>>
    BY <1>6 DEF SnapshotRead, redis
  <1>7. CASE SnapshotPut
    <2>1. /\ up /\ pack.pc = "read" /\ PutObject /\ UNCHANGED <<mem, pkgs, snap>>
          /\ pack' = [pack EXCEPT !.pc = "put", !.age = 0]
      BY <1>7 DEF SnapshotPut
    <2> QED BY <1>2, <1>7, <2>1 DEF Call
  <1> QED BY <1>3, <1>4, <1>5, <1>6, <1>7, Writes DEF Snapshots

(* And to the cached reference. *)
LEMMA SnapForms ==
  ASSUME RInv, RNext
  PROVE  \/ snap' = NoSnap
         \/ snap' = snap
         \/ Clock /\ Usable /\ snap' = [snap EXCEPT !.age = @ + 1]
         \/ /\ up /\ pack.pc = "put" /\ snap' = [epoch |-> pack.epoch, seq |-> pack.seq, age |-> 0]
            /\ UNCHANGED <<mem, pkgs, objs>>
  <1>1. CASE Crash
    BY <1>1 DEF Crash
  <1>2. CASE Clock
    BY <1>2 DEF Clock
  <1>3. CASE SnapshotEnd
    BY <1>3 DEF SnapshotEnd, redis
  <1> QED BY <1>1, <1>2, <1>3, Writes

(* What a step does to an object: a call in "read" writes it, time ages it. *)
LEMMA ObjectForms ==
  ASSUME RInv, RNext, NEW k
  PROVE  \/ /\ k \in DOMAIN objs <=> k \in DOMAIN objs'
            /\ k \in DOMAIN objs => objs'[k] = objs[k]
         \/ Clock
         \/ /\ k = Key(pack) /\ pack.pc = "read" /\ k \in DOMAIN objs'
            /\ objs'[k].left = SnapshotTTL /\ UNCHANGED <<mem, pkgs, snap>>
  <1>1. Shape
    BY DEF RInv
  <1>2. ASSUME PutObject, k # Key(pack)
        PROVE  /\ k \in DOMAIN objs <=> k \in DOMAIN objs'
               /\ k \in DOMAIN objs => objs'[k] = objs[k]
    BY <1>1, <1>2, PutFields
  <1>3. CASE SnapshotPut \/ SnapshotFails
    <2>1. PutObject \/ UNCHANGED objs
      BY <1>3 DEF SnapshotPut, SnapshotFails
    <2>2. pack.pc = "read" /\ UNCHANGED <<mem, pkgs, snap>>
      BY <1>3 DEF SnapshotPut, SnapshotFails
    <2> QED BY <1>1, <1>2, <2>1, <2>2, PutFields
  <1> QED BY <1>3, Writes

(* Objects, packages and references keep the lifetimes that the properties need. *)
LEMMA LifetimesStep ==
  ASSUME RInv, RNext
  PROVE  Lifetimes'
  <1>1. Shape /\ Shape' /\ Committing /\ Lifetimes
    BY ShapeStep DEF RInv
  <1> DEFINE B(s) == \A n \in (s.seq + 1)..mem'.seq : WillLast(n, objs'[Key(s)].left + Spare)
  <1>2. /\ mem.seq \in Nat /\ mem.epoch \in Nat
        /\ snap.epoch \in Nat /\ snap.seq \in Nat /\ snap.age \in Nat
        /\ pack.epoch \in Nat /\ pack.seq \in Nat /\ pack.age \in Nat
        /\ \A o \in DOMAIN objs : objs[o].left \in 1..SnapshotTTL
        /\ \A n \in DOMAIN pkgs : n \in Nat /\ pkgs[n].left \in 0..DiffTTL
        /\ snap \in [epoch : Nat, seq : Nat, age : Nat]
    BY <1>1, Fields DEF Shape
  <1>3. CASE ~up
    <2>1. pack.pc = "idle" /\ snap = NoSnap
      BY <1>1, <1>3 DEF Committing
    <2>2. pack'.pc = "idle"
      BY <1>3, <2>1, PackForms
    <2>3. snap' = NoSnap
      BY <1>3, <2>1, SnapForms DEF Usable
    <2> QED BY <2>2, <2>3 DEF Lifetimes, Usable
  <1>4. CASE up
    <2>1. ASSUME pack'.pc = "read"
          PROVE  /\ pack'.age <= CallLag
                 /\ \A n \in (pack'.seq + 1)..mem'.seq : WillLast(n, DiffTTL - ReplyLag - pack'.age)
      <3>1. CASE pack.pc = "read"
        BY <1>4, <2>1, <3>1, ReadStays
      <3>2. CASE pack'.seq = mem.seq /\ pack'.age = 0 /\ mem' = mem
        <4>1. \A n \in (mem.seq + 1)..mem.seq : FALSE
          BY <1>2
        <4> QED BY <3>2, <4>1, TTLs
      <3> QED BY <2>1, <3>1, <3>2, PackForms
    <2>2. ASSUME pack'.pc = "put"
          PROVE  /\ pack'.age <= ReplyLag
                 /\ SnapshotTTL > pack'.age =>
                      Key(pack') \in DOMAIN objs' /\ objs'[Key(pack')].left >= SnapshotTTL - pack'.age
                 /\ Key(pack') \in DOMAIN objs' => B(pack')
      <3> DEFINE k == Key(pack)
      <3>1. ASSUME pack.pc = "put", pack'.epoch = pack.epoch, pack'.seq = pack.seq,
                   k \in DOMAIN objs', k \in DOMAIN objs, objs'[k] = objs[k] \/ Clock
            PROVE  B(pack')
        <4>1. Key(pack') = k
          BY <3>1 DEF Key
        <4>2. \A n \in (pack.seq + 1)..mem.seq : Lasts(n, objs[k].left + Spare)
          BY <1>1, <3>1 DEF Lifetimes, Bridged
        <4> HIDE DEF k
        <4>3. \A n \in (pack.seq + 1)..mem'.seq : WillLast(n, objs'[k].left + Spare)
          BY <1>2, <1>4, <3>1, <4>2, BridgeStays
        <4> QED BY <3>1, <4>1, <4>3
      <3>2. CASE Clock /\ pack.pc = "put"
        <4>1. /\ pack'.epoch = pack.epoch /\ pack'.seq = pack.seq /\ pack'.age = pack.age + 1
              /\ pack.age < ReplyLag
          <5>1. pack' = [pack EXCEPT !.age = @ + 1] /\ pack.age < ReplyLag /\ pack \in Call
            BY <1>1, <3>2 DEF Clock, Shape
          <5> QED BY <5>1 DEF Call
        <4>2. Key(pack') = k
          BY <4>1 DEF Key
        <4>3. SnapshotTTL > pack.age => k \in DOMAIN objs /\ objs[k].left >= SnapshotTTL - pack.age
          BY <1>1, <3>2 DEF Lifetimes
        <4>4. /\ \A o \in DOMAIN objs' : o \in DOMAIN objs /\ objs'[o].left = objs[o].left - 1
              /\ \A o \in DOMAIN objs : objs[o].left > 1 => o \in DOMAIN objs'
          BY <1>1, <3>2, ClockGives
        <4> HIDE DEF k
        <4>5. SnapshotTTL > pack.age + 1 =>
                k \in DOMAIN objs' /\ objs'[k].left >= SnapshotTTL - (pack.age + 1)
          <5> SUFFICES ASSUME SnapshotTTL > pack.age + 1
                       PROVE  k \in DOMAIN objs' /\ objs'[k].left >= SnapshotTTL - (pack.age + 1)
            OBVIOUS
          <5>1. k \in DOMAIN objs /\ objs[k].left >= SnapshotTTL - pack.age
            BY <1>2, <4>3, TTLs
          <5>2. objs[k].left > 1
            BY <1>2, <5>1, TTLs
          <5> QED BY <1>2, <4>4, <5>1, <5>2, TTLs
        <4>6. pack'.age <= ReplyLag
          BY <1>2, <4>1, TTLs
        <4>7. k \in DOMAIN objs' => B(pack')
          BY <3>1, <3>2, <4>1, <4>4
        <4> QED BY <4>1, <4>2, <4>5, <4>6, <4>7
      <3>3. CASE pack' = pack /\ ~Clock
        <4>1. /\ k \in DOMAIN objs <=> k \in DOMAIN objs'
              /\ k \in DOMAIN objs => objs'[k] = objs[k]
          BY <2>2, <3>3, ObjectForms
        <4>2. /\ pack.age <= ReplyLag
              /\ SnapshotTTL > pack.age => k \in DOMAIN objs /\ objs[k].left >= SnapshotTTL - pack.age
          BY <1>1, <2>2, <3>3 DEF Lifetimes
        <4>3. k \in DOMAIN objs' => B(pack')
          BY <2>2, <3>1, <3>3, <4>1
        <4> QED BY <3>3, <4>1, <4>2, <4>3
      <3>4. CASE SnapshotPut /\ pack.pc = "read" /\ pack'.epoch = pack.epoch
                 /\ pack'.seq = pack.seq /\ pack'.age = 0 /\ PutObject /\ UNCHANGED <<mem, pkgs, snap>>
        <4>1. Key(pack') = k
          BY <3>4 DEF Key
        <4>2. k \in DOMAIN objs' /\ objs'[k].left = SnapshotTTL
          BY <1>1, <3>4, PutFields
        <4>3. B(pack')
          BY <3>4, <4>1, <4>2, ReadBridges DEF Lasts, WillLast
        <4> QED BY <3>4, <4>1, <4>2, <4>3, TTLs
      <3> QED BY <2>2, <3>2, <3>3, <3>4, PackForms
    <2>3. ASSUME snap' # NoSnap, Key(snap') \in DOMAIN objs'
          PROVE  B(snap')
      <3> DEFINE k == Key(snap)
      <3>1. CASE snap # NoSnap /\ snap'.epoch = snap.epoch /\ snap'.seq = snap.seq
        <4>1. Key(snap') = k
          BY <3>1 DEF Key
        <4>2. CASE k \in DOMAIN objs /\ (objs'[k] = objs[k] \/ Clock)
          <5>1. \A n \in (snap.seq + 1)..mem.seq : Lasts(n, objs[k].left + Spare)
            BY <1>1, <3>1, <4>2 DEF Lifetimes, Bridged
          <5> HIDE DEF k
          <5>2. \A n \in (snap.seq + 1)..mem'.seq : WillLast(n, objs'[k].left + Spare)
            BY <1>2, <1>4, <2>3, <4>1, <4>2, <5>1, BridgeStays
          <5> QED BY <3>1, <4>1, <5>2
        <4>3. CASE k = Key(pack) /\ pack.pc = "read" /\ objs'[k].left = SnapshotTTL
                   /\ UNCHANGED <<mem, pkgs>>
          <5>1. snap.seq = pack.seq
            BY <4>3 DEF Key
          <5> QED BY <3>1, <4>1, <4>3, <5>1, ReadBridges DEF Lasts, WillLast
        <4>4. Clock => k \in DOMAIN objs
          BY <1>1, <2>3, <4>1, ClockGives
        <4> QED BY <2>3, <4>1, <4>2, <4>3, <4>4, ObjectForms
      <3>2. CASE /\ pack.pc = "put" /\ snap' = [epoch |-> pack.epoch, seq |-> pack.seq, age |-> 0]
                 /\ UNCHANGED <<mem, pkgs, objs>>
        <4>1. Key(snap') = Key(pack) /\ snap'.seq = pack.seq
          BY <3>2 DEF Key
        <4> QED BY <1>1, <2>3, <3>2, <4>1 DEF Lifetimes, Bridged, Lasts, WillLast
      <3>3. CASE Usable /\ snap' = [snap EXCEPT !.age = @ + 1]
        BY <1>2, <3>1, <3>3 DEF Usable
      <3> QED BY <2>3, <3>1, <3>2, <3>3, SnapForms
    <2>4. ASSUME Usable'
          PROVE  /\ Key(snap') \in DOMAIN objs'
                 /\ objs'[Key(snap')].left >= SnapshotTTL - ReplyLag - snap'.age
      <3> DEFINE k == Key(snap)
      <3>1. snap' # NoSnap /\ snap'.epoch = mem'.epoch /\ snap'.age <= SnapshotTTL - SnapMargin
        BY <2>4 DEF Usable
      <3>2. mem'.epoch = mem.epoch
        BY <1>1, <1>4, Writes, MemoryFields DEF Starts, Start
      <3>3. Usable => k \in DOMAIN objs /\ objs[k].left >= SnapshotTTL - ReplyLag - snap.age
        BY <1>1 DEF Lifetimes
      <3>4. CASE snap' = snap /\ ~Clock
        <4>1. Usable
          BY <3>1, <3>2, <3>4 DEF Usable
        <4> HIDE DEF k
        <4>2. CASE objs'[k] = objs[k] /\ k \in DOMAIN objs'
          BY <3>3, <3>4, <4>1, <4>2 DEF k
        <4>3. CASE objs'[k].left = SnapshotTTL /\ k \in DOMAIN objs'
          <5>1. SnapshotTTL >= SnapshotTTL - ReplyLag - snap.age
            BY <1>2, TTLs
          <5> QED BY <3>4, <4>3, <5>1 DEF k
        <4> QED BY <3>3, <3>4, <4>1, <4>2, <4>3, ObjectForms
      <3>5. CASE Clock
        <4>1. Usable /\ snap' = [snap EXCEPT !.age = @ + 1]
          BY <2>4, <3>2, <3>5 DEF Clock, Usable
        <4>2. snap'.epoch = snap.epoch /\ snap'.seq = snap.seq /\ snap'.age = snap.age + 1
          BY <1>2, <4>1
        <4>3. Key(snap') = k
          BY <4>2 DEF Key
        <4> HIDE DEF k
        <4>4. k \in DOMAIN objs /\ objs[k].left >= SnapshotTTL - ReplyLag - snap.age
          BY <3>3, <4>1
        <4>5. objs[k].left > 1
          BY <1>2, <3>1, <4>2, <4>4, TTLs
        <4>6. k \in DOMAIN objs' /\ objs'[k].left = objs[k].left - 1
          BY <1>1, <3>5, <4>4, <4>5, ClockGives
        <4> QED BY <1>2, <4>2, <4>3, <4>4, <4>6, TTLs
      <3>6. CASE /\ pack.pc = "put" /\ snap' = [epoch |-> pack.epoch, seq |-> pack.seq, age |-> 0]
                 /\ UNCHANGED <<mem, pkgs, objs>>
        <4>1. Key(snap') = Key(pack) /\ snap'.age = 0
          BY <3>6 DEF Key
        <4>2. /\ pack.age <= ReplyLag
              /\ SnapshotTTL > pack.age =>
                   Key(pack) \in DOMAIN objs /\ objs[Key(pack)].left >= SnapshotTTL - pack.age
          BY <1>1, <3>6 DEF Lifetimes
        <4>3. SnapshotTTL > pack.age
          BY <1>2, <3>1, <4>1, <4>2, TTLs
        <4>4. objs[Key(pack)].left >= SnapshotTTL - ReplyLag
          BY <1>2, <4>2, <4>3, TTLs
        <4>5. SnapshotTTL - ReplyLag - snap'.age = SnapshotTTL - ReplyLag
          BY <4>1, TTLs
        <4> QED BY <3>6, <4>1, <4>2, <4>3, <4>4, <4>5
      <3> QED BY <3>1, <3>4, <3>5, <3>6, SnapForms
    <2> HIDE DEF B
    <2> QED BY <2>1, <2>2, <2>3, <2>4 DEF Lifetimes, Bridged, B, Lasts, WillLast
  <1> QED BY <1>3, <1>4

------------------------------------------------------------------------------
(* The theorems. *)

LEMMA RInvInit == RInit => RInv
  <1> SUFFICES ASSUME RInit PROVE RInv
    OBVIOUS
  <1>1. /\ mem.epoch = 1 /\ mem.seq = 1 /\ mem.recs = Empty /\ torn = 0 /\ epochs = 1
        /\ store.epoch = 1 /\ store.seq = 1 /\ store.hash = {} /\ store.recs = Empty
        /\ commit.pc = "idle" /\ pack.pc = "idle" /\ snap = NoSnap /\ up
        /\ DOMAIN history = {0, 1}
        /\ \A n \in {0, 1} : history[n].epoch = n /\ history[n].recs = Empty
    BY DEF RInit, NoBatch, Idle
  <1>2. DOMAIN pkgs = {} /\ DOMAIN objs = {}
    BY DEF RInit
  <1>3. Hash(Empty) = {} /\ \A t : Alike(t, Empty, Empty)
    BY DEF Hash, Empty, Alike
  <1>4. Shape
    <2>1. mem \in [epoch : Nat, seq : Nat, recs : Recs]
      BY EmptyType DEF RInit
    <2>2. commit \in [pc : {"idle", "stored", "publish"}, change : Batches, age : 0..ReplyLag]
      BY EmptyType, TTLs DEF RInit, NoBatch
    <2>3. snap \in [epoch : Nat, seq : Nat, age : Nat] /\ pack \in Call
      BY IdleType DEF RInit, NoSnap
    <2>4. store \in [epoch : Nat, seq : Nat, hash : SUBSET Values, recs : Recs]
      BY EmptyType DEF RInit
    <2>5. frames \subseteq [epoch : Nat, seq : Nat, hash : SUBSET Values, inline : Batches]
      BY <2>1, EmptyType, HashType DEF RInit, TickOf
    <2>6. mirror \in [Mirrors -> MirrorState]
      BY EmptyType, IdleType DEF RInit, MirrorState
    <2>7. DOMAIN history \subseteq Nat /\ \A n \in DOMAIN history : history[n] \in [epoch : Nat, recs : Recs]
      BY EmptyType DEF RInit
    <2>8. up \in BOOLEAN /\ epochs \in Nat /\ torn \in Nat /\ faults \in Nat /\ crashes \in Nat
      BY DEF RInit
    <2> QED BY <1>2, <2>1, <2>2, <2>3, <2>4, <2>5, <2>6, <2>7, <2>8 DEF Shape
  <1>5. Numbers
    BY <1>1, <1>3 DEF Numbers
  <1>6. Ahead /\ Packages
    BY <1>1, <1>2 DEF Ahead, Packages
  <1>7. Stored /\ Committing
    BY <1>1, <1>2, <1>3 DEF Stored, Committing
  <1>8. Frames
    BY <1>1, <1>3 DEF Frames, RInit, TickOf
  <1>9. Objects /\ Lifetimes
    BY <1>1, <1>2 DEF Objects, Lifetimes, Usable
  <1>10. Mirrored
    BY <1>1, <1>3 DEF Mirrored, RInit
  <1> QED BY <1>4, <1>5, <1>6, <1>7, <1>8, <1>9, <1>10 DEF RInv

LEMMA RInvStep == RInv /\ [RNext]_rvars => RInv'
  <1>1. ASSUME RInv, RNext PROVE RInv'
    BY <1>1, ShapeStep, NumbersStep, AheadStep, StoredStep, PackagesStep, CommittingStep,
       FramesStep, ObjectsStep, MirroredStep, LifetimesStep DEF RInv
  <1>2. ASSUME RInv, UNCHANGED rvars PROVE RInv'
    <2>1. UNCHANGED <<up, mem, commit, snap, pack, store, pkgs, objs, frames, mirror, history,
                      epochs, torn, faults, crashes>>
      BY <1>2 DEF rvars, keeper, redis, count
    <2>2. Shape' /\ Numbers' /\ Ahead' /\ Stored'
      BY <1>2, <2>1 DEF RInv, Shape, Numbers, Ahead, Stored
    <2>3. Packages' /\ Committing' /\ Frames'
      BY <1>2, <2>1 DEF RInv, Packages, Committing, Frames, Leads, Lasts
    <2>4. Objects' /\ Mirrored' /\ Lifetimes'
      BY <1>2, <2>1 DEF RInv, Objects, Mirrored, Lifetimes, Bridged, Lasts, Usable
    <2> QED BY <2>2, <2>3, <2>4 DEF RInv
  <1> QED BY <1>1, <1>2

(* The inductive invariant holds in every reachable state: what memory, Redis, frames,  *)
(* snapshots and mirrors hold fits together over any number of commits, torn            *)
(* transactions, failed starts, crashes and epochs.                                     *)
THEOREM ReplicationInvariant == RSpec => []RInv
  BY RInvInit, RInvStep, PTL DEF RSpec

(* Every mirror holds what memory had under the mirror's number, although it checks no *)
(* hash (commit, mount, packSnapshot; the numbers are enough).                         *)
THEOREM ReplicationMirrorTruth == RSpec => []MirrorTruth
  <1>1. RInv => MirrorTruth
    BY DEF RInv, Mirrored, MirrorTruth, Same, Alike
  <1> QED BY <1>1, ReplicationInvariant, PTL

(* No start brings a number back with other values, and no frame with another hash     *)
(* (mount compares the hash of the records with the meta, seq0 is above what was used). *)
THEOREM ReplicationNumberNamesState == RSpec => []NumberNamesState
  <1>1. RInv => NumberNamesState
    BY DEF RInv, Numbers, Frames, NumberNamesState, Same, Alike
  <1> QED BY <1>1, ReplicationInvariant, PTL

(* The cached reference names a living object for every pair of lifetimes, as long as *)
(* a reply of Redis takes less than snapMargin (Snapshot, packSnapshot).              *)
THEOREM ReplicationReferenceAlive == RSpec => []ReferenceAlive
  <1>1. ASSUME RInv PROVE ReferenceAlive
    <2> SUFFICES ASSUME Usable
                 PROVE  /\ Key(snap) \in DOMAIN objs
                        /\ objs[Key(snap)].left >= SnapMargin - ReplyLag
      BY DEF ReferenceAlive, Key
    <2>1. Shape /\ Lifetimes
      BY <1>1 DEF RInv
    <2>2. Key(snap) \in DOMAIN objs /\ objs[Key(snap)].left >= SnapshotTTL - ReplyLag - snap.age
      BY <2>1 DEF Lifetimes
    <2>3. snap.age <= SnapshotTTL - SnapMargin /\ snap.age \in Nat
          /\ objs[Key(snap)].left \in 1..SnapshotTTL
      BY <2>1, <2>2, Fields DEF Usable
    <2> QED BY <2>2, <2>3, TTLs
  <1> QED BY <1>1, ReplicationInvariant, PTL

(* The packages after the cached snapshot live Spare longer than its object, for every    *)
(* pair of lifetimes that config.Load accepts and New completes, and every time the calls *)
(* may take.  Where Spare is negative the packages may be gone for that long before the   *)
(* object is (New, commit, packSnapshot).                                                 *)
THEOREM ReplicationBridgeOutlives == RSpec => []BridgeOutlives
  <1>1. RInv => BridgeOutlives
    BY DEF RInv, Lifetimes, Bridged, Lasts, Key, BridgeOutlives
  <1> QED BY <1>1, ReplicationInvariant, PTL

(* What config.Load says of the lifetimes holds if the packages outlive a snapshot by the  *)
(* time the two calls may take, 15 s in the code.  The configuration does not ask for it:  *)
(* it holds of the default lifetimes, and of every DiffTTL twice a SnapshotTTL of 15 s and *)
(* more; without it the run replication_short shows that the statement is false.           *)
THEOREM ReplicationBridgeStands ==
  ASSUME CallLag + ReplyLag <= DiffTTL - SnapshotTTL
  PROVE  RSpec => []BridgeStands
  <1>1. ASSUME RInv PROVE BridgeStands
    <2> SUFFICES ASSUME snap # NoSnap, Key(snap) \in DOMAIN objs, NEW n \in (snap.seq + 1)..mem.seq
                 PROVE  n \in DOMAIN pkgs
      BY DEF BridgeStands, Key
    <2>1. Lasts(n, objs[Key(snap)].left + Spare)
      BY <1>1 DEF RInv, Lifetimes, Bridged
    <2>2. objs[Key(snap)].left \in 1..SnapshotTTL
      BY <1>1, Fields DEF RInv
    <2>3. objs[Key(snap)].left + Spare > 0
      BY <2>2, TTLs
    <2> QED BY <2>1, <2>3 DEF Lasts
  <1> QED BY <1>1, ReplicationInvariant, PTL

(* Replication implements Feed: a step names a state above all named ones, moves one *)
(* mirror forward to a named state, or changes neither.                              *)
THEOREM ReplicationImplementsFeed == RSpec => ImplementsFeed
  <1> DEFINE log == [n \in DOMAIN history |-> Hash(history[n].recs)]
             at == [m \in Mirrors |-> [seq |-> mirror[m].seq, shown |-> Hash(mirror[m].recs)]]
  <1>1. RInit => Promise!FInit
    <2> SUFFICES ASSUME RInit PROVE Promise!FInit
      OBVIOUS
    <2>1. 0 \in DOMAIN history /\ history[0].recs = Empty
      BY DEF RInit
    <2>2. \A m \in Mirrors : mirror[m].seq = 0 /\ mirror[m].recs = Empty
      BY DEF RInit
    <2> QED BY <2>1, <2>2 DEF Promise!FInit
  <1>2. ASSUME RInv, [RNext]_rvars PROVE [Promise!FNext]_(Promise!feed)
    <2>1. CASE UNCHANGED rvars
      BY <2>1 DEF rvars, Promise!feed
    <2>2. CASE RNext
      <3>1. Shape /\ Shape' /\ Numbers /\ Numbers' /\ Objects /\ Ahead /\ Stored /\ Grown
        BY <1>2, <2>2, ShapeStep, NumbersStep DEF RInv
      <3>2. CASE CommitMemory \/ Starts
        <4>1. mirror' = mirror
          BY <3>2 DEF CommitMemory, Starts, Start
        <4>2. history' = Named(mem'.seq, mem'.epoch, mem'.recs)
          BY <3>1, <3>2, MemoryFields, ResetFields DEF Starts
        <4>3. CASE history' = history
          BY <4>1, <4>3 DEF Promise!feed
        <4>4. CASE history' # history
          <5> DEFINE n == mem'.seq
          <5>1. n \notin DOMAIN history /\ DOMAIN history' = DOMAIN history \cup {n}
            BY <4>2, <4>4 DEF Named, With
          <5>2. \A k \in DOMAIN history : history'[k] = history[k]
            BY <3>1 DEF Grown
          <5>3. \A k \in DOMAIN history : n > k
            <6>1. \A k \in DOMAIN history : k \in Nat /\ n \in Nat /\ k <= n
              BY <3>1, <5>1, Fields DEF Numbers, Shape
            <6> QED BY <5>1, <6>1
          <5> HIDE DEF n
          <5>4. n \in DOMAIN log' \ DOMAIN log /\ \A k \in DOMAIN log : n > k
            BY <5>1, <5>3
          <5>5. log' = [k \in DOMAIN log \cup {n} |-> IF k = n THEN log'[n] ELSE log[k]]
            BY <5>1, <5>2
          <5>6. at' = at
            BY <4>1
          <5> HIDE DEF log, at
          <5>7. \E j \in DOMAIN log' \ DOMAIN log :
                  /\ \A k \in DOMAIN log : j > k
                  /\ log' = [k \in DOMAIN log \cup {j} |-> IF k = j THEN log'[j] ELSE log[k]]
            BY <5>4, <5>5
          <5> QED BY <5>6, <5>7 DEF Promise!FNext, Promise!Name, log, at
        <4> QED BY <4>3, <4>4
      <3>3. CASE UNCHANGED history /\ (UNCHANGED mirror \/ Snapshots)
        <4>1. \A m \in Mirrors : mirror'[m].seq = mirror[m].seq /\ mirror'[m].recs = mirror[m].recs
          BY <3>1, <3>3, SnapshotsFields
        <4> QED BY <3>3, <4>1 DEF Promise!feed
      <3>4. ASSUME NEW m \in Mirrors, MirrorStep(m)
            PROVE  [Promise!FNext]_(Promise!feed)
        <4> DEFINE x == mirror[m]
                   y == mirror'[m]
        <4>1. UNCHANGED history /\ \A k \in Mirrors : k # m => mirror'[k] = mirror[k]
          BY <1>2, <3>4, MirrorMoves
        <4>2. \/ y.seq = x.seq /\ y.recs = x.recs
              \/ y.seq > x.seq /\ y.seq \in DOMAIN history /\ Alike(torn, y.recs, history[y.seq].recs)
          BY <1>2, <3>4, MirrorMoves
        <4>3. CASE y.seq = x.seq /\ y.recs = x.recs
          BY <4>1, <4>3 DEF Promise!feed
        <4>4. CASE y.seq > x.seq /\ y.seq \in DOMAIN history /\ Alike(torn, y.recs, history[y.seq].recs)
          <5> DEFINE n == y.seq
          <5>1. Hash(y.recs) = Hash(history[n].recs)
            BY <4>4 DEF Alike
          <5>2. n \in DOMAIN log /\ log[n] = Hash(history[n].recs) /\ n > at[m].seq
            BY <4>4
          <5>3. at' = [at EXCEPT ![m] = [seq |-> n, shown |-> log[n]]]
            BY <4>1, <5>1, <5>2
          <5>4. log' = log
            BY <4>1
          <5> HIDE DEF log, at, n
          <5>5. \E j \in DOMAIN log : j > at[m].seq /\ at' = [at EXCEPT ![m] = [seq |-> j, shown |-> log[j]]]
            BY <5>2, <5>3
          <5> QED BY <5>4, <5>5 DEF Promise!FNext, Promise!Move, log, at
        <4> QED BY <4>2, <4>3, <4>4
      <3> QED BY <2>2, <3>2, <3>3, <3>4, Writes
    <2> QED BY <1>2, <2>1, <2>2
  <1> QED BY <1>1, <1>2, ReplicationInvariant, PTL DEF RSpec, ImplementsFeed, Promise!FSpec

==============================================================================
