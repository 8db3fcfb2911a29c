----------------------------- MODULE Replication -----------------------------
(***************************************************************************)
(* How the contents of one set reach the mirrors (keeper.go: pack, commit, *)
(* publishTick, tickLoop, Snapshot, packSnapshot; state.go: Commit, Put).  *)
(* A commit leaves a package in Redis for DiffTTL and announces it in a    *)
(* frame; a snapshot is an object in Redis for SnapshotTTL, and its        *)
(* reference is cached.  The process crashes and starts again; a           *)
(* transaction may fail although Redis applied it.                         *)
(*                                                                         *)
(* Mirrors are other programs: their steps are what the README and the     *)
(* comment in commit() say of them, and they check nothing but numbers.    *)
(* Frames stay in a set: they may be lost, late, doubled and out of order. *)
(* Lifetimes count down, so that time has no bound.                        *)
(***************************************************************************)
EXTENDS Integers, FiniteSets

CONSTANTS
  Mirrors, Values,
  Exps,        \* expiry times of records
  Changes,     \* what a batch may do: value -> expiry, or Absent
  Small,       \* the changes whose package is at most InlineMax bytes
  Settings,    \* WAF_KEEPER_SNAPSHOT_TTL and WAF_KEEPER_DIFF_TTL as configured
  DefaultTTL,  \* 30 s
  SnapMargin,  \* 5 s
  CallLag,     \* the context of a store call ends after this time
  ReplyLag,    \* a reply of Redis is waited for at most this time
  Prompt,      \* mirrors read a snapshot before its lifetime passes
  MaxSeq,      \* bound: no commit goes beyond this number
  MaxEpochs, MaxFaults, MaxCrashes  \* bounds of the model

Absent == 0

(* A start with a new epoch may take one more number. *)
LastSeq == MaxSeq + MaxEpochs - 1

(* The environment as config.Load accepts it. *)
Loads ==
  /\ Settings.snapshot >= 0 /\ Settings.diff >= 0
  /\ Settings.diff >= 2 * Settings.snapshot

(* The lifetimes New makes of it. *)
SnapshotTTL == IF Settings.snapshot <= 0 THEN DefaultTTL ELSE Settings.snapshot

(* Fault: as long as a snapshot. *)
DiffTTLSingle == SnapshotTTL

DiffTTL == IF Settings.diff < 2 * SnapshotTTL THEN 2 * SnapshotTTL ELSE Settings.diff

(* What DiffTTL leaves for the calls.  A package may be in Redis for ReplyLag before the *)
(* contents a snapshot is packed from are read, and the object comes CallLag after that. *)
(* Nothing in the configuration keeps it from being negative.                            *)
Spare == DiffTTL - SnapshotTTL - CallLag - ReplyLag

Batches == UNION {[S -> Exps \cup {Absent}] : S \in SUBSET Values}

ASSUME ReplicationAssumption ==
  /\ Settings.snapshot \in Int /\ Settings.diff \in Int /\ Loads
  /\ Exps \subseteq Nat \ {Absent}
  /\ Changes \subseteq Batches
  /\ {DefaultTTL, SnapMargin, CallLag, ReplyLag, MaxSeq, MaxEpochs, MaxFaults, MaxCrashes} \subseteq Nat
  /\ Prompt \in BOOLEAN
  /\ DefaultTTL > 0
  /\ ReplyLag < SnapMargin

VARIABLES
  up,       \* the process runs
  mem,      \* epoch, seq and records of the mounted set
  commit,   \* the committer: its step, its batch and how long Redis has had it
  snap,     \* holder.snap, the cached reference, or NoSnap
  pack,     \* the Snapshot call that holds snapMu
  store,    \* meta and records in Redis
  pkgs,     \* packages in Redis, by number
  objs,     \* snapshots in Redis, by epoch and number
  frames,   \* what was published
  mirror,   \* each mirror
  history,  \* history: what each number names, as memory had it
  epochs, torn, faults, crashes  \* epochs drawn, bounds

keeper == <<up, mem, commit, snap, pack>>
redis  == <<store, pkgs, objs>>
count  == <<epochs, torn, faults, crashes>>
rvars  == <<keeper, redis, frames, mirror, history, count>>

Recs == [Values -> Exps \cup {Absent}]
Empty == [v \in Values |-> Absent]
NoChange == [v \in {} |-> Absent]
NoSnap == [epoch |-> 0, seq |-> 0, age |-> 0]
NoRef == <<0, 0>>
Idle == [pc |-> "idle", who |-> "http", epoch |-> 0, seq |-> 0, recs |-> Empty, age |-> 0]
NoBatch == [pc |-> "idle", change |-> NoChange, age |-> 0]

(* The hash covers the values, not when they expire. *)
Hash(recs) == {v \in Values : recs[v] # Absent}
Apply(recs, change) == [v \in Values |-> IF v \in DOMAIN change THEN change[v] ELSE recs[v]]
With(f, k, x) == [y \in DOMAIN f \cup {k} |-> IF y = k THEN x ELSE f[y]]

(* A number that names something already keeps it. *)
Named(n, epoch, recs) ==
  IF n \in DOMAIN history THEN history ELSE With(history, n, [epoch |-> epoch, recs |-> recs])

(* Fault: every epoch counts from one. *)
Seq0FromOne == 1

(* seq0 reads the clock: it is above every number used before. *)
Seq0 == (IF store.seq > mem.seq THEN store.seq ELSE mem.seq) + 1

(* Epoch, number and hash of a state; a diff frame may have its package in it. *)
TickOf(m) == [epoch |-> m.epoch, seq |-> m.seq, hash |-> Hash(m.recs), inline |-> NoChange]

RInit ==
  /\ up = TRUE
  /\ mem = [epoch |-> 1, seq |-> 1, recs |-> Empty]
  /\ commit = NoBatch /\ snap = NoSnap /\ pack = Idle
  /\ store = [epoch |-> 1, seq |-> 1, hash |-> {}, recs |-> Empty]
  /\ pkgs = <<>> /\ objs = <<>>
  /\ frames = {TickOf(mem)}
  /\ mirror = [m \in Mirrors |->
       [pc |-> "idle", epoch |-> 0, seq |-> 0, recs |-> Empty, goal |-> 0, ref |-> NoRef]]
  /\ history = [n \in {0, 1} |-> [epoch |-> n, recs |-> Empty]]
  /\ epochs = 1 /\ torn = 0 /\ faults = 0 /\ crashes = 0

------------------------------------------------------------------------------
(* commit().  The transaction changes the records, stores the package under *)
(* the next number, which has no epoch in its key, and writes the meta.     *)

(* Fault: the package goes under the number before. *)
TransactionOffByOne(change) ==
  /\ store' = [store EXCEPT !.seq = mem.seq + 1, !.hash = Hash(Apply(mem.recs, change)),
                            !.recs = Apply(@, change)]
  /\ pkgs' = With(pkgs, mem.seq, [change |-> change, left |-> DiffTTL])

(* Fault: the package is stored with the lifetime of a snapshot. *)
TransactionShort(change) ==
  /\ store' = [store EXCEPT !.seq = mem.seq + 1, !.hash = Hash(Apply(mem.recs, change)),
                            !.recs = Apply(@, change)]
  /\ pkgs' = With(pkgs, mem.seq + 1, [change |-> change, left |-> SnapshotTTL])

Transaction(change) ==
  /\ store' = [store EXCEPT !.seq = mem.seq + 1, !.hash = Hash(Apply(mem.recs, change)),
                            !.recs = Apply(@, change)]
  /\ pkgs' = With(pkgs, mem.seq + 1, [change |-> change, left |-> DiffTTL])

(* Plan keeps only the deltas that change something; no batch is made of none. *)
Planned(change) == [v \in {w \in DOMAIN change : change[w] # mem.recs[w]} |-> change[v]]

CommitStore(change) ==
  /\ up /\ commit.pc = "idle" /\ mem.seq < MaxSeq /\ change # NoChange
  /\ Transaction(change)
  /\ commit' = [pc |-> "stored", change |-> change, age |-> 0]
  /\ UNCHANGED <<up, mem, snap, pack, objs, frames, mirror, history, count>>

(* Redis applied it, the answer was lost: Abort drops the plan.  A transaction that *)
(* was not applied changes nothing that matters here.                               *)
CommitTorn(change) ==
  /\ up /\ commit.pc = "idle" /\ mem.seq < MaxSeq /\ change # NoChange /\ faults < MaxFaults
  /\ Transaction(change)
  /\ torn' = torn + 1 /\ faults' = faults + 1
  /\ UNCHANGED <<keeper, objs, frames, mirror, history, epochs, crashes>>

CommitMemory ==
  /\ up /\ commit.pc = "stored"
  /\ mem' = [mem EXCEPT !.seq = @ + 1, !.recs = Apply(@, commit.change)]
  /\ history' = Named(mem.seq + 1, mem.epoch, Apply(mem.recs, commit.change))
  /\ commit' = [commit EXCEPT !.pc = "publish", !.age = 0]
  /\ UNCHANGED <<up, snap, pack, redis, frames, mirror, count>>

(* A small package rides in the frame. *)
CommitPublish ==
  /\ up /\ commit.pc = "publish"
  /\ frames' = frames \cup
       {[TickOf(mem) EXCEPT !.inline = IF commit.change \in Small THEN commit.change ELSE NoChange]}
  /\ commit' = NoBatch
  /\ UNCHANGED <<up, mem, snap, pack, redis, mirror, history, count>>

(* tickLoop.  It may publish a state it read earlier: frames are late anyway. *)
Tick ==
  /\ up
  /\ frames' = frames \cup {TickOf(mem)}
  /\ UNCHANGED <<keeper, redis, mirror, history, count>>

------------------------------------------------------------------------------
(* Snapshot(), called for a mirror by the bus and for anybody by the HTTP server. *)

(* A reply reaches the mirror that still waits for it. *)
Reply(who, pc, ref) ==
  mirror' = [m \in Mirrors |->
    IF m = who /\ mirror[m].pc = "wait" THEN [mirror[m] EXCEPT !.pc = pc, !.ref = ref] ELSE mirror[m]]

(* Fault: no margin. *)
UsableToTheEnd == snap # NoSnap /\ snap.epoch = mem.epoch /\ snap.age <= SnapshotTTL

(* Fault: never stale. *)
UsableForEver == snap # NoSnap /\ snap.epoch = mem.epoch

Usable == snap # NoSnap /\ snap.epoch = mem.epoch /\ snap.age <= SnapshotTTL - SnapMargin

Asks(who) == who \in Mirrors => mirror[who].pc = "ask"

SnapshotCached(who) ==
  /\ up /\ pack.pc = "idle" /\ who \in Mirrors /\ Asks(who) /\ Usable
  /\ mirror' = [mirror EXCEPT ![who].pc = "load", ![who].ref = <<snap.epoch, snap.seq>>]
  /\ UNCHANGED <<keeper, redis, frames, history, count>>

(* The reference is stale: the contents are copied and packed. *)
SnapshotRead(who) ==
  /\ up /\ pack.pc = "idle" /\ Asks(who) /\ ~Usable
  /\ pack' = [pc |-> "read", who |-> who, epoch |-> mem.epoch, seq |-> mem.seq, recs |-> mem.recs, age |-> 0]
  /\ mirror' = [m \in Mirrors |-> IF m = who THEN [mirror[m] EXCEPT !.pc = "wait"] ELSE mirror[m]]
  /\ UNCHANGED <<up, mem, commit, snap, redis, frames, history, count>>

PutObject == objs' = With(objs, <<pack.epoch, pack.seq>>, [recs |-> pack.recs, left |-> SnapshotTTL])

SnapshotPut ==
  /\ up /\ pack.pc = "read"
  /\ PutObject
  /\ pack' = [pack EXCEPT !.pc = "put", !.age = 0]
  /\ UNCHANGED <<up, mem, commit, snap, store, pkgs, frames, mirror, history, count>>

(* store_unavailable; the object may be there all the same. *)
SnapshotFails ==
  /\ up /\ pack.pc = "read" /\ faults < MaxFaults
  /\ PutObject \/ UNCHANGED objs
  /\ pack' = Idle
  /\ Reply(pack.who, "ask", NoRef)
  /\ faults' = faults + 1
  /\ UNCHANGED <<up, mem, commit, snap, store, pkgs, frames, history, epochs, torn, crashes>>

SnapshotEnd ==
  /\ up /\ pack.pc = "put"
  /\ snap' = [epoch |-> pack.epoch, seq |-> pack.seq, age |-> 0]
  /\ Reply(pack.who, "load", <<pack.epoch, pack.seq>>)
  /\ pack' = Idle
  /\ UNCHANGED <<up, mem, commit, redis, frames, history, count>>

------------------------------------------------------------------------------
(* Crash and start.  Memory is gone with the process: mem is what it last was. *)

Crash ==
  /\ up /\ crashes < MaxCrashes
  /\ up' = FALSE /\ commit' = NoBatch /\ snap' = NoSnap /\ pack' = Idle
  /\ crashes' = crashes + 1
  /\ UNCHANGED <<mem, redis, frames, mirror, history, epochs, torn, faults>>

(* Fault: the hash in the meta is not compared. *)
ResumesAlways == TRUE

Resumes == Hash(store.recs) = store.hash

(* mount(): what the set is after a start; keep says that the definition is the same one. *)
Mounted(keep) ==
  IF keep /\ Resumes THEN [epoch |-> store.epoch, seq |-> store.seq, recs |-> store.recs]
  ELSE [epoch |-> epochs + 1, seq |-> Seq0, recs |-> IF keep THEN store.recs ELSE Empty]

(* Reset writes the meta, and deletes the records of another definition. *)
Reset(s) ==
  /\ s.epoch <= MaxEpochs
  /\ store' = [epoch |-> s.epoch, seq |-> s.seq, hash |-> Hash(s.recs), recs |-> s.recs]
  /\ epochs' = IF s.epoch > epochs THEN s.epoch ELSE epochs

Start(keep) ==
  /\ ~up
  /\ Reset(Mounted(keep))
  /\ mem' = Mounted(keep)
  /\ up' = TRUE
  /\ history' = Named(mem'.seq, mem'.epoch, mem'.recs)
  /\ frames' = frames \cup {TickOf(mem')}
  /\ UNCHANGED <<commit, snap, pack, pkgs, objs, mirror, torn, faults, crashes>>

(* Reset fails although Redis applied it, and the process exits. *)
StartFails(keep) ==
  /\ ~up /\ faults < MaxFaults
  /\ Reset(Mounted(keep))
  /\ faults' = faults + 1
  /\ UNCHANGED <<keeper, pkgs, objs, frames, mirror, history, torn, crashes>>

------------------------------------------------------------------------------
(* A mirror. *)

Moved(m, epoch, seq, recs, pc) ==
  mirror' = [mirror EXCEPT ![m] = [pc |-> pc, epoch |-> epoch, seq |-> seq, recs |-> recs,
    goal |-> IF pc = "read" THEN @.goal ELSE 0, ref |-> NoRef]]

(* The mirror goes on without having moved. *)
Turns(m, pc) == mirror' = [mirror EXCEPT ![m].pc = pc, ![m].goal = 0, ![m].ref = NoRef]

Hear(m, f) ==
  /\ mirror[m].pc = "idle"
  /\ LET x == mirror[m] IN
     \/ /\ f.epoch # x.epoch
        /\ Turns(m, "ask")
     \/ /\ f.epoch = x.epoch /\ f.seq = x.seq + 1 /\ f.inline # NoChange
        /\ Moved(m, x.epoch, f.seq, Apply(x.recs, f.inline), "idle")
     \/ /\ f.epoch = x.epoch /\ f.seq > x.seq /\ ~(f.seq = x.seq + 1 /\ f.inline # NoChange)
        /\ mirror' = [mirror EXCEPT ![m].pc = "read", ![m].goal = f.seq]
  /\ UNCHANGED <<keeper, redis, frames, history, count>>

(* Further behind: the packages one by one, or a snapshot when one is gone. *)
ReadPackage(m) ==
  /\ mirror[m].pc = "read"
  /\ LET x == mirror[m]
         n == x.seq + 1 IN
     IF n \in DOMAIN pkgs
     THEN Moved(m, x.epoch, n, Apply(x.recs, pkgs[n].change), IF n = x.goal THEN "idle" ELSE "read")
     ELSE Turns(m, "ask")
  /\ UNCHANGED <<keeper, redis, frames, history, count>>

(* The keeper that was asked is gone. *)
Timeout(m) ==
  /\ mirror[m].pc = "wait" /\ pack.who # m
  /\ Turns(m, "ask")
  /\ UNCHANGED <<keeper, redis, frames, history, count>>

(* A snapshot that is behind the mirror is not loaded. *)
LoadObject(m) ==
  /\ mirror[m].pc = "load"
  /\ LET x == mirror[m]
         behind == x.ref[1] = x.epoch /\ x.ref[2] <= x.seq IN
     \/ x.ref \notin DOMAIN objs /\ Turns(m, "ask")
     \/ x.ref \in DOMAIN objs /\ behind /\ Turns(m, "idle")
     \/ x.ref \in DOMAIN objs /\ ~behind /\ Moved(m, x.ref[1], x.ref[2], objs[x.ref].recs, "idle")
  /\ UNCHANGED <<keeper, redis, frames, history, count>>

------------------------------------------------------------------------------
(* Time.  Redis drops what has no time left; a store call that takes too long *)
(* has failed.  The age of a stale reference does not matter.                 *)

Elapsed(f) == [k \in {j \in DOMAIN f : f[j].left > 1} |-> [f[k] EXCEPT !.left = @ - 1]]

Clock ==
  /\ commit.pc = "stored" => commit.age < ReplyLag
  /\ pack.pc = "read" => pack.age < CallLag
  /\ pack.pc = "put" => pack.age < ReplyLag
  /\ Prompt => \A m \in Mirrors : mirror[m].pc # "load"
  /\ pkgs' = Elapsed(pkgs) /\ objs' = Elapsed(objs)
  /\ commit' = IF commit.pc = "stored" THEN [commit EXCEPT !.age = @ + 1] ELSE commit
  /\ pack' = IF pack.pc # "idle" THEN [pack EXCEPT !.age = @ + 1] ELSE pack
  /\ snap' = IF Usable THEN [snap EXCEPT !.age = @ + 1] ELSE snap
  /\ UNCHANGED <<up, mem, store, frames, mirror, history, count>>

Committer == \/ \E c \in Changes : CommitStore(Planned(c)) \/ CommitTorn(Planned(c))
             \/ CommitMemory \/ CommitPublish

Snapshots == \/ \E w \in Mirrors \cup {"http"} : SnapshotCached(w) \/ SnapshotRead(w)
             \/ SnapshotPut \/ SnapshotFails \/ SnapshotEnd

Process == Crash \/ \E keep \in BOOLEAN : Start(keep) \/ StartFails(keep)

MirrorStep(m) == (\E f \in frames : Hear(m, f)) \/ ReadPackage(m) \/ Timeout(m) \/ LoadObject(m)

RNext == Committer \/ Tick \/ Snapshots \/ Process \/ (\E m \in Mirrors : MirrorStep(m)) \/ Clock

RSpec == RInit /\ [][RNext]_rvars

(* Fairness.  The goroutines of the keeper run, the supervisor starts the process    *)
(* again, ticks are repeated and reach a mirror that listens again and again (hence  *)
(* strong fairness: late frames may keep it busy), and a mirror goes on.             *)
RFairSpec ==
  /\ RSpec
  /\ WF_rvars(CommitMemory) /\ WF_rvars(CommitPublish) /\ WF_rvars(Tick)
  /\ WF_rvars(SnapshotPut) /\ WF_rvars(SnapshotEnd)
  /\ WF_rvars(Start(TRUE))
  /\ \A m \in Mirrors :
       /\ SF_rvars(Hear(m, TickOf(mem)) /\ TickOf(mem) \in frames)
       /\ SF_rvars(SnapshotCached(m) \/ SnapshotRead(m))
       /\ WF_rvars(ReadPackage(m)) /\ WF_rvars(LoadObject(m)) /\ WF_rvars(Timeout(m))

------------------------------------------------------------------------------
(* Properties. *)

(* Types of the variables; lifetimes stay within the configured ones, and the committer *)
(* and the snapshot call never outlast the time a store call has.                       *)
RTypeOK ==
  /\ up \in BOOLEAN
  /\ mem \in [epoch : 1..MaxEpochs, seq : 1..LastSeq, recs : Recs]
  /\ commit \in [pc : {"idle", "stored", "publish"}, change : Batches, age : 0..ReplyLag]
  /\ snap \in [epoch : 0..MaxEpochs, seq : 0..LastSeq, age : 0..SnapshotTTL]
  /\ pack \in [pc : {"idle", "read", "put"}, who : Mirrors \cup {"http"}, epoch : 0..MaxEpochs,
               seq : 0..LastSeq, recs : Recs, age : 0..(CallLag + ReplyLag)]
  /\ store \in [epoch : 1..MaxEpochs, seq : 1..LastSeq, hash : SUBSET Values, recs : Recs]
  /\ DOMAIN pkgs \subseteq 1..LastSeq
  /\ \A n \in DOMAIN pkgs : pkgs[n] \in [change : Batches, left : 1..DiffTTL]
  /\ DOMAIN objs \subseteq (1..MaxEpochs) \X (1..LastSeq)
  /\ \A o \in DOMAIN objs : objs[o] \in [recs : Recs, left : 1..SnapshotTTL]
  /\ frames \subseteq [epoch : 1..MaxEpochs, seq : 1..LastSeq,
                       hash : SUBSET Values, inline : Batches]
  /\ mirror \in [Mirrors -> [pc : {"idle", "read", "ask", "wait", "load"}, epoch : 0..MaxEpochs,
                             seq : 0..LastSeq, recs : Recs, goal : 0..LastSeq,
                             ref : (0..MaxEpochs) \X (0..LastSeq)]]
  /\ DOMAIN history \subseteq 0..LastSeq
  /\ \A n \in DOMAIN history : history[n] \in [epoch : 0..MaxEpochs, recs : Recs]
  /\ epochs \in 1..MaxEpochs /\ torn \in 0..MaxFaults /\ faults \in 0..MaxFaults
  /\ crashes \in 0..MaxCrashes

(* The same values, and the same expiry times as long as no transaction was torn. *)
Same(r, s) == Hash(r) = Hash(s) /\ (torn = 0 => r = s)

(* A mirror holds what the keeper had in memory under the mirror's epoch and number,   *)
(* whatever it took it from: frames, packages of any age, snapshots of an earlier      *)
(* process.  The mirror compares no hash and no epoch of a package: numbers are enough *)
(* (seq0, the order of store, memory and frame in commit, DiffKey without epoch).      *)
MirrorTruth ==
  \A m \in Mirrors :
    /\ mirror[m].seq \in DOMAIN history
    /\ history[mirror[m].seq].epoch = mirror[m].epoch
    /\ Same(mirror[m].recs, history[mirror[m].seq].recs)

(* One number names one state: a start that resumes an epoch, after any mixture of torn *)
(* transactions and crashes, does not bring back a number with other values, nor a      *)
(* frame with another hash (mount compares the hash of the records with the meta).      *)
NumberNamesState ==
  /\ mem.seq \in DOMAIN history
  /\ history[mem.seq].epoch = mem.epoch /\ Same(mem.recs, history[mem.seq].recs)
  /\ \A f \in frames : /\ f.seq \in DOMAIN history
                       /\ history[f.seq].epoch = f.epoch /\ Hash(history[f.seq].recs) = f.hash

(* A reference that Snapshot would hand out from its cache names an object that still *)
(* exists: snapMargin covers the time between SET and the clock reading after it.     *)
ReferenceAlive ==
  up /\ Usable => /\ <<snap.epoch, snap.seq>> \in DOMAIN objs
                 /\ objs[<<snap.epoch, snap.seq>>].left >= SnapMargin - ReplyLag

(* The packages after a snapshot against its object (New, commit, packSnapshot): as long *)
(* as the object of the cached reference has more time left than Spare is short of zero, *)
(* every package from it to the present exists, and lives Spare longer than the object.  *)
BridgeOutlives ==
  LET o == <<snap.epoch, snap.seq>> IN
  up /\ snap # NoSnap /\ o \in DOMAIN objs /\ objs[o].left + Spare > 0 =>
    \A n \in (snap.seq + 1)..mem.seq :
      n \in DOMAIN pkgs /\ pkgs[n].left >= objs[o].left + Spare

(* "A snapshot is useless once the packages after it are gone" (config.Load): none is     *)
(* gone as long as the object of the cached reference exists.  New makes DiffTTL twice    *)
(* SnapshotTTL for it, which is enough when a call takes no longer than a snapshot lives. *)
BridgeStands ==
  up /\ snap # NoSnap /\ <<snap.epoch, snap.seq>> \in DOMAIN objs =>
    (snap.seq + 1)..mem.seq \subseteq DOMAIN pkgs

(* What a mirror shows: the values. *)
Promise == INSTANCE Feed WITH
  log <- [n \in DOMAIN history |-> Hash(history[n].recs)],
  at  <- [m \in Mirrors |-> [seq |-> mirror[m].seq, shown |-> Hash(mirror[m].recs)]]

(* Replication implements Feed: states are named by growing numbers over commits, torn  *)
(* transactions, crashes and new epochs, and a mirror only moves forward through them.  *)
ImplementsFeed == Promise!FSpec

(* Every state the keeper reaches is reached or passed by every mirror, through lost     *)
(* frames, expired packages and snapshots, failed snapshots and restarts of the keeper.  *)
CatchesUp == \A m \in Mirrors, n \in 1..LastSeq : mem.seq >= n ~> mirror[m].seq >= n

=============================================================================
