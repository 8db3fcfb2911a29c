------------------------------ MODULE Lifecycle ------------------------------
(***************************************************************************)
(* How holders come and go: internal/keeper/keeper.go, Start, mount,       *)
(* Define, Reload, drop and shutdown, with what they read and write in the *)
(* state store (internal/state/state.go) and the definitions they load     *)
(* (internal/store/pg.go).                                                 *)
(*                                                                         *)
(* Each request of the bus is a goroutine of its own, so several mounts    *)
(* and drops run at once, and the holders they replace go on storing       *)
(* writes until they are stopped.  A step here is one access to the map of *)
(* sets under k.mu, one round trip to Redis or one step of a holder.       *)
(*                                                                         *)
(* A holder stores one write at a time and each write is one delta: what   *)
(* batches, plans and refusals do in between is module Pipeline.  Epoch    *)
(* and hash key are drawn together and stored together, so that the epoch  *)
(* stands for both.  The hash of contents depends on the key, except that  *)
(* it is zero, the empty XOR, for every key when nothing is there.         *)
(***************************************************************************)
EXTENDS Integers, Sequences, FiniteSets, SequencesExt

CONSTANTS
  Names,      \* names of sets
  Ids,        \* identities of definitions
  Types,      \* types of values
  Revs,       \* what else a definition holds: limit, ttl, hash
  Values,     \* values a set may hold
  Handlers,   \* goroutines that serve define and reload
  Boot,       \* the goroutine of Start
  Torn,       \* whether the state store may fail after having applied
  StoreFails, \* whether a call of the state store may fail
  MaxWrites,  \* bound: writes
  MaxEpochs,  \* bound: epochs drawn
  MaxHolders, \* bound: holders of one process
  MaxEdits,   \* bound: edits of the definitions
  MaxCrashes, \* bound: crashes
  MaxServes,  \* bound: requests served
  None        \* no definition, no identity

Procs == Handlers \cup {Boot}

Def == [id : Ids, type : Types, rev : Revs]

ASSUME LifecycleAssumption ==
  /\ IsFiniteSet(Names) /\ IsFiniteSet(Handlers) /\ Boot \notin Handlers
  /\ None \notin Def /\ None \notin Ids
  /\ {MaxWrites, MaxEpochs, MaxHolders, MaxEdits, MaxCrashes, MaxServes} \subseteq Nat
  /\ {Torn, StoreFails} \subseteq BOOLEAN

VARIABLES
  defs,       \* the table of datasets: the active definition of each name
  redis,      \* per name: meta and records
  sets,       \* k.sets: per name the number of its holder, 0 is none
  holders,    \* the holders of this process, numbered as they were made
  proc,       \* per goroutine: where it is and its local variables
  ready,      \* k.ready
  epochs,     \* how many epochs were drawn
  panic,      \* how the process died, when by a panic
  truth,      \* history, per name and value: what the answers imply
  published,  \* history: <<epoch, seq, contents>> as mirrors were told
  edits, crashes, serves, writes  \* histories, for the bounds

history == <<truth, published>>
bounds  == <<edits, crashes, serves, writes>>
lvars   == <<defs, redis, sets, holders, proc, ready, epochs, panic, history, bounds>>

-----------------------------------------------------------------------------
(* The keyed hash of some contents. *)
Hash(epoch, contents) == IF contents = {} THEN <<>> ELSE <<epoch, contents>>

(* seq0: the clock in sixteenths of a millisecond, ahead of every earlier number. *)
Seq0(epoch) == epoch * (MaxWrites + 1)

(* No meta; the tag of one that does not parse is "bad". *)
NoMeta  == [tag |-> "none", id |-> None, type |-> None, epoch |-> 0, seq |-> 0, hash |-> <<>>]

(* What state.Drop leaves of a set. *)
NoState == [meta |-> NoMeta, recs |-> {}]

Idle == [op |-> "none", pc |-> "idle", name |-> None, def |-> None, list |-> <<>>, swept |-> FALSE,
         seen |-> {}, meta |-> NoMeta, recs |-> {}, h |-> 0, halt |-> <<>>]

Goto(p, pc) == proc' = [proc EXCEPT ![p].pc = pc]

(* No answer tells whether a value is there. *)
Unknown == [v \in Values |-> "any"]

LInit ==
  /\ defs \in [Names -> Def \cup {None}]
  /\ \A m, n \in Names : m # n /\ defs[m] # None /\ defs[n] # None => defs[m].id # defs[n].id
  /\ redis = [n \in Names |-> NoState]
  /\ sets = [n \in Names |-> 0]
  /\ holders = <<>>
  /\ proc = [p \in Procs |-> Idle]
  /\ ready = FALSE
  /\ epochs = 0
  /\ panic = "none"
  /\ truth = [n \in Names |-> Unknown]
  /\ published = {}
  /\ edits = 0 /\ crashes = 0 /\ serves = 0 /\ writes = 0

-----------------------------------------------------------------------------
(* The controller *)

(* The definition of a name is created, edited, renamed or switched off. *)
Edit(n, d) ==
  /\ edits < MaxEdits /\ edits' = edits + 1
  /\ defs[n] # d
  /\ defs' = [m \in Names |->
                IF m = n THEN d
                ELSE IF d # None /\ defs[m] # None /\ defs[m].id = d.id THEN None
                ELSE defs[m]]
  /\ UNCHANGED <<redis, sets, holders, proc, ready, epochs, panic, history, crashes, serves,
                 writes>>

-----------------------------------------------------------------------------
(* A holder: its planner and committer *)

Running(h) == holders[h].run = "up"

(* A job for this value of this set waits for its answer. *)
Pending(n, v) ==
  \E h \in DOMAIN holders :
    holders[h].name = n /\ \E j \in ToSet(holders[h].jobs) : j.v = v

(* A job gets into the channel of the holder the map names; no two at once for a value. *)
Submit(n, op, v) ==
  LET h == sets[n] IN
  /\ ready /\ h # 0
  /\ holders[h].jobs = <<>> /\ ~Pending(n, v) /\ writes < MaxWrites
  /\ writes' = writes + 1
  /\ holders' = [holders EXCEPT ![h].jobs = <<[op |-> op, v |-> v]>>]
  /\ truth' = [truth EXCEPT ![n][v] = "any"]
  /\ UNCHANGED <<defs, redis, sets, proc, ready, epochs, panic, published, edits, crashes,
                 serves>>

(* Two definitions the contents of a set survive between. *)
SameSet(d, e) == d.id = e.id /\ d.type = e.type

(***************************************************************************)
(* The job of h is answered with ok, which tells what is in the set of     *)
(* that name, if that is still the set the job was for.                    *)
(***************************************************************************)
Ack(h) ==
  LET j == Head(holders[h].jobs)
      n == holders[h].name
      told == sets[n] # 0 /\ SameSet(holders[sets[n]].def, holders[h].def)
  IN truth' = [truth EXCEPT ![n][j.v] = CASE ~told        -> "any"
                                          [] j.op = "add" -> "in"
                                          [] OTHER        -> "out"]

(* The contents once job j is carried out; an addition always extends. *)
Outcome(contents, j) == IF j.op = "add" THEN contents \cup {j.v} ELSE contents \ {j.v}

(* A removal of what is not there changes nothing and is answered at once. *)
HolderSkip(h) ==
  LET j == Head(holders[h].jobs) IN
  /\ Running(h) /\ holders[h].cpc = "idle" /\ holders[h].jobs # <<>>
  /\ j.op = "remove" /\ j.v \notin holders[h].mem
  /\ Ack(h)
  /\ holders' = [holders EXCEPT ![h].jobs = <<>>]
  /\ UNCHANGED <<defs, redis, sets, proc, ready, epochs, panic, published, bounds>>

(* Fault: the number is not stored. *)
NumberedByHash(meta, seq, hash) ==
  [meta EXCEPT !.tag = IF @ = "none" THEN "bad" ELSE @, !.hash = hash]

(* HSET of seq and hash alone: a meta that was dropped comes back in part. *)
Numbered(meta, seq, hash) ==
  [meta EXCEPT !.tag = IF @ = "none" THEN "bad" ELSE @, !.seq = seq, !.hash = hash]

(* Fault: a transaction that failed counts as stored. *)
StoredAnyway(how) == TRUE

(* The transaction is known to have been applied. *)
Stored(how) == how = "ok"

(* state.Commit by whoever runs under this name: one transaction. *)
HolderStore(h, how) ==
  LET j == Head(holders[h].jobs)
      n == holders[h].name
      x == holders[h]
  IN
  /\ Running(h) /\ x.cpc = "idle" /\ x.jobs # <<>>
  /\ j.op = "add" \/ j.v \in x.mem
  /\ how = "lost" => StoreFails
  /\ how = "torn" => Torn
  /\ redis' = IF how = "lost" THEN redis
              ELSE [redis EXCEPT
                      ![n].recs = Outcome(@, j),
                      ![n].meta = Numbered(@, x.seq + 1, Hash(x.epoch, Outcome(x.mem, j)))]
  /\ holders' = IF Stored(how) THEN [holders EXCEPT ![h].cpc = "stored"]
                ELSE [holders EXCEPT ![h].jobs = <<>>]
  /\ UNCHANGED <<defs, sets, proc, ready, epochs, panic, history, bounds>>

(* Set.Commit, the diff frame and the answer. *)
HolderCommit(h) ==
  LET j == Head(holders[h].jobs)
      x == [holders[h] EXCEPT !.mem = Outcome(@, j), !.seq = @ + 1, !.cpc = "idle",
                              !.jobs = <<>>]
  IN
  /\ holders[h].cpc = "stored"
  /\ holders' = [holders EXCEPT ![h] = x]
  /\ published' = published \cup {<<x.epoch, x.seq, x.mem>>}
  /\ Ack(h)
  /\ UNCHANGED <<defs, redis, sets, proc, ready, epochs, panic, bounds>>

(* The goroutines see that stop is closed; they end after the work in hand. *)
HolderExit(h) ==
  /\ Running(h) /\ holders[h].stop /\ holders[h].cpc = "idle"
  /\ holders' = [holders EXCEPT ![h].run = "down", ![h].jobs = <<>>]
  /\ UNCHANGED <<defs, redis, sets, proc, ready, epochs, panic, history, bounds>>

Holder(h) ==
  \/ HolderSkip(h) \/ HolderCommit(h) \/ HolderExit(h)
  \/ \E how \in {"ok", "lost", "torn"} : HolderStore(h, how)

-----------------------------------------------------------------------------
(* Requests *)

(* What a goroutine that serves a list of mounts and drops starts with. *)
Serve(p, op, list) ==
  /\ proc' = [proc EXCEPT ![p] = [Idle EXCEPT !.op = op, !.pc = "next", !.list = list,
                                       !.seen = {e.name : e \in ToSet(list)}]]
  /\ UNCHANGED <<defs, redis, sets, holders, ready, epochs, panic, history, edits, crashes,
                 writes>>

(* The active definitions, in the order of their names, whatever that is. *)
LoadDefinitions == SetToSeqs({[name |-> n, def |-> defs[n]] : n \in {m \in Names : defs[m] # None}})

Start ==
  /\ ~ready /\ proc[Boot].pc = "idle"
  /\ \E list \in LoadDefinitions : Serve(Boot, "start", list)
  /\ UNCHANGED serves

Define(p, n) ==
  /\ ready /\ proc[p].pc = "idle" /\ serves < MaxServes
  /\ serves' = serves + 1
  /\ Serve(p, "define", <<[name |-> n, def |-> defs[n]]>>)

Reload(p) ==
  /\ ready /\ proc[p].pc = "idle" /\ serves < MaxServes
  /\ serves' = serves + 1
  /\ \E list \in LoadDefinitions : Serve(p, "reload", list)

(* The process is gone, and comes up again with nothing but Redis. *)
Die ==
  /\ sets' = [n \in Names |-> 0]
  /\ holders' = <<>>
  /\ proc' = [p \in Procs |-> Idle]
  /\ ready' = FALSE

Panic(why) ==
  /\ panic' = why
  /\ Die
  /\ UNCHANGED <<defs, redis, epochs, history, bounds>>

(* The next mount or drop of the list. *)
ServeNext(p) ==
  LET x == proc[p]
      e == Head(x.list)
  IN
  /\ x.pc = "next" /\ x.list # <<>>
  /\ proc' = [proc EXCEPT ![p].name = e.name, ![p].def = e.def, ![p].list = Tail(x.list),
                          ![p].pc = IF e.def = None THEN "drop" ELSE "mount"]
  /\ UNCHANGED <<defs, redis, sets, holders, ready, epochs, panic, history, bounds>>

(* Start is through: the keeper is ready. *)
StartEnd(p) ==
  /\ proc[p].op = "start" /\ proc[p].pc = "next" /\ proc[p].list = <<>>
  /\ ready' = TRUE
  /\ proc' = [proc EXCEPT ![p] = Idle]
  /\ UNCHANGED <<defs, redis, sets, holders, epochs, panic, history, bounds>>

(* Define is through: the reply of a mount names the epoch of the holder. *)
DefineEnd(p) ==
  /\ proc[p].op = "define" /\ proc[p].pc = "next" /\ proc[p].list = <<>>
  /\ IF proc[p].def # None /\ sets[proc[p].name] = 0
     THEN Panic("nil holder")
     ELSE /\ proc' = [proc EXCEPT ![p] = Idle]
          /\ UNCHANGED <<defs, redis, sets, holders, ready, epochs, panic, history, bounds>>

(* Every definition is mounted: what has none is dropped. *)
ReloadGone(p) ==
  /\ proc[p].op = "reload" /\ proc[p].pc = "next" /\ proc[p].list = <<>> /\ ~proc[p].swept
  /\ \E list \in SetToSeqs({[name |-> n, def |-> None] :
                              n \in {m \in Names : sets[m] # 0 /\ m \notin proc[p].seen}}) :
       proc' = [proc EXCEPT ![p].list = list, ![p].swept = TRUE]
  /\ UNCHANGED <<defs, redis, sets, holders, ready, epochs, panic, history, bounds>>

ReloadEnd(p) ==
  /\ proc[p].op = "reload" /\ proc[p].pc = "next" /\ proc[p].list = <<>> /\ proc[p].swept
  /\ proc' = [proc EXCEPT ![p] = Idle]
  /\ UNCHANGED <<defs, redis, sets, holders, ready, epochs, panic, history, bounds>>

(* The state store fails a mount: Start exits, a request is answered so. *)
MountError(p) ==
  IF proc[p].op = "start" THEN Die
  ELSE proc' = [proc EXCEPT ![p] = Idle] /\ UNCHANGED <<sets, holders, ready>>

MountFails(p) ==
  /\ StoreFails /\ proc[p].pc \in {"meta", "recs", "reset"}
  /\ MountError(p)
  /\ UNCHANGED <<defs, redis, epochs, panic, history, bounds>>

-----------------------------------------------------------------------------
(* mount *)

(* Nothing is to be done for a definition that is mounted, except by Define. *)
MountGet(p) ==
  LET h == sets[proc[p].name] IN
  /\ proc[p].pc = "mount"
  /\ Goto(p, IF proc[p].op # "define" /\ h # 0 /\ holders[h].def = proc[p].def
             THEN "next" ELSE "meta")
  /\ UNCHANGED <<defs, redis, sets, holders, ready, epochs, panic, history, bounds>>

(* state.Load, first round trip; without a meta there is no second. *)
MountMeta(p) ==
  LET meta == redis[proc[p].name].meta IN
  /\ proc[p].pc = "meta"
  /\ proc' = [proc EXCEPT ![p].meta = meta, ![p].recs = {},
                          ![p].pc = IF meta.tag = "none" THEN "reset" ELSE "recs"]
  /\ UNCHANGED <<defs, redis, sets, holders, ready, epochs, panic, history, bounds>>

(* Fault: the records of another moment than the meta are not looked at. *)
ResumesUnchecked(x) == TRUE

(* The hash in the meta is that of the records. *)
Resumes(x) == Hash(x.meta.epoch, x.recs) = x.meta.hash

(* Fault: the records are not read. *)
MountRecordsNone(p) ==
  /\ proc[p].pc = "recs"
  /\ Goto(p, "reset")
  /\ UNCHANGED <<defs, redis, sets, holders, ready, epochs, panic, history, bounds>>

(* state.Load, the records. *)
MountRecords(p) ==
  /\ proc[p].pc = "recs"
  /\ proc' = [proc EXCEPT ![p].recs = redis[proc[p].name].recs, ![p].pc = "reset"]
  /\ UNCHANGED <<defs, redis, sets, holders, ready, epochs, panic, history, bounds>>

(* state.Reset: one transaction for the meta and, unless kept, the records. *)
Reset(n, meta, keep) ==
  redis' = [redis EXCEPT ![n] = [meta |-> meta, recs |-> IF keep THEN @.recs ELSE {}]]

(***************************************************************************)
(* The set is resumed when the meta is of the same set and its hash is the *)
(* one of the records; else it opens a new epoch, with the records if they *)
(* are of the same set or the meta does not parse.  Reset stores the meta. *)
(***************************************************************************)
MountReset(p) ==
  LET x      == proc[p]
      keep   == x.meta.tag = "bad" \/ (x.meta.tag = "good" /\ SameSet(x.meta, x.def))
      resume == keep /\ x.op # "define" /\ x.meta.tag # "bad" /\ Resumes(x)
      epoch  == IF resume THEN x.meta.epoch ELSE epochs + 1
      seq    == IF resume THEN x.meta.seq ELSE Seq0(epochs + 1)
      mem    == IF keep THEN x.recs ELSE {}
      h      == [name |-> x.name, def |-> x.def, epoch |-> epoch, seq |-> seq, mem |-> mem,
                 jobs |-> <<>>, cpc |-> "idle", run |-> "new", stop |-> FALSE]
      meta   == [tag |-> "good", id |-> x.def.id, type |-> x.def.type, epoch |-> epoch,
                 seq |-> seq, hash |-> Hash(epoch, mem)]
  IN
  /\ x.pc = "reset"
  /\ resume \/ epochs < MaxEpochs
  /\ Len(holders) < MaxHolders
  /\ epochs' = IF resume THEN epochs ELSE epochs + 1
  /\ Reset(x.name, meta, keep)
  /\ truth' = IF keep THEN truth ELSE [truth EXCEPT ![x.name] = Unknown]
  /\ \/ /\ holders' = Append(holders, h)
        /\ proc' = [proc EXCEPT ![p].pc = "swap", ![p].h = Len(holders) + 1]
        /\ UNCHANGED <<sets, ready>>
     \/ Torn /\ MountError(p)
  /\ UNCHANGED <<defs, panic, published, bounds>>

(* Fault: a rename is not noticed. *)
RenamedNone(x) == {}

(* The names the map has for the id of the definition being mounted. *)
Renamed(x) == {n \in Names \ {x.name} : sets[n] # 0 /\ holders[sets[n]].def.id = x.def.id}

(* Fault: the holder that is replaced is not stopped. *)
ReplacedNone(x) == <<>>

(* The holder that is replaced; its records stay. *)
Replaced(x) == IF sets[x.name] = 0 THEN <<>> ELSE <<[h |-> sets[x.name], wipe |-> FALSE]>>

(* Under k.mu: the holder takes its place; holders of the same id lose theirs. *)
MountSwap(p) ==
  LET x       == proc[p]
      renamed == Renamed(x)
  IN
  /\ x.pc = "swap"
  /\ sets' = [n \in Names |-> IF n = x.name THEN x.h ELSE IF n \in renamed THEN 0 ELSE sets[n]]
  /\ truth' = [n \in Names |-> IF n \in renamed THEN Unknown ELSE truth[n]]
  /\ \E others \in SetToSeqs({[h |-> sets[n], wipe |-> TRUE] : n \in renamed}) :
       proc' = [proc EXCEPT ![p].pc = "halt", ![p].halt = Replaced(x) \o others]
  /\ UNCHANGED <<defs, redis, holders, ready, epochs, panic, published, bounds>>

(* Fault: the holder stays in the map. *)
DropDeleteKeeps(p) ==
  LET x == proc[p] IN
  /\ x.pc = "drop"
  /\ truth' = [truth EXCEPT ![x.name] = Unknown]
  /\ proc' = IF sets[x.name] = 0 THEN [proc EXCEPT ![p].pc = "next"]
             ELSE [proc EXCEPT ![p].pc = "halt", ![p].halt = <<[h |-> sets[x.name], wipe |-> TRUE]>>]
  /\ UNCHANGED <<defs, redis, sets, holders, ready, epochs, panic, published, bounds>>

(* drop, under k.mu. *)
DropDelete(p) ==
  LET x == proc[p] IN
  /\ x.pc = "drop"
  /\ sets' = [sets EXCEPT ![x.name] = 0]
  /\ truth' = [truth EXCEPT ![x.name] = Unknown]
  /\ proc' = IF sets[x.name] = 0 THEN [proc EXCEPT ![p].pc = "next"]
             ELSE [proc EXCEPT ![p].pc = "halt", ![p].halt = <<[h |-> sets[x.name], wipe |-> TRUE]>>]
  /\ UNCHANGED <<defs, redis, holders, ready, epochs, panic, published, bounds>>

-----------------------------------------------------------------------------
(* shutdown of the holders that lost their place *)

(* Fault: stop is not closed. *)
HaltNothing(p) ==
  /\ proc[p].pc = "halt" /\ proc[p].halt # <<>>
  /\ Goto(p, "wait")
  /\ UNCHANGED <<defs, redis, sets, holders, ready, epochs, panic, history, bounds>>

(* close(h.stop) *)
HaltClose(p) ==
  LET h == Head(proc[p].halt).h IN
  /\ proc[p].pc = "halt" /\ proc[p].halt # <<>>
  /\ IF holders[h].stop
     THEN Panic("close of closed channel")
     ELSE /\ holders' = [holders EXCEPT ![h].stop = TRUE]
          /\ Goto(p, "wait")
          /\ UNCHANGED <<defs, redis, sets, ready, epochs, panic, history, bounds>>

(* h.done.Wait() returns when neither goroutine runs, also before they start. *)
HaltWait(p) ==
  LET e == Head(proc[p].halt) IN
  /\ proc[p].pc = "wait" /\ ~Running(e.h)
  /\ proc' = IF e.wipe THEN [proc EXCEPT ![p].pc = "wipe"]
             ELSE [proc EXCEPT ![p].pc = "halt", ![p].halt = Tail(@)]
  /\ UNCHANGED <<defs, redis, sets, holders, ready, epochs, panic, history, bounds>>

(* state.Drop; a failure is only logged. *)
HaltWipe(p) ==
  LET n == holders[Head(proc[p].halt).h].name IN
  /\ proc[p].pc = "wipe"
  /\ \/ redis' = [redis EXCEPT ![n] = NoState]
     \/ StoreFails /\ UNCHANGED redis
  /\ proc' = [proc EXCEPT ![p].pc = "halt", ![p].halt = Tail(@)]
  /\ UNCHANGED <<defs, sets, holders, ready, epochs, panic, history, bounds>>

(* A drop is through. *)
DropEnd(p) ==
  /\ proc[p].pc = "halt" /\ proc[p].halt = <<>> /\ proc[p].def = None
  /\ Goto(p, "next")
  /\ UNCHANGED <<defs, redis, sets, holders, ready, epochs, panic, history, bounds>>

(* Planner and committer start, whether stop is closed by now or not; a tick. *)
MountStart(p) ==
  LET h == proc[p].h IN
  /\ proc[p].pc = "halt" /\ proc[p].halt = <<>> /\ proc[p].def # None
  /\ holders' = [holders EXCEPT ![h].run = "up"]
  /\ published' = published \cup {<<holders[h].epoch, holders[h].seq, holders[h].mem>>}
  /\ Goto(p, "next")
  /\ UNCHANGED <<defs, redis, sets, ready, epochs, panic, truth, bounds>>

Goroutine(p) ==
  \/ ServeNext(p) \/ StartEnd(p) \/ DefineEnd(p) \/ ReloadGone(p) \/ ReloadEnd(p)
  \/ MountGet(p) \/ MountMeta(p) \/ MountRecords(p) \/ MountReset(p) \/ MountSwap(p)
  \/ MountStart(p) \/ DropDelete(p) \/ DropEnd(p) \/ HaltClose(p) \/ HaltWait(p) \/ HaltWipe(p)

(* The process is killed, or ends on a signal: it stops no holder. *)
Crash ==
  /\ crashes < MaxCrashes /\ crashes' = crashes + 1
  /\ Die
  /\ UNCHANGED <<defs, redis, epochs, panic, history, edits, serves, writes>>

LNext ==
  \/ \E n \in Names, d \in Def \cup {None} : Edit(n, d)
  \/ \E n \in Names, op \in {"add", "remove"}, v \in Values : Submit(n, op, v)
  \/ \E h \in DOMAIN holders : Holder(h)
  \/ Start
  \/ \E p \in Handlers : Reload(p) \/ \E n \in Names : Define(p, n)
  \/ \E p \in Procs : Goroutine(p) \/ MountFails(p)
  \/ Crash

LSpec == LInit /\ [][LNext]_lvars

(***************************************************************************)
(* Every goroutine that can take a step takes one in the end: the timeouts *)
(* of the store calls see to it.                                           *)
(***************************************************************************)
LFairSpec ==
  /\ LSpec
  /\ \A p \in Procs : WF_lvars(Goroutine(p))
  /\ \A h \in 1..MaxHolders : WF_lvars(h \in DOMAIN holders /\ Holder(h))
  /\ WF_lvars(Start)

-----------------------------------------------------------------------------
Metas == [tag : {"none", "bad", "good"}, id : Ids \cup {None}, type : Types \cup {None},
          epoch : Nat, seq : Nat, hash : {<<>>} \cup (Nat \X SUBSET Values)]

Job == [op : {"add", "remove"}, v : Values]

HolderState == [name : Names, def : Def, epoch : Nat, seq : Nat, mem : SUBSET Values,
                jobs : Seq(Job), cpc : {"idle", "stored"}, run : {"new", "up", "down"},
                stop : BOOLEAN]

ProcState == [op : {"none", "start", "define", "reload"},
              pc : {"idle", "next", "mount", "meta", "recs", "reset", "swap", "halt", "wait",
                    "wipe", "drop"},
              name : Names \cup {None}, def : Def \cup {None},
              list : Seq([name : Names, def : Def \cup {None}]), swept : BOOLEAN,
              seen : SUBSET Names, meta : Metas, recs : SUBSET Values, h : Nat,
              halt : Seq([h : Nat, wipe : BOOLEAN])]

(* Type invariant. *)
LTypeOK ==
  /\ defs \in [Names -> Def \cup {None}]
  /\ redis \in [Names -> [meta : Metas, recs : SUBSET Values]]
  /\ sets \in [Names -> Nat]
  /\ holders \in Seq(HolderState)
  /\ proc \in [Procs -> ProcState]
  /\ ready \in BOOLEAN /\ epochs \in Nat
  /\ panic \in {"none", "nil holder", "close of closed channel"}
  /\ truth \in [Names -> [Values -> {"any", "in", "out"}]]
  /\ published \subseteq Nat \X Nat \X SUBSET Values

(***************************************************************************)
(* Nobody closes the stop channel of a holder twice, which would end the   *)
(* process: whoever takes a holder out of the map, and nobody else, stops  *)
(* it, however many mounts and drops overlap.                              *)
(***************************************************************************)
StoppedOnce == panic # "close of closed channel"

(***************************************************************************)
(* Two names never serve the same definition: a rename takes the old name  *)
(* out of the map in the step that enters the new one.                     *)
(***************************************************************************)
OneNamePerId ==
  \A m, n \in Names :
    m # n /\ sets[m] # 0 /\ sets[n] # 0 => holders[sets[m]].def.id # holders[sets[n]].def.id

(***************************************************************************)
(* A holder that runs is in the map, or stopped, or somebody is about to   *)
(* stop it: no planner and committer are left behind that nobody can       *)
(* reach, to sweep and store under a name for ever.                        *)
(***************************************************************************)
NoLeak ==
  \A h \in DOMAIN holders :
    holders[h].run = "up" /\ ~holders[h].stop =>
      \/ \E n \in Names : sets[n] = h
      \/ \E p \in Procs : \E e \in ToSet(proc[p].halt) : e.h = h

(***************************************************************************)
(* What the answers so far imply is true of the set in memory: what is     *)
(* acknowledged "applies in memory" (README.md) and stays so, over crashes *)
(* and remounts.                                                           *)
(***************************************************************************)
AckedInMemory ==
  \A n \in Names, v \in Values :
    sets[n] # 0 /\ Running(sets[n]) =>
      /\ truth[n][v] = "in"  => v \in holders[sets[n]].mem
      /\ truth[n][v] = "out" => v \notin holders[sets[n]].mem

(***************************************************************************)
(* An acknowledged addition is in Redis while its set is mounted: keeper   *)
(* "stores the record" (README.md).                                        *)
(***************************************************************************)
AckedInStore ==
  \A n \in Names, v \in Values : sets[n] # 0 /\ truth[n][v] = "in" => v \in redis[n].recs

(***************************************************************************)
(* Epoch and number name one state of the set, for ever: a mirror that is  *)
(* told a pair it has is right to keep its copy, over crashes, resumed     *)
(* epochs and transactions that failed after having been applied.          *)
(***************************************************************************)
NumberNamesContent ==
  \A x, y \in published : x[1] = y[1] /\ x[2] = y[2] => x[3] = y[3]

(***************************************************************************)
(* Within an epoch the numbers mirrors are told only grow: a restart does  *)
(* not send them back to a number they have passed.  What is told for the  *)
(* first time has a number above all before it, and a holder that runs is  *)
(* not below a number told, so that what it tells again is the last one.   *)
(***************************************************************************)
NumbersGrow ==
  /\ [](\A h \in DOMAIN holders : \A y \in published :
         holders[h].run = "up" /\ y[1] = holders[h].epoch => y[2] <= holders[h].seq)
  /\ [][\A x \in published' \ published, y \in published : x[1] = y[1] => x[2] > y[2]]_published

(* A define that mounted its set has a holder to take the answer from. *)
DefineAnswered == panic # "nil holder"

(***************************************************************************)
(* Every request that changes holders ends: the holders it waits for end,  *)
(* although goroutines wait for each other's holders.                      *)
(***************************************************************************)
RequestsEnd == \A p \in Procs : proc[p].pc # "idle" ~> proc[p].pc = "idle"
=============================================================================
