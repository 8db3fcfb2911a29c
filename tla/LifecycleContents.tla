-------------------------- MODULE LifecycleContents --------------------------
(***************************************************************************)
(* Proofs about what the holders of Lifecycle hold, until the first        *)
(* request to mount or drop a set: over any number of starts, crashes,     *)
(* edits, failed and torn transactions, an acknowledged addition stays in  *)
(* Redis and in memory, and a number stands for one state of its set.      *)
(* Requests break these promises (see the README): the hypothesis is that  *)
(* none was served.                                                        *)
(***************************************************************************)
EXTENDS LifecycleProofs

(* Two sets, as definitions, holders or goroutines know them. *)
Apart(a, b) == a.name # b.name /\ a.def.id # b.def.id

(* Names and ids of the active definitions go together. *)
DefsApart ==
  \A m, n \in Names : m # n /\ defs[m] # None /\ defs[n] # None => defs[m].id # defs[n].id

(* Nobody but Start is at work. *)
OnlyStart ==
  /\ \A p \in Handlers : proc[p].pc = "idle"
  /\ proc[Boot].pc \in {"idle", "next", "mount", "meta", "recs", "reset", "swap", "halt"}
  /\ proc[Boot].pc # "idle" => proc[Boot].op = "start"
  /\ proc[Boot].pc = "halt" => proc[Boot].halt = <<>> /\ proc[Boot].def # None

(* The goroutine is about to make the holder of a set. *)
Makes(x) == x.pc \in {"mount", "meta", "recs", "reset"}

(* What Start has yet to mount has no holder, and each name and id comes once. *)
Listed ==
  LET x == proc[Boot] IN
  /\ \A i \in DOMAIN x.list :
       /\ x.list[i].def # None
       /\ \A j \in DOMAIN x.list : i # j => Apart(x.list[i], x.list[j])
       /\ Makes(x) => Apart(x, x.list[i])
       /\ \A h \in DOMAIN holders : Apart(holders[h], x.list[i])
  /\ Makes(x) => \A h \in DOMAIN holders : Apart(holders[h], x)

(* A process that has not started has no holder. *)
Unstarted == ~ready /\ proc[Boot].pc = "idle" => DOMAIN holders = {}

(* One holder for a set, and nobody stops it. *)
HoldersApart ==
  /\ \A h \in DOMAIN holders : ~holders[h].stop
  /\ \A g, h \in DOMAIN holders : g # h => Apart(holders[g], holders[h])

(* What Start has read of a set is what Redis holds. *)
Read ==
  LET x == proc[Boot] IN
  /\ x.pc \in {"recs", "reset"} => x.meta = redis[x.name].meta
  /\ x.pc = "reset" /\ x.meta.tag # "none" => x.recs = redis[x.name].recs

(* Epochs are drawn, and one for a name. *)
Drawn ==
  /\ \A y \in published : y[1] <= epochs
  /\ \A n \in Names : redis[n].meta.tag # "none" =>
       /\ redis[n].meta.tag = "good" /\ redis[n].meta.epoch <= epochs
       /\ \A m \in Names : m # n /\ redis[m].meta.tag # "none" =>
            redis[m].meta.epoch # redis[n].meta.epoch

(* Mirrors were told of no later number than Redis has, and of that one what its hash is of. *)
Told ==
  \A n \in Names : \A y \in published :
    LET m == redis[n].meta IN
    m.tag # "none" /\ y[1] = m.epoch =>
      y[2] <= m.seq /\ (y[2] = m.seq => m.hash = Hash(m.epoch, y[3]))

(* The same of the number and the contents of a holder; Redis is there, or one ahead. *)
HolderTold ==
  \A h \in DOMAIN holders :
    LET x == holders[h]
        m == redis[x.name].meta
    IN
    /\ m.tag = "good" /\ m.epoch = x.epoch
    /\ \A y \in published : y[1] = x.epoch => y[2] <= x.seq /\ (y[2] = x.seq => y[3] = x.mem)
    /\ x.cpc = "stored" => m.seq = x.seq + 1 /\ m.hash = Hash(x.epoch, Outcome(x.mem, Head(x.jobs)))
    /\ x.cpc = "idle" => m.seq = x.seq + 1 \/ (m.seq = x.seq /\ m.hash = Hash(x.epoch, x.mem))

(* Nothing is known of a value while a job for it waits. *)
Asked ==
  \A h \in DOMAIN holders :
    holders[h].jobs # <<>> => truth[holders[h].name][Head(holders[h].jobs).v] = "any"

(* An acknowledged addition is in Redis and in memory, one that is stored is in Redis. *)
AddedKept ==
  /\ \A n \in Names, v \in Values : truth[n][v] = "in" => v \in redis[n].recs
  /\ \A h \in DOMAIN holders : \A v \in Values :
       truth[holders[h].name][v] = "in" => v \in holders[h].mem
  /\ \A h \in DOMAIN holders :
       holders[h].cpc = "stored" /\ Head(holders[h].jobs).op = "add" =>
         Head(holders[h].jobs).v \in redis[holders[h].name].recs

(* Unless transactions are torn, Redis holds what memory does, or is about to. *)
RemovedKept ==
  ~Torn =>
    /\ \A n \in Names, v \in Values : truth[n][v] = "out" => v \notin redis[n].recs
    /\ \A h \in DOMAIN holders :
         LET x == holders[h]
         IN  redis[x.name].recs = IF x.cpc = "stored" THEN Outcome(x.mem, Head(x.jobs)) ELSE x.mem

(* Who is where. *)
Lone == DefsApart /\ OnlyStart /\ Listed /\ Unstarted /\ HoldersApart

(* What is held. *)
Held == Read /\ Drawn /\ Told /\ HolderTold /\ NumberNamesContent /\ Asked /\ AddedKept /\ RemovedKept

(* The invariant, until a request is served. *)
ContentInv == serves \in Nat /\ (serves = 0 => Lone /\ Held)

------------------------------------------------------------------------------
(* Who is where *)

(* The lists of definitions: each name and id comes once. *)
LEMMA ListsApart ==
  ASSUME LTypeOK, DefsApart, NEW list \in LoadDefinitions
  PROVE  \A i \in DOMAIN list :
           list[i].def # None /\ \A j \in DOMAIN list : i # j => Apart(list[i], list[j])
<1> DEFINE A == {m \in Names : defs[m] # None}
           g == [n \in A |-> [name |-> n, def |-> defs[n]]]
           L == {g[n] : n \in A}
<1>1. IsFiniteSet(A)
  BY LifecycleAssumption, FS_Subset
<1>2. IsFiniteSet(L)
  <2>1. DOMAIN g = A
    OBVIOUS
  <2> HIDE DEF A, g
  <2> QED
    BY <1>1, <2>1, ImageFinite
<1>3. L = {[name |-> n, def |-> defs[n]] : n \in A}
  OBVIOUS
<1>4. list \in Seq(L) /\ \A i, j \in DOMAIN list : list[i] = list[j] => i = j
  BY <1>2, <1>3, OrdersGive DEF LoadDefinitions
<1>5. \A e \in L : e.name \in Names /\ e.def = defs[e.name] /\ e.def # None /\ e = [name |-> e.name, def |-> e.def]
  BY <1>3
<1> HIDE DEF L
<1>6. \A i \in DOMAIN list : list[i] \in L
  BY <1>4
<1>7. \A d, e \in L : d # e => Apart(d, e)
  <2> SUFFICES ASSUME NEW d \in L, NEW e \in L, d # e
               PROVE  Apart(d, e)
    OBVIOUS
  <2>1. d.name # e.name
    BY <1>5
  <2> QED
    BY <1>5, <2>1 DEF Apart, DefsApart
<1> QED
  BY <1>4, <1>5, <1>6, <1>7

(* The definitions stay apart. *)
LEMMA EditApart ==
  ASSUME LTypeOK, DefsApart, NEW n \in Names, NEW d \in Def \cup {None}, Edit(n, d)
  PROVE  DefsApart'
<1>1. defs' = [m \in Names |->
                 IF m = n THEN d
                 ELSE IF d # None /\ defs[m] # None /\ defs[m].id = d.id THEN None
                 ELSE defs[m]]
  BY DEF Edit
<1> QED
  BY <1>1 DEF DefsApart

(* The holders stay who they are. *)
HoldersStay ==
  /\ DOMAIN holders' = DOMAIN holders
  /\ \A h \in DOMAIN holders :
       /\ holders'[h].name = holders[h].name /\ holders'[h].def = holders[h].def
       /\ holders'[h].stop = holders[h].stop

(* Neither holders nor goroutines change places. *)
LEMMA LoneKept ==
  ASSUME Lone, HoldersStay, UNCHANGED <<defs, proc, ready>>
  PROVE  Lone'
<1>1. DefsApart' /\ OnlyStart'
  BY DEF Lone, DefsApart, OnlyStart
<1>2. Listed'
  BY DEF Lone, Listed, HoldersStay, Apart, Makes
<1>3. Unstarted' /\ HoldersApart'
  BY DEF Lone, Unstarted, HoldersApart, HoldersStay, Apart
<1> QED
  BY <1>1, <1>2, <1>3 DEF Lone

(* The process has ended. *)
LEMMA DieLone ==
  ASSUME DefsApart, Die, UNCHANGED defs
  PROVE  Lone' /\ Read' /\ DOMAIN holders' = {}
<1>1. /\ holders' = <<>> /\ proc' = [p \in Procs |-> Idle]
      /\ Boot \in Procs /\ Handlers \subseteq Procs
  BY DEF Die, Procs
<1>2. DOMAIN holders' = {}
  BY <1>1
<1>3. Idle.pc = "idle" /\ Idle.list = <<>> /\ DOMAIN <<>> = {}
  BY DEF Idle
<1>4. proc'[Boot] = Idle /\ \A p \in Handlers : proc'[p] = Idle
  BY <1>1
<1>5. DefsApart' /\ OnlyStart'
  BY <1>3, <1>4 DEF DefsApart, OnlyStart
<1>6. Listed'
  BY <1>2, <1>3, <1>4 DEF Listed, Makes
<1>7. Unstarted' /\ HoldersApart' /\ Read'
  BY <1>2, <1>3, <1>4 DEF Unstarted, HoldersApart, Read
<1> QED
  BY <1>2, <1>5, <1>6, <1>7 DEF Lone

(* Start goes to state y: what it has to do stays apart. *)
LEMMA BootLone ==
  ASSUME Lone, HoldersStay, defs' = defs, NEW y, proc'[Boot] = y,
         \A p \in Handlers : proc'[p] = proc[p],
         y.pc \in {"next", "mount", "meta", "recs", "reset", "halt"}, y.op = "start",
         y.pc = "halt" => y.halt = <<>> /\ y.def # None,
         y.list = proc[Boot].list, y.name = proc[Boot].name, y.def = proc[Boot].def,
         Makes(y) => Makes(proc[Boot])
  PROVE  Lone'
<1>1. DefsApart' /\ OnlyStart'
  BY DEF Lone, DefsApart, OnlyStart
<1>2. Listed'
  BY DEF Lone, Listed, HoldersStay, Apart, Makes
<1>3. Unstarted' /\ HoldersApart'
  BY DEF Lone, Unstarted, HoldersApart, HoldersStay, Apart
<1> QED
  BY <1>1, <1>2, <1>3 DEF Lone

(* The steps of Start that change nothing but its own state. *)
BootAlone ==
  \/ ServeNext(Boot) \/ MountGet(Boot) \/ MountMeta(Boot) \/ MountRecords(Boot)

LEMMA BootGoes ==
  ASSUME LTypeOK, Steps, Lone, Read, BootAlone
  PROVE  Lone' /\ Read' /\ UNCHANGED <<redis, holders, epochs, truth, published>>
<1> DEFINE x == proc[Boot]
<1>0. /\ x \in ProcState /\ Ordered(x) /\ proc \in [Procs -> ProcState]
      /\ Boot \in Procs /\ Handlers \subseteq Procs /\ \A p \in Handlers : p # Boot
  BY LifecycleAssumption, ProcType DEF Procs, Steps, LTypeOK
<1>1. UNCHANGED <<defs, redis, sets, holders, ready, epochs, panic, truth, published>>
  BY DEF BootAlone, ServeNext, MountGet, MountMeta, MountRecords, history
<1> HoldersStay
  BY <1>1 DEF HoldersStay
<1>2. CASE ServeNext(Boot)
  <2> DEFINE e == Head(x.list)
             y == [x EXCEPT !.name = e.name, !.def = e.def, !.list = Tail(x.list),
                            !.pc = IF e.def = None THEN "drop" ELSE "mount"]
             E == [name : Names, def : Def \cup {None}]
  <2>1. x.pc = "next" /\ x.list # <<>> /\ proc' = [proc EXCEPT ![Boot] = y]
    BY <1>2 DEF ServeNext
  <2>2. x.list \in Seq(E)
    BY <1>0 DEF ProcState
  <2>3. /\ e = x.list[1] /\ e \in E /\ 1 \in DOMAIN x.list /\ Tail(x.list) \in Seq(E)
        /\ \A i \in DOMAIN Tail(x.list) :
             i + 1 \in DOMAIN x.list /\ i + 1 # 1 /\ Tail(x.list)[i] = x.list[i + 1]
        /\ \A i, j \in DOMAIN Tail(x.list) : i # j => i + 1 # j + 1
    <3> HIDE DEF E, x
    <3> QED
      BY <2>1, <2>2, TailGives
  <2>4. e.def # None
    BY <2>3 DEF Lone, Listed
  <2>5. /\ y.pc = "mount" /\ y.name = e.name /\ y.def = e.def /\ y.list = Tail(x.list) /\ y.op = x.op
    BY <1>0, <2>3, <2>4 DEF ProcState
  <2> HIDE DEF y, e
  <2>6. proc'[Boot] = y /\ \A p \in Handlers : proc'[p] = proc[p]
    BY <1>0, <2>1
  <2>7. DefsApart' /\ OnlyStart'
    BY <1>1, <2>1, <2>5, <2>6 DEF Lone, DefsApart, OnlyStart
  <2>8. Listed'
    <3>1. /\ \A i \in DOMAIN x.list : x.list[i].def # None
          /\ \A i, j \in DOMAIN x.list : i # j => Apart(x.list[i], x.list[j])
          /\ \A i \in DOMAIN x.list : \A h \in DOMAIN holders : Apart(holders[h], x.list[i])
      BY DEF Lone, Listed
    <3>2. \A d : Apart(y, d) <=> Apart(e, d)
      BY <2>5 DEF Apart
    <3>3. \A d : Apart(d, y) <=> Apart(d, e)
      BY <2>5 DEF Apart
    <3> HIDE DEF x
    <3>4. \A i \in DOMAIN y.list :
            /\ y.list[i].def # None
            /\ \A j \in DOMAIN y.list : i # j => Apart(y.list[i], y.list[j])
            /\ Apart(y, y.list[i])
            /\ \A h \in DOMAIN holders : Apart(holders[h], y.list[i])
      BY <2>3, <2>5, <3>1, <3>2
    <3>5. \A h \in DOMAIN holders : Apart(holders[h], y)
      BY <2>3, <3>1, <3>3
    <3> QED
      BY <1>1, <2>6, <3>4, <3>5 DEF Listed, Apart
  <2>9. Unstarted' /\ HoldersApart' /\ Read'
    BY <1>1, <2>5, <2>6 DEF Lone, Unstarted, HoldersApart, Apart, Read
  <2> QED
    BY <1>1, <2>7, <2>8, <2>9 DEF Lone
<1>3. CASE MountGet(Boot)
  <2> DEFINE to == IF x.op # "define" /\ sets[x.name] # 0 /\ holders[sets[x.name]].def = x.def
                   THEN "next" ELSE "meta"
             y == [x EXCEPT !.pc = to]
  <2>1. x.pc = "mount" /\ proc' = [proc EXCEPT ![Boot] = y]
    BY <1>3 DEF MountGet, Goto
  <2>2. to \in {"next", "meta"}
    OBVIOUS
  <2> HIDE DEF to
  <2>3. y.pc = to /\ y.name = x.name /\ y.def = x.def /\ y.list = x.list /\ y.op = x.op
    BY <1>0 DEF ProcState
  <2> HIDE DEF y
  <2>4. proc'[Boot] = y /\ \A p \in Handlers : proc'[p] = proc[p]
    BY <1>0, <2>1
  <2>5. x.op = "start"
    BY <2>1 DEF Lone, OnlyStart
  <2>6. Lone'
    BY <1>1, <2>1, <2>2, <2>3, <2>4, <2>5, BootLone DEF Makes
  <2>7. Read'
    BY <2>2, <2>3, <2>4 DEF Read
  <2> QED
    BY <1>1, <2>6, <2>7
<1>4. CASE MountMeta(Boot)
  <2> DEFINE m == redis[x.name].meta
             to == IF m.tag = "none" THEN "reset" ELSE "recs"
             y == [x EXCEPT !.meta = m, !.recs = {}, !.pc = to]
  <2>1. x.pc = "meta" /\ proc' = [proc EXCEPT ![Boot] = y]
    BY <1>4 DEF MountMeta
  <2>2. to \in {"reset", "recs"} /\ (to = "reset" => m.tag = "none")
    OBVIOUS
  <2> HIDE DEF to
  <2>3. y.pc = to /\ y.name = x.name /\ y.def = x.def /\ y.list = x.list /\ y.op = x.op /\ y.meta = m
    BY <1>0 DEF ProcState
  <2> HIDE DEF y
  <2>4. proc'[Boot] = y /\ \A p \in Handlers : proc'[p] = proc[p]
    BY <1>0, <2>1
  <2>5. x.op = "start"
    BY <2>1 DEF Lone, OnlyStart
  <2>6. Lone'
    BY <1>1, <2>1, <2>2, <2>3, <2>4, <2>5, BootLone DEF Makes
  <2>7. Read'
    BY <1>1, <2>2, <2>3, <2>4 DEF Read
  <2> QED
    BY <1>1, <2>6, <2>7
<1>5. CASE MountRecords(Boot)
  <2> DEFINE r == redis[x.name].recs
             y == [x EXCEPT !.recs = r, !.pc = "reset"]
  <2>1. x.pc = "recs" /\ proc' = [proc EXCEPT ![Boot] = y]
    BY <1>5 DEF MountRecords
  <2>3. /\ y.pc = "reset" /\ y.name = x.name /\ y.def = x.def /\ y.list = x.list /\ y.op = x.op
        /\ y.meta = x.meta /\ y.recs = r
    BY <1>0 DEF ProcState
  <2> HIDE DEF y
  <2>4. proc'[Boot] = y /\ \A p \in Handlers : proc'[p] = proc[p]
    BY <1>0, <2>1
  <2>5. x.op = "start"
    BY <2>1 DEF Lone, OnlyStart
  <2>6. Lone'
    BY <1>1, <2>1, <2>3, <2>4, <2>5, BootLone DEF Makes
  <2>7. Read'
    BY <1>1, <2>1, <2>3, <2>4 DEF Read
  <2> QED
    BY <1>1, <2>6, <2>7
<1> QED
  BY <1>2, <1>3, <1>4, <1>5 DEF BootAlone

------------------------------------------------------------------------------
(* What is held *)

(* The parts of the invariant that do not speak of goroutines. *)
Contents == Drawn /\ Told /\ HolderTold /\ NumberNamesContent /\ Asked /\ AddedKept /\ RemovedKept

LEMMA HeldParts == Held <=> Read /\ Contents
  BY DEF Held, Contents

(* Contents with one key have one hash. *)
LEMMA HashInjective ==
  ASSUME NEW e \in Nat, NEW c \in SUBSET Values, NEW d \in SUBSET Values, Hash(e, c) = Hash(e, d)
  PROVE  c = d
<1>1. CASE c = {} \/ d = {}
  BY <1>1 DEF Hash
<1>2. CASE c # {} /\ d # {}
  <2>1. <<e, c>> = <<e, d>>
    BY <1>2 DEF Hash
  <2> QED
    BY <2>1
<1> QED
  BY <1>1, <1>2

(* What mirrors were told. *)
LEMMA ToldType ==
  ASSUME LTypeOK, NEW y \in published
  PROVE  y[1] \in Nat /\ y[2] \in Nat /\ y[3] \in SUBSET Values /\ y = <<y[1], y[2], y[3]>>
<1>1. y \in Nat \X Nat \X SUBSET Values
  BY DEF LTypeOK
<1> QED
  BY <1>1

(* What Redis has of a name. *)
LEMMA StoreType ==
  ASSUME LTypeOK, NEW n \in Names
  PROVE  /\ redis[n].meta \in Metas /\ redis[n].recs \in SUBSET Values
         /\ redis[n].meta.epoch \in Nat /\ redis[n].meta.seq \in Nat
<1>1. redis[n].meta \in Metas /\ redis[n].recs \in SUBSET Values
  BY DEF LTypeOK
<1>2. \A m \in Metas : m.epoch \in Nat /\ m.seq \in Nat
  BY DEF Metas
<1> QED
  BY <1>1, <1>2

(* Nothing that is held changes. *)
LEMMA ContentsKept ==
  ASSUME Contents, UNCHANGED <<redis, holders, epochs, truth, published>>
  PROVE  Contents'
<1>1. Drawn' /\ Told' /\ HolderTold'
  BY DEF Contents, Drawn, Told, HolderTold
<1>2. NumberNamesContent' /\ Asked'
  BY DEF Contents, NumberNamesContent, Asked
<1>3. AddedKept' /\ RemovedKept'
  BY DEF Contents, AddedKept, RemovedKept
<1> QED
  BY <1>1, <1>2, <1>3 DEF Contents

(* The holders are gone, Redis stays. *)
LEMMA ContentsLeft ==
  ASSUME Contents, DOMAIN holders' = {}, UNCHANGED <<redis, epochs, truth, published>>
  PROVE  Contents'
<1>1. Drawn' /\ Told' /\ HolderTold'
  BY DEF Contents, Drawn, Told, HolderTold
<1>2. NumberNamesContent' /\ Asked'
  BY DEF Contents, NumberNamesContent, Asked
<1>3. AddedKept' /\ RemovedKept'
  BY DEF Contents, AddedKept, RemovedKept
<1> QED
  BY <1>1, <1>2, <1>3 DEF Contents

(***************************************************************************)
(* Reset gives a name an epoch, a number and contents.  Mirrors were told  *)
(* of no later number in that epoch and, under this one, of these          *)
(* contents, which no answer so far contradicts.                           *)
(***************************************************************************)
Resets(n, epoch, seq, mem) ==
  /\ epoch \in Nat /\ seq \in Nat /\ mem \in SUBSET Values
  /\ epochs' \in Nat /\ epochs <= epochs' /\ epoch <= epochs'
  /\ \A k \in Names : k # n /\ redis[k].meta.tag # "none" => redis[k].meta.epoch # epoch
  /\ \A y \in published : y[1] = epoch => y[2] <= seq /\ (y[2] = seq => y[3] = mem)
  /\ redis'[n].meta.tag = "good" /\ redis'[n].meta.epoch = epoch /\ redis'[n].meta.seq = seq
  /\ redis'[n].meta.hash = Hash(epoch, mem) /\ redis'[n].recs = mem
  /\ \A k \in Names : k # n => redis'[k] = redis[k] /\ truth'[k] = truth[k]
  /\ \A v \in Values : truth'[n][v] = "in" => v \in mem
  /\ \A v \in Values : truth'[n][v] = "out" => v \notin mem \/ Torn
  /\ published' = published

(* It leaves what Redis holds in order. *)
LEMMA ResetsStore ==
  ASSUME LTypeOK, Contents, NEW n \in Names, NEW epoch, NEW seq, NEW mem, Resets(n, epoch, seq, mem)
  PROVE  /\ Drawn' /\ Told' /\ NumberNamesContent'
         /\ \A k \in Names, v \in Values : truth'[k][v] = "in" => v \in redis'[k].recs
         /\ \A k \in Names, v \in Values : truth'[k][v] = "out" => v \notin redis'[k].recs \/ Torn
<1>0. epochs \in Nat
  BY DEF LTypeOK
<1>1. Drawn'
  <2>1. \A y \in published' : y[1] <= epochs'
    BY <1>0, ToldType DEF Resets, Contents, Drawn
  <2>2. ASSUME NEW k \in Names, redis'[k].meta.tag # "none"
        PROVE  redis'[k].meta.tag = "good" /\ redis'[k].meta.epoch <= epochs'
    BY <1>0, <2>2, StoreType DEF Resets, Contents, Drawn
  <2>3. ASSUME NEW k \in Names, NEW m \in Names, m # k, redis'[k].meta.tag # "none",
               redis'[m].meta.tag # "none"
        PROVE  redis'[m].meta.epoch # redis'[k].meta.epoch
    BY <2>3 DEF Resets, Contents, Drawn
  <2> QED
    BY <2>1, <2>2, <2>3 DEF Drawn
<1>2. Told'
  <2> SUFFICES ASSUME NEW k \in Names, NEW y \in published, redis'[k].meta.tag # "none",
                      y[1] = redis'[k].meta.epoch
               PROVE  /\ y[2] <= redis'[k].meta.seq
                      /\ y[2] = redis'[k].meta.seq =>
                           redis'[k].meta.hash = Hash(redis'[k].meta.epoch, y[3])
    BY DEF Told, Resets
  <2> QED
    BY DEF Resets, Contents, Told
<1>3. NumberNamesContent'
  BY DEF Resets, Contents, NumberNamesContent
<1>4. ASSUME NEW k \in Names, NEW v \in Values
      PROVE  /\ truth'[k][v] = "in" => v \in redis'[k].recs
             /\ truth'[k][v] = "out" => v \notin redis'[k].recs \/ Torn
  BY <1>4 DEF Resets, Contents, AddedKept, RemovedKept
<1> QED
  BY <1>1, <1>2, <1>3, <1>4

(* It is followed by the end of the process. *)
LEMMA ResetsLeft ==
  ASSUME LTypeOK, Contents, NEW n \in Names, NEW epoch, NEW seq, NEW mem, Resets(n, epoch, seq, mem),
         DOMAIN holders' = {}
  PROVE  Contents'
<1>1. /\ Drawn' /\ Told' /\ NumberNamesContent'
      /\ \A k \in Names, v \in Values : truth'[k][v] = "in" => v \in redis'[k].recs
      /\ \A k \in Names, v \in Values : truth'[k][v] = "out" => v \notin redis'[k].recs \/ Torn
  BY ResetsStore
<1>2. HolderTold' /\ Asked'
  BY DEF HolderTold, Asked
<1>3. AddedKept' /\ RemovedKept'
  BY <1>1 DEF AddedKept, RemovedKept
<1> QED
  BY <1>1, <1>2, <1>3 DEF Contents

(* Or a holder is made for it, the only one of this name. *)
LEMMA ResetsMade ==
  ASSUME LTypeOK, Contents, NEW n \in Names, NEW epoch, NEW seq, NEW mem, Resets(n, epoch, seq, mem),
         \A h \in DOMAIN holders : holders[h].name # n,
         NEW x \in HolderState, holders' = Append(holders, x), x.name = n, x.epoch = epoch, x.seq = seq,
         x.mem = mem, x.cpc = "idle", x.jobs = <<>>
  PROVE  Contents'
<1>1. /\ Drawn' /\ Told' /\ NumberNamesContent'
      /\ \A k \in Names, v \in Values : truth'[k][v] = "in" => v \in redis'[k].recs
      /\ \A k \in Names, v \in Values : truth'[k][v] = "out" => v \notin redis'[k].recs \/ Torn
  BY ResetsStore
<1>2. \A h \in DOMAIN holders' : holders'[h] = x \/ (h \in DOMAIN holders /\ holders'[h] = holders[h])
  <2>1. holders \in Seq(HolderState)
    BY DEF LTypeOK
  <2> QED
    BY <2>1, AppendGives
<1>3. \A h \in DOMAIN holders :
        /\ holders[h].name \in Names
        /\ redis'[holders[h].name] = redis[holders[h].name]
        /\ truth'[holders[h].name] = truth[holders[h].name]
  BY HolderType DEF HolderState, Resets
<1>4. published' = published
  BY DEF Resets
<1>5. HolderTold'
  <2>1. ASSUME NEW h \in DOMAIN holders'
        PROVE  LET z == holders'[h]
                   m == redis'[z.name].meta
               IN
               /\ m.tag = "good" /\ m.epoch = z.epoch
               /\ \A y \in published : y[1] = z.epoch => y[2] <= z.seq /\ (y[2] = z.seq => y[3] = z.mem)
               /\ z.cpc = "stored" => m.seq = z.seq + 1 /\ m.hash = Hash(z.epoch, Outcome(z.mem, Head(z.jobs)))
               /\ z.cpc = "idle" => m.seq = z.seq + 1 \/ (m.seq = z.seq /\ m.hash = Hash(z.epoch, z.mem))
    <3>1. CASE holders'[h] = x
      BY <3>1 DEF Resets
    <3>2. CASE h \in DOMAIN holders /\ holders'[h] = holders[h]
      BY <1>3, <3>2 DEF Contents, HolderTold
    <3> QED
      BY <1>2, <2>1, <3>1, <3>2
  <2> QED
    BY <1>4, <2>1 DEF HolderTold
<1>6. Asked'
  BY <1>2, <1>3 DEF Asked, Contents
<1>7. AddedKept'
  <2>1. ASSUME NEW h \in DOMAIN holders', NEW v \in Values, truth'[holders'[h].name][v] = "in"
        PROVE  v \in holders'[h].mem
    <3>1. CASE holders'[h] = x
      BY <2>1, <3>1 DEF Resets
    <3>2. CASE h \in DOMAIN holders /\ holders'[h] = holders[h]
      BY <1>3, <2>1, <3>2 DEF Contents, AddedKept
    <3> QED
      BY <1>2, <2>1, <3>1, <3>2
  <2>2. ASSUME NEW h \in DOMAIN holders', holders'[h].cpc = "stored", Head(holders'[h].jobs).op = "add"
        PROVE  Head(holders'[h].jobs).v \in redis'[holders'[h].name].recs
    BY <1>2, <1>3, <2>2 DEF Contents, AddedKept
  <2> QED
    BY <1>1, <2>1, <2>2 DEF AddedKept
<1>8. RemovedKept'
  <2>1. ASSUME NEW h \in DOMAIN holders', ~Torn
        PROVE  redis'[holders'[h].name].recs = IF holders'[h].cpc = "stored"
                 THEN Outcome(holders'[h].mem, Head(holders'[h].jobs)) ELSE holders'[h].mem
    <3>1. CASE holders'[h] = x
      BY <2>1, <3>1 DEF Resets
    <3>2. CASE h \in DOMAIN holders /\ holders'[h] = holders[h]
      BY <1>3, <2>1, <3>2 DEF Contents, RemovedKept
    <3> QED
      BY <1>2, <2>1, <3>1, <3>2
  <2> QED
    BY <1>1, <2>1 DEF RemovedKept
<1> QED
  BY <1>1, <1>5, <1>6, <1>7, <1>8 DEF Contents

------------------------------------------------------------------------------
(* The steps of Start *)

(* Start makes a holder, or ends with the process. *)
LEMMA ResetContents ==
  ASSUME LTypeOK, Places, Lone, Held, MountReset(Boot)
  PROVE  Lone' /\ Held'
<1> DEFINE x == proc[Boot]
           n == x.name
           keep == x.meta.tag = "bad" \/ (x.meta.tag = "good" /\ SameSet(x.meta, x.def))
           resume == keep /\ x.op # "define" /\ x.meta.tag # "bad" /\ Resumes(x)
           epoch == IF resume THEN x.meta.epoch ELSE epochs + 1
           seq == IF resume THEN x.meta.seq ELSE Seq0(epochs + 1)
           mem == IF keep THEN x.recs ELSE {}
           y == [name |-> n, def |-> x.def, epoch |-> epoch, seq |-> seq, mem |-> mem,
                 jobs |-> <<>>, cpc |-> "idle", run |-> "new", stop |-> FALSE]
           meta == [tag |-> "good", id |-> x.def.id, type |-> x.def.type, epoch |-> epoch,
                    seq |-> seq, hash |-> Hash(epoch, mem)]
           recs == IF keep THEN redis[n].recs ELSE {}
<1>0. /\ x \in ProcState /\ Ordered(x) /\ proc \in [Procs -> ProcState] /\ epochs \in Nat
      /\ Boot \in Procs /\ Handlers \subseteq Procs /\ \A p \in Handlers : p # Boot
  BY LifecycleAssumption, ProcType DEF Procs, Places, Steps, LTypeOK
<1>1. /\ x.pc = "reset"
      /\ epochs' = IF resume THEN epochs ELSE epochs + 1
      /\ redis' = [redis EXCEPT ![n] = [meta |-> meta, recs |-> recs]]
      /\ truth' = IF keep THEN truth ELSE [truth EXCEPT ![n] = Unknown]
      /\ UNCHANGED <<defs, panic, published>>
      /\ \/ /\ holders' = Append(holders, y)
            /\ proc' = [proc EXCEPT ![Boot].pc = "swap", ![Boot].h = Len(holders) + 1]
            /\ UNCHANGED <<sets, ready>>
         \/ MountError(Boot)
  BY DEF MountReset, Reset
<1>2. n \in Names /\ x.def # None /\ x.def \in Def /\ x.meta \in Metas /\ x.recs \in SUBSET Values
  BY <1>0, <1>1 DEF Ordered, ProcState
<1>3. x.op = "start" /\ Makes(x)
  BY <1>1 DEF Lone, OnlyStart, Makes
<1>4. x.meta = redis[n].meta /\ (x.meta.tag # "none" => x.recs = redis[n].recs)
  BY <1>1 DEF Held, Read
<1>5. x.meta.tag # "bad" /\ (keep => x.meta.tag = "good")
  BY <1>2, <1>4 DEF Held, Drawn
<1>6. x.meta.epoch \in Nat /\ x.meta.seq \in Nat /\ Seq0(epochs + 1) \in Nat /\ epochs + 1 \in Nat
  <2>1. \A m \in Metas : m.epoch \in Nat /\ m.seq \in Nat
    BY DEF Metas
  <2>2. MaxWrites \in Nat
    BY LifecycleAssumption
  <2> QED
    BY <1>0, <1>2, <2>1, <2>2 DEF Seq0
<1>7. recs = mem /\ mem \in SUBSET Values /\ epoch \in Nat /\ seq \in Nat
  BY <1>2, <1>4, <1>5, <1>6
<1>8. resume => Hash(x.meta.epoch, mem) = x.meta.hash /\ x.meta.tag = "good"
  BY <1>5 DEF Resumes
<1>9. /\ redis'[n].meta.tag = "good" /\ redis'[n].meta.epoch = epoch /\ redis'[n].meta.seq = seq
      /\ redis'[n].meta.hash = Hash(epoch, mem) /\ redis'[n].recs = mem
      /\ \A k \in Names : k # n => redis'[k] = redis[k]
  <2>1. redis \in [Names -> [meta : Metas, recs : SUBSET Values]]
    BY DEF LTypeOK
  <2>2. redis'[n] = [meta |-> meta, recs |-> recs] /\ \A k \in Names : k # n => redis'[k] = redis[k]
    <3> HIDE DEF meta, recs, n
    <3> QED
      BY <1>1, <1>2, <2>1
  <2>3. meta.tag = "good" /\ meta.epoch = epoch /\ meta.seq = seq /\ meta.hash = Hash(epoch, mem)
    OBVIOUS
  <2> HIDE DEF meta, recs, epoch, seq, mem
  <2> QED
    BY <1>7, <2>2, <2>3
<1>10. /\ \A k \in Names : k # n => truth'[k] = truth[k]
       /\ \A v \in Values : truth'[n][v] = "in" => v \in mem
       /\ \A v \in Values : truth'[n][v] = "out" => v \notin mem \/ Torn
  <2>1. truth \in [Names -> [Values -> {"any", "in", "out"}]]
    BY DEF LTypeOK
  <2>2. CASE keep
    <3>1. truth' = truth /\ mem = redis[n].recs
      BY <1>1, <1>4, <1>5, <2>2
    <3> HIDE DEF n, mem
    <3> QED
      BY <1>2, <3>1 DEF Held, AddedKept, RemovedKept
  <2>3. CASE ~keep
    <3>1. truth' = [truth EXCEPT ![n] = Unknown]
      BY <1>1, <2>3
    <3>2. truth'[n] = Unknown /\ \A k \in Names : k # n => truth'[k] = truth[k]
      <4> HIDE DEF n
      <4> QED
        BY <1>2, <2>1, <3>1
    <3>3. \A v \in Values : Unknown[v] = "any"
      BY DEF Unknown
    <3> QED
      BY <3>2, <3>3
  <2> QED
    BY <2>2, <2>3
<1>11. /\ epochs' \in Nat /\ epochs <= epochs' /\ epoch <= epochs'
       /\ \A k \in Names : k # n /\ redis[k].meta.tag # "none" => redis[k].meta.epoch # epoch
       /\ \A z \in published : z[1] = epoch => z[2] <= seq /\ (z[2] = seq => z[3] = mem)
  <2>1. CASE resume
    <3>1. epoch = redis[n].meta.epoch /\ seq = redis[n].meta.seq /\ epochs' = epochs
          /\ redis[n].meta.tag = "good" /\ redis[n].meta.hash = Hash(epoch, mem)
      BY <1>1, <1>4, <1>8, <2>1
    <3> HIDE DEF epoch, seq, mem, n
    <3>2. epochs' \in Nat /\ epochs <= epochs' /\ epoch <= epochs'
      BY <1>0, <1>2, <3>1 DEF Held, Drawn
    <3>3. \A k \in Names : k # n /\ redis[k].meta.tag # "none" => redis[k].meta.epoch # epoch
      BY <1>2, <3>1 DEF Held, Drawn
    <3>4. ASSUME NEW z \in published, z[1] = epoch
          PROVE  z[2] <= seq /\ (z[2] = seq => z[3] = mem)
      <4>1. z[2] <= seq /\ (z[2] = seq => Hash(epoch, mem) = Hash(epoch, z[3]))
        BY <1>2, <3>1, <3>4 DEF Held, Told
      <4>2. z[3] \in SUBSET Values
        BY ToldType
      <4> QED
        BY <1>7, <4>1, <4>2, HashInjective
    <3> QED
      BY <3>2, <3>3, <3>4
  <2>2. CASE ~resume
    <3>1. epoch = epochs + 1 /\ epochs' = epochs + 1
      BY <1>1, <2>2
    <3> HIDE DEF epoch, seq, mem, n
    <3>2. \A k \in Names : redis[k].meta.tag # "none" => redis[k].meta.epoch # epoch
      BY <1>0, <3>1, StoreType DEF Held, Drawn
    <3>3. \A z \in published : z[1] # epoch
      BY <1>0, <3>1, ToldType DEF Held, Drawn
    <3> QED
      BY <1>0, <3>1, <3>2, <3>3
  <2> QED
    BY <2>1, <2>2
<1>12. Resets(n, epoch, seq, mem)
  <2> HIDE DEF n, epoch, seq, mem, keep, resume, recs, meta
  <2> QED
    BY <1>1, <1>7, <1>9, <1>10, <1>11 DEF Resets
<1>13. Contents
  BY HeldParts
<1>14. CASE MountError(Boot)
  <2>1. Die
    BY <1>3, <1>14 DEF MountError
  <2>2. Lone' /\ Read' /\ DOMAIN holders' = {}
    BY <1>1, <2>1, DieLone DEF Lone
  <2>3. Contents'
    <3> HIDE DEF n, epoch, seq, mem
    <3> QED
      BY <1>2, <1>12, <1>13, <2>2, ResetsLeft
  <2> QED
    BY <2>2, <2>3 DEF Held, Contents
<1>15. CASE /\ holders' = Append(holders, y)
            /\ proc' = [proc EXCEPT ![Boot].pc = "swap", ![Boot].h = Len(holders) + 1]
            /\ UNCHANGED <<sets, ready>>
  <2> DEFINE z == [x EXCEPT !.pc = "swap", !.h = Len(holders) + 1]
  <2>1. z.pc = "swap" /\ z.list = x.list /\ z.op = x.op
    BY <1>0 DEF ProcState
  <2>2. proc' = [proc EXCEPT ![Boot] = z]
    BY <1>15
  <2> HIDE DEF z
  <2>3. proc'[Boot] = z /\ \A p \in Handlers : proc'[p] = proc[p]
    BY <1>0, <2>2
  <2>4. y \in HolderState /\ y.name = n /\ y.def = x.def /\ y.epoch = epoch /\ y.seq = seq
        /\ y.mem = mem /\ y.cpc = "idle" /\ y.jobs = <<>> /\ y.stop = FALSE
    <3> HIDE DEF n, epoch, seq, mem
    <3> QED
      BY <1>2, <1>7, NoJobs DEF HolderState
  <2> HIDE DEF y
  <2>5. \A h \in DOMAIN holders' : holders'[h] = y \/ (h \in DOMAIN holders /\ holders'[h] = holders[h])
    <3>1. holders \in Seq(HolderState)
      BY DEF LTypeOK
    <3> QED
      BY <1>15, <2>4, <3>1, AppendGives
  <2>6. \A g, h \in DOMAIN holders' : g # h =>
         \/ holders'[g] = holders[g] /\ g \in DOMAIN holders
         \/ holders'[h] = holders[h] /\ h \in DOMAIN holders
    <3>1. holders \in Seq(HolderState)
      BY DEF LTypeOK
    <3> QED
      BY <1>15, <2>4, <3>1, AppendGives
  <2>7. \A h \in DOMAIN holders : Apart(holders[h], x)
    BY <1>3 DEF Lone, Listed
  <2>8. \A d : (Apart(y, d) <=> Apart(x, d)) /\ (Apart(d, y) <=> Apart(d, x)) /\ (Apart(d, x) <=> Apart(x, d))
    BY <2>4 DEF Apart
  <2>9. Contents'
    <3>1. \A h \in DOMAIN holders : holders[h].name # n
      BY <2>7 DEF Apart
    <3> HIDE DEF n, epoch, seq, mem
    <3> QED
      BY <1>2, <1>12, <1>13, <1>15, <2>4, <3>1, ResetsMade
  <2>10. DefsApart' /\ OnlyStart' /\ Unstarted' /\ Read'
    BY <1>1, <1>3, <1>15, <2>1, <2>3 DEF Lone, DefsApart, OnlyStart, Unstarted, Read
  <2>11. HoldersApart'
    <3>1. \A h \in DOMAIN holders' : ~holders'[h].stop
      BY <2>4, <2>5 DEF Lone, HoldersApart
    <3>2. \A g, h \in DOMAIN holders' : g # h => Apart(holders'[g], holders'[h])
      BY <2>5, <2>6, <2>7, <2>8 DEF Lone, HoldersApart
    <3> QED
      BY <3>1, <3>2 DEF HoldersApart, Apart
  <2>12. Listed'
    <3>1. /\ \A i \in DOMAIN x.list : x.list[i].def # None
          /\ \A i, j \in DOMAIN x.list : i # j => Apart(x.list[i], x.list[j])
          /\ \A i \in DOMAIN x.list : Apart(x, x.list[i])
          /\ \A i \in DOMAIN x.list : \A h \in DOMAIN holders : Apart(holders[h], x.list[i])
      BY <1>3 DEF Lone, Listed
    <3>2. \A i \in DOMAIN z.list :
            /\ z.list[i].def # None
            /\ \A j \in DOMAIN z.list : i # j => Apart(z.list[i], z.list[j])
            /\ \A h \in DOMAIN holders' : Apart(holders'[h], z.list[i])
      <4> HIDE DEF x
      <4> QED
        BY <2>1, <2>5, <2>8, <3>1
    <3> QED
      BY <2>1, <2>3, <3>2 DEF Listed, Makes, Apart
  <2> QED
    BY <2>9, <2>10, <2>11, <2>12 DEF Lone, Held, Contents
<1> QED
  BY <1>1, <1>14, <1>15

------------------------------------------------------------------------------
(* Steps of one holder *)

(* What the invariant says of one holder. *)
LEMMA HolderHas ==
  ASSUME LTypeOK, Contents, NEW h \in DOMAIN holders
  PROVE  LET x == holders[h]
             m == redis[x.name].meta
         IN
         /\ m.tag = "good" /\ m.epoch = x.epoch
         /\ \A y \in published : y[1] = x.epoch => y[2] <= x.seq /\ (y[2] = x.seq => y[3] = x.mem)
         /\ x.cpc = "stored" => m.seq = x.seq + 1 /\ m.hash = Hash(x.epoch, Outcome(x.mem, Head(x.jobs)))
         /\ x.cpc = "idle" => m.seq = x.seq + 1 \/ (m.seq = x.seq /\ m.hash = Hash(x.epoch, x.mem))
         /\ x.jobs # <<>> => truth[x.name][Head(x.jobs).v] = "any"
         /\ x.cpc = "stored" /\ Head(x.jobs).op = "add" => Head(x.jobs).v \in redis[x.name].recs
         /\ \A v \in Values : truth[x.name][v] = "in" => v \in redis[x.name].recs /\ v \in x.mem
         /\ ~Torn => /\ \A v \in Values : truth[x.name][v] = "out" => v \notin redis[x.name].recs
                     /\ x.cpc = "stored" => redis[x.name].recs = Outcome(x.mem, Head(x.jobs))
                     /\ x.cpc = "idle" => redis[x.name].recs = x.mem
         /\ x.name \in Names /\ x.seq \in Nat /\ x.epoch \in Nat /\ x.mem \in SUBSET Values
         /\ x.cpc \in {"idle", "stored"} /\ x.jobs \in Seq(Job)
         /\ x.jobs # <<>> => Head(x.jobs) \in Job
<1> DEFINE x == holders[h]
<1>1. x \in HolderState
  BY HolderType
<1>2. /\ x.name \in Names /\ x.seq \in Nat /\ x.epoch \in Nat /\ x.mem \in SUBSET Values
      /\ x.cpc \in {"idle", "stored"} /\ x.jobs \in Seq(Job)
  BY <1>1 DEF HolderState
<1>3. x.jobs # <<>> => Head(x.jobs) \in Job
  BY <1>2, TailGives
<1>4. /\ redis[x.name].meta.tag = "good" /\ redis[x.name].meta.epoch = x.epoch
      /\ \A y \in published : y[1] = x.epoch => y[2] <= x.seq /\ (y[2] = x.seq => y[3] = x.mem)
      /\ x.cpc = "stored" => /\ redis[x.name].meta.seq = x.seq + 1
                             /\ redis[x.name].meta.hash = Hash(x.epoch, Outcome(x.mem, Head(x.jobs)))
      /\ x.cpc = "idle" => \/ redis[x.name].meta.seq = x.seq + 1
                           \/ redis[x.name].meta.seq = x.seq /\ redis[x.name].meta.hash = Hash(x.epoch, x.mem)
  BY DEF Contents, HolderTold
<1>5. /\ x.jobs # <<>> => truth[x.name][Head(x.jobs).v] = "any"
      /\ x.cpc = "stored" /\ Head(x.jobs).op = "add" => Head(x.jobs).v \in redis[x.name].recs
      /\ \A v \in Values : truth[x.name][v] = "in" => v \in redis[x.name].recs /\ v \in x.mem
  BY <1>2 DEF Contents, Asked, AddedKept
<1>6. ~Torn => /\ \A v \in Values : truth[x.name][v] = "out" => v \notin redis[x.name].recs
               /\ x.cpc = "stored" => redis[x.name].recs = Outcome(x.mem, Head(x.jobs))
               /\ x.cpc = "idle" => redis[x.name].recs = x.mem
  BY <1>2 DEF Contents, RemovedKept
<1> QED
  BY <1>2, <1>3, <1>4, <1>5, <1>6

(***************************************************************************)
(* Holder h becomes z, which may be told to mirrors.  Redis and what the   *)
(* answers imply change for its name only, and are right for z.            *)
(***************************************************************************)
Turns(h, z) ==
  LET n == holders[h].name
      m == redis'[n].meta
  IN
  /\ z \in HolderState /\ holders' = [holders EXCEPT ![h] = z]
  /\ z.name = n /\ z.epoch = holders[h].epoch /\ epochs' = epochs
  /\ \A k \in Names : k # n => redis'[k] = redis[k] /\ truth'[k] = truth[k]
  /\ published \subseteq published' /\ published' \subseteq published \cup {<<z.epoch, z.seq, z.mem>>}
  /\ m.tag = "good" /\ m.epoch = z.epoch
  /\ \A y \in published : y[1] = z.epoch => y[2] <= z.seq /\ (y[2] = z.seq => y[3] = z.mem)
  /\ z.cpc = "stored" => m.seq = z.seq + 1 /\ m.hash = Hash(z.epoch, Outcome(z.mem, Head(z.jobs)))
  /\ z.cpc = "idle" => m.seq = z.seq + 1 \/ (m.seq = z.seq /\ m.hash = Hash(z.epoch, z.mem))
  /\ z.jobs # <<>> => truth'[n][Head(z.jobs).v] = "any"
  /\ z.cpc = "stored" /\ Head(z.jobs).op = "add" => Head(z.jobs).v \in redis'[n].recs
  /\ \A v \in Values : truth'[n][v] = "in" => v \in redis'[n].recs /\ v \in z.mem
  /\ ~Torn => /\ \A v \in Values : truth'[n][v] = "out" => v \notin redis'[n].recs
              /\ redis'[n].recs = IF z.cpc = "stored" THEN Outcome(z.mem, Head(z.jobs)) ELSE z.mem

(* That is all the invariant asks for. *)
LEMMA TurnsKeeps ==
  ASSUME LTypeOK, Lone, Contents, NEW h \in DOMAIN holders, NEW z, Turns(h, z)
  PROVE  Contents'
<1> DEFINE n == holders[h].name
           t == <<z.epoch, z.seq, z.mem>>
<1>0. n \in Names /\ epochs \in Nat /\ z \in HolderState
  BY HolderType DEF HolderState, LTypeOK, Turns
<1>1. z.seq \in Nat /\ z.epoch \in Nat /\ z.cpc \in {"idle", "stored"}
  BY <1>0 DEF HolderState
<1>2. /\ DOMAIN holders' = DOMAIN holders /\ holders'[h] = z
      /\ \A g \in DOMAIN holders : g # h => holders'[g] = holders[g]
  <2>1. holders \in Seq(HolderState)
    BY DEF LTypeOK
  <2> QED
    BY <2>1, ReplaceGives DEF Turns
<1>3. \A g \in DOMAIN holders : g # h =>
        /\ holders[g].name # n /\ holders[g].name \in Names
        /\ redis'[holders[g].name] = redis[holders[g].name]
        /\ truth'[holders[g].name] = truth[holders[g].name]
  BY HolderType DEF Lone, HoldersApart, Apart, Turns, HolderState
<1>4. redis[n].meta.tag = "good" /\ redis[n].meta.epoch = z.epoch
  BY DEF Contents, HolderTold, Turns
<1>5. /\ t[1] = z.epoch /\ t[2] = z.seq /\ t[3] = z.mem
      /\ \A y \in published' : y \in published \/ y = t
      /\ published \subseteq published'
  BY DEF Turns
<1>6. /\ redis'[n].meta.tag = "good" /\ redis'[n].meta.epoch = z.epoch /\ z.name = n
      /\ \A k \in Names : k # n => redis'[k] = redis[k] /\ truth'[k] = truth[k]
      /\ epochs' = epochs
  BY DEF Turns
<1>7. \A y \in published' : y[1] = z.epoch => y[2] <= z.seq /\ (y[2] = z.seq => y[3] = z.mem)
  BY <1>1, <1>5 DEF Turns
<1>8. \A k \in Names : k # n /\ redis[k].meta.tag # "none" => redis[k].meta.epoch # z.epoch
  BY <1>0, <1>4 DEF Contents, Drawn
<1>9. Drawn'
  <2>1. z.epoch <= epochs
    BY <1>0, <1>4 DEF Contents, Drawn
  <2>2. \A y \in published' : y[1] <= epochs'
    BY <1>5, <1>6, <2>1 DEF Contents, Drawn
  <2>3. ASSUME NEW k \in Names, redis'[k].meta.tag # "none"
        PROVE  redis'[k].meta.tag = "good" /\ redis'[k].meta.epoch <= epochs'
    BY <1>6, <2>1, <2>3 DEF Contents, Drawn
  <2>4. ASSUME NEW k \in Names, NEW m \in Names, m # k, redis'[k].meta.tag # "none",
               redis'[m].meta.tag # "none"
        PROVE  redis'[m].meta.epoch # redis'[k].meta.epoch
    <3>1. CASE k = n \/ m = n
      BY <1>6, <1>8, <2>4, <3>1
    <3>2. CASE k # n /\ m # n
      BY <1>6, <2>4, <3>2 DEF Contents, Drawn
    <3> QED
      BY <3>1, <3>2
  <2> QED
    BY <2>2, <2>3, <2>4 DEF Drawn
<1>10. Told'
  <2> SUFFICES ASSUME NEW k \in Names, NEW y \in published', redis'[k].meta.tag # "none",
                      y[1] = redis'[k].meta.epoch
               PROVE  /\ y[2] <= redis'[k].meta.seq
                      /\ y[2] = redis'[k].meta.seq =>
                           redis'[k].meta.hash = Hash(redis'[k].meta.epoch, y[3])
    BY DEF Told
  <2>1. CASE k = n
    <3>1. y[2] <= z.seq /\ (y[2] = z.seq => y[3] = z.mem)
      BY <1>6, <1>7, <2>1
    <3>2. y[2] \in Nat
      BY <1>1, <1>5, ToldType
    <3>3. \/ redis'[n].meta.seq = z.seq + 1
          \/ redis'[n].meta.seq = z.seq /\ redis'[n].meta.hash = Hash(z.epoch, z.mem)
      BY <1>1 DEF Turns
    <3> QED
      BY <1>1, <1>6, <2>1, <3>1, <3>2, <3>3
  <2>2. CASE k # n
    <3>1. redis'[k] = redis[k] /\ y[1] # z.epoch
      BY <1>6, <1>8, <2>2
    <3>2. y \in published
      BY <1>5, <3>1
    <3> QED
      BY <3>1, <3>2 DEF Contents, Told
  <2> QED
    BY <2>1, <2>2
<1>11. NumberNamesContent'
  <2> SUFFICES ASSUME NEW x \in published', NEW y \in published', x[1] = y[1], x[2] = y[2]
               PROVE  x[3] = y[3]
    BY DEF NumberNamesContent
  <2>1. CASE x = t \/ y = t
    BY <1>5, <1>7, <2>1
  <2>2. CASE x # t /\ y # t
    BY <1>5, <2>2 DEF Contents, NumberNamesContent
  <2> QED
    BY <2>1, <2>2
<1>12. HolderTold'
  <2> SUFFICES ASSUME NEW g \in DOMAIN holders
               PROVE  LET w == holders'[g]
                          m == redis'[w.name].meta
                      IN
                      /\ m.tag = "good" /\ m.epoch = w.epoch
                      /\ \A y \in published' : y[1] = w.epoch => y[2] <= w.seq /\ (y[2] = w.seq => y[3] = w.mem)
                      /\ w.cpc = "stored" => m.seq = w.seq + 1 /\ m.hash = Hash(w.epoch, Outcome(w.mem, Head(w.jobs)))
                      /\ w.cpc = "idle" => m.seq = w.seq + 1 \/ (m.seq = w.seq /\ m.hash = Hash(w.epoch, w.mem))
    BY <1>2 DEF HolderTold
  <2>1. CASE g = h
    <3>1. holders'[g] = z
      BY <1>2, <2>1
    <3> QED
      BY <1>6, <1>7, <3>1 DEF Turns
  <2>2. CASE g # h
    <3> DEFINE w == holders[g]
    <3>1. holders'[g] = w /\ redis'[w.name] = redis[w.name] /\ w.name # n /\ w.name \in Names
      BY <1>2, <1>3, <2>2
    <3>2. /\ redis[w.name].meta.tag = "good" /\ redis[w.name].meta.epoch = w.epoch
          /\ \A y \in published : y[1] = w.epoch => y[2] <= w.seq /\ (y[2] = w.seq => y[3] = w.mem)
          /\ w.cpc = "stored" => /\ redis[w.name].meta.seq = w.seq + 1
                                 /\ redis[w.name].meta.hash = Hash(w.epoch, Outcome(w.mem, Head(w.jobs)))
          /\ w.cpc = "idle" => \/ redis[w.name].meta.seq = w.seq + 1
                               \/ redis[w.name].meta.seq = w.seq /\ redis[w.name].meta.hash = Hash(w.epoch, w.mem)
      BY DEF Contents, HolderTold
    <3>3. w.epoch # z.epoch
      BY <1>8, <3>1, <3>2
    <3>4. \A y \in published' : y[1] = w.epoch => y \in published
      BY <1>5, <3>3
    <3> HIDE DEF w
    <3> QED
      BY <3>1, <3>2, <3>4
  <2> QED
    BY <2>1, <2>2
<1>13. Asked'
  <2>1. z.jobs # <<>> => truth'[n][Head(z.jobs).v] = "any"
    BY DEF Turns
  <2> QED
    BY <1>2, <1>3, <1>6, <2>1 DEF Asked, Contents
<1>14. AddedKept'
  <2>1. \A k \in Names, v \in Values : truth'[k][v] = "in" => v \in redis'[k].recs
    BY DEF Turns, Contents, AddedKept
  <2>2. ASSUME NEW g \in DOMAIN holders, NEW v \in Values, truth'[holders'[g].name][v] = "in"
        PROVE  v \in holders'[g].mem
    <3>1. CASE g = h
      BY <1>2, <1>6, <2>2, <3>1 DEF Turns
    <3>2. CASE g # h
      BY <1>2, <1>3, <2>2, <3>2 DEF Contents, AddedKept
    <3> QED
      BY <3>1, <3>2
  <2>3. ASSUME NEW g \in DOMAIN holders, holders'[g].cpc = "stored", Head(holders'[g].jobs).op = "add"
        PROVE  Head(holders'[g].jobs).v \in redis'[holders'[g].name].recs
    <3>1. CASE g = h
      BY <1>2, <1>6, <2>3, <3>1 DEF Turns
    <3>2. CASE g # h
      BY <1>2, <1>3, <2>3, <3>2 DEF Contents, AddedKept
    <3> QED
      BY <3>1, <3>2
  <2> QED
    BY <1>2, <2>1, <2>2, <2>3 DEF AddedKept
<1>15. RemovedKept'
  <2> SUFFICES ASSUME ~Torn
               PROVE  /\ \A k \in Names, v \in Values : truth'[k][v] = "out" => v \notin redis'[k].recs
                      /\ \A g \in DOMAIN holders :
                           redis'[holders'[g].name].recs = IF holders'[g].cpc = "stored"
                             THEN Outcome(holders'[g].mem, Head(holders'[g].jobs)) ELSE holders'[g].mem
    BY <1>2 DEF RemovedKept
  <2>1. \A k \in Names, v \in Values : truth'[k][v] = "out" => v \notin redis'[k].recs
    BY DEF Turns, Contents, RemovedKept
  <2>2. ASSUME NEW g \in DOMAIN holders
        PROVE  redis'[holders'[g].name].recs = IF holders'[g].cpc = "stored"
                 THEN Outcome(holders'[g].mem, Head(holders'[g].jobs)) ELSE holders'[g].mem
    <3>1. CASE g = h
      BY <1>2, <1>6, <3>1 DEF Turns
    <3>2. CASE g # h
      BY <1>2, <1>3, <3>2 DEF Contents, RemovedKept
    <3> QED
      BY <3>1, <3>2
  <2> QED
    BY <2>1, <2>2
<1> QED
  BY <1>9, <1>10, <1>11, <1>12, <1>13, <1>14, <1>15 DEF Contents

(* A job is submitted. *)
LEMMA SubmitTurns ==
  ASSUME LTypeOK, Storing, InMap, Contents, NEW n \in Names, NEW op \in {"add", "remove"}, NEW v \in Values,
         Submit(n, op, v)
  PROVE  sets[n] \in DOMAIN holders /\ \E z : Turns(sets[n], z)
<1> DEFINE h == sets[n]
           x == holders[h]
           j == [op |-> op, v |-> v]
           z == [x EXCEPT !.jobs = <<j>>]
<1>1. /\ UNCHANGED <<redis, epochs, published>> /\ x.jobs = <<>> /\ h # 0
      /\ holders' = [holders EXCEPT ![h] = z] /\ truth' = [truth EXCEPT ![n][v] = "any"]
  BY DEF Submit
<1>2. h \in DOMAIN holders /\ x.name = n
  BY <1>1 DEF InMap
<1>3. x \in HolderState /\ x.cpc = "idle"
  BY <1>1, <1>2, HolderType DEF Storing, HolderState
<1>4. <<j>> \in Seq(Job) /\ Head(<<j>>) = j /\ j.v = v
  BY DEF Job
<1> HIDE DEF j
<1>5. /\ z \in HolderState /\ z.jobs = <<j>> /\ z.name = n /\ z.epoch = x.epoch /\ z.seq = x.seq
      /\ z.mem = x.mem /\ z.cpc = "idle"
  BY <1>2, <1>3, <1>4 DEF HolderState
<1>6. /\ truth'[n][v] = "any" /\ \A w \in Values : w # v => truth'[n][w] = truth[n][w]
      /\ \A k \in Names : k # n => truth'[k] = truth[k]
  BY <1>1 DEF LTypeOK
<1> HIDE DEF z
<1>7. Turns(h, z)
  <2> HIDE DEF h
  <2> QED
    BY <1>1, <1>2, <1>3, <1>4, <1>5, <1>6, HolderHas DEF Turns
<1> QED
  BY <1>2, <1>7

(* What an answer implies of the job answered, and of nothing else. *)
LEMMA AckGives ==
  ASSUME LTypeOK, NEW h \in DOMAIN holders, holders[h].jobs # <<>>, Ack(h)
  PROVE  LET n == holders[h].name
             j == Head(holders[h].jobs)
         IN
         /\ truth'[n][j.v] = "in" => j.op = "add"
         /\ truth'[n][j.v] = "out" => j.op # "add"
         /\ \A w \in Values : w # j.v => truth'[n][w] = truth[n][w]
         /\ \A k \in Names : k # n => truth'[k] = truth[k]
<1> DEFINE n == holders[h].name
           j == Head(holders[h].jobs)
           v == j.v
           told == sets[n] # 0 /\ SameSet(holders[sets[n]].def, holders[h].def)
           a == CASE ~told -> "any" [] j.op = "add" -> "in" [] OTHER -> "out"
<1>1. truth' = [truth EXCEPT ![n][v] = a]
  BY DEF Ack
<1>2. (a = "in" => j.op = "add") /\ (a = "out" => j.op # "add")
  OBVIOUS
<1>3. n \in Names /\ v \in Values
  <2>1. holders[h] \in HolderState
    BY HolderType
  <2>2. n \in Names /\ holders[h].jobs \in Seq(Job)
    BY <2>1 DEF HolderState
  <2>3. j \in Job
    BY <2>2, TailGives
  <2> QED
    BY <2>2, <2>3 DEF Job
<1>4. truth \in [Names -> [Values -> {"any", "in", "out"}]]
  BY DEF LTypeOK
<1> HIDE DEF a, n, v
<1>5. /\ truth'[n][v] = a
      /\ \A w \in Values : w # v => truth'[n][w] = truth[n][w]
      /\ \A k \in Names : k # n => truth'[k] = truth[k]
  BY <1>1, <1>3, <1>4
<1> QED
  BY <1>2, <1>5 DEF n, v

(* A removal is skipped. *)
LEMMA SkipTurns ==
  ASSUME LTypeOK, Contents, NEW h \in DOMAIN holders, HolderSkip(h)
  PROVE  \E z : Turns(h, z)
<1> DEFINE x == holders[h]
           j == Head(x.jobs)
           z == [x EXCEPT !.jobs = <<>>]
<1>1. /\ UNCHANGED <<redis, epochs, published>> /\ x.cpc = "idle" /\ x.jobs # <<>>
      /\ j.op = "remove" /\ j.v \notin x.mem /\ Ack(h)
      /\ holders' = [holders EXCEPT ![h] = z]
  BY DEF HolderSkip
<1>2. x \in HolderState
  BY HolderType
<1>3. /\ z \in HolderState /\ z.jobs = <<>> /\ z.name = x.name /\ z.epoch = x.epoch /\ z.seq = x.seq
      /\ z.mem = x.mem /\ z.cpc = "idle"
  BY <1>1, <1>2, NoJobs DEF HolderState
<1>4. /\ truth'[x.name][j.v] # "in"
      /\ \A w \in Values : w # j.v => truth'[x.name][w] = truth[x.name][w]
      /\ \A k \in Names : k # x.name => truth'[k] = truth[k]
  BY <1>1, AckGives
<1> HIDE DEF z
<1>5. Turns(h, z)
  BY <1>1, <1>2, <1>3, <1>4, HolderHas DEF Turns
<1> QED
  BY <1>5

(* Carrying out a job leaves the other values alone. *)
LEMMA OutcomeGives ==
  ASSUME NEW c, NEW j
  PROVE  /\ \A v : v # j.v => (v \in Outcome(c, j) <=> v \in c)
         /\ j.op = "add" => j.v \in Outcome(c, j)
         /\ j.op # "add" => j.v \notin Outcome(c, j)
  BY DEF Outcome

(* A job is stored, or not, or who knows. *)
LEMMA StoreTurns ==
  ASSUME LTypeOK, Contents, NEW h \in DOMAIN holders, NEW how \in {"ok", "lost", "torn"},
         HolderStore(h, how)
  PROVE  /\ \E z : Turns(h, z)
         /\ \A k \in Names : k # holders[h].name => redis'[k] = redis[k]
<1> DEFINE x == holders[h]
           n == x.name
           j == Head(x.jobs)
           c == Outcome(redis[n].recs, j)
           d == Hash(x.epoch, Outcome(x.mem, j))
           m == Numbered(redis[n].meta, x.seq + 1, d)
           z == IF how = "ok" THEN [x EXCEPT !.cpc = "stored"] ELSE [x EXCEPT !.jobs = <<>>]
<1>1. /\ UNCHANGED <<epochs, published, truth>> /\ x.cpc = "idle" /\ x.jobs # <<>>
      /\ how = "torn" => Torn
      /\ redis' = IF how = "lost" THEN redis ELSE [redis EXCEPT ![n].recs = c, ![n].meta = m]
      /\ holders' = [holders EXCEPT ![h] = z]
  BY DEF HolderStore, Stored, history
<1>2. x \in HolderState /\ n \in Names
  BY HolderType DEF HolderState
<1>3. /\ z \in HolderState /\ z.name = n /\ z.epoch = x.epoch /\ z.seq = x.seq /\ z.mem = x.mem
      /\ how = "ok" => z.jobs = x.jobs /\ z.cpc = "stored"
      /\ how # "ok" => z.jobs = <<>> /\ z.cpc = "idle"
  BY <1>1, <1>2, NoJobs DEF HolderState
<1> HIDE DEF z
<1>4. redis[n].meta.tag = "good" /\ redis[n].meta \in Metas
  BY <1>2, StoreType, HolderHas
<1>5. m.tag = "good" /\ m.epoch = redis[n].meta.epoch /\ m.seq = x.seq + 1 /\ m.hash = d
  <2> HIDE DEF d
  <2> QED
    BY <1>4 DEF Numbered, Metas
<1> HIDE DEF m
<1>6. /\ how # "lost" => redis'[n].recs = c /\ redis'[n].meta = m
      /\ how = "lost" => redis' = redis
      /\ \A k \in Names : k # n => redis'[k] = redis[k]
  <2>1. redis \in [Names -> [meta : Metas, recs : SUBSET Values]]
    BY DEF LTypeOK
  <2> HIDE DEF c, n
  <2> QED
    BY <1>1, <1>2, <2>1
<1>7. /\ \A v : v # j.v => (v \in c <=> v \in redis[n].recs)
      /\ j.op = "add" => j.v \in c
      /\ redis[n].recs = x.mem => c = Outcome(x.mem, j)
  BY OutcomeGives
<1> HIDE DEF c
<1>8. /\ redis[n].meta.epoch = x.epoch /\ truth[n][j.v] = "any"
      /\ \A y \in published : y[1] = x.epoch => y[2] <= x.seq /\ (y[2] = x.seq => y[3] = x.mem)
  BY <1>1, HolderHas
<1>9. Turns(h, z)
  <2>1. CASE how = "lost"
    BY <1>1, <1>2, <1>3, <1>6, <2>1, HolderHas DEF Turns
  <2>2. CASE how = "torn"
    <3>1. /\ redis'[n].recs = c /\ redis'[n].meta = m /\ Torn
          /\ z.jobs = <<>> /\ z.cpc = "idle" /\ truth' = truth
      BY <1>1, <1>3, <1>6, <2>2
    <3>2. \A v \in Values : truth[n][v] = "in" => v \in c /\ v \in x.mem
      BY <1>1, <1>7, HolderHas
    <3> QED
      BY <1>1, <1>3, <1>5, <1>6, <1>8, <3>1, <3>2 DEF Turns
  <2>3. CASE how = "ok"
    <3>1. /\ redis'[n].recs = c /\ redis'[n].meta = m
          /\ z.jobs = x.jobs /\ z.cpc = "stored" /\ truth' = truth
      BY <1>1, <1>3, <1>6, <2>3
    <3>2. \A v \in Values : truth[n][v] = "in" => v \in c /\ v \in x.mem
      BY <1>1, <1>7, HolderHas
    <3>3. ~Torn => /\ \A v \in Values : truth[n][v] = "out" => v \notin c
                   /\ c = Outcome(x.mem, j)
      BY <1>1, <1>7, HolderHas
    <3> QED
      BY <1>1, <1>3, <1>5, <1>6, <1>7, <1>8, <3>1, <3>2, <3>3 DEF Turns
  <2> QED
    BY <2>1, <2>2, <2>3
<1> QED
  BY <1>6, <1>9

(* A stored job is committed. *)
LEMMA CommitTurns ==
  ASSUME LTypeOK, Storing, Contents, NEW h \in DOMAIN holders, HolderCommit(h)
  PROVE  \E z : Turns(h, z) /\ z.seq = holders[h].seq + 1
<1> DEFINE x == holders[h]
           n == x.name
           j == Head(x.jobs)
           c == Outcome(x.mem, j)
           s == x.seq + 1
           z == [x EXCEPT !.mem = c, !.seq = s, !.cpc = "idle", !.jobs = <<>>]
<1>1. /\ UNCHANGED <<redis, epochs>> /\ x.cpc = "stored" /\ Ack(h)
      /\ holders' = [holders EXCEPT ![h] = z]
      /\ published' = published \cup {<<z.epoch, z.seq, z.mem>>}
  BY DEF HolderCommit
<1>2. x \in HolderState /\ x.jobs # <<>> /\ j \in Job /\ n \in Names /\ x.seq \in Nat /\ x.mem \in SUBSET Values
  BY <1>1, HolderType, HolderHas DEF Storing
<1>3. c \in SUBSET Values
  BY <1>2, OutcomeType
<1>4. /\ \A v : v # j.v => (v \in c <=> v \in x.mem)
      /\ j.op = "add" => j.v \in c
      /\ j.op # "add" => j.v \notin c
  BY OutcomeGives
<1>5. /\ redis[n].meta.seq = x.seq + 1 /\ redis[n].meta.hash = Hash(x.epoch, c)
      /\ ~Torn => redis[n].recs = c
  BY <1>1, HolderHas
<1> HIDE DEF c
<1>6. /\ z \in HolderState /\ z.jobs = <<>> /\ z.name = n /\ z.epoch = x.epoch /\ z.seq = x.seq + 1
      /\ z.mem = c /\ z.cpc = "idle"
  <2>1. s \in Nat
    BY <1>2
  <2>2. /\ z \in HolderState /\ z.jobs = <<>> /\ z.name = n /\ z.epoch = x.epoch /\ z.seq = s
        /\ z.mem = c /\ z.cpc = "idle"
    <3> HIDE DEF s
    <3> QED
      BY <1>2, <1>3, <2>1, NoJobs DEF HolderState
  <2> QED
    BY <2>2
<1> HIDE DEF z
<1>7. /\ truth'[n][j.v] = "in" => j.op = "add"
      /\ truth'[n][j.v] = "out" => j.op # "add"
      /\ \A w \in Values : w # j.v => truth'[n][w] = truth[n][w]
      /\ \A k \in Names : k # n => truth'[k] = truth[k]
  BY <1>1, <1>2, AckGives
<1>8. \A v \in Values : truth'[n][v] = "in" => v \in redis[n].recs /\ v \in c
  BY <1>1, <1>4, <1>7, HolderHas
<1>9. ~Torn => \A v \in Values : truth'[n][v] = "out" => v \notin redis[n].recs
  BY <1>1, <1>4, <1>5, <1>7, HolderHas
<1>10. \A y \in published : y[1] = z.epoch => y[2] <= z.seq /\ y[2] # z.seq
  BY <1>2, <1>6, HolderHas, ToldType
<1>11. Turns(h, z)
  BY <1>1, <1>2, <1>5, <1>6, <1>7, <1>8, <1>9, <1>10, HolderHas DEF Turns
<1> QED
  BY <1>6, <1>11

------------------------------------------------------------------------------
(* Every step *)

(* What mirrors are told now is ahead of what they were told of the same epoch. *)
Grows == \A x \in published' \ published, y \in published : x[1] = y[1] => x[2] > y[2]

LEMMA TurnsGrows ==
  ASSUME LTypeOK, NEW h \in DOMAIN holders, NEW z, Turns(h, z)
  PROVE  Grows
<1> DEFINE t == <<z.epoch, z.seq, z.mem>>
<1>1. t[1] = z.epoch /\ t[2] = z.seq /\ t[3] = z.mem
  OBVIOUS
<1>2. z.seq \in Nat
  BY DEF Turns, HolderState
<1>3. \A y \in published : y[1] = z.epoch => y[2] <= z.seq /\ (y[2] = z.seq => y[3] = z.mem)
  BY DEF Turns
<1>4. published' \ published \subseteq {t}
  BY DEF Turns
<1> SUFFICES ASSUME NEW y \in published, t \notin published, y[1] = z.epoch
             PROVE  z.seq > y[2]
  BY <1>1, <1>4 DEF Grows
<1>5. y[2] \in Nat /\ y = <<y[1], y[2], y[3]>>
  BY ToldType
<1>6. y[2] # z.seq
  BY <1>3, <1>5
<1> QED
  BY <1>2, <1>3, <1>5, <1>6

(* A holder takes a step. *)
LEMMA HolderContents ==
  ASSUME LTypeOK, Places, Lone, Held, NEW h \in DOMAIN holders, Holder(h)
  PROVE  Lone' /\ Held' /\ Grows
<1>1. SameHolders /\ UNCHANGED <<defs, proc, ready>>
  BY HolderStep DEF Places, Holder, HolderSkip, HolderStore, HolderCommit, HolderExit
<1>2. Lone'
  BY <1>1, LoneKept DEF SameHolders, HoldersStay
<1>3. ~HolderExit(h)
  BY DEF Lone, HoldersApart, HolderExit
<1>4. Contents /\ Storing
  BY HeldParts DEF Places
<1>5. /\ \E z : Turns(h, z)
      /\ \A k \in Names : k # holders[h].name => redis'[k] = redis[k]
  <2>1. CASE HolderSkip(h)
    BY <1>4, <2>1, SkipTurns DEF HolderSkip
  <2>2. CASE HolderCommit(h)
    BY <1>4, <2>2, CommitTurns DEF HolderCommit
  <2>3. ASSUME NEW how \in {"ok", "lost", "torn"}, HolderStore(h, how)
        PROVE  /\ \E z : Turns(h, z)
               /\ \A k \in Names : k # holders[h].name => redis'[k] = redis[k]
    BY <1>4, <2>3, StoreTurns
  <2> QED
    BY <1>3, <2>1, <2>2, <2>3 DEF Holder
<1>6. Contents' /\ Grows
  BY <1>4, <1>5, TurnsKeeps, TurnsGrows
<1>7. Read'
  <2> DEFINE x == proc[Boot]
  <2>1. x.pc \in {"recs", "reset"} => x.name \in Names /\ x.name # holders[h].name
    BY DEF Places, Steps, Ordered, Procs, Lone, Listed, Makes, Apart
  <2> QED
    BY <1>1, <1>5, <2>1 DEF Held, Read
<1> QED
  BY <1>2, <1>6, <1>7 DEF Held, Contents

(* A write arrives. *)
LEMMA SubmitContents ==
  ASSUME LTypeOK, Places, Lone, Held, NEW n \in Names, NEW op \in {"add", "remove"}, NEW v \in Values,
         Submit(n, op, v)
  PROVE  Lone' /\ Held' /\ Grows
<1>1. SameHolders /\ UNCHANGED <<defs, redis, proc, ready>>
  BY SubmitStep DEF Places, Submit
<1>2. Lone' /\ Read'
  BY <1>1, LoneKept DEF SameHolders, HoldersStay, Held, Read
<1>3. Contents
  BY HeldParts
<1>4. Contents' /\ Grows
  BY <1>3, SubmitTurns, TurnsKeeps, TurnsGrows DEF Places
<1> QED
  BY <1>2, <1>4 DEF Held, Contents

(* A process starts, or has started. *)
LEMMA StartContents ==
  ASSUME LTypeOK, Places, Lone, Held, Start \/ StartEnd(Boot)
  PROVE  Lone' /\ Held' /\ Grows
<1>0. /\ proc \in [Procs -> ProcState]
      /\ Boot \in Procs /\ Handlers \subseteq Procs /\ \A p \in Handlers : p # Boot
  BY LifecycleAssumption DEF Procs, LTypeOK
<1>1. UNCHANGED <<defs, redis, holders, epochs, truth, published>>
  BY DEF Start, StartEnd, Serve, history
<1>2. Contents' /\ Grows
  BY <1>1, HeldParts, ContentsKept DEF Grows
<1>3. CASE Start
  <2>1. PICK list \in LoadDefinitions : Serve(Boot, "start", list)
    BY <1>3 DEF Start
  <2> DEFINE s == {e.name : e \in ToSet(list)}
             y == [Idle EXCEPT !.op = "start", !.pc = "next", !.list = list, !.seen = s]
  <2>2. proc' = [proc EXCEPT ![Boot] = y]
    BY <2>1 DEF Serve
  <2>3. y.pc = "next" /\ y.op = "start" /\ y.list = list
    BY DEF Idle
  <2> HIDE DEF y
  <2>4. proc'[Boot] = y /\ \A p \in Handlers : proc'[p] = proc[p]
    BY <1>0, <2>2
  <2>5. DOMAIN holders = {}
    BY <1>3 DEF Start, Lone, Unstarted
  <2>6. \A i \in DOMAIN list :
          list[i].def # None /\ \A j \in DOMAIN list : i # j => Apart(list[i], list[j])
    BY ListsApart DEF Lone
  <2>7. DefsApart' /\ OnlyStart' /\ Unstarted' /\ HoldersApart' /\ Read'
    BY <1>1, <2>3, <2>4, <2>5 DEF Lone, DefsApart, OnlyStart, Unstarted, HoldersApart, Read
  <2>8. Listed'
    BY <1>1, <2>3, <2>4, <2>5, <2>6 DEF Listed, Makes, Apart
  <2> QED
    BY <1>2, <2>7, <2>8 DEF Lone, Held, Contents
<1>4. CASE StartEnd(Boot)
  <2>1. proc' = [proc EXCEPT ![Boot] = Idle] /\ ready' = TRUE
    BY <1>4 DEF StartEnd
  <2>2. proc'[Boot] = Idle /\ \A p \in Handlers : proc'[p] = proc[p]
    BY <1>0, <2>1
  <2>3. Idle.pc = "idle" /\ Idle.list = <<>> /\ DOMAIN <<>> = {}
    BY DEF Idle
  <2>4. DefsApart' /\ OnlyStart' /\ Unstarted' /\ HoldersApart' /\ Read'
    BY <1>1, <2>1, <2>2, <2>3 DEF Lone, DefsApart, OnlyStart, Unstarted, HoldersApart, Apart, Read
  <2>5. Listed'
    BY <1>1, <2>2, <2>3 DEF Listed, Makes
  <2> QED
    BY <1>2, <2>4, <2>5 DEF Lone, Held, Contents
<1> QED
  BY <1>3, <1>4

(* The process ends. *)
LEMMA EndContents ==
  ASSUME LTypeOK, Lone, Held, Crash \/ MountFails(Boot)
  PROVE  Lone' /\ Held' /\ Grows
<1>1. UNCHANGED <<defs, redis, epochs, truth, published>>
  BY DEF Crash, MountFails, history
<1>2. Die
  BY DEF Crash, MountFails, MountError, Lone, OnlyStart
<1>3. Lone' /\ Read' /\ DOMAIN holders' = {}
  BY <1>1, <1>2, DieLone DEF Lone
<1>4. Contents' /\ Grows
  BY <1>1, <1>3, HeldParts, ContentsLeft DEF Grows
<1> QED
  BY <1>3, <1>4 DEF Held, Contents

(* The holder takes a place that was empty. *)
LEMMA SwapContents ==
  ASSUME LTypeOK, Places, Lone, Held, MountSwap(Boot)
  PROVE  Lone' /\ Held' /\ Grows
<1> DEFINE x == proc[Boot]
<1>0. /\ x \in ProcState /\ Ordered(x) /\ proc \in [Procs -> ProcState]
      /\ Boot \in Procs /\ Handlers \subseteq Procs /\ \A p \in Handlers : p # Boot
  BY LifecycleAssumption, ProcType DEF Procs, Places, Steps, LTypeOK
<1>1. x.pc = "swap" /\ UNCHANGED <<defs, redis, holders, ready, epochs, published>>
  BY DEF MountSwap
<1>2. x.def # None /\ x.name \in Names /\ x.op = "start"
  BY <1>0, <1>1 DEF Ordered, Lone, OnlyStart
<1>3. /\ x.h \in DOMAIN holders /\ holders[x.h].name = x.name /\ holders[x.h].def = x.def
      /\ \A n \in Names : sets[n] # x.h
  BY <1>0, <1>1, <1>2 DEF Places, InMount, InSwap, Mounting
<1>4. \A n \in Names : sets[n] # 0 => holders[sets[n]].name = n /\ Apart(holders[sets[n]], holders[x.h])
  BY <1>3 DEF Places, InMap, Lone, HoldersApart
<1>5. Renamed(x) = {} /\ Replaced(x) = <<>>
  <2>1. sets[x.name] = 0
    BY <1>2, <1>3, <1>4 DEF Apart
  <2>2. ASSUME NEW n \in Names, sets[n] # 0 PROVE holders[sets[n]].def.id # x.def.id
    BY <1>3, <1>4, <2>2 DEF Apart
  <2> QED
    BY <2>1, <2>2 DEF Renamed, Replaced
<1>6. truth' = truth
  <2>1. truth' = [n \in Names |-> IF n \in Renamed(x) THEN Unknown ELSE truth[n]]
    BY DEF MountSwap
  <2>2. truth \in [Names -> [Values -> {"any", "in", "out"}]]
    BY DEF LTypeOK
  <2> QED
    BY <1>5, <2>1, <2>2
<1>7. PICK others \in SetToSeqs({[h |-> sets[n], wipe |-> TRUE] : n \in Renamed(x)}) :
        proc' = [proc EXCEPT ![Boot].pc = "halt", ![Boot].halt = Replaced(x) \o others]
  BY DEF MountSwap
<1>8. others = <<>>
  <2>1. {[h |-> sets[n], wipe |-> TRUE] : n \in Renamed(x)} = {}
    BY <1>5
  <2>2. others \in Seq({})
    BY <1>7, <2>1, FS_EmptySet, OrdersGive
  <2> QED
    BY <2>2
<1> DEFINE y == [x EXCEPT !.pc = "halt", !.halt = <<>>]
<1>9. proc' = [proc EXCEPT ![Boot] = y]
  <2>1. <<>> \o <<>> = <<>>
    OBVIOUS
  <2> QED
    BY <1>5, <1>7, <1>8, <2>1
<1>10. /\ y.pc = "halt" /\ y.halt = <<>> /\ y.list = x.list /\ y.op = x.op /\ y.name = x.name
       /\ y.def = x.def
  BY <1>0 DEF ProcState
<1> HIDE DEF y
<1>11. proc'[Boot] = y /\ \A p \in Handlers : proc'[p] = proc[p]
  BY <1>0, <1>9
<1>12. Lone'
  <2>1. HoldersStay
    BY <1>1 DEF HoldersStay
  <2> QED
    BY <1>1, <1>2, <1>10, <1>11, <2>1, BootLone DEF Makes
<1>13. Read'
  BY <1>10, <1>11 DEF Read
<1>14. Contents' /\ Grows
  BY <1>1, <1>6, HeldParts, ContentsKept DEF Grows
<1> QED
  BY <1>12, <1>13, <1>14 DEF Held, Contents

(* The holder starts, and says so. *)
LEMMA UpContents ==
  ASSUME LTypeOK, Places, Lone, Held, MountStart(Boot)
  PROVE  Lone' /\ Held' /\ Grows
<1> DEFINE x == proc[Boot]
           h == x.h
           z == [holders[h] EXCEPT !.run = "up"]
           y == [x EXCEPT !.pc = "next"]
<1>0. /\ x \in ProcState /\ Ordered(x) /\ proc \in [Procs -> ProcState]
      /\ Boot \in Procs /\ Handlers \subseteq Procs /\ \A p \in Handlers : p # Boot
  BY LifecycleAssumption, ProcType DEF Procs, Places, Steps, LTypeOK
<1>1. /\ x.pc = "halt" /\ x.def # None /\ UNCHANGED <<defs, redis, sets, ready, epochs, truth>>
      /\ holders' = [holders EXCEPT ![h] = z]
      /\ published' = published \cup {<<holders[h].epoch, holders[h].seq, holders[h].mem>>}
      /\ proc' = [proc EXCEPT ![Boot] = y]
  BY DEF MountStart, Goto
<1>2. h \in DOMAIN holders /\ x.op = "start"
  BY <1>0, <1>1 DEF Places, InMount, Mounting, Lone, OnlyStart
<1>3. holders[h] \in HolderState
  BY <1>2, HolderType
<1>4. /\ z \in HolderState /\ z.name = holders[h].name /\ z.def = holders[h].def /\ z.epoch = holders[h].epoch
      /\ z.seq = holders[h].seq /\ z.mem = holders[h].mem /\ z.cpc = holders[h].cpc
      /\ z.jobs = holders[h].jobs /\ z.stop = holders[h].stop
  BY <1>3 DEF HolderState
<1>5. y.pc = "next" /\ y.list = x.list /\ y.op = x.op /\ y.name = x.name /\ y.def = x.def
  BY <1>0 DEF ProcState
<1> HIDE DEF y, z
<1>6. proc'[Boot] = y /\ \A p \in Handlers : proc'[p] = proc[p]
  BY <1>0, <1>1
<1>7. HoldersStay
  <2>1. holders \in Seq(HolderState)
    BY DEF LTypeOK
  <2>2. /\ DOMAIN holders' = DOMAIN holders /\ holders'[h] = z
        /\ \A i \in DOMAIN holders : i # h => holders'[i] = holders[i]
    <3> HIDE DEF h
    <3> QED
      BY <1>1, <1>2, <1>4, <2>1, ReplaceGives
  <2> QED
    BY <1>4, <2>2 DEF HoldersStay
<1>8. Lone' /\ Read'
  BY <1>1, <1>2, <1>5, <1>6, <1>7, BootLone DEF Makes, Read
<1>9. Contents
  BY HeldParts
<1>10. Turns(h, z)
  <2> HIDE DEF h
  <2> QED
    BY <1>1, <1>2, <1>4, <1>9, HolderHas DEF Turns
<1>11. Contents' /\ Grows
  BY <1>2, <1>9, <1>10, TurnsKeeps, TurnsGrows
<1> QED
  BY <1>8, <1>11 DEF Held, Contents

(* The goroutine of Start takes a step. *)
LEMMA BootContents ==
  ASSUME LTypeOK, Places, Lone, Held, Goroutine(Boot)
  PROVE  Lone' /\ Held' /\ Grows
<1> DEFINE x == proc[Boot]
<1>1. ~DefineEnd(Boot) /\ ~ReloadGone(Boot) /\ ~ReloadEnd(Boot)
  BY DEF DefineEnd, ReloadGone, ReloadEnd, Lone, OnlyStart
<1>2. ~DropDelete(Boot) /\ ~DropEnd(Boot) /\ ~HaltClose(Boot) /\ ~HaltWait(Boot) /\ ~HaltWipe(Boot)
  BY DEF DropDelete, DropEnd, HaltClose, HaltWait, HaltWipe, Lone, OnlyStart
<1>3. CASE BootAlone
  <2>1. Lone' /\ Read' /\ UNCHANGED <<redis, holders, epochs, truth, published>>
    BY <1>3, BootGoes DEF Places, Held
  <2>2. Contents' /\ Grows
    BY <2>1, HeldParts, ContentsKept DEF Grows
  <2> QED
    BY <2>1, <2>2 DEF Held, Contents
<1>4. CASE StartEnd(Boot)
  BY <1>4, StartContents
<1>5. CASE MountReset(Boot)
  BY <1>5, ResetContents DEF MountReset, Grows
<1>6. CASE MountSwap(Boot)
  BY <1>6, SwapContents
<1>7. CASE MountStart(Boot)
  BY <1>7, UpContents
<1> QED
  BY <1>1, <1>2, <1>3, <1>4, <1>5, <1>6, <1>7 DEF Goroutine, BootAlone

(* A goroutine that serves nothing takes no step. *)
LEMMA IdleStill ==
  ASSUME NEW p \in Procs, proc[p].pc = "idle"
  PROVE  ~Goroutine(p) /\ ~MountFails(p)
<1>1. ~ServeNext(p) /\ ~StartEnd(p) /\ ~DefineEnd(p) /\ ~ReloadGone(p) /\ ~ReloadEnd(p)
  BY DEF ServeNext, StartEnd, DefineEnd, ReloadGone, ReloadEnd
<1>2. ~MountGet(p) /\ ~MountMeta(p) /\ ~MountRecords(p) /\ ~MountReset(p) /\ ~MountSwap(p)
  BY DEF MountGet, MountMeta, MountRecords, MountReset, MountSwap
<1>3. ~MountStart(p) /\ ~DropDelete(p) /\ ~DropEnd(p) /\ ~HaltClose(p) /\ ~HaltWait(p) /\ ~HaltWipe(p)
  BY DEF MountStart, DropDelete, DropEnd, HaltClose, HaltWait, HaltWipe
<1>4. ~MountFails(p)
  BY DEF MountFails
<1> QED
  BY <1>1, <1>2, <1>3, <1>4 DEF Goroutine

(* A handler takes up a request. *)
Requested == \E p \in Handlers : Reload(p) \/ \E n \in Names : Define(p, n)

(* The requests counted, and who counts them. *)
LEMMA ServesGrow ==
  ASSUME serves \in Nat, [LNext]_lvars
  PROVE  /\ Requested  => serves' = serves + 1
         /\ ~Requested => serves' = serves
<1>1. ASSUME Requested PROVE serves' = serves + 1
  BY <1>1 DEF Requested, Reload, Define
<1>2. ASSUME \E n \in Names, d \in Def \cup {None} : Edit(n, d) PROVE serves' = serves
  BY <1>2 DEF Edit
<1>3. ASSUME \E n \in Names, op \in {"add", "remove"}, v \in Values : Submit(n, op, v)
      PROVE  serves' = serves
  BY <1>3 DEF Submit
<1>4. ASSUME \E h \in DOMAIN holders : Holder(h) PROVE serves' = serves
  BY <1>4 DEF Holder, HolderSkip, HolderCommit, HolderExit, HolderStore, bounds
<1>5. ASSUME Start \/ Crash PROVE serves' = serves
  BY <1>5 DEF Start, Crash
<1>6. ASSUME NEW p \in Procs, Goroutine(p) \/ MountFails(p)
      PROVE  serves' = serves
  <2>1. CASE MountFails(p) \/ ServeNext(p) \/ StartEnd(p) \/ DefineEnd(p) \/ ReloadGone(p) \/ ReloadEnd(p)
    BY <2>1 DEF MountFails, ServeNext, StartEnd, DefineEnd, ReloadGone, ReloadEnd, Panic, bounds
  <2>2. CASE MountGet(p) \/ MountMeta(p) \/ MountRecords(p) \/ MountReset(p) \/ MountSwap(p)
    BY <2>2 DEF MountGet, MountMeta, MountRecords, MountReset, MountSwap, bounds
  <2>3. CASE MountStart(p) \/ DropDelete(p) \/ DropEnd(p) \/ HaltClose(p) \/ HaltWait(p) \/ HaltWipe(p)
    BY <2>3 DEF MountStart, DropDelete, DropEnd, HaltClose, HaltWait, HaltWipe, Panic, bounds
  <2> QED
    BY <1>6, <2>1, <2>2, <2>3 DEF Goroutine
<1>7. ASSUME UNCHANGED lvars PROVE serves' = serves
  BY <1>7 DEF lvars, bounds
<1>8. ~Requested => serves' = serves
  BY <1>2, <1>3, <1>4, <1>5, <1>6, <1>7 DEF LNext, Requested
<1> QED
  BY <1>1, <1>8

(* A step by which no request is served. *)
LEMMA ContentStep ==
  ASSUME LTypeOK, Places, Lone, Held, [LNext]_lvars,
         ~Requested
  PROVE  Lone' /\ Held' /\ Grows
<1>1. ASSUME NEW n \in Names, NEW d \in Def \cup {None}, Edit(n, d)
      PROVE  Lone' /\ Held' /\ Grows
  <2>1. UNCHANGED <<redis, sets, holders, proc, ready, epochs, truth, published>>
    BY <1>1 DEF Edit, history
  <2>2. DefsApart'
    BY <1>1, EditApart DEF Lone
  <2>3. OnlyStart' /\ Listed' /\ Unstarted' /\ HoldersApart' /\ Read'
    BY <2>1 DEF Lone, OnlyStart, Listed, Unstarted, HoldersApart, Held, Read, Apart, Makes
  <2>4. Contents' /\ Grows
    BY <2>1, HeldParts, ContentsKept DEF Grows
  <2> QED
    BY <2>2, <2>3, <2>4 DEF Lone, Held, Contents
<1>2. ASSUME NEW n \in Names, NEW op \in {"add", "remove"}, NEW v \in Values, Submit(n, op, v)
      PROVE  Lone' /\ Held' /\ Grows
  BY <1>2, SubmitContents
<1>3. ASSUME NEW h \in DOMAIN holders, Holder(h)
      PROVE  Lone' /\ Held' /\ Grows
  BY <1>3, HolderContents
<1>4. CASE Start
  BY <1>4, StartContents
<1>5. CASE Crash
  BY <1>5, EndContents
<1>6. ASSUME NEW p \in Procs, Goroutine(p) \/ MountFails(p)
      PROVE  Lone' /\ Held' /\ Grows
  <2>1. p = Boot
    BY <1>6, IdleStill DEF Lone, OnlyStart, Procs
  <2> QED
    BY <1>6, <2>1, BootContents, EndContents
<1>7. CASE UNCHANGED lvars
  <2>1. UNCHANGED <<defs, redis, holders, proc, ready, epochs, truth, published>>
    BY <1>7 DEF lvars, history
  <2>2. Lone' /\ Read'
    BY <2>1, LoneKept DEF HoldersStay, Held, Read
  <2>3. Contents' /\ Grows
    BY <2>1, HeldParts, ContentsKept DEF Grows
  <2> QED
    BY <2>2, <2>3 DEF Held, Contents
<1> QED
  BY <1>1, <1>2, <1>3, <1>4, <1>5, <1>6, <1>7 DEF LNext, Requested

(* In the beginning. *)
LEMMA ContentInit ==
  ASSUME LInit
  PROVE  ContentInv
<1>1. /\ DefsApart /\ redis = [n \in Names |-> NoState] /\ holders = <<>>
      /\ proc = [p \in Procs |-> Idle] /\ truth = [n \in Names |-> Unknown] /\ published = {}
      /\ serves = 0
  BY DEF LInit, DefsApart
<1>2. Idle.pc = "idle" /\ Idle.list = <<>> /\ DOMAIN <<>> = {}
  BY DEF Idle
<1>3. proc[Boot] = Idle /\ \A p \in Handlers : proc[p] = Idle
  BY <1>1 DEF Procs
<1>4. \A n \in Names : redis[n].meta.tag = "none"
  BY <1>1 DEF NoState, NoMeta
<1>5. \A n \in Names, v \in Values : truth[n][v] = "any"
  BY <1>1 DEF Unknown
<1>6. OnlyStart /\ Unstarted /\ HoldersApart /\ Read
  BY <1>1, <1>2, <1>3 DEF OnlyStart, Unstarted, HoldersApart, Read
<1>7. Listed
  BY <1>2, <1>3 DEF Listed, Makes
<1>8. Drawn /\ Told /\ HolderTold /\ NumberNamesContent /\ Asked
  BY <1>1, <1>2, <1>4 DEF Drawn, Told, HolderTold, NumberNamesContent, Asked
<1>9. AddedKept /\ RemovedKept
  BY <1>1, <1>2, <1>5 DEF AddedKept, RemovedKept
<1> QED
  BY <1>1, <1>6, <1>7, <1>8, <1>9 DEF ContentInv, Lone, Held

LEMMA ContentNext ==
  ASSUME HolderInv, ContentInv, [LNext]_lvars
  PROVE  ContentInv' /\ (serves' = 0 => Grows)
<1>1. LTypeOK /\ Places
  BY InvParts
<1>2. serves' \in Nat /\ (serves' = 0 => serves = 0 /\ ~Requested)
  BY ServesGrow DEF ContentInv
<1>3. serves' = 0 => Lone' /\ Held' /\ Grows
  BY <1>1, <1>2, ContentStep DEF ContentInv
<1> QED
  BY <1>2, <1>3 DEF ContentInv

(***************************************************************************)
(* The invariant of what is held, for every set of names, definitions and  *)
(* values and any number of writes, edits, starts, crashes and             *)
(* transactions that fail or are torn, until the first request.            *)
(***************************************************************************)
THEOREM ContentsHeld == LSpec => [](HolderInv /\ ContentInv)
<1>1. LInit => ContentInv
  BY ContentInit
<1>2. HolderInv /\ ContentInv /\ [LNext]_lvars => ContentInv'
  BY ContentNext
<1> QED
  BY <1>1, <1>2, HoldersPlaced, PTL DEF LSpec

(***************************************************************************)
(* Until the first request, what the answers imply is true of the set in   *)
(* memory, over crashes and starts, edits and failed transactions, unless  *)
(* a transaction fails after Redis applied it.                             *)
(***************************************************************************)
THEOREM LifecycleAckedInMemory ==
  ASSUME Torn = FALSE
  PROVE  LSpec => [](serves = 0 => AckedInMemory)
<1>1. HolderInv /\ ContentInv => (serves = 0 => AckedInMemory)
  <2> SUFFICES ASSUME HolderInv, ContentInv, serves = 0, NEW n \in Names, NEW v \in Values, sets[n] # 0
               PROVE  /\ truth[n][v] = "in"  => v \in holders[sets[n]].mem
                      /\ truth[n][v] = "out" => v \notin holders[sets[n]].mem
    BY DEF AckedInMemory
  <2> DEFINE h == sets[n]
  <2>1. LTypeOK /\ Places /\ Contents
    BY InvParts, HeldParts DEF ContentInv
  <2>2. h \in DOMAIN holders /\ holders[h].name = n
    BY <2>1 DEF Places, InMap
  <2>3. holders[h].cpc = "stored" => holders[h].jobs # <<>>
    BY <2>1, <2>2 DEF Places, Storing
  <2> HIDE DEF h
  <2>4. truth[n][v] = "in" => v \in holders[h].mem
    BY <2>1, <2>2, HolderHas
  <2>5. ASSUME truth[n][v] = "out" PROVE v \notin holders[h].mem
    <3>1. CASE holders[h].cpc = "idle"
      BY <2>1, <2>2, <2>5, <3>1, HolderHas
    <3>2. CASE holders[h].cpc = "stored"
      <4>1. truth[n][Head(holders[h].jobs).v] = "any"
        BY <2>1, <2>2, <2>3, <3>2, HolderHas
      <4>2. v # Head(holders[h].jobs).v
        BY <2>5, <4>1
      <4>3. v \notin Outcome(holders[h].mem, Head(holders[h].jobs))
        BY <2>1, <2>2, <2>5, <3>2, HolderHas
      <4> QED
        BY <4>2, <4>3, OutcomeGives
    <3> QED
      BY <2>1, <2>2, <3>1, <3>2, HolderHas
  <2> QED
    BY <2>4, <2>5 DEF h
<1> QED
  BY <1>1, ContentsHeld, PTL

(***************************************************************************)
(* Until the first request, an acknowledged addition is in Redis, also     *)
(* when transactions fail after having been applied.                       *)
(***************************************************************************)
THEOREM LifecycleAckedInStore == LSpec => [](serves = 0 => AckedInStore)
<1>1. HolderInv /\ ContentInv => (serves = 0 => AckedInStore)
  BY DEF ContentInv, Held, AddedKept, AckedInStore
<1> QED
  BY <1>1, ContentsHeld, PTL

(***************************************************************************)
(* Until the first request, epoch and number that mirrors are told stand   *)
(* for one state of the set, for ever.                                     *)
(***************************************************************************)
THEOREM LifecycleNumberNamesContent == LSpec => [](serves = 0 => NumberNamesContent)
<1>1. HolderInv /\ ContentInv => (serves = 0 => NumberNamesContent)
  BY DEF ContentInv, Held
<1> QED
  BY <1>1, ContentsHeld, PTL

(***************************************************************************)
(* A keeper that serves no request never tells mirrors a number they have  *)
(* passed: neither a crash nor a torn transaction takes an epoch back.     *)
(***************************************************************************)
THEOREM LifecycleNumbersGrow ==
  ASSUME MaxServes = 0
  PROVE  LSpec => NumbersGrow
<1>1. HolderInv /\ ContentInv /\ serves = 0 /\ [LNext]_lvars
        => (serves = 0)' /\ [\A x \in published' \ published, y \in published :
                             x[1] = y[1] => x[2] > y[2]]_published
  <2> SUFFICES ASSUME HolderInv, ContentInv, serves = 0, [LNext]_lvars
               PROVE  serves' = 0 /\ Grows
    BY DEF Grows
  <2>1. ~Requested
    BY DEF Requested, Reload, Define
  <2>2. serves' = 0
    BY <2>1, ServesGrow DEF ContentInv
  <2>3. LTypeOK /\ Places
    BY InvParts
  <2> QED
    BY <2>1, <2>2, <2>3, ContentStep DEF ContentInv
<1>2. LInit => serves = 0
  BY DEF LInit
<1>3. ContentInv /\ serves = 0 =>
        \A h \in DOMAIN holders : \A y \in published :
          holders[h].run = "up" /\ y[1] = holders[h].epoch => y[2] <= holders[h].seq
  BY DEF ContentInv, Held, HolderTold
<1> QED
  BY <1>1, <1>2, <1>3, ContentsHeld, PTL DEF LSpec, NumbersGrow
=============================================================================
