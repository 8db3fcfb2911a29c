--------------------------- MODULE LifecycleProofs ---------------------------
(***************************************************************************)
(* Proofs about Lifecycle, for every set of names, definitions and request *)
(* goroutines, and any number of requests, edits, failures and crashes: a  *)
(* holder is stopped once, by whoever took it out of the map, and no       *)
(* holder is left behind.                                                  *)
(***************************************************************************)
EXTENDS Lifecycle, FiniteSetTheorems, TLAPS

(* A goroutine in this state has a holder made and has not started it yet. *)
Mounting(x) == x.pc \in {"swap", "halt", "wait", "wipe"} /\ x.def # None

(* It has closed stop of the first holder of its list. *)
Closed(x) == x.pc \in {"wait", "wipe"}

(* It has holder h on its list of holders to stop. *)
Halts(x, h) == \E i \in DOMAIN x.halt : x.halt[i].h = h

(* It has what it needs where it is. *)
Ordered(x) ==
  /\ x.pc \in {"mount", "meta", "recs", "reset", "swap"} => x.def # None /\ x.name \in Names
  /\ x.pc = "drop" => x.def = None /\ x.name \in Names
  /\ x.halt # <<>> => x.pc \in {"halt", "wait", "wipe"}
  /\ Closed(x) => x.halt # <<>>

Steps == \A p \in Procs : Ordered(proc[p])

(* What is stored is a job. *)
Storing == \A h \in DOMAIN holders : holders[h].cpc = "stored" => holders[h].jobs # <<>>

(* A holder in the map is there once, under its own name, and not stopped. *)
InMap ==
  \A n \in Names : sets[n] # 0 =>
    /\ sets[n] \in DOMAIN holders
    /\ holders[sets[n]].name = n /\ ~holders[sets[n]].stop

(* A holder that is made has one goroutine that mounts it. *)
InMount ==
  \A p \in Procs : Mounting(proc[p]) =>
    /\ proc[p].h \in DOMAIN holders
    /\ \A q \in Procs : Mounting(proc[q]) /\ proc[q].h = proc[p].h => p = q

(* A holder that is not in the map yet is known to nobody else. *)
InSwap ==
  \A p \in Procs : proc[p].pc = "swap" =>
    LET h == proc[p].h IN
    /\ holders[h].name = proc[p].name /\ holders[h].def = proc[p].def
    /\ holders[h].run = "new" /\ ~holders[h].stop
    /\ \A n \in Names : sets[n] # h
    /\ \A q \in Procs : ~Halts(proc[q], h)

(* A holder to stop is out of the map, on one list, once, and not stopped before. *)
InHalt ==
  \A p \in Procs : \A i \in DOMAIN proc[p].halt :
    LET h == proc[p].halt[i].h IN
    /\ h \in DOMAIN holders
    /\ holders[h].stop => Closed(proc[p]) /\ i = 1
    /\ \A n \in Names : sets[n] # h
    /\ \A q \in Procs : \A j \in DOMAIN proc[q].halt : proc[q].halt[j].h = h => q = p /\ i = j

(* Who waits for a holder has stopped it. *)
Waits == \A p \in Procs : Closed(proc[p]) => holders[proc[p].halt[1].h].stop = TRUE

(* Every holder is stopped, in the map, about to be stopped, or about to enter the map. *)
Placed ==
  \A h \in DOMAIN holders :
    \/ holders[h].stop
    \/ \E n \in Names : sets[n] = h
    \/ \E p \in Procs : Halts(proc[p], h)
    \/ \E p \in Procs : proc[p].pc = "swap" /\ proc[p].h = h

(* The inductive invariant. *)
HolderInv ==
  /\ LTypeOK /\ Steps /\ Storing /\ InMap /\ InMount /\ InSwap /\ InHalt /\ Waits /\ Placed
  /\ StoppedOnce /\ OneNamePerId

------------------------------------------------------------------------------
(* Sequences and sets *)

(* The elements of a sequence are of its type. *)
LEMMA ElementsGive ==
  ASSUME NEW S, NEW s \in Seq(S)
  PROVE  \A i \in DOMAIN s : s[i] \in S
  OBVIOUS

(* A sequence with one element replaced. *)
LEMMA ReplaceGives ==
  ASSUME NEW S, NEW s \in Seq(S), NEW k \in DOMAIN s, NEW x \in S
  PROVE  /\ [s EXCEPT ![k] = x] \in Seq(S)
         /\ DOMAIN [s EXCEPT ![k] = x] = DOMAIN s
         /\ [s EXCEPT ![k] = x][k] = x
         /\ \A i \in DOMAIN s : i # k => [s EXCEPT ![k] = x][i] = s[i]
  OBVIOUS

(* A sequence without its first element. *)
LEMMA TailGives ==
  ASSUME NEW S, NEW s \in Seq(S), s # <<>>
  PROVE  /\ Head(s) = s[1] /\ Head(s) \in S /\ 1 \in DOMAIN s
         /\ Tail(s) \in Seq(S)
         /\ \A i \in DOMAIN Tail(s) : i + 1 \in DOMAIN s /\ Tail(s)[i] = s[i + 1]
         /\ \A i \in DOMAIN s : i # 1 => i - 1 \in DOMAIN Tail(s) /\ Tail(s)[i - 1] = s[i]
         /\ \A i \in DOMAIN Tail(s) : i \in Nat \ {0}
         /\ \A i \in DOMAIN s : i \in Nat \ {0}
  OBVIOUS

(* A sequence with one more element at its end. *)
LEMMA AppendGives ==
  ASSUME NEW S, NEW s \in Seq(S), NEW e \in S
  PROVE  /\ Append(s, e) \in Seq(S)
         /\ DOMAIN Append(s, e) = DOMAIN s \cup {Len(s) + 1}
         /\ Len(s) + 1 \notin DOMAIN s /\ Len(s) + 1 \in Nat \ {0}
         /\ \A i \in DOMAIN s : Append(s, e)[i] = s[i]
         /\ Append(s, e)[Len(s) + 1] = e
  OBVIOUS

(* Two sequences one after the other. *)
LEMMA ConcatGives ==
  ASSUME NEW S, NEW s \in Seq(S), NEW t \in Seq(S)
  PROVE  /\ s \o t \in Seq(S)
         /\ \A i \in DOMAIN s : i \in DOMAIN (s \o t) /\ (s \o t)[i] = s[i]
         /\ \A i \in DOMAIN t : Len(s) + i \in DOMAIN (s \o t) /\ (s \o t)[Len(s) + i] = t[i]
         /\ \A i \in DOMAIN (s \o t) : i \in DOMAIN s \/ i - Len(s) \in DOMAIN t
         /\ Len(s) \in Nat /\ DOMAIN s = 1..Len(s) /\ DOMAIN t = 1..Len(t)
  OBVIOUS

(* The orders of a finite set hold each of its elements once. *)
LEMMA OrdersGive ==
  ASSUME NEW S, IsFiniteSet(S), NEW f \in SetToSeqs(S)
  PROVE  /\ f \in Seq(S)
         /\ \A i, j \in DOMAIN f : f[i] = f[j] => i = j
         /\ \A x \in S : \E i \in DOMAIN f : f[i] = x
<1> DEFINE D == 1..Cardinality(S)
<1>1. Cardinality(S) \in Nat
  BY FS_CardinalityType
<1>2. f \in [D -> S] /\ \A i, j \in D : i # j => f[i] # f[j]
  BY DEF SetToSeqs
<1>3. f \in Injection(D, S)
  BY <1>2 DEF Injection, IsInjective
<1>4. IsFiniteSet(D) /\ Cardinality(D) = Cardinality(S)
  BY <1>1, FS_Interval
<1>5. f \in Surjection(D, S)
  BY <1>3, <1>4, FS_Injection
<1>6. f \in Seq(S)
  BY <1>1, <1>2
<1>7. \A x \in S : \E i \in DOMAIN f : f[i] = x
  BY <1>2, <1>5, Zenon DEF Surjection
<1> QED
  BY <1>2, <1>6, <1>7

(* What a finite set is mapped to is finite. *)
LEMMA ImageFinite ==
  ASSUME NEW S, IsFiniteSet(S), NEW g, DOMAIN g = S
  PROVE  IsFiniteSet({g[x] : x \in S})
<1> DEFINE T == {g[x] : x \in S}
           f == [x \in S |-> g[x]]
<1>1. f \in [S -> T] /\ \A t \in T : \E x \in S : f[x] = t
  OBVIOUS
<1>2. f \in Surjection(S, T)
  BY <1>1, Zenon DEF Surjection
<1>3. IsFiniteSet(T)
  BY <1>2, FS_Surjection
<1> QED
  BY <1>3

(* The lists of definitions. *)
LEMMA DefinitionsGive ==
  ASSUME LTypeOK, NEW list \in LoadDefinitions
  PROVE  list \in Seq([name : Names, def : Def \cup {None}])
<1> DEFINE A == {m \in Names : defs[m] # None}
           g == [n \in A |-> [name |-> n, def |-> defs[n]]]
           L == {g[n] : n \in A}
           E == [name : Names, def : Def \cup {None}]
<1>1. IsFiniteSet(A)
  BY LifecycleAssumption, FS_Subset
<1>2. IsFiniteSet(L)
  <2>1. DOMAIN g = A
    OBVIOUS
  <2> HIDE DEF A, g
  <2> QED
    BY <1>1, <2>1, ImageFinite
<1>3. L = {[name |-> n, def |-> defs[n]] : n \in A}
  OBVIOUS
<1>4. list \in Seq(L)
  BY <1>2, <1>3, OrdersGive DEF LoadDefinitions
<1> \A n \in Names : defs[n] \in Def \cup {None}
  BY DEF LTypeOK
<1>5. L \subseteq E
  BY <1>3
<1> HIDE DEF L, E
<1>6. list \in Seq(E)
  BY <1>4, <1>5
<1> QED
  BY <1>6 DEF E

(* The lists of what has no definition. *)
LEMMA GoneGive ==
  ASSUME LTypeOK, NEW A \in SUBSET Names,
         NEW list \in SetToSeqs({[name |-> n, def |-> None] : n \in A})
  PROVE  list \in Seq([name : Names, def : Def \cup {None}])
<1> DEFINE g == [n \in A |-> [name |-> n, def |-> None]]
           L == {g[n] : n \in A}
           E == [name : Names, def : Def \cup {None}]
<1>1. IsFiniteSet(A)
  BY LifecycleAssumption, FS_Subset
<1>2. IsFiniteSet(L)
  <2>1. DOMAIN g = A
    OBVIOUS
  <2> HIDE DEF g
  <2> QED
    BY <1>1, <2>1, ImageFinite
<1>3. L = {[name |-> n, def |-> None] : n \in A}
  OBVIOUS
<1>4. list \in Seq(L)
  BY <1>2, <1>3, OrdersGive
<1>5. L \subseteq E
  BY <1>3
<1> HIDE DEF L, E
<1>6. list \in Seq(E)
  BY <1>4, <1>5
<1> QED
  BY <1>6 DEF E

------------------------------------------------------------------------------
(* Steps that touch neither the map nor what becomes of a holder *)

(* A holder is one. *)
LEMMA HolderType ==
  ASSUME LTypeOK, NEW h \in DOMAIN holders
  PROVE  holders[h] \in HolderState
<1>1. holders \in Seq(HolderState)
  BY DEF LTypeOK
<1> QED
  BY <1>1

(* Nothing in the channel. *)
LEMMA NoJobs == <<>> \in Seq(Job)
  OBVIOUS

(* Holder h becomes x: the same holder, stopped or not as before, and not started. *)
Becomes(h, x) ==
  /\ x \in HolderState /\ holders' = [holders EXCEPT ![h] = x]
  /\ x.name = holders[h].name /\ x.def = holders[h].def /\ x.stop = holders[h].stop
  /\ x.epoch = holders[h].epoch
  /\ holders[h].run = "new" => x.run = "new"
  /\ x.cpc = "stored" => x.jobs # <<>>

(* What stays the same of the holders. *)
SameHolders ==
  /\ DOMAIN holders' = DOMAIN holders
  /\ \A h \in DOMAIN holders :
       /\ holders'[h].name = holders[h].name /\ holders'[h].def = holders[h].def
       /\ holders'[h].stop = holders[h].stop
       /\ holders[h].run = "new" => holders'[h].run = "new"

LEMMA BecomesGives ==
  ASSUME LTypeOK, Storing, NEW h \in DOMAIN holders, NEW x, Becomes(h, x)
  PROVE  holders' \in Seq(HolderState) /\ SameHolders /\ Storing'
<1>1. holders \in Seq(HolderState)
  BY DEF LTypeOK
<1>2. x \in HolderState /\ holders' = [holders EXCEPT ![h] = x]
  BY DEF Becomes
<1>3. /\ holders' \in Seq(HolderState) /\ DOMAIN holders' = DOMAIN holders /\ holders'[h] = x
      /\ \A i \in DOMAIN holders : i # h => holders'[i] = holders[i]
  BY <1>1, <1>2, ReplaceGives
<1>4. SameHolders
  BY <1>3 DEF SameHolders, Becomes
<1>5. Storing'
  BY <1>3 DEF Storing, Becomes
<1> QED
  BY <1>3, <1>4, <1>5

(* Carrying a job out leaves contents of the set. *)
LEMMA OutcomeType ==
  ASSUME NEW c \in SUBSET Values, NEW j \in Job
  PROVE  Outcome(c, j) \in SUBSET Values
  BY DEF Outcome, Job

(* The hash is one of the type of a meta. *)
LEMMA HashType ==
  ASSUME NEW e \in Nat, NEW c \in SUBSET Values
  PROVE  Hash(e, c) \in {<<>>} \cup (Nat \X SUBSET Values)
  BY DEF Hash

(* Storing a number leaves a meta. *)
LEMMA NumberedType ==
  ASSUME NEW m \in Metas, NEW s \in Nat, NEW c \in {<<>>} \cup (Nat \X SUBSET Values)
  PROVE  Numbered(m, s, c) \in Metas
  BY DEF Numbered, Metas

(* An answer implies something about a value. *)
LEMMA AckType ==
  ASSUME LTypeOK, NEW h \in DOMAIN holders, Ack(h)
  PROVE  truth' \in [Names -> [Values -> {"any", "in", "out"}]]
<1> DEFINE n == holders[h].name
           v == Head(holders[h].jobs).v
           j == Head(holders[h].jobs)
           told == sets[n] # 0 /\ SameSet(holders[sets[n]].def, holders[h].def)
           a == CASE ~told -> "any" [] j.op = "add" -> "in" [] OTHER -> "out"
<1>1. truth' = [truth EXCEPT ![n][v] = a]
  BY DEF Ack
<1>3. a \in {"any", "in", "out"}
  OBVIOUS
<1> HIDE DEF a
<1>2. truth \in [Names -> [Values -> {"any", "in", "out"}]]
  BY DEF LTypeOK
<1> QED
  BY <1>1, <1>2, <1>3

(* A step of a holder. *)
LEMMA HolderStep ==
  ASSUME LTypeOK, Storing, NEW h \in DOMAIN holders, Holder(h)
  PROVE  LTypeOK' /\ SameHolders /\ Storing' /\ UNCHANGED <<sets, proc, panic>>
<1>0. holders[h] \in HolderState
  BY HolderType
<1>1. UNCHANGED <<defs, sets, proc, ready, epochs, panic>>
  BY DEF Holder, HolderSkip, HolderStore, HolderCommit, HolderExit
<1>2. ASSUME holders[h].jobs # <<>> PROVE Head(holders[h].jobs) \in Job
  <2>1. holders[h].jobs \in Seq(Job)
    BY <1>0 DEF HolderState
  <2> QED
    BY <1>2, <2>1, TailGives
<1>3. CASE HolderSkip(h)
  <2>1. UNCHANGED <<redis, published>> /\ Ack(h)
    BY <1>3 DEF HolderSkip
  <2>2. Becomes(h, [holders[h] EXCEPT !.jobs = <<>>])
    <3>1. holders' = [holders EXCEPT ![h] = [holders[h] EXCEPT !.jobs = <<>>]]
          /\ holders[h].cpc = "idle"
      BY <1>3 DEF HolderSkip
    <3> QED
      BY <1>0, <3>1, NoJobs DEF Becomes, HolderState
  <2> QED
    BY <1>1, <2>1, <2>2, AckType, BecomesGives DEF LTypeOK
<1>4. CASE HolderCommit(h)
  <2> DEFINE j == Head(holders[h].jobs)
             x == [holders[h] EXCEPT !.mem = Outcome(@, j), !.seq = @ + 1, !.cpc = "idle",
                                     !.jobs = <<>>]
  <2>1. UNCHANGED redis /\ Ack(h) /\ published' = published \cup {<<x.epoch, x.seq, x.mem>>}
        /\ holders' = [holders EXCEPT ![h] = x]
    BY <1>4 DEF HolderCommit
  <2>2. Outcome(holders[h].mem, j) \in SUBSET Values
    BY <1>0, <1>2, <1>4, OutcomeType DEF HolderCommit, Storing, HolderState
  <2> DEFINE o == Outcome(holders[h].mem, j)
             k == holders[h].seq + 1
  <2>5. /\ x = [holders[h] EXCEPT !.mem = o, !.seq = k, !.cpc = "idle", !.jobs = <<>>]
        /\ o \in SUBSET Values /\ k \in Nat
    BY <1>0, <2>2 DEF HolderState
  <2> HIDE DEF j, o, k, x
  <2>3. Becomes(h, x)
    <3>1. x \in HolderState
      BY <1>0, <2>5, NoJobs DEF HolderState
    <3>2. /\ x.name = holders[h].name /\ x.def = holders[h].def /\ x.stop = holders[h].stop
          /\ x.epoch = holders[h].epoch /\ x.run = holders[h].run /\ x.cpc = "idle"
      BY <1>0, <2>5 DEF HolderState
    <3> QED
      BY <2>1, <3>1, <3>2 DEF Becomes
  <2>4. published' \subseteq Nat \X Nat \X SUBSET Values
    <3>1. x.epoch \in Nat /\ x.seq \in Nat /\ x.mem \in SUBSET Values
      BY <2>3 DEF Becomes, HolderState
    <3>2. published \subseteq Nat \X Nat \X SUBSET Values
      BY DEF LTypeOK
    <3> QED
      BY <2>1, <3>1, <3>2
  <2> QED
    BY <1>1, <2>1, <2>3, <2>4, AckType, BecomesGives DEF LTypeOK
<1>5. CASE HolderExit(h)
  <2>1. UNCHANGED <<redis, truth, published>>
    BY <1>5 DEF HolderExit, history
  <2>2. Becomes(h, [holders[h] EXCEPT !.run = "down", !.jobs = <<>>])
    <3>1. /\ holders' = [holders EXCEPT ![h] = [holders[h] EXCEPT !.run = "down", !.jobs = <<>>]]
          /\ holders[h].cpc = "idle" /\ holders[h].run = "up"
      BY <1>5 DEF HolderExit, Running
    <3> QED
      BY <1>0, <3>1, NoJobs DEF Becomes, HolderState
  <2> QED
    BY <1>1, <2>1, <2>2, BecomesGives DEF LTypeOK
<1>6. ASSUME NEW how \in {"ok", "lost", "torn"}, HolderStore(h, how)
      PROVE  LTypeOK' /\ SameHolders /\ Storing'
  <2> DEFINE j == Head(holders[h].jobs)
             n == holders[h].name
             c == Hash(holders[h].epoch, Outcome(holders[h].mem, j))
  <2>1. UNCHANGED <<truth, published>> /\ holders[h].jobs # <<>>
        /\ redis' = IF how = "lost" THEN redis
                    ELSE [redis EXCEPT ![n].recs = Outcome(@, j),
                                       ![n].meta = Numbered(@, holders[h].seq + 1, c)]
    BY <1>6 DEF HolderStore, history
  <2>2. \/ Becomes(h, [holders[h] EXCEPT !.jobs = <<>>])
        \/ Becomes(h, [holders[h] EXCEPT !.cpc = "stored"])
    <3>1. /\ holders[h].cpc = "idle" /\ holders[h].jobs # <<>>
          /\ \/ holders' = [holders EXCEPT ![h] = [holders[h] EXCEPT !.jobs = <<>>]]
             \/ holders' = [holders EXCEPT ![h] = [holders[h] EXCEPT !.cpc = "stored"]]
      BY <1>6 DEF HolderStore
    <3> QED
      BY <1>0, <3>1, NoJobs DEF Becomes, HolderState
  <2>3. redis' \in [Names -> [meta : Metas, recs : SUBSET Values]]
    <3>1. j \in Job /\ n \in Names /\ holders[h].seq + 1 \in Nat
      BY <1>0, <1>2, <2>1 DEF HolderState
    <3>2. c \in {<<>>} \cup (Nat \X SUBSET Values)
      BY <1>0, <3>1, OutcomeType, HashType DEF HolderState
    <3>3. redis \in [Names -> [meta : Metas, recs : SUBSET Values]]
      BY DEF LTypeOK
    <3>4. Outcome(redis[n].recs, j) \in SUBSET Values
      BY <3>1, <3>3, OutcomeType
    <3>5. Numbered(redis[n].meta, holders[h].seq + 1, c) \in Metas
      BY <3>1, <3>2, <3>3, NumberedType
    <3> HIDE DEF j, n, c
    <3> QED
      BY <2>1, <3>1, <3>3, <3>4, <3>5
  <2> QED
    BY <1>1, <2>1, <2>2, <2>3, BecomesGives DEF LTypeOK
<1> QED
  BY <1>1, <1>3, <1>4, <1>5, <1>6 DEF Holder

(* A job is submitted. *)
LEMMA SubmitStep ==
  ASSUME LTypeOK, Storing, InMap, NEW n \in Names, NEW op \in {"add", "remove"}, NEW v \in Values,
         Submit(n, op, v)
  PROVE  LTypeOK' /\ SameHolders /\ Storing' /\ UNCHANGED <<sets, proc, panic>>
<1> DEFINE h == sets[n]
           j == [op |-> op, v |-> v]
<1>1. /\ UNCHANGED <<defs, redis, sets, proc, ready, epochs, panic, published>>
      /\ holders' = [holders EXCEPT ![h].jobs = <<j>>]
      /\ truth' = [truth EXCEPT ![n][v] = "any"]
      /\ h # 0
  BY DEF Submit
<1>2. h \in DOMAIN holders
  BY <1>1 DEF InMap
<1>3. holders[h] \in HolderState
  BY <1>2, HolderType
<1>4. <<j>> \in Seq(Job) /\ <<j>> # <<>>
  BY DEF Job
<1>5. Becomes(h, [holders[h] EXCEPT !.jobs = <<j>>])
  <2> HIDE DEF h, j
  <2> QED
    BY <1>1, <1>3, <1>4 DEF Becomes, HolderState
<1>6. truth' \in [Names -> [Values -> {"any", "in", "out"}]]
  BY <1>1 DEF LTypeOK
<1> QED
  BY <1>1, <1>2, <1>5, <1>6, BecomesGives DEF LTypeOK

------------------------------------------------------------------------------
(* Steps of a goroutine that leave every holder in its place *)

(* Holders on the way are the same in both states of a goroutine. *)
Alike(x, y) ==
  /\ y.halt = x.halt /\ (Closed(y) <=> Closed(x))
  /\ y.pc = "swap" <=> x.pc = "swap"
  /\ x.pc = "swap" => y.name = x.name /\ y.def = x.def /\ y.h = x.h
  /\ Mounting(y) => Mounting(x) /\ y.h = x.h

(* A step of goroutine p to state y. *)
Goes(p, y) == y \in ProcState /\ Ordered(y) /\ proc' = [proc EXCEPT ![p] = y]

SamePlaces == \A p \in Procs : Alike(proc[p], proc'[p])

(* The state of a goroutine is one. *)
LEMMA ProcType ==
  ASSUME LTypeOK, NEW p \in Procs
  PROVE  proc[p] \in ProcState
  BY DEF LTypeOK

(* Who waits for a holder has one. *)
LEMMA ClosedFirst ==
  ASSUME LTypeOK, Steps, NEW p \in Procs, Closed(proc[p])
  PROVE  1 \in DOMAIN proc[p].halt
<1>1. proc[p].halt \in Seq([h : Nat, wipe : BOOLEAN])
  BY ProcType DEF ProcState
<1>2. proc[p].halt # <<>>
  BY DEF Steps, Ordered
<1> QED
  BY <1>1, <1>2, TailGives

(* A holder stays where it is. *)
LEMMA PlacesKept ==
  ASSUME LTypeOK, Steps, InMap, InMount, InSwap, InHalt, Waits, Placed, OneNamePerId,
         SameHolders, SamePlaces, sets' = sets
  PROVE  (InMap /\ InMount /\ InSwap /\ InHalt /\ Waits /\ Placed /\ OneNamePerId)'
<1>1. InMap'
  BY DEF InMap, SameHolders
<1>2. InMount'
  BY DEF InMount, SameHolders, SamePlaces, Alike
<1>3. \A p \in Procs : \A h : Halts(proc[p], h) <=> Halts(proc'[p], h)
  BY DEF Halts, SamePlaces, Alike
<1>4. InSwap'
  <2>1. SUFFICES ASSUME NEW p \in Procs, proc'[p].pc = "swap"
                 PROVE  LET h == proc'[p].h IN
                        /\ holders'[h].name = proc'[p].name /\ holders'[h].def = proc'[p].def
                        /\ holders'[h].run = "new" /\ ~holders'[h].stop
                        /\ \A n \in Names : sets'[n] # h
                        /\ \A q \in Procs : ~Halts(proc'[q], h)
    BY DEF InSwap, Halts
  <2>2. /\ proc[p].pc = "swap" /\ proc'[p].name = proc[p].name /\ proc'[p].def = proc[p].def
        /\ proc'[p].h = proc[p].h
    BY <2>1 DEF SamePlaces, Alike
  <2>3. Mounting(proc[p])
    BY <2>2 DEF Mounting, Steps, Ordered
  <2>4. proc[p].h \in DOMAIN holders
    BY <2>3 DEF InMount
  <2> QED
    BY <1>3, <2>2, <2>4 DEF InSwap, SameHolders
<1>5. InHalt'
  BY DEF InHalt, SameHolders, SamePlaces, Alike
<1>6. Placed'
  <2>1. SUFFICES ASSUME NEW h \in DOMAIN holders', ~holders'[h].stop,
                        \A n \in Names : sets[n] # h, \A p \in Procs : ~Halts(proc'[p], h)
                 PROVE  \E p \in Procs : proc'[p].pc = "swap" /\ proc'[p].h = h
    BY DEF Placed, Halts
  <2>2. PICK p \in Procs : proc[p].pc = "swap" /\ proc[p].h = h
    BY <1>3, <2>1 DEF Placed, SameHolders
  <2> QED
    BY <2>2 DEF SamePlaces, Alike
<1>7. OneNamePerId'
  BY DEF OneNamePerId, InMap, SameHolders
<1>8. Waits'
  <2>1. SUFFICES ASSUME NEW p \in Procs, Closed(proc'[p])
                 PROVE  holders'[proc'[p].halt[1].h].stop = TRUE
    BY DEF Waits, Closed
  <2>2. Closed(proc[p]) /\ proc'[p].halt = proc[p].halt
    BY <2>1 DEF SamePlaces, Alike
  <2>3. 1 \in DOMAIN proc[p].halt
    BY <2>2, ClosedFirst
  <2>4. proc[p].halt[1].h \in DOMAIN holders
    BY <2>3 DEF InHalt
  <2> QED
    BY <2>2, <2>4 DEF Waits, SameHolders
<1> QED
  BY <1>1, <1>2, <1>4, <1>5, <1>6, <1>7, <1>8

(* A goroutine that does nothing. *)
LEMMA IdleType == NoMeta \in Metas /\ Idle \in ProcState /\ Ordered(Idle) /\ Idle.halt = <<>>
<1>1. NoMeta \in Metas
  BY DEF NoMeta, Metas
<1>2. /\ <<>> \in Seq([name : Names, def : Def \cup {None}])
      /\ <<>> \in Seq([h : Nat, wipe : BOOLEAN])
  OBVIOUS
<1>3. Idle \in ProcState
  BY <1>1, <1>2 DEF Idle, ProcState
<1>4. Idle.pc = "idle" /\ Idle.halt = <<>>
  BY DEF Idle
<1> QED
  BY <1>1, <1>3, <1>4 DEF Ordered, Closed

LEMMA GoesGives ==
  ASSUME LTypeOK, Steps, NEW p \in Procs, NEW y, Goes(p, y)
  PROVE  /\ proc' \in [Procs -> ProcState] /\ Steps'
         /\ proc'[p] = y /\ \A q \in Procs : q # p => proc'[q] = proc[q]
         /\ Alike(proc[p], y) => SamePlaces
<1>1. proc \in [Procs -> ProcState]
  BY DEF LTypeOK
<1>2. y \in ProcState /\ Ordered(y) /\ proc' = [proc EXCEPT ![p] = y]
  BY DEF Goes
<1>3. /\ proc' \in [Procs -> ProcState]
      /\ proc'[p] = y /\ \A q \in Procs : q # p => proc'[q] = proc[q]
  BY <1>1, <1>2
<1>4. Steps'
  <2>1. \A q \in Procs : Ordered(proc'[q])
    BY <1>2, <1>3 DEF Steps
  <2> QED
    BY <2>1 DEF Steps, Ordered, Closed
<1>5. \A q \in Procs : Alike(proc[q], proc[q])
  BY DEF Alike
<1>6. ASSUME Alike(proc[p], y) PROVE SamePlaces
  BY <1>3, <1>5, <1>6 DEF SamePlaces
<1> QED
  BY <1>3, <1>4, <1>6

(* A request begins. *)
LEMMA ServeGoes ==
  ASSUME LTypeOK, Steps, NEW p \in Procs, NEW op \in {"start", "define", "reload"},
         NEW list \in Seq([name : Names, def : Def \cup {None}]),
         proc[p].pc = "idle", Serve(p, op, list)
  PROVE  \E y : Goes(p, y) /\ Alike(proc[p], y)
<1> DEFINE s == {e.name : e \in ToSet(list)}
           y == [Idle EXCEPT !.op = op, !.pc = "next", !.list = list, !.seen = s]
<1>1. proc' = [proc EXCEPT ![p] = y]
  BY DEF Serve
<1>2. s \in SUBSET Names
  <2>1. \A i \in DOMAIN list : list[i] \in [name : Names, def : Def \cup {None}]
    BY ElementsGive
  <2> QED
    BY <2>1 DEF ToSet
<1> HIDE DEF s
<1>3. y \in ProcState /\ y.pc = "next" /\ y.halt = <<>>
  BY <1>2, IdleType DEF ProcState
<1> HIDE DEF y
<1>4. proc[p].halt = <<>>
  BY DEF Steps, Ordered
<1>5. Ordered(y) /\ Alike(proc[p], y)
  BY <1>3, <1>4 DEF Ordered, Alike, Closed, Mounting
<1> QED
  BY <1>1, <1>3, <1>5 DEF Goes

(* The steps of a goroutine that change nothing but its own state. *)
LEMMA AloneGoes ==
  ASSUME LTypeOK, Steps, InMap, NEW p \in Procs,
         \/ ServeNext(p) \/ ReloadGone(p) \/ ReloadEnd(p)
         \/ MountGet(p) \/ MountMeta(p) \/ MountRecords(p) \/ DropEnd(p)
  PROVE  /\ UNCHANGED <<defs, redis, sets, holders, ready, epochs, panic, truth, published>>
         /\ \E y : Goes(p, y) /\ Alike(proc[p], y)
<1>0. proc[p] \in ProcState /\ Ordered(proc[p])
  BY ProcType DEF Steps
<1>a. UNCHANGED <<defs, redis, sets, holders, ready, epochs, panic, truth, published>>
  BY DEF ServeNext, ReloadGone, ReloadEnd, MountGet, MountMeta, MountRecords, DropEnd, history
<1>1. CASE ServeNext(p)
  <2> DEFINE e == Head(proc[p].list)
             t == Tail(proc[p].list)
             c == IF e.def = None THEN "drop" ELSE "mount"
             y == [proc[p] EXCEPT !.name = e.name, !.def = e.def, !.list = t, !.pc = c]
  <2>1. proc[p].pc = "next" /\ proc[p].list # <<>> /\ proc' = [proc EXCEPT ![p] = y]
    BY <1>1 DEF ServeNext
  <2>2. e.name \in Names /\ e.def \in Def \cup {None}
        /\ t \in Seq([name : Names, def : Def \cup {None}])
    <3>1. proc[p].list \in Seq([name : Names, def : Def \cup {None}])
      BY <1>0 DEF ProcState
    <3>2. e \in [name : Names, def : Def \cup {None}]
          /\ t \in Seq([name : Names, def : Def \cup {None}])
      BY <2>1, <3>1, TailGives
    <3> QED
      BY <3>2
  <2>3. c \in {"drop", "mount"} /\ (c = "mount" <=> e.def # None)
    OBVIOUS
  <2> HIDE DEF e, t, c
  <2>4. y \in ProcState
    BY <1>0, <2>2, <2>3 DEF ProcState
  <2>5. y.pc = c /\ y.halt = proc[p].halt /\ y.name = e.name /\ y.def = e.def
    BY <1>0 DEF ProcState
  <2> HIDE DEF y
  <2>6. Ordered(y) /\ Alike(proc[p], y)
    BY <1>0, <2>1, <2>2, <2>3, <2>5 DEF Ordered, Alike, Closed, Mounting
  <2> QED
    BY <1>a, <2>1, <2>4, <2>6 DEF Goes
<1>2. CASE ReloadGone(p)
  <2> DEFINE A == {m \in Names : sets[m] # 0 /\ m \notin proc[p].seen}
  <2>1. PICK list \in SetToSeqs({[name |-> n, def |-> None] : n \in A}) :
               proc' = [proc EXCEPT ![p].list = list, ![p].swept = TRUE]
    BY <1>2 DEF ReloadGone
  <2>2. list \in Seq([name : Names, def : Def \cup {None}]) /\ proc[p].pc = "next"
    BY <1>2, GoneGive DEF ReloadGone
  <2> DEFINE y == [proc[p] EXCEPT !.list = list, !.swept = TRUE]
  <2>3. proc' = [proc EXCEPT ![p] = y]
    BY <2>1
  <2>4. y \in ProcState
    BY <1>0, <2>2 DEF ProcState
  <2>5. y.pc = "next" /\ y.halt = proc[p].halt
    BY <1>0, <2>2 DEF ProcState
  <2> HIDE DEF y
  <2>6. Ordered(y) /\ Alike(proc[p], y)
    BY <1>0, <2>2, <2>5 DEF Ordered, Alike, Closed, Mounting
  <2> QED
    BY <1>a, <2>3, <2>4, <2>6 DEF Goes
<1>3. CASE ReloadEnd(p)
  <2>1. proc[p].pc = "next" /\ proc' = [proc EXCEPT ![p] = Idle]
    BY <1>3 DEF ReloadEnd
  <2>2. Alike(proc[p], Idle)
    BY <1>0, <2>1, IdleType DEF Ordered, Alike, Closed, Mounting, Idle
  <2> QED
    BY <1>a, <2>1, <2>2, IdleType DEF Goes
<1>4. CASE MountGet(p)
  <2>1. PICK c \in {"next", "meta"} : proc' = [proc EXCEPT ![p].pc = c]
    BY <1>4 DEF MountGet, Goto
  <2>2. proc[p].pc = "mount"
    BY <1>4 DEF MountGet
  <2> DEFINE y == [proc[p] EXCEPT !.pc = c]
  <2>3. y \in ProcState /\ y.pc = c /\ y.halt = proc[p].halt /\ y.def = proc[p].def
        /\ y.name = proc[p].name
    BY <1>0 DEF ProcState
  <2>4. Ordered(y) /\ Alike(proc[p], y)
    BY <1>0, <2>2, <2>3 DEF Ordered, Alike, Closed, Mounting
  <2> QED
    BY <1>a, <2>1, <2>3, <2>4 DEF Goes
<1>5. CASE MountMeta(p)
  <2> DEFINE m == redis[proc[p].name].meta
             c == IF m.tag = "none" THEN "reset" ELSE "recs"
             y == [proc[p] EXCEPT !.meta = m, !.recs = {}, !.pc = c]
  <2>1. proc[p].pc = "meta" /\ proc' = [proc EXCEPT ![p] = y]
    BY <1>5 DEF MountMeta
  <2>2. m \in Metas
    BY <1>0, <2>1 DEF Ordered, LTypeOK
  <2>3. c \in {"reset", "recs"}
    OBVIOUS
  <2> HIDE DEF m, c
  <2>4. y \in ProcState /\ y.pc = c /\ y.halt = proc[p].halt /\ y.def = proc[p].def
        /\ y.name = proc[p].name
    BY <1>0, <2>2, <2>3 DEF ProcState
  <2> HIDE DEF y
  <2>5. Ordered(y) /\ Alike(proc[p], y)
    BY <1>0, <2>1, <2>3, <2>4 DEF Ordered, Alike, Closed, Mounting
  <2> QED
    BY <1>a, <2>1, <2>4, <2>5 DEF Goes
<1>6. CASE MountRecords(p)
  <2> DEFINE r == redis[proc[p].name].recs
             y == [proc[p] EXCEPT !.recs = r, !.pc = "reset"]
  <2>1. proc[p].pc = "recs" /\ proc' = [proc EXCEPT ![p] = y]
    BY <1>6 DEF MountRecords
  <2>2. r \in SUBSET Values
    BY <1>0, <2>1 DEF Ordered, LTypeOK
  <2> HIDE DEF r
  <2>4. y \in ProcState /\ y.pc = "reset" /\ y.halt = proc[p].halt /\ y.def = proc[p].def
        /\ y.name = proc[p].name
    BY <1>0, <2>2 DEF ProcState
  <2> HIDE DEF y
  <2>5. Ordered(y) /\ Alike(proc[p], y)
    BY <1>0, <2>1, <2>4 DEF Ordered, Alike, Closed, Mounting
  <2> QED
    BY <1>a, <2>1, <2>4, <2>5 DEF Goes
<1>7. CASE DropEnd(p)
  <2> DEFINE y == [proc[p] EXCEPT !.pc = "next"]
  <2>1. /\ proc[p].pc = "halt" /\ proc[p].def = None /\ proc[p].halt = <<>>
        /\ proc' = [proc EXCEPT ![p] = y]
    BY <1>7 DEF DropEnd, Goto
  <2>4. y \in ProcState /\ y.pc = "next" /\ y.halt = <<>>
    BY <1>0, <2>1 DEF ProcState
  <2> HIDE DEF y
  <2>5. Ordered(y) /\ Alike(proc[p], y)
    BY <1>0, <2>1, <2>4 DEF Ordered, Alike, Closed, Mounting
  <2> QED
    BY <1>a, <2>1, <2>4, <2>5 DEF Goes
<1> QED
  BY <1>1, <1>2, <1>3, <1>4, <1>5, <1>6, <1>7

(* What the invariant says of holders and their places. *)
Places == Steps /\ Storing /\ InMap /\ InMount /\ InSwap /\ InHalt /\ Waits /\ Placed
          /\ OneNamePerId

(* A step of a goroutine that moves no holder. *)
LEMMA QuietStep ==
  ASSUME LTypeOK, Places, NEW p \in Procs, UNCHANGED <<sets, holders>>,
         \E y : Goes(p, y) /\ Alike(proc[p], y)
  PROVE  Places' /\ proc' \in [Procs -> ProcState]
<1>1. PICK y : Goes(p, y) /\ Alike(proc[p], y)
  OBVIOUS
<1>2. proc' \in [Procs -> ProcState] /\ Steps' /\ SamePlaces
  BY <1>1, GoesGives DEF Places
<1>3. SameHolders /\ Storing'
  BY DEF SameHolders, Storing, Places
<1> QED
  BY <1>2, <1>3, PlacesKept DEF Places

(* A step of a holder that stays where it is. *)
LEMMA StillStep ==
  ASSUME LTypeOK, Places, SameHolders, Storing', UNCHANGED <<sets, proc>>
  PROVE  Places'
<1>1. SamePlaces
  BY DEF SamePlaces, Alike
<1>2. Steps'
  BY DEF Places, Steps, Ordered, Closed
<1> QED
  BY <1>1, <1>2, PlacesKept DEF Places

(* After the end of a process there is nothing. *)
LEMMA DieGives ==
  ASSUME Die
  PROVE  /\ Places'
         /\ sets' \in [Names -> Nat] /\ holders' \in Seq(HolderState)
         /\ proc' \in [Procs -> ProcState] /\ ready' \in BOOLEAN
<1>1. /\ sets' = [n \in Names |-> 0] /\ holders' = <<>> /\ ready' = FALSE
      /\ proc' = [p \in Procs |-> Idle]
  BY DEF Die
<1>2. /\ \A n \in Names : sets'[n] = 0
      /\ DOMAIN holders' = {} /\ holders' \in Seq(HolderState)
      /\ \A p \in Procs : proc'[p] = Idle
      /\ DOMAIN <<>> = {}
  BY <1>1
<1>3. Idle.pc = "idle" /\ Idle.halt = <<>>
  BY DEF Idle
<1>4. Steps'
  <2>1. \A p \in Procs : Ordered(proc'[p])
    BY <1>2, IdleType
  <2> QED
    BY <2>1 DEF Steps, Ordered, Closed
<1>5. Storing' /\ InMap' /\ Placed' /\ OneNamePerId'
  BY <1>2 DEF Storing, InMap, Placed, OneNamePerId
<1>6. InMount' /\ InSwap' /\ InHalt' /\ Waits'
  BY <1>2, <1>3 DEF InMount, InSwap, InHalt, Waits, Mounting, Closed
<1>7. sets' \in [Names -> Nat] /\ proc' \in [Procs -> ProcState] /\ ready' \in BOOLEAN
  BY <1>1, IdleType
<1> QED
  BY <1>2, <1>4, <1>5, <1>6, <1>7 DEF Places

(* A mount fails. *)
LEMMA ErrorGives ==
  ASSUME LTypeOK, Places, NEW p \in Procs, proc[p].pc \in {"meta", "recs", "reset"}, MountError(p)
  PROVE  /\ Places'
         /\ sets' \in [Names -> Nat] /\ holders' \in Seq(HolderState)
         /\ proc' \in [Procs -> ProcState] /\ ready' \in BOOLEAN
<1>1. CASE Die
  BY <1>1, DieGives
<1>2. CASE proc' = [proc EXCEPT ![p] = Idle] /\ UNCHANGED <<sets, holders, ready>>
  <2>1. Ordered(proc[p])
    BY DEF Places, Steps
  <2>2. Alike(proc[p], Idle)
    BY <2>1, IdleType DEF Ordered, Alike, Closed, Mounting, Idle
  <2>3. Places' /\ proc' \in [Procs -> ProcState]
    BY <1>2, <2>2, IdleType, QuietStep DEF Goes
  <2> QED
    BY <1>2, <2>3 DEF LTypeOK
<1> QED
  BY <1>1, <1>2 DEF MountError

(* The ends of requests, and a store call that fails. *)
LEMMA EndStep ==
  ASSUME LTypeOK, Places, StoppedOnce, NEW p \in Procs,
         StartEnd(p) \/ DefineEnd(p) \/ MountFails(p)
  PROVE  LTypeOK' /\ Places' /\ StoppedOnce'
<1>0. Ordered(proc[p])
  BY DEF Places, Steps
<1>1. ASSUME proc[p].pc = "next", proc' = [proc EXCEPT ![p] = Idle], UNCHANGED <<sets, holders>>
      PROVE  Places' /\ proc' \in [Procs -> ProcState]
  <2>1. Alike(proc[p], Idle)
    BY <1>0, <1>1, IdleType DEF Ordered, Alike, Closed, Mounting, Idle
  <2> QED
    BY <1>1, <2>1, IdleType, QuietStep DEF Goes
<1>2. CASE StartEnd(p)
  <2>1. /\ UNCHANGED <<defs, redis, sets, holders, epochs, panic, truth, published>>
        /\ ready' = TRUE /\ proc[p].pc = "next" /\ proc' = [proc EXCEPT ![p] = Idle]
    BY <1>2 DEF StartEnd, history
  <2> QED
    BY <1>1, <2>1 DEF LTypeOK, StoppedOnce
<1>3. CASE DefineEnd(p)
  <2>1. CASE Panic("nil holder")
    <3>1. /\ UNCHANGED <<defs, redis, epochs, truth, published>>
          /\ panic' = "nil holder" /\ Die
      BY <2>1 DEF Panic, history
    <3> QED
      BY <3>1, DieGives DEF LTypeOK, StoppedOnce
  <2>2. CASE ~Panic("nil holder")
    <3>1. /\ UNCHANGED <<defs, redis, sets, holders, ready, epochs, panic, truth, published>>
          /\ proc[p].pc = "next" /\ proc' = [proc EXCEPT ![p] = Idle]
      BY <1>3, <2>2 DEF DefineEnd, history
    <3> QED
      BY <1>1, <3>1 DEF LTypeOK, StoppedOnce
  <2> QED
    BY <2>1, <2>2
<1>4. CASE MountFails(p)
  <2>1. /\ UNCHANGED <<defs, redis, epochs, panic, truth, published>>
        /\ proc[p].pc \in {"meta", "recs", "reset"} /\ MountError(p)
    BY <1>4 DEF MountFails, history
  <2> QED
    BY <2>1, ErrorGives DEF LTypeOK, StoppedOnce
<1> QED
  BY <1>2, <1>3, <1>4

------------------------------------------------------------------------------
(* Steps that move holders *)

(* A holder is made. *)
LEMMA MadeStep ==
  ASSUME LTypeOK, Places, NEW p \in Procs, proc[p].pc = "reset", sets' = sets,
         NEW x \in HolderState, holders' = Append(holders, x),
         x.name = proc[p].name, x.def = proc[p].def, x.run = "new", ~x.stop, x.cpc = "idle",
         proc' = [proc EXCEPT ![p].pc = "swap", ![p].h = Len(holders) + 1]
  PROVE  /\ Places' /\ holders' \in Seq(HolderState) /\ proc' \in [Procs -> ProcState]
<1> DEFINE N == Len(holders) + 1
           y == [proc[p] EXCEPT !.pc = "swap", !.h = N]
<1>0. holders \in Seq(HolderState) /\ proc[p] \in ProcState /\ Ordered(proc[p])
  BY ProcType DEF LTypeOK, Places, Steps
<1>1. /\ holders' \in Seq(HolderState)
      /\ DOMAIN holders' = DOMAIN holders \cup {N}
      /\ N \notin DOMAIN holders /\ N \in Nat \ {0}
      /\ \A i \in DOMAIN holders : holders'[i] = holders[i]
      /\ holders'[N] = x
  BY <1>0, AppendGives
<1> HIDE DEF N
<1>2. y \in ProcState /\ y.pc = "swap" /\ y.h = N /\ y.halt = <<>>
      /\ y.name = proc[p].name /\ y.def = proc[p].def
  BY <1>0, <1>1 DEF ProcState, Ordered
<1>3. proc' = [proc EXCEPT ![p] = y]
  BY DEF N
<1> HIDE DEF y
<1>4. Goes(p, y)
  BY <1>0, <1>2, <1>3 DEF Goes, Ordered, Closed
<1>5. /\ proc' \in [Procs -> ProcState] /\ Steps'
      /\ proc'[p] = y /\ \A q \in Procs : q # p => proc'[q] = proc[q]
  BY <1>4, GoesGives DEF Places
<1>6. proc[p].halt = <<>> /\ DOMAIN <<>> = {}
  BY <1>0 DEF Ordered
<1>7. \A n \in Names : sets[n] # N
  BY <1>1 DEF Places, InMap
<1>8. \A q \in Procs : \A h : Halts(proc'[q], h) <=> Halts(proc[q], h)
  BY <1>2, <1>5, <1>6 DEF Halts
<1>9. \A q \in Procs : ~Halts(proc[q], N)
  BY <1>1 DEF Halts, Places, InHalt
<1>10. Storing' /\ InMap' /\ OneNamePerId'
  BY <1>1 DEF Places, Storing, InMap, OneNamePerId
<1>11. InMount'
  BY <1>1, <1>2, <1>5 DEF Places, InMount, Mounting
<1>12. InSwap'
  <2>1. SUFFICES ASSUME NEW q \in Procs, proc'[q].pc = "swap"
                 PROVE  LET h == proc'[q].h IN
                        /\ holders'[h].name = proc'[q].name /\ holders'[h].def = proc'[q].def
                        /\ holders'[h].run = "new" /\ ~holders'[h].stop
                        /\ \A n \in Names : sets'[n] # h
                        /\ \A r \in Procs : ~Halts(proc'[r], h)
    BY DEF InSwap, Halts
  <2>2. CASE q = p
    BY <1>1, <1>2, <1>5, <1>7, <1>8, <1>9, <2>2
  <2>3. CASE q # p
    <3>1. proc'[q] = proc[q] /\ Mounting(proc[q])
      BY <1>5, <2>1, <2>3 DEF Mounting, Places, Steps, Ordered
    <3>2. proc[q].h \in DOMAIN holders
      BY <3>1 DEF Places, InMount
    <3> QED
      BY <1>1, <1>8, <2>1, <3>1, <3>2 DEF Places, InSwap
  <2> QED
    BY <2>2, <2>3
<1>13. InHalt'
  <2>1. \A q \in Procs : proc'[q].halt = proc[q].halt
    BY <1>2, <1>5, <1>6
  <2>2. SUFFICES ASSUME NEW q \in Procs, NEW i \in DOMAIN proc'[q].halt
                 PROVE  LET h == proc'[q].halt[i].h IN
                        /\ h \in DOMAIN holders'
                        /\ holders'[h].stop => Closed(proc'[q]) /\ i = 1
                        /\ \A n \in Names : sets'[n] # h
                        /\ \A r \in Procs : \A j \in DOMAIN proc'[r].halt :
                             proc'[r].halt[j].h = h => r = q /\ i = j
    BY DEF InHalt, Closed
  <2>3. proc'[q] = proc[q]
    BY <1>5, <1>6, <2>1, <2>2
  <2> DEFINE k == proc[q].halt[i].h
  <2>4. /\ k \in DOMAIN holders
        /\ holders[k].stop => Closed(proc[q]) /\ i = 1
        /\ \A n \in Names : sets[n] # k
        /\ \A r \in Procs : \A j \in DOMAIN proc[r].halt :
             proc[r].halt[j].h = k => r = q /\ i = j
    BY <2>2, <2>3 DEF Places, InHalt
  <2>5. proc'[q].halt[i].h = k
    BY <2>3
  <2> HIDE DEF k
  <2> QED
    BY <1>1, <2>1, <2>3, <2>4, <2>5
<1>14. Placed'
  <2>1. SUFFICES ASSUME NEW h \in DOMAIN holders', ~holders'[h].stop,
                        \A n \in Names : sets[n] # h, \A q \in Procs : ~Halts(proc'[q], h)
                 PROVE  \E q \in Procs : proc'[q].pc = "swap" /\ proc'[q].h = h
    BY DEF Placed, Halts
  <2>2. CASE h = N
    BY <1>2, <1>5, <2>2
  <2>3. CASE h # N
    <3>1. PICK q \in Procs : proc[q].pc = "swap" /\ proc[q].h = h
      BY <1>1, <1>8, <2>1, <2>3 DEF Places, Placed
    <3> QED
      BY <1>5, <3>1
  <2> QED
    BY <2>2, <2>3
<1>15. Waits'
  <2>1. SUFFICES ASSUME NEW q \in Procs, Closed(proc'[q])
                 PROVE  holders'[proc'[q].halt[1].h].stop = TRUE
    BY DEF Waits, Closed
  <2>2. proc'[q] = proc[q] /\ Closed(proc[q])
    BY <1>2, <1>5, <2>1 DEF Closed
  <2>3. 1 \in DOMAIN proc[q].halt
    BY <2>2, ClosedFirst DEF Places
  <2>4. proc[q].halt[1].h \in DOMAIN holders
    BY <2>3 DEF Places, InHalt
  <2> QED
    BY <1>1, <2>2, <2>4 DEF Places, Waits
<1> QED
  BY <1>1, <1>5, <1>10, <1>11, <1>12, <1>13, <1>14, <1>15 DEF Places

(* mount stores the meta and makes a holder, or fails. *)
LEMMA ResetStep ==
  ASSUME LTypeOK, Places, StoppedOnce, NEW p \in Procs, MountReset(p)
  PROVE  LTypeOK' /\ Places' /\ StoppedOnce'
<1> DEFINE x      == proc[p]
           keep   == x.meta.tag = "bad" \/ (x.meta.tag = "good" /\ SameSet(x.meta, x.def))
           resume == keep /\ x.op # "define" /\ x.meta.tag # "bad" /\ Resumes(x)
           epoch  == IF resume THEN x.meta.epoch ELSE epochs + 1
           seq    == IF resume THEN x.meta.seq ELSE Seq0(epochs + 1)
           mem    == IF keep THEN x.recs ELSE {}
           h      == [name |-> x.name, def |-> x.def, epoch |-> epoch, seq |-> seq, mem |-> mem,
                      jobs |-> <<>>, cpc |-> "idle", run |-> "new", stop |-> FALSE]
           meta   == [tag |-> "good", id |-> x.def.id, type |-> x.def.type, epoch |-> epoch,
                      seq |-> seq, hash |-> Hash(epoch, mem)]
<1>0. x \in ProcState /\ x.pc = "reset" /\ x.name \in Names /\ x.def \in Def
  <2>1. x \in ProcState /\ Ordered(x)
    BY ProcType DEF Places, Steps
  <2>2. x.pc = "reset"
    BY DEF MountReset
  <2> QED
    BY <2>1, <2>2 DEF Ordered, ProcState
<1>1. /\ epochs' = IF resume THEN epochs ELSE epochs + 1
      /\ Reset(x.name, meta, keep)
      /\ truth' = IF keep THEN truth ELSE [truth EXCEPT ![x.name] = Unknown]
      /\ \/ /\ holders' = Append(holders, h)
            /\ proc' = [proc EXCEPT ![p].pc = "swap", ![p].h = Len(holders) + 1]
            /\ UNCHANGED <<sets, ready>>
         \/ MountError(p)
      /\ UNCHANGED <<defs, panic, published>>
  BY DEF MountReset
<1>2. epoch \in Nat /\ seq \in Nat /\ mem \in SUBSET Values
  <2>1. epochs \in Nat /\ x.meta \in Metas /\ x.recs \in SUBSET Values
    BY <1>0 DEF LTypeOK, ProcState
  <2>2. x.meta.epoch \in Nat /\ x.meta.seq \in Nat
    BY <2>1 DEF Metas
  <2>3. MaxWrites \in Nat /\ epochs + 1 \in Nat
    BY <2>1, LifecycleAssumption
  <2>4. \A a, b \in Nat : a * (b + 1) \in Nat
    OBVIOUS
  <2>5. Seq0(epochs + 1) \in Nat
    BY <2>3, <2>4 DEF Seq0
  <2> QED
    BY <2>1, <2>2, <2>3, <2>5
<1> HIDE DEF epoch, seq, mem, keep, resume
<1>3. Hash(epoch, mem) \in {<<>>} \cup (Nat \X SUBSET Values)
  BY <1>2, HashType
<1>4. epochs' \in Nat
  <2>1. epochs \in Nat /\ (epochs' = epochs \/ epochs' = epochs + 1)
    BY <1>1 DEF LTypeOK
  <2> QED
    BY <2>1
<1>5. truth' \in [Names -> [Values -> {"any", "in", "out"}]]
  <2>1. Unknown \in [Values -> {"any", "in", "out"}]
    BY DEF Unknown
  <2>2. truth \in [Names -> [Values -> {"any", "in", "out"}]]
    BY DEF LTypeOK
  <2> QED
    BY <1>1, <2>1, <2>2
<1>6. h \in HolderState /\ h.name = x.name /\ h.def = x.def /\ h.run = "new" /\ ~h.stop
      /\ h.cpc = "idle"
  BY <1>0, <1>2, NoJobs DEF HolderState
<1>7. redis' \in [Names -> [meta : Metas, recs : SUBSET Values]]
  <2>1. meta \in Metas
    BY <1>0, <1>2, <1>3 DEF Metas, Def
  <2>2. redis \in [Names -> [meta : Metas, recs : SUBSET Values]]
    BY DEF LTypeOK
  <2> DEFINE r == IF keep THEN redis[x.name].recs ELSE {}
  <2>3. r \in SUBSET Values
    BY <1>0, <2>2
  <2>4. redis' = [redis EXCEPT ![x.name] = [meta |-> meta, recs |-> r]]
    BY <1>1 DEF Reset
  <2> HIDE DEF meta, r
  <2> QED
    BY <1>0, <2>1, <2>2, <2>3, <2>4
<1> HIDE DEF h, meta
<1>8. CASE /\ holders' = Append(holders, h)
           /\ proc' = [proc EXCEPT ![p].pc = "swap", ![p].h = Len(holders) + 1]
           /\ UNCHANGED <<sets, ready>>
  <2>1. Places' /\ holders' \in Seq(HolderState) /\ proc' \in [Procs -> ProcState]
    BY <1>0, <1>6, <1>8, MadeStep
  <2> QED
    BY <1>1, <1>4, <1>5, <1>7, <1>8, <2>1 DEF LTypeOK, StoppedOnce
<1>9. CASE MountError(p)
  BY <1>0, <1>1, <1>4, <1>5, <1>7, <1>9, ErrorGives DEF LTypeOK, StoppedOnce
<1> QED
  BY <1>1, <1>8, <1>9

(* The holders that lose their place to x, in some order. *)
LEMMA LosersGive ==
  ASSUME LTypeOK, InMap, NEW x \in ProcState, x.name \in Names,
         NEW others \in SetToSeqs({[h |-> sets[n], wipe |-> TRUE] : n \in Renamed(x)})
  PROVE  LET list  == Replaced(x) \o others
             names == {n \in Names : sets[n] # 0 /\ (n = x.name \/ n \in Renamed(x))}
         IN /\ list \in Seq([h : Nat, wipe : BOOLEAN])
            /\ \A i \in DOMAIN list : \E n \in names : list[i].h = sets[n]
            /\ \A n \in names : \E i \in DOMAIN list : list[i].h = sets[n]
            /\ \A i, j \in DOMAIN list : list[i].h = list[j].h => i = j
<1> DEFINE R == Renamed(x)
           g == [n \in R |-> [h |-> sets[n], wipe |-> TRUE]]
           L == {g[n] : n \in R}
           E == [h : Nat, wipe : BOOLEAN]
           old == Replaced(x)
           list == old \o others
<1>1. R \subseteq Names \ {x.name} /\ \A n \in R : sets[n] # 0
  BY DEF Renamed
<1>2. IsFiniteSet(R)
  BY <1>1, LifecycleAssumption, FS_Subset
<1> HIDE DEF R
<1>3. L = {[h |-> sets[n], wipe |-> TRUE] : n \in R} /\ IsFiniteSet(L)
  BY <1>2, ImageFinite
<1>4. others \in SetToSeqs(L)
  BY <1>3 DEF R
<1>5. \A n \in Names : sets[n] \in Nat
  BY DEF LTypeOK
<1>6. \A l \in L : l \in E /\ \E n \in R : l.h = sets[n] /\ l = [h |-> sets[n], wipe |-> TRUE]
  <2>1. TAKE l \in L
  <2>2. PICK n \in R : l = [h |-> sets[n], wipe |-> TRUE]
    BY <1>3
  <2>3. sets[n] \in Nat
    BY <1>1, <1>5
  <2> QED
    BY <2>2, <2>3
<1>7. \A m, n \in Names : sets[m] # 0 /\ sets[m] = sets[n] => m = n
  BY DEF InMap
<1> HIDE DEF L, E
<1>8. /\ others \in Seq(L)
      /\ \A i, j \in DOMAIN others : others[i] = others[j] => i = j
      /\ \A l \in L : \E i \in DOMAIN others : others[i] = l
  BY <1>3, <1>4, OrdersGive
<1>9. \A i \in DOMAIN others : others[i] \in L
  BY <1>8, ElementsGive
<1>10. others \in Seq(E)
  <2>1. L \subseteq E
    BY <1>6
  <2> QED
    BY <1>8, <2>1
<1>11. /\ old \in Seq(E)
       /\ \A i \in DOMAIN old : i = 1 /\ old[i].h = sets[x.name] /\ sets[x.name] # 0
       /\ sets[x.name] # 0 => 1 \in DOMAIN old /\ old[1].h = sets[x.name]
  <2>1. CASE sets[x.name] = 0
    BY <2>1 DEF Replaced
  <2>2. CASE sets[x.name] # 0
    <3> DEFINE e == [h |-> sets[x.name], wipe |-> FALSE]
    <3>1. old = <<e>> /\ e \in E /\ e.h = sets[x.name]
      BY <1>5, <2>2 DEF Replaced, E
    <3> HIDE DEF e, old
    <3> QED
      BY <2>2, <3>1
  <2> QED
    BY <2>1, <2>2
<1> HIDE DEF old
<1>12. /\ list \in Seq(E)
       /\ \A i \in DOMAIN old : i \in DOMAIN list /\ list[i] = old[i]
       /\ \A i \in DOMAIN others : Len(old) + i \in DOMAIN list /\ list[Len(old) + i] = others[i]
       /\ \A i \in DOMAIN list : i \in DOMAIN old \/ i - Len(old) \in DOMAIN others
       /\ Len(old) \in Nat /\ DOMAIN old = 1..Len(old) /\ DOMAIN others = 1..Len(others)
  BY <1>10, <1>11, ConcatGives
<1>13. \A i \in DOMAIN list : i \in Nat
  BY <1>12
<1> HIDE DEF list
<1>14. \A i \in DOMAIN list : i \in DOMAIN old \/
          (i - Len(old) \in DOMAIN others /\ list[i] = others[i - Len(old)])
  <2>1. SUFFICES ASSUME NEW i \in DOMAIN list, i - Len(old) \in DOMAIN others
                 PROVE  list[i] = others[i - Len(old)]
    BY <1>12
  <2>2. Len(old) + (i - Len(old)) = i
    BY <1>12, <1>13
  <2> QED
    BY <1>12, <2>1, <2>2
<1>15. \A i \in DOMAIN list : \E n \in R \cup {x.name} : sets[n] # 0 /\ list[i].h = sets[n]
         /\ (i \in DOMAIN old <=> n = x.name)
  <2>1. TAKE i \in DOMAIN list
  <2>2. CASE i \in DOMAIN old
    BY <1>11, <1>12, <2>2
  <2>3. CASE i \notin DOMAIN old
    <3>1. PICK n \in R : others[i - Len(old)].h = sets[n]
      BY <1>6, <1>9, <1>14, <2>3
    <3> QED
      BY <1>1, <1>14, <2>3, <3>1
  <2> QED
    BY <2>2, <2>3
<1>16. \A n \in R : \E i \in DOMAIN list : list[i].h = sets[n]
  <2>1. TAKE n \in R
  <2>2. [h |-> sets[n], wipe |-> TRUE] \in L
    BY <1>3 DEF L
  <2>3. PICK i \in DOMAIN others : others[i] = [h |-> sets[n], wipe |-> TRUE]
    BY <1>8, <2>2
  <2> QED
    BY <1>12, <2>3
<1>17. ASSUME NEW i \in DOMAIN list, NEW j \in DOMAIN list, list[i].h = list[j].h PROVE i = j
  <2>1. PICK m \in R \cup {x.name} : sets[m] # 0 /\ list[i].h = sets[m]
                                     /\ (i \in DOMAIN old <=> m = x.name)
    BY <1>15
  <2>2. PICK n \in R \cup {x.name} : sets[n] # 0 /\ list[j].h = sets[n]
                                     /\ (j \in DOMAIN old <=> n = x.name)
    BY <1>15
  <2>3. m = n
    BY <1>1, <1>7, <1>17, <2>1, <2>2
  <2>4. CASE m = x.name
    BY <1>11, <2>1, <2>2, <2>3, <2>4
  <2>5. CASE m # x.name
    <3> DEFINE a == i - Len(old)
               b == j - Len(old)
    <3>1. /\ a \in DOMAIN others /\ list[i] = others[a]
          /\ b \in DOMAIN others /\ list[j] = others[b]
      BY <1>14, <2>1, <2>2, <2>3, <2>5
    <3>2. others[a] = others[b]
      <4>1. others[a] \in L /\ others[b] \in L
        BY <1>9, <3>1
      <4>2. PICK s \in R : others[a] = [h |-> sets[s], wipe |-> TRUE]
        BY <1>6, <4>1
      <4>3. PICK t \in R : others[b] = [h |-> sets[t], wipe |-> TRUE]
        BY <1>6, <4>1
      <4>4. others[a].h = others[b].h
        BY <1>17, <3>1
      <4>5. sets[s] = sets[t]
        BY <4>2, <4>3, <4>4
      <4> QED
        BY <4>2, <4>3, <4>5
    <3>3. a = b
      BY <1>8, <3>1, <3>2
    <3> QED
      BY <1>12, <1>13, <3>3
  <2> QED
    BY <2>4, <2>5
<1>18. list = Replaced(x) \o others /\ R = Renamed(x)
  BY DEF list, old, R
<1>19. list \in Seq([h : Nat, wipe : BOOLEAN])
  BY <1>12 DEF E
<1>20. /\ sets[x.name] # 0 => \E i \in DOMAIN list : list[i].h = sets[x.name]
  BY <1>11, <1>12
<1> DEFINE names == {n \in Names : sets[n] # 0 /\ (n = x.name \/ n \in R)}
<1>21. \A i \in DOMAIN list : \E n \in names : list[i].h = sets[n]
  BY <1>1, <1>15
<1>22. \A n \in names : \E i \in DOMAIN list : list[i].h = sets[n]
  BY <1>16, <1>20
<1>23. \A i, j \in DOMAIN list : list[i].h = list[j].h => i = j
  BY <1>17
<1> QED
  BY <1>18, <1>19, <1>21, <1>22, <1>23, Zenon

(* Under k.mu the holders of the names in S lose their place, and goroutine p has them   *)
(* to stop; the one it has made takes its place in a mount.                              *)
LEMMA LoseStep ==
  ASSUME LTypeOK, Places, NEW p \in Procs, NEW S \in SUBSET Names, NEW y, Goes(p, y),
         proc[p].pc \in {"swap", "drop"}, proc[p].name \in S, holders' = holders,
         sets' = [n \in Names |-> IF proc[p].pc = "swap" /\ n = proc[p].name THEN proc[p].h
                                  ELSE IF n \in S THEN 0 ELSE sets[n]],
         y.pc # "swap", ~Closed(y), Mounting(y) => proc[p].pc = "swap" /\ y.h = proc[p].h,
         \A i \in DOMAIN y.halt : \E n \in S : sets[n] # 0 /\ y.halt[i].h = sets[n],
         \A n \in S : sets[n] # 0 => Halts(y, sets[n]),
         \A i, j \in DOMAIN y.halt : y.halt[i].h = y.halt[j].h => i = j,
         proc[p].pc = "swap" => \A n \in Names : n \notin S /\ sets[n] # 0 =>
                                  holders[sets[n]].def.id # proc[p].def.id
  PROVE  Places' /\ proc' \in [Procs -> ProcState]
<1> DEFINE x == proc[p]
<1>0. /\ proc' \in [Procs -> ProcState] /\ Steps'
      /\ proc'[p] = y /\ \A q \in Procs : q # p => proc'[q] = proc[q]
  BY GoesGives DEF Places
<1>1. x.halt = <<>> /\ DOMAIN <<>> = {} /\ Ordered(x)
  BY DEF Places, Steps, Ordered
<1>2. \A n \in Names : /\ x.pc = "swap" /\ n = x.name => sets'[n] = x.h
                       /\ ~(x.pc = "swap" /\ n = x.name) /\ n \in S => sets'[n] = 0
                       /\ n \notin S => sets'[n] = sets[n]
  OBVIOUS
<1>3. /\ \A n \in Names : sets[n] # 0 => sets[n] \in DOMAIN holders /\ holders[sets[n]].name = n
                                         /\ ~holders[sets[n]].stop
      /\ \A m, n \in Names : sets[m] # 0 /\ sets[m] = sets[n] => m = n
  BY DEF Places, InMap
<1>4. x.pc = "swap" => Mounting(x) /\ x.h \in DOMAIN holders
  BY <1>1 DEF Mounting, Ordered, Places, InMount
<1>5. x.pc = "swap" => /\ holders[x.h].name = x.name /\ holders[x.h].def = x.def
                       /\ holders[x.h].run = "new" /\ ~holders[x.h].stop
                       /\ \A n \in Names : sets[n] # x.h
                       /\ \A q \in Procs : ~Halts(proc[q], x.h)
  BY DEF Places, InSwap
<1>6. \A i \in DOMAIN holders : i # 0
  <2>1. holders \in Seq(HolderState)
    BY DEF LTypeOK
  <2> QED
    BY <2>1
<1>7. InMap'
  <2>1. SUFFICES ASSUME NEW n \in Names, sets'[n] # 0
                 PROVE  /\ sets'[n] \in DOMAIN holders
                        /\ holders[sets'[n]].name = n /\ ~holders[sets'[n]].stop
    BY DEF InMap
  <2> QED
    BY <1>2, <1>3, <1>4, <1>5, <2>1
<1>8. InMount'
  <2>1. \A q \in Procs : Mounting(proc'[q]) => Mounting(proc[q]) /\ proc'[q].h = proc[q].h
    BY <1>0, <1>4
  <2> QED
    BY <2>1 DEF InMount, Places, Mounting
<1>9. \A q \in Procs : q # p => proc'[q] = proc[q]
  BY <1>0
<1>10. \A k : Halts(y, k) => \E n \in S : sets[n] # 0 /\ k = sets[n]
  BY DEF Halts
<1>11. \A q \in Procs : \A k : q # p => (Halts(proc'[q], k) <=> Halts(proc[q], k))
  BY <1>9
<1>12. \A k : ~Halts(x, k)
  BY <1>1 DEF Halts
<1>13. \A q \in Procs : \A k : Halts(proc[q], k) => \A n \in Names : sets[n] # k
  BY DEF Places, InHalt, Halts
<1>14. \A k, n : Halts(y, k) /\ n \in Names => sets'[n] # k
  <2>1. SUFFICES ASSUME NEW k, NEW n \in Names, Halts(y, k) PROVE sets'[n] # k
    OBVIOUS
  <2>2. PICK m \in S : sets[m] # 0 /\ k = sets[m]
    BY <1>10, <2>1
  <2> QED
    BY <1>2, <1>3, <1>5, <2>2
<1>15. InSwap'
  <2>1. SUFFICES ASSUME NEW q \in Procs, proc'[q].pc = "swap"
                 PROVE  LET k == proc'[q].h IN
                        /\ holders[k].name = proc'[q].name /\ holders[k].def = proc'[q].def
                        /\ holders[k].run = "new" /\ ~holders[k].stop
                        /\ \A n \in Names : sets'[n] # k
                        /\ \A r \in Procs : ~Halts(proc'[r], k)
    BY DEF InSwap, Halts
  <2>2. q # p /\ proc'[q] = proc[q] /\ proc[q].pc = "swap"
    BY <1>0, <2>1
  <2>3. Mounting(proc[q]) /\ proc[q].h \in DOMAIN holders
    BY <2>2 DEF Mounting, Places, Steps, Ordered, InMount
  <2> DEFINE k == proc[q].h
  <2>4. /\ holders[k].name = proc[q].name /\ holders[k].def = proc[q].def
        /\ holders[k].run = "new" /\ ~holders[k].stop
        /\ \A n \in Names : sets[n] # k
        /\ \A r \in Procs : ~Halts(proc[r], k)
    BY <2>2 DEF Places, InSwap
  <2>5. x.pc = "swap" => x.h # k
    BY <1>4, <2>2, <2>3 DEF Places, InMount
  <2>6. \A n \in Names : sets'[n] # k
    BY <1>2, <1>6, <2>3, <2>4, <2>5
  <2>7. \A r \in Procs : ~Halts(proc'[r], k)
    BY <1>0, <1>10, <1>11, <2>4
  <2> QED
    BY <2>2, <2>4, <2>6, <2>7
<1>16. InHalt'
  <2>1. SUFFICES ASSUME NEW q \in Procs, NEW i \in DOMAIN proc'[q].halt
                 PROVE  LET k == proc'[q].halt[i].h IN
                        /\ k \in DOMAIN holders
                        /\ holders[k].stop => Closed(proc'[q]) /\ i = 1
                        /\ \A n \in Names : sets'[n] # k
                        /\ \A r \in Procs : \A j \in DOMAIN proc'[r].halt :
                             proc'[r].halt[j].h = k => r = q /\ i = j
    BY DEF InHalt, Closed
  <2> DEFINE k == proc'[q].halt[i].h
  <2>2. CASE q = p
    <3>1. PICK n \in S : sets[n] # 0 /\ k = sets[n]
      BY <1>0, <2>1, <2>2
    <3>2. k \in DOMAIN holders /\ ~holders[k].stop
      BY <1>3, <3>1
    <3>3. \A m \in Names : sets'[m] # k
      BY <1>0, <1>14, <2>1, <2>2 DEF Halts
    <3>4. ASSUME NEW r \in Procs, NEW j \in DOMAIN proc'[r].halt, proc'[r].halt[j].h = k
          PROVE  r = q /\ i = j
      <4>1. CASE r = p
        BY <1>0, <2>1, <2>2, <3>4, <4>1
      <4>2. CASE r # p
        <5>1. Halts(proc[r], k)
          BY <1>0, <3>4, <4>2 DEF Halts
        <5> QED
          BY <1>13, <3>1, <5>1
      <4> QED
        BY <4>1, <4>2
    <3> QED
      BY <3>2, <3>3, <3>4
  <2>3. CASE q # p
    <3>1. proc'[q] = proc[q] /\ Halts(proc[q], k)
      BY <1>0, <2>1, <2>3 DEF Halts
    <3>2. /\ k \in DOMAIN holders
          /\ holders[k].stop => Closed(proc[q]) /\ i = 1
          /\ \A r \in Procs : \A j \in DOMAIN proc[r].halt :
               proc[r].halt[j].h = k => r = q /\ i = j
      BY <2>1, <3>1 DEF Places, InHalt
    <3>3. \A n \in Names : sets'[n] # k
      BY <1>2, <1>5, <1>6, <1>13, <3>1, <3>2
    <3>4. ASSUME NEW r \in Procs, NEW j \in DOMAIN proc'[r].halt, proc'[r].halt[j].h = k
          PROVE  r = q /\ i = j
      <4>1. CASE r = p
        <5>1. Halts(y, k)
          BY <1>0, <3>4, <4>1 DEF Halts
        <5> QED
          BY <1>10, <1>13, <3>1, <5>1
      <4>2. CASE r # p
        BY <1>0, <3>2, <3>4, <4>2
      <4> QED
        BY <4>1, <4>2
    <3> QED
      BY <3>1, <3>2, <3>3, <3>4
  <2> QED
    BY <2>2, <2>3
<1>17. Placed'
  <2>1. SUFFICES ASSUME NEW k \in DOMAIN holders, ~holders[k].stop
                 PROVE  \/ \E n \in Names : sets'[n] = k
                        \/ \E q \in Procs : Halts(proc'[q], k)
                        \/ \E q \in Procs : proc'[q].pc = "swap" /\ proc'[q].h = k
    BY DEF Placed, Halts
  <2>2. CASE \E n \in Names : sets[n] = k
    BY <1>0, <1>2, <1>6, <2>2
  <2>3. CASE \E q \in Procs : Halts(proc[q], k)
    BY <1>11, <1>12, <2>3
  <2>4. CASE \E q \in Procs : proc[q].pc = "swap" /\ proc[q].h = k
    <3>1. PICK q \in Procs : proc[q].pc = "swap" /\ proc[q].h = k
      BY <2>4
    <3>2. CASE q = p
      BY <1>2, <3>1, <3>2
    <3>3. CASE q # p
      BY <1>9, <3>1, <3>3
    <3> QED
      BY <3>2, <3>3
  <2> QED
    BY <2>1, <2>2, <2>3, <2>4 DEF Places, Placed
<1>18. OneNamePerId'
  <2>1. SUFFICES ASSUME NEW m \in Names, NEW n \in Names, m # n, sets'[m] # 0, sets'[n] # 0
                 PROVE  holders[sets'[m]].def.id # holders[sets'[n]].def.id
    BY DEF OneNamePerId
  <2>2. CASE x.pc = "swap" /\ m = x.name
    BY <1>2, <1>5, <2>1, <2>2
  <2>3. CASE x.pc = "swap" /\ n = x.name
    BY <1>2, <1>5, <2>1, <2>3
  <2>4. CASE ~(x.pc = "swap" /\ (m = x.name \/ n = x.name))
    BY <1>2, <2>1, <2>4 DEF Places, OneNamePerId
  <2> QED
    BY <2>2, <2>3, <2>4
<1>19. Storing'
  BY DEF Places, Storing
<1>20. Waits'
  <2>1. \A q \in Procs : Closed(proc'[q]) => holders[proc'[q].halt[1].h].stop = TRUE
    BY <1>0 DEF Places, Waits
  <2> QED
    BY <2>1 DEF Waits, Closed
<1> QED
  BY <1>20, <1>0, <1>7, <1>8, <1>15, <1>16, <1>17, <1>18, <1>19 DEF Places

(* mount, under k.mu. *)
LEMMA SwapStep ==
  ASSUME LTypeOK, Places, StoppedOnce, NEW p \in Procs, MountSwap(p)
  PROVE  LTypeOK' /\ Places' /\ StoppedOnce'
<1> DEFINE x == proc[p]
           R == Renamed(x)
           S == R \cup {x.name}
<1>1. /\ x.pc = "swap" /\ UNCHANGED <<defs, redis, holders, ready, epochs, panic, published>>
      /\ sets' = [n \in Names |-> IF n = x.name THEN x.h ELSE IF n \in R THEN 0 ELSE sets[n]]
      /\ truth' = [n \in Names |-> IF n \in R THEN Unknown ELSE truth[n]]
  BY DEF MountSwap
<1>2. PICK others \in SetToSeqs({[h |-> sets[n], wipe |-> TRUE] : n \in R}) :
        proc' = [proc EXCEPT ![p].pc = "halt", ![p].halt = Replaced(x) \o others]
  BY DEF MountSwap
<1>3. x \in ProcState /\ x.name \in Names /\ x.def # None
  BY <1>1, ProcType DEF Places, Steps, Ordered
<1>4. S \in SUBSET Names /\ \A n \in Names : n \notin S /\ sets[n] # 0 =>
                                holders[sets[n]].def.id # x.def.id
  BY <1>3 DEF Renamed
<1> DEFINE list == Replaced(x) \o others
           y == [x EXCEPT !.pc = "halt", !.halt = list]
<1>5. /\ list \in Seq([h : Nat, wipe : BOOLEAN])
      /\ \A i \in DOMAIN list : \E n \in S : sets[n] # 0 /\ list[i].h = sets[n]
      /\ \A n \in S : sets[n] # 0 => \E i \in DOMAIN list : list[i].h = sets[n]
      /\ \A i, j \in DOMAIN list : list[i].h = list[j].h => i = j
  <2> DEFINE names == {n \in Names : sets[n] # 0 /\ (n = x.name \/ n \in R)}
  <2>1. /\ list \in Seq([h : Nat, wipe : BOOLEAN])
        /\ \A i \in DOMAIN list : \E n \in names : list[i].h = sets[n]
        /\ \A n \in names : \E i \in DOMAIN list : list[i].h = sets[n]
        /\ \A i, j \in DOMAIN list : list[i].h = list[j].h => i = j
    BY <1>2, <1>3, LosersGive, Zenon DEF Places
  <2>2. \A n : n \in names <=> n \in S /\ sets[n] # 0
    BY <1>4
  <2> HIDE DEF names, list, S
  <2> QED
    BY <2>1, <2>2
<1> HIDE DEF list, R
<1>6. y \in ProcState /\ y.pc = "halt" /\ y.halt = list /\ y.h = x.h /\ y.def = x.def
  BY <1>3, <1>5 DEF ProcState
<1>7. proc' = [proc EXCEPT ![p] = y]
  BY <1>2 DEF list
<1> HIDE DEF y
<1>8. Goes(p, y)
  BY <1>6, <1>7 DEF Goes, Ordered, Closed
<1>9. sets' = [n \in Names |-> IF x.pc = "swap" /\ n = x.name THEN x.h
                               ELSE IF n \in S THEN 0 ELSE sets[n]]
  BY <1>1
<1>10. Places' /\ proc' \in [Procs -> ProcState]
  <2>1. y.pc # "swap" /\ ~Closed(y) /\ (Mounting(y) => x.pc = "swap" /\ y.h = x.h)
    BY <1>1, <1>6 DEF Closed
  <2>2. /\ \A i \in DOMAIN y.halt : \E n \in S : sets[n] # 0 /\ y.halt[i].h = sets[n]
        /\ \A n \in S : sets[n] # 0 => Halts(y, sets[n])
        /\ \A i, j \in DOMAIN y.halt : y.halt[i].h = y.halt[j].h => i = j
    BY <1>5, <1>6 DEF Halts
  <2>3. x.name \in S /\ x.pc \in {"swap", "drop"} /\ holders' = holders
    BY <1>1
  <2> HIDE DEF S
  <2> QED
    BY <1>4, <1>8, <1>9, <2>1, <2>2, <2>3, LoseStep
<1>11. sets' \in [Names -> Nat]
  <2>1. x.h \in Nat /\ \A n \in Names : sets[n] \in Nat
    BY <1>3 DEF ProcState, LTypeOK
  <2> QED
    BY <1>1, <2>1
<1>12. truth' \in [Names -> [Values -> {"any", "in", "out"}]]
  <2>1. Unknown \in [Values -> {"any", "in", "out"}]
    BY DEF Unknown
  <2>2. truth \in [Names -> [Values -> {"any", "in", "out"}]]
    BY DEF LTypeOK
  <2> QED
    BY <1>1, <2>1, <2>2
<1> QED
  BY <1>1, <1>10, <1>11, <1>12 DEF LTypeOK, StoppedOnce

(* drop, under k.mu. *)
LEMMA DropStep ==
  ASSUME LTypeOK, Places, StoppedOnce, NEW p \in Procs, DropDelete(p)
  PROVE  LTypeOK' /\ Places' /\ StoppedOnce'
<1> DEFINE x == proc[p]
           e == [h |-> sets[x.name], wipe |-> TRUE]
           S == {x.name}
<1>1. /\ x.pc = "drop" /\ UNCHANGED <<defs, redis, holders, ready, epochs, panic, published>>
      /\ sets' = [sets EXCEPT ![x.name] = 0]
      /\ truth' = [truth EXCEPT ![x.name] = Unknown]
      /\ proc' = IF sets[x.name] = 0 THEN [proc EXCEPT ![p].pc = "next"]
                 ELSE [proc EXCEPT ![p].pc = "halt", ![p].halt = <<e>>]
  BY DEF DropDelete
<1>2. x \in ProcState /\ x.name \in Names /\ x.def = None /\ x.halt = <<>>
  BY <1>1, ProcType DEF Places, Steps, Ordered
<1>3. /\ sets \in [Names -> Nat]
      /\ \A n \in Names : sets[n] \in Nat
  BY DEF LTypeOK
<1>4. sets' = [n \in Names |-> IF x.pc = "swap" /\ n = x.name THEN x.h
                               ELSE IF n \in S THEN 0 ELSE sets[n]]
  BY <1>1, <1>2, <1>3
<1>5. \E y : /\ Goes(p, y) /\ y.pc # "swap" /\ ~Closed(y) /\ ~Mounting(y)
             /\ \A i \in DOMAIN y.halt : \E n \in S : sets[n] # 0 /\ y.halt[i].h = sets[n]
             /\ \A n \in S : sets[n] # 0 => Halts(y, sets[n])
             /\ \A i, j \in DOMAIN y.halt : y.halt[i].h = y.halt[j].h => i = j
  <2>1. CASE sets[x.name] = 0
    <3> DEFINE y == [x EXCEPT !.pc = "next"]
    <3>1. y \in ProcState /\ y.pc = "next" /\ y.halt = <<>> /\ DOMAIN <<>> = {}
      BY <1>2 DEF ProcState
    <3>2. proc' = [proc EXCEPT ![p] = y]
      BY <1>1, <2>1
    <3> HIDE DEF y
    <3>3. Goes(p, y) /\ ~Closed(y) /\ ~Mounting(y)
      BY <3>1, <3>2 DEF Goes, Ordered, Closed, Mounting
    <3> QED
      BY <2>1, <3>1, <3>3
  <2>2. CASE sets[x.name] # 0
    <3> DEFINE y == [x EXCEPT !.pc = "halt", !.halt = <<e>>]
    <3>1. e \in [h : Nat, wipe : BOOLEAN] /\ e.h = sets[x.name]
      BY <1>2, <1>3
    <3> HIDE DEF e
    <3>2. <<e>> \in Seq([h : Nat, wipe : BOOLEAN]) /\ DOMAIN <<e>> = {1} /\ <<e>>[1] = e
      BY <3>1
    <3>3. y \in ProcState /\ y.pc = "halt" /\ y.halt = <<e>> /\ y.def = None
      BY <1>2, <3>2 DEF ProcState
    <3>4. proc' = [proc EXCEPT ![p] = y]
      BY <1>1, <2>2
    <3> HIDE DEF y
    <3>5. Goes(p, y) /\ ~Closed(y) /\ ~Mounting(y)
      BY <3>3, <3>4 DEF Goes, Ordered, Closed, Mounting
    <3>6. Halts(y, sets[x.name])
      BY <3>1, <3>2, <3>3 DEF Halts
    <3> QED
      BY <2>2, <3>1, <3>2, <3>3, <3>5, <3>6
  <2> QED
    BY <2>1, <2>2
<1>6. Places' /\ proc' \in [Procs -> ProcState]
  <2>1. PICK y : /\ Goes(p, y) /\ y.pc # "swap" /\ ~Closed(y) /\ ~Mounting(y)
                 /\ \A i \in DOMAIN y.halt : \E n \in S : sets[n] # 0 /\ y.halt[i].h = sets[n]
                 /\ \A n \in S : sets[n] # 0 => Halts(y, sets[n])
                 /\ \A i, j \in DOMAIN y.halt : y.halt[i].h = y.halt[j].h => i = j
    BY <1>5
  <2>2. S \in SUBSET Names /\ x.name \in S /\ holders' = holders /\ x.pc \in {"swap", "drop"}
        /\ x.pc # "swap"
    BY <1>1, <1>2
  <2> HIDE DEF S
  <2> QED
    BY <1>4, <2>1, <2>2, LoseStep
<1>7. sets' \in [Names -> Nat]
  BY <1>1, <1>3
<1>8. truth' \in [Names -> [Values -> {"any", "in", "out"}]]
  <2>1. Unknown \in [Values -> {"any", "in", "out"}]
    BY DEF Unknown
  <2>2. truth \in [Names -> [Values -> {"any", "in", "out"}]]
    BY DEF LTypeOK
  <2> QED
    BY <1>1, <2>1, <2>2
<1> QED
  BY <1>1, <1>6, <1>7, <1>8 DEF LTypeOK, StoppedOnce

(* The first holder of a list is stopped; it was not stopped before. *)
LEMMA CloseStep ==
  ASSUME LTypeOK, Places, StoppedOnce, NEW p \in Procs, HaltClose(p)
  PROVE  LTypeOK' /\ Places' /\ StoppedOnce'
<1> DEFINE x == proc[p]
           h == Head(x.halt).h
           y == [x EXCEPT !.pc = "wait"]
           z == [holders[h] EXCEPT !.stop = TRUE]
<1>1. x.pc = "halt" /\ x.halt # <<>>
  BY DEF HaltClose
<1>2. x \in ProcState /\ Ordered(x) /\ x.halt \in Seq([h : Nat, wipe : BOOLEAN])
  BY ProcType DEF Places, Steps, ProcState
<1>3. h = x.halt[1].h /\ 1 \in DOMAIN x.halt
  BY <1>1, <1>2, TailGives
<1> HIDE DEF h
<1>4. /\ h \in DOMAIN holders /\ ~holders[h].stop
      /\ \A n \in Names : sets[n] # h
      /\ \A q \in Procs : \A j \in DOMAIN proc[q].halt : proc[q].halt[j].h = h => q = p /\ j = 1
  BY <1>1, <1>3 DEF Places, InHalt, Closed
<1>5. /\ holders' = [holders EXCEPT ![h] = z] /\ proc' = [proc EXCEPT ![p] = y]
      /\ UNCHANGED <<defs, redis, sets, ready, epochs, panic, truth, published>>
  BY <1>4 DEF HaltClose, Goto, h, history
<1>6. holders[h] \in HolderState /\ holders \in Seq(HolderState)
  BY <1>4, HolderType DEF LTypeOK
<1>7. z \in HolderState /\ z.stop = TRUE /\ z.name = holders[h].name /\ z.def = holders[h].def
      /\ z.run = holders[h].run /\ z.cpc = holders[h].cpc /\ z.jobs = holders[h].jobs
  BY <1>6 DEF HolderState
<1>8. y \in ProcState /\ y.pc = "wait" /\ y.halt = x.halt /\ y.def = x.def /\ y.h = x.h
  BY <1>2 DEF ProcState
<1> HIDE DEF y, z
<1>9. /\ holders' \in Seq(HolderState) /\ DOMAIN holders' = DOMAIN holders /\ holders'[h] = z
      /\ \A i \in DOMAIN holders : i # h => holders'[i] = holders[i]
  BY <1>4, <1>5, <1>6, <1>7, ReplaceGives
<1>10. Goes(p, y)
  BY <1>1, <1>5, <1>8 DEF Goes, Ordered, Closed
<1>11. /\ proc' \in [Procs -> ProcState] /\ Steps'
       /\ proc'[p] = y /\ \A q \in Procs : q # p => proc'[q] = proc[q]
  BY <1>10, GoesGives DEF Places
<1>12. \A q \in Procs : /\ proc'[q].halt = proc[q].halt
                        /\ Mounting(proc'[q]) <=> Mounting(proc[q])
                        /\ proc'[q].h = proc[q].h /\ proc'[q].def = proc[q].def
                        /\ proc'[q].pc = "swap" <=> proc[q].pc = "swap"
                        /\ Closed(proc[q]) => Closed(proc'[q])
                        /\ proc[q].pc = "swap" => proc'[q] = proc[q]
  BY <1>1, <1>8, <1>11 DEF Mounting, Closed
<1>13. \A q \in Procs : \A k : Halts(proc'[q], k) <=> Halts(proc[q], k)
  BY <1>12 DEF Halts
<1>14. \A k \in DOMAIN holders :
         /\ holders'[k].name = holders[k].name /\ holders'[k].def = holders[k].def
         /\ holders'[k].run = holders[k].run /\ holders'[k].cpc = holders[k].cpc
         /\ holders'[k].jobs = holders[k].jobs
         /\ k # h => holders'[k].stop = holders[k].stop
  BY <1>7, <1>9
<1>15. Storing'
  BY <1>9, <1>14 DEF Places, Storing
<1>16. InMap'
  BY <1>4, <1>5, <1>9, <1>14 DEF Places, InMap
<1>17. InMount'
  <2>1. \A q \in Procs : Mounting(proc[q]) => proc[q].h \in DOMAIN holders
          /\ \A r \in Procs : Mounting(proc[r]) /\ proc[r].h = proc[q].h => q = r
    BY DEF Places, InMount
  <2>2. \A q \in Procs : Mounting(proc'[q]) => proc'[q].h \in DOMAIN holders'
          /\ \A r \in Procs : Mounting(proc'[r]) /\ proc'[r].h = proc'[q].h => q = r
    BY <1>9, <1>12, <2>1
  <2> QED
    BY <2>2 DEF InMount, Mounting
<1>18. InSwap'
  <2>1. SUFFICES ASSUME NEW q \in Procs, proc'[q].pc = "swap"
                 PROVE  LET k == proc'[q].h IN
                        /\ holders'[k].name = proc'[q].name /\ holders'[k].def = proc'[q].def
                        /\ holders'[k].run = "new" /\ ~holders'[k].stop
                        /\ \A n \in Names : sets'[n] # k
                        /\ \A r \in Procs : ~Halts(proc'[r], k)
    BY DEF InSwap, Halts
  <2>2. proc'[q] = proc[q] /\ proc[q].pc = "swap"
    BY <1>12, <2>1
  <2>3. proc[q].h \in DOMAIN holders
    BY <2>2 DEF Places, Steps, Ordered, InMount, Mounting
  <2> DEFINE k == proc[q].h
  <2>4. /\ holders[k].name = proc[q].name /\ holders[k].def = proc[q].def
        /\ holders[k].run = "new" /\ ~holders[k].stop
        /\ \A n \in Names : sets[n] # k
        /\ \A r \in Procs : ~Halts(proc[r], k)
    BY <2>2 DEF Places, InSwap
  <2>5. k # h
    BY <1>3, <2>4 DEF Halts
  <2> QED
    BY <1>5, <1>13, <1>14, <2>2, <2>3, <2>4, <2>5
<1>19. InHalt'
  <2>1. SUFFICES ASSUME NEW q \in Procs, NEW i \in DOMAIN proc'[q].halt
                 PROVE  LET k == proc'[q].halt[i].h IN
                        /\ k \in DOMAIN holders'
                        /\ holders'[k].stop => Closed(proc'[q]) /\ i = 1
                        /\ \A n \in Names : sets'[n] # k
                        /\ \A r \in Procs : \A j \in DOMAIN proc'[r].halt :
                             proc'[r].halt[j].h = k => r = q /\ i = j
    BY DEF InHalt, Closed
  <2> DEFINE k == proc[q].halt[i].h
  <2>2. k = proc'[q].halt[i].h /\ i \in DOMAIN proc[q].halt
    BY <1>12, <2>1
  <2>3. /\ k \in DOMAIN holders
        /\ holders[k].stop => Closed(proc[q]) /\ i = 1
        /\ \A n \in Names : sets[n] # k
        /\ \A r \in Procs : \A j \in DOMAIN proc[r].halt :
             proc[r].halt[j].h = k => r = q /\ i = j
    BY <2>2 DEF Places, InHalt
  <2>4. k = h => Closed(proc'[q]) /\ i = 1
    <3>1. k = h => q = p /\ i = 1
      BY <1>4, <2>2
    <3> QED
      BY <1>8, <1>11, <3>1 DEF Closed
  <2> HIDE DEF k
  <2> QED
    BY <1>5, <1>9, <1>12, <1>14, <2>2, <2>3, <2>4
<1>20. Placed'
  <2>1. SUFFICES ASSUME NEW k \in DOMAIN holders', ~holders'[k].stop
                 PROVE  \/ \E n \in Names : sets'[n] = k
                        \/ \E q \in Procs : Halts(proc'[q], k)
                        \/ \E q \in Procs : proc'[q].pc = "swap" /\ proc'[q].h = k
    BY DEF Placed, Halts
  <2>2. k \in DOMAIN holders /\ ~holders[k].stop
    BY <1>7, <1>9, <2>1
  <2> QED
    BY <1>5, <1>12, <1>13, <2>2 DEF Places, Placed
<1>21. OneNamePerId'
  BY <1>5, <1>14 DEF Places, InMap, OneNamePerId
<1>23. Waits'
  <2>1. SUFFICES ASSUME NEW q \in Procs, Closed(proc'[q])
                 PROVE  holders'[proc'[q].halt[1].h].stop = TRUE
    BY DEF Waits, Closed
  <2>2. CASE q = p
    BY <1>3, <1>7, <1>9, <1>12, <2>2
  <2>3. CASE q # p
    <3>1. proc'[q] = proc[q] /\ Closed(proc[q])
      BY <1>11, <2>1, <2>3
    <3>2. 1 \in DOMAIN proc[q].halt
      BY <3>1, ClosedFirst DEF Places
    <3>3. proc[q].halt[1].h \in DOMAIN holders
      BY <3>2 DEF Places, InHalt
    <3> QED
      BY <1>7, <1>9, <3>1, <3>3 DEF Places, Waits
  <2> QED
    BY <2>2, <2>3
<1>22. Places'
  BY <1>23, <1>11, <1>15, <1>16, <1>17, <1>18, <1>19, <1>20, <1>21 DEF Places
<1> QED
  BY <1>5, <1>9, <1>11, <1>22 DEF LTypeOK, StoppedOnce

(* The first holder of a list has ended and leaves it. *)
LEMMA TailStep ==
  ASSUME LTypeOK, Places, NEW p \in Procs, Closed(proc[p]), UNCHANGED <<sets, holders>>,
         proc' = [proc EXCEPT ![p].pc = "halt", ![p].halt = Tail(@)]
  PROVE  Places' /\ proc' \in [Procs -> ProcState]
<1> DEFINE x == proc[p]
           t == Tail(x.halt)
           y == [x EXCEPT !.pc = "halt", !.halt = t]
           h == Head(x.halt).h
<1>1. x \in ProcState /\ Ordered(x) /\ x.halt # <<>>
  BY ProcType DEF Places, Steps, Ordered
<1>2. x.halt \in Seq([h : Nat, wipe : BOOLEAN])
  BY <1>1 DEF ProcState
<1>3. /\ Head(x.halt) = x.halt[1] /\ 1 \in DOMAIN x.halt
      /\ t \in Seq([h : Nat, wipe : BOOLEAN])
      /\ \A i \in DOMAIN t : i + 1 \in DOMAIN x.halt /\ t[i] = x.halt[i + 1]
      /\ \A i \in DOMAIN x.halt : i # 1 => i - 1 \in DOMAIN t /\ t[i - 1] = x.halt[i]
      /\ \A i \in DOMAIN t : i \in Nat \ {0}
  <2> DEFINE E == [h : Nat, wipe : BOOLEAN]
             s == x.halt
  <2>1. s \in Seq(E) /\ s # <<>>
    BY <1>1, <1>2
  <2> HIDE DEF E, s
  <2>2. /\ Head(s) = s[1] /\ 1 \in DOMAIN s
        /\ Tail(s) \in Seq(E)
        /\ \A i \in DOMAIN Tail(s) : i + 1 \in DOMAIN s /\ Tail(s)[i] = s[i + 1]
        /\ \A i \in DOMAIN s : i # 1 => i - 1 \in DOMAIN Tail(s) /\ Tail(s)[i - 1] = s[i]
        /\ \A i \in DOMAIN Tail(s) : i \in Nat \ {0}
    BY <2>1, TailGives
  <2> QED
    BY <2>2 DEF E, s
<1>4. h = x.halt[1].h
  BY <1>3
<1> HIDE DEF t, h
<1>5. y \in ProcState /\ y.pc = "halt" /\ y.halt = t /\ y.def = x.def /\ y.h = x.h
  BY <1>1, <1>3 DEF ProcState
<1>6. proc' = [proc EXCEPT ![p] = y]
  BY DEF t
<1> HIDE DEF y
<1>7. Goes(p, y)
  BY <1>5, <1>6 DEF Goes, Ordered, Closed
<1>8. /\ proc' \in [Procs -> ProcState] /\ Steps'
      /\ proc'[p] = y /\ \A q \in Procs : q # p => proc'[q] = proc[q]
  BY <1>7, GoesGives DEF Places
<1>9. \A q \in Procs : /\ Mounting(proc'[q]) <=> Mounting(proc[q])
                       /\ proc'[q].h = proc[q].h
                       /\ proc'[q].pc = "swap" <=> proc[q].pc = "swap"
                       /\ proc[q].pc = "swap" => proc'[q] = proc[q]
  <2>1. x.pc # "swap" /\ (Mounting(x) <=> x.def # None)
    BY DEF Mounting, Closed
  <2>2. y.pc # "swap" /\ (Mounting(y) <=> x.def # None)
    BY <1>5 DEF Mounting
  <2>3. TAKE q \in Procs
  <2>4. CASE q = p
    BY <2>1, <2>2, <2>4, <1>5, <1>8
  <2>5. CASE q # p
    BY <2>5, <1>8
  <2> QED
    BY <2>4, <2>5
<1>10. /\ \A k : Halts(y, k) => Halts(x, k)
       /\ \A k : Halts(x, k) /\ k # h => Halts(y, k)
  <2>1. ASSUME NEW k, Halts(y, k)
        PROVE  Halts(x, k)
    <3>1. PICK i \in DOMAIN t : t[i].h = k
      BY <1>5, <2>1 DEF Halts
    <3> QED
      BY <1>3, <3>1 DEF Halts
  <2>2. ASSUME NEW k, Halts(x, k), k # h
        PROVE  Halts(y, k)
    <3>1. PICK i \in DOMAIN x.halt : x.halt[i].h = k
      BY <2>2 DEF Halts
    <3>2. i # 1
      BY <1>4, <2>2, <3>1
    <3> QED
      BY <1>3, <1>5, <3>1, <3>2 DEF Halts
  <2> QED
    BY <2>1, <2>2
<1>11. /\ \A q \in Procs : \A k : Halts(proc'[q], k) => Halts(proc[q], k)
       /\ \A q \in Procs : \A k : Halts(proc[q], k) /\ k # h => Halts(proc'[q], k)
  BY <1>8, <1>10
<1>12. holders[h].stop = TRUE
  BY <1>4 DEF Places, Waits
<1>13. Storing' /\ InMap' /\ OneNamePerId'
  BY DEF Places, Storing, InMap, OneNamePerId
<1>14. InMount'
  <2>1. \A q \in Procs : Mounting(proc[q]) => proc[q].h \in DOMAIN holders
          /\ \A r \in Procs : Mounting(proc[r]) /\ proc[r].h = proc[q].h => q = r
    BY DEF Places, InMount
  <2>2. \A q \in Procs : Mounting(proc'[q]) => proc'[q].h \in DOMAIN holders
          /\ \A r \in Procs : Mounting(proc'[r]) /\ proc'[r].h = proc'[q].h => q = r
    BY <1>9, <2>1
  <2> QED
    BY <2>2 DEF InMount, Mounting
<1>15. InSwap'
  <2>1. SUFFICES ASSUME NEW q \in Procs, proc'[q].pc = "swap"
                 PROVE  LET k == proc'[q].h IN
                        /\ holders'[k].name = proc'[q].name /\ holders'[k].def = proc'[q].def
                        /\ holders'[k].run = "new" /\ ~holders'[k].stop
                        /\ \A n \in Names : sets'[n] # k
                        /\ \A r \in Procs : ~Halts(proc'[r], k)
    BY DEF InSwap, Halts
  <2>2. proc'[q] = proc[q] /\ proc[q].pc = "swap"
    BY <1>9, <2>1
  <2> QED
    BY <1>11, <2>2 DEF Places, InSwap
<1>16. InHalt'
  <2>1. SUFFICES ASSUME NEW q \in Procs, NEW i \in DOMAIN proc'[q].halt
                 PROVE  LET k == proc'[q].halt[i].h IN
                        /\ k \in DOMAIN holders'
                        /\ holders'[k].stop => Closed(proc'[q]) /\ i = 1
                        /\ \A n \in Names : sets'[n] # k
                        /\ \A r \in Procs : \A j \in DOMAIN proc'[r].halt :
                             proc'[r].halt[j].h = k => r = q /\ i = j
    BY DEF InHalt, Closed
  <2> DEFINE At(r, j) == IF r = p THEN j + 1 ELSE j
  <2>2. \A r \in Procs : \A j \in DOMAIN proc'[r].halt :
          At(r, j) \in DOMAIN proc[r].halt /\ proc'[r].halt[j] = proc[r].halt[At(r, j)]
    <3>1. TAKE r \in Procs
    <3>2. TAKE j \in DOMAIN proc'[r].halt
    <3>3. CASE r = p
      BY <1>3, <1>5, <1>8, <3>3
    <3>4. CASE r # p
      BY <1>8, <3>4
    <3> QED
      BY <3>3, <3>4
  <2>3. ~Closed(proc'[p])
    BY <1>5, <1>8 DEF Closed
  <2> DEFINE a == At(q, i)
             k == proc[q].halt[a].h
  <2>4. a \in DOMAIN proc[q].halt /\ k = proc'[q].halt[i].h
    BY <2>1, <2>2
  <2>5. q = p => a # 1 /\ i \in Nat
    BY <1>3, <1>5, <1>8, <2>1
  <2>6. q # p => a = i
    OBVIOUS
  <2> HIDE DEF a
  <2>7. /\ k \in DOMAIN holders
        /\ holders[k].stop => Closed(proc[q]) /\ a = 1
        /\ \A n \in Names : sets[n] # k
        /\ \A r \in Procs : \A j \in DOMAIN proc[r].halt :
             proc[r].halt[j].h = k => r = q /\ a = j
    BY <2>4 DEF Places, InHalt
  <2> HIDE DEF k
  <2>8. holders[k].stop => Closed(proc'[q]) /\ i = 1
    <3>1. CASE q = p
      BY <2>3, <2>5, <2>7, <3>1
    <3>2. CASE q # p
      BY <1>8, <2>6, <2>7, <3>2
    <3> QED
      BY <3>1, <3>2
  <2>9. ASSUME NEW r \in Procs, NEW j \in DOMAIN proc'[r].halt, proc'[r].halt[j].h = k
        PROVE  r = q /\ i = j
    <3>1. r = q /\ a = At(r, j)
      <4> DEFINE b == At(r, j)
      <4>1. b \in DOMAIN proc[r].halt /\ proc[r].halt[b].h = k
        BY <2>2, <2>9
      <4> HIDE DEF b
      <4>2. r = q /\ a = b
        BY <2>7, <4>1
      <4> QED
        BY <4>2 DEF b
    <3>2. CASE q = p
      <4>1. i + 1 = j + 1 /\ i \in Nat /\ j \in Nat
        BY <1>3, <1>5, <1>8, <2>1, <2>9, <3>1, <3>2 DEF a
      <4> QED
        BY <3>1, <4>1
    <3>3. CASE q # p
      BY <2>6, <3>1, <3>3
    <3> QED
      BY <3>2, <3>3
  <2> QED
    BY <2>4, <2>7, <2>8, <2>9
<1>17. Placed'
  <2>1. SUFFICES ASSUME NEW k \in DOMAIN holders, ~holders[k].stop
                 PROVE  \/ \E n \in Names : sets[n] = k
                        \/ \E q \in Procs : Halts(proc'[q], k)
                        \/ \E q \in Procs : proc'[q].pc = "swap" /\ proc'[q].h = k
    BY DEF Placed, Halts
  <2>2. k # h
    BY <1>12, <2>1
  <2> QED
    <3>1. CASE \E n \in Names : sets[n] = k
      BY <3>1
    <3>2. CASE \E q \in Procs : Halts(proc[q], k)
      BY <1>11, <2>2, <3>2
    <3>3. CASE \E q \in Procs : proc[q].pc = "swap" /\ proc[q].h = k
      BY <1>9, <3>3
    <3> QED
      BY <2>1, <3>1, <3>2, <3>3 DEF Places, Placed
<1>18. Waits'
  <2>1. \A q \in Procs : Closed(proc'[q]) => holders[proc'[q].halt[1].h].stop = TRUE
    BY <1>5, <1>8 DEF Places, Waits, Closed
  <2> QED
    BY <2>1 DEF Waits, Closed
<1> QED
  BY <1>8, <1>13, <1>14, <1>15, <1>16, <1>17, <1>18 DEF Places

(* A holder has ended: its records stay or go. *)
LEMMA EndedStep ==
  ASSUME LTypeOK, Places, StoppedOnce, NEW p \in Procs, HaltWait(p) \/ HaltWipe(p)
  PROVE  LTypeOK' /\ Places' /\ StoppedOnce'
<1>0. proc[p] \in ProcState /\ Ordered(proc[p]) /\ proc[p].pc \in {"wait", "wipe"}
  BY ProcType DEF Places, Steps, HaltWait, HaltWipe
<1>1. UNCHANGED <<defs, sets, holders, ready, epochs, panic, truth, published>>
  BY DEF HaltWait, HaltWipe, history
<1>2. redis' \in [Names -> [meta : Metas, recs : SUBSET Values]]
  <2>1. redis \in [Names -> [meta : Metas, recs : SUBSET Values]]
    BY DEF LTypeOK
  <2>2. NoState \in [meta : Metas, recs : SUBSET Values]
    BY IdleType DEF NoState
  <2>3. redis' = redis \/ \E n : redis' = [redis EXCEPT ![n] = NoState]
    BY DEF HaltWait, HaltWipe
  <2> QED
    BY <2>1, <2>2, <2>3
<1>3. Places' /\ proc' \in [Procs -> ProcState]
  <2>1. CASE proc' = [proc EXCEPT ![p].pc = "halt", ![p].halt = Tail(@)]
    BY <1>0, <1>1, <2>1, TailStep DEF Closed
  <2>2. CASE HaltWait(p) /\ proc' = [proc EXCEPT ![p].pc = "wipe"]
    <3> DEFINE y == [proc[p] EXCEPT !.pc = "wipe"]
    <3>1. y \in ProcState /\ y.pc = "wipe" /\ y.halt = proc[p].halt /\ y.def = proc[p].def
          /\ y.h = proc[p].h
      BY <1>0 DEF ProcState
    <3>2. proc' = [proc EXCEPT ![p] = y]
      BY <2>2
    <3> HIDE DEF y
    <3>3. Goes(p, y) /\ Alike(proc[p], y)
      BY <1>0, <3>1, <3>2 DEF Goes, Alike, Ordered, Closed, Mounting
    <3> QED
      BY <1>1, <3>3, QuietStep
  <2> QED
    BY <2>1, <2>2 DEF HaltWait, HaltWipe
<1> QED
  BY <1>1, <1>2, <1>3 DEF LTypeOK, StoppedOnce

(* Planner and committer of a holder start. *)
LEMMA StartStep ==
  ASSUME LTypeOK, Places, StoppedOnce, NEW p \in Procs, MountStart(p)
  PROVE  LTypeOK' /\ Places' /\ StoppedOnce'
<1> DEFINE x == proc[p]
           h == x.h
           y == [x EXCEPT !.pc = "next"]
           z == [holders[h] EXCEPT !.run = "up"]
<1>1. /\ x.pc = "halt" /\ x.halt = <<>> /\ x.def # None
      /\ holders' = [holders EXCEPT ![h] = z] /\ proc' = [proc EXCEPT ![p] = y]
      /\ published' = published \cup {<<holders[h].epoch, holders[h].seq, holders[h].mem>>}
      /\ UNCHANGED <<defs, redis, sets, ready, epochs, panic, truth>>
  BY DEF MountStart, Goto
<1>2. x \in ProcState /\ holders \in Seq(HolderState)
  BY ProcType DEF LTypeOK
<1>3. Mounting(x) /\ h \in DOMAIN holders
      /\ \A q \in Procs : Mounting(proc[q]) /\ proc[q].h = h => p = q
  BY <1>1 DEF Mounting, Places, InMount
<1>4. holders[h] \in HolderState
  BY <1>3, HolderType
<1>5. z \in HolderState /\ z.stop = holders[h].stop /\ z.name = holders[h].name
      /\ z.def = holders[h].def /\ z.cpc = holders[h].cpc /\ z.jobs = holders[h].jobs
  BY <1>4 DEF HolderState
<1>6. y \in ProcState /\ y.pc = "next" /\ y.halt = <<>>
  BY <1>1, <1>2 DEF ProcState
<1> HIDE DEF y, z
<1>7. /\ holders' \in Seq(HolderState) /\ DOMAIN holders' = DOMAIN holders /\ holders'[h] = z
      /\ \A i \in DOMAIN holders : i # h => holders'[i] = holders[i]
  BY <1>1, <1>2, <1>3, <1>5, ReplaceGives
<1>8. Goes(p, y)
  BY <1>1, <1>6 DEF Goes, Ordered, Closed
<1>9. /\ proc' \in [Procs -> ProcState] /\ Steps'
      /\ proc'[p] = y /\ \A q \in Procs : q # p => proc'[q] = proc[q]
  BY <1>8, GoesGives DEF Places
<1>10. \A k \in DOMAIN holders :
         /\ holders'[k].name = holders[k].name /\ holders'[k].def = holders[k].def
         /\ holders'[k].cpc = holders[k].cpc /\ holders'[k].jobs = holders[k].jobs
         /\ holders'[k].stop = holders[k].stop
         /\ k # h => holders'[k] = holders[k]
  BY <1>5, <1>7
<1>11. \A q \in Procs : /\ proc'[q].halt = proc[q].halt
                        /\ Mounting(proc'[q]) => q # p
                        /\ proc'[q].pc = "swap" <=> proc[q].pc = "swap"
                        /\ proc[q].pc = "swap" => proc'[q] = proc[q]
                        /\ Closed(proc'[q]) <=> Closed(proc[q])
  BY <1>1, <1>6, <1>9 DEF Mounting, Closed
<1>12. \A q \in Procs : \A k : Halts(proc'[q], k) <=> Halts(proc[q], k)
  BY <1>11 DEF Halts
<1>13. Storing' /\ InMap' /\ OneNamePerId'
  BY <1>1, <1>7, <1>10 DEF Places, Storing, InMap, OneNamePerId
<1>14. InMount'
  <2>1. \A q \in Procs : Mounting(proc'[q]) => Mounting(proc[q]) /\ proc'[q].h = proc[q].h
    BY <1>9, <1>11
  <2> QED
    BY <1>7, <2>1 DEF InMount, Places, Mounting
<1>15. InSwap'
  <2>1. SUFFICES ASSUME NEW q \in Procs, proc'[q].pc = "swap"
                 PROVE  LET k == proc'[q].h IN
                        /\ holders'[k].name = proc'[q].name /\ holders'[k].def = proc'[q].def
                        /\ holders'[k].run = "new" /\ ~holders'[k].stop
                        /\ \A n \in Names : sets'[n] # k
                        /\ \A r \in Procs : ~Halts(proc'[r], k)
    BY DEF InSwap, Halts
  <2>2. proc'[q] = proc[q] /\ proc[q].pc = "swap" /\ q # p
    BY <1>1, <1>11, <2>1
  <2>3. Mounting(proc[q]) /\ proc[q].h \in DOMAIN holders
    BY <2>2 DEF Places, Steps, Ordered, InMount, Mounting
  <2>4. proc[q].h # h
    BY <1>3, <2>2, <2>3
  <2>5. holders'[proc[q].h] = holders[proc[q].h]
    BY <1>10, <2>3, <2>4
  <2> QED
    BY <1>1, <1>12, <2>2, <2>5 DEF Places, InSwap
<1>16. InHalt'
  <2>1. SUFFICES ASSUME NEW q \in Procs, NEW i \in DOMAIN proc'[q].halt
                 PROVE  LET k == proc'[q].halt[i].h IN
                        /\ k \in DOMAIN holders'
                        /\ holders'[k].stop => Closed(proc'[q]) /\ i = 1
                        /\ \A n \in Names : sets'[n] # k
                        /\ \A r \in Procs : \A j \in DOMAIN proc'[r].halt :
                             proc'[r].halt[j].h = k => r = q /\ i = j
    BY DEF InHalt, Closed
  <2> DEFINE k == proc[q].halt[i].h
  <2>2. k = proc'[q].halt[i].h /\ i \in DOMAIN proc[q].halt
    BY <1>11, <2>1
  <2>3. /\ k \in DOMAIN holders
        /\ holders[k].stop => Closed(proc[q]) /\ i = 1
        /\ \A n \in Names : sets[n] # k
        /\ \A r \in Procs : \A j \in DOMAIN proc[r].halt :
             proc[r].halt[j].h = k => r = q /\ i = j
    BY <2>2 DEF Places, InHalt
  <2> HIDE DEF k
  <2> QED
    BY <1>1, <1>7, <1>10, <1>11, <2>2, <2>3
<1>17. Waits'
  <2>1. SUFFICES ASSUME NEW q \in Procs, Closed(proc'[q])
                 PROVE  holders'[proc'[q].halt[1].h].stop = TRUE
    BY DEF Waits, Closed
  <2>2. Closed(proc[q]) /\ proc'[q].halt = proc[q].halt
    BY <1>11, <2>1
  <2>3. 1 \in DOMAIN proc[q].halt
    BY <2>2, ClosedFirst DEF Places
  <2>4. proc[q].halt[1].h \in DOMAIN holders
    BY <2>3 DEF Places, InHalt
  <2> QED
    BY <1>10, <2>2, <2>4 DEF Places, Waits
<1>18. Placed'
  <2>1. SUFFICES ASSUME NEW k \in DOMAIN holders', ~holders'[k].stop
                 PROVE  \/ \E n \in Names : sets'[n] = k
                        \/ \E q \in Procs : Halts(proc'[q], k)
                        \/ \E q \in Procs : proc'[q].pc = "swap" /\ proc'[q].h = k
    BY DEF Placed, Halts
  <2>2. k \in DOMAIN holders /\ ~holders[k].stop
    BY <1>7, <1>10, <2>1
  <2>3. CASE \E n \in Names : sets[n] = k
    BY <1>1, <2>3
  <2>4. CASE \E q \in Procs : Halts(proc[q], k)
    BY <1>12, <2>4
  <2>5. CASE \E q \in Procs : proc[q].pc = "swap" /\ proc[q].h = k
    BY <1>11, <2>5
  <2> QED
    BY <2>2, <2>3, <2>4, <2>5 DEF Places, Placed
<1>19. Places'
  BY <1>9, <1>13, <1>14, <1>15, <1>16, <1>17, <1>18 DEF Places
<1>20. published' \subseteq Nat \X Nat \X SUBSET Values
  <2>1. holders[h].epoch \in Nat /\ holders[h].seq \in Nat /\ holders[h].mem \in SUBSET Values
    BY <1>4 DEF HolderState
  <2>2. published \subseteq Nat \X Nat \X SUBSET Values
    BY DEF LTypeOK
  <2> QED
    BY <1>1, <2>1, <2>2
<1> QED
  BY <1>1, <1>7, <1>9, <1>19, <1>20 DEF LTypeOK, StoppedOnce

------------------------------------------------------------------------------
(* The invariant *)

LEMMA InvParts == HolderInv <=> LTypeOK /\ Places /\ StoppedOnce
  BY DEF HolderInv, Places

(* At first there is nothing. *)
LEMMA InvInit ==
  ASSUME LInit
  PROVE  HolderInv
<1>1. /\ sets = [n \in Names |-> 0] /\ holders = <<>> /\ proc = [p \in Procs |-> Idle]
      /\ redis = [n \in Names |-> NoState] /\ truth = [n \in Names |-> Unknown]
      /\ defs \in [Names -> Def \cup {None}] /\ ready = FALSE /\ epochs = 0 /\ panic = "none"
      /\ published = {}
  BY DEF LInit
<1>2. /\ \A n \in Names : sets[n] = 0
      /\ DOMAIN holders = {} /\ holders \in Seq(HolderState)
      /\ \A p \in Procs : proc[p] = Idle
      /\ DOMAIN <<>> = {}
  BY <1>1
<1>3. Idle.pc = "idle" /\ Idle.halt = <<>>
  BY DEF Idle
<1>4. Steps
  BY <1>2, IdleType DEF Steps
<1>5. Storing /\ InMap /\ Placed /\ OneNamePerId
  BY <1>2 DEF Storing, InMap, Placed, OneNamePerId
<1>6. InMount /\ InSwap /\ InHalt /\ Waits
  BY <1>2, <1>3 DEF InMount, InSwap, InHalt, Waits, Mounting, Closed
<1>7. NoState \in [meta : Metas, recs : SUBSET Values]
      /\ Unknown \in [Values -> {"any", "in", "out"}]
  BY IdleType DEF NoState, Unknown
<1>8. LTypeOK
  BY <1>1, <1>2, <1>7, IdleType DEF LTypeOK
<1>9. StoppedOnce
  BY <1>1 DEF StoppedOnce
<1> QED
  BY <1>4, <1>5, <1>6, <1>8, <1>9 DEF HolderInv

(* A request, or Start, begins. *)
LEMMA ServeStep ==
  ASSUME LTypeOK, Places, StoppedOnce,
         Start \/ \E p \in Handlers : Reload(p) \/ \E n \in Names : Define(p, n)
  PROVE  LTypeOK' /\ Places' /\ StoppedOnce'
<1>1. ASSUME NEW p \in Procs, NEW op \in {"start", "define", "reload"},
             NEW list \in Seq([name : Names, def : Def \cup {None}]),
             proc[p].pc = "idle", Serve(p, op, list)
      PROVE  LTypeOK' /\ Places' /\ StoppedOnce'
  <2>1. UNCHANGED <<defs, redis, sets, holders, ready, epochs, panic, truth, published>>
    BY <1>1 DEF Serve, history
  <2>2. \E y : Goes(p, y) /\ Alike(proc[p], y)
    BY <1>1, ServeGoes DEF Places
  <2>3. Places' /\ proc' \in [Procs -> ProcState]
    BY <2>1, <2>2, QuietStep
  <2> QED
    BY <2>1, <2>3 DEF LTypeOK, StoppedOnce
<1>2. CASE Start
  <2>1. PICK list \in LoadDefinitions : Serve(Boot, "start", list)
    BY <1>2 DEF Start
  <2>2. list \in Seq([name : Names, def : Def \cup {None}])
    BY DefinitionsGive
  <2>3. Boot \in Procs /\ proc[Boot].pc = "idle"
    BY <1>2 DEF Start, Procs
  <2> QED
    BY <1>1, <2>1, <2>2, <2>3
<1>3. ASSUME NEW p \in Handlers, Reload(p) PROVE LTypeOK' /\ Places' /\ StoppedOnce'
  <2>1. PICK list \in LoadDefinitions : Serve(p, "reload", list)
    BY <1>3 DEF Reload
  <2>2. list \in Seq([name : Names, def : Def \cup {None}])
    BY DefinitionsGive
  <2>3. p \in Procs /\ proc[p].pc = "idle"
    BY <1>3 DEF Reload, Procs
  <2> QED
    BY <1>1, <2>1, <2>2, <2>3
<1>4. ASSUME NEW p \in Handlers, NEW n \in Names, Define(p, n)
      PROVE  LTypeOK' /\ Places' /\ StoppedOnce'
  <2> DEFINE e == [name |-> n, def |-> defs[n]]
             E == [name : Names, def : Def \cup {None}]
  <2>1. Serve(p, "define", <<e>>)
    BY <1>4 DEF Define
  <2>2. e \in E
    BY DEF LTypeOK
  <2> HIDE DEF e, E
  <2>3. <<e>> \in Seq(E)
    BY <2>2
  <2>4. p \in Procs /\ proc[p].pc = "idle"
    BY <1>4 DEF Define, Procs
  <2> QED
    BY <1>1, <2>1, <2>3, <2>4 DEF E
<1> QED
  BY <1>2, <1>3, <1>4

(* A step of a goroutine. *)
LEMMA GoroutineStep ==
  ASSUME LTypeOK, Places, StoppedOnce, NEW p \in Procs, Goroutine(p) \/ MountFails(p)
  PROVE  LTypeOK' /\ Places' /\ StoppedOnce'
<1>1. CASE \/ ServeNext(p) \/ ReloadGone(p) \/ ReloadEnd(p)
           \/ MountGet(p) \/ MountMeta(p) \/ MountRecords(p) \/ DropEnd(p)
  <2>1. /\ UNCHANGED <<defs, redis, sets, holders, ready, epochs, panic, truth, published>>
        /\ \E y : Goes(p, y) /\ Alike(proc[p], y)
    BY <1>1, AloneGoes DEF Places
  <2>2. Places' /\ proc' \in [Procs -> ProcState]
    BY <2>1, QuietStep
  <2> QED
    BY <2>1, <2>2 DEF LTypeOK, StoppedOnce
<1>2. CASE StartEnd(p) \/ DefineEnd(p) \/ MountFails(p)
  BY <1>2, EndStep
<1>3. CASE MountReset(p)
  BY <1>3, ResetStep
<1>4. CASE MountSwap(p)
  BY <1>4, SwapStep
<1>5. CASE MountStart(p)
  BY <1>5, StartStep
<1>6. CASE DropDelete(p)
  BY <1>6, DropStep
<1>7. CASE HaltClose(p)
  BY <1>7, CloseStep
<1>8. CASE HaltWait(p) \/ HaltWipe(p)
  BY <1>8, EndedStep
<1> QED
  BY <1>1, <1>2, <1>3, <1>4, <1>5, <1>6, <1>7, <1>8 DEF Goroutine

(* Every step keeps the invariant. *)
LEMMA InvNext ==
  ASSUME HolderInv, [LNext]_lvars
  PROVE  HolderInv'
<1>0. LTypeOK /\ Places /\ StoppedOnce
  BY InvParts
<1> SUFFICES LTypeOK' /\ Places' /\ StoppedOnce'
  BY DEF HolderInv, Places
<1>1. ASSUME NEW n \in Names, NEW d \in Def \cup {None}, Edit(n, d)
      PROVE  LTypeOK' /\ Places' /\ StoppedOnce'
  <2>1. UNCHANGED <<redis, sets, holders, proc, ready, epochs, panic, truth, published>>
    BY <1>1 DEF Edit, history
  <2>2. defs' \in [Names -> Def \cup {None}]
    BY <1>0, <1>1 DEF Edit, LTypeOK
  <2>3. SameHolders /\ Storing'
    BY <1>0, <2>1 DEF SameHolders, Places, Storing
  <2>4. Places'
    BY <1>0, <2>1, <2>3, StillStep
  <2> QED
    BY <1>0, <2>1, <2>2, <2>4 DEF LTypeOK, StoppedOnce
<1>2. ASSUME NEW n \in Names, NEW op \in {"add", "remove"}, NEW v \in Values, Submit(n, op, v)
      PROVE  LTypeOK' /\ Places' /\ StoppedOnce'
  <2>1. LTypeOK' /\ SameHolders /\ Storing' /\ UNCHANGED <<sets, proc, panic>>
    BY <1>0, <1>2, SubmitStep DEF Places
  <2> QED
    BY <1>0, <2>1, StillStep DEF StoppedOnce
<1>3. ASSUME NEW h \in DOMAIN holders, Holder(h)
      PROVE  LTypeOK' /\ Places' /\ StoppedOnce'
  <2>1. LTypeOK' /\ SameHolders /\ Storing' /\ UNCHANGED <<sets, proc, panic>>
    BY <1>0, <1>3, HolderStep DEF Places
  <2> QED
    BY <1>0, <2>1, StillStep DEF StoppedOnce
<1>4. CASE Start \/ \E p \in Handlers : Reload(p) \/ \E n \in Names : Define(p, n)
  BY <1>0, <1>4, ServeStep
<1>5. ASSUME NEW p \in Procs, Goroutine(p) \/ MountFails(p)
      PROVE  LTypeOK' /\ Places' /\ StoppedOnce'
  BY <1>0, <1>5, GoroutineStep
<1>6. CASE Crash
  <2>1. UNCHANGED <<defs, redis, epochs, panic, truth, published>> /\ Die
    BY <1>6 DEF Crash, history
  <2> QED
    BY <1>0, <2>1, DieGives DEF LTypeOK, StoppedOnce
<1>7. CASE UNCHANGED lvars
  <2>1. UNCHANGED <<defs, redis, sets, holders, proc, ready, epochs, panic, truth, published>>
    BY <1>7 DEF lvars, history
  <2>2. SameHolders /\ Storing'
    BY <1>0, <2>1 DEF SameHolders, Places, Storing
  <2>3. Places'
    BY <1>0, <2>1, <2>2, StillStep
  <2> QED
    BY <1>0, <2>1, <2>3 DEF LTypeOK, StoppedOnce
<1> QED
  BY <1>1, <1>2, <1>3, <1>4, <1>5, <1>6, <1>7 DEF LNext

(***************************************************************************)
(* Every holder is in the map, about to enter it, on the list of the one   *)
(* goroutine that stops it, or stopped: keeper.go, mount, drop, shutdown.  *)
(***************************************************************************)
THEOREM HoldersPlaced == LSpec => []HolderInv
<1>1. LInit => HolderInv
  BY InvInit
<1>2. HolderInv /\ [LNext]_lvars => HolderInv'
  BY InvNext
<1> QED
  BY <1>1, <1>2, PTL DEF LSpec

(* Types, for any number of names, requests and crashes. *)
THEOREM LifecycleTypeCorrect == LSpec => []LTypeOK
<1>1. HolderInv => LTypeOK
  BY DEF HolderInv
<1> QED
  BY <1>1, HoldersPlaced, PTL

(***************************************************************************)
(* However many defines, reloads, renames and drops overlap, shutdown      *)
(* closes the stop channel of a holder at most once (keeper.go).           *)
(***************************************************************************)
THEOREM LifecycleStoppedOnce == LSpec => []StoppedOnce
<1>1. HolderInv => StoppedOnce
  BY DEF HolderInv
<1> QED
  BY <1>1, HoldersPlaced, PTL

(***************************************************************************)
(* No two names serve one definition: mount takes out every name that the  *)
(* id had before, in the step in which it enters the new one.              *)
(***************************************************************************)
THEOREM LifecycleOneNamePerId == LSpec => []OneNamePerId
<1>1. HolderInv => OneNamePerId
  BY DEF HolderInv
<1> QED
  BY <1>1, HoldersPlaced, PTL

(***************************************************************************)
(* No planner and committer run on that nobody can reach: a holder that    *)
(* runs is in the map, or stopped, or on a list of holders to stop.        *)
(***************************************************************************)
THEOREM LifecycleNoLeak == LSpec => []NoLeak
<1>1. HolderInv => NoLeak
  <2>1. SUFFICES ASSUME HolderInv, NEW h \in DOMAIN holders, holders[h].run = "up",
                        ~holders[h].stop, \A n \in Names : sets[n] # h
                 PROVE  \E p \in Procs : \E e \in ToSet(proc[p].halt) : e.h = h
    BY DEF NoLeak
  <2>2. \A p \in Procs : proc[p].pc = "swap" => holders[proc[p].h].run = "new"
    BY <2>1 DEF HolderInv, InSwap
  <2>3. PICK p \in Procs : Halts(proc[p], h)
    BY <2>1, <2>2 DEF HolderInv, Placed
  <2>4. PICK i \in DOMAIN proc[p].halt : proc[p].halt[i].h = h
    BY <2>3 DEF Halts
  <2>5. proc[p].halt[i] \in ToSet(proc[p].halt)
    BY <2>4 DEF ToSet
  <2> QED
    BY <2>4, <2>5
<1> QED
  BY <1>1, HoldersPlaced, PTL
==============================================================================
