----------------------------- MODULE ServiceProofs -----------------------------
(***************************************************************************)
(* Proofs about the process around the pipeline, for every definition of   *)
(* the set, every event, every width of addresses and every number of      *)
(* handlers and slots: the slots of the bus are exactly those of the       *)
(* goroutines that have not ended, an acknowledged addition is found for   *)
(* its whole lifetime, what is stored is canonical, spellings of the same  *)
(* addresses or number are one member, and an object in Redis is read back *)
(* as it was packed or refused.                                            *)
(***************************************************************************)
EXTENDS Service, FiniteSetTheorems, TLAPS

(* What a handler has: a slot, from the event on until it ends. *)
Called(c) ==
  /\ DOMAIN c = {"pc", "ev", "slot", "recs", "exp", "due", "reply"}
  /\ c.pc \in {"free", "work", "queued", "replied"}
  /\ c.slot \in BOOLEAN /\ (c.slot = TRUE <=> c.pc # "free")

Calls == DOMAIN call = Handlers /\ \A h \in Handlers : Called(call[h])

(* What a handler that got past the tests of Submit has made of its event. *)
Passed(c) ==
  /\ c.ev \in Events[def]
  /\ \A i \in DOMAIN c.ev.values : Canon(c.ev.values[i]).err = "none"
  /\ \A r \in RangeOf(c.recs) : \E i \in DOMAIN c.ev.values : r = Record(c.ev, i)
  /\ \A i \in DOMAIN c.ev.values : \E r \in RangeOf(c.recs) : r.value = Record(c.ev, i).value
  /\ c.due \in Int /\ (c.due > 0 => Op(c.ev) = "add" /\ c.exp = c.due)

Handling ==
  /\ \A h \in Handlers : call[h].pc = "work" => call[h].ev \in Events[def]
  /\ \A h \in Handlers : call[h].pc = "queued" => Passed(call[h])

(* What was acknowledged is an entry with the lifetime asked for. *)
Kept ==
  \A x \in Texts :
    /\ promised[x] \in Int
    /\ promised[x] > clock =>
         /\ Canon(x).err = "none" /\ Denotes(x) \in DOMAIN entries
         /\ entries[Denotes(x)].exp = promised[x]

ServiceInv ==
  /\ def \in Definitions /\ clock \in Nat /\ DOMAIN promised = Texts
  /\ Calls /\ SlotsExact /\ Handling /\ Kept

-----------------------------------------------------------------------------
(* The loop of Submit over the values of an event *)

(* A set of numbers has a least one. *)
LEMMA LeastNumber ==
  ASSUME NEW T, T \subseteq Nat, T # {}
  PROVE  \E x \in T : \A y \in T : x <= y
<1> DEFINE Less == {p \in Nat \X Nat : p[1] < p[2]}
<1>1. IsWellFoundedOn(Less, Nat)
  BY NatLessThanWellFounded DEF OpToRel
<1> HIDE DEF Less
<1>2. PICK x \in T : \A y \in T : ~(<<y, x>> \in Less)
  BY <1>1, WFMin
<1>3. \A y \in T : y < x => <<y, x>> \in Less
  BY DEF Less
<1>4. \A y \in T : ~(y < x) => x <= y
  OBVIOUS
<1> QED
  BY <1>2, <1>3, <1>4, Zenon

(* One more value: a record, unless there is one. *)
After(ev, i, s) ==
  IF \E r \in RangeOf(s) : r.value = Record(ev, i).value THEN s ELSE Append(s, Record(ev, i))

(* The records after each value. *)
IsLoop(ev, g, n) ==
  g = [i \in 0..n |-> IF i = 0 THEN <<>> ELSE After(ev, i, g[i - 1])]

(* The loop runs to its end. *)
LEMMA LoopRuns ==
  ASSUME NEW ev, NEW n \in Nat
  PROVE  \E g : IsLoop(ev, g, n)
<1> DEFINE Bad == {k \in Nat : ~\E g : IsLoop(ev, g, k)}
<1> Bad \subseteq Nat
  OBVIOUS
<1>1. SUFFICES ASSUME Bad # {} PROVE FALSE
  OBVIOUS
<1> HIDE DEF Bad
<1>2. PICK k \in Bad : \A m \in Bad : k <= m
  BY <1>1, LeastNumber
<1> USE DEF Bad
<1>3. k # 0
  <2> DEFINE g == [i \in 0..0 |-> <<>>]
  <2>1. IsLoop(ev, g, 0)
    BY DEF IsLoop
  <2> QED
    BY <2>1
<1>4. k - 1 \in Nat /\ k - 1 \notin Bad
  BY <1>2, <1>3
<1>5. PICK g : IsLoop(ev, g, k - 1)
  BY <1>4
<1> DEFINE f == [i \in 0..k |-> IF i = k THEN After(ev, k, g[k - 1]) ELSE g[i]]
<1>6. \A i \in 0..(k - 1) : g[i] = IF i = 0 THEN <<>> ELSE After(ev, i, g[i - 1])
  BY <1>5 DEF IsLoop
<1>7. \A i \in 0..k : f[i] = IF i = 0 THEN <<>> ELSE After(ev, i, f[i - 1])
  BY <1>3, <1>4, <1>6
<1>8. IsLoop(ev, f, k)
  <2>1. f = [i \in 0..k |-> f[i]]
    OBVIOUS
  <2> HIDE DEF f
  <2> QED
    BY <1>7, <2>1 DEF IsLoop
<1> QED
  BY <1>8

(* The records stand for the values of the event: each for one, and one for each. *)
LEMMA RecordsAre ==
  ASSUME NEW ev, Len(ev.values) \in Nat
  PROVE  /\ \A r \in RangeOf(Records(ev)) : \E i \in 1..Len(ev.values) : r = Record(ev, i)
         /\ \A i \in 1..Len(ev.values) : \E r \in RangeOf(Records(ev)) : r.value = Record(ev, i).value
<1> DEFINE n == Len(ev.values)
           R == {Record(ev, i) : i \in 1..n}
           upTo == CHOOSE g : IsLoop(ev, g, n)
           Fine(i) == /\ upTo[i] \in Seq(R)
                      /\ \A k \in 1..i : \E r \in RangeOf(upTo[i]) : r.value = Record(ev, k).value
           Bad == {i \in 0..n : ~Fine(i)}
<1>1. IsLoop(ev, upTo, n)
  BY LoopRuns
<1>2. Records(ev) = upTo[n]
  BY Zenon DEF Records, IsLoop, After
<1> HIDE DEF upTo, R
<1>3. \A i \in 0..n : upTo[i] = IF i = 0 THEN <<>> ELSE After(ev, i, upTo[i - 1])
  BY <1>1 DEF IsLoop
<1>4. Bad = {}
  <2> Bad \subseteq Nat
    OBVIOUS
  <2>1. SUFFICES ASSUME Bad # {} PROVE FALSE
    OBVIOUS
  <2> HIDE DEF Bad
  <2>2. PICK i \in Bad : \A m \in Bad : i <= m
    BY <2>1, LeastNumber
  <2>3. i \in 0..n /\ ~Fine(i)
    BY DEF Bad
  <2>4. i # 0
    <3>1. upTo[0] = <<>> /\ <<>> \in Seq(R) /\ 1..0 = {}
      BY <1>3
    <3> QED
      BY <2>3, <3>1
  <2>5. i - 1 \in 0..n /\ i - 1 \notin Bad
    BY <2>2, <2>3, <2>4
  <2>6. Fine(i - 1)
    BY <2>5 DEF Bad
  <2> DEFINE s == upTo[i - 1]
             e == Record(ev, i)
  <2>7. s \in Seq(R) /\ e \in R /\ upTo[i] = After(ev, i, s)
    BY <1>3, <2>3, <2>4, <2>6 DEF R
  <2>8. \A k \in 1..i : k \in 1..(i - 1) \/ k = i
    BY <2>3
  <2>9. \A k \in 1..(i - 1) : \E r \in RangeOf(s) : r.value = Record(ev, k).value
    BY <2>6
  <2> HIDE DEF s, e
  <2>10. CASE \E r \in RangeOf(s) : r.value = Record(ev, i).value
    BY <2>3, <2>7, <2>8, <2>9, <2>10 DEF After
  <2>11. CASE ~\E r \in RangeOf(s) : r.value = Record(ev, i).value
    <3>1. upTo[i] = Append(s, e)
      BY <2>7, <2>11 DEF After, e
    <3>2. Append(s, e) \in Seq(R) /\ RangeOf(s) \subseteq RangeOf(Append(s, e)) /\ e \in RangeOf(Append(s, e))
      <4>1. /\ Append(s, e) \in Seq(R)
            /\ DOMAIN Append(s, e) = DOMAIN s \cup {Len(s) + 1}
            /\ \A m \in DOMAIN s : Append(s, e)[m] = s[m]
            /\ Append(s, e)[Len(s) + 1] = e
        BY <2>7
      <4> QED
        BY <4>1, Zenon DEF RangeOf
    <3> QED
      BY <2>3, <2>8, <2>9, <3>1, <3>2 DEF e
  <2> QED
    BY <2>10, <2>11
<1>5. upTo[n] \in Seq(R) /\ \A k \in 1..n : \E r \in RangeOf(upTo[n]) : r.value = Record(ev, k).value
  <2>1. n \in 0..n
    OBVIOUS
  <2> QED
    BY <1>4, <2>1
<1>6. \A r \in RangeOf(upTo[n]) : r \in R
  BY <1>5 DEF RangeOf
<1> QED
  BY <1>2, <1>5, <1>6 DEF R

-----------------------------------------------------------------------------
(* The tests of Submit, and lifetimes *)

(* Who passes has values that can be canonical, and a lifetime. *)
LEMMA TestsPassed ==
  ASSUME NEW ev, Refusal(ev) = "none"
  PROVE  /\ \A i \in DOMAIN ev.values : Canon(ev.values[i]).err = "none"
         /\ Op(ev) = "add" => ~(Lifetime(ev) <= 0)
<1>1. ValueError(ev) = "none" /\ (Op(ev) = "add" => ~(Lifetime(ev) <= 0))
  BY DEF Refusal
<1>2. {i \in DOMAIN ev.values : Canon(ev.values[i]).err # "none"} = {}
  BY <1>1, Zenon DEF ValueError
<1> QED
  BY <1>1, <1>2

(* What is used of the powers of two. *)
LEMMA IntRange ==
  /\ IntMax \in Nat /\ 2^IntBits = 2 * (IntMax + 1) /\ Second \in Nat \ {0}
<1>1. IntBits - 1 \in 0..(V6Bits + IntBits) /\ (IntBits - 1) + 1 = IntBits /\ Second \in Nat \ {0}
  BY ValuesAssumption
<1>2. 2^(IntBits - 1) \in Nat \ {0} /\ 2^((IntBits - 1) + 1) = 2 * 2^(IntBits - 1)
  BY <1>1, PowersOfTwo
<1> QED
  BY <1>1, <1>2 DEF IntMax

(* A remainder. *)
LEMMA SmallMod ==
  ASSUME NEW a \in Nat, NEW m \in Nat, a < m
  PROVE  a % m = a
  OBVIOUS

(* A number that an integer holds stays what it is. *)
LEMMA WrapSmall ==
  ASSUME NEW n \in Nat, n <= IntMax
  PROVE  Wrap(n) = n
<1>1. (n + IntMax + 1) \in Nat /\ 2^IntBits \in Nat /\ n + IntMax + 1 < 2^IntBits
  BY IntRange
<1>2. (n + IntMax + 1) % 2^IntBits = n + IntMax + 1
  BY <1>1, SmallMod
<1> QED
  BY <1>2, IntRange DEF Wrap

(* The others are integers. *)
LEMMA WrapType ==
  ASSUME NEW n \in Int
  PROVE  Wrap(n) \in Int
<1>1. (n + IntMax + 1) \in Int /\ 2^IntBits \in Nat \ {0}
  BY IntRange
<1>2. \A a \in Int, m \in Nat \ {0} : a % m \in Int
  OBVIOUS
<1>3. (n + IntMax + 1) % 2^IntBits \in Int
  BY <1>1, <1>2
<1> QED
  BY <1>3, IntRange DEF Wrap

LEMMA LifetimeType ==
  ASSUME def \in Definitions, NEW ev \in Events[def]
  PROVE  Lifetime(ev) \in Int
<1>1. ev.ttl \in Int /\ def.ttl.unit \in DOMAIN Units
  BY ServiceAssumption
<1>2. \A u \in DOMAIN Units : Units[u] \in Nat
  BY DEF Units
<1>3. ParseSeconds(def.ttl) \in Int
  <2>1. CASE def.ttl.n \in 1..IntMax
    <3>1. def.ttl.n * Units[def.ttl.unit] \in Int
      BY <1>1, <1>2, <2>1, IntRange
    <3> QED
      BY <2>1, <3>1, WrapType DEF ParseSeconds
  <2>2. CASE def.ttl.n \notin 1..IntMax
    BY <2>2 DEF ParseSeconds
  <2> QED
    BY <2>1, <2>2
<1> QED
  BY <1>1, <1>3 DEF Lifetime

(* An expiry that does not overflow is the one asked for. *)
LEMMA ExpiryIs ==
  ASSUME NEW t \in Nat, NEW ttl \in Int, ttl > 0, ttl * Second <= IntMax
  PROVE  ExpiryOf(t, ttl) = t + ttl * Second /\ t + ttl * Second \in Int
<1>1. ttl * Second \in Nat
  BY IntRange
<1>2. Wrap(ttl * Second) = ttl * Second
  BY <1>1, WrapSmall
<1> QED
  BY <1>1, <1>2 DEF ExpiryOf

-----------------------------------------------------------------------------
(* Handlers and their slots *)

(* A handler that serves nothing. *)
LEMMA NoCallIs ==
  /\ Called(NoCall) /\ NoCall.pc = "free" /\ NoCall.slot = FALSE
  /\ DOMAIN NoCall = {"pc", "ev", "slot", "recs", "exp", "due", "reply"}
  BY Zenon DEF NoCall, Called

(* The handlers with a slot. *)
Busy == {h \in Handlers : call[h].pc # "free"}

(* Who has a slot is not free. *)
LEMMA SlotsBusy ==
  ASSUME Calls
  PROVE  {h \in Handlers : call[h].slot} = Busy /\ IsFiniteSet(Busy) /\ Cardinality(Busy) \in Nat
<1>1. \A h \in Handlers : call[h].slot <=> call[h].pc # "free"
  <2> SUFFICES ASSUME NEW h \in Handlers PROVE call[h].slot <=> call[h].pc # "free"
    OBVIOUS
  <2>1. call[h].slot \in BOOLEAN /\ (call[h].slot = TRUE <=> call[h].pc # "free")
    BY DEF Calls, Called
  <2> QED
    BY <2>1, Zenon
<1>2. Busy \in SUBSET Handlers
  BY DEF Busy
<1>3. IsFiniteSet(Busy)
  BY <1>2, FS_Subset, ServiceAssumption
<1> QED
  BY <1>1, <1>3, FS_CardinalityType DEF Busy

(* The same of the next state, whatever the calls are. *)
LEMMA SlotsBusyNext ==
  ASSUME Calls'
  PROVE  {h \in Handlers : call'[h].slot} = {h \in Handlers : call'[h].pc # "free"}
<1>1. \A h \in Handlers : call'[h].slot <=> call'[h].pc # "free"
  <2> SUFFICES ASSUME NEW h \in Handlers PROVE call'[h].slot <=> call'[h].pc # "free"
    OBVIOUS
  <2>1. call'[h].slot \in BOOLEAN /\ (call'[h].slot = TRUE <=> call'[h].pc # "free")
    BY DEF Calls, Called
  <2> QED
    BY <2>1, Zenon
<1> QED
  BY <1>1

(* A step of one handler that stays busy. *)
StaysBusy(h) ==
  /\ call[h].pc # "free" /\ slots' = slots
  /\ DOMAIN call' = Handlers /\ \A g \in Handlers \ {h} : call'[g] = call[g]
  /\ Called(call'[h]) /\ call'[h].pc # "free"

LEMMA StaysBusyKeeps ==
  ASSUME Calls, SlotsExact, NEW h \in Handlers, StaysBusy(h)
  PROVE  Calls' /\ SlotsExact'
<1>1. Calls'
  BY DEF Calls, StaysBusy
<1>2. {g \in Handlers : call'[g].pc # "free"} = Busy
  BY DEF Busy, StaysBusy
<1> QED
  BY <1>1, <1>2, SlotsBusy, SlotsBusyNext DEF SlotsExact, StaysBusy

(* A handler that answers. *)
LEMMA Answers ==
  ASSUME Calls, NEW h \in Handlers, NEW code, Answer(h, code)
  PROVE  /\ DOMAIN call' = Handlers
         /\ \A g \in Handlers \ {h} : call'[g] = call[g]
         /\ Called(call'[h]) /\ call'[h].pc = "replied"
  BY NoCallIs DEF Answer, Calls, Called

(* An event that gets a slot. *)
LEMMA EventSlots ==
  ASSUME Calls, SlotsExact, NEW h \in Handlers, NEW ev, onEvent(h, ev)
  PROVE  /\ Calls' /\ SlotsExact'
         /\ \A g \in Handlers \ {h} : call'[g] = call[g]
         /\ call'[h].pc = "work" /\ call'[h].ev = ev
<1>1. /\ DOMAIN call' = Handlers /\ \A g \in Handlers \ {h} : call'[g] = call[g]
      /\ Called(call'[h]) /\ call'[h].pc = "work" /\ call'[h].ev = ev
      /\ call[h].pc = "free" /\ slots' = slots + 1
  BY NoCallIs DEF onEvent, Calls, Called
<1>2. Calls'
  BY <1>1 DEF Calls
<1>3. {g \in Handlers : call'[g].pc # "free"} = Busy \cup {h} /\ h \notin Busy
  BY <1>1 DEF Busy
<1>4. Cardinality(Busy \cup {h}) = Cardinality(Busy) + 1
  BY <1>3, SlotsBusy, FS_AddElement
<1> QED
  BY <1>1, <1>2, <1>3, <1>4, SlotsBusy, SlotsBusyNext DEF SlotsExact

(* A handler that ends. *)
LEMMA ReleaseSlots ==
  ASSUME Calls, SlotsExact, NEW h \in Handlers, Release(h)
  PROVE  /\ Calls' /\ SlotsExact'
         /\ \A g \in Handlers \ {h} : call'[g] = call[g]
         /\ call'[h].pc = "free"
<1>1. /\ DOMAIN call' = Handlers /\ \A g \in Handlers \ {h} : call'[g] = call[g]
      /\ call'[h] = NoCall /\ call[h].pc = "replied"
  BY DEF Release, Calls
<1>2. call[h].slot = TRUE
  BY <1>1 DEF Calls, Called
<1>3. slots' = slots - 1
  BY <1>2, Zenon DEF Release
<1>4. Calls'
  BY <1>1, NoCallIs DEF Calls
<1>5. {g \in Handlers : call'[g].pc # "free"} = Busy \ {h} /\ h \in Busy
  BY <1>1, NoCallIs DEF Busy
<1>6. Cardinality(Busy \ {h}) = Cardinality(Busy) - 1
  BY <1>5, SlotsBusy, FS_RemoveElement
<1> QED
  BY <1>1, <1>3, <1>4, <1>5, <1>6, NoCallIs, SlotsBusy, SlotsBusyNext DEF SlotsExact

(* The process dies, and its goroutines with it. *)
LEMMA DiesSlots ==
  ASSUME Dies
  PROVE  Calls' /\ SlotsExact' /\ \A h \in Handlers : call'[h].pc = "free"
<1>1. DOMAIN call' = Handlers /\ slots' = 0 /\ \A h \in Handlers : call'[h] = NoCall
  BY DEF Dies
<1>2. Calls'
  BY <1>1, NoCallIs DEF Calls
<1>3. {h \in Handlers : call'[h].pc # "free"} = {}
  BY <1>1, NoCallIs
<1> QED
  BY <1>1, <1>2, <1>3, NoCallIs, SlotsBusyNext, FS_EmptySet DEF SlotsExact

-----------------------------------------------------------------------------
(* Events that are served *)

(* The definition of the set does not change, nor what it makes of an event. *)
LEMMA MeaningStays ==
  ASSUME def' = def
  PROVE  /\ \A x : Canon(x)' = Canon(x) /\ Denotes(x)' = Denotes(x)
         /\ \A c : Passed(c) => Passed(c)'
<1>1. \A x : Canon(x)' = Canon(x) /\ Denotes(x)' = Denotes(x)
  BY DEF Canon, Denotes
<1>2. \A ev, i : Record(ev, i)' = Record(ev, i)
  BY DEF Record, Stored, Canon
<1>3. \A c : Passed(c) => Passed(c)'
  BY <1>1, <1>2 DEF Passed
<1> QED
  BY <1>1, <1>3

(* What Submit hands to the queue. *)
LEMMA SubmitPasses ==
  ASSUME ServiceInv, NEW h \in Handlers, call[h].pc = "work", slots' = slots,
         Submit(h, call[h].ev)
  PROVE  /\ StaysBusy(h)
         /\ call'[h].pc = "replied" \/ (call'[h].pc = "queued" /\ Passed(call'[h]))
<1> DEFINE ev == call[h].ev
<1>0. Calls /\ def \in Definitions /\ clock \in Nat /\ ev \in Events[def]
  BY DEF ServiceInv, Handling
<1>1. CASE Refusal(ev) # "none"
  <2>1. Answer(h, Refusal(ev))
    BY <1>1 DEF Submit
  <2> QED
    BY <1>0, <2>1, Answers DEF StaysBusy
<1>2. CASE Refusal(ev) = "none"
  <2> DEFINE add == Op(ev) = "add"
             exp == IF add THEN ExpiryOf(clock, Lifetime(ev)) ELSE 0
             due == IF add /\ Fits(ev) THEN clock + Lifetime(ev) * Second ELSE 0
             c == call'[h]
  <2>1. call' = [call EXCEPT ![h].pc = "queued", ![h].recs = Records(ev), ![h].exp = exp, ![h].due = due]
    BY <1>2, Zenon DEF Submit
  <2>2. DOMAIN call[h] = {"pc", "ev", "slot", "recs", "exp", "due", "reply"} /\ DOMAIN call = Handlers
    BY <1>0 DEF Calls, Called
  <2> HIDE DEF ev, exp, due
  <2>3. /\ DOMAIN call' = Handlers /\ \A g \in Handlers \ {h} : call'[g] = call[g]
        /\ DOMAIN c = DOMAIN call[h]
        /\ c.pc = "queued" /\ c.recs = Records(ev) /\ c.exp = exp /\ c.due = due
        /\ c.ev = call[h].ev /\ c.slot = call[h].slot
    BY <2>1, <2>2
  <2>4. StaysBusy(h)
    BY <1>0, <2>3 DEF StaysBusy, Calls, Called
  <2>5. /\ \A i \in DOMAIN ev.values : Canon(ev.values[i]).err = "none"
        /\ add => ~(Lifetime(ev) <= 0)
    BY <1>2, TestsPassed
  <2>6. Len(ev.values) \in Nat /\ DOMAIN ev.values = 1..Len(ev.values)
    BY <1>0, ServiceAssumption
  <2>7. /\ \A r \in RangeOf(Records(ev)) : \E i \in DOMAIN ev.values : r = Record(ev, i)
        /\ \A i \in DOMAIN ev.values : \E r \in RangeOf(Records(ev)) : r.value = Record(ev, i).value
    BY <2>6, RecordsAre
  <2>8. due \in Int /\ (due > 0 => add /\ exp = due)
    <3>1. CASE add /\ Fits(ev)
      <4>1. Lifetime(ev) \in Int
        BY <1>0, LifetimeType DEF ev
      <4>2. Lifetime(ev) > 0 /\ Lifetime(ev) * Second <= IntMax
        BY <2>5, <3>1, <4>1 DEF Fits
      <4>3. ExpiryOf(clock, Lifetime(ev)) = clock + Lifetime(ev) * Second
            /\ clock + Lifetime(ev) * Second \in Int
        BY <1>0, <4>1, <4>2, ExpiryIs
      <4> QED
        BY <3>1, <4>3, Zenon DEF exp, due
    <3>2. CASE ~(add /\ Fits(ev))
      BY <3>2 DEF due
    <3> QED
      BY <3>1, <3>2
  <2>9. Passed(c)
    BY <1>0, <2>3, <2>5, <2>7, <2>8 DEF Passed, ev
  <2> QED
    BY <2>3, <2>4, <2>9
<1> QED
  BY <1>1, <1>2

(* What CanonPrefix does, by type. *)
LEMMA CanonIs ==
  ASSUME NEW t, NEW x
  PROVE  /\ x = Blank \/ x = TooLong => CanonPrefix(t, x).err # "none"
         /\ x # Blank /\ x # TooLong =>
              /\ t = "cidr" => CanonPrefix(t, x) = canonCIDR(x)
              /\ t = "numeric" => CanonPrefix(t, x) = canonNumeric(x)
              /\ t # "cidr" /\ t # "numeric" => CanonPrefix(t, x) = Taken(x, NoPrefix)
<1>1. Blank # TooLong
  BY DEF Blank, TooLong
<1>2. x = Blank => CanonPrefix(t, x) = Refused("empty")
  BY <1>1 DEF CanonPrefix
<1>3. x = TooLong => CanonPrefix(t, x) = Refused("too_long")
  BY <1>1 DEF CanonPrefix
<1>4. Refused("empty").err = "empty" /\ Refused("too_long").err = "too_long"
  BY DEF Refused
<1>5. x # Blank /\ x # TooLong /\ t = "cidr" => CanonPrefix(t, x) = canonCIDR(x)
  BY DEF CanonPrefix
<1>6. x # Blank /\ x # TooLong /\ t = "numeric" => CanonPrefix(t, x) = canonNumeric(x)
  BY DEF CanonPrefix
<1>7. x # Blank /\ x # TooLong /\ t # "cidr" /\ t # "numeric" => CanonPrefix(t, x) = Taken(x, NoPrefix)
  BY DEF CanonPrefix
<1> QED
  BY <1>2, <1>3, <1>4, <1>5, <1>6, <1>7

(* Only a set of strings takes hashes, and leaves them as they are. *)
LEMMA HashesTaken ==
  ASSUME NEW t, NEW x, CanonPrefix(t, MD5Hex(x)).err = "none"
  PROVE  t # "cidr" /\ t # "numeric" /\ CanonPrefix(t, MD5Hex(x)) = Taken(MD5Hex(x), NoPrefix)
<1>1. MD5Hex(x) # Blank /\ MD5Hex(x) # TooLong /\ MD5Hex(x).form = "md5"
  BY DEF MD5Hex, Blank, TooLong
<1>2. canonCIDR(MD5Hex(x)) = Refused("wrong_type")
  BY <1>1 DEF canonCIDR
<1>3. canonNumeric(MD5Hex(x)) = Refused("wrong_type")
  BY <1>1 DEF canonNumeric
<1>4. Refused("wrong_type").err = "wrong_type"
  BY DEF Refused
<1> QED
  BY <1>1, <1>2, <1>3, <1>4, CanonIs

(* The values of some records. *)
ValuesIn(recs) == {r.value : r \in RangeOf(recs)}

(* An event about a text has a record with what the text stands for. *)
LEMMA NamedIsStored ==
  ASSUME NEW c, Passed(c), NEW x \in Texts, Named(c.ev, x)
  PROVE  Canon(x).err = "none" /\ Denotes(x) \in ValuesIn(c.recs)
<1> DEFINE ev == c.ev
<1>1. PICK i \in DOMAIN ev.values : ev.values[i] = IF def.hash /\ ev.hashed THEN MD5Hex(x) ELSE x
  BY DEF Named
<1>2. Canon(ev.values[i]).err = "none" /\ Stored(ev, ev.values[i]) \in ValuesIn(c.recs)
  <2>1. PICK r \in RangeOf(c.recs) : r.value = Record(ev, i).value
    BY DEF Passed
  <2>2. Record(ev, i).value = Stored(ev, ev.values[i])
    BY DEF Record
  <2> QED
    BY <2>1, <2>2 DEF Passed, ValuesIn
<1>3. x # Blank /\ x # TooLong
  BY ServiceAssumption
<1>4. Taken(x, NoPrefix).err = "none" /\ Taken(x, NoPrefix).value = x
      /\ Taken(MD5Hex(x), NoPrefix).value = MD5Hex(x)
  BY DEF Taken
<1> HIDE DEF ev
<1>5. CASE def.hash /\ ev.hashed
  <2>1. ev.values[i] = MD5Hex(x)
    BY <1>1, <1>5, Zenon
  <2>2. /\ def.type # "cidr" /\ def.type # "numeric"
        /\ Canon(MD5Hex(x)) = Taken(MD5Hex(x), NoPrefix)
    BY <1>2, <2>1, HashesTaken DEF Canon
  <2>3. Canon(x) = Taken(x, NoPrefix)
    BY <1>3, <2>2, CanonIs DEF Canon
  <2>4. Stored(ev, MD5Hex(x)) = MD5Hex(x)
    BY <1>4, <1>5, <2>2, Zenon DEF Stored
  <2>5. Denotes(x) = MD5Hex(x)
    BY <1>4, <1>5, <2>3, Zenon DEF Denotes
  <2> QED
    BY <1>2, <1>4, <2>1, <2>3, <2>4, <2>5
<1>6. CASE ~(def.hash /\ ev.hashed)
  <2>1. ev.values[i] = x
    BY <1>1, <1>6, Zenon
  <2>2. Stored(ev, x) = Denotes(x)
    BY <1>6, Zenon DEF Stored, Denotes
  <2> QED
    BY <1>2, <2>1, <2>2
<1> QED
  BY <1>5, <1>6

(* The entries that an addition leaves alone, and the others. *)
LEMMA AddedIs ==
  ASSUME NEW recs, NEW until, NEW reason, Added(recs, until, reason)
  PROVE  /\ DOMAIN entries' = DOMAIN entries \cup ValuesIn(recs)
         /\ \A v \in DOMAIN entries : v \notin ValuesIn(recs) => entries'[v] = entries[v]
<1>1. entries' = [v \in DOMAIN entries \cup ValuesIn(recs) |->
        IF \E r \in RangeOf(recs) : r.value = v
        THEN Inserted(CHOOSE r \in RangeOf(recs) : r.value = v, until, reason) ELSE entries[v]]
  BY Zenon DEF Added, ValuesIn
<1>2. \A v : v \in ValuesIn(recs) <=> \E r \in RangeOf(recs) : r.value = v
  BY DEF ValuesIn
<1> QED
  BY <1>1, <1>2, Zenon

LEMMA AddedOne ==
  ASSUME NEW recs, NEW until, NEW reason, Added(recs, until, reason), NEW v \in ValuesIn(recs)
  PROVE  \E r \in RangeOf(recs) :
           /\ r.value = v /\ entries'[v].exp = until
           /\ entries'[v].prefix = IF v \in DOMAIN entries THEN entries[v].prefix ELSE r.prefix
<1> DEFINE q == CHOOSE r \in RangeOf(recs) : r.value = v
<1>1. q \in RangeOf(recs) /\ q.value = v
  BY DEF ValuesIn
<1>2. entries' = [u \in DOMAIN entries \cup ValuesIn(recs) |->
        IF \E r \in RangeOf(recs) : r.value = u
        THEN Inserted(CHOOSE r \in RangeOf(recs) : r.value = u, until, reason) ELSE entries[u]]
  BY Zenon DEF Added, ValuesIn
<1>3. entries'[v] = Inserted(q, until, reason)
  BY <1>1, <1>2, Zenon
<1> HIDE DEF q
<1>4. /\ entries'[v].exp = until
      /\ entries'[v].prefix = IF q.value \in DOMAIN entries THEN entries[q.value].prefix ELSE q.prefix
  BY <1>3 DEF Inserted
<1> QED
  BY <1>1, <1>4

(* The entries after a removal. *)
LEMMA RemovedIs ==
  ASSUME NEW recs, Removed(recs)
  PROVE  /\ DOMAIN entries' = DOMAIN entries \ ValuesIn(recs)
         /\ \A v \in DOMAIN entries' : entries'[v] = entries[v]
<1>1. entries' = [v \in DOMAIN entries \ ValuesIn(recs) |-> entries[v]]
  BY Zenon DEF Removed, ValuesIn
<1> QED
  BY <1>1

(* A handler that got through the pipeline. *)
LEMMA CommitKept ==
  ASSUME ServiceInv, NEW h \in Handlers, Commit(h)
  PROVE  Kept' /\ DOMAIN promised' = Texts
<1>0. PICK c : c = call[h]
  OBVIOUS
<1> DEFINE Vs == ValuesIn(c.recs)
<1>1. Passed(c) /\ clock' = clock /\ def' = def /\ clock \in Nat
  BY <1>0 DEF Commit, ServiceInv, Handling
<1>2. promised' = [x \in Texts |-> IF Named(c.ev, x) THEN c.due
                                   ELSE IF Denotes(x) \in Vs THEN 0 ELSE promised[x]]
  BY <1>0, Zenon DEF Commit, ValuesIn
<1>3. /\ Op(c.ev) = "add" => Added(c.recs, c.exp, c.ev.reason)
      /\ Op(c.ev) # "add" => Removed(c.recs)
  BY <1>0 DEF Commit
<1>4. c.due \in Int /\ (c.due > 0 => Op(c.ev) = "add" /\ c.exp = c.due)
  BY <1>1 DEF Passed
<1> HIDE DEF Vs
<1>5. SUFFICES ASSUME NEW x \in Texts
               PROVE  /\ promised'[x] \in Int
                      /\ promised'[x] > clock =>
                           /\ Canon(x).err = "none" /\ Denotes(x) \in DOMAIN entries'
                           /\ entries'[Denotes(x)].exp = promised'[x]
  <2>1. \A x : Canon(x)' = Canon(x) /\ Denotes(x)' = Denotes(x)
    BY <1>1, MeaningStays
  <2> QED
    BY <1>1, <1>2, <1>5, <2>1 DEF Kept
<1> DEFINE d == Denotes(x)
<1>6. /\ promised[x] \in Int
      /\ promised[x] > clock => Canon(x).err = "none" /\ d \in DOMAIN entries /\ entries[d].exp = promised[x]
  BY DEF ServiceInv, Kept
<1> HIDE DEF d
<1>7. CASE Named(c.ev, x)
  <2>1. promised'[x] = c.due
    BY <1>2, <1>7
  <2>2. Canon(x).err = "none" /\ d \in Vs
    BY <1>1, <1>7, NamedIsStored DEF d, Vs
  <2>3. ASSUME c.due > clock PROVE d \in DOMAIN entries' /\ entries'[d].exp = c.due
    <3>1. Added(c.recs, c.exp, c.ev.reason) /\ c.exp = c.due
      BY <1>1, <1>3, <1>4, <2>3
    <3>2. entries'[d].exp = c.exp
      BY <2>2, <3>1, AddedOne DEF Vs
    <3>3. d \in DOMAIN entries'
      BY <2>2, <3>1, AddedIs DEF Vs
    <3> QED
      BY <3>1, <3>2, <3>3
  <2> QED
    BY <1>4, <2>1, <2>2, <2>3 DEF d
<1>8. CASE ~Named(c.ev, x) /\ d \in Vs
  BY <1>1, <1>2, <1>8 DEF d
<1>9. CASE ~Named(c.ev, x) /\ d \notin Vs
  <2>1. promised'[x] = promised[x]
    BY <1>2, <1>9 DEF d
  <2>2. d \in DOMAIN entries => d \in DOMAIN entries' /\ entries'[d] = entries[d]
    BY <1>3, <1>9, AddedIs, RemovedIs DEF Vs
  <2> QED
    BY <1>6, <2>1, <2>2 DEF d
<1> QED
  BY <1>7, <1>8, <1>9

(* A sweep takes what nobody was promised any more. *)
LEMMA SweepKept ==
  ASSUME ServiceInv, NEW v \in DOMAIN entries, Sweep(v)
  PROVE  Kept' /\ DOMAIN promised' = Texts
<1> DEFINE recs == <<[value |-> v, prefix |-> NoPrefix]>>
<1>1. /\ entries[v].exp \in 1..clock /\ Removed(recs)
      /\ UNCHANGED <<promised, clock, def>> /\ clock \in Nat
  BY DEF Sweep, process, ServiceInv
<1>2. ValuesIn(recs) = {v}
  <2>1. RangeOf(recs) = {[value |-> v, prefix |-> NoPrefix]}
    BY DEF RangeOf
  <2> QED
    BY <2>1 DEF ValuesIn
<1> HIDE DEF recs
<1>3. DOMAIN entries' = DOMAIN entries \ {v} /\ \A u \in DOMAIN entries' : entries'[u] = entries[u]
  BY <1>1, <1>2, RemovedIs
<1>4. \A x : Canon(x)' = Canon(x) /\ Denotes(x)' = Denotes(x)
  BY <1>1, MeaningStays
<1>5. SUFFICES ASSUME NEW x \in Texts
               PROVE  /\ promised[x] \in Int
                      /\ promised[x] > clock =>
                           /\ Canon(x).err = "none" /\ Denotes(x) \in DOMAIN entries'
                           /\ entries'[Denotes(x)].exp = promised[x]
  BY <1>1, <1>4 DEF Kept, ServiceInv
<1>6. /\ promised[x] \in Int
      /\ promised[x] > clock =>
           Canon(x).err = "none" /\ Denotes(x) \in DOMAIN entries /\ entries[Denotes(x)].exp = promised[x]
  BY DEF ServiceInv, Kept
<1>7. promised[x] > clock => Denotes(x) # v
  BY <1>1, <1>6
<1> QED
  BY <1>3, <1>6, <1>7

(* A step that leaves values and lifetimes alone. *)
LEMMA KeptStays ==
  ASSUME Kept, def' = def, promised' = promised, clock \in Nat, clock' \in Nat, clock <= clock',
         DOMAIN entries' = DOMAIN entries, \A v \in DOMAIN entries : entries'[v].exp = entries[v].exp
  PROVE  Kept'
<1>1. \A x : Canon(x)' = Canon(x) /\ Denotes(x)' = Denotes(x)
  BY MeaningStays
<1> QED
  BY <1>1 DEF Kept

(* A step of one handler. *)
LEMMA HandlingStep ==
  ASSUME Handling, NEW h \in Handlers, def' = def,
         \A g \in Handlers \ {h} : call'[g] = call[g],
         call'[h].pc = "work" => call'[h].ev \in Events[def],
         call'[h].pc = "queued" => Passed(call'[h])
  PROVE  Handling'
<1>1. ASSUME NEW g \in Handlers
      PROVE  /\ call'[g].pc = "work" => call'[g].ev \in Events[def']
             /\ call'[g].pc = "queued" => Passed(call'[g])
  BY DEF Handling
<1>2. ASSUME NEW c, Passed(c) PROVE Passed(c)'
  BY <1>2, MeaningStays
<1>3. ASSUME NEW g \in Handlers, call'[g].pc = "queued" PROVE Passed(call[g])'
  <2>1. PICK c : c = call'[g]
    OBVIOUS
  <2>2. Passed(c)'
    BY <1>1, <1>3, <2>1, <1>2
  <2> QED
    BY <2>1, <2>2 DEF Passed
<1> QED
  BY <1>1, <1>3 DEF Handling

(* A step in which no handler takes part. *)
LEMMA HandlersStay ==
  ASSUME Calls, SlotsExact, Handling, def' = def, call' = call, slots' = slots
  PROVE  Calls' /\ SlotsExact' /\ Handling'
<1>1. Calls' /\ SlotsExact'
  BY DEF Calls, SlotsExact
<1>2. Handling'
  <2>1. ASSUME NEW h \in Handlers, call'[h].pc = "queued" PROVE Passed(call[h])'
    <3>1. PICK c : c = call[h]
      OBVIOUS
    <3>2. Passed(c)'
      BY <2>1, <3>1, MeaningStays DEF Handling
    <3> QED
      BY <3>1, <3>2 DEF Passed
  <2> QED
    BY <2>1 DEF Handling
<1> QED
  BY <1>1, <1>2

(* The end of the process. *)
LEMMA DiesStep ==
  ASSUME ServiceInv, Dies, UNCHANGED <<def, entries, promised, clock>>
  PROVE  ServiceInv'
<1>1. Calls' /\ SlotsExact' /\ Handling'
  BY DiesSlots DEF Handling
<1>2. Kept'
  BY KeptStays DEF ServiceInv
<1> QED
  BY <1>1, <1>2 DEF ServiceInv

(* A step of main that leaves handlers and the set alone. *)
LEMMA QuietStep ==
  ASSUME ServiceInv, UNCHANGED <<def, call, slots, entries, promised, clock>>
  PROVE  ServiceInv'
<1>1. Calls' /\ SlotsExact' /\ Handling'
  BY HandlersStay DEF ServiceInv
<1>2. Kept'
  BY KeptStays DEF ServiceInv
<1> QED
  BY <1>1, <1>2 DEF ServiceInv

(* Waiting for PostgreSQL or Redis. *)
LEMMA WaitStep ==
  ASSUME ServiceInv, NEW from, NEW to, Wait(from, to)
  PROVE  ServiceInv'
<1>1. UNCHANGED <<def, entries, promised, clock>>
  BY DEF Wait, Rest, contents
<1>2. Dies \/ UNCHANGED <<call, slots>>
  BY DEF Wait, Alive
<1> QED
  BY <1>1, <1>2, DiesStep, QuietStep

LEMMA BootStep ==
  ASSUME ServiceInv, Boot
  PROVE  ServiceInv'
<1>1. CASE Load \/ Connect \/ Start \/ Serve
  <2>1. UNCHANGED <<def, call, slots, entries, promised, clock>>
    BY <1>1 DEF Load, Connect, Start, Serve, Alive, Rest, contents
  <2> QED
    BY <2>1, QuietStep
<1>2. CASE openDefinitions \/ waitState
  BY <1>2, WaitStep DEF openDefinitions, waitState
<1> QED
  BY <1>1, <1>2 DEF Boot

(* A handler takes a step. *)
LEMMA HandlerStep ==
  ASSUME ServiceInv, NEW h \in Handlers, Handler(h)
  PROVE  ServiceInv'
<1>0. Calls /\ SlotsExact /\ Handling /\ Kept /\ clock \in Nat
  BY DEF ServiceInv
<1>1. CASE Handle(h)
  <2>1. call[h].pc = "work" /\ UNCHANGED <<def, slots, entries, promised, clock>>
    BY <1>1 DEF Handle, contents
  <2>2. Answer(h, "bad_request") \/ Submit(h, call[h].ev)
    BY <1>1 DEF Handle
  <2>3. /\ StaysBusy(h)
        /\ call'[h].pc = "replied" \/ (call'[h].pc = "queued" /\ Passed(call'[h]))
    <3>1. CASE Answer(h, "bad_request")
      BY <1>0, <2>1, <3>1, Answers DEF StaysBusy
    <3>2. CASE Submit(h, call[h].ev)
      BY <2>1, <3>2, SubmitPasses
    <3> QED
      BY <2>2, <3>1, <3>2
  <2>4. Calls' /\ SlotsExact'
    BY <1>0, <2>3, StaysBusyKeeps
  <2>5. Handling'
    BY <1>0, <2>1, <2>3, HandlingStep DEF StaysBusy
  <2>6. Kept'
    BY <1>0, <2>1, KeptStays
  <2> QED
    BY <2>1, <2>4, <2>5, <2>6 DEF ServiceInv
<1>2. CASE Refuse(h)
  <2>1. call[h].pc = "queued" /\ Answer(h, "refused") /\ UNCHANGED <<def, slots, entries, promised, clock>>
    BY <1>2 DEF Refuse, contents
  <2>2. StaysBusy(h) /\ call'[h].pc = "replied"
    BY <1>0, <2>1, Answers DEF StaysBusy
  <2>3. Calls' /\ SlotsExact'
    BY <1>0, <2>2, StaysBusyKeeps
  <2>4. Handling'
    BY <1>0, <2>1, <2>2, HandlingStep DEF StaysBusy
  <2>5. Kept'
    BY <1>0, <2>1, KeptStays
  <2> QED
    BY <2>1, <2>3, <2>4, <2>5 DEF ServiceInv
<1>3. CASE Commit(h)
  <2>1. call[h].pc = "queued" /\ Answer(h, "ok") /\ UNCHANGED <<def, slots, clock>>
    BY <1>3 DEF Commit
  <2>2. StaysBusy(h) /\ call'[h].pc = "replied"
    BY <1>0, <2>1, Answers DEF StaysBusy
  <2>3. Calls' /\ SlotsExact'
    BY <1>0, <2>2, StaysBusyKeeps
  <2>4. Handling'
    BY <1>0, <2>1, <2>2, HandlingStep DEF StaysBusy
  <2>5. Kept' /\ DOMAIN promised' = Texts
    BY <1>3, CommitKept
  <2> QED
    BY <2>1, <2>3, <2>4, <2>5 DEF ServiceInv
<1>4. CASE Release(h)
  <2>1. UNCHANGED <<def, entries, promised, clock>>
    BY <1>4 DEF Release, contents
  <2>2. /\ Calls' /\ SlotsExact'
        /\ \A g \in Handlers \ {h} : call'[g] = call[g]
        /\ call'[h].pc = "free"
    BY <1>0, <1>4, ReleaseSlots
  <2>3. Handling'
    BY <1>0, <2>1, <2>2, HandlingStep
  <2>4. Kept'
    BY <1>0, <2>1, KeptStays
  <2> QED
    BY <2>1, <2>2, <2>3, <2>4 DEF ServiceInv
<1> QED
  BY <1>1, <1>2, <1>3, <1>4 DEF Handler

LEMMA ServiceStep ==
  ASSUME ServiceInv, [SNext]_svars
  PROVE  ServiceInv'
<1>0. Calls /\ SlotsExact /\ Handling /\ Kept /\ clock \in Nat /\ DOMAIN promised = Texts
  BY DEF ServiceInv
<1>1. CASE Exit
  <2>1. Dies /\ UNCHANGED <<def, entries, promised, clock>>
    BY <1>1 DEF Exit, Rest, contents
  <2> QED
    BY <2>1, DiesStep
<1>2. CASE Restart
  <2>1. /\ UNCHANGED <<def, call, slots, promised, clock>>
        /\ entries' = [v \in DOMAIN entries |->
                         [exp |-> entries[v].exp, reason |-> entries[v].reason, prefix |-> NoPrefix]]
    BY <1>2 DEF Restart
  <2>2. DOMAIN entries' = DOMAIN entries /\ \A v \in DOMAIN entries : entries'[v].exp = entries[v].exp
    BY <2>1
  <2>3. Calls' /\ SlotsExact' /\ Handling'
    BY <1>0, <2>1, HandlersStay
  <2>4. Kept'
    BY <1>0, <2>1, <2>2, KeptStays
  <2> QED
    BY <2>1, <2>3, <2>4 DEF ServiceInv
<1>3. ASSUME NEW h \in Handlers, NEW ev \in Events[def], onEvent(h, ev)
      PROVE  ServiceInv'
  <2>1. UNCHANGED <<def, entries, promised, clock>>
    BY <1>3 DEF onEvent, contents
  <2>2. /\ Calls' /\ SlotsExact'
        /\ \A g \in Handlers \ {h} : call'[g] = call[g]
        /\ call'[h].pc = "work" /\ call'[h].ev = ev
    BY <1>0, <1>3, EventSlots
  <2>3. Handling'
    BY <1>0, <2>1, <2>2, HandlingStep
  <2>4. Kept'
    BY <1>0, <2>1, KeptStays
  <2> QED
    BY <2>1, <2>2, <2>3, <2>4 DEF ServiceInv
<1>4. ASSUME NEW v \in DOMAIN entries, Sweep(v)
      PROVE  ServiceInv'
  <2>1. UNCHANGED <<def, call, slots, clock>>
    BY <1>4 DEF Sweep
  <2>2. Calls' /\ SlotsExact' /\ Handling'
    BY <1>0, <2>1, HandlersStay
  <2>3. Kept' /\ DOMAIN promised' = Texts
    BY <1>4, SweepKept
  <2> QED
    BY <2>1, <2>2, <2>3 DEF ServiceInv
<1>5. CASE Clock
  <2>1. UNCHANGED <<def, call, slots, entries, promised>> /\ clock' \in Nat /\ clock <= clock'
    BY <1>0, <1>5, ServiceAssumption DEF Clock, contents
  <2>2. Calls' /\ SlotsExact' /\ Handling'
    BY <1>0, <2>1, HandlersStay
  <2>3. Kept'
    BY <1>0, <2>1, KeptStays
  <2> QED
    BY <2>1, <2>2, <2>3 DEF ServiceInv
<1>6. CASE Overloaded \/ UNCHANGED svars
  <2>1. UNCHANGED <<def, call, slots, entries, promised, clock>>
    BY <1>6 DEF Overloaded, svars, contents
  <2> QED
    BY <2>1, QuietStep
<1> QED
  BY <1>1, <1>2, <1>3, <1>4, <1>5, <1>6, BootStep, HandlerStep DEF SNext

LEMMA ServiceBegins ==
  ASSUME SInit
  PROVE  ServiceInv
<1>1. /\ DOMAIN call = Handlers /\ slots = 0 /\ \A h \in Handlers : call[h] = NoCall
      /\ def \in Definitions /\ clock = 1 /\ DOMAIN promised = Texts /\ \A x \in Texts : promised[x] = 0
  BY DEF SInit
<1>2. Calls /\ Handling
  BY <1>1, NoCallIs DEF Calls, Handling
<1>3. Kept
  BY <1>1 DEF Kept
<1>4. Busy = {}
  BY <1>1, NoCallIs DEF Busy
<1>5. SlotsExact
  BY <1>1, <1>2, <1>4, SlotsBusy, FS_EmptySet DEF SlotsExact
<1> QED
  BY <1>1, <1>2, <1>3, <1>5 DEF ServiceInv

(***************************************************************************)
(* The invariant of the process.                                           *)
(***************************************************************************)
THEOREM ServiceKept == SSpec => []ServiceInv
<1>1. SInit => ServiceInv
  BY ServiceBegins
<1>2. ServiceInv /\ [SNext]_svars => ServiceInv'
  BY ServiceStep
<1> QED
  BY <1>1, <1>2, PTL DEF SSpec

(***************************************************************************)
(* Every way out of the goroutine of an event gives back its slot, and     *)
(* only its own: the bus neither runs out of slots nor exceeds them.       *)
(***************************************************************************)
THEOREM ServiceSlotsExact == SSpec => []SlotsExact
<1>1. ServiceInv => SlotsExact
  BY DEF ServiceInv
<1> QED
  BY <1>1, ServiceKept, PTL

(***************************************************************************)
(* What Submit acknowledged Lookup finds, under the spelling it was given, *)
(* for the whole lifetime asked for: no sweep, restart or write to another *)
(* member ends it early.                                                   *)
(***************************************************************************)
THEOREM ServiceAckedIsFound == SSpec => []AckedIsFound
<1>1. ServiceInv => AckedIsFound
  <2> SUFFICES ASSUME ServiceInv, NEW x \in Texts, promised[x] > clock PROVE Lookup(x)
    BY DEF AckedIsFound
  <2>1. /\ clock \in Nat /\ promised[x] \in Int /\ Canon(x).err = "none"
        /\ Denotes(x) \in DOMAIN entries /\ entries[Denotes(x)].exp = promised[x]
    BY DEF ServiceInv, Kept
  <2>2. entries[Denotes(x)].exp \notin 1..clock
    BY <2>1
  <2> QED
    BY <2>1, <2>2 DEF Lookup
<1> QED
  BY <1>1, ServiceKept, PTL

-----------------------------------------------------------------------------
(* What is stored is canonical *)

(* The width of an address. *)
LEMMA WidthIs ==
  ASSUME NEW fam \in {4, 6}
  PROVE  Width(fam) \in 0..V6Bits /\ 2^Width(fam) \in Nat \ {0}
<1>1. Width(fam) \in 0..V6Bits /\ V6Bits \in Nat /\ IntBits \in Nat
  BY ValuesAssumption DEF Width
<1> QED
  BY <1>1, PowersOfTwo

(* A power of two that a mask uses. *)
LEMMA MaskPower ==
  ASSUME NEW p \in Prefixes
  PROVE  2^(Width(p.fam) - p.bits) \in Nat \ {0}
<1>1. Width(p.fam) - p.bits \in 0..(V6Bits + IntBits)
  BY ValuesAssumption DEF Prefixes, Width
<1> QED
  BY <1>1, PowersOfTwo

(* The remainder of a division. *)
LEMMA RemainderIs ==
  ASSUME NEW m \in Nat \ {0}, NEW q \in Nat, NEW r \in Nat, r < m
  PROVE  (m * q + r) % m = r
<1> DEFINE b == m * q + r
<1>1. b \in Nat
  OBVIOUS
<1>2. b = m * q + r
  OBVIOUS
<1> HIDE DEF b
<1> DEFINE d == b \div m
           s == b % m
<1>3. d \in Nat /\ s \in Nat /\ s < m /\ b = m * d + s
  BY <1>1
<1> HIDE DEF d, s
<1>4. m * (q - d) = s - r
  BY <1>2, <1>3
<1>5. ASSUME NEW k \in Int, k >= 1 PROVE m * k >= m
  BY <1>5
<1>6. ASSUME NEW k \in Int, k <= -1 PROVE m * k <= -m
  BY <1>6
<1>7. q - d \in Int /\ (q - d >= 1 \/ q - d <= -1 \/ q - d = 0)
  BY <1>3
<1>8. s = r
  BY <1>3, <1>4, <1>5, <1>6, <1>7
<1> QED
  BY <1>2, <1>8 DEF s

(* Rounding down to a multiple. *)
LEMMA RoundDown ==
  ASSUME NEW a \in Nat, NEW m \in Nat \ {0}
  PROVE  /\ a - (a % m) \in Nat /\ a - (a % m) <= a /\ (a - (a % m)) % m = 0
         /\ \E q \in Nat : a - (a % m) = m * q
<1> DEFINE q == a \div m
           b == a - (a % m)
<1>1. q \in Nat /\ b = m * q + 0 /\ b \in Nat /\ b <= a
  OBVIOUS
<1> HIDE DEF q
<1>2. (m * q + 0) % m = 0
  BY <1>1, RemainderIs
<1>3. b = m * q
  BY <1>1
<1> HIDE DEF b
<1>4. b \in Nat /\ b <= a /\ b % m = 0 /\ \E k \in Nat : b = m * k
  BY <1>1, <1>2, <1>3
<1> QED
  BY <1>4 DEF b

(* A prefix is masked once. *)
LEMMA MaskedOnce ==
  ASSUME NEW p \in Prefixes
  PROVE  /\ Masked(p) \in Prefixes /\ Masked(Masked(p)) = Masked(p)
         /\ Masked(p).fam = p.fam /\ Masked(p).bits = p.bits
         /\ Masked(p).addr = p.addr - (p.addr % 2^(Width(p.fam) - p.bits))
<1> DEFINE m == 2^(Width(p.fam) - p.bits)
           q == [fam |-> p.fam, addr |-> p.addr - (p.addr % m), bits |-> p.bits]
<1>0. p = [fam |-> p.fam, addr |-> p.addr, bits |-> p.bits] /\ p.fam \in {4, 6}
      /\ p.addr \in Nat /\ p.bits \in Nat /\ p.bits <= Width(p.fam) /\ p.addr < 2^Width(p.fam)
  BY DEF Prefixes
<1>1. m \in Nat \ {0}
  BY MaskPower
<1> HIDE DEF m
<1>2. /\ p.addr - (p.addr % m) \in Nat /\ (p.addr - (p.addr % m)) % m = 0
      /\ p.addr - (p.addr % m) <= p.addr
  BY <1>0, <1>1, RoundDown
<1>3. Masked(p) = q
  BY <1>0 DEF Masked, m
<1>4. q \in Prefixes
  <2>1. p.addr - (p.addr % m) < 2^Width(p.fam)
    BY <1>0, <1>2, WidthIs
  <2> QED
    BY <1>0, <1>2, <2>1 DEF Prefixes
<1>5. Masked(q) = [q EXCEPT !.addr = @ - (@ % m)]
  BY DEF Masked, m
<1>6. q.addr - (q.addr % m) = q.addr
  BY <1>2
<1>7. [q EXCEPT !.addr = @ - (@ % m)] = q
  BY <1>6
<1>8. q.fam = p.fam /\ q.bits = p.bits /\ q.addr = p.addr - (p.addr % m)
  OBVIOUS
<1> HIDE DEF q
<1> QED
  BY <1>3, <1>4, <1>5, <1>7, <1>8 DEF m

(* An address is a prefix of full length, that masking leaves alone, and is no IPv4 *)
(* address in its IPv6 form.                                                        *)
LEMMA UnmapIs ==
  ASSUME NEW fam \in {4, 6}, NEW addr \in Nat, addr < 2^Width(fam)
  PROVE  /\ Masked(Unmap(fam, addr)) = Unmap(fam, addr) /\ materialPrefix(Unmap(fam, addr)) = Unmap(fam, addr)
         /\ Unmap(fam, addr) \in Prefixes /\ Unmap(fam, addr).bits = Width(Unmap(fam, addr).fam)
<1> DEFINE q == Unmap(fam, addr)
<1>1. V4Bits \in 0..(V6Bits + IntBits) /\ V4Bits \in Nat /\ V6Bits \in Nat
  BY ValuesAssumption
<1>2. 2^V4Bits \in Nat \ {0}
  BY <1>1, PowersOfTwo
<1>3. \E f \in {4, 6}, a \in Nat : q = PrefixOf(f, a, Width(f)) /\ ~Is4In6(f, a) /\ a < 2^Width(f)
  <2>1. CASE Is4In6(fam, addr)
    <3>1. q = PrefixOf(4, addr % 2^V4Bits, Width(4))
      BY <2>1 DEF Unmap, Width
    <3>2. addr % 2^V4Bits \in Nat /\ addr % 2^V4Bits < 2^Width(4)
      BY <1>2 DEF Width
    <3>3. ~Is4In6(4, addr % 2^V4Bits)
      BY DEF Is4In6
    <3> HIDE DEF q
    <3> QED
      BY <3>1, <3>2, <3>3
  <2>2. CASE ~Is4In6(fam, addr)
    <3>1. q = PrefixOf(fam, addr, Width(fam))
      BY <2>2 DEF Unmap
    <3> HIDE DEF q
    <3> QED
      BY <2>2, <3>1
  <2> QED
    BY <2>1, <2>2
<1> HIDE DEF q
<1>4. PICK f \in {4, 6}, a \in Nat : q = PrefixOf(f, a, Width(f)) /\ ~Is4In6(f, a) /\ a < 2^Width(f)
  BY <1>3
<1>5. q = [fam |-> f, addr |-> a, bits |-> Width(f)]
  BY <1>4 DEF PrefixOf
<1>6. Width(f) - Width(f) = 0
  BY <1>1 DEF Width
<1>7. Masked(q) = [q EXCEPT !.addr = @ - (@ % 1)]
  BY <1>5, <1>6, PowersOfTwo DEF Masked
<1>8. a - (a % 1) = a
  OBVIOUS
<1>9. Masked(q) = q
  BY <1>5, <1>7, <1>8
<1>10. q.fam = f /\ q.addr = a
  BY <1>5
<1>11. ~(Is4In6(q.fam, q.addr) /\ q.bits >= MapBits)
  BY <1>4, <1>10
<1>12. materialPrefix(q) = Masked(q)
  BY <1>11, Zenon DEF materialPrefix
<1>13. q \in Prefixes /\ q.bits = Width(q.fam)
  BY <1>4, <1>5, WidthIs DEF Prefixes
<1> QED
  BY <1>9, <1>12, <1>13 DEF q

(* What a mirror matches addresses against is a prefix. *)
LEMMA MaterialIs ==
  ASSUME NEW p \in Prefixes
  PROVE  materialPrefix(p) \in Prefixes
<1>0. p.addr \in Nat /\ p.bits \in Nat /\ p.fam \in {4, 6} /\ p.bits <= Width(p.fam)
  BY DEF Prefixes
<1>1. CASE Is4In6(p.fam, p.addr) /\ p.bits >= MapBits
  <2> DEFINE q == PrefixOf(4, p.addr % 2^V4Bits, p.bits - MapBits)
  <2>1. V4Bits \in 0..(V6Bits + IntBits) /\ V4Bits \in Nat /\ V6Bits \in Nat /\ V4Bits < V6Bits
    BY ValuesAssumption
  <2>2. 2^V4Bits \in Nat \ {0}
    BY <2>1, PowersOfTwo
  <2>3. p.addr % 2^V4Bits \in Nat /\ p.addr % 2^V4Bits < 2^V4Bits
    BY <1>0, <2>2
  <2>4. p.bits - MapBits \in Nat /\ p.bits - MapBits <= V4Bits
    BY <1>0, <1>1, <2>1 DEF MapBits, Width, Is4In6
  <2>5. q \in Prefixes
    BY <2>3, <2>4 DEF Prefixes, PrefixOf, Width
  <2>6. materialPrefix(p) = Masked(q)
    BY <1>1, Zenon DEF materialPrefix
  <2> HIDE DEF q
  <2> QED
    BY <2>5, <2>6, MaskedOnce
<1>2. CASE ~(Is4In6(p.fam, p.addr) /\ p.bits >= MapBits)
  <2>1. materialPrefix(p) = Masked(p)
    BY <1>2, Zenon DEF materialPrefix
  <2> QED
    BY <2>1, MaskedOnce
<1> QED
  BY <1>1, <1>2

(* The prefix that Submit knows is the one that is parsed again. *)
LEMMA PrefixAgain ==
  ASSUME NEW t, NEW v, NEW hashed, ParsePrefix(v) = hashed
  PROVE  hashOf(t, v, hashed) = hashOf(t, v, NoPrefix)
  BY DEF hashOf, Material

(* A value is apt: it is its own canonical form, its hash does not need the prefix, and the *)
(* prefix of an address can be parsed from it.                                              *)
Apt(d, v, known) ==
  /\ ~d.hash => CanonPrefix(d.type, v).err = "none" /\ CanonPrefix(d.type, v).value = v
  /\ hashOf(d.type, v, known) = hashOf(d.type, v, NoPrefix)
  /\ d.type = "cidr" => ParsePrefix(v) \in Prefixes

(* What canonCIDR makes of a text. *)
LEMMA CanonAddress ==
  ASSUME NEW x, Spelled(x), canonCIDR(x).err = "none"
  PROVE  /\ canonCIDR(canonCIDR(x).value).err = "none"
         /\ canonCIDR(canonCIDR(x).value).value = canonCIDR(x).value
         /\ canonCIDR(x).value # Blank /\ canonCIDR(x).value # TooLong
         /\ ParsePrefix(canonCIDR(x).value) = canonCIDR(x).prefix
         /\ canonCIDR(x).prefix \in Prefixes
<1>0. /\ \A v, p : Taken(v, p).err = "none" /\ Taken(v, p).value = v /\ Taken(v, p).prefix = p
      /\ Refused("wrong_type").err = "wrong_type"
      /\ \A p : PrefixText(p).form = "prefix" /\ PrefixText(p).prefix = p
      /\ Blank.form = "blank" /\ TooLong.form = "long"
  BY DEF Taken, Refused, PrefixText, Blank, TooLong
<1>1. \A p : canonCIDR(PrefixText(p)) = Taken(PrefixText(Masked(p)), materialPrefix(Masked(p)))
  BY <1>0 DEF canonCIDR
<1>2. \A p : ParsePrefix(PrefixText(p)) = materialPrefix(p)
  BY <1>0 DEF ParsePrefix
<1>3. \E q : /\ canonCIDR(x).value = PrefixText(q) /\ Masked(q) = q
             /\ materialPrefix(q) = canonCIDR(x).prefix /\ materialPrefix(q) \in Prefixes
  <2>1. CASE x.form = "prefix"
    <3>1. canonCIDR(x) = Taken(PrefixText(Masked(x.prefix)), materialPrefix(Masked(x.prefix)))
      BY <2>1 DEF canonCIDR
    <3>2. Masked(Masked(x.prefix)) = Masked(x.prefix)
      BY <2>1, MaskedOnce DEF Spelled
    <3>3. materialPrefix(Masked(x.prefix)) \in Prefixes
      BY <2>1, MaskedOnce, MaterialIs DEF Spelled
    <3> QED
      BY <1>0, <3>1, <3>2, <3>3
  <2>2. CASE x.form = "addr"
    <3> DEFINE q == Unmap(x.fam, x.addr)
    <3>1. canonCIDR(x) = Taken(PrefixText(q), q)
      BY <2>2 DEF canonCIDR
    <3>2. Masked(q) = q /\ materialPrefix(q) = q /\ q \in Prefixes
      BY <2>2, UnmapIs DEF Spelled
    <3> HIDE DEF q
    <3> QED
      BY <1>0, <3>1, <3>2
  <2>3. CASE x.form # "prefix" /\ x.form # "addr"
    <3>1. canonCIDR(x) = Refused("wrong_type")
      BY <2>3 DEF canonCIDR
    <3> QED
      BY <1>0, <3>1
  <2> QED
    BY <2>1, <2>2, <2>3
<1>4. PICK q : /\ canonCIDR(x).value = PrefixText(q) /\ Masked(q) = q
               /\ materialPrefix(q) = canonCIDR(x).prefix /\ materialPrefix(q) \in Prefixes
  BY <1>3
<1>5. canonCIDR(PrefixText(q)).err = "none" /\ canonCIDR(PrefixText(q)).value = PrefixText(q)
  BY <1>0, <1>1, <1>4
<1>6. PrefixText(q) # Blank /\ PrefixText(q) # TooLong
  BY <1>0
<1> QED
  BY <1>2, <1>4, <1>5, <1>6

(* The same of numbers. *)
LEMMA CanonNumber ==
  ASSUME NEW x, canonNumeric(x).err = "none"
  PROVE  /\ canonNumeric(canonNumeric(x).value).err = "none"
         /\ canonNumeric(canonNumeric(x).value).value = canonNumeric(x).value
         /\ canonNumeric(x).value # Blank /\ canonNumeric(x).value # TooLong
<1>0. /\ \A v, p : Taken(v, p).err = "none" /\ Taken(v, p).value = v
      /\ Refused("wrong_type").err = "wrong_type"
  BY DEF Taken, Refused
<1>1. x.form = "int" /\ x.n \in (-IntMax - 1)..IntMax
  BY <1>0 DEF canonNumeric
<1> DEFINE w == IntText(x.n, FALSE)
<1>2. canonNumeric(x) = Taken(w, NoPrefix)
  BY <1>1 DEF canonNumeric
<1>3. w.form = "int" /\ w.n = x.n /\ w # Blank /\ w # TooLong
  BY DEF IntText, Blank, TooLong
<1>4. canonNumeric(w) = Taken(IntText(w.n, FALSE), NoPrefix)
  BY <1>1, <1>3 DEF canonNumeric
<1>5. canonNumeric(w) = Taken(w, NoPrefix)
  BY <1>3, <1>4
<1> HIDE DEF w
<1> QED
  BY <1>0, <1>2, <1>3, <1>5

(* A record of Submit is apt, unless the set keeps hashes of addresses. *)
LEMMA RecordFits ==
  ASSUME def \in Definitions, NEW ev \in Events[def], NEW i \in DOMAIN ev.values,
         Canon(ev.values[i]).err = "none", ~(def.hash /\ def.type = "cidr")
  PROVE  Apt(def, Record(ev, i).value, Record(ev, i).prefix)
<1> DEFINE x == ev.values[i]
           t == def.type
           r == Record(ev, i)
<1>0. Spelled(x) /\ CanonPrefix(t, x).err = "none"
  BY ServiceAssumption DEF Canon
<1>1. r.value = Stored(ev, x) /\ r.prefix = CanonPrefix(t, x).prefix
  BY DEF Record, Canon
<1>2. ~def.hash => r.value = CanonPrefix(t, x).value
  BY <1>1, Zenon DEF Stored, Canon
<1>3. x # Blank /\ x # TooLong
  BY <1>0, CanonIs
<1> HIDE DEF x, t, r
<1>4. CASE t = "cidr"
  <2>1. ~def.hash
    BY <1>4, Zenon DEF t
  <2>2. CanonPrefix(t, x) = canonCIDR(x)
    BY <1>3, <1>4, CanonIs
  <2>3. /\ canonCIDR(r.value).err = "none" /\ canonCIDR(r.value).value = r.value
        /\ r.value # Blank /\ r.value # TooLong /\ ParsePrefix(r.value) = r.prefix
        /\ r.prefix \in Prefixes
    BY <1>0, <1>1, <1>2, <2>1, <2>2, CanonAddress
  <2>4. CanonPrefix(t, r.value) = canonCIDR(r.value)
    BY <1>4, <2>3, CanonIs
  <2>5. hashOf(t, r.value, r.prefix) = hashOf(t, r.value, NoPrefix)
    BY <2>3, PrefixAgain
  <2> QED
    BY <2>3, <2>4, <2>5 DEF Apt, t, r
<1>5. CASE t # "cidr"
  <2>1. hashOf(t, r.value, r.prefix) = hashOf(t, r.value, NoPrefix)
    BY <1>5 DEF hashOf
  <2>2. ~def.hash => CanonPrefix(t, r.value).err = "none" /\ CanonPrefix(t, r.value).value = r.value
    <3>1. CASE t = "numeric"
      <4>1. CanonPrefix(t, x) = canonNumeric(x)
        BY <1>3, <3>1, CanonIs
      <4>2. ~def.hash => /\ canonNumeric(r.value).err = "none" /\ canonNumeric(r.value).value = r.value
                         /\ r.value # Blank /\ r.value # TooLong
        BY <1>0, <1>2, <4>1, CanonNumber
      <4> QED
        BY <3>1, <4>2, CanonIs
    <3>2. CASE t # "numeric"
      <4>1. CanonPrefix(t, x) = Taken(x, NoPrefix)
        BY <1>3, <1>5, <3>2, CanonIs
      <4>2. Taken(x, NoPrefix).value = x
        BY DEF Taken
      <4> QED
        BY <1>0, <1>2, <4>1, <4>2
    <3> QED
      BY <3>1, <3>2
  <2> QED
    BY <1>5, <2>1, <2>2 DEF Apt, t, r
<1> QED
  BY <1>4, <1>5

(* The entries are apt, as far as they were. *)
HoldsApt == ~(def.hash /\ def.type = "cidr") => \A v \in DOMAIN entries : Apt(def, v, entries[v].prefix)

LEMMA CanonicalIsApt == HoldsApt => (~(def.hash /\ def.type = "cidr") => StoredCanonical)
  BY DEF HoldsApt, StoredCanonical, Apt, Canon

(* A handler that got through the pipeline. *)
LEMMA CommitApt ==
  ASSUME ServiceInv, HoldsApt, NEW h \in Handlers, Commit(h)
  PROVE  HoldsApt'
<1>0. PICK c : c = call[h]
  OBVIOUS
<1>1. Passed(c) /\ def' = def /\ def \in Definitions
  BY <1>0 DEF Commit, ServiceInv, Handling
<1>2. /\ Op(c.ev) = "add" => Added(c.recs, c.exp, c.ev.reason)
      /\ Op(c.ev) # "add" => Removed(c.recs)
  BY <1>0 DEF Commit
<1>3. SUFFICES ASSUME ~(def.hash /\ def.type = "cidr"), NEW v \in DOMAIN entries'
               PROVE  Apt(def, v, entries'[v].prefix)
  BY <1>1 DEF HoldsApt, Apt
<1>4. \A u \in DOMAIN entries : Apt(def, u, entries[u].prefix)
  BY <1>3, Zenon DEF HoldsApt
<1>5. CASE v \in DOMAIN entries /\ entries'[v] = entries[v]
  BY <1>4, <1>5
<1>6. CASE ~(v \in DOMAIN entries /\ entries'[v] = entries[v])
  <2>1. Added(c.recs, c.exp, c.ev.reason) /\ v \in ValuesIn(c.recs)
    BY <1>2, <1>3, <1>6, AddedIs, RemovedIs
  <2>2. PICK r \in RangeOf(c.recs) :
          /\ r.value = v
          /\ entries'[v].prefix = IF v \in DOMAIN entries THEN entries[v].prefix ELSE r.prefix
    BY <2>1, AddedOne
  <2>3. PICK i \in DOMAIN c.ev.values : r = Record(c.ev, i)
    BY <1>1 DEF Passed
  <2>4. c.ev \in Events[def] /\ Canon(c.ev.values[i]).err = "none"
    BY <1>1 DEF Passed
  <2>5. Apt(def, r.value, r.prefix)
    BY <1>1, <1>3, <2>3, <2>4, RecordFits
  <2> QED
    BY <1>4, <2>2, <2>5
<1> QED
  BY <1>5, <1>6

LEMMA AptStep ==
  ASSUME ServiceInv, HoldsApt, [SNext]_svars
  PROVE  HoldsApt'
<1>1. ASSUME UNCHANGED <<def, entries>> PROVE HoldsApt'
  BY <1>1 DEF HoldsApt, Apt
<1>2. CASE Restart
  <2>1. /\ def' = def /\ DOMAIN entries' = DOMAIN entries
        /\ \A v \in DOMAIN entries : entries'[v].prefix = NoPrefix
    BY <1>2 DEF Restart
  <2>2. \A v, p : Apt(def, v, p) => Apt(def, v, NoPrefix)
    BY DEF Apt
  <2> QED
    BY <2>1, <2>2 DEF HoldsApt, Apt
<1>3. ASSUME NEW h \in Handlers, Handler(h) PROVE HoldsApt'
  <2>1. CASE Commit(h)
    BY <2>1, CommitApt
  <2>2. CASE Handle(h) \/ Refuse(h) \/ Release(h)
    BY <1>1, <2>2 DEF Handle, Refuse, Release, contents
  <2> QED
    BY <1>3, <2>1, <2>2 DEF Handler
<1>4. ASSUME NEW v \in DOMAIN entries, Sweep(v) PROVE HoldsApt'
  <2>1. /\ def' = def /\ DOMAIN entries' \subseteq DOMAIN entries
        /\ \A u \in DOMAIN entries' : entries'[u] = entries[u]
    BY <1>4, RemovedIs DEF Sweep
  <2> QED
    BY <2>1 DEF HoldsApt, Apt
<1>5. CASE Boot
  BY <1>1, <1>5 DEF Boot, Load, openDefinitions, Connect, waitState, Start, Serve, Wait, Rest, contents
<1>6. CASE Exit
  BY <1>1, <1>6 DEF Exit, Rest, contents
<1>7. ASSUME NEW h \in Handlers, NEW ev \in Events[def], onEvent(h, ev) PROVE HoldsApt'
  BY <1>1, <1>7 DEF onEvent, contents
<1>8. CASE Overloaded \/ Clock \/ UNCHANGED svars
  BY <1>1, <1>8 DEF Overloaded, Clock, svars, contents
<1> QED
  BY <1>2, <1>3, <1>4, <1>5, <1>6, <1>7, <1>8 DEF SNext

(***************************************************************************)
(* What is stored is its own canonical form, and hashes to the same with   *)
(* the prefix that Submit parsed and without it, after a restart: for      *)
(* every width of addresses and every spelling.  The one exception is a    *)
(* set of addresses that are kept as hashes, which nothing in the code     *)
(* rules out: there the MD5 text has no prefix to be parsed from.          *)
(***************************************************************************)
THEOREM ServiceStoredCanonical == SSpec => [](~(def.hash /\ def.type = "cidr") => StoredCanonical)
<1>1. SInit => HoldsApt
  BY DEF SInit, HoldsApt
<1>2. ServiceInv /\ HoldsApt /\ [SNext]_svars => HoldsApt'
  BY AptStep
<1>3. HoldsApt => (~(def.hash /\ def.type = "cidr") => StoredCanonical)
  BY CanonicalIsApt
<1> QED
  BY <1>1, <1>2, <1>3, ServiceKept, PTL DEF SSpec

-----------------------------------------------------------------------------
(* Spellings of the same addresses *)

(* Powers of two: a sum of exponents, and their order. *)
LEMMA PowerOfSum ==
  ASSUME NEW j \in 0..V6Bits, NEW n \in j..V6Bits
  PROVE  2^n = 2^j * 2^(n - j)
<1>0. V6Bits \in Nat /\ IntBits \in Nat
  BY ValuesAssumption
<1> DEFINE Bad == {k \in j..V6Bits : 2^k # 2^j * 2^(k - j)}
<1>1. Bad \subseteq Nat
  BY <1>0
<1>2. SUFFICES ASSUME Bad # {} PROVE FALSE
  OBVIOUS
<1> HIDE DEF Bad
<1>3. PICK k \in Bad : \A y \in Bad : k <= y
  BY <1>1, <1>2, LeastNumber
<1>4. k \in j..V6Bits /\ 2^k # 2^j * 2^(k - j)
  BY DEF Bad
<1>5. 2^j \in Nat
  BY <1>0, PowersOfTwo
<1>6. k # j
  <2>1. j - j = 0
    BY <1>0
  <2>2. 2^j * 2^(j - j) = 2^j
    BY <1>5, <2>1, PowersOfTwo
  <2> QED
    BY <1>4, <2>2
<1> DEFINE i == k - 1
<1>7. i \in j..V6Bits /\ i \notin Bad /\ i + 1 = k /\ (i - j) + 1 = k - j
  BY <1>0, <1>3, <1>4, <1>6
<1>8. i \in 0..(V6Bits + IntBits) /\ i - j \in 0..(V6Bits + IntBits)
  BY <1>0, <1>7
<1> HIDE DEF i
<1>9. 2^i = 2^j * 2^(i - j)
  BY <1>7 DEF Bad
<1>10. 2^k = 2 * 2^i /\ 2^(k - j) = 2 * 2^(i - j) /\ 2^(i - j) \in Nat
  BY <1>7, <1>8, PowersOfTwo
<1>11. \A a, b \in Nat : 2 * (a * b) = a * (2 * b)
  OBVIOUS
<1> QED
  BY <1>4, <1>5, <1>9, <1>10, <1>11

LEMMA PowersDiffer ==
  ASSUME NEW j \in 0..V6Bits, NEW k \in 0..V6Bits, 2^j = 2^k
  PROVE  j = k
<1>0. V6Bits \in Nat /\ IntBits \in Nat
  BY ValuesAssumption
<1>1. ASSUME NEW a \in 0..V6Bits, NEW b \in 0..V6Bits, a < b PROVE 2^a # 2^b
  <2>1. 2^b = 2^a * 2^(b - a)
    BY <1>0, <1>1, PowerOfSum
  <2> DEFINE d == b - a - 1
  <2>2. d \in 0..(V6Bits + IntBits) /\ d + 1 = b - a
    BY <1>0, <1>1
  <2> HIDE DEF d
  <2>3. 2^(b - a) = 2 * 2^d /\ 2^d \in Nat \ {0}
    BY <2>2, PowersOfTwo
  <2>4. 2^a \in Nat \ {0}
    BY <1>0, PowersOfTwo
  <2>5. \A x, y \in Nat \ {0} : x # x * (2 * y)
    OBVIOUS
  <2> QED
    BY <2>1, <2>3, <2>4, <2>5
<1> QED
  BY <1>0, <1>1

(* The addresses of a prefix are an interval, from the masked address on. *)
LEMMA AddressesAre ==
  ASSUME NEW p \in Prefixes
  PROVE  LET M == Masked(p).addr
             m == 2^(Width(p.fam) - p.bits)
         IN  M \in Nat /\ m \in Nat \ {0} /\ Addresses(p) = M..(M + m - 1)
<1> DEFINE M == Masked(p).addr
           m == 2^(Width(p.fam) - p.bits)
           W == 2^Width(p.fam)
<1>1. p.fam \in {4, 6} /\ p.addr \in Nat /\ p.bits \in Nat /\ p.bits <= Width(p.fam) /\ p.addr < W
  BY DEF Prefixes
<1>2. m \in Nat \ {0} /\ W \in Nat \ {0} /\ M = p.addr - (p.addr % m)
  BY <1>1, MaskPower, WidthIs, MaskedOnce
<1>3. W = m * 2^p.bits /\ 2^p.bits \in Nat
  <2>1. Width(p.fam) - p.bits \in 0..V6Bits /\ Width(p.fam) \in (Width(p.fam) - p.bits)..V6Bits
        /\ Width(p.fam) - (Width(p.fam) - p.bits) = p.bits /\ p.bits \in 0..(V6Bits + IntBits)
    BY <1>1, WidthIs, ValuesAssumption
  <2> QED
    BY <2>1, PowerOfSum, PowersOfTwo
<1>4. Addresses(p) = {a \in 0..(W - 1) : a - (a % m) = M}
  BY DEF Addresses
<1> HIDE DEF M, m, W
<1>5. PICK q \in Nat : M = m * q
  BY <1>1, <1>2, RoundDown
<1>6. M \in Nat /\ M <= p.addr
  BY <1>1, <1>2, RoundDown
<1>7. M + m <= W
  <2> DEFINE n == 2^p.bits
  <2>1. n \in Nat /\ W = m * n /\ m * q < m * n
    BY <1>1, <1>2, <1>3, <1>5, <1>6
  <2> HIDE DEF n
  <2>2. ~(q >= n)
    <3>1. \A k \in Nat : m * (n + k) = m * n + m * k /\ m * k \in Nat
      BY <1>2, <2>1
    <3>2. q >= n => q - n \in Nat /\ n + (q - n) = q
      BY <2>1
    <3> QED
      BY <1>2, <2>1, <3>1, <3>2
  <2>3. n - q - 1 \in Nat
    BY <2>1, <2>2
  <2>4. m * n = m * q + m + m * (n - q - 1)
    BY <1>2, <2>1
  <2>5. m * (n - q - 1) \in Nat
    BY <1>2, <2>3
  <2> QED
    BY <1>2, <1>5, <1>6, <2>1, <2>4, <2>5
<1>8. ASSUME NEW a \in 0..(W - 1), a - (a % m) = M PROVE a \in M..(M + m - 1)
  <2>1. a \in Nat /\ a % m \in Nat /\ a % m < m
    BY <1>2, <1>8
  <2> QED
    BY <1>2, <1>6, <1>8, <2>1
<1>9. ASSUME NEW a \in M..(M + m - 1) PROVE a \in 0..(W - 1) /\ a - (a % m) = M
  <2>1. a \in 0..(W - 1) /\ a - M \in Nat /\ a - M < m /\ M + (a - M) = a
    BY <1>2, <1>6, <1>7, <1>9
  <2>2. (m * q + (a - M)) % m = a - M
    BY <1>2, <2>1, RemainderIs
  <2>3. a % m = a - M
    BY <1>5, <2>1, <2>2
  <2> QED
    BY <1>6, <2>1, <2>3
<1>10. Addresses(p) = M..(M + m - 1)
  BY <1>4, <1>8, <1>9
<1> QED
  BY <1>2, <1>6, <1>10 DEF M, m

(* A family and a set of addresses have one masked prefix. *)
LEMMA SameAddresses ==
  ASSUME NEW p \in Prefixes, NEW q \in Prefixes, p.fam = q.fam, Addresses(p) = Addresses(q)
  PROVE  Masked(p) = Masked(q)
<1> DEFINE M == Masked(p).addr
           m == 2^(Width(p.fam) - p.bits)
           N == Masked(q).addr
           n == 2^(Width(q.fam) - q.bits)
<1>1. M \in Nat /\ m \in Nat \ {0} /\ N \in Nat /\ n \in Nat \ {0} /\ M..(M + m - 1) = N..(N + n - 1)
  BY AddressesAre
<1>2. M = N /\ m = n
  <2> HIDE DEF M, m, N, n
  <2>1. M \in N..(N + n - 1) /\ N \in M..(M + m - 1)
    BY <1>1
  <2>2. M = N
    BY <1>1, <2>1
  <2>3. M + m - 1 \in N..(N + n - 1) /\ N + n - 1 \in M..(M + m - 1)
    BY <1>1
  <2> QED
    BY <1>1, <2>2, <2>3
<1>3. p.fam \in {4, 6} /\ p.bits \in 0..Width(p.fam) /\ q.bits \in 0..Width(p.fam) /\ Width(p.fam) \in 0..V6Bits
  BY WidthIs DEF Prefixes
<1>4. Width(p.fam) - p.bits = Width(p.fam) - q.bits
  <2>1. Width(p.fam) - p.bits \in 0..V6Bits /\ Width(p.fam) - q.bits \in 0..V6Bits
    BY <1>3, ValuesAssumption
  <2> QED
    BY <1>2, <2>1, PowersDiffer
<1>5. p.bits = q.bits
  BY <1>3, <1>4
<1>6. /\ Masked(p) \in Prefixes /\ Masked(p).fam = p.fam /\ Masked(p).bits = p.bits
      /\ Masked(q) \in Prefixes /\ Masked(q).fam = q.fam /\ Masked(q).bits = q.bits
  BY MaskedOnce
<1>7. \A a, b \in Prefixes : a.fam = b.fam /\ a.addr = b.addr /\ a.bits = b.bits => a = b
  BY DEF Prefixes
<1> QED
  BY <1>2, <1>5, <1>6, <1>7

(* Texts of addresses. *)
IsAddress(x) == x.form \in {"prefix", "addr"}

LEMMA AddressMeans ==
  ASSUME NEW x, Spelled(x), IsAddress(x)
  PROVE  \E q \in Prefixes :
           /\ Masked(q) = q /\ canonCIDR(x).err = "none" /\ canonCIDR(x).value = PrefixText(q)
           /\ Meaning(x) = [fam |-> q.fam, addrs |-> Addresses(q)]
<1>0. \A v, p : Taken(v, p).err = "none" /\ Taken(v, p).value = v
  BY DEF Taken
<1>1. CASE x.form = "prefix"
  <2> DEFINE p == x.prefix
             q == Masked(p)
  <2>1. p \in Prefixes
    BY <1>1 DEF Spelled
  <2>2. canonCIDR(x) = Taken(PrefixText(q), materialPrefix(q))
    BY <1>1 DEF canonCIDR
  <2>3. Meaning(x) = [fam |-> p.fam, addrs |-> Addresses(p)]
    BY <1>1 DEF Meaning
  <2>4. q \in Prefixes /\ Masked(q) = q /\ q.fam = p.fam /\ q.bits = p.bits
    BY <2>1, MaskedOnce
  <2> HIDE DEF p, q
  <2>5. Addresses(q) = Addresses(p)
    BY <2>4 DEF Addresses, q
  <2> QED
    BY <1>0, <2>2, <2>3, <2>4, <2>5
<1>2. CASE x.form = "addr"
  <2> DEFINE q == Unmap(x.fam, x.addr)
  <2>1. q \in Prefixes /\ Masked(q) = q /\ q.bits = Width(q.fam)
    BY <1>2, UnmapIs DEF Spelled
  <2>2. canonCIDR(x) = Taken(PrefixText(q), q)
    BY <1>2 DEF canonCIDR
  <2>3. Meaning(x) = [fam |-> q.fam, addrs |-> {q.addr}]
    BY <1>2 DEF Meaning
  <2> HIDE DEF q
  <2>4. Width(q.fam) - q.bits = 0
    <3>1. q.fam \in {4, 6}
      BY <2>1 DEF Prefixes
    <3>2. Width(q.fam) \in Int
      BY <3>1, WidthIs, ValuesAssumption
    <3> QED
      BY <2>1, <3>2
  <2>5. 2^(Width(q.fam) - q.bits) = 1
    BY <2>4, PowersOfTwo
  <2>6. q.addr \in Nat /\ Addresses(q) = q.addr..(q.addr + 1 - 1)
    BY <2>1, <2>5, AddressesAre
  <2>7. Addresses(q) = {q.addr}
    BY <2>6
  <2>8. Meaning(x) = [fam |-> q.fam, addrs |-> Addresses(q)]
    BY <2>3, <2>7, Zenon
  <2> QED
    BY <1>0, <2>1, <2>2, <2>8
<1> QED
  BY <1>1, <1>2 DEF IsAddress

(* What other texts mean; the three kinds of meaning are apart. *)
LEMMA OtherMeans ==
  ASSUME NEW x
  PROVE  /\ x.form = "int" => Meaning(x) = [number |-> x.n] /\ DOMAIN Meaning(x) = {"number"}
         /\ ~IsAddress(x) /\ x.form # "int" => Meaning(x).text = x /\ DOMAIN Meaning(x) = {"text"}
         /\ IsAddress(x) => DOMAIN Meaning(x) = {"fam", "addrs"}
<1>1. x.form = "int" => Meaning(x) = [number |-> x.n]
  BY DEF Meaning
<1>2. ~IsAddress(x) /\ x.form # "int" => Meaning(x) = [text |-> x]
  BY DEF Meaning, IsAddress
<1>3. x.form = "prefix" => Meaning(x) = [fam |-> x.prefix.fam, addrs |-> Addresses(x.prefix)]
  BY DEF Meaning
<1>4. x.form = "addr" => Meaning(x) = [fam |-> Unmap(x.fam, x.addr).fam, addrs |-> {Unmap(x.fam, x.addr).addr}]
  BY DEF Meaning
<1> QED
  BY <1>1, <1>2, <1>3, <1>4 DEF IsAddress

(* Texts that mean the same have the same canonical form, or none. *)
LEMMA SameCanon ==
  ASSUME NEW t \in {"cidr", "numeric"}, NEW x \in Texts, NEW y \in Texts, x # y, Meaning(x) = Meaning(y)
  PROVE  CanonPrefix(t, x).err = CanonPrefix(t, y).err /\ CanonPrefix(t, x).value = CanonPrefix(t, y).value
<1>0. /\ Spelled(x) /\ Spelled(y)
      /\ t = "cidr" => CanonPrefix(t, x) = canonCIDR(x) /\ CanonPrefix(t, y) = canonCIDR(y)
      /\ t = "numeric" => CanonPrefix(t, x) = canonNumeric(x) /\ CanonPrefix(t, y) = canonNumeric(y)
  BY ServiceAssumption, CanonIs
<1>1. IsAddress(x) <=> IsAddress(y)
  BY OtherMeans DEF IsAddress
<1>2. x.form = "int" <=> y.form = "int"
  BY OtherMeans DEF IsAddress
<1>3. CASE IsAddress(x)
  <2>1. canonNumeric(x) = Refused("wrong_type") /\ canonNumeric(y) = Refused("wrong_type")
    BY <1>1, <1>3 DEF canonNumeric, IsAddress
  <2>2. PICK p \in Prefixes :
          /\ Masked(p) = p /\ canonCIDR(x).err = "none" /\ canonCIDR(x).value = PrefixText(p)
          /\ Meaning(x) = [fam |-> p.fam, addrs |-> Addresses(p)]
    BY <1>0, <1>3, AddressMeans
  <2>3. PICK q \in Prefixes :
          /\ Masked(q) = q /\ canonCIDR(y).err = "none" /\ canonCIDR(y).value = PrefixText(q)
          /\ Meaning(y) = [fam |-> q.fam, addrs |-> Addresses(q)]
    BY <1>0, <1>1, <1>3, AddressMeans
  <2>4. p.fam = q.fam /\ Addresses(p) = Addresses(q)
    <3>1. Meaning(x).fam = p.fam /\ Meaning(x).addrs = Addresses(p)
      BY <2>2
    <3>2. Meaning(y).fam = q.fam /\ Meaning(y).addrs = Addresses(q)
      BY <2>3
    <3> QED
      BY <3>1, <3>2, Zenon
  <2>5. p = q
    BY <2>2, <2>3, <2>4, SameAddresses
  <2> QED
    BY <1>0, <2>1, <2>2, <2>3, <2>5
<1>4. CASE x.form = "int"
  <2>1. x.n = y.n
    BY <1>2, <1>4, OtherMeans
  <2>2. canonNumeric(x) = canonNumeric(y)
    BY <1>2, <1>4, <2>1 DEF canonNumeric
  <2>3. canonCIDR(x) = Refused("wrong_type") /\ canonCIDR(y) = Refused("wrong_type")
    BY <1>2, <1>4 DEF canonCIDR
  <2> QED
    BY <1>0, <2>2, <2>3
<1>5. CASE ~IsAddress(x) /\ x.form # "int"
  <2>1. Meaning(x).text = x /\ Meaning(y).text = y
    BY <1>1, <1>2, <1>5, OtherMeans
  <2> QED
    BY <2>1, Zenon
<1> QED
  BY <1>3, <1>4, <1>5

(***************************************************************************)
(* Spellings of the same addresses or of the same number are one member:   *)
(* for every width of addresses a set of addresses has one masked prefix,  *)
(* which is what Submit stores and Lookup looks for.                       *)
(***************************************************************************)
THEOREM ServiceSpellingsAgree == SSpec => []SpellingsAgree
<1>1. ServiceInv => SpellingsAgree
  <2> SUFFICES ASSUME ServiceInv, def.type # "string", NEW p \in Alike
               PROVE  Lookup(p[1]) <=> Lookup(p[2])
    BY DEF SpellingsAgree
  <2>1. p[1] \in Texts /\ p[2] \in Texts /\ p[1] # p[2] /\ Meaning(p[1]) = Meaning(p[2])
    BY DEF Alike
  <2>2. def.type \in {"cidr", "numeric"}
    BY ServiceAssumption DEF ServiceInv
  <2>3. Canon(p[1]).err = Canon(p[2]).err /\ Canon(p[1]).value = Canon(p[2]).value
    BY <2>1, <2>2, SameCanon DEF Canon
  <2>4. Denotes(p[1]) = Denotes(p[2])
    BY <2>3 DEF Denotes
  <2> QED
    BY <2>3, <2>4 DEF Lookup
<1> QED
  BY <1>1, ServiceKept, PTL

-----------------------------------------------------------------------------
(* Objects in Redis: what was packed is read back *)

(* A record that can travel in an object of this type: Submit makes no others, but for reasons *)
(* of 2^16 bytes and more.  C is a set that has what reasons are made of.                      *)
CanTravel(t, C, r) ==
  /\ t = "cidr" => r.prefix \in Prefixes
  /\ t = "string" => r.reason \in Seq(C) /\ Len(r.reason) < LenMod

(* What a reader gets of it. *)
AsRead(t, r) ==
  IF t = "cidr"
  THEN [op |-> r.op, prefix |-> r.prefix, value |-> Blank, exp |-> r.exp, reason |-> <<>>]
  ELSE [op |-> r.op, prefix |-> NoPrefix, value |-> r.value, exp |-> r.exp, reason |-> r.reason]

(* Two sequences in a row. *)
LEMMA Joined ==
  ASSUME NEW S, NEW s \in Seq(S), NEW u \in Seq(S)
  PROVE  /\ s \o u \in Seq(S) /\ Len(s \o u) = Len(s) + Len(u)
         /\ \A i \in 1..Len(s) : (s \o u)[i] = s[i]
         /\ \A i \in 1..Len(u) : (s \o u)[Len(s) + i] = u[i]
  OBVIOUS

(* The cells of a record, for each kind. *)
LEMMA CellsOf4 ==
  ASSUME NEW r, r.prefix \in Prefixes, r.prefix.fam = 4
  PROVE  LET A == appendRecord("cidr", r) IN
         /\ A \in Seq({r.op, 4, r.prefix.bits, r.prefix.addr, r.exp}) /\ Len(A) = 5
         /\ A[1] = r.op /\ A[2] = 4 /\ A[3] = r.prefix.bits /\ A[4] = r.prefix.addr /\ A[5] = r.exp
<1> DEFINE p == r.prefix
           D == {r.op, 4, p.bits, p.addr, r.exp}
           P == <<4, p.bits, p.addr>>
           O == <<r.op>>
           E == <<r.exp>>
           B == O \o P
           A == appendRecord("cidr", r)
<1>1. PrefixMaterial(p) = P
  BY DEF PrefixMaterial
<1>2. A = B \o E
  BY <1>1 DEF appendRecord
<1> HIDE DEF p, A
<1>3. O \in Seq(D) /\ P \in Seq(D) /\ E \in Seq(D)
  OBVIOUS
<1>4. /\ Len(O) = 1 /\ Len(P) = 3 /\ Len(E) = 1
      /\ O[1] = r.op /\ E[1] = r.exp /\ P[1] = 4 /\ P[2] = p.bits /\ P[3] = p.addr
  OBVIOUS
<1> HIDE DEF D, P, O, E
<1>5. /\ B \in Seq(D) /\ Len(B) = Len(O) + Len(P)
      /\ \A i \in 1..Len(O) : B[i] = O[i]
      /\ \A i \in 1..Len(P) : B[Len(O) + i] = P[i]
  BY <1>3, Joined
<1> HIDE DEF B
<1>6. B \in Seq(D) /\ Len(B) = 4
  BY <1>4, <1>5
<1>7. /\ A \in Seq(D) /\ Len(A) = Len(B) + Len(E)
      /\ \A i \in 1..Len(B) : A[i] = B[i]
      /\ \A i \in 1..Len(E) : A[Len(B) + i] = E[i]
  <2>1. B \in Seq(D)
    BY <1>6
  <2> QED
    BY <1>2, <1>3, <2>1, Joined
<1>8. B[1] = r.op /\ B[1 + 1] = 4 /\ B[1 + 2] = p.bits /\ B[1 + 3] = p.addr /\ A[4 + 1] = r.exp /\ Len(A) = 5
  BY <1>4, <1>5, <1>6, <1>7
<1>9. A[1] = r.op /\ A[2] = 4 /\ A[3] = p.bits /\ A[4] = p.addr
  BY <1>6, <1>7, <1>8
<1> QED
  BY <1>7, <1>8, <1>9 DEF A, D, p

LEMMA CellsOf6 ==
  ASSUME NEW r, r.prefix \in Prefixes, r.prefix.fam = 6
  PROVE  LET A == appendRecord("cidr", r)
             hi == r.prefix.addr \div 2^V4Bits
             lo == r.prefix.addr % 2^V4Bits
         IN  /\ A \in Seq({r.op, 6, r.prefix.bits, hi, lo, r.exp}) /\ Len(A) = 6
             /\ A[1] = r.op /\ A[2] = 6 /\ A[3] = r.prefix.bits /\ A[4] = hi /\ A[5] = lo /\ A[6] = r.exp
<1> DEFINE p == r.prefix
           hi == r.prefix.addr \div 2^V4Bits
           lo == r.prefix.addr % 2^V4Bits
           D == {r.op, 6, p.bits, hi, lo, r.exp}
           P == <<6, p.bits, hi, lo>>
           O == <<r.op>>
           E == <<r.exp>>
           B == O \o P
           A == appendRecord("cidr", r)
<1>1. PrefixMaterial(p) = P
  BY DEF PrefixMaterial
<1>2. A = B \o E
  BY <1>1 DEF appendRecord
<1> HIDE DEF p, hi, lo, A
<1>3. O \in Seq(D) /\ P \in Seq(D) /\ E \in Seq(D)
  OBVIOUS
<1>4. /\ Len(O) = 1 /\ Len(P) = 4 /\ Len(E) = 1
      /\ O[1] = r.op /\ E[1] = r.exp /\ P[1] = 6 /\ P[2] = p.bits /\ P[3] = hi /\ P[4] = lo
  OBVIOUS
<1> HIDE DEF D, P, O, E
<1>5. /\ B \in Seq(D) /\ Len(B) = Len(O) + Len(P)
      /\ \A i \in 1..Len(O) : B[i] = O[i]
      /\ \A i \in 1..Len(P) : B[Len(O) + i] = P[i]
  BY <1>3, Joined
<1> HIDE DEF B
<1>6. B \in Seq(D) /\ Len(B) = 5
  BY <1>4, <1>5
<1>7. /\ A \in Seq(D) /\ Len(A) = Len(B) + Len(E)
      /\ \A i \in 1..Len(B) : A[i] = B[i]
      /\ \A i \in 1..Len(E) : A[Len(B) + i] = E[i]
  <2>1. B \in Seq(D)
    BY <1>6
  <2> QED
    BY <1>2, <1>3, <2>1, Joined
<1>8. B[1] = r.op /\ B[1 + 1] = 6 /\ B[1 + 2] = p.bits /\ B[1 + 3] = hi /\ B[1 + 4] = lo /\ A[5 + 1] = r.exp /\ Len(A) = 6
  BY <1>4, <1>5, <1>6, <1>7
<1>9. A[1] = r.op /\ A[2] = 6 /\ A[3] = p.bits /\ A[4] = hi /\ A[5] = lo
  BY <1>6, <1>7, <1>8
<1> QED
  BY <1>7, <1>8, <1>9 DEF A, D, p, hi, lo

(* A reason follows five cells. *)
Carries(A, reason) == \A k \in 1..Len(reason) : A[5 + k] = reason[k]

LEMMA CellsOfString ==
  ASSUME NEW C, NEW r, r.reason \in Seq(C), Len(r.reason) < LenMod
  PROVE  LET A == appendRecord("string", r) IN
         /\ A \in Seq(C \cup {r.op, 1, r.value, r.exp, Len(r.reason)}) /\ Len(A) = 5 + Len(r.reason)
         /\ A[1] = r.op /\ A[2] = 1 /\ A[3] = r.value /\ A[4] = r.exp /\ A[5] = Len(r.reason)
         /\ Carries(A, r.reason)
<1> DEFINE n == Len(r.reason)
           A == appendRecord("string", r)
           D == C \cup {r.op, 1, r.value, r.exp, n}
           head == <<r.op, 1, r.value, r.exp>>
           N == <<n>>
           tail == N \o r.reason
<1>0. n \in Nat /\ LenMod \in Nat /\ n < LenMod
  BY CodecAssumption
<1>1. n \in Nat /\ n % LenMod = n
  <2> HIDE DEF n
  <2> QED
    BY <1>0, SmallMod
<1>2. HasReasons("string")
  BY DEF HasReasons
<1>3. A = head \o tail
  <2>1. A = <<r.op, 1, r.value, r.exp>> \o (<<n % LenMod>> \o r.reason)
    BY <1>2, Zenon DEF appendRecord
  <2> QED
    BY <1>1, <2>1, Zenon
<1>4. N \in Seq(D) /\ r.reason \in Seq(D) /\ head \in Seq(D)
  BY <1>1
<1>5. /\ Len(N) = 1 /\ N[1] = n
      /\ Len(head) = 4 /\ head[1] = r.op /\ head[2] = 1 /\ head[3] = r.value /\ head[4] = r.exp
  OBVIOUS
<1> HIDE DEF D, head, A, N
<1>6a. /\ tail \in Seq(D) /\ Len(tail) = Len(N) + Len(r.reason)
       /\ \A i \in 1..Len(N) : tail[i] = N[i]
       /\ \A i \in 1..Len(r.reason) : tail[Len(N) + i] = r.reason[i]
  BY <1>4, Joined
<1> HIDE DEF tail
<1>6. /\ Len(tail) = 1 + n /\ tail[1] = n
      /\ \A k \in 1..n : tail[1 + k] = r.reason[k]
  BY <1>1, <1>5, <1>6a
<1> HIDE DEF n
<1>7a. /\ A \in Seq(D) /\ Len(A) = Len(head) + Len(tail)
       /\ \A i \in 1..Len(head) : A[i] = head[i]
       /\ \A i \in 1..Len(tail) : A[Len(head) + i] = tail[i]
  <2>1. tail \in Seq(D)
    BY <1>6a
  <2> QED
    BY <1>3, <1>4, <2>1, Joined
<1>7. /\ Len(A) = 5 + n /\ \A i \in 1..4 : A[i] = head[i]
      /\ \A i \in 1..(1 + n) : A[4 + i] = tail[i]
  BY <1>1, <1>5, <1>6, <1>7a
<1>8. A[1] = r.op /\ A[2] = 1 /\ A[3] = r.value /\ A[4] = r.exp
  BY <1>5, <1>7
<1>9. A[4 + 1] = n
  BY <1>1, <1>6, <1>7
<1>10. \A k \in 1..n : A[5 + k] = r.reason[k]
  <2> SUFFICES ASSUME NEW k \in 1..n PROVE A[5 + k] = r.reason[k]
    OBVIOUS
  <2>1. 1 + k \in 1..(1 + n) /\ 4 + (1 + k) = 5 + k
    BY <1>1
  <2> QED
    BY <1>6, <1>7, <2>1
<1> QED
  BY <1>7, <1>7a, <1>8, <1>9, <1>10 DEF A, D, n, Carries

(* Cells stand in an object from a place on, as far as the object goes. *)
StandsAt(data, pos, A) == \A k \in 1..Len(A) : pos + k - 1 <= Len(data) => data[pos + k - 1] = A[k]

(* A record is read, or is found to be cut off. *)
IsRead(data, pos, t, r) ==
  LET n == Len(appendRecord(t, r)) IN
  /\ pos + n - 1 <= Len(data) => unpackRecord(data, pos) = [err |-> "none", next |-> pos + n, rec |-> AsRead(t, r)]
  /\ ~(pos + n - 1 <= Len(data)) => unpackRecord(data, pos) = Broken("short")

LEMMA Read4 ==
  ASSUME NEW data, Len(data) \in Nat, NEW pos \in Nat, data[4] = "cidr",
         NEW r, r.prefix \in Prefixes, r.prefix.fam = 4, StandsAt(data, pos, appendRecord("cidr", r))
  PROVE  IsRead(data, pos, "cidr", r)
<1> DEFINE L == Len(data)
           p == r.prefix
<1>1. Len(appendRecord("cidr", r)) = 5
  BY CellsOf4
<1>2. /\ pos <= L => data[pos] = r.op
      /\ pos + 1 <= L => data[pos + 1] = 4
      /\ pos + 2 <= L => data[pos + 2] = p.bits
      /\ pos + 3 <= L => data[pos + 3] = p.addr
      /\ pos + 4 <= L => data[pos + 4] = r.exp
  <2> DEFINE A == appendRecord("cidr", r)
  <2>1. A[1] = r.op /\ A[2] = 4 /\ A[3] = p.bits /\ A[4] = p.addr /\ A[5] = r.exp
    BY CellsOf4
  <2>2. \A k \in 1..5 : pos + k - 1 <= L => data[pos + k - 1] = A[k]
    BY <1>1 DEF StandsAt
  <2> HIDE DEF A
  <2> QED
    BY <2>1, <2>2
<1>3. p = PrefixOf(4, p.addr, p.bits)
  BY DEF PrefixOf, Prefixes
<1>4. pos <= L => unpackRecord(data, pos) = unpackCIDR(data, pos)
  BY DEF unpackRecord
<1>5. ~(pos <= L) => unpackRecord(data, pos) = Broken("short")
  BY DEF unpackRecord
<1>6. ~(pos + 4 <= L) => unpackCIDR(data, pos) = Broken("short")
  <2>1. CASE ~(pos + 2 <= L)
    BY <2>1 DEF unpackCIDR
  <2>2. CASE pos + 2 <= L /\ ~(pos + 4 <= L)
    <3>1. Cell(data, pos + 1) = 4
      BY <1>2, <2>2 DEF Cell
    <3> QED
      BY <2>2, <3>1 DEF unpackCIDR
  <2> QED
    BY <2>1, <2>2
<1>7. ASSUME pos + 4 <= L
      PROVE  unpackCIDR(data, pos) = Parsed(pos + 5, r.op, p, Blank, r.exp, <<>>)
  <2>1. /\ Cell(data, pos) = r.op /\ Cell(data, pos + 1) = 4 /\ Cell(data, pos + 2) = p.bits
        /\ Cell(data, pos + 3) = p.addr /\ Cell(data, pos + 4) = r.exp
    BY <1>2, <1>7 DEF Cell
  <2>2. Cells(data, pos + 3, 1)[1] = p.addr
    BY <2>1 DEF Cells
  <2> QED
    BY <1>3, <1>7, <2>1, <2>2 DEF unpackCIDR
<1>8. Parsed(pos + 5, r.op, p, Blank, r.exp, <<>>) = [err |-> "none", next |-> pos + 5, rec |-> AsRead("cidr", r)]
  BY DEF Parsed, AsRead
<1>9. (pos + 5 - 1 <= L <=> pos + 4 <= L) /\ (pos + 4 <= L => pos <= L)
  OBVIOUS
<1> HIDE DEF L
<1>10. pos + 5 - 1 <= L =>
         unpackRecord(data, pos) = [err |-> "none", next |-> pos + 5, rec |-> AsRead("cidr", r)]
  BY <1>4, <1>7, <1>8, <1>9, Zenon
<1>11. ~(pos + 5 - 1 <= L) => unpackRecord(data, pos) = Broken("short")
  BY <1>4, <1>5, <1>6, <1>9, Zenon
<1> QED
  BY <1>1, <1>10, <1>11, Zenon DEF IsRead, L

LEMMA Read6 ==
  ASSUME NEW data, Len(data) \in Nat, NEW pos \in Nat, data[4] = "cidr",
         NEW r, r.prefix \in Prefixes, r.prefix.fam = 6, StandsAt(data, pos, appendRecord("cidr", r))
  PROVE  IsRead(data, pos, "cidr", r)
<1> DEFINE L == Len(data)
           p == r.prefix
           hi == r.prefix.addr \div 2^V4Bits
           lo == r.prefix.addr % 2^V4Bits
<1>1. Len(appendRecord("cidr", r)) = 6
  BY CellsOf6
<1>2. /\ pos <= L => data[pos] = r.op
      /\ pos + 1 <= L => data[pos + 1] = 6
      /\ pos + 2 <= L => data[pos + 2] = p.bits
      /\ pos + 3 <= L => data[pos + 3] = hi
      /\ pos + 4 <= L => data[pos + 4] = lo
      /\ pos + 5 <= L => data[pos + 5] = r.exp
  <2> DEFINE A == appendRecord("cidr", r)
  <2>1. A[1] = r.op /\ A[2] = 6 /\ A[3] = p.bits /\ A[4] = hi /\ A[5] = lo /\ A[6] = r.exp
    BY CellsOf6
  <2>2. \A k \in 1..6 : pos + k - 1 <= L => data[pos + k - 1] = A[k]
    BY <1>1 DEF StandsAt
  <2> HIDE DEF A, hi, lo
  <2> QED
    BY <2>1, <2>2
<1>3. p = PrefixOf(6, hi * 2^V4Bits + lo, p.bits)
  <2>1. V4Bits \in 0..(V6Bits + IntBits)
    BY ValuesAssumption
  <2>2. 2^V4Bits \in Nat \ {0}
    BY <2>1, PowersOfTwo
  <2>3. p = PrefixOf(6, p.addr, p.bits) /\ p.addr \in Nat
    BY DEF PrefixOf, Prefixes
  <2>4. \A a \in Nat, m \in Nat \ {0} : (a \div m) * m + (a % m) = a
    OBVIOUS
  <2>5. hi * 2^V4Bits + lo = p.addr
    BY <2>2, <2>3, <2>4
  <2> QED
    BY <2>3, <2>5
<1> HIDE DEF hi, lo
<1>4. pos <= L => unpackRecord(data, pos) = unpackCIDR(data, pos)
  BY DEF unpackRecord
<1>5. ~(pos <= L) => unpackRecord(data, pos) = Broken("short")
  BY DEF unpackRecord
<1>6. ~(pos + 5 <= L) => unpackCIDR(data, pos) = Broken("short")
  <2>1. CASE ~(pos + 2 <= L)
    BY <2>1 DEF unpackCIDR
  <2>2. CASE pos + 2 <= L /\ ~(pos + 5 <= L)
    <3>1. Cell(data, pos + 1) = 6
      BY <1>2, <2>2 DEF Cell
    <3> QED
      BY <2>2, <3>1 DEF unpackCIDR
  <2> QED
    BY <2>1, <2>2
<1>7. ASSUME pos + 5 <= L
      PROVE  unpackCIDR(data, pos) = Parsed(pos + 6, r.op, p, Blank, r.exp, <<>>)
  <2>1. /\ Cell(data, pos) = r.op /\ Cell(data, pos + 1) = 6 /\ Cell(data, pos + 2) = p.bits
        /\ Cell(data, pos + 3) = hi /\ Cell(data, pos + 4) = lo /\ Cell(data, pos + 5) = r.exp
    BY <1>2, <1>7 DEF Cell
  <2>2. Cells(data, pos + 3, 2)[1] = hi /\ Cells(data, pos + 3, 2)[2] = lo
    BY <2>1 DEF Cells
  <2> QED
    BY <1>3, <1>7, <2>1, <2>2 DEF unpackCIDR
<1>8. Parsed(pos + 6, r.op, p, Blank, r.exp, <<>>) = [err |-> "none", next |-> pos + 6, rec |-> AsRead("cidr", r)]
  BY DEF Parsed, AsRead
<1>9. (pos + 6 - 1 <= L <=> pos + 5 <= L) /\ (pos + 5 <= L => pos <= L)
  OBVIOUS
<1> HIDE DEF L
<1>10. pos + 6 - 1 <= L =>
         unpackRecord(data, pos) = [err |-> "none", next |-> pos + 6, rec |-> AsRead("cidr", r)]
  BY <1>4, <1>7, <1>8, <1>9, Zenon
<1>11. ~(pos + 6 - 1 <= L) => unpackRecord(data, pos) = Broken("short")
  BY <1>4, <1>5, <1>6, <1>9, Zenon
<1> QED
  BY <1>1, <1>10, <1>11, Zenon DEF IsRead, L

LEMMA IsString ==
  ASSUME NEW data, Len(data) \in Nat, NEW pos \in Nat, data[4] = "string", pos <= Len(data)
  PROVE  unpackRecord(data, pos) = unpackString(data, pos, data[5])
  BY DEF unpackRecord

LEMMA ReadString ==
  ASSUME NEW data, Len(data) \in Nat, NEW pos \in Nat, data[4] = "string", data[5] = TRUE, NEW C,
         NEW r, r.reason \in Seq(C), Len(r.reason) < LenMod, StandsAt(data, pos, appendRecord("string", r))
  PROVE  IsRead(data, pos, "string", r)
<1> DEFINE L == Len(data)
           n == Len(r.reason)
<1>0. n \in Nat /\ r.reason = [k \in 1..n |-> r.reason[k]]
  OBVIOUS
<1>1. Len(appendRecord("string", r)) = 5 + n
  BY CellsOfString
<1>2. /\ pos <= L => data[pos] = r.op
      /\ pos + 1 <= L => data[pos + 1] = 1
      /\ pos + 2 <= L => data[pos + 2] = r.value
      /\ pos + 3 <= L => data[pos + 3] = r.exp
      /\ pos + 4 <= L => data[pos + 4] = n
      /\ \A k \in 1..n : pos + 4 + k <= L => data[pos + 4 + k] = r.reason[k]
  <2> DEFINE A == appendRecord("string", r)
  <2>1. /\ A[1] = r.op /\ A[2] = 1 /\ A[3] = r.value /\ A[4] = r.exp /\ A[5] = n
        /\ \A k \in 1..n : A[5 + k] = r.reason[k]
    <3>1. /\ A[1] = r.op /\ A[2] = 1 /\ A[3] = r.value /\ A[4] = r.exp /\ A[5] = n
          /\ Carries(A, r.reason)
      BY CellsOfString
    <3> QED
      BY <3>1 DEF Carries
  <2>2. \A k \in 1..(5 + n) : pos + k - 1 <= L => data[pos + k - 1] = A[k]
    BY <1>1 DEF StandsAt
  <2> HIDE DEF A, n, L
  <2>3. \A k \in 1..n : pos + 4 + k <= L => data[pos + 4 + k] = r.reason[k]
    <3> SUFFICES ASSUME NEW k \in 1..n, pos + 4 + k <= L PROVE data[pos + 4 + k] = r.reason[k]
      OBVIOUS
    <3>1. 5 + k \in 1..(5 + n) /\ pos + (5 + k) - 1 = pos + 4 + k
      BY <1>0
    <3> QED
      BY <2>1, <2>2, <3>1
  <2>4. \A k \in 1..5 : pos + k - 1 <= L => data[pos + k - 1] = A[k]
    <3>1. n \in Nat
      BY <1>0, Zenon
    <3>2. \A k \in 1..5 : k \in 1..(5 + n)
      BY <3>1
    <3> QED
      BY <2>2, <3>2, Zenon
  <2>5. A[1] = r.op /\ A[2] = 1 /\ A[3] = r.value /\ A[4] = r.exp /\ A[5] = n
    BY <2>1, Zenon
  <2>6. /\ pos <= L => data[pos] = r.op
        /\ pos + 1 <= L => data[pos + 1] = 1
        /\ pos + 2 <= L => data[pos + 2] = r.value
        /\ pos + 3 <= L => data[pos + 3] = r.exp
        /\ pos + 4 <= L => data[pos + 4] = n
    BY <2>4, <2>5
  <2> QED
    BY <2>3, <2>6, Zenon
<1> HIDE DEF n
<1>3. pos <= L => unpackRecord(data, pos) = unpackString(data, pos, TRUE)
  <2>1. pos <= L => unpackRecord(data, pos) = unpackString(data, pos, data[5])
    BY IsString, Zenon
  <2> QED
    BY <2>1, Zenon
<1>4. ~(pos <= L) => unpackRecord(data, pos) = Broken("short")
  BY DEF unpackRecord
<1>5. ~(pos + 4 + n <= L) => unpackString(data, pos, TRUE) = Broken("short")
  <2>1. CASE ~(pos + 1 <= L)
    BY <2>1 DEF unpackString
  <2>2. CASE pos + 1 <= L /\ ~(pos + 3 <= L)
    <3>1. Cell(data, pos + 1) = 1
      BY <1>2, <2>2 DEF Cell
    <3> QED
      BY <2>2, <3>1 DEF unpackString
  <2>3. CASE pos + 3 <= L /\ ~(pos + 4 <= L)
    <3>1. Cell(data, pos + 1) = 1
      BY <1>2, <2>3 DEF Cell
    <3> QED
      BY <2>3, <3>1 DEF unpackString
  <2>4. CASE pos + 4 <= L /\ ~(pos + 4 + n <= L)
    <3>1. Cell(data, pos + 1) = 1 /\ Cell(data, pos + 4) = n
      BY <1>2, <2>4 DEF Cell
    <3> QED
      BY <1>0, <2>4, <3>1 DEF unpackString
  <2> QED
    BY <1>0, <2>1, <2>2, <2>3, <2>4
<1>6. ASSUME pos + 4 + n <= L
      PROVE  unpackString(data, pos, TRUE) = Parsed(pos + 5 + n, r.op, NoPrefix, r.value, r.exp, r.reason)
  <2>1. /\ Cell(data, pos) = r.op /\ Cell(data, pos + 1) = 1 /\ Cell(data, pos + 2) = r.value
        /\ Cell(data, pos + 3) = r.exp /\ Cell(data, pos + 4) = n
    BY <1>0, <1>2, <1>6 DEF Cell
  <2>2. Cells(data, pos + 5, n) = r.reason
    <3>1. \A k \in 1..n : Cell(data, pos + 5 + k - 1) = r.reason[k]
      <4> SUFFICES ASSUME NEW k \in 1..n PROVE Cell(data, pos + 5 + k - 1) = r.reason[k]
        OBVIOUS
      <4>1. pos + 4 + k <= L /\ pos + 5 + k - 1 = pos + 4 + k
        BY <1>0, <1>6
      <4> QED
        BY <1>2, <4>1 DEF Cell
    <3> QED
      BY <1>0, <3>1 DEF Cells
  <2> QED
    BY <1>0, <1>6, <2>1, <2>2 DEF unpackString
<1>7. Parsed(pos + 5 + n, r.op, NoPrefix, r.value, r.exp, r.reason)
        = [err |-> "none", next |-> pos + 5 + n, rec |-> AsRead("string", r)]
  BY DEF Parsed, AsRead
<1>8. (pos + (5 + n) - 1 <= L <=> pos + 4 + n <= L) /\ (pos + 4 + n <= L => pos <= L) /\ pos + 5 + n = pos + (5 + n)
  BY <1>0
<1> HIDE DEF L
<1>9. pos + (5 + n) - 1 <= L =>
        unpackRecord(data, pos) = [err |-> "none", next |-> pos + (5 + n), rec |-> AsRead("string", r)]
  BY <1>3, <1>6, <1>7, <1>8, Zenon
<1>10. ~(pos + (5 + n) - 1 <= L) => unpackRecord(data, pos) = Broken("short")
  BY <1>3, <1>4, <1>5, <1>8, Zenon
<1> QED
  BY <1>1, <1>9, <1>10, Zenon DEF IsRead, L

LEMMA ReadsRecord ==
  ASSUME NEW C, NEW t \in {"cidr", "string"}, NEW data, Len(data) \in Nat, NEW pos \in Nat,
         data[4] = t, t = "string" => data[5] = TRUE,
         NEW r, CanTravel(t, C, r), StandsAt(data, pos, appendRecord(t, r))
  PROVE  IsRead(data, pos, t, r)
<1>1. CASE t = "cidr"
  <2>1. r.prefix \in Prefixes
    BY <1>1 DEF CanTravel
  <2>2. r.prefix.fam \in {4, 6}
    BY <2>1 DEF Prefixes
  <2>3. data[4] = "cidr" /\ StandsAt(data, pos, appendRecord("cidr", r))
    BY <1>1
  <2>4. IsRead(data, pos, "cidr", r)
    BY <2>1, <2>2, <2>3, Read4, Read6
  <2> QED
    BY <1>1, <2>4
<1>2. CASE t = "string"
  <2>1. r.reason \in Seq(C) /\ Len(r.reason) < LenMod
    BY <1>2 DEF CanTravel
  <2>2. data[4] = "string" /\ data[5] = TRUE /\ StandsAt(data, pos, appendRecord("string", r))
    BY <1>2, Zenon
  <2>3. IsRead(data, pos, "string", r)
    BY <2>1, <2>2, ReadString, Zenon
  <2> QED
    BY <1>2, <2>3, Zenon
<1> QED
  BY <1>1, <1>2

(* The cells of a record are a sequence. *)
LEMMA RecordCells ==
  ASSUME NEW C, NEW t \in {"cidr", "string"}, NEW r, CanTravel(t, C, r)
  PROVE  \E S : appendRecord(t, r) \in Seq(S) /\ Len(appendRecord(t, r)) \in Nat
<1>1. CASE t = "cidr"
  <2>1. r.prefix \in Prefixes
    BY <1>1 DEF CanTravel
  <2>2. r.prefix.fam \in {4, 6}
    BY <2>1 DEF Prefixes
  <2>3. CASE r.prefix.fam = 4
    <3>1. /\ appendRecord("cidr", r) \in Seq({r.op, 4, r.prefix.bits, r.prefix.addr, r.exp})
          /\ Len(appendRecord("cidr", r)) = 5
      BY <2>1, <2>3, CellsOf4
    <3> QED
      BY <1>1, <3>1
  <2>4. CASE r.prefix.fam = 6
    <3> DEFINE hi == r.prefix.addr \div 2^V4Bits
               lo == r.prefix.addr % 2^V4Bits
    <3>1. /\ appendRecord("cidr", r) \in Seq({r.op, 6, r.prefix.bits, hi, lo, r.exp})
          /\ Len(appendRecord("cidr", r)) = 6
      BY <2>1, <2>4, CellsOf6
    <3> HIDE DEF hi, lo
    <3> QED
      BY <1>1, <3>1
  <2> QED
    BY <2>2, <2>3, <2>4
<1>2. CASE t = "string"
  <2>1. r.reason \in Seq(C) /\ Len(r.reason) < LenMod
    BY <1>2 DEF CanTravel
  <2>2. /\ appendRecord("string", r) \in Seq(C \cup {r.op, 1, r.value, r.exp, Len(r.reason)})
        /\ Len(appendRecord("string", r)) = 5 + Len(r.reason)
    BY <2>1, CellsOfString
  <2>3. Len(r.reason) \in Nat
    BY <2>1
  <2> QED
    BY <1>2, <2>2, <2>3
<1> QED
  BY <1>1, <1>2

(* The loop of Pack: what is written after each record. *)
IsBody(t, rs, g, n) ==
  g = [i \in 0..n |-> IF i = 0 THEN <<>> ELSE g[i - 1] \o appendRecord(t, rs[i])]

LEMMA BodyRuns ==
  ASSUME NEW t, NEW rs, NEW n \in Nat
  PROVE  \E g : IsBody(t, rs, g, n)
<1> DEFINE Bad == {k \in Nat : ~\E g : IsBody(t, rs, g, k)}
<1> Bad \subseteq Nat
  OBVIOUS
<1>1. SUFFICES ASSUME Bad # {} PROVE FALSE
  OBVIOUS
<1> HIDE DEF Bad
<1>2. PICK k \in Bad : \A m \in Bad : k <= m
  BY <1>1, LeastNumber
<1> USE DEF Bad
<1>3. k # 0
  <2> DEFINE g == [i \in 0..0 |-> <<>>]
  <2>1. IsBody(t, rs, g, 0)
    BY DEF IsBody
  <2> QED
    BY <2>1
<1>4. k - 1 \in Nat /\ k - 1 \notin Bad
  BY <1>2, <1>3
<1>5. PICK g : IsBody(t, rs, g, k - 1)
  BY <1>4
<1> DEFINE f == [i \in 0..k |-> IF i = k THEN g[k - 1] \o appendRecord(t, rs[k]) ELSE g[i]]
<1>6. \A i \in 0..(k - 1) : g[i] = IF i = 0 THEN <<>> ELSE g[i - 1] \o appendRecord(t, rs[i])
  BY <1>5 DEF IsBody
<1>7. \A i \in 0..k : f[i] = IF i = 0 THEN <<>> ELSE f[i - 1] \o appendRecord(t, rs[i])
  BY <1>3, <1>4, <1>6
<1>8. IsBody(t, rs, f, k)
  <2>1. f = [i \in 0..k |-> f[i]]
    OBVIOUS
  <2> HIDE DEF f
  <2> QED
    BY <1>7, <2>1 DEF IsBody
<1> QED
  BY <1>8

(* The loop of Unpack: what is read after each record. *)
NextRead(data, before) ==
  LET r == unpackRecord(data, before.next)
  IN  IF before.err # "none" THEN before
      ELSE [err |-> r.err, next |-> r.next,
            recs |-> IF r.err = "none" THEN Append(before.recs, r.rec) ELSE <<>>]

FirstRead == [err |-> "none", next |-> Header + 1, recs |-> <<>>]

IsReading(data, g, n) ==
  g = [i \in 0..n |-> IF i = 0 THEN FirstRead ELSE NextRead(data, g[i - 1])]

LEMMA ReadingRuns ==
  ASSUME NEW data, NEW n \in Nat
  PROVE  \E g : IsReading(data, g, n)
<1> DEFINE Bad == {k \in Nat : ~\E g : IsReading(data, g, k)}
<1> Bad \subseteq Nat
  OBVIOUS
<1>1. SUFFICES ASSUME Bad # {} PROVE FALSE
  OBVIOUS
<1> HIDE DEF Bad
<1>2. PICK k \in Bad : \A m \in Bad : k <= m
  BY <1>1, LeastNumber
<1> USE DEF Bad
<1>3. k # 0
  <2> DEFINE g == [i \in 0..0 |-> FirstRead]
  <2>1. IsReading(data, g, 0)
    BY DEF IsReading
  <2> QED
    BY <2>1
<1>4. k - 1 \in Nat /\ k - 1 \notin Bad
  BY <1>2, <1>3
<1>5. PICK g : IsReading(data, g, k - 1)
  BY <1>4
<1> DEFINE f == [i \in 0..k |-> IF i = k THEN NextRead(data, g[k - 1]) ELSE g[i]]
<1>6. \A i \in 0..(k - 1) : g[i] = IF i = 0 THEN FirstRead ELSE NextRead(data, g[i - 1])
  BY <1>5 DEF IsReading
<1>7. \A i \in 0..k : f[i] = IF i = 0 THEN FirstRead ELSE NextRead(data, f[i - 1])
  BY <1>3, <1>4, <1>6
<1>8. IsReading(data, f, k)
  <2>1. f = [i \in 0..k |-> f[i]]
    OBVIOUS
  <2> HIDE DEF f
  <2> QED
    BY <1>7, <2>1 DEF IsReading
<1> QED
  BY <1>8

(* A sequence stands in another one after its first n elements. *)
Follows(s, n, u) == \A k \in 1..Len(u) : s[n + k] = u[k]

(* A piece stays where it is when something is put behind, and what is put behind is there. *)
LEMMA FollowsOn ==
  ASSUME NEW S, NEW s \in Seq(S), NEW v \in Seq(S), NEW u \in Seq(S), NEW n \in Nat,
         n + Len(u) <= Len(s), Follows(s, n, u)
  PROVE  Follows(s \o v, n, u) /\ n + Len(u) <= Len(s \o v)
<1> DEFINE w == s \o v
<1>1. /\ Len(w) = Len(s) + Len(v)
      /\ \A i \in 1..Len(s) : w[i] = s[i]
  BY Joined
<1>2. Len(s) \in Nat /\ Len(u) \in Nat /\ Len(v) \in Nat
  OBVIOUS
<1> HIDE DEF w
<1>3. \A k \in 1..Len(u) : n + k \in 1..Len(s)
  BY <1>2
<1>4. \A k \in 1..Len(u) : w[n + k] = u[k]
  BY <1>1, <1>3 DEF Follows
<1>5. n + Len(u) <= Len(w)
  BY <1>1, <1>2
<1> QED
  BY <1>4, <1>5 DEF Follows, w

LEMMA FollowsLast ==
  ASSUME NEW S, NEW s \in Seq(S), NEW u \in Seq(S)
  PROVE  Follows(s \o u, Len(s), u) /\ Len(s \o u) = Len(s) + Len(u) /\ s \o u \in Seq(S)
  BY Joined DEF Follows

(* Every record stands in the body after those before it. *)
Laid(t, rs, b, m, S) ==
  /\ b[m] \in Seq(S)
  /\ \A i \in 1..m : /\ Follows(b[m], Len(b[i - 1]), appendRecord(t, rs[i]))
                     /\ Len(b[i - 1]) + Len(appendRecord(t, rs[i])) <= Len(b[m])

Grows(t, rs, b, n) ==
  b[0] = <<>> /\ \A i \in 1..n : Len(b[i]) = Len(b[i - 1]) + Len(appendRecord(t, rs[i]))

LEMMA BodyLaid ==
  ASSUME NEW t, NEW rs, NEW n \in Nat, NEW b, IsBody(t, rs, b, n), NEW S,
         \A i \in 1..n : appendRecord(t, rs[i]) \in Seq(S)
  PROVE  (\A m \in 0..n : Laid(t, rs, b, m, S)) /\ Grows(t, rs, b, n)
<1> DEFINE A(i) == appendRecord(t, rs[i])
           Bad == {m \in 0..n : ~Laid(t, rs, b, m, S)}
<1>0. \A i \in 0..n : b[i] = IF i = 0 THEN <<>> ELSE b[i - 1] \o A(i)
  BY DEF IsBody
<1> HIDE DEF A
<1>1. b[0] = <<>> /\ \A i \in 1..n : b[i] = b[i - 1] \o A(i)
  <2>1. 0 \in 0..n
    OBVIOUS
  <2>2. \A i \in 1..n : i \in 0..n /\ i # 0
    OBVIOUS
  <2> QED
    BY <1>0, <2>1, <2>2, Zenon
<1>2. \A i \in 1..n : A(i) \in Seq(S)
  BY DEF A
<1>3. Bad = {}
  <2> Bad \subseteq Nat
    OBVIOUS
  <2>1. SUFFICES ASSUME Bad # {} PROVE FALSE
    OBVIOUS
  <2> HIDE DEF Bad
  <2>2. PICK m \in Bad : \A x \in Bad : m <= x
    BY <2>1, LeastNumber
  <2>3. m \in 0..n /\ ~Laid(t, rs, b, m, S)
    BY DEF Bad
  <2>4. m # 0
    <3>1. b[0] \in Seq(S) /\ 1..0 = {}
      BY <1>1
    <3> QED
      BY <2>3, <3>1 DEF Laid
  <2>5. m - 1 \in 0..n /\ m - 1 \notin Bad /\ m \in 1..n
    BY <2>2, <2>3, <2>4
  <2>6. Laid(t, rs, b, m - 1, S)
    BY <2>5 DEF Bad
  <2> DEFINE s == b[m - 1]
  <2>7. s \in Seq(S) /\ b[m] = s \o A(m) /\ A(m) \in Seq(S)
    BY <1>1, <1>2, <2>5, <2>6 DEF Laid
  <2>8. /\ b[m] \in Seq(S) /\ Follows(b[m], Len(b[m - 1]), A(m)) /\ Len(b[m]) = Len(b[m - 1]) + Len(A(m))
    BY <2>7, FollowsLast
  <2>9. ASSUME NEW i \in 1..(m - 1)
        PROVE  Follows(b[m], Len(b[i - 1]), A(i)) /\ Len(b[i - 1]) + Len(A(i)) <= Len(b[m])
    <3>1. Follows(s, Len(b[i - 1]), A(i)) /\ Len(b[i - 1]) + Len(A(i)) <= Len(s)
      BY <2>6 DEF Laid, A
    <3>2. i \in 1..n /\ i - 1 \in 0..n /\ i - 1 < m
      BY <2>3
    <3>3. i - 1 \notin Bad
      BY <2>2, <2>3, <3>2
    <3>4. b[i - 1] \in Seq(S)
      BY <3>2, <3>3 DEF Bad, Laid
    <3>5. Len(b[i - 1]) \in Nat /\ A(i) \in Seq(S)
      BY <1>2, <3>2, <3>4
    <3> HIDE DEF s
    <3> QED
      BY <2>7, <3>1, <3>5, FollowsOn
  <2>10. \A i \in 1..m : i \in 1..(m - 1) \/ i = m
    BY <2>3
  <2>11. Len(b[m - 1]) + Len(A(m)) <= Len(b[m])
    <3>1. Len(b[m]) \in Nat
      BY <2>8
    <3> QED
      BY <2>8, <3>1
  <2> QED
    BY <2>3, <2>8, <2>9, <2>10, <2>11 DEF Laid, A
<1>4. \A m \in 0..n : Laid(t, rs, b, m, S)
  BY <1>3
<1>5. ASSUME NEW i \in 1..n PROVE Len(b[i]) = Len(b[i - 1]) + Len(A(i))
  <2>1. i - 1 \in 0..n
    OBVIOUS
  <2>2. b[i - 1] \in Seq(S)
    BY <1>4, <2>1 DEF Laid
  <2> QED
    BY <1>1, <1>2, <2>2, FollowsLast
<1> QED
  BY <1>1, <1>4, <1>5 DEF A, Grows

(* The header of an object. *)
Heading(head, n) ==
  <<Magic, Version, head.kind, head.type, HasReasons(head.type),
    head.epoch, head.seq, head.hash, head.key, n>>

IsHeading(H, head, n) ==
  /\ Len(H) = 10 /\ \E S : H \in Seq(S)
  /\ H[1] = Magic /\ H[2] = Version /\ H[4] = head.type /\ H[5] = HasReasons(head.type) /\ H[10] = n

LEMMA HeadingIs ==
  ASSUME NEW head, NEW n
  PROVE  IsHeading(Heading(head, n), head, n)
<1> DEFINE H == Heading(head, n)
           b == Version
           c == head.kind
           d == head.type
           e == HasReasons(head.type)
           f == head.epoch
           g == head.seq
           h == head.hash
           k == head.key
<1>1. H = <<Magic, b, c, d, e, f, g, h, k, n>>
  BY Zenon DEF Heading
<1> HIDE DEF H, b, c, d, e, f, g, h, k
<1>2. /\ H \in Seq({Magic, b, c, d, e, f, g, h, k, n}) /\ Len(H) = 10
      /\ H[1] = Magic /\ H[2] = b /\ H[4] = d /\ H[5] = e /\ H[10] = n
  BY <1>1
<1> QED
  BY <1>2, Zenon DEF H, b, d, e, IsHeading

LEMMA PackedIs ==
  ASSUME NEW head, NEW rs, Len(rs) \in Nat
  PROVE  \E b : IsBody(head.type, rs, b, Len(rs)) /\ Packed(head, rs) = Heading(head, Len(rs)) \o b[Len(rs)]
<1> DEFINE b == CHOOSE g : IsBody(head.type, rs, g, Len(rs))
<1>1. IsBody(head.type, rs, b, Len(rs))
  BY BodyRuns
<1>2. Packed(head, rs) = Heading(head, Len(rs)) \o b[Len(rs)]
  BY Zenon DEF Packed, Heading, IsBody
<1> QED
  BY <1>1, <1>2, Zenon

LEMMA UnpackIs ==
  ASSUME NEW data, Len(data) >= Header, data[1] = Magic, data[2] = Version, data[Header] \in Nat
  PROVE  \E g : /\ IsReading(data, g, data[Header])
                /\ Unpack(data) = [err |-> g[data[Header]].err, recs |-> g[data[Header]].recs]
<1> DEFINE g == CHOOSE f : IsReading(data, f, data[Header])
<1>1. IsReading(data, g, data[Header])
  BY ReadingRuns
<1>2. ~(Len(data) < Header)
  BY DEF Header
<1>3. Unpack(data) = [err |-> g[data[Header]].err, recs |-> g[data[Header]].recs]
  BY <1>2, Zenon DEF Unpack, IsReading, NextRead, FirstRead
<1> QED
  BY <1>1, <1>3, Zenon

(* What is read up to a record that ends at a place: all the records, or that the object is short. *)
Reads(t, rs, data, x, i, place) ==
  /\ place <= Len(data) => x = [err |-> "none", next |-> place + 1, recs |-> [k \in 1..i |-> AsRead(t, rs[k])]]
  /\ ~(place <= Len(data)) => x = [err |-> "short", next |-> 0, recs |-> <<>>]

LEMMA OneMore ==
  ASSUME NEW t, NEW rs, NEW i \in Nat \ {0}
  PROVE  Append([k \in 1..(i - 1) |-> AsRead(t, rs[k])], AsRead(t, rs[i])) = [k \in 1..i |-> AsRead(t, rs[k])]
<1> DEFINE F(k) == AsRead(t, rs[k])
           S == {F(k) : k \in 1..i}
           s == [k \in 1..(i - 1) |-> F(k)]
           u == [k \in 1..i |-> F(k)]
<1> HIDE DEF F
<1>1. s \in Seq(S) /\ Len(s) = i - 1 /\ F(i) \in S /\ u \in Seq(S) /\ Len(u) = i
  OBVIOUS
<1>2. \A k \in 1..(i - 1) : s[k] = u[k]
  OBVIOUS
<1>3. u[i] = F(i)
  OBVIOUS
<1> HIDE DEF s, u, S
<1>4. Append(s, F(i)) = u
  BY <1>1, <1>2, <1>3
<1> QED
  BY <1>4 DEF s, u, F

LEMMA ReadsNext ==
  ASSUME NEW t, NEW rs, NEW data, Len(data) \in Nat, NEW x, NEW i \in Nat \ {0}, NEW place \in Nat,
         Reads(t, rs, data, x, i - 1, place), IsRead(data, place + 1, t, rs[i]),
         Len(appendRecord(t, rs[i])) \in Nat
  PROVE  Reads(t, rs, data, NextRead(data, x), i, place + Len(appendRecord(t, rs[i])))
<1> DEFINE n == Len(appendRecord(t, rs[i]))
           r == unpackRecord(data, place + 1)
           R == [k \in 1..i |-> AsRead(t, rs[k])]
           Q == [k \in 1..(i - 1) |-> AsRead(t, rs[k])]
<1>1. Append(Q, AsRead(t, rs[i])) = R
  BY OneMore
<1>2. /\ place + 1 + n - 1 <= Len(data) => r = [err |-> "none", next |-> place + 1 + n, rec |-> AsRead(t, rs[i])]
      /\ ~(place + 1 + n - 1 <= Len(data)) => r = Broken("short")
  BY DEF IsRead
<1>3. /\ place <= Len(data) => x = [err |-> "none", next |-> place + 1, recs |-> Q]
      /\ ~(place <= Len(data)) => x = [err |-> "short", next |-> 0, recs |-> <<>>]
  BY DEF Reads
<1> HIDE DEF n, r, R, Q
<1>4. n \in Nat
  BY DEF n
<1>5. CASE place + n <= Len(data)
  <2>1. x.err = "none" /\ x.next = place + 1 /\ x.recs = Q
    BY <1>3, <1>4, <1>5
  <2>2. r.err = "none" /\ r.next = place + n + 1 /\ r.rec = AsRead(t, rs[i])
    BY <1>2, <1>4, <1>5
  <2>3. NextRead(data, x) = [err |-> "none", next |-> place + n + 1, recs |-> R]
    BY <1>1, <2>1, <2>2 DEF NextRead, r
  <2> QED
    BY <1>5, <2>3 DEF Reads, n, R
<1>6. CASE place <= Len(data) /\ ~(place + n <= Len(data))
  <2>1. x.err = "none" /\ x.next = place + 1
    BY <1>3, <1>4, <1>6
  <2>2. r.err = "short" /\ r.next = 0
    BY <1>2, <1>4, <1>6 DEF Broken
  <2>3. NextRead(data, x) = [err |-> "short", next |-> 0, recs |-> <<>>]
    BY <2>1, <2>2 DEF NextRead, r
  <2> QED
    BY <1>6, <2>3 DEF Reads, n
<1>7. CASE ~(place <= Len(data))
  <2>1. x = [err |-> "short", next |-> 0, recs |-> <<>>] /\ x.err = "short"
    BY <1>3, <1>7
  <2>2. NextRead(data, x) = x
    BY <2>1 DEF NextRead
  <2>3. ~(place + n <= Len(data))
    BY <1>4, <1>7
  <2> QED
    BY <2>1, <2>2, <2>3 DEF Reads, n
<1> QED
  BY <1>5, <1>6, <1>7

(* What is left of an object when its end is cut off, or the whole of it. *)
IsCut(data, whole) ==
  /\ Len(data) \in Nat /\ Len(data) <= Len(whole)
  /\ \A k \in 1..Len(data) : data[k] = whole[k]

AllTravel(C, t, rs, n) == \A i \in 1..n : CanTravel(t, C, rs[i])

(* All the cells of an object. *)
LEMMA CellsTogether ==
  ASSUME NEW C, NEW t \in {"cidr", "string"}, NEW n \in Nat, NEW rs,
         AllTravel(C, t, rs, n), NEW T, NEW H \in Seq(T)
  PROVE  \E S : H \in Seq(S) /\ \A i \in 1..n : appendRecord(t, rs[i]) \in Seq(S)
<1> DEFINE A(i) == appendRecord(t, rs[i])
           S == T \cup UNION {RangeOf(A(i)) : i \in 1..n}
<1>1. \A i \in 1..n : \E U : A(i) \in Seq(U)
  BY RecordCells DEF AllTravel
<1> HIDE DEF A
<1>2. T \subseteq S /\ \A i \in 1..n : RangeOf(A(i)) \subseteq S
  OBVIOUS
<1> HIDE DEF S
<1>3. H \in Seq(S)
  BY <1>2
<1>4. ASSUME NEW i \in 1..n PROVE A(i) \in Seq(S)
  <2>1. PICK U : A(i) \in Seq(U)
    BY <1>1
  <2>2. \A k \in 1..Len(A(i)) : A(i)[k] \in S
    BY <1>2, <2>1 DEF RangeOf
  <2> QED
    BY <2>1, <2>2
<1> QED
  BY <1>3, <1>4 DEF A

HasType(data, t) == data[4] = t /\ (t = "string" => data[5] = TRUE)

(* The records follow each other, and the header. *)
ObjectIs(t, rs, b, n, H) ==
  /\ b[0] = <<>>
  /\ \A m \in 0..n : Len(b[m]) \in Nat
  /\ \A i \in 1..n : /\ Len(appendRecord(t, rs[i])) \in Nat
                     /\ Len(b[i]) = Len(b[i - 1]) + Len(appendRecord(t, rs[i]))
                     /\ Len(b[i - 1]) + Len(appendRecord(t, rs[i])) <= Len(b[n])
                     /\ Follows(b[n], Len(b[i - 1]), appendRecord(t, rs[i]))
  /\ Len(H \o b[n]) = Len(H) + Len(b[n])
  /\ Follows(H \o b[n], Len(H), b[n])
  /\ \A k \in 1..Len(H) : (H \o b[n])[k] = H[k]
  /\ \E S : H \o b[n] \in Seq(S)

LEMMA ObjectLaid ==
  ASSUME NEW C, NEW t \in {"cidr", "string"}, NEW n \in Nat, NEW rs, AllTravel(C, t, rs, n),
         NEW b, IsBody(t, rs, b, n), NEW T, NEW H \in Seq(T)
  PROVE  ObjectIs(t, rs, b, n, H)
<1> DEFINE A(i) == appendRecord(t, rs[i])
<1>1. PICK S : H \in Seq(S) /\ \A i \in 1..n : A(i) \in Seq(S)
  BY CellsTogether
<1>2. \A m \in 0..n : Laid(t, rs, b, m, S)
  BY <1>1, BodyLaid
<1>3. b[0] = <<>> /\ \A i \in 1..n : Len(b[i]) = Len(b[i - 1]) + Len(A(i))
  <2>1. Grows(t, rs, b, n)
    BY <1>1, BodyLaid
  <2> QED
    BY <2>1, Zenon DEF Grows
<1>4. \A m \in 0..n : b[m] \in Seq(S)
  BY <1>2, Zenon DEF Laid
<1>5. \A m \in 0..n : Len(b[m]) \in Nat
  BY <1>4
<1>6. n \in 0..n
  OBVIOUS
<1>7. \A i \in 1..n : /\ Follows(b[n], Len(b[i - 1]), A(i)) /\ Len(b[i - 1]) + Len(A(i)) <= Len(b[n])
  BY <1>2, <1>6, Zenon DEF Laid
<1>8. b[n] \in Seq(S) /\ H \in Seq(S)
  BY <1>1, <1>4, <1>6
<1>9. Follows(H \o b[n], Len(H), b[n]) /\ Len(H \o b[n]) = Len(H) + Len(b[n])
  BY <1>8, FollowsLast
<1>12. H \o b[n] \in Seq(S)
  BY <1>8, FollowsLast
<1>10. \A k \in 1..Len(H) : (H \o b[n])[k] = H[k]
  BY <1>8, Joined
<1> HIDE DEF A
<1>11. \A i \in 1..n : Len(A(i)) \in Nat
  BY <1>1
<1> QED
  BY <1>3, <1>5, <1>7, <1>9, <1>10, <1>11, <1>12, Zenon DEF A, ObjectIs

LEMMA ReadsAll ==
  ASSUME NEW C, NEW t \in {"cidr", "string"}, NEW n \in Nat, NEW rs, AllTravel(C, t, rs, n),
         NEW b, IsBody(t, rs, b, n), NEW T, NEW H \in Seq(T), Len(H) = Header,
         NEW data, IsCut(data, H \o b[n]), HasType(data, t), Header <= Len(data),
         NEW g, IsReading(data, g, n)
  PROVE  Reads(t, rs, data, g[n], n, Len(H \o b[n]))
<1> DEFINE A(i) == appendRecord(t, rs[i])
           Place(i) == Header + Len(b[i])
           Bad == {i \in 0..n : ~Reads(t, rs, data, g[i], i, Place(i))}
           whole == H \o b[n]
<1>0. Header \in Nat /\ Len(data) \in Nat
  BY DEF IsCut, Header
<1>2. /\ b[0] = <<>>
      /\ \A m \in 0..n : Len(b[m]) \in Nat
      /\ \A i \in 1..n : /\ Len(A(i)) \in Nat
                         /\ Len(b[i]) = Len(b[i - 1]) + Len(A(i))
                         /\ Len(b[i - 1]) + Len(A(i)) <= Len(b[n])
                         /\ Follows(b[n], Len(b[i - 1]), A(i))
      /\ Len(whole) = Len(H) + Len(b[n])
      /\ Follows(whole, Len(H), b[n])
  <2>1. ObjectIs(t, rs, b, n, H)
    BY ObjectLaid
  <2> QED
    BY <2>1, Zenon DEF ObjectIs
<1>3. \A m \in 0..n : Len(b[m]) \in Nat
  BY <1>2, Zenon
<1>4. n \in 0..n
  OBVIOUS
<1>5. /\ Len(whole) = Len(H) + Len(b[n])
      /\ \A k \in 1..Len(b[n]) : whole[Len(H) + k] = b[n][k]
  BY <1>2, Zenon DEF Follows
<1>6. /\ Len(data) <= Len(whole) /\ \A k \in 1..Len(data) : data[k] = whole[k]
  BY DEF IsCut
<1> HIDE DEF whole
<1>7. ASSUME NEW i \in 1..n
      PROVE  /\ IsRead(data, Place(i - 1) + 1, t, rs[i])
             /\ Len(A(i)) \in Nat /\ Place(i) = Place(i - 1) + Len(A(i)) /\ Place(i - 1) \in Nat
  <2>1. i - 1 \in 0..n /\ i \in 0..n
    OBVIOUS
  <2>2. Len(b[i - 1]) \in Nat /\ Len(b[n]) \in Nat /\ Len(A(i)) \in Nat
    BY <1>2, <1>3, <1>4, <2>1, Zenon
  <2>3. Follows(b[n], Len(b[i - 1]), A(i)) /\ Len(b[i - 1]) + Len(A(i)) <= Len(b[n])
    BY <1>2, Zenon
  <2>4. Place(i) = Place(i - 1) + Len(A(i))
    <3>1. Len(b[i]) = Len(b[i - 1]) + Len(A(i))
      BY <1>2, Zenon
    <3> HIDE DEF A
    <3> QED
      BY <1>0, <2>2, <3>1
  <2>5. StandsAt(data, Place(i - 1) + 1, A(i))
    <3> DEFINE q == Len(b[i - 1])
               m == Len(A(i))
    <3>1. q \in Nat /\ m \in Nat /\ q + m <= Len(b[n])
      BY <2>2, <2>3
    <3>2. \A k \in 1..m : b[n][q + k] = A(i)[k]
      BY <2>3 DEF Follows
    <3> HIDE DEF A, q, m
    <3>3. ASSUME NEW k \in 1..m, Header + q + 1 + k - 1 <= Len(data)
          PROVE  data[Header + q + 1 + k - 1] = A(i)[k]
      <4>1. q + k \in 1..Len(b[n]) /\ Header + (q + k) \in 1..Len(data)
            /\ Header + q + 1 + k - 1 = Header + (q + k)
        BY <1>0, <2>2, <3>1, <3>3
      <4>2. whole[Header + (q + k)] = b[n][q + k]
        BY <1>5, <4>1
      <4>3. data[Header + (q + k)] = whole[Header + (q + k)]
        BY <1>6, <4>1
      <4> QED
        BY <3>2, <4>1, <4>2, <4>3
    <3> QED
      BY <3>3 DEF StandsAt, q, m
  <2>6. Place(i - 1) \in Nat
    BY <1>0, <2>2
  <2>7. IsRead(data, Place(i - 1) + 1, t, rs[i])
    <3> DEFINE pos == Place(i - 1) + 1
    <3>1. pos \in Nat
      BY <2>6
    <3>2. StandsAt(data, pos, appendRecord(t, rs[i])) /\ CanTravel(t, C, rs[i])
      BY <2>5, Zenon DEF AllTravel
    <3> HIDE DEF pos
    <3>3. IsRead(data, pos, t, rs[i])
      BY <1>0, <3>1, <3>2, ReadsRecord, Zenon DEF HasType
    <3> QED
      BY <3>3 DEF pos
  <2> QED
    BY <2>2, <2>4, <2>6, <2>7
<1>8. \A i \in 0..n : g[i] = IF i = 0 THEN FirstRead ELSE NextRead(data, g[i - 1])
  BY DEF IsReading
<1>9. Reads(t, rs, data, g[0], 0, Place(0))
  <2>0. 0 \in 0..n /\ b[0] = <<>>
    BY <1>2
  <2>1. g[0] = FirstRead /\ Len(b[0]) = 0
    <3>1. g[0] = FirstRead
      BY <1>8, <2>0, Zenon
    <3>2. Len(b[0]) = 0
      BY <2>0
    <3> QED
      BY <3>1, <3>2
  <2>2. [k \in 1..0 |-> AsRead(t, rs[k])] = <<>>
    OBVIOUS
  <2>3. Place(0) = Header /\ Header <= Len(data)
    BY <1>0, <2>1
  <2> HIDE DEF Place
  <2>4. g[0] = [err |-> "none", next |-> Place(0) + 1, recs |-> [k \in 1..0 |-> AsRead(t, rs[k])]]
    BY <2>1, <2>2, <2>3, Zenon DEF FirstRead
  <2>5. Place(0) <= Len(data)
    BY <2>3
  <2> QED
    BY <2>4, <2>5, Zenon DEF Reads
<1> HIDE DEF A, Place
<1>10. Bad = {}
  <2> Bad \subseteq Nat
    OBVIOUS
  <2>1. SUFFICES ASSUME Bad # {} PROVE FALSE
    OBVIOUS
  <2> HIDE DEF Bad
  <2>2. PICK i \in Bad : \A m \in Bad : i <= m
    BY <2>1, LeastNumber
  <2>3. i \in 0..n /\ ~Reads(t, rs, data, g[i], i, Place(i))
    BY DEF Bad
  <2>4. i # 0
    BY <1>9, <2>3
  <2>5. i - 1 \in 0..n /\ i \in 1..n /\ i - 1 \notin Bad /\ i \in Nat \ {0}
    BY <2>2, <2>3, <2>4
  <2>6. Reads(t, rs, data, g[i - 1], i - 1, Place(i - 1))
    BY <2>5 DEF Bad
  <2>7. g[i] = NextRead(data, g[i - 1])
    BY <1>8, <2>3, <2>4
  <2>8. Reads(t, rs, data, NextRead(data, g[i - 1]), i, Place(i - 1) + Len(appendRecord(t, rs[i])))
    <3>1. /\ IsRead(data, Place(i - 1) + 1, t, rs[i]) /\ Len(appendRecord(t, rs[i])) \in Nat
          /\ Place(i - 1) \in Nat
      BY <1>7, <2>5 DEF A
    <3> QED
      BY <1>0, <2>5, <2>6, <3>1, ReadsNext, Zenon
  <2>9. Place(i) = Place(i - 1) + Len(appendRecord(t, rs[i]))
    BY <1>7, <2>5 DEF A
  <2> QED
    BY <2>3, <2>7, <2>8, <2>9, Zenon
<1>11. Reads(t, rs, data, g[n], n, Place(n))
  BY <1>4, <1>10
<1>12. Place(n) = Len(whole)
  BY <1>5 DEF Place
<1> QED
  BY <1>11, <1>12, Zenon DEF whole

(* Records that can travel in one object. *)
CanPack(C, head, rs) ==
  /\ head.type \in {"cidr", "string"} /\ Len(rs) \in Nat
  /\ \A i \in 1..Len(rs) : CanTravel(head.type, C, rs[i])

(* What a reader gets of them. *)
AllRead(head, rs) == [err |-> "none", recs |-> [i \in 1..Len(rs) |-> AsRead(head.type, rs[i])]]

(* An object, and what Unpack makes of it or of what is left of it. *)
IsObject(T) == Len(T) \in Nat /\ Header <= Len(T) /\ \E S : T \in Seq(S)

LEMMA PackedIsObject ==
  ASSUME NEW C, NEW head, NEW rs, CanPack(C, head, rs)
  PROVE  \E b : /\ IsBody(head.type, rs, b, Len(rs)) /\ Packed(head, rs) = Heading(head, Len(rs)) \o b[Len(rs)]
               /\ ObjectIs(head.type, rs, b, Len(rs), Heading(head, Len(rs)))
               /\ IsObject(Packed(head, rs))
<1> DEFINE t == head.type
           n == Len(rs)
           T == Packed(head, rs)
           H == Heading(head, n)
<1>0. n \in Nat /\ t \in {"cidr", "string"} /\ AllTravel(C, t, rs, n)
  BY Zenon DEF CanPack, AllTravel
<1>1. PICK b : IsBody(t, rs, b, n) /\ T = H \o b[n]
  BY <1>0, PackedIs
<1>2. Len(H) = 10 /\ \E S : H \in Seq(S)
  BY HeadingIs, Zenon DEF IsHeading
<1>3. PICK U : H \in Seq(U)
  BY <1>2, Zenon
<1> HIDE DEF H, T, n, t
<1>4. ObjectIs(t, rs, b, n, H)
  BY <1>0, <1>1, <1>3, ObjectLaid
<1>5. /\ Len(T) = Len(H) + Len(b[n]) /\ \E S : T \in Seq(S)
      /\ \A m \in 0..n : Len(b[m]) \in Nat
  BY <1>1, <1>4, Zenon DEF ObjectIs
<1>6. Len(b[n]) \in Nat
  <2>1. n \in 0..n
    BY <1>0
  <2> QED
    BY <1>5, <2>1, Zenon
<1>7. Len(T) \in Nat /\ Header <= Len(T)
  BY <1>2, <1>5, <1>6 DEF Header
<1> QED
  BY <1>1, <1>4, <1>5, <1>7, Zenon DEF IsObject, T, H, t, n

Unpacks(head, rs, data) ==
  /\ Len(data) = Len(Packed(head, rs)) => Unpack(data) = AllRead(head, rs)
  /\ Len(data) # Len(Packed(head, rs)) => Unpack(data).err = "short"

LEMMA Unpacked ==
  ASSUME NEW C, NEW head, NEW rs, CanPack(C, head, rs),
         NEW data, IsCut(data, Packed(head, rs)), Header <= Len(data)
  PROVE  Unpacks(head, rs, data)
<1> DEFINE t == head.type
           n == Len(rs)
           T == Packed(head, rs)
           H == Heading(head, n)
           R == [i \in 1..n |-> AsRead(t, rs[i])]
<1>0. n \in Nat /\ t \in {"cidr", "string"} /\ AllTravel(C, t, rs, n)
  BY Zenon DEF CanPack, AllTravel
<1>1. PICK b : IsBody(t, rs, b, n) /\ T = H \o b[n] /\ ObjectIs(t, rs, b, n, H) /\ IsObject(T)
  BY PackedIsObject, Zenon
<1>2. /\ Len(H) = 10 /\ \E S : H \in Seq(S)
      /\ H[1] = Magic /\ H[2] = Version /\ H[4] = t /\ H[5] = HasReasons(t) /\ H[10] = n
  <2>1. IsHeading(H, head, n)
    BY HeadingIs, Zenon
  <2> HIDE DEF H, n
  <2> QED
    BY <2>1, Zenon DEF IsHeading
<1>3. PICK S : H \in Seq(S)
  BY <1>2, Zenon
<1> HIDE DEF H, T, n, t, R
<1>4. IsCut(data, T)
  BY Zenon DEF T
<1>6. /\ Len(T) = Len(H) + Len(b[n]) /\ \A k \in 1..Len(H) : T[k] = H[k]
  BY <1>1, Zenon DEF ObjectIs
<1>8. Len(T) \in Nat /\ Header <= Len(T)
  BY <1>1, Zenon DEF IsObject
<1>9. /\ Len(data) \in Nat /\ Len(data) <= Len(T)
      /\ \A k \in 1..Len(data) : data[k] = T[k]
  BY <1>4, Zenon DEF IsCut
<1>10. \A k \in {1, 2, 4, 5, 10} : data[k] = H[k]
  <2>1. \A k \in {1, 2, 4, 5, 10} : k \in 1..Len(data) /\ k \in 1..Len(H)
    <3>1. 10 <= Len(data) /\ Len(H) = 10
      BY <1>2 DEF Header
    <3> QED
      BY <1>9, <3>1
  <2> QED
    BY <1>6, <1>9, <2>1, Zenon
<1>11. /\ data[1] = Magic /\ data[2] = Version /\ data[4] = t /\ data[5] = HasReasons(t) /\ data[10] = n
  BY <1>2, <1>10, Zenon
<1>12. HasType(data, t)
  <2>1. "string" # "cidr"
    OBVIOUS
  <2> QED
    BY <1>11, <2>1, Zenon DEF HasType, HasReasons
<1>13. data[Header] = n /\ Len(H) = Header
  BY <1>2, <1>11, Zenon DEF Header
<1>14. PICK g : IsReading(data, g, n) /\ Unpack(data) = [err |-> g[n].err, recs |-> g[n].recs]
  <2>1. Len(data) >= Header /\ data[Header] \in Nat
    BY <1>0, <1>9, <1>13 DEF Header
  <2>2. \E g : /\ IsReading(data, g, data[Header])
               /\ Unpack(data) = [err |-> g[data[Header]].err, recs |-> g[data[Header]].recs]
    BY <1>11, <2>1, UnpackIs, Zenon
  <2> QED
    BY <1>13, <2>2, Zenon
<1>15. Reads(t, rs, data, g[n], n, Len(T))
  <2>1. IsCut(data, H \o b[n])
    BY <1>1, <1>4, Zenon
  <2>2. IsReading(data, g, n)
    BY <1>14, Zenon
  <2>3. Reads(t, rs, data, g[n], n, Len(H \o b[n]))
    BY <1>0, <1>1, <1>3, <1>12, <1>13, <2>1, <2>2, ReadsAll
  <2> QED
    BY <1>1, <2>3, Zenon
<1>16. Len(data) = Len(T) => Unpack(data) = [err |-> "none", recs |-> R]
  <2> SUFFICES ASSUME Len(data) = Len(T) PROVE Unpack(data) = [err |-> "none", recs |-> R]
    OBVIOUS
  <2>1. Len(T) <= Len(data)
    BY <1>8
  <2>2. g[n] = [err |-> "none", next |-> Len(T) + 1, recs |-> R]
    BY <1>15, <2>1, Zenon DEF Reads, R
  <2>3. g[n].err = "none" /\ g[n].recs = R
    BY <2>2
  <2> QED
    BY <1>14, <2>3, Zenon
<1>17. Len(data) # Len(T) => Unpack(data).err = "short"
  <2> SUFFICES ASSUME Len(data) # Len(T) PROVE Unpack(data).err = "short"
    OBVIOUS
  <2>1. ~(Len(T) <= Len(data))
    BY <1>8, <1>9
  <2>2. g[n] = [err |-> "short", next |-> 0, recs |-> <<>>]
    BY <1>15, <2>1, Zenon DEF Reads
  <2>3. g[n].err = "short"
    BY <2>2
  <2>4. Unpack(data).err = g[n].err
    BY <1>14
  <2> QED
    BY <2>3, <2>4, Zenon
<1> QED
  BY <1>16, <1>17, Zenon DEF Unpacks, AllRead, n, t, T, R

LEMMA HeadCut ==
  ASSUME NEW data, Len(data) \in Nat, Len(data) < Header
  PROVE  Unpack(data).err = "short"
<1>1. ~(Len(data) >= Header)
  BY DEF Header
<1>2. Unpack(data) = [err |-> "short", recs |-> <<>>]
  BY <1>1, Zenon DEF Unpack
<1> QED
  BY <1>2

(* A package or a snapshot is read back as it was packed: every record, in its place, with the *)
(* operation, the value, the expiry and the reason it has; a prefix stands for the value of a  *)
(* record of addresses, which has no reason (Pack and Unpack of wire/pack.go).                 *)
THEOREM PackedReadBack ==
  ASSUME NEW C, NEW head, NEW rs, CanPack(C, head, rs)
  PROVE  Unpack(Packed(head, rs)) = AllRead(head, rs)
<1> DEFINE T == Packed(head, rs)
<1>1. IsObject(T)
  BY PackedIsObject, Zenon
<1>2. Len(T) \in Nat /\ Header <= Len(T)
  BY <1>1, Zenon DEF IsObject
<1> HIDE DEF T
<1>3. IsCut(T, T)
  BY <1>2 DEF IsCut
<1>4. Unpacks(head, rs, T)
  BY <1>2, <1>3, Unpacked, Zenon DEF T
<1> QED
  BY <1>4, Zenon DEF Unpacks, T

(* An object whose end is missing, wherever it is cut, is refused as short instead of being    *)
(* read in part: the header says how many records there are (the tests of what is left in      *)
(* Unpack, unpackCIDR and unpackString of wire/pack.go).                                       *)
THEOREM PackedCutOff ==
  ASSUME NEW C, NEW head, NEW rs, CanPack(C, head, rs),
         NEW n \in 0..(Len(Packed(head, rs)) - 1)
  PROVE  Unpack(SubSeq(Packed(head, rs), 1, n)).err = "short"
<1> DEFINE T == Packed(head, rs)
           D == SubSeq(T, 1, n)
<1>1. IsObject(T)
  BY PackedIsObject, Zenon
<1>2. Len(T) \in Nat /\ Header <= Len(T) /\ \E S : T \in Seq(S)
  BY <1>1, Zenon DEF IsObject
<1> HIDE DEF T
<1>3. n \in Nat /\ n < Len(T)
  BY <1>2 DEF T
<1>4. PICK S : T \in Seq(S)
  BY <1>2, Zenon
<1>5. Len(D) = n /\ \A k \in 1..n : D[k] = T[k]
  BY <1>2, <1>3, <1>4
<1> HIDE DEF D
<1>6. IsCut(D, T) /\ Len(D) # Len(T)
  BY <1>2, <1>3, <1>5 DEF IsCut
<1>7. CASE Header <= Len(D)
  <2>1. Unpacks(head, rs, D)
    BY <1>6, <1>7, Unpacked, Zenon DEF T
  <2> QED
    BY <1>6, <2>1, Zenon DEF Unpacks, T, D
<1>8. CASE ~(Header <= Len(D))
  <2>1. Len(D) < Header /\ Len(D) \in Nat
    BY <1>3, <1>5, <1>8 DEF Header
  <2>2. Unpack(D).err = "short"
    BY <2>1, HeadCut
  <2> QED
    BY <2>2 DEF D, T
<1> QED
  BY <1>7, <1>8

(* The snapshot of a set that has prefixes for its addresses, and reasons that fit. *)
SnapshotFits(C) ==
  /\ ~(def.hash /\ def.type = "cidr")
  /\ def.type # "cidr" => \A v \in DOMAIN entries : entries[v].reason \in Seq(C) /\ Len(entries[v].reason) < LenMod

(* Whatever order the records are in, it is read back as a whole or refused. *)
SnapshotReadBack ==
  \A s \in Seq(SnapshotRecords) :
    LET data == Packed(Top("snapshot"), s) IN
    /\ Unpack(data) = AllRead(Top("snapshot"), s)
    /\ \A n \in 0..(Len(data) - 1) : Unpack(SubSeq(data, 1, n)).err = "short"

LEMMA SnapshotTravels ==
  ASSUME NEW C, def \in Definitions, HoldsApt, SnapshotFits(C), NEW s \in Seq(SnapshotRecords)
  PROVE  CanPack(C, Top("snapshot"), s)
<1> DEFINE t == PackType(def.type)
<1>1. Top("snapshot").type = t
  BY DEF Top
<1>2. t \in {"cidr", "string"} /\ (t = "cidr" <=> def.type = "cidr")
  BY DEF PackType
<1>3. ~(def.hash /\ def.type = "cidr")
  BY Zenon DEF SnapshotFits
<1>4. \A v \in DOMAIN entries : def.type = "cidr" => ParsePrefix(v) \in Prefixes
  BY <1>3, Zenon DEF HoldsApt, Apt
<1>5. def.type # "cidr" => \A v \in DOMAIN entries : entries[v].reason \in Seq(C) /\ Len(entries[v].reason) < LenMod
  BY Zenon DEF SnapshotFits
<1>6. ASSUME NEW r \in SnapshotRecords PROVE CanTravel(t, C, r)
  <2>1. PICK v \in DOMAIN entries :
          r = RecordOf(def.type, "add", v, [exp |-> entries[v].exp, reason |-> entries[v].reason, prefix |-> NoPrefix])
    BY <1>6, Zenon DEF SnapshotRecords
  <2>2. r.reason = entries[v].reason /\ (def.type = "cidr" => r.prefix = ParsePrefix(v))
    BY <2>1 DEF RecordOf
  <2>3. t = "cidr" => r.prefix \in Prefixes
    BY <1>2, <1>4, <2>2, Zenon
  <2>4. t = "string" => r.reason \in Seq(C) /\ Len(r.reason) < LenMod
    <3>1. t = "string" => def.type # "cidr"
      BY <1>2
    <3> QED
      BY <1>5, <2>2, <3>1, Zenon
  <2> QED
    BY <2>3, <2>4, Zenon DEF CanTravel
<1> HIDE DEF t
<1>7. Len(s) \in Nat /\ \A i \in 1..Len(s) : s[i] \in SnapshotRecords
  OBVIOUS
<1>8. \A i \in 1..Len(s) : CanTravel(t, C, s[i])
  BY <1>6, <1>7, Zenon
<1> QED
  BY <1>1, <1>2, <1>7, <1>8, Zenon DEF CanPack

(***************************************************************************)
(* A mirror that loads a snapshot gets every entry of the set, with its    *)
(* prefix or value, expiry and reason, whatever order packSnapshot found   *)
(* them in, and refuses a snapshot whose end is missing.  C is what the    *)
(* reasons are made of; the two exceptions are a set that keeps addresses  *)
(* as hashes, whose records have no prefix to travel by, and a reason of   *)
(* LenMod bytes or more, whose length does not fit its field.              *)
(***************************************************************************)
THEOREM ServiceSnapshotReadBack ==
  ASSUME NEW CONSTANT C
  PROVE  SSpec => [](SnapshotFits(C) => SnapshotReadBack)
<1>1. SInit => HoldsApt
  BY DEF SInit, HoldsApt
<1>2. ServiceInv /\ HoldsApt /\ [SNext]_svars => HoldsApt'
  BY AptStep
<1>3. ServiceInv /\ HoldsApt => (SnapshotFits(C) => SnapshotReadBack)
  <2> SUFFICES ASSUME ServiceInv, HoldsApt, SnapshotFits(C), NEW s \in Seq(SnapshotRecords)
               PROVE  LET data == Packed(Top("snapshot"), s) IN
                      /\ Unpack(data) = AllRead(Top("snapshot"), s)
                      /\ \A n \in 0..(Len(data) - 1) : Unpack(SubSeq(data, 1, n)).err = "short"
    BY Zenon DEF SnapshotReadBack
  <2>1. def \in Definitions
    BY DEF ServiceInv
  <2>2. CanPack(C, Top("snapshot"), s)
    BY <2>1, SnapshotTravels, Zenon
  <2> QED
    BY <2>2, PackedReadBack, PackedCutOff, Zenon
<1> QED
  BY <1>1, <1>2, <1>3, ServiceKept, PTL DEF SSpec
=============================================================================
