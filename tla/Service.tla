-------------------------------- MODULE Service --------------------------------
(***************************************************************************)
(* The process around the pipeline: main.go with its order of starting,    *)
(* the handlers of the bus with their slots, the validation of a write in  *)
(* Submit, Lookup, and what a write becomes on its way to a mirror: a      *)
(* canonical value, a hash material, a record of a package.  One set, of   *)
(* the definition def.  Between validation and answer the write is in the  *)
(* hands of the pipeline, which Pipeline models: here it is stored, or not.*)
(***************************************************************************)
EXTENDS Codec, FiniteSets

CONSTANTS
  Definitions,  \* definitions the set may have
  Events,       \* messages to waf.sets.<set>.event, for each definition
  Texts,        \* values that are looked up
  Handlers,     \* goroutines of events
  Inflight,     \* eventInflight
  Attempts,     \* 30
  MaxClock, MaxRestarts  \* bounds of the model

ASSUME ServiceAssumption ==
  /\ IsFiniteSet(Handlers)
  /\ Blank \notin Texts /\ TooLong \notin Texts /\ \A x \in Texts : Spelled(x)
  /\ \A d \in Definitions :
       /\ d.type \in {"cidr", "numeric", "string"} /\ d.ttl.unit \in DOMAIN Units
       /\ \A ev \in Events[d] :
            /\ ev.ttl \in Int
            /\ Len(ev.values) \in Nat /\ DOMAIN ev.values = 1..Len(ev.values)
            /\ \A i \in DOMAIN ev.values : Spelled(ev.values[i])
  /\ {Inflight, Attempts} \subseteq Nat \ {0} /\ {MaxClock, MaxRestarts} \subseteq Nat

VARIABLES
  stage,     \* how far main has got
  tries,     \* attempts of the current wait
  ready,     \* Keeper.ready
  def,       \* the definition of the set
  slots,     \* slots of the bus that are taken
  call,      \* each handler goroutine
  entries,   \* the set: value -> expiry, reason, prefix it was hashed by
  mirrored,  \* what the packages have made of a mirror: material -> expiry, reason
  promised,  \* history: text -> until when it was acknowledged, 0 for not
  clock, restarts

process == <<stage, tries, ready, restarts>>
contents == <<entries, mirrored, promised>>
svars == <<process, def, slots, call, contents, clock>>

NoCall == [pc |-> "free", ev |-> <<>>, slot |-> FALSE, recs |-> <<>>, exp |-> 0, due |-> 0, reply |-> "none"]
RangeOf(s) == {s[i] : i \in DOMAIN s}
Without(f, k) == [x \in DOMAIN f \ {k} |-> f[x]]
Updated(f, k, x) == [y \in DOMAIN f \cup {k} |-> IF y = k THEN x ELSE f[y]]

SInit ==
  /\ stage = "config" /\ tries = 0 /\ ready = FALSE /\ restarts = 0
  /\ def \in Definitions
  /\ slots = 0 /\ call = [h \in Handlers |-> NoCall]
  /\ entries = <<>> /\ mirrored = <<>>
  /\ promised = [x \in Texts |-> 0]
  /\ clock = 1

------------------------------------------------------------------------------
(* main().  Each step may fail; a failure ends the process, after the last attempt *)
(* for the two that wait.                                                          *)

Goes(from, to) == stage = from /\ stage' = to
Dies == /\ stage' = "exited" /\ ready' = FALSE
        /\ slots' = 0 /\ call' = [h \in Handlers |-> NoCall]

Rest == <<def, contents, clock, restarts>>
Alive == <<ready, slots, call>>

(* Fault: never gives up. *)
WaitForEver(from, to) ==
  /\ stage = from
  /\ \/ stage' = to /\ tries' = 0 /\ UNCHANGED Alive
     \/ tries' = (tries + 1) % Attempts /\ UNCHANGED <<stage, Alive>>
  /\ UNCHANGED Rest

(* openDefinitions and waitState: retry, give up after the last attempt or when told to stop. *)
Wait(from, to) ==
  /\ stage = from
  /\ \/ stage' = to /\ tries' = 0 /\ UNCHANGED Alive
     \/ tries + 1 < Attempts /\ tries' = tries + 1 /\ UNCHANGED <<stage, Alive>>
     \/ tries + 1 = Attempts /\ tries' = 0 /\ Dies
  /\ UNCHANGED Rest

(* Settings are taken or refused as a whole; refusing them is an Exit. *)
Load == Goes("config", "definitions") /\ UNCHANGED <<tries, Alive, Rest>>
openDefinitions == Wait("definitions", "bus")
Connect == Goes("bus", "state") /\ UNCHANGED <<tries, Alive, Rest>>
waitState == Wait("state", "start")

(* Start mounts every set and says ready; a failed mount ends the process. *)
Start == Goes("start", "serve") /\ ready' = TRUE /\ UNCHANGED <<tries, slots, call, Rest>>
Serve == Goes("serve", "run") /\ UNCHANGED <<tries, Alive, Rest>>

(* A step that does not wait fails, the HTTP server does, or a signal arrives. *)
Exit ==
  /\ stage # "exited" /\ restarts < MaxRestarts
  /\ Dies /\ tries' = 0
  /\ UNCHANGED Rest

(* The supervisor starts the process again; the set is loaded from Redis, which keeps *)
(* values, expiry and reasons but no prefixes.                                        *)
Restart ==
  /\ stage = "exited" /\ restarts < MaxRestarts
  /\ stage' = "config" /\ restarts' = restarts + 1
  /\ entries' = [v \in DOMAIN entries |->
                   [exp |-> entries[v].exp, reason |-> entries[v].reason, prefix |-> NoPrefix]]
  /\ UNCHANGED <<tries, ready, def, slots, call, mirrored, promised, clock>>

Boot == Load \/ openDefinitions \/ Connect \/ waitState \/ Start \/ Serve

------------------------------------------------------------------------------
(* Validation in Submit. *)

Lifetime(ev) == IF ev.ttl <= 0 THEN ParseSeconds(def.ttl) ELSE ev.ttl

Canon(text) == CanonPrefix(def.type, text)

(* The first value that is refused refuses the write. *)
ValueError(ev) ==
  LET bad == {i \in DOMAIN ev.values : Canon(ev.values[i]).err # "none"}
      first == CHOOSE i \in bad : \A j \in bad : i <= j
  IN  IF bad = {} THEN "none"
      ELSE IF Canon(ev.values[first]).err = "too_long" THEN "too_long" ELSE "wrong_type"

(* The tests of Submit in their order; the first that fails refuses the write. *)
Op(ev) == IF ev.op = "none" THEN "add" ELSE ev.op

Refusal(ev) ==
  IF ~ready THEN "not_ready"
  ELSE IF ev.set # "set" THEN "unknown_set"
  ELSE IF Op(ev) \notin {"add", "remove"} THEN "bad_op"
  ELSE IF ev.origin = "none" THEN "no_origin"
  ELSE IF ev.values = <<>> THEN "wrong_type"
  ELSE IF ValueError(ev) # "none" THEN ValueError(ev)
  ELSE IF Op(ev) = "add" /\ ev.forever THEN "forever"
  ELSE IF Op(ev) = "add" /\ Lifetime(ev) <= 0 THEN "no_ttl"
  ELSE "none"

(* The records of a write: canonical, hashed if the set is, each value once. *)
Stored(ev, text) == IF def.hash /\ ~ev.hashed THEN MD5Hex(Canon(text).value) ELSE Canon(text).value

Record(ev, i) == [value |-> Stored(ev, ev.values[i]), prefix |-> Canon(ev.values[i]).prefix]

Records(ev) ==
  LET upTo[i \in 0..Len(ev.values)] ==
        IF i = 0 THEN <<>>
        ELSE IF \E r \in RangeOf(upTo[i - 1]) : r.value = Record(ev, i).value THEN upTo[i - 1]
        ELSE Append(upTo[i - 1], Record(ev, i))
  IN  upTo[Len(ev.values)]

------------------------------------------------------------------------------
(* The handlers of the bus. *)

Answer(h, code) == call' = [call EXCEPT ![h] = [NoCall EXCEPT !.pc = "replied", !.slot = TRUE, !.reply = code]]

(* onEvent: a goroutine if there is a slot for it, else a refusal at once (overloaded). *)
onEvent(h, ev) ==
  /\ stage = "run" /\ call[h].pc = "free"
  /\ slots < Inflight /\ slots' = slots + 1
  /\ call' = [call EXCEPT ![h] = [NoCall EXCEPT !.pc = "work", !.ev = ev, !.slot = TRUE]]
  /\ UNCHANGED <<process, def, contents, clock>>

Overloaded == stage = "run" /\ slots = Inflight /\ UNCHANGED svars

(* Submit up to the queue.  due is a history of what the writer asked for: the end of a *)
(* lifetime that an integer holds.                                                      *)
Fits(ev) == Lifetime(ev) * Second <= IntMax

Submit(h, ev) ==
  IF Refusal(ev) # "none" THEN Answer(h, Refusal(ev))
  ELSE call' = [call EXCEPT ![h].pc = "queued", ![h].recs = Records(ev),
                  ![h].exp = IF Op(ev) = "add" THEN ExpiryOf(clock, Lifetime(ev)) ELSE 0,
                  ![h].due = IF Op(ev) = "add" /\ Fits(ev) THEN clock + Lifetime(ev) * Second ELSE 0]

(* Fault: what is not JSON returns without giving its slot back. *)
HandleLeaks(h) ==
  /\ call[h].pc = "work"
  /\ IF ~call[h].ev.json THEN call' = [call EXCEPT ![h] = NoCall] ELSE Submit(h, call[h].ev)
  /\ UNCHANGED <<process, def, slots, contents, clock>>

(* The goroutine: what is not JSON is refused, the rest goes through Submit. *)
Handle(h) ==
  /\ call[h].pc = "work"
  /\ IF ~call[h].ev.json THEN Answer(h, "bad_request") ELSE Submit(h, call[h].ev)
  /\ UNCHANGED <<process, def, slots, contents, clock>>

(* The pipeline refuses it: full, overloaded, store_unavailable or unknown_set. *)
Refuse(h) ==
  /\ call[h].pc = "queued"
  /\ Answer(h, "refused")
  /\ UNCHANGED <<process, def, slots, contents, clock>>

(* The goroutine ends after its reply. *)
Release(h) ==
  /\ call[h].pc = "replied"
  /\ slots' = IF call[h].slot THEN slots - 1 ELSE slots
  /\ call' = [call EXCEPT ![h] = NoCall]
  /\ UNCHANGED <<process, def, contents, clock>>

------------------------------------------------------------------------------
(* A change of the set: the entries, and the package that takes it to the mirror. *)

Top(kind) ==
  [kind |-> kind, type |-> PackType(def.type), epoch |-> "epoch", seq |-> "seq", hash |-> "hash", key |-> "key"]

(* What a mirror does with the records of an object. *)
Decoded(m, data) ==
  LET recs == Unpack(data).recs
      key(i) == RecordMaterial(PackType(def.type), recs[i])
      after[i \in 0..Len(recs)] ==
        IF i = 0 THEN m
        ELSE IF recs[i].op = "remove" THEN Without(after[i - 1], key(i))
        ELSE Updated(after[i - 1], key(i), [exp |-> recs[i].exp, reason |-> recs[i].reason])
  IN  after[Len(recs)]

(* Plan leaves out what changes nothing; an entry keeps the hash it was inserted with. *)
Inserted(r, exp, reason) ==
  [exp |-> exp, reason |-> reason,
   prefix |-> IF r.value \in DOMAIN entries THEN entries[r.value].prefix ELSE r.prefix]

Added(recs, exp, reason) ==
  /\ entries' = [v \in DOMAIN entries \cup {r.value : r \in RangeOf(recs)} |->
       IF \E r \in RangeOf(recs) : r.value = v
       THEN Inserted(CHOOSE r \in RangeOf(recs) : r.value = v, exp, reason) ELSE entries[v]]
  /\ LET new == SelectSeq(recs, LAMBDA r : r.value \notin DOMAIN entries
                            \/ entries[r.value].exp # exp \/ entries[r.value].reason # reason)
         packed == [i \in DOMAIN new |->
           RecordOf(def.type, "add", new[i].value, [exp |-> exp, reason |-> reason, prefix |-> new[i].prefix])]
     IN  mirrored' = Decoded(mirrored, Pack(Top("package"), packed))

Removed(recs) ==
  /\ entries' = [v \in DOMAIN entries \ {r.value : r \in RangeOf(recs)} |-> entries[v]]
  /\ LET gone == SelectSeq(recs, LAMBDA r : r.value \in DOMAIN entries)
         packed == [i \in DOMAIN gone |->
           RecordOf(def.type, "remove", gone[i].value, [exp |-> 0, reason |-> <<>>, prefix |-> gone[i].prefix])]
     IN  mirrored' = Decoded(mirrored, Pack(Top("package"), packed))

(* The value a text stands for in this set, and the texts an event is about. *)
Denotes(text) == IF def.hash THEN MD5Hex(Canon(text).value) ELSE Canon(text).value
Named(ev, text) == \E i \in DOMAIN ev.values :
  ev.values[i] = IF def.hash /\ ev.hashed THEN MD5Hex(text) ELSE text

Commit(h) ==
  /\ call[h].pc = "queued"
  /\ LET c == call[h] IN
     /\ IF Op(c.ev) = "add" THEN Added(c.recs, c.exp, c.ev.reason) ELSE Removed(c.recs)
     /\ promised' = [x \in Texts |->
          IF Named(c.ev, x) THEN c.due
          ELSE IF Denotes(x) \in {r.value : r \in RangeOf(c.recs)} THEN 0 ELSE promised[x]]
  /\ Answer(h, "ok")
  /\ UNCHANGED <<process, def, slots, clock>>

(* A sweep knows the value alone; an expiry that is not positive is none. *)
Sweep(v) ==
  /\ ready /\ entries[v].exp \in 1..clock
  /\ Removed(<<[value |-> v, prefix |-> NoPrefix]>>)
  /\ UNCHANGED <<process, def, slots, call, promised, clock>>

(* Fault: the value is not hashed. *)
LookupInClear(text) ==
  LET v == Canon(text).value
  IN  Canon(text).err = "none" /\ v \in DOMAIN entries /\ entries[v].exp \notin 1..clock

Lookup(text) ==
  LET v == Denotes(text)
  IN  Canon(text).err = "none" /\ v \in DOMAIN entries /\ entries[v].exp \notin 1..clock

Clock ==
  /\ clock' \in {entries[v].exp : v \in DOMAIN entries} /\ clock' \in (clock + 1)..MaxClock
  /\ UNCHANGED <<process, def, slots, call, contents>>

Handler(h) == Handle(h) \/ Commit(h) \/ Refuse(h) \/ Release(h)

SNext ==
  \/ Boot \/ Exit \/ Restart
  \/ \E h \in Handlers : Handler(h) \/ \E ev \in Events[def] : onEvent(h, ev)
  \/ Overloaded
  \/ \E v \in DOMAIN entries : Sweep(v)
  \/ Clock

(* main goes on as long as the process lives; nothing is assumed of clients, clock, signals *)
(* or the supervisor.                                                                        *)
SSpec == SInit /\ [][SNext]_svars /\ WF_svars(Boot)

------------------------------------------------------------------------------
(* A snapshot of the entries, whose records packSnapshot finds in any order. *)
SnapshotRecords ==
  {RecordOf(def.type, "add", v, [exp |-> entries[v].exp, reason |-> entries[v].reason, prefix |-> NoPrefix])
   : v \in DOMAIN entries}
Orders(S) == {s \in [1..Cardinality(S) -> S] : RangeOf(s) = S}

(* Types of the state. *)
STypeOK ==
  /\ stage \in {"config", "definitions", "bus", "state", "start", "serve", "run", "exited"}
  /\ tries \in 0..(Attempts - 1) /\ ready \in BOOLEAN /\ restarts \in 0..MaxRestarts
  /\ def \in Definitions /\ slots \in 0..Inflight /\ clock \in 1..MaxClock
  /\ \A h \in Handlers : DOMAIN call[h] = DOMAIN NoCall
                          /\ call[h].pc \in {"free", "work", "queued", "replied"}
  /\ \A v \in DOMAIN entries : entries[v].exp \in Int /\ Len(entries[v].reason) < LenMod
  /\ \A k \in DOMAIN mirrored : mirrored[k].exp \in Int /\ Len(mirrored[k].reason) < LenMod

(* The slots that are taken are those of goroutines that have not ended, whatever way     *)
(* they leave by: a slot that is not given back makes the bus refuse every event in time. *)
SlotsExact == slots = Cardinality({h \in Handlers : call[h].slot})

(* A stored value is its own canonical form, so that after a restart, or in a lookup by   *)
(* what is stored, it is the same member; and its hash does not depend on the prefix that *)
(* Submit knew and Redis forgets: the hash of a set that is loaded again passes the test  *)
(* of mount.                                                                              *)
StoredCanonical ==
  \A v \in DOMAIN entries :
    /\ ~def.hash => Canon(v).err = "none" /\ Canon(v).value = v
    /\ hashOf(def.type, v, entries[v].prefix) = hashOf(def.type, v, NoPrefix)

(* A mirror that has followed every package holds what a mirror that loads a snapshot now *)
(* would hold: members, expiry and reasons.                                               *)
MirrorAgrees ==
  mirrored = Decoded(<<>>, Pack(Top("snapshot"), CHOOSE s \in Orders(SnapshotRecords) : TRUE))

(* Two packs of the same contents are the same object, although a map is walked in any    *)
(* order, and whatever its end is cut off is refused instead of being applied in part.    *)
SnapshotExact ==
  LET objects == {Pack(Top("snapshot"), s) : s \in Orders(SnapshotRecords)}
  IN  /\ Cardinality(objects) = 1
      /\ \A data \in objects :
           /\ RangeOf(Unpack(data).recs) = {[r EXCEPT !.value = IF PackType(def.type) = "cidr" THEN Blank ELSE @,
                                                     !.reason = IF HasReasons(PackType(def.type)) THEN @ ELSE <<>>]
                                           : r \in SnapshotRecords}
           /\ \A n \in 0..(Len(data) - 1) : Unpack(SubSeq(data, 1, n)).err = "short"

(* An addition that was acknowledged is found by Lookup, under the spelling it was made    *)
(* with, for the whole lifetime asked for, unless it was replaced or removed since; sweeps, *)
(* restarts and other spellings of other values in between.                                *)
AckedIsFound == \A x \in Texts : promised[x] > clock => Lookup(x)

Alike == {p \in Texts \X Texts : p[1] # p[2] /\ Meaning(p[1]) = Meaning(p[2])}

(* Spellings that stand for the same addresses, or the same number, are one member: after *)
(* additions and removals under any of them all are found or none is.  A network that is   *)
(* given in its IPv4-mapped form is another member than its IPv4 form.                     *)
SpellingsAgree == def.type # "string" => \A p \in Alike : Lookup(p[1]) <=> Lookup(p[2])

(* The process comes up or ends: it does not wait for PostgreSQL or Redis for ever. *)
StartsOrExits == stage = "config" ~> stage \in {"run", "exited"}

=============================================================================
