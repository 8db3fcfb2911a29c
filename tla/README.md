# A TLA+ model of the Placitum keeper

The keeper is the source of truth for active datasets: it takes writes from inspectors, orders them,
stores them in Redis, tells mirrors about them and answers. This directory models the parts of it
where several goroutines, a store that fails and a process that crashes meet, checks them with TLC on
small instances and proves the central ones with TLAPS for every instance. Paths such as
`keeper.go:561` are relative to `src/internal/keeper/`, `src/internal/set/` and so on.

## The system

| Component | State | Operations | Talks to |
| --- | --- | --- | --- |
| active set, `set/set.go` | committed `entries`, `seq`, `hash`; pending outcomes `pend`, `pendSeq`, `pendHash`, `pendSize`, generation; expiry heap | `load`, `Plan`, `Commit`, `Abort`, `Expired`, `Size`, `Fresh`, `Snapshot` | called under its mutex by the two goroutines of a holder |
| write pipeline, `keeper/keeper.go` | `queued`, channel `jobs`, channel `batches`, one reply channel per job | `Submit`, `planner`, `gather`, `plan`, `answer`, `committer`, `commit` | bus handlers, set, state store |
| lifecycle of holders, `keeper.go` | map `sets`, `ready`, `stop` and `done` of each holder | `Start`, `mount`, `Define`, `Reload`, `drop`, `shutdown` | definition store, state store |
| state store, `state/state.go` | per set a meta hash and a sorted set of records; packages and snapshots with a lifetime | `Load`, `Reset`, `Commit`, `Put`, `Drop` | Redis |
| definition store, `store/pg.go` | none (a table of the controller) | `LoadDefinitions`, `LoadDefinition` | PostgreSQL |
| replication, `keeper.go`, `wire/wire.go` | cached snapshot reference, diff and tick frames | `commit` (publish), `tick`, `Snapshot` | mirrors, which are not in this repository |
| bus, `bus/bus.go` | slots for events | one handler per subject, one goroutine per message | NATS |
| pure parts: `set/canon.go`, `set/material.go`, `set/siphash.go`, `wire/pack.go`, `nginxtime` | none | canonical values, hash material, package layout, durations | |
| http, presence, configuration, `main` | none of interest | read-only views, environment, start and signals | |

What is hard here:

* Plans overlap. The planner plans batch *n+1* on the outcome of batch *n* while the committer is
  still storing *n*. Hash and size are kept incrementally on both sides, and the store may refuse *n*
  after *n+1* has been planned.
* A writer waits for an answer that may come from the planner (refused, or nothing to do), from the
  committer (stored, or not) or from its own deadline.
* Sweeps read the heap, release the mutex, and plan removals chunk by chunk.
* Every `define` and `reload` is a goroutine. Mounts, renames and drops of the same set overlap with
  each other and with the holder that is being replaced, which goes on storing.
* A transaction may fail after Redis applied it; a crash may fall between any two steps; the next
  start decides from meta and records whether it may resume the epoch.
* Mirrors hear frames late, twice, out of order or not at all, and continue from packages and
  snapshots that expire and that may stem from an earlier process.
* A value has many spellings, one canonical form, one hash material and one record in a package, each
  made by other code; the prefix that `Submit` knows is lost in a restart.

What makes the components correct:

* set: contents after a commit are those its plan announced; running hash and size are those of the
  contents; the limit holds; committed changes are numbered without gaps; expiring entries are found.
* pipeline: no job is lost or answered twice; the queue counter is exact; refused writes leave no
  trace; acknowledged writes are stored; every write is answered.
* lifecycle: no holder is stopped twice or leaked; one name per definition; acknowledged writes
  survive crashes and remounts; an epoch and a number name one state; requests end.
* replication: a mirror holds what the keeper had under the same number, only moves forward, can load
  the snapshot it is referred to and continue from it, and catches up.
* service: a slot is given back on every path; what was acknowledged is found under every spelling for
  its lifetime; packages one by one and a snapshot lead a mirror to the same contents; the process
  comes up or ends.

`PROJECT.json` lists the components, the hazards with the line where each one bites, and the
properties that cover them.

## The modules

| Module | Models |
| --- | --- |
| `ActiveSet` | `set/set.go`, and the order in which planner and committer call it |
| `ActiveSetInv` | the inductive invariant `SetInv` of `ActiveSet` |
| `ActiveSetProofs` | its proof, and the safety properties that follow |
| `Pipeline` | `Submit`, planner and committer of one holder; extends `ActiveSet`, takes its actions |
| `PipelineProofs` | the set inside the pipeline implements `ActiveSet`; the queue counter is exact |
| `PipelineJobs` | the inductive invariants of the pipeline itself (`JobInv`, `StoreInv`, `TraceInv`), their proofs, and the safety properties that follow |
| `PipelineAcks` | the invariant behind acknowledgements (`AckInv`), its proof, and that an acknowledged addition has been stored |
| `Lifecycle` | `Start`, `mount`, `Define`, `Reload`, `drop`, `shutdown` with Redis and crashes |
| `LifecycleProofs` | the inductive invariant `HolderInv` of `Lifecycle`, its proof, and the safety properties that follow |
| `LifecycleContents` | the inductive invariant `ContentInv` about what holders, Redis and frames hold, its proof, and the safety properties that follow |
| `Feed` | abstract: what mirrors are promised, states named by growing numbers and mirrors that move forward through them |
| `Replication` | `commit`, `tickLoop`, `Snapshot`, `packSnapshot` and the mirrors of one set, with lifetimes, lost answers, crashes and starts; implements `Feed` |
| `ReplicationProofs` | the inductive invariant `RInv` of `Replication`, its proof, the safety properties and the refinement of `Feed` that follow |
| `Values` | `canon.go`, `material.go`, `nginxtime`: operators on texts, prefixes and lifetimes |
| `Codec` | `wire/pack.go`: `Pack`, `Unpack` and what they call |
| `Service` | `main.go`, the event handlers of the bus, validation in `Submit`, `Lookup`, and the way of a write into packages and snapshots; extends `Codec`, which extends `Values` |
| `ServiceProofs` | the inductive invariant `ServiceInv` of `Service`, its proof, lemmas about prefixes and cells, and what follows for slots, values and objects |
| `MCActiveSet`, `MCPipeline`, `MCLifecycle`, `MCReplication`, `MCService` | what the configurations instantiate |

### ActiveSet

The variables carry the names of the fields of `Set`. Each iteration of the loops of `Plan` and
`Commit` is an action, taken while `mu` says that the mutex is held (`PlanBegin`, then `PlanReject`,
`PlanSkip`, `PlanInsert`, `PlanRefresh` or `PlanRemove` per delta, then `PlanNothing` or `PlanEnd`;
`CommitBegin`, `CommitDelta`, `CommitEnd`). `flight` is what lies between `Plan` and `Commit`: plans
being handed on, in the channel, or with the committer. `Abort` voids all of them by the generation;
`SkipStale` is the committer refusing a void plan. `Expired` and `PlanSweep` are the two halves of a
sweep.

The keyed hash of a set is the XOR of the hashes of its values. The model keeps the set of values that
are XORed in: a XOR is a toggle, and different contents have different hashes. So collisions of
SipHash are excluded, and that the values of a set have different hash material is assumed. `Service`
examines this assumption; a network in its IPv4-mapped form breaks it (see below).

### Pipeline

`Submit` has three steps before it waits, because `queued` is compared, then raised, then the job is
sent. `plan()` is cut where it takes the mutex: `Size()` (`PlannerStart`), `Fresh()` once per
job (`PlannerCheck`), `Set.Plan` (`PlannerPlan`, `PlannerDelta`, `PlannerPlanned`), the answers
(`PlannerAnswer`, `PlannerRefuse`) and the hand-over (`PlannerSend`, or `PlannerDrop` when `stop` is
closed). `commit()` is cut at the store call (`CommitterStore`, which may succeed, fail, or
fail although applied), `Set.Commit`, and the answers. A stale job, whose deadline has passed, is
neither planned nor answered, as in the code. A request is a script: an operation, a few
different canonical values and a lifetime; the validation in front of it is in `Service`.
`effect` is a history: which of its values a writer has got as asked in Redis since it submitted.

### Lifecycle

A step is one access to `k.sets` under `k.mu`, one round trip to Redis, or one step of a holder.
Holders store one write at a time, one delta each. Epoch and hash key are drawn together, so the epoch
stands for both; `Hash` is the empty tuple for an empty set under every key, as the XOR is zero there.
`Numbered` is the `HSET` of `seq` and `hash`, which brings a dropped meta back in part; a meta that
does not parse is "bad", and its records are kept under a new epoch. `truth` is a history of what the answers so
far imply for each value; `published` of what mirrors were told. At most one write per value waits
for its answer at a time, so that answers imply something about the contents.

### Replication and Feed

`commit()` has the steps store, memory and frame (`CommitStore` or `CommitTorn`, `CommitMemory`,
`CommitPublish`); `Snapshot()` holds `snapMu` from `SnapshotRead` over `SnapshotPut` to `SnapshotEnd`,
or answers from its cache. `pkgs` and `objs` are the keys in Redis with the time they have left;
time is a countdown, so that runs have no last moment. `DiffKey` has no epoch in it, `SnapKey` has one.
`Crash` forgets memory; `Start` resumes the epoch or draws one as `mount` does, `StartFails` has a `Reset`
applied and then exits. A package and the meta are one transaction, as in `state.go`.

Mirrors are not in this repository. They are external definitions, from what the keeper's README and the
comment in `commit()` say: a frame of another epoch makes a mirror ask for a snapshot; the next number
with an inline package is applied; otherwise packages are read one by one, and when one is missing a
snapshot is asked for. The modelled mirror checks no hash, which makes the properties stronger. Frames
never leave the set `frames`, so they can be heard at any time, any number of times, or never.

`history` records which contents each number named when memory had it. `Promise` instantiates `Feed` with
`log` as the values of `history` and `at` as number and values of each mirror; `ImplementsFeed` is its
specification.

### Values, Codec and Service

A text is a record that says which parser accepts it. Addresses have two bits for IPv4 and four for IPv6
in the run, and the mapped ones start with `MapTag`; integers have `IntBits` bits and wrap. `Meaning` is the
reference the canonical forms are checked against: the addresses of a prefix, the number of a numeral.
`Codec` writes an object as a sequence of cells, one per field; every read of `Unpack` past the end is a
"panic", so that a missing test of the length shows. Lengths of reasons are written modulo `LenMod`.

`Packed` is an object with its records in a given order; `Pack` sorts those of a snapshot first. A field
that is not given (an empty operation, no origin) is "none".

`Service` has the stages of `main` in their order, a slot per handler goroutine, the tests of `Submit` in
their order, the first that fails being the answer (`Refusal`), its loop over the values (`Records`), and
`entries` as the set. What lies between queue and
answer is `Pipeline`; here a write is stored (`Commit`) or not (`Refuse`). `mirrored` is what a mirror
makes of the packages alone. `promised` is a history of what acknowledgements imply for each text.

## The runs

The longest runs (`replication`, `pipeline_live`, `replication_live`, `service`) take one to two and a half minutes with two workers.

| Run | Checks |
| --- | --- |
| `set` | `TypeOK`, `SetInv` and the seven safety properties of the set, and `ExpiredLeaves`: every expired entry is swept or extended in the end |
| `pipeline` | with a clock, sweeps and a store that refuses or fails though it applied: no job lost (`NoJobLost`) or answered twice (`AnsweredOnce`); writes refused as full or for want of the store leave nothing behind (`RefusedLeavesNoTrace`); memory and Redis agree (`MemoryMatchesStore`); the set makes only steps of `ActiveSet` (`Spec` as a property) |
| `pipeline_live` | with deadlines, a failing store and a stop at any step: `QueueAccounted`, an acknowledged addition has been stored (`AddAckedIsStored`), and `EveryWriteAnswered`: every `Submit` returns, answered by the pipeline itself while the holder runs, and at the latest when its context ends |
| `lifecycle_crash` | over crashes, failed mounts and edited definitions: `AckedInMemory`, `AckedInStore` |
| `lifecycle_torn` | with transactions that fail though applied: `NumberNamesContent`, `NumbersGrow` |
| `lifecycle_requests` | overlapping requests: `StoppedOnce`, `OneNamePerId`, `NoLeak`, and `RequestsEnd` |
| `replication` | through lost and late frames, torn transactions, a crash and new epochs: `MirrorTruth` (a mirror holds what the keeper had under its number), `NumberNamesState`, `ReferenceAlive` (a cached snapshot reference can be loaded), `BridgeOutlives` and `BridgeStands` (the packages after it last as long as the lifetimes and the time of the calls allow, and none is gone before the snapshot), and `ImplementsFeed`, the refinement of `Feed` |
| `replication_live` | `CatchesUp`: every mirror reaches or passes every state of the keeper |
| `service` | `SlotsExact`, `StartsOrExits` of the process; `StoredCanonical`, `SpellingsAgree` and `AckedIsFound` of values; `MirrorAgrees` (packages one by one against a snapshot) and `SnapshotExact` (one object per state, truncation refused) of the codec |
| `pipeline_remove_ack`, `pipeline_full`, `lifecycle_remount` | violated: see below |

The types of `Pipeline`, `Lifecycle`, `Replication` and `Service` are stated as `PTypeOK`, `LTypeOK`, `RTypeOK` and
`STypeOK`; they hold on these instances and are kept for reading and for proofs, not as questions of a run. `LTypeOK`
is also proved.

Bounds, and why they are enough to meet the interesting cases:

* Two values: one that a step touches and one that it does not. With a limit of one, two values are
  enough to be full, over the limit after loading, and to have a removal make room for an addition.
* `MaxDeltas = 2`, `MaxBatches = 2` in `set`: a value changed twice in one batch and again in the next
  one; with removals of sweeps there are three plans in flight. `MaxAborts = 1` voids the plans in
  flight, and planning goes on afterwards. `Exps = {0, 1, 2}` with a clock up to 1: never expires, expires, is extended.
* Two writers in `pipeline` and `pipeline_live`: one whose plan is refused and one planned on top of it. In
  `pipeline` one of them has an origin of its own, so that its records can be told apart, and one value is loaded
  that expires, so that sweeps make room or not; in `pipeline_live` both send identical records.
  `QueueMax = 2` makes a write of two records meet a full queue. `Depth = 1` makes the planner wait for the
  committer; `FlightMax = Depth + 2` is what the code can have: one plan being sent, `Depth` in the channel,
  one with the committer. `pipeline_full` needs four writers: one in flight that the store refuses, and
  a refused addition, a removal and another addition in one batch. Writers without an origin of their own
  are interchangeable there, so their permutations are a symmetry; runs of temporal properties use none.
* Two crashes, because a wrong resume shows at the second start. One name is enough for what a
  set keeps over crashes, two are needed for renames. Two handlers overlap in every way that involves two requests.
* `MaxEpochs` and `MaxHolders` are large enough that no request in the runs waits for them;
  with two definitions and a failing store they would have to be raised.
* `replication`: one mirror, since mirrors do not interact except through the cached snapshot, which a
  request of the HTTP server refreshes as well. Two values and two batches, one of which adds both and the
  other removes one and gives the other another expiry; without what changes nothing they add, extend and remove,
  and one torn before the other leaves records that do not match the meta. Two commits, then
  possibly a new epoch on top of them (`MaxSeq`, `LastSeq`). One fault and one crash combine to a torn transaction
  before, or a failed `Reset` after, a crash. Both lifetimes are configured as zero, so that `New` chooses them.
  They keep the relations of the defaults: `DiffTTL` at least twice `SnapshotTTL`, `ReplyLag < SnapMargin`, and
  `CallLag + ReplyLag <= DiffTTL - SnapshotTTL`, which the run has with equality (`Spare = 0`). The
  configuration guarantees the first one only; what the third one is needed for is said below.
  `replication_live` has shorter lifetimes, so that everything a mirror waits for can expire on it.
* `service`: two handlers for two slots, so that the slots run out; two attempts for thirty; one restart.
  Five definitions (addresses, networks, numbers, hashed names, names), each with the events that meet
  its cases: a host in both families, a host with a length, a network with bits of the host set, a
  mapped network, padded numbers, a lifetime that overflows twelve bits, hashed and clear names,
  and each refusal. The clock jumps to the next expiry, which is where something happens.
* `CHECK_DEADLOCK FALSE` is used where the system may stop: a holder that was stopped, a process that
  has ended, and a lifecycle whose bounded requests, writes and crashes are used up.

Fairness: `FairSpec` has weak fairness of planner and committer; both are loops of goroutines that
nothing but the set and the store can block, each store call has a timeout, and `MaxAborts` says that
the store does not refuse for ever. `PFairSpec` adds each handler goroutine. Contexts may end or not: `EveryWriteAnswered`
asks for an answer of the pipeline while the holder runs, and for a return once the context has ended. `LFairSpec` is fair to each request
goroutine and each holder, and to `Start`, which the process supervisor repeats. `RFairSpec` is fair to
the committer, to a snapshot call, to ticks (`tickLoop` has a ticker) and to `Start`; it is strongly fair to a mirror
hearing the current tick, because NATS may lose some frames but not all of them, and to a request for a snapshot
being served, because `snapMu` is taken by others in between and Go mutexes do not starve a waiter. It also has
mirrors read a snapshot before its lifetime passes (`Prompt`), without which they could ask for ever. `SSpec` is fair
to the steps of `main` alone. Nothing is assumed of the clock, of sweeps beyond the planner being scheduled, or of
clients.

### Where the code differs from what is said of it

* `pipeline_remove_ack`. `Plan` skips a removal of a value that is only planned to go (`set.go:291` has
  no test of `fromFlight`, unlike additions at `set.go:280`), so `plan()` answers it at once. If the store then
  refuses the plan in flight, the value stays although its removal was answered ok.
* `pipeline_full`. `plan()` collects the values that `Set.Plan` rejected (`keeper.go:611`) and answers full to every
  accepted job of one record with such a value (`keeper.go:615`). When the batch holds an addition that finds
  the set full, a removal that makes room, and another addition of the same value, `Plan` rejects the first and
  plans the second, and both are answered full. It takes an `Abort` between the check of the limit and `Plan`. The
  README of the keeper says a write is accepted in full or rejected in full. The case came up while
  `RefusedLeavesNoTrace` was strengthened for its proof; that property speaks of writers for whose values no one
  else in the batch asks (`Uncontended`), and of writes of several records.
* `lifecycle_remount`. `mount` loads the records before it stops the old holder; what the old
  holder acknowledges in between is in Redis but not in the new holder.

The model shows more of the same kind, for which no run is kept:

* Writes in part (`AllOrNothing` in `Pipeline`). `Size()` and `Fresh()` are read under different locks. An `Abort`
  between them brings back values, `Set.Plan` rejects one of two records and applies the other, and the
  write is answered ok, stored in part. The README of the keeper says writes are accepted or rejected in full.
* Two reloads mount a new set at once: both found no meta, and the `Reset` of the second deletes what the
  holder of the first has stored (`AckedInStore` with two reloads).
* `Define` looks its holder up after `mount`; a concurrent drop leaves none, and the dereference panics
  (`DefineAnswered` in `Lifecycle`).
* `config.Load` and `New` ask that `DiffTTL` is at least twice `SnapshotTTL`, because "a snapshot is useless once the
  packages after it are gone" (`config.go:138`). The rule leaves out the time of the calls: an object's lifetime
  starts when its `Put` is applied, up to 10 s after its contents were read (`keeper.go:900`), that of a package when
  its transaction is, up to 5 s before the commit knows (`main.go:65`). With 5 s and 10 s, which are accepted, a late
  `Put` leaves an object that outlives the first package after it, and a mirror that loads it has to ask again: `BridgeStands`
  fails with lifetimes of 2 and 4, `CallLag = 4` and `ReplyLag = 1` (in units of 2.5 s). The defaults, 30 s and
  90 s, and every `SnapshotTTL` of 15 s and more, are safe.
* `1.2.3.0/24` and `::ffff:1.2.3.0/120` are two members (`canon.go:61`) with one hash material
  (`material.go:32`). With both in a set their hashes cancel, and the removal of one takes both from a mirror:
  `MirrorAgrees` fails when the events of `AddressSet` use both forms.
* A lifetime above 2^63/10^9 seconds overflows (`keeper.go:423`). The expiry may come out negative, which `Lookup`, the
  heap and so the sweeps take for "never", although `forever` is refused. When such an entry is extended to a positive expiry, `Commit`
  pushes no item for it (`set.go:340` tests for an expiry of zero or a later one): `Lookup` ends it in time, but no sweep
  ever finds it. `AckedIsFound` promises lifetimes that fit, and the expiries of `ActiveSet` are naturals.
* A set that is both `cidr` and `hash` hashes a prefix when written and the text of the MD5 after a
  restart, so the next start after a write opens a new epoch; no definition of the run is both.
* A reason of 2^16 bytes or more is written with its length modulo 2^16 (`pack.go:170`), and what follows
  cannot be read. Nothing in `Submit` bounds a reason.
* `not_ready` never reaches a client of the bus, since `main` subscribes after `Start` (in `Service`, `Serve` comes after `Start`); the HTTP
  server, which runs earlier, does answer it.
* `WAF_KEEPER_PULSE=0` is accepted by `config.Load`, and `time.NewTicker` in `main` panics on it. (Read, not modelled.)

Limits that the properties state openly instead:

* After a transaction failed though Redis applied it, memory and Redis differ for its values until
  they are written again (`unsure` in `Pipeline`). In that time a repetition of a record that memory still
  has is acknowledged without being stored, and a removal of what memory no longer has is acknowledged although
  the next start loads the value from Redis. `AddAckedIsStored` and `MemoryMatchesStore` leave those
  values out: for an addition, those that were in doubt when it was answered, or that its own transaction
  wrote and so took out of doubt. `effect` keeps the latter (in `CommitterStore`), and `lifecycle_crash` has no such transactions.
* While a holder stops, the planner may drop a plan and send the next one; the committer may commit it, and
  `CommittedMatchesPlan` fails. The set is then on its way out. `PipelineImplementsSet` assumes `MayStop = FALSE` for this
  reason. The theorems of `PipelineJobs` and `PipelineAcks` hold with stops.
* `NumbersGrow` is checked and proved without requests. With a define and a crash, an old committer that empties the set
  after the `Reset` of its successor leaves a meta that is accepted on resume, since the hash of the empty set is
  zero under every key, and with it the number of the old epoch.
* No holder of a set runs while `Start` loads it, so in `lifecycle_torn` no commit falls between reading meta and
  records. It may where requests are served, and there the properties of contents do not hold anyway (above).
* `QueueAccounted` says that `queued` is exact, not that it stays within `QueueMax`: handlers that compare before
  any of them raises it may exceed it together.
* `StartsOrExits` takes each attempt of `main` as one step that ends, although `store.Open` pings PostgreSQL without a
  timeout of its own.
* The hash does not cover expiry times. After a torn extension memory and Redis, and mirrors before and
  after a restart, may differ in when a record expires, and nothing notices. `MirrorTruth` and `NumberNamesState`
  state equality of expiry times only while no transaction was torn.
* `ReferenceAlive` needs that an answer of Redis takes less than `snapMargin`. The timeout of the client
  and the margin are both 5 s.

## What is proved

`ActiveSetProofs` proves, for every finite set of values, every limit, every number of plans in
flight, batches and aborts, from `SetAssumption` alone:

* `TypeCorrect`: `Spec => []TypeOK`. That the running size never becomes negative needs the invariant.
* `Invariance`: `Spec => [](TypeOK /\ SetInv)`.
* `CommitMatches`, `HashCorrect`, `PendingCorrect`, `LimitCorrect`, `ExpiryCorrect`, `SweepCorrect` and
  `SeqCorrect`: the safety properties of the run `set`.

Apart from `HashIsContent`, none of the properties is inductive by itself. `CommittedMatchesPlan` speaks of the end of a commit,
and what it needs was fixed when the plan was made, perhaps several plans and an abort earlier.
`SetInv` therefore says what a plan in flight is:

* `FlightInv`: the live plans (of the current generation) are the last ones in flight and number the
  changes after `seq` without gaps, up to `pendSeq`;
* `ChainInv`: each live plan takes the hash of the one before it to its own (`Link`), the first
  one starts at the committed hash and the last one ends at `pendHash`;
* `PendInv`, `LookupInv`: `pend` holds, for each value, the outcome of the last live plan for it, unless
  the running commit has consumed it, and `pendHash` is the set of values a lookup finds;
* `DraftInv`, `CommitInv`: the same in the middle of `Plan` and of `Commit`;
* `LimitInv`: every hash a commit can lead to is within the limit;
* `HeapInv`, `ExpiryTracked`, `SweepTakesExpired`, `VictimInv`: expiry.

There is one lemma per action (`PlanDeltaStep`, `CommitDeltaStep`, `CommitEndStep`, `AbortStep`, ...);
`PlannerFrame` collects what every step of the planner leaves alone. The hardest step is `CommitEnd`:
the code resets `pendSeq`, `pendHash` and `pendSize` when nothing is pending, which is only right because
then no live plan is left in flight.

`PipelineProofs` proves `PipelineQueueAccounted`, that `queued` is the number of records of the jobs that were
counted and not taken yet (below), and `PipelineImplementsSet`: every step of the pipeline of a holder that is not
stopped is a step of `ActiveSet` or leaves the set alone, for every number of writers and all sizes of
queue, batch and channel. All theorems of the set carry over; `PipelineCommits` states the one that the code
asserts itself at the end of `commit()`.

`PipelineJobs` proves what the pipeline promises to its writers, from `SetAssumption` and `PipelineAssumption`, for
every number of writers, every script and all sizes, whether or not contexts end, transactions fail, and
the holder is stopped:

* `JobsKept`, with `PipelineNoJobLost` and `PipelineAnsweredOnce`. A job is in the channel, on the planner's
  desk, with a plan in flight, or in the committer's hands. `NoJobLost` says that an unanswered job is
  somewhere, which a step that moves jobs preserves only if no job is in two places: an answer to one of them
  would leave the other behind. `JobInv` adds that (`Apart`), that what is in a place is unanswered
  (`Open`), and that a plan that is not in the channel yet is the last one (`Channel`). Owners are
  therefore answered once, by whoever takes them out: `AnsweredOnce` says both that an answer never changes and
  that what is still in a place has none, so the same answer is not sent again either.
* `StoreFollowed`, with `PipelineMemoryMatchesStore`. Memory follows Redis delta by delta, in a loop during which the
  planner may go on. `StoreInv` adds what is true meanwhile (`Committing`): a value that no
  remaining delta names is equal in both, and for every other one Redis already holds what the last delta for it
  says. That plans and owners stay in step (`Aligned`) is what makes the plan committed the one stored.
* `TracesOwned`, with `PipelineRefusedLeavesNoTrace`. A record is traced back to the job that asked for it:
  from the collected deltas (`Collected`) over the draft of `Plan` (`Drafted`) into the plans in flight and
  `pend`, and from there into the set (`Traces`). A record of a writer with an origin of its own is in a plan only
  if that writer owns the plan, and in the set only if it is answered ok or about to be. What
  a void plan had put into `pend` is gone by the time its owners are told so.

`PipelineAcks` proves from the same assumptions `AcksCovered` and `PipelineAddAckedIsStored`: an acknowledged addition
has been in Redis at some time since it was submitted. The danger is an addition that `Plan` skips because memory has the
record already, while a plan that changes it is on its way, or its own is about to fail. `AckInv` follows the
deltas of an accepted job to its answer:

* `Marked`: a live plan and `pend` agree about which values the plan touches, numbers of live plans grow, and a commit
  takes away only its own marks. A value without a mark is therefore touched by no live plan, and what memory
  has under it is what Redis holds, so that `Shown` (what Redis holds as asked for is in the history) covers a
  skipped delta. Unlike the chain of hashes in `SetInv` this survives a stop, which drops plans;
* `Listed`, `Drawn`: each accepted delta is collected, then drawn, rejected or skipped for that reason, and `plan()`
  turns a job of one record that was rejected into a refusal;
* `Found`, `Carried`, `Saved`: hence a batch without a plan has nothing to store, a live plan has what its owners
  asked for, and after its transaction they have it.

Looking for `Carried` showed that the property had been too strong, which runs of three writers do not reach: when
a value is in doubt, the removal of one writer, stored in the same transaction, settles the doubt for an
addition that was skipped for the record in memory. The addition is acknowledged rightly, as one that came
before the removal. With the history as it is now, TLC finds nothing with four writers either.

`ReplicationProofs` proves, from `ReplicationAssumption`, for every set of mirrors, values and changes, every pair of
lifetimes that the configuration accepts, calls of any length, and any number of commits, torn transactions, crashes and epochs:
`ReplicationInvariant` (`RSpec => []RInv`), from it `ReplicationMirrorTruth`, `ReplicationNumberNamesState`,
`ReplicationReferenceAlive` and `ReplicationBridgeOutlives`, and `ReplicationImplementsFeed`: `Replication` implements
`Feed`. `ReplicationAssumption` asks one thing of the calls, that an answer of Redis takes less than the margin
(`ReplyLag < SnapMargin`). `ReplicationBridgeStands` has a hypothesis of its own, that `DiffTTL` exceeds `SnapshotTTL` by at
least `CallLag + ReplyLag`, 15 s in the code, without which it is false (above). The properties speak of mirrors and memory. What makes them true is what Redis holds between
a crash and the next start, and `RInv` says it:

* `Numbers`, `Ahead`: the number in memory is the last one named, an epoch has its numbers without gaps and below
  those of later epochs; Redis is at the number of memory or one ahead, or at a new epoch with a number above;
* `Stored`, `Packages`, `Committing`: what Redis has under those numbers, that a package leads from the state
  before its number to the one it names, and the same between the steps of `commit()`. A torn transaction leaves
  a package ahead of memory, which the next commit replaces or the next start makes true;
* `Frames`, `Objects`, `Mirrored`: what has been sent, packed and reached is a named state;
* `Lifetimes`: ages of calls against the time keys have left. `Spare` is what
  `DiffTTL` leaves after `SnapshotTTL` and the calls, perhaps less than nothing, and `Lasts` says that a package has a given
  time left, if it is a positive one. The packages after a snapshot have the time of its object and `Spare`, whatever
  its sign (`BridgeOutlives`), and so are there as long as it is when `Spare` is not negative (`BridgeStands`).

The refinement needs that mirrors move forward: `Mirrored` has a mirror read towards a later number and never load
a snapshot of an earlier epoch.

`LifecycleProofs` proves, from `LifecycleAssumption`, for all finite sets of names and of request goroutines, all ids and
definitions, any number of requests, edits and crashes, with transactions that fail or are torn:
`LifecycleStoppedOnce` (`stop` of a holder is never closed twice, which would panic), `LifecycleOneNamePerId` (two
names in the map never share an id and its keys in Redis) and `LifecycleNoLeak` (a holder that
runs is in the map, or stopped, or on the list of a goroutine that is about to stop it), by way of `LifecycleTypeCorrect` and `HoldersPlaced`
(`LSpec => []HolderInv`). `k.mu` is released between taking a holder out of the map and stopping it, and between
building one and putting it in, so none of the three is inductive. `HolderInv` says where a holder is meanwhile:

* `Placed`: a holder is stopped, in the map, on the list of holders some goroutine stops, or made by a
  goroutine that is about to put it into the map. The last one is not started yet, which leaves `NoLeak`;
* `InMap`, `InHalt`: a holder on a list is out of the map, on one list, once, and stopped only when it is the first
  one and its goroutine has closed it. Whoever closes a holder is therefore the first: `StoppedOnce`;
* `InMount`, `InSwap`: a holder that is made has one goroutine, and before the swap nobody else knows it. The swap
  takes every other name of the same id out of the map, whatever other mounts have put there since: `OneNamePerId`;
* `Steps`, `Storing`, `Waits`: what a goroutine and a committer have where they are.

Lists are in any order (`SetToSeqs`), as Go iterates over maps; that an order of a finite set has each element
once comes from the library's theorems on cardinality.

`LifecycleContents` proves what holders hold, from the same assumptions, by way of `ContentsHeld`
(`LSpec => [](HolderInv /\ ContentInv)`): `LifecycleAckedInStore` and `LifecycleNumberNamesContent` hold with torn
transactions, `LifecycleAckedInMemory` without them (a torn addition is in Redis; its removal, which finds nothing in
memory, is answered at once, and the next start loads the value), and `LifecycleNumbersGrow` where requests are not served at all. The first three
say `serves = 0 =>`: they hold until the first define or reload. Requests break them, as the run
`lifecycle_remount`, two reloads of a new set and a define with a crash show, so no stronger statement is true. What
remains are starts, any number of crashes between any two steps, edits of definitions while the keeper is down or up,
failed mounts, and every order of storing:

* `Lone`: nobody but `Start` mounts; names and ids of definitions, of the sets still to be mounted and of holders
  go together one to one (`DefsApart`, `Listed`, `HoldersApart`), so that no two holders share keys in Redis;
* `Read`: between reading meta and records and the swap nobody changes them;
* `Drawn`, `Told`, `HolderTold`: mirrors were told of no later number than Redis has, and of that number
  what its hash is of; a holder is at the number of Redis or one behind, and if it is one behind without having
  stored anything, its transaction was torn. A start resumes an epoch only if records and hash agree, which makes
  the contents it publishes under that number the ones published before, and the number the last one told (`NumbersGrow`);
* `Asked`, `AddedKept`, `RemovedKept`: what the answers imply of a value, in Redis and in memory, and that
  nothing is implied while a write for it is on its way.

`PipelineQueueAccounted` speaks of a sum over the set of writers, and the library's induction theorems cannot be
used here. The proof takes a least counterexample instead: the set of sizes at which the claim fails is a set
of naturals, and `WFMin` gives its least member. The same argument (`LeastNumber`) serves for the loops of `Submit`, `Pack`
and `Unpack` in `ServiceProofs`, which are recursive functions.

`ServiceProofs` proves, for every definition, event, text and number of handlers, and for every width of addresses and
integers, from `ValuesAssumption`, `PowersOfTwo`, `CodecAssumption` and `ServiceAssumption`:

* `ServiceKept` (`SSpec => []ServiceInv`) and from it `ServiceSlotsExact` and `ServiceAckedIsFound`. `Passed` follows a
  handler from its event to the queue: its records are those of the values of the event, one for each, and its
  expiry is the one asked for if the lifetime fits. `Kept` is the inductive form of `AckedIsFound`: the entry of an
  acknowledged text has exactly the expiry that was promised, so neither a sweep nor another spelling that is refreshed
  or removed can leave a promise behind;
* `ServiceStoredCanonical`, by `HoldsApt`: canonical forms are fixed points (a prefix is masked once; an address that was
  unmapped is not mapped), and the prefix parsed from a stored text is the one `Submit` knew. It leaves out sets that
  keep addresses as hashes, for which it is false (above);
* `ServiceSpellingsAgree`: the addresses of a prefix are an interval of length `2^k`, an interval has one start
  and one length, so prefixes with the same addresses are equal once masked (`SameAddresses`);
* `PackedReadBack` and `PackedCutOff`: `Unpack` returns the records of a packed object, each in its place, and refuses as
  short whatever is left of it when its end is cut off, in the header or inside any record. Every record stands
  in the object behind those before it (`Laid`), so the reader is at its first cell when it comes to it
  (`Reads`), and reads it or finds it cut off (`Read4`, `Read6`, `ReadString`). Records must have a valid prefix or a
  reason whose length its field can say (`CanTravel`);
* `ServiceSnapshotReadBack`: in every reachable state the records of a snapshot do, in any order, with the two exceptions
  listed above (addresses kept as hashes, reasons of `LenMod` and more).

`PowersOfTwo` states what is used of exponentiation (`2^0 = 1`, `2^(k+1) = 2 * 2^k`, powers are positive), of which the
provers know nothing; like all assumptions it is evaluated by TLC in the runs. `ServiceAssumption` says that texts
spell addresses of their width (`Spelled`), which is what `netip.ParsePrefix` and `netip.ParseAddr` accept.

Each of these invariants was checked by TLC before it was proved: `SetInv` is part of the run `set`; `JobInv`,
`StoreInv` and `TraceInv` with the constants of `pipeline`, `pipeline_live` and `pipeline_full`; `AckInv` with those of
`pipeline_live`, and with three writers and a stop;
`RInv` with those of `replication`, with two faults, two crashes and three epochs, and with lifetimes that are shorter than the calls; `HolderInv` with those of
`lifecycle_requests` and `lifecycle_crash`, and with two names, two ids, two requests, an edit and a crash;
`ContentInv` with one name, two values and two crashes and with two names, one value and one crash, each with an edit,
with and without torn transactions; `ServiceInv` and `HoldsApt` with those of `service`.

Only model-checked:

* liveness under fairness, which the prover does not cover: `ExpiredLeaves`, `EveryWriteAnswered`, `RequestsEnd`,
  `CatchesUp`, `StartsOrExits`;
* `MirrorAgrees`: it is not true of every set of texts, since an IPv4 network and its IPv4-mapped form are two members
  with one material (above), and `service` has no set with both;
* `SnapshotExact`, of which `ServiceSnapshotReadBack` proves that a snapshot is read back and refused when cut off. That
  two orders of the same entries are sorted into one object is left: `SortSeq` takes the order as an operator, of which
  the provers cannot make an instance.

## Not modelled

* SipHash and MD5 are taken to have no collisions; key and epoch are drawn fresh.
* The programs on the other side: mirrors are modelled as far as the keeper's documents describe them,
  inspectors as events.
* Connections: reconnecting to NATS and the pool of PostgreSQL. Losing a frame or failing a call is what
  they come to, and that is modelled. PostgreSQL is the set of active definitions at the moment of a query.
* Reading the environment, except for the restriction on the two lifetimes.
* Health, statistics, presence and logging: they read state, or hold none. `recordSize` only sizes a buffer.
* Several sets in `Replication` and `Service`: sets share nothing there but the bus.

## Plan

1. Done: `ActiveSet` with its proofs; `Pipeline` with the refinement and its proof; `Lifecycle`; `Feed`
   and `Replication`; `Values`, `Codec` and `Service`.
2. Done: the proofs of `Pipeline` (`PipelineJobs`, `PipelineAcks`, `PipelineQueueAccounted`), of `Replication` with its
   refinement of `Feed` (`ReplicationProofs`), of where holders are in `Lifecycle` and what they hold
   (`LifecycleProofs`, `LifecycleContents`), and of `Service` with its values and objects (`ServiceProofs`).
3. Left: what remains of the set's properties when a holder is stopped; which sets of texts make
   `MirrorAgrees` true; that a sorted snapshot is one object.
