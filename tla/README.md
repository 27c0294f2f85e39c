# ying-sma in TLA+

Models of the core of *sma* (simple mobile ad-hoc content network): mobile nodes
publish contents, tell each other which types of content interest them, announce
metadata of contents, request contents block by block, cache what passes by and
forward requests and blocks. Paths are relative to the repository root; line
numbers are in `PROJECT.json`, which maps every definition to the code it models.

Nodes run as ns-3 applications in one single-threaded process
(`ns3/src/ns3nodecontainer.cpp`): every handler runs to completion, and timers,
received frames and the scenario's actions interleave between handlers. That is the
granularity of the actions here: one action per handler. The build type is Debug
(`CMakeLists.txt`), so assertions are on and a failed one ends every node.

## 1. Inventory

| Component | State | Operations | Interacts with |
|---|---|---|---|
| `ContentCache`, `BlockData` (`src/ccn/contentcache.cpp`, `blockdata.cpp`) | slots, free list, occupied list (LRU), slots of each content | `store(src)`, `store(ref)`, `find`, `validate_data`, freeze and promote | called by `ContentHelperImpl`, which has a bounded `cache` and an unbounded `store` |
| `ContentHelperImpl`, blocks (`contenthelperimpl.cpp`) | pending request table `prt`, timers of `check_pending_requests` | `request`, `receive(BlockRequest)`, `receive(BlockResponse)`, `broadcast`, `frozen` | raises block arrived, blocks requested and timeout events; sends frames |
| `ContentHelperImpl`, metadata | local and remote metadata tables, fetch queue, announce and fetch timers | `create_new`, `announce_metadata`, `receive(ContentAnn)`, `discover`, `do_auto_fetch`, `metadata` | asks interests what is interesting, calls `request` |
| `InterestHelperImpl`, `Interest` | deque of interests, `to_announce`, next announcement time | `announce`, `receive`, `learn_remote`, `create_local`, `clear_local` | announce timer every 500 ms |
| `ForwardSchedulerImpl` (`src/schedule/`) | request queue, request table per neighbour, blocks to schedule | `sched` every second, `on_block`, `on_blockrequest` | listens to the events of `ContentHelperImpl`, calls `request`, `frozen`, `broadcast`, `announce_metadata` |
| `LPSolver` | none | `solve` (GLPK) | called by the response scheduler |
| `BehaviorHelperImpl` | none | random interest, publication and request | calls the helpers above |
| `NeighborHelperImpl` | neighbour table, position history | beacons, `saw`, `refresh_neighbors` | read by the scheduler |
| `CcnNode`, `Event` | handler lists | dispatch of messages | all helpers |
| `LinkLayerImpl`, links | send buffer | broadcast, receive, recipient filter | node, ns-3 sockets |
| `Ns3NodeContainer`, `Async` | timers of the process, `purged` | start, stop, scenario actions | everything |
| `threadpool`, `delay_queue`, `threadpool_async` | ring of tasks, heap of delayed functions, flags | `push_back`, `thread_body`, `join`; `push`, `pop`; `schedule` | the platforms without ns-3; not in the simulator build |
| `RwsMutex` | three counters and a flag | `WriterLock`, `ReaderLock` | nothing includes it at this commit |
| `RingBuffer` | send buffer | put, take | `LinkLayerImpl`; broadcasts pass it by |

What is hard here: several timers and frames in any order; frames that are lost or
heard in any order; expiries kept on every node and compared after queues and relays
have delayed them; tables that forget and relearn; a bounded cache whose lists are
changed by three operations; assertions that end the process half-way. What should
hold, per component:

- cache: a slot has one owner and one place, frozen data stays, what `find` returns
  is what was stored, a full cache makes room;
- block exchange: every pending request ends, forwarding neither prolongs requests nor
  forgets that a user wanted to keep a block, blocks arrive as what they are;
- metadata: publishers go on announcing, copies expire together, nobody lists its own content as somebody else's,
  hops do not count up, interesting content is fetched completely;
- interests: one entry per type, an own interest is never overridden, what nobody
  wants any more disappears;
- scheduler: the request table answers for the last requests, what neighbours want is held
  and sent in time, within storage and bandwidth;
- neighbours: who is in range is known, where it was last heard; who departs is dropped; the timers
  of a stopped node send no beacon;
- threads: mutual exclusion, no lost wake-up, every scheduled function runs, once.

`PROJECT.json` lists the hazards with their lines and the properties aimed at them.

## 2. Modules

| Module | Models | Notes |
|---|---|---|
| `BlockEntries` | the list of entries a cache keeps per content: `find`, both `store` operations, `validate_data` on it | an entry is the pair (block_index in the slot, block whose bytes it holds), as the two differ in the code |
| `Lists` | loops over a deque, list or vector that keep some of its entries (`Only`) | a recursive function, which can be proved about |
| `BlockStore` | what a cache promises its callers: a list of entries per content | abstract specification |
| `ContentCache` | slots, free list, occupied list, content map | implements `BlockStore` |
| `BlockExchange` | requests and responses on a network: blocks half of `ContentHelperImpl`, the request queue and `sched` of `ForwardSchedulerImpl`, `behave_request`, `do_auto_fetch`'s request | caches appear as lists of `BlockEntries`: `ContentCache` justifies that |
| `MetadataExchange` | metadata half of `ContentHelperImpl`, the scheduler's two announcements per interval, `behave_publish` | |
| `InterestHelper` | `InterestHelperImpl`, `Interest`, `behave_interest`, on a network | |
| `NeighborHelper` | `NeighborHelperImpl`, `NeighborRecord`, `CircularBuffer`, reception in `LinkLayerImpl`, `Async` timers, start and stop of nodes | nodes move, stop and lose beacons |
| `ForwardScheduler` | the scheduler of one node: `insert_request`, `get_ttl`, `get_utility`, the response schedule, `LPSolver` | neighbours and GLPK are the environment |
| `TaskPool` | `threadpool`, `delay_queue`, `schedule` of `threadpool_async` | threads |
| `RwsMutex` | `WriterLock` and `ReaderLock` | threads, one action per atomic operation |
| `ListsProofs` | lemmas about lists, least and greatest elements, recursion on prefixes | TLAPS |
| `ContentCacheProofs` | theorems about `ContentCache` | TLAPS |
| `NeighborHelperProofs` | theorems about `NeighborHelper` | TLAPS |
| `BlockExchangeProofs` | theorems about `BlockExchange` | TLAPS |
| `MetadataExchangeProofs` | theorems about `MetadataExchange` | TLAPS |
| `InterestHelperProofs` | theorems about `InterestHelper` | TLAPS |
| `ForwardSchedulerProofs` | theorems about `ForwardScheduler` | TLAPS |
| `ThreadProofs` | theorems about `TaskPool` and `RwsMutex` | TLAPS; it extends both, which is why the names of `RwsMutex` say `Lock` |
| `MC...` | constants of the TLC runs | |

How state and actions correspond:

- **ContentCache.** The variables carry the names of the members. `Grown`, `Freed` and
  `EnsureCapacity` are `grow_to_fit`, `free_slots`, `ensure_capacity`; `Reserve` and
  `CannotReserve` are the two outcomes of `reserve_slot(s)`; `StoreContent`,
  `StoreKnownContent` and `StoreBlock` are the `store` operations; `SetFrozen` is
  `BlockData::frozen(bool)` with `promote`, which looks only at every second slot and
  spins on a list of odd length (`status = "hung"`). A failed assertion leaves
  `status = "aborted"`.
- **BlockExchange.** `prt`, `queue`, `schedule`, `cache` and `store` are the tables of
  the code per node; `checks` are the pending timers of `check_pending_requests`.
  `Ask` is `request` as called by a user, `Schedule` is `sched` with the forwarding of
  up to `Batch` requests and the broadcasts, in that order. The solver's decision is
  left open: any subset of the scheduled blocks may be sent. `receive(BlockRequest)`
  only queues, since the vector it then iterates has been moved from.
- **MetadataExchange.** `announcing` and `fetching` count the timers due in this and in
  the next tick, as every call of `announce_metadata` arms one of its own. Local
  metadata also ages: its ttl is set at publication.
- **InterestHelper.** `interests`, `to_announce` and `wait` are the deque, the counter
  (modulo `CountRange`, as it is unsigned) and the time to the next announcement. The
  bytes of an announcement are the places interests are written to (`Dumped`); a place
  nobody wrote yields any member of `Garbage`.
- **NeighborHelper.** `neighbors` holds the records with the fields of `CircularBuffer`; the
  insertion counter is kept below twice the capacity, as it is only used modulo it and compared with it.
  `SendBeacon` is `beacon` with `schedule_beacon`, `Receive` is `receive(Beacon)` after the tests of
  `on_link_readable`, `ReadBack` the way a boolean is read, `Stop` is `StopApplication` with
  `Async::purge`. `refresh_neighbors` is no action, because nothing schedules it.

- **ForwardScheduler.** `table`, `queue`, `arrived` and `scheduled` are `request_desc_table`,
  `request_queue`, `block_arrived_buf` and `block_to_schedule`. `Sched` is one call of `sched()`: it
  forwards from the queue, lets the solver choose, freezes, unfreezes and sends. The blocks
  are taken in any order, as they lie in an unordered set, and the order matters: looking up
  the utility of a block erases expired requests from the list whose length divides the next
  utilities (`Seen`). Constraint set 4 makes every block a prefix of slots, so a
  solution is the number of slots each block is held (`Plans`); any optimal one may be
  returned, and any at all when an emptied list gives a utility of 0/0. All
  requests have utility 1.0, as the program makes no others. What a full list of frozen
  blocks does to the cache is `ContentCache`'s subject; which blocks `find` sees is left open
  here (`OnBlock`), as it depends on the blocks of the other nodes (`BlockExchange`).
- **TaskPool.** A step is what happens under a mutex, or one access without it: the two halves of a
  wait (`Decide`, `Sleep`), the size that `push_back` reads before it locks (`ReadSize`), the flag
  that `join` sets after its guard is gone (`SetJoin`: the guard is a temporary). All closures are alike,
  so the ring is the set of its filled slots.
- **RwsMutex.** `ww`, `w`, `r` and `f` are the members; `pc` is the place of a thread between two
  atomic operations. Spinning is a guard.

Time is discrete and relative. A tick is the period of the component's timer (500 ms
for interests, 1 s for the others) and happens when all timers of the tick have fired
and no frame is on the air: frames take far less than a tick. Within a tick timers and
frames interleave freely. A broadcast is one frame per node in range, each received or
lost on its own; the same frame is not delivered twice (UDP broadcast in ns-3).

## 3. Runs

| Run | Question | States |
|---|---|---|
| `cache` | do three contents in a cache of 4 slots, or in one growing to 4, keep slots, owners and frozen data right, and does the cache look like a `BlockStore`? | 72,620 |
| `cache_full` | what the header promises of a full cache | violated |
| `interest` | own interests kept, nothing lives beyond its ttl, unwanted interests die (liveness) | 128,144 |
| `exchange` | a pair with a content of two blocks and a chain of three relaying one: every pending request is watched and ends (liveness), requests lapse, the wish to keep sticks, no first block stored twice | 240,067 |
| `exchange_answer` | "the data for the specified block" | violated |
| `metadata` | triangle of three: no own remote, common expiry, loop-free hops, complete fetches, publishers that go on announcing, what has expired is dropped (liveness) | 443,853 |
| `neighbor` | two moving nodes: position histories in order, whoever stays in range is tracked, no beacon after a stop | 1,557,094 |
| `schedule` | two neighbours, two blocks: does the table answer for the last requests, and are wanted blocks held? | 918,003 |
| `schedule_deadline` | is a block wanted before the next interval sent now? | violated |
| `taskpool` | two workers: ring intact, a closure for each function, every function runs, `join` returns unless it loses its wake-up, the destructor always (liveness) | 225,036 |
| `rwsmutex` | four threads: writers exclude each other and wait for earlier readers, no counter below zero, no starvation (liveness) | 12,733 |
| `rwsmutex_readers` | do readers and writers exclude each other? | violated |

### What the violations show

- `exchange_answer`: the block-wise `store` never writes `block_index`, so `find` returns a
  received block 1 for block 0, and the node answers for block 0 with block 1. Blocks above the first are never mixed up
  (`HigherBlocksIntact`), and whole contents are not either (`WholeAboveZero`).
- `cache_full`: evicted slots reach no list, so a full cache aborts.
- `schedule_deadline`: `get_ttl` divides microseconds by an interval in milliseconds. A ttl a thousand
  times too large matches no slot of the integer program, so holding a block costs
  nothing and the solver may keep for 20 slots what a neighbour wants within one. With the
  quotient corrected the property holds in this model.
- `rwsmutex_readers`: a reader that has passed the check for waiting writers is not counted yet; a
  writer that looks for readers just then goes on, and the reader looks for
  writers before the writer is counted. Both are inside. Writers among themselves are safe, and
  so are readers that had joined before (section 6).

### Seen while modelling

These are in the models but no run asks about them:

- the third interest of an announcement is written behind a gap (`Dumped`);
- booleans are read inverted, so beacons are never answered (`ReadBack`);
- freezing every second block of the cache leaves its slot where it is, as `promote` looks at the others only, and
  on a list of odd length it may never return (`Promoted`, `Spins`; `ScheduleHangs` of `BlockExchange`);
- copies of a block above the first are stored again, as they get index 0 like the first. Two copies of block 1 pass for a
  complete content of two blocks, and if block 1 is the shorter last one the assertion of `validate_data` fails
  (`Invalid`). Copies of the first are not stored again (`FirstBlockFirst`);
- hearing an interest again does not prolong it as the README of the repository says (`README.md:245`): `update_with`
  raises `ttl_ms`, leaves `expiry_time` alone, and the next `elapse_ttl` falls back to it (`Updated`, `Elapsed`);
- local metadata "do not expire" (`contenthelperimpl.cpp:84`), but their expiry is set once, at publication: afterwards
  they are announced with a ttl of 0, and receivers learn and drop the content again and again (`ExpiredDropped`: they do drop it);
- two callers of `push_back` can write over a task or beyond the ring, as each reads the size before it takes the
  mutex; the run and the theorems about the ring have one (`OneCaller`);
- nothing starts `refresh_neighbors`, so neighbours are never dropped;
- `join()` can hang, called by itself as `~threadpool_async` does: a worker that has evaluated its condition under the
  mutex misses the notification of a flag that is set without it. `JoinReturnsIfClean` says exactly when
  it returns; without its premise it fails within a dozen steps. `~threadpool` is safe, as its comment
  says (`DestructorReturns`);
- `delay_queue::push` compares through a pointer into a heap it has just changed, so waiting workers
  may not be told of a sooner function. It still runs, by its own closure or later;
- `InterestScheduler::sched` announces metadata, not interests (`MetadataExchange!Schedule`).

### Bounds, and why they are enough

- Cache: 4 slots for 5 blocks of 3 contents reach a full cache, eviction with and
  without frozen slots, odd and even lists for `promote`, and duplicate deliveries.
  `MaxSlots` stops the unbounded cache. The deliveries include bytes under a foreign
  reference, as nodes produce them. Content sizes appear only as block counts and as
  whether the last block is short (`ShortLast`), which `validate_data` can tell apart.
- Interests: `TTL` 3 ticks instead of 120. What matters is that a ttl spans several
  announcements and relays, so that echoes could renew it. `MaxChanges` bounds user
  actions, `OldAge` the history variable `age`, `MessageRoom` 3 interests per message
  (the code fits some twenty). `TTLRange` 6 instead of 2^32: a ttl nobody announced may be larger than `TTL`.
- Exchange: ttl 1 and 2 ticks instead of 10 and 20 keep the order of the two; a batch of 2
  instead of 10; `MaxQueue`, `MaxStored` and the `asks` of a network bound queue, duplicates in a store
  and user requests. The pair has a content of two blocks and three requests, so that blocks can be mixed
  up, a store can be complete by count only, and requests are repeated; the chain has one
  block and one request on three nodes, so that requests travel back and forth. `MaxQueue` and `MaxStored` disable
  a receipt beyond them; the frame can then only be lost.
- Metadata: ttl and longest pause of 2 ticks, fetch batch of 1 instead of 4 with 2 blocks, so
  that a fetch takes two batches and expiry falls between them. `MaxTimers` 1 merges timers
  of a kind due in the same tick: a second one would do nothing but repeat the first.
  `MaxFetch` 2 admits a rediscovery with blocks left over in the queue. `HopRange` is 256.
- Neighbours: the beacon gap is the code's (at most 3 ticks of a second),
  the history has 2 positions instead of 4, enough to wrap any number of times. Places are out of each other's
  range, so two moves take a pair apart and together again.
- Scheduler: two neighbours and two blocks are the smallest instance with competing requests and an order of
  looking them up. `Storage` 2, `Bandwidth` 1 and `Batch` 1 instead of 256, 20 and 10, so that two blocks exceed the
  bandwidth and the queue outlives a call. `MaxTTL` 1 instead of 20 leaves the slots now, next and
  beyond. The requests last 1, 1000 or 1500 ms and come 1 ms after or before a call (`Phases`), so that one expires
  before, at and after the next call. `MaxMessages` 2 and `MaxQueue` 2 bound the requests.
  A storage of 2 is never used up by 2 blocks; that `WantedBlocksHeld` holds up to any limit is what `WantedStayFrozen` proves.
- Task pool: a ring of two slots and four functions grow it, shrink it and wrap it; two workers are enough
  for one to sleep while the other is busy or waits on the delay queue. One function has a
  delay of two ticks, so the others can overtake it.
- Lock: four threads give two writers and two readers at once, which all of its races need.
- Symmetry is used only in runs without liveness and among nodes of equal role.

Deadlock is not checked in the `cache...` and `exchange...` runs, where the program ends on a failed
assertion or a loop that never ends, and in `taskpool`, where it ends when the pool is joined. It is
checked in `rwsmutex`: some thread can always go on.

### Fairness

`FairSpec` (`FairLockSpec` in `RwsMutex`) is the specification with fairness. In the models of nodes it adds `[]<><<Tick>>_vars`: simulated time diverges. ns-3 runs events in
time order and each event schedules finitely many, so time stops only with the program.
The formula forces no particular handler: timers must fire before a tick because `Tick`
is enabled only when they have. In `BlockExchange` a tick needs a running program, so the
liveness property is about runs that do not end by an assertion. From every running state
a tick can be reached, since frames may be lost and timers can always fire.
`NeighborHelper` and `ForwardScheduler` assume none: their properties are about states and steps.

`TaskPool` and `RwsMutex` are about threads: weak fairness of what each thread does next says that the operating
system runs it again and again. No thread is made to schedule a function, to end the pool or to
take a lock, and a mutex or a notification favours nobody: `NotifyOne` may wake any sleeper. In `RwsMutex`
it includes leaving the critical section. `std::condition_variable` may wake
spuriously; the predicate of the pool's wait makes that a stutter, and the delay queue's loop a repetition of `Pop`.

## 4. Properties

- `SlotsPartitioned`, `SingleOwner`: the index lists partition the slots, and every
  occupied slot has one owner. `FrozenKept`: a frozen slot is neither evicted nor
  overwritten. `WholeAboveZero` (proved): an index above 0 is only found in whole contents, where all
  of it is right. `ImplementsBlockStore`: refinement, see section 5.
- `PendingWatched`: whenever a request is pending a check is due at its expiry, however
  it was extended. `PendingEnds`: when users stop asking, the pending tables empty.
  `RequestsLapse`: no copy of a request, pending, queued or on the air, outlives the users'
  latest (history variable `lease`). `KeepSticks`: forwarding never drops the wish to
  keep a block. `HigherBlocksIntact` (proved): what is sent under an index above 0 is that block.
  `FirstBlockFirst`: nodes that get blocks in any order, repeatedly and by several ways never store the first block twice or behind
  another. Violated: `AnswersWithThatBlock`; of the cache `FullCacheMakesRoom`.
- `ExpireAtOnce`: every copy of metadata has what is left of the publisher's own.
  `NoOwnRemote`, `HopsOfAPath`: no loops, no counting to infinity. `EveryBlockFetched`: each
  block of a content that interested the node when it learned of it is requested or queued
  with a timer pending (histories `wanted`, `requested`). `PublisherAnnounces`: the chain of announce timers that the
  constructor starts dies on a node with empty tables; publishing starts one that does not die while there
  is own content. `ExpiredDropped`: a node whose
  copy has expired drops it, though the publisher goes on announcing it.
- `PositionsAreTheLast` (history `heard`), `FreshWhileInRange` (history `close`, which restarts when a
  beacon is missed), `NoBeaconOnceStopped`: no beacon timer survives the purge and none is armed after it, nor is a beacon
  answered. It is about beacons only: a node that still runs may rebroadcast a block it receives, and the
  scenario's own actions are not purged.
- `TableIsLatest` (history `latest`): a live request is listed once, as it was last made.
  `WantedBlocksHeld`: a wanted block is frozen or sent unless storage or bandwidth is
  used up, in every optimum.
- `RingIntact`, `OneClosureEach`, `EveryFunctionRuns`, `JoinReturnsIfClean` (history `clean`),
  `DestructorReturns`: `~threadpool` sets `stop` without the mutex, too, but locks and unlocks it before it notifies.
- `WritersExclude`, `CountersExact` (proved), `ExistingReadersFinish` (history `existing`: the readers that were there
  when a writer announced itself), `JoinedReads` and `AnnouncedCounts`: neither side starves the other.
- `OnePerType` (proved), `OwnInterestKept`, `RemoteLapses` (history `age`), `IrrelevantDies`.

Every module has one type invariant, `TypeOK` (`LockTypeOK` in `RwsMutex`). Definitions named `Mutant...` are faults of
the kind a change to the code might introduce; each property of a run is violated under one.

## 5. Refinement

`ContentCache` implements `BlockStore` with `held[h]` mapped to the entries of the slots
of `h`, and to nothing once the program has stopped. Growing, evicting, freezing and
promoting are stutters; in particular eviction is never visible, because a full cache
aborts before anything is stored in the place of what it evicted. `BlockExchange` uses the
operators of `BlockEntries` for its caches, with a count of free slots (`Free`) for the
one fact of memory management that shows: slots never come back.

## 6. What is proved

`ContentCacheProofs`, for all constants that satisfy `BlockAssumption` (every content has
at least one block) and `CacheAssumption` (capacities are natural numbers, deliveries
name blocks of one content):

- `CacheTypeCorrect`: `Spec => []TypeOK`
- `CacheSlotsPartitioned`: `Spec => []SlotsPartitioned`
- `CacheSingleOwner`: `Spec => []SingleOwner`

The inductive invariant is `IInv`, the conjunction of the three. None is inductive alone:
taking slots off the free list keeps the lists disjoint only if the list names no slot twice
and only slots (`TypeOK`), and owners stay unique only if what is reserved had no owner,
which follows from the partition and from owners being occupied. The argument:
`RoomFound` shows that making room preserves the partition and, when it succeeds, has evicted nothing;
`ReserveKeepsIInv` follows the slots from the free to the occupied list and to their
content, using `CutInTwo` and `JoinTwo` on sequences without repetition;
`PromotedPermutes` shows that moving a slot to the front is a permutation, with an explicit
inverse; the remaining lemmas go through the actions. The abort states are
excluded in the invariants as the lists are then inconsistent (`CannotReserve`).

- `CacheWholeAboveZero`: `Spec => []WholeAboveZero`
- `CacheKeepsFrozen`: `Spec => FrozenKept`
- `CacheImplementsBlockStore`: `Spec => ImplementsBlockStore`, the refinement of section 5

These rest on a second invariant, `CInv`, which says what slots hold: a free slot is as it was created
(`FreeSlotsEmpty`), since nothing ever gives a slot back, and of every content either all slots carry
the index of their block or none was given one (`WholeOrZero`). `NextEffect` reduces every step to
what it does to the entries of the contents (`EntriesStep`: divided, one entry more, kept, or aborted), and the
three theorems are read off that: a whole content finds each of its blocks, so that
`store(ref)` adds nothing to it; frozen slots are occupied, so that no reservation hands
them out; and each case is a step of `BlockStore` or a stutter. A failed reservation
evicts before it aborts; what it takes off the occupied list is given by `OnlyKeeps` of `ListsProofs`: filtering
keeps the entries of the set, their order and that no entry is named twice. It is proved by
following the recursion of `Only` prefix by prefix (`UpTo`, induction on the smallest counterexample).

`ThreadProofs`, about the lock, for any finite set of threads (`ThreadsAssumption`; counting threads needs a finite set):

- `LockTypeCorrect`, `LockCountersExact`, `LockWritersExclude` and `LockExistingReadersFinish`:
  `LockSpec => []P` for `LockTypeOK`, `CountersExact`, `WritersExclude` and `ExistingReadersFinish`.

The inductive invariant adds two parts. `OneWrites` says the exclusion of writers without
counting, so that a step needs no cardinalities but those of `CountersExact`.
`ExistingThere` says that a reader some writer has to wait for is still joined and that a writer past the
wait has nobody to wait for: when `r = 0` is seen, `CountersExact` makes the set of joined readers empty, and
with it `existing`. That is where the proof uses a counter, and why a reader that is
not counted yet escapes it. The counters follow a thread from one place to the next by
three lemmas on what a move adds to or takes from a set of places.

`NeighborHelperProofs`, for any nodes, any symmetric radio range, any depth of the position ring and
any longest delay (`NeighborAssumption`):

- `NeighborTypeCorrect`, `TrackedWhileInRange` and `NoBeaconAfterStop`: `Spec => []TypeOK`,
  `Spec => []FreshWhileInRange` and `Spec => NoBeaconOnceStopped`.

`FreshWhileInRange` is not inductive: it says nothing of a node that has been close for less than the
longest delay. The inductive invariant adds `Heard`, which relates three clocks: if `close + wait`
exceeds `MaxDelay`, where `wait` is what is left of m's timer, n was already close when m sent its last beacon, so that
the beacon is on the air or a record exists with `age + wait <= MaxDelay`. A tick, which needs an empty
air, moves all three together; a new beacon restarts `wait` with at most `MaxDelay` and is on the
air of whoever did not lose it. `Timers` says that before the first stop everybody runs
and has a timer, and after it nobody has one; with `NoResponses` (`ReadBack` inverts the flag, so that no beacon is
ever answered) that is also why no beacon is sent once a node was stopped. The delivery the theorem speaks of
is one that misses no beacon: `close` starts over at a lost one.

- `LastPositionsKept`: `Spec => []PositionsAreTheLast`. The invariant `AllTold` adds what the index says of the ring (`Filled`):
  below `Depth` insertions the oldest position is at 0, from then on where the next one goes. `PushedHolds` compares one
  `push_back` with appending to a sequence of at most `Depth` positions, before and after the ring is full; `WrappedIs` is
  the arithmetic of its indices, which the code keeps below twice the depth.

`BlockExchangeProofs`, for any set of networks, any contents, capacities and ttls
(`ExchangeAssumption`, `BlockAssumption`):

- `HigherBlocksStayIntact`: `Spec => []HigherBlocksIntact`. The invariant `HeldIntact` says the same of what
  nodes hold: an entry of a cache or store under an index above 0 is the block of that index. A received block is added
  under index 0, whatever it is (`WithBlockLists`), published content is divided in order (`DividedLists`), and
  `find` stops at an entry of the index asked for (`FoundMatches`, by the least-number principle), so a
  broadcast relays only what was intact (`BroadcastIntact`). It bounds the damage of the finding of `exchange_answer`.
- `FirstBlockOnce`: `Spec => []FirstBlockFirst`. The invariant `FirstHeld` adds that whatever is at the front of a
  list has index 0. So `store(ref)` adds to a list that is not empty only under an index above 0, and what arrives under such
  an index is that block (`HeldIntact`), hence not the first (`WithBlockSingle`).
- `WishesStick`: `Spec => KeepSticks`. `PrtAfterKeeps` is the one step that matters: a block that was and
  still is pending was not found, so that its old entry takes part in the new one.
- `ExchangeTypeCorrect`, `PendingIsWatched` and `RequestsDoLapse`: `Spec => []P` for `TypeOK`,
  `PendingWatched` and `RequestsLapse`. They need each other: what is pending has something left when time
  goes on (`TypeOK`) because a check is due at its expiry and no check is due then
  (`TickPending`). `LatestIs` and `ChecksAfterIs` are about `request()`: the new expiry is the latest of those
  asked for and the one before, and the first request with it, whatever their order, is the one that arms the
  check. For `RequestsLapse` it matters that what is asked, queued and forwarded is always one of what was
  asked for (`OpenIs`, `ForwardableIs`, which rest on `OnlyKeeps`) and that time passes alike in tables and queues.

`MetadataExchangeProofs`, for any finite set of contents, any network, publishers and times
(`MetadataAssumption`, `BlockAssumption`):

- `MetadataTypeCorrect`, `OwnIsNeverRemote`, `CopiesExpireAtOnce` and `FetchesEveryBlock`:
  `Spec => []P` for `TypeOK`, `NoOwnRemote`, `ExpireAtOnce` and `EveryBlockFetched`.
- `PublishersAnnounce`: `Spec => []PublisherAnnounces`, inductive given the types: either `announce_metadata` finds own content
  and arms a timer, or the node has none (`AnnouncingGoesOn`).
- `HopsAreThoseOfAPath`: `FewNodes` implies `Spec => []HopsOfAPath`. `FewNodes` says that there are
  finitely many nodes, and fewer than `HopRange`: hops have 8 bits, and in a larger network they could wrap.

`NextEffect` reduces every step to one of three kinds (`TablesStep`): nodes announce and may drop what has
expired (`Announces`), one node hears a message (`Hears`), or all grow older (`Ages`). What
hearing does, item by item in any order, is an invariant of the recursion of `Learned`
(`LearnKeeps`, `LearnedKeeps`). `NoOwnRemote` and `ExpireAtOnce` are inductive given the types.
`HopsOfAPath` is not: why should a node with the hops of its neighbour plus one not be
counted twice? The invariant `NoFarther` adds that whoever is `k` hops from a live content, or hears an announcement
of `k` hops, finds at least `k` nodes that are no farther. The receiver either was no farther already
and improves nothing, or it is one more such node; and the publisher is never among them, so
`k` stays below the number of nodes. Nodes forget only what has expired, and then everybody's copy has
(`ExpireAtOnce`), so relearning starts over: whatever is then on the air comes from the publisher.

`InterestHelperProofs`, for any nodes and types, any ttl, any room in a message and any widths of the fields and counters
(`InterestAssumption`). What a receiver makes of bytes nobody wrote is any interest whose type, ttl and hops fit into
their fields (`Types`, `TTLRange`, `HopRange`), so a ttl may be far above `TTL`:

- `InterestTypeCorrect` and `OneOfAType`: `Spec => []TypeOK` and `Spec => []OnePerType`. Together they are inductive
  (`InterestInvariant`): `learn_remote` promotes the one entry it finds (`Removed`, `InFront`), and `announce` cuts the deque in two
  parts whose entries stem from different places (`AnnouncedIs`, `JoinLists`).
- `OwnInterestsStay`: `LivelyGarbage` implies `Spec => OwnInterestKept`. The invariant adds that own interests and
  everything on the air have time left (`OwnInv`): `elapse_ttl` could not drop an own interest then, and `update_with` takes the fewer
  hops, so that nobody else's turns it into a remote one (`LearnedKeepsOwn`). `LivelyGarbage` is about the
  finding at `interesthelperimpl.cpp:211`: from the third interest on a receiver reads bytes nobody wrote, and if these had 255 hops,
  which wrap to 0, and no ttl, it would drop what it then takes for an own interest.
- `OthersInterestsLapse`: `Spec /\ []FewSent => []RemoteLapses`, where `FewSent` says that no announcement holds more than two
  interests, which are the ones `dump` puts in their places (`DumpedFew`); such announcements have no misread bytes, so no ttl exceeds `TTL` either. Heard or
  updated, an entry's `left` is never more than what an owner announced less the time since (`LearnedLapses`,
  `AnnouncedLapses`, `OlderLapses`). `TwoTypesLapse` needs no such hypothesis when there are at most two types, as
  in the run: an announcement holds one interest of a type.

What receiving does, item by item, is an invariant of the recursion of `Received` (`ReceivedKeeps`).

`ThreadProofs`, about the pool, for any finite sets of workers, callers and functions, any delays and any capacity (`PoolAssumption`):

- `AClosureForEach`: `Spec => []OneClosureEach`, with any number of callers. `CountInv` adds the
  types of what is counted; every step moves a worker into, within or out of the places where it has a closure in hand
  (`HandGains`, `HandStays`, `HandLoses`), a caller likewise (`OwingGains`, `OwingLoses`), and being notified
  never takes a closure out of somebody's hand (`WakingStays`).
- `TasksFromTToP` and `PoolTypeCorrect`: `OneCaller` implies `Spec => []RingIntact` and `Spec => []TypeOK`.
  A single caller is what the code needs here: with two, the one that has read the size before the other grows the ring writes
  beyond its end. That one caller suffices although workers shrink the ring between its reading the size and its locking
  the mutex is the point of `SizeRead`: since then either the size has not changed or the ring is at its minimum with
  fewer than half of its slots in use, all of them at the front (`Shrunk`), so that neither comparison with the old
  size comes out true. `IntactAdded`, `IntactResized`, `IntactFirst` and `IntactPopped` are about one ring; `Wraps` is the
  arithmetic. That the ring grows no further than the functions make it uses `OneClosureEach` (`FewTasks`).

`ForwardSchedulerProofs`, for any finite sets of neighbours and blocks, any messages, durations and limits (`ScheduleAssumption`;
`Unit` is a multiple of every length a list can have):

- `SchedulerTypeCorrect` and `TableAnswersLatest`: `Spec => []TypeOK` and `Spec => []TableIsLatest`. The inductive invariant
  adds that a list names a block once (`OneRequestPerBlock`), which is also why no list is longer than there are
  blocks (`ListsAreShort`). What a message of several requests does to a list is an invariant of the recursion of `Given`
  (`GivenKeeps`): of the requests for one block the last survives. Erasing takes only what has expired
  (`SchedIInv`), time passes alike in the table and in the history (`AgedIs`).
- `WantedStayFrozen`: `Spec => WantedBlocksHeld`, by exchange. Take an optimum `p` that does not hold a block `b` some neighbour
  wants, while storage and bandwidth are left. Holding `b` for one slot is feasible (`HoldOneMore`), counts
  at least one share of that neighbour's utility and takes none back, since nothing is taken back of what is held
  for one slot only. So the value grows, and `p` was not the best (`WantedIsPlanned`). That the neighbour's share is not 0
  rests on `TableIsLatest`, on `ListsAreShort`, and on the erasing under way: a live request survives it and the others only make the list
  shorter (`SeenIs`, `UtilityIs`). The objective is written as the number of the shares that count, so that no induction over a sum is needed.
  The theorem does not say that a plan is kept: what is held beyond the first slot is decided anew at every call.

## 7. Only model-checked, and not modelled

Only TLC: liveness and fairness (`IrrelevantDies`, `PendingEnds`, `EveryFunctionRuns`, `JoinReturnsIfClean`, `DestructorReturns`, `JoinedReads`,
`AnnouncedCounts`, `ExpiredDropped`), which are beyond the provers, and that the recursive definitions compute what they should for the instances of the
runs. Every invariant and every action property a passing run checks is also a theorem. Four more are
theorems and parts of inductive invariants that no run repeats: `WholeAboveZero`, `HigherBlocksIntact`, `OnePerType` and `CountersExact`.
Properties of folds and of what a `SelectSeq` filters are induction over data, which the provers
do not do; where loops are written as recursive functions (`Only`, `Learned`, `Received`, `Given`) they can be proved about.

Not modelled, and why: GLPK itself (any optimum may be returned); the velocity and the refresh of neighbours (nothing uses the first and nothing calls the
second); scenario actions of a stopped node; `RingBuffer` and link-layer recipients (all modelled messages are broadcasts, which use neither); `delay_queue::interrupt`
(no caller); the constructor of `threadpool`, which rounds a capacity down to a power of 2 (`MinCapacity` is
what comes out); the old schedulers `src/schedule/{blockrequest,blockresponse,interest,meta}scheduler.cpp`, which are
not compiled; serialization, hashing, statistics, GPS, logging, Android glue; vendored code
(`ext`, `ns3/ext`, the bulk of the repository). `missing_blocks` has no caller. Hash collisions and reboots do not occur:
nothing is persisted.

## 8. Plan

Done: all modules of section 2, with proofs for each of them. What could follow:

1. `RingBuffer` with the recipient filter, should unicast messages come into use.
