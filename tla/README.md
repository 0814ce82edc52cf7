# Memory3D: a TLA+ model of the allocator, the machine and their concurrency

Memory3D is a virtual machine whose memory has three coordinates: a *region* X,
a *plane* Y of the region and an *offset* Z in the plane. This directory holds
TLA+ modules translated from its Go source, the TLC configurations that check
them on small instances, and TLAPS proofs for all instances. `PROJECT.json`
maps every definition to the source lines it stands for.

    tlc -workers 2 -config allocator_planes.cfg MCAllocator3D
    tlapm Allocator3D_proofs.tla

## 1. Inventory

| Component | State | Operations | Shared with |
|---|---|---|---|
| Bitmap (`types/bitmap.go`) | set bits of a plane | `SetRange`, `ClearRange`, `FindContiguous`, `FreeBytes`, `Fragmentation` | its plane |
| Planes, regions, allocations (`types/plane.go`, `region.go`, `allocation.go`) | bytes, free map, map offset -> allocation; planes, atomic `FreeBytes` and `AllocCount`; fragments, flags | `Plane.Allocate`, `Plane.Free`, `AddPlane`, `RemovePlane`, statistics | allocator, machine, any caller of `GetRegion` |
| Allocator3D (`allocator/allocator.go`) | regions, next ID, LRU list of 100 regions, optional worker pool | `Allocate` (fast path, Y-promotion, new region), `Free`, `AllocateInRegion`, `AnalyzeCompaction`, `Shutdown` | planes and regions under three levels of locks |
| BestFitPromoter (`allocator/ypromotion.go`) | none | `FindPromotion` | called by nothing |
| Gas accountant (`vm/gas.go`) | `remaining`, `used`: two atomics | `Consume`, `Refund` | every goroutine that uses the machine |
| Memory manager (`vm/memory_manager.go`) | address -> allocation, statistics, access log | `Load3D`, `Store3D`, track, untrack, relocate | allocator's regions, machine |
| Spatial cache (`vm/spatial.go`) | address -> data, recency list | `Get`, `Put`, `Invalidate`, prefetch goroutine | machine |
| Merkle tree (`merkle/tree.go`) | address -> hash, root | `Update`, `GenerateProof`, `VerifyProof`, `Clear` | machine |
| VM3D (`vm/vm.go`, `executor.go`) | registers, program counter, halt flag, statistics | `Execute`, the instructions, `Store3D`, `Load3D`, `AllocateMemory`, proofs | everything above |
| Decoding, addresses, registers, permissions, constants, command line | - | pure functions, start-up | machine |

How they interact: an instruction runs under the machine's mutex and calls the
memory manager, the cache, the tree and the allocator one after the other; there
are no callbacks. `Allocate` and `Free` run under the allocator's mutex; with
`EnableConcurrent`, `Allocate` sends its request over a channel to a pool of
workers and waits for the answer. Callers can also take a region from
`GetRegion` and use `AddPlane` and `AllocateInRegion` on it. A cache miss starts a
prefetch goroutine. Gas is taken without any lock.

What is hard here, and what makes each part correct:

- **Bitmap.** First fit with an early return, on `uint16` positions that wrap
  at the real plane size. Correct: the lowest free run is found if there is one.
- **Allocator.** The same fact (which bytes are in use) is kept in the bitmaps, in
  the planes' maps, in two atomic counters and in the handles, and six paths update
  them by hand; Y-promotion takes several fragments and must undo them when it
  fails. Correct: no two blocks share a byte, all copies agree, and a request does not
  overlook room.
- **Gas.** Compare-and-swap loops of several goroutines over two counters that are
  not changed together. Correct: gas is conserved, nothing is granted twice, and
  every call returns.
- **Machine memory.** Plane, cache and proof tree are three copies of the same
  data. Correct: loads see the last store, writes stay inside their block, and
  proofs speak about what was stored.
- **Locks and worker pool.** Five kinds of locks that calls nest in different
  orders, Go's writer preference, a channel that can be full or closed. Correct: no
  deadlock, every request is answered once, calls return, workers exit.
- **Execution loop.** Gas and the instruction limit are checked after the effect, the
  size table and the decoders are written twice. Correct: gas bounds the work, an
  instruction is run when and only when it should be, errors are justified.
- **Prefetch.** Loops over fixed-width coordinates with inclusive bounds. Correct: the
  goroutine ends, and has covered the neighbourhood.

The list of hazards, with the lines where they bite, is in `PROJECT.json`.

## 2. Modules

| Module | Models |
|---|---|
| `Bitmap` | the bitmap as the set of its set positions; `FindContiguous` with its `uint16` sums, its early return and its panics (the masks by which it compares words are a set intersection) |
| `Region` | one region without the allocator: planes that come and go, its counters, and the plans of `BestFitPromoter`; extends `Bitmap` |
| `Allocator3D` | allocator, regions, planes, allocations; extends `Bitmap` |
| `BlockAllocator` | the abstract allocator: disjoint blocks that are granted and released |
| `MCAllocator3D` | region types and flags for the runs |
| `RWMutex` | Go's `sync.RWMutex`, with calls as sequences of lock operations |
| `Concurrency` | which locks every call of allocator, memory manager and machine takes, the worker pool, `Shutdown`; instantiates `RWMutex` |
| `GasAccountant` | `Consume` and `Refund`, one step per atomic operation |
| `SpatialCache`, `MerkleTree` | operators on a cache and on a tree |
| `VMMemory` | memory manager, cache and tree under the memory instructions and methods of VM3D, on blocks that the plane's free map places; extends all three (with `Bitmap`) |
| `VM3D`, `MCVM3D` | the execution loop: fetch, gas, HALT, limit, errors; the gas of `Store3D` and of compaction |
| `Prefetch`, `MCPrefetch` | the goroutines that cache misses start |
| `Maps` | assignment to a key of a Go map, for cache and tree |
| `Bitmap_proofs` | theorems about `Bitmap`, for allocator and region |
| `Allocator3D_proofs`, `BlockAllocator_proofs`, `Region_proofs`, `Concurrency_proofs`, `VM3D_proofs` | theorems about the modules they are named for (`BlockAllocator_proofs`: that the allocator implements it) |
| `Machine_proofs` | theorems about `VMMemory`, `Prefetch` and `GasAccountant` |
| `Sums` | lemmas about sums over finite sets, and induction as a least counterexample |

**Allocator3D.** `used[x][y]`, `table[x][y]`, `freeBytes`, `allocCount`, `rtype`
and `nplanes` are the fields of regions and planes, `lru` is the recency list, and
`held` with `objs` are the allocation objects the callers hold. Identifiers of
objects stand for Go pointers. A request is one step where the code does all of
it under the allocator's mutex in one go (`AllocateFast`, `AllocateNewRegion`,
`FreeSingle`, `FreePromoted`, `AllocateInRegion`, `AddPlane`). `tryYPromotion`
is a loop, and every turn of it is a step (`YPromotionTake`, `YPromotionSkip`),
between `YPromotionBegin`, which chooses the region, and `YPromotionCommit` or
`YPromotionRollback`; its locals are in `job`, and no other request starts while
`job` is not idle, because the mutex is held. A Go panic is the flag `panicked`,
after which the model stops. A handle is given up by `Free`: double frees are
not modelled. `AddPlane` and `AllocateInRegion` do not take the allocator's
mutex in the code; the model lets them run between requests. How their locks
meet those of a running request is the subject of `Concurrency`.

Three next-state relations share the actions: `NextVM` is what the machine does
(regions keep the one plane they are made with), `NextPlanes` adds planes, and
`Next` adds the release of Y-promoted blocks. `Blocks` instantiates
`BlockAllocator` with the bytes of every handle in use as its blocks.

**Region.** A region starts with planes of any contents; `AddPlane`, `RemovePlane` and
`FindPromotion` are the actions. A plan is looked for by `Plane.Allocate` and given up
by `Plane.Free`, which does nothing here, because only the allocator enters
blocks in a plane's map; the bits stay set, and `leaked` counts them. `fulls`
counts removed planes that had no free byte; both are history variables.

**Concurrency.** A call is the sequence of its lock operations, and `todo` is what is
left of it. Where the code branches on memory, the sequence has a `Do`, which
the goroutine replaces by any of the branches; so the model has every path of
the code and some that its data would exclude. A writer announces itself before it
waits for readers, which keeps new readers out: a second read lock of the same
goroutine then waits for that writer. `mode` chooses between an allocator that
goroutines use directly, with its pool, and one inside a machine, whose allocator
has no pool. `Call` picks a call, `Running` goes through its locks; `Select`, `Receive`,
`allocWorker`, `Answer`, `Exit` and `Shutdown` are the channel operations. A
send on, or a second close of, the closed channel panics and ends the process.
Locks of planes, cache and tree are left out: nothing is acquired under them.

**VM3D.** A program is a sequence of instructions, possibly cut off, and `pc` counts its
bytes. `FetchError`, `ExecutionError`, `executeInstruction` and `Finish` are the ways
through one turn of the loop. An instruction that needs memory may succeed or fail, since
what is in memory is `VMMemory`'s subject. `ran`, `work` and `moved` are history variables; `freed`
says that some block was released, without which no region is fragmented and a compaction lists nothing.
The gas that the loop compares with zero is what `Remaining` makes of it, an `int64`.

**Prefetch.** `pos` holds the three loop variables, as wide as the coordinates; one step is
one turn of the innermost loop. The queue keeps the lengths of its batches, and `addrs` the length of the
batch a goroutine has in hand. That batch is a local: `thrown`, a history variable, is its length when the loops
ended.

**GasAccountant.** `pc`, `amt` and `old` are a goroutine's place in `Consume` or
`Refund` and its locals. `charged` and `credited` are history variables.

**VMMemory.** One plane of bytes and the tracked blocks in it, a cache, the tree's
nodes and one register; `proved` is a history variable, the blocks last written by
a store. Blocks are placed as the allocator places them in a region of one plane, where all
three of its paths come down to `Plane.Allocate` when the plane has enough free
bytes (`Placed`): with `U16 = PlaneSize + 1`, the machine's own ratio, blocks overlap and
run past the end of the plane; `Roomy` (twice the plane is within a `uint16`) excludes that. An
instruction that fails a check changes nothing except that a failed load has
touched the cache. `SetRegister` gives the register any data. A hash is an
injective constructor. Gas, statistics and the access log are left out: they do
not influence what is stored.

## 3. Runs

| Run | Specification | Shows |
|---|---|---|
| `region` | `Region!Spec`, two planes of 6 bits, words of 4 | from all contents, `FindContiguous` is first fit (`FirstFitCorrect`), `Fragmentation` is 0 exactly when the free space is one run (`FragmentationMeaning`), the counters are exact until a plan has left bits set or a full plane was removed (`CountersHold`), plans name runs that were free when planning began, and several of them only when no plane has one (`PlanSound`) |
| `allocator_vm` | `SpecVM`, two region types, up to 3 regions, LRU list of 2 | `LRUWellFormed`; while the LRU list has room for all regions, a region is created only when none has room for the block (`NoNeedlessRegion`). Regions have one plane, as the machine's do, but of half the `uint16` range |
| `allocator_planes` | `SpecPlanes`, 2 regions of up to 2 planes, LRU list of 1 | `TypeOK`, `NoOverlap`, `BitsCovered`, `FreeBytesExact`, `AllocCountExact`, every block is found under its address (`FoundByAddress`), a block has the bytes it asked for (`SizeGranted`), no step disturbs a block that stays in use (`OthersKept`), and the allocator implements `BlockAllocator` (`ImplementsBlocks`) |
| `allocator_edges` | `Spec`, `U16 = PlaneSize + 1`, LRU list of 2 | with wrapped positions, panics and releases of Y-promoted blocks: `AllocCountExact`, `HandlesTracked` still hold |
| `gas` | `GasFairSpec`, 2 goroutines | `TypeOK`, `NoOverdraft`, gas is never lost and created only up to the refunds (`GasConserved`), calls return (`GasCallsReturn`) |
| `memory` | `VMMemory!Spec`, 2 bytes, `U16 = 4`, cache of 1 entry | `CacheCoherent`, `ProofsCurrent`, `WritesStayInside` |
| `concurrency` | `FairSpec`, 2 callers, 2 workers, 1 region, channel of 1; the machine's calls, and `Allocate`, `Free`, `GetCompactionReport`, `AnalyzeCompaction` of the allocator | `NoDeadlock`, `RequestsTracked`, `CallsReturn`, `WorkersExit` |
| `machine` | `VM3D!Spec`, programs of up to 2 instructions, gas 40, limit 3 | `GasBoundsWork`, `GasAccounted`, `LimitHolds`, `OkMeansComplete`, `FetchErrorsJustified`, `ExecuteReturns` |
| `prefetch` | `PrefetchSpec`, 2 goroutines, coordinates of 5 values, window 1 | `NeighbourhoodCovered`, `OnlyRemaindersLost`, `PrefetchEnds` |
| `promoted_free_overlap` | `Spec` | violation of `NoOverlap` |
| `lock_cycle` | `Concurrency!Spec` with `AllocateInRegion` that finds a plane | violation of `NoDeadlock` |
| `cache_overlap` | `VMMemory!Spec`, `U16 = PlaneSize + 1` | violation of `CacheCoherent` |

Further configurations, kept beside the runs, each reproduce one violation that is not among the
findings of `PROJECT.json`:

| Configuration | Module | Violates | Line |
|---|---|---|---|
| `width_overlap.cfg` | `MCAllocator3D`, `U16 = PlaneSize + 1` | `NoOverlap`, in the allocator alone | `bitmap.go:99` |
| `grow_locked.cfg` | `Concurrency`, `AllocateInRegion` that adds a plane | `NoDeadlock` | `allocator.go:650` |
| `report_relocks.cfg` | `Concurrency`, reports and `AddPlane` | `NoDeadlock` | `region.go:199` |
| `plan_leak.cfg` | `Region` | `PlanStands`: "Rollback the test allocation" | `ypromotion.go:62` |
| `full_plane.cfg` | `Region` without plans | `CountersExact`, what `allocator_test.go:323` asserts | `region.go:120` |
| `copy_unproved.cfg` | `VMMemory` | `ProofsOfMemory`: "This is called whenever memory is written to" (`tree.go:74`) | `executor.go:200` |
| `refund_creates_gas.cfg` | `MCVM3D` | `GasWithinLimit`: "refunds if gas was used" (`compaction_test.go:122`) | `vm.go:298` |
| `prefetch_near_origin.cfg` | `MCPrefetch` | `NeighbourhoodFetched`: "Prefetch radius in 3D space" (`spatial.go:31`) | `spatial.go:98` |
| `prefetch_wraps.cfg` | `MCPrefetch` | `WithinRadius`: the same | `spatial.go:109` |
| `prefetch_skip.cfg` | `MCPrefetch` | `BatchesBounded`: "Queue full, skip" | `spatial.go:119` |

All of them are disagreements of the code with its own comments, tests and documents:

- *Freeing a Y-promoted block.* `Plane.Free` clears as many bits as the size of the
  whole block, not of the fragment, and only the first fragment's plane has an
  entry for the block. Bits behind the first fragment are cleared although
  other blocks own them, and the bits of the other fragments stay set for good.
- *Width.* With the real `PlaneSize` of 65535 the sum `startPos+size` wraps: the
  room check passes, no word is looked at, and the run overlaps others.
- *Lock order.* `AllocateInRegion`, which expects its caller to hold the region's write
  lock, takes the LRU lock; `tryFastAllocation` holds the LRU lock and takes the
  region's. With one goroutine in each, both wait forever.
- *Locks taken twice.* When `AllocateInRegion` needs a plane, `AddPlane` takes the write lock that
  the caller holds already, and the goroutine waits for itself. A region's report calls `Fragmentation`,
  which takes the read lock a second time: with a writer waiting in between (`AddPlane`,
  or for a report outside the allocator's mutex also `Free`), both wait forever.
- *Plans.* `FindPromotion` undoes its trial with `Plane.Free`, which finds no entry and clears
  nothing: the plan's runs are taken from then on, by nobody.
- *Full planes.* `RemovePlane` subtracts 1 from a `uint16` that is 0 and takes 2^16 from `FreeBytes`.
- *Cache over overlapping blocks.* The machine makes planes of 65535 bytes, where the wrapped sum grants
  a block over another. A store through one leaves the cache entry of the other behind.
- *Copies without proof.* `MCOPY3D` writes memory and cache and does not tell the tree, whose
  `Update` "is called whenever memory is written to"; `MFREE3D` leaves the node to the next block.
- *Refunds.* Compaction moves nothing and refunds 50 gas for each allocation it lists, in full also when less
  was used; as a method it costs nothing, and `AllocateMemory` is free.
- *Prefetch.* With X or Y below the window the lower bound wraps and nothing is collected, although the machine's
  blocks have Y = 0. With a box that reaches the largest offset the loop never ends and starts again at 0. A
  batch that finds the queue full is not skipped but kept, and grows.

Other behaviours that the model has and that the properties are worded around:
a request of size 0 is granted address (0,0,0), in no region, and takes 2^32
from `FreeBytes`; a request larger than a plane that fails leaves a registered
region behind; once the LRU list has overflowed, a region off the list with room
is overlooked when Y-promotion prefers a fragmented region with as many free
bytes, and a new region is created (`NoNeedlessRegion` without its condition fails
with `LRUCap = 1`); eviction removes an element from the cache's list and leaves it
in the map, so the map grows without bound (and stays coherent); a proof taken
before a store still verifies after it, since `VerifyProof` consults neither the
address nor the tree; `Store3D` at an address with no block allocates one
elsewhere and reports success. `CacheCoherent` is therefore about the map, not
the list. Further:

- `tryFastAllocation` is not given the flags of the request, so a block is pinned or
  not depending on the path that served it.
- `Consume` takes from `remaining` and then adds to `used`. A refund in between finds
  `used` too small, stops it at 0 and still credits all of its amount: gas is
  created, at most the amount of the refund, which is what `GasConserved` allows.
- `ProofsCurrent` is about blocks that were stored to since they were allocated or copied
  onto; `ProofsOfMemory`, about all of them, is what `copy_unproved.cfg` refutes.
- `Store3D` asks for gas last: with too little it returns an error for a store that took
  place and is not charged. `GasBoundsWork` counts what was reported as done.
- `GasBoundsWork` and `GasAccounted` are relative to the refunds of compactions; that gas stays
  within the limit is what `refund_creates_gas.cfg` refutes.
- A program whose last instruction reaches the instruction limit or uses up the gas is
  reported as failed; the instruction count is never reset, so a machine at its
  limit runs one instruction of every further program.
- `PrefetchEnds` is about boxes below the largest coordinate, `NeighbourhoodCovered` about addresses away
  from the ends of X and Y; the rest is in the three violations. Nobody receives from the queue, and an
  ended goroutine's last batch is lost.
- After `RemovePlane`, which nothing calls, a new plane can get an ID that is taken; the properties
  of plans speak of planes by their place in the region.

Every property of a passing run has a mutant: a change of one definition that a
slip in the code would make (named in a comment "Mutant:" in front of the
definition), under which TLC finds the property violated.

## 4. Bounds

- `PlaneSize = 4` with sizes {1,3,5}, {1,2,3,6} or {1,3,6}: a block that shares a plane, one
  that fills a plane after another was freed, a hole in the middle, and a block
  larger than a plane, which needs two fragments. `WordBits = 2` makes a plane two
  words. `U16 = 8` is twice the plane, where no sum wraps; `U16 = 5` is the ratio
  of the build (65536 to 65535).
- `MaxRegions` 2 or 3 and `LRUCap` 1 or 2: lists that overflow and one that does not.
  `MaxPlanes = 2` is the smallest region that can hold a promoted block, and one
  whose promotion takes a fragment, finds the second plane fragmented and rolls
  back. `MaxAllocs = 3`: a promoted block, a neighbour, and a third that lands on
  wrongly freed bytes. The bounds are guards: `YPromotionBegin` waits for a spare
  region, because a rollback needs one. Runs with bounds say
  `CHECK_DEADLOCK FALSE`: at the bound nothing may be enabled.
- `U32 = 16`, `U64 = 64` exceed every sum in the runs except where a counter goes
  below zero, which wraps as in the code. In `gas`, `MaxCredit` bounds the refunds that
  start, and two goroutines suffice to lose every kind of swap.
- `Region`: `N = 6` with words of 4 bits has a full word and a partial one; two planes are
  one more than a plan of one fragment needs; size 9 exceeds a plane, size 0 is the
  edge of the loop. `U16 = 16` is twice the plane and more: no position wraps (that is
  `allocator_edges`' subject), while a full plane's subtraction does. `MaxOff` stops new
  planes once the counters are off by more than 2.
- `Concurrency`: two callers and two workers meet in every pair of calls; one region is enough
  for cycles between a region and another lock, since no call holds two regions'
  locks at a time; the channel of length 1 can be empty, full, or closed with a
  request in it. Callers call again and again. At Shutdown the system may stop
  (`CHECK_DEADLOCK FALSE`); deadlock is what `NoDeadlock` is about.
- `VM3D`: instructions for each way through the loop; gas for one dear instruction and some cheap
  ones, a limit of 3 that a program of 2 stays below and several programs reach, one refund. No program
  starts once more than `MaxExecuted` instructions have run. `U64 = 256` is more than twice all gas there can be.
- `Prefetch`: a window of 1 in coordinates of 5 values has boxes inside, cut at 0, wrapped, and at the
  top; 27 addresses make batches of 4 overflow a queue of 2. `MaxLen` caps the
  length of the batch of a goroutine that does not end. `PrefetchAssumption` has a window of less
  than half the range of X and Y, as in the build (64 in 2^64 and 2^32).
- `VMMemory`: `PlaneSize = 2` gives one block of two bytes or two neighbours of one; six with
  `U16 = 7` are the machine's ratio, where four calls grant a block over a cached one;
  `MaxData` bounds the data that callers bring;
  sizes {0,1,2,5} with `U16 = 4` include an empty one and one whose conversion to
  `uint16` is in range while the size is not; a cache of one entry makes every second entry an eviction.

## 5. Fairness

`GasFairSpec` has weak fairness for every goroutine inside a call: its steps
are atomic operations, and the Go scheduler runs every runnable goroutine. It is
not assumed that a compare-and-swap ever succeeds, nor that anyone calls.
`VM3D!Spec` and `PrefetchSpec` have weak fairness for the loop, which waits for nothing.
`Concurrency!FairSpec` has strong fairness for every goroutine inside a call: Go's mutex
hands the lock to a goroutine that has waited too long (its starvation mode),
a blocked `RWMutex` reader or writer goes next after the current holders, and a
channel serves its waiters in order, so a step that becomes possible again and
again is taken. Nothing obliges anyone to call.

## 6. Proofs

All theorems hold for every value of the constants that satisfies the named assumption of
the module (`AllocatorAssumption`, `GasAssumption`, ...), and the hypotheses given here.

**Bitmap** (`Bitmap_proofs`), if two positions add up within a `uint16`. `FirstFit`: `FindContiguous`,
with its order of candidates and its early return, answers with the lowest free run, or with
`NoSpace` when there is none. `FitSound` (an accepted run is free) and `FitComplete` (a free run is
not passed over) are its halves. `FragmentationIs`: the fragmentation is below 1, and 0 exactly when
nothing is free or all that is free is one run. Holes are counted by where they start: the first
free position starts one (`FirstHole`), and if no other position does, nothing is free behind
the first used byte after it (`OneHole`).

**Region** (`Region_proofs`), planes of any number and contents whose size is at most half a `uint16` (32768 in
the build; `RegionAssumption`).

- `RegionFirstFit` and `RegionFragmentation`: `Spec => []FirstFitCorrect`, `Spec => []FragmentationMeaning`.
- `RegionCounters`: `Spec => []CountersHold`. `RegionInv` says what planes are and by how much the counters are off:
  `FreeBytes` by the bytes `leaked` and by 2^16 for each of `fulls` (`CountersOff`). Both counters are `uint64`, so every
  step is an equation modulo 2^64 (`ModAdd`, `CountersMove`). `RemovePlane` shifts the later planes down, and
  the sum over positions with them (`SumShift`). `FindPromotion` sets as many bits as it counts as `leaked`.
- `RegionPlans`: `Spec => PlanSound`. The loop of `findMultiPlaneFit` keeps `Scanned`: the fragments found so far
  lie one to a plane among the planes looked at, each in a run that was free (`Lays`); they add up to
  what has been served, and the planes have lost as many free bytes (`Accounts`). That a plan of one
  fragment cannot come from the loop follows from the sum: the fragment would be a run for the whole block.

**Allocator, full specification** (`Allocator3D_proofs`). These include wrapped positions,
overlapping blocks and releases of Y-promoted blocks.

- `TypeCorrect`: `Spec => []TypeOK`. `TypeOK` is not inductive: `TypeInv` adds that a region not
  yet created has no planes and a plane not yet added an empty bitmap (`Blank`), and that a
  request in progress still has a handle to give out (`JobCanHold`).
- `EntriesAreTracked`: `Spec => []HandlesTracked`. An entry must be known to be that of a block in
  use *at that place*, or a release would not remove it: `BookInv` adds `EntriesOwned`,
  `Addressed` and, for a running promotion, `JobBooked`. The steps are first sorted into those
  that book a block, release one or do neither (`BookStep`), so that what follows
  need not look at the actions again.
- `CountsAreExact` and `LRUIsWellFormed`: with `0 \notin Sizes`, `Spec => []AllocCountExact` and
  `Spec => []LRUWellFormed`. An empty request gets a handle in region 0, which no counter and no
  list knows, hence the hypothesis. The list also needs lemmas on removing an
  element and on cutting a sequence, which keep it free of repetitions.

**Allocator without the release of Y-promoted blocks** (`SpecPlanes`), under `Roomy`: twice the
plane is within a `uint16`, and no request is empty. Neither condition can be dropped:
`width_overlap.cfg` and `promoted_free_overlap` are the counterexamples. The build's own
`PlaneSize` of 65535 does not satisfy `Roomy`; the theorems are about planes of up to 32768 bytes.

- `AllocatorSafe`, and its parts `NoBlocksOverlap`, `BitmapsAreExact`, `AddressesAreFound`
  (`Allocator3D_proofs`): `[](NoOverlap /\ BitsCovered /\ FoundByAddress)`. `SafeInv` adds where an
  object's first fragment lies (`Located`), that a block with one fragment has all its bytes there,
  which is what `Plane.Free` relies on (`WholeInOne`), that the fragments of a
  running promotion are apart from all blocks (`JobApart`), and what its loop has
  found so far (`JobFrags`).
- `AllocatorImplementsBlocks` (`BlockAllocator_proofs`): `SpecPlanes => ImplementsBlocks`. The
  refinement mapping gives a handle in use all the bytes of its fragments (`CellsOf`). A
  grant is a step of `BlockAllocator` because `SafeInv` holds before and after; the steps of a
  Y-promotion before its commit stutter.
- `OthersUndisturbed`: `SpecPlanes => OthersKept`. A release clears the bits from the block's start for
  its size; `WholeInOne` says these are its own, and `NoOverlap` that nobody else's are among
  them. A rollback clears what `JobApart` keeps apart.
- `SizesAreGranted` and `FreeBytesAreExact`: `[]SizeGranted` and `[]FreeBytesExact`. `FreeBytesExact` speaks of
  instants without a request under way. `AccountInv` says what holds in between: the atomic
  `FreeBytes` is the number of free bytes *and* of those a running promotion has taken, since
  `tryYPromotion` subtracts only at its end (`Counted`); and the fragments of a promotion
  have as many bytes as its loop has served (`JobGranted`). The sums over planes of the model
  become cardinalities of sets of pairs of plane and offset.
- `RegionsAreNeeded`: `SpecVM => NoNeedlessRegion`, if also `MaxYPromotions >= 1`. This is about regions of one
  plane, as the machine has them, but like the others about planes of up to 32768 bytes: at 65535 a grant
  that wraps makes `FreeBytes` drift. `MachineInv` adds that
  a region has one plane (`OnePlane`), that a promotion which still searches has taken nothing and
  has found the region with the most free bytes to be of no use (`Searching`), and that
  a request about to create a region is one nobody has room for (`NoRoom`). It rests on
  `FirstFit`, on `LRUIsWellFormed` (every region in use is on a list that is not full) and on
  `FreeBytesAreExact` (an unused region has all its bytes free, so it is chosen). With
  `MaxYPromotions = 0`, which the configuration permits, it is false: a failed request leaves
  an empty region that is not on the list, and only Y-promotion would find it.

**Gas accountant** (`Machine_proofs`), any number of goroutines.

- `GasSafe`, `GasTypeCorrect`: `GasSpec => [](TypeOK /\ NoOverdraft)`. `GasInv` adds that a goroutine about to
  swap has read at least what it asks for (`Covered`).
- `GasIsConserved`: `GasSpec => []GasConserved`, if limit, refunds and one amount for every goroutine
  add up to less than 2^64 (`NoWrap`). `ConservedInv` bounds from both sides what remains, was used, and is
  held by calls between two atomic operations; the latter is a sum over all goroutines.

**Execution loop** (`VM3D_proofs`), all programs, costs, gas limits and instruction limits. `LoopInv` adds to
the properties that the program counter is at the start of an instruction whose
predecessors were all run, none of them HALT but perhaps the last (`InProgram`), that a call that goes on is below its limit
(`BelowLimit`), and that work done and gas remaining were given (`WorkPaid`): `GasBounds` (`[]GasBoundsWork`), `GasAddsUp`
(`[]GasAccounted`), `LimitIsHeld` (`[]LimitHolds`), `FetchErrorsAreJustified` (`FetchErrorsJustified`),
`OkIsComplete` (`OkMeansComplete`). The positions of instructions are sums of their widths; what is
needed of them is that they grow.

**Machine memory** (`Machine_proofs`), all byte sets and cache capacities. `WritesAreInside`
(`WritesStayInside`) holds for every plane a `uint16` can name, the machine's own included: it needs only
that blocks and data have their types (`DataInv`). `CacheIsCoherent` (`[]CacheCoherent`) and `ProofsAreCurrent`
(`[]ProofsCurrent`) assume `Roomy`, planes of up to 32768 bytes; without it `cache_overlap` is the counterexample.
`MemInv` says that blocks lie in the plane and apart (`BlocksOK`) and are the set bits of the free map (`CoveredBy`), that
every cached entry is at an allocated block and is what the block begins with (`CacheOK`), and that the
node of a block last written by a store is the hash of what the block begins with (`NodesOK`). That a
new block is apart from the others follows from `FirstFit` of `Bitmap_proofs`.

**Worker pool** (`Concurrency_proofs`), any number of callers, workers and regions: `RequestsAreTracked`
(`Spec => []RequestsTracked`). `PoolInv` adds that no caller is in the channel twice or with two
workers (`OnceEach`) and that channel, workers and results exclude each other (`OnePlace`).

**Locks** (`Concurrency_proofs`), any number of callers, workers and regions (finitely many regions, whose locks are
none of the four others: `ConcurrencyAssumption`): `NoDeadlocks`, `Spec => []NoDeadlock` if `Calls` has no others
than `free`, `report` and `analyze`. The hypothesis is needed: with the calls that take a region's lock
without `a.mu`, `lock_cycle`, `grow_locked.cfg` and `report_relocks.cfg` are counterexamples. There
is no order among the locks to go by. The argument is that every call runs inside one lock, `a.mu` or the machine's
(`Top`), takes another one exclusively only while it has `Top` exclusively, and never waits for
itself. So nobody inside `Top` is part of a deadlock: a goroutine that has it exclusively is alone with all the
locks, and those that share it find no writer at any other lock. A group that waits for itself would hence wait
at `Top`, all of it for one announced writer, who waits for readers, who are not in the group. What is left of a
call, with what its goroutine holds, is in `Legal`, the largest set of such pairs whose next operation does not wait
for its own goroutine and leads to a pair in the set. `LockInv` says that each goroutine's pair is in it (`Runnable`), that a
writer that is not in is at its `Lock` and one that is in has no readers beside it (`Announced`), and that
a goroutine outside a call has nothing left to do (`Resting`). It is inductive together with `PoolInv`.

**Prefetch** (`Machine_proofs`), all coordinates and any number of goroutines: `NeighbourhoodsAreCovered`
(`[]NeighbourhoodCovered`) and `OnlyRemaindersAreLost` (`[]OnlyRemaindersLost`). `PrefetchInv` says that a
goroutine has visited exactly the part of its box that precedes its loop
variables in lexicographic order (`Walking`), that a batch outgrows its length only when the queue is full
(`KeptWhenFull`), and that batches, those left behind included, and queue add up to what was collected (`AllCounted`).

**Sums** states what the totals need: `MapThenSumSet` over a finite set does not depend on the
order, and changes by the difference when one summand does. The induction theorems of the library
cannot be instantiated by the provers at hand, so the inductions are arguments by
a smallest counterexample, from the well-foundedness of strict inclusion.

Only model-checked:

- the liveness properties (`GasCallsReturn`, `CallsReturn`, `WorkersExit`,
  `ExecuteReturns`, `PrefetchEnds`): fairness and `ENABLED` are out of the prover's reach.

Every other property of a passing run is stated by a theorem, with the hypotheses above.

## 7. Not modelled

Not modelled: the operand values that decoders extract and the conversions of
addresses (pure functions); permissions (consulted by nothing); the command line;
access statistics, hotness and the access log (nothing reads them; concurrent `Load3D`
calls race on the log's slice); the Merkle root, a hash over the nodes in the random
order of a Go map, which no code compares; `RelocateAllocation` and `UpdateAllocationAddress`,
which nothing in the machine calls; which allocations `AnalyzeCompaction` lists (its locks are
in `Concurrency`, the refund for any number of them in `VM3D`); cost and score of a plan.
A caller that reuses the buffer it gave to `Store3D` changes the cache behind the machine's
back: that is left to the embedder.
