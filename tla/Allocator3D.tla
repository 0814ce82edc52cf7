---------------------------- MODULE Allocator3D ----------------------------
(***************************************************************************)
(* The three-dimensional allocator: internal/allocator/allocator.go over   *)
(* the regions, planes and allocations of internal/types.                  *)
(*                                                                         *)
(* An address is (X, Y, Z): a region, a plane of that region, an offset in *)
(* that plane. A request first scans the recently used regions             *)
(* (tryFastAllocation), then tries to spread the block over the planes of  *)
(* one region (tryYPromotion), then creates a region (allocateNewRegion),  *)
(* all while holding the allocator's mutex. tryYPromotion is a loop that   *)
(* takes one fragment after the other and rolls them back if the block     *)
(* does not fit: the model makes each turn of that loop a step and keeps   *)
(* the loop's locals in the variable job, which is idle whenever the mutex *)
(* is free.                                                                *)
(***************************************************************************)
EXTENDS Bitmap, SequencesExt

CONSTANTS RegionTypes,     \* the region types requests name
          Flags,           \* the flag words requests carry; 0 is no flag
          Sizes,           \* the sizes requests ask for
          PlaneSize,       \* Config.PlaneSize
          MaxYPromotions,  \* Config.MaxYPromotions
          LRUCap,          \* the literal 100 in promoteRegionLRU
          U32, U64,        \* number of values of a uint32, of a uint64
          MaxRegions,      \* bound: regions ever created
          MaxPlanes,       \* bound: planes of a region
          MaxAllocs        \* bound: allocations in use at a time

ASSUME AllocatorAssumption ==
    /\ RegionTypes # {}
    /\ 0 \in Flags
    /\ Sizes \subseteq Nat
    /\ PlaneSize \in Nat \ {0} /\ PlaneSize < U16
    /\ MaxYPromotions \in Nat
    /\ LRUCap \in Nat \ {0}
    /\ U32 \in Nat \ {0} /\ U64 \in Nat \ {0} /\ U32 <= U64
    /\ MaxRegions \in Nat \ {0}
    /\ MaxPlanes \in Nat \ {0}
    /\ MaxAllocs \in Nat \ {0}
    /\ MaxPlanes * PlaneSize < U64
    /\ MaxAllocs < U64
    /\ \A s \in Sizes : s < U32

(* A plane is a uint16 and a request a uint32. *)
ASSUME WidthAssumption == 2 * PlaneSize <= U32

RegionIds == 2 .. (MaxRegions + 1)
PlaneIds  == 0 .. (MaxPlanes - 1)
Offsets   == 0 .. (PlaneSize - 1)
AllocIds  == 1 .. MaxAllocs
NoAlloc   == 0

(* A fragment is a run of one plane; size 0 stands for an absent fragment. *)
Fragment == [start : Offsets, size : 0 .. PlaneSize]
NoFragment == [start |-> 0, size |-> 0]

(***************************************************************************)
(* An Allocation as its owner holds it. frags gives, for every plane, the  *)
(* run the allocation was granted there: for a Y-promoted block its        *)
(* Fragments, for any other block the single run at its address. The flags *)
(* are not always those of the request (AllocateFast).                     *)
(***************************************************************************)
Allocation == [x     : {0} \cup RegionIds,
               y     : PlaneIds,
               z     : Offsets,
               size  : Sizes \cup {0},
               flags : Flags,
               frags : [PlaneIds -> Fragment]]

NoObject == [x |-> 0, y |-> 0, z |-> 0, size |-> 0, flags |-> 0,
             frags |-> [p \in PlaneIds |-> NoFragment]]

VARIABLES
    nextRegionID,  \* Allocator3D.nextRegionID
    rtype,         \* rtype[x]: Type of region x
    nplanes,       \* nplanes[x]: len(Planes) of region x
    freeBytes,     \* freeBytes[x]: Region.FreeBytes, the atomic counter
    allocCount,    \* allocCount[x]: Region.AllocCount
    used,          \* used[x][y]: the set bits of the plane's FreeMap
    table,         \* table[x][y][z]: Plane.Allocations[z], or NoAlloc
    lru,           \* Allocator3D.regionLRU, front first
    held,          \* the allocations returned to callers and not yet freed
    objs,          \* the Allocation objects
    job,           \* locals of the request that holds the mutex
    panicked       \* a Go run-time panic ended the request

regionVars == <<rtype, nplanes, freeBytes, allocCount, used, table>>
vars == <<nextRegionID, regionVars, lru, held, objs, job, panicked>>

Regions == 2 .. nextRegionID

(* The locals of tryYPromotion: the region, what remains to be found, the   *)
(* next plane to look at, the plane of the first fragment (-1: none yet).   *)
Job == [stage : {"idle", "promote", "newregion"},
        rt    : RegionTypes,
        size  : Sizes \cup {0},
        flags : Flags,
        x     : RegionIds,
        rem   : Nat,
        next  : 0 .. MaxPlanes,
        first : {-1} \cup PlaneIds,
        frags : [PlaneIds -> Fragment]]

NoJob == [stage |-> "idle", rt |-> CHOOSE t \in RegionTypes : TRUE, size |-> 0,
          flags |-> 0, x |-> 2, rem |-> 0, next |-> 0, first |-> -1,
          frags |-> [p \in PlaneIds |-> NoFragment]]

-----------------------------------------------------------------------------
(* Helpers. *)

(* The offsets a fragment covers, and how many fragments a family has. *)
Extent(f) == f.start .. (f.start + f.size - 1)

IsYPromoted(o) ==
    \E p, q \in PlaneIds : p # q /\ o.frags[p].size > 0 /\ o.frags[q].size > 0

PlaneFree(x, y) == FreeBytes(used[x][y], PlaneSize)

(* The free bytes of region x, summed over its planes. *)
FreeCells(x) ==
    {c \in PlaneIds \X Offsets : c[1] < nplanes[x] /\ c[2] \notin used[x][c[1]]}

TotalFree(x) == Cardinality(FreeCells(x))

(* uint64 counters: AddUint64(&v, n), and AddUint64(&v, ^uint64(size-1)),   *)
(* in which size-1 is computed on uint32, so that size 0 takes away U32.    *)
AddU64(v, n) == IF v + n >= U64 THEN v + n - U64 ELSE v + n

SubU64(v, n) == IF v < n THEN v + U64 - n ELSE v - n

(* Mutant: ^uint64(size) in place of ^uint64(size-1). *)
SubSizeOffByOne(v, size) == SubU64(v, size + 1)

SubSize(v, size) == IF size = 0 THEN SubU64(v, U32) ELSE SubU64(v, size)

(* Mutant: the region is put in front without being removed first. *)
PromoteKeepsOld(x) ==
    LET s == <<x>> \o lru
    IN  IF Len(s) > LRUCap THEN SubSeq(s, 1, LRUCap) ELSE s

(* promoteRegionLRU: to the front, dropping the last beyond the capacity. *)
Promote(x) ==
    LET s == <<x>> \o RemoveFirst(lru, x)
    IN  IF Len(s) > LRUCap THEN SubSeq(s, 1, LRUCap) ELSE s

(* The fragment family of a block that lies in one plane. *)
OneRun(y, z, size) ==
    [p \in PlaneIds |-> IF p = y THEN [start |-> z, size |-> size] ELSE NoFragment]

FreshID == Min(AllocIds \ held)

(* What Plane.Allocate answers for plane y of region x. *)
Fit(x, y, size) == FindContiguous(used[x][y], PlaneSize, size)

(* Mutant: Plane.Allocate sets the range up to its last byte, excluded. *)
TakenShort(x, y, z, size) ==
    SetRange(used[x][y], PlaneSize, z, DecU16(AddU16(z, size)))

(* The bits after Plane.Allocate took the run at z. *)
Taken(x, y, z, size) == SetRange(used[x][y], PlaneSize, z, AddU16(z, size))

(***************************************************************************)
(* The common tail of the three ways to place a block in one plane: the    *)
(* bits are set, the object is stored in the plane's map and handed out,   *)
(* the counters follow.                                                    *)
(***************************************************************************)
Grant(x, y, z, size, flags, nplanes0, free0) ==
    LET id == FreshID
    IN  /\ nplanes' = nplanes0
        /\ used' = [used EXCEPT ![x][y] = Taken(x, y, z, size)]
        /\ table' = [table EXCEPT ![x][y][z] = id]
        /\ allocCount' = [allocCount EXCEPT ![x] = AddU64(@, 1)]
        /\ freeBytes' = [freeBytes EXCEPT ![x] = SubSize(free0, size)]
        /\ lru' = Promote(x)
        /\ held' = held \cup {id}
        /\ objs' = [objs EXCEPT ![id] =
               [x |-> x, y |-> y, z |-> z, size |-> size, flags |-> flags,
                frags |-> OneRun(y, z, size)]]

-----------------------------------------------------------------------------
Init ==
    /\ nextRegionID = 1
    /\ rtype = [x \in RegionIds |-> CHOOSE t \in RegionTypes : TRUE]
    /\ nplanes = [x \in RegionIds |-> 0]
    /\ freeBytes = [x \in RegionIds |-> 0]
    /\ allocCount = [x \in RegionIds |-> 0]
    /\ used = [x \in RegionIds |-> [y \in PlaneIds |-> {}]]
    /\ table = [x \in RegionIds |-> [y \in PlaneIds |-> [z \in Offsets |-> NoAlloc]]]
    /\ lru = << >>
    /\ held = {}
    /\ objs = [a \in AllocIds |-> NoObject]
    /\ job = NoJob
    /\ panicked = FALSE

(* The mutex is free and the caller may keep one more allocation. *)
Idle == job.stage = "idle" /\ ~panicked

CanHold == held # AllocIds

-----------------------------------------------------------------------------
(* Allocate, first attempt: tryFastAllocation. *)

(* Mutant: a plane is left alone unless more than size bytes are free. *)
FastHitStrict(i, y, t, size) ==
    /\ rtype[lru[i]] = t
    /\ freeBytes[lru[i]] > size
    /\ y < nplanes[lru[i]]
    /\ PlaneFree(lru[i], y) >= size
    /\ Fit(lru[i], y, size) # NoSpace

(* Plane y of the i-th recently used region ends the scan. *)
FastHit(i, y, t, size) ==
    /\ rtype[lru[i]] = t
    /\ freeBytes[lru[i]] >= size
    /\ y < nplanes[lru[i]]
    /\ PlaneFree(lru[i], y) >= size
    /\ Fit(lru[i], y, size) # NoSpace

FirstHit(i, y, t, size) ==
    /\ FastHit(i, y, t, size)
    /\ \A j \in 1 .. i, p \in PlaneIds :
          (j < i \/ p < y) => ~FastHit(j, p, t, size)

NoFastHit(t, size) ==
    \A i \in DOMAIN lru, y \in PlaneIds : ~FastHit(i, y, t, size)

(* The request's flags are not passed on: the object is made with none. *)
AllocateFast(t, size, f) ==
    /\ Idle /\ CanHold
    /\ \E i \in DOMAIN lru, y \in PlaneIds :
          /\ FirstHit(i, y, t, size)
          /\ Fit(lru[i], y, size) # Panic
          /\ Grant(lru[i], y, Fit(lru[i], y, size), size, 0,
                   nplanes, freeBytes[lru[i]])
    /\ UNCHANGED <<nextRegionID, rtype, job, panicked>>

FastPanics(t, size) ==
    /\ Idle /\ CanHold
    /\ \E i \in DOMAIN lru, y \in PlaneIds :
          FirstHit(i, y, t, size) /\ Fit(lru[i], y, size) = Panic
    /\ panicked' = TRUE
    /\ UNCHANGED <<nextRegionID, regionVars, lru, held, objs, job>>

-----------------------------------------------------------------------------
(* Allocate, second attempt: tryYPromotion. *)

(* The sum is a uint32: a size near the end of its range needs no plane.   *)
PlanesNeeded(size) == ((size + PlaneSize - 1) % U32) \div PlaneSize

PlanesWithFree(x) ==
    Cardinality({y \in PlaneIds : y < nplanes[x] /\ PlaneFree(x, y) > 0})

(* The regions that pass the scan, and those of them with the most free    *)
(* bytes; the scan is over a Go map, so any of several equals may be kept. *)
Candidates(t, size) ==
    {x \in RegionIds : /\ PlanesNeeded(size) <= MaxYPromotions
                       /\ x \in Regions
                       /\ rtype[x] = t
                       /\ TotalFree(x) >= size
                       /\ TotalFree(x) > 0
                       /\ PlanesWithFree(x) >= PlanesNeeded(size)}

BestRegions(t, size) ==
    {x \in Candidates(t, size) :
        \A w \in Candidates(t, size) : TotalFree(w) <= TotalFree(x)}

(***************************************************************************)
(* The request takes the write lock of the best region. Whether it will    *)
(* find room is not known yet, and if it does not it creates a region: the *)
(* bound MaxRegions is therefore a guard here.                             *)
(***************************************************************************)
YPromotionBegin(t, size, f) ==
    /\ Idle /\ CanHold
    /\ NoFastHit(t, size)
    /\ nextRegionID <= MaxRegions
    /\ \E x \in BestRegions(t, size) :
          job' = [stage |-> "promote", rt |-> t, size |-> size, flags |-> f,
                  x |-> x, rem |-> size, next |-> 0, first |-> -1,
                  frags |-> [p \in PlaneIds |-> NoFragment]]
    /\ UNCHANGED <<nextRegionID, regionVars, lru, held, objs, panicked>>

(* allocSize of the loop: what is free in the plane, or what is left. *)
WantedHere == IF PlaneFree(job.x, job.next) < job.rem
              THEN PlaneFree(job.x, job.next) ELSE job.rem

InLoop == /\ job.stage = "promote" /\ ~panicked
          /\ job.rem > 0
          /\ job.next < nplanes[job.x]

(* Mutant: what is left is forgotten after the first fragment. *)
YPromotionTakeOnce ==
    /\ InLoop
    /\ LET z == Fit(job.x, job.next, WantedHere)
       IN  /\ z \notin {NoSpace, Panic}
           /\ used' = [used EXCEPT ![job.x][job.next] =
                          Taken(job.x, job.next, z, WantedHere)]
           /\ job' = [job EXCEPT
                 !.rem = 0,
                 !.next = @ + 1,
                 !.first = IF @ = -1 THEN job.next ELSE @,
                 !.frags[job.next] = [start |-> z, size |-> WantedHere]]
    /\ UNCHANGED <<nextRegionID, rtype, nplanes, freeBytes, allocCount, table,
                   lru, held, objs, panicked>>

(* One turn of the loop that finds a run in the plane, and one that skips  *)
(* the plane because it is full or its free bytes are not contiguous.      *)
YPromotionTake ==
    /\ InLoop
    /\ LET z == Fit(job.x, job.next, WantedHere)
       IN  /\ z \notin {NoSpace, Panic}
           /\ used' = [used EXCEPT ![job.x][job.next] =
                          Taken(job.x, job.next, z, WantedHere)]
           /\ job' = [job EXCEPT
                 !.rem = @ - WantedHere,
                 !.next = @ + 1,
                 !.first = IF @ = -1 THEN job.next ELSE @,
                 !.frags[job.next] = [start |-> z, size |-> WantedHere]]
    /\ UNCHANGED <<nextRegionID, rtype, nplanes, freeBytes, allocCount, table,
                   lru, held, objs, panicked>>

YPromotionSkip ==
    /\ InLoop
    /\ Fit(job.x, job.next, WantedHere) = NoSpace
    /\ job' = [job EXCEPT !.next = @ + 1]
    /\ UNCHANGED <<nextRegionID, regionVars, lru, held, objs, panicked>>

YPromotionPanics ==
    /\ InLoop
    /\ Fit(job.x, job.next, WantedHere) = Panic
    /\ panicked' = TRUE
    /\ UNCHANGED <<nextRegionID, regionVars, lru, held, objs, job>>

(***************************************************************************)
(* The whole block was found. Its object goes into the map of the first    *)
(* fragment's plane only. A request of size 0 arrives here with no         *)
(* fragment: its address stays (0,0,0) and its entry lands at offset 0 of  *)
(* plane 0 of the region, whatever is there.                               *)
(***************************************************************************)
YPromotionCommit ==
    LET id == FreshID
        y  == IF job.first = -1 THEN 0 ELSE job.first
        z  == job.frags[y].start
    IN  /\ job.stage = "promote" /\ ~panicked
        /\ job.rem = 0
        /\ table' = [table EXCEPT ![job.x][y][z] = id]
        /\ allocCount' = [allocCount EXCEPT ![job.x] = AddU64(@, 1)]
        /\ freeBytes' = [freeBytes EXCEPT ![job.x] = SubSize(@, job.size)]
        /\ lru' = Promote(job.x)
        /\ held' = held \cup {id}
        /\ objs' = [objs EXCEPT ![id] =
               [x |-> IF job.first = -1 THEN 0 ELSE job.x, y |-> y, z |-> z,
                size |-> job.size, flags |-> job.flags,
                frags |-> job.frags]]
        /\ job' = NoJob
        /\ UNCHANGED <<nextRegionID, rtype, nplanes, used, panicked>>

(* Mutant: the failed promotion returns without clearing its fragments. *)
YPromotionRollbackKeeps ==
    /\ job.stage = "promote" /\ ~panicked
    /\ job.rem > 0 /\ job.next >= nplanes[job.x]
    /\ job' = [job EXCEPT !.stage = "newregion", !.first = -1,
                          !.frags = [p \in PlaneIds |-> NoFragment]]
    /\ UNCHANGED <<nextRegionID, regionVars, lru, held, objs, panicked>>

(* The planes did not hold the block: every fragment is cleared again. *)
YPromotionRollback ==
    LET F(y) == job.frags[y]
    IN  /\ job.stage = "promote" /\ ~panicked
        /\ job.rem > 0 /\ job.next >= nplanes[job.x]
        /\ used' = [used EXCEPT ![job.x] = [y \in PlaneIds |->
              ClearRange(@[y], PlaneSize, F(y).start, AddU16(F(y).start, F(y).size))]]
        /\ table' = [table EXCEPT ![job.x] = [y \in PlaneIds |->
              IF F(y).size > 0 THEN [@[y] EXCEPT ![F(y).start] = NoAlloc] ELSE @[y]]]
        /\ job' = [job EXCEPT !.stage = "newregion", !.first = -1,
                              !.frags = [p \in PlaneIds |-> NoFragment]]
        /\ UNCHANGED <<nextRegionID, rtype, nplanes, freeBytes, allocCount, lru,
                       held, objs, panicked>>

-----------------------------------------------------------------------------
(* Allocate, last attempt: allocateNewRegion. *)

(* The request (t, size, f) has got as far as needing a region. *)
Missed(t, size, f) ==
    \/ /\ Idle /\ CanHold
       /\ NoFastHit(t, size)
       /\ BestRegions(t, size) = {}
    \/ /\ job.stage = "newregion" /\ ~panicked
       /\ job.rt = t /\ job.size = size /\ job.flags = f

Fits(x, y, size) == size <= PlaneFree(x, y) /\ Fit(x, y, size) # NoSpace

AllocateNewRegion(t, size, f) ==
    LET x == nextRegionID + 1
    IN  /\ Missed(t, size, f)
        /\ x \in RegionIds
        /\ nextRegionID' = x
        /\ rtype' = [rtype EXCEPT ![x] = t]
        /\ job' = NoJob
        /\ UNCHANGED panicked
        /\ \/ /\ Fits(x, 0, size)
              /\ Grant(x, 0, Fit(x, 0, size), size, f,
                       [nplanes EXCEPT ![x] = 1], PlaneSize)
           \/ \* The error return: the region stays registered, off the list.
              /\ ~Fits(x, 0, size)
              /\ nplanes' = [nplanes EXCEPT ![x] = 1]
              /\ freeBytes' = [freeBytes EXCEPT ![x] = PlaneSize]
              /\ UNCHANGED <<allocCount, used, table, lru, held, objs>>

-----------------------------------------------------------------------------
(* Free. A handle is given up by the call, so no allocation is freed twice. *)
(* A call that returns an error changes nothing and is no step.             *)

(* Mutant: Plane.Free clears the byte after the block as well. *)
ClearedLong(x, y, z) ==
    ClearRange(used[x][y], PlaneSize, z,
               AddU16(z, ToU16(objs[table[x][y][z]].size)) + 1)

(* Plane.Free(z) for the object found there: the bits it clears. *)
Cleared(x, y, z) ==
    ClearRange(used[x][y], PlaneSize, z, AddU16(z, ToU16(objs[table[x][y][z]].size)))

(* Mutant: freeSync returns without taking one from AllocCount. *)
ReleaseKeepsCount(a) ==
    /\ freeBytes' = [freeBytes EXCEPT ![objs[a].x] = AddU64(@, objs[a].size)]
    /\ held' = held \ {a}
    /\ objs' = [objs EXCEPT ![a] = NoObject]
    /\ UNCHANGED <<nextRegionID, rtype, nplanes, allocCount, lru, job, panicked>>

Release(a) ==
    /\ allocCount' = [allocCount EXCEPT ![objs[a].x] = SubU64(@, 1)]
    /\ freeBytes' = [freeBytes EXCEPT ![objs[a].x] = AddU64(@, objs[a].size)]
    /\ held' = held \ {a}
    /\ objs' = [objs EXCEPT ![a] = NoObject]
    /\ UNCHANGED <<nextRegionID, rtype, nplanes, lru, job, panicked>>

(* Mutant: Plane.Free clears the bits and leaves the entry in the map. *)
FreeSingleKeepsEntry(a) ==
    LET o == objs[a]
    IN  /\ Idle
        /\ ~IsYPromoted(o)
        /\ o.x \in Regions
        /\ o.y < nplanes[o.x]
        /\ table[o.x][o.y][o.z] # NoAlloc
        /\ used' = [used EXCEPT ![o.x][o.y] = Cleared(o.x, o.y, o.z)]
        /\ UNCHANGED table
        /\ Release(a)

FreeSingle(a) ==
    LET o == objs[a]
    IN  /\ Idle
        /\ ~IsYPromoted(o)
        /\ o.x \in Regions
        /\ o.y < nplanes[o.x]
        /\ table[o.x][o.y][o.z] # NoAlloc
        /\ used' = [used EXCEPT ![o.x][o.y] = Cleared(o.x, o.y, o.z)]
        /\ table' = [table EXCEPT ![o.x][o.y][o.z] = NoAlloc]
        /\ Release(a)

(* Mutant: the entry of a Y-promoted block is left in the map. *)
FreePromotedKeepsEntry(a) ==
    LET o == objs[a]
        Found(y) == o.frags[y].size > 0 /\ table[o.x][y][o.frags[y].start] # NoAlloc
    IN  /\ Idle
        /\ IsYPromoted(o)
        /\ o.x \in Regions
        /\ used' = [used EXCEPT ![o.x] = [y \in PlaneIds |->
              IF Found(y) THEN Cleared(o.x, y, o.frags[y].start) ELSE @[y]]]
        /\ UNCHANGED table
        /\ Release(a)

(***************************************************************************)
(* Plane.Free is called for every fragment, and finds an object only where *)
(* the plane's map has an entry at the fragment's start: it then clears as *)
(* many bits as that object's whole size. Its result is not looked at.     *)
(***************************************************************************)
FreePromoted(a) ==
    LET o == objs[a]
        Found(y) == o.frags[y].size > 0 /\ table[o.x][y][o.frags[y].start] # NoAlloc
    IN  /\ Idle
        /\ IsYPromoted(o)
        /\ o.x \in Regions
        /\ used' = [used EXCEPT ![o.x] = [y \in PlaneIds |->
              IF Found(y) THEN Cleared(o.x, y, o.frags[y].start) ELSE @[y]]]
        /\ table' = [table EXCEPT ![o.x] = [y \in PlaneIds |->
              IF Found(y) THEN [@[y] EXCEPT ![o.frags[y].start] = NoAlloc] ELSE @[y]]]
        /\ Release(a)

-----------------------------------------------------------------------------
(* Operations on a region that a caller got from GetRegion. *)

(* Region.AddPlane of an empty plane whose ID is the number of planes. *)
AddPlane(x) ==
    /\ Idle
    /\ x \in Regions
    /\ nplanes[x] < MaxPlanes
    /\ nplanes' = [nplanes EXCEPT ![x] = @ + 1]
    /\ freeBytes' = [freeBytes EXCEPT ![x] = AddU64(@, PlaneSize)]
    /\ UNCHANGED <<nextRegionID, rtype, allocCount, used, table, lru, held, objs,
                   job, panicked>>

(* AllocateInRegion: the first plane with room, else a new plane. When the *)
(* block is larger than a plane the call fails, and the new plane stays.   *)
InRegionHit(x, y, size) == y < nplanes[x] /\ Fits(x, y, size)

AllocateInRegion(x, size, f) ==
    /\ Idle /\ CanHold
    /\ x \in Regions
    /\ UNCHANGED <<nextRegionID, rtype, job>>
    /\ \/ \E y \in PlaneIds :
             /\ InRegionHit(x, y, size)
             /\ \A p \in PlaneIds : p < y => ~InRegionHit(x, p, size)
             /\ \/ /\ Fit(x, y, size) # Panic
                   /\ Grant(x, y, Fit(x, y, size), size, f, nplanes, freeBytes[x])
                   /\ UNCHANGED panicked
                \/ /\ Fit(x, y, size) = Panic
                   /\ panicked' = TRUE
                   /\ UNCHANGED <<nplanes, freeBytes, allocCount, used, table, lru,
                                  held, objs>>
       \/ /\ \A y \in PlaneIds : ~InRegionHit(x, y, size)
          /\ nplanes[x] < MaxPlanes
          /\ UNCHANGED panicked
          /\ LET y  == nplanes[x]
                 np == [nplanes EXCEPT ![x] = @ + 1]
                 fb == AddU64(freeBytes[x], PlaneSize)
             IN  \/ /\ Fits(x, y, size)
                    /\ Grant(x, y, Fit(x, y, size), size, f, np, fb)
                 \/ /\ ~Fits(x, y, size)
                    /\ nplanes' = np
                    /\ freeBytes' = [freeBytes EXCEPT ![x] = fb]
                    /\ UNCHANGED <<allocCount, used, table, lru, held, objs>>

-----------------------------------------------------------------------------
Promotion == \/ YPromotionTake \/ YPromotionSkip \/ YPromotionPanics
             \/ YPromotionCommit \/ YPromotionRollback

Allocate(t, size, f) == \/ AllocateFast(t, size, f)
                        \/ FastPanics(t, size)
                        \/ YPromotionBegin(t, size, f)
                        \/ AllocateNewRegion(t, size, f)

(* What the virtual machine does: it never touches a region's planes. *)
NextVM ==
    \/ \E t \in RegionTypes, size \in Sizes, f \in Flags : Allocate(t, size, f)
    \/ Promotion
    \/ \E a \in held : FreeSingle(a)

(* The same with regions of several planes. *)
NextPlanes ==
    \/ NextVM
    \/ \E x \in RegionIds : AddPlane(x)
    \/ \E x \in RegionIds, size \in Sizes, f \in Flags : AllocateInRegion(x, size, f)

Next ==
    \/ NextPlanes
    \/ \E a \in held : FreePromoted(a)

SpecVM     == Init /\ [][NextVM]_vars
SpecPlanes == Init /\ [][NextPlanes]_vars
Spec       == Init /\ [][Next]_vars

-----------------------------------------------------------------------------
(* Properties. *)

(* Every variable keeps its type; counters stay within a uint64. *)
TypeOK ==
    /\ nextRegionID \in 1 .. (MaxRegions + 1)
    /\ rtype \in [RegionIds -> RegionTypes]
    /\ nplanes \in [RegionIds -> 0 .. MaxPlanes]
    /\ freeBytes \in [RegionIds -> 0 .. (U64 - 1)]
    /\ allocCount \in [RegionIds -> 0 .. (U64 - 1)]
    /\ used \in [RegionIds -> [PlaneIds -> SUBSET Offsets]]
    /\ table \in [RegionIds -> [PlaneIds -> [Offsets -> AllocIds \cup {NoAlloc}]]]
    /\ lru \in Seq(RegionIds)
    /\ held \subseteq AllocIds
    /\ objs \in [AllocIds -> Allocation]
    /\ job \in Job
    /\ panicked \in BOOLEAN

(* Two allocations in use never share a byte of memory, whichever of the   *)
(* allocation paths granted them (allocator_test.go checks pairs of        *)
(* addresses for this).                                                    *)
NoOverlap ==
    \A a, b \in held : a # b /\ objs[a].x = objs[b].x =>
        \A y \in PlaneIds :
            Extent(objs[a].frags[y]) \cap Extent(objs[b].frags[y]) = {}

(* A plane's FreeMap has exactly the bits of the allocations in use set,   *)
(* plus those of the fragments a running promotion has taken: no run is    *)
(* lost by Free or by a rollback, none is given out outside the plane.     *)
BitsCovered ==
    /\ \A a \in held : objs[a].x # 0 =>
          \A y \in PlaneIds : Extent(objs[a].frags[y]) \subseteq used[objs[a].x][y]
    /\ \A y \in PlaneIds : Extent(job.frags[y]) \subseteq used[job.x][y]
    /\ \A x \in RegionIds, y \in PlaneIds : \A i \in used[x][y] :
          \/ \E a \in held : objs[a].x = x /\ i \in Extent(objs[a].frags[y])
          \/ job.x = x /\ i \in Extent(job.frags[y])

(* Between requests, the atomic counter Region.FreeBytes that admits a     *)
(* request to a region agrees with the planes' bitmaps.                    *)
FreeBytesExact ==
    Idle => \A x \in RegionIds : freeBytes[x] = TotalFree(x)

(* Region.AllocCount counts the allocations in use in the region.          *)
AllocCountExact ==
    \A x \in RegionIds :
        allocCount[x] = Cardinality({a \in held : objs[a].x = x})

(* The planes' maps hold exactly the allocations in use, each under its    *)
(* own address: Free and the address lookups find the right object.        *)
FoundByAddress ==
    /\ \A a \in held :
          objs[a].x \in Regions /\ table[objs[a].x][objs[a].y][objs[a].z] = a
    /\ \A x \in RegionIds, y \in PlaneIds, z \in Offsets :
          LET a == table[x][y][z]
          IN  a # NoAlloc => a \in held /\ objs[a].x = x /\ objs[a].y = y /\ objs[a].z = z

(* No entry of a plane's map outlives the handle of its allocation, on any *)
(* path, including the release of Y-promoted blocks: what Free looks up is *)
(* never an object that was already released.                              *)
HandlesTracked ==
    \A x \in RegionIds, y \in PlaneIds, z \in Offsets :
        table[x][y][z] # NoAlloc => table[x][y][z] \in held

(* The LRU list names each region at most once, only registered ones, and  *)
(* every region with an allocation in use until it overflows: a listed     *)
(* region is one the fast path can serve from.                             *)
LRUWellFormed ==
    /\ Len(lru) <= LRUCap
    /\ \A i, j \in DOMAIN lru : lru[i] = lru[j] => i = j
    /\ \A i \in DOMAIN lru : lru[i] \in Regions
    /\ Len(lru) < LRUCap =>
          \A x \in RegionIds : allocCount[x] > 0 => \E i \in DOMAIN lru : lru[i] = x

(* As long as the LRU list has room for every region, a region is only     *)
(* created when no registered region of the type has a free run that would *)
(* hold the block: the attempts before allocateNewRegion do not overlook   *)
(* one, not even in regions that a failed request left off the list.       *)
HasRoom(t, size) ==
    \E x \in RegionIds, y \in PlaneIds :
        /\ x \in Regions /\ rtype[x] = t /\ y < nplanes[x]
        /\ \E z \in Offsets : /\ z + size <= PlaneSize
                              /\ (z .. (z + size - 1)) \cap used[x][y] = {}

NoNeedlessRegion ==
    [][nextRegionID' # nextRegionID /\ nextRegionID - 1 <= LRUCap =>
          ~HasRoom(rtype'[nextRegionID'],
                   IF job.stage = "newregion" THEN job.size
                   ELSE IF held' = held THEN PlaneSize + 1
                   ELSE objs'[CHOOSE a \in held' \ held : TRUE].size)]_vars

(* A request leaves the allocations of others alone: no step clears a bit  *)
(* of, moves or shrinks an allocation that stays in use.                   *)
OthersKept ==
    [][\A a \in held \cap held' :
          /\ objs'[a] = objs[a]
          /\ objs[a].x # 0 => \A y \in PlaneIds :
                used[objs[a].x][y] \cap Extent(objs[a].frags[y])
                    \subseteq used'[objs[a].x][y]]_vars

(* The bytes of an allocation in use. *)
CellsOf(a) ==
    {c \in RegionIds \X PlaneIds \X Offsets :
        a \in held /\ c[1] = objs[a].x /\ c[3] \in Extent(objs[a].frags[c[2]])}

(* An allocation in use has as many bytes as its request asked for, over   *)
(* all planes that tryYPromotion spread it over.                           *)
SizeGranted == \A a \in held : Cardinality(CellsOf(a)) = objs[a].size

(* The allocator is a block allocator: seen through the bytes that each    *)
(* allocation in use owns, whatever steps a request takes, it does nothing *)
(* but hand out blocks of bytes that nobody owns and take back one block   *)
(* at a time.                                                              *)
Blocks == INSTANCE BlockAllocator
              WITH Ids   <- AllocIds,
                   Cells <- RegionIds \X PlaneIds \X Offsets,
                   owned <- [a \in AllocIds |-> CellsOf(a)]

ImplementsBlocks == Blocks!Spec

=============================================================================
