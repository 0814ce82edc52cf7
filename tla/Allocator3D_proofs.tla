------------------------ MODULE Allocator3D_proofs -------------------------
(***************************************************************************)
(* Proofs about Allocator3D, for every value of its constants: the types,  *)
(* the handles, counters and list (BookInv), and the safety of the         *)
(* allocations (SafeInv).                                                  *)
(***************************************************************************)
EXTENDS Allocator3D, Bitmap_proofs, SequenceTheorems, WellFoundedInduction

-----------------------------------------------------------------------------
(* Lemmas about the operators of Allocator3D. *)

(* promoteRegionLRU keeps a list of regions. *)
LEMMA PromoteType ==
    ASSUME lru \in Seq(RegionIds), NEW x \in RegionIds
    PROVE  Promote(x) \in Seq(RegionIds)
<1> DEFINE I == {i \in 1 .. Len(lru) : lru[i] = x}
<1>1. RemoveFirst(lru, x) \in Seq(RegionIds)
  <2>1. CASE I = {}
    <3>1. ~ \E i \in 1 .. Len(lru) : lru[i] = x
      BY <2>1
    <3> QED
      BY <3>1, Zenon DEF RemoveFirst
  <2>2. CASE I # {}
    <3>1. Min(I) \in I
      <4>1. I \in SUBSET Nat
        OBVIOUS
      <4> QED
        BY <4>1, <2>2, MinOfNat
    <3>2. \E i \in 1 .. Len(lru) : lru[i] = x
      BY <2>2
    <3>3. RemoveFirst(lru, x) = RemoveAt(lru, Min(I))
      BY <3>2, <2>2, Zenon DEF RemoveFirst, SelectInSeq
    <3>4. Min(I) \in 1 .. Len(lru)
      BY <3>1
    <3> HIDE DEF I
    <3> QED
      BY <3>3, <3>4 DEF RemoveAt
  <2> QED
    BY <2>1, <2>2
<1>2. <<x>> \o RemoveFirst(lru, x) \in Seq(RegionIds)
  BY <1>1
<1> QED
  BY <1>2, AllocatorAssumption DEF Promote

-----------------------------------------------------------------------------
(* Type correctness of the whole specification. *)

(* The bound on allocations in use leaves room for the running request. *)
JobCanHold == job.stage # "idle" => CanHold

(* A plane that a region does not have yet has an empty bitmap. *)
Blank ==
    /\ \A x \in RegionIds : x \notin Regions => nplanes[x] = 0
    /\ \A x \in RegionIds, y \in PlaneIds : y >= nplanes[x] => used[x][y] = {}

TypeInv == TypeOK /\ JobCanHold /\ Blank

(* The part of TypeOK and Blank that granting a block changes. *)
StoreType ==
    /\ nplanes \in [RegionIds -> 0 .. MaxPlanes]
    /\ freeBytes \in [RegionIds -> 0 .. (U64 - 1)]
    /\ allocCount \in [RegionIds -> 0 .. (U64 - 1)]
    /\ used \in [RegionIds -> [PlaneIds -> SUBSET Offsets]]
    /\ table \in [RegionIds -> [PlaneIds -> [Offsets -> AllocIds \cup {NoAlloc}]]]
    /\ lru \in Seq(RegionIds)
    /\ held \subseteq AllocIds
    /\ objs \in [AllocIds -> Allocation]
    /\ \A x \in RegionIds, y \in PlaneIds : y >= nplanes[x] => used[x][y] = {}

(* FreshID names an allocation that is not in use. *)
LEMMA FreshIDIsFree ==
    ASSUME held \subseteq AllocIds, CanHold
    PROVE  FreshID \in AllocIds \ held
<1>1. AllocIds \ held # {}
  BY DEF CanHold
<1>2. AllocIds \ held \in SUBSET Nat
  BY AllocatorAssumption DEF AllocIds
<1> QED
  BY <1>1, <1>2, MinOfNat DEF FreshID

(* The counters stay within a uint64. *)
LEMMA CounterRange ==
    ASSUME NEW v \in 0 .. (U64 - 1), NEW n \in 0 .. (U64 - 1), NEW size \in Sizes \cup {0}
    PROVE  /\ AddU64(v, n) \in 0 .. (U64 - 1)
           /\ SubU64(v, n) \in 0 .. (U64 - 1)
           /\ SubSize(v, size) \in 0 .. (U64 - 1)
<1>1. U64 \in Nat \ {0} /\ U32 \in Nat \ {0} /\ U32 <= U64 /\ size \in Nat /\ size < U32
  BY AllocatorAssumption
<1> QED
  BY <1>1 DEF AddU64, SubU64, SubSize

(* The constants that bound a counter are numbers below a uint64. *)
LEMMA ConstantRange ==
    /\ 1 \in 0 .. (U64 - 1) /\ PlaneSize \in 0 .. (U64 - 1)
    /\ \A s \in Sizes \cup {0} : s \in 0 .. (U64 - 1)
    /\ 0 \in PlaneIds /\ 0 \in Offsets /\ 2 \in RegionIds /\ 1 \in 0 .. MaxPlanes
<1>1. MaxPlanes * PlaneSize >= PlaneSize
  BY AllocatorAssumption
<1> QED
  BY <1>1, AllocatorAssumption DEF PlaneIds, Offsets, RegionIds

(* A block that is placed in one plane leaves every variable in its type. *)
LEMMA GrantType ==
    ASSUME TypeInv, CanHold, NEW x \in RegionIds, NEW y \in PlaneIds, NEW z \in Offsets,
           NEW size \in Sizes, size <= PlaneSize, NEW flags \in Flags,
           NEW np \in [RegionIds -> 0 .. MaxPlanes], NEW free0 \in 0 .. (U64 - 1),
           y < np[x], \A w \in RegionIds : nplanes[w] <= np[w],
           Grant(x, y, z, size, flags, np, free0)
    PROVE  StoreType'
<1> USE DEF TypeInv
<1>1. FreshID \in AllocIds \ held
  BY FreshIDIsFree DEF TypeOK
<1>2. nplanes' \in [RegionIds -> 0 .. MaxPlanes]
  BY DEF Grant
<1>3. freeBytes' \in [RegionIds -> 0 .. (U64 - 1)]
  <2>1. SubSize(free0, size) \in 0 .. (U64 - 1)
    BY CounterRange, ConstantRange
  <2> QED
    BY <2>1 DEF Grant, TypeOK
<1>4. allocCount' \in [RegionIds -> 0 .. (U64 - 1)]
  <2>1. AddU64(allocCount[x], 1) \in 0 .. (U64 - 1)
    BY CounterRange, ConstantRange DEF TypeOK
  <2> QED
    BY <2>1 DEF Grant, TypeOK
<1>5. used' \in [RegionIds -> [PlaneIds -> SUBSET Offsets]]
  <2>1. Taken(x, y, z, size) \in SUBSET Offsets
    BY DEF Taken, SetRange, TypeOK, Offsets
  <2> QED
    BY <2>1 DEF Grant, TypeOK
<1>6. table' \in [RegionIds -> [PlaneIds -> [Offsets -> AllocIds \cup {NoAlloc}]]]
  BY <1>1 DEF Grant, TypeOK
<1>7. lru' \in Seq(RegionIds)
  BY PromoteType DEF Grant, TypeOK
<1>8. held' \subseteq AllocIds
  BY <1>1 DEF Grant, TypeOK
<1>9. objs' \in [AllocIds -> Allocation]
  <2>1. [start |-> z, size |-> size] \in Fragment /\ NoFragment \in Fragment
    BY ConstantRange, AllocatorAssumption DEF Fragment, NoFragment
  <2>2. OneRun(y, z, size) \in [PlaneIds -> Fragment]
    BY <2>1 DEF OneRun
  <2>3. [x |-> x, y |-> y, z |-> z, size |-> size, flags |-> flags,
         frags |-> OneRun(y, z, size)] \in Allocation
    BY <2>2 DEF Allocation
  <2> QED
    BY <2>3, <1>1 DEF Grant, TypeOK
<1>10. \A w \in RegionIds, p \in PlaneIds : p >= nplanes'[w] => used'[w][p] = {}
  <2> SUFFICES ASSUME NEW w \in RegionIds, NEW p \in PlaneIds, p >= np[w]
               PROVE  used'[w][p] = {}
    BY DEF Grant
  <2>1. p >= nplanes[w] /\ ~(w = x /\ p = y)
    <3>1. nplanes \in [RegionIds -> 0 .. MaxPlanes] /\ nplanes[w] <= np[w]
      BY DEF TypeOK
    <3> QED
      BY <3>1, AllocatorAssumption DEF PlaneIds
  <2>2. used[w][p] = {}
    BY <2>1 DEF Blank
  <2>3. /\ used' = [used EXCEPT ![x][y] = Taken(x, y, z, size)]
        /\ used \in [RegionIds -> [PlaneIds -> SUBSET Offsets]]
    BY DEF Grant, TypeOK
  <2> QED
    BY <2>1, <2>2, <2>3
<1> QED
  BY <1>2, <1>3, <1>4, <1>5, <1>6, <1>7, <1>8, <1>9, <1>10 DEF StoreType

LEMMA PlaneFreeRange ==
    ASSUME TypeOK, NEW x \in RegionIds, NEW y \in PlaneIds
    PROVE  PlaneFree(x, y) \in 0 .. PlaneSize
<1>1. used[x][y] \in SUBSET (0 .. (PlaneSize - 1)) /\ PlaneSize \in Nat
  BY AllocatorAssumption DEF TypeOK, Offsets
<1> QED
  BY <1>1, FreeBytesRange DEF PlaneFree

LEMMA FitType ==
    ASSUME NEW x, NEW y, NEW size, Fit(x, y, size) # NoSpace, Fit(x, y, size) # Panic
    PROVE  Fit(x, y, size) \in Offsets
<1>1. PlaneSize \in Nat
  BY AllocatorAssumption
<1>2. FindContiguous(used[x][y], PlaneSize, size)
         \in (0 .. (PlaneSize - 1)) \cup {NoSpace, Panic}
  BY <1>1, FitRange
<1> QED
  BY <1>2 DEF Fit, Offsets

LEMMA NoJobType == NoJob \in Job /\ NoObject \in Allocation
<1>1. NoFragment \in Fragment /\ [p \in PlaneIds |-> NoFragment] \in [PlaneIds -> Fragment]
  BY ConstantRange, AllocatorAssumption DEF NoFragment, Fragment
<1>2. (CHOOSE t \in RegionTypes : TRUE) \in RegionTypes
  BY AllocatorAssumption
<1>3. NoJob \in Job
  BY <1>1, <1>2, ConstantRange, AllocatorAssumption DEF NoJob, Job
<1>4. NoObject \in Allocation
  BY <1>1, ConstantRange, AllocatorAssumption DEF NoObject, Allocation
<1> QED
  BY <1>3, <1>4

LEMMA InitType == Init => TypeInv
<1> SUFFICES ASSUME Init PROVE TypeInv
  OBVIOUS
<1>1. (CHOOSE t \in RegionTypes : TRUE) \in RegionTypes
  BY AllocatorAssumption
<1>2. JobCanHold
  BY DEF Init, NoJob, JobCanHold
<1>3. used \in [RegionIds -> [PlaneIds -> SUBSET Offsets]]
  BY DEF Init
<1>4. table \in [RegionIds -> [PlaneIds -> [Offsets -> AllocIds \cup {NoAlloc}]]]
  BY DEF Init
<1>5. /\ nextRegionID \in 1 .. (MaxRegions + 1)
      /\ rtype \in [RegionIds -> RegionTypes]
      /\ nplanes \in [RegionIds -> 0 .. MaxPlanes]
      /\ freeBytes \in [RegionIds -> 0 .. (U64 - 1)]
      /\ allocCount \in [RegionIds -> 0 .. (U64 - 1)]
  BY <1>1, AllocatorAssumption DEF Init
<1>6. held \subseteq AllocIds /\ job \in Job /\ panicked \in BOOLEAN
  BY NoJobType DEF Init
<1>7. objs \in [AllocIds -> Allocation]
  BY NoJobType DEF Init
<1>8. lru \in Seq(RegionIds)
  BY DEF Init
<1>9. Blank
  BY DEF Blank, Init
<1> QED
  BY <1>2, <1>3, <1>4, <1>5, <1>6, <1>7, <1>8, <1>9 DEF TypeInv, TypeOK

LEMMA AllocateFastType ==
    ASSUME TypeInv, NEW t \in RegionTypes, NEW size \in Sizes, NEW f \in Flags,
           AllocateFast(t, size, f)
    PROVE  TypeInv'
<1> USE DEF TypeInv
<1>1. PICK i \in DOMAIN lru, y \in PlaneIds :
         /\ FirstHit(i, y, t, size)
         /\ Fit(lru[i], y, size) # Panic
         /\ Grant(lru[i], y, Fit(lru[i], y, size), size, 0,
                  nplanes, freeBytes[lru[i]])
  BY DEF AllocateFast
<1>2. lru[i] \in RegionIds
  BY DEF TypeOK
<1>3. size <= PlaneFree(lru[i], y) /\ Fit(lru[i], y, size) # NoSpace
  <2>1. PlaneFree(lru[i], y) >= size /\ Fit(lru[i], y, size) # NoSpace
    BY <1>1 DEF FirstHit, FastHit
  <2> QED
    BY <2>1, <1>2, PlaneFreeRange, AllocatorAssumption
<1>4. size <= PlaneSize
  BY <1>2, <1>3, PlaneFreeRange, AllocatorAssumption
<1>5. Fit(lru[i], y, size) \in Offsets
  BY <1>1, <1>3, FitType
<1>6. /\ CanHold /\ 0 \in Flags
      /\ nplanes \in [RegionIds -> 0 .. MaxPlanes]
      /\ freeBytes[lru[i]] \in 0 .. (U64 - 1)
      /\ y < nplanes[lru[i]]
      /\ \A w \in RegionIds : nplanes[w] <= nplanes[w]
  <2>1. CanHold /\ 0 \in Flags
    BY AllocatorAssumption DEF AllocateFast
  <2>2. /\ nplanes \in [RegionIds -> 0 .. MaxPlanes]
        /\ freeBytes \in [RegionIds -> 0 .. (U64 - 1)]
    BY DEF TypeOK
  <2>3. y < nplanes[lru[i]]
    BY <1>1 DEF FirstHit, FastHit
  <2>4. \A w \in RegionIds : nplanes[w] <= nplanes[w]
    BY <2>2, AllocatorAssumption
  <2> QED
    BY <1>2, <2>1, <2>2, <2>3, <2>4
<1>7. StoreType' /\ nplanes' = nplanes
  BY <1>1, <1>2, <1>4, <1>5, <1>6, GrantType DEF Grant
<1>8. UNCHANGED <<nextRegionID, rtype, job, panicked>> /\ job.stage = "idle"
  BY DEF AllocateFast, Idle
<1> QED
  BY <1>7, <1>8 DEF TypeOK, StoreType, JobCanHold, Blank, Regions

LEMMA YPromotionBeginType ==
    ASSUME TypeInv, NEW t \in RegionTypes, NEW size \in Sizes, NEW f \in Flags,
           YPromotionBegin(t, size, f)
    PROVE  TypeInv'
<1> USE DEF TypeInv
<1>1. PICK x \in BestRegions(t, size) :
         job' = [stage |-> "promote", rt |-> t, size |-> size, flags |-> f,
                 x |-> x, rem |-> size, next |-> 0, first |-> -1,
                 frags |-> [p \in PlaneIds |-> NoFragment]]
  BY DEF YPromotionBegin
<1>2. x \in RegionIds
  BY DEF BestRegions, Candidates
<1>3. [p \in PlaneIds |-> NoFragment] \in [PlaneIds -> Fragment]
  BY NoJobType, ConstantRange, AllocatorAssumption DEF Fragment, NoFragment
<1>4. job' \in Job
  BY <1>1, <1>2, <1>3, AllocatorAssumption DEF Job
<1>5. UNCHANGED <<nextRegionID, regionVars, lru, held, objs, panicked>> /\ CanHold
  BY DEF YPromotionBegin
<1> QED
  BY <1>4, <1>5 DEF TypeOK, JobCanHold, CanHold, Blank, Regions, regionVars

(* What a turn of the promotion's loop sees: the next plane and the size. *)
LEMMA InLoopType ==
    ASSUME TypeOK, InLoop
    PROVE  /\ job.x \in RegionIds /\ job.next \in PlaneIds /\ job.rem \in Nat
           /\ WantedHere \in 0 .. PlaneSize /\ WantedHere <= job.rem
<1>1. job.x \in RegionIds /\ job.next \in 0 .. MaxPlanes /\ job.rem \in Nat
  BY DEF TypeOK, Job
<1>2. job.next \in PlaneIds
  BY <1>1, AllocatorAssumption DEF InLoop, TypeOK, PlaneIds
<1>3. PlaneFree(job.x, job.next) \in 0 .. PlaneSize
  BY <1>1, <1>2, PlaneFreeRange
<1> QED
  BY <1>1, <1>2, <1>3, AllocatorAssumption DEF WantedHere

LEMMA YPromotionTakeType == TypeInv /\ YPromotionTake => TypeInv'
<1> SUFFICES ASSUME TypeInv, YPromotionTake PROVE TypeInv'
  OBVIOUS
<1> USE DEF TypeInv
<1> DEFINE z == Fit(job.x, job.next, WantedHere)
<1>1. /\ job.x \in RegionIds /\ job.next \in PlaneIds /\ job.rem \in Nat
      /\ WantedHere \in 0 .. PlaneSize /\ WantedHere <= job.rem
  BY InLoopType DEF YPromotionTake
<1>2. z \in Offsets
  BY FitType DEF YPromotionTake
<1>3. used' \in [RegionIds -> [PlaneIds -> SUBSET Offsets]]
  <2>1. Taken(job.x, job.next, z, WantedHere) \in SUBSET Offsets
    BY <1>1 DEF Taken, SetRange, TypeOK, Offsets
  <2> HIDE DEF z
  <2>2. used' = [used EXCEPT ![job.x][job.next] = Taken(job.x, job.next, z, WantedHere)]
    BY DEF YPromotionTake, z
  <2> QED
    BY <2>1, <2>2 DEF TypeOK
<1>4. job' \in Job
  <2>1. [start |-> z, size |-> WantedHere] \in Fragment
    BY <1>1, <1>2 DEF Fragment
  <2>2. /\ job.rem - WantedHere \in Nat
        /\ job.next + 1 \in 0 .. MaxPlanes
        /\ (IF job.first = -1 THEN job.next ELSE job.first) \in {-1} \cup PlaneIds
    <3>1. job.first \in {-1} \cup PlaneIds
      BY DEF TypeOK, Job
    <3> QED
      BY <1>1, <3>1, AllocatorAssumption DEF PlaneIds
  <2> HIDE DEF z
  <2>3. job' = [job EXCEPT !.rem = @ - WantedHere, !.next = @ + 1,
                           !.first = IF @ = -1 THEN job.next ELSE @,
                           !.frags[job.next] = [start |-> z, size |-> WantedHere]]
    BY DEF YPromotionTake, z
  <2> QED
    BY <2>1, <2>2, <2>3 DEF TypeOK, Job
<1>5. /\ UNCHANGED <<nextRegionID, rtype, nplanes, freeBytes, allocCount, table,
                     lru, held, objs, panicked>>
      /\ job.stage = "promote"
  BY DEF YPromotionTake, InLoop
<1>6. Blank'
  <2>1. \A w \in RegionIds, p \in PlaneIds :
           p >= nplanes[w] => ~(w = job.x /\ p = job.next)
    <3>1. job.next < nplanes[job.x] /\ nplanes \in [RegionIds -> 0 .. MaxPlanes]
      BY DEF YPromotionTake, InLoop, TypeOK
    <3> QED
      BY <1>1, <3>1, AllocatorAssumption DEF PlaneIds
  <2> QED
    BY <1>1, <1>5, <2>1 DEF YPromotionTake, Blank, Regions, TypeOK
<1> QED
  BY <1>3, <1>4, <1>5, <1>6 DEF TypeOK, JobCanHold, CanHold

LEMMA YPromotionSkipType == TypeInv /\ YPromotionSkip => TypeInv'
<1> SUFFICES ASSUME TypeInv, YPromotionSkip PROVE TypeInv'
  OBVIOUS
<1> USE DEF TypeInv
<1>1. job.next \in PlaneIds
  BY InLoopType DEF YPromotionSkip
<1>2. job' \in Job /\ job'.stage = job.stage
  <2>1. job.next + 1 \in 0 .. MaxPlanes
    BY <1>1, AllocatorAssumption DEF PlaneIds
  <2>2. job' = [job EXCEPT !.next = @ + 1] /\ job \in Job
    BY DEF YPromotionSkip, TypeOK
  <2> QED
    BY <2>1, <2>2 DEF Job
<1>3. UNCHANGED <<nextRegionID, regionVars, lru, held, objs, panicked>>
  BY DEF YPromotionSkip
<1> QED
  BY <1>2, <1>3 DEF TypeOK, JobCanHold, CanHold, Blank, Regions, regionVars

LEMMA YPromotionCommitType == TypeInv /\ YPromotionCommit => TypeInv'
<1> SUFFICES ASSUME TypeInv, YPromotionCommit PROVE TypeInv'
  OBVIOUS
<1> USE DEF TypeInv
<1> DEFINE id == FreshID
           y  == IF job.first = -1 THEN 0 ELSE job.first
           z  == job.frags[y].start
           o  == [x |-> IF job.first = -1 THEN 0 ELSE job.x, y |-> y, z |-> z,
                  size |-> job.size, flags |-> job.flags,
                  frags |-> job.frags]
<1>1. /\ job.x \in RegionIds /\ job.size \in Sizes \cup {0} /\ job.flags \in Flags
      /\ job.first \in {-1} \cup PlaneIds /\ job.frags \in [PlaneIds -> Fragment]
  BY DEF TypeOK, Job
<1>2. y \in PlaneIds
  BY <1>1, ConstantRange
<1>3. z \in Offsets
  BY <1>1, <1>2 DEF Fragment
<1>4. id \in AllocIds \ held
  BY FreshIDIsFree DEF YPromotionCommit, JobCanHold, TypeOK
<1>5. o \in Allocation
  BY <1>1, <1>2, <1>3 DEF Allocation
<1>6. freeBytes' \in [RegionIds -> 0 .. (U64 - 1)]
  <2>1. SubSize(freeBytes[job.x], job.size) \in 0 .. (U64 - 1)
    BY <1>1, CounterRange, ConstantRange DEF TypeOK
  <2> QED
    BY <2>1, <1>1 DEF YPromotionCommit, TypeOK
<1>7. allocCount' \in [RegionIds -> 0 .. (U64 - 1)]
  <2>1. AddU64(allocCount[job.x], 1) \in 0 .. (U64 - 1)
    BY <1>1, CounterRange, ConstantRange DEF TypeOK
  <2> QED
    BY <2>1, <1>1 DEF YPromotionCommit, TypeOK
<1>8. lru' \in Seq(RegionIds)
  BY <1>1, PromoteType DEF YPromotionCommit, TypeOK
<1>9. table' = [table EXCEPT ![job.x][y][z] = id] /\ held' = held \cup {id}
      /\ objs' = [objs EXCEPT ![id] = o] /\ job' = NoJob
      /\ UNCHANGED <<nextRegionID, rtype, nplanes, used, panicked>>
  BY DEF YPromotionCommit
<1> HIDE DEF id, y, z, o
<1>10. table' \in [RegionIds -> [PlaneIds -> [Offsets -> AllocIds \cup {NoAlloc}]]]
  BY <1>1, <1>2, <1>3, <1>4, <1>9 DEF TypeOK
<1>11. held' \subseteq AllocIds /\ objs' \in [AllocIds -> Allocation]
  BY <1>4, <1>5, <1>9 DEF TypeOK
<1>12. job' \in Job /\ job'.stage = "idle"
  BY <1>9, NoJobType DEF NoJob
<1> QED
  BY <1>6, <1>7, <1>8, <1>9, <1>10, <1>11, <1>12 DEF TypeOK, JobCanHold, Blank, Regions

LEMMA YPromotionRollbackType == TypeInv /\ YPromotionRollback => TypeInv'
<1> SUFFICES ASSUME TypeInv, YPromotionRollback PROVE TypeInv'
  OBVIOUS
<1> USE DEF TypeInv
<1> DEFINE F(y) == job.frags[y]
           bits == [y \in PlaneIds |-> ClearRange(used[job.x][y], PlaneSize,
                       F(y).start, AddU16(F(y).start, F(y).size))]
           entries == [y \in PlaneIds |->
                         IF F(y).size > 0
                         THEN [table[job.x][y] EXCEPT ![F(y).start] = NoAlloc]
                         ELSE table[job.x][y]]
<1>1. job.x \in RegionIds /\ job.frags \in [PlaneIds -> Fragment]
  BY DEF TypeOK, Job
<1>2. /\ used' = [used EXCEPT ![job.x] = bits]
      /\ table' = [table EXCEPT ![job.x] = entries]
  BY <1>1 DEF YPromotionRollback, TypeOK
<1>3. bits \in [PlaneIds -> SUBSET Offsets]
  BY <1>1 DEF TypeOK, ClearRange
<1>4. entries \in [PlaneIds -> [Offsets -> AllocIds \cup {NoAlloc}]]
  <2>1. \A y \in PlaneIds : table[job.x][y] \in [Offsets -> AllocIds \cup {NoAlloc}]
    BY <1>1 DEF TypeOK
  <2>2. \A y \in PlaneIds : [table[job.x][y] EXCEPT ![F(y).start] = NoAlloc]
                               \in [Offsets -> AllocIds \cup {NoAlloc}]
    BY <2>1
  <2> QED
    BY <2>1, <2>2
<1>5. job' \in Job
  <2>1. [p \in PlaneIds |-> NoFragment] \in [PlaneIds -> Fragment]
    BY ConstantRange, AllocatorAssumption DEF Fragment, NoFragment
  <2>2. job' = [job EXCEPT !.stage = "newregion", !.first = -1,
                           !.frags = [p \in PlaneIds |-> NoFragment]] /\ job \in Job
    BY DEF YPromotionRollback, TypeOK
  <2> QED
    BY <2>1, <2>2 DEF Job
<1>6. /\ UNCHANGED <<nextRegionID, rtype, nplanes, freeBytes, allocCount, lru,
                     held, objs, panicked>>
      /\ job.stage = "promote"
  BY DEF YPromotionRollback
<1> HIDE DEF bits, entries
<1>7. used' \in [RegionIds -> [PlaneIds -> SUBSET Offsets]]
  BY <1>1, <1>2, <1>3 DEF TypeOK
<1>8. table' \in [RegionIds -> [PlaneIds -> [Offsets -> AllocIds \cup {NoAlloc}]]]
  BY <1>1, <1>2, <1>4 DEF TypeOK
<1>9. Blank'
  <2>1. \A y \in PlaneIds : bits[y] \subseteq used[job.x][y]
    BY DEF bits, ClearRange
  <2> QED
    BY <1>1, <1>2, <1>6, <2>1 DEF Blank, Regions, TypeOK
<1> QED
  BY <1>5, <1>6, <1>7, <1>8, <1>9 DEF TypeOK, JobCanHold, CanHold

(* In an empty bitmap the scan stops at position 0, and does not panic. *)
LEMMA FitEmpty ==
    ASSUME NEW x, NEW y, NEW size \in Nat, used[x][y] = {}, Fit(x, y, size) # NoSpace
    PROVE  Fit(x, y, size) \in Offsets /\ Fit(x, y, size) = 0
<1> DEFINE n == PlaneSize
           stops == {s \in (0 .. (n - 1)) \ {} : Verdict({}, n, s, size) # "taken"}
<1>1. n \in Nat \ {0} /\ n < U16
  BY AllocatorAssumption
<1>2. Fit(x, y, size) = FindContiguous({}, n, size)
  BY DEF Fit
<1>3. size \in 1 .. n
  BY <1>2 DEF FindContiguous
<1>4. Verdict({}, n, 0, size) = "ok"
  <2>1. AddU16(0, size) = size /\ DecU16(size) = size - 1
    BY <1>1, <1>3, BitmapAssumption DEF AddU16, DecU16
  <2>2. Word(size - 1) <= Word(n - 1)
    BY <1>1, <1>3, WordMonotone
  <2>3. Word(size - 1) \in Int /\ Word(n - 1) \in Int
    BY <1>1, <1>3, BitmapAssumption DEF Word
  <2> QED
    BY <1>1, <1>3, <2>1, <2>2, <2>3 DEF Verdict
<1>5. 0 \in stops
  BY <1>1, <1>4
<1>6. Min(stops) = 0
  <2>1. \A s \in stops : 0 <= s /\ s \in Int
    OBVIOUS
  <2>2. \A m \in stops : (\A s \in stops : m <= s) => m = 0
    BY <1>5, <2>1
  <2> HIDE DEF stops
  <2> QED
    BY <1>5, <2>1, <2>2 DEF Min
<1> HIDE DEF stops
<1>7. FindContiguous({}, n, size) = 0
  BY <1>3, <1>4, <1>5, <1>6 DEF FindContiguous, stops
<1> QED
  BY <1>2, <1>7, ConstantRange

LEMMA AllocateNewRegionType ==
    ASSUME TypeInv, NEW t \in RegionTypes, NEW size \in Sizes, NEW f \in Flags,
           AllocateNewRegion(t, size, f)
    PROVE  TypeInv'
<1> USE DEF TypeInv
<1> DEFINE x == nextRegionID + 1
           np == [nplanes EXCEPT ![x] = 1]
<1>1. x \in RegionIds /\ nextRegionID' = x /\ rtype' = [rtype EXCEPT ![x] = t]
      /\ job' = NoJob /\ UNCHANGED panicked
  BY DEF AllocateNewRegion
<1>2. CanHold
  BY DEF AllocateNewRegion, Missed, JobCanHold
<1>3. x \notin Regions /\ Regions' = Regions \cup {x}
  BY <1>1, AllocatorAssumption DEF Regions, TypeOK
<1> HIDE DEF x
<1>4. /\ nextRegionID' \in 1 .. (MaxRegions + 1) /\ rtype' \in [RegionIds -> RegionTypes]
      /\ job' \in Job /\ job'.stage = "idle" /\ panicked' \in BOOLEAN
  BY <1>1, NoJobType, AllocatorAssumption DEF TypeOK, RegionIds, NoJob
<1>5. np \in [RegionIds -> 0 .. MaxPlanes] /\ nplanes[x] = 0 /\ used[x][0] = {}
      /\ np[x] = 1 /\ \A w \in RegionIds : nplanes[w] <= np[w]
  <2>1. nplanes \in [RegionIds -> 0 .. MaxPlanes]
    BY DEF TypeOK
  <2>2. nplanes[x] = 0
    BY <1>1, <1>3 DEF Blank
  <2>3. used[x][0] = {}
    BY <1>1, <2>2, ConstantRange DEF Blank
  <2> QED
    BY <1>1, <2>1, <2>2, <2>3, ConstantRange, AllocatorAssumption
<1>6. nplanes' = np /\ StoreType'
  <2>1. CASE Fits(x, 0, size) /\ Grant(x, 0, Fit(x, 0, size), size, f, np, PlaneSize)
    <3>1. PlaneFree(x, 0) \in 0 .. PlaneSize
      BY <1>1, ConstantRange, PlaneFreeRange
    <3>2. size <= PlaneSize
      BY <2>1, <3>1, AllocatorAssumption DEF Fits
    <3>3. Fit(x, 0, size) \in Offsets
      BY <1>5, <2>1, FitEmpty, AllocatorAssumption DEF Fits
    <3>4. 0 < np[x] /\ 0 \in PlaneIds /\ PlaneSize \in 0 .. (U64 - 1)
      BY <1>5, ConstantRange
    <3> HIDE DEF np
    <3> QED
      BY <1>1, <1>2, <1>5, <2>1, <3>2, <3>3, <3>4, GrantType DEF Grant
  <2>2. CASE /\ nplanes' = np
             /\ freeBytes' = [freeBytes EXCEPT ![x] = PlaneSize]
             /\ UNCHANGED <<allocCount, used, table, lru, held, objs>>
    <3>1. freeBytes' \in [RegionIds -> 0 .. (U64 - 1)]
      BY <1>1, <2>2, ConstantRange DEF TypeOK
    <3>2. \A w \in RegionIds, p \in PlaneIds : p >= np[w] => p >= nplanes[w]
      <4> HIDE DEF np
      <4> QED
        BY <1>5, AllocatorAssumption DEF TypeOK, PlaneIds
    <3>3. \A w \in RegionIds, p \in PlaneIds : p >= np[w] => used[w][p] = {}
      BY <3>2 DEF Blank
    <3> HIDE DEF np
    <3> QED
      BY <1>5, <2>2, <3>1, <3>3 DEF TypeOK, StoreType
  <2> QED
    BY <2>1, <2>2 DEF AllocateNewRegion, x
<1>7. \A w \in RegionIds : w \notin Regions' => nplanes'[w] = 0
  BY <1>1, <1>3, <1>6 DEF Blank, TypeOK
<1> QED
  BY <1>4, <1>6, <1>7 DEF TypeOK, StoreType, JobCanHold, Blank

LEMMA AddPlaneType ==
    ASSUME TypeInv, NEW x \in RegionIds, AddPlane(x)
    PROVE  TypeInv'
<1> USE DEF TypeInv
<1>1. nplanes' \in [RegionIds -> 0 .. MaxPlanes]
  BY AllocatorAssumption DEF AddPlane, TypeOK
<1>2. freeBytes' \in [RegionIds -> 0 .. (U64 - 1)]
  <2>1. AddU64(freeBytes[x], PlaneSize) \in 0 .. (U64 - 1)
    BY ConstantRange, CounterRange DEF TypeOK
  <2> QED
    BY <2>1 DEF AddPlane, TypeOK
<1>3. UNCHANGED <<nextRegionID, rtype, allocCount, used, table, lru, held, objs,
                  job, panicked>> /\ x \in Regions
  BY DEF AddPlane
<1>4. Blank'
  <2>1. \A w \in RegionIds : nplanes[w] <= nplanes'[w] /\ (w # x => nplanes'[w] = nplanes[w])
    BY AllocatorAssumption DEF AddPlane, TypeOK
  <2>2. \A w \in RegionIds : w \notin Regions' => nplanes'[w] = 0
    BY <1>3, <2>1 DEF Blank, Regions
  <2>3. \A w \in RegionIds, p \in PlaneIds : p >= nplanes'[w] => p >= nplanes[w]
    BY <1>1, <2>1, AllocatorAssumption DEF TypeOK, PlaneIds
  <2> QED
    BY <1>3, <2>2, <2>3 DEF Blank
<1> QED
  BY <1>1, <1>2, <1>3, <1>4 DEF TypeOK, JobCanHold, CanHold

LEMMA AllocateInRegionType ==
    ASSUME TypeInv, NEW x \in RegionIds, NEW size \in Sizes, NEW f \in Flags,
           AllocateInRegion(x, size, f)
    PROVE  TypeInv'
<1> USE DEF TypeInv
<1>1. UNCHANGED <<nextRegionID, rtype, job>> /\ CanHold /\ x \in Regions
      /\ job.stage = "idle"
  BY DEF AllocateInRegion, Idle
<1> SUFFICES StoreType' /\ panicked' \in BOOLEAN
             /\ \A w \in RegionIds : w \notin Regions => nplanes'[w] = 0
  BY <1>1 DEF TypeOK, StoreType, JobCanHold, Blank, Regions
<1>2. \A y \in PlaneIds : Fits(x, y, size) => size <= PlaneSize
  BY PlaneFreeRange, AllocatorAssumption DEF Fits
<1>3. ASSUME NEW y \in PlaneIds, InRegionHit(x, y, size), Fit(x, y, size) # Panic,
             Grant(x, y, Fit(x, y, size), size, f, nplanes, freeBytes[x]),
             UNCHANGED panicked
      PROVE  StoreType' /\ panicked' \in BOOLEAN
             /\ \A w \in RegionIds : w \notin Regions => nplanes'[w] = 0
  <2>1. /\ size <= PlaneSize /\ y < nplanes[x]
        /\ Fit(x, y, size) \in Offsets
        /\ nplanes \in [RegionIds -> 0 .. MaxPlanes] /\ freeBytes[x] \in 0 .. (U64 - 1)
        /\ \A w \in RegionIds : nplanes[w] <= nplanes[w]
    BY <1>2, <1>3, FitType DEF InRegionHit, Fits, TypeOK
  <2>2. StoreType' /\ nplanes' = nplanes
    BY <1>1, <1>3, <2>1, GrantType DEF Grant
  <2> QED
    BY <1>3, <2>2 DEF TypeOK, Blank
<1>4. ASSUME panicked' = TRUE,
             UNCHANGED <<nplanes, freeBytes, allocCount, used, table, lru, held, objs>>
      PROVE  StoreType' /\ panicked' \in BOOLEAN
             /\ \A w \in RegionIds : w \notin Regions => nplanes'[w] = 0
  BY <1>4 DEF TypeOK, StoreType, Blank
<1> DEFINE y  == nplanes[x]
           np == [nplanes EXCEPT ![x] = @ + 1]
           fb == AddU64(freeBytes[x], PlaneSize)
<1>5. ASSUME nplanes[x] < MaxPlanes, UNCHANGED panicked,
             \/ Fits(x, y, size) /\ Grant(x, y, Fit(x, y, size), size, f, np, fb)
             \/ /\ nplanes' = np
                /\ freeBytes' = [freeBytes EXCEPT ![x] = fb]
                /\ UNCHANGED <<allocCount, used, table, lru, held, objs>>
      PROVE  StoreType' /\ panicked' \in BOOLEAN
             /\ \A w \in RegionIds : w \notin Regions => nplanes'[w] = 0
  <2>1. y \in PlaneIds /\ used[x][y] = {} /\ y < np[x]
    <3>1. y \in PlaneIds
      BY <1>5, AllocatorAssumption DEF TypeOK, PlaneIds
    <3>2. y >= nplanes[x] /\ y < np[x]
      BY <3>1, AllocatorAssumption DEF TypeOK, PlaneIds
    <3> QED
      BY <3>1, <3>2 DEF Blank
  <2>2. np \in [RegionIds -> 0 .. MaxPlanes] /\ \A w \in RegionIds : nplanes[w] <= np[w]
    BY <1>5, AllocatorAssumption DEF TypeOK
  <2>3. fb \in 0 .. (U64 - 1)
    BY ConstantRange, CounterRange DEF TypeOK
  <2>4. \A w \in RegionIds : w \notin Regions => np[w] = 0
    BY <1>1 DEF Blank, TypeOK
  <2> HIDE DEF y, np, fb
  <2>5. CASE Fits(x, y, size) /\ Grant(x, y, Fit(x, y, size), size, f, np, fb)
    <3>1. size <= PlaneSize /\ Fit(x, y, size) \in Offsets
      BY <1>2, <2>1, <2>5, FitEmpty, AllocatorAssumption DEF Fits
    <3>2. StoreType' /\ nplanes' = np
      BY <1>1, <2>1, <2>2, <2>3, <2>5, <3>1, GrantType DEF Grant
    <3> QED
      BY <1>5, <2>4, <3>2 DEF TypeOK
  <2>6. CASE /\ nplanes' = np
             /\ freeBytes' = [freeBytes EXCEPT ![x] = fb]
             /\ UNCHANGED <<allocCount, used, table, lru, held, objs>>
    <3>1. \A w \in RegionIds, p \in PlaneIds : p >= np[w] => p >= nplanes[w]
      <4>1. nplanes \in [RegionIds -> 0 .. MaxPlanes]
        BY DEF TypeOK
      <4> QED
        BY <2>2, <4>1, AllocatorAssumption DEF PlaneIds
    <3>2. \A w \in RegionIds, p \in PlaneIds : p >= np[w] => used[w][p] = {}
      BY <3>1 DEF Blank
    <3>3. freeBytes' \in [RegionIds -> 0 .. (U64 - 1)]
      BY <2>3, <2>6 DEF TypeOK
    <3>4. StoreType'
      BY <2>2, <2>6, <3>2, <3>3 DEF TypeOK, StoreType
    <3> QED
      BY <1>5, <2>4, <2>6, <3>4 DEF TypeOK
  <2> QED
    BY <1>5, <2>5, <2>6
<1> QED
  BY <1>3, <1>4, <1>5, Zenon DEF AllocateInRegion

(* Where an object that is in use lies. *)
LEMMA ObjectRange ==
    ASSUME TypeOK, NEW a \in held
    PROVE  /\ a \in AllocIds
           /\ objs[a].x \in Regions => objs[a].x \in RegionIds
           /\ objs[a].y \in PlaneIds /\ objs[a].z \in Offsets
           /\ objs[a].size \in Sizes \cup {0}
<1>1. a \in AllocIds /\ objs \in [AllocIds -> Allocation]
      /\ nextRegionID \in 1 .. (MaxRegions + 1)
  BY DEF TypeOK
<1>2. objs[a] \in Allocation
  BY <1>1
<1>3. Regions \subseteq RegionIds
  BY <1>1, AllocatorAssumption DEF Regions, RegionIds
<1> QED
  BY <1>1, <1>2, <1>3 DEF Allocation

(* Giving a block back: the counters, and the cleared bits and entries. *)
LEMMA FreeType ==
    ASSUME TypeInv, NEW a \in held, Idle, Release(a), objs[a].x \in Regions,
           used' \in [RegionIds -> [PlaneIds -> SUBSET Offsets]],
           \A x \in RegionIds, y \in PlaneIds : used'[x][y] \subseteq used[x][y],
           table' \in [RegionIds -> [PlaneIds -> [Offsets -> AllocIds \cup {NoAlloc}]]]
    PROVE  TypeInv'
<1> USE DEF TypeInv
<1>1. a \in AllocIds /\ objs[a].x \in RegionIds /\ objs[a].size \in Sizes \cup {0}
  BY ObjectRange
<1>2. allocCount' \in [RegionIds -> 0 .. (U64 - 1)]
  <2>1. SubU64(allocCount[objs[a].x], 1) \in 0 .. (U64 - 1)
    BY <1>1, ConstantRange, CounterRange DEF TypeOK
  <2> QED
    BY <2>1 DEF Release, TypeOK
<1>3. freeBytes' \in [RegionIds -> 0 .. (U64 - 1)]
  <2>1. AddU64(freeBytes[objs[a].x], objs[a].size) \in 0 .. (U64 - 1)
    BY <1>1, ConstantRange, CounterRange DEF TypeOK
  <2> QED
    BY <2>1 DEF Release, TypeOK
<1>4. held' \subseteq AllocIds /\ objs' \in [AllocIds -> Allocation]
  BY <1>1, NoJobType DEF Release, TypeOK
<1>5. UNCHANGED <<nextRegionID, rtype, nplanes, lru, job, panicked>>
  BY DEF Release
<1>6. Blank'
  BY <1>5 DEF Blank, Regions
<1> QED
  BY <1>2, <1>3, <1>4, <1>5, <1>6 DEF TypeOK, JobCanHold, Idle

LEMMA FreeSingleType ==
    ASSUME TypeInv, NEW a \in held, FreeSingle(a)
    PROVE  TypeInv'
<1> USE DEF TypeInv
<1> DEFINE o == objs[a]
<1>1. o.x \in RegionIds /\ o.y \in PlaneIds /\ o.z \in Offsets
  <2>1. o.x \in Regions
    BY DEF FreeSingle
  <2> QED
    BY <2>1, ObjectRange
<1>2. Cleared(o.x, o.y, o.z) \subseteq used[o.x][o.y]
  BY DEF Cleared, ClearRange
<1>3. /\ used' = [used EXCEPT ![o.x][o.y] = Cleared(o.x, o.y, o.z)]
      /\ table' = [table EXCEPT ![o.x][o.y][o.z] = NoAlloc]
      /\ Idle /\ Release(a) /\ o.x \in Regions
  BY DEF FreeSingle
<1> HIDE DEF o
<1>4. /\ used' \in [RegionIds -> [PlaneIds -> SUBSET Offsets]]
      /\ \A x \in RegionIds, y \in PlaneIds : used'[x][y] \subseteq used[x][y]
  BY <1>1, <1>2, <1>3 DEF TypeOK
<1>5. table' \in [RegionIds -> [PlaneIds -> [Offsets -> AllocIds \cup {NoAlloc}]]]
  BY <1>1, <1>3 DEF TypeOK
<1> QED
  BY <1>3, <1>4, <1>5, FreeType DEF o

LEMMA FreePromotedType ==
    ASSUME TypeInv, NEW a \in held, FreePromoted(a)
    PROVE  TypeInv'
<1> USE DEF TypeInv
<1> DEFINE o == objs[a]
           Found(y) == o.frags[y].size > 0 /\ table[o.x][y][o.frags[y].start] # NoAlloc
           bits == [y \in PlaneIds |-> IF Found(y) THEN Cleared(o.x, y, o.frags[y].start)
                                       ELSE used[o.x][y]]
           entries == [y \in PlaneIds |->
                         IF Found(y)
                         THEN [table[o.x][y] EXCEPT ![o.frags[y].start] = NoAlloc]
                         ELSE table[o.x][y]]
<1>1. o.x \in RegionIds
  <2>1. o.x \in Regions
    BY DEF FreePromoted
  <2> QED
    BY <2>1, ObjectRange
<1>2. /\ used' = [used EXCEPT ![o.x] = bits]
      /\ table' = [table EXCEPT ![o.x] = entries]
      /\ Idle /\ Release(a) /\ o.x \in Regions
  BY <1>1 DEF FreePromoted, TypeOK
<1> HIDE DEF o
<1>3. \A y \in PlaneIds : bits[y] \subseteq used[o.x][y]
  BY DEF Cleared, ClearRange
<1>4. entries \in [PlaneIds -> [Offsets -> AllocIds \cup {NoAlloc}]]
  <2>1. \A y \in PlaneIds : table[o.x][y] \in [Offsets -> AllocIds \cup {NoAlloc}]
    BY <1>1 DEF TypeOK
  <2>2. \A y \in PlaneIds : [table[o.x][y] EXCEPT ![o.frags[y].start] = NoAlloc]
                               \in [Offsets -> AllocIds \cup {NoAlloc}]
    BY <2>1
  <2> QED
    BY <2>1, <2>2
<1>5. bits \in [PlaneIds -> SUBSET Offsets]
  <2>1. \A y \in PlaneIds : bits[y] \in SUBSET Offsets
    BY <1>1, <1>3 DEF TypeOK
  <2> QED
    BY <2>1
<1> HIDE DEF bits, entries
<1>6. /\ used' \in [RegionIds -> [PlaneIds -> SUBSET Offsets]]
      /\ \A x \in RegionIds, y \in PlaneIds : used'[x][y] \subseteq used[x][y]
  BY <1>1, <1>2, <1>3, <1>5 DEF TypeOK
<1>7. table' \in [RegionIds -> [PlaneIds -> [Offsets -> AllocIds \cup {NoAlloc}]]]
  BY <1>1, <1>2, <1>4 DEF TypeOK
<1> QED
  BY <1>2, <1>6, <1>7, FreeType DEF o

(* Every step of the full specification keeps the types. *)
LEMMA NextType == TypeInv /\ [Next]_vars => TypeInv'
<1> SUFFICES ASSUME TypeInv, [Next]_vars PROVE TypeInv'
  OBVIOUS
<1>1. ASSUME NEW t \in RegionTypes, NEW size \in Sizes, NEW f \in Flags, Allocate(t, size, f)
      PROVE  TypeInv'
  <2>1. CASE FastPanics(t, size)
    BY <2>1 DEF FastPanics, TypeInv, TypeOK, JobCanHold, CanHold, Blank, Regions, regionVars
  <2> QED
    BY <1>1, <2>1, AllocateFastType, YPromotionBeginType, AllocateNewRegionType DEF Allocate
<1>2. CASE Promotion
  <2>1. CASE YPromotionPanics
    BY <2>1 DEF YPromotionPanics, TypeInv, TypeOK, JobCanHold, CanHold, Blank, Regions, regionVars
  <2> QED
    BY <1>2, <2>1, YPromotionTakeType, YPromotionSkipType, YPromotionCommitType,
       YPromotionRollbackType DEF Promotion
<1>3. CASE UNCHANGED vars
  BY <1>3 DEF vars, TypeInv, TypeOK, JobCanHold, CanHold, Blank, Regions, regionVars
<1> QED
  BY <1>1, <1>2, <1>3, FreeSingleType, FreePromotedType, AddPlaneType, AllocateInRegionType
     DEF Next, NextPlanes, NextVM

(* Type correctness of the whole specification, releases of Y-promoted     *)
(* blocks and uint16 wrap-around included: the counters of allocator.go    *)
(* stay uint64 values, bitmaps stay within their plane.                    *)
THEOREM TypeCorrect == Spec => []TypeOK
<1>1. Init => TypeInv
  BY InitType
<1>2. TypeInv /\ [Next]_vars => TypeInv'
  BY NextType
<1>3. TypeInv => TypeOK
  BY DEF TypeInv
<1> QED
  BY <1>1, <1>2, <1>3, PTL DEF Spec

-----------------------------------------------------------------------------
(* The books: the planes' maps, AllocCount and the LRU list, still for the *)
(* whole specification, overlapping blocks included.                       *)

(* An entry of a plane's map is an allocation in use, found under its own  *)
(* address unless it is one of no bytes, whose address is in no region.    *)
EntriesOwned ==
    \A x \in RegionIds, y \in PlaneIds, z \in Offsets :
        LET a == table[x][y][z]
        IN  a # NoAlloc =>
               /\ a \in held
               /\ objs[a].x # 0 => objs[a].x = x /\ objs[a].y = y /\ objs[a].z = z

(* An allocation's address is where one of its fragments starts: this is   *)
(* how the release of a Y-promoted block comes to its entry.               *)
Addressed ==
    \A a \in held : objs[a].x # 0 =>
        /\ objs[a].frags[objs[a].y].size > 0
        /\ objs[a].frags[objs[a].y].start = objs[a].z

(* The running promotion: its region is registered, and the first fragment *)
(* is there as soon as something was found.                                *)
JobBooked ==
    job.stage = "promote" =>
        /\ job.x \in Regions /\ job.size \in Sizes
        /\ job.first = -1 => job.rem = job.size
        /\ job.first # -1 => job.frags[job.first].size > 0

BookInv == TypeInv /\ EntriesOwned /\ Addressed /\ JobBooked

(* What a step does to the books: nothing but remove entries; enter an     *)
(* allocation in region x; or strike one out.                              *)
EntriesShrink ==
    \A x \in RegionIds, y \in PlaneIds, z \in Offsets :
        table'[x][y][z] = table[x][y][z] \/ table'[x][y][z] = NoAlloc

NothingBooked == EntriesShrink /\ UNCHANGED <<held, objs, allocCount, lru>>

BookedIn(id, x) ==
    LET o == objs'[id]
    IN  /\ id \in AllocIds \ held /\ x \in Regions'
        /\ held' = held \cup {id}
        /\ \A b \in held : objs'[b] = objs[b]
        /\ o.x = 0 \/ (o.x = x /\ o.frags[o.y].size > 0 /\ o.frags[o.y].start = o.z)
        /\ 0 \notin Sizes => o.x = x
        /\ \A w \in RegionIds, y \in PlaneIds, z \in Offsets :
              \/ table'[w][y][z] = table[w][y][z]
              \/ table'[w][y][z] = id /\ w = x /\ y = o.y /\ z = o.z
        /\ allocCount' = [allocCount EXCEPT ![x] = AddU64(@, 1)]
        /\ lru' = Promote(x)

BookedOut(a) ==
    /\ a \in held /\ objs[a].x \in RegionIds
    /\ held' = held \ {a}
    /\ \A b \in held' : objs'[b] = objs[b]
    /\ EntriesShrink
    /\ \A x \in RegionIds, y \in PlaneIds, z \in Offsets : table'[x][y][z] # a
    /\ allocCount' = [allocCount EXCEPT ![objs[a].x] = SubU64(@, 1)]
    /\ lru' = lru

BookStep ==
    \/ NothingBooked
    \/ \E id \in AllocIds, x \in RegionIds : BookedIn(id, x)
    \/ \E a \in AllocIds : BookedOut(a)

LEMMA SameEntries ==
    ASSUME UNCHANGED table
    PROVE  EntriesShrink
BY DEF EntriesShrink

(* FindContiguous answers a position only for a size that is not 0. *)
LEMMA FitPositive ==
    ASSUME NEW u, NEW n, NEW size, FindContiguous(u, n, size) # NoSpace
    PROVE  size \in 1 .. n
BY DEF FindContiguous

LEMMA FitNonEmpty ==
    ASSUME NEW x, NEW y, NEW size \in Nat, Fit(x, y, size) # NoSpace
    PROVE  /\ size # 0
           /\ used[x][y] = {} => Fit(x, y, size) # Panic
           /\ Fit(x, y, size) # Panic => Fit(x, y, size) \in Offsets
<1>1. size \in 1 .. PlaneSize
  BY FitPositive DEF Fit
<1>2. used[x][y] = {} => Fit(x, y, size) = 0
  BY FitEmpty
<1>3. Fit(x, y, size) # Panic => Fit(x, y, size) \in Offsets
  BY FitType
<1>. QED
  BY <1>1, <1>2, <1>3 DEF Panic

LEMMA GrantBooked ==
    ASSUME TypeOK, CanHold, NEW x \in RegionIds, NEW y \in PlaneIds, NEW z \in Offsets,
           NEW size \in Nat \ {0}, NEW flags, NEW np, NEW free0, x \in Regions',
           Grant(x, y, z, size, flags, np, free0)
    PROVE  BookStep
<1>. DEFINE id == FreshID
            o == [x |-> x, y |-> y, z |-> z, size |-> size, flags |-> flags,
                  frags |-> OneRun(y, z, size)]
<1>1. id \in AllocIds \ held
  BY FreshIDIsFree DEF TypeOK
<1>2. /\ held' = held \cup {id} /\ objs' = [objs EXCEPT ![id] = o]
      /\ table' = [table EXCEPT ![x][y][z] = id]
      /\ allocCount' = [allocCount EXCEPT ![x] = AddU64(@, 1)]
      /\ lru' = Promote(x)
  BY DEF Grant
<1>3. /\ o.x = x /\ o.y = y /\ o.z = z
      /\ o.frags[y].size > 0 /\ o.frags[y].start = z
  BY DEF OneRun
<1>. HIDE DEF id, o
<1>4. objs'[id] = o /\ \A b \in held : objs'[b] = objs[b]
  BY <1>1, <1>2 DEF TypeOK
<1>5. \A w \in RegionIds, p \in PlaneIds, i \in Offsets :
         \/ table'[w][p][i] = table[w][p][i]
         \/ table'[w][p][i] = id /\ w = x /\ p = y /\ i = z
  BY <1>2 DEF TypeOK
<1>6. BookedIn(id, x)
  BY <1>1, <1>2, <1>3, <1>4, <1>5 DEF BookedIn
<1>. QED
  BY <1>1, <1>6 DEF BookStep

LEMMA CommitBooked ==
    ASSUME BookInv, YPromotionCommit
    PROVE  BookStep
<1>. DEFINE id == FreshID
            y  == IF job.first = -1 THEN 0 ELSE job.first
            z  == job.frags[y].start
            o  == [x |-> IF job.first = -1 THEN 0 ELSE job.x, y |-> y, z |-> z,
                   size |-> job.size, flags |-> job.flags,
                   frags |-> job.frags]
<1>0. TypeOK /\ CanHold
  BY DEF BookInv, TypeInv, JobCanHold, YPromotionCommit
<1>1. id \in AllocIds \ held
  BY <1>0, FreshIDIsFree DEF TypeOK
<1>2. /\ held' = held \cup {id} /\ objs' = [objs EXCEPT ![id] = o]
      /\ table' = [table EXCEPT ![job.x][y][z] = id]
      /\ allocCount' = [allocCount EXCEPT ![job.x] = AddU64(@, 1)]
      /\ lru' = Promote(job.x)
      /\ job.stage = "promote" /\ job.rem = 0 /\ nextRegionID' = nextRegionID
  BY DEF YPromotionCommit
<1>3. /\ job.x \in RegionIds /\ job.first \in {-1} \cup PlaneIds
      /\ job.frags \in [PlaneIds -> Fragment]
  BY <1>0 DEF TypeOK, Job
<1>4. y \in PlaneIds /\ z \in Offsets
  BY <1>3, ConstantRange DEF Fragment
<1>5. /\ job.x \in Regions' /\ job.size \in Sizes
      /\ job.first = -1 => job.size = 0
      /\ job.first # -1 => job.frags[job.first].size > 0
  BY <1>2 DEF BookInv, JobBooked, Regions
<1>6. /\ o.y = y /\ o.z = z
      /\ o.x = 0 \/ (o.x = job.x /\ o.frags[y].size > 0 /\ o.frags[y].start = z)
      /\ 0 \notin Sizes => o.x = job.x
  BY <1>5
<1>. HIDE DEF id, y, z, o
<1>7. objs'[id] = o /\ \A b \in held : objs'[b] = objs[b]
  BY <1>0, <1>1, <1>2 DEF TypeOK
<1>8. \A w \in RegionIds, p \in PlaneIds, i \in Offsets :
         \/ table'[w][p][i] = table[w][p][i]
         \/ table'[w][p][i] = id /\ w = job.x /\ p = y /\ i = z
  BY <1>0, <1>2, <1>3, <1>4 DEF TypeOK
<1>9. BookedIn(id, job.x)
  BY <1>1, <1>2, <1>5, <1>6, <1>7, <1>8 DEF BookedIn
<1>. QED
  BY <1>1, <1>3, <1>9 DEF BookStep

(* Free strikes the entry out, whosever entry is at the address. *)
LEMMA FreeBooked ==
    ASSUME BookInv, NEW a \in held, FreeSingle(a) \/ FreePromoted(a)
    PROVE  BookStep
<1>. DEFINE o == objs[a]
            Found(y) == o.frags[y].size > 0 /\ table[o.x][y][o.frags[y].start] # NoAlloc
            entries == [y \in PlaneIds |->
                          IF Found(y)
                          THEN [table[o.x][y] EXCEPT ![o.frags[y].start] = NoAlloc]
                          ELSE table[o.x][y]]
<1>0. TypeOK
  BY DEF BookInv, TypeInv
<1>1. o.x \in Regions /\ Release(a)
  BY DEF FreeSingle, FreePromoted
<1>2. /\ a \in AllocIds /\ o.x \in RegionIds /\ o.x # 0 /\ o.y \in PlaneIds /\ o.z \in Offsets
      /\ o.frags \in [PlaneIds -> Fragment]
  <2>1. a \in AllocIds /\ o.x \in RegionIds /\ o.y \in PlaneIds /\ o.z \in Offsets
    BY <1>0, <1>1, ObjectRange
  <2>2. o \in Allocation
    BY <1>0, <2>1 DEF TypeOK
  <2>. QED
    BY <2>1, <2>2, AllocatorAssumption DEF Allocation, RegionIds
<1>3. /\ held' = held \ {a} /\ lru' = lru
      /\ allocCount' = [allocCount EXCEPT ![o.x] = SubU64(@, 1)]
      /\ \A b \in held' : objs'[b] = objs[b]
  BY <1>0, <1>1 DEF Release, TypeOK
<1>4. o.frags[o.y].size > 0 /\ o.frags[o.y].start = o.z
  BY <1>2 DEF BookInv, Addressed
<1>5. \A x \in RegionIds, y \in PlaneIds, z \in Offsets :
         table[x][y][z] = a => x = o.x /\ y = o.y /\ z = o.z
  <2>1. a # NoAlloc
    BY <1>2, AllocatorAssumption DEF AllocIds, NoAlloc
  <2>. QED
    BY <1>2, <2>1 DEF BookInv, EntriesOwned
<1>6. table \in [RegionIds -> [PlaneIds -> [Offsets -> AllocIds \cup {NoAlloc}]]]
  BY <1>0 DEF TypeOK
<1>7. EntriesShrink /\ table'[o.x][o.y][o.z] = NoAlloc
  <2>1. CASE FreeSingle(a)
    <3>1. table' = [table EXCEPT ![o.x][o.y][o.z] = NoAlloc]
      BY <2>1 DEF FreeSingle
    <3>. HIDE DEF o
    <3>. QED
      BY <1>2, <1>6, <3>1 DEF EntriesShrink
  <2>2. CASE FreePromoted(a)
    <3>1. table' = [table EXCEPT ![o.x] = entries]
      BY <1>2, <1>6, <2>2 DEF FreePromoted
    <3>2. \A y \in PlaneIds : o.frags[y].start \in Offsets
      BY <1>2 DEF Fragment
    <3>. HIDE DEF o
    <3>3. \A y \in PlaneIds, z \in Offsets :
             entries[y][z] = table[o.x][y][z] \/ entries[y][z] = NoAlloc
      BY <1>2, <1>6, <3>2
    <3>4. entries[o.y][o.z] = NoAlloc
      BY <1>2, <1>4, <1>6, <3>2
    <3>. HIDE DEF entries
    <3>. QED
      BY <1>2, <1>6, <3>1, <3>3, <3>4 DEF EntriesShrink
  <2>. QED
    BY <2>1, <2>2
<1>8. \A x \in RegionIds, y \in PlaneIds, z \in Offsets : table'[x][y][z] # a
  <2>1. a # NoAlloc
    BY <1>2, AllocatorAssumption DEF AllocIds, NoAlloc
  <2>. HIDE DEF o
  <2>. QED
    BY <1>5, <1>7, <2>1 DEF EntriesShrink
<1>. QED
  BY <1>2, <1>3, <1>7, <1>8 DEF BookStep, BookedOut

LEMMA RollbackBooked ==
    ASSUME BookInv, YPromotionRollback
    PROVE  NothingBooked
<1>. DEFINE F(y) == job.frags[y]
            entries == [y \in PlaneIds |->
                          IF F(y).size > 0
                          THEN [table[job.x][y] EXCEPT ![F(y).start] = NoAlloc]
                          ELSE table[job.x][y]]
<1>1. job.x \in RegionIds /\ job.frags \in [PlaneIds -> Fragment]
      /\ table \in [RegionIds -> [PlaneIds -> [Offsets -> AllocIds \cup {NoAlloc}]]]
  BY DEF BookInv, TypeInv, TypeOK, Job
<1>2. table' = [table EXCEPT ![job.x] = entries]
  BY <1>1 DEF YPromotionRollback
<1>3. \A y \in PlaneIds : F(y).start \in Offsets
  BY <1>1 DEF Fragment
<1>4. \A y \in PlaneIds, z \in Offsets :
         entries[y][z] = table[job.x][y][z] \/ entries[y][z] = NoAlloc
  BY <1>1, <1>3
<1>. HIDE DEF entries
<1>5. EntriesShrink
  BY <1>1, <1>2, <1>4 DEF EntriesShrink
<1>. QED
  BY <1>5 DEF NothingBooked, YPromotionRollback

(* Every action books in one of these ways. *)
LEMMA StepBooked ==
    ASSUME BookInv, [Next]_vars
    PROVE  BookStep
<1>0. TypeOK /\ TypeInv /\ JobCanHold
  BY DEF BookInv, TypeInv
<1>1. ASSUME NEW t \in RegionTypes, NEW size \in Sizes, NEW f \in Flags, Allocate(t, size, f)
      PROVE  BookStep
  <2>1. CASE AllocateFast(t, size, f)
    <3>1. PICK i \in DOMAIN lru, y \in PlaneIds :
             /\ FirstHit(i, y, t, size)
             /\ Fit(lru[i], y, size) # Panic
             /\ Grant(lru[i], y, Fit(lru[i], y, size), size, 0,
                      nplanes, freeBytes[lru[i]])
      BY <2>1 DEF AllocateFast
    <3>2. lru[i] \in RegionIds /\ size \in Nat
      BY <1>0, AllocatorAssumption DEF TypeOK
    <3>3. Fit(lru[i], y, size) # NoSpace /\ y < nplanes[lru[i]]
      BY <3>1 DEF FirstHit, FastHit
    <3>4. size # 0 /\ Fit(lru[i], y, size) \in Offsets
      BY <3>1, <3>2, <3>3, FitNonEmpty
    <3>5. lru[i] \in Regions
      BY <1>0, <3>2, <3>3, AllocatorAssumption DEF TypeInv, Blank, TypeOK, PlaneIds
    <3>6. Regions' = Regions /\ CanHold
      BY <2>1 DEF AllocateFast, Regions
    <3>. QED
      BY <1>0, <3>1, <3>2, <3>4, <3>5, <3>6, GrantBooked
  <2>2. CASE FastPanics(t, size)
    BY <2>2, SameEntries DEF FastPanics, BookStep, NothingBooked, regionVars
  <2>3. CASE YPromotionBegin(t, size, f)
    BY <2>3, SameEntries DEF YPromotionBegin, BookStep, NothingBooked, regionVars
  <2>4. CASE AllocateNewRegion(t, size, f)
    <3>. DEFINE x == nextRegionID + 1
    <3>1. CanHold /\ x \in RegionIds /\ x \in Regions' /\ 0 \in PlaneIds /\ size \in Nat
      <4>1. CanHold
        BY <2>4, <1>0 DEF AllocateNewRegion, Missed, JobCanHold
      <4>2. x \in RegionIds /\ nextRegionID' = x
        BY <2>4 DEF AllocateNewRegion
      <4>3. x \in Regions'
        BY <4>2 DEF Regions, RegionIds
      <4>. QED
        BY <4>1, <4>2, <4>3, ConstantRange, AllocatorAssumption
    <3>2. CASE /\ Fits(x, 0, size)
               /\ Grant(x, 0, Fit(x, 0, size), size, f, [nplanes EXCEPT ![x] = 1], PlaneSize)
      <4>1. used[x][0] = {}
        <5>1. x \notin Regions /\ nplanes[x] \in Nat
          BY <1>0, <3>1 DEF TypeOK, Regions
        <5>2. nplanes[x] = 0
          BY <1>0, <3>1, <5>1 DEF TypeInv, Blank
        <5>. QED
          BY <1>0, <3>1, <5>2 DEF TypeInv, Blank
      <4>2. size # 0 /\ Fit(x, 0, size) # Panic
        BY <3>1, <3>2, <4>1, FitNonEmpty DEF Fits
      <4>3. Fit(x, 0, size) \in Offsets
        BY <3>1, <3>2, <4>2, FitNonEmpty DEF Fits
      <4>. QED
        BY <1>0, <3>1, <3>2, <4>2, <4>3, GrantBooked
    <3>3. CASE UNCHANGED <<allocCount, used, table, lru, held, objs>>
      BY <3>3, SameEntries DEF BookStep, NothingBooked
    <3>. QED
      BY <2>4, <3>2, <3>3 DEF AllocateNewRegion
  <2>. QED
    BY <1>1, <2>1, <2>2, <2>3, <2>4 DEF Allocate
<1>2. CASE Promotion
  <2>1. CASE YPromotionTake \/ YPromotionSkip \/ YPromotionPanics
    BY <2>1, SameEntries DEF YPromotionTake, YPromotionSkip, YPromotionPanics, BookStep,
                             NothingBooked, regionVars
  <2>. QED
    BY <1>2, <2>1, CommitBooked, RollbackBooked DEF Promotion, BookStep
<1>3. ASSUME NEW x \in RegionIds, AddPlane(x)
      PROVE  BookStep
  BY <1>3, SameEntries DEF AddPlane, BookStep, NothingBooked
<1>4. ASSUME NEW x \in RegionIds, NEW size \in Sizes, NEW f \in Flags,
             AllocateInRegion(x, size, f)
      PROVE  BookStep
  <2>1. CanHold /\ x \in Regions' /\ size \in Nat
    BY <1>4, AllocatorAssumption DEF AllocateInRegion, Regions
  <2>2. ASSUME NEW y \in PlaneIds, NEW np, NEW fb, Fits(x, y, size), Fit(x, y, size) # Panic,
               Grant(x, y, Fit(x, y, size), size, f, np, fb)
        PROVE  BookStep
    <3>1. size # 0 /\ Fit(x, y, size) \in Offsets
      BY <2>1, <2>2, FitNonEmpty DEF Fits
    <3>. QED
      BY <1>0, <2>1, <2>2, <3>1, GrantBooked
  <2>3. CASE UNCHANGED <<allocCount, used, table, lru, held, objs>>
    BY <2>3, SameEntries DEF BookStep, NothingBooked
  <2>4. CASE \E y \in PlaneIds :
                /\ InRegionHit(x, y, size) /\ Fit(x, y, size) # Panic
                /\ Grant(x, y, Fit(x, y, size), size, f, nplanes, freeBytes[x])
    BY <2>2, <2>4 DEF InRegionHit
  <2>5. CASE /\ nplanes[x] < MaxPlanes /\ Fits(x, nplanes[x], size)
             /\ Grant(x, nplanes[x], Fit(x, nplanes[x], size), size, f,
                      [nplanes EXCEPT ![x] = @ + 1], AddU64(freeBytes[x], PlaneSize))
    <3>. DEFINE y == nplanes[x]
    <3>1. y \in PlaneIds
      BY <1>0, <2>5, AllocatorAssumption DEF TypeOK, PlaneIds
    <3>2. used[x][y] = {}
      BY <1>0, <3>1, AllocatorAssumption DEF TypeInv, Blank, PlaneIds
    <3>3. Fit(x, y, size) # Panic
      BY <2>1, <2>5, <3>2, FitNonEmpty DEF Fits
    <3>. QED
      BY <2>2, <2>5, <3>1, <3>3
  <2>. QED
    BY <1>4, <2>3, <2>4, <2>5 DEF AllocateInRegion
<1>5. CASE UNCHANGED vars
  BY <1>5, SameEntries DEF vars, regionVars, BookStep, NothingBooked
<1>. QED
  BY <1>1, <1>2, <1>3, <1>4, <1>5, FreeBooked DEF Next, NextPlanes, NextVM

LEMMA BooksKept ==
    ASSUME BookInv, BookStep
    PROVE  EntriesOwned' /\ Addressed'
<1>0. TypeOK /\ EntriesOwned /\ Addressed
  BY DEF BookInv, TypeInv
<1>1. CASE NothingBooked
  <2>1. EntriesOwned'
    BY <1>0, <1>1 DEF NothingBooked, EntriesShrink, EntriesOwned
  <2>2. Addressed'
    BY <1>0, <1>1 DEF NothingBooked, Addressed
  <2>. QED
    BY <2>1, <2>2
<1>2. ASSUME NEW id \in AllocIds, NEW x \in RegionIds, BookedIn(id, x)
      PROVE  EntriesOwned' /\ Addressed'
  <2>1. id \notin held /\ held' = held \cup {id} /\ \A b \in held : objs'[b] = objs[b]
    BY <1>2 DEF BookedIn
  <2>2. EntriesOwned'
    <3>. SUFFICES ASSUME NEW w \in RegionIds, NEW y \in PlaneIds, NEW z \in Offsets,
                         table'[w][y][z] # NoAlloc
                  PROVE  LET a == table'[w][y][z]
                         IN  /\ a \in held'
                             /\ objs'[a].x # 0 =>
                                   objs'[a].x = w /\ objs'[a].y = y /\ objs'[a].z = z
      BY DEF EntriesOwned
    <3>1. CASE table'[w][y][z] = table[w][y][z]
      BY <1>0, <2>1, <3>1 DEF EntriesOwned
    <3>2. CASE /\ table'[w][y][z] = id /\ w = x /\ y = objs'[id].y /\ z = objs'[id].z
      BY <1>2, <2>1, <3>2 DEF BookedIn
    <3>. QED
      BY <1>2, <3>1, <3>2 DEF BookedIn
  <2>3. Addressed'
    BY <1>0, <1>2, <2>1 DEF BookedIn, Addressed
  <2>. QED
    BY <2>2, <2>3
<1>3. ASSUME NEW a \in AllocIds, BookedOut(a)
      PROVE  EntriesOwned' /\ Addressed'
  <2>1. /\ held' = held \ {a} /\ \A b \in held' : objs'[b] = objs[b]
        /\ EntriesShrink
        /\ \A x \in RegionIds, y \in PlaneIds, z \in Offsets : table'[x][y][z] # a
    BY <1>3 DEF BookedOut
  <2>2. EntriesOwned'
    BY <1>0, <2>1 DEF EntriesOwned, EntriesShrink
  <2>3. Addressed'
    BY <1>0, <2>1 DEF Addressed
  <2>. QED
    BY <2>2, <2>3
<1>. QED
  BY <1>1, <1>2, <1>3 DEF BookStep

LEMMA JobKept ==
    ASSUME BookInv, TypeInv', [Next]_vars
    PROVE  JobBooked'
<1>0. TypeOK /\ TypeInv /\ job \in Job /\ JobBooked
  BY DEF BookInv, TypeInv, TypeOK
<1>1. ASSUME UNCHANGED <<nextRegionID, job>>
      PROVE  JobBooked'
  BY <1>0, <1>1 DEF JobBooked, Regions
<1>2. ASSUME job' = NoJob
      PROVE  JobBooked'
  BY <1>2 DEF NoJob, JobBooked
<1>3. ASSUME NEW t \in RegionTypes, NEW size \in Sizes, NEW f \in Flags, Allocate(t, size, f)
      PROVE  JobBooked'
  <2>1. CASE AllocateFast(t, size, f) \/ FastPanics(t, size)
    BY <1>1, <2>1 DEF AllocateFast, FastPanics
  <2>2. CASE AllocateNewRegion(t, size, f)
    BY <1>2, <2>2 DEF AllocateNewRegion
  <2>3. CASE YPromotionBegin(t, size, f)
    <3>1. PICK x \in BestRegions(t, size) :
             job' = [stage |-> "promote", rt |-> t, size |-> size, flags |-> f,
                     x |-> x, rem |-> size, next |-> 0, first |-> -1,
                     frags |-> [p \in PlaneIds |-> NoFragment]]
      BY <2>3 DEF YPromotionBegin
    <3>2. x \in Regions /\ Regions' = Regions
      BY <2>3 DEF BestRegions, Candidates, YPromotionBegin, Regions
    <3>. QED
      BY <3>1, <3>2 DEF JobBooked
  <2>. QED
    BY <1>3, <2>1, <2>2, <2>3 DEF Allocate
<1>4. CASE Promotion
  <2>1. CASE YPromotionTake
    <3>. DEFINE z == Fit(job.x, job.next, WantedHere)
    <3>1. /\ job.x \in RegionIds /\ job.next \in PlaneIds /\ WantedHere \in Nat
          /\ job.frags \in [PlaneIds -> Fragment] /\ job.first \in {-1} \cup PlaneIds
      BY <1>0, <2>1, InLoopType, AllocatorAssumption DEF YPromotionTake, Job
    <3>2. z # NoSpace /\ job.stage = "promote" /\ Regions' = Regions
          /\ job' = [job EXCEPT
                 !.rem = @ - WantedHere,
                 !.next = @ + 1,
                 !.first = IF @ = -1 THEN job.next ELSE @,
                 !.frags[job.next] = [start |-> z, size |-> WantedHere]]
      BY <2>1 DEF YPromotionTake, InLoop, Regions
    <3>3. WantedHere # 0
      BY <3>1, <3>2, FitNonEmpty
    <3>. HIDE DEF z
    <3>4. /\ job'.x = job.x /\ job'.size = job.size
          /\ job'.first = IF job.first = -1 THEN job.next ELSE job.first
          /\ job'.frags = [job.frags EXCEPT ![job.next] = [start |-> z, size |-> WantedHere]]
      BY <1>0, <3>2 DEF Job
    <3>5. job'.first # -1 /\ job'.first \in PlaneIds
      BY <3>1, <3>4 DEF PlaneIds
    <3>6. job'.frags[job.next].size > 0
      BY <3>1, <3>3, <3>4
    <3>7. job'.frags[job'.first].size > 0
      <4>1. CASE job'.first = job.next
        BY <3>6, <4>1
      <4>2. CASE job'.first # job.next
        BY <1>0, <3>1, <3>2, <3>4, <4>2 DEF JobBooked
      <4>. QED
        BY <4>1, <4>2
    <3>. QED
      BY <1>0, <3>2, <3>4, <3>5, <3>7 DEF JobBooked
  <2>2. CASE YPromotionSkip
    <3>1. /\ job'.stage = job.stage /\ job'.x = job.x /\ job'.size = job.size
          /\ job'.rem = job.rem /\ job'.first = job.first /\ job'.frags = job.frags
          /\ Regions' = Regions
      BY <1>0, <2>2 DEF YPromotionSkip, Job, Regions
    <3>. QED
      BY <1>0, <3>1 DEF JobBooked
  <2>3. CASE YPromotionPanics
    BY <1>1, <2>3 DEF YPromotionPanics
  <2>4. CASE YPromotionCommit
    BY <1>2, <2>4 DEF YPromotionCommit
  <2>5. CASE YPromotionRollback
    <3>1. job'.stage = "newregion"
      BY <1>0, <2>5 DEF YPromotionRollback, Job
    <3>. QED
      BY <3>1 DEF JobBooked
  <2>. QED
    BY <1>4, <2>1, <2>2, <2>3, <2>4, <2>5 DEF Promotion
<1>5. ASSUME NEW a \in held, FreeSingle(a) \/ FreePromoted(a)
      PROVE  JobBooked'
  BY <1>1, <1>5 DEF FreeSingle, FreePromoted, Release
<1>6. ASSUME NEW x \in RegionIds, AddPlane(x)
      PROVE  JobBooked'
  BY <1>1, <1>6 DEF AddPlane
<1>7. ASSUME NEW x \in RegionIds, NEW size \in Sizes, NEW f \in Flags,
             AllocateInRegion(x, size, f)
      PROVE  JobBooked'
  BY <1>1, <1>7 DEF AllocateInRegion
<1>8. CASE UNCHANGED vars
  BY <1>1, <1>8 DEF vars
<1>. QED
  BY <1>3, <1>4, <1>5, <1>6, <1>7, <1>8 DEF Next, NextPlanes, NextVM

LEMMA BookInit == Init => BookInv
<1>. SUFFICES ASSUME Init
              PROVE  BookInv
  OBVIOUS
<1>1. TypeInv
  BY InitType
<1>2. EntriesOwned /\ Addressed
  BY DEF Init, EntriesOwned, Addressed
<1>3. JobBooked
  BY DEF Init, NoJob, JobBooked
<1>. QED
  BY <1>1, <1>2, <1>3 DEF BookInv

LEMMA BookNext == BookInv /\ [Next]_vars => BookInv' /\ BookStep
<1>. SUFFICES ASSUME BookInv, [Next]_vars
              PROVE  BookInv' /\ BookStep
  OBVIOUS
<1>1. TypeInv'
  BY NextType DEF BookInv
<1>2. BookStep
  BY StepBooked
<1>. QED
  BY <1>1, <1>2, BooksKept, JobKept DEF BookInv

(* No entry of a plane's map outlives its allocation, on any path of       *)
(* allocator.go: with uint16 positions that wrap, with empty requests,     *)
(* with blocks that overlap and with the releases of Y-promoted blocks     *)
(* that clear the bits of others.                                          *)
THEOREM EntriesAreTracked == Spec => []HandlesTracked
<1>1. BookInv => HandlesTracked
  BY DEF BookInv, EntriesOwned, HandlesTracked
<1>. QED
  BY <1>1, BookInit, BookNext, PTL DEF Spec

-----------------------------------------------------------------------------
(* AllocCount. A request of no bytes is counted in a region that its       *)
(* address does not name, so there must be none.                           *)

InUse(x) == {a \in held : objs[a].x = x}

LEMMA IdsFinite ==
    ASSUME NEW S \in SUBSET AllocIds
    PROVE  IsFiniteSet(S) /\ Cardinality(S) \in 0 .. MaxAllocs
<1>1. MaxAllocs \in Nat
  BY AllocatorAssumption
<1>2. IsFiniteSet(AllocIds) /\ Cardinality(AllocIds) = MaxAllocs
  BY <1>1, FS_Interval DEF AllocIds
<1>3. IsFiniteSet(S) /\ Cardinality(S) <= MaxAllocs
  BY <1>2, FS_Subset
<1>4. Cardinality(S) \in Nat
  BY <1>3, FS_CardinalityType
<1>. QED
  BY <1>1, <1>3, <1>4

LEMMA CountKept ==
    ASSUME 0 \notin Sizes, TypeOK, TypeOK', AllocCountExact, BookStep
    PROVE  AllocCountExact'
<1>0. /\ held \subseteq AllocIds /\ held' \subseteq AllocIds
      /\ allocCount \in [RegionIds -> 0 .. (U64 - 1)]
      /\ \A x \in RegionIds : allocCount[x] = Cardinality(InUse(x))
  BY DEF TypeOK, AllocCountExact, InUse
<1>1. SUFFICES ASSUME NEW w \in RegionIds
               PROVE  allocCount'[w] = Cardinality(InUse(w)')
  BY DEF AllocCountExact, InUse
<1>2. IsFiniteSet(InUse(w)) /\ Cardinality(InUse(w)) \in 0 .. MaxAllocs
  <2>1. InUse(w) \in SUBSET AllocIds
    BY <1>0 DEF InUse
  <2>. QED
    BY <2>1, IdsFinite
<1>3. MaxAllocs \in Nat /\ U64 \in Nat /\ MaxAllocs < U64
  BY AllocatorAssumption
<1>4. CASE NothingBooked
  BY <1>0, <1>4 DEF NothingBooked, InUse
<1>5. ASSUME NEW id \in AllocIds, NEW x \in RegionIds, BookedIn(id, x)
      PROVE  allocCount'[w] = Cardinality(InUse(w)')
  <2>1. /\ id \notin held /\ held' = held \cup {id} /\ objs'[id].x = x
        /\ \A b \in held : objs'[b] = objs[b]
        /\ allocCount' = [allocCount EXCEPT ![x] = AddU64(@, 1)]
    BY <1>5 DEF BookedIn
  <2>2. CASE w = x
    <3>1. InUse(w)' = InUse(w) \cup {id} /\ id \notin InUse(w)
      BY <2>1, <2>2 DEF InUse
    <3>2. Cardinality(InUse(w)') = Cardinality(InUse(w)) + 1
      BY <1>2, <3>1, FS_AddElement
    <3>3. Cardinality(InUse(w)) + 1 <= MaxAllocs
      <4>1. InUse(w)' \in SUBSET AllocIds
        BY <1>0 DEF InUse
      <4>2. Cardinality(InUse(w)') \in 0 .. MaxAllocs
        BY <4>1, IdsFinite
      <4>. QED
        BY <1>2, <1>3, <3>2, <4>2
    <3>4. allocCount'[w] = AddU64(Cardinality(InUse(w)), 1)
      BY <1>0, <2>1, <2>2
    <3>. QED
      BY <1>2, <1>3, <3>2, <3>3, <3>4 DEF AddU64
  <2>3. CASE w # x
    <3>1. InUse(w)' = InUse(w)
      BY <2>1, <2>3 DEF InUse
    <3>. QED
      BY <1>0, <2>1, <2>3, <3>1
  <2>. QED
    BY <2>2, <2>3
<1>6. ASSUME NEW a \in AllocIds, BookedOut(a)
      PROVE  allocCount'[w] = Cardinality(InUse(w)')
  <2>1. /\ a \in held /\ objs[a].x \in RegionIds /\ held' = held \ {a}
        /\ \A b \in held' : objs'[b] = objs[b]
        /\ allocCount' = [allocCount EXCEPT ![objs[a].x] = SubU64(@, 1)]
    BY <1>6 DEF BookedOut
  <2>2. CASE w = objs[a].x
    <3>1. InUse(w)' = InUse(w) \ {a} /\ a \in InUse(w)
      BY <2>1, <2>2 DEF InUse
    <3>2. Cardinality(InUse(w)') = Cardinality(InUse(w)) - 1 /\ Cardinality(InUse(w)) # 0
      BY <1>2, <3>1, FS_RemoveElement, FS_EmptySet
    <3>3. allocCount'[w] = SubU64(Cardinality(InUse(w)), 1)
      BY <1>0, <2>1, <2>2
    <3>. QED
      BY <1>2, <3>2, <3>3 DEF SubU64
  <2>3. CASE w # objs[a].x
    <3>1. InUse(w)' = InUse(w)
      BY <2>1, <2>3 DEF InUse
    <3>. QED
      BY <1>0, <2>1, <2>3, <3>1
  <2>. QED
    BY <2>2, <2>3
<1>. QED
  BY <1>4, <1>5, <1>6 DEF BookStep

LEMMA CountInit == Init => AllocCountExact
<1>. SUFFICES ASSUME Init, NEW x \in RegionIds
              PROVE  allocCount[x] = Cardinality({a \in held : objs[a].x = x})
  BY DEF AllocCountExact
<1>1. {a \in held : objs[a].x = x} = {}
  BY DEF Init
<1>. QED
  BY <1>1, FS_EmptySet DEF Init

LEMMA CountInvariant ==
    ASSUME 0 \notin Sizes
    PROVE  Spec => [](BookInv /\ AllocCountExact)
<1>1. BookInv /\ AllocCountExact /\ [Next]_vars => (BookInv /\ AllocCountExact)'
  <2>. SUFFICES ASSUME BookInv, AllocCountExact, [Next]_vars
                PROVE  BookInv' /\ AllocCountExact'
    OBVIOUS
  <2>1. BookInv' /\ BookStep
    BY BookNext
  <2>2. TypeOK /\ TypeOK'
    BY <2>1 DEF BookInv, TypeInv
  <2>. QED
    BY <2>1, <2>2, CountKept
<1>. QED
  BY <1>1, BookInit, CountInit, PTL DEF Spec

(* Region.AllocCount is the number of allocations in use in the region,    *)
(* and the subtraction in freeSync never goes below zero.                  *)
THEOREM CountsAreExact ==
    ASSUME 0 \notin Sizes
    PROVE  Spec => []AllocCountExact
BY CountInvariant, PTL

-----------------------------------------------------------------------------
(* The LRU list. *)

Listed(s) == {s[i] : i \in 1 .. Len(s)}

Distinct(s) == \A i, j \in 1 .. Len(s) : s[i] = s[j] => i = j

LEMMA RemoveFirstIs ==
    ASSUME NEW S, NEW s \in Seq(S), Distinct(s), NEW x
    PROVE  LET r == RemoveFirst(s, x)
           IN  /\ r \in Seq(S) /\ Distinct(r)
               /\ Listed(r) = Listed(s) \ {x}
               /\ Len(r) = IF x \in Listed(s) THEN Len(s) - 1 ELSE Len(s)
<1>1. CASE ~ \E i \in 1 .. Len(s) : s[i] = x
  <2>1. RemoveFirst(s, x) = s
    BY <1>1, Zenon DEF RemoveFirst
  <2>. QED
    BY <1>1, <2>1 DEF Listed
<1>2. CASE \E i \in 1 .. Len(s) : s[i] = x
  <2>. DEFINE I == {i \in 1 .. Len(s) : s[i] = x}
              k == Min(I)
              r == SubSeq(s, 1, k - 1) \o SubSeq(s, k + 1, Len(s))
  <2>1. k \in 1 .. Len(s) /\ s[k] = x
    <3>1. I \in SUBSET Nat /\ I # {}
      BY <1>2
    <3>2. Min(I) \in I
      BY <3>1, MinOfNat
    <3>. QED
      BY <3>2
  <2>2. RemoveFirst(s, x) = r
    <3>1. RemoveFirst(s, x) = RemoveAt(s, k)
      <4>1. I # {}
        BY <1>2
      <4>. QED
        BY <1>2, <4>1, Zenon DEF RemoveFirst, SelectInSeq
    <3>. QED
      BY <3>1 DEF RemoveAt
  <2>. HIDE DEF k
  <2>3. /\ r \in Seq(S) /\ Len(r) = Len(s) - 1
        /\ \A j \in 1 .. (Len(s) - 1) : r[j] = IF j < k THEN s[j] ELSE s[j + 1]
    <3>0. Len(s) \in Nat /\ k \in Int /\ 1 <= k /\ k <= Len(s)
      BY <2>1
    <3>. DEFINE u == SubSeq(s, 1, k - 1)
                v == SubSeq(s, k + 1, Len(s))
    <3>1. /\ u \in Seq(S) /\ Len(u) = k - 1
          /\ \A j \in 1 .. (k - 1) : u[j] = s[j]
      <4>1. \A j \in 1 .. (k - 1) : s[j] \in S
        BY <3>0
      <4>2. 1 \in Int /\ k - 1 \in Int
        BY <3>0
      <4>3. /\ u \in Seq(S) /\ Len(u) = (IF 1 <= k - 1 THEN k - 1 - 1 + 1 ELSE 0)
            /\ \A j \in 1 .. (k - 1 - 1 + 1) : u[j] = s[1 + j - 1]
        BY <4>1, <4>2, SubSeqProperties
      <4>. HIDE DEF u
      <4>. QED
        BY <3>0, <4>3
    <3>2. /\ v \in Seq(S) /\ Len(v) = Len(s) - k
          /\ \A j \in 1 .. (Len(s) - k) : v[j] = s[k + j]
      <4>1. \A j \in (k + 1) .. Len(s) : s[j] \in S
        BY <3>0
      <4>2. k + 1 \in Int /\ Len(s) \in Int
        BY <3>0
      <4>3. /\ v \in Seq(S) /\ Len(v) = (IF k + 1 <= Len(s) THEN Len(s) - (k + 1) + 1 ELSE 0)
            /\ \A j \in 1 .. (Len(s) - (k + 1) + 1) : v[j] = s[k + 1 + j - 1]
        BY <4>1, <4>2, SubSeqProperties
      <4>. HIDE DEF v
      <4>. QED
        BY <3>0, <4>3
    <3>. HIDE DEF u, v
    <3>3. /\ r \in Seq(S) /\ Len(r) = Len(u) + Len(v)
          /\ \A j \in 1 .. (Len(u) + Len(v)) :
                r[j] = IF j <= Len(u) THEN u[j] ELSE v[j - Len(u)]
      <4>1. r = u \o v
        BY DEF u, v
      <4>. HIDE DEF r
      <4>. QED
        BY <3>1, <3>2, <4>1, ConcatProperties
    <3>. HIDE DEF r
    <3>4. Len(r) = Len(s) - 1
      BY <3>0, <3>1, <3>2, <3>3
    <3>5. ASSUME NEW j \in 1 .. (Len(s) - 1)
          PROVE  r[j] = IF j < k THEN s[j] ELSE s[j + 1]
      <4>1. r[j] = IF j <= k - 1 THEN u[j] ELSE v[j - (k - 1)]
        BY <3>0, <3>1, <3>2, <3>3
      <4>2. CASE j < k
        BY <3>0, <3>1, <4>1, <4>2
      <4>3. CASE ~ (j < k)
        <5>1. j - (k - 1) \in 1 .. (Len(s) - k) /\ k + (j - (k - 1)) = j + 1
          BY <3>0, <4>3
        <5>2. v[j - (k - 1)] = s[j + 1]
          BY <3>2, <5>1
        <5>. QED
          BY <3>0, <4>1, <4>3, <5>2
      <4>. QED
        BY <4>2, <4>3
    <3>. QED
      BY <3>3, <3>4, <3>5
  <2>. HIDE DEF r
  <2>4. Distinct(r)
    <3>. SUFFICES ASSUME NEW i \in 1 .. Len(r), NEW j \in 1 .. Len(r), r[i] = r[j]
                  PROVE  i = j
      BY DEF Distinct
    <3>1. Len(s) \in Nat /\ k \in Int
      BY <2>1
    <3>. DEFINE at(n) == IF n < k THEN n ELSE n + 1
    <3>2. at(i) \in 1 .. Len(s) /\ at(j) \in 1 .. Len(s) /\ s[at(i)] = s[at(j)]
      BY <2>3, <3>1
    <3>3. at(i) = at(j)
      BY <3>2 DEF Distinct
    <3>. QED
      BY <2>3, <3>1, <3>3
  <2>5. Listed(r) = Listed(s) \ {x}
    <3>1. ASSUME NEW j \in 1 .. Len(r)
          PROVE  r[j] \in Listed(s) /\ r[j] # x
      <4>. DEFINE n == IF j < k THEN j ELSE j + 1
      <4>1. n \in 1 .. Len(s) /\ n # k /\ r[j] = s[n]
        BY <2>1, <2>3
      <4>. HIDE DEF n
      <4>. QED
        BY <2>1, <4>1 DEF Listed, Distinct
    <3>2. ASSUME NEW n \in 1 .. Len(s), s[n] # x
          PROVE  s[n] \in Listed(r)
      <4>. DEFINE j == IF n < k THEN n ELSE n - 1
      <4>1. n # k
        BY <2>1, <3>2
      <4>2. j \in 1 .. Len(r) /\ r[j] = s[n]
        BY <2>1, <2>3, <4>1
      <4>. QED
        BY <4>2 DEF Listed
    <3>. QED
      BY <3>1, <3>2 DEF Listed
  <2>6. x \in Listed(s)
    BY <2>1 DEF Listed
  <2>. QED
    BY <2>2, <2>3, <2>4, <2>5, <2>6
<1>. QED
  BY <1>1, <1>2

(* promoteRegionLRU puts the region in front, once, and drops nobody while *)
(* the list is short of its capacity.                                      *)
LEMMA PromoteIs ==
    ASSUME lru \in Seq(RegionIds), Distinct(lru), Len(lru) <= LRUCap, NEW x \in RegionIds
    PROVE  LET p == Promote(x)
           IN  /\ p \in Seq(RegionIds) /\ Distinct(p) /\ Len(p) <= LRUCap
               /\ Listed(p) \subseteq Listed(lru) \cup {x}
               /\ Len(p) < LRUCap => /\ Listed(p) = Listed(lru) \cup {x}
                                     /\ Len(lru) < LRUCap
<1>. DEFINE r == RemoveFirst(lru, x)
            q == <<x>> \o r
<1>1. /\ r \in Seq(RegionIds) /\ Distinct(r) /\ Listed(r) = Listed(lru) \ {x}
      /\ Len(r) = IF x \in Listed(lru) THEN Len(lru) - 1 ELSE Len(lru)
  BY RemoveFirstIs
<1>2. LRUCap \in Nat \ {0} /\ Len(lru) \in Nat /\ Len(r) \in Nat
  BY <1>1, AllocatorAssumption
<1>. HIDE DEF r
<1>3. /\ q \in Seq(RegionIds) /\ Len(q) = Len(r) + 1 /\ q[1] = x
      /\ \A i \in 1 .. Len(r) : q[i + 1] = r[i]
  BY <1>1
<1>. HIDE DEF q
<1>4. \A i \in 2 .. Len(q) : i - 1 \in 1 .. Len(r) /\ q[i] = r[i - 1]
  BY <1>2, <1>3
<1>5. Distinct(q)
  <2>1. \A i \in 1 .. Len(r) : r[i] # x
    BY <1>1 DEF Listed
  <2>. SUFFICES ASSUME NEW i \in 1 .. Len(q), NEW j \in 1 .. Len(q), q[i] = q[j]
                PROVE  i = j
    BY DEF Distinct
  <2>0. \A n \in 1 .. Len(q) : q[n] = x => n = 1
    <3>. SUFFICES ASSUME NEW n \in 1 .. Len(q), n # 1
                  PROVE  q[n] # x
      OBVIOUS
    <3>1. n \in 2 .. Len(q)
      BY <1>2, <1>3
    <3>. QED
      BY <1>4, <2>1, <3>1
  <2>2. CASE i = 1 \/ j = 1
    BY <1>3, <2>0, <2>2
  <2>3. CASE i # 1 /\ j # 1
    <3>1. i \in 2 .. Len(q) /\ j \in 2 .. Len(q)
      BY <1>2, <1>3, <2>3
    <3>2. i - 1 = j - 1
      BY <1>1, <1>4, <3>1 DEF Distinct
    <3>. QED
      BY <3>2
  <2>. QED
    BY <2>2, <2>3
<1>6. Listed(q) = Listed(lru) \cup {x}
  <2>1. ASSUME NEW i \in 1 .. Len(q)
        PROVE  q[i] \in Listed(r) \cup {x}
    <3>1. CASE i = 1
      BY <1>3, <3>1
    <3>2. CASE i # 1
      <4>1. i \in 2 .. Len(q)
        BY <1>2, <1>3, <3>2
      <4>. QED
        BY <1>4, <4>1 DEF Listed
    <3>. QED
      BY <3>1, <3>2
  <2>2. \A i \in 1 .. Len(r) : r[i] \in Listed(q)
    <3>. SUFFICES ASSUME NEW i \in 1 .. Len(r)
                  PROVE  r[i] \in Listed(q)
      OBVIOUS
    <3>1. i + 1 \in 1 .. Len(q) /\ q[i + 1] = r[i]
      BY <1>2, <1>3
    <3>. QED
      BY <3>1 DEF Listed
  <2>3. x \in Listed(q)
    <3>1. 1 \in 1 .. Len(q)
      BY <1>2, <1>3
    <3>. QED
      BY <1>3, <3>1 DEF Listed
  <2>4. Listed(q) \subseteq Listed(r) \cup {x} /\ Listed(r) \subseteq Listed(q)
    BY <2>1, <2>2 DEF Listed
  <2>. QED
    BY <1>1, <2>3, <2>4
<1>7. Promote(x) = IF Len(q) > LRUCap THEN SubSeq(q, 1, LRUCap) ELSE q
  BY DEF Promote, q, r
<1>8. CASE Len(q) > LRUCap
  <2>. DEFINE p == SubSeq(q, 1, LRUCap)
  <2>1. p \in Seq(RegionIds) /\ Len(p) = LRUCap /\ \A i \in 1 .. LRUCap : p[i] = q[i]
    BY <1>2, <1>3, <1>8
  <2>. HIDE DEF p
  <2>2. 1 .. Len(p) \subseteq 1 .. Len(q)
    BY <1>2, <1>3, <1>8, <2>1
  <2>3. Distinct(p) /\ Listed(p) \subseteq Listed(q)
    <3>1. \A i \in 1 .. Len(p) : i \in 1 .. Len(q) /\ p[i] = q[i]
      BY <2>1, <2>2
    <3>2. Distinct(p)
      BY <1>5, <3>1 DEF Distinct
    <3>3. Listed(p) \subseteq Listed(q)
      BY <3>1 DEF Listed
    <3>. QED
      BY <3>2, <3>3
  <2>4. Promote(x) = p
    BY <1>7, <1>8 DEF p
  <2>. QED
    BY <1>2, <1>6, <2>1, <2>3, <2>4
<1>9. CASE ~(Len(q) > LRUCap)
  <2>1. Promote(x) = q /\ Len(q) <= LRUCap /\ Len(lru) <= Len(q)
    BY <1>1, <1>2, <1>3, <1>7, <1>9
  <2>. QED
    BY <1>2, <1>3, <1>5, <1>6, <2>1
<1>. QED
  BY <1>8, <1>9

(* LRUWellFormed, in terms of what is listed. *)
ListOK ==
    /\ Len(lru) <= LRUCap
    /\ Distinct(lru)
    /\ Listed(lru) \subseteq Regions
    /\ Len(lru) < LRUCap => \A x \in RegionIds : allocCount[x] > 0 => x \in Listed(lru)

LEMMA ListOKIs ==
    ASSUME lru \in Seq(RegionIds)
    PROVE  (ListOK <=> LRUWellFormed)
<1>1. DOMAIN lru = 1 .. Len(lru)
  OBVIOUS
<1>. QED
  BY <1>1 DEF ListOK, LRUWellFormed, Distinct, Listed

LEMMA ListKept ==
    ASSUME TypeOK, TypeOK', Regions \subseteq Regions', AllocCountExact, BookStep, ListOK
    PROVE  ListOK'
<1>0. /\ lru \in Seq(RegionIds) /\ held \subseteq AllocIds
      /\ allocCount \in [RegionIds -> 0 .. (U64 - 1)] /\ U64 \in Nat
      /\ \A x \in RegionIds : allocCount[x] = Cardinality(InUse(x))
  BY AllocatorAssumption DEF TypeOK, AllocCountExact, InUse
<1>1. CASE NothingBooked
  BY <1>1 DEF NothingBooked, ListOK, Listed, Distinct
<1>2. ASSUME NEW id \in AllocIds, NEW x \in RegionIds, BookedIn(id, x)
      PROVE  ListOK'
  <2>1. /\ lru' = Promote(x) /\ x \in Regions'
        /\ allocCount' = [allocCount EXCEPT ![x] = AddU64(@, 1)]
    BY <1>2 DEF BookedIn
  <2>2. LET p == Promote(x)
        IN  /\ p \in Seq(RegionIds) /\ Distinct(p) /\ Len(p) <= LRUCap
            /\ Listed(p) \subseteq Listed(lru) \cup {x}
            /\ Len(p) < LRUCap => /\ Listed(p) = Listed(lru) \cup {x}
                                  /\ Len(lru) < LRUCap
    BY <1>0, PromoteIs DEF ListOK
  <2>3. /\ Distinct(lru') /\ Len(lru') <= LRUCap /\ Listed(lru') \subseteq Regions'
    BY <2>1, <2>2 DEF ListOK
  <2>4. ASSUME Len(lru') < LRUCap, NEW w \in RegionIds, allocCount'[w] > 0
        PROVE  w \in Listed(lru')
    <3>1. CASE w = x
      BY <2>1, <2>2, <2>4, <3>1
    <3>2. CASE w # x
      BY <1>0, <2>1, <2>2, <2>4, <3>2 DEF ListOK
    <3>. QED
      BY <3>1, <3>2
  <2>. QED
    BY <2>3, <2>4 DEF ListOK
<1>3. ASSUME NEW a \in AllocIds, BookedOut(a)
      PROVE  ListOK'
  <2>1. /\ lru' = lru /\ a \in held /\ objs[a].x \in RegionIds
        /\ allocCount' = [allocCount EXCEPT ![objs[a].x] = SubU64(@, 1)]
    BY <1>3 DEF BookedOut
  <2>2. allocCount[objs[a].x] > 0
    <3>1. a \in InUse(objs[a].x)
      BY <2>1 DEF InUse
    <3>2. /\ IsFiniteSet(InUse(objs[a].x))
          /\ Cardinality(InUse(objs[a].x)) \in 0 .. MaxAllocs
      <4>1. InUse(objs[a].x) \in SUBSET AllocIds
        BY <1>0 DEF InUse
      <4>. QED
        BY <4>1, IdsFinite
    <3>3. Cardinality(InUse(objs[a].x)) # 0
      BY <3>1, <3>2, FS_EmptySet
    <3>. QED
      BY <1>0, <2>1, <3>2, <3>3
  <2>3. \A w \in RegionIds : allocCount'[w] > 0 => allocCount[w] > 0
    BY <1>0, <2>1, <2>2
  <2>4. Listed(lru') \subseteq Regions' /\ Listed(lru') = Listed(lru)
        /\ Distinct(lru') /\ Len(lru') <= LRUCap
    BY <2>1 DEF ListOK
  <2>. QED
    BY <2>1, <2>3, <2>4 DEF ListOK
<1>. QED
  BY <1>1, <1>2, <1>3 DEF BookStep

(* No action unregisters a region. *)
LEMMA RegionsGrow ==
    ASSUME TypeOK, [Next]_vars
    PROVE  Regions \subseteq Regions'
<1>1. nextRegionID' = nextRegionID \/ nextRegionID' = nextRegionID + 1
  <2>. DEFINE Grows == nextRegionID' = nextRegionID \/ nextRegionID' = nextRegionID + 1
  <2>1. ASSUME NEW t \in RegionTypes, NEW size \in Sizes, NEW f \in Flags, Allocate(t, size, f)
        PROVE  Grows
    BY <2>1 DEF Allocate, AllocateFast, FastPanics, YPromotionBegin, AllocateNewRegion
  <2>2. CASE Promotion
    BY <2>2 DEF Promotion, YPromotionTake, YPromotionSkip, YPromotionPanics, YPromotionCommit,
                YPromotionRollback
  <2>3. ASSUME NEW a \in held, FreeSingle(a) \/ FreePromoted(a)
        PROVE  Grows
    BY <2>3 DEF FreeSingle, FreePromoted, Release
  <2>4. ASSUME NEW x \in RegionIds, AddPlane(x)
        PROVE  Grows
    BY <2>4 DEF AddPlane
  <2>5. ASSUME NEW x \in RegionIds, NEW size \in Sizes, NEW f \in Flags,
               AllocateInRegion(x, size, f)
        PROVE  Grows
    BY <2>5 DEF AllocateInRegion
  <2>6. CASE UNCHANGED vars
    BY <2>6 DEF vars
  <2>7. CASE NextVM
    BY <2>1, <2>2, <2>3, <2>7 DEF NextVM
  <2>8. CASE NextPlanes
    BY <2>4, <2>5, <2>7, <2>8 DEF NextPlanes
  <2>. QED
    BY <2>3, <2>6, <2>8 DEF Next
<1>2. nextRegionID \in Int
  BY DEF TypeOK
<1>. QED
  BY <1>1, <1>2 DEF Regions

(* The list of recently used regions names each region once, none that is  *)
(* not registered, and misses no region in use until it is full.           *)
THEOREM LRUIsWellFormed ==
    ASSUME 0 \notin Sizes
    PROVE  Spec => []LRUWellFormed
<1>1. Init => ListOK
  <2>1. Init => Len(lru) = 0 /\ \A x \in RegionIds : ~(allocCount[x] > 0)
    BY DEF Init
  <2>. QED
    BY <2>1, AllocatorAssumption DEF ListOK, Distinct, Listed
<1>2. ListOK /\ (BookInv /\ AllocCountExact) /\ (BookInv /\ AllocCountExact)' /\ [Next]_vars
        => ListOK'
  BY BookNext, RegionsGrow, ListKept DEF BookInv, TypeInv
<1>3. ListOK /\ BookInv => LRUWellFormed
  BY ListOKIs DEF BookInv, TypeInv, TypeOK
<1>. QED
  BY <1>1, <1>2, <1>3, CountInvariant, PTL DEF Spec

-----------------------------------------------------------------------------
(***************************************************************************)
(* The allocations of Allocator3D do not overlap, the bitmaps are exact    *)
(* and every allocation is found under its address: for every value of the *)
(* constants for which positions of a plane add up within a uint16 and no  *)
(* request is empty, and as long as no Y-promoted block is released.       *)
(* width_overlap.cfg and the run promoted_free_overlap show that the first *)
(* and the last condition are needed; an empty request is granted an       *)
(* address in no region (see YPromotionCommit).                            *)
(***************************************************************************)

(* Sums of two positions do not wrap, and no request asks for zero bytes. *)
Roomy == 2 * PlaneSize <= U16 /\ 0 \notin Sizes

(***************************************************************************)
(* The inductive invariant. Besides the properties it says where an        *)
(* allocation's object lies (Located), that a block with one fragment has  *)
(* all its bytes there, which is what Free relies on (WholeInOne), and     *)
(* what the loop of tryYPromotion has found so far (JobFrags).             *)
(***************************************************************************)
Located ==
    \A a \in held : /\ objs[a].x \in Regions
                    /\ objs[a].frags[objs[a].y].size > 0
                    /\ objs[a].frags[objs[a].y].start = objs[a].z

WholeInOne ==
    \A a \in held :
        (\A p \in PlaneIds : p # objs[a].y => objs[a].frags[p].size = 0)
            => objs[a].frags[objs[a].y].size = objs[a].size

JobApart ==
    \A a \in held : objs[a].x = job.x =>
        \A y \in PlaneIds : Extent(objs[a].frags[y]) \cap Extent(job.frags[y]) = {}

JobFrags ==
    /\ job.stage = "promote" =>
          /\ job.x \in Regions /\ job.size \in Sizes
          /\ \A p \in PlaneIds : p >= job.next => job.frags[p].size = 0
          /\ job.first = -1 => \A p \in PlaneIds : job.frags[p].size = 0
          /\ job.first # -1 => job.frags[job.first].size > 0
          /\ \A p \in PlaneIds :
                (\A q \in PlaneIds : q # p => job.frags[q].size = 0)
                    => job.frags[p].size = job.size - job.rem
    /\ job.stage # "promote" => \A p \in PlaneIds : job.frags[p].size = 0

SafeInv == /\ TypeInv
           /\ Located
           /\ WholeInOne
           /\ NoOverlap
           /\ BitsCovered
           /\ FoundByAddress
           /\ JobApart
           /\ JobFrags

-----------------------------------------------------------------------------
LEMMA SafeInit == Init => SafeInv
<1> SUFFICES ASSUME Init PROVE SafeInv
  OBVIOUS
<1>1. TypeInv
  BY InitType
<1>2. held = {} /\ job = NoJob
  BY DEF Init
<1>3. \A p \in PlaneIds : job.frags[p] = NoFragment /\ job.frags[p].size = 0
                          /\ Extent(job.frags[p]) = {}
  BY <1>2 DEF NoJob, NoFragment, Extent
<1>4. BitsCovered
  BY <1>2, <1>3 DEF Init, BitsCovered
<1>5. FoundByAddress
  BY <1>2 DEF Init, FoundByAddress
<1>6. JobFrags
  BY <1>2, <1>3 DEF JobFrags, NoJob
<1> QED
  BY <1>1, <1>2, <1>4, <1>5, <1>6 DEF SafeInv, Located, WholeInOne, NoOverlap, JobApart

(* Fragments, and what their extents contain. *)
LEMMA FragmentFacts ==
    ASSUME NEW f \in Fragment
    PROVE  /\ f.start \in Nat /\ f.size \in Nat /\ f.start < PlaneSize /\ f.size <= PlaneSize
           /\ \A i : i \in Extent(f) <=> i \in Nat /\ f.start <= i /\ i < f.start + f.size
           /\ f.size = 0 => Extent(f) = {}
           /\ f.size > 0 => f.start \in Extent(f)
  BY AllocatorAssumption DEF Fragment, Extent, Offsets

(* The objects in use are typed; so are the locals of the running request. *)
LEMMA ObjectTypes ==
    ASSUME TypeOK
    PROVE  /\ \A a \in held : /\ a \in AllocIds /\ objs[a].x \in {0} \cup RegionIds
                              /\ objs[a].y \in PlaneIds /\ objs[a].z \in Offsets
                              /\ objs[a].size \in Sizes \cup {0}
                              /\ \A p \in PlaneIds : objs[a].frags[p] \in Fragment
           /\ job.x \in RegionIds /\ \A p \in PlaneIds : job.frags[p] \in Fragment
           /\ Regions \subseteq RegionIds
<1>1. \A a \in held : objs[a] \in Allocation /\ a \in AllocIds
  BY DEF TypeOK
<1>2. job \in Job
  BY DEF TypeOK
<1>3. Regions \subseteq RegionIds
  BY AllocatorAssumption DEF TypeOK, Regions, RegionIds
<1>4. \A a \in held : /\ a \in AllocIds /\ objs[a].x \in {0} \cup RegionIds
                      /\ objs[a].y \in PlaneIds /\ objs[a].z \in Offsets
                      /\ objs[a].size \in Sizes \cup {0}
                      /\ \A p \in PlaneIds : objs[a].frags[p] \in Fragment
  BY <1>1 DEF Allocation
<1>5. job.x \in RegionIds /\ \A p \in PlaneIds : job.frags[p] \in Fragment
  BY <1>2 DEF Job
<1> QED
  BY <1>3, <1>4, <1>5

(* No object is stored at a position that is free. *)
LEMMA FreeHasNoEntry ==
    ASSUME SafeInv, NEW x \in RegionIds, NEW y \in PlaneIds, NEW z \in Offsets,
           z \notin used[x][y]
    PROVE  table[x][y][z] = NoAlloc
<1> SUFFICES ASSUME table[x][y][z] # NoAlloc PROVE FALSE
  OBVIOUS
<1> DEFINE a == table[x][y][z]
<1>1. a \in held /\ objs[a].x = x /\ objs[a].y = y /\ objs[a].z = z
  BY DEF SafeInv, FoundByAddress
<1> HIDE DEF a
<1>2. objs[a].frags[y] \in Fragment /\ objs[a].frags[y].size > 0 /\ objs[a].frags[y].start = z
  BY <1>1, ObjectTypes DEF SafeInv, TypeInv, Located
<1>3. z \in Extent(objs[a].frags[y])
  BY <1>2, FragmentFacts
<1>4. x # 0
  BY AllocatorAssumption DEF RegionIds
<1> QED
  BY <1>1, <1>3, <1>4 DEF SafeInv, BitsCovered

(* The part of the invariant that is about the allocations in use. *)
HeldInv == Located /\ WholeInOne /\ NoOverlap /\ BitsCovered /\ FoundByAddress

(***************************************************************************)
(* Placing a block on a free run of one plane keeps HeldInv. np and free0  *)
(* do not matter here; the region may be one that this step registers.     *)
(***************************************************************************)
LEMMA GrantSafe ==
    ASSUME SafeInv, TypeInv', CanHold,
           NEW x \in RegionIds, NEW y \in PlaneIds, NEW z \in Offsets,
           NEW size \in Sizes, NEW flags \in Flags, NEW np, NEW free0,
           size > 0, z + size <= PlaneSize, AddU16(z, size) = z + size,
           \A i \in used[x][y] : i < z \/ i >= z + size,
           \A p \in PlaneIds : job.frags[p].size = 0,
           \A p \in PlaneIds : job'.frags[p].size = 0,
           x \in Regions', Regions \subseteq Regions',
           Grant(x, y, z, size, flags, np, free0)
    PROVE  HeldInv'
<1> DEFINE id == FreshID
           run == [start |-> z, size |-> size]
           o  == [x |-> x, y |-> y, z |-> z, size |-> size, flags |-> flags,
                  frags |-> OneRun(y, z, size)]
<1>t. TypeOK /\ TypeOK'
  BY DEF SafeInv, TypeInv
<1>0. id \in AllocIds \ held
  BY <1>t, FreshIDIsFree DEF TypeOK
<1>1. /\ held' = held \cup {id}
      /\ objs' = [objs EXCEPT ![id] = o]
      /\ table' = [table EXCEPT ![x][y][z] = id]
      /\ used' = [used EXCEPT ![x][y] = Taken(x, y, z, size)]
  BY DEF Grant
<1>2. /\ objs'[id] = o
      /\ \A a \in held : a # id /\ objs'[a] = objs[a]
  BY <1>0, <1>1, <1>t DEF TypeOK
<1> HIDE DEF id
<1>3. \A i : i \in Extent(run) <=> i \in Nat /\ z <= i /\ i < z + size
  BY AllocatorAssumption DEF Extent, Offsets
<1>4. Taken(x, y, z, size) = used[x][y] \cup Extent(run)
  <2>1. Taken(x, y, z, size)
           = used[x][y] \cup {i \in 0 .. (PlaneSize - 1) : z <= i /\ i < z + size}
    BY DEF Taken, SetRange
  <2>2. {i \in 0 .. (PlaneSize - 1) : z <= i /\ i < z + size} = Extent(run)
    <3> HIDE DEF run
    <3>1. z \in Nat /\ size \in Nat /\ PlaneSize \in Nat
      BY AllocatorAssumption DEF Offsets
    <3> QED
      BY <1>3, <3>1
  <2> QED
    BY <2>1, <2>2, Zenon
<1>5. used[x][y] \cap Extent(run) = {}
  <2> HIDE DEF run
  <2>1. z \in Nat /\ size \in Nat
    BY AllocatorAssumption DEF Offsets
  <2>2. ASSUME NEW i \in used[x][y], i \in Extent(run) PROVE FALSE
    BY <1>3, <2>1, <2>2
  <2> QED
    BY <2>2
<1> HIDE DEF run
<1>6. /\ used'[x][y] = used[x][y] \cup Extent(run)
      /\ \A w \in RegionIds, p \in PlaneIds : ~(w = x /\ p = y) => used'[w][p] = used[w][p]
  BY <1>1, <1>4, <1>t DEF TypeOK
<1>7. \A p \in PlaneIds : /\ o.frags[p] = IF p = y THEN run ELSE NoFragment
                          /\ p # y => o.frags[p].size = 0 /\ Extent(o.frags[p]) = {}
  BY DEF OneRun, run, NoFragment, Extent
<1>8. o.x = x /\ o.y = y /\ o.z = z /\ o.size = size /\ o.frags[y] = run
      /\ run.start = z /\ run.size = size
  BY <1>7 DEF run
<1> HIDE DEF o
<1>9. \A p \in PlaneIds : Extent(job.frags[p]) = {} /\ Extent(job'.frags[p]) = {}
  <2>1. \A p \in PlaneIds : job.frags[p] \in Fragment
    BY <1>t, ObjectTypes
  <2>2. \A p \in PlaneIds : job'.frags[p] \in Fragment
    BY <1>t DEF TypeOK, Job
  <2> QED
    BY <2>1, <2>2, FragmentFacts
<1>10. \A a \in held : objs[a].x \in Regions /\ objs[a].x # 0 /\ objs[a].x \in RegionIds
  BY <1>t, ObjectTypes, AllocatorAssumption DEF SafeInv, Located, RegionIds
<1>11. Located'
  BY <1>1, <1>2, <1>8, <1>10 DEF Located, SafeInv
<1>12. WholeInOne'
  BY <1>1, <1>2, <1>8 DEF WholeInOne, SafeInv
<1>13. \A a \in held : objs[a].x = x => Extent(objs[a].frags[y]) \cap Extent(run) = {}
  BY <1>5, <1>10 DEF SafeInv, BitsCovered
<1>14. NoOverlap'
  <2> SUFFICES ASSUME NEW a \in held', NEW b \in held', a # b, objs'[a].x = objs'[b].x,
                      NEW p \in PlaneIds
               PROVE  Extent(objs'[a].frags[p]) \cap Extent(objs'[b].frags[p]) = {}
    BY DEF NoOverlap
  <2>1. CASE a \in held /\ b \in held
    BY <2>1, <1>2 DEF SafeInv, NoOverlap
  <2>2. CASE a = id /\ b \in held
    BY <2>2, <1>2, <1>7, <1>8, <1>13
  <2>3. CASE b = id /\ a \in held
    BY <2>3, <1>2, <1>7, <1>8, <1>13
  <2> QED
    BY <2>1, <2>2, <2>3, <1>1
<1>15. BitsCovered'
  <2>1. ASSUME NEW a \in held', NEW p \in PlaneIds
        PROVE  Extent(objs'[a].frags[p]) \subseteq used'[objs'[a].x][p]
    <3>1. CASE a \in held
      <4>1. Extent(objs[a].frags[p]) \subseteq used[objs[a].x][p]
        BY <3>1, <1>10 DEF SafeInv, BitsCovered
      <4>2. used[objs[a].x][p] \subseteq used'[objs[a].x][p]
        BY <3>1, <1>6, <1>10
      <4> QED
        BY <3>1, <4>1, <4>2, <1>2
    <3>2. CASE a = id
      BY <3>2, <1>2, <1>6, <1>7, <1>8
    <3> QED
      BY <3>1, <3>2, <1>1
  <2>2. ASSUME NEW w \in RegionIds, NEW p \in PlaneIds, NEW i \in used'[w][p]
        PROVE  \E a \in held' : objs'[a].x = w /\ i \in Extent(objs'[a].frags[p])
    <3>1. CASE i \in used[w][p]
      <4>1. PICK a \in held : objs[a].x = w /\ i \in Extent(objs[a].frags[p])
        BY <3>1, <1>9 DEF SafeInv, BitsCovered
      <4> QED
        BY <4>1, <1>1, <1>2
    <3>2. CASE w = x /\ p = y /\ i \in Extent(run)
      BY <3>2, <1>1, <1>2, <1>8
    <3> QED
      BY <3>1, <3>2, <1>6
  <2>3. \A p \in PlaneIds : Extent(job'.frags[p]) \subseteq used'[job'.x][p]
    BY <1>9
  <2> QED
    BY <2>1, <2>2, <2>3, Zenon DEF BitsCovered
<1>16. FoundByAddress'
  <2>1. table[x][y][z] = NoAlloc
    <3>1. z \notin used[x][y]
      BY AllocatorAssumption DEF Offsets
    <3> QED
      BY <3>1, FreeHasNoEntry
  <2>2. /\ table'[x][y][z] = id
        /\ \A w \in RegionIds, p \in PlaneIds, i \in Offsets :
              ~(w = x /\ p = y /\ i = z) => table'[w][p][i] = table[w][p][i]
    BY <1>1, <1>t DEF TypeOK
  <2>3. ASSUME NEW a \in held'
        PROVE  objs'[a].x \in Regions' /\ table'[objs'[a].x][objs'[a].y][objs'[a].z] = a
    <3>1. CASE a \in held
      <4>1. /\ table[objs[a].x][objs[a].y][objs[a].z] = a /\ objs[a].x \in Regions
            /\ objs[a].y \in PlaneIds /\ objs[a].z \in Offsets /\ a # NoAlloc
        BY <3>1, <1>t, ObjectTypes, AllocatorAssumption
           DEF SafeInv, FoundByAddress, AllocIds, NoAlloc
      <4>2. ~(objs[a].x = x /\ objs[a].y = y /\ objs[a].z = z)
        BY <4>1, <2>1
      <4>3. table'[objs[a].x][objs[a].y][objs[a].z] = a
        BY <3>1, <4>1, <4>2, <1>10, <2>2
      <4>4. objs'[a] = objs[a]
        BY <3>1, <1>2
      <4> QED
        BY <4>1, <4>3, <4>4
    <3>2. CASE a = id
      BY <3>2, <1>2, <1>8, <2>2
    <3> QED
      BY <3>1, <3>2, <1>1
  <2>4. ASSUME NEW w \in RegionIds, NEW p \in PlaneIds, NEW i \in Offsets,
               table'[w][p][i] # NoAlloc
        PROVE  LET a == table'[w][p][i]
               IN  a \in held' /\ objs'[a].x = w /\ objs'[a].y = p /\ objs'[a].z = i
    <3>1. CASE w = x /\ p = y /\ i = z
      BY <3>1, <2>2, <1>1, <1>2, <1>8
    <3>2. CASE ~(w = x /\ p = y /\ i = z)
      BY <3>2, <2>2, <2>4, <1>1, <1>2 DEF SafeInv, FoundByAddress
    <3> QED
      BY <3>1, <3>2
  <2> QED
    BY <2>3, <2>4 DEF FoundByAddress
<1> QED
  BY <1>11, <1>12, <1>14, <1>15, <1>16 DEF HeldInv

(* What FitSound says of a plane. *)
LEMMA FitRun ==
    ASSUME Roomy, TypeOK, NEW x \in RegionIds, NEW y \in PlaneIds, NEW size \in Nat,
           Fit(x, y, size) # NoSpace
    PROVE  LET z == Fit(x, y, size)
           IN  /\ z # Panic /\ z \in Offsets /\ size > 0 /\ z + size <= PlaneSize
               /\ AddU16(z, size) = z + size
               /\ \A i \in used[x][y] : i < z \/ i >= z + size
<1>1. used[x][y] \in SUBSET (0 .. (PlaneSize - 1)) /\ PlaneSize \in Nat
      /\ 2 * PlaneSize <= U16
  BY AllocatorAssumption DEF TypeOK, Offsets, Roomy
<1> QED
  BY <1>1, FitSound DEF Fit, Offsets

(* A step after which no promotion is running leaves no fragments behind. *)
LEMMA IdleJob ==
    ASSUME HeldInv', TypeInv', job'.stage # "promote",
           \A p \in PlaneIds : job'.frags[p].size = 0
    PROVE  SafeInv'
<1>1. \A p \in PlaneIds : job'.frags[p] \in Fragment
  BY DEF TypeInv, TypeOK, Job
<1>2. \A p \in PlaneIds : Extent(job'.frags[p]) = {}
  BY <1>1, FragmentFacts
<1>3. JobApart'
  BY <1>2 DEF JobApart
<1>4. JobFrags'
  BY DEF JobFrags
<1> QED
  BY <1>3, <1>4 DEF SafeInv, HeldInv

LEMMA NoJobEmpty == NoJob.stage = "idle" /\ \A p \in PlaneIds : NoJob.frags[p].size = 0
  BY DEF NoJob, NoFragment

LEMMA AllocateFastSafe ==
    ASSUME Roomy, SafeInv, NEW t \in RegionTypes, NEW size \in Sizes, NEW f \in Flags,
           AllocateFast(t, size, f)
    PROVE  SafeInv'
<1>1. PICK i \in DOMAIN lru, y \in PlaneIds :
         /\ FirstHit(i, y, t, size)
         /\ Fit(lru[i], y, size) # Panic
         /\ Grant(lru[i], y, Fit(lru[i], y, size), size, 0,
                  nplanes, freeBytes[lru[i]])
  BY DEF AllocateFast
<1>2. TypeOK /\ TypeInv /\ TypeInv'
  BY AllocateFastType DEF SafeInv, TypeInv
<1>3. lru[i] \in RegionIds /\ size \in Nat
  BY <1>2, AllocatorAssumption DEF TypeOK
<1>4. Fit(lru[i], y, size) # NoSpace /\ y < nplanes[lru[i]]
  BY <1>1 DEF FirstHit, FastHit
<1>5. lru[i] \in Regions
  BY <1>2, <1>3, <1>4, AllocatorAssumption DEF TypeInv, Blank, TypeOK, PlaneIds
<1>6. UNCHANGED <<nextRegionID, job>> /\ job.stage = "idle" /\ CanHold
  BY DEF AllocateFast, Idle
<1>7. /\ \A p \in PlaneIds : job.frags[p].size = 0
      /\ \A p \in PlaneIds : job'.frags[p].size = 0
      /\ Regions' = Regions /\ 0 \in Flags
  BY <1>6, AllocatorAssumption DEF SafeInv, JobFrags, Regions
<1>8. HeldInv'
  BY <1>1, <1>2, <1>3, <1>4, <1>5, <1>6, <1>7, FitRun, GrantSafe
<1> QED
  BY <1>2, <1>6, <1>7, <1>8, IdleJob

(* Steps that leave the allocations, their bits and their entries alone. *)
LEMMA HeldInvUnchanged ==
    ASSUME SafeInv, Regions \subseteq Regions',
           UNCHANGED <<used, table, held, objs>>,
           \A p \in PlaneIds : job.frags[p].size = 0,
           \A p \in PlaneIds : job'.frags[p].size = 0,
           job' \in Job
    PROVE  HeldInv'
<1>1. \A p \in PlaneIds : Extent(job.frags[p]) = {} /\ Extent(job'.frags[p]) = {}
  <2>1. \A p \in PlaneIds : job.frags[p] \in Fragment /\ job'.frags[p] \in Fragment
    BY ObjectTypes DEF SafeInv, TypeInv, Job
  <2> QED
    BY <2>1, FragmentFacts
<1>2. BitsCovered'
  <2>1. \A y \in PlaneIds : Extent(job'.frags[y]) \subseteq used'[job'.x][y]
    BY <1>1
  <2>2. \A x \in RegionIds, y \in PlaneIds : \A i \in used[x][y] :
           \E a \in held : objs[a].x = x /\ i \in Extent(objs[a].frags[y])
    BY <1>1 DEF SafeInv, BitsCovered
  <2> QED
    BY <2>1, <2>2 DEF SafeInv, BitsCovered
<1>3. Located' /\ WholeInOne'
  BY DEF SafeInv, Located, WholeInOne
<1>4. NoOverlap'
  BY DEF SafeInv, NoOverlap
<1>5. FoundByAddress'
  BY DEF SafeInv, FoundByAddress
<1> QED
  BY <1>2, <1>3, <1>4, <1>5 DEF HeldInv

LEMMA AllocateNewRegionSafe ==
    ASSUME Roomy, SafeInv, NEW t \in RegionTypes, NEW size \in Sizes, NEW f \in Flags,
           AllocateNewRegion(t, size, f)
    PROVE  SafeInv'
<1> DEFINE x == nextRegionID + 1
           np == [nplanes EXCEPT ![x] = 1]
<1>1. TypeOK /\ TypeInv /\ TypeInv'
  BY AllocateNewRegionType DEF SafeInv, TypeInv
<1>2. x \in RegionIds /\ nextRegionID' = x /\ job' = NoJob
  BY DEF AllocateNewRegion
<1>3. CanHold /\ job.stage # "promote"
  BY <1>1 DEF AllocateNewRegion, Missed, TypeInv, JobCanHold, Idle
<1>4. x \in Regions' /\ Regions \subseteq Regions'
  BY <1>1, <1>2, AllocatorAssumption DEF Regions, TypeOK, RegionIds
<1>5. /\ \A p \in PlaneIds : job.frags[p].size = 0
      /\ \A p \in PlaneIds : job'.frags[p].size = 0
      /\ job'.stage = "idle" /\ job' \in Job
  BY <1>2, <1>3, NoJobEmpty, NoJobType DEF SafeInv, JobFrags
<1> HIDE DEF x, np
<1>6. HeldInv'
  <2>1. CASE Fits(x, 0, size) /\ Grant(x, 0, Fit(x, 0, size), size, f, np, PlaneSize)
    <3>1. size \in Nat /\ 0 \in PlaneIds /\ Fit(x, 0, size) # NoSpace
      BY <2>1, ConstantRange, AllocatorAssumption DEF Fits
    <3> QED
      BY <1>1, <1>2, <1>3, <1>4, <1>5, <2>1, <3>1, FitRun, GrantSafe
  <2>2. CASE UNCHANGED <<used, table, held, objs>>
    BY <2>2, <1>4, <1>5, HeldInvUnchanged
  <2> QED
    BY <2>1, <2>2 DEF AllocateNewRegion, x, np
<1> QED
  BY <1>1, <1>5, <1>6, IdleJob

LEMMA AllocateInRegionSafe ==
    ASSUME Roomy, SafeInv, NEW x \in RegionIds, NEW size \in Sizes, NEW f \in Flags,
           AllocateInRegion(x, size, f)
    PROVE  SafeInv'
<1>1. TypeOK /\ TypeInv /\ TypeInv' /\ size \in Nat
  BY AllocateInRegionType, AllocatorAssumption DEF SafeInv, TypeInv
<1>2. UNCHANGED <<nextRegionID, job>> /\ job.stage = "idle" /\ CanHold /\ x \in Regions
  BY DEF AllocateInRegion, Idle
<1>3. /\ \A p \in PlaneIds : job.frags[p].size = 0
      /\ \A p \in PlaneIds : job'.frags[p].size = 0
      /\ Regions' = Regions /\ job' \in Job
  BY <1>1, <1>2 DEF SafeInv, JobFrags, Regions, TypeOK
<1>4. ASSUME NEW y \in PlaneIds, NEW np, NEW fb, Fits(x, y, size),
             Grant(x, y, Fit(x, y, size), size, f, np, fb)
      PROVE  HeldInv'
  BY <1>1, <1>2, <1>3, <1>4, FitRun, GrantSafe DEF Fits
<1>5. ASSUME UNCHANGED <<used, table, held, objs>> PROVE HeldInv'
  BY <1>3, <1>5, HeldInvUnchanged
<1>6. nplanes[x] < MaxPlanes => nplanes[x] \in PlaneIds
  BY <1>1, AllocatorAssumption DEF TypeOK, PlaneIds
<1>7. HeldInv'
  <2>1. CASE \E y \in PlaneIds :
                InRegionHit(x, y, size)
                /\ Grant(x, y, Fit(x, y, size), size, f, nplanes, freeBytes[x])
    BY <2>1, <1>4 DEF InRegionHit
  <2>2. CASE /\ nplanes[x] < MaxPlanes /\ Fits(x, nplanes[x], size)
             /\ Grant(x, nplanes[x], Fit(x, nplanes[x], size), size, f,
                      [nplanes EXCEPT ![x] = @ + 1], AddU64(freeBytes[x], PlaneSize))
    BY <2>2, <1>4, <1>6
  <2>3. CASE UNCHANGED <<used, table, held, objs>>
    BY <2>3, <1>5
  <2> QED
    BY <2>1, <2>2, <2>3 DEF AllocateInRegion
<1> QED
  BY <1>1, <1>2, <1>3, <1>7, IdleJob

LEMMA AddPlaneSafe ==
    ASSUME SafeInv, NEW x \in RegionIds, AddPlane(x)
    PROVE  SafeInv'
<1>1. TypeInv /\ TypeInv'
  BY AddPlaneType DEF SafeInv
<1>2. UNCHANGED <<nextRegionID, used, table, held, objs, job>> /\ job.stage = "idle"
  BY DEF AddPlane, Idle
<1>3. /\ \A p \in PlaneIds : job.frags[p].size = 0
      /\ \A p \in PlaneIds : job'.frags[p].size = 0
      /\ Regions' = Regions /\ job' \in Job
  BY <1>1, <1>2 DEF SafeInv, JobFrags, Regions, TypeInv, TypeOK
<1> QED
  BY <1>1, <1>2, <1>3, HeldInvUnchanged, IdleJob

LEMMA YPromotionBeginSafe ==
    ASSUME Roomy, SafeInv, NEW t \in RegionTypes, NEW size \in Sizes, NEW f \in Flags,
           YPromotionBegin(t, size, f)
    PROVE  SafeInv'
<1>1. TypeInv /\ TypeInv'
  BY YPromotionBeginType DEF SafeInv
<1>2. PICK x \in BestRegions(t, size) :
         job' = [stage |-> "promote", rt |-> t, size |-> size, flags |-> f,
                 x |-> x, rem |-> size, next |-> 0, first |-> -1,
                 frags |-> [p \in PlaneIds |-> NoFragment]]
  BY DEF YPromotionBegin
<1>3. x \in Regions
  BY DEF BestRegions, Candidates
<1>4. UNCHANGED <<nextRegionID, used, table, held, objs>> /\ job.stage = "idle"
  BY DEF YPromotionBegin, Idle, regionVars
<1>5. /\ \A p \in PlaneIds : job.frags[p].size = 0
      /\ \A p \in PlaneIds : job'.frags[p] = NoFragment /\ job'.frags[p].size = 0
      /\ Regions' = Regions /\ job' \in Job
  BY <1>1, <1>2, <1>4 DEF SafeInv, JobFrags, Regions, TypeInv, TypeOK, NoFragment
<1>6. HeldInv'
  BY <1>4, <1>5, HeldInvUnchanged
<1>7. JobApart'
  BY <1>5 DEF JobApart, Extent, NoFragment
<1>8. JobFrags'
  BY <1>2, <1>3, <1>5, AllocatorAssumption DEF JobFrags
<1> QED
  BY <1>1, <1>6, <1>7, <1>8 DEF SafeInv, HeldInv

LEMMA YPromotionTakeSafe ==
    ASSUME Roomy, SafeInv, YPromotionTake
    PROVE  SafeInv'
<1> DEFINE x == job.x
           n == job.next
           w == WantedHere
           z == Fit(x, n, w)
           run == [start |-> z, size |-> w]
<1>1. TypeOK /\ TypeInv /\ TypeInv'
  BY YPromotionTakeType DEF SafeInv, TypeInv
<1>2. /\ x \in RegionIds /\ n \in PlaneIds /\ job.rem \in Nat
      /\ w \in 0 .. PlaneSize /\ w <= job.rem
  BY <1>1, InLoopType DEF YPromotionTake
<1>3. /\ w \in Nat /\ z \in Offsets /\ w > 0 /\ z + w <= PlaneSize
      /\ AddU16(z, w) = z + w
      /\ \A i \in used[x][n] : i < z \/ i >= z + w
  BY <1>1, <1>2, FitRun, AllocatorAssumption DEF YPromotionTake
<1>4. /\ used' = [used EXCEPT ![x][n] = Taken(x, n, z, w)]
      /\ job' = [job EXCEPT !.rem = @ - w, !.next = @ + 1,
                            !.first = IF @ = -1 THEN n ELSE @, !.frags[n] = run]
      /\ UNCHANGED <<nextRegionID, table, held, objs>>
      /\ job.stage = "promote"
  BY DEF YPromotionTake, InLoop
<1>5. \A i : i \in Extent(run) <=> i \in Nat /\ z <= i /\ i < z + w
  BY <1>3, AllocatorAssumption DEF Extent, Offsets
<1>6. Taken(x, n, z, w) = used[x][n] \cup Extent(run)
  <2>1. Taken(x, n, z, w)
           = used[x][n] \cup {i \in 0 .. (PlaneSize - 1) : z <= i /\ i < z + w}
    BY <1>3 DEF Taken, SetRange
  <2>2. {i \in 0 .. (PlaneSize - 1) : z <= i /\ i < z + w} = Extent(run)
    <3>1. z \in Nat /\ PlaneSize \in Nat
      BY <1>3, AllocatorAssumption DEF Offsets
    <3> HIDE DEF run, z, w
    <3> QED
      BY <1>3, <1>5, <3>1
  <2> QED
    BY <2>1, <2>2, Zenon
<1>7. used[x][n] \cap Extent(run) = {}
  <2> HIDE DEF run, z, w
  <2>1. z \in Nat
    BY <1>3, AllocatorAssumption DEF Offsets
  <2>2. used[x][n] \subseteq Nat
    BY <1>1, <1>2, AllocatorAssumption DEF TypeOK, Offsets
  <2> QED
    BY <1>3, <1>5, <2>1, <2>2
<1>8. job \in Job /\ run.size = w /\ run.start = z
  BY <1>1 DEF TypeOK
<1> HIDE DEF run, z, w
<1>9. /\ used'[x][n] = used[x][n] \cup Extent(run)
      /\ \A r \in RegionIds, p \in PlaneIds : ~(r = x /\ p = n) => used'[r][p] = used[r][p]
      /\ \A r \in RegionIds, p \in PlaneIds : used[r][p] \subseteq used'[r][p]
  BY <1>1, <1>2, <1>4, <1>6 DEF TypeOK
<1>10. /\ job'.x = x /\ job'.stage = "promote" /\ job'.size = job.size
       /\ job'.rem = job.rem - w /\ job'.next = n + 1
       /\ job'.first = IF job.first = -1 THEN n ELSE job.first
       /\ job'.frags[n] = run
       /\ \A p \in PlaneIds : p # n => job'.frags[p] = job.frags[p]
  BY <1>2, <1>4, <1>8 DEF Job
<1>11. Regions' = Regions
  BY <1>4 DEF Regions
<1>12. Located' /\ WholeInOne'
  BY <1>4, <1>11 DEF SafeInv, Located, WholeInOne
<1>13. NoOverlap'
  BY <1>4 DEF SafeInv, NoOverlap
<1>14. FoundByAddress'
  BY <1>4, <1>11 DEF SafeInv, FoundByAddress
<1>15. \A a \in held : objs[a].x \in RegionIds /\ objs[a].x # 0
  BY <1>1, ObjectTypes, AllocatorAssumption DEF SafeInv, Located, RegionIds
<1>16. BitsCovered'
  <2>1. \A a \in held, y \in PlaneIds : Extent(objs[a].frags[y]) \subseteq used'[objs[a].x][y]
    BY <1>9, <1>15 DEF SafeInv, BitsCovered
  <2>2. \A y \in PlaneIds : Extent(job'.frags[y]) \subseteq used'[job'.x][y]
    BY <1>2, <1>9, <1>10 DEF SafeInv, BitsCovered
  <2>3. ASSUME NEW r \in RegionIds, NEW p \in PlaneIds, NEW i \in used'[r][p]
        PROVE  \/ \E a \in held : objs[a].x = r /\ i \in Extent(objs[a].frags[p])
               \/ job'.x = r /\ i \in Extent(job'.frags[p])
    <3>1. CASE i \in used[r][p]
      <4>1. \/ \E a \in held : objs[a].x = r /\ i \in Extent(objs[a].frags[p])
            \/ job.x = r /\ i \in Extent(job.frags[p])
        BY <3>1 DEF SafeInv, BitsCovered
      <4>2. Extent(job.frags[n]) = {}
        <5>1. job.frags[n].size = 0 /\ job.frags[n] \in Fragment
          BY <1>1, <1>2, <1>4, ObjectTypes, AllocatorAssumption DEF SafeInv, JobFrags, PlaneIds
        <5> QED
          BY <5>1, FragmentFacts
      <4> QED
        BY <4>1, <4>2, <1>10
    <3>2. CASE r = x /\ p = n /\ i \in Extent(run)
      BY <3>2, <1>10
    <3> QED
      BY <3>1, <3>2, <1>9
  <2> QED
    BY <2>1, <2>2, <2>3, <1>4 DEF BitsCovered
<1>17. JobApart'
  <2>1. \A a \in held : objs[a].x = x => Extent(objs[a].frags[n]) \cap Extent(run) = {}
    BY <1>2, <1>7, <1>15 DEF SafeInv, BitsCovered
  <2> QED
    BY <2>1, <1>4, <1>10 DEF SafeInv, JobApart
<1>18. JobFrags'
  <2>1. /\ x \in Regions /\ job.size \in Sizes
        /\ \A p \in PlaneIds : p >= n => job.frags[p].size = 0
        /\ job.first = -1 => \A p \in PlaneIds : job.frags[p].size = 0
        /\ job.first # -1 => job.frags[job.first].size > 0
        /\ \A p \in PlaneIds :
              (\A q \in PlaneIds : q # p => job.frags[q].size = 0)
                  => job.frags[p].size = job.size - job.rem
    BY <1>4 DEF SafeInv, JobFrags
  <2>2. job.first \in {-1} \cup PlaneIds /\ job.size \in Nat /\ n \in Nat
    <3>1. job.first \in {-1} \cup PlaneIds
      BY <1>8 DEF Job
    <3>2. job.size \in Nat
      BY <2>1, AllocatorAssumption
    <3>3. n \in Nat
      BY <1>2, AllocatorAssumption DEF PlaneIds
    <3> QED
      BY <3>1, <3>2, <3>3
  <2>3. \A p \in PlaneIds : p >= n + 1 => job'.frags[p].size = 0
    BY <1>10, <2>1, <2>2, AllocatorAssumption DEF PlaneIds
  <2>4. job'.first # -1 /\ job'.frags[job'.first].size > 0
    <3>1. job'.first \in PlaneIds /\ job'.first # -1
      BY <1>2, <1>10, <2>2, AllocatorAssumption DEF PlaneIds
    <3>2. CASE job'.first = n
      BY <3>1, <3>2, <1>3, <1>8, <1>10
    <3>3. CASE job'.first # n
      BY <3>1, <3>3, <1>10, <2>1
    <3> QED
      BY <3>1, <3>2, <3>3
  <2>5. ASSUME NEW p \in PlaneIds, \A q \in PlaneIds : q # p => job'.frags[q].size = 0
        PROVE  job'.frags[p].size = job.size - (job.rem - w)
    <3>1. p = n
      BY <2>5, <1>2, <1>3, <1>8, <1>10
    <3>2. \A q \in PlaneIds : job.frags[q].size = 0
      BY <3>1, <2>1, <2>2, <2>5, <1>10, AllocatorAssumption DEF PlaneIds
    <3>3. 0 = job.size - job.rem
      BY <3>2, <2>1, <1>2
    <3> QED
      BY <3>1, <3>3, <1>2, <1>3, <1>8, <1>10, <2>2
  <2> QED
    BY <2>1, <2>3, <2>4, <2>5, <1>10, <1>11 DEF JobFrags
<1> QED
  BY <1>1, <1>12, <1>13, <1>14, <1>16, <1>17, <1>18 DEF SafeInv

LEMMA YPromotionSkipSafe ==
    ASSUME SafeInv, YPromotionSkip
    PROVE  SafeInv'
<1>1. TypeInv /\ TypeInv' /\ job \in Job
  BY YPromotionSkipType DEF SafeInv, TypeInv, TypeOK
<1>2. /\ UNCHANGED <<nextRegionID, used, table, held, objs>>
      /\ job' = [job EXCEPT !.next = @ + 1] /\ job.stage = "promote"
  BY DEF YPromotionSkip, InLoop, regionVars
<1>3. /\ job'.x = job.x /\ job'.stage = job.stage /\ job'.size = job.size
      /\ job'.rem = job.rem /\ job'.next = job.next + 1 /\ job'.first = job.first
      /\ job'.frags = job.frags /\ Regions' = Regions
  BY <1>1, <1>2 DEF Job, Regions
<1>4. Located' /\ WholeInOne' /\ JobApart'
  BY <1>2, <1>3 DEF SafeInv, Located, WholeInOne, JobApart
<1>5. NoOverlap'
  BY <1>2 DEF SafeInv, NoOverlap
<1>6. FoundByAddress'
  BY <1>2, <1>3 DEF SafeInv, FoundByAddress
<1>7. BitsCovered'
  BY <1>2, <1>3 DEF SafeInv, BitsCovered
<1>8. JobFrags'
  <2>1. job.next \in Nat /\ PlaneIds \subseteq Nat
    BY <1>1, AllocatorAssumption DEF Job, PlaneIds
  <2>2. \A p \in PlaneIds : p >= job.next + 1 => p >= job.next
    BY <2>1
  <2> QED
    BY <1>2, <1>3, <2>2 DEF SafeInv, JobFrags
<1> QED
  BY <1>1, <1>4, <1>5, <1>6, <1>7, <1>8 DEF SafeInv

(* No object is stored on a fragment that a running promotion has taken. *)
LEMMA JobHasNoEntry ==
    ASSUME SafeInv, NEW y \in PlaneIds, NEW i \in Offsets, i \in Extent(job.frags[y])
    PROVE  table[job.x][y][i] = NoAlloc
<1> SUFFICES ASSUME table[job.x][y][i] # NoAlloc PROVE FALSE
  OBVIOUS
<1> DEFINE a == table[job.x][y][i]
<1>1. job.x \in RegionIds
  BY ObjectTypes DEF SafeInv, TypeInv
<1>2. a \in held /\ objs[a].x = job.x /\ objs[a].y = y /\ objs[a].z = i
  BY <1>1 DEF SafeInv, FoundByAddress
<1> HIDE DEF a
<1>3. objs[a].frags[y] \in Fragment /\ objs[a].frags[y].size > 0 /\ objs[a].frags[y].start = i
  BY <1>2, ObjectTypes DEF SafeInv, TypeInv, Located
<1>4. i \in Extent(objs[a].frags[y])
  BY <1>3, FragmentFacts
<1> QED
  BY <1>2, <1>4 DEF SafeInv, JobApart

(* A fragment that is set in its plane's bitmap lies inside the plane. *)
LEMMA ExtentInside ==
    ASSUME NEW f \in Fragment, Extent(f) \subseteq Offsets
    PROVE  f.start + f.size <= PlaneSize
<1>1. CASE f.size = 0
  BY <1>1, FragmentFacts, AllocatorAssumption
<1>2. CASE f.size > 0
  <2>1. f.start + f.size - 1 \in Extent(f)
    BY <1>2, FragmentFacts, AllocatorAssumption
  <2> QED
    BY <1>2, <2>1, FragmentFacts, AllocatorAssumption DEF Offsets
<1> QED
  BY <1>1, <1>2, FragmentFacts

LEMMA YPromotionCommitSafe ==
    ASSUME Roomy, SafeInv, YPromotionCommit
    PROVE  SafeInv'
<1> DEFINE id == FreshID
           y  == job.first
           z  == job.frags[y].start
           o  == [x |-> job.x, y |-> y, z |-> z,
                  size |-> job.size, flags |-> job.flags,
                  frags |-> job.frags]
<1>1. TypeOK /\ TypeInv /\ TypeInv'
  BY YPromotionCommitType DEF SafeInv, TypeInv
<1>2. /\ job.stage = "promote" /\ job.rem = 0 /\ job' = NoJob
      /\ held' = held \cup {id} /\ UNCHANGED <<nextRegionID, used>>
  BY DEF YPromotionCommit
<1>3. /\ job.x \in Regions /\ job.size \in Sizes /\ job.size \in Nat /\ job.size > 0
      /\ job.first = -1 => \A p \in PlaneIds : job.frags[p].size = 0
      /\ job.first # -1 => job.frags[job.first].size > 0
      /\ \A p \in PlaneIds :
            (\A q \in PlaneIds : q # p => job.frags[q].size = 0)
                => job.frags[p].size = job.size
  <2>1. job.x \in Regions /\ job.size \in Sizes
    BY <1>2 DEF SafeInv, JobFrags
  <2>2. job.size \in Nat /\ job.size > 0
    <3>1. job.size \in Nat
      BY <2>1, AllocatorAssumption
    <3>2. job.size # 0
      BY <2>1 DEF Roomy
    <3> QED
      BY <3>1, <3>2
  <2> QED
    BY <1>2, <2>1, <2>2 DEF SafeInv, JobFrags
<1>4. job.first # -1
  BY <1>3, ConstantRange
<1>5. y \in PlaneIds /\ job.x \in RegionIds /\ z \in Offsets /\ job.frags[y].size > 0
      /\ z \in Extent(job.frags[y])
  <2>1. y \in PlaneIds
    BY <1>1, <1>4 DEF TypeOK, Job
  <2>2. job.x \in RegionIds /\ job.frags[y] \in Fragment
    BY <1>1, <2>1, ObjectTypes
  <2> QED
    BY <1>3, <1>4, <2>1, <2>2, FragmentFacts DEF Fragment
<1>6. table' = [table EXCEPT ![job.x][y][z] = id] /\ objs' = [objs EXCEPT ![id] = o]
  BY <1>4 DEF YPromotionCommit
<1>7. id \in AllocIds \ held
  BY <1>1, <1>2, FreshIDIsFree DEF TypeInv, JobCanHold, TypeOK
<1>8. /\ objs'[id] = o
      /\ \A a \in held : a # id /\ objs'[a] = objs[a]
  BY <1>1, <1>6, <1>7 DEF TypeOK
<1>9. o.x = job.x /\ o.y = y /\ o.z = z /\ o.size = job.size /\ o.frags = job.frags
  OBVIOUS
<1>10. table[job.x][y][z] = NoAlloc
  BY <1>5, JobHasNoEntry
<1>11. z = job.frags[y].start
  OBVIOUS
<1> HIDE DEF id, y, z, o
<1>12. Regions' = Regions /\ \A a \in held : objs[a].x \in RegionIds /\ objs[a].x # 0
  BY <1>1, <1>2, ObjectTypes, AllocatorAssumption DEF SafeInv, Located, Regions, RegionIds
<1>13. Located'
  BY <1>2, <1>3, <1>5, <1>8, <1>9, <1>11, <1>12 DEF SafeInv, Located
<1>14. WholeInOne'
  <2>1. (\A p \in PlaneIds : p # y => job.frags[p].size = 0) => job.frags[y].size = job.size
    BY <1>3, <1>5
  <2> QED
    BY <2>1, <1>2, <1>8, <1>9 DEF SafeInv, WholeInOne
<1>15. NoOverlap'
  <2> SUFFICES ASSUME NEW a \in held', NEW b \in held', a # b, objs'[a].x = objs'[b].x,
                      NEW p \in PlaneIds
               PROVE  Extent(objs'[a].frags[p]) \cap Extent(objs'[b].frags[p]) = {}
    BY DEF NoOverlap
  <2>1. CASE a \in held /\ b \in held
    BY <2>1, <1>8 DEF SafeInv, NoOverlap
  <2>2. CASE a = id /\ b \in held
    BY <2>2, <1>8, <1>9 DEF SafeInv, JobApart
  <2>3. CASE b = id /\ a \in held
    BY <2>3, <1>8, <1>9 DEF SafeInv, JobApart
  <2> QED
    BY <2>1, <2>2, <2>3, <1>2
<1>16. BitsCovered'
  <2>1. \A a \in held', p \in PlaneIds : Extent(objs'[a].frags[p]) \subseteq used'[objs'[a].x][p]
    <3>1. \A p \in PlaneIds : Extent(job.frags[p]) \subseteq used[job.x][p]
      BY DEF SafeInv, BitsCovered
    <3>2. \A a \in held, p \in PlaneIds : Extent(objs[a].frags[p]) \subseteq used[objs[a].x][p]
      BY <1>12 DEF SafeInv, BitsCovered
    <3> QED
      BY <3>1, <3>2, <1>2, <1>8, <1>9
  <2>2. ASSUME NEW r \in RegionIds, NEW p \in PlaneIds, NEW i \in used'[r][p]
        PROVE  \E a \in held' : objs'[a].x = r /\ i \in Extent(objs'[a].frags[p])
    <3>1. \/ \E a \in held : objs[a].x = r /\ i \in Extent(objs[a].frags[p])
          \/ job.x = r /\ i \in Extent(job.frags[p])
      BY <1>2 DEF SafeInv, BitsCovered
    <3> QED
      BY <3>1, <1>2, <1>8, <1>9
  <2>3. \A p \in PlaneIds : Extent(job'.frags[p]) = {}
    BY <1>2 DEF NoJob, NoFragment, Extent
  <2> QED
    BY <2>1, <2>2, <2>3 DEF BitsCovered
<1>17. FoundByAddress'
  <2>1. /\ table'[job.x][y][z] = id
        /\ \A w \in RegionIds, p \in PlaneIds, i \in Offsets :
              ~(w = job.x /\ p = y /\ i = z) => table'[w][p][i] = table[w][p][i]
    BY <1>1, <1>5, <1>6 DEF TypeOK
  <2>2. ASSUME NEW a \in held'
        PROVE  objs'[a].x \in Regions' /\ table'[objs'[a].x][objs'[a].y][objs'[a].z] = a
    <3>1. CASE a \in held
      <4>1. /\ table[objs[a].x][objs[a].y][objs[a].z] = a /\ objs[a].x \in Regions
            /\ objs[a].y \in PlaneIds /\ objs[a].z \in Offsets /\ a # NoAlloc
        BY <3>1, <1>1, ObjectTypes, AllocatorAssumption
           DEF SafeInv, FoundByAddress, AllocIds, NoAlloc
      <4>2. ~(objs[a].x = job.x /\ objs[a].y = y /\ objs[a].z = z)
        BY <4>1, <1>10
      <4>3. table'[objs[a].x][objs[a].y][objs[a].z] = a
        BY <3>1, <4>1, <4>2, <1>12, <2>1
      <4>4. objs'[a] = objs[a]
        BY <3>1, <1>8
      <4> QED
        BY <4>1, <4>3, <4>4, <1>12
    <3>2. CASE a = id
      BY <3>2, <1>3, <1>8, <1>9, <1>12, <2>1
    <3> QED
      BY <3>1, <3>2, <1>2
  <2>3. ASSUME NEW w \in RegionIds, NEW p \in PlaneIds, NEW i \in Offsets,
               table'[w][p][i] # NoAlloc
        PROVE  LET a == table'[w][p][i]
               IN  a \in held' /\ objs'[a].x = w /\ objs'[a].y = p /\ objs'[a].z = i
    <3>1. CASE w = job.x /\ p = y /\ i = z
      BY <3>1, <2>1, <1>2, <1>8, <1>9
    <3>2. CASE ~(w = job.x /\ p = y /\ i = z)
      BY <3>2, <2>1, <2>3, <1>2, <1>8 DEF SafeInv, FoundByAddress
    <3> QED
      BY <3>1, <3>2
  <2> QED
    BY <2>2, <2>3 DEF FoundByAddress
<1>18. HeldInv'
  BY <1>13, <1>14, <1>15, <1>16, <1>17 DEF HeldInv
<1> QED
  BY <1>1, <1>2, <1>18, NoJobEmpty, IdleJob

(* The rollback clears exactly the bits of the fragments. *)
LEMMA RollbackBits ==
    ASSUME SafeInv, NEW y \in PlaneIds
    PROVE  LET F == job.frags[y]
           IN  ClearRange(used[job.x][y], PlaneSize, F.start, AddU16(F.start, F.size))
                  = used[job.x][y] \ Extent(F)
<1> DEFINE x == job.x
           F == job.frags[y]
<1>1. TypeOK
  BY DEF SafeInv, TypeInv
<1>2. x \in RegionIds /\ F \in Fragment
  BY <1>1, ObjectTypes
<1>3. Extent(F) \subseteq used[x][y] /\ used[x][y] \subseteq Offsets
  BY <1>1, <1>2 DEF SafeInv, BitsCovered, TypeOK
<1>4. F.start + F.size <= PlaneSize
  BY <1>2, <1>3, ExtentInside
<1>5. F.start \in Nat /\ F.size \in Nat
      /\ \A i : i \in Extent(F) <=> i \in Nat /\ F.start <= i /\ i < F.start + F.size
  BY <1>2, FragmentFacts
<1>6. AddU16(F.start, F.size) = F.start + F.size
  BY <1>4, <1>5, AllocatorAssumption, BitmapAssumption DEF AddU16
<1>7. ClearRange(used[x][y], PlaneSize, F.start, AddU16(F.start, F.size))
        = used[x][y] \ {i \in 0 .. (PlaneSize - 1) : F.start <= i /\ i < F.start + F.size}
  BY <1>6 DEF ClearRange
<1> QED
  BY <1>3, <1>5, <1>7 DEF Offsets

LEMMA YPromotionRollbackSafe ==
    ASSUME Roomy, SafeInv, YPromotionRollback
    PROVE  SafeInv'
<1> DEFINE x == job.x
           F(y) == job.frags[y]
           bits == [y \in PlaneIds |-> ClearRange(used[x][y], PlaneSize,
                       F(y).start, AddU16(F(y).start, F(y).size))]
           entries == [y \in PlaneIds |->
                         IF F(y).size > 0
                         THEN [table[x][y] EXCEPT ![F(y).start] = NoAlloc]
                         ELSE table[x][y]]
<1>1. TypeOK /\ TypeInv /\ TypeInv'
  BY YPromotionRollbackType DEF SafeInv, TypeInv
<1>2. x \in RegionIds /\ \A y \in PlaneIds : F(y) \in Fragment
  BY <1>1, ObjectTypes
<1>3. /\ used' = [used EXCEPT ![x] = bits]
      /\ table' = [table EXCEPT ![x] = entries]
      /\ UNCHANGED <<nextRegionID, held, objs>>
  BY <1>1, <1>2 DEF YPromotionRollback, TypeOK
<1>4. /\ job'.stage = "newregion"
      /\ \A p \in PlaneIds : job'.frags[p] = NoFragment /\ job'.frags[p].size = 0
  BY <1>1 DEF YPromotionRollback, TypeOK, Job, NoFragment
<1>5. \A y \in PlaneIds : bits[y] = used[x][y] \ Extent(F(y))
  BY RollbackBits
<1>6. \A w \in RegionIds, p \in PlaneIds, i \in Offsets : table'[w][p][i] = table[w][p][i]
  <2>1. ASSUME NEW p \in PlaneIds, NEW i \in Offsets
        PROVE  entries[p][i] = table[x][p][i]
    <3>1. CASE F(p).size > 0 /\ i = F(p).start
      <4>1. i \in Extent(F(p))
        BY <3>1, <1>2, FragmentFacts
      <4>2. table[x][p][i] = NoAlloc
        BY <4>1, JobHasNoEntry
      <4> QED
        BY <3>1, <4>2, <1>1, <1>2 DEF TypeOK
    <3>2. CASE ~(F(p).size > 0 /\ i = F(p).start)
      BY <3>2, <1>1, <1>2 DEF TypeOK
    <3> QED
      BY <3>1, <3>2
  <2> HIDE DEF entries
  <2> QED
    BY <2>1, <1>1, <1>2, <1>3 DEF TypeOK
<1> HIDE DEF bits, entries
<1>7. \A w \in RegionIds, p \in PlaneIds :
         used'[w][p] = IF w = x THEN used[x][p] \ Extent(F(p)) ELSE used[w][p]
  BY <1>1, <1>2, <1>3, <1>5 DEF TypeOK
<1>8. Regions' = Regions /\ \A a \in held : objs[a].x \in RegionIds /\ objs[a].x # 0
  BY <1>1, <1>3, ObjectTypes, AllocatorAssumption DEF SafeInv, Located, Regions, RegionIds
<1>9. Located' /\ WholeInOne'
  BY <1>3, <1>8 DEF SafeInv, Located, WholeInOne
<1>10. NoOverlap'
  BY <1>3 DEF SafeInv, NoOverlap
<1>11. FoundByAddress'
  <2>1. \A a \in held : objs[a].y \in PlaneIds /\ objs[a].z \in Offsets
    BY <1>1, ObjectTypes
  <2>2. \A a \in held : objs[a].x \in Regions /\ table[objs[a].x][objs[a].y][objs[a].z] = a
    BY DEF SafeInv, FoundByAddress
  <2>3. \A a \in held' : objs'[a].x \in Regions' /\ table'[objs'[a].x][objs'[a].y][objs'[a].z] = a
    BY <2>1, <2>2, <1>3, <1>6, <1>8
  <2>4. \A w \in RegionIds, p \in PlaneIds, i \in Offsets :
           LET a == table[w][p][i]
           IN  a # NoAlloc => a \in held /\ objs[a].x = w /\ objs[a].y = p /\ objs[a].z = i
    BY DEF SafeInv, FoundByAddress
  <2> QED
    BY <2>3, <2>4, <1>3, <1>6 DEF FoundByAddress
<1>12. BitsCovered'
  <2>1. \A a \in held, p \in PlaneIds : Extent(objs[a].frags[p]) \subseteq used'[objs[a].x][p]
    <3>1. \A a \in held, p \in PlaneIds : Extent(objs[a].frags[p]) \subseteq used[objs[a].x][p]
      BY <1>8 DEF SafeInv, BitsCovered
    <3>2. \A a \in held, p \in PlaneIds :
             objs[a].x = x => Extent(objs[a].frags[p]) \cap Extent(F(p)) = {}
      BY DEF SafeInv, JobApart
    <3> SUFFICES ASSUME NEW a \in held, NEW p \in PlaneIds
                 PROVE  Extent(objs[a].frags[p]) \subseteq used'[objs[a].x][p]
      OBVIOUS
    <3>3. CASE objs[a].x = x
      <4>1. used'[objs[a].x][p] = used[objs[a].x][p] \ Extent(F(p))
        BY <3>3, <1>2, <1>7
      <4>2. Extent(objs[a].frags[p]) \cap Extent(F(p)) = {}
        BY <3>2, <3>3
      <4> QED
        BY <3>1, <4>1, <4>2
    <3>4. CASE objs[a].x # x
      BY <3>1, <3>4, <1>7, <1>8
    <3> QED
      BY <3>3, <3>4
  <2>2. ASSUME NEW w \in RegionIds, NEW p \in PlaneIds, NEW i \in used'[w][p]
        PROVE  \E a \in held : objs[a].x = w /\ i \in Extent(objs[a].frags[p])
    <3>1. i \in used[w][p] /\ (w = x => i \notin Extent(F(p)))
      BY <1>7
    <3>2. \/ \E a \in held : objs[a].x = w /\ i \in Extent(objs[a].frags[p])
          \/ x = w /\ i \in Extent(F(p))
      BY <3>1 DEF SafeInv, BitsCovered
    <3> QED
      BY <3>1, <3>2
  <2>3. \A p \in PlaneIds : Extent(job'.frags[p]) = {}
    BY <1>4 DEF NoFragment, Extent
  <2> QED
    BY <2>1, <2>2, <2>3, <1>3 DEF BitsCovered
<1>13. HeldInv'
  BY <1>9, <1>10, <1>11, <1>12 DEF HeldInv
<1> QED
  BY <1>1, <1>4, <1>13, IdleJob

(***************************************************************************)
(* Releasing a block of one fragment: the entry found at its address is    *)
(* its own, and Plane.Free clears its extent and nothing else.             *)
(***************************************************************************)
(* Plane.Free of a block that lies in one plane clears exactly its bits. *)
LEMMA FreedRun ==
    ASSUME SafeInv, NEW a \in held, ~IsYPromoted(objs[a])
    PROVE  LET o == objs[a]
               e == Extent(o.frags[o.y])
           IN  /\ o.x \in RegionIds /\ o.x # 0 /\ o.y \in PlaneIds /\ o.z \in Offsets
               /\ o.x \in Regions
               /\ \A p \in PlaneIds : o.frags[p] \in Fragment
               /\ o.frags[o.y].size > 0 /\ o.frags[o.y].start = o.z
               /\ table[o.x][o.y][o.z] = a /\ a \in AllocIds
               /\ \A p \in PlaneIds : p # o.y => o.frags[p].size = 0 /\ Extent(o.frags[p]) = {}
               /\ o.size = o.frags[o.y].size
               /\ Cleared(o.x, o.y, o.z) = used[o.x][o.y] \ e
<1> DEFINE o == objs[a]
           e == Extent(o.frags[o.y])
<1>1. TypeOK
  BY DEF SafeInv, TypeInv
<1>2. /\ o.x \in RegionIds /\ o.x # 0 /\ o.y \in PlaneIds /\ o.z \in Offsets
      /\ o.x \in Regions
      /\ \A p \in PlaneIds : o.frags[p] \in Fragment
      /\ o.frags[o.y].size > 0 /\ o.frags[o.y].start = o.z
      /\ table[o.x][o.y][o.z] = a /\ a \in AllocIds
  BY <1>1, ObjectTypes, AllocatorAssumption DEF SafeInv, Located, FoundByAddress, RegionIds
<1>3. \A p \in PlaneIds : p # o.y => o.frags[p].size = 0 /\ Extent(o.frags[p]) = {}
  <2>1. ~IsYPromoted(o)
    OBVIOUS
  <2>2. \A p \in PlaneIds : p # o.y => ~(o.frags[p].size > 0)
    BY <2>1, <1>2 DEF IsYPromoted
  <2>3. \A p \in PlaneIds : o.frags[p].size \in Nat
    BY <1>2, FragmentFacts
  <2> QED
    BY <2>2, <2>3, <1>2, FragmentFacts
<1>4. o.size = o.frags[o.y].size
  BY <1>2, <1>3 DEF SafeInv, WholeInOne
<1>5. Cleared(o.x, o.y, o.z) = used[o.x][o.y] \ e
  <2>1. e \subseteq used[o.x][o.y] /\ used[o.x][o.y] \subseteq Offsets
    BY <1>1, <1>2 DEF SafeInv, BitsCovered, TypeOK
  <2>2. o.z + o.size <= PlaneSize
    BY <1>2, <1>4, <2>1, ExtentInside
  <2>3. o.z \in Nat /\ o.size \in Nat /\ o.size <= PlaneSize
        /\ \A i : i \in e <=> i \in Nat /\ o.z <= i /\ i < o.z + o.size
    BY <1>2, <1>4, FragmentFacts
  <2>4. ToU16(o.size) = o.size /\ AddU16(o.z, o.size) = o.z + o.size
    BY <2>2, <2>3, AllocatorAssumption, BitmapAssumption DEF AddU16, ToU16
  <2>5. Cleared(o.x, o.y, o.z) = used[o.x][o.y] \ {i \in 0 .. (PlaneSize - 1) :
                                                     o.z <= i /\ i < o.z + o.size}
    BY <2>4, <1>2 DEF ClearRange, Cleared
  <2> QED
    BY <2>1, <2>3, <2>5 DEF Offsets
<1> QED
  BY <1>2, <1>3, <1>4, <1>5

LEMMA FreeSingleSafe ==
    ASSUME Roomy, SafeInv, NEW a \in held, FreeSingle(a)
    PROVE  SafeInv'
<1> DEFINE o == objs[a]
           e == Extent(o.frags[o.y])
<1>1. TypeOK /\ TypeInv /\ TypeInv'
  BY FreeSingleType DEF SafeInv, TypeInv
<1>2. /\ o.x \in RegionIds /\ o.x # 0 /\ o.y \in PlaneIds /\ o.z \in Offsets
      /\ o.x \in Regions
      /\ \A p \in PlaneIds : o.frags[p] \in Fragment
      /\ o.frags[o.y].size > 0 /\ o.frags[o.y].start = o.z
      /\ table[o.x][o.y][o.z] = a /\ a \in AllocIds
      /\ \A p \in PlaneIds : p # o.y => o.frags[p].size = 0 /\ Extent(o.frags[p]) = {}
      /\ o.size = o.frags[o.y].size
      /\ Cleared(o.x, o.y, o.z) = used[o.x][o.y] \ e
  BY FreedRun DEF FreeSingle
<1>3. \A p \in PlaneIds : p # o.y => o.frags[p].size = 0 /\ Extent(o.frags[p]) = {}
  BY <1>2
<1>4. o.size = o.frags[o.y].size
  BY <1>2
<1>5. Cleared(o.x, o.y, o.z) = used[o.x][o.y] \ e
  BY <1>2
<1>6. /\ used' = [used EXCEPT ![o.x][o.y] = used[o.x][o.y] \ e]
      /\ table' = [table EXCEPT ![o.x][o.y][o.z] = NoAlloc]
      /\ held' = held \ {a} /\ objs' = [objs EXCEPT ![a] = NoObject]
      /\ UNCHANGED <<nextRegionID, job>> /\ job.stage = "idle"
  BY <1>5 DEF FreeSingle, Release, Idle
<1>7. \A b \in held' : b \in held /\ b # a /\ objs'[b] = objs[b]
  BY <1>1, <1>6 DEF TypeOK
<1> HIDE DEF e
<1>8. /\ used'[o.x][o.y] = used[o.x][o.y] \ e
      /\ \A w \in RegionIds, p \in PlaneIds :
            ~(w = o.x /\ p = o.y) => used'[w][p] = used[w][p]
  BY <1>1, <1>2, <1>6 DEF TypeOK
<1>9. /\ table'[o.x][o.y][o.z] = NoAlloc
      /\ \A w \in RegionIds, p \in PlaneIds, i \in Offsets :
            ~(w = o.x /\ p = o.y /\ i = o.z) => table'[w][p][i] = table[w][p][i]
  <2>1. table \in [RegionIds -> [PlaneIds -> [Offsets -> AllocIds \cup {NoAlloc}]]]
    BY <1>1 DEF TypeOK
  <2>2. \A w \in RegionIds : w # o.x => table'[w] = table[w]
    BY <1>6, <2>1
  <2>3. table'[o.x] = [table[o.x] EXCEPT ![o.y] = [table[o.x][o.y] EXCEPT ![o.z] = NoAlloc]]
    BY <1>2, <1>6, <2>1
  <2>4. \A p \in PlaneIds : p # o.y => table'[o.x][p] = table[o.x][p]
    BY <1>2, <2>1, <2>3
  <2>5. table'[o.x][o.y] = [table[o.x][o.y] EXCEPT ![o.z] = NoAlloc]
    BY <1>2, <2>1, <2>3
  <2>6. /\ table'[o.x][o.y][o.z] = NoAlloc
        /\ \A i \in Offsets : i # o.z => table'[o.x][o.y][i] = table[o.x][o.y][i]
    <3>1. table[o.x][o.y] \in [Offsets -> AllocIds \cup {NoAlloc}] /\ o.z \in Offsets
      BY <1>2, <2>1
    <3> QED
      BY <3>1, <2>5
  <2> QED
    BY <2>2, <2>4, <2>6
<1>10. /\ \A p \in PlaneIds : job.frags[p].size = 0 /\ Extent(job.frags[p]) = {}
       /\ \A p \in PlaneIds : job'.frags[p].size = 0 /\ Extent(job'.frags[p]) = {}
  <2>1. \A p \in PlaneIds : job.frags[p].size = 0 /\ job.frags[p] \in Fragment
    BY <1>1, <1>6, ObjectTypes DEF SafeInv, JobFrags
  <2> QED
    BY <2>1, <1>6, FragmentFacts
<1>11. Regions' = Regions /\ \A b \in held : objs[b].x \in RegionIds /\ objs[b].x # 0
  BY <1>1, <1>6, ObjectTypes, AllocatorAssumption DEF SafeInv, Located, Regions, RegionIds
<1>12. Located' /\ WholeInOne'
  BY <1>7, <1>11 DEF SafeInv, Located, WholeInOne
<1>13. NoOverlap'
  BY <1>7 DEF SafeInv, NoOverlap
<1>14. BitsCovered'
  <2>1. ASSUME NEW b \in held', NEW p \in PlaneIds
        PROVE  Extent(objs'[b].frags[p]) \subseteq used'[objs'[b].x][p]
    <3>1. Extent(objs[b].frags[p]) \subseteq used[objs[b].x][p] /\ objs[b].x \in RegionIds
      BY <1>7, <1>11 DEF SafeInv, BitsCovered
    <3>2. objs[b].x = o.x /\ p = o.y => Extent(objs[b].frags[p]) \cap e = {}
      BY <1>7 DEF SafeInv, NoOverlap, e
    <3> QED
      BY <3>1, <3>2, <1>7, <1>8
  <2>2. ASSUME NEW w \in RegionIds, NEW p \in PlaneIds, NEW i \in used'[w][p]
        PROVE  \E b \in held' : objs'[b].x = w /\ i \in Extent(objs'[b].frags[p])
    <3>1. i \in used[w][p]
      BY <1>8
    <3>2. PICK b \in held : objs[b].x = w /\ i \in Extent(objs[b].frags[p])
      BY <3>1, <1>10 DEF SafeInv, BitsCovered
    <3>3. b # a
      <4>1. CASE w = o.x /\ p = o.y
        BY <4>1, <3>2, <1>8 DEF e
      <4>2. CASE ~(w = o.x /\ p = o.y)
        BY <4>2, <3>2, <1>3
      <4> QED
        BY <4>1, <4>2
    <3> QED
      BY <3>2, <3>3, <1>6, <1>7
  <2> QED
    BY <2>1, <2>2, <1>10 DEF BitsCovered
<1>15. FoundByAddress'
  <2>1. ASSUME NEW b \in held'
        PROVE  objs'[b].x \in Regions' /\ table'[objs'[b].x][objs'[b].y][objs'[b].z] = b
    <3>1. /\ table[objs[b].x][objs[b].y][objs[b].z] = b /\ objs[b].x \in Regions
          /\ objs[b].x \in RegionIds /\ objs[b].y \in PlaneIds /\ objs[b].z \in Offsets
      BY <1>1, <1>7, <1>11, ObjectTypes DEF SafeInv, FoundByAddress
    <3>2. ~(objs[b].x = o.x /\ objs[b].y = o.y /\ objs[b].z = o.z)
      BY <3>1, <1>2, <1>7
    <3>3. table'[objs[b].x][objs[b].y][objs[b].z] = b
      BY <3>1, <3>2, <1>9
    <3> QED
      BY <3>1, <3>3, <1>7, <1>11
  <2>2. ASSUME NEW w \in RegionIds, NEW p \in PlaneIds, NEW i \in Offsets,
               table'[w][p][i] # NoAlloc
        PROVE  LET b == table'[w][p][i]
               IN  b \in held' /\ objs'[b].x = w /\ objs'[b].y = p /\ objs'[b].z = i
    <3> DEFINE b == table[w][p][i]
    <3>1. table'[w][p][i] = b /\ ~(w = o.x /\ p = o.y /\ i = o.z)
      BY <2>2, <1>9
    <3>2. b \in held /\ objs[b].x = w /\ objs[b].y = p /\ objs[b].z = i
      BY <2>2, <3>1 DEF SafeInv, FoundByAddress
    <3> HIDE DEF b
    <3>3. b # a
      BY <3>1, <3>2
    <3> QED
      BY <3>1, <3>2, <3>3, <1>6, <1>7
  <2> QED
    BY <2>1, <2>2 DEF FoundByAddress
<1>16. HeldInv'
  BY <1>12, <1>13, <1>14, <1>15 DEF HeldInv
<1> QED
  BY <1>1, <1>6, <1>10, <1>16, IdleJob

(* Without an overflow no request panics. *)
LEMMA NoPanicStep ==
    ASSUME Roomy, TypeOK
    PROVE  /\ \A t \in RegionTypes, size \in Sizes : ~FastPanics(t, size)
           /\ ~YPromotionPanics
<1>1. ASSUME NEW t \in RegionTypes, NEW size \in Sizes, FastPanics(t, size)
      PROVE  FALSE
  <2>1. PICK i \in DOMAIN lru, y \in PlaneIds :
           FirstHit(i, y, t, size) /\ Fit(lru[i], y, size) = Panic
    BY <1>1 DEF FastPanics
  <2>2. lru[i] \in RegionIds /\ size \in Nat
    BY AllocatorAssumption DEF TypeOK
  <2>3. Fit(lru[i], y, size) # NoSpace
    BY <2>1 DEF NoSpace, Panic
  <2> QED
    BY <2>1, <2>2, <2>3, FitRun
<1>2. ASSUME YPromotionPanics PROVE FALSE
  <2>1. /\ job.x \in RegionIds /\ job.next \in PlaneIds /\ WantedHere \in Nat
        /\ Fit(job.x, job.next, WantedHere) = Panic
    BY <1>2, InLoopType, AllocatorAssumption DEF YPromotionPanics
  <2>2. Fit(job.x, job.next, WantedHere) # NoSpace
    BY <2>1 DEF NoSpace, Panic
  <2> QED
    BY <2>1, <2>2, FitRun
<1> QED
  BY <1>1, <1>2

(* Every step keeps the invariant, releases of Y-promoted blocks aside. *)
LEMMA SafeNext == Roomy /\ SafeInv /\ [NextPlanes]_vars => SafeInv'
<1> SUFFICES ASSUME Roomy, SafeInv, [NextPlanes]_vars PROVE SafeInv'
  OBVIOUS
<1>1. ASSUME NEW t \in RegionTypes, NEW size \in Sizes, NEW f \in Flags, Allocate(t, size, f)
      PROVE  SafeInv'
  <2>1. ~FastPanics(t, size)
    BY NoPanicStep DEF SafeInv, TypeInv
  <2> QED
    BY <1>1, <2>1, AllocateFastSafe, YPromotionBeginSafe, AllocateNewRegionSafe DEF Allocate
<1>2. CASE Promotion
  <2>1. ~YPromotionPanics
    BY NoPanicStep DEF SafeInv, TypeInv
  <2> QED
    BY <1>2, <2>1, YPromotionTakeSafe, YPromotionSkipSafe, YPromotionCommitSafe,
       YPromotionRollbackSafe DEF Promotion
<1>3. CASE UNCHANGED vars
  <2>1. TypeInv'
    BY <1>3 DEF vars, regionVars, SafeInv, TypeInv, TypeOK, JobCanHold, CanHold, Blank, Regions
  <2>2. UNCHANGED <<nextRegionID, used, table, held, objs, job>> /\ Regions' = Regions
    BY <1>3 DEF vars, regionVars, Regions
  <2>3. Located' /\ WholeInOne' /\ JobApart'
    BY <2>2 DEF SafeInv, Located, WholeInOne, JobApart
  <2>4. NoOverlap'
    BY <2>2 DEF SafeInv, NoOverlap
  <2>5. BitsCovered'
    BY <2>2 DEF SafeInv, BitsCovered
  <2>6. FoundByAddress'
    BY <2>2 DEF SafeInv, FoundByAddress
  <2>7. JobFrags'
    BY <2>2 DEF SafeInv, JobFrags
  <2> QED
    BY <2>1, <2>3, <2>4, <2>5, <2>6, <2>7 DEF SafeInv
<1> QED
  BY <1>1, <1>2, <1>3, FreeSingleSafe, AddPlaneSafe, AllocateInRegionSafe
     DEF NextPlanes, NextVM

(***************************************************************************)
(* The main theorem: with planes of at most half the uint16 range and no   *)
(* empty request, allocations never overlap, the bitmaps show exactly what *)
(* is in use, and each allocation is found by its address, on the fast     *)
(* path, through Y-promotion and its rollback, and in new regions and      *)
(* planes, however many of them there are.                                 *)
(***************************************************************************)
THEOREM AllocatorSafe ==
    ASSUME Roomy
    PROVE  SpecPlanes => [](NoOverlap /\ BitsCovered /\ FoundByAddress)
<1>1. Init => SafeInv
  BY SafeInit
<1>2. SafeInv /\ [NextPlanes]_vars => SafeInv'
  BY SafeNext
<1>3. SafeInv => NoOverlap /\ BitsCovered /\ FoundByAddress
  BY DEF SafeInv
<1> QED
  BY <1>1, <1>2, <1>3, PTL DEF SpecPlanes

(* Its three parts, one by one. First, two allocations in use never share  *)
(* a byte, whichever path of allocator.go granted them.                    *)
THEOREM NoBlocksOverlap ==
    ASSUME Roomy
    PROVE  SpecPlanes => []NoOverlap
BY AllocatorSafe, PTL

(* The bits set in a plane's FreeMap are those of the allocations in use   *)
(* and of the fragments that a running tryYPromotion has taken.            *)
THEOREM BitmapsAreExact ==
    ASSUME Roomy
    PROVE  SpecPlanes => []BitsCovered
BY AllocatorSafe, PTL

(* Plane.Allocations holds the allocations in use, each under its address. *)
THEOREM AddressesAreFound ==
    ASSUME Roomy
    PROVE  SpecPlanes => []FoundByAddress
BY AllocatorSafe, PTL

=============================================================================
