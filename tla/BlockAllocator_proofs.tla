----------------------- MODULE BlockAllocator_proofs ------------------------
(***************************************************************************)
(* What a user of Allocator3D may rely on, for every value of the          *)
(* constants that is Roomy and as long as no Y-promoted block is released: *)
(* it implements BlockAllocator, no step disturbs a block that stays in    *)
(* use, a block has the bytes of its request, FreeBytes is exact, and the  *)
(* virtual machine never makes it create a region that was not needed. All *)
(* rest on the invariant SafeInv of Allocator3D_proofs.                    *)
(***************************************************************************)
EXTENDS Allocator3D_proofs

(* What a step may do to the handles: nothing, one more, or one less. *)
NoHandleMoves == UNCHANGED <<held, objs>>

HandleGiven(id) ==
    /\ id \in AllocIds \ held
    /\ held' = held \cup {id}
    /\ \A b \in held : objs'[b] = objs[b]

HandleTaken(id) ==
    /\ id \in held
    /\ held' = held \ {id}
    /\ \A b \in held' : objs'[b] = objs[b]

HandleStep ==
    \/ NoHandleMoves
    \/ \E id \in AllocIds : HandleGiven(id) \/ HandleTaken(id)

LEMMA GrantHandle ==
    ASSUME TypeOK, CanHold, NEW x, NEW y, NEW z, NEW size, NEW flags, NEW np, NEW free0,
           Grant(x, y, z, size, flags, np, free0)
    PROVE  HandleStep
<1> DEFINE id == FreshID
<1>1. id \in AllocIds \ held
  BY FreshIDIsFree DEF TypeOK
<1>2. held' = held \cup {id} /\ \A b \in held : objs'[b] = objs[b]
  BY <1>1 DEF Grant, TypeOK
<1> HIDE DEF id
<1> QED
  BY <1>1, <1>2 DEF HandleStep, HandleGiven

(* Every action changes the handles in one of these ways. *)
LEMMA StepHandles ==
    ASSUME SafeInv, [NextPlanes]_vars
    PROVE  HandleStep
<1>0. TypeOK /\ JobCanHold
  BY DEF SafeInv, TypeInv
<1>1. ASSUME NEW t \in RegionTypes, NEW size \in Sizes, NEW f \in Flags, Allocate(t, size, f)
      PROVE  HandleStep
  <2>1. CASE AllocateFast(t, size, f)
    BY <2>1, <1>0, GrantHandle DEF AllocateFast
  <2>2. CASE FastPanics(t, size)
    BY <2>2 DEF FastPanics, HandleStep, NoHandleMoves
  <2>3. CASE YPromotionBegin(t, size, f)
    BY <2>3 DEF YPromotionBegin, HandleStep, NoHandleMoves
  <2>4. CASE AllocateNewRegion(t, size, f)
    <3>1. CanHold
      BY <2>4, <1>0 DEF AllocateNewRegion, Missed, JobCanHold
    <3> DEFINE x == nextRegionID + 1
    <3>2. CASE Grant(x, 0, Fit(x, 0, size), size, f, [nplanes EXCEPT ![x] = 1], PlaneSize)
      BY <3>1, <3>2, <1>0, GrantHandle
    <3>3. CASE UNCHANGED <<held, objs>>
      BY <3>3 DEF HandleStep, NoHandleMoves
    <3> QED
      BY <2>4, <3>2, <3>3 DEF AllocateNewRegion
  <2> QED
    BY <1>1, <2>1, <2>2, <2>3, <2>4 DEF Allocate
<1>2. CASE Promotion
  <2>1. CASE YPromotionTake \/ YPromotionSkip \/ YPromotionPanics \/ YPromotionRollback
    BY <2>1 DEF YPromotionTake, YPromotionSkip, YPromotionPanics, YPromotionRollback,
                HandleStep, NoHandleMoves
  <2>2. CASE YPromotionCommit
    <3> DEFINE id == FreshID
    <3>1. CanHold
      BY <2>2, <1>0 DEF YPromotionCommit, JobCanHold
    <3>2. id \in AllocIds \ held
      BY <3>1, <1>0, FreshIDIsFree DEF TypeOK
    <3>3. held' = held \cup {id} /\ \A b \in held : objs'[b] = objs[b]
      BY <2>2, <3>2, <1>0 DEF YPromotionCommit, TypeOK
    <3> HIDE DEF id
    <3> QED
      BY <3>2, <3>3 DEF HandleStep, HandleGiven
  <2> QED
    BY <1>2, <2>1, <2>2 DEF Promotion
<1>3. ASSUME NEW a \in held, FreeSingle(a) PROVE HandleStep
  <2>1. a \in AllocIds
    BY <1>0 DEF TypeOK
  <2>2. held' = held \ {a} /\ \A b \in held' : objs'[b] = objs[b]
    BY <1>0, <1>3 DEF FreeSingle, Release, TypeOK
  <2> QED
    BY <2>1, <2>2 DEF HandleStep, HandleTaken
<1>4. ASSUME NEW x \in RegionIds, AddPlane(x) PROVE HandleStep
  BY <1>4 DEF AddPlane, HandleStep, NoHandleMoves
<1>5. ASSUME NEW x \in RegionIds, NEW size \in Sizes, NEW f \in Flags,
             AllocateInRegion(x, size, f)
      PROVE  HandleStep
  <2>1. CanHold
    BY <1>5 DEF AllocateInRegion
  <2>2. \/ \E y, z, np, fb : Grant(x, y, z, size, f, np, fb)
        \/ UNCHANGED <<held, objs>>
    BY <1>5 DEF AllocateInRegion
  <2> QED
    BY <2>1, <2>2, <1>0, GrantHandle DEF HandleStep, NoHandleMoves
<1>6. CASE UNCHANGED vars
  BY <1>6 DEF vars, HandleStep, NoHandleMoves
<1> QED
  BY <1>1, <1>2, <1>3, <1>4, <1>5, <1>6 DEF NextPlanes, NextVM

-----------------------------------------------------------------------------
(* The cells of a block that is in use: at least one, and none of another's. *)
CellsApart ==
    /\ \A a \in held : CellsOf(a) # {}
    /\ \A a, b \in held : a # b => CellsOf(a) \cap CellsOf(b) = {}
    /\ \A a \in AllocIds \ held : CellsOf(a) = {}
    /\ \A a \in AllocIds : CellsOf(a) \subseteq RegionIds \X PlaneIds \X Offsets

LEMMA HeldCells == SafeInv => CellsApart
<1> SUFFICES ASSUME SafeInv PROVE CellsApart
  OBVIOUS
<1>0. TypeOK
  BY DEF SafeInv, TypeInv
<1>1. ASSUME NEW a \in held PROVE CellsOf(a) # {}
  <2> DEFINE o == objs[a]
  <2>1. /\ o.x \in RegionIds /\ o.y \in PlaneIds /\ o.z \in Offsets
        /\ o.frags[o.y] \in Fragment
        /\ o.frags[o.y].size > 0 /\ o.frags[o.y].start = o.z
    BY <1>0, ObjectTypes DEF SafeInv, Located
  <2>2. o.z \in Extent(o.frags[o.y])
    BY <2>1, FragmentFacts
  <2>3. <<o.x, o.y, o.z>> \in CellsOf(a)
    BY <2>1, <2>2 DEF CellsOf
  <2> QED
    BY <2>3
<1>2. ASSUME NEW a \in held, NEW b \in held, a # b
      PROVE  CellsOf(a) \cap CellsOf(b) = {}
  <2> SUFFICES ASSUME NEW c \in CellsOf(a), c \in CellsOf(b) PROVE FALSE
    OBVIOUS
  <2>1. /\ c[2] \in PlaneIds /\ c[1] = objs[a].x /\ c[1] = objs[b].x
        /\ c[3] \in Extent(objs[a].frags[c[2]]) /\ c[3] \in Extent(objs[b].frags[c[2]])
    BY DEF CellsOf
  <2> QED
    BY <1>2, <2>1 DEF SafeInv, NoOverlap
<1>3. ASSUME NEW a \in AllocIds \ held PROVE CellsOf(a) = {}
  BY DEF CellsOf
<1>4. \A a \in AllocIds : CellsOf(a) \subseteq RegionIds \X PlaneIds \X Offsets
  BY DEF CellsOf
<1> QED
  BY <1>1, <1>2, <1>3, <1>4 DEF CellsApart

LEMMA HeldCellsNext == SafeInv' => CellsApart'
  BY HeldCells, PTL

(* A block that stays in use with the same object keeps its cells. *)
LEMMA CellsStay ==
    ASSUME NEW b \in held, b \in held', objs'[b] = objs[b]
    PROVE  CellsOf(b)' = CellsOf(b)
  BY DEF CellsOf

LEMMA BlocksInit == Init => Blocks!Init
<1> SUFFICES ASSUME Init PROVE Blocks!Init
  OBVIOUS
<1>1. held = {}
  BY DEF Init
<1>2. \A a \in AllocIds : CellsOf(a) = {}
  BY <1>1 DEF CellsOf
<1> QED
  BY <1>2 DEF Blocks!Init

(* A step of the allocator, seen through the blocks in use. *)
LEMMA BlocksStep ==
    ASSUME SafeInv, SafeInv', HandleStep
    PROVE  [Blocks!Next]_([a \in AllocIds |-> CellsOf(a)])
<1>0. held \subseteq AllocIds /\ CellsApart /\ CellsApart'
  BY HeldCells, HeldCellsNext DEF SafeInv, TypeInv, TypeOK
<1>1. ASSUME NoHandleMoves
      PROVE  UNCHANGED [a \in AllocIds |-> CellsOf(a)]
  BY <1>1 DEF NoHandleMoves, CellsOf
<1>2. ASSUME NEW id \in AllocIds, HandleGiven(id)
      PROVE  Blocks!Allocate(id)
  <2>1. \A b \in AllocIds : b # id => CellsOf(b)' = CellsOf(b)
    <3> SUFFICES ASSUME NEW b \in AllocIds, b # id PROVE CellsOf(b)' = CellsOf(b)
      OBVIOUS
    <3>1. CASE b \in held
      BY <3>1, <1>2, CellsStay DEF HandleGiven
    <3>2. CASE b \notin held
      BY <3>2, <1>2 DEF HandleGiven, CellsOf
    <3> QED
      BY <3>1, <3>2
  <2>2. CellsOf(id) = {} /\ CellsOf(id)' # {}
    BY <1>0, <1>2 DEF HandleGiven, CellsApart
  <2>3. \A b \in AllocIds : CellsOf(id)' \cap CellsOf(b) = {}
    <3> SUFFICES ASSUME NEW b \in AllocIds PROVE CellsOf(id)' \cap CellsOf(b) = {}
      OBVIOUS
    <3>1. CASE b \in held
      <4>1. b # id /\ b \in held' /\ id \in held'
        BY <3>1, <1>2 DEF HandleGiven
      <4>2. CellsOf(id)' \cap CellsOf(b)' = {}
        BY <4>1, <1>0 DEF CellsApart
      <4> QED
        BY <4>1, <4>2, <2>1
    <3>2. CASE b \notin held
      BY <3>2, <1>0 DEF CellsApart
    <3> QED
      BY <3>1, <3>2
  <2>4. \A b \in AllocIds : CellsOf(b)' \in SUBSET (RegionIds \X PlaneIds \X Offsets)
    BY <1>0 DEF CellsApart
  <2> QED
    BY <2>1, <2>2, <2>3, <2>4 DEF Blocks!Allocate, Blocks!OthersStay
<1>3. ASSUME NEW id \in AllocIds, HandleTaken(id)
      PROVE  Blocks!Free(id)
  <2>1. \A b \in AllocIds : b # id => CellsOf(b)' = CellsOf(b)
    <3> SUFFICES ASSUME NEW b \in AllocIds, b # id PROVE CellsOf(b)' = CellsOf(b)
      OBVIOUS
    <3>1. CASE b \in held
      BY <3>1, <1>3, CellsStay DEF HandleTaken
    <3>2. CASE b \notin held
      BY <3>2, <1>3 DEF HandleTaken, CellsOf
    <3> QED
      BY <3>1, <3>2
  <2>2. CellsOf(id) # {} /\ CellsOf(id)' = {}
    BY <1>0, <1>3 DEF HandleTaken, CellsApart
  <2> QED
    BY <2>1, <2>2 DEF Blocks!Free
<1> QED
  BY <1>1, <1>2, <1>3 DEF HandleStep, Blocks!Next

(***************************************************************************)
(* Whatever a request does on its way (fragments taken and given back,     *)
(* regions and planes added), the allocator implements the block           *)
(* allocator: for any number of regions, planes, sizes and requests.       *)
(***************************************************************************)
THEOREM AllocatorImplementsBlocks ==
    ASSUME Roomy
    PROVE  SpecPlanes => ImplementsBlocks
<1>1. Init => SafeInv /\ Blocks!Init
  BY SafeInit, BlocksInit
<1>2. SafeInv /\ [NextPlanes]_vars => SafeInv'
  BY SafeNext
<1>3. SafeInv /\ SafeInv' /\ [NextPlanes]_vars
         => [Blocks!Next]_([a \in AllocIds |-> CellsOf(a)])
  BY StepHandles, BlocksStep
<1> QED
  BY <1>1, <1>2, <1>3, PTL DEF SpecPlanes, ImplementsBlocks, Blocks!Spec

-----------------------------------------------------------------------------
(* From the invariant before and after a step, blocks that stay in use are *)
(* left alone: their bytes are still marked in the bitmaps.                *)
LEMMA KeptStep ==
    ASSUME SafeInv, SafeInv', HandleStep, NEW a \in held \cap held'
    PROVE  /\ objs'[a] = objs[a]
           /\ objs[a].x # 0 => \A y \in PlaneIds :
                 used[objs[a].x][y] \cap Extent(objs[a].frags[y])
                     \subseteq used'[objs[a].x][y]
<1>1. objs'[a] = objs[a]
  BY DEF HandleStep, NoHandleMoves, HandleGiven, HandleTaken
<1>2. objs'[a].x # 0 => \A y \in PlaneIds :
         Extent(objs'[a].frags[y]) \subseteq used'[objs'[a].x][y]
  BY DEF SafeInv, BitsCovered
<1> QED
  BY <1>1, <1>2

(* No request clears a bit of, moves or shrinks an allocation of another. *)
THEOREM OthersUndisturbed ==
    ASSUME Roomy
    PROVE  SpecPlanes => OthersKept
<1>1. Init => SafeInv
  BY SafeInit
<1>2. SafeInv /\ [NextPlanes]_vars => SafeInv'
  BY SafeNext
<1> DEFINE Kept == \A a \in held \cap held' :
              /\ objs'[a] = objs[a]
              /\ objs[a].x # 0 => \A y \in PlaneIds :
                    used[objs[a].x][y] \cap Extent(objs[a].frags[y])
                        \subseteq used'[objs[a].x][y]
<1>3. SafeInv /\ SafeInv' /\ [NextPlanes]_vars => Kept
  BY StepHandles, KeptStep
<1> QED
  BY <1>1, <1>2, <1>3, PTL DEF SpecPlanes, OthersKept

-----------------------------------------------------------------------------
(* How many bytes: lemmas about sets of positions (plane, offset).         *)

(* The positions a family of fragments covers, and the free ones of a      *)
(* region of n planes with the bitmaps u.                                  *)
Slots(F) == {c \in PlaneIds \X Offsets : c[2] \in Extent(F[c[1]])}

FreeIn(u, n) == {c \in PlaneIds \X Offsets : c[1] < n /\ c[2] \notin u[c[1]]}

LEMMA GridPart ==
    ASSUME NEW S \in SUBSET (PlaneIds \X Offsets)
    PROVE  /\ IsFiniteSet(S) /\ Cardinality(S) \in Nat
           /\ Cardinality(S) < U64
<1>1. MaxPlanes \in Nat \ {0} /\ PlaneSize \in Nat \ {0} /\ U64 \in Nat
      /\ MaxPlanes * PlaneSize < U64
  BY AllocatorAssumption
<1>2. IsFiniteSet(PlaneIds) /\ Cardinality(PlaneIds) = MaxPlanes
  BY <1>1, FS_Interval DEF PlaneIds
<1>3. IsFiniteSet(Offsets) /\ Cardinality(Offsets) = PlaneSize
  BY <1>1, FS_Interval DEF Offsets
<1>4. /\ IsFiniteSet(PlaneIds \X Offsets)
      /\ Cardinality(PlaneIds \X Offsets) = MaxPlanes * PlaneSize
  BY <1>2, <1>3, FS_Product
<1>5. IsFiniteSet(S) /\ Cardinality(S) <= MaxPlanes * PlaneSize
  BY <1>4, FS_Subset
<1>6. Cardinality(S) \in Nat
  BY <1>5, FS_CardinalityType
<1>7. MaxPlanes * PlaneSize \in Nat
  BY <1>1
<1>. QED
  BY <1>1, <1>5, <1>6, <1>7

LEMMA Apart ==
    ASSUME NEW S \in SUBSET (PlaneIds \X Offsets), NEW T \in SUBSET (PlaneIds \X Offsets),
           S \cap T = {}
    PROVE  Cardinality(S \cup T) = Cardinality(S) + Cardinality(T)
<1>1. IsFiniteSet(S) /\ IsFiniteSet(T) /\ Cardinality(S) \in Nat /\ Cardinality(T) \in Nat
  BY GridPart
<1>2. Cardinality(S \cup T) = Cardinality(S) + Cardinality(T) - Cardinality(S \cap T)
  BY <1>1, FS_Union
<1>3. Cardinality(S \cap T) = 0
  BY FS_EmptySet
<1>. QED
  BY <1>1, <1>2, <1>3

LEMMA RowSize ==
    ASSUME NEW y \in PlaneIds, NEW e \in SUBSET Offsets
    PROVE  /\ ({y} \X e) \in SUBSET (PlaneIds \X Offsets)
           /\ Cardinality({y} \X e) = Cardinality(e)
<1>1. IsFiniteSet(Offsets)
  BY FS_Interval, AllocatorAssumption DEF Offsets
<1>2. IsFiniteSet(e) /\ Cardinality(e) \in Nat
  BY <1>1, FS_Subset, FS_CardinalityType
<1>3. IsFiniteSet({y}) /\ Cardinality({y}) = 1
  BY FS_Singleton
<1>4. Cardinality({y} \X e) = Cardinality({y}) * Cardinality(e)
  BY <1>2, <1>3, FS_Product
<1>. QED
  BY <1>2, <1>3, <1>4

LEMMA RunSize ==
    ASSUME NEW f \in Fragment
    PROVE  Cardinality(Extent(f)) = f.size
<1>1. f.start \in Int /\ f.size \in Nat /\ f.start + f.size - 1 \in Int
  BY FragmentFacts
<1>2. CASE f.size = 0
  BY <1>2, FragmentFacts, FS_EmptySet
<1>3. CASE f.size # 0
  <2>. DEFINE i == f.start
              j == f.start + f.size - 1
  <2>1. i \in Int /\ j \in Int /\ ~(i > j) /\ j - i + 1 = f.size
    BY <1>1, <1>3
  <2>2. Extent(f) = i .. j
    BY DEF Extent
  <2>. HIDE DEF i, j
  <2>3. Cardinality(i .. j) = IF i > j THEN 0 ELSE j - i + 1
    BY <2>1, FS_Interval
  <2>. QED
    BY <2>1, <2>2, <2>3
<1>. QED
  BY <1>2, <1>3

LEMMA SlotsNone ==
    ASSUME NEW F, \A p \in PlaneIds : Extent(F[p]) = {}
    PROVE  Cardinality(Slots(F)) = 0
<1>1. Slots(F) = {}
  BY DEF Slots
<1>. QED
  BY <1>1, FS_EmptySet

(* One more fragment, in a plane where there was none. *)
LEMMA SlotsAdd ==
    ASSUME NEW F, NEW G, NEW n \in PlaneIds, G[n] \in Fragment,
           Extent(G[n]) \subseteq Offsets, Extent(F[n]) = {},
           \A p \in PlaneIds : p # n => G[p] = F[p]
    PROVE  Cardinality(Slots(G)) = Cardinality(Slots(F)) + G[n].size
<1>. DEFINE row == {n} \X Extent(G[n])
<1>1. Slots(G) = Slots(F) \cup row
  BY DEF Slots
<1>2. Slots(F) \cap row = {}
  BY DEF Slots
<1>3. row \in SUBSET (PlaneIds \X Offsets) /\ Cardinality(row) = G[n].size
  BY RowSize, RunSize
<1>4. Slots(F) \in SUBSET (PlaneIds \X Offsets)
  BY DEF Slots
<1>. HIDE DEF row
<1>. QED
  BY <1>1, <1>2, <1>3, <1>4, Apart

LEMMA FreeSame ==
    ASSUME NEW u, NEW v, NEW n, \A p \in PlaneIds : v[p] = u[p]
    PROVE  FreeIn(v, n) = FreeIn(u, n)
  BY DEF FreeIn

(* A run is taken from one plane. *)
LEMMA FreeTaken ==
    ASSUME NEW u, NEW v, NEW n, NEW y \in PlaneIds, y < n,
           NEW e \in SUBSET Offsets, e \cap u[y] = {}, v[y] = u[y] \cup e,
           \A p \in PlaneIds : p # y => v[p] = u[p]
    PROVE  Cardinality(FreeIn(u, n)) = Cardinality(FreeIn(v, n)) + Cardinality(e)
<1>. DEFINE row == {y} \X e
<1>1. FreeIn(u, n) = FreeIn(v, n) \cup row
  BY DEF FreeIn
<1>2. FreeIn(v, n) \cap row = {}
  BY DEF FreeIn
<1>3. row \in SUBSET (PlaneIds \X Offsets) /\ Cardinality(row) = Cardinality(e)
  BY RowSize
<1>4. FreeIn(v, n) \in SUBSET (PlaneIds \X Offsets)
  BY DEF FreeIn
<1>. HIDE DEF row
<1>. QED
  BY <1>1, <1>2, <1>3, <1>4, Apart

(* A plane is added. *)
LEMMA FreePlane ==
    ASSUME NEW u, NEW n \in PlaneIds, u[n] = {}
    PROVE  Cardinality(FreeIn(u, n + 1)) = Cardinality(FreeIn(u, n)) + PlaneSize
<1>. DEFINE row == {n} \X Offsets
<1>0. PlaneIds \subseteq Nat /\ n \in Nat
  BY AllocatorAssumption DEF PlaneIds
<1>1. FreeIn(u, n + 1) = FreeIn(u, n) \cup row
  <2>1. \A p \in PlaneIds : p < n + 1 <=> (p < n \/ p = n)
    BY <1>0
  <2>. QED
    BY <2>1 DEF FreeIn
<1>2. FreeIn(u, n) \cap row = {}
  BY <1>0 DEF FreeIn
<1>3. row \in SUBSET (PlaneIds \X Offsets) /\ Cardinality(row) = Cardinality(Offsets)
  BY RowSize
<1>4. Cardinality(Offsets) = PlaneSize
  BY FS_Interval, AllocatorAssumption DEF Offsets
<1>5. FreeIn(u, n) \in SUBSET (PlaneIds \X Offsets)
  BY DEF FreeIn
<1>. HIDE DEF row
<1>. QED
  BY <1>1, <1>2, <1>3, <1>4, <1>5, Apart

(* A family of fragments is given back. *)
LEMMA FreeFamily ==
    ASSUME NEW u, NEW v, NEW n, NEW F,
           \A p \in PlaneIds : v[p] = u[p] \ Extent(F[p]),
           \A p \in PlaneIds : Extent(F[p]) \subseteq u[p],
           \A p \in PlaneIds : u[p] \subseteq Offsets,
           \A p \in PlaneIds : p < n \/ u[p] = {}
    PROVE  Cardinality(FreeIn(v, n)) = Cardinality(FreeIn(u, n)) + Cardinality(Slots(F))
<1>1. FreeIn(v, n) = FreeIn(u, n) \cup Slots(F)
  BY DEF FreeIn, Slots
<1>2. FreeIn(u, n) \cap Slots(F) = {}
  BY DEF FreeIn, Slots
<1>3. /\ FreeIn(u, n) \in SUBSET (PlaneIds \X Offsets)
      /\ Slots(F) \in SUBSET (PlaneIds \X Offsets)
  BY DEF FreeIn, Slots
<1>. QED
  BY <1>1, <1>2, <1>3, Apart

(* The cells of an allocation are the positions of its fragments. *)
LEMMA CellsAreSlots ==
    ASSUME NEW a \in held, objs[a].x \in RegionIds
    PROVE  Cardinality(CellsOf(a)) = Cardinality(Slots(objs[a].frags))
<1>. DEFINE S == Slots(objs[a].frags)
            T == CellsOf(a)
            f == [c \in S |-> <<objs[a].x, c[1], c[2]>>]
<1>1. IsFiniteSet(S)
  BY GridPart DEF Slots
<1>2. \A c \in S : f[c] \in T
  BY DEF Slots, CellsOf
<1>3. \A c, d \in S : f[c] = f[d] => c = d
  BY DEF Slots
<1>4. \A t \in T : \E c \in S : f[c] = t
  <2>. SUFFICES ASSUME NEW t \in T PROVE \E c \in S : f[c] = t
    OBVIOUS
  <2>1. /\ t \in RegionIds \X PlaneIds \X Offsets
        /\ t[1] = objs[a].x /\ t[3] \in Extent(objs[a].frags[t[2]])
    BY DEF CellsOf
  <2>2. <<t[2], t[3]>> \in S
    BY <2>1 DEF Slots
  <2>3. f[<<t[2], t[3]>>] = t
    BY <2>1, <2>2
  <2>. QED
    BY <2>2, <2>3
<1>5. f \in Bijection(S, T)
  <2>1. f \in [S -> T]
    BY <1>2
  <2>. HIDE DEF f, S, T
  <2>. QED
    BY <1>3, <1>4, <2>1 DEF Bijection, Injection, Surjection, IsInjective
<1>6. ExistsBijection(S, T)
  BY <1>5 DEF ExistsBijection
<1>. QED
  BY <1>1, <1>6, FS_Bijection

-----------------------------------------------------------------------------
(***************************************************************************)
(* The inductive invariant: an allocation's fragments cover the bytes of   *)
(* its request; what tryYPromotion has taken and what remains add up to    *)
(* the request; and a region's FreeBytes is ahead of its bitmaps by        *)
(* exactly what the running promotion has taken there, because the loop    *)
(* sets bits and the counter is only changed when the block is complete.   *)
(***************************************************************************)
Granted == \A a \in held : Cardinality(Slots(objs[a].frags)) = objs[a].size

JobGranted ==
    job.stage = "promote" => job.rem + Cardinality(Slots(job.frags)) = job.size

FreeNow(x) == Cardinality(FreeIn(used[x], nplanes[x]))

Promised(x) == IF job.x = x THEN Cardinality(Slots(job.frags)) ELSE 0

Counted == \A x \in RegionIds : freeBytes[x] = FreeNow(x) + Promised(x)

AccountInv == SafeInv /\ Granted /\ JobGranted /\ Counted

LEMMA NoneTaken ==
    ASSUME NEW F, \A p \in PlaneIds : F[p] \in Fragment /\ F[p].size = 0
    PROVE  Cardinality(Slots(F)) = 0
<1>1. \A p \in PlaneIds : Extent(F[p]) = {}
  BY FragmentFacts
<1>. QED
  BY <1>1, SlotsNone

(* The bits of a run that Fit found. *)
LEMMA TakenIs ==
    ASSUME TypeOK, NEW x \in RegionIds, NEW y \in PlaneIds, NEW z \in Offsets,
           NEW size \in Nat, z + size <= PlaneSize, AddU16(z, size) = z + size,
           \A i \in used[x][y] : i < z \/ i >= z + size
    PROVE  LET run == [start |-> z, size |-> size]
           IN  /\ run \in Fragment /\ Extent(run) \in SUBSET Offsets
               /\ Extent(run) \cap used[x][y] = {}
               /\ Taken(x, y, z, size) = used[x][y] \cup Extent(run)
               /\ Cardinality(Extent(run)) = size
<1>. DEFINE run == [start |-> z, size |-> size]
<1>0. z \in Nat /\ PlaneSize \in Nat /\ used[x][y] \subseteq Nat
  BY AllocatorAssumption DEF Offsets, TypeOK
<1>1. run \in Fragment /\ run.size = size /\ run.start = z
  BY <1>0 DEF Fragment
<1>2. \A i : i \in Extent(run) <=> i \in Nat /\ z <= i /\ i < z + size
  BY <1>1, FragmentFacts
<1>3. Cardinality(Extent(run)) = size
  BY <1>1, RunSize
<1>. HIDE DEF run
<1>4. Extent(run) \in SUBSET Offsets
  BY <1>0, <1>2 DEF Offsets
<1>5. Extent(run) \cap used[x][y] = {}
  BY <1>0, <1>2
<1>6. Taken(x, y, z, size) = used[x][y] \cup Extent(run)
  <2>1. Taken(x, y, z, size)
           = used[x][y] \cup {i \in 0 .. (PlaneSize - 1) : z <= i /\ i < z + size}
    BY DEF Taken, SetRange
  <2>2. {i \in 0 .. (PlaneSize - 1) : z <= i /\ i < z + size} = Extent(run)
    BY <1>0, <1>2
  <2>. QED
    BY <2>1, <2>2, Zenon
<1>. QED
  BY <1>1, <1>3, <1>4, <1>5, <1>6 DEF run

(***************************************************************************)
(* A block placed in one plane. np and free0 are the planes and the bytes  *)
(* of the region before it, with a plane that this very step adds.         *)
(***************************************************************************)
LEMMA GrantAccount ==
    ASSUME AccountInv, TypeOK', CanHold,
           NEW x \in RegionIds, NEW y \in PlaneIds, NEW z \in Offsets,
           NEW size \in Sizes, NEW flags \in Flags, NEW np, NEW free0,
           size > 0, z + size <= PlaneSize, AddU16(z, size) = z + size,
           \A i \in used[x][y] : i < z \/ i >= z + size,
           \A p \in PlaneIds : job.frags[p].size = 0,
           \A p \in PlaneIds : job'.frags[p].size = 0,
           job'.stage # "promote",
           y < np[x], \A w \in RegionIds : w # x => np[w] = nplanes[w],
           free0 = Cardinality(FreeIn(used[x], np[x])),
           Grant(x, y, z, size, flags, np, free0)
    PROVE  Granted' /\ JobGranted' /\ Counted'
<1>. DEFINE id == FreshID
            run == [start |-> z, size |-> size]
            o == [x |-> x, y |-> y, z |-> z, size |-> size, flags |-> flags,
                  frags |-> OneRun(y, z, size)]
<1>t. TypeOK /\ SafeInv /\ size \in Nat
  BY AllocatorAssumption DEF AccountInv, SafeInv, TypeInv
<1>0. id \in AllocIds \ held
  BY <1>t, FreshIDIsFree DEF TypeOK
<1>1. /\ held' = held \cup {id} /\ objs' = [objs EXCEPT ![id] = o]
      /\ used' = [used EXCEPT ![x][y] = Taken(x, y, z, size)]
      /\ nplanes' = np /\ freeBytes' = [freeBytes EXCEPT ![x] = SubSize(free0, size)]
  BY DEF Grant
<1>2. objs'[id] = o /\ \A a \in held : objs'[a] = objs[a]
  BY <1>0, <1>1, <1>t DEF TypeOK
<1>3. /\ run \in Fragment /\ Extent(run) \in SUBSET Offsets
      /\ Extent(run) \cap used[x][y] = {}
      /\ Taken(x, y, z, size) = used[x][y] \cup Extent(run)
      /\ Cardinality(Extent(run)) = size
  BY <1>t, TakenIs
<1>4. /\ o.size = size /\ o.frags[y] = run /\ run.size = size
      /\ \A p \in PlaneIds : p # y => o.frags[p] = NoFragment
  BY DEF OneRun
<1>. HIDE DEF id, run, o
<1>5. Cardinality(Slots(o.frags)) = size
  <2>. DEFINE none == [p \in PlaneIds |-> NoFragment]
  <2>1. \A p \in PlaneIds : none[p] = NoFragment /\ Extent(none[p]) = {}
    BY DEF NoFragment, Extent
  <2>2. Cardinality(Slots(none)) = 0
    BY <2>1, SlotsNone
  <2>. HIDE DEF none
  <2>3. Cardinality(Slots(o.frags)) = Cardinality(Slots(none)) + size
    BY <1>3, <1>4, <2>1, SlotsAdd
  <2>. QED
    BY <1>t, <2>2, <2>3
<1>6. Granted'
  BY <1>1, <1>2, <1>4, <1>5 DEF AccountInv, Granted
<1>8. Cardinality(Slots(job.frags)) = 0 /\ Cardinality(Slots(job'.frags)) = 0
  <2>1. \A p \in PlaneIds : job.frags[p] \in Fragment /\ job'.frags[p] \in Fragment
    BY <1>t DEF TypeOK, Job
  <2>. QED
    BY <2>1, NoneTaken
<1>9. ASSUME NEW w \in RegionIds
      PROVE  freeBytes'[w] = Cardinality(FreeIn(used'[w], nplanes'[w]))
  <2>1. CASE w # x
    <3>1. freeBytes[w] = Cardinality(FreeIn(used[w], nplanes[w])) + 0
      BY <1>8 DEF AccountInv, Counted, FreeNow, Promised
    <3>2. freeBytes'[w] = freeBytes[w] /\ used'[w] = used[w] /\ nplanes'[w] = nplanes[w]
      BY <1>1, <1>t, <2>1 DEF TypeOK
    <3>3. freeBytes[w] \in Int
      BY <1>t DEF TypeOK
    <3>4. Cardinality(FreeIn(used[w], nplanes[w])) \in Nat
      BY GridPart DEF FreeIn
    <3>. QED
      BY <3>1, <3>2, <3>3, <3>4
  <2>2. CASE w = x
    <3>1. /\ used'[x][y] = used[x][y] \cup Extent(run)
          /\ \A p \in PlaneIds : p # y => used'[x][p] = used[x][p]
          /\ nplanes'[x] = np[x] /\ freeBytes'[x] = SubSize(free0, size)
      BY <1>1, <1>3, <1>t DEF TypeOK
    <3>2. Cardinality(FreeIn(used[x], np[x]))
            = Cardinality(FreeIn(used'[x], np[x])) + size
      BY <1>3, <3>1, FreeTaken
    <3>3. Cardinality(FreeIn(used'[x], np[x])) \in Nat
      BY GridPart DEF FreeIn
    <3>4. SubSize(free0, size) = Cardinality(FreeIn(used'[x], np[x]))
      BY <1>t, <3>2, <3>3 DEF SubSize, SubU64
    <3>. QED
      BY <2>2, <3>1, <3>4
  <2>. QED
    BY <2>1, <2>2
<1>10. Counted'
  <2>1. \A w \in RegionIds : Cardinality(FreeIn(used'[w], nplanes'[w])) \in Nat
    BY GridPart DEF FreeIn
  <2>. QED
    BY <1>8, <1>9, <2>1 DEF Counted, FreeNow, Promised
<1>11. JobGranted'
  BY DEF JobGranted
<1>. QED
  BY <1>6, <1>10, <1>11

(* What the invariant says of a moment when no promotion is running. *)
LEMMA NothingPromised ==
    ASSUME AccountInv, job.stage # "promote"
    PROVE  /\ \A p \in PlaneIds : job.frags[p].size = 0
           /\ Cardinality(Slots(job.frags)) = 0
           /\ \A x \in RegionIds : /\ freeBytes[x] = Cardinality(FreeIn(used[x], nplanes[x]))
                                  /\ freeBytes[x] \in Nat /\ freeBytes[x] < U64
<1>1. \A p \in PlaneIds : job.frags[p].size = 0
  BY DEF AccountInv, SafeInv, JobFrags
<1>2. \A p \in PlaneIds : job.frags[p] \in Fragment
  BY ObjectTypes DEF AccountInv, SafeInv, TypeInv
<1>3. Cardinality(Slots(job.frags)) = 0
  BY <1>1, <1>2, NoneTaken
<1>4. \A x \in RegionIds : /\ Cardinality(FreeIn(used[x], nplanes[x])) \in Nat
                           /\ Cardinality(FreeIn(used[x], nplanes[x])) < U64
  BY GridPart DEF FreeIn
<1>. QED
  BY <1>1, <1>3, <1>4 DEF AccountInv, Counted, FreeNow, Promised

(* The counter's value once region x gets the empty plane n. *)
LEMMA PlaneCounted ==
    ASSUME AccountInv, job.stage # "promote", NEW x \in RegionIds, nplanes[x] < MaxPlanes
    PROVE  /\ nplanes[x] \in PlaneIds
           /\ AddU64(freeBytes[x], PlaneSize)
                 = Cardinality(FreeIn(used[x], nplanes[x] + 1))
<1>0. TypeOK /\ Blank
  BY DEF AccountInv, SafeInv, TypeInv
<1>1. nplanes[x] \in PlaneIds
  BY <1>0, AllocatorAssumption DEF TypeOK, PlaneIds
<1>2. used[x][nplanes[x]] = {}
  BY <1>0, <1>1, AllocatorAssumption DEF Blank, PlaneIds
<1>3. Cardinality(FreeIn(used[x], nplanes[x] + 1))
        = Cardinality(FreeIn(used[x], nplanes[x])) + PlaneSize
  BY <1>1, <1>2, FreePlane
<1>4. freeBytes[x] = Cardinality(FreeIn(used[x], nplanes[x])) /\ freeBytes[x] \in Nat
  BY NothingPromised
<1>5. Cardinality(FreeIn(used[x], nplanes[x] + 1)) < U64
  BY GridPart DEF FreeIn
<1>6. U64 \in Nat /\ PlaneSize \in Nat
  BY AllocatorAssumption
<1>. QED
  BY <1>1, <1>3, <1>4, <1>5, <1>6 DEF AddU64

(* A step that does nothing but add a plane. *)
LEMMA PlaneAccount ==
    ASSUME AccountInv, TypeOK', job.stage # "promote", job'.stage # "promote",
           \A p \in PlaneIds : job'.frags[p].size = 0,
           NEW x \in RegionIds, nplanes[x] < MaxPlanes,
           nplanes' = [nplanes EXCEPT ![x] = nplanes[x] + 1],
           freeBytes' = [freeBytes EXCEPT ![x] = AddU64(freeBytes[x], PlaneSize)],
           UNCHANGED <<used, held, objs>>
    PROVE  Granted' /\ JobGranted' /\ Counted'
<1>0. TypeOK
  BY DEF AccountInv, SafeInv, TypeInv
<1>1. Granted' /\ JobGranted'
  BY DEF AccountInv, Granted, JobGranted
<1>2. Cardinality(Slots(job'.frags)) = 0
  <2>1. \A p \in PlaneIds : job'.frags[p] \in Fragment
    BY DEF TypeOK, Job
  <2>. QED
    BY <2>1, NoneTaken
<1>3. ASSUME NEW w \in RegionIds
      PROVE  freeBytes'[w] = Cardinality(FreeIn(used'[w], nplanes'[w]))
  <2>1. CASE w # x
    BY <1>0, <2>1, NothingPromised DEF TypeOK
  <2>2. CASE w = x
    <3>1. nplanes'[x] = nplanes[x] + 1 /\ freeBytes'[x] = AddU64(freeBytes[x], PlaneSize)
      BY <1>0 DEF TypeOK
    <3>. QED
      BY <2>2, <3>1, PlaneCounted
  <2>. QED
    BY <2>1, <2>2
<1>4. \A w \in RegionIds : Cardinality(FreeIn(used'[w], nplanes'[w])) \in Nat
  BY GridPart DEF FreeIn
<1>5. Counted'
  BY <1>2, <1>3, <1>4 DEF Counted, FreeNow, Promised
<1>. QED
  BY <1>1, <1>5

LEMMA AllocateFastAccount ==
    ASSUME Roomy, AccountInv, SafeInv', NEW t \in RegionTypes, NEW size \in Sizes,
           NEW f \in Flags, AllocateFast(t, size, f)
    PROVE  AccountInv'
<1>1. PICK i \in DOMAIN lru, y \in PlaneIds :
         /\ FirstHit(i, y, t, size)
         /\ Fit(lru[i], y, size) # Panic
         /\ Grant(lru[i], y, Fit(lru[i], y, size), size, 0, nplanes, freeBytes[lru[i]])
  BY DEF AllocateFast
<1>2. TypeOK /\ TypeOK' /\ size \in Nat /\ 0 \in Flags
  BY AllocatorAssumption DEF AccountInv, SafeInv, TypeInv
<1>3. lru[i] \in RegionIds
  BY <1>2 DEF TypeOK
<1>4. Fit(lru[i], y, size) # NoSpace /\ y < nplanes[lru[i]]
  BY <1>1 DEF FirstHit, FastHit
<1>5. job' = job /\ job.stage # "promote" /\ CanHold
  BY DEF AllocateFast, Idle
<1>6. /\ \A p \in PlaneIds : job.frags[p].size = 0
      /\ freeBytes[lru[i]] = Cardinality(FreeIn(used[lru[i]], nplanes[lru[i]]))
  BY <1>3, <1>5, NothingPromised
<1>7. LET z == Fit(lru[i], y, size)
      IN  /\ z \in Offsets /\ size > 0 /\ z + size <= PlaneSize
          /\ AddU16(z, size) = z + size
          /\ \A k \in used[lru[i]][y] : k < z \/ k >= z + size
  BY <1>2, <1>3, <1>4, FitRun
<1>8. Granted' /\ JobGranted' /\ Counted'
  BY <1>1, <1>2, <1>3, <1>4, <1>5, <1>6, <1>7, GrantAccount
<1>. QED
  BY <1>8 DEF AccountInv

LEMMA AllocateNewRegionAccount ==
    ASSUME Roomy, AccountInv, SafeInv', NEW t \in RegionTypes, NEW size \in Sizes,
           NEW f \in Flags, AllocateNewRegion(t, size, f)
    PROVE  AccountInv'
<1>. DEFINE x == nextRegionID + 1
            np == [nplanes EXCEPT ![x] = 1]
<1>1. /\ TypeOK /\ TypeOK' /\ TypeInv /\ size \in Nat /\ 0 \in PlaneIds
      /\ PlaneSize \in Nat /\ MaxPlanes \in Nat \ {0}
  BY ConstantRange, AllocatorAssumption DEF AccountInv, SafeInv, TypeInv
<1>2. x \in RegionIds /\ job' = NoJob
  BY DEF AllocateNewRegion
<1>3. CanHold /\ job.stage # "promote"
  BY <1>1 DEF AllocateNewRegion, Missed, TypeInv, JobCanHold, Idle
<1>4. job'.stage # "promote" /\ \A p \in PlaneIds : job'.frags[p].size = 0
  BY <1>2, NoJobEmpty
<1>5. /\ \A p \in PlaneIds : job.frags[p].size = 0
      /\ freeBytes[x] = Cardinality(FreeIn(used[x], nplanes[x]))
  BY <1>2, <1>3, NothingPromised
<1>6. nplanes[x] = 0
  <2>1. x \notin Regions
    BY <1>1 DEF Regions, TypeOK
  <2>. QED
    BY <1>1, <1>2, <2>1 DEF TypeInv, Blank
<1>. HIDE DEF x
<1>7. freeBytes[x] = 0
  <2>1. FreeIn(used[x], 0) = {}
    BY AllocatorAssumption DEF FreeIn, PlaneIds
  <2>. QED
    BY <1>5, <1>6, <2>1, FS_EmptySet
<1>8. AddU64(freeBytes[x], PlaneSize) = PlaneSize
  <2>1. PlaneSize < U64 /\ U64 \in Nat
    BY <1>1, ConstantRange, AllocatorAssumption
  <2>. QED
    BY <1>1, <1>7, <2>1 DEF AddU64
<1>9. PlaneSize = Cardinality(FreeIn(used[x], 1))
  BY <1>1, <1>2, <1>3, <1>6, <1>8, PlaneCounted
<1>10. Granted' /\ JobGranted' /\ Counted'
  <2>1. CASE Fits(x, 0, size) /\ Grant(x, 0, Fit(x, 0, size), size, f, np, PlaneSize)
    <3>1. Fit(x, 0, size) # NoSpace
      BY <2>1 DEF Fits
    <3>2. LET z == Fit(x, 0, size)
          IN  /\ z \in Offsets /\ size > 0 /\ z + size <= PlaneSize
              /\ AddU16(z, size) = z + size
              /\ \A k \in used[x][0] : k < z \/ k >= z + size
      BY <1>1, <1>2, <3>1, FitRun
    <3>3. np[x] = 1 /\ 0 < np[x] /\ \A w \in RegionIds : w # x => np[w] = nplanes[w]
      BY <1>1, <1>2 DEF TypeOK
    <3>4. PlaneSize = Cardinality(FreeIn(used[x], np[x]))
      BY <1>9, <3>3
    <3>. HIDE DEF np
    <3>. QED
      BY <1>1, <1>2, <1>3, <1>4, <1>5, <2>1, <3>2, <3>3, <3>4, GrantAccount
  <2>2. CASE /\ nplanes' = np /\ freeBytes' = [freeBytes EXCEPT ![x] = PlaneSize]
             /\ UNCHANGED <<used, held, objs>>
    <3>1. nplanes[x] < MaxPlanes /\ np = [nplanes EXCEPT ![x] = nplanes[x] + 1]
      BY <1>1, <1>6
    <3>. QED
      BY <1>1, <1>2, <1>3, <1>4, <1>8, <2>2, <3>1, PlaneAccount
  <2>. QED
    BY <2>1, <2>2 DEF AllocateNewRegion, x, np
<1>. QED
  BY <1>10 DEF AccountInv

LEMMA AllocateInRegionAccount ==
    ASSUME Roomy, AccountInv, SafeInv', NEW x \in RegionIds, NEW size \in Sizes,
           NEW f \in Flags, AllocateInRegion(x, size, f)
    PROVE  AccountInv'
<1>1. TypeOK /\ TypeOK' /\ size \in Nat
  BY AllocatorAssumption DEF AccountInv, SafeInv, TypeInv
<1>2. job' = job /\ job.stage # "promote" /\ CanHold
  BY DEF AllocateInRegion, Idle
<1>3. /\ \A p \in PlaneIds : job.frags[p].size = 0
      /\ freeBytes[x] = Cardinality(FreeIn(used[x], nplanes[x]))
  BY <1>2, NothingPromised
<1>4. ASSUME NEW y \in PlaneIds, NEW np, NEW fb, Fits(x, y, size), y < np[x],
             \A w \in RegionIds : w # x => np[w] = nplanes[w],
             fb = Cardinality(FreeIn(used[x], np[x])),
             Grant(x, y, Fit(x, y, size), size, f, np, fb)
      PROVE  Granted' /\ JobGranted' /\ Counted'
  <2>1. LET z == Fit(x, y, size)
        IN  /\ z \in Offsets /\ size > 0 /\ z + size <= PlaneSize
            /\ AddU16(z, size) = z + size
            /\ \A k \in used[x][y] : k < z \/ k >= z + size
    BY <1>1, <1>4, FitRun DEF Fits
  <2>. QED
    BY <1>1, <1>2, <1>3, <1>4, <2>1, GrantAccount
<1>5. Granted' /\ JobGranted' /\ Counted'
  <2>1. CASE \E y \in PlaneIds :
                InRegionHit(x, y, size)
                /\ Grant(x, y, Fit(x, y, size), size, f, nplanes, freeBytes[x])
    BY <1>3, <1>4, <2>1 DEF InRegionHit
  <2>0. \A y \in PlaneIds : InRegionHit(x, y, size) => Fit(x, y, size) # Panic
    BY <1>1, FitRun DEF InRegionHit, Fits
  <2>2. CASE nplanes[x] < MaxPlanes
    <3>. DEFINE y == nplanes[x]
                np == [nplanes EXCEPT ![x] = @ + 1]
                fb == AddU64(freeBytes[x], PlaneSize)
    <3>1. y \in PlaneIds /\ fb = Cardinality(FreeIn(used[x], y + 1))
      BY <1>2, <2>2, PlaneCounted
    <3>2. /\ np[x] = y + 1 /\ y < np[x] /\ np = [nplanes EXCEPT ![x] = nplanes[x] + 1]
          /\ \A w \in RegionIds : w # x => np[w] = nplanes[w]
      BY <1>1 DEF TypeOK
    <3>. HIDE DEF y, np, fb
    <3>3. CASE Fits(x, y, size) /\ Grant(x, y, Fit(x, y, size), size, f, np, fb)
      BY <1>4, <3>1, <3>2, <3>3
    <3>4. CASE /\ nplanes' = np /\ freeBytes' = [freeBytes EXCEPT ![x] = fb]
               /\ UNCHANGED <<used, held, objs>>
      BY <1>1, <1>2, <1>3, <2>2, <3>2, <3>4, PlaneAccount DEF fb
    <3>. QED
      BY <2>0, <2>1, <3>3, <3>4 DEF AllocateInRegion, y, np, fb
  <2>. QED
    BY <2>0, <2>1, <2>2 DEF AllocateInRegion
<1>. QED
  BY <1>5 DEF AccountInv

LEMMA AddPlaneAccount ==
    ASSUME AccountInv, SafeInv', NEW x \in RegionIds, AddPlane(x)
    PROVE  AccountInv'
<1>1. TypeOK' /\ job' = job /\ job.stage # "promote" /\ nplanes[x] < MaxPlanes
  BY DEF AddPlane, Idle, SafeInv, TypeInv
<1>2. \A p \in PlaneIds : job.frags[p].size = 0
  BY <1>1, NothingPromised
<1>3. Granted' /\ JobGranted' /\ Counted'
  BY <1>1, <1>2, PlaneAccount DEF AddPlane
<1>. QED
  BY <1>3 DEF AccountInv

LEMMA YPromotionBeginAccount ==
    ASSUME AccountInv, SafeInv', NEW t \in RegionTypes, NEW size \in Sizes,
           NEW f \in Flags, YPromotionBegin(t, size, f)
    PROVE  AccountInv'
<1>1. /\ job.stage # "promote"
      /\ UNCHANGED <<nplanes, freeBytes, used, held, objs>>
  BY DEF YPromotionBegin, Idle, regionVars
<1>2. /\ job'.rem = size /\ job'.size = size /\ size \in Nat
      /\ \A p \in PlaneIds : job'.frags[p] = NoFragment
  BY AllocatorAssumption DEF YPromotionBegin
<1>3. Cardinality(Slots(job'.frags)) = 0
  <2>1. \A p \in PlaneIds : Extent(job'.frags[p]) = {}
    BY <1>2 DEF NoFragment, Extent
  <2>. QED
    BY <2>1, SlotsNone
<1>4. Granted' /\ JobGranted'
  BY <1>1, <1>2, <1>3 DEF AccountInv, Granted, JobGranted
<1>5. \A x \in RegionIds : /\ freeBytes'[x] = Cardinality(FreeIn(used'[x], nplanes'[x]))
                           /\ freeBytes'[x] \in Nat
  BY <1>1, NothingPromised
<1>6. Counted'
  BY <1>3, <1>5 DEF Counted, FreeNow, Promised
<1>. QED
  BY <1>4, <1>6 DEF AccountInv

(* One more fragment: the bits are set, the counter is left for later. *)
LEMMA YPromotionTakeAccount ==
    ASSUME Roomy, AccountInv, SafeInv', YPromotionTake
    PROVE  AccountInv'
<1>. DEFINE x == job.x
            n == job.next
            w == WantedHere
            z == Fit(x, n, w)
            run == [start |-> z, size |-> w]
<1>1. TypeOK /\ SafeInv
  BY DEF AccountInv, SafeInv, TypeInv
<1>2. /\ x \in RegionIds /\ n \in PlaneIds /\ job.rem \in Nat
      /\ w \in 0 .. PlaneSize /\ w <= job.rem
  BY <1>1, InLoopType DEF YPromotionTake
<1>3. /\ w \in Nat /\ z \in Offsets /\ w > 0 /\ z + w <= PlaneSize
      /\ AddU16(z, w) = z + w
      /\ \A i \in used[x][n] : i < z \/ i >= z + w
  BY <1>1, <1>2, FitRun, AllocatorAssumption DEF YPromotionTake
<1>4. /\ used' = [used EXCEPT ![x][n] = Taken(x, n, z, w)]
      /\ job' = [job EXCEPT !.rem = @ - w, !.next = @ + 1,
                            !.first = IF @ = -1 THEN n ELSE @, !.frags[n] = run]
      /\ UNCHANGED <<nplanes, freeBytes, held, objs>>
      /\ job.stage = "promote" /\ n < nplanes[x]
  BY DEF YPromotionTake, InLoop
<1>5. /\ run \in Fragment /\ Extent(run) \in SUBSET Offsets
      /\ Extent(run) \cap used[x][n] = {}
      /\ Taken(x, n, z, w) = used[x][n] \cup Extent(run)
      /\ Cardinality(Extent(run)) = w
  BY <1>1, <1>2, <1>3, TakenIs
<1>6. run.size = w /\ job \in Job
  BY <1>1 DEF TypeOK
<1>. HIDE DEF run, z, w
<1>7. /\ job'.x = x /\ job'.stage = "promote" /\ job'.size = job.size
      /\ job'.rem = job.rem - w /\ job'.frags[n] = run
      /\ \A p \in PlaneIds : p # n => job'.frags[p] = job.frags[p]
  BY <1>2, <1>4, <1>6 DEF Job
<1>8. /\ used'[x][n] = used[x][n] \cup Extent(run)
      /\ \A p \in PlaneIds : p # n => used'[x][p] = used[x][p]
      /\ \A r \in RegionIds : r # x => used'[r] = used[r]
  BY <1>1, <1>2, <1>4, <1>5 DEF TypeOK
<1>9. Extent(job.frags[n]) = {}
  <2>1. job.frags[n].size = 0 /\ job.frags[n] \in Fragment
    <3>1. n \in Nat /\ job.frags[n] \in Fragment
      BY <1>1, <1>2, ObjectTypes, AllocatorAssumption DEF PlaneIds
    <3>. QED
      BY <1>1, <1>2, <1>4, <3>1 DEF SafeInv, JobFrags
  <2>. QED
    BY <2>1, FragmentFacts
<1>10. Cardinality(Slots(job'.frags)) = Cardinality(Slots(job.frags)) + w
  BY <1>2, <1>5, <1>6, <1>7, <1>9, SlotsAdd
<1>11. Cardinality(Slots(job.frags)) \in Nat
  BY GridPart DEF Slots
<1>12. Granted'
  BY <1>4 DEF AccountInv, Granted
<1>13. JobGranted'
  <2>1. job.rem + Cardinality(Slots(job.frags)) = job.size
    BY <1>4 DEF AccountInv, JobGranted
  <2>. QED
    BY <1>2, <1>3, <1>7, <1>10, <1>11, <2>1 DEF JobGranted
<1>14. ASSUME NEW r \in RegionIds
       PROVE  freeBytes'[r] = FreeNow(r)' + Promised(r)'
  <2>1. freeBytes'[r] = FreeNow(r) + Promised(r)
    BY <1>4 DEF AccountInv, Counted
  <2>2. CASE r # x
    BY <1>4, <1>7, <1>8, <2>1, <2>2 DEF FreeNow, Promised
  <2>3. CASE r = x
    <3>1. Cardinality(FreeIn(used[x], nplanes[x]))
            = Cardinality(FreeIn(used'[x], nplanes[x])) + w
      <4>. DEFINE e == Extent(run)
      <4>1. /\ n \in PlaneIds /\ n < nplanes[x] /\ e \in SUBSET Offsets
            /\ e \cap used[x][n] = {} /\ used'[x][n] = used[x][n] \cup e
            /\ \A p \in PlaneIds : p # n => used'[x][p] = used[x][p]
        BY <1>2, <1>4, <1>5, <1>8
      <4>2. Cardinality(e) = w
        BY <1>5
      <4>. HIDE DEF e, x, n
      <4>3. Cardinality(FreeIn(used[x], nplanes[x]))
              = Cardinality(FreeIn(used'[x], nplanes[x])) + Cardinality(e)
        BY <4>1, FreeTaken
      <4>. QED
        BY <4>2, <4>3
    <3>2. Cardinality(FreeIn(used'[x], nplanes[x])) \in Nat
      BY GridPart DEF FreeIn
    <3>3. /\ FreeNow(r) = Cardinality(FreeIn(used[x], nplanes[x]))
          /\ FreeNow(r)' = Cardinality(FreeIn(used'[x], nplanes[x]))
          /\ Promised(r) = Cardinality(Slots(job.frags))
          /\ Promised(r)' = Cardinality(Slots(job'.frags))
      BY <1>4, <1>7, <2>3 DEF FreeNow, Promised
    <3>. QED
      BY <1>3, <1>10, <1>11, <2>1, <3>1, <3>2, <3>3
  <2>. QED
    BY <2>2, <2>3
<1>. QED
  BY <1>12, <1>13, <1>14 DEF AccountInv, Counted

LEMMA YPromotionSkipAccount ==
    ASSUME AccountInv, SafeInv', YPromotionSkip
    PROVE  AccountInv'
<1>1. job \in Job /\ UNCHANGED <<nplanes, freeBytes, used, held, objs>>
      /\ job' = [job EXCEPT !.next = @ + 1]
  BY DEF YPromotionSkip, regionVars, AccountInv, SafeInv, TypeInv, TypeOK
<1>2. /\ job'.x = job.x /\ job'.frags = job.frags /\ job'.stage = job.stage
      /\ job'.rem = job.rem /\ job'.size = job.size
  BY <1>1 DEF Job
<1>. QED
  BY <1>1, <1>2 DEF AccountInv, Granted, JobGranted, Counted, FreeNow, Promised

(* The block is complete: only now is it taken from the counter. *)
LEMMA YPromotionCommitAccount ==
    ASSUME Roomy, AccountInv, SafeInv', YPromotionCommit
    PROVE  AccountInv'
<1>. DEFINE id == FreshID
            x == job.x
<1>1. TypeOK /\ SafeInv /\ TypeInv
  BY DEF AccountInv, SafeInv, TypeInv
<1>2. /\ job.stage = "promote" /\ job.rem = 0 /\ job' = NoJob
      /\ held' = held \cup {id} /\ UNCHANGED <<used, nplanes>>
      /\ freeBytes' = [freeBytes EXCEPT ![x] = SubSize(@, job.size)]
  BY DEF YPromotionCommit
<1>3. /\ x \in RegionIds /\ job.size \in Nat /\ job.size > 0
  <2>1. job.size \in Sizes
    BY <1>1, <1>2 DEF SafeInv, JobFrags
  <2>2. job.size \in Nat /\ job.size # 0
    BY <2>1, AllocatorAssumption DEF Roomy
  <2>3. x \in RegionIds
    BY <1>1, ObjectTypes
  <2>. QED
    BY <2>2, <2>3
<1>4. id \in AllocIds \ held
  BY <1>1, <1>2, FreshIDIsFree DEF TypeInv, JobCanHold, TypeOK
<1>5. /\ objs'[id].frags = job.frags /\ objs'[id].size = job.size
      /\ \A a \in held : objs'[a] = objs[a]
  BY <1>1, <1>4 DEF YPromotionCommit, TypeOK
<1>. HIDE DEF id
<1>6. Cardinality(Slots(job.frags)) \in Nat
  BY GridPart DEF Slots
<1>7. Cardinality(Slots(job.frags)) = job.size
  BY <1>2, <1>3, <1>6 DEF AccountInv, JobGranted
<1>8. Granted'
  BY <1>2, <1>5, <1>7 DEF AccountInv, Granted
<1>9. job'.stage # "promote" /\ Cardinality(Slots(job'.frags)) = 0
  <2>1. \A p \in PlaneIds : NoJob.frags[p] \in Fragment
    BY NoJobType DEF Job
  <2>. QED
    BY <1>2, <2>1, NoJobEmpty, NoneTaken
<1>10. ASSUME NEW r \in RegionIds
       PROVE  freeBytes'[r] = Cardinality(FreeIn(used[r], nplanes[r]))
              /\ Cardinality(FreeIn(used[r], nplanes[r])) \in Nat
  <2>1. freeBytes[r] = Cardinality(FreeIn(used[r], nplanes[r])) + Promised(r)
    BY DEF AccountInv, Counted, FreeNow
  <2>2. Cardinality(FreeIn(used[r], nplanes[r])) \in Nat
    BY GridPart DEF FreeIn
  <2>3. CASE r # x
    BY <1>1, <1>2, <2>1, <2>2, <2>3 DEF Promised, TypeOK
  <2>4. CASE r = x
    <3>1. freeBytes'[r] = SubSize(freeBytes[r], job.size)
      BY <1>1, <1>2, <1>3, <2>4 DEF TypeOK
    <3>2. Promised(r) = job.size
      BY <1>7, <2>4 DEF Promised
    <3>. QED
      BY <1>3, <2>1, <2>2, <3>1, <3>2 DEF SubSize, SubU64
  <2>. QED
    BY <2>3, <2>4
<1>11. Counted'
  BY <1>2, <1>9, <1>10 DEF Counted, FreeNow, Promised
<1>12. JobGranted'
  BY <1>9 DEF JobGranted
<1>. QED
  BY <1>8, <1>11, <1>12 DEF AccountInv

(* The fragments are given back, and the counter was never changed. *)
LEMMA YPromotionRollbackAccount ==
    ASSUME AccountInv, SafeInv', YPromotionRollback
    PROVE  AccountInv'
<1>. DEFINE x == job.x
            bits == [y \in PlaneIds |->
                       ClearRange(used[x][y], PlaneSize, job.frags[y].start,
                                  AddU16(job.frags[y].start, job.frags[y].size))]
<1>1. TypeOK /\ SafeInv /\ Blank /\ x \in RegionIds
  BY ObjectTypes DEF AccountInv, SafeInv, TypeInv
<1>2. /\ used' = [used EXCEPT ![x] = bits]
      /\ UNCHANGED <<nplanes, freeBytes, held, objs>>
  BY <1>1 DEF YPromotionRollback, TypeOK
<1>3. \A p \in PlaneIds : bits[p] = used[x][p] \ Extent(job.frags[p])
  BY <1>1, RollbackBits
<1>. HIDE DEF bits
<1>4. /\ \A p \in PlaneIds : used'[x][p] = used[x][p] \ Extent(job.frags[p])
      /\ \A r \in RegionIds : r # x => used'[r] = used[r]
  BY <1>1, <1>2, <1>3 DEF TypeOK
<1>5. /\ job'.stage # "promote" /\ job'.x = x
      /\ \A p \in PlaneIds : job'.frags[p] = NoFragment
  BY <1>1 DEF YPromotionRollback, TypeOK, Job
<1>6. Cardinality(Slots(job'.frags)) = 0
  <2>1. \A p \in PlaneIds : Extent(job'.frags[p]) = {}
    BY <1>5 DEF NoFragment, Extent
  <2>. QED
    BY <2>1, SlotsNone
<1>7. ASSUME NEW r \in RegionIds
      PROVE  freeBytes'[r] = Cardinality(FreeIn(used'[r], nplanes'[r]))
             /\ Cardinality(FreeIn(used'[r], nplanes'[r])) \in Nat
  <2>1. freeBytes[r] = Cardinality(FreeIn(used[r], nplanes[r])) + Promised(r)
    BY DEF AccountInv, Counted, FreeNow
  <2>2. /\ Cardinality(FreeIn(used[r], nplanes[r])) \in Nat
        /\ Cardinality(FreeIn(used'[r], nplanes'[r])) \in Nat
    BY GridPart DEF FreeIn
  <2>3. CASE r # x
    BY <1>2, <1>4, <2>1, <2>2, <2>3 DEF Promised
  <2>4. CASE r = x
    <3>1. \A p \in PlaneIds : p < nplanes[x] \/ used[x][p] = {}
      <4>1. nplanes[x] \in Nat /\ PlaneIds \subseteq Nat
        BY <1>1, AllocatorAssumption DEF TypeOK, PlaneIds
      <4>. QED
        BY <1>1, <4>1 DEF Blank
    <3>2. \A p \in PlaneIds : /\ Extent(job.frags[p]) \subseteq used[x][p]
                              /\ used[x][p] \subseteq Offsets
      BY <1>1 DEF SafeInv, BitsCovered, TypeOK
    <3>3. Cardinality(FreeIn(used'[x], nplanes[x]))
            = Cardinality(FreeIn(used[x], nplanes[x])) + Cardinality(Slots(job.frags))
      BY <1>4, <3>1, <3>2, FreeFamily
    <3>. QED
      BY <1>2, <2>1, <2>2, <2>4, <3>3 DEF Promised
  <2>. QED
    BY <2>3, <2>4
<1>8. Counted'
  BY <1>6, <1>7 DEF Counted, FreeNow, Promised
<1>9. Granted' /\ JobGranted'
  BY <1>2, <1>5 DEF AccountInv, Granted, JobGranted
<1>. QED
  BY <1>8, <1>9 DEF AccountInv

LEMMA FreeSingleAccount ==
    ASSUME AccountInv, SafeInv', NEW a \in held, FreeSingle(a)
    PROVE  AccountInv'
<1>. DEFINE o == objs[a]
            e == Extent(o.frags[o.y])
<1>1. TypeOK /\ SafeInv /\ Blank
  BY DEF AccountInv, SafeInv, TypeInv
<1>2. /\ o.x \in RegionIds /\ o.y \in PlaneIds /\ a \in AllocIds
      /\ o.frags[o.y] \in Fragment /\ o.frags[o.y].size > 0
      /\ o.size = o.frags[o.y].size
      /\ Cleared(o.x, o.y, o.z) = used[o.x][o.y] \ e
  BY <1>1, FreedRun DEF FreeSingle
<1>3. /\ used' = [used EXCEPT ![o.x][o.y] = used[o.x][o.y] \ e]
      /\ freeBytes' = [freeBytes EXCEPT ![o.x] = AddU64(@, o.size)]
      /\ held' = held \ {a} /\ objs' = [objs EXCEPT ![a] = NoObject]
      /\ UNCHANGED <<nplanes, job>> /\ job.stage # "promote" /\ o.y < nplanes[o.x]
  BY <1>2 DEF FreeSingle, Release, Idle
<1>4. Granted' /\ JobGranted'
  BY <1>1, <1>2, <1>3 DEF AccountInv, Granted, JobGranted, TypeOK
<1>5. Cardinality(Slots(job'.frags)) = 0
  BY <1>3, NothingPromised
<1>6. /\ Cardinality(e) = o.size /\ o.size \in Nat
      /\ e \in SUBSET Offsets /\ e \subseteq used[o.x][o.y]
  <2>1. e \subseteq used[o.x][o.y]
    <3>1. o.x # 0
      BY <1>2, AllocatorAssumption DEF RegionIds
    <3>. QED
      BY <1>1, <1>2, <3>1 DEF SafeInv, BitsCovered
  <2>2. used[o.x][o.y] \subseteq Offsets
    BY <1>1, <1>2 DEF TypeOK
  <2>3. Cardinality(e) = o.size /\ o.size \in Nat
    BY <1>2, RunSize, FragmentFacts
  <2>. QED
    BY <2>1, <2>2, <2>3
<1>. HIDE DEF e
<1>7. ASSUME NEW r \in RegionIds
      PROVE  freeBytes'[r] = Cardinality(FreeIn(used'[r], nplanes'[r]))
             /\ Cardinality(FreeIn(used'[r], nplanes'[r])) \in Nat
  <2>1. freeBytes[r] = Cardinality(FreeIn(used[r], nplanes[r])) /\ freeBytes[r] \in Nat
    BY <1>3, NothingPromised
  <2>2. /\ Cardinality(FreeIn(used'[r], nplanes'[r])) \in Nat
        /\ Cardinality(FreeIn(used'[r], nplanes'[r])) < U64
    BY GridPart DEF FreeIn
  <2>3. CASE r # o.x
    BY <1>1, <1>3, <2>1, <2>2, <2>3 DEF TypeOK
  <2>4. CASE r = o.x
    <3>1. /\ used'[r][o.y] = used[r][o.y] \ e
          /\ \A p \in PlaneIds : p # o.y => used'[r][p] = used[r][p]
          /\ freeBytes'[r] = AddU64(freeBytes[r], o.size)
      BY <1>1, <1>2, <1>3, <2>4 DEF TypeOK
    <3>2. used[r][o.y] = used'[r][o.y] \cup e /\ e \cap used'[r][o.y] = {}
      BY <1>6, <2>4, <3>1
    <3>3. Cardinality(FreeIn(used'[r], nplanes[r]))
            = Cardinality(FreeIn(used[r], nplanes[r])) + Cardinality(e)
      <4>. DEFINE y == o.y
      <4>1. /\ y \in PlaneIds /\ y < nplanes[r] /\ e \in SUBSET Offsets
            /\ e \cap used'[r][y] = {} /\ used[r][y] = used'[r][y] \cup e
            /\ \A p \in PlaneIds : p # y => used[r][p] = used'[r][p]
        BY <1>2, <1>3, <1>6, <2>4, <3>1, <3>2
      <4>. HIDE DEF y
      <4>. QED
        BY <4>1, FreeTaken
    <3>4. U64 \in Nat
      BY AllocatorAssumption
    <3>. QED
      <4>. DEFINE c0 == Cardinality(FreeIn(used[r], nplanes[r]))
                  c1 == Cardinality(FreeIn(used'[r], nplanes'[r]))
      <4>1. c1 = c0 + o.size /\ nplanes' = nplanes
        BY <1>3, <1>6, <3>3
      <4>2. freeBytes[r] = c0 /\ c0 \in Nat /\ c1 \in Nat /\ c1 < U64
        BY <2>1, <2>2
      <4>3. freeBytes'[r] = AddU64(c0, o.size)
        BY <3>1, <4>2
      <4>. HIDE DEF c0, c1
      <4>4. freeBytes'[r] = c1
        BY <1>6, <3>4, <4>1, <4>2, <4>3 DEF AddU64
      <4>. QED
        BY <4>2, <4>4 DEF c1
  <2>. QED
    BY <2>3, <2>4
<1>8. Counted'
  BY <1>5, <1>7 DEF Counted, FreeNow, Promised
<1>. QED
  BY <1>4, <1>8 DEF AccountInv

LEMMA AccountInit == Init => AccountInv
<1>. SUFFICES ASSUME Init PROVE AccountInv
  OBVIOUS
<1>1. SafeInv
  BY SafeInit
<1>2. held = {} /\ job.stage # "promote"
  BY NoJobEmpty DEF Init
<1>3. Cardinality(Slots(job.frags)) = 0
  <2>1. \A p \in PlaneIds : NoJob.frags[p] \in Fragment
    BY NoJobType DEF Job
  <2>. QED
    BY <2>1, NoJobEmpty, NoneTaken DEF Init
<1>4. ASSUME NEW x \in RegionIds PROVE freeBytes[x] = 0 /\ FreeNow(x) = 0
  <2>1. nplanes[x] = 0 /\ freeBytes[x] = 0
    BY DEF Init
  <2>2. FreeIn(used[x], nplanes[x]) = {}
    BY <2>1, AllocatorAssumption DEF FreeIn, PlaneIds
  <2>. QED
    BY <2>1, <2>2, FS_EmptySet DEF FreeNow
<1>5. Granted /\ JobGranted
  BY <1>2 DEF Granted, JobGranted
<1>6. Counted
  BY <1>3, <1>4 DEF Counted, Promised
<1>. QED
  BY <1>1, <1>5, <1>6 DEF AccountInv

LEMMA AccountNext ==
    ASSUME Roomy, AccountInv, [NextPlanes]_vars
    PROVE  AccountInv'
<1>0. SafeInv /\ SafeInv' /\ TypeOK
  BY SafeNext DEF AccountInv, SafeInv, TypeInv
<1>1. ASSUME NEW t \in RegionTypes, NEW size \in Sizes, NEW f \in Flags, Allocate(t, size, f)
      PROVE  AccountInv'
  <2>1. ~FastPanics(t, size)
    BY <1>0, NoPanicStep
  <2>. QED
    BY <1>0, <1>1, <2>1, AllocateFastAccount, YPromotionBeginAccount,
       AllocateNewRegionAccount DEF Allocate
<1>2. CASE Promotion
  <2>1. ~YPromotionPanics
    BY <1>0, NoPanicStep
  <2>. QED
    BY <1>0, <1>2, <2>1, YPromotionTakeAccount, YPromotionSkipAccount,
       YPromotionCommitAccount, YPromotionRollbackAccount DEF Promotion
<1>3. CASE UNCHANGED vars
  <2>1. UNCHANGED <<nplanes, freeBytes, used, held, objs, job>>
    BY <1>3 DEF vars, regionVars
  <2>. QED
    BY <1>0, <2>1 DEF AccountInv, Granted, JobGranted, Counted, FreeNow, Promised
<1>. QED
  BY <1>0, <1>1, <1>2, <1>3, FreeSingleAccount, AddPlaneAccount, AllocateInRegionAccount
     DEF NextPlanes, NextVM

LEMMA AccountKept ==
    ASSUME Roomy
    PROVE  SpecPlanes => []AccountInv
<1>1. AccountInv /\ [NextPlanes]_vars => AccountInv'
  BY AccountNext
<1>. QED
  BY <1>1, AccountInit, PTL DEF SpecPlanes

(* An allocation in use has as many bytes as its request asked for, over   *)
(* all the planes that tryYPromotion spread it over.                       *)
THEOREM SizesAreGranted ==
    ASSUME Roomy
    PROVE  SpecPlanes => []SizeGranted
<1>1. AccountInv => SizeGranted
  <2>. SUFFICES ASSUME AccountInv, NEW a \in held
                PROVE  Cardinality(CellsOf(a)) = objs[a].size
    BY DEF SizeGranted
  <2>1. objs[a].x \in RegionIds
    BY ObjectTypes DEF AccountInv, SafeInv, TypeInv, Located
  <2>. QED
    BY <2>1, CellsAreSlots DEF AccountInv, Granted
<1>. QED
  BY <1>1, AccountKept, PTL

(* Whenever no request holds the mutex, the atomic counter of a region     *)
(* agrees with the bitmaps of its planes, after any number of grants,      *)
(* promotions, rollbacks and releases.                                     *)
THEOREM FreeBytesAreExact ==
    ASSUME Roomy
    PROVE  SpecPlanes => []FreeBytesExact
<1>1. AccountInv => FreeBytesExact
  <2>. SUFFICES ASSUME AccountInv, Idle, NEW x \in RegionIds
                PROVE  freeBytes[x] = TotalFree(x)
    BY DEF FreeBytesExact
  <2>1. freeBytes[x] = Cardinality(FreeIn(used[x], nplanes[x]))
    BY NothingPromised DEF Idle
  <2>2. FreeCells(x) = FreeIn(used[x], nplanes[x])
    BY DEF FreeCells, FreeIn
  <2>. QED
    BY <2>1, <2>2 DEF TotalFree
<1>. QED
  BY <1>1, AccountKept, PTL

-----------------------------------------------------------------------------
(***************************************************************************)
(* No region is created needlessly, when the virtual machine is the        *)
(* allocator's only user. Its regions have one plane; a promotion that     *)
(* still looks for bytes has found none yet, and works on a region with as *)
(* many free bytes as any that could serve; and once it has failed, no     *)
(* region could have.                                                      *)
(***************************************************************************)
OnePlane == \A x \in RegionIds : nplanes[x] = IF x \in Regions THEN 1 ELSE 0

AllListable == nextRegionID - 1 <= LRUCap

Searching ==
    job.stage = "promote" /\ job.rem > 0 =>
        /\ job.rem = job.size
        /\ \A p \in PlaneIds : job.frags[p].size = 0
        /\ job.next > 0 => Fit(job.x, 0, job.size) = NoSpace
        /\ \A t \in RegionTypes, s \in Sizes : job.rt = t /\ job.size = s =>
              NoFastHit(t, s) /\ job.x \in BestRegions(t, s)

NoRoom ==
    job.stage = "newregion" /\ AllListable =>
        \A t \in RegionTypes, s \in Sizes : job.rt = t /\ job.size = s => ~HasRoom(t, s)

ListInv == LRUWellFormed /\ AllocCountExact

MachineInv == AccountInv /\ ListInv /\ OnePlane /\ Searching /\ NoRoom

-----------------------------------------------------------------------------
(* The free bytes of a plane, and of a region that has only this plane. *)
LEMMA OnePlaneFree ==
    ASSUME TypeOK, NEW x \in RegionIds, nplanes[x] = 1
    PROVE  /\ PlaneFree(x, 0) \in Nat /\ PlaneFree(x, 0) <= PlaneSize
           /\ PlaneFree(x, 0) = Cardinality(Offsets \ used[x][0])
           /\ TotalFree(x) = PlaneFree(x, 0)
           /\ FreeNow(x) = PlaneFree(x, 0)
<1>. DEFINE u == used[x][0]
            f == Offsets \ u
<1>0. PlaneSize \in Nat \ {0} /\ 0 \in PlaneIds /\ PlaneIds \subseteq Nat
  BY AllocatorAssumption, ConstantRange DEF PlaneIds
<1>1. u \in SUBSET Offsets
  BY <1>0 DEF TypeOK
<1>2. IsFiniteSet(Offsets) /\ Cardinality(Offsets) = PlaneSize
  BY <1>0, FS_Interval DEF Offsets
<1>3. IsFiniteSet(u) /\ IsFiniteSet(f) /\ Cardinality(u) \in Nat /\ Cardinality(f) \in Nat
  BY <1>1, <1>2, FS_Subset, FS_CardinalityType
<1>4. Cardinality(u \cup f) = Cardinality(u) + Cardinality(f) - Cardinality(u \cap f)
  BY <1>3, FS_Union
<1>5. u \cup f = Offsets /\ u \cap f = {}
  BY <1>1
<1>6. Cardinality(f) = PlaneSize - Cardinality(u)
  BY <1>0, <1>2, <1>3, <1>4, <1>5, FS_EmptySet
<1>7. PlaneFree(x, 0) = Cardinality(f)
  BY <1>6 DEF PlaneFree, FreeBytes
<1>8. FreeIn(used[x], nplanes[x]) = {0} \X f
  <2>1. \A p \in PlaneIds : (p < 1) <=> (p = 0)
    BY <1>0
  <2>. QED
    BY <1>0, <2>1 DEF FreeIn
<1>9. Cardinality({0} \X f) = Cardinality(f)
  BY <1>0, RowSize
<1>10. FreeCells(x) = FreeIn(used[x], nplanes[x])
  BY DEF FreeCells, FreeIn
<1>. QED
  BY <1>0, <1>3, <1>6, <1>7, <1>8, <1>9, <1>10 DEF TotalFree, FreeNow

(* A free run in a region of one plane: FastHit would see it. *)
LEMMA RunIsSeen ==
    ASSUME Roomy, TypeOK, NEW x \in RegionIds, nplanes[x] = 1, NEW size \in Nat, size > 0,
           NEW z \in Offsets, z + size <= PlaneSize,
           (z .. (z + size - 1)) \cap used[x][0] = {}
    PROVE  Fit(x, 0, size) # NoSpace /\ PlaneFree(x, 0) >= size /\ size <= PlaneSize
<1>. DEFINE run == z .. (z + size - 1)
<1>0. /\ PlaneSize \in Nat /\ 2 * PlaneSize <= U16 /\ z \in Nat /\ 0 \in PlaneIds
      /\ used[x][0] \in SUBSET (0 .. (PlaneSize - 1))
  BY AllocatorAssumption, ConstantRange DEF Roomy, Offsets, TypeOK
<1>1. Fit(x, 0, size) # NoSpace
  BY <1>0, FitComplete DEF Fit
<1>2. run \in SUBSET (Offsets \ used[x][0])
  BY <1>0 DEF Offsets
<1>3. IsFiniteSet(Offsets \ used[x][0])
  <2>1. IsFiniteSet(Offsets)
    BY <1>0, FS_Interval DEF Offsets
  <2>. QED
    BY <2>1, FS_Subset
<1>4. Cardinality(run) <= Cardinality(Offsets \ used[x][0])
  BY <1>2, <1>3, FS_Subset
<1>5. Cardinality(run) = size
  <2>. DEFINE j == z + size - 1
  <2>1. j \in Int /\ z \in Int /\ ~(z > j) /\ j - z + 1 = size
    BY <1>0
  <2>. HIDE DEF j
  <2>2. Cardinality(z .. j) = IF z > j THEN 0 ELSE j - z + 1
    BY <2>1, FS_Interval
  <2>. QED
    BY <2>1, <2>2 DEF j
<1>6. PlaneFree(x, 0) = Cardinality(Offsets \ used[x][0])
  BY OnePlaneFree
<1>. HIDE DEF run
<1>7. PlaneFree(x, 0) >= size
  BY <1>4, <1>5, <1>6
<1>. QED
  BY <1>0, <1>1, <1>7

(* A region that is off the list holds nothing. *)
LEMMA UnlistedEmpty ==
    ASSUME AccountInv, ListInv, AllListable, \A p \in PlaneIds : job.frags[p].size = 0,
           NEW w \in Regions, w \notin Listed(lru), NEW y \in PlaneIds
    PROVE  used[w][y] = {}
<1>0. /\ TypeOK /\ lru \in Seq(RegionIds) /\ w \in RegionIds
      /\ nextRegionID \in Nat /\ LRUCap \in Nat /\ held \subseteq AllocIds
  <2>1. TypeOK
    BY DEF AccountInv, SafeInv, TypeInv
  <2>2. w \in RegionIds
    BY <2>1, ObjectTypes
  <2>. QED
    BY <2>1, <2>2, AllocatorAssumption DEF TypeOK
<1>1. /\ Len(lru) <= LRUCap /\ Distinct(lru) /\ Listed(lru) \subseteq Regions
      /\ Len(lru) < LRUCap => \A x \in RegionIds : allocCount[x] > 0 => x \in Listed(lru)
      /\ Len(lru) \in Nat
  <2>1. ListOK
    BY <1>0, ListOKIs DEF ListInv
  <2>. QED
    BY <1>0, <2>1 DEF ListOK
<1>2. Len(lru) < LRUCap
  <2>. SUFFICES ASSUME Len(lru) >= LRUCap PROVE FALSE
    BY <1>0, <1>1
  <2>. DEFINE S == 1 .. Len(lru)
              T == Regions \ {w}
              f == [i \in S |-> lru[i]]
  <2>1. nextRegionID >= 2
    BY <1>0 DEF Regions
  <2>2. IsFiniteSet(Regions) /\ Cardinality(Regions) = nextRegionID - 1
    <3>1. Cardinality(2 .. nextRegionID) = IF 2 > nextRegionID THEN 0 ELSE nextRegionID - 2 + 1
      BY <1>0, FS_Interval
    <3>2. IsFiniteSet(2 .. nextRegionID)
      BY <1>0, FS_Interval
    <3>. QED
      BY <1>0, <2>1, <3>1, <3>2 DEF Regions
  <2>3. IsFiniteSet(T) /\ Cardinality(T) = nextRegionID - 2
    <3>1. w \in Regions
      OBVIOUS
    <3>2. IsFiniteSet(T) /\ Cardinality(T) = Cardinality(Regions) - 1
      BY <2>2, <3>1, FS_RemoveElement
    <3>. HIDE DEF T
    <3>. QED
      BY <1>0, <2>1, <2>2, <3>2
  <2>4. IsFiniteSet(S) /\ Cardinality(S) = Len(lru)
    <3>. DEFINE n == Len(lru)
    <3>1. n \in Nat
      BY <1>1
    <3>. HIDE DEF n
    <3>2. IsFiniteSet(1 .. n) /\ Cardinality(1 .. n) = IF 1 > n THEN 0 ELSE n - 1 + 1
      BY <3>1, FS_Interval
    <3>3. Cardinality(1 .. n) = n
      BY <3>1, <3>2
    <3>. QED
      BY <3>2, <3>3 DEF n
  <2>5. f \in [S -> T]
    BY <1>1 DEF Listed
  <2>6. Cardinality(T) < Cardinality(S)
    BY <1>0, <1>1, <2>3, <2>4 DEF AllListable
  <2>7. \E i, j \in S : i # j /\ f[i] = f[j]
    <3>. HIDE DEF S, T, f
    <3>. QED
      BY <2>3, <2>4, <2>5, <2>6, FS_PigeonHole
  <2>. QED
    BY <1>1, <2>7 DEF Distinct
<1>3. InUse(w) = {}
  <2>1. ~(allocCount[w] > 0) /\ allocCount[w] \in Nat
    BY <1>0, <1>1, <1>2 DEF TypeOK
  <2>2. allocCount[w] = Cardinality(InUse(w))
    BY <1>0 DEF ListInv, AllocCountExact, InUse
  <2>3. IsFiniteSet(InUse(w))
    <3>1. InUse(w) \in SUBSET AllocIds
      BY <1>0 DEF InUse
    <3>. QED
      BY <3>1, IdsFinite
  <2>4. Cardinality(InUse(w)) = 0
    BY <2>1, <2>2
  <2>. QED
    BY <2>3, <2>4, FS_EmptySet
<1>4. \A a \in held : objs[a].x # w
  BY <1>3 DEF InUse
<1>5. Extent(job.frags[y]) = {}
  BY <1>0, ObjectTypes, FragmentFacts
<1>. QED
  BY <1>0, <1>4, <1>5 DEF AccountInv, SafeInv, BitsCovered

(* Room that the fast path does not see is an empty region off the list. *)
LEMMA Overlooked ==
    ASSUME Roomy, AccountInv, ListInv, OnePlane, AllListable,
           \A p \in PlaneIds : job.frags[p].size = 0,
           NEW t, NEW size \in Sizes, NoFastHit(t, size), HasRoom(t, size)
    PROVE  \E w \in Regions : /\ w \in RegionIds /\ rtype[w] = t /\ nplanes[w] = 1
                              /\ used[w][0] = {} /\ size <= PlaneSize /\ size > 0
                              /\ TotalFree(w) = PlaneSize
                              /\ PlaneFree(w, 0) = PlaneSize
<1>0. /\ TypeOK /\ size \in Nat /\ size > 0 /\ Regions \subseteq RegionIds
      /\ 0 \in PlaneIds /\ PlaneIds \subseteq Nat
  <2>1. size \in Nat /\ size # 0
    BY AllocatorAssumption DEF Roomy
  <2>. QED
    BY <2>1, ObjectTypes, ConstantRange, AllocatorAssumption
       DEF AccountInv, SafeInv, TypeInv, PlaneIds
<1>1. PICK w \in RegionIds, y \in PlaneIds, z \in Offsets :
         /\ w \in Regions /\ rtype[w] = t /\ y < nplanes[w]
         /\ z + size <= PlaneSize /\ (z .. (z + size - 1)) \cap used[w][y] = {}
  BY DEF HasRoom
<1>2. nplanes[w] = 1 /\ y = 0
  BY <1>0, <1>1 DEF OnePlane
<1>3. Fit(w, 0, size) # NoSpace /\ PlaneFree(w, 0) >= size /\ size <= PlaneSize
  BY <1>0, <1>1, <1>2, RunIsSeen
<1>4. w \notin Listed(lru)
  <2>. SUFFICES ASSUME w \in Listed(lru) PROVE FALSE
    OBVIOUS
  <2>1. PICK i \in 1 .. Len(lru) : lru[i] = w
    BY DEF Listed
  <2>2. i \in DOMAIN lru
    BY <1>0 DEF TypeOK
  <2>3. freeBytes[w] >= size
    <3>1. freeBytes[w] = FreeNow(w) + Promised(w)
      BY DEF AccountInv, Counted
    <3>2. Promised(w) \in Nat
      BY GridPart DEF Promised, Slots
    <3>3. FreeNow(w) = PlaneFree(w, 0) /\ PlaneFree(w, 0) \in Nat
      BY <1>0, <1>2, OnePlaneFree
    <3>. QED
      BY <1>0, <1>3, <3>1, <3>2, <3>3
  <2>4. FastHit(i, 0, t, size)
    BY <1>1, <1>2, <1>3, <2>1, <2>3 DEF FastHit
  <2>. QED
    BY <1>0, <2>2, <2>4 DEF NoFastHit
<1>5. used[w][0] = {}
  BY <1>0, <1>1, <1>4, UnlistedEmpty
<1>6. PlaneFree(w, 0) = PlaneSize
  BY <1>5, FS_EmptySet, AllocatorAssumption DEF PlaneFree, FreeBytes
<1>7. TotalFree(w) = PlaneSize
  BY <1>0, <1>2, <1>6, OnePlaneFree
<1>. QED
  BY <1>0, <1>1, <1>2, <1>3, <1>5, <1>6, <1>7

(* A block of at most a plane needs one plane. *)
LEMMA OneNeeded ==
    ASSUME NEW size \in Nat, size > 0, size <= PlaneSize
    PROVE  PlanesNeeded(size) = 1
<1>. DEFINE n == size + PlaneSize - 1
            q == n \div PlaneSize
<1>0. PlaneSize \in Nat \ {0}
  BY AllocatorAssumption
<1>1. n \in Nat /\ PlaneSize <= n /\ n < 2 * PlaneSize
  BY <1>0
<1>. HIDE DEF n
<1>2. q \in Nat /\ n = PlaneSize * q + (n % PlaneSize) /\ n % PlaneSize \in 0 .. (PlaneSize - 1)
  BY <1>0, <1>1
<1>. HIDE DEF q
<1>3. q # 0
  BY <1>0, <1>1, <1>2
<1>4. ~(q >= 2)
  <2>. SUFFICES ASSUME q >= 2 PROVE FALSE
    OBVIOUS
  <2>1. PlaneSize * q >= PlaneSize * 2
    BY <1>0, <1>2
  <2>. QED
    BY <1>0, <1>1, <1>2, <2>1
<1>5. q = 1
  BY <1>2, <1>3, <1>4
<1>6. n % U32 = n
  BY <1>0, <1>1, AllocatorAssumption, WidthAssumption
<1>. QED
  BY <1>5, <1>6 DEF PlanesNeeded, q, n

LEMMA EmptyIsCandidate ==
    ASSUME NEW t, NEW size \in Nat, size > 0, size <= PlaneSize,
           PlanesNeeded(size) <= MaxYPromotions,
           NEW w \in Regions, w \in RegionIds, rtype[w] = t, nplanes[w] = 1,
           TotalFree(w) = PlaneSize, PlaneFree(w, 0) = PlaneSize
    PROVE  w \in Candidates(t, size)
<1>. DEFINE P == {y \in PlaneIds : y < nplanes[w] /\ PlaneFree(w, y) > 0}
<1>0. PlaneSize \in Nat \ {0} /\ 0 \in PlaneIds /\ PlaneIds \subseteq Nat
  BY AllocatorAssumption, ConstantRange DEF PlaneIds
<1>1. P = {0}
  <2>1. ASSUME NEW y \in PlaneIds PROVE (y < nplanes[w]) <=> (y = 0)
    <3>1. y \in Nat
      BY <1>0
    <3>. QED
      BY <3>1
  <2>2. PlaneFree(w, 0) > 0
    BY <1>0
  <2>. QED
    BY <1>0, <2>1, <2>2
<1>2. PlanesWithFree(w) = 1
  BY <1>1, FS_Singleton DEF PlanesWithFree
<1>3. PlanesNeeded(size) = 1
  BY OneNeeded
<1>. QED
  BY <1>0, <1>2, <1>3 DEF Candidates

(* Some candidate has the most free bytes. *)
LEMMA BestExists ==
    ASSUME NEW t, NEW size, Candidates(t, size) # {}
    PROVE  BestRegions(t, size) # {}
<1>. DEFINE C == Candidates(t, size)
            S == {U64 - TotalFree(x) : x \in C}
<1>1. \A x \in C : TotalFree(x) \in Nat /\ TotalFree(x) < U64 /\ U64 \in Nat
  BY GridPart, AllocatorAssumption DEF TotalFree, FreeCells
<1>2. S \in SUBSET Nat /\ S # {}
  BY <1>1
<1>3. Min(S) \in S /\ \A i \in S : Min(S) <= i
  BY <1>2, MinOfNat, MinIsLeast
<1>4. PICK x \in C : Min(S) = U64 - TotalFree(x)
  BY <1>3
<1>5. ASSUME NEW w \in C PROVE TotalFree(w) <= TotalFree(x)
  <2>1. U64 - TotalFree(w) \in S
    OBVIOUS
  <2>2. U64 - TotalFree(x) <= U64 - TotalFree(w)
    BY <1>3, <1>4, <2>1
  <2>3. /\ TotalFree(w) \in Nat /\ TotalFree(x) \in Nat /\ U64 \in Nat
    BY <1>1
  <2>. QED
    BY <2>2, <2>3
<1>. QED
  BY <1>5 DEF BestRegions

(* Whatever region is best, if any has room the best one has. *)
LEMMA BestHasRoom ==
    ASSUME Roomy, MaxYPromotions >= 1, AccountInv, ListInv, OnePlane, AllListable,
           \A p \in PlaneIds : job.frags[p].size = 0,
           NEW t, NEW size \in Sizes, NoFastHit(t, size), HasRoom(t, size)
    PROVE  /\ BestRegions(t, size) # {}
           /\ \A x \in BestRegions(t, size) : Fit(x, 0, size) # NoSpace
<1>1. PICK w \in Regions : /\ w \in RegionIds /\ rtype[w] = t /\ nplanes[w] = 1
                           /\ used[w][0] = {} /\ size <= PlaneSize /\ size > 0
                           /\ TotalFree(w) = PlaneSize
                           /\ PlaneFree(w, 0) = PlaneSize
  BY Overlooked
<1>2. /\ size \in Nat /\ PlaneSize \in Nat \ {0} /\ MaxYPromotions \in Nat
      /\ TypeOK /\ 0 \in PlaneIds /\ 0 \in Offsets
  BY AllocatorAssumption, ConstantRange DEF Offsets, AccountInv, SafeInv, TypeInv
<1>3. PlanesNeeded(size) = 1
  BY <1>1, <1>2, OneNeeded
<1>4. w \in Candidates(t, size)
  <2>1. PlanesNeeded(size) <= MaxYPromotions
    BY <1>2, <1>3
  <2>. QED
    BY <1>1, <1>2, <2>1, EmptyIsCandidate
<1>5. ASSUME NEW x \in BestRegions(t, size) PROVE Fit(x, 0, size) # NoSpace
  <2>1. x \in RegionIds /\ x \in Regions /\ TotalFree(x) >= PlaneSize
    BY <1>1, <1>4 DEF BestRegions, Candidates
  <2>2. nplanes[x] = 1
    BY <2>1 DEF OnePlane
  <2>3. TotalFree(x) = PlaneFree(x, 0) /\ PlaneFree(x, 0) \in Nat /\ PlaneFree(x, 0) <= PlaneSize
    BY <1>2, <2>1, <2>2, OnePlaneFree
  <2>4. PlaneFree(x, 0) = PlaneSize
    BY <1>2, <2>1, <2>3
  <2>. DEFINE u == used[x][0]
  <2>5. u \in SUBSET Offsets
    BY <1>2, <2>1 DEF TypeOK
  <2>6. IsFiniteSet(u) /\ Cardinality(u) \in Nat
    <3>1. IsFiniteSet(Offsets)
      BY <1>2, FS_Interval DEF Offsets
    <3>. QED
      BY <2>5, <3>1, FS_Subset, FS_CardinalityType
  <2>7. PlaneFree(x, 0) = PlaneSize - Cardinality(u)
    BY DEF PlaneFree, FreeBytes
  <2>8. Cardinality(u) = 0
    BY <1>2, <2>4, <2>6, <2>7
  <2>9. u = {}
    BY <2>6, <2>8, FS_EmptySet
  <2>10. 0 + size <= PlaneSize /\ (0 .. (0 + size - 1)) \cap used[x][0] = {}
    BY <1>1, <1>2, <2>9
  <2>. QED
    BY <1>1, <1>2, <2>1, <2>2, <2>10, RunIsSeen
<1>. QED
  BY <1>4, <1>5, BestExists

-----------------------------------------------------------------------------
LEMMA MachineInit == Init => OnePlane /\ Searching /\ NoRoom
<1>. SUFFICES ASSUME Init PROVE OnePlane /\ Searching /\ NoRoom
  OBVIOUS
<1>1. job.stage = "idle"
  BY NoJobEmpty DEF Init
<1>2. Regions = {}
  BY DEF Init, Regions
<1>. QED
  BY <1>1, <1>2 DEF Init, OnePlane, Searching, NoRoom

(* The planes, under every step of the machine. *)
LEMMA OnePlaneKept ==
    ASSUME TypeOK, OnePlane, [NextVM]_vars
    PROVE  OnePlane'
<1>1. CASE UNCHANGED <<nplanes, nextRegionID>>
  BY <1>1 DEF OnePlane, Regions
<1>2. ASSUME NEW t \in RegionTypes, NEW size \in Sizes, NEW f \in Flags,
             AllocateNewRegion(t, size, f)
      PROVE  OnePlane'
  <2>1. /\ nextRegionID' = nextRegionID + 1 /\ nextRegionID + 1 \in RegionIds
        /\ nplanes' = [nplanes EXCEPT ![nextRegionID + 1] = 1]
    BY <1>2 DEF AllocateNewRegion, Grant
  <2>2. nextRegionID \in Nat /\ nextRegionID >= 1 /\ RegionIds \subseteq Nat
    BY AllocatorAssumption DEF TypeOK, RegionIds
  <2>3. \A x \in RegionIds : (x \in Regions') <=> (x \in Regions \/ x = nextRegionID + 1)
    BY <2>1, <2>2 DEF Regions, RegionIds
  <2>. QED
    BY <2>1, <2>3 DEF OnePlane, TypeOK
<1>3. ASSUME NEW t \in RegionTypes, NEW size \in Sizes, NEW f \in Flags,
             Allocate(t, size, f), ~AllocateNewRegion(t, size, f)
      PROVE  UNCHANGED <<nplanes, nextRegionID>>
  BY <1>3 DEF Allocate, AllocateFast, Grant, FastPanics, YPromotionBegin, regionVars
<1>4. Promotion => UNCHANGED <<nplanes, nextRegionID>>
  BY DEF Promotion, YPromotionTake, YPromotionSkip, YPromotionPanics, YPromotionCommit,
         YPromotionRollback, regionVars
<1>5. ASSUME NEW a \in held, FreeSingle(a) PROVE UNCHANGED <<nplanes, nextRegionID>>
  BY <1>5 DEF FreeSingle, Release
<1>6. UNCHANGED vars => UNCHANGED <<nplanes, nextRegionID>>
  BY DEF vars, regionVars
<1>. QED
  BY <1>1, <1>2, <1>3, <1>4, <1>5, <1>6 DEF NextVM

(* The promotion looks at the one plane: it finds the block there or is    *)
(* left with no place to look.                                             *)
LEMMA WantsAll ==
    ASSUME AccountInv, OnePlane, Searching, InLoop
    PROVE  /\ job.next = 0 /\ WantedHere = job.size /\ job.rem = job.size
           /\ nplanes[job.x] = 1 /\ job.rem \in Nat
<1>2. /\ TypeOK /\ job.rem \in Nat /\ job.next \in Nat
      /\ job.rt \in RegionTypes /\ job.size \in Sizes
  BY AllocatorAssumption DEF AccountInv, SafeInv, TypeInv, TypeOK, Job, JobFrags, InLoop
<1>1. /\ job.stage = "promote" /\ job.rem > 0 /\ job.next < nplanes[job.x]
      /\ job.rem = job.size /\ job.x \in BestRegions(job.rt, job.size)
  BY <1>2 DEF InLoop, Searching
<1>3. /\ job.x \in RegionIds /\ job.x \in Regions /\ TotalFree(job.x) >= job.size
  BY <1>1 DEF BestRegions, Candidates
<1>4. nplanes[job.x] = 1 /\ job.next = 0
  BY <1>1, <1>2, <1>3 DEF OnePlane
<1>5. TotalFree(job.x) = PlaneFree(job.x, 0) /\ PlaneFree(job.x, 0) \in Nat
  BY <1>2, <1>3, <1>4, OnePlaneFree
<1>6. WantedHere = job.rem
  BY <1>1, <1>2, <1>3, <1>4, <1>5 DEF WantedHere
<1>. QED
  BY <1>1, <1>2, <1>4, <1>6

(* The scans read the regions and the list, nothing else. *)
LEMMA ScanSame ==
    ASSUME UNCHANGED <<nextRegionID, rtype, nplanes, freeBytes, used, lru>>,
           NEW t, NEW size
    PROVE  /\ NoFastHit(t, size)' <=> NoFastHit(t, size)
           /\ BestRegions(t, size)' = BestRegions(t, size)
           /\ HasRoom(t, size)' <=> HasRoom(t, size)
<1>1. \A x, y : PlaneFree(x, y)' = PlaneFree(x, y)
  BY DEF PlaneFree
<1>2. \A x : TotalFree(x)' = TotalFree(x)
  BY DEF TotalFree, FreeCells
<1>3. \A x : PlanesWithFree(x)' = PlanesWithFree(x)
  BY DEF PlanesWithFree, PlaneFree
<1>4. NoFastHit(t, size)' <=> NoFastHit(t, size)
  BY DEF NoFastHit, FastHit, PlaneFree, Fit
<1>5. Candidates(t, size)' = Candidates(t, size)
  BY <1>2, <1>3 DEF Candidates, Regions
<1>6. BestRegions(t, size)' = BestRegions(t, size)
  BY <1>2, <1>5 DEF BestRegions
<1>7. HasRoom(t, size)' <=> HasRoom(t, size)
  BY DEF HasRoom, Regions
<1>. QED
  BY <1>4, <1>6, <1>7

(* A step after which no request is under way. *)
LEMMA IdleAfter ==
    ASSUME job'.stage = "idle"
    PROVE  Searching' /\ NoRoom'
BY DEF Searching, NoRoom

LEMMA BeginSearches ==
    ASSUME NEW t \in RegionTypes, NEW size \in Sizes, NEW f \in Flags,
           YPromotionBegin(t, size, f)
    PROVE  Searching' /\ NoRoom'
<1>1. PICK x \in BestRegions(t, size) :
         job' = [stage |-> "promote", rt |-> t, size |-> size, flags |-> f,
                 x |-> x, rem |-> size, next |-> 0, first |-> -1,
                 frags |-> [p \in PlaneIds |-> NoFragment]]
  BY DEF YPromotionBegin
<1>2. /\ job'.stage = "promote" /\ job'.rt = t /\ job'.size = size /\ job'.rem = size
      /\ job'.x = x /\ job'.next = 0
      /\ \A p \in PlaneIds : job'.frags[p].size = 0
  BY <1>1 DEF NoFragment
<1>3. NoFastHit(t, size) /\ UNCHANGED <<nextRegionID, rtype, nplanes, freeBytes, used, lru>>
  BY DEF YPromotionBegin, regionVars
<1>4. NoFastHit(t, size)' /\ x \in BestRegions(t, size)'
  BY <1>3, ScanSame
<1>. QED
  BY <1>2, <1>4 DEF Searching, NoRoom

LEMMA TakeSearches ==
    ASSUME AccountInv, OnePlane, Searching, YPromotionTake
    PROVE  Searching' /\ NoRoom'
<1>1. job \in Job /\ InLoop
  BY DEF YPromotionTake, AccountInv, SafeInv, TypeInv, TypeOK
<1>2. job'.rem = job.rem - WantedHere /\ job'.stage = job.stage
  BY <1>1 DEF YPromotionTake, Job
<1>3. job'.rem = 0
  BY <1>1, <1>2, WantsAll
<1>. QED
  BY <1>1, <1>2, <1>3 DEF Searching, NoRoom, InLoop

LEMMA SkipSearches ==
    ASSUME AccountInv, OnePlane, Searching, YPromotionSkip
    PROVE  Searching' /\ NoRoom'
<1>1. job \in Job /\ InLoop /\ Fit(job.x, job.next, WantedHere) = NoSpace
      /\ job' = [job EXCEPT !.next = @ + 1]
      /\ UNCHANGED <<nextRegionID, rtype, nplanes, freeBytes, used, lru>>
  BY DEF YPromotionSkip, AccountInv, SafeInv, TypeInv, TypeOK, regionVars
<1>2. /\ job'.stage = "promote" /\ job'.rt = job.rt /\ job'.size = job.size
      /\ job'.rem = job.rem /\ job'.x = job.x /\ job'.frags = job.frags
  BY <1>1 DEF Job, InLoop
<1>3. Fit(job.x, 0, job.size) = NoSpace
  BY <1>1, WantsAll
<1>4. (Fit(job.x, 0, job.size) = NoSpace)'
  BY <1>1, <1>2, <1>3 DEF Fit
<1>5. job.stage = "promote" /\ job.rem > 0
  BY <1>1 DEF InLoop
<1>6. ASSUME NEW t \in RegionTypes, NEW s \in Sizes, job'.rt = t, job'.size = s
      PROVE  NoFastHit(t, s)' /\ (job.x \in BestRegions(t, s))'
  <2>1. NoFastHit(t, s) /\ job.x \in BestRegions(t, s)
    BY <1>2, <1>5, <1>6 DEF Searching
  <2>. QED
    BY <1>1, <1>2, <2>1, ScanSame
<1>7. job.rem = job.size /\ \A p \in PlaneIds : job.frags[p].size = 0
  BY <1>5 DEF Searching
<1>. QED
  BY <1>2, <1>4, <1>6, <1>7 DEF Searching, NoRoom

(* A rollback has nothing to give back, and no region had room. *)
LEMMA RollbackHadNoRoom ==
    ASSUME Roomy, MaxYPromotions >= 1, AccountInv, ListInv, OnePlane, Searching,
           YPromotionRollback
    PROVE  Searching' /\ NoRoom'
<1>1. /\ TypeOK /\ SafeInv /\ job \in Job /\ job.stage = "promote" /\ job.rem > 0
      /\ job.next >= nplanes[job.x]
      /\ UNCHANGED <<nextRegionID, rtype, nplanes, freeBytes, lru>>
  BY DEF YPromotionRollback, AccountInv, SafeInv, TypeInv, TypeOK
<1>2. /\ job'.stage = "newregion" /\ job'.rt = job.rt /\ job'.size = job.size
  BY <1>1 DEF YPromotionRollback, Job
<1>3. /\ job.rt \in RegionTypes /\ job.size \in Sizes /\ job.x \in Regions
      /\ job.x \in RegionIds /\ job.next \in Nat
  BY <1>1, AllocatorAssumption DEF SafeInv, JobFrags, Job
<1>4. /\ NoFastHit(job.rt, job.size) /\ job.x \in BestRegions(job.rt, job.size)
      /\ \A p \in PlaneIds : job.frags[p].size = 0
      /\ job.next > 0 => Fit(job.x, 0, job.size) = NoSpace
  BY <1>1, <1>3 DEF Searching
<1>5. Fit(job.x, 0, job.size) = NoSpace
  BY <1>1, <1>3, <1>4 DEF OnePlane
<1>6. AllListable => ~HasRoom(job.rt, job.size)
  BY <1>3, <1>4, <1>5, BestHasRoom
<1>7. used' = used
  <2>. DEFINE bits == [y \in PlaneIds |->
                         ClearRange(used[job.x][y], PlaneSize, job.frags[y].start,
                                    AddU16(job.frags[y].start, job.frags[y].size))]
  <2>1. used' = [used EXCEPT ![job.x] = bits]
    BY <1>1, <1>3 DEF YPromotionRollback, TypeOK
  <2>2. ASSUME NEW y \in PlaneIds PROVE bits[y] = used[job.x][y]
    <3>1. bits[y] = used[job.x][y] \ Extent(job.frags[y])
      BY <1>1, RollbackBits
    <3>2. Extent(job.frags[y]) = {}
      BY <1>1, <1>4, ObjectTypes, FragmentFacts
    <3>. QED
      BY <3>1, <3>2
  <2>3. bits = used[job.x]
    <3>1. used[job.x] = [y \in PlaneIds |-> used[job.x][y]]
      BY <1>1, <1>3 DEF TypeOK
    <3>. QED
      BY <2>2, <3>1
  <2>. HIDE DEF bits
  <2>. QED
    BY <1>1, <1>3, <2>1, <2>3 DEF TypeOK
<1>8. ASSUME NEW t \in RegionTypes, NEW s \in Sizes, AllListable', job'.rt = t, job'.size = s
      PROVE  ~HasRoom(t, s)'
  <2>1. ~HasRoom(t, s)
    BY <1>1, <1>2, <1>6, <1>8 DEF AllListable
  <2>. QED
    BY <1>1, <1>7, <2>1, ScanSame
<1>. QED
  BY <1>2, <1>8 DEF Searching, NoRoom

LEMMA SearchStep ==
    ASSUME Roomy, MaxYPromotions >= 1, MachineInv, [NextVM]_vars
    PROVE  OnePlane' /\ Searching' /\ NoRoom'
<1>0. TypeOK /\ SafeInv /\ AccountInv /\ ListInv /\ OnePlane /\ Searching /\ NoRoom
  BY DEF MachineInv, AccountInv, SafeInv, TypeInv
<1>1. OnePlane'
  BY <1>0, OnePlaneKept
<1>2. ASSUME NEW t \in RegionTypes, NEW size \in Sizes, NEW f \in Flags, Allocate(t, size, f)
      PROVE  Searching' /\ NoRoom'
  <2>1. CASE AllocateFast(t, size, f)
    BY <2>1, IdleAfter DEF AllocateFast, Idle
  <2>2. CASE FastPanics(t, size)
    BY <2>2, IdleAfter DEF FastPanics, Idle
  <2>3. CASE AllocateNewRegion(t, size, f)
    BY <2>3, IdleAfter, NoJobEmpty DEF AllocateNewRegion
  <2>. QED
    BY <1>2, <2>1, <2>2, <2>3, BeginSearches DEF Allocate
<1>3. CASE Promotion
  <2>1. ~YPromotionPanics
    BY <1>0, NoPanicStep
  <2>2. CASE YPromotionCommit
    BY <1>1, <2>2, IdleAfter, NoJobEmpty DEF YPromotionCommit
  <2>. QED
    BY <1>0, <1>1, <1>3, <2>1, <2>2, TakeSearches, SkipSearches, RollbackHadNoRoom DEF Promotion
<1>4. ASSUME NEW a \in held, FreeSingle(a) PROVE Searching' /\ NoRoom'
  BY <1>4, IdleAfter DEF FreeSingle, Release, Idle
<1>5. CASE UNCHANGED vars
  <2>1. UNCHANGED <<nextRegionID, rtype, nplanes, freeBytes, used, lru>> /\ job' = job
    BY <1>5 DEF vars, regionVars
  <2>2. \A t \in RegionTypes, s \in Sizes :
           /\ NoFastHit(t, s)' <=> NoFastHit(t, s)
           /\ BestRegions(t, s)' = BestRegions(t, s)
           /\ HasRoom(t, s)' <=> HasRoom(t, s)
    BY <2>1, ScanSame
  <2>3. (Fit(job.x, 0, job.size) = NoSpace)' <=> Fit(job.x, 0, job.size) = NoSpace
    BY <2>1 DEF Fit
  <2>4. Searching'
    BY <1>0, <2>1, <2>2, <2>3 DEF Searching
  <2>5. NoRoom'
    BY <1>0, <2>1, <2>2 DEF NoRoom, AllListable
  <2>. QED
    BY <1>1, <2>4, <2>5
<1>. QED
  BY <1>1, <1>2, <1>3, <1>4, <1>5 DEF NextVM

LEMMA MachineKept ==
    ASSUME Roomy, MaxYPromotions >= 1
    PROVE  SpecVM => []MachineInv
<1>1. [NextVM]_vars => [NextPlanes]_vars
  BY DEF NextPlanes
<1>2. [NextVM]_vars => [Next]_vars
  BY DEF Next, NextPlanes
<1>3. SpecVM => SpecPlanes
  BY <1>1, PTL DEF SpecVM, SpecPlanes
<1>4. SpecVM => Spec
  BY <1>2, PTL DEF SpecVM, Spec
<1>5. 0 \notin Sizes
  BY DEF Roomy
<1>6. Spec => []ListInv
  <2>1. LRUWellFormed /\ AllocCountExact => ListInv
    BY DEF ListInv
  <2>. QED
    BY <1>5, <2>1, LRUIsWellFormed, CountsAreExact, PTL
<1>7. SpecVM => [](AccountInv /\ ListInv)
  BY <1>3, <1>4, <1>6, AccountKept, PTL
<1>8. /\ AccountInv /\ ListInv /\ OnePlane /\ Searching /\ NoRoom
      /\ [NextVM]_vars
      => (OnePlane /\ Searching /\ NoRoom)'
  BY SearchStep DEF MachineInv
<1>9. SpecVM => [](OnePlane /\ Searching /\ NoRoom)
  BY <1>7, <1>8, MachineInit, PTL DEF SpecVM
<1>10. AccountInv /\ ListInv /\ OnePlane /\ Searching /\ NoRoom => MachineInv
  BY DEF MachineInv
<1>. QED
  BY <1>7, <1>9, <1>10, PTL

(* What the request that creates a region was not able to find. *)
LEMMA CreationNeeded ==
    ASSUME Roomy, MaxYPromotions >= 1, MachineInv, [NextVM]_vars,
           nextRegionID' # nextRegionID, AllListable
    PROVE  ~HasRoom(rtype'[nextRegionID'],
                    IF job.stage = "newregion" THEN job.size
                    ELSE IF held' = held THEN PlaneSize + 1
                    ELSE objs'[CHOOSE a \in held' \ held : TRUE].size)
<1>0. TypeOK /\ SafeInv /\ AccountInv /\ ListInv /\ OnePlane /\ NoRoom
  BY DEF MachineInv, AccountInv, SafeInv, TypeInv
<1>1. PICK t \in RegionTypes, size \in Sizes, f \in Flags : AllocateNewRegion(t, size, f)
  <2>1. ASSUME NEW t \in RegionTypes, NEW size \in Sizes, NEW f \in Flags,
               Allocate(t, size, f), ~AllocateNewRegion(t, size, f)
        PROVE  FALSE
    BY <2>1 DEF Allocate, AllocateFast, FastPanics, YPromotionBegin
  <2>2. ~Promotion
    BY DEF Promotion, YPromotionTake, YPromotionSkip, YPromotionPanics, YPromotionCommit,
           YPromotionRollback
  <2>3. \A a \in held : ~FreeSingle(a)
    BY DEF FreeSingle, Release
  <2>4. ~UNCHANGED vars
    BY DEF vars
  <2>. QED
    BY <2>1, <2>2, <2>3, <2>4 DEF NextVM
<1>2. rtype'[nextRegionID'] = t
  BY <1>0, <1>1 DEF AllocateNewRegion, TypeOK
<1>3. CASE job.stage = "newregion"
  <2>1. job.rt = t /\ job.size = size
    BY <1>1, <1>3 DEF AllocateNewRegion, Missed, Idle
  <2>. QED
    BY <1>0, <1>2, <1>3, <2>1 DEF NoRoom
<1>4. CASE job.stage # "newregion"
  <2>1. Idle /\ CanHold /\ NoFastHit(t, size) /\ BestRegions(t, size) = {}
    BY <1>1, <1>4 DEF AllocateNewRegion, Missed
  <2>2. \A p \in PlaneIds : job.frags[p].size = 0
    BY <1>0, <2>1 DEF SafeInv, JobFrags, Idle
  <2>3. ~HasRoom(t, size)
    BY <1>0, <2>1, <2>2, BestHasRoom
  <2>4. CASE held' = held
    <3>1. PlaneSize \in Nat
      BY AllocatorAssumption
    <3>2. \A z \in Offsets : ~(z + (PlaneSize + 1) <= PlaneSize)
      BY <3>1 DEF Offsets
    <3>3. ~HasRoom(t, PlaneSize + 1)
      BY <3>2 DEF HasRoom
    <3>. QED
      BY <1>2, <1>4, <2>4, <3>3
  <2>5. CASE held' # held
    <3>1. FreshID \in AllocIds \ held
      BY <1>0, <2>1, FreshIDIsFree DEF TypeOK, CanHold
    <3>2. /\ held' = held \cup {FreshID}
          /\ objs'[FreshID].size = size
      BY <1>0, <1>1, <2>5, <3>1 DEF AllocateNewRegion, Grant, TypeOK
    <3>3. held' \ held = {FreshID}
      BY <3>1, <3>2
    <3>4. (CHOOSE a \in held' \ held : TRUE) = FreshID
      BY <3>3
    <3>. QED
      BY <1>2, <1>4, <2>3, <2>5, <3>2, <3>4
  <2>. QED
    BY <2>4, <2>5
<1>. QED
  BY <1>3, <1>4

(* With planes of at most half of a uint16 (32768 bytes), and asked only   *)
(* through Allocate and Free for regions of one plane, the allocator       *)
(* creates a region only when none of its type has a free run for the      *)
(* block: as long as the list of recently used regions can name every      *)
(* region, tryFastAllocation and tryYPromotion together overlook nothing.  *)
(* Roomy leaves out the machine's own plane of 65535 bytes, where a grant  *)
(* that wraps makes FreeBytes drift. MaxYPromotions >= 1 is needed: with 0 *)
(* a region that a failed request left empty is never found again.         *)
THEOREM RegionsAreNeeded ==
    ASSUME Roomy, MaxYPromotions >= 1
    PROVE  SpecVM => NoNeedlessRegion
<1>1. MachineInv /\ [NextVM]_vars =>
        [nextRegionID' # nextRegionID /\ nextRegionID - 1 <= LRUCap =>
            ~HasRoom(rtype'[nextRegionID'],
                     IF job.stage = "newregion" THEN job.size
                     ELSE IF held' = held THEN PlaneSize + 1
                     ELSE objs'[CHOOSE a \in held' \ held : TRUE].size)]_vars
  BY CreationNeeded DEF AllListable
<1>. QED
  BY <1>1, MachineKept, PTL DEF SpecVM, NoNeedlessRegion

=============================================================================
