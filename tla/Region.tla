------------------------------- MODULE Region -------------------------------
(***************************************************************************)
(* One region used without the allocator: AddPlane, RemovePlane and        *)
(* GetPlane of internal/types/region.go, with the counters they keep, and  *)
(* the planning of Y-promotions by the BestFitPromoter of                  *)
(* internal/allocator/ypromotion.go.                                       *)
(*                                                                         *)
(* Planning finds room by allocating in the planes and then calls          *)
(* Plane.Free to undo it. Plane.Free looks for the block that starts       *)
(* there; none does, because the position was free, and the bits stay set. *)
(* The planes start with any contents, as earlier allocations left them.   *)
(***************************************************************************)
EXTENDS Bitmap, SequencesExt

CONSTANTS N,          \* Plane.Size; no sum of two positions wraps
          Planes,     \* planes the region has at first
          MaxPlanes,  \* bound: planes of the region
          Sizes,      \* sizes that plans are asked for
          U64,        \* number of values of a uint64
          MaxOff      \* bound: no plane is added once the counters are this far off

ASSUME RegionAssumption ==
    /\ N \in Nat \ {0} /\ 2 * N <= U16
    /\ Planes \in Nat /\ MaxPlanes \in Nat
    /\ Sizes \subseteq Nat /\ U64 \in Nat \ {0} /\ MaxOff \in Nat

VARIABLES
    planes,   \* Region.Planes: the ID and the FreeMap of each
    total,    \* Region.TotalBytes
    free,     \* Region.FreeBytes
    plan,     \* the last plan: whether there is one, and its fragments
    leaked,   \* history: bytes that planning has set and not cleared
    fulls     \* history: planes that were full when they were removed

vars == <<planes, total, free, plan, leaked, fulls>>

NoPlan == [found |-> FALSE, fragments |-> << >>]

Free(i) == FreeBytes(planes[i].bits, N)

Fit(i, size) == FindContiguous(planes[i].bits, N, size)

FreeOf == [i \in DOMAIN planes |-> Free(i)]

AllFree == MapThenSumSet(LAMBDA i : FreeOf[i], DOMAIN planes)

Init ==
    /\ \E bits \in [1 .. Planes -> SUBSET (0 .. (N - 1))] :
          planes = [i \in 1 .. Planes |-> [id |-> i - 1, bits |-> bits[i]]]
    /\ total = (N * Planes) % U64
    /\ free = AllFree % U64
    /\ plan = NoPlan
    /\ leaked = 0
    /\ fulls = 0

-----------------------------------------------------------------------------
(* The planes of a region. *)

(* Mutant: FreeBytes is left for the allocations in the plane to change. *)
AddPlaneUncounted ==
    /\ Len(planes) < MaxPlanes
    /\ leaked + fulls <= MaxOff
    /\ planes' = Append(planes, [id |-> Len(planes), bits |-> {}])
    /\ total' = (total + N) % U64
    /\ plan' = NoPlan
    /\ UNCHANGED <<free, leaked, fulls>>

(* A new plane gets the number of planes as its ID, as in AllocateInRegion. *)
AddPlane ==
    /\ Len(planes) < MaxPlanes
    /\ leaked + fulls <= MaxOff
    /\ planes' = Append(planes, [id |-> Len(planes), bits |-> {}])
    /\ total' = (total + N) % U64
    /\ free' = (free + N) % U64
    /\ plan' = NoPlan
    /\ UNCHANGED <<leaked, fulls>>

(* The first plane with the ID, as GetPlane and RemovePlane find it. *)
GetPlane(id) ==
    LET found == {i \in DOMAIN planes : planes[i].id = id}
    IN  IF found = {} THEN 0 ELSE Min(found)

(* ^uint64(plane.FreeBytes()-1) with the subtraction on uint16: a plane with *)
(* no free byte takes away U16.                                              *)
RemovePlane(id) ==
    LET i == GetPlane(id)
    IN  /\ i # 0
        /\ planes' = RemoveAt(planes, i)
        /\ total' = (total - N) % U64
        /\ free' = (free - (IF Free(i) = 0 THEN U16 ELSE Free(i))) % U64
        /\ fulls' = IF Free(i) = 0 THEN fulls + 1 ELSE fulls
        /\ plan' = NoPlan
        /\ UNCHANGED leaked

-----------------------------------------------------------------------------
(* BestFitPromoter. *)

Frag(i, z, size) == [plane |-> planes[i].id, at |-> i, start |-> z, size |-> size]

(* findBestFit: the planes that can hold all of it. *)
Single(size) == {i \in DOMAIN planes : Free(i) >= size /\ Fit(i, size) # NoSpace}

(* Mutant: every plane gives all that is free in it. *)
WantAll(i, remaining) == Free(i)

(* allocSize: what is free in the plane, or what remains. *)
Want(i, remaining) == IF Free(i) < remaining THEN Free(i) ELSE remaining

(* One turn of the loop of findMultiPlaneFit. *)
TryPlane(acc, i) ==
    LET want == Want(i, acc.remaining)
        z    == Fit(i, want)
    IN  IF acc.remaining = 0 \/ Free(i) = 0 \/ z = NoSpace THEN acc
        ELSE [remaining |-> acc.remaining - want,
              fragments |-> Append(acc.fragments, Frag(i, z, want))]

findMultiPlaneFit(size) ==
    LET after[k \in 0 .. Len(planes)] ==
            IF k = 0 THEN [remaining |-> size, fragments |-> << >>]
            ELSE TryPlane(after[k - 1], k)
    IN  after[Len(planes)]

findBestFit(size) ==
    IF Single(size) # {}
    THEN LET i == Min(Single(size))
         IN  [remaining |-> 0, fragments |-> <<Frag(i, Fit(i, size), size)>>]
    ELSE findMultiPlaneFit(size)

(* The plane's bits after the trial allocations of a plan. *)
Tried(i, fragments) ==
    planes[i].bits \cup
        UNION {f.start .. (f.start + f.size - 1) : f \in {g \in ToSet(fragments) : g.at = i}}

FindPromotion(size) ==
    LET fit == findBestFit(size)
    IN  /\ plan' = IF fit.remaining > 0 THEN NoPlan
                    ELSE [found |-> TRUE, fragments |-> fit.fragments]
        /\ planes' = [i \in DOMAIN planes |->
                        [planes[i] EXCEPT !.bits = Tried(i, fit.fragments)]]
        /\ leaked' = leaked + (size - fit.remaining)
        /\ UNCHANGED <<total, free, fulls>>

-----------------------------------------------------------------------------
Next ==
    \/ AddPlane
    \/ \E id \in 0 .. (MaxPlanes - 1) : RemovePlane(id)
    \/ \E size \in Sizes : FindPromotion(size)

Spec == Init /\ [][Next]_vars

-----------------------------------------------------------------------------
(* Properties. *)

(* The starts of the free runs of a plane, without words or a scan. *)
FreeRuns(i, size) ==
    {s \in 0 .. (N - size) : (s .. (s + size - 1)) \cap planes[i].bits = {}}

(* FindContiguous finds the lowest free run whenever there is one, and     *)
(* never panics: the early "not enough space left" return overlooks no     *)
(* run, and skipping to the next free bit after a conflict passes over     *)
(* none. The words and masks of a check are a set intersection in Verdict  *)
(* and are not what is shown here.                                         *)
FirstFitCorrect ==
    \A i \in DOMAIN planes, size \in 1 .. N :
        Fit(i, size) = IF FreeRuns(i, size) = {} THEN NoSpace ELSE Min(FreeRuns(i, size))

(* Fragmentation is 0 exactly when the free space is one run or there is   *)
(* none, that is when FindContiguous can hand it out whole, and it is      *)
(* below 1: this is what the threshold of AnalyzeCompaction relies on.     *)
FragmentationMeaning ==
    \A i \in DOMAIN planes :
        LET numerator == FragNumerator(planes[i].bits, N)
        IN  /\ numerator \in 0 .. Free(i)
            /\ Free(i) > 0 => numerator < Free(i)
            /\ numerator = 0 <=> Free(i) = 0 \/ Fit(i, Free(i)) # NoSpace

(* The region's counters are what its planes add up to: TotalBytes their   *)
(* sizes, FreeBytes their clear bits (allocator_test.go compares the two). *)
CountersExact ==
    /\ total = (N * Len(planes)) % U64
    /\ free = AllFree % U64

(* AddPlane, and RemovePlane of a plane with free bytes, keep the counters *)
(* right: they are exact as long as no trial allocation of a plan has      *)
(* stayed in a plane and no full plane was removed.                        *)
CountersHold == leaked = 0 /\ fulls = 0 => CountersExact

(* One fragment when some plane has a run that holds the block. *)
PlanFor(size) ==
    IF \E i \in DOMAIN planes : size > 0 /\ FreeRuns(i, size) # {}
    THEN plan'.found /\ Len(plan'.fragments) = 1
    ELSE size > 0 /\ plan'.found => Len(plan'.fragments) > 1

(* The bytes of a plan, fragment by fragment. *)
Bytes(fragments) == [k \in DOMAIN fragments |-> fragments[k].size]

(* FindPromotion plans well from what it sees: the fragments add up to the *)
(* size, lie one to a plane, and each is a run that was free when planning *)
(* began. The plan uses several planes, or fails, only when no plane has a *)
(* run that holds the block.                                               *)
PlanSound ==
    [][\A size \in Sizes : FindPromotion(size) =>
          LET fs == plan'.fragments
          IN  /\ PlanFor(size)
              /\ plan'.found => MapThenSumSet(LAMBDA k : Bytes(fs)[k], DOMAIN fs) = size
              /\ \A j, k \in DOMAIN fs : fs[j].at = fs[k].at => j = k
              /\ \A k \in DOMAIN fs :
                    fs[k].start \in FreeRuns(fs[k].at, fs[k].size)]_vars

(* A plan can be carried out: "Rollback the test allocation" says that     *)
(* planning leaves the planes as they were, so that the runs it names are  *)
(* free until the region changes.                                          *)
PlanStands ==
    \A k \in DOMAIN plan.fragments :
        LET f == plan.fragments[k] IN f.start \in FreeRuns(f.at, f.size)

=============================================================================
