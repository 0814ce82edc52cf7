---------------------------- MODULE Region_proofs ----------------------------
(***************************************************************************)
(* Proofs about Region, for every value of its constants: FindContiguous   *)
(* and the fragmentation in every state the region can be in, the          *)
(* counters, and the plans.                                                *)
(***************************************************************************)
EXTENDS Region, Bitmap_proofs, SequenceTheorems

Plane == [id : Nat, bits : SUBSET (0 .. (N - 1))]

PlanesOK == planes \in Seq(Plane)

(* How far the counters are off: every byte that planning tried stays in   *)
(* FreeBytes although its bit is set, and a plane that is removed when     *)
(* full takes 2^16 bytes with it.                                          *)
CountersOff ==
    /\ total = (N * Len(planes)) % U64
    /\ free = (AllFree + leaked - U16 * fulls) % U64

(* The inductive invariant: CountersHold alone says nothing of the states  *)
(* from which the counters might become right again by accident.           *)
RegionInv ==
    /\ PlanesOK
    /\ leaked \in Nat
    /\ fulls \in Nat
    /\ CountersOff

-----------------------------------------------------------------------------
(* Arithmetic modulo m, and sums over the positions of a sequence. *)

LEMMA SmallMultiple ==
    ASSUME NEW m \in Nat \ {0}, NEW k \in Int, m * k < m, 0 - m < m * k
    PROVE  k = 0
<1>1. ASSUME k >= 1 PROVE FALSE
  <2>1. m * k >= m * 1
    BY <1>1
  <2>. QED
    BY <2>1
<1>2. ASSUME k <= 0 - 1 PROVE FALSE
  <2>1. m * k <= m * (0 - 1)
    BY <1>2
  <2>. QED
    BY <2>1
<1>. QED
  BY <1>1, <1>2

(* Taking the remainder early does not change it. *)
LEMMA ModAdd ==
    ASSUME NEW a \in Int, NEW b \in Int, NEW m \in Nat \ {0}
    PROVE  ((a % m) + b) % m = (a + b) % m
<1>. DEFINE r == a % m
            q == a \div m
            r1 == (r + b) % m
            q1 == (r + b) \div m
            r2 == (a + b) % m
            q2 == (a + b) \div m
<1>1. q \in Int /\ r \in 0 .. (m - 1) /\ a = m * q + r
  OBVIOUS
<1>2. q2 \in Int /\ r2 \in 0 .. (m - 1) /\ a + b = m * q2 + r2
  OBVIOUS
<1>3. q1 \in Int /\ r1 \in 0 .. (m - 1) /\ r + b = m * q1 + r1
  <2>. HIDE DEF r
  <2>. QED
    BY <1>1
<1>. HIDE DEF r, q, r1, q1, r2, q2
<1>4. m * (q2 - q - q1) = r1 - r2
  <2>1. m * (q2 - q - q1) = m * q2 - m * q - m * q1
    BY <1>1, <1>2, <1>3
  <2>2. m * q \in Int /\ m * q1 \in Int /\ m * q2 \in Int
    BY <1>1, <1>2, <1>3
  <2>. QED
    BY <1>1, <1>2, <1>3, <2>1, <2>2
<1>5. q2 - q - q1 = 0
  <2>1. q2 - q - q1 \in Int
    BY <1>1, <1>2, <1>3
  <2>. QED
    BY <1>2, <1>3, <1>4, <2>1, SmallMultiple
<1>6. r1 = r2
  <2>1. m * 0 = 0
    OBVIOUS
  <2>. QED
    BY <1>2, <1>3, <1>4, <1>5, <2>1
<1>. QED
  BY <1>6 DEF r1, r2, r

LEMMA SumUpTo ==
    ASSUME NEW f, NEW k \in Nat \ {0}, \A j \in 1 .. k : f[j] \in Nat
    PROVE  /\ SumOf(f, 1 .. k) = f[k] + SumOf(f, 1 .. (k - 1))
           /\ SumOf(f, 1 .. (k - 1)) \in Nat
<1>1. IsFiniteSet(1 .. (k - 1))
  BY FS_Interval
<1>2. 1 .. k = (1 .. (k - 1)) \cup {k} /\ k \notin 1 .. (k - 1)
  OBVIOUS
<1>3. \A y \in (1 .. (k - 1)) \cup {k} : f[y] \in Nat
  BY <1>2
<1>4. SumOf(f, (1 .. (k - 1)) \cup {k}) = f[k] + SumOf(f, 1 .. (k - 1))
  BY <1>1, <1>2, <1>3, SumAdd
<1>5. SumOf(f, 1 .. (k - 1)) \in Nat
  BY <1>1, <1>3, SumNat
<1>. QED
  BY <1>2, <1>4, <1>5, Zenon

(* g is f, a sequence of n numbers, without its element i: the later ones move down. *)
Without(f, g, n, i) ==
    /\ \A j \in 1 .. n : f[j] \in Nat
    /\ \A j \in 1 .. (i - 1) : g[j] = f[j]
    /\ \A j \in i .. (n - 1) : g[j] = f[j + 1]

LEMMA SumShift ==
    ASSUME NEW f, NEW g, NEW n \in Nat, NEW i \in 1 .. n, Without(f, g, n, i)
    PROVE  SumOf(f, 1 .. n) = f[i] + SumOf(g, 1 .. (n - 1))
<1>. USE DEF Without
<1>. DEFINE C == {k \in i .. n : SumOf(f, 1 .. k) # f[i] + SumOf(g, 1 .. (k - 1))}
<1>1. C = {}
  <2>. SUFFICES ASSUME C # {} PROVE FALSE
    OBVIOUS
  <2>1. PICK k \in C : \A y \in C : k <= y
    <3>1. C \in SUBSET Nat
      OBVIOUS
    <3>. HIDE DEF C
    <3>. QED
      BY <3>1, LeastNat
  <2>2. k \in Nat \ {0} /\ \A j \in 1 .. k : f[j] \in Nat
    OBVIOUS
  <2>3. SumOf(f, 1 .. k) = f[k] + SumOf(f, 1 .. (k - 1)) /\ SumOf(f, 1 .. (k - 1)) \in Nat
    BY <2>2, SumUpTo
  <2>4. CASE k = i
    <3>1. IsFiniteSet(1 .. (k - 1)) /\ \A j \in 1 .. (k - 1) : f[j] = g[j]
      BY <2>4, FS_Interval
    <3>2. SumOf(f, 1 .. (k - 1)) = SumOf(g, 1 .. (k - 1))
      BY <3>1, SumCong
    <3>. QED
      BY <2>3, <2>4, <3>2
  <2>5. CASE k # i
    <3>1. k - 1 \in i .. n /\ k - 1 \notin C
      BY <2>1, <2>5
    <3>2. SumOf(f, 1 .. (k - 1)) = f[i] + SumOf(g, 1 .. (k - 1 - 1))
      BY <3>1
    <3>3. k - 1 \in Nat \ {0} /\ \A j \in 1 .. (k - 1) : g[j] \in Nat
      <4>1. k \in i .. n /\ k - 1 \in Nat \ {0}
        BY <3>1
      <4>. HIDE DEF C
      <4>2. ASSUME NEW j \in 1 .. (k - 1) PROVE g[j] \in Nat
        <5>1. CASE j < i
          <6>1. j \in 1 .. (i - 1) /\ j \in 1 .. n
            BY <4>1, <5>1
          <6>. QED
            BY <6>1
        <5>2. CASE j >= i
          <6>1. j \in i .. (n - 1) /\ j + 1 \in 1 .. n
            BY <4>1, <5>2
          <6>. QED
            BY <6>1
        <5>. QED
          BY <4>1, <5>1, <5>2
      <4>. QED
        BY <4>1, <4>2
    <3>4. /\ SumOf(g, 1 .. (k - 1)) = g[k - 1] + SumOf(g, 1 .. (k - 1 - 1))
          /\ SumOf(g, 1 .. (k - 1 - 1)) \in Nat
      BY <3>3, SumUpTo
    <3>5. g[k - 1] = f[k]
      <4>1. k - 1 \in i .. (n - 1) /\ (k - 1) + 1 = k
        BY <3>1
      <4>. QED
        BY <4>1
    <3>6. SumOf(f, 1 .. k) = f[i] + SumOf(g, 1 .. (k - 1))
      <4>1. f[k] \in Nat /\ f[i] \in Nat
        BY <2>2
      <4>. HIDE DEF C
      <4>. QED
        BY <2>3, <3>2, <3>4, <3>5, <4>1
    <3>. QED
      BY <3>6
  <2>. QED
    BY <2>4, <2>5
<1>. QED
  BY <1>1

-----------------------------------------------------------------------------
(* What the region's planes are. *)

LEMMA PlaneAt ==
    ASSUME PlanesOK, NEW i \in DOMAIN planes
    PROVE  /\ planes[i] \in Plane
           /\ planes[i].id \in Nat /\ planes[i].bits \in SUBSET (0 .. (N - 1))
           /\ Free(i) \in 0 .. N
           /\ i \in 1 .. Len(planes)
<1>1. planes[i] \in Plane /\ i \in 1 .. Len(planes)
  BY DEF PlanesOK
<1>2. planes[i].id \in Nat /\ planes[i].bits \in SUBSET (0 .. (N - 1))
  BY <1>1 DEF Plane
<1>3. Free(i) \in 0 .. N
  BY <1>2, FreeBytesRange, RegionAssumption DEF Free
<1>. QED
  BY <1>1, <1>2, <1>3

(* The free bytes of each plane of a sequence of planes. *)
FreeIn(ps) == [i \in DOMAIN ps |-> FreeBytes(ps[i].bits, N)]

LEMMA FreeInIs ==
    ASSUME NEW ps \in Seq(Plane)
    PROVE  /\ DOMAIN ps = 1 .. Len(ps) /\ Len(ps) \in Nat
           /\ \A i \in 1 .. Len(ps) :
                 FreeIn(ps)[i] = FreeBytes(ps[i].bits, N) /\ FreeIn(ps)[i] \in Nat
           /\ SumOf(FreeIn(ps), 1 .. Len(ps)) \in Nat
<1>1. DOMAIN ps = 1 .. Len(ps) /\ Len(ps) \in Nat
  OBVIOUS
<1>2. ASSUME NEW i \in 1 .. Len(ps)
      PROVE  FreeIn(ps)[i] = FreeBytes(ps[i].bits, N) /\ FreeIn(ps)[i] \in Nat
  <2>1. ps[i].bits \in SUBSET (0 .. (N - 1)) /\ N \in Nat
    <3>1. ps[i] \in Plane
      BY <1>1
    <3>. QED
      BY <3>1, RegionAssumption DEF Plane
  <2>2. FreeBytes(ps[i].bits, N) \in 0 .. N
    BY <2>1, FreeBytesRange
  <2>. QED
    BY <1>1, <2>1, <2>2 DEF FreeIn
<1>3. SumOf(FreeIn(ps), 1 .. Len(ps)) \in Nat
  <2>1. IsFiniteSet(1 .. Len(ps))
    BY <1>1, FS_Interval
  <2>. QED
    BY <1>2, <2>1, SumNat
<1>. QED
  BY <1>1, <1>2, <1>3

LEMMA AllFreeIs ==
    ASSUME PlanesOK
    PROVE  /\ DOMAIN planes = 1 .. Len(planes) /\ Len(planes) \in Nat
           /\ AllFree = SumOf(FreeOf, 1 .. Len(planes))
           /\ \A i \in 1 .. Len(planes) : FreeOf[i] = Free(i) /\ FreeOf[i] \in Nat
           /\ AllFree \in Nat
<1>1. FreeOf = FreeIn(planes)
  BY DEF FreeOf, FreeIn, Free
<1>2. planes \in Seq(Plane)
  BY DEF PlanesOK
<1>3. DOMAIN planes = 1 .. Len(planes)
  BY <1>2, FreeInIs
<1>4. AllFree = SumOf(FreeOf, 1 .. Len(planes))
  BY <1>3 DEF AllFree, SumOf
<1>. QED
  BY <1>1, <1>2, <1>4, FreeInIs DEF Free

(* The sum of what is free, before and after a step. *)
LEMMA AllFreeMoves ==
    ASSUME PlanesOK, PlanesOK'
    PROVE  /\ AllFree = SumOf(FreeIn(planes), 1 .. Len(planes)) /\ AllFree \in Nat
           /\ AllFree' = SumOf(FreeIn(planes'), 1 .. Len(planes')) /\ AllFree' \in Nat
<1>1. FreeOf = FreeIn(planes) /\ FreeOf' = FreeIn(planes')
  BY DEF FreeOf, FreeIn, Free
<1>2. planes \in Seq(Plane) /\ planes' \in Seq(Plane)
  BY DEF PlanesOK
<1>3. DOMAIN planes = 1 .. Len(planes) /\ DOMAIN planes' = 1 .. Len(planes')
  BY <1>2, FreeInIs
<1>4. AllFree = SumOf(FreeOf, 1 .. Len(planes))
  BY <1>3 DEF AllFree, SumOf
<1>5. AllFree' = SumOf(FreeOf', 1 .. Len(planes'))
  BY <1>3 DEF AllFree, SumOf, MapThenSumSet, MapThenFoldSet
<1>. QED
  BY <1>1, <1>2, <1>4, <1>5, FreeInIs

(* What FindContiguous answers in a plane of the region. *)
LEMMA FitIs ==
    ASSUME PlanesOK, NEW i \in DOMAIN planes
    PROVE  /\ \A size \in 1 .. N :
                 Fit(i, size) = IF FreeRuns(i, size) = {} THEN NoSpace
                                ELSE Min(FreeRuns(i, size))
           /\ \A size \in Nat : Fit(i, size) # NoSpace =>
                 size \in 1 .. N /\ Fit(i, size) \in FreeRuns(i, size)
<1>1. planes[i].bits \in SUBSET (0 .. (N - 1)) /\ N \in Nat /\ 2 * N <= U16
  BY PlaneAt, RegionAssumption
<1>2. \A size : FreeRuns(i, size) = FreeStarts(planes[i].bits, N, size)
  BY DEF FreeRuns, FreeStarts
<1>3. ASSUME NEW size \in 1 .. N
      PROVE  Fit(i, size) = IF FreeRuns(i, size) = {} THEN NoSpace
                            ELSE Min(FreeRuns(i, size))
  BY <1>1, <1>2, FirstFit DEF Fit
<1>4. ASSUME NEW size \in Nat, Fit(i, size) # NoSpace
      PROVE  size \in 1 .. N /\ Fit(i, size) \in FreeRuns(i, size)
  <2>1. size \in 1 .. N
    BY <1>1, <1>4 DEF Fit, FindContiguous
  <2>2. FreeRuns(i, size) # {} /\ Fit(i, size) = Min(FreeRuns(i, size))
    BY <1>3, <1>4, <2>1
  <2>3. FreeRuns(i, size) \in SUBSET Nat
    BY <1>1, <2>1 DEF FreeRuns
  <2>. QED
    BY <2>1, <2>2, <2>3, MinOfNat
<1>. QED
  BY <1>3, <1>4

(* FirstFitCorrect and FragmentationMeaning say something of every bitmap. *)
LEMMA PlanesFirstFit ==
    ASSUME PlanesOK
    PROVE  FirstFitCorrect
BY FitIs DEF FirstFitCorrect

LEMMA PlanesFragmentation ==
    ASSUME PlanesOK
    PROVE  FragmentationMeaning
<1>. SUFFICES ASSUME NEW i \in DOMAIN planes
     PROVE  /\ FragNumerator(planes[i].bits, N) \in 0 .. Free(i)
            /\ Free(i) > 0 => FragNumerator(planes[i].bits, N) < Free(i)
            /\ FragNumerator(planes[i].bits, N) = 0 <=> Free(i) = 0 \/ Fit(i, Free(i)) # NoSpace
  BY DEF FragmentationMeaning
<1>1. planes[i].bits \in SUBSET (0 .. (N - 1)) /\ N \in Nat /\ 2 * N <= U16
  BY PlaneAt, RegionAssumption
<1>. QED
  BY <1>1, FragmentationIs DEF Free, Fit

-----------------------------------------------------------------------------
(* Plans: what the fragments found so far are. *)

Fragment == [plane : Nat, at : Nat, start : Nat, size : Nat]

(* The fragments lie one to a plane among the first k, each in a free run. *)
Lays(fs, k) ==
    /\ fs \in Seq(Fragment)
    /\ \A j \in 1 .. Len(fs) :
          /\ fs[j].at \in 1 .. k
          /\ fs[j].plane = planes[fs[j].at].id
          /\ fs[j].size \in 1 .. N
          /\ fs[j].start \in FreeRuns(fs[j].at, fs[j].size)
    /\ \A j, l \in 1 .. Len(fs) : fs[j].at = fs[l].at => j = l

(* What is free in each plane after the trial allocations of a plan. *)
FreeAfter(fs) == [i \in DOMAIN planes |-> FreeBytes(Tried(i, fs), N)]

(* The fragments add up to this many bytes, and the planes lose as many. *)
Accounts(fs, bytes) ==
    /\ SumOf(Bytes(fs), 1 .. Len(fs)) = bytes
    /\ SumOf(FreeAfter(fs), 1 .. Len(planes)) + bytes = AllFree

(* What is set in a plane by the trial allocations: the runs at i. *)
LEMMA TriedIs ==
    ASSUME NEW fs \in Seq(Fragment), NEW i, NEW x
    PROVE  x \in Tried(i, fs) <=>
             \/ x \in planes[i].bits
             \/ \E j \in 1 .. Len(fs) :
                   fs[j].at = i /\ x \in fs[j].start .. (fs[j].start + fs[j].size - 1)
<1>1. DOMAIN fs = 1 .. Len(fs)
  OBVIOUS
<1>2. ToSet(fs) = {fs[j] : j \in 1 .. Len(fs)}
  BY <1>1 DEF ToSet
<1>. DEFINE At == {g \in ToSet(fs) : g.at = i}
<1>3. x \in UNION {f.start .. (f.start + f.size - 1) : f \in At}
        <=> \E f \in At : x \in f.start .. (f.start + f.size - 1)
  <2>. HIDE DEF At
  <2>. QED
    OBVIOUS
<1>4. (\E f \in At : x \in f.start .. (f.start + f.size - 1))
        <=> \E j \in 1 .. Len(fs) :
              fs[j].at = i /\ x \in fs[j].start .. (fs[j].start + fs[j].size - 1)
  BY <1>2, Zenon
<1>. QED
  BY <1>3, <1>4 DEF Tried

LEMMA TriedInPlane ==
    ASSUME PlanesOK, NEW k \in 0 .. Len(planes), NEW fs, Lays(fs, k), NEW i \in DOMAIN planes
    PROVE  /\ Tried(i, fs) \in SUBSET (0 .. (N - 1))
           /\ FreeAfter(fs)[i] \in Nat
<1>1. fs \in Seq(Fragment) /\ planes[i].bits \in SUBSET (0 .. (N - 1)) /\ N \in Nat
  BY PlaneAt, RegionAssumption DEF Lays
<1>2. ASSUME NEW j \in 1 .. Len(fs)
      PROVE  fs[j].start .. (fs[j].start + fs[j].size - 1) \subseteq 0 .. (N - 1)
  <2>1. fs[j].size \in 1 .. N /\ fs[j].start \in 0 .. (N - fs[j].size)
    BY DEF Lays, FreeRuns
  <2>. DEFINE a == fs[j].start
              b == fs[j].size
  <2>2. N \in Nat /\ b \in 1 .. N /\ a \in 0 .. (N - b)
    BY <1>1, <2>1
  <2>. HIDE DEF a, b
  <2>3. a .. (a + b - 1) \subseteq 0 .. (N - 1)
    BY <2>2
  <2>. QED
    BY <2>3 DEF a, b
<1>3. \A x \in Tried(i, fs) : x \in 0 .. (N - 1)
  BY <1>1, <1>2, TriedIs
<1>4. FreeBytes(Tried(i, fs), N) \in 0 .. N
  BY <1>1, <1>3, FreeBytesRange
<1>. QED
  BY <1>1, <1>3, <1>4 DEF FreeAfter

LEMMA PlanEmpty ==
    ASSUME PlanesOK
    PROVE  Lays(<< >>, 0) /\ Accounts(<< >>, 0)
<1>1. Lays(<< >>, 0)
  BY DEF Lays
<1>2. \A i \in 1 .. Len(planes) : FreeAfter(<< >>)[i] = FreeOf[i]
  <2>. SUFFICES ASSUME NEW i \in 1 .. Len(planes)
                PROVE  FreeAfter(<< >>)[i] = FreeOf[i]
    OBVIOUS
  <2>0. i \in DOMAIN planes
    BY AllFreeIs
  <2>. DEFINE none == << >>
  <2>1. none \in Seq(Fragment) /\ 1 .. Len(none) = {}
    OBVIOUS
  <2>. HIDE DEF none
  <2>2. \A x : x \in Tried(i, none) <=> x \in planes[i].bits
    BY <2>1, TriedIs
  <2>3. Tried(i, none) = planes[i].bits
    BY <2>2
  <2>. USE DEF none
  <2>. QED
    BY <2>0, <2>3, Zenon DEF FreeAfter, FreeOf, Free
<1>3. SumOf(FreeAfter(<< >>), 1 .. Len(planes)) = SumOf(FreeOf, 1 .. Len(planes))
  <2>1. IsFiniteSet(1 .. Len(planes))
    BY AllFreeIs, FS_Interval
  <2>. QED
    BY <1>2, <2>1, SumCong
<1>4. SumOf(Bytes(<< >>), {}) = 0 /\ 1 .. Len(<< >>) = {}
  BY SumEmpty
<1>. QED
  BY <1>1, <1>3, <1>4, AllFreeIs DEF Accounts

(* The runs of a plan stay its runs while later planes are looked at. *)
LEMMA LaysMore ==
    ASSUME NEW k \in Nat, NEW l \in Nat, k <= l, NEW fs, Lays(fs, k)
    PROVE  Lays(fs, l)
BY DEF Lays

(* A free run has at most the plane's free bytes, and setting it takes     *)
(* its length from them.                                                   *)
LEMMA SetRun ==
    ASSUME PlanesOK, NEW i \in DOMAIN planes, NEW want \in 1 .. N, NEW z \in FreeRuns(i, want)
    PROVE  /\ FreeBytes(planes[i].bits \cup (z .. (z + want - 1)), N) = Free(i) - want
           /\ want <= Free(i)
<1>. DEFINE u == planes[i].bits
            r == z .. (z + want - 1)
<1>1. u \in SUBSET (0 .. (N - 1)) /\ N \in Nat
  BY PlaneAt, RegionAssumption
<1>2. z \in 0 .. (N - want) /\ r \cap u = {}
  BY DEF FreeRuns
<1>3. u \cup r \in SUBSET (0 .. (N - 1))
  BY <1>1, <1>2
<1>4. IsFiniteSet(u) /\ IsFiniteSet(r) /\ Cardinality(r) = want
  <2>1. IsFiniteSet(0 .. (N - 1))
    BY <1>1, FS_Interval
  <2>2. IsFiniteSet(u)
    BY <1>1, <2>1, FS_Subset
  <2>3. z \in Int /\ want \in Int /\ z <= z + want - 1
    BY <1>1, <1>2
  <2>4. IsFiniteSet(r) /\ Cardinality(r) = (z + want - 1) - z + 1
    BY <2>3, FS_Interval
  <2>. QED
    BY <2>2, <2>3, <2>4
<1>5. Cardinality(u \cup r) = Cardinality(u) + want
  <2>1. Cardinality(u \cup r) = Cardinality(u) + Cardinality(r) - Cardinality(u \cap r)
    BY <1>4, FS_Union
  <2>2. Cardinality(u \cap r) = 0
    <3>1. u \cap r = {}
      BY <1>2
    <3>. QED
      BY <3>1, FS_EmptySet, Zenon
  <2>3. Cardinality(u) \in Nat
    BY <1>4, FS_CardinalityType
  <2>. QED
    BY <1>4, <2>1, <2>2, <2>3
<1>6. FreeBytes(u \cup r, N) \in Nat /\ Cardinality(u) \in Nat
  <2>1. FreeBytes(u \cup r, N) \in 0 .. N
    <3>. HIDE DEF u, r
    <3>. QED
      BY <1>1, <1>3, FreeBytesRange
  <2>2. Cardinality(u) \in Nat
    BY <1>4, FS_CardinalityType
  <2>. QED
    BY <1>1, <2>1, <2>2
<1>. HIDE DEF u, r
<1>7. FreeBytes(u \cup r, N) = FreeBytes(u, N) - want /\ want <= FreeBytes(u, N)
  BY <1>1, <1>5, <1>6 DEF FreeBytes
<1>. QED
  BY <1>7 DEF u, r, Free

(* One more fragment, in a plane after those used so far. *)
LEMMA LaysAppend ==
    ASSUME PlanesOK, NEW k \in Nat, NEW i \in 1 .. Len(planes), k < i,
           NEW fs, Lays(fs, k), NEW want \in 1 .. N, NEW z \in FreeRuns(i, want)
    PROVE  Lays(Append(fs, Frag(i, z, want)), i)
<1>. DEFINE f == Frag(i, z, want)
            gs == Append(fs, f)
            n == Len(fs)
<1>1. fs \in Seq(Fragment) /\ n \in Nat /\ N \in Nat /\ i \in DOMAIN planes
  BY RegionAssumption, AllFreeIs DEF Lays
<1>2. /\ f \in Fragment /\ f.plane = planes[i].id /\ f.at = i
      /\ f.start = z /\ f.size = want
  <2>1. planes[i].id \in Nat /\ z \in Nat /\ want \in Nat /\ i \in Nat
    BY <1>1, PlaneAt DEF FreeRuns
  <2>. QED
    BY <2>1 DEF Frag, Fragment
<1>. HIDE DEF f
<1>3. /\ gs \in Seq(Fragment) /\ Len(gs) = n + 1 /\ gs[n + 1] = f
      /\ \A j \in 1 .. n : gs[j] = fs[j]
  BY <1>1, <1>2, AppendProperties
<1>. HIDE DEF gs
<1>4. \A j \in 1 .. Len(gs) : j \in 1 .. n \/ j = n + 1
  BY <1>1, <1>3
<1>5. ASSUME NEW j \in 1 .. n
      PROVE  /\ gs[j].at \in 1 .. k
             /\ gs[j].plane = planes[gs[j].at].id
             /\ gs[j].size \in 1 .. N
             /\ gs[j].start \in FreeRuns(gs[j].at, gs[j].size)
  BY <1>3 DEF Lays
<1>6. ASSUME NEW j \in 1 .. Len(gs)
      PROVE  /\ gs[j].at \in 1 .. i
             /\ gs[j].plane = planes[gs[j].at].id
             /\ gs[j].size \in 1 .. N
             /\ gs[j].start \in FreeRuns(gs[j].at, gs[j].size)
  <2>1. CASE j \in 1 .. n
    <3>1. gs[j].at \in 1 .. i
      BY <1>5, <2>1
    <3>. QED
      BY <1>5, <2>1, <3>1
  <2>2. CASE j = n + 1
    BY <1>2, <1>3, <2>2
  <2>. QED
    BY <1>4, <2>1, <2>2
<1>7. ASSUME NEW j \in 1 .. Len(gs), NEW l \in 1 .. Len(gs), gs[j].at = gs[l].at
      PROVE  j = l
  <2>1. ASSUME NEW a \in 1 .. n PROVE gs[a].at # gs[n + 1].at
    <3>1. gs[a].at \in 1 .. k /\ gs[n + 1].at = i
      BY <1>2, <1>3, <1>5
    <3>. QED
      BY <3>1
  <2>2. CASE j \in 1 .. n /\ l \in 1 .. n
    BY <1>3, <1>7, <2>2 DEF Lays
  <2>. QED
    BY <1>4, <1>7, <2>1, <2>2
<1>8. Lays(gs, i)
  BY <1>3, <1>6, <1>7 DEF Lays
<1>. QED
  BY <1>8 DEF gs, f

LEMMA AccountsAppend ==
    ASSUME PlanesOK, NEW k \in Nat, NEW i \in 1 .. Len(planes), k < i,
           NEW fs, Lays(fs, k), NEW want \in 1 .. N, NEW z \in FreeRuns(i, want),
           NEW bytes \in Nat, Accounts(fs, bytes)
    PROVE  Accounts(Append(fs, Frag(i, z, want)), bytes + want)
<1>. DEFINE f == Frag(i, z, want)
            gs == Append(fs, f)
            n == Len(fs)
            P == 1 .. Len(planes)
<1>1. /\ fs \in Seq(Fragment) /\ n \in Nat /\ N \in Nat
      /\ DOMAIN planes = P /\ Len(planes) \in Nat /\ IsFiniteSet(P)
  BY RegionAssumption, AllFreeIs, FS_Interval DEF Lays
<1>2. Lays(gs, i) /\ gs \in Seq(Fragment)
  BY LaysAppend DEF Lays
<1>3. f.at = i /\ f.start = z /\ f.size = want /\ want \in Nat /\ z \in Nat
  BY <1>1 DEF Frag, FreeRuns
<1>4. Len(gs) = n + 1 /\ gs[n + 1] = f /\ \A j \in 1 .. n : gs[j] = fs[j]
  <2>1. f \in Fragment
    <3>1. planes[i].id \in Nat /\ i \in Nat
      BY <1>1, PlaneAt
    <3>. QED
      BY <1>3, <3>1 DEF Frag, Fragment
  <2>. HIDE DEF f
  <2>. QED
    BY <1>1, <2>1, AppendProperties
<1>. HIDE DEF f, gs
<1>5. SumOf(Bytes(gs), 1 .. Len(gs)) = bytes + want
  <2>1. DOMAIN gs = 1 .. (n + 1) /\ DOMAIN fs = 1 .. n
    BY <1>1, <1>2, <1>4
  <2>2. \A j \in 1 .. n : Bytes(gs)[j] = Bytes(fs)[j] /\ Bytes(fs)[j] \in Nat
    <3>1. ASSUME NEW j \in 1 .. n PROVE fs[j].size \in Nat /\ j \in 1 .. (n + 1)
      <4>1. fs[j].size \in 1 .. N
        BY DEF Lays
      <4>. QED
        BY <1>1, <4>1
    <3>. QED
      BY <1>4, <2>1, <3>1 DEF Bytes
  <2>3. Bytes(gs)[n + 1] = want
    BY <1>1, <1>3, <1>4, <2>1 DEF Bytes
  <2>4. \A j \in 1 .. (n + 1) : Bytes(gs)[j] \in Nat
    <3>1. \A j \in 1 .. (n + 1) : j \in 1 .. n \/ j = n + 1
      BY <1>1
    <3>. QED
      BY <1>3, <2>2, <2>3, <3>1
  <2>5. SumOf(Bytes(gs), 1 .. (n + 1)) = want + SumOf(Bytes(gs), 1 .. n)
    <3>1. n + 1 \in Nat \ {0} /\ (n + 1) - 1 = n
      BY <1>1
    <3>. QED
      BY <2>3, <2>4, <3>1, SumUpTo
  <2>6. SumOf(Bytes(gs), 1 .. n) = SumOf(Bytes(fs), 1 .. n)
    <3>1. IsFiniteSet(1 .. n)
      BY <1>1, FS_Interval
    <3>. QED
      BY <2>2, <3>1, SumCong
  <2>7. SumOf(Bytes(fs), 1 .. n) = bytes
    BY DEF Accounts
  <2>. QED
    BY <1>3, <1>4, <2>5, <2>6, <2>7
<1>6. Tried(i, fs) = planes[i].bits
  <2>1. \A j \in 1 .. n : fs[j].at # i
    BY DEF Lays
  <2>2. \A x : x \in Tried(i, fs) <=> x \in planes[i].bits
    BY <1>1, <2>1, TriedIs
  <2>. QED
    BY <2>2
<1>7. Tried(i, gs) = planes[i].bits \cup (z .. (z + want - 1))
  <2>1. \A j \in 1 .. n : gs[j].at # i
    BY <1>4 DEF Lays
  <2>2. \A j \in 1 .. Len(gs) : gs[j].at = i <=> j = n + 1
    <3>1. \A j \in 1 .. Len(gs) : j \in 1 .. n \/ j = n + 1
      BY <1>1, <1>4
    <3>2. n + 1 \in 1 .. Len(gs) /\ gs[n + 1].at = i /\ n + 1 \notin 1 .. n
      BY <1>1, <1>3, <1>4
    <3>. QED
      BY <2>1, <3>1, <3>2
  <2>3. n + 1 \in 1 .. Len(gs) /\ gs[n + 1].start = z /\ gs[n + 1].size = want
    BY <1>1, <1>3, <1>4
  <2>4. ASSUME NEW x
        PROVE  x \in Tried(i, gs) <=> x \in planes[i].bits \/ x \in z .. (z + want - 1)
    <3>1. (\E j \in 1 .. Len(gs) :
             gs[j].at = i /\ x \in gs[j].start .. (gs[j].start + gs[j].size - 1))
            <=> x \in z .. (z + want - 1)
      BY <2>2, <2>3, Zenon
    <3>2. x \in Tried(i, gs) <=>
             \/ x \in planes[i].bits
             \/ \E j \in 1 .. Len(gs) :
                   gs[j].at = i /\ x \in gs[j].start .. (gs[j].start + gs[j].size - 1)
      BY <1>2, TriedIs
    <3>. QED
      BY <3>1, <3>2, Zenon
  <2>. QED
    BY <2>4
<1>8. ASSUME NEW p \in P \ {i} PROVE Tried(p, gs) = Tried(p, fs)
  <2>1. ASSUME NEW x
        PROVE  (\E j \in 1 .. Len(gs) :
                  gs[j].at = p /\ x \in gs[j].start .. (gs[j].start + gs[j].size - 1))
                 <=> \E j \in 1 .. n :
                       fs[j].at = p /\ x \in fs[j].start .. (fs[j].start + fs[j].size - 1)
    <3>1. \A j \in 1 .. Len(gs) : j \in 1 .. n \/ j = n + 1
      BY <1>1, <1>4
    <3>2. \A j \in 1 .. n : j \in 1 .. Len(gs)
      BY <1>1, <1>4
    <3>3. gs[n + 1].at # p
      BY <1>3, <1>4
    <3>. QED
      BY <1>4, <3>1, <3>2, <3>3, Zenon
  <2>2. ASSUME NEW x PROVE x \in Tried(p, gs) <=> x \in Tried(p, fs)
    <3>1. x \in Tried(p, gs) <=>
             \/ x \in planes[p].bits
             \/ \E j \in 1 .. Len(gs) :
                   gs[j].at = p /\ x \in gs[j].start .. (gs[j].start + gs[j].size - 1)
      BY <1>2, TriedIs
    <3>2. x \in Tried(p, fs) <=>
             \/ x \in planes[p].bits
             \/ \E j \in 1 .. n :
                   fs[j].at = p /\ x \in fs[j].start .. (fs[j].start + fs[j].size - 1)
      BY <1>1, TriedIs
    <3>. QED
      BY <2>1, <3>1, <3>2, Zenon
  <2>. QED
    BY <2>2
<1>9. \A p \in P : FreeAfter(fs)[p] \in Nat /\ FreeAfter(gs)[p] \in Nat
  <2>1. k \in 0 .. Len(planes) /\ i \in 0 .. Len(planes)
    BY <1>1
  <2>. QED
    BY <1>1, <1>2, <2>1, TriedInPlane
<1>10. FreeAfter(gs)[i] = FreeAfter(fs)[i] - want
  <2>1. FreeAfter(gs)[i] = FreeBytes(Tried(i, gs), N) /\ FreeAfter(fs)[i] = FreeBytes(Tried(i, fs), N)
    BY <1>1 DEF FreeAfter
  <2>2. FreeBytes(planes[i].bits \cup (z .. (z + want - 1)), N) = Free(i) - want
    BY <1>1, SetRun
  <2>3. Free(i) = FreeBytes(planes[i].bits, N)
    BY DEF Free
  <2>. QED
    BY <1>6, <1>7, <2>1, <2>2, <2>3, Zenon
<1>11. SumOf(FreeAfter(fs), P \ {i}) = SumOf(FreeAfter(gs), P \ {i})
  <2>1. \A p \in P \ {i} : FreeAfter(fs)[p] = FreeAfter(gs)[p]
    BY <1>1, <1>8 DEF FreeAfter
  <2>2. IsFiniteSet(P \ {i})
    BY <1>1, FS_Subset
  <2>. QED
    BY <2>1, <2>2, SumCong
<1>12. /\ SumOf(FreeAfter(fs), P) = FreeAfter(fs)[i] + SumOf(FreeAfter(fs), P \ {i})
       /\ SumOf(FreeAfter(gs), P) = FreeAfter(gs)[i] + SumOf(FreeAfter(gs), P \ {i})
  <2>. DEFINE a == FreeAfter(fs)
              b == FreeAfter(gs)
              x == i
  <2>1. x \in P
    OBVIOUS
  <2>. HIDE DEF P, x
  <2>2. IsFiniteSet(P) /\ (\A p \in P : a[p] \in Nat) /\ \A p \in P : b[p] \in Nat
    BY <1>1, <1>9
  <2>. HIDE DEF a, b
  <2>3. SumOf(a, P) = a[x] + SumOf(a, P \ {x})
    BY <2>1, <2>2, SumRemove
  <2>4. SumOf(b, P) = b[x] + SumOf(b, P \ {x})
    BY <2>1, <2>2, SumRemove
  <2>. QED
    BY <2>3, <2>4 DEF a, b, x
<1>13. SumOf(FreeAfter(fs), P \ {i}) \in Nat
  <2>2. IsFiniteSet(P \ {i})
    BY <1>1, FS_Subset
  <2>. QED
    BY <1>9, <2>2, SumNat
<1>14. SumOf(FreeAfter(fs), P) + bytes = AllFree
  BY DEF Accounts
<1>15. SumOf(FreeAfter(gs), P) + (bytes + want) = AllFree
  <2>1. i \in P
    OBVIOUS
  <2>2. FreeAfter(fs)[i] \in Nat
    BY <1>9, <2>1
  <2>. HIDE DEF P
  <2>. QED
    BY <1>3, <1>10, <1>11, <1>12, <1>13, <1>14, <2>2
<1>16. Accounts(gs, bytes + want)
  BY <1>5, <1>15 DEF Accounts
<1>. QED
  BY <1>16 DEF gs, f

-----------------------------------------------------------------------------
(* The loop of findMultiPlaneFit, and findBestFit. *)

(* What has been found when k planes have been looked at. *)
Scanned(acc, size, k) ==
    /\ acc.remaining \in 0 .. size
    /\ Lays(acc.fragments, k)
    /\ Accounts(acc.fragments, size - acc.remaining)

LEMMA TryPlaneKeeps ==
    ASSUME PlanesOK, NEW size \in Nat, NEW k \in 1 .. Len(planes), NEW acc,
           Scanned(acc, size, k - 1)
    PROVE  Scanned(TryPlane(acc, k), size, k)
<1>. DEFINE fs == acc.fragments
            left == acc.remaining
            want == Want(k, left)
            z == Fit(k, want)
<1>1. /\ left \in 0 .. size /\ Lays(fs, k - 1) /\ Accounts(fs, size - left)
      /\ k \in DOMAIN planes /\ Free(k) \in 0 .. N /\ N \in Nat /\ k - 1 \in Nat
  <2>1. left \in 0 .. size /\ Lays(fs, k - 1) /\ Accounts(fs, size - left)
    BY DEF Scanned
  <2>2. k \in DOMAIN planes /\ k - 1 \in Nat
    BY AllFreeIs
  <2>3. Free(k) \in 0 .. N /\ N \in Nat
    BY <2>2, PlaneAt, RegionAssumption
  <2>. QED
    BY <2>1, <2>2, <2>3
<1>2. CASE left = 0 \/ Free(k) = 0 \/ z = NoSpace
  <2>1. TryPlane(acc, k) = acc
    BY <1>2, Zenon DEF TryPlane
  <2>2. Lays(fs, k)
    BY <1>1, LaysMore
  <2>. QED
    BY <1>1, <2>1, <2>2 DEF Scanned
<1>3. CASE ~(left = 0 \/ Free(k) = 0 \/ z = NoSpace)
  <2>1. TryPlane(acc, k) = [remaining |-> left - want,
                            fragments |-> Append(fs, Frag(k, z, want))]
    BY <1>3, Zenon DEF TryPlane
  <2>2. want \in 1 .. N /\ left - want \in 0 .. size
    <3>. DEFINE b == Free(k)
    <3>1. left \in 1 .. size /\ b \in 1 .. N /\ N \in Nat
      BY <1>1, <1>3
    <3>2. want = IF b < left THEN b ELSE left
      BY DEF Want
    <3>. HIDE DEF b, left, want
    <3>. QED
      BY <3>1, <3>2
  <2>. HIDE DEF want
  <2>3. z \in FreeRuns(k, want)
    BY <1>1, <1>3, <2>2, FitIs
  <2>. HIDE DEF z
  <2>4. Lays(Append(fs, Frag(k, z, want)), k)
    BY <1>1, <2>2, <2>3, LaysAppend
  <2>5. Accounts(Append(fs, Frag(k, z, want)), (size - left) + want)
    <3>1. size - left \in Nat
      BY <1>1
    <3>. DEFINE served == size - left
    <3>2. /\ served \in Nat /\ k - 1 \in Nat /\ k - 1 < k
          /\ Lays(fs, k - 1) /\ Accounts(fs, served)
      BY <1>1, <3>1
    <3>. HIDE DEF served, fs
    <3>3. Accounts(Append(fs, Frag(k, z, want)), served + want)
      BY <2>2, <2>3, <3>2, AccountsAppend
    <3>. QED
      BY <3>3 DEF served, fs
  <2>6. (size - left) + want = size - (left - want)
    BY <1>1, <2>2
  <2>7. /\ TryPlane(acc, k).remaining = left - want
        /\ TryPlane(acc, k).fragments = Append(fs, Frag(k, z, want))
    BY <2>1
  <2>. QED
    BY <2>2, <2>4, <2>5, <2>6, <2>7 DEF Scanned
<1>. QED
  BY <1>2, <1>3

(* g is the function that the recursion in findMultiPlaneFit defines. *)
IsScan(g, size, n) ==
    g = [k \in 0 .. n |-> IF k = 0 THEN [remaining |-> size, fragments |-> << >>]
                          ELSE TryPlane(g[k - 1], k)]

LEMMA IsScanExists ==
    ASSUME NEW size, NEW n \in Nat
    PROVE  \E g : IsScan(g, size, n)
<1>. DEFINE C == {k \in Nat : ~ \E g : IsScan(g, size, k)}
            base == [remaining |-> size, fragments |-> << >>]
<1>1. C = {}
  <2>. SUFFICES ASSUME C # {} PROVE FALSE
    OBVIOUS
  <2>1. PICK k \in C : \A y \in C : k <= y
    <3>1. C \in SUBSET Nat
      OBVIOUS
    <3>. HIDE DEF C
    <3>. QED
      BY <3>1, LeastNat
  <2>2. k \in Nat /\ ~ \E g : IsScan(g, size, k)
    OBVIOUS
  <2>3. CASE k = 0
    <3>. DEFINE g == [j \in 0 .. 0 |-> base]
    <3>1. ASSUME NEW j \in 0 .. 0
          PROVE  g[j] = IF j = 0 THEN base ELSE TryPlane(g[j - 1], j)
      OBVIOUS
    <3>2. g = [j \in 0 .. 0 |-> IF j = 0 THEN base ELSE TryPlane(g[j - 1], j)]
      BY <3>1
    <3>3. IsScan(g, size, k)
      BY <2>3, <3>2, Zenon DEF IsScan
    <3>. QED
      BY <2>2, <3>3
  <2>4. CASE k # 0
    <3>1. k - 1 \in Nat /\ k - 1 \notin C
      BY <2>1, <2>2, <2>4
    <3>2. PICK g : IsScan(g, size, k - 1)
      BY <3>1
    <3>. HIDE DEF C, base
    <3>3. ASSUME NEW j \in 0 .. (k - 1)
          PROVE  g[j] = IF j = 0 THEN base ELSE TryPlane(g[j - 1], j)
      BY <3>2 DEF IsScan, base
    <3>. DEFINE h == [j \in 0 .. k |-> IF j = k THEN TryPlane(g[k - 1], k) ELSE g[j]]
    <3>4. ASSUME NEW j \in 0 .. k
          PROVE  h[j] = IF j = 0 THEN base ELSE TryPlane(h[j - 1], j)
      <4>1. CASE j = k
        <5>1. h[j] = TryPlane(g[k - 1], k) /\ h[j - 1] = g[k - 1]
          BY <2>2, <2>4, <4>1
        <5>. QED
          BY <2>4, <4>1, <5>1
      <4>2. CASE j # k /\ j # 0
        <5>1. j \in 0 .. (k - 1) /\ h[j] = g[j] /\ h[j - 1] = g[j - 1]
          BY <2>2, <4>2
        <5>. QED
          BY <3>3, <4>2, <5>1
      <4>3. CASE j = 0
        <5>1. j \in 0 .. (k - 1) /\ h[j] = g[j]
          BY <2>2, <2>4, <4>3
        <5>. QED
          BY <3>3, <4>3, <5>1
      <4>. QED
        BY <4>1, <4>2, <4>3
    <3>5. h = [j \in 0 .. k |-> IF j = 0 THEN base ELSE TryPlane(h[j - 1], j)]
      BY <3>4
    <3>. HIDE DEF h
    <3>6. IsScan(h, size, k)
      BY <3>5, Zenon DEF IsScan, base
    <3>. QED
      BY <2>2, <3>6
  <2>. QED
    BY <2>3, <2>4
<1>. QED
  BY <1>1

LEMMA MultiPlaneScanned ==
    ASSUME PlanesOK, NEW size \in Nat
    PROVE  Scanned(findMultiPlaneFit(size), size, Len(planes))
<1>. DEFINE n == Len(planes)
            g == CHOOSE h : IsScan(h, size, n)
            C == {k \in 0 .. n : ~Scanned(g[k], size, k)}
<1>1. n \in Nat
  BY AllFreeIs
<1>2. IsScan(g, size, n)
  BY <1>1, IsScanExists
<1>3. findMultiPlaneFit(size) = g[n]
  BY DEF findMultiPlaneFit, IsScan
<1>. HIDE DEF g
<1>4. /\ g[0] = [remaining |-> size, fragments |-> << >>]
      /\ \A k \in 1 .. n : g[k] = TryPlane(g[k - 1], k)
  BY <1>1, <1>2 DEF IsScan
<1>5. C = {}
  <2>. SUFFICES ASSUME C # {} PROVE FALSE
    OBVIOUS
  <2>1. PICK k \in C : \A y \in C : k <= y
    <3>1. C \in SUBSET Nat
      OBVIOUS
    <3>. HIDE DEF C
    <3>. QED
      BY <3>1, LeastNat
  <2>2. k \in 0 .. n /\ ~Scanned(g[k], size, k)
    OBVIOUS
  <2>3. CASE k = 0
    <3>1. g[0].remaining = size /\ g[0].fragments = << >>
      BY <1>4
    <3>2. size - size = 0 /\ size \in 0 .. size
      OBVIOUS
    <3>3. Lays(<< >>, 0) /\ Accounts(<< >>, 0)
      BY PlanEmpty
    <3>4. Scanned(g[0], size, 0)
      BY <3>1, <3>2, <3>3, Zenon DEF Scanned
    <3>. QED
      BY <2>2, <2>3, <3>4
  <2>4. CASE k # 0
    <3>1. k - 1 \in 0 .. n /\ k \in 1 .. n
      BY <1>1, <2>2, <2>4
    <3>2. k - 1 \notin C
      <4>. HIDE DEF C
      <4>. QED
        BY <2>1, <2>2, <3>1
    <3>3. Scanned(g[k - 1], size, k - 1)
      BY <3>1, <3>2
    <3>4. Scanned(TryPlane(g[k - 1], k), size, k)
      BY <3>1, <3>3, TryPlaneKeeps
    <3>. QED
      BY <1>4, <2>2, <3>1, <3>4
  <2>. QED
    BY <2>3, <2>4
<1>6. n \in 0 .. n /\ n \notin C
  BY <1>1, <1>5
<1>. QED
  BY <1>3, <1>6

(* A plane is tried for the whole block exactly when it has a run for it. *)
LEMMA SingleIs ==
    ASSUME PlanesOK, NEW size \in Nat
    PROVE  Single(size) = {i \in DOMAIN planes : size > 0 /\ FreeRuns(i, size) # {}}
<1>1. ASSUME NEW i \in Single(size)
      PROVE  size > 0 /\ FreeRuns(i, size) # {} /\ i \in DOMAIN planes
  <2>1. i \in DOMAIN planes /\ Fit(i, size) # NoSpace
    BY DEF Single
  <2>. QED
    BY <2>1, FitIs
<1>2. ASSUME NEW i \in DOMAIN planes, size > 0, FreeRuns(i, size) # {}
      PROVE  i \in Single(size)
  <2>1. PICK z : z \in FreeRuns(i, size)
    BY <1>2
  <2>2. size \in 1 .. N
    BY <1>2, <2>1, RegionAssumption DEF FreeRuns
  <2>3. Free(i) >= size
    <3>1. size <= Free(i) /\ Free(i) \in 0 .. N
      BY <2>1, <2>2, SetRun, PlaneAt
    <3>. QED
      BY <2>2, <3>1
  <2>4. Fit(i, size) # NoSpace
    <3>1. Fit(i, size) = Min(FreeRuns(i, size))
      BY <1>2, <2>2, FitIs
    <3>2. FreeRuns(i, size) \in SUBSET Nat
      BY DEF FreeRuns
    <3>3. Min(FreeRuns(i, size)) \in Nat
      BY <1>2, <3>2, MinOfNat
    <3>. QED
      BY <3>1, <3>3 DEF NoSpace
  <2>. QED
    BY <2>3, <2>4 DEF Single
<1>. QED
  BY <1>1, <1>2

LEMMA BestFitScanned ==
    ASSUME PlanesOK, NEW size \in Nat
    PROVE  /\ Scanned(findBestFit(size), size, Len(planes))
           /\ Single(size) # {} =>
                 findBestFit(size).remaining = 0 /\ Len(findBestFit(size).fragments) = 1
<1>1. CASE Single(size) = {}
  <2>1. findBestFit(size) = findMultiPlaneFit(size)
    BY <1>1 DEF findBestFit
  <2>. QED
    BY <1>1, <2>1, MultiPlaneScanned
<1>2. CASE Single(size) # {}
  <2>. DEFINE i == Min(Single(size))
              f == Frag(i, Fit(i, size), size)
  <2>1. i \in Single(size)
    <3>1. Single(size) \in SUBSET Nat
      BY AllFreeIs DEF Single
    <3>. QED
      BY <1>2, <3>1, MinOfNat
  <2>. HIDE DEF i
  <2>2. i \in DOMAIN planes /\ Fit(i, size) # NoSpace
    BY <2>1 DEF Single
  <2>3. /\ size \in 1 .. N /\ Fit(i, size) \in FreeRuns(i, size)
        /\ i \in 1 .. Len(planes) /\ Len(planes) \in Nat
    BY <2>2, FitIs, AllFreeIs
  <2>4. findBestFit(size) = [remaining |-> 0, fragments |-> <<f>>]
    BY <1>2 DEF findBestFit, i
  <2>5. findBestFit(size).remaining = 0 /\ findBestFit(size).fragments = <<f>>
    BY <2>4
  <2>6. <<f>> = Append(<< >>, f) /\ Len(<<f>>) = 1
    OBVIOUS
  <2>7. Lays(<< >>, 0) /\ Accounts(<< >>, 0)
    BY PlanEmpty
  <2>. DEFINE none == << >>
              z == Fit(i, size)
  <2>8. Lays(none, 0) /\ Accounts(none, 0) /\ z \in FreeRuns(i, size)
    BY <2>3, <2>7
  <2>. HIDE DEF none, z
  <2>9. Lays(Append(none, Frag(i, z, size)), Len(planes))
    <3>1. Lays(Append(none, Frag(i, z, size)), i)
      BY <2>3, <2>8, LaysAppend
    <3>. QED
      BY <2>3, <3>1, LaysMore
  <2>10. Accounts(Append(none, Frag(i, z, size)), 0 + size)
    BY <2>3, <2>8, AccountsAppend
  <2>11. 0 + size = size - 0 /\ 0 \in 0 .. size
    OBVIOUS
  <2>12. Scanned(findBestFit(size), size, Len(planes))
    <3>1. Append(none, Frag(i, z, size)) = <<f>>
      BY <2>6 DEF none, z
    <3>. HIDE DEF f
    <3>. QED
      BY <2>5, <2>9, <2>10, <2>11, <3>1, Zenon DEF Scanned
  <2>. QED
    BY <2>5, <2>6, <2>12
<1>. QED
  BY <1>1, <1>2

-----------------------------------------------------------------------------
(* The inductive invariant. *)

LEMMA RegionInit ==
    ASSUME Init
    PROVE  RegionInv
<1>1. PICK bits \in [1 .. Planes -> SUBSET (0 .. (N - 1))] :
         planes = [i \in 1 .. Planes |-> [id |-> i - 1, bits |-> bits[i]]]
  BY DEF Init
<1>2. Planes \in Nat
  BY RegionAssumption
<1>3. \A i \in 1 .. Planes : [id |-> i - 1, bits |-> bits[i]] \in Plane
  BY DEF Plane
<1>4. planes \in Seq(Plane) /\ Len(planes) = Planes
  BY <1>1, <1>2, <1>3, IsASeq
<1>5. AllFree \in Nat
  BY <1>4, AllFreeIs DEF PlanesOK
<1>6. AllFree + 0 - U16 * 0 = AllFree
  BY <1>5, BitmapAssumption
<1>. QED
  BY <1>4, <1>6 DEF RegionInv, PlanesOK, CountersOff, Init

(* Both counters are kept modulo U64, so a change of what they count is the *)
(* same change of the counters.                                             *)
LEMMA CountersMove ==
    ASSUME PlanesOK, CountersOff, leaked \in Nat, fulls \in Nat,
           PlanesOK', leaked' \in Nat, fulls' \in Nat,
           NEW grown \in Int, NEW gained \in Int,
           total' = (total + grown) % U64,
           free' = (free + gained) % U64,
           N * Len(planes) + grown = N * Len(planes'),
           (AllFree + leaked - U16 * fulls) + gained = AllFree' + leaked' - U16 * fulls'
    PROVE  CountersOff'
<1>1. U64 \in Nat \ {0} /\ N \in Nat /\ U16 \in Nat
  BY RegionAssumption, BitmapAssumption
<1>2. Len(planes) \in Nat /\ AllFree \in Nat
  BY AllFreeIs
<1>. DEFINE t == N * Len(planes)
            f == AllFree + leaked - U16 * fulls
<1>3. t \in Int /\ f \in Int
  BY <1>1, <1>2
<1>4. total = t % U64 /\ free = f % U64
  BY DEF CountersOff
<1>. HIDE DEF t, f
<1>5. total' = (t + grown) % U64
  BY <1>1, <1>3, <1>4, ModAdd
<1>6. free' = (f + gained) % U64
  BY <1>1, <1>3, <1>4, ModAdd
<1>7. total' = (N * Len(planes')) % U64
  BY <1>5 DEF t
<1>8. free' = (AllFree' + leaked' - U16 * fulls') % U64
  BY <1>6 DEF f
<1>. QED
  BY <1>7, <1>8 DEF CountersOff

LEMMA AddPlaneKeeps ==
    ASSUME RegionInv, AddPlane
    PROVE  RegionInv'
<1>. DEFINE new == [id |-> Len(planes), bits |-> {}]
            n == Len(planes)
<1>1. PlanesOK /\ leaked \in Nat /\ fulls \in Nat /\ CountersOff
  BY DEF RegionInv
<1>2. N \in Nat /\ n \in Nat /\ U16 \in Nat /\ AllFree \in Nat
  BY <1>1, RegionAssumption, BitmapAssumption, AllFreeIs
<1>3. planes \in Seq(Plane) /\ new \in Plane
  BY <1>1, <1>2 DEF PlanesOK, Plane
<1>4. /\ planes' \in Seq(Plane) /\ Len(planes') = n + 1 /\ planes'[n + 1] = new
      /\ \A i \in 1 .. n : planes'[i] = planes[i]
  <2>1. planes' = Append(planes, new)
    BY DEF AddPlane
  <2>. HIDE DEF new
  <2>. QED
    BY <1>3, <2>1, AppendProperties
<1>5. PlanesOK' /\ leaked' = leaked /\ fulls' = fulls
  BY <1>4 DEF PlanesOK, AddPlane
<1>. DEFINE f == FreeIn(planes)
            g == FreeIn(planes')
<1>6. /\ AllFree = SumOf(f, 1 .. n) /\ AllFree' = SumOf(g, 1 .. (n + 1))
      /\ \A i \in 1 .. n : f[i] = FreeBytes(planes[i].bits, N)
      /\ \A i \in 1 .. (n + 1) : g[i] = FreeBytes(planes'[i].bits, N) /\ g[i] \in Nat
  BY <1>1, <1>3, <1>4, <1>5, AllFreeMoves, FreeInIs
<1>. HIDE DEF f, g
<1>7. g[n + 1] = N
  <2>1. n + 1 \in 1 .. (n + 1)
    BY <1>2
  <2>2. planes'[n + 1].bits = {}
    BY <1>4
  <2>3. g[n + 1] = FreeBytes({}, N)
    BY <1>6, <2>1, <2>2
  <2>. QED
    BY <1>2, <2>3, FS_EmptySet DEF FreeBytes
<1>8. \A i \in 1 .. n : g[i] = f[i]
  <2>1. \A i \in 1 .. n : i \in 1 .. (n + 1)
    BY <1>2
  <2>. QED
    BY <1>4, <1>6, <2>1
<1>9. AllFree' = AllFree + N
  <2>1. n + 1 \in Nat \ {0} /\ (n + 1) - 1 = n
    BY <1>2
  <2>. HIDE DEF n
  <2>2. SumOf(g, 1 .. (n + 1)) = g[n + 1] + SumOf(g, 1 .. n)
    BY <1>6, <2>1, SumUpTo
  <2>3. SumOf(g, 1 .. n) = SumOf(f, 1 .. n)
    <3>1. IsFiniteSet(1 .. n)
      BY <1>2, FS_Interval
    <3>. QED
      BY <1>8, <3>1, SumCong
  <2>. QED
    BY <1>2, <1>6, <1>7, <2>2, <2>3
<1>10. total' = (total + N) % U64 /\ free' = (free + N) % U64
  BY DEF AddPlane
<1>11. N * n + N = N * Len(planes')
  BY <1>2, <1>4
<1>12. (AllFree + leaked - U16 * fulls) + N = AllFree' + leaked' - U16 * fulls'
  <2>1. U16 * fulls \in Int
    BY <1>1, <1>2
  <2>. QED
    BY <1>1, <1>2, <1>5, <1>9, <2>1
<1>13. leaked' \in Nat /\ fulls' \in Nat
  BY <1>1, <1>5
<1>14. N \in Int
  BY <1>2
<1>15. CountersOff'
  BY <1>1, <1>5, <1>10, <1>11, <1>12, <1>13, <1>14, CountersMove
<1>. QED
  BY <1>5, <1>13, <1>15 DEF RegionInv

(* What is left of a sequence when the element at i is taken out. *)
LEMMA RemoveAtIs ==
    ASSUME NEW S, NEW s \in Seq(S), NEW i \in 1 .. Len(s)
    PROVE  /\ RemoveAt(s, i) \in Seq(S) /\ Len(RemoveAt(s, i)) = Len(s) - 1
           /\ \A j \in 1 .. (i - 1) : RemoveAt(s, i)[j] = s[j]
           /\ \A j \in i .. (Len(s) - 1) : RemoveAt(s, i)[j] = s[j + 1]
<1>. DEFINE a == SubSeq(s, 1, i - 1)
            b == SubSeq(s, i + 1, Len(s))
<1>0. Len(s) \in Nat
  OBVIOUS
<1>1. a \in Seq(S) /\ Len(a) = i - 1 /\ \A j \in 1 .. (i - 1) : a[j] = s[j]
  BY <1>0
<1>2. /\ b \in Seq(S) /\ Len(b) = Len(s) - i
      /\ \A j \in 1 .. (Len(s) - i) : b[j] = s[i + j]
  BY <1>0
<1>3. RemoveAt(s, i) = a \o b
  BY DEF RemoveAt
<1>. HIDE DEF a, b
<1>4. a \o b \in Seq(S) /\ Len(a \o b) = Len(s) - 1
  <2>1. a \o b \in Seq(S) /\ Len(a \o b) = Len(a) + Len(b)
    BY <1>1, <1>2, ConcatProperties
  <2>. QED
    BY <1>0, <1>1, <1>2, <2>1
<1>5. \A j \in 1 .. (i - 1) : (a \o b)[j] = s[j]
  BY <1>0, <1>1, <1>2, ConcatProperties
<1>6. ASSUME NEW j \in i .. (Len(s) - 1) PROVE (a \o b)[j] = s[j + 1]
  <2>1. j - (i - 1) \in 1 .. (Len(s) - i) /\ i + (j - (i - 1)) = j + 1
    BY <1>0
  <2>2. (a \o b)[j] = b[j - Len(a)]
    BY <1>0, <1>1, <1>2, ConcatProperties
  <2>. QED
    BY <1>1, <1>2, <2>1, <2>2
<1>. QED
  BY <1>3, <1>4, <1>5, <1>6

LEMMA RemovePlaneKeeps ==
    ASSUME RegionInv, NEW id, RemovePlane(id)
    PROVE  RegionInv'
<1>. DEFINE i == GetPlane(id)
            n == Len(planes)
            lost == IF Free(i) = 0 THEN U16 ELSE Free(i)
<1>1. PlanesOK /\ leaked \in Nat /\ fulls \in Nat /\ CountersOff
  BY DEF RegionInv
<1>2. N \in Nat /\ n \in Nat /\ U16 \in Nat /\ AllFree \in Nat /\ DOMAIN planes = 1 .. n
  BY <1>1, RegionAssumption, BitmapAssumption, AllFreeIs
<1>3. i \in 1 .. n
  <2>. DEFINE found == {j \in DOMAIN planes : planes[j].id = id}
  <2>1. i # 0
    BY DEF RemovePlane
  <2>2. found # {} /\ i = Min(found)
    BY <2>1 DEF GetPlane
  <2>3. found \in SUBSET Nat
    BY <1>2
  <2>4. i \in found
    BY <2>2, <2>3, MinOfNat
  <2>. QED
    BY <1>2, <2>4
<1>. HIDE DEF i
<1>4. Free(i) \in 0 .. N
  BY <1>1, <1>2, <1>3, PlaneAt
<1>5. /\ planes' = RemoveAt(planes, i) /\ total' = (total - N) % U64
      /\ free' = (free - lost) % U64 /\ leaked' = leaked
      /\ fulls' = IF Free(i) = 0 THEN fulls + 1 ELSE fulls
  BY DEF RemovePlane, i
<1>6. /\ planes' \in Seq(Plane) /\ Len(planes') = n - 1
      /\ \A j \in 1 .. (i - 1) : planes'[j] = planes[j]
      /\ \A j \in i .. (n - 1) : planes'[j] = planes[j + 1]
  BY <1>1, <1>3, <1>5, RemoveAtIs DEF PlanesOK
<1>7. PlanesOK'
  BY <1>6 DEF PlanesOK
<1>. DEFINE f == FreeIn(planes)
            g == FreeIn(planes')
<1>8. /\ AllFree = SumOf(f, 1 .. n) /\ AllFree' = SumOf(g, 1 .. (n - 1)) /\ AllFree' \in Nat
      /\ \A j \in 1 .. n : f[j] = FreeBytes(planes[j].bits, N) /\ f[j] \in Nat
      /\ \A j \in 1 .. (n - 1) : g[j] = FreeBytes(planes'[j].bits, N)
  <2>1. planes \in Seq(Plane)
    BY <1>1 DEF PlanesOK
  <2>. QED
    BY <1>1, <1>6, <1>7, <2>1, AllFreeMoves, FreeInIs
<1>. HIDE DEF f, g
<1>9. f[i] = Free(i)
  BY <1>3, <1>8 DEF Free
<1>10. AllFree = Free(i) + AllFree'
  <2>1. ASSUME NEW j \in 1 .. (i - 1) PROVE g[j] = f[j]
    <3>1. j \in 1 .. (n - 1) /\ j \in 1 .. n
      BY <1>2, <1>3
    <3>. QED
      BY <1>6, <1>8, <3>1
  <2>2. ASSUME NEW j \in i .. (n - 1) PROVE g[j] = f[j + 1]
    <3>1. j \in 1 .. (n - 1) /\ j + 1 \in 1 .. n
      BY <1>2, <1>3
    <3>. QED
      BY <1>6, <1>8, <3>1
  <2>. HIDE DEF n
  <2>3. /\ \A j \in 1 .. n : f[j] \in Nat
        /\ \A j \in 1 .. (i - 1) : g[j] = f[j]
        /\ \A j \in i .. (n - 1) : g[j] = f[j + 1]
    BY <1>8, <2>1, <2>2
  <2>4. SumOf(f, 1 .. n) = f[i] + SumOf(g, 1 .. (n - 1))
    <3>1. n \in Nat
      BY <1>2
    <3>2. Without(f, g, n, i)
      BY <2>3 DEF Without
    <3>. QED
      BY <1>3, <3>1, <3>2, SumShift
  <2>. QED
    BY <1>8, <1>9, <2>4
<1>11. lost \in Nat /\ 0 - N \in Int /\ 0 - lost \in Int
  BY <1>2, <1>4
<1>12. leaked' \in Nat /\ fulls' \in Nat
  BY <1>1, <1>5
<1>13. N * n + (0 - N) = N * Len(planes')
  BY <1>2, <1>3, <1>6
<1>14. (AllFree + leaked - U16 * fulls) + (0 - lost) = AllFree' + leaked' - U16 * fulls'
  <2>1. U16 * fulls \in Int /\ U16 * (fulls + 1) = U16 * fulls + U16
    BY <1>1, <1>2
  <2>2. CASE Free(i) = 0
    <3>1. lost = U16 /\ fulls' = fulls + 1
      BY <1>5, <2>2
    <3>. QED
      BY <1>1, <1>2, <1>5, <1>8, <1>10, <2>1, <2>2, <3>1
  <2>3. CASE Free(i) # 0
    <3>1. lost = Free(i) /\ fulls' = fulls
      BY <1>5, <2>3
    <3>2. Free(i) \in Nat /\ leaked' = leaked /\ AllFree' \in Nat
      BY <1>2, <1>4, <1>5, <1>8
    <3>3. U16 * fulls' = U16 * fulls
      BY <3>1
    <3>. HIDE DEF lost
    <3>. QED
      BY <1>1, <1>10, <2>1, <3>1, <3>2, <3>3
  <2>. QED
    BY <2>2, <2>3
<1>. HIDE DEF lost
<1>15. total' = (total + (0 - N)) % U64 /\ free' = (free + (0 - lost)) % U64
  <2>1. total \in Int /\ free \in Int
    <3>1. N * n \in Int /\ AllFree + leaked - U16 * fulls \in Int /\ U64 \in Nat \ {0}
      BY <1>1, <1>2, RegionAssumption
    <3>2. total = (N * n) % U64 /\ free = (AllFree + leaked - U16 * fulls) % U64
      BY <1>1 DEF CountersOff
    <3>. QED
      BY <3>1, <3>2
  <2>2. total - N = total + (0 - N) /\ free - lost = free + (0 - lost)
    BY <1>2, <1>11, <2>1
  <2>. QED
    BY <1>5, <2>2
<1>16. CountersOff'
  BY <1>1, <1>7, <1>11, <1>12, <1>13, <1>14, <1>15, CountersMove
<1>. QED
  BY <1>7, <1>12, <1>16 DEF RegionInv

LEMMA FindPromotionKeeps ==
    ASSUME RegionInv, NEW size \in Sizes, FindPromotion(size)
    PROVE  RegionInv'
<1>. DEFINE fit == findBestFit(size)
            fs == fit.fragments
            tried == size - fit.remaining
            n == Len(planes)
<1>1. PlanesOK /\ leaked \in Nat /\ fulls \in Nat /\ CountersOff /\ size \in Nat
  BY RegionAssumption DEF RegionInv
<1>2. /\ n \in Nat /\ DOMAIN planes = 1 .. n /\ N \in Nat /\ U16 \in Nat
      /\ U64 \in Nat \ {0}
  BY <1>1, AllFreeIs, RegionAssumption, BitmapAssumption
<1>3. fit.remaining \in 0 .. size /\ Lays(fs, n) /\ Accounts(fs, tried)
  BY <1>1, BestFitScanned DEF Scanned
<1>4. /\ planes' = [i \in DOMAIN planes |-> [planes[i] EXCEPT !.bits = Tried(i, fs)]]
      /\ leaked' = leaked + tried
      /\ total' = total /\ free' = free /\ fulls' = fulls
  BY DEF FindPromotion
<1>. HIDE DEF fit
<1>5. tried \in Nat
  BY <1>1, <1>3
<1>. HIDE DEF fs, tried
<1>6. ASSUME NEW i \in 1 .. n
      PROVE  /\ planes'[i] \in Plane
             /\ planes'[i].bits = Tried(i, fs)
  <2>1. planes[i] \in Plane /\ i \in DOMAIN planes
    BY <1>1, <1>2, PlaneAt
  <2>2. Tried(i, fs) \in SUBSET (0 .. (N - 1))
    <3>1. n \in 0 .. Len(planes)
      BY <1>2
    <3>. QED
      BY <1>1, <1>3, <2>1, <3>1, TriedInPlane
  <2>3. planes'[i] = [planes[i] EXCEPT !.bits = Tried(i, fs)]
    BY <1>4, <2>1
  <2>. QED
    BY <2>1, <2>2, <2>3 DEF Plane
<1>7. planes' \in Seq(Plane) /\ Len(planes') = n
  <2>1. planes' = [i \in 1 .. n |-> planes'[i]]
    BY <1>2, <1>4
  <2>. QED
    BY <1>2, <1>6, <2>1, IsASeq
<1>8. PlanesOK'
  BY <1>7 DEF PlanesOK
<1>9. AllFree' + tried = AllFree
  <2>. DEFINE f == FreeAfter(fs)
              g == FreeIn(planes')
  <2>1. AllFree' = SumOf(g, 1 .. n) /\ AllFree' \in Nat
    BY <1>1, <1>7, <1>8, AllFreeMoves
  <2>2. \A i \in 1 .. n : g[i] = f[i]
    <3>1. \A i \in 1 .. n : g[i] = FreeBytes(planes'[i].bits, N)
      BY <1>7, FreeInIs
    <3>2. \A i \in 1 .. n : f[i] = FreeBytes(Tried(i, fs), N)
      BY <1>2 DEF FreeAfter
    <3>. HIDE DEF f, g
    <3>. QED
      BY <1>6, <3>1, <3>2
  <2>3. SumOf(f, 1 .. n) + tried = AllFree
    BY <1>3 DEF Accounts
  <2>. HIDE DEF f, g
  <2>4. SumOf(g, 1 .. n) = SumOf(f, 1 .. n)
    <3>1. IsFiniteSet(1 .. n)
      BY <1>2, FS_Interval
    <3>. HIDE DEF n
    <3>. QED
      BY <2>2, <3>1, SumCong
  <2>. QED
    BY <2>1, <2>3, <2>4
<1>10. AllFree \in Nat /\ AllFree' \in Nat
  BY <1>1, <1>8, AllFreeMoves
<1>11. AllFree' + leaked' - U16 * fulls' = AllFree + leaked - U16 * fulls
  <2>1. U16 * fulls \in Int
    BY <1>1, <1>2
  <2>. QED
    BY <1>1, <1>4, <1>5, <1>9, <1>10, <2>1
<1>12. CountersOff'
  <2>1. total = (N * n) % U64 /\ free = (AllFree + leaked - U16 * fulls) % U64
    BY <1>1 DEF CountersOff
  <2>2. total' = (N * Len(planes')) % U64
    BY <1>4, <1>7, <2>1
  <2>3. free' = (AllFree' + leaked' - U16 * fulls') % U64
    BY <1>4, <1>11, <2>1
  <2>. QED
    BY <2>2, <2>3 DEF CountersOff
<1>. QED
  BY <1>1, <1>4, <1>5, <1>8, <1>12 DEF RegionInv

LEMMA RegionStutters ==
    ASSUME RegionInv, UNCHANGED vars
    PROVE  RegionInv'
<1>1. /\ planes' = planes /\ total' = total /\ free' = free
      /\ leaked' = leaked /\ fulls' = fulls
  BY DEF vars
<1>2. PlanesOK /\ PlanesOK'
  BY <1>1 DEF RegionInv, PlanesOK
<1>3. AllFree' = AllFree
  BY <1>1, <1>2, AllFreeMoves
<1>. QED
  BY <1>1, <1>2, <1>3 DEF RegionInv, CountersOff

(* The region's counters are what the planes add up to but for the two     *)
(* errors of CountersOff, however planes are added, removed and planned    *)
(* for.                                                                    *)
THEOREM RegionInvariant == Spec => []RegionInv
<1>1. ASSUME Init PROVE RegionInv
  BY <1>1, RegionInit
<1>2. ASSUME RegionInv, [Next]_vars PROVE RegionInv'
  <2>1. CASE AddPlane
    BY <1>2, <2>1, AddPlaneKeeps
  <2>2. CASE \E id \in 0 .. (MaxPlanes - 1) : RemovePlane(id)
    BY <1>2, <2>2, RemovePlaneKeeps
  <2>3. CASE \E size \in Sizes : FindPromotion(size)
    BY <1>2, <2>3, FindPromotionKeeps
  <2>4. CASE UNCHANGED vars
    BY <1>2, <2>4, RegionStutters
  <2>. QED
    BY <1>2, <2>1, <2>2, <2>3, <2>4 DEF Next
<1>. QED
  BY <1>1, <1>2, PTL DEF Spec

(* TotalBytes and FreeBytes of a region are what its planes add up to,     *)
(* however planes are added and removed, as long as planning has left no   *)
(* trial allocation behind and no full plane was removed.                  *)
THEOREM RegionCounters == Spec => []CountersHold
<1>1. ASSUME RegionInv PROVE CountersHold
  <2>. SUFFICES ASSUME leaked = 0, fulls = 0 PROVE CountersExact
    BY DEF CountersHold
  <2>1. AllFree \in Nat
    BY <1>1, AllFreeIs DEF RegionInv
  <2>2. AllFree + leaked - U16 * fulls = AllFree
    BY <2>1, BitmapAssumption
  <2>. QED
    BY <1>1, <2>2 DEF RegionInv, CountersOff, CountersExact
<1>. QED
  BY <1>1, RegionInvariant, PTL

(* FindContiguous answers with the lowest free run in every plane, for     *)
(* every size of the planes and every history of the region.               *)
THEOREM RegionFirstFit == Spec => []FirstFitCorrect
<1>1. RegionInv => FirstFitCorrect
  BY PlanesFirstFit DEF RegionInv
<1>. QED
  BY <1>1, RegionInvariant, PTL

(* The fragmentation of a plane is below 1, and 0 exactly when the free    *)
(* bytes can be handed out as one run, in every state of the region.       *)
THEOREM RegionFragmentation == Spec => []FragmentationMeaning
<1>1. RegionInv => FragmentationMeaning
  BY PlanesFragmentation DEF RegionInv
<1>. QED
  BY <1>1, RegionInvariant, PTL

-----------------------------------------------------------------------------
(* The plans. *)

(* One fragment is the whole block, and no fragment is none of it. *)
LEMMA FragmentsAddUp ==
    ASSUME NEW k \in Nat, NEW fs, Lays(fs, k), NEW size \in Nat \ {0},
           SumOf(Bytes(fs), 1 .. Len(fs)) = size
    PROVE  /\ Len(fs) \in Nat \ {0}
           /\ Len(fs) = 1 => fs[1].at \in 1 .. k /\ FreeRuns(fs[1].at, size) # {}
<1>1. fs \in Seq(Fragment) /\ Len(fs) \in Nat /\ DOMAIN fs = 1 .. Len(fs)
  BY DEF Lays
<1>2. Len(fs) # 0
  <2>. SUFFICES ASSUME Len(fs) = 0 PROVE FALSE
    OBVIOUS
  <2>1. 1 .. Len(fs) = {}
    OBVIOUS
  <2>. QED
    BY <2>1, SumEmpty
<1>3. ASSUME Len(fs) = 1
      PROVE  fs[1].at \in 1 .. k /\ FreeRuns(fs[1].at, size) # {}
  <2>. DEFINE b == Bytes(fs)
  <2>1. 1 \in 1 .. Len(fs)
    BY <1>3
  <2>2. /\ fs[1].at \in 1 .. k /\ fs[1].size \in 1 .. N
        /\ fs[1].start \in FreeRuns(fs[1].at, fs[1].size)
    BY <2>1 DEF Lays
  <2>3. b[1] = fs[1].size /\ b[1] \in Nat
    BY <1>1, <2>1, <2>2, RegionAssumption DEF Bytes
  <2>. HIDE DEF b
  <2>4. SumOf(b, 1 .. 1) = b[1] + SumOf(b, 1 .. 0)
    <3>1. 1 \in Nat \ {0} /\ 1 - 1 = 0 /\ \A j \in 1 .. 1 : b[j] \in Nat
      BY <2>3
    <3>. QED
      BY <3>1, SumUpTo
  <2>5. SumOf(b, 1 .. 0) = 0
    <3>1. 1 .. 0 = {}
      OBVIOUS
    <3>. QED
      BY <3>1, SumEmpty
  <2>6. fs[1].size = size
    BY <1>3, <2>3, <2>4, <2>5 DEF b
  <2>. QED
    BY <2>2, <2>6
<1>. QED
  BY <1>1, <1>2, <1>3

LEMMA PlanStep ==
    ASSUME PlanesOK, NEW size \in Sizes, FindPromotion(size)
    PROVE  LET fs == plan'.fragments
           IN  /\ PlanFor(size)
               /\ plan'.found => MapThenSumSet(LAMBDA k : Bytes(fs)[k], DOMAIN fs) = size
               /\ \A j, k \in DOMAIN fs : fs[j].at = fs[k].at => j = k
               /\ \A k \in DOMAIN fs : fs[k].start \in FreeRuns(fs[k].at, fs[k].size)
<1>. DEFINE fit == findBestFit(size)
            gs == fit.fragments
            n == Len(planes)
            fs == plan'.fragments
<1>1. size \in Nat /\ n \in Nat /\ DOMAIN planes = 1 .. n
  BY RegionAssumption, AllFreeIs
<1>2. /\ fit.remaining \in 0 .. size /\ Lays(gs, n) /\ Accounts(gs, size - fit.remaining)
      /\ Single(size) # {} => fit.remaining = 0 /\ Len(gs) = 1
  BY <1>1, BestFitScanned DEF Scanned
<1>3. plan' = IF fit.remaining > 0 THEN NoPlan ELSE [found |-> TRUE, fragments |-> gs]
  BY DEF FindPromotion
<1>4. Single(size) # {} <=> \E i \in DOMAIN planes : size > 0 /\ FreeRuns(i, size) # {}
  BY <1>1, SingleIs
<1>. HIDE DEF fit
<1>5. CASE fit.remaining > 0
  <2>1. plan'.found = FALSE /\ fs = << >>
    BY <1>3, <1>5 DEF NoPlan
  <2>2. Single(size) = {}
    BY <1>2, <1>5
  <2>3. PlanFor(size)
    BY <1>4, <2>1, <2>2 DEF PlanFor
  <2>4. DOMAIN fs = {}
    BY <2>1
  <2>. QED
    BY <2>1, <2>3, <2>4
<1>6. CASE ~(fit.remaining > 0)
  <2>1. plan'.found = TRUE /\ fs = gs
    BY <1>3, <1>6
  <2>2. size - fit.remaining = size
    BY <1>1, <1>2, <1>6
  <2>. HIDE DEF gs
  <2>3. gs \in Seq(Fragment) /\ DOMAIN gs = 1 .. Len(gs)
    BY <1>2 DEF Lays
  <2>4. SumOf(Bytes(gs), 1 .. Len(gs)) = size
    BY <1>2, <2>2 DEF Accounts
  <2>5. MapThenSumSet(LAMBDA k : Bytes(gs)[k], DOMAIN gs) = size
    BY <2>3, <2>4 DEF SumOf
  <2>6. \A j, k \in DOMAIN gs : gs[j].at = gs[k].at => j = k
    BY <1>2, <2>3 DEF Lays
  <2>7. \A k \in DOMAIN gs : gs[k].start \in FreeRuns(gs[k].at, gs[k].size)
    BY <1>2, <2>3 DEF Lays
  <2>8. PlanFor(size)
    <3>1. CASE Single(size) # {}
      BY <1>2, <1>4, <2>1, <3>1 DEF PlanFor, gs
    <3>2. CASE Single(size) = {}
      <4>1. ASSUME size > 0 PROVE Len(gs) > 1
        <5>1. size \in Nat \ {0}
          BY <1>1, <4>1
        <5>2. /\ Len(gs) \in Nat \ {0}
              /\ Len(gs) = 1 => gs[1].at \in 1 .. n /\ FreeRuns(gs[1].at, size) # {}
          BY <1>1, <1>2, <2>4, <5>1, FragmentsAddUp
        <5>3. Len(gs) # 1
          BY <1>1, <1>4, <3>2, <4>1, <5>2
        <5>4. Len(gs) \in Nat \ {0}
          BY <5>2
        <5>. QED
          BY <5>3, <5>4
      <4>. QED
        BY <1>4, <2>1, <3>2, <4>1 DEF PlanFor
    <3>. QED
      BY <3>1, <3>2
  <2>. QED
    BY <2>1, <2>5, <2>6, <2>7, <2>8
<1>. QED
  BY <1>1, <1>2, <1>5, <1>6

(* Every plan of FindPromotion adds up to the block, lies one fragment to  *)
(* a plane in runs that were free when planning began, and uses several    *)
(* planes only when no plane has a run that holds the block.               *)
THEOREM RegionPlans == Spec => PlanSound
<1>1. ASSUME RegionInv, [Next]_vars
      PROVE  [\A size \in Sizes : FindPromotion(size) =>
                LET fs == plan'.fragments
                IN  /\ PlanFor(size)
                    /\ plan'.found => MapThenSumSet(LAMBDA k : Bytes(fs)[k], DOMAIN fs) = size
                    /\ \A j, k \in DOMAIN fs : fs[j].at = fs[k].at => j = k
                    /\ \A k \in DOMAIN fs :
                          fs[k].start \in FreeRuns(fs[k].at, fs[k].size)]_vars
  BY <1>1, PlanStep, Zenon DEF RegionInv
<1>. QED
  BY <1>1, RegionInvariant, PTL DEF Spec, PlanSound

=============================================================================
