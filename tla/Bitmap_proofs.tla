---------------------------- MODULE Bitmap_proofs ----------------------------
(***************************************************************************)
(* Proofs about the free map of a plane, for every bitmap and every size:  *)
(* what FindContiguous answers, and what the fragmentation means.          *)
(***************************************************************************)
EXTENDS Bitmap, Sums


(* The words of a bitmap are numbered in the order of its positions. *)
LEMMA WordMonotone ==
    ASSUME NEW a \in Nat, NEW b \in Nat, a <= b
    PROVE  Word(a) <= Word(b)
<1> USE BitmapAssumption
<1>1. /\ a \div WordBits \in Nat /\ b \div WordBits \in Nat
      /\ a = WordBits * (a \div WordBits) + (a % WordBits)
      /\ b = WordBits * (b \div WordBits) + (b % WordBits)
      /\ a % WordBits \in 0 .. (WordBits - 1)
      /\ b % WordBits \in 0 .. (WordBits - 1)
  OBVIOUS
<1> QED
  BY <1>1 DEF Word

(* What FindContiguous returns is a position of the bitmap, or no position. *)
LEMMA FitRange ==
    ASSUME NEW u, NEW n \in Nat, NEW size
    PROVE  FindContiguous(u, n, size) \in (0 .. (n - 1)) \cup {NoSpace, Panic}
<1> DEFINE stops == {s \in (0 .. (n - 1)) \ u : Verdict(u, n, s, size) # "taken"}
<1>1. CASE size \notin 1 .. n \/ stops = {}
  BY <1>1 DEF FindContiguous
<1>2. CASE ~(size \notin 1 .. n \/ stops = {})
  <2>1. stops \in SUBSET Nat /\ stops # {}
    BY <1>2
  <2>2. Min(stops) \in stops
    BY <2>1, MinOfNat
  <2>3. Min(stops) \in 0 .. (n - 1)
    BY <2>2
  <2> HIDE DEF stops
  <2>4. FindContiguous(u, n, size) \in {Min(stops), NoSpace, Panic}
    BY <1>2, Zenon DEF FindContiguous, stops
  <2> QED
    BY <2>3, <2>4
<1> QED
  BY <1>1, <1>2

(***************************************************************************)
(* While the sum of two positions stays within a uint16, FindContiguous    *)
(* does not panic, and a position it returns starts a free run of the size *)
(* asked for that lies inside the bitmap.                                  *)
(***************************************************************************)
LEMMA FitSound ==
    ASSUME NEW n \in Nat, 2 * n <= U16, NEW u \in SUBSET (0 .. (n - 1)), NEW size \in Nat,
           FindContiguous(u, n, size) # NoSpace
    PROVE  LET z == FindContiguous(u, n, size)
           IN  /\ z # Panic
               /\ z \in 0 .. (n - 1)
               /\ size > 0 /\ z + size <= n
               /\ AddU16(z, size) = z + size
               /\ \A i \in u : i < z \/ i >= z + size
<1> DEFINE stops == {s \in (0 .. (n - 1)) \ u : Verdict(u, n, s, size) # "taken"}
           m == Min(stops)
<1>1. size \in 1 .. n /\ stops # {}
  BY DEF FindContiguous
<1>2. m \in stops
  <2>1. stops \in SUBSET Nat
    OBVIOUS
  <2> QED
    BY <1>1, <2>1, MinOfNat
<1>3. m \in 0 .. (n - 1) /\ m \notin u
  BY <1>2
<1>4. AddU16(m, size) = m + size /\ DecU16(m + size) = m + size - 1
  BY <1>1, <1>3, BitmapAssumption DEF AddU16, DecU16
<1>5. Verdict(u, n, m, size) # "taken"
  BY <1>2
<1> HIDE DEF stops, m
<1>6. FindContiguous(u, n, size) =
         CASE Verdict(u, n, m, size) = "ok"    -> m
           [] Verdict(u, n, m, size) = "panic" -> Panic
           [] OTHER                            -> NoSpace
  BY <1>1, Zenon DEF FindContiguous, stops, m
<1>7. Verdict(u, n, m, size) # "panic"
  <2>1. CASE m + size <= n
    <3>1. Word(m + size - 1) <= Word(n - 1)
      BY <2>1, <1>1, <1>3, WordMonotone
    <3>2. Word(m + size - 1) \in Int /\ Word(n - 1) \in Int
      BY <1>1, <1>3, BitmapAssumption DEF Word
    <3> QED
      BY <1>1, <1>3, <1>4, <3>1, <3>2 DEF Verdict
  <2>2. CASE m + size > n
    BY <1>4, <2>2 DEF Verdict
  <2> QED
    BY <2>1, <2>2, <1>1, <1>3
<1>8. Verdict(u, n, m, size) = "ok" /\ FindContiguous(u, n, size) = m
  BY <1>6, <1>7
<1>9. m + size <= n /\ u \cap (m .. (m + size - 1)) = {}
  <2>1. ~(m + size > n)
    BY <1>4, <1>8 DEF Verdict
  <2>2. u \cap (m .. (m + size - 1)) = {}
    BY <1>4, <1>8, Zenon DEF Verdict
  <2> QED
    BY <2>1, <2>2, <1>1, <1>3
<1> QED
  BY <1>1, <1>3, <1>4, <1>8, <1>9 DEF Panic

(* Where there is a free run, FindContiguous does not answer "no space", and *)
(* not a position beyond it.                                                 *)
LEMMA FitComplete ==
    ASSUME NEW n \in Nat, 2 * n <= U16, NEW u \in SUBSET (0 .. (n - 1)),
           NEW size \in Nat, size > 0, NEW z \in Nat, z + size <= n,
           u \cap (z .. (z + size - 1)) = {}
    PROVE  FindContiguous(u, n, size) # NoSpace /\ FindContiguous(u, n, size) <= z
<1>. DEFINE stops == {s \in (0 .. (n - 1)) \ u : Verdict(u, n, s, size) # "taken"}
            m == Min(stops)
<1>1. \A s \in 0 .. (n - 1) : AddU16(s, size) = s + size /\ DecU16(s + size) = s + size - 1
  BY BitmapAssumption DEF AddU16, DecU16
<1>2. z \in (0 .. (n - 1)) \ u
  OBVIOUS
<1>3. Verdict(u, n, z, size) # "taken"
  <2>1. DecU16(AddU16(z, size)) = z + size - 1
    BY <1>1, <1>2
  <2>. QED
    BY <2>1 DEF Verdict
<1>4. z \in stops
  BY <1>2, <1>3
<1>5. stops \in SUBSET Nat /\ stops # {} /\ size \in 1 .. n
  BY <1>4
<1>6. m \in stops /\ m <= z
  BY <1>4, <1>5, MinOfNat, MinIsLeast
<1>7. m \in 0 .. (n - 1) /\ Verdict(u, n, m, size) # "taken" /\ m + size <= n
  BY <1>6
<1>. HIDE DEF stops, m
<1>8. FindContiguous(u, n, size) =
         CASE Verdict(u, n, m, size) = "ok"    -> m
           [] Verdict(u, n, m, size) = "panic" -> Panic
           [] OTHER                            -> NoSpace
  BY <1>5, Zenon DEF FindContiguous, stops, m
<1>9. Verdict(u, n, m, size) \in {"ok", "panic"}
  <2>1. AddU16(m, size) = m + size
    BY <1>1, <1>7
  <2>2. ~(AddU16(m, size) > n)
    BY <1>7, <2>1
  <2>. QED
    BY <1>7, <2>2 DEF Verdict
<1>. QED
  BY <1>6, <1>7, <1>8, <1>9 DEF NoSpace, Panic

(* The positions where a run of free bytes of this size starts. *)
FreeStarts(u, n, size) ==
    {s \in 0 .. (n - size) : (s .. (s + size - 1)) \cap u = {}}

(***************************************************************************)
(* FindContiguous, with its early return, answers with the lowest free run *)
(* there is, for every bitmap and every size, as long as the sum of two    *)
(* positions stays within a uint16. The words and masks that check one     *)
(* candidate are a set intersection in Verdict.                            *)
(***************************************************************************)
THEOREM FirstFit ==
    ASSUME NEW n \in Nat, 2 * n <= U16, NEW u \in SUBSET (0 .. (n - 1)),
           NEW size \in 1 .. n
    PROVE  FindContiguous(u, n, size)
             = IF FreeStarts(u, n, size) = {} THEN NoSpace ELSE Min(FreeStarts(u, n, size))
<1>. DEFINE F == FreeStarts(u, n, size)
            z == FindContiguous(u, n, size)
<1>1. F \in SUBSET Nat
  BY DEF FreeStarts
<1>2. z # NoSpace => z \in F
  <2>. SUFFICES ASSUME z # NoSpace PROVE z \in F
    OBVIOUS
  <2>1. z \in 0 .. (n - 1) /\ z + size <= n /\ \A i \in u : i < z \/ i >= z + size
    BY FitSound
  <2>. HIDE DEF z
  <2>. QED
    BY <2>1 DEF FreeStarts
<1>3. ASSUME NEW s \in F PROVE z # NoSpace /\ z <= s
  <2>1. /\ s \in Nat /\ s + size <= n /\ u \cap (s .. (s + size - 1)) = {}
    BY DEF FreeStarts
  <2>. QED
    BY <2>1, FitComplete
<1>4. CASE F = {}
  BY <1>2, <1>4
<1>5. CASE F # {}
  <2>1. Min(F) \in F /\ \A s \in F : Min(F) <= s
    BY <1>1, <1>5, MinOfNat, MinIsLeast
  <2>2. z \in F /\ z <= Min(F)
    BY <1>2, <1>3, <2>1
  <2>. HIDE DEF F, z
  <2>3. z = Min(F)
    <3>1. Min(F) <= z /\ z \in Nat /\ Min(F) \in Nat
      BY <1>1, <2>1, <2>2
    <3>. QED
      BY <2>2, <3>1
  <2>. QED
    BY <1>5, <2>3 DEF F, z
<1>. QED
  BY <1>4, <1>5

(* The free bytes of a plane are a number up to the plane's size. *)
LEMMA FreeBytesRange ==
    ASSUME NEW n \in Nat, NEW u \in SUBSET (0 .. (n - 1))
    PROVE  FreeBytes(u, n) \in 0 .. n
<1>1. IsFiniteSet(0 .. (n - 1)) /\ Cardinality(0 .. (n - 1)) = n
  BY FS_Interval
<1>2. Cardinality(u) \in Nat /\ Cardinality(u) <= n
  BY <1>1, FS_Subset, FS_CardinalityType
<1> QED
  BY <1>2 DEF FreeBytes

(* The free positions, and those that start a hole. *)
FreePositions(u, n) == (0 .. (n - 1)) \ u

HoleStarts(u, n) == {i \in FreePositions(u, n) : i = 0 \/ (i - 1) \in u}

(* The first free position starts a hole. *)
LEMMA FirstHole ==
    ASSUME NEW n \in Nat, NEW u \in SUBSET (0 .. (n - 1)), FreePositions(u, n) # {}
    PROVE  Min(FreePositions(u, n)) \in HoleStarts(u, n)
<1>. DEFINE F == FreePositions(u, n)
            m == Min(F)
<1>1. F \in SUBSET Nat /\ \A i \in F : i < n
  BY DEF FreePositions
<1>2. m \in F /\ \A i \in F : m <= i
  BY <1>1, MinOfNat, MinIsLeast
<1>. HIDE DEF m
<1>3. m \in Nat /\ m < n
  BY <1>1, <1>2
<1>4. ASSUME m # 0 PROVE (m - 1) \in u
  <2>1. m - 1 \in 0 .. (n - 1)
    BY <1>3, <1>4
  <2>2. m - 1 \notin F
    BY <1>2, <1>3
  <2>. QED
    BY <2>1, <2>2 DEF FreePositions
<1>. QED
  BY <1>2, <1>4 DEF HoleStarts, m

(* The free positions are as many as FreeBytes says, and the holes no more. *)
LEMMA HolesCounted ==
    ASSUME NEW n \in Nat, NEW u \in SUBSET (0 .. (n - 1))
    PROVE  /\ IsFiniteSet(FreePositions(u, n)) /\ IsFiniteSet(HoleStarts(u, n))
           /\ Cardinality(FreePositions(u, n)) = FreeBytes(u, n)
           /\ Cardinality(HoleStarts(u, n)) = Holes(u, n)
           /\ Holes(u, n) \in 0 .. FreeBytes(u, n)
           /\ FreeBytes(u, n) > 0 => Holes(u, n) > 0
<1>. DEFINE F == FreePositions(u, n)
            T == HoleStarts(u, n)
<1>1. IsFiniteSet(0 .. (n - 1)) /\ Cardinality(0 .. (n - 1)) = n
  BY FS_Interval
<1>2. IsFiniteSet(F) /\ IsFiniteSet(u) /\ F \cup u = 0 .. (n - 1) /\ F \cap u = {}
  BY <1>1, FS_Subset DEF FreePositions
<1>3. Cardinality(F) \in Nat /\ Cardinality(u) \in Nat
  BY <1>2, FS_CardinalityType
<1>4. Cardinality(F) = n - Cardinality(u)
  <2>1. Cardinality(F \cup u) = Cardinality(F) + Cardinality(u) - Cardinality(F \cap u)
    BY <1>2, FS_Union
  <2>2. Cardinality(F \cap u) = 0
    BY <1>2, FS_EmptySet
  <2>3. Cardinality(F \cup u) = n
    BY <1>1, <1>2, Zenon
  <2>. QED
    BY <1>3, <2>1, <2>2, <2>3
<1>5. T \in SUBSET F
  BY DEF HoleStarts
<1>6. IsFiniteSet(T) /\ Cardinality(T) <= Cardinality(F) /\ Cardinality(T) \in Nat
  BY <1>2, <1>5, FS_Subset, FS_CardinalityType
<1>7. Cardinality(T) = Holes(u, n)
  BY DEF Holes, HoleStarts, FreePositions
<1>8. ASSUME Cardinality(F) > 0 PROVE Cardinality(T) > 0
  <2>1. F # {}
    BY <1>8, FS_EmptySet
  <2>2. T # {}
    BY <2>1, FirstHole
  <2>. QED
    BY <1>6, <2>2, FS_EmptySet
<1>. QED
  BY <1>2, <1>3, <1>4, <1>6, <1>7, <1>8 DEF FreeBytes

(* When only one hole starts, the free positions are one run. *)
LEMMA OneHole ==
    ASSUME NEW n \in Nat, NEW u \in SUBSET (0 .. (n - 1)), NEW z, HoleStarts(u, n) = {z}
    PROVE  \E e \in 0 .. n : z \in 0 .. (e - 1) /\ FreePositions(u, n) = z .. (e - 1)
<1>. DEFINE F == FreePositions(u, n)
            E == {j \in 0 .. n : j > z /\ (j = n \/ j \in u)}
            e == Min(E)
<1>1. z \in F /\ z \in 0 .. (n - 1)
  BY DEF HoleStarts, FreePositions
<1>2. \A i \in F : z <= i
  <2>1. F \in SUBSET Nat /\ F # {}
    BY <1>1 DEF FreePositions
  <2>2. Min(F) = z
    BY <2>1, FirstHole
  <2>. QED
    BY <2>1, <2>2, MinIsLeast
<1>3. e \in E /\ \A j \in E : e <= j
  <2>1. E \in SUBSET Nat /\ n \in E
    BY <1>1
  <2>. HIDE DEF E
  <2>. QED
    BY <2>1, MinOfNat, MinIsLeast
<1>4. e \in 0 .. n /\ z < e /\ (e = n \/ e \in u)
  BY <1>3
<1>5. \A j \in z .. (e - 1) : j \notin u
  <2>. SUFFICES ASSUME NEW j \in z .. (e - 1), j \in u PROVE FALSE
    OBVIOUS
  <2>1. j # z
    BY <1>1 DEF FreePositions
  <2>2. j \in E
    BY <1>1, <1>4, <2>1
  <2>. HIDE DEF E, e
  <2>. QED
    BY <1>1, <1>3, <1>4, <2>2
<1>. HIDE DEF e
<1>6. ASSUME NEW i \in F PROVE i < e
  <2>. SUFFICES ASSUME i >= e PROVE FALSE
    BY <1>4 DEF FreePositions
  <2>1. i \in 0 .. (n - 1) /\ i \notin u
    BY DEF FreePositions
  <2>2. e \in u /\ i > e
    BY <1>4, <2>1
  <2>. DEFINE G == {j \in F : j > e}
              g == Min(G)
  <2>3. g \in G /\ \A j \in G : g <= j
    <3>1. G \in SUBSET Nat /\ i \in G
      BY <2>2 DEF FreePositions
    <3>. HIDE DEF G
    <3>. QED
      BY <3>1, MinOfNat, MinIsLeast
  <2>4. g \in F /\ g > e /\ g \in 0 .. (n - 1)
    BY <2>3 DEF FreePositions
  <2>5. (g - 1) \in u
    <3>1. CASE g - 1 = e
      BY <2>2, <3>1
    <3>2. CASE g - 1 # e
      <4>1. g - 1 > e /\ g - 1 \in 0 .. (n - 1)
        BY <1>4, <2>4, <3>2
      <4>2. g - 1 \notin G
        <5>. HIDE DEF G, g
        <5>. QED
          BY <2>3, <2>4
      <4>. QED
        BY <4>1, <4>2 DEF FreePositions
    <3>. QED
      BY <3>1, <3>2
  <2>6. g \in HoleStarts(u, n)
    BY <2>4, <2>5 DEF HoleStarts
  <2>. QED
    BY <1>1, <1>4, <2>4, <2>6
<1>7. F = z .. (e - 1)
  <2>1. ASSUME NEW i \in F PROVE i \in z .. (e - 1)
    <3>1. i \in Nat
      BY DEF FreePositions
    <3>. QED
      BY <1>1, <1>2, <1>4, <1>6, <3>1
  <2>2. ASSUME NEW i \in z .. (e - 1) PROVE i \in F
    BY <1>1, <1>4, <1>5 DEF FreePositions
  <2>. QED
    BY <2>1, <2>2
<1>. QED
  BY <1>1, <1>4, <1>7

(***************************************************************************)
(* Fragmentation is 0 exactly when nothing is free or FindContiguous can   *)
(* hand out all that is free as one run, and it is always below 1.         *)
(***************************************************************************)
THEOREM FragmentationIs ==
    ASSUME NEW n \in Nat, 2 * n <= U16, NEW u \in SUBSET (0 .. (n - 1))
    PROVE  LET free == FreeBytes(u, n)
               numerator == FragNumerator(u, n)
           IN  /\ numerator \in 0 .. free
               /\ free > 0 => numerator < free
               /\ numerator = 0 <=> free = 0 \/ FindContiguous(u, n, free) # NoSpace
<1>. DEFINE F == FreePositions(u, n)
            T == HoleStarts(u, n)
            b == FreeBytes(u, n)
            h == Holes(u, n)
            z == FindContiguous(u, n, b)
<1>1. /\ IsFiniteSet(F) /\ Cardinality(F) = b
      /\ IsFiniteSet(T) /\ Cardinality(T) = h
      /\ b \in 0 .. n /\ h \in 0 .. b /\ (b > 0 => h > 0)
  BY HolesCounted, FreeBytesRange
<1>2. ASSUME b > 0, z # NoSpace PROVE h = 1
  <2>1. z \in 0 .. (n - 1) /\ z + b <= n /\ \A i \in u : i < z \/ i >= z + b
    BY <1>1, <1>2, FitSound
  <2>. HIDE DEF z
  <2>2. z .. (z + b - 1) \in SUBSET F
    BY <1>1, <2>1 DEF FreePositions
  <2>3. Cardinality(z .. (z + b - 1)) = b
    <3>. HIDE DEF b
    <3>. QED
      BY <1>1, <1>2, <2>1, FS_Interval
  <2>4. F = z .. (z + b - 1)
    BY <1>1, <2>2, <2>3, FS_Subset
  <2>5. T \subseteq {z}
    <3>. SUFFICES ASSUME NEW i \in T, i # z PROVE FALSE
      OBVIOUS
    <3>1. i \in F /\ (i = 0 \/ (i - 1) \in u)
      BY DEF HoleStarts
    <3>. HIDE DEF F, T, b
    <3>2. i \in Nat /\ i > z /\ (i - 1) \in F
      BY <1>1, <2>1, <2>4, <3>1
    <3>. QED
      BY <2>1, <3>1, <3>2 DEF F, FreePositions
  <2>6. T # {}
    BY <1>1, <1>2, FS_EmptySet
  <2>7. T = {z}
    BY <2>5, <2>6
  <2>. QED
    BY <1>1, <2>7, FS_Singleton
<1>3. ASSUME b > 0, h = 1 PROVE z # NoSpace
  <2>1. PICK y : T = {y}
    BY <1>1, <1>3, FS_Singleton
  <2>2. PICK e \in 0 .. n : y \in 0 .. (e - 1) /\ F = y .. (e - 1)
    BY <2>1, OneHole
  <2>3. b = e - y
    BY <1>1, <2>2, FS_Interval
  <2>4. y \in Nat /\ y + b <= n /\ b \in Nat /\ u \cap (y .. (y + b - 1)) = {}
    <3>1. y + b - 1 = e - 1
      BY <1>1, <2>2, <2>3
    <3>2. u \cap F = {}
      BY DEF FreePositions
    <3>. HIDE DEF F, b
    <3>. QED
      BY <1>1, <2>2, <2>3, <3>1, <3>2
  <2>. QED
    BY <1>3, <2>4, FitComplete
<1>. HIDE DEF z, b, h
<1>4. FragNumerator(u, n) = IF b = 0 THEN 0 ELSE h - 1
  BY DEF FragNumerator, b, h
<1>5. /\ FragNumerator(u, n) \in 0 .. b
      /\ b > 0 => FragNumerator(u, n) < b
      /\ FragNumerator(u, n) = 0 <=> b = 0 \/ z # NoSpace
  BY <1>1, <1>2, <1>3, <1>4
<1>. QED
  BY <1>5 DEF b, z
==============================================================================
