-------------------------------- MODULE Sums --------------------------------
(***************************************************************************)
(* Sums over finite sets, for the proofs about totals: the operator        *)
(* MapThenSumSet of FiniteSetsExt applied to a function. It is a recursion *)
(* over the subsets of a set that takes an arbitrary element at each turn; *)
(* the lemmas say that the recursion is well defined and that the order    *)
(* does not matter.                                                        *)
(*                                                                         *)
(* The inductions are arguments by a smallest counterexample: a non-empty  *)
(* collection of subsets of a finite set has a minimal member.             *)
(***************************************************************************)
EXTENDS Integers, FiniteSetTheorems, FiniteSetsExt, TLAPS

(* The sum of f[x] over the elements x of S. *)
SumOf(f, S) == MapThenSumSet(LAMBDA x : f[x], S)

(* g is the function that the recursion in MapThenSumSet defines on the    *)
(* subsets of S.                                                           *)
IsSum(g, f, S) ==
    g = [s \in SUBSET S |->
           IF s = {} THEN 0
           ELSE f[CHOOSE x \in s : TRUE] + g[s \ {CHOOSE x \in s : TRUE}]]

(* Induction over the naturals, as a smallest counterexample. *)
LEMMA LeastNat ==
    ASSUME NEW S \in SUBSET Nat, S # {}
    PROVE  \E m \in S : \A y \in S : m <= y
<1> DEFINE R == {ss \in Nat \X Nat : ss[1] < ss[2]}
<1>1. IsWellFoundedOn(R, Nat)
  BY NatLessThanWellFounded, Zenon DEF OpToRel
<1> HIDE DEF R
<1>2. PICK m \in S : \A y \in S : <<y, m>> \notin R
  BY <1>1, WFMin
<1>3. ASSUME NEW y \in S, y < m PROVE FALSE
  <2>1. <<y, m>> \in Nat \X Nat
    OBVIOUS
  <2>2. <<y, m>>[1] < <<y, m>>[2]
    BY <1>3
  <2>. QED
    BY <1>2, <2>1, <2>2, Zenon DEF R
<1>. QED
  BY <1>3

(* A set of naturals that is not empty contains its Min. *)
LEMMA MinOfNat ==
    ASSUME NEW S \in SUBSET Nat, S # {}
    PROVE  Min(S) \in S
<1>1. \E m \in S : \A y \in S : m <= y
  BY LeastNat
<1>. QED
  BY <1>1 DEF Min

(* Min of a set of naturals is its least member. *)
LEMMA MinIsLeast ==
    ASSUME NEW S \in SUBSET Nat, S # {}
    PROVE  \A i \in S : Min(S) <= i
<1>1. \E m \in S : \A y \in S : m <= y
  BY LeastNat
<1>. QED
  BY <1>1 DEF Min

(* Induction over finite sets, as a smallest counterexample. *)
LEMMA FiniteMinimal ==
    ASSUME NEW S, IsFiniteSet(S), NEW C \in SUBSET (SUBSET S), C # {}
    PROVE  \E T \in C : \A U \in C : U \subseteq T => U = T
<1>1. FiniteSubsetsOf(S) = SUBSET S
  BY FS_FiniteSubsetsOfFinite
<1>2. IsWellFoundedOn(StrictSubsetOrdering(S), SUBSET S)
  BY <1>1, FS_StrictSubsetOrderingWellFounded
<1>3. PICK T \in C : \A U \in C : <<U, T>> \notin StrictSubsetOrdering(S)
  BY <1>2, WFMin
<1>4. ASSUME NEW U \in C, U \subseteq T, U # T
      PROVE  FALSE
  <2>1. <<U, T>> \in (SUBSET S) \X (SUBSET S)
    OBVIOUS
  <2>. QED
    BY <1>3, <1>4, <2>1 DEF StrictSubsetOrdering
<1>. QED
  BY <1>4

(* The recursion has at most one solution. *)
LEMMA IsSumUnique ==
    ASSUME NEW f, NEW g, NEW h, NEW S, IsFiniteSet(S),
           IsSum(g, f, S), IsSum(h, f, S)
    PROVE  g = h
<1> DEFINE C == {s \in SUBSET S : g[s] # h[s]}
<1>1. C = {}
  <2> SUFFICES ASSUME C # {} PROVE FALSE
    OBVIOUS
  <2>0. C \in SUBSET (SUBSET S)
    OBVIOUS
  <2>1. PICK s \in C : \A u \in C : u \subseteq s => u = s
    <3> HIDE DEF C
    <3>. QED
      BY <2>0, FiniteMinimal
  <2>2. s # {}
    BY DEF IsSum
  <2> DEFINE x == CHOOSE y \in s : TRUE
  <2>3. x \in s
    BY <2>2
  <2>4. s \ {x} \in SUBSET S /\ s \ {x} # s
    BY <2>3
  <2>5. g[s \ {x}] = h[s \ {x}]
    BY <2>1, <2>4
  <2>6. g[s] = f[x] + g[s \ {x}] /\ h[s] = f[x] + h[s \ {x}]
    BY <2>2 DEF IsSum
  <2>. QED
    BY <2>5, <2>6
<1>. QED
  BY <1>1 DEF IsSum

(* A solution for a set is one for its subsets. *)
LEMMA IsSumRestrict ==
    ASSUME NEW f, NEW g, NEW S, NEW T \in SUBSET S, IsSum(g, f, S)
    PROVE  IsSum([s \in SUBSET T |-> g[s]], f, T)
<1> DEFINE h == [s \in SUBSET T |-> g[s]]
<1>1. ASSUME NEW s \in SUBSET T
      PROVE  h[s] = IF s = {} THEN 0
                    ELSE f[CHOOSE x \in s : TRUE] + h[s \ {CHOOSE x \in s : TRUE}]
  <2>1. s \in SUBSET S /\ s \ {CHOOSE x \in s : TRUE} \in SUBSET T
    OBVIOUS
  <2>2. g[s] = IF s = {} THEN 0
               ELSE f[CHOOSE x \in s : TRUE] + g[s \ {CHOOSE x \in s : TRUE}]
    BY <2>1 DEF IsSum
  <2>. QED
    BY <2>1, <2>2
<1>2. h = [s \in SUBSET T |->
             IF s = {} THEN 0
             ELSE f[CHOOSE x \in s : TRUE] + h[s \ {CHOOSE x \in s : TRUE}]]
  BY <1>1
<1>. QED
  BY <1>2 DEF IsSum

(* The recursion has a solution for every finite set. *)
LEMMA IsSumExists ==
    ASSUME NEW f, NEW S, IsFiniteSet(S)
    PROVE  \E g : IsSum(g, f, S)
<1> DEFINE C == {T \in SUBSET S : ~ \E g : IsSum(g, f, T)}
<1> SUFFICES ASSUME C # {} PROVE FALSE
  OBVIOUS
<1>0. C \in SUBSET (SUBSET S)
  OBVIOUS
<1>1. PICK T \in C : \A U \in C : U \subseteq T => U = T
  <2> HIDE DEF C
  <2>. QED
    BY <1>0, FiniteMinimal
<1> DEFINE c(s) == CHOOSE x \in s : TRUE
           G(U) == CHOOSE g : IsSum(g, f, U)
           h == [s \in SUBSET T |->
                   IF s = {} THEN 0 ELSE f[c(s)] + G(s \ {c(s)})[s \ {c(s)}]]
<1>2. ASSUME NEW U \in SUBSET T, U # T
      PROVE  IsSum(G(U), f, U)
  <2>1. U \in SUBSET S /\ U \notin C
    BY <1>1, <1>2
  <2>2. \E g : IsSum(g, f, U)
    BY <2>1
  <2>. QED
    BY <2>2
<1>3. ASSUME NEW u \in SUBSET T, u # T
      PROVE  h[u] = G(u)[u]
  <2>1. IsSum(G(u), f, u)
    BY <1>2, <1>3
  <2>2. CASE u = {}
    BY <2>1, <2>2 DEF IsSum
  <2>3. CASE u # {}
    <3> DEFINE v == u \ {c(u)}
    <3>1. c(u) \in u /\ v \in SUBSET T /\ v # T /\ v \in SUBSET u
      BY <2>3
    <3>2. IsSum(G(v), f, v)
      BY <1>2, <3>1
    <3>3. IsSum([s \in SUBSET v |-> G(u)[s]], f, v)
      BY <2>1, <3>1, IsSumRestrict
    <3>4. IsFiniteSet(v)
      BY <3>1, FS_Subset
    <3>5. G(v) = [s \in SUBSET v |-> G(u)[s]]
      BY <3>2, <3>3, <3>4, IsSumUnique
    <3>6. G(v)[v] = G(u)[v]
      BY <3>5
    <3>7. G(u)[u] = f[c(u)] + G(u)[v]
      BY <2>1, <2>3 DEF IsSum
    <3>8. h[u] = f[c(u)] + G(v)[v]
      BY <2>3
    <3>. QED
      BY <3>6, <3>7, <3>8
  <2>. QED
    BY <2>2, <2>3
<1>4. ASSUME NEW s \in SUBSET T
      PROVE  h[s] = IF s = {} THEN 0 ELSE f[c(s)] + h[s \ {c(s)}]
  <2>1. CASE s = {}
    BY <2>1
  <2>2. CASE s # {}
    <3>1. c(s) \in s
      BY <2>2
    <3>2. s \ {c(s)} \in SUBSET T /\ s \ {c(s)} # T
      BY <3>1
    <3>3. h[s \ {c(s)}] = G(s \ {c(s)})[s \ {c(s)}]
      BY <1>3, <3>2
    <3>. QED
      BY <2>2, <3>3
  <2>. QED
    BY <2>1, <2>2
<1>5. h = [s \in SUBSET T |-> h[s]]
  OBVIOUS
<1>6. h = [s \in SUBSET T |-> IF s = {} THEN 0 ELSE f[c(s)] + h[s \ {c(s)}]]
  <2> HIDE DEF h
  <2>. QED
    BY <1>4, <1>5
<1>7. IsSum(h, f, T)
  <2> HIDE DEF h
  <2>. QED
    BY <1>6 DEF IsSum
<1>. QED
  BY <1>7

(* What MapThenSumSet computes is the value of that solution. *)
LEMMA SumOfIs ==
    ASSUME NEW f, NEW S, IsFiniteSet(S)
    PROVE  \E g : IsSum(g, f, S) /\ SumOf(f, S) = g[S]
<1>1. SumOf(f, S) = (CHOOSE g : IsSum(g, f, S))[S]
  BY DEF SumOf, MapThenSumSet, MapThenFoldSet, IsSum
<1>2. IsSum(CHOOSE g : IsSum(g, f, S), f, S)
  BY IsSumExists
<1>. QED
  BY <1>1, <1>2

(* The sum over no element is 0, and the recursion of MapThenSumSet takes  *)
(* away the element that CHOOSE names.                                     *)
LEMMA SumEmpty ==
    ASSUME NEW f
    PROVE  SumOf(f, {}) = 0
<1>1. PICK g : IsSum(g, f, {}) /\ SumOf(f, {}) = g[{}]
  BY SumOfIs, FS_EmptySet
<1>. QED
  BY <1>1 DEF IsSum

LEMMA SumChosen ==
    ASSUME NEW f, NEW S, IsFiniteSet(S), S # {}
    PROVE  \E c \in S : SumOf(f, S) = f[c] + SumOf(f, S \ {c})
<1> DEFINE c == CHOOSE x \in S : TRUE
           T == S \ {c}
<1>1. c \in S
  OBVIOUS
<1>2. PICK g : IsSum(g, f, S) /\ SumOf(f, S) = g[S]
  BY SumOfIs
<1>3. IsFiniteSet(T)
  BY FS_RemoveElement
<1>4. PICK h : IsSum(h, f, T) /\ SumOf(f, T) = h[T]
  BY <1>3, SumOfIs
<1>5. IsSum([s \in SUBSET T |-> g[s]], f, T)
  BY <1>2, IsSumRestrict
<1>6. h = [s \in SUBSET T |-> g[s]]
  BY <1>3, <1>4, <1>5, IsSumUnique
<1>7. h[T] = g[T]
  BY <1>6
<1>8. g[S] = f[c] + g[T]
  BY <1>2 DEF IsSum
<1>. QED
  BY <1>1, <1>2, <1>4, <1>7, <1>8

-----------------------------------------------------------------------------
(* Sums of natural numbers are natural numbers. *)
LEMMA SumNat ==
    ASSUME NEW f, NEW S, IsFiniteSet(S), \A x \in S : f[x] \in Nat
    PROVE  SumOf(f, S) \in Nat
<1> DEFINE C == {T \in SUBSET S : SumOf(f, T) \notin Nat}
<1> SUFFICES ASSUME C # {} PROVE FALSE
  OBVIOUS
<1>0. C \in SUBSET (SUBSET S)
  OBVIOUS
<1>1. PICK T \in C : \A U \in C : U \subseteq T => U = T
  <2> HIDE DEF C
  <2>. QED
    BY <1>0, FiniteMinimal
<1>2. IsFiniteSet(T)
  BY FS_Subset
<1>3. T # {}
  BY SumEmpty
<1>4. PICK c \in T : SumOf(f, T) = f[c] + SumOf(f, T \ {c})
  BY <1>2, <1>3, SumChosen
<1>5. SumOf(f, T \ {c}) \in Nat
  BY <1>1
<1>6. f[c] \in Nat /\ SumOf(f, T) \notin Nat
  OBVIOUS
<1>. QED
  BY <1>4, <1>5, <1>6

(* Equal summands give equal sums. *)
LEMMA SumCong ==
    ASSUME NEW f, NEW g, NEW S, IsFiniteSet(S), \A x \in S : f[x] = g[x]
    PROVE  SumOf(f, S) = SumOf(g, S)
<1>1. PICK F : IsSum(F, f, S) /\ SumOf(f, S) = F[S]
  BY SumOfIs
<1>2. PICK G : IsSum(G, g, S) /\ SumOf(g, S) = G[S]
  BY SumOfIs
<1>3. ASSUME NEW s \in SUBSET S
      PROVE  F[s] = IF s = {} THEN 0
                    ELSE g[CHOOSE x \in s : TRUE] + F[s \ {CHOOSE x \in s : TRUE}]
  <2>1. CASE s = {}
    BY <1>1, <2>1 DEF IsSum
  <2>2. CASE s # {}
    <3>1. (CHOOSE x \in s : TRUE) \in S
      BY <2>2
    <3>2. F[s] = f[CHOOSE x \in s : TRUE] + F[s \ {CHOOSE x \in s : TRUE}]
      BY <1>1, <2>2 DEF IsSum
    <3>. QED
      BY <2>2, <3>1, <3>2
  <2>. QED
    BY <2>1, <2>2
<1>4. F = [s \in SUBSET S |-> F[s]]
  BY <1>1 DEF IsSum
<1>5. F = [s \in SUBSET S |->
             IF s = {} THEN 0
             ELSE g[CHOOSE x \in s : TRUE] + F[s \ {CHOOSE x \in s : TRUE}]]
  BY <1>3, <1>4
<1>6. IsSum(F, g, S)
  BY <1>5 DEF IsSum
<1>. QED
  BY <1>1, <1>2, <1>6, IsSumUnique

(* Any element can be taken out first. *)
LEMMA SumRemove ==
    ASSUME NEW f, NEW S, IsFiniteSet(S), \A y \in S : f[y] \in Nat, NEW x \in S
    PROVE  SumOf(f, S) = f[x] + SumOf(f, S \ {x})
<1> DEFINE C == {T \in SUBSET S : \E y \in T : SumOf(f, T) # f[y] + SumOf(f, T \ {y})}
<1>0. C \in SUBSET (SUBSET S)
  OBVIOUS
<1>1. C = {}
  <2> SUFFICES ASSUME C # {} PROVE FALSE
    OBVIOUS
  <2>1. PICK T \in C : \A U \in C : U \subseteq T => U = T
    <3> HIDE DEF C
    <3>. QED
      BY <1>0, FiniteMinimal
  <2>2. PICK y \in T : SumOf(f, T) # f[y] + SumOf(f, T \ {y})
    OBVIOUS
  <2>3. IsFiniteSet(T)
    BY FS_Subset
  <2>4. PICK c \in T : SumOf(f, T) = f[c] + SumOf(f, T \ {c})
    BY <2>2, <2>3, SumChosen
  <2>5. c # y
    BY <2>2, <2>4
  <2>6. T \ {c} \notin C /\ T \ {c} \in SUBSET S /\ y \in T \ {c}
    BY <2>1, <2>5
  <2>7. T \ {y} \notin C /\ T \ {y} \in SUBSET S /\ c \in T \ {y}
    BY <2>1, <2>5
  <2>8. SumOf(f, T \ {c}) = f[y] + SumOf(f, (T \ {c}) \ {y})
    BY <2>6
  <2>9. SumOf(f, T \ {y}) = f[c] + SumOf(f, (T \ {y}) \ {c})
    BY <2>7
  <2>10. (T \ {y}) \ {c} = (T \ {c}) \ {y}
    OBVIOUS
  <2>11. SumOf(f, (T \ {c}) \ {y}) \in Nat
    <3>1. (T \ {c}) \ {y} \in SUBSET S
      OBVIOUS
    <3>2. IsFiniteSet((T \ {c}) \ {y})
      BY <3>1, FS_Subset
    <3>. QED
      BY <3>1, <3>2, SumNat
  <2>12. f[y] \in Nat /\ f[c] \in Nat
    OBVIOUS
  <2>. QED
    BY <2>2, <2>4, <2>8, <2>9, <2>10, <2>11, <2>12
<1>. QED
  BY <1>1

LEMMA SumAdd ==
    ASSUME NEW f, NEW S, IsFiniteSet(S), NEW x, x \notin S,
           \A y \in S \cup {x} : f[y] \in Nat
    PROVE  SumOf(f, S \cup {x}) = f[x] + SumOf(f, S)
<1>1. IsFiniteSet(S \cup {x})
  BY FS_AddElement
<1>2. (S \cup {x}) \ {x} = S
  OBVIOUS
<1>. QED
  BY <1>1, <1>2, SumRemove

(* A larger set has no smaller sum. *)
LEMMA SumMonotone ==
    ASSUME NEW f, NEW S, IsFiniteSet(S), \A x \in S : f[x] \in Nat, NEW T \in SUBSET S
    PROVE  SumOf(f, T) <= SumOf(f, S)
<1> DEFINE C == {U \in SUBSET S : T \subseteq U /\ ~(SumOf(f, T) <= SumOf(f, U))}
<1>0. C \in SUBSET (SUBSET S)
  OBVIOUS
<1>1. SumOf(f, T) \in Nat
  BY FS_Subset, SumNat
<1>2. C = {}
  <2> SUFFICES ASSUME C # {} PROVE FALSE
    OBVIOUS
  <2>1. PICK U \in C : \A V \in C : V \subseteq U => V = U
    <3> HIDE DEF C
    <3>. QED
      BY <1>0, FiniteMinimal
  <2>2. U # T
    BY <1>1
  <2>3. PICK x \in U : x \notin T
    BY <2>2
  <2>4. U \ {x} \in SUBSET S /\ T \subseteq U \ {x} /\ U \ {x} # U /\ U \ {x} \subseteq U
    BY <2>3
  <2>5. SumOf(f, T) <= SumOf(f, U \ {x})
    BY <2>1, <2>4
  <2>6. IsFiniteSet(U) /\ IsFiniteSet(U \ {x})
    BY <2>4, FS_Subset
  <2>7. SumOf(f, U) = f[x] + SumOf(f, U \ {x})
    BY <2>6, SumRemove
  <2>8. SumOf(f, U \ {x}) \in Nat /\ f[x] \in Nat
    BY <2>4, <2>6, SumNat
  <2>. QED
    BY <1>1, <2>5, <2>7, <2>8
<1>. QED
  BY <1>2

(* The members of S that p puts in W. *)
Where(S, p, W) == {y \in S : p[y] \in W}

(* A sum over the members of S that p puts in W, with the part of one      *)
(* member taken out.                                                       *)
LEMMA SumWhere ==
    ASSUME NEW f, NEW p, NEW S, NEW W, IsFiniteSet(S),
           \A y \in S : f[y] \in Nat, NEW x \in S
    PROVE  /\ IsFiniteSet(Where(S \ {x}, p, W))
           /\ SumOf(f, Where(S, p, W)) \in Nat
           /\ SumOf(f, Where(S \ {x}, p, W)) \in Nat
           /\ SumOf(f, Where(S, p, W))
                = SumOf(f, Where(S \ {x}, p, W)) + (IF p[x] \in W THEN f[x] ELSE 0)
<1> DEFINE all == Where(S, p, W)
           rest == Where(S \ {x}, p, W)
<1>1. all \in SUBSET S /\ rest \in SUBSET S
  BY DEF Where
<1>2. IsFiniteSet(all) /\ IsFiniteSet(rest)
  BY <1>1, FS_Subset
<1>3. SumOf(f, rest) \in Nat /\ SumOf(f, all) \in Nat
  BY <1>1, <1>2, SumNat
<1>4. CASE p[x] \in W
  <2>1. x \in all /\ all \ {x} = rest
    BY <1>4 DEF Where
  <2>2. SumOf(f, all) = f[x] + SumOf(f, rest)
    BY <1>1, <1>2, <2>1, SumRemove
  <2>. QED
    BY <1>2, <1>3, <1>4, <2>2
<1>5. CASE p[x] \notin W
  <2>1. all = rest
    BY <1>5 DEF Where
  <2>. QED
    BY <1>2, <1>3, <1>5, <2>1
<1>. QED
  BY <1>4, <1>5

(* When only the member x moves, the sum over the members in W changes by  *)
(* what x brings and takes with it.                                        *)
LEMMA SumMove ==
    ASSUME NEW f, NEW p, NEW g, NEW q, NEW S, NEW W, IsFiniteSet(S), NEW x \in S,
           \A y \in S : f[y] \in Nat, \A y \in S : g[y] \in Nat,
           \A y \in S \ {x} : f[y] = g[y] /\ p[y] = q[y]
    PROVE  SumOf(g, Where(S, q, W)) + (IF p[x] \in W THEN f[x] ELSE 0)
             = SumOf(f, Where(S, p, W)) + (IF q[x] \in W THEN g[x] ELSE 0)
<1> DEFINE R == Where(S \ {x}, p, W)
<1>1. R = Where(S \ {x}, q, W) /\ \A y \in R : f[y] = g[y]
  BY DEF Where
<1>2. /\ IsFiniteSet(R)
      /\ SumOf(f, R) \in Nat
      /\ SumOf(f, Where(S, p, W)) = SumOf(f, R) + (IF p[x] \in W THEN f[x] ELSE 0)
  BY SumWhere
<1>3. /\ SumOf(g, R) \in Nat
      /\ SumOf(g, Where(S, q, W)) = SumOf(g, R) + (IF q[x] \in W THEN g[x] ELSE 0)
  BY <1>1, SumWhere
<1>4. SumOf(f, R) = SumOf(g, R)
  BY <1>1, <1>2, SumCong
<1>5. f[x] \in Nat /\ g[x] \in Nat
  OBVIOUS
<1> HIDE DEF R
<1>. QED
  BY <1>2, <1>3, <1>4, <1>5

(* A sum of summands that are at most m. *)
LEMMA SumBound ==
    ASSUME NEW f, NEW S, IsFiniteSet(S), NEW m \in Nat,
           \A x \in S : f[x] \in Nat /\ f[x] <= m
    PROVE  SumOf(f, S) <= Cardinality(S) * m
<1> DEFINE C == {T \in SUBSET S : ~(SumOf(f, T) <= Cardinality(T) * m)}
<1> SUFFICES ASSUME C # {} PROVE FALSE
  OBVIOUS
<1>0. C \in SUBSET (SUBSET S)
  OBVIOUS
<1>1. PICK T \in C : \A U \in C : U \subseteq T => U = T
  <2> HIDE DEF C
  <2>. QED
    BY <1>0, FiniteMinimal
<1>2. IsFiniteSet(T)
  BY FS_Subset
<1>3. T # {}
  <2>1. 0 <= 0 * m
    OBVIOUS
  <2>. QED
    BY <2>1, SumEmpty, FS_EmptySet
<1>4. PICK c \in T : SumOf(f, T) = f[c] + SumOf(f, T \ {c})
  BY <1>2, <1>3, SumChosen
<1>5. SumOf(f, T \ {c}) <= Cardinality(T \ {c}) * m
  BY <1>1
<1>6. /\ IsFiniteSet(T \ {c})
      /\ Cardinality(T \ {c}) = Cardinality(T) - 1
      /\ Cardinality(T) \in Nat
      /\ Cardinality(T \ {c}) \in Nat
  BY <1>2, FS_RemoveElement, FS_CardinalityType
<1>7. SumOf(f, T \ {c}) \in Nat
  BY <1>6, SumNat
<1>8. f[c] \in Nat /\ f[c] <= m /\ ~(SumOf(f, T) <= Cardinality(T) * m)
  OBVIOUS
<1>9. \A k \in Nat : (k + 1) * m = k * m + m
  OBVIOUS
<1>10. Cardinality(T) * m = Cardinality(T \ {c}) * m + m
  BY <1>6, <1>9
<1>11. Cardinality(T \ {c}) * m \in Nat
  BY <1>6
<1>. QED
  BY <1>4, <1>5, <1>7, <1>8, <1>10, <1>11

=============================================================================
