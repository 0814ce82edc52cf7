--------------------------- MODULE Machine_proofs ---------------------------
(***************************************************************************)
(* Proofs about the parts of the virtual machine that share no state with  *)
(* each other, each for every value of its constants.                      *)
(*                                                                         *)
(* Memory (VMMemory): no store leaves its block, for every plane; and in a *)
(* plane that is Roomy, where blocks are apart, the cache answers what     *)
(* memory holds and proofs are about the bytes that are there. The         *)
(* machine's own plane of 65535 bytes is not Roomy.                        *)
(*                                                                         *)
(* Prefetch: what a prefetch collects, and that the addresses that never   *)
(* reach the queue are those of the batches that goroutines leave behind   *)
(* when they end, for every number of goroutines.                          *)
(*                                                                         *)
(* Gas (GasAccountant): it grants no more gas than it was given and loses  *)
(* none, for any number of goroutines and any interleaving of Consume and  *)
(* Refund.                                                                 *)
(***************************************************************************)
EXTENDS VMMemory, Prefetch, GasAccountant, Bitmap_proofs, SequenceTheorems

-----------------------------------------------------------------------------
(* The memory of the machine. *)

(* The blocks lie in the plane and apart from each other. *)
BlocksOK(al) ==
    /\ DOMAIN al \subseteq Addr
    /\ \A a \in DOMAIN al : al[a] \in Nat \ {0} /\ a + al[a] <= PlaneSize
    /\ \A a, b \in DOMAIN al : a # b => a + al[a] <= b \/ b + al[b] <= a

(* The first n bytes from a of the plane pl; Bytes is this of plane. *)
Read(pl, a, n) == [i \in 1 .. n |-> pl[a + i - 1]]

(* d is what memory holds at the start of the block at a. *)
Holds(d, a, pl, al) == \E n \in 0 .. al[a] : d = Read(pl, a, n)

CacheOK(c, pl, al) ==
    /\ c = [map |-> c.map, order |-> c.order]
    /\ \A a \in DOMAIN c.map : a \in DOMAIN al /\ Holds(c.map[a], a, pl, al)

(* The tree's node of a stored block is about what the block holds. *)
NodesOK(ns, pr, pl, al) ==
    EnableProof => \A a \in pr :
        /\ a \in DOMAIN al
        /\ a \in DOMAIN ns
        /\ \E n \in 0 .. al[a] : ns[a] = Hash(Read(pl, a, n))

(* The bytes of the blocks, which are the ones set in the free map. *)
CoveredBy(al) == UNION {a .. (a + al[a] - 1) : a \in DOMAIN al}

MemInv ==
    /\ plane \in [Addr -> Byte]
    /\ BlocksOK(allocs)
    /\ bits = CoveredBy(allocs)
    /\ reg \in Seq(Byte)
    /\ CacheOK(cache, plane, allocs)
    /\ NodesOK(nodes, proved, plane, allocs)

-----------------------------------------------------------------------------
(* Reads and writes. *)

(* pl2 is pl but for the first n bytes from a. *)
SameBut(pl, pl2, a, n) == \A z \in Addr : z \notin a .. (a + n - 1) => pl2[z] = pl[z]

LEMMA ReadSeq ==
    ASSUME NEW pl \in [Addr -> Byte], NEW a \in Addr, NEW n \in Nat, a + n <= PlaneSize
    PROVE  Read(pl, a, n) \in Seq(Byte) /\ Len(Read(pl, a, n)) = n
<1>1. a \in Nat /\ PlaneSize \in Nat
  BY VMMemoryAssumption DEF Addr
<1>2. ASSUME NEW i \in 1 .. n
      PROVE  pl[a + i - 1] \in Byte
  <2>1. a + i - 1 \in Addr
    BY <1>1 DEF Addr
  <2>. QED
    BY <2>1
<1>. QED
  BY <1>2 DEF Read

LEMMA WrittenIs ==
    ASSUME plane \in [Addr -> Byte], NEW a \in Addr, NEW data \in Seq(Byte),
           a + Len(data) <= PlaneSize
    PROVE  /\ Written(a, data) \in [Addr -> Byte]
           /\ Read(Written(a, data), a, Len(data)) = data
           /\ SameBut(plane, Written(a, data), a, Len(data))
<1>1. a \in Nat /\ Len(data) \in Nat /\ PlaneSize \in Nat
  BY VMMemoryAssumption DEF Addr
<1>2. ASSUME NEW i \in 1 .. Len(data)
      PROVE  Written(a, data)[a + i - 1] = data[i]
  <2>1. /\ a + i - 1 \in Addr /\ a + i - 1 \in a .. (a + Len(data) - 1)
        /\ (a + i - 1) - a + 1 = i
    BY <1>1 DEF Addr
  <2>. QED
    BY <2>1 DEF Written
<1>3. ASSUME NEW z \in Addr
      PROVE  Written(a, data)[z] \in Byte
  <2>1. CASE z \in a .. (a + Len(data) - 1)
    <3>1. z - a + 1 \in 1 .. Len(data)
      BY <1>1, <2>1 DEF Addr
    <3>2. data[z - a + 1] \in Byte
      BY <3>1
    <3>. QED
      BY <2>1, <3>2 DEF Written
  <2>2. CASE z \notin a .. (a + Len(data) - 1)
    BY <2>2 DEF Written
  <2>. QED
    BY <2>1, <2>2
<1>4. Written(a, data) \in [Addr -> Byte]
  BY <1>3 DEF Written
<1>5. SameBut(plane, Written(a, data), a, Len(data))
  BY DEF SameBut, Written
<1>6. data = [i \in 1 .. Len(data) |-> data[i]]
  OBVIOUS
<1>7. Read(Written(a, data), a, Len(data)) = [i \in 1 .. Len(data) |-> data[i]]
  BY <1>2 DEF Read
<1>. QED
  BY <1>4, <1>5, <1>6, <1>7

(* A write inside one block leaves what the others hold. *)
LEMMA ReadKept ==
    ASSUME NEW al, BlocksOK(al), NEW pl, NEW pl2, NEW a \in DOMAIN al, NEW b \in DOMAIN al,
           a # b, NEW n \in Nat, n <= al[a], SameBut(pl, pl2, a, n),
           NEW m \in 0 .. al[b]
    PROVE  Read(pl2, b, m) = Read(pl, b, m)
<1>1. /\ a \in Nat /\ b \in Nat /\ al[a] \in Nat /\ al[b] \in Nat
      /\ a + al[a] <= PlaneSize /\ b + al[b] <= PlaneSize
      /\ a + al[a] <= b \/ b + al[b] <= a
      /\ PlaneSize \in Nat
  BY VMMemoryAssumption DEF BlocksOK, Addr
<1>3. ASSUME NEW i \in 1 .. m
      PROVE  pl[b + i - 1] = pl2[b + i - 1]
  <2>1. b + i - 1 \in Addr /\ b + i - 1 \notin a .. (a + n - 1)
    BY <1>1 DEF Addr
  <2>. QED
    BY <2>1 DEF SameBut
<1>. QED
  BY <1>3 DEF Read

-----------------------------------------------------------------------------
(* The checks of a load and a store, and the blocks. *)

(* The size that is compared is cut to a uint16; a size that passes both   *)
(* checks is not changed by that.                                          *)
LEMMA AccessibleIs ==
    ASSUME DOMAIN allocs \subseteq Addr, NEW a, NEW size \in Nat, Accessible(a, size)
    PROVE  /\ a \in DOMAIN allocs /\ a \in Addr
           /\ size <= allocs[a] /\ a + size <= PlaneSize
<1>1. a \in DOMAIN allocs /\ a \in Addr
  BY DEF Accessible
<1>2. a \in Nat /\ PlaneSize \in Nat /\ U16 \in Nat /\ PlaneSize < U16
  BY <1>1, VMMemoryAssumption, BitmapAssumption DEF Addr
<1>3. size < U16 /\ a + size <= PlaneSize
  BY <1>2 DEF Accessible
<1>4. size % U16 = size
  BY <1>2, <1>3
<1>. QED
  BY <1>1, <1>3, <1>4 DEF Accessible

(* In a Roomy plane the free map answers with a run that no block touches. *)
LEMMA PlacedIs ==
    ASSUME Roomy, BlocksOK(allocs), bits = CoveredBy(allocs), NEW size \in Nat \ {0},
           NEW z, z = Placed(size), z \in Addr
    PROVE  /\ z + size <= PlaneSize /\ size <= PlaneSize
           /\ \A a \in DOMAIN allocs : z + size <= a \/ a + allocs[a] <= z
<1>1. PlaneSize \in Nat /\ z \in Nat /\ NoSpace \notin Addr /\ 2 * PlaneSize <= U16
  BY VMMemoryAssumption DEF Addr, NoSpace, Roomy
<1>2. z = FindContiguous(bits, PlaneSize, size)
  BY <1>1 DEF Placed
<1>3. size \in 1 .. PlaneSize
  BY <1>1, <1>2 DEF FindContiguous
<1>4. bits \in SUBSET (0 .. (PlaneSize - 1))
  <2>1. ASSUME NEW a \in DOMAIN allocs PROVE a .. (a + allocs[a] - 1) \subseteq 0 .. (PlaneSize - 1)
    BY <1>1 DEF BlocksOK, Addr
  <2>. QED
    BY <2>1 DEF CoveredBy
<1>. DEFINE F == FreeStarts(bits, PlaneSize, size)
<1>5. z = IF F = {} THEN NoSpace ELSE Min(F)
  BY <1>1, <1>2, <1>3, <1>4, FirstFit
<1>6. F # {} /\ z = Min(F)
  BY <1>1, <1>5
<1>7. F \in SUBSET Nat
  BY <1>1, <1>3 DEF FreeStarts
<1>8. z \in F
  BY <1>6, <1>7, MinOfNat
<1>9. z \in 0 .. (PlaneSize - size) /\ (z .. (z + size - 1)) \cap bits = {}
  BY <1>8 DEF FreeStarts
<1>10. ASSUME NEW a \in DOMAIN allocs PROVE z + size <= a \/ a + allocs[a] <= z
  <2>1. a \in Nat /\ allocs[a] \in Nat \ {0} /\ a .. (a + allocs[a] - 1) \subseteq bits
    BY <1>1 DEF BlocksOK, Addr, CoveredBy
  <2>. SUFFICES ASSUME ~(z + size <= a), ~(a + allocs[a] <= z) PROVE FALSE
    OBVIOUS
  <2>2. CASE a <= z
    <3>1. z \in a .. (a + allocs[a] - 1) /\ z \in z .. (z + size - 1)
      BY <1>1, <1>3, <2>1, <2>2
    <3>. QED
      BY <1>9, <2>1, <3>1
  <2>3. CASE z < a
    <3>1. a \in a .. (a + allocs[a] - 1) /\ a \in z .. (z + size - 1)
      BY <1>1, <1>3, <2>1, <2>3
    <3>. QED
      BY <1>9, <2>1, <3>1
  <2>. QED
    BY <1>1, <2>1, <2>2, <2>3
<1>. QED
  BY <1>1, <1>3, <1>9, <1>10

LEMMA TrackedIs ==
    ASSUME Roomy, BlocksOK(allocs), bits = CoveredBy(allocs), NEW size \in Nat \ {0},
           NEW z, z = Placed(size), z \in Addr, Granted(z, size)
    PROVE  /\ DOMAIN allocs' = DOMAIN allocs \cup {z} /\ allocs'[z] = size
           /\ \A a \in DOMAIN allocs : allocs'[a] = allocs[a]
           /\ BlocksOK(allocs') /\ bits' = CoveredBy(allocs')
           /\ z + size <= PlaneSize
<1>1. /\ z + size <= PlaneSize /\ size <= PlaneSize
      /\ \A a \in DOMAIN allocs : z + size <= a \/ a + allocs[a] <= z
  BY PlacedIs
<1>2. z \in Nat /\ PlaneSize \in Nat /\ PlaneSize < U16 /\ U16 \in Nat
  BY VMMemoryAssumption, BitmapAssumption DEF Addr
<1>3. z \notin DOMAIN allocs
  <2>1. SUFFICES ASSUME z \in DOMAIN allocs
                 PROVE  FALSE
    OBVIOUS
  <2>2. allocs[z] \in Nat \ {0}
    BY <2>1 DEF BlocksOK
  <2>. QED
    BY <1>1, <1>2, <2>1, <2>2
<1>. DEFINE t == Tracked(z, size)
<1>4. /\ DOMAIN t = DOMAIN allocs \cup {z}
      /\ t[z] = size
      /\ \A a \in DOMAIN allocs : t[a] = allocs[a]
  BY <1>3 DEF Tracked, Assigned
<1>5. allocs' = t /\ bits' = SetRange(bits, PlaneSize, z, AddU16(z, size))
  BY DEF Granted
<1>. HIDE DEF t
<1>6. BlocksOK(t)
  <2>1. DOMAIN t \subseteq Addr
    BY <1>4 DEF BlocksOK
  <2>2. \A a \in DOMAIN t : t[a] \in Nat \ {0} /\ a + t[a] <= PlaneSize
    BY <1>1, <1>4 DEF BlocksOK
  <2>3. ASSUME NEW a \in DOMAIN t, NEW b \in DOMAIN t, a # b
        PROVE  a + t[a] <= b \/ b + t[b] <= a
    BY <1>1, <1>4, <2>3 DEF BlocksOK
  <2>. QED
    BY <2>1, <2>2, <2>3 DEF BlocksOK
<1>7. CoveredBy(t) = CoveredBy(allocs) \cup (z .. (z + size - 1))
  BY <1>4 DEF CoveredBy
<1>8. bits' = bits \cup (z .. (z + size - 1))
  <2>1. AddU16(z, size) = z + size
    BY <1>1, <1>2 DEF AddU16
  <2>2. {i \in 0 .. (PlaneSize - 1) : z <= i /\ i < z + size} = z .. (z + size - 1)
    BY <1>1, <1>2
  <2>. QED
    BY <1>5, <2>1, <2>2 DEF SetRange
<1>. QED
  BY <1>1, <1>4, <1>5, <1>6, <1>7, <1>8

LEMMA UntrackedIs ==
    ASSUME BlocksOK(allocs), bits = CoveredBy(allocs), NEW a \in DOMAIN allocs
    PROVE  /\ DOMAIN Untracked(a) = DOMAIN allocs \ {a}
           /\ \A b \in DOMAIN allocs \ {a} : Untracked(a)[b] = allocs[b]
           /\ BlocksOK(Untracked(a))
           /\ ClearRange(bits, PlaneSize, a, AddU16(a, allocs[a])) = CoveredBy(Untracked(a))
<1>. DEFINE t == Untracked(a)
<1>1. /\ DOMAIN t = DOMAIN allocs \ {a}
      /\ \A b \in DOMAIN allocs \ {a} : t[b] = allocs[b]
  BY DEF Untracked, Restrict
<1>. HIDE DEF t
<1>2. BlocksOK(t)
  BY <1>1 DEF BlocksOK
<1>3. /\ a \in Nat /\ allocs[a] \in Nat \ {0} /\ a + allocs[a] <= PlaneSize
      /\ PlaneSize \in Nat /\ PlaneSize < U16 /\ U16 \in Nat
  BY VMMemoryAssumption, BitmapAssumption DEF BlocksOK, Addr
<1>4. ClearRange(bits, PlaneSize, a, AddU16(a, allocs[a])) = bits \ (a .. (a + allocs[a] - 1))
  <2>1. AddU16(a, allocs[a]) = a + allocs[a]
    BY <1>3 DEF AddU16
  <2>2. {i \in 0 .. (PlaneSize - 1) : a <= i /\ i < a + allocs[a]} = a .. (a + allocs[a] - 1)
    BY <1>3
  <2>. QED
    BY <2>1, <2>2 DEF ClearRange
<1>5. ASSUME NEW b \in DOMAIN allocs, b # a
      PROVE  (b .. (b + allocs[b] - 1)) \cap (a .. (a + allocs[a] - 1)) = {}
  <2>1. /\ b \in Nat /\ allocs[b] \in Nat \ {0}
        /\ a + allocs[a] <= b \/ b + allocs[b] <= a
    BY <1>5, VMMemoryAssumption DEF BlocksOK, Addr
  <2>. QED
    BY <1>3, <2>1
<1>6. bits \ (a .. (a + allocs[a] - 1)) = CoveredBy(t)
  BY <1>1, <1>5 DEF CoveredBy
<1>. QED
  BY <1>1, <1>2, <1>4, <1>6 DEF t

-----------------------------------------------------------------------------
(* The cache's operations on the map. *)

LEMMA TouchIs ==
    ASSUME NEW c, c = [map |-> c.map, order |-> c.order], NEW a
    PROVE  /\ Touch(c, a) = [map |-> Touch(c, a).map, order |-> Touch(c, a).order]
           /\ Touch(c, a).map = c.map
<1>. DEFINE m == c.map
            o == c.order
<1>1. c = [map |-> m, order |-> o]
  OBVIOUS
<1>. HIDE DEF m, o
<1>2. [c EXCEPT !.order = MoveToFront(@, a)] = [map |-> m, order |-> MoveToFront(o, a)]
  BY <1>1
<1>3. Touch(c, a) = [map |-> m, order |-> MoveToFront(o, a)] \/ Touch(c, a) = c
  BY <1>2 DEF Touch
<1>. QED
  BY <1>1, <1>3

LEMMA PutIs ==
    ASSUME NEW c, NEW a, NEW d
    PROVE  /\ Put(c, a, d) = [map |-> Put(c, a, d).map, order |-> Put(c, a, d).order]
           /\ DOMAIN Put(c, a, d).map = DOMAIN c.map \cup {a}
           /\ Put(c, a, d).map[a] = d
           /\ \A b \in DOMAIN c.map \ {a} : Put(c, a, d).map[b] = c.map[b]
<1>1. CASE Hit(c, a)
  <2>1. PICK o : Put(c, a, d) = [map |-> [c.map EXCEPT ![a] = d], order |-> o]
    BY <1>1 DEF Put
  <2>. QED
    BY <1>1, <2>1 DEF Hit
<1>2. CASE ~Hit(c, a)
  <2>1. PICK o : Put(c, a, d) = [map |-> Assigned(c.map, a, d), order |-> o]
    BY <1>2 DEF Put
  <2>. QED
    BY <1>2, <2>1 DEF Hit, Assigned
<1>. QED
  BY <1>1, <1>2

LEMMA InvalidateIs ==
    ASSUME NEW c, c = [map |-> c.map, order |-> c.order], NEW a
    PROVE  /\ Invalidate(c, a) = [map |-> Invalidate(c, a).map,
                                  order |-> Invalidate(c, a).order]
           /\ DOMAIN Invalidate(c, a).map = DOMAIN c.map \ {a}
           /\ \A b \in DOMAIN c.map \ {a} : Invalidate(c, a).map[b] = c.map[b]
<1>1. CASE Hit(c, a)
  <2>1. PICK o : Invalidate(c, a) = [map |-> Restrict(c.map, DOMAIN c.map \ {a}), order |-> o]
    BY <1>1 DEF Invalidate
  <2>. QED
    BY <1>1, <2>1 DEF Hit, Restrict
<1>2. CASE ~Hit(c, a)
  BY <1>2 DEF Hit, Invalidate
<1>. QED
  BY <1>1, <1>2

-----------------------------------------------------------------------------
(* What the cache and the tree say stays true. *)

(* An entry for the n bytes at a, as they are in pl2, put in when nothing  *)
(* but those bytes differs from pl: the entry of a load (pl2 is pl), of a  *)
(* store and of a copy.                                                    *)
LEMMA CachePut ==
    ASSUME NEW al, BlocksOK(al), NEW pl, NEW pl2, NEW c, CacheOK(c, pl, al),
           NEW a \in DOMAIN al, NEW n \in Nat, n <= al[a], SameBut(pl, pl2, a, n)
    PROVE  CacheOK(Put(c, a, Read(pl2, a, n)), pl2, al)
<1>. DEFINE p == Put(c, a, Read(pl2, a, n))
<1>1. /\ p = [map |-> p.map, order |-> p.order]
      /\ DOMAIN p.map = DOMAIN c.map \cup {a}
      /\ p.map[a] = Read(pl2, a, n)
      /\ \A b \in DOMAIN c.map \ {a} : p.map[b] = c.map[b]
  BY PutIs
<1>2. Holds(p.map[a], a, pl2, al)
  <2>1. al[a] \in Nat
    BY DEF BlocksOK
  <2>2. n \in 0 .. al[a]
    BY <2>1
  <2>. QED
    BY <1>1, <2>2 DEF Holds
<1>3. ASSUME NEW b \in DOMAIN c.map \ {a}
      PROVE  b \in DOMAIN al /\ Holds(p.map[b], b, pl2, al)
  <2>1. b \in DOMAIN al /\ Holds(c.map[b], b, pl, al)
    BY DEF CacheOK
  <2>2. PICK m \in 0 .. al[b] : c.map[b] = Read(pl, b, m)
    BY <2>1 DEF Holds
  <2>3. Read(pl2, b, m) = Read(pl, b, m)
    BY <2>1, ReadKept
  <2>. QED
    BY <1>1, <2>1, <2>2, <2>3 DEF Holds
<1>. HIDE DEF p
<1>4. CacheOK(p, pl2, al)
  BY <1>1, <1>2, <1>3 DEF CacheOK
<1>. QED
  BY <1>4 DEF p

LEMMA SameButSelf ==
    ASSUME NEW pl, NEW a, NEW n
    PROVE  SameBut(pl, pl, a, n)
BY DEF SameBut

(* Every block of al is a block of al2. *)
Kept(al, al2) == \A a \in DOMAIN al : a \in DOMAIN al2 /\ al2[a] = al[a]

LEMMA CacheGrow ==
    ASSUME NEW al, NEW al2, Kept(al, al2), NEW pl, NEW c, CacheOK(c, pl, al)
    PROVE  CacheOK(c, pl, al2)
BY DEF CacheOK, Kept, Holds

LEMMA NodesGrow ==
    ASSUME NEW al, NEW al2, Kept(al, al2), NEW pl, NEW ns, NEW pr, NodesOK(ns, pr, pl, al)
    PROVE  NodesOK(ns, pr, pl, al2)
BY DEF NodesOK, Kept

(* A write to a block leaves the other nodes true. *)
LEMMA NodesOther ==
    ASSUME NEW al, BlocksOK(al), NEW pl, NEW pl2, NEW ns, NEW pr, NodesOK(ns, pr, pl, al),
           NEW a \in DOMAIN al, NEW n \in Nat, n <= al[a], SameBut(pl, pl2, a, n)
    PROVE  NodesOK(ns, pr \ {a}, pl2, al)
<1>1. SUFFICES ASSUME EnableProof, NEW b \in pr \ {a}
               PROVE  /\ b \in DOMAIN al /\ b \in DOMAIN ns
                      /\ \E m \in 0 .. al[b] : ns[b] = Hash(Read(pl2, b, m))
  BY DEF NodesOK
<1>2. b \in DOMAIN al /\ b \in DOMAIN ns
  BY <1>1 DEF NodesOK
<1>3. PICK m \in 0 .. al[b] : ns[b] = Hash(Read(pl, b, m))
  BY <1>1 DEF NodesOK
<1>4. Read(pl2, b, m) = Read(pl, b, m)
  BY <1>2, ReadKept
<1>. QED
  BY <1>2, <1>3, <1>4

(* The node of a store is about what is stored. *)
LEMMA NodesStore ==
    ASSUME NEW al, BlocksOK(al), NEW pl, NEW pl2, NEW ns, NEW pr, NodesOK(ns, pr, pl, al),
           NEW a \in DOMAIN al, NEW n \in Nat, n <= al[a], SameBut(pl, pl2, a, n),
           NEW ns2, ns2 = IF EnableProof THEN Update(ns, a, Read(pl2, a, n)) ELSE ns
    PROVE  NodesOK(ns2, pr \cup {a}, pl2, al)
<1>1. SUFFICES ASSUME EnableProof, NEW b \in pr \cup {a}
               PROVE  /\ b \in DOMAIN al /\ b \in DOMAIN ns2
                      /\ \E m \in 0 .. al[b] : ns2[b] = Hash(Read(pl2, b, m))
  BY DEF NodesOK
<1>2. /\ DOMAIN ns2 = DOMAIN ns \cup {a}
      /\ ns2[a] = Hash(Read(pl2, a, n))
      /\ \A x \in DOMAIN ns \ {a} : ns2[x] = ns[x]
  BY <1>1 DEF Update, Assigned
<1>3. CASE b = a
  <2>1. al[a] \in Nat
    BY DEF BlocksOK
  <2>2. n \in 0 .. al[a]
    BY <2>1
  <2>. QED
    BY <1>2, <1>3, <2>2
<1>4. CASE b # a
  <2>1. NodesOK(ns, pr \ {a}, pl2, al)
    BY NodesOther
  <2>2. b \in pr \ {a}
    BY <1>4
  <2>3. /\ b \in DOMAIN al /\ b \in DOMAIN ns
        /\ \E m \in 0 .. al[b] : ns[b] = Hash(Read(pl2, b, m))
    BY <1>1, <2>1, <2>2 DEF NodesOK
  <2>. QED
    BY <1>2, <1>4, <2>3
<1>. QED
  BY <1>3, <1>4

LEMMA DataIs ==
    ASSUME NEW data \in Given
    PROVE  data \in Seq(Byte)
<1>1. PICK m \in 0 .. MaxData : data \in [1 .. m -> Byte]
  BY DEF Given, BoundedSeq, SeqOf
<1>2. m \in Nat
  BY VMMemoryAssumption
<1>. QED
  BY <1>1, <1>2

-----------------------------------------------------------------------------
(* Every step in a Roomy plane keeps the invariant. *)

LEMMA InitMem == Init => MemInv
<1>. SUFFICES ASSUME Init
              PROVE  MemInv
  OBVIOUS
<1>1. plane \in [Addr -> Byte]
  BY VMMemoryAssumption DEF Init
<1>2. BlocksOK(allocs) /\ bits = CoveredBy(allocs)
  BY DEF Init, BlocksOK, CoveredBy
<1>3. reg \in Seq(Byte)
  BY DEF Init
<1>4. CacheOK(cache, plane, allocs)
  BY DEF Init, CacheOK, NewSpatialCache
<1>5. NodesOK(nodes, proved, plane, allocs)
  BY DEF Init, NodesOK
<1>. QED
  BY <1>1, <1>2, <1>3, <1>4, <1>5 DEF MemInv

(* A load: the cached prefix or the bytes read, and the entry it leaves. *)
LEMMA LoadKeeps ==
    ASSUME MemInv, NEW a \in Addr, NEW size \in LoadSizes, MLoad3D(a, size)
    PROVE  MemInv'
<1>1. /\ plane \in [Addr -> Byte] /\ BlocksOK(allocs) /\ reg \in Seq(Byte)
      /\ CacheOK(cache, plane, allocs) /\ NodesOK(nodes, proved, plane, allocs)
      /\ plane' = plane /\ allocs' = allocs /\ nodes' = nodes /\ proved' = proved
      /\ size \in Nat /\ bits = CoveredBy(allocs) /\ bits' = bits
  BY VMMemoryAssumption DEF MemInv, MLoad3D
<1>2. /\ Touch(cache, a) = [map |-> Touch(cache, a).map, order |-> Touch(cache, a).order]
      /\ Touch(cache, a).map = cache.map
  BY <1>1, TouchIs DEF CacheOK
<1>3. CacheOK(Touch(cache, a), plane, allocs)
  BY <1>1, <1>2 DEF CacheOK
<1>4. reg' \in Seq(Byte) /\ CacheOK(cache', plane, allocs)
  <2>1. CASE /\ Hit(cache, a) /\ Len(cache.map[a]) >= size
             /\ reg' = SubSeq(cache.map[a], 1, size)
             /\ cache' = Touch(cache, a)
    <3>1. a \in DOMAIN allocs /\ Holds(cache.map[a], a, plane, allocs)
      BY <1>1, <2>1 DEF CacheOK, Hit
    <3>2. allocs[a] \in Nat /\ a + allocs[a] <= PlaneSize /\ PlaneSize \in Nat /\ a \in Nat
      BY <1>1, <3>1, VMMemoryAssumption DEF BlocksOK, Addr
    <3>3. PICK m \in 0 .. allocs[a] : cache.map[a] = Read(plane, a, m)
      BY <3>1 DEF Holds
    <3>4. m \in Nat /\ a + m <= PlaneSize
      BY <3>2
    <3>5. cache.map[a] \in Seq(Byte)
      BY <1>1, <3>3, <3>4, ReadSeq
    <3>6. SubSeq(cache.map[a], 1, size) \in Seq(Byte)
      BY <1>1, <2>1, <3>5, SubSeqProperties
    <3>. QED
      BY <1>3, <2>1, <3>6
  <2>2. CASE /\ Accessible(a, size)
             /\ reg' = Bytes(a, size)
             /\ cache' = Put(Touch(cache, a), a, Bytes(a, size))
    <3>1. a \in DOMAIN allocs /\ size <= allocs[a] /\ a + size <= PlaneSize
      BY <1>1, <2>2, AccessibleIs DEF BlocksOK
    <3>2. Bytes(a, size) = Read(plane, a, size)
      BY DEF Bytes, Read
    <3>3. reg' \in Seq(Byte)
      BY <1>1, <2>2, <3>1, <3>2, ReadSeq
    <3>4. CacheOK(Put(Touch(cache, a), a, Read(plane, a, size)), plane, allocs)
      BY <1>1, <1>3, <3>1, SameButSelf, CachePut
    <3>. QED
      BY <2>2, <3>2, <3>3, <3>4
  <2>3. CASE cache' = Touch(cache, a) /\ UNCHANGED reg
    BY <1>1, <1>3, <2>3
  <2>. QED
    BY <2>1, <2>2, <2>3 DEF MLoad3D
<1>. QED
  BY <1>1, <1>4 DEF MemInv

(* What a store of data at a does, of MSTORE3D and of VM3D.Store3D, in the *)
(* blocks al2 that include a.                                              *)
LEMMA StoreKeeps ==
    ASSUME MemInv, NEW a \in Addr, NEW data \in Seq(Byte), BlocksOK(allocs'),
           bits' = CoveredBy(allocs'),
           Kept(allocs, allocs'), a \in DOMAIN allocs', Len(data) <= allocs'[a],
           Stored(a, data), reg' = reg
    PROVE  MemInv'
<1>1. /\ plane \in [Addr -> Byte] /\ reg \in Seq(Byte)
      /\ CacheOK(cache, plane, allocs) /\ NodesOK(nodes, proved, plane, allocs)
      /\ plane' = Written(a, data) /\ cache' = Put(cache, a, data)
      /\ nodes' = NodesAfter(a, data) /\ proved' = proved \cup {a}
  BY DEF MemInv, Stored
<1>2. a + Len(data) <= PlaneSize /\ Len(data) \in Nat
  <2>1. /\ a \in Nat /\ allocs'[a] \in Nat /\ a + allocs'[a] <= PlaneSize
        /\ PlaneSize \in Nat /\ Len(data) \in Nat
    BY VMMemoryAssumption DEF BlocksOK, Addr
  <2>. QED
    BY <2>1
<1>3. /\ plane' \in [Addr -> Byte]
      /\ Read(plane', a, Len(data)) = data
      /\ SameBut(plane, plane', a, Len(data))
  BY <1>1, <1>2, WrittenIs
<1>4. CacheOK(cache, plane, allocs') /\ NodesOK(nodes, proved, plane, allocs')
  BY <1>1, CacheGrow, NodesGrow
<1>5. CacheOK(Put(cache, a, Read(plane', a, Len(data))), plane', allocs')
  BY <1>2, <1>3, <1>4, CachePut
<1>6. nodes' = IF EnableProof THEN Update(nodes, a, Read(plane', a, Len(data))) ELSE nodes
  BY <1>1, <1>3 DEF NodesAfter
<1>7. NodesOK(nodes', proved \cup {a}, plane', allocs')
  BY <1>2, <1>3, <1>4, <1>6, NodesStore
<1>. QED
  BY <1>1, <1>3, <1>5, <1>7 DEF MemInv

LEMMA MStoreKeeps ==
    ASSUME MemInv, NEW a \in Addr, NEW size \in LoadSizes, MStore3D(a, size)
    PROVE  MemInv'
<1>. DEFINE data == SubSeq(reg, 1, size)
<1>1. /\ BlocksOK(allocs) /\ reg \in Seq(Byte) /\ size \in Nat /\ Len(reg) >= size
      /\ Accessible(a, size) /\ Stored(a, data)
      /\ allocs' = allocs /\ reg' = reg /\ bits' = bits /\ bits = CoveredBy(allocs)
  BY VMMemoryAssumption DEF MemInv, MStore3D
<1>2. a \in DOMAIN allocs /\ size <= allocs[a]
  BY <1>1, AccessibleIs DEF BlocksOK
<1>3. data \in Seq(Byte) /\ Len(data) = size
  <2>1. CASE size = 0
    BY <1>1, <2>1, SubSeqProperties
  <2>2. CASE size # 0
    BY <1>1, <2>2, SubSeqProperties
  <2>. QED
    BY <2>1, <2>2
<1>. HIDE DEF data
<1>4. Kept(allocs, allocs') /\ BlocksOK(allocs') /\ bits' = CoveredBy(allocs')
  BY <1>1 DEF Kept
<1>5. a \in DOMAIN allocs' /\ Len(data) <= allocs'[a]
  BY <1>1, <1>2, <1>3
<1>. QED
  BY <1>1, <1>3, <1>4, <1>5, StoreKeeps

(* The method: into the block at a, or into a new one, where in a Roomy    *)
(* plane there is always room for the data.                                *)
LEMMA VMStoreKeeps ==
    ASSUME Roomy, MemInv, NEW a \in Addr, NEW data \in Given \ {<< >>}, Store3D(a, data)
    PROVE  MemInv'
<1>. DEFINE z == Placed(Len(data))
<1>1. /\ BlocksOK(allocs) /\ bits = CoveredBy(allocs)
      /\ data \in Seq(Byte) /\ Len(data) \in Nat \ {0} /\ reg' = reg
  BY DataIs, EmptySeq DEF MemInv, Store3D
<1>2. CASE Accessible(a, Len(data)) /\ Stored(a, data) /\ UNCHANGED <<bits, allocs>>
  <2>1. a \in DOMAIN allocs /\ Len(data) <= allocs[a]
    BY <1>1, <1>2, AccessibleIs DEF BlocksOK
  <2>2. /\ Kept(allocs, allocs') /\ BlocksOK(allocs') /\ a \in DOMAIN allocs'
        /\ Len(data) <= allocs'[a] /\ bits' = CoveredBy(allocs')
    BY <1>1, <1>2, <2>1 DEF Kept
  <2>. QED
    BY <1>1, <1>2, <2>2, StoreKeeps
<1>3. CASE /\ z \in Addr /\ Granted(z, Len(data))
           /\ IF z + Len(data) <= PlaneSize THEN Stored(z, data)
              ELSE UNCHANGED <<plane, cache, nodes, proved>>
  <2>. HIDE DEF z
  <2>1. /\ DOMAIN allocs' = DOMAIN allocs \cup {z} /\ allocs'[z] = Len(data)
        /\ \A b \in DOMAIN allocs : allocs'[b] = allocs[b]
        /\ BlocksOK(allocs') /\ bits' = CoveredBy(allocs')
        /\ z + Len(data) <= PlaneSize
    BY <1>1, <1>3, TrackedIs DEF z
  <2>2. Stored(z, data)
    BY <1>3, <2>1
  <2>3. Kept(allocs, allocs') /\ z \in DOMAIN allocs' /\ Len(data) <= allocs'[z]
    BY <1>1, <2>1 DEF Kept
  <2>. QED
    BY <1>1, <1>3, <2>1, <2>2, <2>3, StoreKeeps
<1>. QED
  BY <1>2, <1>3 DEF Store3D

LEMMA AllocKeeps ==
    ASSUME Roomy, MemInv, NEW size \in 1 .. PlaneSize, MAlloc3D(size)
    PROVE  MemInv'
<1>. DEFINE z == Placed(size)
<1>1. /\ BlocksOK(allocs) /\ bits = CoveredBy(allocs) /\ size \in Nat \ {0}
      /\ z \in Addr /\ Granted(z, size)
      /\ UNCHANGED <<plane, cache, nodes, reg, proved>>
  BY VMMemoryAssumption DEF MemInv, MAlloc3D
<1>. HIDE DEF z
<1>2. /\ DOMAIN allocs' = DOMAIN allocs \cup {z} /\ allocs'[z] = size
      /\ \A b \in DOMAIN allocs : allocs'[b] = allocs[b]
      /\ BlocksOK(allocs') /\ bits' = CoveredBy(allocs')
  BY <1>1, TrackedIs DEF z
<1>3. Kept(allocs, allocs')
  BY <1>2 DEF Kept
<1>4. CacheOK(cache, plane, allocs') /\ NodesOK(nodes, proved, plane, allocs')
  BY <1>3, CacheGrow, NodesGrow DEF MemInv
<1>. QED
  BY <1>1, <1>2, <1>4 DEF MemInv

LEMMA FreeKeeps ==
    ASSUME MemInv, NEW a \in Addr, MFree3D(a)
    PROVE  MemInv'
<1>1. /\ BlocksOK(allocs) /\ CacheOK(cache, plane, allocs)
      /\ NodesOK(nodes, proved, plane, allocs)
      /\ bits = CoveredBy(allocs) /\ a \in DOMAIN allocs
      /\ bits' = ClearRange(bits, PlaneSize, a, AddU16(a, allocs[a]))
      /\ allocs' = Untracked(a) /\ cache' = Invalidate(cache, a)
      /\ proved' = proved \ {a} /\ plane' = plane /\ nodes' = nodes /\ reg' = reg
  BY DEF MemInv, MFree3D
<1>2. /\ DOMAIN allocs' = DOMAIN allocs \ {a}
      /\ \A b \in DOMAIN allocs \ {a} : allocs'[b] = allocs[b]
      /\ BlocksOK(allocs') /\ bits' = CoveredBy(allocs')
  BY <1>1, UntrackedIs
<1>3. /\ cache' = [map |-> cache'.map, order |-> cache'.order]
      /\ DOMAIN cache'.map = DOMAIN cache.map \ {a}
      /\ \A b \in DOMAIN cache.map \ {a} : cache'.map[b] = cache.map[b]
  BY <1>1, InvalidateIs DEF CacheOK
<1>4. CacheOK(cache', plane, allocs')
  <2>1. ASSUME NEW b \in DOMAIN cache'.map
        PROVE  b \in DOMAIN allocs' /\ Holds(cache'.map[b], b, plane, allocs')
    <3>1. b \in DOMAIN cache.map /\ b # a
      BY <1>3
    <3>2. b \in DOMAIN allocs /\ Holds(cache.map[b], b, plane, allocs)
      BY <1>1, <3>1 DEF CacheOK
    <3>. QED
      BY <1>2, <1>3, <3>1, <3>2 DEF Holds
  <2>. QED
    BY <1>3, <2>1 DEF CacheOK
<1>5. NodesOK(nodes, proved \ {a}, plane, allocs')
  BY <1>1, <1>2 DEF NodesOK
<1>. QED
  BY <1>1, <1>2, <1>4, <1>5 DEF MemInv

(* A copy fills two entries with the bytes read, before and after the      *)
(* write of the same bytes to dst.                                         *)
LEMMA CopyKeeps ==
    ASSUME MemInv, NEW src \in Addr, NEW dst \in Addr, NEW size \in LoadSizes,
           MCopy3D(src, dst, size)
    PROVE  MemInv'
<1>. DEFINE data == Read(plane, src, size)
<1>0. Bytes(src, size) = data
  BY DEF Bytes, Read
<1>1. /\ plane \in [Addr -> Byte] /\ BlocksOK(allocs) /\ reg \in Seq(Byte)
      /\ CacheOK(cache, plane, allocs) /\ NodesOK(nodes, proved, plane, allocs)
      /\ size \in Nat /\ Accessible(src, size) /\ Accessible(dst, size)
      /\ plane' = Written(dst, data) /\ cache' = Put(Put(cache, src, data), dst, data)
      /\ proved' = proved \ {dst} /\ allocs' = allocs /\ nodes' = nodes /\ reg' = reg
      /\ bits = CoveredBy(allocs) /\ bits' = bits
  BY <1>0, VMMemoryAssumption DEF MemInv, MCopy3D
<1>2. /\ src \in DOMAIN allocs /\ size <= allocs[src] /\ src + size <= PlaneSize
      /\ dst \in DOMAIN allocs /\ size <= allocs[dst] /\ dst + size <= PlaneSize
  BY <1>1, AccessibleIs DEF BlocksOK
<1>3. data \in Seq(Byte) /\ Len(data) = size
  BY <1>1, <1>2, ReadSeq
<1>4. CacheOK(Put(cache, src, data), plane, allocs)
  BY <1>1, <1>2, SameButSelf, CachePut
<1>. HIDE DEF data
<1>5. /\ plane' \in [Addr -> Byte] /\ Read(plane', dst, size) = data
      /\ SameBut(plane, plane', dst, size)
  BY <1>1, <1>2, <1>3, WrittenIs
<1>6. CacheOK(Put(Put(cache, src, data), dst, Read(plane', dst, size)), plane', allocs)
  BY <1>1, <1>2, <1>4, <1>5, CachePut
<1>7. NodesOK(nodes, proved \ {dst}, plane', allocs)
  BY <1>1, <1>2, <1>5, NodesOther
<1>. QED
  BY <1>1, <1>5, <1>6, <1>7 DEF MemInv

LEMMA StepMem == Roomy /\ MemInv /\ [Next]_vars => MemInv'
<1>. SUFFICES ASSUME Roomy, MemInv, [Next]_vars
              PROVE  MemInv'
  OBVIOUS
<1>1. ASSUME NEW data \in Given, SetRegister(data)
      PROVE  MemInv'
  BY <1>1, DataIs DEF SetRegister, MemInv
<1>2. CASE UNCHANGED vars
  BY <1>2 DEF vars, MemInv
<1>. QED
  BY <1>1, <1>2, LoadKeeps, MStoreKeeps, AllocKeeps, FreeKeeps, CopyKeeps, VMStoreKeeps DEF Next

-----------------------------------------------------------------------------
(* The properties. *)

LEMMA MemInvariant ==
    ASSUME Roomy
    PROVE  Spec => []MemInv
<1>1. MemInv /\ [Next]_vars => MemInv'
  BY StepMem
<1>. QED
  BY <1>1, InitMem, PTL DEF Spec

(* In a plane of at most half of the uint16 values, what the cache answers *)
(* is what memory holds, for an allocated block: Put, Get and Invalidate   *)
(* of SpatialCache are called by the memory instructions and by Store3D so *)
(* that no entry is ever stale.                                            *)
THEOREM CacheIsCoherent ==
    ASSUME Roomy
    PROVE  Spec => []CacheCoherent
<1>1. MemInv => CacheCoherent
  <2>1. SUFFICES ASSUME MemInv, NEW a \in DOMAIN cache.map
                 PROVE  /\ a \in DOMAIN allocs
                        /\ cache.map[a] = Bytes(a, Len(cache.map[a]))
    BY DEF CacheCoherent
  <2>2. a \in DOMAIN allocs /\ Holds(cache.map[a], a, plane, allocs)
    BY <2>1 DEF MemInv, CacheOK
  <2>3. PICK m \in 0 .. allocs[a] : cache.map[a] = Read(plane, a, m)
    BY <2>2 DEF Holds
  <2>4. /\ a \in Addr /\ a \in Nat /\ allocs[a] \in Nat /\ a + allocs[a] <= PlaneSize
        /\ PlaneSize \in Nat /\ plane \in [Addr -> Byte]
    BY <2>1, <2>2, VMMemoryAssumption DEF MemInv, BlocksOK, Addr
  <2>5. m \in Nat /\ a + m <= PlaneSize
    BY <2>4
  <2>6. Len(Read(plane, a, m)) = m
    BY <2>4, <2>5, ReadSeq
  <2>. QED
    BY <2>2, <2>3, <2>6 DEF Bytes, Read
<1>. QED
  BY <1>1, MemInvariant, PTL

(* In a plane of at most half of the uint16 values, the proof kept for a   *)
(* stored block verifies for the bytes that are in memory and for nothing  *)
(* else, until the block is freed or copied over.                          *)
THEOREM ProofsAreCurrent ==
    ASSUME Roomy
    PROVE  Spec => []ProofsCurrent
<1>1. MemInv => ProofsCurrent
  <2>1. SUFFICES ASSUME MemInv, EnableProof, NEW a \in proved
                 PROVE  \E n \in 0 .. (PlaneSize - a) : \A data \in Data :
                            (VerifyMemoryState(a, data, GetMerkleProof(nodes, a))
                                <=> data = Bytes(a, n))
    BY DEF ProofsCurrent, ProofFits
  <2>2. a \in DOMAIN allocs /\ a \in DOMAIN nodes
    BY <2>1 DEF MemInv, NodesOK
  <2>3. PICK n \in 0 .. allocs[a] : nodes[a] = Hash(Read(plane, a, n))
    BY <2>1 DEF MemInv, NodesOK
  <2>4. a \in Nat /\ allocs[a] \in Nat /\ a + allocs[a] <= PlaneSize /\ PlaneSize \in Nat
    BY <2>1, <2>2, VMMemoryAssumption DEF MemInv, BlocksOK, Addr
  <2>5. n \in 0 .. (PlaneSize - a)
    BY <2>4
  <2>6. GetMerkleProof(nodes, a) = <<nodes[a]>>
    BY <2>1, <2>2 DEF GetMerkleProof, GenerateProof
  <2>7. Bytes(a, n) = Read(plane, a, n)
    BY DEF Bytes, Read
  <2>8. ASSUME NEW data \in Data
        PROVE  (VerifyMemoryState(a, data, GetMerkleProof(nodes, a)) <=> data = Bytes(a, n))
    <3>1. (VerifyMemoryState(a, data, GetMerkleProof(nodes, a)) <=> nodes[a] = Hash(data))
      BY <2>1, <2>6 DEF VerifyMemoryState, VerifyProof
    <3>2. (Hash(Read(plane, a, n)) = Hash(data) <=> data = Read(plane, a, n))
      BY DEF Hash
    <3>. QED
      BY <2>3, <2>7, <3>1, <3>2
  <2>. QED
    BY <2>5, <2>8
<1>. QED
  BY <1>1, MemInvariant, PTL

-----------------------------------------------------------------------------
(* No store leaves its block, in any plane. Blocks may overlap and may run *)
(* past the end here; what is needed is that data are sequences of bytes.  *)

Sizes16(al) == DOMAIN al \subseteq Addr /\ \A a \in DOMAIN al : al[a] \in Nat \ {0}

Entries(c) ==
    /\ c = [map |-> c.map, order |-> c.order]
    /\ \A a \in DOMAIN c.map : c.map[a] \in Seq(Byte)

DataInv ==
    /\ plane \in [Addr -> Byte]
    /\ Sizes16(allocs)
    /\ reg \in Seq(Byte)
    /\ Entries(cache)

(* The bytes a step changed lie in one allocated block. *)
InOneBlock(pl, pl2, al) ==
    \/ pl2 = pl
    \/ \E a \in DOMAIN al : SameBut(pl, pl2, a, al[a])

LEMMA InBlock ==
    ASSUME NEW al, Sizes16(al), NEW pl, NEW pl2, NEW a \in DOMAIN al, NEW n \in Nat,
           n <= al[a], SameBut(pl, pl2, a, n)
    PROVE  InOneBlock(pl, pl2, al)
<1>1. a \in Nat /\ al[a] \in Nat
  BY VMMemoryAssumption DEF Sizes16, Addr
<1>2. a .. (a + n - 1) \subseteq a .. (a + al[a] - 1)
  BY <1>1
<1>3. SameBut(pl, pl2, a, al[a])
  BY <1>2 DEF SameBut
<1>. QED
  BY <1>3 DEF InOneBlock

LEMMA PutEntries ==
    ASSUME NEW c, Entries(c), NEW a, NEW d \in Seq(Byte)
    PROVE  Entries(Put(c, a, d))
BY PutIs DEF Entries

LEMMA TouchEntries ==
    ASSUME NEW c, Entries(c), NEW a
    PROVE  Entries(Touch(c, a))
BY TouchIs DEF Entries

LEMMA GrantSizes ==
    ASSUME Sizes16(allocs), NEW size \in Nat \ {0}, NEW z \in Addr, Granted(z, size)
    PROVE  Sizes16(allocs') /\ z \in DOMAIN allocs' /\ allocs'[z] = size
BY DEF Sizes16, Granted, Tracked, Assigned

LEMMA StoreInside ==
    ASSUME DataInv, NEW a \in Addr, NEW data \in Seq(Byte), Sizes16(allocs'),
           a \in DOMAIN allocs', Len(data) <= allocs'[a], a + Len(data) <= PlaneSize,
           Stored(a, data), reg' = reg
    PROVE  DataInv' /\ InOneBlock(plane, plane', allocs')
<1>1. /\ plane \in [Addr -> Byte] /\ reg \in Seq(Byte) /\ Entries(cache)
      /\ plane' = Written(a, data) /\ cache' = Put(cache, a, data) /\ Len(data) \in Nat
  BY DEF DataInv, Stored
<1>2. plane' \in [Addr -> Byte] /\ SameBut(plane, plane', a, Len(data))
  BY <1>1, WrittenIs
<1>3. InOneBlock(plane, plane', allocs')
  BY <1>1, <1>2, InBlock
<1>4. Entries(cache')
  BY <1>1, PutEntries
<1>. QED
  BY <1>1, <1>2, <1>3, <1>4 DEF DataInv

LEMMA LoadInside ==
    ASSUME DataInv, NEW a \in Addr, NEW size \in LoadSizes, MLoad3D(a, size)
    PROVE  DataInv' /\ InOneBlock(plane, plane', allocs')
<1>1. /\ plane \in [Addr -> Byte] /\ Sizes16(allocs) /\ reg \in Seq(Byte) /\ Entries(cache)
      /\ plane' = plane /\ allocs' = allocs /\ size \in Nat
  BY VMMemoryAssumption DEF DataInv, MLoad3D
<1>2. Entries(Touch(cache, a))
  BY <1>1, TouchEntries
<1>3. CASE /\ Hit(cache, a) /\ Len(cache.map[a]) >= size
           /\ reg' = SubSeq(cache.map[a], 1, size) /\ cache' = Touch(cache, a)
  <2>1. cache.map[a] \in Seq(Byte)
    BY <1>1, <1>3 DEF Entries, Hit
  <2>2. SubSeq(cache.map[a], 1, size) \in Seq(Byte)
    BY <1>1, <1>3, <2>1, SubSeqProperties
  <2>. QED
    BY <1>1, <1>2, <1>3, <2>2 DEF DataInv, InOneBlock
<1>4. CASE /\ Accessible(a, size) /\ reg' = Bytes(a, size)
           /\ cache' = Put(Touch(cache, a), a, Bytes(a, size))
  <2>1. a + size <= PlaneSize
    BY <1>1, <1>4, AccessibleIs DEF Sizes16
  <2>2. Bytes(a, size) = Read(plane, a, size)
    BY DEF Bytes, Read
  <2>3. Bytes(a, size) \in Seq(Byte)
    BY <1>1, <2>1, <2>2, ReadSeq
  <2>4. Entries(cache')
    BY <1>2, <1>4, <2>3, PutEntries
  <2>. QED
    BY <1>1, <1>4, <2>3, <2>4 DEF DataInv, InOneBlock
<1>5. CASE cache' = Touch(cache, a) /\ UNCHANGED reg
  BY <1>1, <1>2, <1>5 DEF DataInv, InOneBlock
<1>. QED
  BY <1>3, <1>4, <1>5 DEF MLoad3D

LEMMA MStoreInside ==
    ASSUME DataInv, NEW a \in Addr, NEW size \in LoadSizes, MStore3D(a, size)
    PROVE  DataInv' /\ InOneBlock(plane, plane', allocs')
<1>. DEFINE data == SubSeq(reg, 1, size)
<1>1. /\ Sizes16(allocs) /\ reg \in Seq(Byte) /\ size \in Nat /\ Len(reg) >= size
      /\ Accessible(a, size) /\ Stored(a, data) /\ allocs' = allocs /\ reg' = reg
  BY VMMemoryAssumption DEF DataInv, MStore3D
<1>2. a \in DOMAIN allocs /\ size <= allocs[a] /\ a + size <= PlaneSize
  BY <1>1, AccessibleIs DEF Sizes16
<1>3. data \in Seq(Byte) /\ Len(data) = size
  <2>1. CASE size = 0
    BY <1>1, <2>1, SubSeqProperties
  <2>2. CASE size # 0
    BY <1>1, <2>2, SubSeqProperties
  <2>. QED
    BY <2>1, <2>2
<1>. HIDE DEF data
<1>. QED
  BY <1>1, <1>2, <1>3, StoreInside

LEMMA VMStoreInside ==
    ASSUME DataInv, NEW a \in Addr, NEW data \in Given \ {<< >>}, Store3D(a, data)
    PROVE  DataInv' /\ InOneBlock(plane, plane', allocs')
<1>. DEFINE z == Placed(Len(data))
<1>1. Sizes16(allocs) /\ data \in Seq(Byte) /\ Len(data) \in Nat \ {0} /\ reg' = reg
  BY DataIs, EmptySeq DEF DataInv, Store3D
<1>2. CASE Accessible(a, Len(data)) /\ Stored(a, data) /\ UNCHANGED <<bits, allocs>>
  <2>1. a \in DOMAIN allocs /\ Len(data) <= allocs[a] /\ a + Len(data) <= PlaneSize
    BY <1>1, <1>2, AccessibleIs DEF Sizes16
  <2>. QED
    BY <1>1, <1>2, <2>1, StoreInside
<1>3. CASE /\ z \in Addr /\ Granted(z, Len(data))
           /\ IF z + Len(data) <= PlaneSize THEN Stored(z, data)
              ELSE UNCHANGED <<plane, cache, nodes, proved>>
  <2>. HIDE DEF z
  <2>1. Sizes16(allocs') /\ z \in DOMAIN allocs' /\ allocs'[z] = Len(data)
    BY <1>1, <1>3, GrantSizes
  <2>2. CASE z + Len(data) <= PlaneSize
    <3>1. Stored(z, data) /\ Len(data) <= allocs'[z]
      BY <1>1, <1>3, <2>1, <2>2
    <3>. QED
      BY <1>1, <1>3, <2>1, <2>2, <3>1, StoreInside
  <2>3. CASE ~(z + Len(data) <= PlaneSize)
    BY <1>1, <1>3, <2>1, <2>3 DEF DataInv, InOneBlock
  <2>. QED
    BY <2>2, <2>3
<1>. QED
  BY <1>2, <1>3 DEF Store3D

LEMMA CopyInside ==
    ASSUME DataInv, NEW src \in Addr, NEW dst \in Addr, NEW size \in LoadSizes,
           MCopy3D(src, dst, size)
    PROVE  DataInv' /\ InOneBlock(plane, plane', allocs')
<1>. DEFINE data == Bytes(src, size)
<1>1. /\ plane \in [Addr -> Byte] /\ Sizes16(allocs) /\ reg \in Seq(Byte) /\ Entries(cache)
      /\ size \in Nat /\ Accessible(src, size) /\ Accessible(dst, size)
      /\ plane' = Written(dst, data) /\ cache' = Put(Put(cache, src, data), dst, data)
      /\ allocs' = allocs /\ reg' = reg
  BY VMMemoryAssumption DEF DataInv, MCopy3D
<1>2. /\ src + size <= PlaneSize /\ dst \in DOMAIN allocs
      /\ size <= allocs[dst] /\ dst + size <= PlaneSize
  BY <1>1, AccessibleIs DEF Sizes16
<1>3. data = Read(plane, src, size)
  BY DEF Bytes, Read
<1>. HIDE DEF data
<1>4. data \in Seq(Byte) /\ Len(data) = size
  BY <1>1, <1>2, <1>3, ReadSeq
<1>5. plane' \in [Addr -> Byte] /\ SameBut(plane, plane', dst, size)
  BY <1>1, <1>2, <1>4, WrittenIs
<1>6. InOneBlock(plane, plane', allocs')
  BY <1>1, <1>2, <1>5, InBlock
<1>7. Entries(cache')
  BY <1>1, <1>4, PutEntries
<1>. QED
  BY <1>1, <1>5, <1>6, <1>7 DEF DataInv

LEMMA StepInside == DataInv /\ [Next]_vars => DataInv' /\ InOneBlock(plane, plane', allocs')
<1>. SUFFICES ASSUME DataInv, [Next]_vars
              PROVE  DataInv' /\ InOneBlock(plane, plane', allocs')
  OBVIOUS
<1>1. ASSUME NEW data \in Given, SetRegister(data)
      PROVE  DataInv' /\ InOneBlock(plane, plane', allocs')
  BY <1>1, DataIs DEF SetRegister, DataInv, InOneBlock
<1>2. ASSUME NEW size \in 1 .. PlaneSize, MAlloc3D(size)
      PROVE  DataInv' /\ InOneBlock(plane, plane', allocs')
  <2>1. Placed(size) \in Addr /\ Granted(Placed(size), size) /\ size \in Nat \ {0}
    BY <1>2, VMMemoryAssumption DEF MAlloc3D
  <2>2. Sizes16(allocs')
    BY <2>1, GrantSizes DEF DataInv
  <2>. QED
    BY <1>2, <2>2 DEF DataInv, MAlloc3D, InOneBlock
<1>3. ASSUME NEW a \in Addr, MFree3D(a)
      PROVE  DataInv' /\ InOneBlock(plane, plane', allocs')
  <2>1. Sizes16(allocs')
    BY <1>3 DEF MFree3D, DataInv, Sizes16, Untracked, Restrict
  <2>2. Entries(cache')
    BY <1>3, InvalidateIs DEF MFree3D, DataInv, Entries
  <2>. QED
    BY <1>3, <2>1, <2>2 DEF DataInv, MFree3D, InOneBlock
<1>4. CASE UNCHANGED vars
  BY <1>4 DEF vars, DataInv, InOneBlock
<1>. QED
  BY <1>1, <1>2, <1>3, <1>4, LoadInside, MStoreInside, CopyInside, VMStoreInside DEF Next

LEMMA InitData == Init => DataInv
<1>. SUFFICES ASSUME Init PROVE DataInv
  OBVIOUS
<1>1. plane \in [Addr -> Byte]
  BY VMMemoryAssumption DEF Init
<1>. QED
  BY <1>1 DEF Init, DataInv, Sizes16, Entries, NewSpatialCache

(* No store or copy changes a byte outside one allocated block, whatever   *)
(* size an instruction names and wherever the free map places blocks: this *)
(* holds for the machine's own plane of 65535 bytes too.                   *)
THEOREM WritesAreInside == Spec => WritesStayInside
<1>1. InOneBlock(plane, plane', allocs') =>
          (plane' # plane =>
              \E a \in DOMAIN allocs' : \A z \in Addr :
                  plane'[z] # plane[z] => z \in a .. (a + allocs'[a] - 1))
  BY DEF InOneBlock, SameBut
<1>2. DataInv /\ [Next]_vars =>
          [plane' # plane =>
              \E a \in DOMAIN allocs' : \A z \in Addr :
                  plane'[z] # plane[z] => z \in a .. (a + allocs'[a] - 1)]_vars
  BY <1>1, StepInside
<1>3. DataInv /\ [Next]_vars => DataInv'
  BY StepInside
<1>. QED
  BY <1>2, <1>3, InitData, PTL DEF Spec, WritesStayInside

-----------------------------------------------------------------------------
(* The prefetch goroutines. *)

Positions == (0 .. (UX - 1)) \X (0 .. (UY - 1)) \X (0 .. (UZ - 1))

Box(c) ==
    {p \in Positions : /\ minX(c) <= p[1] /\ p[1] <= maxX(c)
                       /\ minY(c) <= p[2] /\ p[2] <= maxY(c)
                       /\ minZ(c) <= p[3] /\ p[3] <= maxZ(c)}

(* The order in which the three loops run through the box. *)
Before(p, q) ==
    \/ p[1] < q[1]
    \/ p[1] = q[1] /\ p[2] < q[2]
    \/ p[1] = q[1] /\ p[2] = q[2] /\ p[3] < q[3]

Walked(c, q) == {p \in Box(c) : Before(p, q)}

(***************************************************************************)
(* The inductive invariant: a goroutine in its loops has collected the     *)
(* part of the box that lies before its position, unless one of the loops  *)
(* never ends, and then it is never done; a batch that has reached its     *)
(* length is only kept, or left behind, because the queue is full.         *)
(***************************************************************************)
Typed ==
    /\ center \in [Goroutines -> Centers]
    /\ stage \in [Goroutines -> {"idle", "loop", "spin", "done"}]
    /\ pos \in [Goroutines -> Positions]
    /\ addrs \in [Goroutines -> 0 .. MaxLen]
    /\ queue \in Seq(Nat)
    /\ visited \in [Goroutines -> SUBSET Positions]
    /\ thrown \in [Goroutines -> 0 .. MaxLen]
    /\ Len(queue) <= QueueCap

Corner(c) == <<minX(c), minY(c), minZ(c)>>

Walk(st, c, p, v) ==
    /\ st = "idle" => p = Corner(c) /\ v = {}
    /\ st = "loop" => InRange(c)
    /\ st = "loop" /\ BelowTop(c) => p \in Box(c) /\ v = Walked(c, p)
    /\ st = "spin" => v = {}
    /\ st = "done" => v = IF InRange(c) THEN Around(c) ELSE {}

Walking == \A g \in Goroutines : Walk(stage[g], center[g], pos[g], visited[g])

LeftAtEnd == \A g \in Goroutines : stage[g] # "done" => thrown[g] = 0

KeptWhenFull ==
    \A g \in Goroutines : addrs[g] >= Batch \/ thrown[g] >= Batch => Len(queue) >= QueueCap

(* What OnlyRemaindersLost says of the queue q, the batches a, the batches *)
(* t that were left behind, and the numbers of addresses n.                *)
Balanced(q, a, t, n) ==
    SumOf(q, DOMAIN q) + SumOf(a, Goroutines) + SumOf(t, Goroutines) = SumOf(n, Goroutines)

NoneCutOff ==
    \A g \in Goroutines : BelowTop(center[g]) /\ addrs[g] < MaxLen /\ thrown[g] < MaxLen

AllCounted == NoneCutOff => Balanced(queue, addrs, thrown, Collected)

PrefetchInv == Typed /\ Walking /\ LeftAtEnd /\ KeptWhenFull /\ AllCounted

-----------------------------------------------------------------------------
(* Arithmetic modulo the width of a coordinate. *)
LEMMA WrapInside ==
    ASSUME NEW m \in Nat \ {0}, NEW a \in 0 .. (m - 1)
    PROVE  a % m = a
OBVIOUS

LEMMA WrapAbove ==
    ASSUME NEW m \in Nat \ {0}, NEW a \in m .. (2 * m - 1)
    PROVE  a % m = a - m
OBVIOUS

LEMMA WrapBelow ==
    ASSUME NEW m \in Nat \ {0}, NEW a \in (-m) .. (-1)
    PROVE  a % m = a + m
OBVIOUS

LEMMA WrapRange ==
    ASSUME NEW m \in Nat \ {0}, NEW a \in Int
    PROVE  a % m \in 0 .. (m - 1)
OBVIOUS

(* One coordinate of the box: it is cut off unless it is in range. *)
LEMMA Side ==
    ASSUME NEW m \in Nat \ {0}, NEW w \in Nat, 2 * w < m, NEW a \in 0 .. (m - 1)
    PROVE  /\ (a - w) % m \in 0 .. (m - 1) /\ (a + w) % m \in 0 .. (m - 1)
           /\ a \in w .. (m - 1 - w) => (a - w) % m = a - w /\ (a + w) % m = a + w
           /\ a \notin w .. (m - 1 - w) => (a - w) % m > (a + w) % m
<1>1. (a - w) % m \in 0 .. (m - 1) /\ (a + w) % m \in 0 .. (m - 1)
  BY WrapRange
<1>2. CASE a \in w .. (m - 1 - w)
  <2>1. a - w \in 0 .. (m - 1) /\ a + w \in 0 .. (m - 1)
    BY <1>2
  <2>2. (a - w) % m = a - w /\ (a + w) % m = a + w
    BY <2>1, WrapInside
  <2>. QED
    BY <1>1, <1>2, <2>2
<1>3. CASE a < w
  <2>1. a - w \in (-m) .. (-1) /\ a + w \in 0 .. (m - 1)
    BY <1>3
  <2>2. (a - w) % m = a - w + m /\ (a + w) % m = a + w
    BY <2>1, WrapInside, WrapBelow
  <2>. QED
    BY <1>1, <1>3, <2>2
<1>4. CASE a > m - 1 - w
  <2>1. a - w \in 0 .. (m - 1) /\ a + w \in m .. (2 * m - 1)
    BY <1>4
  <2>2. (a - w) % m = a - w
    BY <2>1, WrapInside
  <2>3. (a + w) % m = a + w - m
    <3>. DEFINE b == a + w
    <3>1. b \in m .. (2 * m - 1)
      BY <2>1
    <3>. HIDE DEF b
    <3>2. b % m = b - m
      BY <3>1, WrapAbove
    <3>. QED
      BY <3>2 DEF b
  <2>. QED
    BY <1>1, <1>4, <2>2, <2>3
<1>. QED
  BY <1>2, <1>3, <1>4

(* The corners of the box around a missed address. *)
LEMMA Corners ==
    ASSUME NEW c \in Centers
    PROVE  /\ c[1] \in 0 .. (UX - 1) /\ c[2] \in 0 .. (UY - 1) /\ c[3] \in 0 .. (UZ - 1)
           /\ minX(c) \in 0 .. (UX - 1) /\ maxX(c) \in 0 .. (UX - 1)
           /\ minY(c) \in 0 .. (UY - 1) /\ maxY(c) \in 0 .. (UY - 1)
           /\ minZ(c) \in 0 .. (UZ - 1) /\ maxZ(c) \in 0 .. (UZ - 1)
           /\ minZ(c) <= maxZ(c)
           /\ InRange(c) => /\ minX(c) = c[1] - Window /\ maxX(c) = c[1] + Window
                            /\ minY(c) = c[2] - Window /\ maxY(c) = c[2] + Window
           /\ InRange(c) <=> minX(c) <= maxX(c) /\ minY(c) <= maxY(c)
<1>0. /\ UX \in Nat \ {0} /\ UY \in Nat \ {0} /\ UZ \in Nat \ {0} /\ Window \in Nat
      /\ 2 * Window < UX /\ 2 * Window < UY
  BY PrefetchAssumption
<1>1. c[1] \in 0 .. (UX - 1) /\ c[2] \in 0 .. (UY - 1) /\ c[3] \in 0 .. (UZ - 1)
  BY PrefetchAssumption
<1>2. /\ minX(c) \in 0 .. (UX - 1) /\ maxX(c) \in 0 .. (UX - 1)
      /\ c[1] \in Window .. (UX - 1 - Window) => minX(c) = c[1] - Window /\ maxX(c) = c[1] + Window
      /\ c[1] \notin Window .. (UX - 1 - Window) => minX(c) > maxX(c)
  BY <1>0, <1>1, Side DEF minX, maxX
<1>3. /\ minY(c) \in 0 .. (UY - 1) /\ maxY(c) \in 0 .. (UY - 1)
      /\ c[2] \in Window .. (UY - 1 - Window) => minY(c) = c[2] - Window /\ maxY(c) = c[2] + Window
      /\ c[2] \notin Window .. (UY - 1 - Window) => minY(c) > maxY(c)
  BY <1>0, <1>1, Side DEF minY, maxY
<1>4. minZ(c) \in 0 .. (UZ - 1) /\ maxZ(c) \in 0 .. (UZ - 1) /\ minZ(c) <= maxZ(c)
  BY <1>0, <1>1 DEF minZ, maxZ
<1>5. InRange(c) => /\ minX(c) = c[1] - Window /\ maxX(c) = c[1] + Window
                    /\ minY(c) = c[2] - Window /\ maxY(c) = c[2] + Window
  BY <1>2, <1>3 DEF InRange
<1>6. InRange(c) => minX(c) <= maxX(c) /\ minY(c) <= maxY(c)
  BY <1>0, <1>1, <1>5
<1>7. minX(c) <= maxX(c) /\ minY(c) <= maxY(c) => InRange(c)
  BY <1>2, <1>3 DEF InRange
<1>. QED
  BY <1>1, <1>2, <1>3, <1>4, <1>5, <1>6, <1>7

LEMMA BoxIsAround ==
    ASSUME NEW c \in Centers, InRange(c)
    PROVE  Box(c) = Around(c)
<1>0. UX \in Nat /\ UY \in Nat /\ UZ \in Nat /\ Window \in Nat
  BY PrefetchAssumption
<1>1. /\ c[1] \in Int /\ c[2] \in Int /\ c[3] \in 0 .. (UZ - 1)
      /\ minX(c) = c[1] - Window /\ maxX(c) = c[1] + Window
      /\ minY(c) = c[2] - Window /\ maxY(c) = c[2] + Window
  BY <1>0, Corners
<1>2. ASSUME NEW p \in Positions
      PROVE  p \in Box(c) <=> p \in Around(c)
  <2>1. p[1] \in Int /\ p[2] \in Int /\ p[3] \in 0 .. (UZ - 1)
    BY <1>0 DEF Positions
  <2>2. (minX(c) <= p[1] /\ p[1] <= maxX(c)) <=> p[1] - c[1] \in (-Window) .. Window
    BY <1>0, <1>1, <2>1
  <2>3. (minY(c) <= p[2] /\ p[2] <= maxY(c)) <=> p[2] - c[2] \in (-Window) .. Window
    BY <1>0, <1>1, <2>1
  <2>4. (minZ(c) <= p[3] /\ p[3] <= maxZ(c)) <=> p[3] - c[3] \in (-Window) .. Window
    BY <1>0, <1>1, <2>1 DEF minZ, maxZ
  <2>5. p \in Around(c) <=> /\ p[1] - c[1] \in (-Window) .. Window
                            /\ p[2] - c[2] \in (-Window) .. Window
                            /\ p[3] - c[3] \in (-Window) .. Window
    <3>1. \A k \in 1 .. 3 : k = 1 \/ k = 2 \/ k = 3
      OBVIOUS
    <3>. QED
      BY <3>1 DEF Around, Positions
  <2>. QED
    BY <2>2, <2>3, <2>4, <2>5 DEF Box
<1>3. Box(c) \subseteq Positions /\ Around(c) \subseteq Positions
  BY DEF Box, Around, Positions
<1>. QED
  BY <1>2, <1>3

(* Nothing of the box lies before its first corner. *)
LEMMA FirstCorner ==
    ASSUME NEW c \in Centers, InRange(c)
    PROVE  Corner(c) \in Box(c) /\ Walked(c, Corner(c)) = {}
<1>1. /\ Corner(c)[1] = minX(c) /\ Corner(c)[2] = minY(c) /\ Corner(c)[3] = minZ(c)
  BY DEF Corner
<1>2. /\ minX(c) \in 0 .. (UX - 1) /\ minY(c) \in 0 .. (UY - 1) /\ minZ(c) \in 0 .. (UZ - 1)
      /\ minX(c) <= maxX(c) /\ minY(c) <= maxY(c) /\ minZ(c) <= maxZ(c)
  BY Corners
<1>3. Corner(c) \in Positions
  BY <1>2 DEF Corner, Positions
<1>4. UX \in Nat /\ UY \in Nat /\ UZ \in Nat
  BY PrefetchAssumption
<1>5. Corner(c) \in Box(c)
  BY <1>1, <1>2, <1>3, <1>4 DEF Box
<1>6. ASSUME NEW p \in Box(c) PROVE ~Before(p, Corner(c))
  <2>1. /\ p[1] \in Int /\ p[2] \in Int /\ p[3] \in Int
        /\ minX(c) <= p[1] /\ minY(c) <= p[2] /\ minZ(c) <= p[3]
    BY <1>4 DEF Box, Positions
  <2>. QED
    BY <1>1, <1>2, <1>4, <2>1 DEF Before
<1>. QED
  BY <1>5, <1>6 DEF Walked

(* A turn of the loops at position p. *)
LEMMA Turn ==
    ASSUME NEW c \in Centers, InRange(c), NEW p \in Positions,
           BelowTop(c) => p \in Box(c)
    PROVE  LET next == Advance(c, p)
           IN  /\ next[1] \in {"loop", "done"} /\ next[2] \in Positions
               /\ next[1] = "done" => BelowTop(c) /\ Walked(c, p) \cup {p} = Box(c)
               /\ next[1] = "loop" /\ BelowTop(c) =>
                     next[2] \in Box(c) /\ Walked(c, p) \cup {p} = Walked(c, next[2])
<1>. DEFINE x == p[1]
            y == p[2]
            z == p[3]
            x1 == (x + 1) % UX
            y1 == (y + 1) % UY
            z1 == (z + 1) % UZ
<1>0. /\ UX \in Nat \ {0} /\ UY \in Nat \ {0} /\ UZ \in Nat \ {0}
      /\ x \in 0 .. (UX - 1) /\ y \in 0 .. (UY - 1) /\ z \in 0 .. (UZ - 1)
      /\ p = <<x, y, z>>
  BY PrefetchAssumption DEF Positions
<1>1. /\ minX(c) \in 0 .. (UX - 1) /\ maxX(c) \in 0 .. (UX - 1)
      /\ minY(c) \in 0 .. (UY - 1) /\ maxY(c) \in 0 .. (UY - 1)
      /\ minZ(c) \in 0 .. (UZ - 1) /\ maxZ(c) \in 0 .. (UZ - 1)
      /\ minX(c) <= maxX(c) /\ minY(c) <= maxY(c) /\ minZ(c) <= maxZ(c)
  BY Corners
<1>2. /\ x1 \in 0 .. (UX - 1) /\ y1 \in 0 .. (UY - 1) /\ z1 \in 0 .. (UZ - 1)
  BY <1>0, WrapRange
<1>3. BelowTop(c) =>
        /\ x1 = x + 1 /\ y1 = y + 1 /\ z1 = z + 1
        /\ minX(c) <= x /\ x <= maxX(c) /\ minY(c) <= y /\ y <= maxY(c)
        /\ minZ(c) <= z /\ z <= maxZ(c)
  <2>. SUFFICES ASSUME BelowTop(c)
                PROVE  /\ x1 = x + 1 /\ y1 = y + 1 /\ z1 = z + 1
                       /\ minX(c) <= x /\ x <= maxX(c) /\ minY(c) <= y /\ y <= maxY(c)
                       /\ minZ(c) <= z /\ z <= maxZ(c)
    OBVIOUS
  <2>1. /\ minX(c) <= x /\ x <= maxX(c) /\ minY(c) <= y /\ y <= maxY(c)
        /\ minZ(c) <= z /\ z <= maxZ(c)
    BY DEF Box
  <2>2. x + 1 \in 0 .. (UX - 1) /\ y + 1 \in 0 .. (UY - 1) /\ z + 1 \in 0 .. (UZ - 1)
    BY <1>0, <1>1, <2>1 DEF BelowTop
  <2>. QED
    BY <1>0, <2>1, <2>2, WrapInside
<1>4. z1 > maxZ(c) /\ y1 > maxY(c) /\ x1 > maxX(c) => BelowTop(c)
  BY <1>0, <1>1, <1>2 DEF BelowTop
<1>5. Advance(c, p) =
        CASE z1 <= maxZ(c) -> <<"loop", <<x, y, z1>>>>
          [] z1 > maxZ(c) /\ y1 <= maxY(c) -> <<"loop", <<x, y1, minZ(c)>>>>
          [] z1 > maxZ(c) /\ y1 > maxY(c) /\ x1 <= maxX(c)
                -> <<"loop", <<x1, minY(c), minZ(c)>>>>
          [] OTHER -> <<"done", <<x1, y1, z1>>>>
  BY DEF Advance
<1>6. \A q \in Box(c) : /\ q[1] \in Int /\ q[2] \in Int /\ q[3] \in Int
                        /\ q = <<q[1], q[2], q[3]>>
                        /\ minX(c) <= q[1] /\ q[1] <= maxX(c)
                        /\ minY(c) <= q[2] /\ q[2] <= maxY(c)
                        /\ minZ(c) <= q[3] /\ q[3] <= maxZ(c)
  BY <1>0 DEF Box, Positions
<1>. HIDE DEF x1, y1, z1
(* What follows p in the box: its successor, and what follows that. *)
<1>7. ASSUME NEW n \in Positions, BelowTop(c), n \in Box(c),
             \A q \in Box(c) : Before(q, n) <=> (Before(q, p) \/ q = p)
      PROVE  n \in Box(c) /\ Walked(c, p) \cup {p} = Walked(c, n)
  BY <1>7 DEF Walked
<1>8. CASE z1 <= maxZ(c)
  <2>. DEFINE n == <<x, y, z1>>
  <2>1. Advance(c, p) = <<"loop", n>>
    BY <1>0, <1>1, <1>2, <1>5, <1>8
  <2>2. n \in Positions /\ n[1] = x /\ n[2] = y /\ n[3] = z1
    BY <1>0, <1>2 DEF Positions
  <2>3. ASSUME BelowTop(c) PROVE n \in Box(c)
    BY <1>0, <1>1, <1>3, <1>8, <2>2, <2>3 DEF Box
  <2>4. ASSUME BelowTop(c), NEW q \in Box(c)
        PROVE  Before(q, n) <=> (Before(q, p) \/ q = p)
    BY <1>0, <1>3, <1>6, <2>2, <2>4 DEF Before
  <2>. HIDE DEF n
  <2>5. BelowTop(c) => Walked(c, p) \cup {p} = Walked(c, n)
    BY <1>7, <2>2, <2>3, <2>4
  <2>. QED
    BY <2>1, <2>2, <2>3, <2>5
<1>9. CASE z1 > maxZ(c) /\ y1 <= maxY(c)
  <2>. DEFINE n == <<x, y1, minZ(c)>>
  <2>1. Advance(c, p) = <<"loop", n>>
    BY <1>0, <1>1, <1>2, <1>5, <1>9
  <2>2. n \in Positions /\ n[1] = x /\ n[2] = y1 /\ n[3] = minZ(c)
    BY <1>0, <1>1, <1>2 DEF Positions
  <2>3. ASSUME BelowTop(c) PROVE n \in Box(c)
    BY <1>0, <1>1, <1>3, <1>9, <2>2, <2>3 DEF Box
  <2>4. ASSUME BelowTop(c), NEW q \in Box(c)
        PROVE  Before(q, n) <=> (Before(q, p) \/ q = p)
    BY <1>0, <1>1, <1>3, <1>6, <1>9, <2>2, <2>4 DEF Before
  <2>. HIDE DEF n
  <2>5. BelowTop(c) => Walked(c, p) \cup {p} = Walked(c, n)
    BY <1>7, <2>2, <2>3, <2>4
  <2>. QED
    BY <2>1, <2>2, <2>3, <2>5
<1>10. CASE z1 > maxZ(c) /\ y1 > maxY(c) /\ x1 <= maxX(c)
  <2>. DEFINE n == <<x1, minY(c), minZ(c)>>
  <2>1. Advance(c, p) = <<"loop", n>>
    BY <1>0, <1>1, <1>2, <1>5, <1>10
  <2>2. n \in Positions /\ n[1] = x1 /\ n[2] = minY(c) /\ n[3] = minZ(c)
    BY <1>0, <1>1, <1>2 DEF Positions
  <2>3. ASSUME BelowTop(c) PROVE n \in Box(c)
    BY <1>0, <1>1, <1>3, <1>10, <2>2, <2>3 DEF Box
  <2>4. ASSUME BelowTop(c), NEW q \in Box(c)
        PROVE  Before(q, n) <=> (Before(q, p) \/ q = p)
    BY <1>0, <1>1, <1>3, <1>6, <1>10, <2>2, <2>4 DEF Before
  <2>. HIDE DEF n
  <2>5. BelowTop(c) => Walked(c, p) \cup {p} = Walked(c, n)
    BY <1>7, <2>2, <2>3, <2>4
  <2>. QED
    BY <2>1, <2>2, <2>3, <2>5
<1>11. CASE z1 > maxZ(c) /\ y1 > maxY(c) /\ x1 > maxX(c)
  <2>1. Advance(c, p) = <<"done", <<x1, y1, z1>>>>
    BY <1>0, <1>1, <1>2, <1>5, <1>11
  <2>2. <<x1, y1, z1>> \in Positions
    BY <1>2 DEF Positions
  <2>3. BelowTop(c) /\ p \in Box(c)
    BY <1>4, <1>11
  <2>4. ASSUME NEW q \in Box(c) PROVE Before(q, p) \/ q = p
    BY <1>0, <1>1, <1>3, <1>6, <1>11, <2>3 DEF Before
  <2>5. Walked(c, p) \cup {p} = Box(c)
    BY <2>3, <2>4 DEF Walked
  <2>. QED
    BY <2>1, <2>2, <2>3, <2>5
<1>. QED
  BY <1>0, <1>1, <1>2, <1>8, <1>9, <1>10, <1>11

-----------------------------------------------------------------------------
LEMMA WalkInit == PrefetchInit => PrefetchInv
<1>. SUFFICES ASSUME PrefetchInit PROVE PrefetchInv
  OBVIOUS
<1>1. /\ MaxLen \in Nat /\ Batch \in Nat \ {0} /\ IsFiniteSet(Goroutines) /\ QueueCap \in Nat
  BY PrefetchAssumption
<1>2. \A g \in Goroutines : center[g] \in Centers
  BY DEF PrefetchInit
<1>3. \A c \in Centers : Corner(c) \in Positions
  BY Corners DEF Corner, Positions
<1>4. pos = [g \in Goroutines |-> Corner(center[g])]
  BY DEF PrefetchInit, Corner
<1>5. Typed
  BY <1>1, <1>2, <1>3, <1>4 DEF PrefetchInit, Typed
<1>6. Walking
  BY <1>4 DEF PrefetchInit, Walking, Walk
<1>7. KeptWhenFull /\ LeftAtEnd
  BY <1>1 DEF PrefetchInit, KeptWhenFull, LeftAtEnd
<1>8. AllCounted
  <2>1. SumOf(queue, DOMAIN queue) = 0
    <3>1. DOMAIN queue = {}
      BY DEF PrefetchInit
    <3>. QED
      BY <3>1, SumEmpty
  <2>2. \A g \in Goroutines : addrs[g] = 0 /\ thrown[g] = 0 /\ Collected[g] = 0
    BY FS_EmptySet DEF PrefetchInit, Collected
  <2>3. SumOf(addrs, Goroutines) <= Cardinality(Goroutines) * 0 /\ SumOf(addrs, Goroutines) \in Nat
    BY <1>1, <2>2, SumNat, SumBound
  <2>4. SumOf(thrown, Goroutines) = SumOf(addrs, Goroutines)
    BY <1>1, <2>2, SumCong
  <2>5. SumOf(Collected, Goroutines) = SumOf(addrs, Goroutines)
    BY <1>1, <2>2, SumCong
  <2>6. Cardinality(Goroutines) \in Nat
    BY <1>1, FS_CardinalityType
  <2>. QED
    BY <2>1, <2>3, <2>4, <2>5, <2>6 DEF AllCounted, Balanced
<1>. QED
  BY <1>5, <1>6, <1>7, <1>8 DEF PrefetchInv

LEMMA StartWalks ==
    ASSUME PrefetchInv, NEW g \in Goroutines, Start(g)
    PROVE  PrefetchInv'
<1>. DEFINE c == center[g]
<1>1. /\ stage[g] = "idle" /\ c \in Centers
      /\ UNCHANGED <<center, pos, addrs, queue, visited, thrown>>
      /\ pos[g] = Corner(c) /\ visited[g] = {} /\ thrown[g] = 0
  BY DEF Start, PrefetchInv, Typed, Walking, Walk, LeftAtEnd
<1>2. /\ \A h \in Goroutines : h # g => stage'[h] = stage[h]
      /\ stage'[g] = CASE minX(c) > maxX(c) -> "done"
                       [] minX(c) <= maxX(c) /\ minY(c) <= maxY(c) -> "loop"
                       [] OTHER -> IF maxX(c) = UX - 1 THEN "spin" ELSE "done"
  BY DEF Start, PrefetchInv, Typed
<1>3. /\ minX(c) \in Int /\ maxX(c) \in Int /\ minY(c) \in Int /\ maxY(c) \in Int
      /\ InRange(c) <=> minX(c) <= maxX(c) /\ minY(c) <= maxY(c)
  <2>1. UX \in Nat /\ UY \in Nat
    BY PrefetchAssumption
  <2>. QED
    BY <1>1, <2>1, Corners
<1>4. /\ stage'[g] \in {"loop", "spin", "done"}
      /\ stage'[g] = "loop" <=> InRange(c)
  BY <1>2, <1>3
<1>5. Typed'
  <2>1. stage' \in [Goroutines -> {"idle", "loop", "spin", "done"}]
    BY <1>4 DEF Start, PrefetchInv, Typed
  <2>. QED
    BY <1>1, <2>1 DEF PrefetchInv, Typed
<1>6. Walk(stage'[g], c, pos[g], visited[g])
  <2>1. InRange(c) => Corner(c) \in Box(c) /\ Walked(c, Corner(c)) = {}
    BY <1>1, FirstCorner
  <2>. QED
    BY <1>1, <1>4, <2>1 DEF Walk
<1>7. Walking'
  BY <1>1, <1>2, <1>6 DEF PrefetchInv, Walking
<1>8. LeftAtEnd' /\ KeptWhenFull' /\ AllCounted'
  <2>1. Collected' = Collected
    BY <1>1 DEF Collected
  <2>2. Balanced(queue, addrs, thrown, Collected)' <=> Balanced(queue, addrs, thrown, Collected)
    BY <1>1, <2>1 DEF Balanced
  <2>3. LeftAtEnd'
    BY <1>1, <1>2 DEF PrefetchInv, LeftAtEnd
  <2>. QED
    BY <1>1, <2>2, <2>3 DEF PrefetchInv, KeptWhenFull, AllCounted, NoneCutOff
<1>. QED
  BY <1>5, <1>7, <1>8 DEF PrefetchInv

(* A sum in which one summand changes. *)
LEMMA SumChange ==
    ASSUME NEW S, IsFiniteSet(S), NEW x \in S, NEW f, NEW h,
           \A y \in S : f[y] \in Nat, \A y \in S : h[y] \in Nat,
           \A y \in S : y # x => h[y] = f[y]
    PROVE  /\ SumOf(f, S) \in Nat /\ SumOf(h, S) \in Nat
           /\ SumOf(h, S) + f[x] = SumOf(f, S) + h[x]
<1>. DEFINE R == S \ {x}
<1>1. IsFiniteSet(R)
  BY FS_RemoveElement
<1>2. SumOf(f, S) = f[x] + SumOf(f, R) /\ SumOf(h, S) = h[x] + SumOf(h, R)
  BY SumRemove
<1>3. SumOf(f, R) = SumOf(h, R)
  BY <1>1, SumCong
<1>4. SumOf(f, R) \in Nat /\ f[x] \in Nat /\ h[x] \in Nat
  BY <1>1, SumNat
<1>. HIDE DEF R
<1>. QED
  BY <1>2, <1>3, <1>4

(* A batch that is sent is added to what is in the queue. *)
LEMMA SumSent ==
    ASSUME NEW q \in Seq(Nat), NEW n \in Nat
    PROVE  /\ SumOf(q, DOMAIN q) \in Nat
           /\ SumOf(Append(q, n), DOMAIN Append(q, n)) = SumOf(q, DOMAIN q) + n
<1>. DEFINE r == Append(q, n)
            S == 1 .. Len(q)
            k == Len(q) + 1
<1>1. /\ DOMAIN q = S /\ Len(q) \in Nat /\ DOMAIN r = S \cup {k} /\ k \notin S
      /\ r[k] = n /\ \A i \in S : r[i] = q[i] /\ q[i] \in Nat
  OBVIOUS
<1>2. IsFiniteSet(S)
  BY <1>1, FS_Interval
<1>. HIDE DEF r, S, k
<1>3. SumOf(r, S \cup {k}) = r[k] + SumOf(r, S)
  BY <1>1, <1>2, SumAdd
<1>4. SumOf(r, S) = SumOf(q, S)
  BY <1>1, <1>2, SumCong
<1>5. SumOf(q, S) \in Nat
  BY <1>1, <1>2, SumNat
<1>6. SumOf(r, DOMAIN r) = SumOf(q, DOMAIN q) + n
  BY <1>1, <1>3, <1>4, <1>5
<1>. QED
  BY <1>1, <1>5, <1>6 DEF r

LEMMA PositionsFinite == IsFiniteSet(Positions)
<1>1. UX \in Nat /\ UY \in Nat /\ UZ \in Nat
  BY PrefetchAssumption
<1>. DEFINE A == 0 .. (UX - 1)
            B == 0 .. (UY - 1)
            C == 0 .. (UZ - 1)
<1>2. IsFiniteSet(A) /\ IsFiniteSet(B) /\ IsFiniteSet(C)
  BY <1>1, FS_Interval
<1>. HIDE DEF A, B, C
<1>3. IsFiniteSet(A \X (B \X C))
  BY <1>2, FS_Product
<1>4. IsFiniteSet(A \X B \X C)
  <2>. DEFINE T == A \X (B \X C)
              F == [t \in T |-> <<t[1], t[2][1], t[2][2]>>]
  <2>1. F \in Surjection(T, A \X B \X C)
    <3>1. ASSUME NEW u \in A \X B \X C PROVE \E t \in T : F[t] = u
      <4>1. <<u[1], <<u[2], u[3]>>>> \in T
        OBVIOUS
      <4>2. F[<<u[1], <<u[2], u[3]>>>>] = u
        BY <4>1
      <4>. QED
        BY <4>1, <4>2
    <3>2. F \in [T -> A \X B \X C]
      OBVIOUS
    <3>. HIDE DEF T, F
    <3>. QED
      BY <3>1, <3>2 DEF Surjection
  <2>2. IsFiniteSet(T)
    BY <1>3
  <2>. HIDE DEF T, F
  <2>. QED
    BY <2>1, <2>2, FS_Surjection
<1>. QED
  BY <1>4 DEF Positions, A, B, C

(* One turn of the loops: one more address, in the batch or in the queue. *)
LEMMA TurnWalks ==
    ASSUME PrefetchInv, NEW g \in Goroutines, prefetchSpatial(g)
    PROVE  PrefetchInv'
<1>. DEFINE c == center[g]
            p == pos[g]
            next == Advance(c, p)
            len == addrs[g] + 1
            left == Offer(len)
<1>0. /\ Typed /\ MaxLen \in Nat /\ Batch \in Nat \ {0} /\ Batch <= MaxLen /\ QueueCap \in Nat
      /\ IsFiniteSet(Goroutines)
  BY PrefetchAssumption DEF PrefetchInv
<1>1. /\ stage[g] = "loop" /\ c \in Centers /\ p \in Positions /\ InRange(c)
      /\ BelowTop(c) => p \in Box(c) /\ visited[g] = Walked(c, p)
      /\ addrs[g] \in Nat /\ addrs[g] <= MaxLen /\ Len(queue) \in Nat /\ thrown[g] = 0
  BY <1>0 DEF prefetchSpatial, PrefetchInv, Typed, Walking, Walk, LeftAtEnd
<1>2. /\ center' = center
      /\ queue' = IF Sent(len) THEN Append(queue, len) ELSE queue
      /\ addrs' = [addrs EXCEPT ![g] = IF next[1] = "done" THEN 0 ELSE left]
      /\ thrown' = [thrown EXCEPT ![g] = IF next[1] = "done" THEN left ELSE thrown[g]]
      /\ stage' = [stage EXCEPT ![g] = next[1]]
      /\ pos' = [pos EXCEPT ![g] = next[2]]
      /\ visited' = [visited EXCEPT ![g] = visited[g] \cup {p}]
  BY <1>0 DEF prefetchSpatial, Typed
<1>3. /\ next[1] \in {"loop", "done"} /\ next[2] \in Positions
      /\ next[1] = "done" => BelowTop(c) /\ Walked(c, p) \cup {p} = Box(c)
      /\ next[1] = "loop" /\ BelowTop(c) =>
            next[2] \in Box(c) /\ Walked(c, p) \cup {p} = Walked(c, next[2])
  BY <1>1, Turn
<1>. HIDE DEF next
<1>4. /\ stage'[g] = next[1] /\ pos'[g] = next[2] /\ visited'[g] = visited[g] \cup {p}
      /\ \A h \in Goroutines : h # g => /\ stage'[h] = stage[h] /\ pos'[h] = pos[h]
                                        /\ visited'[h] = visited[h]
  BY <1>0, <1>2 DEF Typed
<1>5. /\ stage' \in [Goroutines -> {"idle", "loop", "spin", "done"}]
      /\ pos' \in [Goroutines -> Positions]
      /\ visited' \in [Goroutines -> SUBSET Positions]
  BY <1>0, <1>1, <1>2, <1>3 DEF Typed
<1>6. Walking'
  <2>1. Walk(stage'[g], c, pos'[g], visited'[g])
    <3>1. CASE next[1] = "loop"
      BY <1>1, <1>3, <1>4, <3>1 DEF Walk
    <3>2. CASE next[1] = "done"
      <4>1. visited'[g] = Box(c)
        BY <1>1, <1>3, <1>4, <3>2
      <4>2. Box(c) = Around(c)
        BY <1>1, BoxIsAround
      <4>. QED
        BY <1>1, <1>4, <3>2, <4>1, <4>2 DEF Walk
    <3>. QED
      BY <1>3, <3>1, <3>2
  <2>. QED
    BY <1>2, <1>4, <2>1 DEF PrefetchInv, Walking
(* The batch after this turn is in addrs or, at the end, in thrown. *)
<1>70. left \in 0 .. MaxLen
  <2>1. Grown(len) \in 0 .. MaxLen
    BY <1>0, <1>1 DEF Grown
  <2>. QED
    BY <1>0, <2>1 DEF Offer
<1>. HIDE DEF left
<1>71. /\ addrs' \in [Goroutines -> 0 .. MaxLen] /\ thrown' \in [Goroutines -> 0 .. MaxLen]
       /\ \A h \in Goroutines : h # g => addrs'[h] = addrs[h] /\ thrown'[h] = thrown[h]
       /\ addrs'[g] = IF next[1] = "done" THEN 0 ELSE left
       /\ thrown'[g] = IF next[1] = "done" THEN left ELSE 0
  BY <1>0, <1>1, <1>2, <1>70 DEF Typed
<1>72. LeftAtEnd'
  BY <1>4, <1>71 DEF PrefetchInv, LeftAtEnd
<1>73. /\ addrs'[g] + thrown'[g] = left
       /\ addrs'[g] < MaxLen /\ thrown'[g] < MaxLen => left < MaxLen
       /\ addrs'[g] >= Batch \/ thrown'[g] >= Batch => left >= Batch
  BY <1>0, <1>70, <1>71
(* Sent or not, the batch agrees with the count of the addresses. *)
<1>7. ASSUME NoneCutOff', addrs[g] < MaxLen,
             NEW k \in Nat, addrs[g] + 1 = left + k,
             SumOf(queue, DOMAIN queue) \in Nat,
             SumOf(queue', DOMAIN queue') = SumOf(queue, DOMAIN queue) + k
      PROVE  Balanced(queue', addrs', thrown', Collected')
  <2>1. NoneCutOff
    BY <1>0, <1>1, <1>2, <1>7, <1>71 DEF NoneCutOff
  <2>2. SumOf(queue, DOMAIN queue) + SumOf(addrs, Goroutines) + SumOf(thrown, Goroutines)
          = SumOf(Collected, Goroutines)
    BY <2>1 DEF PrefetchInv, AllCounted, Balanced
  <2>3. /\ SumOf(addrs, Goroutines) \in Nat /\ SumOf(addrs', Goroutines) \in Nat
        /\ SumOf(addrs', Goroutines) + addrs[g] = SumOf(addrs, Goroutines) + addrs'[g]
    <3>1. /\ \A h \in Goroutines : addrs[h] \in Nat
          /\ \A h \in Goroutines : addrs'[h] \in Nat
      BY <1>0, <1>71 DEF Typed
    <3>. QED
      BY <1>0, <1>71, <3>1, SumChange
  <2>30. /\ SumOf(thrown, Goroutines) \in Nat /\ SumOf(thrown', Goroutines) \in Nat
         /\ SumOf(thrown', Goroutines) + thrown[g] = SumOf(thrown, Goroutines) + thrown'[g]
    <3>1. /\ \A h \in Goroutines : thrown[h] \in Nat
          /\ \A h \in Goroutines : thrown'[h] \in Nat
      BY <1>0, <1>71 DEF Typed
    <3>. QED
      BY <1>0, <1>71, <3>1, SumChange
  <2>4. ASSUME NEW h \in Goroutines
        PROVE  /\ IsFiniteSet(visited[h]) /\ Collected[h] = Cardinality(visited[h])
               /\ Collected[h] \in Nat /\ Collected'[h] = Cardinality(visited'[h])
               /\ Collected'[h] \in Nat
    <3>1. visited[h] \in SUBSET Positions /\ visited'[h] \in SUBSET Positions
      BY <1>0, <1>5 DEF Typed
    <3>2. IsFiniteSet(visited[h]) /\ IsFiniteSet(visited'[h])
      BY <3>1, PositionsFinite, FS_Subset
    <3>. QED
      BY <3>2, FS_CardinalityType DEF Collected
  <2>5. Collected'[g] = Collected[g] + 1
    <3>1. p \notin visited[g]
      <4>1. p[1] \in Int /\ p[2] \in Int /\ p[3] \in Int
        <5>1. UX \in Nat /\ UY \in Nat /\ UZ \in Nat
          BY PrefetchAssumption
        <5>. HIDE DEF p
        <5>. QED
          BY <1>1, <5>1 DEF Positions
      <4>2. ~Before(p, p)
        BY <4>1 DEF Before
      <4>3. visited[g] = Walked(c, p)
        BY <1>1, <2>1 DEF NoneCutOff
      <4>. QED
        BY <4>2, <4>3 DEF Walked
    <3>2. Cardinality(visited[g] \cup {p}) = Cardinality(visited[g]) + 1
      BY <2>4, <3>1, FS_AddElement
    <3>. QED
      BY <1>4, <2>4, <3>2
  <2>6. \A h \in Goroutines : h # g => Collected'[h] = Collected[h]
    BY <1>4, <2>4
  <2>7. /\ SumOf(Collected, Goroutines) \in Nat /\ SumOf(Collected', Goroutines) \in Nat
        /\ SumOf(Collected', Goroutines) + Collected[g] = SumOf(Collected, Goroutines) + Collected'[g]
    <3>1. /\ \A h \in Goroutines : Collected[h] \in Nat
          /\ \A h \in Goroutines : Collected'[h] \in Nat
      BY <2>4
    <3>. QED
      BY <1>0, <2>6, <3>1, SumChange
  <2>8. addrs'[g] \in Nat /\ thrown'[g] \in Nat /\ Collected[g] \in Nat
    BY <1>0, <1>71, <2>4
  <2>9. SumOf(queue', DOMAIN queue') + SumOf(addrs', Goroutines) + SumOf(thrown', Goroutines)
          = SumOf(Collected', Goroutines)
    <3>. DEFINE q0 == SumOf(queue, DOMAIN queue)
                q1 == SumOf(queue', DOMAIN queue')
                a0 == SumOf(addrs, Goroutines)
                a1 == SumOf(addrs', Goroutines)
                t0 == SumOf(thrown, Goroutines)
                t1 == SumOf(thrown', Goroutines)
                n0 == SumOf(Collected, Goroutines)
                n1 == SumOf(Collected', Goroutines)
    <3>1. q0 + a0 + t0 = n0 /\ q1 = q0 + k /\ q0 \in Nat
      BY <1>7, <2>2
    <3>2. /\ a0 \in Nat /\ a1 \in Nat /\ a1 + addrs[g] = a0 + addrs'[g]
          /\ t0 \in Nat /\ t1 \in Nat /\ t1 = t0 + thrown'[g]
      BY <1>1, <2>3, <2>30
    <3>3. n0 \in Nat /\ n1 \in Nat /\ n1 + Collected[g] = n0 + Collected'[g]
      BY <2>7
    <3>4. addrs[g] + 1 = addrs'[g] + thrown'[g] + k /\ addrs[g] \in Nat
      BY <1>1, <1>7, <1>73
    <3>. HIDE DEF q0, q1, a0, a1, t0, t1, n0, n1
    <3>5. n1 = n0 + 1
      BY <2>5, <2>8, <3>3
    <3>6. q1 + a1 + t1 = n1
      <4>1. q1 \in Nat /\ addrs'[g] \in Nat /\ thrown'[g] \in Nat /\ n0 \in Nat
        BY <2>8, <3>1, <3>3
      <4>2. (a1 + t1) + addrs[g] = (a0 + t0) + (addrs'[g] + thrown'[g])
        BY <3>2, <3>4, <4>1
      <4>3. (a1 + t1) + k = (a0 + t0) + 1
        BY <3>2, <3>4, <4>1, <4>2
      <4>. QED
        BY <3>1, <3>2, <3>5, <4>1, <4>3
    <3>. QED
      BY <3>6 DEF q1, a1, t1, n1
  <2>. QED
    BY <2>9 DEF Balanced
<1>8. CASE Sent(len)
  <2>1. queue' = Append(queue, len) /\ left = 0 /\ len >= Batch /\ Len(queue) < QueueCap
    BY <1>2, <1>8 DEF Sent, Offer, left
  <2>2. queue \in Seq(Nat) /\ queue' \in Seq(Nat) /\ Len(queue') = Len(queue) + 1
    BY <1>0, <1>1, <2>1 DEF Typed
  <2>3. Len(queue') <= QueueCap
    BY <1>0, <1>1, <2>1, <2>2
  <2>4. Typed'
    BY <1>0, <1>2, <1>5, <1>71, <2>2, <2>3 DEF Typed
  <2>5. KeptWhenFull'
    <3>1. ASSUME NEW h \in Goroutines, addrs'[h] >= Batch \/ thrown'[h] >= Batch
          PROVE  Len(queue') >= QueueCap
      <4>1. h # g
        BY <1>0, <1>73, <2>1, <3>1
      <4>2. Len(queue) >= QueueCap
        BY <1>71, <3>1, <4>1 DEF PrefetchInv, KeptWhenFull
      <4>. QED
        BY <1>0, <1>1, <2>2, <4>2
    <3>. QED
      BY <3>1 DEF KeptWhenFull
  <2>6. /\ SumOf(queue, DOMAIN queue) \in Nat
        /\ SumOf(queue', DOMAIN queue') = SumOf(queue, DOMAIN queue) + len
    BY <1>1, <2>1, <2>2, SumSent
  <2>7. addrs[g] < MaxLen
    BY <1>0, <1>1, <2>1 DEF PrefetchInv, KeptWhenFull
  <2>8. AllCounted'
    BY <1>1, <1>7, <2>1, <2>6, <2>7 DEF AllCounted
  <2>. QED
    BY <1>6, <1>72, <2>4, <2>5, <2>8 DEF PrefetchInv
<1>9. CASE ~Sent(len)
  <2>1. queue' = queue /\ left = IF len > MaxLen THEN MaxLen ELSE len
    <3>1. left = Grown(len) /\ queue' = queue
      BY <1>2, <1>9 DEF Offer, left
    <3>. QED
      BY <3>1 DEF Grown
  <2>2. ~(len >= Batch /\ Len(queue) < QueueCap)
    BY <1>9 DEF Sent
  <2>3. Typed'
    BY <1>0, <1>2, <1>5, <1>71, <2>1 DEF Typed
  <2>4. KeptWhenFull'
    <3>1. left >= Batch => Len(queue) >= QueueCap
      BY <1>0, <1>1, <2>1, <2>2
    <3>2. ASSUME NEW h \in Goroutines, addrs'[h] >= Batch \/ thrown'[h] >= Batch
          PROVE  Len(queue) >= QueueCap
      <4>1. CASE h = g
        BY <1>73, <3>1, <3>2, <4>1
      <4>2. CASE h # g
        BY <1>71, <3>2, <4>2 DEF PrefetchInv, KeptWhenFull
      <4>. QED
        BY <4>1, <4>2
    <3>. QED
      BY <2>1, <3>2 DEF KeptWhenFull
  <2>5. left < MaxLen => addrs[g] < MaxLen /\ left = len
    BY <1>0, <1>1, <2>1
  <2>6. SumOf(queue, DOMAIN queue) \in Nat
    BY <1>0, SumSent DEF Typed
  <2>7. AllCounted'
    <3>. SUFFICES ASSUME NoneCutOff'
                  PROVE  Balanced(queue', addrs', thrown', Collected')
      BY DEF AllCounted
    <3>1. left < MaxLen
      BY <1>73 DEF NoneCutOff
    <3>2. addrs[g] < MaxLen /\ addrs[g] + 1 = left + 0
      BY <1>1, <2>5, <3>1
    <3>3. SumOf(queue', DOMAIN queue') = SumOf(queue, DOMAIN queue) + 0
      BY <2>1, <2>6
    <3>. QED
      BY <1>7, <2>6, <3>2, <3>3
  <2>. QED
    BY <1>6, <1>72, <2>3, <2>4, <2>7 DEF PrefetchInv
<1>. QED
  BY <1>8, <1>9

LEMMA WalkKept == PrefetchSpec => []PrefetchInv
<1>1. PrefetchInv /\ [PrefetchNext]_prefetchVars => PrefetchInv'
  <2>. SUFFICES ASSUME PrefetchInv, [PrefetchNext]_prefetchVars PROVE PrefetchInv'
    OBVIOUS
  <2>1. CASE UNCHANGED prefetchVars
    <3>1. UNCHANGED <<center, stage, pos, addrs, queue, visited, thrown>>
      BY <2>1 DEF prefetchVars
    <3>2. Collected' = Collected
      BY <3>1 DEF Collected
    <3>. QED
      BY <3>1, <3>2 DEF PrefetchInv, Typed, Walking, LeftAtEnd, KeptWhenFull, AllCounted,
                        NoneCutOff, Balanced
  <2>. QED
    BY <2>1, StartWalks, TurnWalks DEF PrefetchNext
<1>. QED
  BY <1>1, WalkInit, PTL DEF PrefetchSpec

(* A prefetch that ends has collected every address within the window of   *)
(* the missed one when the box wraps around in neither X nor Y, and one    *)
(* whose loops are not bounded by the largest value of their type collects *)
(* no other.                                                               *)
THEOREM NeighbourhoodsAreCovered == PrefetchSpec => []NeighbourhoodCovered
<1>1. ASSUME PrefetchInv PROVE NeighbourhoodCovered
  <2>. SUFFICES ASSUME NEW g \in Goroutines
                PROVE  /\ stage[g] = "done" /\ InRange(center[g]) => visited[g] = Around(center[g])
                       /\ BelowTop(center[g]) => visited[g] \subseteq Around(center[g])
    BY DEF NeighbourhoodCovered
  <2>. DEFINE c == center[g]
  <2>1. /\ Walk(stage[g], c, pos[g], visited[g]) /\ c \in Centers
        /\ stage[g] \in {"idle", "loop", "spin", "done"}
    BY <1>1 DEF PrefetchInv, Walking, Typed
  <2>2. ASSUME stage[g] = "loop", BelowTop(c) PROVE visited[g] \subseteq Around(c)
    <3>1. Box(c) = Around(c)
      BY <2>1, <2>2, BoxIsAround DEF Walk
    <3>. QED
      BY <2>1, <2>2, <3>1 DEF Walk, Walked
  <2>. QED
    BY <2>1, <2>2 DEF Walk
<1>. QED
  BY <1>1, WalkKept, PTL

(* Every address a goroutine has collected is in the queue, in its batch,  *)
(* or was in the batch it left behind when it ended, which is shorter than *)
(* Batch unless the queue is full.                                         *)
THEOREM OnlyRemaindersAreLost == PrefetchSpec => []OnlyRemaindersLost
<1>1. ASSUME PrefetchInv PROVE OnlyRemaindersLost
  <2>1. QueueCap \in Nat /\ Len(queue) \in Nat /\ Len(queue) <= QueueCap
    BY <1>1, PrefetchAssumption DEF PrefetchInv, Typed
  <2>2. \A g \in Goroutines : thrown[g] >= Batch => Len(queue) = QueueCap
    BY <1>1, <2>1 DEF PrefetchInv, KeptWhenFull
  <2>. QED
    BY <1>1, <2>2 DEF PrefetchInv, AllCounted, NoneCutOff, Balanced, SumOf, OnlyRemaindersLost
<1>. QED
  BY <1>1, WalkKept, PTL

-----------------------------------------------------------------------------
(* The gas accountant. *)

(* A call about to compare-and-swap has loaded enough gas for its amount:  *)
(* the check before the swap still holds when the swap succeeds, because   *)
(* it succeeds only against the value that was checked.                    *)
Covered == \A t \in Threads : pc[t] = "cas" => amt[t] <= old[t]

GasInv == TypeOK /\ Covered /\ NoOverdraft

LEMMA AddUint64Type ==
    ASSUME NEW v \in 0 .. (U64 - 1), NEW n \in 0 .. (U64 - 1)
    PROVE  /\ AddUint64(v, n) \in 0 .. (U64 - 1)
           /\ AddUint64(v, n) <= v + n
BY GasAssumption DEF AddUint64

(* One step of any goroutine preserves the inductive invariant. *)
LEMMA GasStep ==
    ASSUME GasInv, [GasNext]_gasVars
    PROVE  GasInv'
<1> USE DEF GasInv
<1>0. Amounts \cup {0} \subseteq 0 .. (U64 - 1)
  BY GasAssumption
<1>1. CASE UNCHANGED gasVars
  BY <1>1 DEF gasVars, TypeOK, Covered, NoOverdraft
<1>2. ASSUME NEW t \in Threads, NEW gas \in Amounts, ConsumeBegin(t, gas)
      PROVE  GasInv'
  BY <1>0, <1>2 DEF ConsumeBegin, Goto, TypeOK, Covered, NoOverdraft
<1>3. ASSUME NEW t \in Threads, ConsumeReload(t)
      PROVE  GasInv'
  <2>1. TypeOK'
    BY <1>3 DEF ConsumeReload, Goto, TypeOK
  <2>2. Covered'
    BY <1>0, <1>3 DEF ConsumeReload, Goto, TypeOK, Covered
  <2>. QED
    BY <1>3, <2>1, <2>2 DEF ConsumeReload, NoOverdraft
<1>4. ASSUME NEW t \in Threads, ConsumeCAS(t)
      PROVE  GasInv'
  <2>0. /\ amt[t] \in 0 .. (U64 - 1)
        /\ old[t] \in 0 .. (U64 - 1)
        /\ amt[t] <= old[t]
    BY <1>0, <1>4 DEF ConsumeCAS, TypeOK, Covered
  <2>1. TypeOK'
    BY <1>4, <2>0, GasAssumption DEF ConsumeCAS, Goto, TypeOK
  <2>2. Covered'
    BY <1>4 DEF ConsumeCAS, Goto, TypeOK, Covered
  <2>3. NoOverdraft'
    BY <1>4, <2>0, GasAssumption DEF ConsumeCAS, TypeOK, NoOverdraft
  <2>. QED
    BY <2>1, <2>2, <2>3
<1>5. ASSUME NEW t \in Threads, ConsumeAdd(t)
      PROVE  GasInv'
  <2>1. AddUint64(used, amt[t]) \in 0 .. (U64 - 1)
    BY <1>0, AddUint64Type DEF TypeOK
  <2>. QED
    BY <1>5, <2>1 DEF ConsumeAdd, Goto, TypeOK, Covered, NoOverdraft
<1>6. ASSUME NEW t \in Threads, NEW gas \in Amounts, RefundBegin(t, gas)
      PROVE  GasInv'
  BY <1>0, <1>6 DEF RefundBegin, Goto, TypeOK, Covered, NoOverdraft
<1>7. ASSUME NEW t \in Threads, RefundLoad(t)
      PROVE  GasInv'
  BY <1>7 DEF RefundLoad, Goto, TypeOK, Covered, NoOverdraft
<1>8. ASSUME NEW t \in Threads, RefundCAS(t)
      PROVE  GasInv'
  <2>1. /\ amt[t] \in 0 .. (U64 - 1)
        /\ old[t] \in 0 .. (U64 - 1)
    BY <1>0 DEF TypeOK
  <2>2. TypeOK'
    BY <1>8, <2>1, GasAssumption DEF RefundCAS, Goto, TypeOK
  <2>3. Covered'
    BY <1>8 DEF RefundCAS, Goto, TypeOK, Covered
  <2>. QED
    BY <1>8, <2>2, <2>3 DEF RefundCAS, NoOverdraft
<1>9. ASSUME NEW t \in Threads, RefundCredit(t)
      PROVE  GasInv'
  <2>1. /\ amt[t] \in 0 .. (U64 - 1)
        /\ AddUint64(remaining, amt[t]) \in 0 .. (U64 - 1)
        /\ AddUint64(remaining, amt[t]) <= remaining + amt[t]
    BY <1>0, AddUint64Type DEF TypeOK
  <2>2. TypeOK'
    BY <1>9, <2>1 DEF RefundCredit, Goto, TypeOK
  <2>3. Covered'
    BY <1>9 DEF RefundCredit, Goto, TypeOK, Covered
  <2>4. NoOverdraft'
    BY <1>9, <2>1, GasAssumption DEF RefundCredit, TypeOK, NoOverdraft
  <2>. QED
    BY <2>2, <2>3, <2>4
<1>. QED
  BY <1>1, <1>2, <1>3, <1>4, <1>5, <1>6, <1>7, <1>8, <1>9
     DEF GasNext, Consuming, Refunding

(* The accountant's counters keep their types and, whatever the            *)
(* interleaving of Consume and Refund by any number of goroutines, the gas *)
(* granted never exceeds the limit and what was credited.                  *)
THEOREM GasSafe == GasSpec => [](TypeOK /\ NoOverdraft)
<1>1. GasInit => GasInv
  BY GasAssumption DEF GasInit, GasInv, TypeOK, Covered, NoOverdraft
<1>2. GasInv /\ [GasNext]_gasVars => GasInv'
  BY GasStep
<1>3. GasInv => TypeOK /\ NoOverdraft
  BY DEF GasInv
<1>. QED
  BY <1>1, <1>2, <1>3, PTL DEF GasSpec

(* Every counter of the accountant is a uint64 and every call is at a      *)
(* place of Consume or Refund, at every instant.                           *)
THEOREM GasTypeCorrect == GasSpec => []TypeOK
BY GasSafe, PTL

-----------------------------------------------------------------------------
(* Conservation. *)

(* No sum of gas reaches 2^64: m bounds the amounts, and every goroutine   *)
(* may have a refund under way when the bound on credited gas is reached.  *)
NoWrap(m) ==
    /\ \A gas \in Amounts : gas <= m
    /\ GasLimit + MaxCredit + Cardinality(Threads) * m < U64

LEMMA AmountsNat == Amounts \cup {0} \subseteq Nat
BY GasAssumption

(* The gas of the calls that are in W. *)
Flying(W) == SumOf(amt, Where(Threads, pc, W))

Refunds == {"rload", "rcas", "credit"}

(* The two sides of GasConserved, and what keeps the additions from        *)
(* wrapping: refunds begin only up to MaxCredit, so those under way and    *)
(* those done stay below MaxCredit and one amount for each goroutine.      *)
ConservedInv(m) ==
    /\ GasInv
    /\ remaining + used + Flying({"add"}) + Flying({"credit"}) >= GasLimit
    /\ remaining + used + Flying({"add"}) <= GasLimit + credited
    /\ credited + Flying(Refunds) <= MaxCredit + Cardinality(Threads) * m

LEMMA InFlightIs ==
    ASSUME NEW w
    PROVE  InFlight(w) = Flying({w})
<1>1. {t \in Threads : pc[t] = w} = Where(Threads, pc, {w})
  BY DEF Where
<1>. QED
  BY <1>1 DEF InFlight, Flying, SumOf

LEMMA FlyingNat ==
    ASSUME NEW a \in [Threads -> Amounts \cup {0}], NEW p, NEW W
    PROVE  SumOf(a, Where(Threads, p, W)) \in Nat
<1>1. Where(Threads, p, W) \in SUBSET Threads
  BY DEF Where
<1>2. IsFiniteSet(Where(Threads, p, W))
  BY <1>1, FS_Subset, GasAssumption
<1>3. \A t \in Threads : a[t] \in Nat
  BY AmountsNat
<1>. QED
  BY <1>1, <1>2, <1>3, SumNat

(* A step of goroutine t changes the sums by what t brings and takes. *)
LEMMA FlyingMove ==
    ASSUME TypeOK, TypeOK', NEW t \in Threads, NEW W,
           \A s \in Threads \ {t} : pc'[s] = pc[s] /\ amt'[s] = amt[s]
    PROVE  Flying(W)' + (IF pc[t] \in W THEN amt[t] ELSE 0)
             = Flying(W) + (IF pc'[t] \in W THEN amt'[t] ELSE 0)
<1>1. (\A s \in Threads : amt[s] \in Nat) /\ (\A s \in Threads : amt'[s] \in Nat)
  BY AmountsNat DEF TypeOK
<1>. QED
  BY <1>1, SumMove, GasAssumption DEF Flying

(* The refunds under way are at most one for each goroutine. *)
LEMMA FlyingBound ==
    ASSUME NEW a \in [Threads -> Amounts \cup {0}], NEW p, NEW W,
           NEW m \in Nat, NoWrap(m)
    PROVE  SumOf(a, Where(Threads, p, W)) <= Cardinality(Threads) * m
<1> DEFINE T == Where(Threads, p, W)
<1>1. T \in SUBSET Threads
  BY DEF Where
<1>2. /\ IsFiniteSet(T) /\ Cardinality(T) <= Cardinality(Threads)
      /\ Cardinality(T) \in Nat /\ Cardinality(Threads) \in Nat
  BY <1>1, FS_Subset, FS_CardinalityType, GasAssumption
<1>3. \A t \in T : a[t] \in Nat /\ a[t] <= m
  BY <1>1, AmountsNat DEF NoWrap
<1>4. SumOf(a, T) <= Cardinality(T) * m
  BY <1>2, <1>3, SumBound
<1>5. \A j, k \in Nat : j <= k => j * m <= k * m
  OBVIOUS
<1>6. /\ Cardinality(T) * m <= Cardinality(Threads) * m
      /\ Cardinality(T) * m \in Nat /\ Cardinality(Threads) * m \in Nat
  BY <1>2, <1>5
<1>7. SumOf(a, T) \in Nat
  BY <1>2, <1>3, SumNat
<1>. QED
  BY <1>4, <1>6, <1>7

LEMMA ConservedStep ==
    ASSUME NEW m \in Nat, NoWrap(m), ConservedInv(m), [GasNext]_gasVars
    PROVE  ConservedInv(m)'
<1>1. GasInv'
  BY GasStep DEF ConservedInv
<1>2. TypeOK /\ TypeOK'
  BY <1>1 DEF ConservedInv, GasInv
<1>3. /\ Flying({"add"}) \in Nat /\ Flying({"credit"}) \in Nat /\ Flying(Refunds) \in Nat
      /\ Flying({"add"})' \in Nat /\ Flying({"credit"})' \in Nat /\ Flying(Refunds)' \in Nat
  BY <1>2, FlyingNat DEF Flying, TypeOK
<1>4. Cardinality(Threads) * m \in Nat
  BY FS_CardinalityType, GasAssumption
<1>5. /\ remaining + used + Flying({"add"}) + Flying({"credit"}) >= GasLimit
      /\ remaining + used + Flying({"add"}) <= GasLimit + credited
      /\ credited + Flying(Refunds) <= MaxCredit + Cardinality(Threads) * m
      /\ GasLimit + MaxCredit + Cardinality(Threads) * m < U64
      /\ GasLimit \in Nat /\ MaxCredit \in Nat /\ U64 \in Nat
      /\ remaining \in Nat /\ used \in Nat /\ credited \in Nat
  BY <1>2, GasAssumption DEF ConservedInv, NoWrap, TypeOK
<1>6. SUFFICES /\ remaining' + used' + Flying({"add"})' + Flying({"credit"})' >= GasLimit
               /\ remaining' + used' + Flying({"add"})' <= GasLimit + credited'
               /\ credited' + Flying(Refunds)' <= MaxCredit + Cardinality(Threads) * m
  BY <1>1 DEF ConservedInv
<1>7. CASE UNCHANGED gasVars
  BY <1>5, <1>7 DEF gasVars, Flying
<1>8. ASSUME NEW t \in Threads, NEW gas \in Amounts \cup {0},
             \/ Consuming(t) \/ Refunding(t)
             \/ ConsumeBegin(t, gas) \/ RefundBegin(t, gas)
      PROVE  /\ remaining' + used' + Flying({"add"})' + Flying({"credit"})' >= GasLimit
             /\ remaining' + used' + Flying({"add"})' <= GasLimit + credited'
             /\ credited' + Flying(Refunds)' <= MaxCredit + Cardinality(Threads) * m
  <2>1. \A s \in Threads \ {t} : pc'[s] = pc[s] /\ amt'[s] = amt[s]
    BY <1>2, <1>8 DEF Consuming, Refunding, ConsumeReload, ConsumeCAS, ConsumeAdd,
       RefundLoad, RefundCAS, RefundCredit, ConsumeBegin, RefundBegin, Goto, TypeOK
  <2>2. /\ Flying({"add"})' + (IF pc[t] = "add" THEN amt[t] ELSE 0)
             = Flying({"add"}) + (IF pc'[t] = "add" THEN amt'[t] ELSE 0)
        /\ Flying({"credit"})' + (IF pc[t] = "credit" THEN amt[t] ELSE 0)
             = Flying({"credit"}) + (IF pc'[t] = "credit" THEN amt'[t] ELSE 0)
        /\ Flying(Refunds)' + (IF pc[t] \in Refunds THEN amt[t] ELSE 0)
             = Flying(Refunds) + (IF pc'[t] \in Refunds THEN amt'[t] ELSE 0)
    <3>1. \A w : w \in {"add"} <=> w = "add"
      OBVIOUS
    <3>2. \A w : w \in {"credit"} <=> w = "credit"
      OBVIOUS
    <3>. QED
      BY <1>2, <2>1, <3>1, <3>2, FlyingMove
  <2>3. amt[t] \in Nat /\ amt'[t] \in Nat /\ old[t] \in Nat /\ gas \in Nat
    <3>1. /\ amt[t] \in Amounts \cup {0} /\ amt'[t] \in Amounts \cup {0}
          /\ old[t] \in 0 .. (U64 - 1)
      BY <1>2 DEF TypeOK
    <3>2. amt[t] \in Nat /\ amt'[t] \in Nat /\ gas \in Nat
      BY <3>1, AmountsNat
    <3>. QED
      BY <3>1, <3>2
  <2>4. CASE ConsumeBegin(t, gas)
    <3>1. /\ pc[t] = "idle" /\ pc'[t] = "cas"
          /\ UNCHANGED <<remaining, used, credited>>
      BY <1>2, <2>4 DEF ConsumeBegin, Goto, TypeOK
    <3>. QED
      BY <1>3, <1>4, <1>5, <2>2, <3>1 DEF Refunds
  <2>5. CASE ConsumeReload(t)
    <3>1. /\ pc[t] = "load" /\ pc'[t] \in {"idle", "cas"}
          /\ UNCHANGED <<remaining, used, credited>>
      BY <1>2, <2>5 DEF ConsumeReload, Goto, TypeOK
    <3>. QED
      BY <1>3, <1>4, <1>5, <2>2, <3>1 DEF Refunds
  <2>6. CASE ConsumeCAS(t)
    <3>1. CASE remaining = old[t] /\ pc'[t] = "add"
      <4>1. /\ pc[t] = "cas" /\ amt'[t] = amt[t]
            /\ remaining' = remaining - amt[t]
            /\ UNCHANGED <<used, credited>>
        BY <1>2, <2>6, <3>1 DEF ConsumeCAS, Goto, TypeOK
      <4>. QED
        BY <1>3, <1>4, <1>5, <2>2, <2>3, <3>1, <4>1 DEF Refunds
    <3>2. CASE remaining # old[t]
      <4>1. /\ pc[t] = "cas" /\ pc'[t] = "load"
            /\ UNCHANGED <<remaining, used, credited>>
        BY <1>2, <2>6, <3>2 DEF ConsumeCAS, Goto, TypeOK
      <4>. QED
        BY <1>3, <1>4, <1>5, <2>2, <4>1 DEF Refunds
    <3>. QED
      BY <1>2, <2>6, <3>1, <3>2 DEF ConsumeCAS, Goto, TypeOK
  <2>7. CASE ConsumeAdd(t)
    <3>1. /\ pc[t] = "add" /\ pc'[t] = "idle" /\ amt'[t] = amt[t]
          /\ used' = AddUint64(used, amt[t])
          /\ UNCHANGED <<remaining, credited>>
      BY <1>2, <2>7 DEF ConsumeAdd, Goto, TypeOK
    <3>2. Flying({"add"})' + amt[t] = Flying({"add"})
      BY <1>3, <2>2, <2>3, <3>1
    <3>3. used' = used + amt[t]
      BY <1>3, <1>4, <1>5, <2>3, <3>1, <3>2 DEF AddUint64
    <3>. QED
      BY <1>3, <1>4, <1>5, <2>2, <2>3, <3>1, <3>3 DEF Refunds
  <2>8. CASE RefundBegin(t, gas)
    <3>1. /\ pc[t] = "idle" /\ pc'[t] \in {"credit", "rload"} /\ amt'[t] = gas
          /\ credited <= MaxCredit
          /\ UNCHANGED <<remaining, used, credited>>
      BY <1>2, <2>8 DEF RefundBegin, Goto, TypeOK
    <3>2. Flying(Refunds)' <= Cardinality(Threads) * m
      BY <1>2, FlyingBound DEF Flying, TypeOK
    <3>. QED
      BY <1>3, <1>4, <1>5, <2>2, <2>3, <3>1, <3>2
  <2>9. CASE RefundLoad(t)
    <3>1. /\ pc[t] = "rload" /\ pc'[t] = "rcas" /\ amt'[t] = amt[t]
          /\ UNCHANGED <<remaining, used, credited>>
      BY <1>2, <2>9 DEF RefundLoad, Goto, TypeOK
    <3>. QED
      BY <1>3, <1>4, <1>5, <2>2, <2>3, <3>1 DEF Refunds
  <2>10. CASE RefundCAS(t)
    <3>1. CASE used = old[t] /\ pc'[t] = "credit"
      <4>1. /\ pc[t] = "rcas" /\ amt'[t] = amt[t]
            /\ used' = IF used <= amt[t] THEN 0 ELSE used - amt[t]
            /\ UNCHANGED <<remaining, credited>>
        BY <1>2, <2>10, <3>1 DEF RefundCAS, Goto, TypeOK
      <4>. QED
        BY <1>3, <1>4, <1>5, <2>2, <2>3, <3>1, <4>1 DEF Refunds
    <3>2. CASE used # old[t]
      <4>1. /\ pc[t] = "rcas" /\ pc'[t] = "rload" /\ amt'[t] = amt[t]
            /\ UNCHANGED <<remaining, used, credited>>
        BY <1>2, <2>10, <3>2 DEF RefundCAS, Goto, TypeOK
      <4>. QED
        BY <1>3, <1>4, <1>5, <2>2, <2>3, <4>1 DEF Refunds
    <3>. QED
      BY <1>2, <2>10, <3>1, <3>2 DEF RefundCAS, Goto, TypeOK
  <2>11. CASE RefundCredit(t)
    <3>1. /\ pc[t] = "credit" /\ pc'[t] = "idle" /\ amt'[t] = amt[t]
          /\ remaining' = AddUint64(remaining, amt[t])
          /\ credited' = credited + amt[t]
          /\ UNCHANGED used
      BY <1>2, <2>11 DEF RefundCredit, Goto, TypeOK
    <3>2. /\ Flying(Refunds)' + amt[t] = Flying(Refunds)
          /\ Flying({"credit"})' + amt[t] = Flying({"credit"})
          /\ Flying({"add"})' = Flying({"add"})
      BY <1>3, <2>2, <2>3, <3>1 DEF Refunds
    <3>3. remaining' = remaining + amt[t]
      BY <1>3, <1>4, <1>5, <2>3, <3>1, <3>2 DEF AddUint64
    <3>. QED
      BY <1>3, <1>4, <1>5, <2>3, <3>1, <3>2, <3>3
  <2>. QED
    BY <1>8, <2>4, <2>5, <2>6, <2>7, <2>8, <2>9, <2>10, <2>11 DEF Consuming, Refunding
<1>. QED
  BY <1>7, <1>8 DEF GasNext

(* Gas is conserved by any number of goroutines: whatever the interleaving *)
(* of the loads, compare-and-swaps and adds of Consume and Refund, at      *)
(* every instant the gas that remains, that is recorded as used and that   *)
(* calls under way have taken or will give back makes up the limit, and    *)
(* exceeds it by no more than was credited, as long as no sum reaches 2^64.*)
THEOREM GasIsConserved ==
    ASSUME NEW m \in Nat, NoWrap(m)
    PROVE  GasSpec => []GasConserved
<1>1. GasInit => ConservedInv(m)
  <2> SUFFICES ASSUME GasInit PROVE ConservedInv(m)
    OBVIOUS
  <2>1. GasInv
    BY GasAssumption DEF GasInit, GasInv, TypeOK, Covered, NoOverdraft
  <2>2. /\ Where(Threads, pc, {"add"}) = {} /\ Where(Threads, pc, {"credit"}) = {}
        /\ Where(Threads, pc, Refunds) = {}
    BY DEF GasInit, Where, Refunds
  <2>3. Flying({"add"}) = 0 /\ Flying({"credit"}) = 0 /\ Flying(Refunds) = 0
    BY <2>2, SumEmpty DEF Flying
  <2>4. Cardinality(Threads) * m \in Nat
    BY FS_CardinalityType, GasAssumption
  <2>. QED
    BY <2>1, <2>3, <2>4, GasAssumption DEF GasInit, ConservedInv
<1>2. ConservedInv(m) /\ [GasNext]_gasVars => ConservedInv(m)'
  BY ConservedStep
<1>3. ConservedInv(m) => GasConserved
  BY InFlightIs DEF ConservedInv, GasConserved
<1>. QED
  BY <1>1, <1>2, <1>3, PTL DEF GasSpec

=============================================================================
