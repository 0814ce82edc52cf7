------------------------------ MODULE VMMemory ------------------------------
(***************************************************************************)
(* The memory of the virtual machine, across the components that share it: *)
(* the planes' bytes and the tracked allocations (internal/vm/             *)
(* memory_manager.go), the spatial cache and the proof tree, as the memory *)
(* instructions (internal/vm/executor.go) and the methods of VM3D          *)
(* (internal/vm/vm.go) drive them. All of these run under the machine's    *)
(* mutex, so one instruction is one step.                                  *)
(*                                                                         *)
(* The machine's regions have one plane, so every block is one run of      *)
(* bytes; the model keeps one plane and names an address by its offset.    *)
(* Blocks are placed by the plane's free map, as the allocator does it: at *)
(* the machine's own ratio of PlaneSize to U16 (65535 to 65536) the room   *)
(* check wraps and blocks may overlap or run past the plane's end; with    *)
(* Roomy they do not. A request that is served from another region is one  *)
(* that does not happen here, and one that panics ends the process. Gas,   *)
(* statistics and the access log do not influence what is stored and are   *)
(* left out: an instruction that runs out of gas, or fails a check, is one *)
(* that does not happen.                                                   *)
(***************************************************************************)
EXTENDS SpatialCache, MerkleTree, Bitmap

CONSTANTS PlaneSize,     \* bytes of the plane
          Byte,          \* the values of a byte
          LoadSizes,     \* the sizes that instructions name
          MaxData,       \* bound: the bytes of data that callers bring
          EnableProof    \* VMConfig.EnableProof

ASSUME VMMemoryAssumption ==
    /\ PlaneSize \in Nat \ {0} /\ PlaneSize < U16
    /\ Byte # {} /\ LoadSizes \subseteq Nat /\ MaxData \in Nat
    /\ Capacity \in Nat \ {0} /\ EnableProof \in BOOLEAN

(* No sum of an offset and a size wraps. *)
Roomy == 2 * PlaneSize <= U16

Addr == 0 .. (PlaneSize - 1)
Data == BoundedSeq(Byte, PlaneSize)
Given == BoundedSeq(Byte, MaxData)

VARIABLES
    plane,    \* Plane.Data
    bits,     \* Plane.FreeMap
    allocs,   \* MemoryManager.allocations: the size of the block at each address
    cache,    \* VM3D.cache
    nodes,    \* VM3D.merkleTree.nodeCache
    reg,      \* a general register
    proved    \* history: the addresses of blocks last written by a store

vars == <<plane, bits, allocs, cache, nodes, reg, proved>>

Init ==
    /\ plane \in [Addr -> {CHOOSE b \in Byte : TRUE}]
    /\ bits = {}
    /\ allocs = << >>
    /\ cache = NewSpatialCache
    /\ nodes = NewTree3D
    /\ reg = << >>
    /\ proved = {}

-----------------------------------------------------------------------------
(* MemoryManager. *)

Bytes(a, size) == [i \in 1 .. size |-> plane[a + i - 1]]

(* The plane after copy(plane.Data[a:], data). *)
Written(a, data) ==
    [z \in Addr |-> IF z \in a .. (a + Len(data) - 1) THEN data[z - a + 1] ELSE plane[z]]

(* Mutant: the block is checked and the plane's end is what limits it. *)
AccessibleInPlane(a, size) == a \in DOMAIN allocs /\ a + size <= PlaneSize

(* The checks of Load3D and Store3D: a tracked block starts at a, the size, *)
(* converted to uint16, is within it, and the plane has that many bytes.    *)
Accessible(a, size) ==
    /\ a \in DOMAIN allocs
    /\ size % U16 <= allocs[a]
    /\ a + size <= PlaneSize

(* Where a block goes: tryFastAllocation, tryYPromotion (one fragment, in a *)
(* region with one plane) and allocateNewRegion all look at the plane's     *)
(* free bytes and call Plane.Allocate. Not an offset when there is no room. *)
Placed(size) ==
    IF FreeBytes(bits, PlaneSize) < size THEN NoSpace
    ELSE FindContiguous(bits, PlaneSize, size)

Tracked(z, size) == Assigned(allocs, z, size)

(* Plane.Allocate at z and trackAllocation; a block that is tracked at the *)
(* same address is replaced.                                               *)
Granted(z, size) ==
    /\ bits' = SetRange(bits, PlaneSize, z, AddU16(z, size))
    /\ allocs' = Tracked(z, size)

Untracked(a) == Restrict(allocs, DOMAIN allocs \ {a})

NodesAfter(a, data) == IF EnableProof THEN Update(nodes, a, data) ELSE nodes

(* A store that passes the checks, with what MSTORE3D and Store3D do next. *)
Stored(a, data) ==
    /\ plane' = Written(a, data)
    /\ cache' = Put(cache, a, data)
    /\ nodes' = NodesAfter(a, data)
    /\ proved' = proved \cup {a}

-----------------------------------------------------------------------------
(* Instructions. *)

(* MOV, ADD, SUB and the like: registers come to hold any data. *)
SetRegister(data) ==
    /\ reg' = data
    /\ UNCHANGED <<plane, bits, allocs, cache, nodes, proved>>

(* A hit that is long enough answers from the cache; otherwise memory is    *)
(* read and the result cached. A read that fails has still touched the      *)
(* cache.                                                                   *)
MLoad3D(a, size) ==
    /\ UNCHANGED <<plane, bits, allocs, nodes, proved>>
    /\ \/ /\ Hit(cache, a) /\ Len(cache.map[a]) >= size
          /\ reg' = SubSeq(cache.map[a], 1, size)
          /\ cache' = Touch(cache, a)
       \/ /\ ~(Hit(cache, a) /\ Len(cache.map[a]) >= size)
          /\ \/ /\ Accessible(a, size)
                /\ reg' = Bytes(a, size)
                /\ cache' = Put(Touch(cache, a), a, Bytes(a, size))
             \/ /\ ~Accessible(a, size)
                /\ cache' = Touch(cache, a)
                /\ UNCHANGED reg

(* Mutant: the tree is given the whole register, not its first size bytes. *)
MStore3DHashesRegister(a, size) ==
    LET data == SubSeq(reg, 1, size)
    IN  /\ Len(reg) >= size
        /\ Accessible(a, size)
        /\ plane' = Written(a, data)
        /\ cache' = Put(cache, a, data)
        /\ nodes' = NodesAfter(a, reg)
        /\ proved' = proved \cup {a}
        /\ UNCHANGED <<bits, allocs, reg>>

MStore3D(a, size) ==
    LET data == SubSeq(reg, 1, size)
    IN  /\ Len(reg) >= size
        /\ Accessible(a, size)
        /\ Stored(a, data)
        /\ UNCHANGED <<bits, allocs, reg>>

(* MALLOC3D, and VM3D.AllocateMemory. The address goes to R0, which the    *)
(* model does not use for data.                                            *)
MAlloc3D(size) ==
    /\ Placed(size) \in Addr
    /\ Granted(Placed(size), size)
    /\ UNCHANGED <<plane, cache, nodes, reg, proved>>

MFree3D(a) ==
    /\ a \in DOMAIN allocs
    /\ bits' = ClearRange(bits, PlaneSize, a, AddU16(a, allocs[a]))
    /\ allocs' = Untracked(a)
    /\ cache' = Invalidate(cache, a)
    /\ proved' = proved \ {a}
    /\ UNCHANGED <<plane, nodes, reg>>

(* The tree is not told of the copy: the node of dst, if any, is about data *)
(* that is no longer there.                                                *)
MCopy3D(src, dst, size) ==
    /\ Accessible(src, size) /\ Accessible(dst, size)
    /\ plane' = Written(dst, Bytes(src, size))
    /\ cache' = Put(Put(cache, src, Bytes(src, size)), dst, Bytes(src, size))
    /\ proved' = proved \ {dst}
    /\ UNCHANGED <<bits, allocs, nodes, reg>>

-----------------------------------------------------------------------------
(* Methods of VM3D. *)

(* Where no block starts at a, one is allocated wherever there is room, and *)
(* the data goes there. If it does not fit between that place and the end   *)
(* of the plane, the store fails and the block stays.                       *)
Store3D(a, data) ==
    LET len == Len(data)
        z   == Placed(len)
    IN  /\ \/ /\ Accessible(a, len)
              /\ Stored(a, data)
              /\ UNCHANGED <<bits, allocs>>
           \/ /\ a \notin DOMAIN allocs
              /\ z \in Addr
              /\ Granted(z, len)
              /\ IF z + len <= PlaneSize THEN Stored(z, data)
                 ELSE UNCHANGED <<plane, cache, nodes, proved>>
        /\ UNCHANGED reg

(* The two methods that read the tree, as what they return. *)
GetMerkleProof(n, a) == IF EnableProof THEN GenerateProof(n, a) ELSE << >>

VerifyMemoryState(a, data, path) == EnableProof /\ VerifyProof(path, data)

-----------------------------------------------------------------------------
(* The instructions that a program can name, and the calls of an embedder. *)
Next ==
    \/ \E data \in Given : SetRegister(data)
    \/ \E a \in Addr, size \in LoadSizes : MLoad3D(a, size) \/ MStore3D(a, size)
    \/ \E size \in 1 .. PlaneSize : MAlloc3D(size)
    \/ \E a \in Addr : MFree3D(a)
    \/ \E src, dst \in Addr, size \in LoadSizes : MCopy3D(src, dst, size)
    \/ \E a \in Addr, data \in Given \ {<< >>} : Store3D(a, data)

Spec == Init /\ [][Next]_vars

-----------------------------------------------------------------------------
(* Properties. *)

(* What the cache would answer is what memory holds, and only for a block  *)
(* that is still allocated: a load through the cache never returns an      *)
(* overwritten value or the bytes of a freed block, although loads, stores *)
(* and copies of different sizes fill the same entry.                      *)
CacheCoherent ==
    \A a \in DOMAIN cache.map :
        /\ a \in DOMAIN allocs
        /\ cache.map[a] = Bytes(a, Len(cache.map[a]))

(* The bytes a step changes lie in one allocated block: the bounds checks  *)
(* of Store3D, on sizes cut to a uint16, keep a write off free memory and  *)
(* off the blocks that do not overlap this one.                            *)
WritesStayInside ==
    [][plane' # plane =>
          \E a \in DOMAIN allocs' : \A z \in Addr :
              plane'[z] # plane[z] => z \in a .. (a + allocs'[a] - 1)]_vars

(* The proof that GetMerkleProof returns for address a verifies for the    *)
(* bytes that memory holds there, some number of them, and for no other    *)
(* data.                                                                   *)
ProofFits(a) ==
    \E n \in 0 .. (PlaneSize - a) : \A data \in Data :
        VerifyMemoryState(a, data, GetMerkleProof(nodes, a)) <=> data = Bytes(a, n)

(* Between a store to a block and the block's release, or a copy over it,  *)
(* its proof fits memory, whatever loads, stores and copies to other       *)
(* blocks happen in between.                                               *)
ProofsCurrent == EnableProof => \A a \in proved : ProofFits(a)

(* "This is called whenever memory is written to", tree.go says of Update: *)
(* whatever wrote to an allocated block, if the tree has a proof for it    *)
(* then the proof fits memory.                                             *)
ProofsOfMemory == EnableProof => \A a \in DOMAIN allocs \cap DOMAIN nodes : ProofFits(a)

=============================================================================
