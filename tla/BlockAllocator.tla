--------------------------- MODULE BlockAllocator ---------------------------
(***************************************************************************)
(* What an allocator promises its callers: a request is answered with a    *)
(* block of cells that no other block in use has, a block keeps its cells  *)
(* until it is released, and a release gives up one block and no more.     *)
(* Which cells a block gets, and when a request is refused, is left open.  *)
(* This is no code of the repository but what its callers (the memory      *)
(* manager, the tests) rely on; Allocator3D is shown to implement it.      *)
(***************************************************************************)
CONSTANTS Ids,    \* names for blocks
          Cells   \* the bytes of memory

VARIABLE owned    \* owned[a]: the cells of block a, none if a is not in use

Init == owned = [a \in Ids |-> {}]

OthersStay(a) == \A b \in Ids \ {a} : owned'[b] = owned[b]

Allocate(a) ==
    /\ owned[a] = {}
    /\ owned' \in [Ids -> SUBSET Cells]
    /\ owned'[a] # {}
    /\ \A b \in Ids : owned'[a] \cap owned[b] = {}
    /\ OthersStay(a)

Free(a) ==
    /\ owned[a] # {}
    /\ owned' = [owned EXCEPT ![a] = {}]

Next == \E a \in Ids : Allocate(a) \/ Free(a)

Spec == Init /\ [][Next]_owned

=============================================================================
