--------------------------- MODULE MCAllocator3D ---------------------------
(***************************************************************************)
(* Model values for the runs of Allocator3D.                               *)
(***************************************************************************)
EXTENDS Allocator3D

CONSTANTS Heap, Stack   \* two region types

OneType  == {Heap}
TwoTypes == {Heap, Stack}
NoFlags  == {0}         \* no property looks at them

=============================================================================
