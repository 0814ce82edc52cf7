------------------------------- MODULE MCVM3D -------------------------------
(***************************************************************************)
(* Instructions for the run of VM3D: a cheap one, one that ends the        *)
(* program, two that may fail, one of them too dear to run twice, and one  *)
(* without a decoder.                                                      *)
(***************************************************************************)
EXTENDS VM3D

Small == {[op |-> "NOP", size |-> 0], [op |-> "HALT3D", size |-> 0],
          [op |-> "MFREE3D", size |-> 0], [op |-> "MALLOC3D", size |-> 4],
          [op |-> "MCOMPACT3D", size |-> 0]}

=============================================================================
