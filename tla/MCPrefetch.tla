----------------------------- MODULE MCPrefetch -----------------------------
(***************************************************************************)
(* Addresses for the run of Prefetch: next to the origin, where X wraps;   *)
(* where the box is cut at offset 0; inside; where its Z, its Y and its X  *)
(* reach the largest value, the last also with Y wrapping.                 *)
(***************************************************************************)
EXTENDS Prefetch

Missed == {<<0, 1, 1>>, <<1, 1, 0>>, <<2, 2, 2>>, <<1, 1, 4>>, <<1, 3, 1>>, <<3, 1, 1>>,
           <<4, 2, 2>>, <<3, 0, 1>>}

=============================================================================
