------------------------------- MODULE Maps --------------------------------
(***************************************************************************)
(* The assignment m[k] = v to a Go map, by which the cache, the tree and   *)
(* the memory manager record an address: the key's value is replaced, or   *)
(* the key is added.                                                       *)
(***************************************************************************)

Assigned(m, k, v) == [x \in DOMAIN m \cup {k} |-> IF x = k THEN v ELSE m[x]]

=============================================================================
