---------------------------- MODULE SpatialCache ----------------------------
(***************************************************************************)
(* The cache of loaded and stored blocks: internal/vm/spatial.go.          *)
(*                                                                         *)
(* A cache is a record: map gives the data of every address in the Go map, *)
(* order is the recency list, front first. A list element is named by its  *)
(* address: the map holds at most one element for an address, and an       *)
(* element leaves the map only together with its place in the list. The    *)
(* prefetch that a miss starts does not touch the cache; see Prefetch.     *)
(***************************************************************************)
EXTENDS Integers, SequencesExt, Maps

CONSTANT Capacity   \* SpatialCache.capacity

NewSpatialCache == [map |-> << >>, order |-> << >>]

Hit(c, a) == a \in DOMAIN c.map

(* list.MoveToFront ignores an element that is no longer in the list. *)
MoveToFront(order, a) ==
    IF Contains(order, a) THEN <<a>> \o RemoveFirst(order, a) ELSE order

(* Get, as far as it changes the cache. *)
Touch(c, a) ==
    IF Hit(c, a) THEN [c EXCEPT !.order = MoveToFront(@, a)] ELSE c

(* Mutant: the data of an entry that is already cached is not replaced. *)
PutKeepsOld(c, a, data) ==
    IF Hit(c, a) THEN Touch(c, a)
    ELSE [map |-> Assigned(c.map, a, data), order |-> <<a>> \o c.order]

(* The oldest element leaves the list when the list is too long; its entry *)
(* in the map stays.                                                       *)
Put(c, a, data) ==
    LET longer == <<a>> \o c.order
    IN  IF Hit(c, a)
        THEN [map |-> [c.map EXCEPT ![a] = data], order |-> MoveToFront(c.order, a)]
        ELSE [map |-> Assigned(c.map, a, data),
              order |-> IF Len(longer) > Capacity THEN Front(longer) ELSE longer]

Invalidate(c, a) ==
    IF Hit(c, a)
    THEN [map |-> Restrict(c.map, DOMAIN c.map \ {a}), order |-> RemoveFirst(c.order, a)]
    ELSE c

=============================================================================
