------------------------------ MODULE Prefetch ------------------------------
(***************************************************************************)
(* The goroutines that cache misses start: prefetchSpatial of              *)
(* internal/vm/spatial.go. Each walks over the addresses around the one    *)
(* that was missed, with loop variables that are as wide as the            *)
(* coordinates, and offers them in batches to a queue of limited length.   *)
(* Nothing in the repository receives from that queue.                     *)
(***************************************************************************)
EXTENDS Integers, Sequences, FiniteSets, FiniteSetsExt

CONSTANTS Goroutines,   \* the prefetches that misses start
          Centers,      \* the addresses that are missed, as <<X, Y, Z>>
          UX, UY, UZ,   \* number of values of a uint64, a uint32, a uint16
          Window,       \* SpatialCache.prefetchWindow
          Batch,        \* the literal 64: addresses of a batch
          QueueCap,     \* capacity of prefetchQueue
          MaxLen        \* bound: a batch is not counted beyond this length

ASSUME PrefetchAssumption ==
    /\ IsFiniteSet(Goroutines)
    /\ {UX, UY, UZ} \subseteq Nat \ {0}
    /\ Centers \subseteq (0 .. (UX - 1)) \X (0 .. (UY - 1)) \X (0 .. (UZ - 1))
    /\ Window \in Nat /\ 2 * Window < UX /\ 2 * Window < UY
    /\ Batch \in Nat \ {0} /\ QueueCap \in Nat
    /\ MaxLen \in Nat /\ Batch <= MaxLen

VARIABLES
    center,   \* center[g]: the argument of goroutine g
    stage,    \* stage[g]: "idle", "loop", "spin" (see Start) or "done"
    pos,      \* pos[g]: the loop variables
    addrs,    \* addrs[g]: length of the batch it collects
    queue,    \* prefetchQueue: the lengths of the batches in it
    visited,  \* history: the addresses goroutine g has collected
    thrown    \* history: length of the batch that went with goroutine g's end

prefetchVars == <<center, stage, pos, addrs, queue, visited, thrown>>

(* The bounding box: X and Y wrap around, Z is cut at both ends. *)
minX(c) == (c[1] - Window) % UX
maxX(c) == (c[1] + Window) % UX
minY(c) == (c[2] - Window) % UY
maxY(c) == (c[2] + Window) % UY
minZ(c) == IF c[3] < Window THEN 0 ELSE c[3] - Window
maxZ(c) == IF c[3] + Window > UZ - 1 THEN UZ - 1 ELSE c[3] + Window

PrefetchInit ==
    /\ center \in [Goroutines -> Centers]
    /\ stage = [g \in Goroutines |-> "idle"]
    /\ pos = [g \in Goroutines |-> <<minX(center[g]), minY(center[g]), minZ(center[g])>>]
    /\ addrs = [g \in Goroutines |-> 0]
    /\ queue = << >>
    /\ visited = [g \in Goroutines |-> {}]
    /\ thrown = [g \in Goroutines |-> 0]

(* Get misses: the goroutine starts and enters its loops. With nothing to   *)
(* do for Y, the loop over X ends unless its bound is the largest value.    *)
Start(g) ==
    LET c == center[g]
    IN  /\ stage[g] = "idle"
        /\ stage' = [stage EXCEPT ![g] =
              CASE minX(c) > maxX(c) -> "done"
                [] minX(c) <= maxX(c) /\ minY(c) <= maxY(c) -> "loop"
                [] OTHER -> IF maxX(c) = UX - 1 THEN "spin" ELSE "done"]
        /\ UNCHANGED <<center, pos, addrs, queue, visited, thrown>>

(* Mutant: the last value of every loop is left out. *)
AdvanceShort(c, p) ==
    LET z == (p[3] + 1) % UZ
        y == (p[2] + 1) % UY
        x == (p[1] + 1) % UX
    IN  CASE z < maxZ(c) -> <<"loop", <<p[1], p[2], z>>>>
          [] z >= maxZ(c) /\ y < maxY(c) -> <<"loop", <<p[1], y, minZ(c)>>>>
          [] z >= maxZ(c) /\ y >= maxY(c) /\ x < maxX(c) -> <<"loop", <<x, minY(c), minZ(c)>>>>
          [] OTHER -> <<"done", <<x, y, z>>>>

(* Mutant: the loop over the offsets is bounded by the largest offset, *)
(* which every uint16 satisfies.                                       *)
AdvanceUnbounded(c, p) == <<"loop", <<p[1], p[2], (p[3] + 1) % UZ>>>>

(* The three increments and the conditions of the three loops: where the   *)
(* goroutine goes after position p.                                        *)
Advance(c, p) ==
    LET z == (p[3] + 1) % UZ
        y == (p[2] + 1) % UY
        x == (p[1] + 1) % UX
    IN  CASE z <= maxZ(c) -> <<"loop", <<p[1], p[2], z>>>>
          [] z > maxZ(c) /\ y <= maxY(c) -> <<"loop", <<p[1], y, minZ(c)>>>>
          [] z > maxZ(c) /\ y > maxY(c) /\ x <= maxX(c) -> <<"loop", <<x, minY(c), minZ(c)>>>>
          [] OTHER -> <<"done", <<x, y, z>>>>

(* The batch after an address is added: it leaves for the queue when it is *)
(* long enough and the queue has room. If the queue has none, the batch is *)
(* kept and grows with every further address.                              *)
Sent(len) == len >= Batch /\ Len(queue) < QueueCap

Grown(len) == IF len > MaxLen THEN MaxLen ELSE len

(* Mutant: "addrs = nil" is missing after the send. *)
OfferAgain(len) == Grown(len)

Offer(len) == IF Sent(len) THEN 0 ELSE Grown(len)

(* One turn of the innermost loop. The batch is a local variable: what is  *)
(* in it when the loops end goes with the goroutine.                       *)
prefetchSpatial(g) ==
    LET next  == Advance(center[g], pos[g])
        len   == addrs[g] + 1
        ended == next[1] = "done"
    IN  /\ stage[g] = "loop"
        /\ visited' = [visited EXCEPT ![g] = @ \cup {pos[g]}]
        /\ queue' = IF Sent(len) THEN Append(queue, len) ELSE queue
        /\ addrs' = [addrs EXCEPT ![g] = IF ended THEN 0 ELSE Offer(len)]
        /\ thrown' = [thrown EXCEPT ![g] = IF ended THEN Offer(len) ELSE @]
        /\ stage' = [stage EXCEPT ![g] = next[1]]
        /\ pos' = [pos EXCEPT ![g] = next[2]]
        /\ UNCHANGED center

PrefetchNext == \E g \in Goroutines : Start(g) \/ prefetchSpatial(g)

(* Nothing blocks a goroutine, and the scheduler runs every one. *)
PrefetchSpec ==
    /\ PrefetchInit /\ [][PrefetchNext]_prefetchVars
    /\ \A g \in Goroutines : WF_prefetchVars(prefetchSpatial(g))

-----------------------------------------------------------------------------
(* Properties. *)

(* The addresses at most Window away from an address in every direction. *)
Around(c) ==
    {p \in (0 .. (UX - 1)) \X (0 .. (UY - 1)) \X (0 .. (UZ - 1)) :
        \A k \in 1 .. 3 : p[k] - c[k] \in (-Window) .. Window}

(* No loop's bound is the largest value of its type. *)
BelowTop(c) == maxX(c) < UX - 1 /\ maxY(c) < UY - 1 /\ maxZ(c) < UZ - 1

(* The box is cut off by neither wrap-around in X or Y. *)
InRange(c) == c[1] \in Window .. (UX - 1 - Window) /\ c[2] \in Window .. (UY - 1 - Window)

(* A prefetch that ends has collected every address of the neighbourhood   *)
(* of the missed one when X and Y are at least the window away from both   *)
(* ends of their range; and a prefetch none of whose loops is bounded by   *)
(* the largest value of its type never collects an address outside it.     *)
NeighbourhoodCovered ==
    \A g \in Goroutines :
        LET c == center[g]
        IN  /\ stage[g] = "done" /\ InRange(c) => visited[g] = Around(c)
            /\ BelowTop(c) => visited[g] \subseteq Around(c)

(* How many addresses each goroutine has collected. *)
Collected == [g \in Goroutines |-> Cardinality(visited[g])]

(* Every address that is collected reaches the queue once, or is in a      *)
(* batch, or was in the batch that a goroutine left behind when it ended;  *)
(* and that batch is shorter than Batch unless the queue was full.         *)
OnlyRemaindersLost ==
    /\ (\A g \in Goroutines : BelowTop(center[g]) /\ addrs[g] < MaxLen /\ thrown[g] < MaxLen) =>
           MapThenSumSet(LAMBDA i : queue[i], DOMAIN queue)
               + MapThenSumSet(LAMBDA g : addrs[g], Goroutines)
               + MapThenSumSet(LAMBDA g : thrown[g], Goroutines)
           = MapThenSumSet(LAMBDA g : Collected[g], Goroutines)
    /\ \A g \in Goroutines : thrown[g] >= Batch => Len(queue) = QueueCap

(* A prefetch ends, with the queue full as well, unless a bound of its box *)
(* is the largest value of a coordinate: "z <= maxZ" is then true of every *)
(* uint16, and the goroutine collects addresses until memory is used up.   *)
PrefetchEnds ==
    \A g \in Goroutines :
        stage[g] # "idle" /\ BelowTop(center[g]) ~> stage[g] = "done"

(* The three that follow are what the comments of spatial.go say.          *)

(* "Prefetch based on spatial locality in 3D space", with the "Prefetch    *)
(* radius in 3D space": a prefetch that ends has collected the addresses   *)
(* around the missed one, wherever that is.                                *)
NeighbourhoodFetched ==
    \A g \in Goroutines : stage[g] = "done" => visited[g] = Around(center[g])

(* "Prefetch radius in 3D space": no address is collected that is further  *)
(* than the radius from the missed one.                                    *)
WithinRadius == \A g \in Goroutines : visited[g] \subseteq Around(center[g])

(* "Queue full, skip": a batch that finds the queue full is skipped, so no *)
(* batch outgrows its length.                                              *)
BatchesBounded == \A g \in Goroutines : addrs[g] <= Batch

=============================================================================
