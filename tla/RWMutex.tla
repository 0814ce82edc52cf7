------------------------------ MODULE RWMutex ------------------------------
(***************************************************************************)
(* Go's sync.RWMutex, as far as the callers in this repository can tell.   *)
(* A writer first announces itself, which keeps later readers out, and     *)
(* then waits for the readers inside to leave. No lock can be taken twice: *)
(* a goroutine that asks again for a lock it holds waits for itself, a     *)
(* nested read lock waits for any writer that announced itself in between. *)
(*                                                                         *)
(* A goroutine's remaining calls are a sequence of pairs of an operation   *)
(* and a mutex; Do names a branch the goroutine has yet to choose.         *)
(***************************************************************************)
EXTENDS Integers, Sequences

CONSTANTS Goroutines, Mutexes, None

VARIABLES
    writer,    \* writer[l]: the goroutine that announced itself or holds l, or None
    excl,      \* excl[l]: the writer of l holds it
    readers,   \* readers[l][g]: how many read locks goroutine g holds on l
    todo       \* todo[g]: what goroutine g has still to do in its call

(* The sequences of calls that take a lock around a body. *)
Reading(l, body) == << <<"RLock", l>> >> \o body \o << <<"RUnlock", l>> >>
Writing(l, body) == << <<"Lock", l>> >> \o body \o << <<"Unlock", l>> >>
Do(branch)       == << <<"do", branch>> >>

LockInit ==
    /\ writer = [l \in Mutexes |-> None]
    /\ excl = [l \in Mutexes |-> FALSE]
    /\ readers = [l \in Mutexes |-> [g \in Goroutines |-> 0]]
    /\ todo = [g \in Goroutines |-> << >>]

AtCall(g, op, l) == todo[g] # << >> /\ Head(todo[g]) = <<op, l>>

Advance(g) == todo' = [todo EXCEPT ![g] = Tail(@)]

RLock(g, l) ==
    /\ AtCall(g, "RLock", l)
    /\ writer[l] = None
    /\ readers' = [readers EXCEPT ![l][g] = @ + 1]
    /\ Advance(g)
    /\ UNCHANGED <<writer, excl>>

RUnlock(g, l) ==
    /\ AtCall(g, "RUnlock", l)
    /\ readers' = [readers EXCEPT ![l][g] = @ - 1]
    /\ Advance(g)
    /\ UNCHANGED <<writer, excl>>

Announce(g, l) ==
    /\ AtCall(g, "Lock", l)
    /\ writer[l] = None
    /\ writer' = [writer EXCEPT ![l] = g]
    /\ UNCHANGED <<excl, readers, todo>>

Lock(g, l) ==
    /\ AtCall(g, "Lock", l)
    /\ writer[l] = g /\ ~excl[l]
    /\ \A h \in Goroutines : readers[l][h] = 0
    /\ excl' = [excl EXCEPT ![l] = TRUE]
    /\ Advance(g)
    /\ UNCHANGED <<writer, readers>>

Unlock(g, l) ==
    /\ AtCall(g, "Unlock", l)
    /\ writer' = [writer EXCEPT ![l] = None]
    /\ excl' = [excl EXCEPT ![l] = FALSE]
    /\ Advance(g)
    /\ UNCHANGED readers

LockStep(g) ==
    \E l \in Mutexes :
        RLock(g, l) \/ RUnlock(g, l) \/ Announce(g, l) \/ Lock(g, l) \/ Unlock(g, l)

(* Goroutine g can only go on after goroutine h has given up a lock. *)
WaitsFor(g, h) ==
    \E l \in Mutexes :
        \/ AtCall(g, "RLock", l) /\ writer[l] = h
        \/ AtCall(g, "Lock", l) /\ writer[l] = h /\ (h # g \/ excl[l])
        \/ AtCall(g, "Lock", l) /\ writer[l] = g /\ ~excl[l] /\ readers[l][h] > 0

=============================================================================
