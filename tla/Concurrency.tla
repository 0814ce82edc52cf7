---------------------------- MODULE Concurrency ----------------------------
(***************************************************************************)
(* The goroutines around the allocator: which locks every call takes, in   *)
(* which order and nested how, and the worker pool that serves Allocate    *)
(* when Config.EnableConcurrent is set (internal/allocator/allocator.go,   *)
(* internal/types/region.go, internal/vm/memory_manager.go, vm.go,         *)
(* executor.go).                                                           *)
(*                                                                         *)
(* Data is left out: where a call branches on what it finds in memory, the *)
(* model chooses (Do). The locks of planes, of the cache and of the tree   *)
(* are left out because nothing is acquired while one of them is held. The *)
(* region that allocateNewRegion makes is not shared until it is filled,   *)
(* so its lock is left out too.                                            *)
(***************************************************************************)
EXTENDS Integers, SequencesExt, FiniteSets

CONSTANTS Callers,     \* goroutines that call the allocator or the machine
          Workers,     \* the goroutines of startWorkers
          Regions,     \* regions that are registered from the start
          QueueCap,    \* capacity of the channel workers
          Modes,       \* "pool": allocator used directly; "machine": by a VM3D
          Calls,       \* what callers ask of the allocator besides Allocate
          None, Exited

(* Allocator3D.mu, Allocator3D.lruMutex, VM3D.mu, MemoryManager.mu. *)
Mu  == "a.mu"
LRU == "lruMutex"
VM  == "vm.mu"
MM  == "mm.mu"

ASSUME ConcurrencyAssumption ==
    /\ Callers # {} /\ Callers \cap Workers = {}
    /\ None \notin Callers \cup Workers /\ Exited \notin Callers \cup Workers \cup {None}
    /\ IsFiniteSet(Regions) /\ Regions \cap {Mu, LRU, VM, MM} = {}
    /\ QueueCap \in Nat
    /\ Modes \subseteq {"pool", "machine"} /\ Modes # {}
    /\ Calls \subseteq {"free", "report", "analyze", "hit", "grow", "add", "regionreport"}

Goroutines == Callers \cup Workers
Mutexes    == {Mu, LRU, VM, MM} \cup Regions

VARIABLES
    mode,       \* how this process uses the allocator
    writer, excl, readers, todo,
    at,         \* at[c]: where caller c is in its call
    queue,      \* the channel workers: the callers whose requests it holds
    serving,    \* serving[w]: whose request worker w works on
    results,    \* callers whose result channel holds the answer
    closed,     \* Shutdown has closed the channel
    panicked    \* a panic ended the process

INSTANCE RWMutex

lockVars == <<writer, excl, readers, todo>>
poolVars == <<queue, serving, results, closed>>
vars == <<mode, lockVars, at, poolVars, panicked>>

-----------------------------------------------------------------------------
(* The locks taken by each function. *)

(* Any registered regions, in any order: the LRU list, a Go map. *)
Paths == SetToAllKPermutations(Regions)

Read(l)    == Reading(l, << >>)
Write(l)   == Writing(l, << >>)
Scan(path) == FlattenSeq([i \in DOMAIN path |-> Read(path[i])])

promoteRegionLRU == Write(LRU)

(* Mutant: the region is promoted before the list's read lock is released. *)
tryFastAllocationHolding ==
    {Reading(LRU, Scan(p) \o promoteRegionLRU) : p \in Paths \ {<< >>}}
        \cup {Reading(LRU, Scan(p)) \o Do("ypromotion") : p \in Paths}

(* A hit ends the scan of the list; a miss goes on to Y-promotion. *)
tryFastAllocation ==
    {Reading(LRU, Scan(p)) \o promoteRegionLRU : p \in Paths \ {<< >>}}
        \cup {Reading(LRU, Scan(p)) \o Do("ypromotion") : p \in Paths}

(* The region with the most free bytes is one of those scanned. *)
Candidates == {c \in Paths \X Regions : c[2] \in ToSet(c[1])}

(* No candidate; a candidate that is served from; one whose free bytes turn *)
(* out not to be contiguous.                                                *)
tryYPromotion ==
    {Scan(p) \o Do("newregion") : p \in Paths}
        \cup {Scan(c[1]) \o Writing(c[2], promoteRegionLRU) : c \in Candidates}
        \cup {Scan(c[1]) \o Write(c[2]) \o Do("newregion") : c \in Candidates}

allocateNewRegion == {promoteRegionLRU, << >>}

allocateSync == Writing(Mu, Do("allocate"))

freeSync(r) == Writing(Mu, Write(r))

(* Region.GetCompactionReport calls Fragmentation, which locks again. *)
RegionReport(r) == Reading(r, Read(r))

GetCompactionReport(path) ==
    Reading(Mu, FlattenSeq([i \in DOMAIN path |-> RegionReport(path[i])]))

(* The allocations of the fragmented regions are listed. *)
AnalyzeCompaction(path, fragmented) ==
    Reading(Mu, FlattenSeq([i \in DOMAIN path |->
        RegionReport(path[i]) \o (IF path[i] \in fragmented THEN Read(path[i])
                                  ELSE << >>)]))

(* AllocateInRegion, "region must be locked (write lock) when calling       *)
(* this": the caller does. An existing plane has room, or one is added.     *)
AllocateInRegionHit(r)  == Writing(r, promoteRegionLRU)
AllocateInRegionGrow(r) == {Writing(r, Write(r) \o promoteRegionLRU), Writing(r, Write(r))}

AddPlane(r) == Write(r)

(* MemoryManager: a load or store asks the region for its plane. *)
Load3D(r)         == Reading(MM, Read(r))
Store3D(r)        == Writing(MM, Read(r))
UpdateAccess      == Read(MM)
getAllocation     == Read(MM)
trackAllocation   == Write(MM)
untrackAllocation == Write(MM)

(* The instructions, under the lock Execute holds. A load may hit the cache. *)
Instructions ==
    {UpdateAccess, << >>}
        \cup {Load3D(r) \o UpdateAccess : r \in Regions}
        \cup {Store3D(r) \o UpdateAccess : r \in Regions}
        \cup {allocateSync \o trackAllocation}
        \cup {getAllocation \o freeSync(r) \o untrackAllocation : r \in Regions}
        \cup {Load3D(r) \o Store3D(q) : r \in Regions, q \in Regions}
        \cup {AnalyzeCompaction(p, f) : p \in Paths, f \in SUBSET Regions}

(* The methods of VM3D: Execute, Load3D, Store3D (in place, and after       *)
(* allocating where nothing is), AllocateMemory, the reports.               *)
Methods ==
    {Writing(VM, Do("instruction"))}
        \cup {Reading(VM, Load3D(r)) : r \in Regions}
        \cup {Writing(VM, Store3D(r) \o UpdateAccess) : r \in Regions}
        \cup {Writing(VM, Write(MM) \o allocateSync \o trackAllocation
                              \o Store3D(r) \o UpdateAccess) : r \in Regions}
        \cup {Writing(VM, allocateSync \o trackAllocation)}
        \cup {Reading(VM, GetCompactionReport(p)) : p \in SetToSeqs(Regions)}
        \cup {Reading(VM, AnalyzeCompaction(p, f)) : p \in Paths, f \in SUBSET Regions}

(* The calls to the allocator, apart from Allocate, and to a region that a  *)
(* caller got from GetRegion.                                               *)
Scripts(call) ==
    CASE call = "free"    -> {freeSync(r) : r \in Regions}
      [] call = "report"  -> {GetCompactionReport(p) : p \in SetToSeqs(Regions)}
      [] call = "analyze" -> {AnalyzeCompaction(p, f) : p \in Paths, f \in SUBSET Regions}
      [] call = "hit"     -> {AllocateInRegionHit(r) : r \in Regions}
      [] call = "grow"    -> UNION {AllocateInRegionGrow(r) : r \in Regions}
      [] call = "add"     -> {AddPlane(r) : r \in Regions}
      [] call = "regionreport" -> {RegionReport(r) : r \in Regions}

AllocatorCalls == UNION {Scripts(call) : call \in Calls}

Branches(name) ==
    CASE name = "allocate"    -> tryFastAllocation
      [] name = "ypromotion"  -> tryYPromotion
      [] name = "newregion"   -> allocateNewRegion
      [] name = "instruction" -> Instructions

Choose(g) ==
    /\ todo[g] # << >> /\ Head(todo[g])[1] = "do"
    /\ \E body \in Branches(Head(todo[g])[2]) :
          todo' = [todo EXCEPT ![g] = body \o Tail(@)]
    /\ UNCHANGED <<writer, excl, readers>>

-----------------------------------------------------------------------------
Init ==
    /\ mode \in Modes
    /\ LockInit
    /\ at = [c \in Callers |-> "idle"]
    /\ queue = << >>
    /\ serving = [w \in Workers |-> IF mode = "pool" THEN None ELSE Exited]
    /\ results = {}
    /\ closed = FALSE
    /\ panicked = FALSE

Goto(c, where) == at' = [at EXCEPT ![c] = where]

Start(g, script) == todo' = [todo EXCEPT ![g] = script]

(* A step of the locks, of whatever call goroutine g is in. *)
Running(g) ==
    /\ ~panicked
    /\ \/ LockStep(g)
       \/ Choose(g)
    /\ UNCHANGED <<mode, at, poolVars, panicked>>

(* A call that the caller runs itself, from start to return. *)
Call(c) ==
    /\ ~panicked
    /\ at[c] = "idle"
    /\ Goto(c, "calling")
    /\ \E script \in IF mode = "pool" THEN AllocatorCalls ELSE Methods : Start(c, script)
    /\ UNCHANGED <<mode, writer, excl, readers, poolVars, panicked>>

Return(c) ==
    /\ ~panicked
    /\ at[c] = "calling" /\ todo[c] = << >>
    /\ Goto(c, "idle")
    /\ UNCHANGED <<mode, lockVars, poolVars, panicked>>

(* Allocate with EnableConcurrent: the request is made, then sent. *)
allocateConcurrent(c) ==
    /\ ~panicked
    /\ mode = "pool"
    /\ at[c] = "idle"
    /\ Goto(c, "select")
    /\ UNCHANGED <<mode, lockVars, poolVars, panicked>>

(* Mutant: the caller allocates itself also after it has sent the request. *)
SelectServesToo(c) ==
    /\ ~panicked
    /\ at[c] = "select"
    /\ UNCHANGED <<mode, writer, excl, readers, serving, results, closed>>
    /\ \/ /\ closed
          /\ panicked' = TRUE
          /\ UNCHANGED <<todo, at, queue>>
       \/ /\ ~closed
          /\ UNCHANGED panicked
          /\ queue' = IF Len(queue) < QueueCap THEN Append(queue, c) ELSE queue
          /\ Start(c, allocateSync)
          /\ Goto(c, "calling")

(* The select: send, or allocate here when the queue is full. *)
Select(c) ==
    /\ ~panicked
    /\ at[c] = "select"
    /\ UNCHANGED <<mode, writer, excl, readers, serving, results, closed>>
    /\ \/ /\ closed
          /\ panicked' = TRUE
          /\ UNCHANGED <<todo, at, queue>>
       \/ /\ ~closed
          /\ UNCHANGED panicked
          /\ \/ /\ Len(queue) < QueueCap
                /\ queue' = Append(queue, c)
                /\ Goto(c, "waiting")
                /\ UNCHANGED todo
             \/ /\ Len(queue) >= QueueCap
                /\ Start(c, allocateSync)
                /\ Goto(c, "calling")
                /\ UNCHANGED queue

(* The caller receives its result. *)
Receive(c) ==
    /\ ~panicked
    /\ at[c] = "waiting" /\ c \in results
    /\ Goto(c, "idle")
    /\ results' = results \ {c}
    /\ UNCHANGED <<mode, lockVars, queue, serving, closed, panicked>>

(* allocWorker: takes a request, answers it, leaves when the channel is     *)
(* closed and drained.                                                      *)
allocWorker(w) ==
    /\ ~panicked
    /\ serving[w] = None /\ queue # << >>
    /\ serving' = [serving EXCEPT ![w] = Head(queue)]
    /\ queue' = Tail(queue)
    /\ Start(w, allocateSync)
    /\ UNCHANGED <<mode, writer, excl, readers, at, results, closed, panicked>>

(* Mutant: a request that failed is not answered. *)
AnswerSuccess(w) ==
    /\ ~panicked
    /\ serving[w] \in Callers /\ todo[w] = << >>
    /\ \E ok \in BOOLEAN : results' = IF ok THEN results \cup {serving[w]} ELSE results
    /\ serving' = [serving EXCEPT ![w] = None]
    /\ UNCHANGED <<mode, lockVars, at, queue, closed, panicked>>

Answer(w) ==
    /\ ~panicked
    /\ serving[w] \in Callers /\ todo[w] = << >>
    /\ results' = results \cup {serving[w]}
    /\ serving' = [serving EXCEPT ![w] = None]
    /\ UNCHANGED <<mode, lockVars, at, queue, closed, panicked>>

(* Mutant: the worker receives from the closed channel again and again. *)
ExitSpins(w) ==
    /\ ~panicked
    /\ serving[w] = None /\ queue = << >> /\ closed
    /\ UNCHANGED vars

Exit(w) ==
    /\ ~panicked
    /\ serving[w] = None /\ queue = << >> /\ closed
    /\ serving' = [serving EXCEPT ![w] = Exited]
    /\ UNCHANGED <<mode, lockVars, at, queue, results, closed, panicked>>

(* Shutdown, which the machine calls under its lock. Closing the channel a  *)
(* second time panics.                                                      *)
Shutdown(c) ==
    /\ ~panicked
    /\ at[c] = "idle"
    /\ mode = "machine" => writer[VM] = None /\ \A g \in Goroutines : readers[VM][g] = 0
    /\ closed' = TRUE
    /\ panicked' = closed
    /\ UNCHANGED <<mode, lockVars, at, queue, serving, results>>

-----------------------------------------------------------------------------
(* What a goroutine does once it has begun. *)
CallerStep(c) == Running(c) \/ Return(c) \/ Select(c) \/ Receive(c)

WorkerStep(w) == Running(w) \/ allocWorker(w) \/ Answer(w) \/ Exit(w)

Next ==
    \/ \E c \in Callers : CallerStep(c)
    \/ \E w \in Workers : WorkerStep(w)
    \/ \E c \in Callers : Call(c) \/ allocateConcurrent(c) \/ Shutdown(c)

(***************************************************************************)
(* The scheduler runs every goroutine that can run, and Go's mutexes hand  *)
(* a lock to a goroutine that has waited for long (starvation mode), so a  *)
(* goroutine that can go on again and again does go on. Nobody has to make *)
(* a call.                                                                 *)
(***************************************************************************)
Fairness ==
    /\ \A c \in Callers : SF_vars(CallerStep(c))
    /\ \A w \in Workers : SF_vars(WorkerStep(w))

Spec     == Init /\ [][Next]_vars
FairSpec == Spec /\ Fairness

-----------------------------------------------------------------------------
(* Properties. *)

(* No group of goroutines waits for locks that only they could give up:    *)
(* the calls take the LRU lock and the region locks in both orders, nest   *)
(* them and read-lock a region twice (CHANGELOG.md: "Deadlock-free lock    *)
(* ordering").                                                             *)
NoDeadlock ==
    ~ \E stuck \in (SUBSET Goroutines) \ {{}} :
          \A g \in stuck : \E h \in stuck : WaitsFor(g, h)

(* A caller that waits for its result has its request in exactly one       *)
(* place: in the queue once, with one worker, or answered. No request is   *)
(* lost, served twice or answered to someone who did not ask, also when    *)
(* the channel is closed while requests are in it.                         *)
RequestsTracked ==
    /\ Len(queue) <= QueueCap
    /\ \A c \in Callers :
          LET places == Cardinality({i \in DOMAIN queue : queue[i] = c})
                          + Cardinality({w \in Workers : serving[w] = c})
                          + (IF c \in results THEN 1 ELSE 0)
          IN  places = IF at[c] = "waiting" THEN 1 ELSE 0

(* Every call returns: loads, stores, frees, reports and allocations, by   *)
(* the caller or by a worker, with the queue full and with the channel     *)
(* closed behind a request; unless a panic ends the process.               *)
CallsReturn == \A c \in Callers : at[c] # "idle" ~> (at[c] = "idle" \/ panicked)

(* After Shutdown the workers leave ("allowing worker goroutines to exit", *)
(* allocator.go:671), whatever was in the queue.                           *)
WorkersExit ==
    closed ~> (panicked \/ \A w \in Workers : serving[w] = Exited)

=============================================================================
