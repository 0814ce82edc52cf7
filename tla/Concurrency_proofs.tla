------------------------- MODULE Concurrency_proofs -------------------------
(***************************************************************************)
(* Two results about Concurrency, for any number of callers, workers and   *)
(* regions and any capacity of the channel, 0 included.                    *)
(*                                                                         *)
(* The worker pool loses no request and serves none twice. The locks do    *)
(* not matter here: whatever a goroutine does under them, it is at one     *)
(* place of its call.                                                      *)
(*                                                                         *)
(* No group of goroutines waits for itself. Every call takes one lock      *)
(* first (Top: a.mu, or the machine's lock) and gives it up last; inside,  *)
(* the calls take the others in whatever order. What is needed is that a   *)
(* call never waits for its own goroutine, and takes nothing exclusively   *)
(* unless it has Top exclusively. That is a property of the scripts        *)
(* (Legal), not of the order of the locks.                                 *)
(***************************************************************************)
EXTENDS Concurrency, SequenceTheorems, Sums, TLAPS

(* Where a request can be. *)
Queued(c) == \E i \in 1 .. Len(queue) : queue[i] = c

Served(c) == \E w \in Workers : serving[w] = c

PoolType ==
    /\ queue \in Seq(Callers) /\ Len(queue) <= QueueCap
    /\ serving \in [Workers -> Callers \cup {None, Exited}]
    /\ results \subseteq Callers
    /\ DOMAIN at = Callers

(* Once in the queue and with one worker. *)
OnceEach ==
    /\ \A i, j \in 1 .. Len(queue) : queue[i] = queue[j] => i = j
    /\ \A v, w \in Workers : serving[v] = serving[w] /\ serving[v] \in Callers => v = w

(* In one place, and only while the caller waits. *)
OnePlace ==
    \A c \in Callers :
        /\ Queued(c) => ~Served(c) /\ c \notin results
        /\ Served(c) => c \notin results
        /\ (at[c] = "waiting") <=> (Queued(c) \/ Served(c) \/ c \in results)

(* The inductive invariant. *)
PoolInv == PoolType /\ OnceEach /\ OnePlace

LEMMA PoolInit == Init => PoolInv
<1>. SUFFICES ASSUME Init PROVE PoolInv
  OBVIOUS
<1>1. /\ queue = << >> /\ results = {} /\ at = [c \in Callers |-> "idle"]
      /\ serving = [w \in Workers |-> IF mode = "pool" THEN None ELSE Exited]
  BY DEF Init
<1>2. PoolType
  BY <1>1, ConcurrencyAssumption DEF PoolType
<1>3. \A w \in Workers : serving[w] \notin Callers
  BY <1>1, ConcurrencyAssumption
<1>. QED
  BY <1>1, <1>2, <1>3 DEF PoolInv, OnceEach, OnePlace, Queued, Served

(* Steps that touch no request: lock steps, calls a caller runs itself.    *)
LEMMA PoolSame ==
    ASSUME PoolInv, UNCHANGED <<queue, serving, results>>,
           DOMAIN at' = Callers,
           \A c \in Callers : (at'[c] = "waiting") <=> (at[c] = "waiting")
    PROVE  PoolInv'
<1>1. PoolType' /\ OnceEach'
  BY DEF PoolInv, PoolType, OnceEach
<1>2. \A c \in Callers : (Queued(c)' <=> Queued(c)) /\ (Served(c)' <=> Served(c))
  BY DEF Queued, Served
<1>3. OnePlace'
  BY <1>2 DEF PoolInv, OnePlace
<1>. QED
  BY <1>1, <1>3 DEF PoolInv

(* The select sends the request. *)
LEMMA SendPool ==
    ASSUME PoolInv, NEW c \in Callers, at[c] = "select", Len(queue) < QueueCap,
           queue' = Append(queue, c), Goto(c, "waiting"), UNCHANGED <<serving, results>>
    PROVE  PoolInv'
<1>1. /\ queue \in Seq(Callers) /\ Len(queue) \in Nat /\ QueueCap \in Nat
      /\ DOMAIN at = Callers
  BY ConcurrencyAssumption DEF PoolInv, PoolType
<1>2. /\ queue' \in Seq(Callers) /\ Len(queue') = Len(queue) + 1
      /\ queue'[Len(queue) + 1] = c
      /\ \A i \in 1 .. Len(queue) : queue'[i] = queue[i]
  BY <1>1
<1>3. /\ at'[c] = "waiting" /\ DOMAIN at' = Callers
      /\ \A d \in Callers : d # c => at'[d] = at[d]
  BY <1>1 DEF Goto
<1>4. ~Queued(c) /\ ~Served(c) /\ c \notin results
  BY DEF PoolInv, OnePlace
<1>5. \A d \in Callers : Queued(d)' <=> (Queued(d) \/ d = c)
  <2>. SUFFICES ASSUME NEW d \in Callers
                PROVE  (\E i \in 1 .. Len(queue') : queue'[i] = d)
                          <=> ((\E i \in 1 .. Len(queue) : queue[i] = d) \/ d = c)
    BY DEF Queued
  <2>1. \A i \in 1 .. Len(queue') : i \in 1 .. Len(queue) \/ i = Len(queue) + 1
    BY <1>1, <1>2
  <2>2. Len(queue) + 1 \in 1 .. Len(queue')
    BY <1>1, <1>2
  <2>3. \A i \in 1 .. Len(queue) : i \in 1 .. Len(queue')
    BY <1>1, <1>2
  <2>. QED
    BY <1>2, <2>1, <2>2, <2>3
<1>6. PoolType'
  BY <1>1, <1>2, <1>3 DEF PoolInv, PoolType
<1>7. OnceEach'
  <2>1. ASSUME NEW i \in 1 .. Len(queue'), NEW j \in 1 .. Len(queue'), queue'[i] = queue'[j]
        PROVE  i = j
    <3>1. \A k \in 1 .. Len(queue') : k \in 1 .. Len(queue) \/ k = Len(queue) + 1
      BY <1>1, <1>2
    <3>2. \A k \in 1 .. Len(queue) : queue[k] # c
      BY <1>4 DEF Queued
    <3>. QED
      BY <1>2, <2>1, <3>1, <3>2 DEF PoolInv, OnceEach
  <2>. QED
    BY <2>1 DEF PoolInv, OnceEach
<1>8. \A d \in Callers : Served(d)' <=> Served(d)
  BY DEF Served
<1>9. OnePlace'
  <2>. SUFFICES ASSUME NEW d \in Callers
                PROVE  /\ Queued(d)' => ~Served(d)' /\ d \notin results'
                       /\ Served(d)' => d \notin results'
                       /\ (at'[d] = "waiting")
                             <=> (Queued(d)' \/ Served(d)' \/ d \in results')
    BY DEF OnePlace
  <2>. QED
    BY <1>3, <1>4, <1>5, <1>8 DEF PoolInv, OnePlace
<1>. QED
  BY <1>6, <1>7, <1>9 DEF PoolInv

(* A worker takes the request at the head of the channel. *)
LEMMA TakePool ==
    ASSUME PoolInv, NEW w \in Workers, allocWorker(w)
    PROVE  PoolInv'
<1>0. /\ serving[w] = None /\ queue # << >> /\ queue' = Tail(queue)
      /\ serving' = [serving EXCEPT ![w] = Head(queue)]
      /\ UNCHANGED <<at, results>>
  BY DEF allocWorker
<1>. DEFINE h == queue[1]
<1>1. /\ queue \in Seq(Callers) /\ Len(queue) \in Nat /\ Len(queue) > 0
      /\ QueueCap \in Nat /\ Len(queue) <= QueueCap
      /\ serving \in [Workers -> Callers \cup {None, Exited}] /\ None \notin Callers
  <2>1. queue \in Seq(Callers)
    BY DEF PoolInv, PoolType
  <2>2. Len(queue) \in Nat /\ Len(queue) > 0
    BY <1>0, <2>1, EmptySeq
  <2>. QED
    BY <2>1, <2>2, ConcurrencyAssumption DEF PoolInv, PoolType
<1>2. /\ queue' \in Seq(Callers) /\ Len(queue') = Len(queue) - 1
      /\ \A i \in 1 .. Len(queue') : queue'[i] = queue[i + 1]
      /\ h = Head(queue) /\ h \in Callers
  BY <1>0, <1>1
<1>3. serving'[w] = h /\ \A v \in Workers : v # w => serving'[v] = serving[v]
  BY <1>0, <1>1, <1>2
<1>4. Queued(h) /\ ~Served(h) /\ h \notin results
  <2>1. 1 \in 1 .. Len(queue)
    BY <1>1
  <2>2. Queued(h)
    BY <2>1 DEF Queued
  <2>. QED
    BY <1>2, <2>2 DEF PoolInv, OnePlace
<1>. HIDE DEF h
<1>5. \A d \in Callers : Queued(d)' <=> (Queued(d) /\ d # h)
  <2>1. ASSUME NEW d \in Callers, NEW i \in 1 .. Len(queue'), queue'[i] = d
        PROVE  Queued(d) /\ d # h
    <3>1. i + 1 \in 1 .. Len(queue) /\ queue[i + 1] = d /\ 1 \in 1 .. Len(queue) /\ i + 1 # 1
      BY <1>1, <1>2, <2>1
    <3>2. d # queue[1]
      BY <3>1 DEF PoolInv, OnceEach
    <3>. QED
      BY <3>1, <3>2 DEF Queued, h
  <2>2. ASSUME NEW d \in Callers, NEW i \in 1 .. Len(queue), queue[i] = d, d # h
        PROVE  \E j \in 1 .. Len(queue') : queue'[j] = d
    <3>1. i # 1
      BY <2>2 DEF h
    <3>2. i - 1 \in 1 .. Len(queue') /\ (i - 1) + 1 = i
      BY <1>1, <1>2, <3>1
    <3>3. queue'[i - 1] = queue[i]
      BY <1>2, <3>2
    <3>. QED
      BY <2>2, <3>2, <3>3
  <2>. QED
    BY <2>1, <2>2 DEF Queued
<1>6. \A d \in Callers : Served(d)' <=> (Served(d) \/ d = h)
  BY <1>0, <1>1, <1>3 DEF Served
<1>7. PoolType'
  BY <1>0, <1>1, <1>2 DEF PoolInv, PoolType
<1>8. OnceEach'
  <2>1. ASSUME NEW i \in 1 .. Len(queue'), NEW j \in 1 .. Len(queue'), queue'[i] = queue'[j]
        PROVE  i = j
    <3>1. /\ i + 1 \in 1 .. Len(queue) /\ j + 1 \in 1 .. Len(queue)
          /\ queue[i + 1] = queue[j + 1]
      BY <1>1, <1>2, <2>1
    <3>2. i + 1 = j + 1
      BY <3>1 DEF PoolInv, OnceEach
    <3>. QED
      BY <3>2
  <2>2. ASSUME NEW v \in Workers, NEW u \in Workers,
               serving'[v] = serving'[u], serving'[v] \in Callers
        PROVE  v = u
    <3>1. \A y \in Workers : serving[y] # h
      BY <1>4 DEF Served
    <3>. QED
      BY <1>3, <2>2, <3>1 DEF PoolInv, OnceEach
  <2>. QED
    BY <2>1, <2>2 DEF OnceEach
<1>9. OnePlace'
  <2>. SUFFICES ASSUME NEW d \in Callers
                PROVE  /\ Queued(d)' => ~Served(d)' /\ d \notin results'
                       /\ Served(d)' => d \notin results'
                       /\ (at'[d] = "waiting")
                             <=> (Queued(d)' \/ Served(d)' \/ d \in results')
    BY DEF OnePlace
  <2>. QED
    BY <1>0, <1>2, <1>4, <1>5, <1>6 DEF PoolInv, OnePlace
<1>. QED
  BY <1>7, <1>8, <1>9 DEF PoolInv

(* The worker answers, into the caller's own channel. *)
LEMMA AnswerPool ==
    ASSUME PoolInv, NEW w \in Workers, Answer(w)
    PROVE  PoolInv'
<1>. DEFINE h == serving[w]
<1>0. /\ h \in Callers /\ results' = results \cup {h}
      /\ serving' = [serving EXCEPT ![w] = None] /\ UNCHANGED <<queue, at>>
  BY DEF Answer
<1>1. serving \in [Workers -> Callers \cup {None, Exited}] /\ None \notin Callers
  BY ConcurrencyAssumption DEF PoolInv, PoolType
<1>2. serving'[w] = None /\ \A v \in Workers : v # w => serving'[v] = serving[v]
  BY <1>0, <1>1
<1>3. Served(h) /\ ~Queued(h) /\ h \notin results
  <2>1. Served(h)
    BY DEF Served
  <2>. QED
    BY <1>0, <2>1 DEF PoolInv, OnePlace
<1>4. \A v \in Workers : v # w => serving[v] # h
  BY <1>0 DEF PoolInv, OnceEach
<1>. HIDE DEF h
<1>5. \A d \in Callers : Served(d)' <=> (Served(d) /\ d # h)
  <2>. SUFFICES ASSUME NEW d \in Callers
                PROVE  (\E v \in Workers : serving'[v] = d)
                          <=> ((\E v \in Workers : serving[v] = d) /\ d # h)
    BY DEF Served
  <2>. QED
    BY <1>1, <1>2, <1>4 DEF h
<1>6. \A d \in Callers : Queued(d)' <=> Queued(d)
  BY <1>0 DEF Queued
<1>7. PoolType'
  BY <1>0, <1>1 DEF PoolInv, PoolType
<1>8. OnceEach'
  BY <1>0, <1>1, <1>2 DEF PoolInv, OnceEach
<1>9. OnePlace'
  <2>. SUFFICES ASSUME NEW d \in Callers
                PROVE  /\ Queued(d)' => ~Served(d)' /\ d \notin results'
                       /\ Served(d)' => d \notin results'
                       /\ (at'[d] = "waiting")
                             <=> (Queued(d)' \/ Served(d)' \/ d \in results')
    BY DEF OnePlace
  <2>. QED
    BY <1>0, <1>3, <1>5, <1>6 DEF PoolInv, OnePlace
<1>. QED
  BY <1>7, <1>8, <1>9 DEF PoolInv

LEMMA ExitPool ==
    ASSUME PoolInv, NEW w \in Workers, Exit(w)
    PROVE  PoolInv'
<1>0. /\ serving[w] = None /\ serving' = [serving EXCEPT ![w] = Exited]
      /\ UNCHANGED <<queue, at, results>>
  BY DEF Exit
<1>1. serving \in [Workers -> Callers \cup {None, Exited}]
      /\ None \notin Callers /\ Exited \notin Callers
  BY ConcurrencyAssumption DEF PoolInv, PoolType
<1>2. serving'[w] = Exited /\ \A v \in Workers : v # w => serving'[v] = serving[v]
  BY <1>0, <1>1
<1>3. \A d \in Callers : (Served(d)' <=> Served(d)) /\ (Queued(d)' <=> Queued(d))
  BY <1>0, <1>1, <1>2 DEF Served, Queued
<1>4. PoolType' /\ OnceEach'
  BY <1>0, <1>1, <1>2 DEF PoolInv, PoolType, OnceEach
<1>5. OnePlace'
  BY <1>0, <1>3 DEF PoolInv, OnePlace
<1>. QED
  BY <1>4, <1>5 DEF PoolInv

(* The caller takes its answer and goes on. *)
LEMMA ReceivePool ==
    ASSUME PoolInv, NEW c \in Callers, Receive(c)
    PROVE  PoolInv'
<1>0. /\ c \in results /\ results' = results \ {c} /\ UNCHANGED <<queue, serving>>
      /\ at' = [at EXCEPT ![c] = "idle"] /\ DOMAIN at = Callers
  BY DEF Receive, Goto, PoolInv, PoolType
<1>1. /\ at'[c] = "idle" /\ DOMAIN at' = Callers
      /\ \A d \in Callers : d # c => at'[d] = at[d]
  BY <1>0
<1>2. \A d \in Callers : (Served(d)' <=> Served(d)) /\ (Queued(d)' <=> Queued(d))
  BY <1>0 DEF Served, Queued
<1>3. PoolType' /\ OnceEach'
  BY <1>0, <1>1 DEF PoolInv, PoolType, OnceEach
<1>4. OnePlace'
  <2>. SUFFICES ASSUME NEW d \in Callers
                PROVE  /\ Queued(d)' => ~Served(d)' /\ d \notin results'
                       /\ Served(d)' => d \notin results'
                       /\ (at'[d] = "waiting")
                             <=> (Queued(d)' \/ Served(d)' \/ d \in results')
    BY DEF OnePlace
  <2>. QED
    BY <1>0, <1>1, <1>2 DEF PoolInv, OnePlace
<1>. QED
  BY <1>3, <1>4 DEF PoolInv

(* The other steps only move a caller between places where it has no       *)
(* request, or move nobody.                                                *)
LEMMA OtherPool ==
    ASSUME PoolInv, NEW c \in Callers, NEW where, at[c] # "waiting", where # "waiting",
           Goto(c, where), UNCHANGED <<queue, serving, results>>
    PROVE  PoolInv'
<1>1. /\ DOMAIN at' = Callers
      /\ \A d \in Callers : (at'[d] = "waiting") <=> (at[d] = "waiting")
  BY DEF Goto, PoolInv, PoolType
<1>. QED
  BY <1>1, PoolSame

LEMMA PoolNext == PoolInv /\ [Next]_vars => PoolInv'
<1>. SUFFICES ASSUME PoolInv, [Next]_vars PROVE PoolInv'
  OBVIOUS
<1>0. DOMAIN at = Callers
  BY DEF PoolInv, PoolType
<1>1. ASSUME UNCHANGED <<at, queue, serving, results>> PROVE PoolInv'
  BY <1>0, <1>1, PoolSame
<1>2. ASSUME NEW g, Running(g) PROVE PoolInv'
  BY <1>1, <1>2 DEF Running, poolVars
<1>3. ASSUME NEW c \in Callers, Return(c) \/ Call(c) \/ allocateConcurrent(c)
      PROVE  PoolInv'
  BY <1>3, OtherPool DEF Return, Call, allocateConcurrent, poolVars
<1>4. ASSUME NEW c \in Callers, Select(c) PROVE PoolInv'
  <2>1. at[c] = "select" /\ UNCHANGED <<serving, results>>
    BY <1>4 DEF Select
  <2>2. CASE UNCHANGED <<at, queue>>
    BY <1>1, <2>1, <2>2
  <2>3. CASE Len(queue) < QueueCap /\ queue' = Append(queue, c) /\ Goto(c, "waiting")
    BY <2>1, <2>3, SendPool
  <2>4. CASE Goto(c, "calling") /\ UNCHANGED queue
    BY <2>1, <2>4, OtherPool
  <2>. QED
    BY <1>4, <2>2, <2>3, <2>4 DEF Select
<1>5. ASSUME NEW c \in Callers, Shutdown(c) PROVE PoolInv'
  BY <1>1, <1>5 DEF Shutdown
<1>6. CASE UNCHANGED vars
  BY <1>1, <1>6 DEF vars, poolVars
<1>. QED
  BY <1>2, <1>3, <1>4, <1>5, <1>6, ReceivePool, TakePool, AnswerPool, ExitPool
     DEF Next, CallerStep, WorkerStep

(* A caller that waits has its request in exactly one place, in the queue  *)
(* once, with one worker, or answered; nobody else has a request anywhere. *)
THEOREM RequestsAreTracked == Spec => []RequestsTracked
<1>1. PoolInv => RequestsTracked
  <2>. SUFFICES ASSUME PoolInv, NEW c \in Callers
                PROVE  Cardinality({i \in DOMAIN queue : queue[i] = c})
                         + Cardinality({w \in Workers : serving[w] = c})
                         + (IF c \in results THEN 1 ELSE 0)
                       = IF at[c] = "waiting" THEN 1 ELSE 0
    BY DEF RequestsTracked, PoolInv, PoolType
  <2>. DEFINE Q == {i \in DOMAIN queue : queue[i] = c}
              W == {w \in Workers : serving[w] = c}
  <2>0. queue \in Seq(Callers) /\ DOMAIN queue = 1 .. Len(queue)
    BY DEF PoolInv, PoolType
  <2>1. Cardinality(Q) = IF Queued(c) THEN 1 ELSE 0
    <3>1. CASE Queued(c)
      <4>1. PICK i \in 1 .. Len(queue) : queue[i] = c
        BY <3>1 DEF Queued
      <4>2. Q = {i}
        BY <2>0, <4>1 DEF PoolInv, OnceEach
      <4>. QED
        BY <3>1, <4>2, FS_Singleton
    <3>2. CASE ~Queued(c)
      <4>1. Q = {}
        BY <2>0, <3>2 DEF Queued
      <4>. QED
        BY <3>2, <4>1, FS_EmptySet
    <3>. QED
      BY <3>1, <3>2
  <2>2. Cardinality(W) = IF Served(c) THEN 1 ELSE 0
    <3>1. CASE Served(c)
      <4>1. PICK w \in Workers : serving[w] = c
        BY <3>1 DEF Served
      <4>2. W = {w}
        BY <4>1 DEF PoolInv, OnceEach
      <4>. QED
        BY <3>1, <4>2, FS_Singleton
    <3>2. CASE ~Served(c)
      <4>1. W = {}
        BY <3>2 DEF Served
      <4>. QED
        BY <3>2, <4>1, FS_EmptySet
    <3>. QED
      BY <3>1, <3>2
  <2>3. /\ Queued(c) => ~Served(c) /\ c \notin results
        /\ Served(c) => c \notin results
        /\ (at[c] = "waiting") <=> (Queued(c) \/ Served(c) \/ c \in results)
    BY DEF PoolInv, OnePlace
  <2>. HIDE DEF Q, W
  <2>4. Cardinality(Q) + Cardinality(W) + (IF c \in results THEN 1 ELSE 0)
           = IF at[c] = "waiting" THEN 1 ELSE 0
    BY <2>1, <2>2, <2>3
  <2>. QED
    BY <2>4 DEF Q, W
<1>. QED
  BY <1>1, PoolInit, PoolNext, PTL DEF Spec

-----------------------------------------------------------------------------
(* Scripts and what their goroutines hold. *)

Names == {"allocate", "ypromotion", "newregion", "instruction"}
Ops   == ({"RLock", "RUnlock", "Lock", "Unlock"} \X Mutexes) \cup ({"do"} \X Names)

(* What a goroutine holds: how often it read-locks each mutex, and which   *)
(* it holds exclusively.                                                   *)
Holdings == [r : [Mutexes -> Nat], w : SUBSET Mutexes]
Nothing  == [r |-> [l \in Mutexes |-> 0], w |-> {}]

WithRead(x, l)     == [r |-> [x.r EXCEPT ![l] = @ + 1], w |-> x.w]
WithoutRead(x, l)  == [r |-> [x.r EXCEPT ![l] = @ - 1], w |-> x.w]
WithWrite(x, l)    == [r |-> x.r, w |-> x.w \cup {l}]
WithoutWrite(x, l) == [r |-> x.r, w |-> x.w \ {l}]

IsFree(x, l) == x.r[l] = 0 /\ l \notin x.w

(* Every lock is taken inside the lock t, and only under its exclusive     *)
(* side is another lock taken exclusively.                                 *)
Ruled(t, x) ==
    /\ IsFree(x, t) => x = Nothing
    /\ x.r[t] > 0 => x.w = {}

(* The next call of the script s does not wait for its own goroutine, and  *)
(* leads to a pair in R.                                                   *)
Goes(t, R, s, x) ==
    \/ \E l \in Mutexes :
          \/ /\ Head(s) = <<"RLock", l>> /\ l \notin x.w /\ (l = t => x.r[t] = 0)
             /\ <<Tail(s), WithRead(x, l)>> \in R
          \/ /\ Head(s) = <<"RUnlock", l>> /\ x.r[l] > 0
             /\ <<Tail(s), WithoutRead(x, l)>> \in R
          \/ /\ Head(s) = <<"Lock", l>> /\ IsFree(x, l)
             /\ <<Tail(s), WithWrite(x, l)>> \in R
          \/ /\ Head(s) = <<"Unlock", l>> /\ l \in x.w
             /\ <<Tail(s), WithoutWrite(x, l)>> \in R
    \/ \E n \in Names :
          /\ Head(s) = <<"do", n>>
          /\ \A b \in Branches(n) : <<b \o Tail(s), x>> \in R

Justified(t, R) ==
    \A s \in Seq(Ops), x \in Holdings : <<s, x>> \in R =>
        /\ Ruled(t, x)
        /\ IF s = << >> THEN x = Nothing ELSE Goes(t, R, s, x)

(* The scripts, with what their goroutine holds, that can be run to the    *)
(* end whatever branches are chosen: the largest set that is justified by  *)
(* its own members.                                                        *)
Legal(t) == UNION {R \in SUBSET (Seq(Ops) \X Holdings) : Justified(t, R)}

LEMMA LegalUnfold ==
    ASSUME NEW t, NEW s, NEW x, <<s, x>> \in Legal(t)
    PROVE  /\ s \in Seq(Ops) /\ x \in Holdings
           /\ Ruled(t, x)
           /\ IF s = << >> THEN x = Nothing ELSE Goes(t, Legal(t), s, x)
<1>1. PICK R \in SUBSET (Seq(Ops) \X Holdings) : Justified(t, R) /\ <<s, x>> \in R
  BY DEF Legal
<1>2. s \in Seq(Ops) /\ x \in Holdings
  BY <1>1
<1>3. Ruled(t, x) /\ IF s = << >> THEN x = Nothing ELSE Goes(t, R, s, x)
  BY <1>1, <1>2 DEF Justified
<1>4. R \subseteq Legal(t)
  BY <1>1 DEF Legal
<1>5. Goes(t, R, s, x) => Goes(t, Legal(t), s, x)
  BY <1>4, Zenon DEF Goes
<1>. QED
  BY <1>2, <1>3, <1>5

LEMMA LegalType ==
    ASSUME NEW t
    PROVE  Legal(t) \subseteq Seq(Ops) \X Holdings
  BY DEF Legal

LEMMA LegalFold ==
    ASSUME NEW t, NEW s \in Seq(Ops), NEW x \in Holdings, Ruled(t, x),
           IF s = << >> THEN x = Nothing ELSE Goes(t, Legal(t), s, x)
    PROVE  <<s, x>> \in Legal(t)
<1>. DEFINE R == Legal(t) \cup {<<s, x>>}
<1>1. R \in SUBSET (Seq(Ops) \X Holdings) /\ Legal(t) \subseteq R
  BY LegalType
<1>2. ASSUME NEW k \in Seq(Ops), NEW y \in Holdings, <<k, y>> \in R
      PROVE  /\ Ruled(t, y)
             /\ IF k = << >> THEN y = Nothing ELSE Goes(t, R, k, y)
  <2>. HIDE DEF R
  <2>1. Goes(t, Legal(t), k, y) => Goes(t, R, k, y)
    BY <1>1, Zenon DEF Goes
  <2>2. CASE <<k, y>> \in Legal(t)
    BY <2>1, <2>2, LegalUnfold
  <2>3. CASE k = s /\ y = x
    BY <2>1, <2>3
  <2>4. <<k, y>> \in Legal(t) \/ (k = s /\ y = x)
    BY <1>2 DEF R
  <2>. QED
    BY <2>2, <2>3, <2>4
<1>3. <<s, x>> \in R
  OBVIOUS
<1>. HIDE DEF R
<1>4. Justified(t, R)
  BY <1>2 DEF Justified
<1>. QED
  BY <1>1, <1>3, <1>4 DEF Legal

(* The ways to go on. *)
LEMMA GoesOn ==
    ASSUME NEW t, NEW R, NEW s, NEW x, NEW l \in Mutexes, NEW n \in Names
    PROVE  /\ /\ Head(s) = <<"RLock", l>> /\ l \notin x.w /\ (l = t => x.r[t] = 0)
              /\ <<Tail(s), WithRead(x, l)>> \in R
              => Goes(t, R, s, x)
           /\ Head(s) = <<"RUnlock", l>> /\ x.r[l] > 0 /\ <<Tail(s), WithoutRead(x, l)>> \in R
              => Goes(t, R, s, x)
           /\ Head(s) = <<"Lock", l>> /\ IsFree(x, l) /\ <<Tail(s), WithWrite(x, l)>> \in R
              => Goes(t, R, s, x)
           /\ Head(s) = <<"Unlock", l>> /\ l \in x.w /\ <<Tail(s), WithoutWrite(x, l)>> \in R
              => Goes(t, R, s, x)
           /\ Head(s) = <<"do", n>> /\ (\A b \in Branches(n) : <<b \o Tail(s), x>> \in R)
              => Goes(t, R, s, x)
BY Zenon DEF Goes

(* How the holdings change. *)
LEMMA HoldingsChange ==
    ASSUME NEW x \in Holdings, NEW l \in Mutexes
    PROVE  /\ x.r \in [Mutexes -> Nat] /\ x.w \in SUBSET Mutexes
           /\ /\ WithRead(x, l) \in Holdings /\ WithRead(x, l).w = x.w
              /\ WithRead(x, l).r[l] = x.r[l] + 1
              /\ \A k \in Mutexes \ {l} : WithRead(x, l).r[k] = x.r[k]
              /\ WithoutRead(WithRead(x, l), l) = x
           /\ /\ WithWrite(x, l) \in Holdings /\ WithWrite(x, l).r = x.r
              /\ WithWrite(x, l).w = x.w \cup {l}
              /\ l \notin x.w => WithoutWrite(WithWrite(x, l), l) = x
<1>1. x.r \in [Mutexes -> Nat] /\ x.w \in SUBSET Mutexes /\ x = [r |-> x.r, w |-> x.w]
  BY DEF Holdings
<1>2. /\ [x.r EXCEPT ![l] = @ + 1] \in [Mutexes -> Nat]
      /\ [x.r EXCEPT ![l] = @ + 1][l] = x.r[l] + 1
      /\ \A k \in Mutexes \ {l} : [x.r EXCEPT ![l] = @ + 1][k] = x.r[k]
  BY <1>1
<1>3. [[x.r EXCEPT ![l] = @ + 1] EXCEPT ![l] = @ - 1] = x.r
  <2>1. x.r[l] \in Nat /\ (x.r[l] + 1) - 1 = x.r[l]
    BY <1>1
  <2>. DEFINE a == [x.r EXCEPT ![l] = @ + 1]
              b == [a EXCEPT ![l] = @ - 1]
  <2>2. b \in [Mutexes -> Int] /\ b[l] = x.r[l] /\ \A k \in Mutexes \ {l} : b[k] = x.r[k]
    BY <1>1, <1>2, <2>1
  <2>. HIDE DEF b
  <2>3. b = x.r
    BY <1>1, <2>2
  <2>. QED
    BY <2>3 DEF b
<1>4. l \notin x.w => (x.w \cup {l}) \ {l} = x.w
  OBVIOUS
<1>5. /\ WithRead(x, l) \in Holdings /\ WithRead(x, l).w = x.w
      /\ WithRead(x, l).r = [x.r EXCEPT ![l] = @ + 1]
  BY <1>1, <1>2 DEF WithRead, Holdings
<1>6. WithoutRead(WithRead(x, l), l) = x
  BY <1>1, <1>3, <1>5 DEF WithoutRead
<1>7. /\ WithWrite(x, l) \in Holdings /\ WithWrite(x, l).r = x.r
      /\ WithWrite(x, l).w = x.w \cup {l}
  BY <1>1 DEF WithWrite, Holdings
<1>8. l \notin x.w => WithoutWrite(WithWrite(x, l), l) = x
  BY <1>1, <1>4, <1>7 DEF WithoutWrite
<1>. QED
  BY <1>1, <1>2, <1>5, <1>6, <1>7, <1>8

LEMMA NothingHeld ==
    /\ Nothing \in Holdings /\ Nothing.w = {}
    /\ \A l \in Mutexes : Nothing.r[l] = 0 /\ IsFree(Nothing, l)
    /\ \A t \in Mutexes : Ruled(t, Nothing)
BY DEF Nothing, Holdings, IsFree, Ruled

-----------------------------------------------------------------------------
(* Parts of scripts that run inside the lock t, take no locks but those in *)
(* L, and exclusively none but those in W: wherever none of them is in the *)
(* way, they can be put in front of whatever can be run.                   *)
Fits(t, x, L, W) ==
    /\ Ruled(t, x) /\ ~IsFree(x, t) /\ t \notin L
    /\ \A l \in L : l \notin x.w
    /\ \A l \in W : x.r[l] = 0
    /\ W # {} => t \in x.w

Body(t, L, W) ==
    {s \in Seq(Ops) : \A x \in Holdings, k \in Seq(Ops) :
        Fits(t, x, L, W) /\ <<k, x>> \in Legal(t) => <<s \o k, x>> \in Legal(t)}

(* GoesOn names a branch also where none is chosen. *)
LEMMA AName == "allocate" \in Names
BY DEF Names

LEMMA FirstCall ==
    ASSUME NEW e \in Ops, NEW k \in Seq(Ops)
    PROVE  /\ <<e>> \o k \in Seq(Ops) /\ <<e>> \o k # << >>
           /\ Head(<<e>> \o k) = e /\ Tail(<<e>> \o k) = k
<1>1. <<e>> \in Seq(Ops) /\ Len(<<e>>) = 1 /\ <<e>>[1] = e /\ Len(k) \in Nat
  OBVIOUS
<1>2. /\ <<e>> \o k \in Seq(Ops) /\ Len(<<e>> \o k) = 1 + Len(k)
      /\ \A i \in 1 .. 1 + Len(k) : (<<e>> \o k)[i] = IF i <= 1 THEN <<e>>[i] ELSE k[i - 1]
  BY <1>1, ConcatProperties
<1>. DEFINE s == <<e>> \o k
<1>3. s # << >>
  BY <1>1, <1>2, EmptySeq
<1>. HIDE DEF s
<1>4. s \in Seq(Ops) /\ Len(s) = 1 + Len(k)
      /\ \A i \in 1 .. 1 + Len(k) : s[i] = IF i <= 1 THEN e ELSE k[i - 1]
  BY <1>1, <1>2 DEF s
<1>5. Head(s) = e
  BY <1>1, <1>4
<1>6. Tail(s) \in Seq(Ops) /\ Len(Tail(s)) = Len(k)
      /\ \A i \in 1 .. Len(k) : Tail(s)[i] = k[i]
  BY <1>1, <1>3, <1>4, HeadTailProperties
<1>7. Tail(s) = k
  BY <1>6, SeqEqual
<1>. QED
  BY <1>2, <1>3, <1>5, <1>7 DEF s

LEMMA BodyEmpty ==
    ASSUME NEW t, NEW L, NEW W
    PROVE  << >> \in Body(t, L, W)
<1>1. \A k \in Seq(Ops) : << >> \o k = k
  BY ConcatEmptySeq
<1>. QED
  BY <1>1, EmptySeq, Zenon DEF Body

LEMMA BodyConcat ==
    ASSUME NEW t, NEW L, NEW W, NEW s \in Body(t, L, W), NEW u \in Body(t, L, W)
    PROVE  s \o u \in Body(t, L, W)
<1>1. s \in Seq(Ops) /\ u \in Seq(Ops)
  BY Zenon DEF Body
<1>2. s \o u \in Seq(Ops)
  BY <1>1, ConcatProperties
<1>3. ASSUME NEW x \in Holdings, NEW k \in Seq(Ops), Fits(t, x, L, W), <<k, x>> \in Legal(t)
      PROVE  <<(s \o u) \o k, x>> \in Legal(t)
  <2>1. (s \o u) \o k = s \o (u \o k) /\ u \o k \in Seq(Ops)
    BY <1>1, ConcatAssociative, ConcatProperties
  <2>2. <<u \o k, x>> \in Legal(t)
    BY <1>3, Zenon DEF Body
  <2>3. <<s \o (u \o k), x>> \in Legal(t)
    BY <1>3, <2>1, <2>2, Zenon DEF Body
  <2>. QED
    BY <2>1, <2>3, Zenon
<1>. QED
  BY <1>2, <1>3, Zenon DEF Body

LEMMA BodyMonotone ==
    ASSUME NEW t, NEW M, NEW V, NEW L \in SUBSET M, NEW W \in SUBSET V,
           t \notin M, NEW s \in Body(t, L, W)
    PROVE  s \in Body(t, M, V)
<1>1. \A x \in Holdings : Fits(t, x, M, V) => Fits(t, x, L, W)
  BY Zenon DEF Fits
<1>. QED
  BY <1>1, Zenon DEF Body

(* A read lock around a body that does not take it exclusively. *)
LEMMA BodyRead ==
    ASSUME NEW t \in Mutexes, NEW L, NEW W, NEW l \in Mutexes, l \in L,
           NEW s \in Body(t, L, W \ {l})
    PROVE  Reading(l, s) \in Body(t, L, W)
<1>. DEFINE e == <<"RLock", l>>
            f == <<"RUnlock", l>>
<1>0. e \in Ops /\ f \in Ops
  BY DEF Ops
<1>. HIDE DEF e, f
<1>1. s \in Seq(Ops) /\ <<e>> \in Seq(Ops) /\ <<f>> \in Seq(Ops)
  BY <1>0 DEF Body
<1>2. Reading(l, s) = (<<e>> \o s) \o <<f>> /\ Reading(l, s) \in Seq(Ops)
  <2>1. Reading(l, s) = (<<e>> \o s) \o <<f>>
    BY DEF Reading, e, f
  <2>. QED
    BY <1>1, <2>1, ConcatProperties
<1>3. ASSUME NEW x \in Holdings, NEW k \in Seq(Ops), Fits(t, x, L, W), <<k, x>> \in Legal(t)
      PROVE  <<Reading(l, s) \o k, x>> \in Legal(t)
  <2>. DEFINE y == WithRead(x, l)
              k2 == <<f>> \o k
              k1 == s \o k2
              k0 == <<e>> \o k1
  <2>1. k2 \in Seq(Ops) /\ k1 \in Seq(Ops) /\ k0 \in Seq(Ops)
    BY <1>1, ConcatProperties
  <2>2. Reading(l, s) \o k = k0
    <3>1. ((<<e>> \o s) \o <<f>>) \o k = (<<e>> \o s) \o k2
      BY <1>1, ConcatProperties, ConcatAssociative
    <3>2. (<<e>> \o s) \o k2 = k0
      BY <1>1, <2>1, ConcatAssociative
    <3>. QED
      BY <1>2, <3>1, <3>2
  <2>3. /\ x.r \in [Mutexes -> Nat] /\ y \in Holdings /\ y.w = x.w
        /\ y.r[l] = x.r[l] + 1 /\ WithoutRead(y, l) = x
        /\ \A m \in Mutexes \ {l} : y.r[m] = x.r[m]
    BY HoldingsChange
  <2>. HIDE DEF y, k2, k1, k0
  <2>4. l # t /\ l \notin x.w /\ Ruled(t, x) /\ ~IsFree(x, t)
    BY <1>3 DEF Fits
  <2>5. Ruled(t, y) /\ ~IsFree(y, t)
    BY <2>3, <2>4 DEF Ruled, IsFree
  <2>6. Fits(t, y, L, W \ {l})
    <3>1. ASSUME NEW m \in W \ {l} PROVE y.r[m] = 0
      <4>1. x.r[m] = 0
        BY <1>3 DEF Fits
      <4>2. CASE m \in Mutexes
        BY <2>3, <4>1, <4>2
      <4>3. CASE m \notin Mutexes
        BY <2>3, <4>1, <4>3 DEF y, WithRead
      <4>. QED
        BY <4>2, <4>3
    <3>. QED
      BY <1>3, <2>3, <2>5, <3>1 DEF Fits
  <2>7. <<k2, y>> \in Legal(t)
    <3>1. k2 # << >> /\ Head(k2) = f /\ Tail(k2) = k
      BY <1>0, FirstCall DEF k2
    <3>2. x.r[l] \in Nat /\ y.r[l] > 0
      BY <2>3
    <3>3. Goes(t, Legal(t), k2, y)
      BY <1>3, <2>3, <3>1, <3>2, AName, GoesOn DEF f
    <3>. QED
      BY <2>1, <2>3, <2>5, <3>1, <3>3, LegalFold
  <2>8. <<k1, y>> \in Legal(t)
    BY <2>1, <2>3, <2>6, <2>7, Zenon DEF Body, k1
  <2>9. <<k0, x>> \in Legal(t)
    <3>1. k0 # << >> /\ Head(k0) = e /\ Tail(k0) = k1
      BY <1>0, <2>1, FirstCall DEF k0
    <3>2. Goes(t, Legal(t), k0, x)
      BY <2>4, <2>8, <3>1, AName, GoesOn DEF e, y
    <3>. QED
      BY <2>1, <2>4, <3>1, <3>2, LegalFold
  <2>. QED
    BY <2>2, <2>9
<1>. QED
  BY <1>2, <1>3, Zenon DEF Body

(* An exclusive lock around a body that does not take it again. *)
LEMMA BodyWrite ==
    ASSUME NEW t \in Mutexes, NEW L, NEW W, W \subseteq Mutexes,
           NEW l \in Mutexes, l \in L, l \in W,
           NEW s \in Body(t, L \ {l}, W \ {l})
    PROVE  Writing(l, s) \in Body(t, L, W)
<1>. DEFINE e == <<"Lock", l>>
            f == <<"Unlock", l>>
<1>0. e \in Ops /\ f \in Ops
  BY DEF Ops
<1>. HIDE DEF e, f
<1>1. s \in Seq(Ops) /\ <<e>> \in Seq(Ops) /\ <<f>> \in Seq(Ops)
  BY <1>0 DEF Body
<1>2. Writing(l, s) = (<<e>> \o s) \o <<f>> /\ Writing(l, s) \in Seq(Ops)
  <2>1. Writing(l, s) = (<<e>> \o s) \o <<f>>
    BY DEF Writing, e, f
  <2>. QED
    BY <1>1, <2>1, ConcatProperties
<1>3. ASSUME NEW x \in Holdings, NEW k \in Seq(Ops), Fits(t, x, L, W), <<k, x>> \in Legal(t)
      PROVE  <<Writing(l, s) \o k, x>> \in Legal(t)
  <2>. DEFINE y == WithWrite(x, l)
              k2 == <<f>> \o k
              k1 == s \o k2
              k0 == <<e>> \o k1
  <2>1. k2 \in Seq(Ops) /\ k1 \in Seq(Ops) /\ k0 \in Seq(Ops)
    BY <1>1, ConcatProperties
  <2>2. Writing(l, s) \o k = k0
    <3>1. ((<<e>> \o s) \o <<f>>) \o k = (<<e>> \o s) \o k2
      BY <1>1, ConcatProperties, ConcatAssociative
    <3>2. (<<e>> \o s) \o k2 = k0
      BY <1>1, <2>1, ConcatAssociative
    <3>. QED
      BY <1>2, <3>1, <3>2
  <2>4. l # t /\ l \notin x.w /\ x.r[l] = 0 /\ Ruled(t, x) /\ ~IsFree(x, t) /\ t \in x.w
    BY <1>3 DEF Fits
  <2>3. /\ x.r \in [Mutexes -> Nat] /\ x.w \in SUBSET Mutexes
        /\ y \in Holdings /\ y.r = x.r
        /\ y.w = x.w \cup {l} /\ WithoutWrite(y, l) = x
    BY <2>4, HoldingsChange
  <2>. HIDE DEF y, k2, k1, k0
  <2>5. Ruled(t, y) /\ ~IsFree(y, t)
    BY <2>3, <2>4 DEF Ruled, IsFree
  <2>6. Fits(t, y, L \ {l}, W \ {l})
    BY <1>3, <2>3, <2>4, <2>5 DEF Fits
  <2>7. <<k2, y>> \in Legal(t)
    <3>1. k2 # << >> /\ Head(k2) = f /\ Tail(k2) = k
      BY <1>0, FirstCall DEF k2
    <3>3. Goes(t, Legal(t), k2, y)
      BY <1>3, <2>3, <3>1, AName, GoesOn DEF f
    <3>. QED
      BY <2>1, <2>3, <2>5, <3>1, <3>3, LegalFold
  <2>8. <<k1, y>> \in Legal(t)
    BY <2>1, <2>3, <2>6, <2>7, Zenon DEF Body, k1
  <2>9. <<k0, x>> \in Legal(t)
    <3>1. k0 # << >> /\ Head(k0) = e /\ Tail(k0) = k1
      BY <1>0, <2>1, FirstCall DEF k0
    <3>2. Goes(t, Legal(t), k0, x)
      BY <2>4, <2>8, <3>1, AName, GoesOn DEF e, y, IsFree
    <3>. QED
      BY <2>1, <2>4, <3>1, <3>2, LegalFold
  <2>. QED
    BY <2>2, <2>9
<1>. QED
  BY <1>2, <1>3, Zenon DEF Body

(* A choice whose branches are such bodies. *)
LEMMA BodyDo ==
    ASSUME NEW t \in Mutexes, NEW L, NEW W, NEW n \in Names,
           Branches(n) \subseteq Body(t, L, W)
    PROVE  Do(n) \in Body(t, L, W)
<1>. DEFINE e == <<"do", n>>
<1>0. e \in Ops /\ <<e>> \in Seq(Ops) /\ Do(n) = <<e>>
  BY DEF Ops, Do
<1>. HIDE DEF e
<1>3. ASSUME NEW x \in Holdings, NEW k \in Seq(Ops), Fits(t, x, L, W), <<k, x>> \in Legal(t)
      PROVE  <<<<e>> \o k, x>> \in Legal(t)
  <2>. DEFINE k0 == <<e>> \o k
  <2>1. k0 \in Seq(Ops) /\ k0 # << >> /\ Head(k0) = e /\ Tail(k0) = k
    BY <1>0, FirstCall
  <2>. HIDE DEF k0
  <2>2. \A b \in Branches(n) : <<b \o k, x>> \in Legal(t)
    BY <1>3, Zenon DEF Body
  <2>3. Goes(t, Legal(t), k0, x)
    BY <2>1, <2>2, AName, GoesOn DEF e
  <2>4. Ruled(t, x)
    BY <1>3 DEF Fits
  <2>5. <<k0, x>> \in Legal(t)
    BY <2>1, <2>3, <2>4, LegalFold
  <2>. QED
    BY <2>5 DEF k0
<1>. QED
  BY <1>0, <1>3, Zenon DEF Body

(* A method that takes t around such a body, called with no lock held. *)
LEMMA TopWrite ==
    ASSUME NEW t \in Mutexes, NEW L, NEW W, W \subseteq Mutexes, t \notin L,
           NEW s \in Body(t, L, W)
    PROVE  <<Writing(t, s), Nothing>> \in Legal(t)
<1>. DEFINE e == <<"Lock", t>>
            f == <<"Unlock", t>>
<1>0. e \in Ops /\ f \in Ops
  BY DEF Ops
<1>. HIDE DEF e, f
<1>1. s \in Seq(Ops) /\ <<e>> \in Seq(Ops) /\ <<f>> \in Seq(Ops)
  BY <1>0 DEF Body
<1>. DEFINE y == WithWrite(Nothing, t)
            k1 == s \o <<f>>
            k0 == <<e>> \o k1
<1>2. k1 \in Seq(Ops) /\ k0 \in Seq(Ops)
  BY <1>1, ConcatProperties
<1>3. Writing(t, s) = k0
  <2>1. Writing(t, s) = (<<e>> \o s) \o <<f>>
    BY DEF Writing, e, f
  <2>2. (<<e>> \o s) \o <<f>> = <<e>> \o (s \o <<f>>)
    BY <1>1, ConcatAssociative
  <2>. QED
    BY <2>1, <2>2
<1>4. /\ y \in Holdings /\ y.r = Nothing.r /\ y.w = {t} /\ WithoutWrite(y, t) = Nothing
  <2>1. Nothing \in Holdings /\ Nothing.w = {}
    BY NothingHeld
  <2>2. /\ y \in Holdings /\ y.r = Nothing.r /\ y.w = Nothing.w \cup {t}
        /\ t \notin Nothing.w => WithoutWrite(y, t) = Nothing
    BY <2>1, HoldingsChange
  <2>. QED
    BY <2>1, <2>2
<1>5. Ruled(t, y) /\ ~IsFree(y, t)
  BY <1>4, NothingHeld DEF Ruled, IsFree
<1>. HIDE DEF y, k1, k0
<1>6. Fits(t, y, L, W)
  BY <1>4, <1>5, NothingHeld DEF Fits
<1>7. << << >>, Nothing>> \in Legal(t)
  BY LegalFold, NothingHeld, EmptySeq
<1>8. <<<<f>>, y>> \in Legal(t)
  <2>1. <<f>> # << >> /\ Head(<<f>>) = f /\ Tail(<<f>>) = << >>
    OBVIOUS
  <2>2. Goes(t, Legal(t), <<f>>, y)
    BY <1>4, <1>7, <2>1, AName, GoesOn DEF f
  <2>. QED
    BY <1>1, <1>4, <1>5, <2>1, <2>2, LegalFold
<1>9. <<k1, y>> \in Legal(t)
  BY <1>1, <1>4, <1>6, <1>8, Zenon DEF Body, k1
<1>10. <<k0, Nothing>> \in Legal(t)
  <2>1. k0 # << >> /\ Head(k0) = e /\ Tail(k0) = k1
    BY <1>0, <1>2, FirstCall DEF k0
  <2>2. Goes(t, Legal(t), k0, Nothing)
    BY <1>9, <2>1, NothingHeld, AName, GoesOn DEF e, y
  <2>. QED
    BY <1>2, <2>1, <2>2, NothingHeld, LegalFold
<1>. QED
  BY <1>3, <1>10

LEMMA TopRead ==
    ASSUME NEW t \in Mutexes, NEW L, t \notin L, NEW s \in Body(t, L, {})
    PROVE  <<Reading(t, s), Nothing>> \in Legal(t)
<1>. DEFINE e == <<"RLock", t>>
            f == <<"RUnlock", t>>
<1>0. e \in Ops /\ f \in Ops
  BY DEF Ops
<1>. HIDE DEF e, f
<1>1. s \in Seq(Ops) /\ <<e>> \in Seq(Ops) /\ <<f>> \in Seq(Ops)
  BY <1>0 DEF Body
<1>. DEFINE y == WithRead(Nothing, t)
            k1 == s \o <<f>>
            k0 == <<e>> \o k1
<1>2. k1 \in Seq(Ops) /\ k0 \in Seq(Ops)
  BY <1>1, ConcatProperties
<1>3. Reading(t, s) = k0
  <2>1. Reading(t, s) = (<<e>> \o s) \o <<f>>
    BY DEF Reading, e, f
  <2>2. (<<e>> \o s) \o <<f>> = <<e>> \o (s \o <<f>>)
    BY <1>1, ConcatAssociative
  <2>. QED
    BY <2>1, <2>2
<1>4. /\ y \in Holdings /\ y.r[t] = 1 /\ y.w = {} /\ WithoutRead(y, t) = Nothing
  <2>1. Nothing \in Holdings /\ Nothing.w = {} /\ Nothing.r[t] = 0
    BY NothingHeld
  <2>2. /\ y \in Holdings /\ y.r[t] = Nothing.r[t] + 1 /\ y.w = Nothing.w
        /\ WithoutRead(y, t) = Nothing
    BY <2>1, HoldingsChange
  <2>. QED
    BY <2>1, <2>2
<1>5. Ruled(t, y) /\ ~IsFree(y, t)
  BY <1>4 DEF Ruled, IsFree
<1>. HIDE DEF y, k1, k0
<1>6. Fits(t, y, L, {})
  BY <1>4, <1>5 DEF Fits
<1>7. << << >>, Nothing>> \in Legal(t)
  BY LegalFold, NothingHeld, EmptySeq
<1>8. <<<<f>>, y>> \in Legal(t)
  <2>1. <<f>> # << >> /\ Head(<<f>>) = f /\ Tail(<<f>>) = << >>
    OBVIOUS
  <2>2. y.r[t] > 0
    BY <1>4
  <2>3. Goes(t, Legal(t), <<f>>, y)
    BY <1>4, <1>7, <2>1, <2>2, AName, GoesOn DEF f
  <2>. QED
    BY <1>1, <1>4, <1>5, <2>1, <2>3, LegalFold
<1>9. <<k1, y>> \in Legal(t)
  BY <1>1, <1>4, <1>6, <1>8, Zenon DEF Body, k1
<1>10. <<k0, Nothing>> \in Legal(t)
  <2>1. k0 # << >> /\ Head(k0) = e /\ Tail(k0) = k1
    BY <1>0, <1>2, FirstCall DEF k0
  <2>2. t \notin Nothing.w /\ Nothing.r[t] = 0
    BY NothingHeld
  <2>3. Goes(t, Legal(t), k0, Nothing)
    BY <1>9, <2>1, <2>2, AName, GoesOn DEF e, y
  <2>. QED
    BY <1>2, <2>1, <2>3, NothingHeld, LegalFold
<1>. QED
  BY <1>3, <1>10

(* Bodies one after the other. *)
LEMMA FlattenClosed ==
    ASSUME NEW S, << >> \in S, \A a, b \in S : a \o b \in S, NEW seqs \in Seq(S)
    PROVE  FlattenSeq(seqs) \in S
<1>. DEFINE n == Len(seqs)
            Rule(f, m) == f = [i \in 1 .. m |-> IF i = 1 THEN seqs[i] ELSE f[i - 1] \o seqs[i]]
<1>1. n \in Nat /\ \A i \in 1 .. n : seqs[i] \in S
  BY LenProperties, ElementOfSeq
<1>2. CASE n = 0
  <2>1. seqs = << >>
    BY <1>2, EmptySeq
  <2>. QED
    BY <1>2, <2>1 DEF FlattenSeq
<1>3. CASE n > 0
  <2>1. \E f : Rule(f, n)
    <3>. DEFINE Bad == {m \in Nat : ~ \E f : Rule(f, m)}
    <3>0. Bad \in SUBSET Nat
      OBVIOUS
    <3>1. ASSUME Bad # {} PROVE FALSE
      <4>1. PICK m \in Bad : \A k \in Bad : m <= k
        <5>. HIDE DEF Bad
        <5>. QED
          BY <3>0, <3>1, LeastNat
      <4>2. m # 0
        <5>. DEFINE f0 == [i \in 1 .. 0 |-> << >>]
        <5>1. Rule(f0, 0)
          OBVIOUS
        <5>. QED
          BY <5>1
      <4>3. m \in Nat /\ m - 1 \in Nat /\ m - 1 \notin Bad
        <5>. HIDE DEF Bad
        <5>. QED
          BY <3>0, <4>1, <4>2
      <4>4. PICK f : Rule(f, m - 1)
        BY <4>3
      <4>. DEFINE g == [i \in 1 .. m |->
                          IF i = m THEN (IF i = 1 THEN seqs[i] ELSE f[i - 1] \o seqs[i])
                          ELSE f[i]]
      <4>5. ASSUME NEW i \in 1 .. m
            PROVE  g[i] = IF i = 1 THEN seqs[i] ELSE g[i - 1] \o seqs[i]
        <5>1. CASE i = 1 /\ i = m
          BY <5>1
        <5>2. CASE i = 1 /\ i # m
          <6>1. i \in 1 .. m - 1
            BY <4>3, <5>2
          <6>. QED
            BY <4>4, <5>2, <6>1
        <5>3. CASE i # 1
          <6>1. i - 1 \in 1 .. m /\ i - 1 # m /\ i - 1 \in 1 .. m - 1 /\ (i # m => i \in 1 .. m - 1)
            BY <4>3, <5>3
          <6>2. g[i - 1] = f[i - 1]
            BY <6>1
          <6>3. i # m => f[i] = f[i - 1] \o seqs[i]
            BY <4>4, <5>3, <6>1
          <6>. QED
            BY <5>3, <6>2, <6>3
        <5>. QED
          BY <5>1, <5>2, <5>3
      <4>6. g = [i \in 1 .. m |-> g[i]]
        OBVIOUS
      <4>. HIDE DEF g
      <4>7. Rule(g, m)
        BY <4>5, <4>6
      <4>. QED
        BY <4>7
    <3>. QED
      BY <1>1, <3>1
  <2>. DEFINE f == CHOOSE g : Rule(g, n)
  <2>2. Rule(f, n)
    BY <2>1
  <2>3. FlattenSeq(seqs) = f[n]
    BY <1>3 DEF FlattenSeq
  <2>. HIDE DEF f
  <2>. DEFINE Out == {i \in Nat : i \in 1 .. n /\ f[i] \notin S}
  <2>4. ASSUME Out # {} PROVE FALSE
    <3>1. PICK m \in Out : \A k \in Out : m <= k
      BY <2>4, LeastNat
    <3>0. f[m] \notin S
      OBVIOUS
    <3>2. m \in 1 .. n /\ f[m] = IF m = 1 THEN seqs[m] ELSE f[m - 1] \o seqs[m]
      BY <2>2, <3>1
    <3>3. m # 1
      BY <1>1, <3>1, <3>2
    <3>4. m - 1 \in 1 .. n /\ m - 1 \notin Out
      BY <1>1, <3>1, <3>2, <3>3
    <3>5. f[m - 1] \in S /\ seqs[m] \in S
      BY <1>1, <3>2, <3>4
    <3>6. f[m - 1] \o seqs[m] \in S
      BY <3>5, Zenon
    <3>. QED
      BY <3>0, <3>2, <3>3, <3>6
  <2>5. n \in 1 .. n
    BY <1>1, <1>3
  <2>. QED
    BY <2>3, <2>4, <2>5
<1>. QED
  BY <1>1, <1>2, <1>3

-----------------------------------------------------------------------------
(* The scripts of Concurrency are such bodies. *)
Inner == {LRU} \cup Regions
Outer == {MM, Mu, LRU} \cup Regions

LEMMA MutexesDiffer ==
    /\ Mu # LRU /\ Mu # VM /\ Mu # MM /\ LRU # VM /\ LRU # MM /\ VM # MM
    /\ Mu \notin Regions /\ LRU \notin Regions /\ VM \notin Regions /\ MM \notin Regions
    /\ Inner \subseteq Mutexes /\ Outer \subseteq Mutexes /\ Inner \subseteq Outer \ {Mu}
    /\ Mu \in Mutexes /\ VM \in Mutexes /\ MM \in Mutexes /\ LRU \in Mutexes
    /\ Regions \subseteq Inner
<1>1. Mu # LRU /\ Mu # VM /\ Mu # MM /\ LRU # VM /\ LRU # MM /\ VM # MM
  BY DEF Mu, LRU, VM, MM
<1>2. Regions \cap {Mu, LRU, VM, MM} = {}
  BY ConcurrencyAssumption
<1>. QED
  BY <1>1, <1>2, Zenon DEF Inner, Outer, Mutexes

(* Any registered regions in any order. *)
LEMMA PathsAreSeqs ==
    /\ Paths \subseteq Seq(Regions)
    /\ SetToSeqs(Regions) \subseteq Seq(Regions)
<1>1. ASSUME NEW Q \in SUBSET Regions PROVE SetToSeqs(Q) \subseteq Seq(Regions)
  <2>1. IsFiniteSet(Q)
    BY ConcurrencyAssumption, FS_Subset
  <2>2. Cardinality(Q) \in Nat
    BY <2>1, FS_CardinalityType
  <2>3. SetToSeqs(Q) \subseteq [1 .. Cardinality(Q) -> Q]
    BY DEF SetToSeqs
  <2>4. [1 .. Cardinality(Q) -> Q] \subseteq Seq(Q)
    BY <2>2
  <2>5. Seq(Q) \subseteq Seq(Regions)
    BY SeqMonotonic
  <2>. QED
    BY <2>3, <2>4, <2>5
<1>. QED
  BY <1>1 DEF Paths, SetToAllKPermutations

LEMMA ReadBody ==
    ASSUME NEW t \in Mutexes, NEW L \in SUBSET Mutexes, NEW W, NEW l \in L
    PROVE  Read(l) \in Body(t, L, W)
BY BodyEmpty, BodyRead DEF Read

LEMMA WriteBody ==
    ASSUME NEW t \in Mutexes, NEW L \in SUBSET Mutexes, NEW W \in SUBSET Mutexes,
           NEW l \in L, l \in W
    PROVE  Write(l) \in Body(t, L, W)
BY BodyEmpty, BodyWrite DEF Write

LEMMA ReportBody ==
    ASSUME NEW t \in Mutexes, NEW L \in SUBSET Mutexes, NEW W, NEW l \in L
    PROVE  RegionReport(l) \in Body(t, L, W)
<1>1. Read(l) \in Body(t, L, W \ {l})
  BY ReadBody
<1>. QED
  BY <1>1, BodyRead DEF RegionReport

LEMMA FlattenBody ==
    ASSUME NEW t, NEW L, NEW W, NEW seqs \in Seq(Body(t, L, W))
    PROVE  FlattenSeq(seqs) \in Body(t, L, W)
<1>. DEFINE S == Body(t, L, W)
<1>1. << >> \in S /\ \A a, b \in S : a \o b \in S
  BY BodyEmpty, BodyConcat
<1>. HIDE DEF S
<1>2. seqs \in Seq(S)
  BY DEF S
<1>3. FlattenSeq(seqs) \in S
  BY <1>1, <1>2, FlattenClosed
<1>. QED
  BY <1>3 DEF S

LEMMA ScanBody ==
    ASSUME NEW t \in Mutexes, NEW L \in SUBSET Mutexes, NEW W, Regions \subseteq L,
           NEW p \in Seq(Regions)
    PROVE  Scan(p) \in Body(t, L, W)
<1>. DEFINE S == Body(t, L, W)
            seqs == [i \in DOMAIN p |-> Read(p[i])]
<1>1. DOMAIN p = 1 .. Len(p) /\ Len(p) \in Nat /\ \A i \in 1 .. Len(p) : p[i] \in L
  BY LenProperties, ElementOfSeq
<1>2. \A i \in 1 .. Len(p) : Read(p[i]) \in S
  BY <1>1, ReadBody
<1>3. seqs \in [1 .. Len(p) -> S]
  BY <1>1, <1>2
<1>. HIDE DEF S, seqs
<1>4. seqs \in Seq(S)
  BY <1>1, <1>3
<1>. QED
  BY <1>4, FlattenBody DEF Scan, S, seqs

LEMMA ReportsBody ==
    ASSUME NEW t \in Mutexes, NEW L \in SUBSET Mutexes, NEW W, Regions \subseteq L,
           NEW p \in Seq(Regions)
    PROVE  FlattenSeq([i \in DOMAIN p |-> RegionReport(p[i])]) \in Body(t, L, W)
<1>. DEFINE S == Body(t, L, W)
            seqs == [i \in DOMAIN p |-> RegionReport(p[i])]
<1>1. DOMAIN p = 1 .. Len(p) /\ Len(p) \in Nat /\ \A i \in 1 .. Len(p) : p[i] \in L
  BY LenProperties, ElementOfSeq
<1>2. \A i \in 1 .. Len(p) : RegionReport(p[i]) \in S
  BY <1>1, ReportBody
<1>3. seqs \in [1 .. Len(p) -> S]
  BY <1>1, <1>2
<1>. HIDE DEF S, seqs
<1>4. seqs \in Seq(S)
  BY <1>1, <1>3
<1>. QED
  BY <1>4, FlattenBody DEF S, seqs

LEMMA AnalyzeBody ==
    ASSUME NEW t \in Mutexes, NEW L \in SUBSET Mutexes, NEW W, Regions \subseteq L,
           NEW p \in Seq(Regions), NEW f
    PROVE  FlattenSeq([i \in DOMAIN p |->
               RegionReport(p[i]) \o (IF p[i] \in f THEN Read(p[i]) ELSE << >>)])
             \in Body(t, L, W)
<1>. DEFINE S == Body(t, L, W)
            part(i) == RegionReport(p[i]) \o (IF p[i] \in f THEN Read(p[i]) ELSE << >>)
            seqs == [i \in DOMAIN p |-> part(i)]
<1>1. DOMAIN p = 1 .. Len(p) /\ Len(p) \in Nat /\ \A i \in 1 .. Len(p) : p[i] \in L
  BY LenProperties, ElementOfSeq
<1>2. ASSUME NEW i \in 1 .. Len(p) PROVE part(i) \in S
  <2>1. RegionReport(p[i]) \in S /\ Read(p[i]) \in S /\ << >> \in S
    BY <1>1, ReportBody, ReadBody, BodyEmpty
  <2>2. (IF p[i] \in f THEN Read(p[i]) ELSE << >>) \in S
    BY <2>1
  <2>. QED
    BY <2>1, <2>2, BodyConcat
<1>. HIDE DEF part
<1>3. seqs \in [1 .. Len(p) -> S]
  BY <1>1, <1>2
<1>. HIDE DEF S, seqs
<1>4. seqs \in Seq(S)
  BY <1>1, <1>3
<1>. QED
  BY <1>4, FlattenBody DEF S, seqs, part

(* Allocation, under a.mu. *)
LEMMA AllocateBody ==
    ASSUME NEW t \in Mutexes, t \notin Inner
    PROVE  /\ Do("allocate") \in Body(t, Inner, Inner)
           /\ Do("ypromotion") \in Body(t, Inner, Inner)
           /\ Do("newregion") \in Body(t, Inner, Inner)
<1>. DEFINE S == Body(t, Inner, Inner)
<1>0. Inner \in SUBSET Mutexes /\ LRU \in Inner /\ LRU \in Mutexes /\ Regions \subseteq Inner
      /\ LRU \notin Regions
  BY MutexesDiffer DEF Inner
<1>1. promoteRegionLRU \in S /\ << >> \in S
  BY <1>0, WriteBody, BodyEmpty DEF promoteRegionLRU
<1>2. \A a, b \in S : a \o b \in S
  BY BodyConcat
<1>3. \A p \in Paths : Scan(p) \in S /\ Reading(LRU, Scan(p)) \in S
  <2>1. \A p \in Paths : Scan(p) \in S /\ Scan(p) \in Body(t, Inner, Inner \ {LRU})
    BY <1>0, PathsAreSeqs, ScanBody
  <2>. QED
    BY <1>0, <2>1, BodyRead
<1>4. \A r \in Regions : Writing(r, promoteRegionLRU) \in S /\ Write(r) \in S
  <2>1. ASSUME NEW r \in Regions
        PROVE  Writing(r, promoteRegionLRU) \in S /\ Write(r) \in S
    <3>1. r \in Inner /\ r \in Mutexes /\ LRU \in Inner \ {r} /\ Inner \ {r} \in SUBSET Mutexes
      BY <1>0
    <3>2. promoteRegionLRU \in Body(t, Inner \ {r}, Inner \ {r})
      BY <1>0, <3>1, WriteBody DEF promoteRegionLRU
    <3>3. Writing(r, promoteRegionLRU) \in S
      BY <1>0, <3>1, <3>2, BodyWrite
    <3>4. Write(r) \in S
      BY <1>0, <3>1, WriteBody
    <3>. QED
      BY <3>3, <3>4
  <2>. QED
    BY <2>1
<1>5. Do("newregion") \in S
  <2>1. Branches("newregion") \subseteq S
    BY <1>1 DEF Branches, allocateNewRegion
  <2>. QED
    BY <2>1, BodyDo DEF Names
<1>6. Do("ypromotion") \in S
  <2>1. Branches("ypromotion") = tryYPromotion
    BY DEF Branches
  <2>2. \A c \in Candidates : c[1] \in Paths /\ c[2] \in Regions
    BY DEF Candidates
  <2>3. \A p \in Paths : Scan(p) \o Do("newregion") \in S
    BY <1>2, <1>3, <1>5, Zenon
  <2>4. \A c \in Candidates : Scan(c[1]) \o Writing(c[2], promoteRegionLRU) \in S
    BY <1>2, <1>3, <1>4, <2>2, Zenon
  <2>5. \A c \in Candidates : (Scan(c[1]) \o Write(c[2])) \o Do("newregion") \in S
    BY <1>2, <1>3, <1>4, <1>5, <2>2, Zenon
  <2>. HIDE DEF S
  <2>6. tryYPromotion \subseteq S
    BY <2>3, <2>4, <2>5 DEF tryYPromotion
  <2>7. Branches("ypromotion") \subseteq S
    BY <2>1, <2>6
  <2>. QED
    BY <2>7, BodyDo DEF Names, S
<1>7. Do("allocate") \in S
  <2>1. Branches("allocate") = tryFastAllocation
    BY DEF Branches
  <2>2. \A p \in Paths : Reading(LRU, Scan(p)) \o promoteRegionLRU \in S
    BY <1>1, <1>2, <1>3, Zenon
  <2>3. \A p \in Paths : Reading(LRU, Scan(p)) \o Do("ypromotion") \in S
    BY <1>2, <1>3, <1>6, Zenon
  <2>. HIDE DEF S
  <2>4. tryFastAllocation \subseteq S
    BY <2>2, <2>3 DEF tryFastAllocation
  <2>5. Branches("allocate") \subseteq S
    BY <2>1, <2>4
  <2>. QED
    BY <2>5, BodyDo DEF Names, S
<1>. QED
  BY <1>5, <1>6, <1>7

(* The calls a caller of the allocator makes, and the workers'. *)
LEMMA AllocateSyncLegal == <<allocateSync, Nothing>> \in Legal(Mu)
<1>1. Mu \in Mutexes /\ Mu \notin Inner /\ Inner \subseteq Mutexes
  BY MutexesDiffer DEF Inner
<1>2. Do("allocate") \in Body(Mu, Inner, Inner)
  BY <1>1, AllocateBody
<1>. QED
  BY <1>1, <1>2, TopWrite DEF allocateSync

LEMMA AllocatorCallsLegal ==
    ASSUME Calls \subseteq {"free", "report", "analyze"}, NEW s \in AllocatorCalls
    PROVE  <<s, Nothing>> \in Legal(Mu)
<1>0. Mu \in Mutexes /\ Mu \notin Regions /\ Regions \in SUBSET Mutexes
  BY MutexesDiffer DEF Mutexes
<1>1. PICK call \in Calls : s \in Scripts(call)
  BY DEF AllocatorCalls
<1>2. CASE call = "free"
  <2>1. PICK r \in Regions : s = freeSync(r)
    BY <1>1, <1>2 DEF Scripts
  <2>2. Write(r) \in Body(Mu, Regions, Regions)
    BY <1>0, WriteBody
  <2>. QED
    BY <1>0, <2>1, <2>2, TopWrite DEF freeSync
<1>3. CASE call = "report"
  <2>1. PICK p \in SetToSeqs(Regions) : s = GetCompactionReport(p)
    BY <1>1, <1>3 DEF Scripts
  <2>2. p \in Seq(Regions)
    BY PathsAreSeqs
  <2>3. FlattenSeq([i \in DOMAIN p |-> RegionReport(p[i])]) \in Body(Mu, Regions, {})
    BY <1>0, <2>2, ReportsBody
  <2>. QED
    BY <1>0, <2>1, <2>3, TopRead DEF GetCompactionReport
<1>4. CASE call = "analyze"
  <2>1. PICK p \in Paths, f \in SUBSET Regions : s = AnalyzeCompaction(p, f)
    BY <1>1, <1>4 DEF Scripts
  <2>2. p \in Seq(Regions)
    BY PathsAreSeqs
  <2>3. FlattenSeq([i \in DOMAIN p |->
            RegionReport(p[i]) \o (IF p[i] \in f THEN Read(p[i]) ELSE << >>)])
          \in Body(Mu, Regions, {})
    BY <1>0, <2>2, AnalyzeBody
  <2>. QED
    BY <1>0, <2>1, <2>3, TopRead DEF AnalyzeCompaction
<1>. QED
  BY <1>1, <1>2, <1>3, <1>4

-----------------------------------------------------------------------------
(* The parts of the machine's methods. *)
LEMMA LoadBody ==
    ASSUME NEW r \in Regions, NEW W
    PROVE  Load3D(r) \in Body(VM, Outer, W)
<1>1. VM \in Mutexes /\ Outer \in SUBSET Mutexes /\ r \in Outer /\ MM \in Outer
  BY MutexesDiffer DEF Outer
<1>2. Read(r) \in Body(VM, Outer, W \ {MM})
  BY <1>1, ReadBody
<1>. QED
  BY <1>1, <1>2, BodyRead, MutexesDiffer DEF Load3D

LEMMA OuterBody ==
    /\ UpdateAccess \in Body(VM, Outer, Outer) /\ getAllocation \in Body(VM, Outer, Outer)
    /\ trackAllocation \in Body(VM, Outer, Outer)
    /\ untrackAllocation \in Body(VM, Outer, Outer)
    /\ allocateSync \in Body(VM, Outer, Outer)
    /\ \A r \in Regions : /\ Load3D(r) \in Body(VM, Outer, Outer)
                          /\ Store3D(r) \in Body(VM, Outer, Outer)
                          /\ freeSync(r) \in Body(VM, Outer, Outer)
<1>0. VM \in Mutexes /\ Outer \in SUBSET Mutexes /\ MM \in Outer /\ Mu \in Outer
      /\ VM \notin Outer /\ VM \notin Inner
      /\ Mu \in Mutexes /\ MM \in Mutexes /\ Inner \in SUBSET (Outer \ {Mu})
  BY MutexesDiffer DEF Outer, Inner
<1>1. Read(MM) \in Body(VM, Outer, Outer) /\ Write(MM) \in Body(VM, Outer, Outer)
  BY <1>0, ReadBody, WriteBody
<1>2. allocateSync \in Body(VM, Outer, Outer)
  <2>1. Do("allocate") \in Body(VM, Inner, Inner)
    BY <1>0, AllocateBody
  <2>2. VM \notin Outer \ {Mu}
    BY <1>0
  <2>3. Do("allocate") \in Body(VM, Outer \ {Mu}, Outer \ {Mu})
    BY <1>0, <2>1, <2>2, BodyMonotone
  <2>. QED
    BY <1>0, <2>3, BodyWrite DEF allocateSync
<1>3. ASSUME NEW r \in Regions
      PROVE  /\ Load3D(r) \in Body(VM, Outer, Outer)
             /\ Store3D(r) \in Body(VM, Outer, Outer)
             /\ freeSync(r) \in Body(VM, Outer, Outer)
  <2>1. r \in Outer \ {MM} /\ r \in Outer \ {Mu}
    BY MutexesDiffer DEF Outer
  <2>2. Outer \ {MM} \in SUBSET Mutexes /\ Outer \ {Mu} \in SUBSET Mutexes
    BY <1>0
  <2>3. Read(r) \in Body(VM, Outer \ {MM}, Outer \ {MM})
    BY <1>0, <2>1, <2>2, ReadBody
  <2>4. Write(r) \in Body(VM, Outer \ {Mu}, Outer \ {Mu})
    BY <1>0, <2>1, <2>2, WriteBody
  <2>5. Store3D(r) \in Body(VM, Outer, Outer)
    BY <1>0, <2>3, BodyWrite DEF Store3D
  <2>6. freeSync(r) \in Body(VM, Outer, Outer)
    BY <1>0, <2>4, BodyWrite DEF freeSync
  <2>. QED
    BY <2>5, <2>6, LoadBody
<1>. QED
  BY <1>1, <1>2, <1>3
     DEF UpdateAccess, getAllocation, trackAllocation, untrackAllocation

LEMMA ReportsOuter ==
    ASSUME NEW p \in Seq(Regions), NEW f, NEW W
    PROVE  /\ GetCompactionReport(p) \in Body(VM, Outer, W)
           /\ AnalyzeCompaction(p, f) \in Body(VM, Outer, W)
<1>0. VM \in Mutexes /\ Outer \in SUBSET Mutexes /\ Mu \in Outer /\ Mu \in Mutexes
      /\ Regions \subseteq Outer
  BY MutexesDiffer DEF Outer
<1>1. FlattenSeq([i \in DOMAIN p |-> RegionReport(p[i])]) \in Body(VM, Outer, W \ {Mu})
  BY <1>0, ReportsBody
<1>2. FlattenSeq([i \in DOMAIN p |->
          RegionReport(p[i]) \o (IF p[i] \in f THEN Read(p[i]) ELSE << >>)])
        \in Body(VM, Outer, W \ {Mu})
  BY <1>0, AnalyzeBody
<1>3. GetCompactionReport(p) \in Body(VM, Outer, W)
  BY <1>0, <1>1, BodyRead DEF GetCompactionReport
<1>4. AnalyzeCompaction(p, f) \in Body(VM, Outer, W)
  BY <1>0, <1>2, BodyRead DEF AnalyzeCompaction
<1>. QED
  BY <1>3, <1>4

LEMMA InstructionBody == Do("instruction") \in Body(VM, Outer, Outer)
<1>. DEFINE S == Body(VM, Outer, Outer)
<1>1. \A a, b \in S : a \o b \in S
  BY BodyConcat
<1>2. << >> \in S
  BY BodyEmpty
<1>3. \A p \in Paths, f \in SUBSET Regions : AnalyzeCompaction(p, f) \in S
  BY PathsAreSeqs, ReportsOuter
<1>4. /\ UpdateAccess \in S /\ getAllocation \in S /\ trackAllocation \in S
      /\ untrackAllocation \in S /\ allocateSync \in S
      /\ \A r \in Regions : Load3D(r) \in S /\ Store3D(r) \in S /\ freeSync(r) \in S
  BY OuterBody
<1>5. VM \in Mutexes /\ "instruction" \in Names
  BY MutexesDiffer DEF Names
<1>. HIDE DEF S
<1>6. /\ \A r \in Regions : Load3D(r) \o UpdateAccess \in S
      /\ \A r \in Regions : Store3D(r) \o UpdateAccess \in S
      /\ allocateSync \o trackAllocation \in S
      /\ \A r, q \in Regions : Load3D(r) \o Store3D(q) \in S
  BY <1>1, <1>4, Zenon
<1>7. \A r \in Regions : (getAllocation \o freeSync(r)) \o untrackAllocation \in S
  BY <1>1, <1>4, Zenon
<1>8. Instructions \subseteq S
  <2>. DEFINE A == {UpdateAccess, << >>}
              B == {Load3D(r) \o UpdateAccess : r \in Regions}
              C == {Store3D(r) \o UpdateAccess : r \in Regions}
              D == {allocateSync \o trackAllocation}
              E == {getAllocation \o freeSync(r) \o untrackAllocation : r \in Regions}
              F == {Load3D(r) \o Store3D(q) : r \in Regions, q \in Regions}
              G == {AnalyzeCompaction(p, f) : p \in Paths, f \in SUBSET Regions}
  <2>1. Instructions = A \cup B \cup C \cup D \cup E \cup F \cup G
    BY DEF Instructions
  <2>2. A \subseteq S /\ D \subseteq S
    BY <1>2, <1>4, <1>6
  <2>3. B \subseteq S /\ C \subseteq S
    BY <1>6
  <2>4. E \subseteq S
    BY <1>7
  <2>5. F \subseteq S
    <3>1. ASSUME NEW s \in F PROVE s \in S
      <4>1. PICK r \in Regions, q \in Regions : s = Load3D(r) \o Store3D(q)
        OBVIOUS
      <4>. QED
        BY <1>6, <4>1
    <3>. QED
      BY <3>1
  <2>6. G \subseteq S
    BY <1>3
  <2>. HIDE DEF A, B, C, D, E, F, G
  <2>. QED
    BY <2>1, <2>2, <2>3, <2>4, <2>5, <2>6
<1>9. Branches("instruction") \subseteq S
  BY <1>8 DEF Branches
<1>. QED
  BY <1>5, <1>9, BodyDo DEF S

LEMMA MethodsLegal ==
    ASSUME NEW s \in Methods
    PROVE  <<s, Nothing>> \in Legal(VM)
<1>. DEFINE S == Body(VM, Outer, Outer)
<1>0. VM \in Mutexes /\ VM \notin Outer /\ Outer \subseteq Mutexes
  BY MutexesDiffer DEF Outer
<1>1. \A a, b \in S : a \o b \in S
  BY BodyConcat
<1>2. /\ Write(MM) \in S
      /\ UpdateAccess \in S /\ trackAllocation \in S /\ allocateSync \in S
      /\ \A r \in Regions : Store3D(r) \in S
  BY OuterBody DEF trackAllocation
<1>3. \A u \in S : <<Writing(VM, u), Nothing>> \in Legal(VM)
  BY <1>0, TopWrite
<1>4. \A u \in Body(VM, Outer, {}) : <<Reading(VM, u), Nothing>> \in Legal(VM)
  BY <1>0, TopRead
<1>5. Do("instruction") \in S
  BY InstructionBody
<1>. HIDE DEF S
<1>6. \A r \in Regions : Store3D(r) \o UpdateAccess \in S
  BY <1>1, <1>2, Zenon
<1>7. ASSUME NEW r \in Regions
      PROVE  (((Write(MM) \o allocateSync) \o trackAllocation) \o Store3D(r)) \o UpdateAccess \in S
  <2>1. Write(MM) \o allocateSync \in S
    BY <1>1, <1>2, Zenon
  <2>2. (Write(MM) \o allocateSync) \o trackAllocation \in S
    BY <1>1, <1>2, <2>1, Zenon
  <2>3. ((Write(MM) \o allocateSync) \o trackAllocation) \o Store3D(r) \in S
    BY <1>1, <1>2, <2>2, Zenon
  <2>. QED
    BY <1>1, <1>2, <2>3, Zenon
<1>8. allocateSync \o trackAllocation \in S
  BY <1>1, <1>2, Zenon
<1>9. \A r \in Regions : Load3D(r) \in Body(VM, Outer, {})
  BY LoadBody
<1>10. /\ \A p \in SetToSeqs(Regions) : GetCompactionReport(p) \in Body(VM, Outer, {})
       /\ \A p \in Paths, f \in SUBSET Regions : AnalyzeCompaction(p, f) \in Body(VM, Outer, {})
  BY PathsAreSeqs, ReportsOuter
<1>11. \/ \E u \in S : s = Writing(VM, u)
       \/ \E u \in Body(VM, Outer, {}) : s = Reading(VM, u)
  <2>1. CASE s = Writing(VM, Do("instruction"))
    BY <1>5, <2>1
  <2>2. CASE s \in {Reading(VM, Load3D(r)) : r \in Regions}
    BY <1>9, <2>2
  <2>3. CASE s \in {Writing(VM, Store3D(r) \o UpdateAccess) : r \in Regions}
    BY <1>6, <2>3
  <2>4. CASE s \in {Writing(VM, Write(MM) \o allocateSync \o trackAllocation
                                \o Store3D(r) \o UpdateAccess) : r \in Regions}
    BY <1>7, <2>4
  <2>5. CASE s = Writing(VM, allocateSync \o trackAllocation)
    BY <1>8, <2>5
  <2>6. CASE s \in {Reading(VM, GetCompactionReport(p)) : p \in SetToSeqs(Regions)}
    BY <1>10, <2>6
  <2>7. CASE s \in {Reading(VM, AnalyzeCompaction(p, f)) : p \in Paths, f \in SUBSET Regions}
    BY <1>10, <2>7
  <2>. QED
    BY <2>1, <2>2, <2>3, <2>4, <2>5, <2>6, <2>7 DEF Methods
<1>. QED
  BY <1>3, <1>4, <1>11

-----------------------------------------------------------------------------
(* The lock that every other is taken inside of. *)
Top == IF mode = "machine" THEN VM ELSE Mu

(* What goroutine g holds. *)
Held(g) == [r |-> [l \in Mutexes |-> readers[l][g]],
            w |-> {l \in Mutexes : writer[l] = g /\ excl[l]}]

LockType ==
    /\ mode \in {"pool", "machine"}
    /\ writer \in [Mutexes -> Goroutines \cup {None}]
    /\ excl \in [Mutexes -> BOOLEAN]
    /\ readers \in [Mutexes -> [Goroutines -> Nat]]
    /\ todo \in [Goroutines -> Seq(Ops)]
    /\ DOMAIN at = Callers /\ DOMAIN serving = Workers

(* Whatever it still has to do, a goroutine never waits for itself. *)
Runnable == \A g \in Goroutines : <<todo[g], Held(g)>> \in Legal(Top)

(* Writers that have announced themselves, and those that are in. *)
Announced ==
    \A l \in Mutexes :
        /\ writer[l] # None /\ ~excl[l] => AtCall(writer[l], "Lock", l)
        /\ excl[l] => writer[l] # None /\ \A g \in Goroutines : readers[l][g] = 0

(* Between calls there is nothing to do. *)
Resting ==
    /\ \A c \in Callers : at[c] \in {"idle", "select", "waiting"} => todo[c] = << >>
    /\ \A w \in Workers : serving[w] \in {None, Exited} => todo[w] = << >>
    /\ mode = "machine" => /\ \A w \in Workers : serving[w] = Exited
                           /\ \A c \in Callers : at[c] # "select"

LockInv == LockType /\ Runnable /\ Announced /\ Resting

LEMMA PairEqual == \A a, b, c, d : (<<a, b>> = <<c, d>>) <=> (a = c /\ b = d)
OBVIOUS

Back(t, R, s, x, l) ==
    /\ Head(s) = <<"RLock", l>> =>
         /\ l \in Mutexes /\ l \notin x.w /\ (l = t => x.r[t] = 0)
         /\ <<Tail(s), WithRead(x, l)>> \in R
    /\ Head(s) = <<"RUnlock", l>> =>
         l \in Mutexes /\ x.r[l] > 0 /\ <<Tail(s), WithoutRead(x, l)>> \in R
    /\ Head(s) = <<"Lock", l>> =>
         l \in Mutexes /\ IsFree(x, l) /\ <<Tail(s), WithWrite(x, l)>> \in R
    /\ Head(s) = <<"Unlock", l>> =>
         l \in Mutexes /\ l \in x.w /\ <<Tail(s), WithoutWrite(x, l)>> \in R
    /\ Head(s) = <<"do", l>> => \A b \in Branches(l) : <<b \o Tail(s), x>> \in R

LEMMA GoesBack ==
    ASSUME NEW t, NEW R, NEW s, NEW x, Goes(t, R, s, x), NEW l
    PROVE  Back(t, R, s, x, l)
<1>1. ASSUME NEW m \in Mutexes, Head(s) = <<"RLock", m>>, m \notin x.w, m = t => x.r[t] = 0,
             <<Tail(s), WithRead(x, m)>> \in R
      PROVE  Back(t, R, s, x, l)
  <2>1. /\ Head(s) # <<"RUnlock", l>> /\ Head(s) # <<"Lock", l>>
        /\ Head(s) # <<"Unlock", l>> /\ Head(s) # <<"do", l>>
        /\ Head(s) = <<"RLock", l>> => l = m
    BY <1>1, PairEqual
  <2>. QED
    BY <1>1, <2>1, Zenon DEF Back
<1>2. ASSUME NEW m \in Mutexes, Head(s) = <<"RUnlock", m>>, x.r[m] > 0,
             <<Tail(s), WithoutRead(x, m)>> \in R
      PROVE  Back(t, R, s, x, l)
  <2>1. /\ Head(s) # <<"RLock", l>> /\ Head(s) # <<"Lock", l>>
        /\ Head(s) # <<"Unlock", l>> /\ Head(s) # <<"do", l>>
        /\ Head(s) = <<"RUnlock", l>> => l = m
    BY <1>2, PairEqual
  <2>. QED
    BY <1>2, <2>1, Zenon DEF Back
<1>3. ASSUME NEW m \in Mutexes, Head(s) = <<"Lock", m>>, IsFree(x, m),
             <<Tail(s), WithWrite(x, m)>> \in R
      PROVE  Back(t, R, s, x, l)
  <2>1. /\ Head(s) # <<"RLock", l>> /\ Head(s) # <<"RUnlock", l>>
        /\ Head(s) # <<"Unlock", l>> /\ Head(s) # <<"do", l>>
        /\ Head(s) = <<"Lock", l>> => l = m
    BY <1>3, PairEqual
  <2>. QED
    BY <1>3, <2>1, Zenon DEF Back
<1>4. ASSUME NEW m \in Mutexes, Head(s) = <<"Unlock", m>>, m \in x.w,
             <<Tail(s), WithoutWrite(x, m)>> \in R
      PROVE  Back(t, R, s, x, l)
  <2>1. /\ Head(s) # <<"RLock", l>> /\ Head(s) # <<"RUnlock", l>>
        /\ Head(s) # <<"Lock", l>> /\ Head(s) # <<"do", l>>
        /\ Head(s) = <<"Unlock", l>> => l = m
    BY <1>4, PairEqual
  <2>. QED
    BY <1>4, <2>1, Zenon DEF Back
<1>5. ASSUME NEW n \in Names, Head(s) = <<"do", n>>,
             \A b \in Branches(n) : <<b \o Tail(s), x>> \in R
      PROVE  Back(t, R, s, x, l)
  <2>1. /\ Head(s) # <<"RLock", l>> /\ Head(s) # <<"RUnlock", l>>
        /\ Head(s) # <<"Lock", l>> /\ Head(s) # <<"Unlock", l>>
        /\ Head(s) = <<"do", l>> => l = n
    BY <1>5, PairEqual
  <2>. QED
    BY <1>5, <2>1, Zenon DEF Back
<1>. QED
  BY <1>1, <1>2, <1>3, <1>4, <1>5, Zenon DEF Goes

LEMMA HeldType ==
    ASSUME LockType, NEW g \in Goroutines
    PROVE  /\ Held(g) \in Holdings
           /\ \A l \in Mutexes : Held(g).r[l] = readers[l][g]
           /\ \A l \in Mutexes : l \in Held(g).w <=> (writer[l] = g /\ excl[l])
BY DEF Held, Holdings, LockType

LEMMA TopType == Top \in Mutexes
BY MutexesDiffer DEF Top

(* Runs of one goroutine leave the others where they are. *)
LEMMA OthersRun ==
    ASSUME LockInv, NEW g \in Goroutines, mode' = mode,
           \A h \in Goroutines \ {g} : todo'[h] = todo[h] /\ Held(h)' = Held(h),
           <<todo'[g], Held(g)'>> \in Legal(Top)
    PROVE  Runnable'
<1>1. Top' = Top
  BY DEF Top
<1>2. ASSUME NEW h \in Goroutines PROVE <<todo'[h], Held(h)'>> \in Legal(Top')
  BY <1>1 DEF LockInv, Runnable
<1>. QED
  BY <1>2 DEF Runnable

(* A goroutine in a call stays in it. *)
LEMMA StillResting ==
    ASSUME LockInv, NEW g \in Goroutines, todo[g] # << >>, NEW s,
           todo' = [todo EXCEPT ![g] = s], UNCHANGED <<mode, at, serving>>
    PROVE  Resting'
<1>1. todo \in [Goroutines -> Seq(Ops)] /\ Callers \subseteq Goroutines /\ Workers \subseteq Goroutines
  BY DEF LockInv, LockType, Goroutines
<1>2. \A h \in Goroutines : todo[h] = << >> => todo'[h] = << >>
  BY <1>1
<1>. QED
  BY <1>1, <1>2 DEF LockInv, Resting

LEMMA AtCallFacts ==
    ASSUME LockInv, NEW g \in Goroutines, NEW op, NEW l, AtCall(g, op, l)
    PROVE  /\ todo[g] \in Seq(Ops) /\ todo[g] # << >> /\ Head(todo[g]) = <<op, l>>
           /\ Tail(todo[g]) \in Seq(Ops)
           /\ Goes(Top, Legal(Top), todo[g], Held(g))
<1>1. todo[g] \in Seq(Ops) /\ todo[g] # << >> /\ Head(todo[g]) = <<op, l>>
  BY DEF LockInv, LockType, AtCall
<1>2. Tail(todo[g]) \in Seq(Ops)
  BY <1>1, HeadTailProperties
<1>3. Goes(Top, Legal(Top), todo[g], Held(g))
  BY <1>1, LegalUnfold DEF LockInv, Runnable
<1>. QED
  BY <1>1, <1>2, <1>3

LEMMA RLockInv ==
    ASSUME LockInv, NEW g \in Goroutines, NEW l \in Mutexes, RLock(g, l),
           UNCHANGED <<mode, at, serving>>
    PROVE  LockInv'
<1>0. /\ AtCall(g, "RLock", l) /\ writer[l] = None
      /\ readers' = [readers EXCEPT ![l][g] = @ + 1]
      /\ todo' = [todo EXCEPT ![g] = Tail(todo[g])] /\ UNCHANGED <<writer, excl>>
  BY DEF RLock, Advance
<1>1. /\ todo[g] \in Seq(Ops) /\ todo[g] # << >> /\ Head(todo[g]) = <<"RLock", l>>
      /\ Tail(todo[g]) \in Seq(Ops)
      /\ <<Tail(todo[g]), WithRead(Held(g), l)>> \in Legal(Top)
  <2>1. /\ todo[g] \in Seq(Ops) /\ todo[g] # << >> /\ Tail(todo[g]) \in Seq(Ops)
        /\ Goes(Top, Legal(Top), todo[g], Held(g))
    BY <1>0, AtCallFacts
  <2>2. Head(todo[g]) = <<"RLock", l>>
    BY <1>0 DEF AtCall
  <2>3. Back(Top, Legal(Top), todo[g], Held(g), l)
    BY <2>1, GoesBack
  <2>. QED
    BY <2>1, <2>2, <2>3, Zenon DEF Back
<1>2. LockType
  BY DEF LockInv
<1>3. LockType'
  BY <1>0, <1>1, <1>2 DEF LockType
<1>4. /\ todo'[g] = Tail(todo[g])
      /\ \A h \in Goroutines \ {g} : todo'[h] = todo[h]
      /\ \A h \in Goroutines, k \in Mutexes :
            readers'[k][h] = IF h = g /\ k = l THEN readers[k][h] + 1 ELSE readers[k][h]
  BY <1>0, <1>2 DEF LockType
<1>5. \A h \in Goroutines \ {g} : Held(h)' = Held(h)
  BY <1>0, <1>4 DEF Held
<1>6. Held(g)' = WithRead(Held(g), l)
  <2>1. [k \in Mutexes |-> readers'[k][g]] = [[k \in Mutexes |-> readers[k][g]] EXCEPT ![l] = @ + 1]
    BY <1>4
  <2>. QED
    BY <1>0, <2>1 DEF Held, WithRead
<1>7. Runnable'
  BY <1>1, <1>4, <1>5, <1>6, OthersRun
<1>8. Announced'
  <2>1. ASSUME NEW k \in Mutexes, writer'[k] # None, ~excl'[k]
        PROVE  todo'[writer'[k]] # << >> /\ Head(todo'[writer'[k]]) = <<"Lock", k>>
    <3>1. AtCall(writer[k], "Lock", k) /\ writer'[k] = writer[k] /\ writer[k] \in Goroutines
      BY <1>0, <1>2, <2>1 DEF LockInv, Announced, LockType
    <3>2. writer[k] # g
      BY <1>1, <3>1 DEF AtCall
    <3>. QED
      BY <1>4, <3>1, <3>2 DEF AtCall
  <2>2. ASSUME NEW k \in Mutexes, excl'[k]
        PROVE  writer'[k] # None /\ \A h \in Goroutines : readers'[k][h] = 0
    <3>1. writer[k] # None /\ \A h \in Goroutines : readers[k][h] = 0
      BY <1>0, <2>2 DEF LockInv, Announced
    <3>. QED
      BY <1>0, <1>4, <3>1
  <2>. QED
    BY <2>1, <2>2 DEF Announced, AtCall
<1>9. Resting'
  BY <1>0, <1>1, StillResting
<1>. QED
  BY <1>3, <1>7, <1>8, <1>9 DEF LockInv

LEMMA RUnlockInv ==
    ASSUME LockInv, NEW g \in Goroutines, NEW l \in Mutexes, RUnlock(g, l),
           UNCHANGED <<mode, at, serving>>
    PROVE  LockInv'
<1>0. /\ AtCall(g, "RUnlock", l)
      /\ readers' = [readers EXCEPT ![l][g] = @ - 1]
      /\ todo' = [todo EXCEPT ![g] = Tail(todo[g])] /\ UNCHANGED <<writer, excl>>
  BY DEF RUnlock, Advance
<1>1. /\ todo[g] \in Seq(Ops) /\ todo[g] # << >> /\ Head(todo[g]) = <<"RUnlock", l>>
      /\ Tail(todo[g]) \in Seq(Ops) /\ Held(g).r[l] > 0
      /\ <<Tail(todo[g]), WithoutRead(Held(g), l)>> \in Legal(Top)
  <2>1. /\ todo[g] \in Seq(Ops) /\ todo[g] # << >> /\ Tail(todo[g]) \in Seq(Ops)
        /\ Goes(Top, Legal(Top), todo[g], Held(g))
    BY <1>0, AtCallFacts
  <2>2. Head(todo[g]) = <<"RUnlock", l>>
    BY <1>0 DEF AtCall
  <2>3. Back(Top, Legal(Top), todo[g], Held(g), l)
    BY <2>1, GoesBack
  <2>. QED
    BY <2>1, <2>2, <2>3, Zenon DEF Back
<1>2. LockType /\ readers[l][g] \in Nat /\ readers[l][g] > 0
  BY <1>1, HeldType DEF LockInv, LockType
<1>3. LockType'
  BY <1>0, <1>1, <1>2 DEF LockType
<1>4. /\ todo'[g] = Tail(todo[g])
      /\ \A h \in Goroutines \ {g} : todo'[h] = todo[h]
      /\ \A h \in Goroutines, k \in Mutexes :
            readers'[k][h] = IF h = g /\ k = l THEN readers[k][h] - 1 ELSE readers[k][h]
  BY <1>0, <1>2 DEF LockType
<1>5. \A h \in Goroutines \ {g} : Held(h)' = Held(h)
  BY <1>0, <1>4 DEF Held
<1>6. Held(g)' = WithoutRead(Held(g), l)
  <2>1. [k \in Mutexes |-> readers'[k][g]] = [[k \in Mutexes |-> readers[k][g]] EXCEPT ![l] = @ - 1]
    BY <1>4
  <2>. QED
    BY <1>0, <2>1 DEF Held, WithoutRead
<1>7. Runnable'
  BY <1>1, <1>4, <1>5, <1>6, OthersRun
<1>8. Announced'
  <2>1. ASSUME NEW k \in Mutexes, writer'[k] # None, ~excl'[k]
        PROVE  todo'[writer'[k]] # << >> /\ Head(todo'[writer'[k]]) = <<"Lock", k>>
    <3>1. AtCall(writer[k], "Lock", k) /\ writer'[k] = writer[k] /\ writer[k] \in Goroutines
      BY <1>0, <1>2, <2>1 DEF LockInv, Announced, LockType
    <3>2. writer[k] # g
      BY <1>1, <3>1 DEF AtCall
    <3>. QED
      BY <1>4, <3>1, <3>2 DEF AtCall
  <2>2. ASSUME NEW k \in Mutexes, excl'[k]
        PROVE  writer'[k] # None /\ \A h \in Goroutines : readers'[k][h] = 0
    <3>1. writer[k] # None /\ \A h \in Goroutines : readers[k][h] = 0
      BY <1>0, <2>2 DEF LockInv, Announced
    <3>2. k # l
      BY <1>2, <3>1
    <3>. QED
      BY <1>0, <1>4, <3>1, <3>2
  <2>. QED
    BY <2>1, <2>2 DEF Announced, AtCall
<1>9. Resting'
  BY <1>0, <1>1, StillResting
<1>. QED
  BY <1>3, <1>7, <1>8, <1>9 DEF LockInv

LEMMA AnnounceInv ==
    ASSUME LockInv, NEW g \in Goroutines, NEW l \in Mutexes, Announce(g, l),
           UNCHANGED <<mode, at, serving>>
    PROVE  LockInv'
<1>0. /\ AtCall(g, "Lock", l) /\ writer[l] = None
      /\ writer' = [writer EXCEPT ![l] = g] /\ UNCHANGED <<excl, readers, todo>>
  BY DEF Announce
<1>2. LockType /\ g # None /\ ~excl[l]
  BY <1>0, ConcurrencyAssumption DEF LockInv, Announced, Goroutines
<1>3. LockType'
  BY <1>0, <1>2 DEF LockType
<1>4. writer'[l] = g /\ \A k \in Mutexes \ {l} : writer'[k] = writer[k]
  BY <1>0, <1>2 DEF LockType
<1>5. ASSUME NEW h \in Goroutines PROVE Held(h)' = Held(h)
  <2>1. {k \in Mutexes : writer'[k] = h /\ excl'[k]} = {k \in Mutexes : writer[k] = h /\ excl[k]}
    BY <1>0, <1>2, <1>4
  <2>. QED
    BY <1>0, <2>1 DEF Held
<1>7. Runnable'
  <2>1. Top' = Top
    BY DEF Top
  <2>2. ASSUME NEW h \in Goroutines PROVE <<todo'[h], Held(h)'>> \in Legal(Top')
    BY <1>0, <1>5, <2>1 DEF LockInv, Runnable
  <2>. QED
    BY <2>2 DEF Runnable
<1>8. Announced'
  <2>1. ASSUME NEW k \in Mutexes, writer'[k] # None, ~excl'[k]
        PROVE  todo'[writer'[k]] # << >> /\ Head(todo'[writer'[k]]) = <<"Lock", k>>
    <3>1. CASE k = l
      BY <1>0, <1>4, <3>1 DEF AtCall
    <3>2. CASE k # l
      BY <1>0, <1>4, <2>1, <3>2 DEF LockInv, Announced, AtCall
    <3>. QED
      BY <3>1, <3>2
  <2>2. ASSUME NEW k \in Mutexes, excl'[k]
        PROVE  writer'[k] # None /\ \A h \in Goroutines : readers'[k][h] = 0
    BY <1>0, <1>2, <1>4, <2>2 DEF LockInv, Announced
  <2>. QED
    BY <2>1, <2>2 DEF Announced, AtCall
<1>9. Resting'
  BY <1>0 DEF LockInv, Resting
<1>. QED
  BY <1>3, <1>7, <1>8, <1>9 DEF LockInv

LEMMA LockedInv ==
    ASSUME LockInv, NEW g \in Goroutines, NEW l \in Mutexes, Lock(g, l),
           UNCHANGED <<mode, at, serving>>
    PROVE  LockInv'
<1>0. /\ AtCall(g, "Lock", l) /\ writer[l] = g /\ ~excl[l]
      /\ \A h \in Goroutines : readers[l][h] = 0
      /\ excl' = [excl EXCEPT ![l] = TRUE]
      /\ todo' = [todo EXCEPT ![g] = Tail(todo[g])] /\ UNCHANGED <<writer, readers>>
  BY DEF Lock, Advance
<1>1. /\ todo[g] \in Seq(Ops) /\ todo[g] # << >> /\ Head(todo[g]) = <<"Lock", l>>
      /\ Tail(todo[g]) \in Seq(Ops)
      /\ <<Tail(todo[g]), WithWrite(Held(g), l)>> \in Legal(Top)
  <2>1. /\ todo[g] \in Seq(Ops) /\ todo[g] # << >> /\ Tail(todo[g]) \in Seq(Ops)
        /\ Goes(Top, Legal(Top), todo[g], Held(g))
    BY <1>0, AtCallFacts
  <2>2. Head(todo[g]) = <<"Lock", l>>
    BY <1>0 DEF AtCall
  <2>3. Back(Top, Legal(Top), todo[g], Held(g), l)
    BY <2>1, GoesBack
  <2>. QED
    BY <2>1, <2>2, <2>3, Zenon DEF Back
<1>2. LockType /\ g # None
  BY ConcurrencyAssumption DEF LockInv, Goroutines
<1>3. LockType'
  BY <1>0, <1>1, <1>2 DEF LockType
<1>4. /\ todo'[g] = Tail(todo[g])
      /\ \A h \in Goroutines \ {g} : todo'[h] = todo[h]
      /\ excl'[l] = TRUE /\ \A k \in Mutexes \ {l} : excl'[k] = excl[k]
  BY <1>0, <1>2 DEF LockType
<1>5. ASSUME NEW h \in Goroutines \ {g} PROVE Held(h)' = Held(h)
  <2>1. {k \in Mutexes : writer'[k] = h /\ excl'[k]} = {k \in Mutexes : writer[k] = h /\ excl[k]}
    BY <1>0, <1>4
  <2>. QED
    BY <1>0, <2>1 DEF Held
<1>6. Held(g)' = WithWrite(Held(g), l)
  <2>1. {k \in Mutexes : writer'[k] = g /\ excl'[k]}
          = {k \in Mutexes : writer[k] = g /\ excl[k]} \cup {l}
    BY <1>0, <1>4
  <2>. QED
    BY <1>0, <2>1 DEF Held, WithWrite
<1>7. Runnable'
  BY <1>1, <1>4, <1>5, <1>6, OthersRun
<1>8. Announced'
  <2>1. ASSUME NEW k \in Mutexes, writer'[k] # None, ~excl'[k]
        PROVE  todo'[writer'[k]] # << >> /\ Head(todo'[writer'[k]]) = <<"Lock", k>>
    <3>1. AtCall(writer[k], "Lock", k) /\ writer'[k] = writer[k] /\ writer[k] \in Goroutines
          /\ k # l
      BY <1>0, <1>2, <1>4, <2>1 DEF LockInv, Announced, LockType
    <3>2. writer[k] # g
      BY <1>1, <3>1 DEF AtCall
    <3>. QED
      BY <1>4, <3>1, <3>2 DEF AtCall
  <2>2. ASSUME NEW k \in Mutexes, excl'[k]
        PROVE  writer'[k] # None /\ \A h \in Goroutines : readers'[k][h] = 0
    <3>1. CASE k = l
      BY <1>0, <1>2, <3>1
    <3>2. CASE k # l
      BY <1>0, <1>4, <2>2, <3>2 DEF LockInv, Announced
    <3>. QED
      BY <3>1, <3>2
  <2>. QED
    BY <2>1, <2>2 DEF Announced, AtCall
<1>9. Resting'
  BY <1>0, <1>1, StillResting
<1>. QED
  BY <1>3, <1>7, <1>8, <1>9 DEF LockInv

LEMMA UnlockInv ==
    ASSUME LockInv, NEW g \in Goroutines, NEW l \in Mutexes, Unlock(g, l),
           UNCHANGED <<mode, at, serving>>
    PROVE  LockInv'
<1>0. /\ AtCall(g, "Unlock", l)
      /\ writer' = [writer EXCEPT ![l] = None]
      /\ excl' = [excl EXCEPT ![l] = FALSE]
      /\ todo' = [todo EXCEPT ![g] = Tail(todo[g])] /\ UNCHANGED readers
  BY DEF Unlock, Advance
<1>1. /\ todo[g] \in Seq(Ops) /\ todo[g] # << >> /\ Head(todo[g]) = <<"Unlock", l>>
      /\ Tail(todo[g]) \in Seq(Ops) /\ l \in Held(g).w
      /\ <<Tail(todo[g]), WithoutWrite(Held(g), l)>> \in Legal(Top)
  <2>1. /\ todo[g] \in Seq(Ops) /\ todo[g] # << >> /\ Tail(todo[g]) \in Seq(Ops)
        /\ Goes(Top, Legal(Top), todo[g], Held(g))
    BY <1>0, AtCallFacts
  <2>2. Head(todo[g]) = <<"Unlock", l>>
    BY <1>0 DEF AtCall
  <2>3. Back(Top, Legal(Top), todo[g], Held(g), l)
    BY <2>1, GoesBack
  <2>. QED
    BY <2>1, <2>2, <2>3, Zenon DEF Back
<1>2. LockType /\ g # None /\ writer[l] = g /\ excl[l]
  BY <1>1, HeldType, ConcurrencyAssumption DEF LockInv, Goroutines
<1>3. LockType'
  BY <1>0, <1>1, <1>2 DEF LockType
<1>4. /\ todo'[g] = Tail(todo[g])
      /\ \A h \in Goroutines \ {g} : todo'[h] = todo[h]
      /\ excl'[l] = FALSE /\ writer'[l] = None
      /\ \A k \in Mutexes \ {l} : excl'[k] = excl[k] /\ writer'[k] = writer[k]
  BY <1>0, <1>2 DEF LockType
<1>5. ASSUME NEW h \in Goroutines \ {g} PROVE Held(h)' = Held(h)
  <2>1. {k \in Mutexes : writer'[k] = h /\ excl'[k]} = {k \in Mutexes : writer[k] = h /\ excl[k]}
    BY <1>2, <1>4
  <2>. QED
    BY <1>0, <2>1 DEF Held
<1>6. Held(g)' = WithoutWrite(Held(g), l)
  <2>1. {k \in Mutexes : writer'[k] = g /\ excl'[k]}
          = {k \in Mutexes : writer[k] = g /\ excl[k]} \ {l}
    BY <1>4
  <2>. QED
    BY <1>0, <2>1 DEF Held, WithoutWrite
<1>7. Runnable'
  BY <1>1, <1>4, <1>5, <1>6, OthersRun
<1>8. Announced'
  <2>1. ASSUME NEW k \in Mutexes, writer'[k] # None, ~excl'[k]
        PROVE  todo'[writer'[k]] # << >> /\ Head(todo'[writer'[k]]) = <<"Lock", k>>
    <3>1. k # l /\ AtCall(writer[k], "Lock", k) /\ writer'[k] = writer[k] /\ writer[k] \in Goroutines
      BY <1>2, <1>4, <2>1 DEF LockInv, Announced, LockType
    <3>2. writer[k] # g
      BY <1>1, <3>1 DEF AtCall
    <3>. QED
      BY <1>4, <3>1, <3>2 DEF AtCall
  <2>2. ASSUME NEW k \in Mutexes, excl'[k]
        PROVE  writer'[k] # None /\ \A h \in Goroutines : readers'[k][h] = 0
    <3>1. k # l /\ excl[k] /\ writer'[k] = writer[k]
      BY <1>4, <2>2
    <3>. QED
      BY <1>0, <3>1 DEF LockInv, Announced
  <2>. QED
    BY <2>1, <2>2 DEF Announced, AtCall
<1>9. Resting'
  BY <1>0, <1>1, StillResting
<1>. QED
  BY <1>3, <1>7, <1>8, <1>9 DEF LockInv

(* Steps that change only what one goroutine has to do. *)
LEMMA TodoInv ==
    ASSUME LockInv, NEW g \in Goroutines, NEW s,
           \A l : ~AtCall(g, "Lock", l),
           <<s, Held(g)>> \in Legal(Top), todo' = [todo EXCEPT ![g] = s],
           UNCHANGED <<mode, writer, excl, readers>>,
           DOMAIN at' = Callers, DOMAIN serving' = Workers, Resting'
    PROVE  LockInv'
<1>1. LockType /\ s \in Seq(Ops)
  BY LegalUnfold DEF LockInv
<1>2. LockType' /\ todo'[g] = s /\ \A h \in Goroutines \ {g} : todo'[h] = todo[h]
  BY <1>1 DEF LockType
<1>3. \A h \in Goroutines : Held(h)' = Held(h)
  BY DEF Held
<1>4. Runnable'
  BY <1>2, <1>3, OthersRun
<1>5. ASSUME NEW k \in Mutexes, writer'[k] # None, ~excl'[k]
      PROVE  todo'[writer'[k]] # << >> /\ Head(todo'[writer'[k]]) = <<"Lock", k>>
  <2>1. AtCall(writer[k], "Lock", k) /\ writer'[k] = writer[k] /\ writer[k] \in Goroutines
    BY <1>1, <1>5 DEF LockInv, Announced, LockType
  <2>2. writer[k] # g
    BY <2>1
  <2>. QED
    BY <1>2, <2>1, <2>2 DEF AtCall
<1>6. Announced'
  BY <1>5 DEF Announced, LockInv, AtCall
<1>. QED
  BY <1>2, <1>4, <1>6 DEF LockInv

LEMMA ChooseInv ==
    ASSUME LockInv, NEW g \in Goroutines, Choose(g), UNCHANGED <<mode, at, serving>>
    PROVE  LockInv'
<1>. DEFINE n == Head(todo[g])[2]
<1>0. PICK b \in Branches(n) : todo' = [todo EXCEPT ![g] = b \o Tail(todo[g])]
  BY DEF Choose
<1>1. todo[g] # << >> /\ Head(todo[g])[1] = "do" /\ UNCHANGED <<writer, excl, readers>>
  BY DEF Choose
<1>2. todo[g] \in Seq(Ops) /\ Head(todo[g]) \in Ops
  BY <1>1, HeadTailProperties DEF LockInv, LockType
<1>3. Head(todo[g]) = <<"do", n>>
  BY <1>1, <1>2 DEF Ops
<1>4. Goes(Top, Legal(Top), todo[g], Held(g))
  BY <1>1, LegalUnfold DEF LockInv, Runnable
<1>5. <<b \o Tail(todo[g]), Held(g)>> \in Legal(Top)
  <2>1. Back(Top, Legal(Top), todo[g], Held(g), n)
    BY <1>4, GoesBack
  <2>. QED
    BY <1>3, <2>1, Zenon DEF Back
<1>. HIDE DEF n
<1>6. \A l : ~AtCall(g, "Lock", l)
  BY <1>3 DEF AtCall
<1>7. Resting'
  BY <1>0, <1>1, StillResting
<1>8. DOMAIN at' = Callers /\ DOMAIN serving' = Workers
  BY DEF LockInv, LockType
<1>. QED
  BY <1>0, <1>1, <1>5, <1>6, <1>7, <1>8, TodoInv

LEMMA RunningInv ==
    ASSUME LockInv, NEW g \in Goroutines, Running(g)
    PROVE  LockInv'
<1>1. UNCHANGED <<mode, at, serving>> /\ (LockStep(g) \/ Choose(g))
  BY DEF Running, poolVars
<1>2. CASE LockStep(g)
  <2>1. PICK l \in Mutexes : RLock(g, l) \/ RUnlock(g, l) \/ Announce(g, l)
                               \/ Lock(g, l) \/ Unlock(g, l)
    BY <1>2 DEF LockStep
  <2>. QED
    BY <1>1, <2>1, RLockInv, RUnlockInv, AnnounceInv, LockedInv, UnlockInv
<1>. QED
  BY <1>1, <1>2, ChooseInv

(* A goroutine between calls holds nothing and waits for nothing. *)
LEMMA AtRest ==
    ASSUME LockInv, NEW g \in Goroutines, todo[g] = << >>
    PROVE  Held(g) = Nothing /\ \A l : ~AtCall(g, "Lock", l)
<1>1. <<todo[g], Held(g)>> \in Legal(Top)
  BY DEF LockInv, Runnable
<1>2. Held(g) = Nothing
  BY <1>1, LegalUnfold
<1>. QED
  BY <1>2 DEF AtCall

(* It starts a call that the locks allow. *)
LEMMA StartInv ==
    ASSUME LockInv, NEW g \in Goroutines, todo[g] = << >>, NEW s,
           <<s, Nothing>> \in Legal(Top), Start(g, s),
           UNCHANGED <<mode, writer, excl, readers>>,
           DOMAIN at' = Callers, DOMAIN serving' = Workers, Resting'
    PROVE  LockInv'
BY AtRest, TodoInv DEF Start

(* Steps outside the locks. *)
LEMMA SameLocks ==
    ASSUME LockInv, UNCHANGED <<mode, writer, excl, readers, todo>>,
           DOMAIN at' = Callers, DOMAIN serving' = Workers, Resting'
    PROVE  LockInv'
<1>1. LockType'
  BY DEF LockInv, LockType
<1>2. \A h \in Goroutines : Held(h)' = Held(h)
  BY DEF Held
<1>3. Top' = Top
  BY DEF Top
<1>4. ASSUME NEW h \in Goroutines PROVE <<todo'[h], Held(h)'>> \in Legal(Top')
  BY <1>2, <1>3 DEF LockInv, Runnable
<1>5. Runnable'
  BY <1>4 DEF Runnable
<1>6. Announced'
  BY DEF LockInv, Announced, AtCall
<1>. QED
  BY <1>1, <1>5, <1>6 DEF LockInv

-----------------------------------------------------------------------------
LEMMA LockStart ==
    ASSUME Init
    PROVE  LockInv
<1>1. /\ mode \in Modes /\ at = [c \in Callers |-> "idle"]
      /\ serving = [w \in Workers |-> IF mode = "pool" THEN None ELSE Exited]
      /\ writer = [l \in Mutexes |-> None] /\ excl = [l \in Mutexes |-> FALSE]
      /\ readers = [l \in Mutexes |-> [g \in Goroutines |-> 0]]
      /\ todo = [g \in Goroutines |-> << >>]
  BY DEF Init, LockInit
<1>2. LockType
  BY <1>1, ConcurrencyAssumption DEF LockType
<1>3. ASSUME NEW g \in Goroutines PROVE <<todo[g], Held(g)>> \in Legal(Top)
  <2>1. todo[g] = << >>
    BY <1>1
  <2>2. {l \in Mutexes : writer[l] = g /\ excl[l]} = {}
    BY <1>1
  <2>3. [l \in Mutexes |-> readers[l][g]] = [l \in Mutexes |-> 0]
    BY <1>1
  <2>4. Held(g) = Nothing
    BY <2>2, <2>3 DEF Held, Nothing
  <2>5. << << >>, Nothing>> \in Legal(Top)
    BY TopType, NothingHeld, LegalFold, EmptySeq
  <2>. QED
    BY <2>1, <2>4, <2>5
<1>4. Runnable
  BY <1>3 DEF Runnable
<1>5. Announced
  BY <1>1 DEF Announced
<1>6. Resting
  BY <1>1 DEF Resting, Goroutines
<1>. QED
  BY <1>2, <1>4, <1>5, <1>6 DEF LockInv

LEMMA LockNext ==
    ASSUME LockInv, PoolInv, [Next]_vars, Calls \subseteq {"free", "report", "analyze"}
    PROVE  LockInv'
<1>0. /\ Callers \subseteq Goroutines /\ Workers \subseteq Goroutines
      /\ DOMAIN at = Callers /\ DOMAIN serving = Workers
      /\ todo \in [Goroutines -> Seq(Ops)] /\ Resting /\ mode \in {"pool", "machine"}
  BY DEF LockInv, LockType, Goroutines
<1>1. CASE UNCHANGED vars
  <2>1. UNCHANGED <<mode, writer, excl, readers, todo, at, serving>>
    BY <1>1 DEF vars, lockVars, poolVars
  <2>2. Resting'
    BY <1>0, <2>1 DEF Resting
  <2>. QED
    BY <1>0, <2>1, <2>2, SameLocks
<1>2. ASSUME NEW g \in Goroutines, Running(g) PROVE LockInv'
  BY <1>2, RunningInv
<1>3. ASSUME NEW c \in Callers, Return(c) \/ Receive(c) \/ allocateConcurrent(c)
      PROVE  LockInv'
  <2>1. PICK where \in {"idle", "select"} :
            /\ Goto(c, where) /\ (where = "select" => mode = "pool") /\ todo[c] = << >>
            /\ UNCHANGED <<mode, writer, excl, readers, todo, serving>>
    <3>1. CASE Return(c)
      BY <3>1 DEF Return, lockVars, poolVars
    <3>2. CASE Receive(c)
      BY <1>0, <3>2 DEF Receive, lockVars, poolVars, Resting
    <3>3. CASE allocateConcurrent(c)
      BY <1>0, <3>3 DEF allocateConcurrent, lockVars, poolVars, Resting
    <3>. QED
      BY <1>3, <3>1, <3>2, <3>3
  <2>2. /\ at'[c] = where /\ DOMAIN at' = Callers
        /\ \A d \in Callers \ {c} : at'[d] = at[d]
    BY <1>0, <2>1 DEF Goto
  <2>3. Resting'
    BY <1>0, <2>1, <2>2 DEF Resting
  <2>. QED
    BY <1>0, <2>1, <2>2, <2>3, SameLocks
<1>4. ASSUME NEW c \in Callers, NEW s, <<s, Nothing>> \in Legal(Top), todo[c] = << >>,
             Start(c, s), Goto(c, "calling"), UNCHANGED <<mode, writer, excl, readers, serving>>
      PROVE  LockInv'
  <2>1. /\ at'[c] = "calling" /\ DOMAIN at' = Callers
        /\ \A d \in Callers \ {c} : at'[d] = at[d]
    BY <1>0, <1>4 DEF Goto
  <2>2. \A h \in Goroutines \ {c} : todo'[h] = todo[h]
    BY <1>0, <1>4 DEF Start
  <2>3. c \notin Workers
    BY ConcurrencyAssumption
  <2>4. Resting'
    BY <1>0, <1>4, <2>1, <2>2, <2>3 DEF Resting
  <2>. QED
    BY <1>0, <1>4, <2>1, <2>4, StartInv
<1>5. ASSUME NEW c \in Callers, Call(c) PROVE LockInv'
  <2>1. PICK s \in IF mode = "pool" THEN AllocatorCalls ELSE Methods : Start(c, s)
    BY <1>5 DEF Call
  <2>2. <<s, Nothing>> \in Legal(Top)
    BY <1>0, <2>1, AllocatorCallsLegal, MethodsLegal DEF Top
  <2>3. todo[c] = << >> /\ Goto(c, "calling") /\ UNCHANGED <<mode, writer, excl, readers, serving>>
    BY <1>0, <1>5 DEF Call, poolVars, Resting
  <2>. QED
    BY <1>4, <2>1, <2>2, <2>3
<1>6. ASSUME NEW c \in Callers, Select(c) PROVE LockInv'
  <2>1. at[c] = "select" /\ UNCHANGED <<mode, writer, excl, readers, serving>>
    BY <1>6 DEF Select
  <2>2. todo[c] = << >> /\ mode = "pool"
    BY <1>0, <2>1 DEF Resting
  <2>3. CASE UNCHANGED <<todo, at>>
    <3>1. Resting'
      BY <1>0, <2>1, <2>3 DEF Resting
    <3>. QED
      BY <1>0, <2>1, <2>3, <3>1, SameLocks
  <2>4. CASE UNCHANGED todo /\ Goto(c, "waiting")
    <3>1. /\ at'[c] = "waiting" /\ DOMAIN at' = Callers
          /\ \A d \in Callers \ {c} : at'[d] = at[d]
      BY <1>0, <2>4 DEF Goto
    <3>2. Resting'
      BY <1>0, <2>1, <2>2, <2>4, <3>1 DEF Resting
    <3>. QED
      BY <1>0, <2>1, <2>4, <3>1, <3>2, SameLocks
  <2>5. CASE Start(c, allocateSync) /\ Goto(c, "calling")
    <3>1. <<allocateSync, Nothing>> \in Legal(Top)
      BY <2>2, AllocateSyncLegal DEF Top
    <3>. QED
      BY <1>4, <2>1, <2>2, <2>5, <3>1
  <2>. QED
    BY <1>6, <2>3, <2>4, <2>5 DEF Select
<1>7. ASSUME NEW w \in Workers, allocWorker(w) PROVE LockInv'
  <2>1. /\ serving[w] = None /\ serving' = [serving EXCEPT ![w] = Head(queue)]
        /\ Start(w, allocateSync) /\ UNCHANGED <<mode, writer, excl, readers, at>>
    BY <1>7 DEF allocWorker
  <2>2. todo[w] = << >> /\ mode = "pool"
    BY <1>0, <2>1, ConcurrencyAssumption DEF Resting
  <2>3. /\ DOMAIN serving' = Workers /\ \A v \in Workers \ {w} : serving'[v] = serving[v]
        /\ \A h \in Goroutines \ {w} : todo'[h] = todo[h]
    BY <1>0, <2>1 DEF Start
  <2>4. serving'[w] \in Callers
    <3>1. queue \in Seq(Callers) /\ queue # << >>
      BY <1>7 DEF allocWorker, PoolInv, PoolType
    <3>2. Head(queue) \in Callers
      BY <3>1, HeadTailProperties
    <3>. QED
      BY <1>0, <2>1, <3>2
  <2>5. w \notin Callers /\ None \notin Callers /\ Exited \notin Callers
    BY ConcurrencyAssumption
  <2>6. Resting'
    BY <1>0, <2>1, <2>2, <2>3, <2>4, <2>5 DEF Resting
  <2>7. <<allocateSync, Nothing>> \in Legal(Top)
    BY <2>2, AllocateSyncLegal DEF Top
  <2>. QED
    BY <1>0, <2>1, <2>2, <2>3, <2>6, <2>7, StartInv
<1>8. ASSUME NEW w \in Workers, Answer(w) \/ Exit(w) PROVE LockInv'
  <2>1. /\ todo[w] = << >> /\ mode = "pool"
        /\ UNCHANGED <<mode, writer, excl, readers, todo, at>>
    BY <1>0, <1>8, ConcurrencyAssumption DEF Answer, Exit, lockVars, Resting
  <2>2. /\ DOMAIN serving' = Workers
        /\ \A v \in Workers \ {w} : serving'[v] = serving[v]
    BY <1>0, <1>8 DEF Answer, Exit
  <2>3. Resting'
    BY <1>0, <2>1, <2>2 DEF Resting
  <2>. QED
    BY <1>0, <2>1, <2>2, <2>3, SameLocks
<1>9. ASSUME NEW c \in Callers, Shutdown(c) PROVE LockInv'
  <2>1. UNCHANGED <<mode, writer, excl, readers, todo, at, serving>>
    BY <1>9 DEF Shutdown, lockVars
  <2>2. Resting'
    BY <1>0, <2>1 DEF Resting
  <2>. QED
    BY <1>0, <2>1, <2>2, SameLocks
<1>. QED
  BY <1>0, <1>1, <1>2, <1>3, <1>5, <1>6, <1>7, <1>8, <1>9
     DEF Next, CallerStep, WorkerStep

-----------------------------------------------------------------------------
(* Who waits for whom. *)

(* What the locks look like to one goroutine. *)
LEMMA HolderFacts ==
    ASSUME LockInv, NEW g \in Goroutines
    PROVE  /\ Ruled(Top, Held(g)) /\ Held(g) \in Holdings
           /\ \A l \in Mutexes : Held(g).r[l] = readers[l][g] /\ readers[l][g] \in Nat
           /\ \A l \in Mutexes : l \in Held(g).w <=> (writer[l] = g /\ excl[l])
<1>1. <<todo[g], Held(g)>> \in Legal(Top)
  BY DEF LockInv, Runnable
<1>2. LockType
  BY DEF LockInv
<1>3. \A l \in Mutexes : readers[l][g] \in Nat
  BY <1>2 DEF LockType
<1>. QED
  BY <1>1, <1>2, <1>3, LegalUnfold, HeldType

(* A goroutine that asks for l exclusively holds nothing and l is Top, or  *)
(* it holds Top exclusively; it has not locked l.                          *)
LEMMA AtLock ==
    ASSUME LockInv, NEW g \in Goroutines, NEW l \in Mutexes, AtCall(g, "Lock", l)
    PROVE  /\ IsFree(Held(g), l) /\ readers[Top][g] = 0
           /\ Top \in Held(g).w \/ (l = Top /\ Held(g) = Nothing)
<1>. DEFINE x == Held(g)
            y == WithWrite(x, l)
<1>1. Goes(Top, Legal(Top), todo[g], x) /\ Head(todo[g]) = <<"Lock", l>>
  BY AtCallFacts
<1>2. Back(Top, Legal(Top), todo[g], x, l)
  BY <1>1, GoesBack
<1>3. IsFree(x, l) /\ <<Tail(todo[g]), y>> \in Legal(Top)
  BY <1>1, <1>2, Zenon DEF Back
<1>4. Ruled(Top, y) /\ Ruled(Top, x) /\ x \in Holdings /\ Top \in Mutexes
  BY <1>3, LegalUnfold, HolderFacts, TopType
<1>5. y.r = x.r /\ y.w = x.w \cup {l} /\ x.r[Top] = readers[Top][g] /\ readers[Top][g] \in Nat
  <2>1. y.r = x.r /\ y.w = x.w \cup {l}
    BY <1>4, HoldingsChange
  <2>. QED
    BY <1>4, <2>1, HolderFacts
<1>. HIDE DEF x, y
<1>6. readers[Top][g] = 0
  BY <1>4, <1>5 DEF Ruled
<1>7. Top \in y.w
  BY <1>4, <1>5, <1>6, NothingHeld DEF Ruled, IsFree
<1>8. Top \in x.w \/ (l = Top /\ x = Nothing)
  BY <1>4, <1>5, <1>6, <1>7 DEF Ruled, IsFree
<1>. QED
  BY <1>3, <1>6, <1>8 DEF x

(* One that asks for l for reading holds nothing and l is Top, or it holds *)
(* Top and l is another; it has not locked l exclusively.                  *)
LEMMA AtRLock ==
    ASSUME LockInv, NEW g \in Goroutines, NEW l \in Mutexes, AtCall(g, "RLock", l)
    PROVE  /\ l \notin Held(g).w
           /\ IF l = Top THEN Held(g) = Nothing ELSE ~IsFree(Held(g), Top)
<1>. DEFINE x == Held(g)
            y == WithRead(x, l)
<1>1. Goes(Top, Legal(Top), todo[g], x) /\ Head(todo[g]) = <<"RLock", l>>
  BY AtCallFacts
<1>2. Back(Top, Legal(Top), todo[g], x, l)
  BY <1>1, GoesBack
<1>3. l \notin x.w /\ (l = Top => x.r[Top] = 0) /\ <<Tail(todo[g]), y>> \in Legal(Top)
  BY <1>1, <1>2, Zenon DEF Back
<1>4. Ruled(Top, y) /\ Ruled(Top, x) /\ x \in Holdings /\ Top \in Mutexes
  BY <1>3, LegalUnfold, HolderFacts, TopType
<1>5. /\ y.w = x.w /\ y.r[l] = x.r[l] + 1 /\ x.r[l] \in Nat
      /\ \A k \in Mutexes \ {l} : y.r[k] = x.r[k]
  BY <1>4, HoldingsChange
<1>. HIDE DEF x, y
<1>6. l = Top => x = Nothing
  BY <1>3, <1>4 DEF Ruled, IsFree
<1>7. l # Top => ~IsFree(x, Top)
  <2>. SUFFICES ASSUME l # Top, IsFree(x, Top) PROVE FALSE
    OBVIOUS
  <2>1. IsFree(y, Top)
    BY <1>4, <1>5 DEF IsFree
  <2>2. y = Nothing
    BY <1>4, <2>1 DEF Ruled
  <2>. QED
    BY <1>5, <2>2, NothingHeld
<1>. QED
  BY <1>3, <1>6, <1>7 DEF x

(* Who holds Top exclusively waits for nobody. *)
LEMMA HolderRuns ==
    ASSUME LockInv, NEW g \in Goroutines, NEW h \in Goroutines, Top \in Held(g).w
    PROVE  ~WaitsFor(g, h)
<1>. SUFFICES ASSUME WaitsFor(g, h) PROVE FALSE
  OBVIOUS
<1>0. Top \in Mutexes /\ writer[Top] = g /\ excl[Top] /\ g # None /\ h # None
  BY TopType, HolderFacts, ConcurrencyAssumption DEF Goroutines
<1>1. \A k \in Goroutines \ {g} : Held(k) = Nothing
  <2>1. ASSUME NEW k \in Goroutines \ {g} PROVE Held(k) = Nothing
    <3>1. readers[Top][k] = 0
      BY <1>0 DEF LockInv, Announced
    <3>2. IsFree(Held(k), Top)
      BY <1>0, <3>1, HolderFacts DEF IsFree
    <3>. QED
      BY <3>2, HolderFacts DEF Ruled
  <2>. QED
    BY <2>1
<1>2. ASSUME NEW l \in Mutexes, writer[l] = h, h # g PROVE FALSE
  <2>1. l \notin Held(h).w
    BY <1>1, <1>2, NothingHeld
  <2>2. ~excl[l]
    BY <1>2, <2>1, HolderFacts
  <2>3. AtCall(h, "Lock", l)
    BY <1>0, <1>2, <2>2 DEF LockInv, Announced
  <2>4. l = Top
    BY <1>1, <1>2, <2>3, AtLock, NothingHeld
  <2>. QED
    BY <1>0, <1>2, <2>4
<1>3. PICK l \in Mutexes :
        \/ AtCall(g, "RLock", l) /\ writer[l] = h
        \/ AtCall(g, "Lock", l) /\ writer[l] = h /\ (h # g \/ excl[l])
        \/ AtCall(g, "Lock", l) /\ writer[l] = g /\ ~excl[l] /\ readers[l][h] > 0
  BY DEF WaitsFor
<1>4. CASE AtCall(g, "RLock", l) /\ writer[l] = h
  <2>1. h = g /\ l \notin Held(g).w
    BY <1>2, <1>4, AtRLock
  <2>2. ~excl[l]
    BY <1>4, <2>1, HolderFacts
  <2>3. AtCall(g, "Lock", l)
    BY <1>0, <1>4, <2>1, <2>2 DEF LockInv, Announced
  <2>. QED
    BY <1>4, <2>3 DEF AtCall
<1>5. CASE AtCall(g, "Lock", l) /\ writer[l] = h /\ (h # g \/ excl[l])
  <2>1. h = g /\ l \notin Held(g).w
    BY <1>2, <1>5, AtLock DEF IsFree
  <2>. QED
    BY <1>5, <2>1, HolderFacts
<1>6. CASE AtCall(g, "Lock", l) /\ writer[l] = g /\ ~excl[l] /\ readers[l][h] > 0
  <2>1. readers[l][g] = 0
    BY <1>6, AtLock, HolderFacts DEF IsFree
  <2>2. h # g => readers[l][h] = 0
    BY <1>1, NothingHeld, HolderFacts
  <2>. QED
    BY <1>6, <2>1, <2>2
<1>. QED
  BY <1>3, <1>4, <1>5, <1>6

(* Nor does who holds it for reading. *)
LEMMA ReaderRuns ==
    ASSUME LockInv, NEW g \in Goroutines, NEW h \in Goroutines, readers[Top][g] > 0
    PROVE  ~WaitsFor(g, h)
<1>. SUFFICES ASSUME WaitsFor(g, h) PROVE FALSE
  OBVIOUS
<1>0. Top \in Mutexes /\ h # None
  BY TopType, ConcurrencyAssumption DEF Goroutines
<1>1. ~excl[Top]
  BY <1>0 DEF LockInv, Announced
<1>2. \A l : ~AtCall(g, "Lock", l)
  <2>1. ASSUME NEW l, AtCall(g, "Lock", l) PROVE FALSE
    <3>1. l \in Mutexes
      <4>1. Goes(Top, Legal(Top), todo[g], Held(g)) /\ Head(todo[g]) = <<"Lock", l>>
        BY <2>1, AtCallFacts
      <4>2. Back(Top, Legal(Top), todo[g], Held(g), l)
        BY <4>1, GoesBack
      <4>. QED
        BY <4>1, <4>2, Zenon DEF Back
    <3>2. readers[Top][g] = 0
      BY <2>1, <3>1, AtLock
    <3>. QED
      BY <3>2
  <2>. QED
    BY <2>1
<1>3. PICK l \in Mutexes : AtCall(g, "RLock", l) /\ writer[l] = h
  BY <1>2, Zenon DEF WaitsFor
<1>4. l # Top
  <2>1. Held(g) # Nothing
    BY <1>0, HolderFacts, NothingHeld
  <2>. QED
    BY <1>3, <2>1, AtRLock
<1>5. Top \in Held(h).w
  <2>1. CASE excl[l]
    <3>1. l \in Held(h).w
      BY <1>3, <2>1, HolderFacts
    <3>2. Held(h).r[Top] = readers[Top][h] /\ readers[Top][h] \in Nat /\ Ruled(Top, Held(h))
      BY <1>0, HolderFacts
    <3>. QED
      BY <3>1, <3>2, NothingHeld DEF Ruled, IsFree
  <2>2. CASE ~excl[l]
    <3>1. AtCall(h, "Lock", l)
      BY <1>0, <1>3, <2>2 DEF LockInv, Announced
    <3>. QED
      BY <1>4, <3>1, AtLock
  <2>. QED
    BY <2>1, <2>2
<1>. QED
  BY <1>0, <1>1, <1>5, HolderFacts

(* The others hold nothing and wait at Top. *)
LEMMA OthersWaitAtTop ==
    ASSUME LockInv, NEW g \in Goroutines, NEW h \in Goroutines, WaitsFor(g, h)
    PROVE  /\ AtCall(g, "RLock", Top) \/ AtCall(g, "Lock", Top)
           /\ \/ writer[Top] = h /\ (AtCall(g, "Lock", Top) => h # g \/ excl[Top])
              \/ readers[Top][h] > 0
<1>0. Top \in Mutexes
  BY TopType
<1>1. Top \notin Held(g).w /\ ~(readers[Top][g] > 0)
  BY HolderRuns, ReaderRuns
<1>2. IsFree(Held(g), Top)
  BY <1>0, <1>1, HolderFacts DEF IsFree
<1>3. \A l \in Mutexes : AtCall(g, "RLock", l) \/ AtCall(g, "Lock", l) => l = Top
  BY <1>1, <1>2, AtLock, AtRLock
<1>4. ~(AtCall(g, "RLock", Top) /\ AtCall(g, "Lock", Top))
  BY DEF AtCall
<1>. QED
  BY <1>3, <1>4, Zenon DEF WaitsFor

(* No group of goroutines waits for locks that only they could give up,    *)
(* for any number of callers, workers and regions, whether the allocator   *)
(* is used directly (allocateSync, freeSync, the reports, the workers) or  *)
(* by the machine (every method and instruction). Callers of the allocator *)
(* free, report and analyze besides to allocate; with AllocateInRegion     *)
(* among the calls it is false, as the run lock_cycle shows.               *)
THEOREM NoDeadlocks ==
    ASSUME Calls \subseteq {"free", "report", "analyze"}
    PROVE  Spec => []NoDeadlock
<1>1. LockInv => NoDeadlock
  <2>. SUFFICES ASSUME LockInv, NEW stuck \in (SUBSET Goroutines) \ {{}},
                       \A g \in stuck : \E h \in stuck : WaitsFor(g, h)
                PROVE  FALSE
    BY DEF NoDeadlock
  <2>0. Top \in Mutexes /\ stuck \subseteq Goroutines
    BY TopType
  <2>1. ASSUME NEW g \in stuck PROVE ~(readers[Top][g] > 0) /\ Top \notin Held(g).w
    BY <2>0, HolderRuns, ReaderRuns
  <2>2. ASSUME NEW g \in stuck
        PROVE  \E h \in stuck : /\ writer[Top] = h /\ ~excl[Top]
                                /\ AtCall(g, "Lock", Top) => h # g
    <3>1. PICK h \in stuck : WaitsFor(g, h)
      OBVIOUS
    <3>2. writer[Top] = h /\ (AtCall(g, "Lock", Top) => h # g \/ excl[Top])
      BY <2>0, <2>1, <3>1, OthersWaitAtTop
    <3>3. ~excl[Top]
      BY <2>0, <2>1, <3>2, HolderFacts
    <3>. QED
      BY <3>2, <3>3
  <2>3. PICK g \in stuck : TRUE
    OBVIOUS
  <2>4. PICK h \in stuck : writer[Top] = h /\ ~excl[Top]
    BY <2>2
  <2>5. AtCall(h, "Lock", Top)
    BY <2>0, <2>4, ConcurrencyAssumption DEF LockInv, Announced, Goroutines
  <2>. QED
    BY <2>2, <2>4, <2>5
<1>2. Init => LockInv /\ PoolInv
  BY LockStart, PoolInit
<1>3. (LockInv /\ PoolInv) /\ [Next]_vars => (LockInv /\ PoolInv)'
  BY LockNext, PoolNext
<1>. QED
  BY <1>1, <1>2, <1>3, PTL DEF Spec

=============================================================================
