--------------------------- MODULE GasAccountant ---------------------------
(***************************************************************************)
(* The gas accountant: internal/vm/gas.go. NewAccountant makes one bucket, *)
(* which goroutines share without a lock: Consume and Refund are loops     *)
(* around atomic loads, compare-and-swaps and adds on its two counters.    *)
(* One step of the model is one atomic operation of one goroutine; failed  *)
(* compare-and-swaps, retries and error returns included.                  *)
(***************************************************************************)
EXTENDS Integers, FiniteSets, FiniteSetsExt

CONSTANTS Threads,    \* the goroutines that call the accountant
          Amounts,    \* the amounts of gas they ask for
          GasLimit,   \* the argument of NewAccountant
          U64,        \* number of values of a uint64
          MaxCredit   \* bound: no refund starts past this much credited gas

ASSUME GasAssumption ==
    /\ GasLimit \in Nat /\ U64 \in Nat /\ GasLimit < U64
    /\ Amounts \subseteq 0 .. (U64 - 1)
    /\ MaxCredit \in Nat
    /\ IsFiniteSet(Threads)

VARIABLES
    remaining,   \* GasBucket.remaining
    used,        \* GasBucket.used
    pc,          \* pc[t]: what goroutine t does next
    amt,         \* amt[t]: the argument gas of its call
    old,         \* old[t]: the value its loop loaded (old in Consume, cur in Refund)
    charged,     \* history: gas that calls of Consume took from remaining
    credited     \* history: gas that calls of Refund added to remaining

gasVars == <<remaining, used, pc, amt, old, charged, credited>>

(* atomic.AddUint64 on operands below U64. *)
AddUint64(v, n) == IF v + n >= U64 THEN v + n - U64 ELSE v + n

GasInit ==
    /\ remaining = GasLimit
    /\ used = 0
    /\ pc = [t \in Threads |-> "idle"]
    /\ amt = [t \in Threads |-> 0]
    /\ old = [t \in Threads |-> 0]
    /\ charged = 0
    /\ credited = 0

Goto(t, where) == pc' = [pc EXCEPT ![t] = where]

-----------------------------------------------------------------------------
(* Consume. *)

(* The first load. With too little gas the call returns ErrInsufficientGas, *)
(* which leaves everything as it was.                                       *)
ConsumeBegin(t, gas) ==
    /\ pc[t] = "idle"
    /\ remaining >= gas
    /\ Goto(t, "cas")
    /\ amt' = [amt EXCEPT ![t] = gas]
    /\ old' = [old EXCEPT ![t] = remaining]
    /\ UNCHANGED <<remaining, used, charged, credited>>

(* The load of a later turn of the loop, and its error return. *)
ConsumeReload(t) ==
    /\ pc[t] = "load"
    /\ old' = [old EXCEPT ![t] = remaining]
    /\ Goto(t, IF remaining < amt[t] THEN "idle" ELSE "cas")
    /\ UNCHANGED <<remaining, used, amt, charged, credited>>

(* Mutant: a plain store in place of the compare-and-swap. *)
ConsumeStore(t) ==
    /\ pc[t] = "cas"
    /\ remaining' = old[t] - amt[t]
    /\ charged' = charged + amt[t]
    /\ Goto(t, "add")
    /\ UNCHANGED <<used, amt, old, credited>>

(* Mutant: the loop retries with the value it loaded before. *)
ConsumeCASNoReload(t) ==
    /\ pc[t] = "cas"
    /\ remaining = old[t]
    /\ remaining' = old[t] - amt[t]
    /\ charged' = charged + amt[t]
    /\ Goto(t, "add")
    /\ UNCHANGED <<used, amt, old, credited>>

ConsumeCAS(t) ==
    /\ pc[t] = "cas"
    /\ \/ /\ remaining = old[t]
          /\ remaining' = old[t] - amt[t]
          /\ charged' = charged + amt[t]
          /\ Goto(t, "add")
       \/ /\ remaining # old[t]
          /\ Goto(t, "load")
          /\ UNCHANGED <<remaining, charged>>
    /\ UNCHANGED <<used, amt, old, credited>>

ConsumeAdd(t) ==
    /\ pc[t] = "add"
    /\ used' = AddUint64(used, amt[t])
    /\ Goto(t, "idle")
    /\ UNCHANGED <<remaining, amt, old, charged, credited>>

-----------------------------------------------------------------------------
(* Refund. *)

(* The scan for a bucket with used gas; there is one bucket. *)
RefundBegin(t, gas) ==
    /\ pc[t] = "idle"
    /\ credited <= MaxCredit
    /\ amt' = [amt EXCEPT ![t] = gas]
    /\ Goto(t, IF used = 0 THEN "credit" ELSE "rload")
    /\ UNCHANGED <<remaining, used, old, charged, credited>>

RefundLoad(t) ==
    /\ pc[t] = "rload"
    /\ old' = [old EXCEPT ![t] = used]
    /\ Goto(t, "rcas")
    /\ UNCHANGED <<remaining, used, amt, charged, credited>>

(* Mutant: used is not clamped at zero. *)
RefundCASNoClamp(t) ==
    /\ pc[t] = "rcas"
    /\ \/ /\ used = old[t]
          /\ used' = old[t] - amt[t]
          /\ Goto(t, "credit")
       \/ /\ used # old[t]
          /\ Goto(t, "rload")
          /\ UNCHANGED used
    /\ UNCHANGED <<remaining, amt, old, charged, credited>>

(* used is clamped at zero; what is credited next is not. *)
RefundCAS(t) ==
    /\ pc[t] = "rcas"
    /\ \/ /\ used = old[t]
          /\ used' = IF old[t] <= amt[t] THEN 0 ELSE old[t] - amt[t]
          /\ Goto(t, "credit")
       \/ /\ used # old[t]
          /\ Goto(t, "rload")
          /\ UNCHANGED used
    /\ UNCHANGED <<remaining, amt, old, charged, credited>>

RefundCredit(t) ==
    /\ pc[t] = "credit"
    /\ remaining' = AddUint64(remaining, amt[t])
    /\ credited' = credited + amt[t]
    /\ Goto(t, "idle")
    /\ UNCHANGED <<used, amt, old, charged>>

-----------------------------------------------------------------------------
Consuming(t) == ConsumeReload(t) \/ ConsumeCAS(t) \/ ConsumeAdd(t)

Refunding(t) == RefundLoad(t) \/ RefundCAS(t) \/ RefundCredit(t)

GasNext ==
    \/ \E t \in Threads : Consuming(t) \/ Refunding(t)
    \/ \E t \in Threads, gas \in Amounts : ConsumeBegin(t, gas) \/ RefundBegin(t, gas)

(* The Go scheduler runs every goroutine that can run; nobody has to call.  *)
GasSpec     == GasInit /\ [][GasNext]_gasVars
GasFairSpec == GasSpec /\ \A t \in Threads : WF_gasVars(Consuming(t) \/ Refunding(t))

-----------------------------------------------------------------------------
(* Properties. *)

(* Every variable keeps its type; the counters stay within a uint64. *)
TypeOK ==
    /\ remaining \in 0 .. (U64 - 1)
    /\ used \in 0 .. (U64 - 1)
    /\ pc \in [Threads -> {"idle", "load", "cas", "add", "rload", "rcas", "credit"}]
    /\ amt \in [Threads -> Amounts \cup {0}]
    /\ old \in [Threads -> 0 .. (U64 - 1)]
    /\ charged \in Nat
    /\ credited \in Nat

(* Whatever the interleaving, calls of Consume that succeed never take     *)
(* more than the limit and what refunds added: no charge is granted twice  *)
(* from the same gas and remaining never wraps below zero.                 *)
NoOverdraft == remaining + charged <= GasLimit + credited

(* The gas of the calls that goroutines are in the middle of. *)
InFlight(where) == MapThenSumSet(LAMBDA t : amt[t], {t \in Threads : pc[t] = where})

(* Gas is never lost: what remains, what is recorded as used, what charges *)
(* have taken and not yet recorded and what refunds have yet to credit     *)
(* make up at least the limit at every instant. And gas is created only by *)
(* refunds that find less recorded as used than they return, and never     *)
(* more than they return: until the first credit the sum is exact. (Counts *)
(* that do not exceed a uint64.)                                           *)
GasConserved ==
    /\ remaining + used + InFlight("add") + InFlight("credit") >= GasLimit
    /\ remaining + used + InFlight("add") <= GasLimit + credited

(* Every call returns although others keep winning the compare-and-swap,   *)
(* as long as no more than MaxCredit is refunded: every charge that wins   *)
(* takes gas away, so the others succeed or run out of it.                 *)
GasCallsReturn == \A t \in Threads : pc[t] # "idle" ~> pc[t] = "idle"

=============================================================================
