---------------------------- MODULE VM3D_proofs ----------------------------
(***************************************************************************)
(* Proofs about the execution loop, for all programs, gas limits and       *)
(* instruction limits: what gas bounds, what the instruction limit bounds, *)
(* and which errors and successes Execute reports.                         *)
(***************************************************************************)
EXTENDS VM3D, SequenceTheorems, Sums, TLAPS

-----------------------------------------------------------------------------
(* Widths and offsets. *)

(* Every decoder takes at least the opcode's byte. *)
LEMMA WidthPositive == \A op : Width(op) \in Nat /\ Width(op) >= 1
BY DEF Width

(* fetchInstruction and the decoders agree on every opcode. *)
LEMMA SizesAgree == \A op : instSize(op) = Width(op)
BY DEF Width, instSize

LEMMA CostNat ==
    ASSUME NEW inst \in Instructions
    PROVE  calculateGasCost(inst) \in Nat
<1>1. inst.size \in Nat
  BY VM3DAssumption
<1>2. baseCost(inst.op) \in Nat
  BY DEF baseCost
<1>. QED
  BY <1>1, <1>2 DEF calculateGasCost

(* What a member of Programs is. *)
LEMMA ProgramFacts ==
    ASSUME NEW p \in Programs
    PROVE  /\ p.code \in Seq(Instructions)
           /\ p.cut \in {0, 1}
           /\ p.cut = 1 => Len(p.code) > 0 /\ Width(p.code[Len(p.code)].op) > 1
<1> DEFINE codes == UNION {[1 .. n -> Instructions] : n \in 0 .. MaxLength}
<1>1. codes \subseteq Seq(Instructions)
  BY VM3DAssumption, SeqDef
<1>2. CASE \E c \in codes : p = [code |-> c, cut |-> 0]
  BY <1>1, <1>2
<1>3. CASE \E c \in codes : /\ c # << >> /\ Width(c[Len(c)].op) > 1
                            /\ p = [code |-> c, cut |-> 1]
  <2>1. PICK c \in codes : /\ c # << >> /\ Width(c[Len(c)].op) > 1
                           /\ p = [code |-> c, cut |-> 1]
    BY <1>3
  <2>2. c \in Seq(Instructions) /\ Len(c) > 0
    BY <1>1, <2>1
  <2>. QED
    BY <2>1, <2>2
<1>. QED
  BY <1>2, <1>3 DEF Programs

LEMMA NoProgramFacts == NoProgram.code = << >> /\ NoProgram.cut = 0
BY DEF NoProgram

LEMMA OffsetIs ==
    ASSUME NEW code, NEW i
    PROVE  Offset(code, i) = SumOf(Widths(code), 1 .. (i - 1))
BY DEF Offset, SumOf

(* Instructions lie one after the other. *)
LEMMA OffsetStep ==
    ASSUME NEW code \in Seq(Instructions)
    PROVE  /\ Offset(code, 1) = 0
           /\ \A i \in 1 .. (Len(code) + 1) : Offset(code, i) \in Nat
           /\ \A i \in 1 .. Len(code) :
                 Offset(code, i + 1) = Offset(code, i) + Width(code[i].op)
           /\ \A i, j \in 1 .. (Len(code) + 1) : i <= j => Offset(code, i) <= Offset(code, j)
<1> DEFINE w == Widths(code)
<1>1. \A j \in 1 .. Len(code) : w[j] = Width(code[j].op) /\ w[j] \in Nat
  BY WidthPositive DEF Widths
<1> HIDE DEF w
<1>2. \A i \in 1 .. (Len(code) + 1) :
         /\ IsFiniteSet(1 .. (i - 1))
         /\ 1 .. (i - 1) \subseteq 1 .. Len(code)
  <2> TAKE i \in 1 .. (Len(code) + 1)
  <2>1. 1 \in Int /\ i - 1 \in Int
    OBVIOUS
  <2>2. IsFiniteSet(1 .. (i - 1))
    BY <2>1, FS_Interval
  <2>3. 1 .. (i - 1) \subseteq 1 .. Len(code)
    OBVIOUS
  <2>. QED
    BY <2>2, <2>3
<1>3. Offset(code, 1) = 0
  <2>1. 1 .. (1 - 1) = {}
    OBVIOUS
  <2>. QED
    BY <2>1, OffsetIs, SumEmpty
<1>4. \A i \in 1 .. (Len(code) + 1) : Offset(code, i) \in Nat
  <2> TAKE i \in 1 .. (Len(code) + 1)
  <2>1. \A j \in 1 .. (i - 1) : w[j] \in Nat
    BY <1>1, <1>2
  <2>2. SumOf(w, 1 .. (i - 1)) \in Nat
    BY <1>2, <2>1, SumNat
  <2>. QED
    BY <2>2, OffsetIs DEF w
<1>5. \A i \in 1 .. Len(code) : Offset(code, i + 1) = Offset(code, i) + Width(code[i].op)
  <2> TAKE i \in 1 .. Len(code)
  <2>1. /\ 1 .. ((i + 1) - 1) = (1 .. (i - 1)) \cup {i}
        /\ i \notin 1 .. (i - 1)
        /\ i \in 1 .. (Len(code) + 1)
    OBVIOUS
  <2>2. IsFiniteSet(1 .. (i - 1)) /\ \A j \in (1 .. (i - 1)) \cup {i} : w[j] \in Nat
    BY <1>1, <1>2, <2>1
  <2>3. SumOf(w, (1 .. (i - 1)) \cup {i}) = w[i] + SumOf(w, 1 .. (i - 1))
    BY <2>1, <2>2, SumAdd
  <2>4. Offset(code, i + 1) = w[i] + Offset(code, i)
    BY <2>1, <2>3, OffsetIs DEF w
  <2>5. Offset(code, i) \in Nat /\ w[i] = Width(code[i].op) /\ w[i] \in Nat
    BY <1>1, <1>4, <2>1
  <2>. QED
    BY <2>4, <2>5
<1>6. \A i, j \in 1 .. (Len(code) + 1) : i <= j => Offset(code, i) <= Offset(code, j)
  <2> SUFFICES ASSUME NEW i \in 1 .. (Len(code) + 1), NEW j \in 1 .. (Len(code) + 1), i <= j
               PROVE  Offset(code, i) <= Offset(code, j)
    OBVIOUS
  <2>1. 1 .. (i - 1) \in SUBSET (1 .. (j - 1))
    OBVIOUS
  <2>2. IsFiniteSet(1 .. (j - 1)) /\ \A k \in 1 .. (j - 1) : w[k] \in Nat
    BY <1>1, <1>2
  <2>3. SumOf(w, 1 .. (i - 1)) <= SumOf(w, 1 .. (j - 1))
    BY <2>1, <2>2, SumMonotone
  <2>. QED
    BY <2>3, OffsetIs DEF w
<1>. QED
  BY <1>3, <1>4, <1>5, <1>6

-----------------------------------------------------------------------------
(* The inductive invariant. *)

NatsOK ==
    /\ executed \in Nat /\ ran \in Nat
    /\ remaining \in Nat /\ used \in Nat /\ work \in Nat /\ moved \in Nat

(* A call of Execute has run the first ran instructions of its program,    *)
(* none of them HALT but perhaps the last, and the program counter is at   *)
(* the instruction that follows them.                                      *)
InProgram ==
    running =>
        /\ prog \in Programs
        /\ result = "none"
        /\ ran \in 0 .. Len(prog.code)
        /\ pc = Offset(prog.code, ran + 1)
        /\ \A i \in 1 .. (ran - 1) : prog.code[i].op # "HALT3D"
        /\ (halted <=> ran >= 1 /\ prog.code[ran].op = "HALT3D")

(* The loop goes on only below the instruction limit. *)
BelowLimit == running /\ ran >= 1 => executed < MaxInstructions

(* What was worked and what remains was given. *)
WorkPaid == work + remaining <= GasLimit + 50 * moved

LoopInv ==
    /\ NatsOK /\ InProgram
    /\ BelowLimit /\ LimitHolds
    /\ WorkPaid /\ GasAccounted

(* Inside the loop, the instruction at the program counter is the one      *)
(* after those that ran, and the next one starts where it ends.            *)
LEMMA AtInstruction ==
    ASSUME LoopInv, InLoop
    PROVE  /\ ran + 1 \in 1 .. Len(prog.code)
           /\ Current = prog.code[ran + 1]
           /\ Current \in Instructions
           /\ calculateGasCost(Current) \in Nat
           /\ pc + Width(Current.op) = Offset(prog.code, (ran + 1) + 1)
           /\ \A i \in 1 .. ran : prog.code[i].op # "HALT3D"
           /\ result = "none"
           /\ prog \in Programs
<1> DEFINE code == prog.code
<1>1. /\ running /\ ~halted /\ prog \in Programs /\ result = "none"
      /\ ran \in 0 .. Len(code)
      /\ pc = Offset(code, ran + 1)
      /\ pc < Length(prog)
      /\ \A i \in 1 .. (ran - 1) : code[i].op # "HALT3D"
      /\ ran >= 1 => code[ran].op # "HALT3D"
  BY DEF LoopInv, InProgram, InLoop
<1>2. code \in Seq(Instructions) /\ Len(code) \in Nat /\ DOMAIN code = 1 .. Len(code)
      /\ prog.cut \in {0, 1}
  BY <1>1, ProgramFacts
<1>3. /\ \A i \in 1 .. (Len(code) + 1) : Offset(code, i) \in Nat
      /\ \A i \in 1 .. Len(code) : Offset(code, i + 1) = Offset(code, i) + Width(code[i].op)
      /\ \A i, j \in 1 .. (Len(code) + 1) : i <= j => Offset(code, i) <= Offset(code, j)
  BY <1>2, OffsetStep
<1>4. ran + 1 \in 1 .. Len(code)
  <2>1. Len(code) + 1 \in 1 .. (Len(code) + 1)
    BY <1>2
  <2>2. Offset(code, Len(code) + 1) \in Nat
    BY <1>3, <2>1
  <2>3. pc < Offset(code, Len(code) + 1) - prog.cut
    BY <1>1 DEF Length
  <2>4. ran # Len(code)
    BY <1>1, <1>2, <2>2, <2>3
  <2>. QED
    BY <1>1, <1>2, <2>4
<1> DEFINE k == CHOOSE i \in DOMAIN code : Offset(code, i) = pc
<1>5. k \in 1 .. Len(code) /\ Offset(code, k) = Offset(code, ran + 1)
  BY <1>1, <1>2, <1>4
<1> HIDE DEF k
<1>6. \A i, j \in 1 .. Len(code) : i < j => Offset(code, i) < Offset(code, j)
  <2> SUFFICES ASSUME NEW i \in 1 .. Len(code), NEW j \in 1 .. Len(code), i < j
               PROVE  Offset(code, i) < Offset(code, j)
    OBVIOUS
  <2>1. i + 1 <= j /\ i + 1 \in 1 .. (Len(code) + 1) /\ j \in 1 .. (Len(code) + 1)
        /\ i \in 1 .. (Len(code) + 1)
    BY <1>2
  <2>2. Offset(code, i + 1) <= Offset(code, j)
    BY <1>3, <2>1
  <2>3. Offset(code, i + 1) = Offset(code, i) + Width(code[i].op)
    BY <1>3
  <2>4. Width(code[i].op) \in Nat /\ Width(code[i].op) >= 1
    BY WidthPositive
  <2>5. Offset(code, i) \in Nat /\ Offset(code, j) \in Nat
    BY <1>3, <2>1
  <2>. QED
    BY <2>2, <2>3, <2>4, <2>5
<1>7. k = ran + 1
  <2>1. ~(k < ran + 1) /\ ~(ran + 1 < k)
    <3>1. Offset(code, k) \in Nat
      BY <1>2, <1>3, <1>5
    <3>. QED
      BY <1>4, <1>5, <1>6, <3>1
  <2>. QED
    BY <1>2, <1>4, <1>5, <2>1
<1>8. Current = code[ran + 1]
  BY <1>7 DEF Current, k
<1>9. Current \in Instructions
  BY <1>2, <1>4, <1>8
<1>10. pc + Width(Current.op) = Offset(code, (ran + 1) + 1)
  BY <1>1, <1>3, <1>4, <1>8
<1>11. \A i \in 1 .. ran : code[i].op # "HALT3D"
  BY <1>1, <1>2
<1>. QED
  BY <1>1, <1>4, <1>8, <1>9, <1>10, <1>11, CostNat

(* Charging for an instruction that fails, or does what is worked. *)
LEMMA ConsumeStep ==
    ASSUME LoopInv, NEW gas \in Nat, NEW done \in {0, gas},
           Consume(gas), work' = work + done, moved' = moved
    PROVE  /\ remaining' \in Nat /\ used' \in Nat /\ work' \in Nat
           /\ WorkPaid' /\ GasAccounted'
BY VM3DAssumption DEF LoopInv, NatsOK, Consume, WorkPaid, GasAccounted

LEMMA LoopInit == Init => LoopInv
BY VM3DAssumption DEF Init, LoopInv, NatsOK, InProgram, BelowLimit, LimitHolds, WorkPaid,
   GasAccounted

(* Every step preserves the invariant. *)
LEMMA LoopStep ==
    ASSUME LoopInv, [Next]_vars
    PROVE  LoopInv'
<1>1. CASE UNCHANGED vars
  BY <1>1 DEF vars, gasVars, LoopInv, NatsOK, InProgram, BelowLimit, LimitHolds, WorkPaid,
     GasAccounted, Length
<1>2. CASE FetchError \/ Finish
  BY <1>2 DEF FetchError, Finish, Return, gasVars, LoopInv, NatsOK, InProgram, BelowLimit,
     LimitHolds, WorkPaid, GasAccounted
<1>3. CASE ExecutionError
  <2>1. InLoop
    BY <1>3 DEF ExecutionError
  <2>2. calculateGasCost(Current) \in Nat
    BY <2>1, AtInstruction
  <2>3. ~running' /\ ran' = ran + 1 /\ executed' = executed + 1
        /\ UNCHANGED <<halted, work, moved>>
    BY <1>3 DEF ExecutionError, Return
  <2>4. /\ remaining' \in Nat /\ used' \in Nat /\ WorkPaid' /\ GasAccounted'
    <3>1. CASE UNCHANGED gasVars
      BY <2>3, <3>1 DEF LoopInv, NatsOK, gasVars, WorkPaid, GasAccounted
    <3>2. CASE Consume(calculateGasCost(Current))
      <4>1. work' = work + 0
        BY <2>3 DEF LoopInv, NatsOK
      <4>. QED
        BY <2>2, <2>3, <3>2, <4>1, ConsumeStep
    <3>. QED
      BY <1>3, <3>1, <3>2 DEF ExecutionError
  <2>5. running /\ ran \in Nat /\ executed \in Nat /\ MaxInstructions \in Nat
    BY <2>1, VM3DAssumption DEF InLoop, LoopInv, NatsOK
  <2>6. LimitHolds'
    BY <2>3, <2>5 DEF LoopInv, BelowLimit, LimitHolds
  <2>. QED
    BY <2>3, <2>4, <2>5, <2>6 DEF LoopInv, NatsOK, InProgram, BelowLimit
<1>4. CASE executeInstruction
  <2>1. InLoop
    BY <1>4 DEF executeInstruction
  <2>2. /\ ran + 1 \in 1 .. Len(prog.code)
        /\ Current = prog.code[ran + 1]
        /\ calculateGasCost(Current) \in Nat
        /\ pc + Width(Current.op) = Offset(prog.code, (ran + 1) + 1)
        /\ \A i \in 1 .. ran : prog.code[i].op # "HALT3D"
        /\ result = "none"
        /\ prog \in Programs
    BY <2>1, AtInstruction
  <2>3. /\ ran' = ran + 1 /\ executed' = executed + 1 /\ moved' = moved
        /\ (halted' <=> Current.op = "HALT3D")
        /\ Consume(calculateGasCost(Current))
        /\ work' = work + calculateGasCost(Current)
    BY <1>4 DEF executeInstruction, haltedAfter
  <2>4. /\ remaining' \in Nat /\ used' \in Nat /\ work' \in Nat /\ WorkPaid' /\ GasAccounted'
    BY <2>2, <2>3, ConsumeStep
  <2>5. running /\ ran \in Nat /\ executed \in Nat /\ MaxInstructions \in Nat /\ moved \in Nat
    BY <2>1, VM3DAssumption DEF InLoop, LoopInv, NatsOK
  <2>6. LimitHolds'
    BY <2>3, <2>5 DEF LoopInv, BelowLimit, LimitHolds
  <2>7. CASE ~running'
    BY <2>3, <2>4, <2>5, <2>6, <2>7 DEF LoopInv, NatsOK, InProgram, BelowLimit
  <2>8. CASE /\ executed' < MaxInstructions
             /\ pc' = pc + Width(Current.op)
             /\ UNCHANGED <<prog, running, result>>
    <3>1. InProgram'
      <4>1. ran' \in 0 .. Len(prog'.code) /\ pc' = Offset(prog'.code, ran' + 1)
        BY <2>2, <2>3, <2>8
      <4>2. \A i \in 1 .. (ran' - 1) : prog'.code[i].op # "HALT3D"
        BY <2>2, <2>3, <2>5, <2>8
      <4>3. halted' <=> ran' >= 1 /\ prog'.code[ran'].op = "HALT3D"
        BY <2>2, <2>3, <2>5, <2>8
      <4>. QED
        BY <2>2, <2>8, <4>1, <4>2, <4>3 DEF InProgram
    <3>. QED
      BY <2>3, <2>4, <2>5, <2>6, <2>8, <3>1 DEF LoopInv, NatsOK, BelowLimit
  <2>. QED
    BY <1>4, <2>7, <2>8 DEF executeInstruction, AfterInstruction, Return
<1>5. ASSUME NEW p \in Programs, Execute(p)
      PROVE  LoopInv'
  <2>1. p.code \in Seq(Instructions)
    BY ProgramFacts
  <2>2. Offset(p.code, 1) = 0 /\ Len(p.code) \in Nat
    BY <2>1, OffsetStep
  <2>3. InProgram'
    BY <1>5, <2>2 DEF Execute, InProgram
  <2>. QED
    BY <1>5, <2>3 DEF Execute, gasVars, LoopInv, NatsOK, BelowLimit, LimitHolds, WorkPaid,
       GasAccounted
<1>6. ASSUME NEW len \in StoreLens, Store3D(len)
      PROVE  LoopInv'
  <2>1. 15 * len \in Nat
    BY VM3DAssumption
  <2>2. ~running /\ UNCHANGED <<prog, pc, halted, running, executed, ran, moved>>
    BY <1>6 DEF Store3D
  <2>3. /\ remaining' \in Nat /\ used' \in Nat /\ work' \in Nat /\ WorkPaid' /\ GasAccounted'
    <3>1. CASE Consume(15 * len) /\ work' = work + 15 * len
      BY <2>1, <2>2, <3>1, ConsumeStep
    <3>2. CASE UNCHANGED <<gasVars, work>>
      BY <2>2, <3>2 DEF LoopInv, NatsOK, gasVars, WorkPaid, GasAccounted
    <3>. QED
      BY <1>6, <3>1, <3>2 DEF Store3D
  <2>. QED
    BY <2>2, <2>3 DEF LoopInv, NatsOK, InProgram, BelowLimit, LimitHolds
<1>7. ASSUME NEW n \in 1 .. MaxMoved, MCompact3D(n)
      PROVE  LoopInv'
  <2>1. ~running /\ moved' = moved + n
        /\ UNCHANGED <<prog, pc, halted, running, result, executed, ran, work>>
    BY <1>7 DEF MCompact3D
  <2>2. /\ used' = IF used <= 50 * n THEN 0 ELSE used - 50 * n
        /\ remaining' = remaining + 50 * n
    BY <1>7 DEF MCompact3D, Refund
  <2>3. n \in Nat /\ n > 0 /\ GasLimit \in Nat
    BY VM3DAssumption
  <2>4. /\ remaining' \in Nat /\ used' \in Nat /\ moved' \in Nat /\ WorkPaid' /\ GasAccounted'
    BY <2>1, <2>2, <2>3 DEF LoopInv, NatsOK, WorkPaid, GasAccounted
  <2>. QED
    BY <2>1, <2>4 DEF LoopInv, NatsOK, InProgram, BelowLimit, LimitHolds
<1>. QED
  BY <1>1, <1>2, <1>3, <1>4, <1>5, <1>6, <1>7 DEF Next, Loop

LEMMA LoopInvariant == Spec => []LoopInv
<1>1. LoopInv /\ [Next]_vars => LoopInv'
  BY LoopStep
<1>. QED
  BY <1>1, LoopInit, PTL DEF Spec

-----------------------------------------------------------------------------
(* Theorems. *)

(* Gas bounds work: whatever programs Execute runs, with any mixture of    *)
(* errors, direct stores and compactions, the instructions and stores that *)
(* were reported as done cost no more than the gas limit and the refunds.  *)
THEOREM GasBounds == Spec => []GasBoundsWork
<1>1. LoopInv => GasBoundsWork
  BY VM3DAssumption DEF LoopInv, NatsOK, WorkPaid, GasBoundsWork
<1>. QED
  BY <1>1, LoopInvariant, PTL

(* The two counters of the accountant, driven by the machine, add up to    *)
(* the limit until a compaction is refunded, and to no more than the limit *)
(* and the refunds ever.                                                   *)
THEOREM GasAddsUp == Spec => []GasAccounted
<1>1. LoopInv => GasAccounted
  BY DEF LoopInv
<1>. QED
  BY <1>1, LoopInvariant, PTL

(* A call of Execute that runs more than one instruction stays within      *)
(* MaxInstructions, counted over the machine's whole life.                 *)
THEOREM LimitIsHeld == Spec => []LimitHolds
<1>1. LoopInv => LimitHolds
  BY DEF LoopInv
<1>. QED
  BY <1>1, LoopInvariant, PTL

(* A step of a running program that sets the result is one of four. *)
LEMMA RunningStep ==
    ASSUME running, Next
    PROVE  FetchError \/ ExecutionError \/ executeInstruction \/ Finish
BY DEF Next, Loop, Execute, Store3D, MCompact3D

LEMMA FetchErrorFault ==
    ASSUME LoopInv, FetchError
    PROVE  Current.op \notin Decoded \/ Length(prog) - pc < Width(Current.op)
<1>1. InLoop /\ ~Fetched
  BY DEF FetchError
<1>2. Width(Current.op) \in Nat
  BY WidthPositive
<1>3. pc \in Nat /\ Length(prog) \in Int
  <2>1. prog \in Programs /\ ran + 1 \in 1 .. Len(prog.code)
        /\ pc = Offset(prog.code, ran + 1)
    BY <1>1, AtInstruction DEF LoopInv, InProgram, InLoop
  <2>2. prog.code \in Seq(Instructions) /\ prog.cut \in {0, 1}
    BY <2>1, ProgramFacts
  <2>3. \A i \in 1 .. (Len(prog.code) + 1) : Offset(prog.code, i) \in Nat
    BY <2>2, OffsetStep
  <2>4. Len(prog.code) \in Nat /\ ran \in Nat
    BY <2>2 DEF LoopInv, NatsOK
  <2>5. /\ ran + 1 \in 1 .. (Len(prog.code) + 1)
        /\ Len(prog.code) + 1 \in 1 .. (Len(prog.code) + 1)
    BY <2>1, <2>4
  <2>6. Offset(prog.code, ran + 1) \in Nat /\ Offset(prog.code, Len(prog.code) + 1) \in Nat
    BY <2>3, <2>5
  <2>. QED
    BY <2>1, <2>2, <2>6 DEF Length
<1>4. instSize(Current.op) = Width(Current.op)
  BY SizesAgree
<1>5. Current.op \notin Decoded \/ ~(Width(Current.op) <= Length(prog) - pc)
  BY <1>1, <1>4 DEF Fetched
<1>. QED
  BY <1>2, <1>3, <1>5

(* Every fetch error of Execute is the program's fault, for every program: *)
(* the instruction at the program counter is cut off by the end of the     *)
(* code or has no decoder.                                                 *)
THEOREM FetchErrorsAreJustified == Spec => FetchErrorsJustified
<1> DEFINE Justified ==
      running /\ result' = "fetch error" =>
          Current.op \notin Decoded \/ Length(prog) - pc < Width(Current.op)
<1>1. LoopInv /\ [Next]_vars => [Justified]_vars
  <2> SUFFICES ASSUME LoopInv, Next, running, result' = "fetch error"
               PROVE  Current.op \notin Decoded \/ Length(prog) - pc < Width(Current.op)
    OBVIOUS
  <2>1. CASE FetchError
    BY <2>1, FetchErrorFault
  <2>2. CASE ExecutionError
    BY <2>2 DEF ExecutionError, Return
  <2>3. CASE Finish
    BY <2>3 DEF Finish, Return
  <2>4. CASE executeInstruction
    <3>1. result = "none"
      BY DEF LoopInv, InProgram
    <3>. QED
      BY <2>4, <3>1 DEF executeInstruction, AfterInstruction, Return
  <2>. QED
    BY <2>1, <2>2, <2>3, <2>4, RunningStep
<1>2. FetchErrorsJustified <=> [][Justified]_vars
  BY PTL DEF FetchErrorsJustified
<1>. QED
  BY <1>1, <1>2, LoopInvariant, PTL DEF Spec

(* A program that ended at its end or at HALT has run as far as it says. *)
LEMMA RanToTheEnd ==
    ASSUME LoopInv, running, pc >= Length(prog) \/ halted
    PROVE  ran = ToRun(prog.code)
<1> DEFINE code == prog.code
           halts == {i \in DOMAIN code : code[i].op = "HALT3D"}
<1>1. /\ prog \in Programs
      /\ ran \in 0 .. Len(code)
      /\ pc = Offset(code, ran + 1)
      /\ \A i \in 1 .. (ran - 1) : code[i].op # "HALT3D"
      /\ (halted <=> ran >= 1 /\ code[ran].op = "HALT3D")
  BY DEF LoopInv, InProgram
<1>2. /\ code \in Seq(Instructions) /\ Len(code) \in Nat /\ DOMAIN code = 1 .. Len(code)
      /\ prog.cut \in {0, 1}
      /\ prog.cut = 1 => Len(code) > 0 /\ Width(code[Len(code)].op) > 1
  BY <1>1, ProgramFacts
<1>3. CASE halted
  <2>1. ran \in halts /\ \A i \in halts : ran <= i
    BY <1>1, <1>2, <1>3
  <2>2. Min(halts) \in halts /\ \A i \in halts : Min(halts) <= i
    BY <2>1 DEF Min
  <2>3. halts \subseteq Nat
    BY <1>2
  <2>4. Min(halts) = ran
    <3> HIDE DEF halts
    <3>1. Min(halts) \in Nat /\ ran \in Nat /\ Min(halts) <= ran /\ ran <= Min(halts)
      BY <2>1, <2>2, <2>3
    <3>. QED
      BY <3>1
  <2>. QED
    BY <2>1, <2>4 DEF ToRun
<1>4. CASE ~halted
  <2>1. pc >= Length(prog)
    BY <1>4
  <2>2. /\ \A i \in 1 .. (Len(code) + 1) : Offset(code, i) \in Nat
        /\ \A i \in 1 .. Len(code) :
              Offset(code, i + 1) = Offset(code, i) + Width(code[i].op)
        /\ \A i, j \in 1 .. (Len(code) + 1) : i <= j => Offset(code, i) <= Offset(code, j)
    BY <1>2, OffsetStep
  <2>3. ran = Len(code)
    <3> SUFFICES ASSUME ran < Len(code) PROVE FALSE
      BY <1>1, <1>2
    <3>1. /\ ran + 1 \in 1 .. (Len(code) + 1) /\ ran + 1 <= Len(code)
          /\ Len(code) \in 1 .. Len(code) /\ Len(code) \in 1 .. (Len(code) + 1)
      BY <1>1, <1>2
    <3>2. Offset(code, ran + 1) <= Offset(code, Len(code))
      BY <2>2, <3>1
    <3>3. Offset(code, Len(code) + 1) = Offset(code, Len(code)) + Width(code[Len(code)].op)
      BY <2>2, <3>1
    <3>4. Width(code[Len(code)].op) \in Nat /\ Width(code[Len(code)].op) > prog.cut
      BY <1>2, WidthPositive
    <3>5. pc >= Offset(code, Len(code) + 1) - prog.cut
      BY <2>1 DEF Length
    <3>6. Offset(code, ran + 1) \in Nat /\ Offset(code, Len(code)) \in Nat
      BY <2>2, <3>1
    <3>. QED
      BY <1>1, <1>2, <3>2, <3>3, <3>4, <3>5, <3>6
  <2>4. halts = {}
    BY <1>1, <1>2, <1>4, <2>3
  <2>. QED
    BY <2>3, <2>4 DEF ToRun
<1>. QED
  BY <1>3, <1>4

(* Execute returns no error only for a program whose instructions were all *)
(* run once, up to the first HALT or the end, whatever the program.        *)
THEOREM OkIsComplete == Spec => OkMeansComplete
<1> DEFINE Complete ==
      running /\ ~running' /\ result' = "ok" => ran = ToRun(prog.code)
<1>1. LoopInv /\ [Next]_vars => [Complete]_vars
  <2> SUFFICES ASSUME LoopInv, Next, running, ~running', result' = "ok"
               PROVE  ran = ToRun(prog.code)
    OBVIOUS
  <2>1. Finish
    BY RunningStep DEF FetchError, ExecutionError, executeInstruction, AfterInstruction, Return
  <2>. QED
    BY <2>1, RanToTheEnd DEF Finish
<1>2. OkMeansComplete <=> [][Complete]_vars
  BY PTL DEF OkMeansComplete
<1>. QED
  BY <1>1, <1>2, LoopInvariant, PTL DEF Spec

=============================================================================
