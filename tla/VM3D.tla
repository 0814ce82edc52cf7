-------------------------------- MODULE VM3D --------------------------------
(***************************************************************************)
(* The machine's execution loop: Execute, fetchInstruction and             *)
(* executeInstruction of internal/vm/vm.go over the decoders of            *)
(* instructions.go, with gas, the instruction limit, HALT and every error  *)
(* return; and the methods of VM3D that take or give gas outside a program *)
(* (Store3D, ExecuteCompactInstruction).                                   *)
(*                                                                         *)
(* All of them hold the machine's mutex, so the accountant is used by one  *)
(* goroutine at a time (GasAccountant has the others). What instructions   *)
(* do to memory is in VMMemory; here an instruction that needs memory may  *)
(* succeed or fail. A program is the sequence of its instructions and the  *)
(* number of bytes missing at its end. paused is never set by any code and *)
(* is left out.                                                            *)
(***************************************************************************)
EXTENDS Integers, Sequences, FiniteSets, FiniteSetsExt

CONSTANTS Instructions,      \* the instructions that programs are made of
          MaxLength,         \* bound: instructions of a program
          GasLimit,          \* VMConfig.GasLimit
          MaxInstructions,   \* VMConfig.MaxInstructions
          StoreLens,         \* lengths of the data given to Store3D
          MaxMoved,          \* bound: allocations that compactions report
          MaxExecuted,       \* bound: no program starts past this many instructions
          U64                \* the number of values of a uint64

(* The opcodes a program can hold: those with a decoder, those that only    *)
(* executeInstruction knows, and any other byte.                            *)
Decoded == {"NOP", "MLOAD3D", "MSTORE3D", "MALLOC3D", "MFREE3D", "MCOPY3D", "MSIZE3D",
            "MOV3D", "ADD3D", "SUB3D", "HALT3D"}
Opcodes == Decoded \cup {"MQUERY3D", "MCOMPACT3D", "other"}

ASSUME VM3DAssumption ==
    /\ Instructions \subseteq [op : Opcodes, size : Nat] /\ Instructions # {}
    /\ MaxLength \in Nat /\ GasLimit \in Nat /\ MaxInstructions \in Nat
    /\ StoreLens \subseteq Nat /\ MaxMoved \in Nat /\ MaxExecuted \in Nat
    /\ U64 \in Nat /\ GasLimit < U64

(* The bytes a decoder asks for, which it also returns as Size. *)
Width(op) ==
    CASE op \in {"MLOAD3D", "MSTORE3D", "MCOPY3D"} -> 20
      [] op = "MALLOC3D" -> 14
      [] op = "MFREE3D"  -> 15
      [] op = "MSIZE3D"  -> 16
      [] op = "MOV3D"    -> 8
      [] op \in {"ADD3D", "SUB3D"} -> 4
      [] OTHER -> 1

(* Mutant: MFREE3D is missing from the switch. *)
instSizeNoFree(op) ==
    CASE op \in {"MLOAD3D", "MSTORE3D", "MCOPY3D"} -> 20
      [] op = "MALLOC3D" -> 14
      [] op = "MSIZE3D"  -> 16
      [] op = "MOV3D"    -> 8
      [] op \in {"ADD3D", "SUB3D"} -> 4
      [] OTHER -> 1

(* The bytes fetchInstruction cuts out of the program for an opcode. *)
instSize(op) ==
    CASE op \in {"MLOAD3D", "MSTORE3D", "MCOPY3D"} -> 20
      [] op = "MALLOC3D" -> 14
      [] op = "MFREE3D"  -> 15
      [] op = "MSIZE3D"  -> 16
      [] op = "MOV3D"    -> 8
      [] op \in {"ADD3D", "SUB3D"} -> 4
      [] OTHER -> 1

baseCost(op) ==
    CASE op = "MLOAD3D"    -> 10
      [] op = "MSTORE3D"   -> 15
      [] op = "MALLOC3D"   -> 20
      [] op = "MCOPY3D"    -> 25
      [] op \in {"MFREE3D", "MSIZE3D"} -> 5
      [] op \in {"NOP", "HALT3D"}      -> 1
      [] op \in {"ADD3D", "SUB3D"}     -> 3
      [] op = "MOV3D"      -> 2
      [] op = "MQUERY3D"   -> 8
      [] op = "MCOMPACT3D" -> 30
      [] OTHER -> 0

(* The operands of type OT_SIZE cost two for each byte. *)
calculateGasCost(inst) ==
    baseCost(inst.op)
      + (IF inst.op \in {"MLOAD3D", "MSTORE3D", "MALLOC3D", "MCOPY3D"}
         THEN 2 * inst.size ELSE 0)

(* The instructions whose outcome depends on what is in memory. *)
MayFail == {"MLOAD3D", "MSTORE3D", "MALLOC3D", "MFREE3D", "MCOPY3D"}

-----------------------------------------------------------------------------
VARIABLES
    prog,        \* the argument of Execute
    pc,          \* VM3D.pc, in bytes
    halted,      \* VM3D.halted
    running,     \* a call of Execute is in its loop
    result,      \* what the last call returned
    executed,    \* VMStats.InstructionsExecuted
    freed,       \* some MFREE3D has released a block
    remaining,   \* the accountant's gas
    used,
    ran,         \* history: instructions this call of Execute ran
    work,        \* history: gas price of all that was reported as done
    moved        \* history: allocations that compactions gave refunds for

gasVars == <<remaining, used>>
vars == <<prog, pc, halted, running, result, executed, freed, gasVars, ran, work, moved>>

NoProgram == [code |-> << >>, cut |-> 0]

(* Where the i-th instruction of a program starts, and where it ends. *)
Widths(code) == [j \in DOMAIN code |-> Width(code[j].op)]

Offset(code, i) == MapThenSumSet(LAMBDA j : Widths(code)[j], 1 .. (i - 1))

Length(p) == Offset(p.code, Len(p.code) + 1) - p.cut

(* Programs, and programs whose last instruction is not complete. *)
Programs ==
    LET codes == UNION {[1 .. n -> Instructions] : n \in 0 .. MaxLength}
    IN  {[code |-> c, cut |-> 0] : c \in codes}
            \cup {[code |-> c, cut |-> 1] :
                     c \in {d \in codes : d # << >> /\ Width(d[Len(d)].op) > 1}}

(* The instruction that starts at byte pc. *)
Current == prog.code[CHOOSE i \in DOMAIN prog.code : Offset(prog.code, i) = pc]

Init ==
    /\ prog = NoProgram
    /\ pc = 0
    /\ halted = FALSE
    /\ running = FALSE
    /\ result = "none"
    /\ executed = 0
    /\ freed = FALSE
    /\ remaining = GasLimit
    /\ used = 0
    /\ ran = 0
    /\ work = 0
    /\ moved = 0

-----------------------------------------------------------------------------
(* The accountant, used by one goroutine. *)

(* Mutant: what is left is taken when there is not enough. *)
ConsumeRest(gas) ==
    /\ remaining > 0
    /\ remaining' = IF remaining < gas THEN 0 ELSE remaining - gas
    /\ used' = used + (remaining - remaining')

Consume(gas) ==
    /\ remaining >= gas
    /\ remaining' = remaining - gas
    /\ used' = used + gas

(* Mutant: the amount is credited twice. *)
RefundTwice(gas) ==
    /\ used' = IF used <= gas THEN 0 ELSE used - gas
    /\ remaining' = remaining + gas + gas

(* used stops at zero, the credit does not. *)
Refund(gas) ==
    /\ used' = IF used <= gas THEN 0 ELSE used - gas
    /\ remaining' = remaining + gas

(* What the accountant reports: the gas as an int64, and nothing for what  *)
(* is then negative. From half of a uint64 upwards it reports no gas.      *)
Remaining(gas) == IF 2 * gas < U64 THEN gas ELSE 0

-----------------------------------------------------------------------------
(* Execute. *)

Execute(p) ==
    /\ ~running
    /\ executed <= MaxExecuted
    /\ prog' = p
    /\ pc' = 0
    /\ halted' = FALSE
    /\ running' = TRUE
    /\ result' = "none"
    /\ ran' = 0
    /\ UNCHANGED <<executed, freed, gasVars, work, moved>>

(* Execute returns; the program is forgotten. The program counter stays    *)
(* where it was in the code, and the next Execute starts from 0.           *)
Return(how) ==
    /\ running' = FALSE
    /\ result' = how
    /\ prog' = NoProgram
    /\ pc' = 0

InLoop == running /\ pc < Length(prog) /\ ~halted

(* The instruction is complete, and its decoder exists and gets its bytes. *)
Fetched ==
    /\ instSize(Current.op) <= Length(prog) - pc
    /\ Current.op \in Decoded
    /\ instSize(Current.op) = Width(Current.op)

FetchError ==
    /\ InLoop
    /\ ~Fetched
    /\ Return("fetch error")
    /\ UNCHANGED <<halted, executed, freed, gasVars, ran, work, moved>>

(* An error of executeInstruction: no gas for it, or the instruction failed *)
(* after it was paid. It counts as executed either way.                     *)
ExecutionError ==
    /\ InLoop
    /\ Fetched
    /\ \/ /\ remaining < calculateGasCost(Current)
          /\ UNCHANGED gasVars
       \/ /\ Current.op \in MayFail
          /\ Consume(calculateGasCost(Current))
    /\ executed' = executed + 1
    /\ ran' = ran + 1
    /\ Return("execution error")
    /\ UNCHANGED <<halted, freed, work, moved>>

(* Mutant: the loop goes on after HALT. *)
haltedAfterIgnored(op) == FALSE

haltedAfter(op) == op = "HALT3D"

(* Mutant: the limit is compared before the instruction is counted. *)
AfterInstructionLate(size) ==
    \/ /\ Remaining(remaining') = 0
       /\ Return("gas exhausted")
    \/ /\ Remaining(remaining') # 0
       /\ executed > MaxInstructions
       /\ Return("instruction limit exceeded")
    \/ /\ Remaining(remaining') # 0
       /\ executed <= MaxInstructions
       /\ pc' = pc + size
       /\ UNCHANGED <<prog, running, result>>

(* The checks after an instruction, which also apply to the last one. *)
AfterInstruction(size) ==
    \/ /\ Remaining(remaining') = 0
       /\ Return("gas exhausted")
    \/ /\ Remaining(remaining') # 0
       /\ executed' >= MaxInstructions
       /\ Return("instruction limit exceeded")
    \/ /\ Remaining(remaining') # 0
       /\ executed' < MaxInstructions
       /\ pc' = pc + size
       /\ UNCHANGED <<prog, running, result>>

executeInstruction ==
    /\ InLoop
    /\ Fetched
    /\ Consume(calculateGasCost(Current))
    /\ work' = work + calculateGasCost(Current)
    /\ executed' = executed + 1
    /\ ran' = ran + 1
    /\ halted' = haltedAfter(Current.op)
    /\ freed' = (freed \/ Current.op = "MFREE3D")
    /\ AfterInstruction(Width(Current.op))
    /\ UNCHANGED moved

(* Mutant: a program that HALT left is not finished. *)
FinishAtEnd ==
    /\ running
    /\ pc >= Length(prog)
    /\ Return("ok")
    /\ UNCHANGED <<halted, executed, freed, gasVars, ran, work, moved>>

Finish ==
    /\ running
    /\ pc >= Length(prog) \/ halted
    /\ Return("ok")
    /\ UNCHANGED <<halted, executed, freed, gasVars, ran, work, moved>>

-----------------------------------------------------------------------------
(* Methods. *)

(***************************************************************************)
(* VM3D.Store3D, its gas: the store, its cache entry and its node are done *)
(* when gas is asked for. With too little gas the caller gets an error for *)
(* a store that took place, and nothing is charged.                        *)
(***************************************************************************)
Store3D(len) ==
    /\ ~running
    /\ \/ /\ Consume(15 * len)
          /\ work' = work + 15 * len
          /\ result' = "ok"
       \/ /\ remaining < 15 * len
          /\ result' = "unpaid store"
          /\ UNCHANGED <<gasVars, work>>
    /\ UNCHANGED <<prog, pc, halted, running, executed, freed, ran, moved>>

(***************************************************************************)
(* executeMCompact3D through ExecuteCompactInstruction: free of charge, it *)
(* refunds 50 for each of the n allocations that AnalyzeCompaction lists,  *)
(* and moves none. Regions are filled from their start, so one has two     *)
(* holes, and AnalyzeCompaction lists anything of it, only after a block   *)
(* was released.                                                           *)
(***************************************************************************)
MCompact3D(n) ==
    /\ ~running
    /\ freed
    /\ moved + n <= MaxMoved
    /\ Refund(50 * n)
    /\ moved' = moved + n
    /\ UNCHANGED <<prog, pc, halted, running, result, executed, freed, ran, work>>

-----------------------------------------------------------------------------
Loop == FetchError \/ ExecutionError \/ executeInstruction \/ Finish

Next ==
    \/ Loop
    \/ \E p \in Programs : Execute(p)
    \/ \E len \in StoreLens : Store3D(len)
    \/ \E n \in 1 .. MaxMoved : MCompact3D(n)

(* Execute waits for nothing while paused is not set. *)
Spec == Init /\ [][Next]_vars /\ WF_vars(Loop)

-----------------------------------------------------------------------------
(* Properties. *)

(* The gas limit bounds the work: all instructions that ran and all stores *)
(* that were reported as done cost together no more than the limit and the *)
(* refunds, over any number of programs, errors and compactions.           *)
GasBoundsWork == work <= GasLimit + 50 * moved

(* Remaining and used gas add up to the limit until the first refund, and  *)
(* never to more than the limit and the refunds: a refund that used does   *)
(* not cover creates gas, but no more than its amount.                     *)
GasAccounted ==
    /\ moved = 0 => remaining + used = GasLimit
    /\ remaining + used <= GasLimit + 50 * moved

(* Programs and compactions never leave the machine with more gas than     *)
(* its limit: a refund gives back gas that was used, as the test of        *)
(* MCOMPACT3D says (test/integration/compaction_test.go:122). A compaction *)
(* that refunds more than was used breaks it: AllocateMemory charges       *)
(* nothing, and each block that a compaction lists is worth 50.            *)
GasWithinLimit == remaining <= GasLimit

(* Only the first instruction of a call can run beyond the instruction     *)
(* limit: the count is never reset, so a machine that has reached the      *)
(* limit runs one instruction of every further program before it reports   *)
(* the error.                                                              *)
LimitHolds == ran > 1 => executed <= MaxInstructions

(* The instructions of a program up to its first HALT, or all of them. *)
ToRun(code) ==
    LET halts == {i \in DOMAIN code : code[i].op = "HALT3D"}
    IN  IF halts = {} THEN Len(code) ELSE Min(halts)

(* Execute returns no error only for a program that ran completely: every  *)
(* instruction up to the first HALT or the end was run once, in a machine  *)
(* whose program counter advances by sizes the decoders report.            *)
OkMeansComplete ==
    [][running /\ ~running' /\ result' = "ok" => ran = ToRun(prog.code)]_vars

(* A fetch error is the program's fault: the instruction at the program    *)
(* counter is cut off or has no decoder. fetchInstruction, which looks up  *)
(* sizes, and the decoders, which check them, agree on every opcode.       *)
FetchErrorsJustified ==
    [][running /\ result' = "fetch error" =>
          Current.op \notin Decoded \/ Length(prog) - pc < Width(Current.op)]_vars

(* Every call of Execute returns. *)
ExecuteReturns == running ~> ~running

=============================================================================
