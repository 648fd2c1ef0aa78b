----------------------------- MODULE GAZLMachine -----------------------------
(***************************************************************************)
(* Processor::run() on words: GAZLProcessor's control with the memory its  *)
(* data instructions read and write, so that a branch goes where its       *)
(* operands send it and a check fails when it should.  Float instructions  *)
(* alone stay abstract: they store any of FloatWords and compare either    *)
(* way.                                                                    *)
(***************************************************************************)
EXTENDS GAZLInstructions, GAZLProcessor

CONSTANTS
  dataStackOffset,   \* where this processor's stack starts, from the base
  Program,           \* the instruction at each code offset, with its operands
  FloatWords         \* bound: the words float instructions store

VARIABLE memory

machineVars == <<vars, memory>>

\* Mutant: every stack starts after the same words.
stackBaseOfAll == constantsSize + rwMemorySize - DataStackSize

stackBase == constantsSize + dataStackOffset
CellOf(operand) == stackBase + dsp + operand.n

Value(operand) == IF operand.kind = "V" THEN memory[CellOf(operand)] ELSE ToWord(operand.n)

now == Program[ip]
V0 == Value(now.a)
V1 == Value(now.b)
V2 == Value(now.c)

-----------------------------------------------------------------------------
(***************************************************************************)
(* Data instructions.                                                      *)
(***************************************************************************)

\* The instruction succeeds, or its check fails and it does nothing.
Succeeds == Data /\ ip' = ip + 1
FailsAlone == Data /\ ip' = ip /\ UNCHANGED memory

Store(cell, word) == memory' = [memory EXCEPT ![cell] = word]

Integer(op, x, y) ==
  CASE op = "MOVE" -> x
    [] op = "ABSI" -> absolute(x)
    [] op = "ADDI" -> iadd(x, y)
    [] op = "SUBI" -> isub(x, y)
    [] op = "MULI" -> imul(x, y)
    [] op = "DIVI" -> idiv(x, y)
    [] op = "MODI" -> imod(x, y)
    [] op = "ANDI" -> iand(x, y)
    [] op = "IORI" -> ior(x, y)
    [] op = "XORI" -> ixor(x, y)
    [] op = "SHLI" -> ishl(x, y)
    [] op = "SHRI" -> ashr(x, y)
    [] op = "SHRU" -> lshr(x, y)

IntegerOps == {"MOVE", "ABSI", "ADDI", "SUBI", "MULI", "DIVI", "MODI",
               "ANDI", "IORI", "XORI", "SHLI", "SHRI", "SHRU"}
FloatOps == {"ABSF", "FLOF", "ADDF", "SUBF", "MULF", "DIVF", "FTOI", "ITOF"}

\* The assembler refuses a constant zero divisor.
DividesByZero == now.op \in {"DIVI", "MODI"} /\ V2 = 0

Compute ==
  \/ /\ now.op \in IntegerOps
     /\ \/ ~DividesByZero /\ Succeeds /\ Store(CellOf(now.a), Integer(now.op, V1, V2))
        \/ DividesByZero /\ FailsAlone
  \/ /\ now.op \in FloatOps
     /\ Succeeds
     /\ \E w \in FloatWords : Store(CellOf(now.a), w)

Peek ==
  /\ now.op = "PEEK"
  /\ LET pointer == IF now.c = Unused THEN V1 ELSE Plus(V1, V2)
     IN  \/ /\ now.c = Unused \/ MayPeek(pointer)
            /\ Succeeds /\ Store(CellOf(now.a), memory[CellAt(pointer)])
         \/ now.c # Unused /\ ~MayPeek(pointer) /\ FailsAlone

Poke ==
  /\ now.op = "POKE"
  /\ LET pointer == IF now.c = Unused THEN V0 ELSE Plus(V0, V1)
         word == IF now.c = Unused THEN V1 ELSE V2
     IN  \/ /\ now.c = Unused \/ MayPoke(pointer)
            /\ Succeeds /\ Store(CellAt(pointer), word)
         \/ now.c # Unused /\ ~MayPoke(pointer) /\ FailsAlone

\* GETL's array is its second operand, SETL's its first: the frame words from there on.
Getl ==
  /\ now.op = "GETL"
  /\ \/ /\ MayIndex(dsp, now.b.n, V2, DataStackSize)
        /\ Succeeds /\ Store(CellOf(now.a), memory[CellOf(now.b) + V2])
     \/ ~MayIndex(dsp, now.b.n, V2, DataStackSize) /\ FailsAlone

Setl ==
  /\ now.op = "SETL"
  /\ \/ /\ MayIndex(dsp, now.a.n, V1, DataStackSize)
        /\ Succeeds /\ Store(CellOf(now.a) + V1, V2)
     \/ ~MayIndex(dsp, now.a.n, V1, DataStackSize) /\ FailsAlone

Adrl == now.op = "ADRL" /\ Succeeds /\ Store(CellOf(now.a), ToWord(PointerTo(CellOf(now.b))))

Copy ==
  /\ now.op = "COPY"
  /\ \/ /\ MayCopy(V0, V1, V2)
        /\ Succeeds /\ memory' = Copied(memory, CellAt(V0), CellAt(V1), V2)
     \/ ~MayCopy(V0, V1, V2) /\ FailsAlone

DataInstruction == Compute \/ Peek \/ Poke \/ Getl \/ Setl \/ Adrl \/ Copy

-----------------------------------------------------------------------------
(***************************************************************************)
(* Control.                                                                *)
(***************************************************************************)
Goes(taken) == Jump /\ ip' = ip + (IF taken THEN now.c.n ELSE 1)

Less == Signed(V0) < Signed(V1)

Branch ==
  /\ \/ now.op = "LSSI" /\ Goes(Less)
     \/ now.op = "NLSI" /\ Goes(~Less)
     \/ now.op = "EQUI" /\ Goes(V0 = V1)
     \/ now.op = "NEQI" /\ Goes(V0 # V1)
     \/ now.op \in {"LSSF", "NLSF", "EQUF", "NEQF"} /\ Jump
  /\ UNCHANGED memory

\* A counter at the greatest integer wraps.
For ==
  /\ now.op = "FORi"
  /\ Goes(Signed(iadd(V0, 1)) < Signed(V1))
  /\ Store(CellOf(now.a), iadd(V0, 1))

Goto == now.op = "GOTO" /\ Jump /\ UNCHANGED memory

Switch ==
  /\ now.op = "SWCH"
  /\ Jump
  /\ ip' = ip + Signed(memory[CellAt(Plus(V2, minimum(V0, V1)))])
  /\ UNCHANGED memory

\* A pointer to no function is any ordinal past the table.
CallFunction ==
  /\ now.op = "CALL"
  /\ LET f == Ordinal(V0) IN Call(IF f < FunctionCount THEN f ELSE FunctionCount)
  /\ UNCHANGED memory

MachineStep ==
  \/ (TimeOut \/ Func \/ Retu \/ CallNative) /\ UNCHANGED memory
  \/ control = "run" /\ clock > 0
     /\ (DataInstruction \/ Branch \/ For \/ Goto \/ Switch \/ CallFunction)

-----------------------------------------------------------------------------
(***************************************************************************)
(* The host interface.  What host code writes it asked for:                *)
(* accessMemory's cells, or its native's arguments and results.            *)
(***************************************************************************)
accessParams(count) == IF count <= DataStackSize - dsp THEN stackBase + dsp ELSE Refused

HostCall == HostOrNative /\ UNCHANGED memory

HostWrites ==
  /\ control # "run"
  /\ \E cell \in Writable, w \in Word : Store(cell, w)
  /\ UNCHANGED vars

MachineInit == Init /\ memory = InitialMemory

MachineNext ==
  \/ MachineStep
  \/ NativeReturns /\ UNCHANGED memory
  \/ HostCall
  \/ HostWrites

MachineSpec == MachineInit /\ [][MachineNext]_machineVars

-----------------------------------------------------------------------------
(***************************************************************************)
(* What the assembler promises of operands: a word of the frame is one     *)
(* that FUNC checked, and an address run() does not check is one memory    *)
(* has, writable when it is written.  The base of an index, or of a        *)
(* local's address, is an Int not below the frame: nothing keeps it from   *)
(* being above the frame, or above the stack.                              *)
(***************************************************************************)
\* The instructions whose first operand is a word of the frame that they write or index from.
Storing == IntegerOps \cup FloatOps \cup {"PEEK", "GETL", "SETL", "ADRL", "FORi"}

InFrame(a, operand) ==
  operand.kind = "V" => - Code[FunctionAt(a)].p0 <= operand.n /\ operand.n < Code[FunctionAt(a)].p1

BaseOf(i) == CASE i.op = "SETL" -> {i.a} [] i.op \in {"GETL", "ADRL"} -> {i.b} [] OTHER -> {}
LocalsOf(i) ==
  CASE i.op = "SETL" -> {i.b, i.c} [] i.op \in {"GETL", "ADRL"} -> {i.a, i.c} [] OTHER -> {i.a, i.b, i.c}

NotBelowFrame(a, operand) ==
  operand.kind = "V" /\ - Code[FunctionAt(a)].p0 <= operand.n /\ 2 * operand.n < WordCount

ProgramAssembled ==
  /\ Program \in [Address -> [op : STRING, a : Operand, b : Operand, c : Operand]]
  /\ \A a \in Address :
       LET i == Program[a]
       IN  /\ Code[a] = Abstracted(i)
           /\ OpOf(i) = "DATA" \/ i.op \in Branches \cup {"SWCH", "CALL"} =>
                \A operand \in LocalsOf(i) : InFrame(a, operand)
           /\ \A operand \in BaseOf(i) : NotBelowFrame(a, operand)
           /\ i.op \in Storing => i.a.kind = "V"
           /\ i.op = "PEEK" /\ i.c = Unused => i.b.kind = "C" /\ CellAt(ToWord(i.b.n)) \in Cell
           /\ i.op = "POKE" /\ i.c = Unused => i.a.kind = "C" /\ CellAt(ToWord(i.a.n)) \in Writable
           /\ i.op = "SWCH" =>
                \A n \in 0 .. i.b.n : CellAt(Plus(ToWord(i.c.n), n)) \in ReadOnly

ASSUME MachineAssumption ==
  /\ dataStackOffset \in Nat
  /\ dataStackOffset + DataStackSize <= rwMemorySize
  /\ InitialMemory \in [Cell -> Word]
  /\ InitialMemory[memorySize] = 0
  /\ FloatWords \subseteq Word
  /\ ProgramAssembled

-----------------------------------------------------------------------------
MemoryTypeOK == memory \in [Cell -> Word]

(***************************************************************************)
(* No instruction and no granted access changes a constant or the zero     *)
(* guard, whatever addresses the program computes: constants stay those of *)
(* the assembler, and a native that scans for a terminator finds one.      *)
(***************************************************************************)
ReadOnlyKept ==
  [][\A cell \in Cell \ Writable : memory'[cell] = memory[cell]]_machineVars
=============================================================================
