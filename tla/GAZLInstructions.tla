--------------------------- MODULE GAZLInstructions ---------------------------
(***************************************************************************)
(* Instructions with their operands, as the assembler leaves them for      *)
(* run(): labels resolved, operands in the opcode's order; and what        *)
(* GAZLProcessor, which knows no data, sees of each.                       *)
(***************************************************************************)
EXTENDS GAZLMemory

CONSTANTS
  FUNCTION_OFFSET,   \* the pointer to the first function
  InitialMemory      \* what the assembler left in memory

ASSUME FunctionsAssumption == FUNCTION_OFFSET \in Word

\* An operand: V, the word n of the frame at dsp, or C, the constant n.
V(n) == [kind |-> "V", n |-> n]
C(n) == [kind |-> "C", n |-> n]
Unused == [kind |-> "-", n |-> 0]

Operand == [kind : {"V", "C", "-"}, n : Int]

Ins(op, a, b, c) == [op |-> op, a |-> a, b |-> b, c |-> c]

\* Frames and calls: a call's last operand is the transient its window starts at.
FUNC(locals, transients) == Ins("FUNC", C(locals), C(transients), Unused)
RETU == Ins("RETU", Unused, Unused, Unused)
CALL(function, window) == Ins("CALL", function, C(window), Unused)
CALLN(native, window) == Ins("CALLN", C(native), C(window), Unused)

MOVE(a, b) == Ins("MOVE", a, b, Unused)

\* PEEK and POKE of an address the assembler knows.
PEEK(a, pointer) == Ins("PEEK", a, C(pointer), Unused)
POKE(pointer, b) == Ins("POKE", C(pointer), b, Unused)

GOTO(distance) == Ins("GOTO", C(distance), Unused, Unused)

-----------------------------------------------------------------------------
(***************************************************************************)
(* The instruction GAZLProcessor sees.  A PEEK or POKE of two operands has *)
(* a constant address, which the assembler has checked.                    *)
(***************************************************************************)
Branches == {"FORi", "LSSI", "NLSI", "EQUI", "NEQI", "LSSF", "NLSF", "EQUF", "NEQF"}

SwitchOffsets(i) ==
  {Signed(InitialMemory[CellAt(Plus(ToWord(i.c.n), n))]) : n \in 0 .. i.b.n}

JumpsOf(i) ==
  CASE i.op \in Branches -> {i.c.n}
    [] i.op = "GOTO" -> {i.a.n}
    [] i.op = "SWCH" -> SwitchOffsets(i)
    [] OTHER -> {}

ErrorsOf(i) ==
  CASE i.op = "PEEK" /\ i.c # Unused -> {"BAD_PEEK"}
    [] i.op = "POKE" /\ i.c # Unused -> {"BAD_POKE"}
    [] i.op = "GETL" -> {"BAD_PEEK"}
    [] i.op = "SETL" -> {"BAD_POKE"}
    [] i.op \in {"DIVI", "MODI"} /\ i.c.kind = "V" -> {"DIVISION_BY_ZERO"}
    [] i.op = "COPY" -> {"ACCESS_VIOLATION"}
    [] OTHER -> {}

Ordinal(pointer) == Minus(pointer, FUNCTION_OFFSET)

OpOf(i) ==
  CASE i.op = "CALL" -> IF i.a.kind = "V" THEN "CALL_VVC" ELSE "CALL_CVC"
    [] i.op = "CALLN" -> "CALL_NVC"
    [] i.op \in {"FUNC", "RETU", "GOTO", "SWCH"} -> i.op
    [] i.op \in Branches -> "BRANCH"
    [] OTHER -> "DATA"

Abstracted(i) ==
  [op     |-> OpOf(i),
   p0     |-> CASE i.op = "CALL" /\ i.a.kind = "C" -> Ordinal(ToWord(i.a.n))
                [] i.op \in {"FUNC", "CALLN"} -> i.a.n
                [] OTHER -> 0,
   p1     |-> IF i.op \in {"FUNC", "CALL", "CALLN"} THEN i.b.n ELSE 0,
   jumps  |-> JumpsOf(i),
   errors |-> ErrorsOf(i)]
=============================================================================
