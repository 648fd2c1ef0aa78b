------------------------------- MODULE GAZLCode -------------------------------
(***************************************************************************)
(* An assembled GAZL program as Processor::run() executes it and the       *)
(* Assembler emits it: the code, the function table, and what the first    *)
(* relies on the second for.                                               *)
(***************************************************************************)
EXTENDS Integers

CONSTANTS
  CodeSize,       \* instructions in the program
  Code,           \* the instruction at each code offset
  FunctionCount,  \* functions in the program
  FunctionTable   \* the code offset of each function ordinal

Address == 0 .. CodeSize - 1

IsFunction(a) == Code[a].op = "FUNC"

\* The function an instruction belongs to is the nearest FUNC at or before it.
Heads(f, a) == IsFunction(f) /\ \A b \in (f + 1) .. a : ~IsFunction(b)
FunctionAt(a) == CHOOSE f \in 0 .. a : Heads(f, a)

Statuses == {"OK", "TIME_OUT", "BAD_PEEK", "BAD_POKE", "BAD_CALL", "DATA_STACK_OVERFLOW",
             "IP_STACK_OVERFLOW", "DIVISION_BY_ZERO", "ACCESS_VIOLATION", "ABORTED", "TERMINATED"}

(***************************************************************************)
(* An instruction.  The opcodes of one control effect are one op: DATA is  *)
(* every instruction that computes or moves data and goes on to the next,  *)
(* with the statuses its check can fail with; BRANCH every conditional     *)
(* jump.  p0 and p1 are the operands the call instructions use: FUNC has   *)
(* the sizes of the frame's locals and transients, a call its function     *)
(* ordinal (CALL_CVC) and the transient its window starts at.  jumps are   *)
(* the distances a jump may go: one, or those in a SWCH's table.           *)
(***************************************************************************)
Instruction == [op     : {"FUNC", "CALL_VVC", "CALL_CVC", "CALL_NVC", "RETU",
                          "DATA", "BRANCH", "GOTO", "SWCH"},
                p0     : Nat,
                p1     : Nat,
                jumps  : SUBSET Int,
                errors : SUBSET (Statuses \ {"OK", "TIME_OUT"})]

Calls == {"CALL_VVC", "CALL_CVC", "CALL_NVC"}
Jumps == {"BRANCH", "GOTO", "SWCH"}

(***************************************************************************)
(* What run() takes for granted: every instruction is in a function, only  *)
(* RETU and GOTO end one, every jump goes somewhere, stays in its function *)
(* and never reaches its FUNC, a call's window starts inside the frame its *)
(* FUNC checked, and a constant function ordinal is one of the table's.    *)
(***************************************************************************)
CodeWellFormed ==
  /\ CodeSize \in Nat \ {0}
  /\ Code \in [Address -> Instruction]
  /\ \A a \in Address : \E f \in 0 .. a : Heads(f, a)
  /\ FunctionCount \in Nat
  /\ FunctionTable \in [0 .. FunctionCount - 1 -> {a \in Address : IsFunction(a)}]
  /\ \A a \in Address :
       /\ Code[a].op \in Calls \cup {"FUNC", "DATA", "BRANCH", "SWCH"} =>
            a + 1 \in Address /\ ~IsFunction(a + 1)
       /\ Code[a].op \in Jumps => Code[a].jumps # {}
       /\ \A j \in Code[a].jumps :
            a + j \in Address /\ ~IsFunction(a + j) /\ FunctionAt(a + j) = FunctionAt(a)
       /\ Code[a].op \in Calls => Code[a].p1 <= Code[FunctionAt(a)].p1
       /\ Code[a].op = "CALL_CVC" => Code[a].p0 < FunctionCount
=============================================================================
