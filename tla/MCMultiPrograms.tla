--------------------------- MODULE MCMultiPrograms ---------------------------
(***************************************************************************)
(* The multiple processor test's program, with fewer rounds and a smaller  *)
(* depth, and three functions for the edges of a part.  MCMultiProcessor     *)
(* names this module first, so that TLC evaluates its constants once.      *)
(***************************************************************************)
EXTENDS GAZLInstructions, Sequences, FiniteSets

ROUNDS == 2
BASE_DEPTH == 1

\* shared, then results: one word for each processor.
MCGlobals == 3
shared == MEMORY_OFFSET
results == MEMORY_OFFSET + 1

\* Locals r, n and x.
sum == <<
  FUNC(3, 2),
  Ins("NLSI", C(0), V(-2), C(6)),
  Ins("SUBI", V(-1), V(-2), C(1)),
  MOVE(V(1), V(-1)),
  CALL(C(FUNCTION_OFFSET), 0),
  Ins("ADDI", V(-3), V(-2), V(0)),
  RETU,
  MOVE(V(-3), C(0)),
  RETU >>

\* Locals id, rounds, share, acc, i and d.
task == <<
  FUNC(6, 2),
  MOVE(V(-3), C(0)),
  Ins("ADDI", V(-1), V(-6), C(BASE_DEPTH)),
  MOVE(V(-2), C(0)),
  Ins("NLSI", V(-2), V(-5), C(10)),
  MOVE(V(1), V(-1)),
  CALL(C(FUNCTION_OFFSET), 0),
  Ins("ADDI", V(-3), V(-3), V(0)),
  Ins("EQUI", V(-4), C(0), C(4)),
  PEEK(V(0), shared),
  Ins("ADDI", V(0), V(0), C(1)),
  POKE(shared, V(0)),
  Ins("ADDI", V(-2), V(-2), C(1)),
  GOTO(-9),
  Ins("POKE", C(results), V(-6), V(-3)),
  RETU >>

entry(k, rounds, share) == <<
  FUNC(0, 3),
  MOVE(V(0), C(k)),
  MOVE(V(1), C(rounds)),
  MOVE(V(2), C(share)),
  CALL(C(FUNCTION_OFFSET + 1), 0),
  RETU >>

\* A recursion that no part has room for.
deep == <<
  FUNC(0, 2),
  MOVE(V(1), C(100)),
  CALL(C(FUNCTION_OFFSET), 0),
  RETU >>

\* Fills its part from its frame up, through a pointer to it and through an index, and past its end.
fill == <<
  FUNC(12, 1),
  Ins("ADRL", V(-2), V(0), Unused),
  Ins("POKE", V(-2), C(0), C(3)),
  MOVE(V(-1), C(0)),
  Ins("SETL", V(0), V(-1), C(5)),
  Ins("GETL", V(-2), V(0), V(-1)),
  Ins("FORi", V(-1), C(100), C(-2)),
  RETU >>

\* Memory: a constant, the globals, and two parts, each with room for task and the recursion.
MCConstants == 1
MCPart == 17
MCRw == MCGlobals + 2 * MCPart
MCGuard == MCConstants + MCRw
MCMemory == [cell \in 0 .. MCGuard |-> 0]

\* Indexes from a base past the end of its part, which the assembler takes.
beyond == <<
  FUNC(2, 1),
  MOVE(V(-1), C(0)),
  Ins("SETL", V(MCPart), V(-1), C(5)),
  RETU >>

MCInstructions ==
  sum \o task \o entry(0, ROUNDS, 1) \o entry(0, ROUNDS, 0) \o entry(1, ROUNDS, 1) \o entry(1, ROUNDS, 0)
      \o deep \o fill \o beyond

expected(k) == LET d == BASE_DEPTH + k IN ROUNDS * ((d * (d + 1)) \div 2)

Entry_(function, status, result) == [function |-> function, status |-> status, result |-> result]
MCEntries ==
  [k \in {0, 1} |->
     {Entry_(2 + 2 * k, "OK", expected(k)), Entry_(3 + 2 * k, "OK", expected(k))}
       \cup {Entry_(7, "BAD_POKE", 0)}
       \cup IF k = 0 THEN {Entry_(6, "DATA_STACK_OVERFLOW", 0), Entry_(8, "BAD_POKE", 0)}
                     ELSE {Entry_(9, "BAD_CALL", 0)}]

Indexed(items) == LET all == items IN [i \in 0 .. Len(all) - 1 |-> all[i + 1]]

MCProgram == Indexed(MCInstructions)
MCCodeSize == Len(MCInstructions)
MCCode == LET program == MCProgram IN [a \in DOMAIN program |-> Abstracted(program[a])]
FunctionStarts ==
  LET all == MCInstructions
  IN  SelectSeq([i \in 1 .. Len(all) |-> i - 1], LAMBDA a : all[a + 1].op = "FUNC")
MCFunctionCount == Len(FunctionStarts)
MCFunctionTable == Indexed(FunctionStarts)
=============================================================================
