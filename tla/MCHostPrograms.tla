---------------------------- MODULE MCHostPrograms ----------------------------
(***************************************************************************)
(* The program and the memory of MCHosts: the interpreter test's programs  *)
(* and some that use the command line tool's natives.  TLC evaluates the   *)
(* constants of this module once because MCHosts names it first.           *)
(***************************************************************************)
EXTENDS GAZLEnterCallPrograms

\* Memory: three constants, then the globals, then the stack.
MCConstants == 3
MCGlobals == 6
MCStack == 22
MCBase == 4660
MCFunctionBase == 22136
rw == MCGlobals + MCStack
MCGuard == MCConstants + rw
MCMemory == [cell \in 0 .. MCGuard |-> IF cell = 0 THEN 65 ELSE 0]

Text == MCBase - MCConstants
Buffer_ == MCBase + 2

\* NATIVE_TABLE up to the slots that --forward fills.
ToolNatives == <<"abort", "assertFail", "printInt", "printFloat", "print", "printLF", "input",
                 "atan2", "sqrt", "log", "exit">>

MCNatives == TestNatives \o ToolNatives \o <<"forward">>
MCNativeNames == [i \in 0 .. Len(MCNatives) - 1 |-> MCNatives[i + 1]]
tool(name) == (CHOOSE i \in DOMAIN MCNatives : MCNatives[i] = name) - 1

-----------------------------------------------------------------------------
(***************************************************************************)
(* Programs that use the tool's natives.                                   *)
(***************************************************************************)
Echo(count, buffer) == <<
  FUNC(0, 3),
  MOVE(V(1), C(count)),
  MOVE(V(2), C(buffer)),
  CALLN(tool("input"), 0),
  MOVE(V(2), V(0)),
  MOVE(V(1), C(buffer)),
  CALLN(tool("print"), 0),
  MOVE(V(1), V(2)),
  CALLN(tool("printInt"), 0),
  RETU >>

\* A call whose window is the last two words of the stack, both of them not zero.
AtTheEnd(name, pointer) == <<
  FUNC(MCStack - 2, 2),
  MOVE(V(0), C(66)),
  MOVE(V(1), C(pointer)),
  CALLN(tool(name), 0),
  RETU >>

InTheLastWord(name) == <<FUNC(MCStack - 1, 1), CALLN(tool(name), 0), RETU>>

Once(name) == <<
  FUNC(0, 2),
  MOVE(V(1), C(Text)),
  CALLN(tool(name), 0),
  RETU >>

Echoes == <<
  [count |-> 0, buffer |-> Buffer_], [count |-> 1, buffer |-> Buffer_],
  [count |-> 3, buffer |-> Buffer_], [count |-> -1, buffer |-> Buffer_],
  [count |-> -2, buffer |-> Buffer_],
  [count |-> rw - 3, buffer |-> Buffer_], [count |-> rw - 2, buffer |-> Buffer_],
  [count |-> 32767, buffer |-> Buffer_], [count |-> -32768, buffer |-> Buffer_],
  [count |-> 0, buffer |-> Text], [count |-> 1, buffer |-> 0],
  [count |-> 0, buffer |-> MCBase + rw - 1], [count |-> 1, buffer |-> MCBase + rw - 1],
  [count |-> 0, buffer |-> MCBase + rw] >>

EndPointer == MCBase + rw - 2

\* Each with what it ends with, and what it prints.
Others == <<
  [code |-> AtTheEnd("print", EndPointer), error |-> "ACCESS_VIOLATION", printed |-> <<66, EndPointer>>],
  [code |-> AtTheEnd("print", Text), error |-> "OK", printed |-> <<65>>],
  [code |-> AtTheEnd("print", MCBase + rw), error |-> "ACCESS_VIOLATION", printed |-> <<>>],
  [code |-> AtTheEnd("input", Buffer_), error |-> "DATA_STACK_OVERFLOW", printed |-> <<>>],
  [code |-> AtTheEnd("assertFail", Text), error |-> "ABORTED", printed |-> <<65>>],
  [code |-> AtTheEnd("forward", 7), error |-> "BAD_CALL", printed |-> <<>>],
  [code |-> InTheLastWord("print"), error |-> "DATA_STACK_OVERFLOW", printed |-> <<>>],
  [code |-> InTheLastWord("printInt"), error |-> "DATA_STACK_OVERFLOW", printed |-> <<>>],
  [code |-> InTheLastWord("sqrt"), error |-> "DATA_STACK_OVERFLOW", printed |-> <<>>],
  [code |-> Once("exit"), error |-> "IP_STACK_OVERFLOW", printed |-> <<>>],
  [code |-> Once("abort"), error |-> "ABORTED", printed |-> <<>>],
  [code |-> Once("log"), error |-> "OK", printed |-> <<>>],
  [code |-> Once("printLF"), error |-> "OK", printed |-> <<>>],
  [code |-> Once("forward"), error |-> "OK", printed |-> <<>>],
  [code |-> Echo(-1, MCBase + rw), error |-> "ACCESS_VIOLATION", printed |-> <<>>],
  [code |-> Calling(nblk, 9), error |-> "IP_STACK_OVERFLOW", printed |-> <<>>] >>

Concatenated(parts) ==
  LET upTo[i \in Nat] == IF i = 0 THEN <<>> ELSE upTo[i - 1] \o parts[i]
  IN  upTo[Len(parts)]

MCInstructions ==
  TestProgram \o Concatenated([i \in DOMAIN Echoes |-> Echo(Echoes[i].count, Echoes[i].buffer)])
              \o Concatenated([i \in DOMAIN Others |-> Others[i].code])

Indexed(items) == LET all == items IN [i \in 0 .. Len(all) - 1 |-> all[i + 1]]

MCProgram == Indexed(MCInstructions)
MCCodeSize == Len(MCInstructions)
MCCode == LET program == MCProgram IN [a \in DOMAIN program |-> Abstracted(program[a])]

FunctionStarts ==
  LET all == MCInstructions
  IN  SelectSeq([i \in 1 .. Len(all) |-> i - 1], LAMBDA a : all[a + 1].op = "FUNC")
MCFunctionCount == Len(FunctionStarts)
MCFunctionTable == Indexed(FunctionStarts)
=============================================================================
