------------------------ MODULE GAZLEnterCallPrograms ------------------------
(***************************************************************************)
(* The interpreter test's programs, assembled, and its checks.             *)
(***************************************************************************)
EXTENDS GAZLInstructions, Sequences

\* The test's native table, and the natives' indices.
TestNatives == <<"nfwd", "nblk", "nchain", "nmark">>
nfwd == 0
nblk == 1
nchain == 2
nmark == 3

gOut == MEMORY_OFFSET
gTrace == MEMORY_OFFSET + 1
gOrder == MEMORY_OFFSET + 1

(***************************************************************************)
(* The five programs, one after the other.  In a frame of n local words,   *)
(* the first is V(-n); with a result and a parameter they are V(-2) and    *)
(* V(-1).                                                                  *)
(***************************************************************************)
helper == 0

P1 == <<
  \* helper
  FUNC(2, 1),
  Ins("MULI", V(0), V(-1), V(-1)),
  Ins("ADDI", V(-2), V(0), C(1)),
  RETU,
  \* mainDirect
  FUNC(2, 2),
  MOVE(V(1), C(7)),
  CALL(C(FUNCTION_OFFSET + helper), 0),
  MOVE(V(-1), V(0)),
  POKE(gOut, V(-1)),
  RETU,
  \* mainBlk
  FUNC(2, 2),
  MOVE(V(1), C(7)),
  CALLN(nblk, 0),
  MOVE(V(-1), V(0)),
  POKE(gOut, V(-1)),
  RETU,
  \* mainFwd
  FUNC(2, 2),
  POKE(gTrace, C(1)),
  MOVE(V(1), C(7)),
  CALLN(nfwd, 0),
  MOVE(V(-1), V(0)),
  PEEK(V(0), gTrace),
  Ins("ADDI", V(0), V(0), C(2)),
  POKE(gTrace, V(0)),
  Ins("MULI", V(0), V(-1), C(10)),
  PEEK(V(1), gTrace),
  Ins("ADDI", V(0), V(0), V(1)),
  POKE(gOut, V(0)),
  RETU >>

\* helperF and helperB, mainF and mainB differ in the native they call.
Recursive(native_index) == <<
  FUNC(2, 2),
  Ins("LSSI", C(0), V(-1), C(3)),
  MOVE(V(-2), C(0)),
  GOTO(4),
  Ins("SUBI", V(1), V(-1), C(1)),
  CALLN(native_index, 0),
  Ins("ADDI", V(-2), V(-1), V(0)),
  RETU >>

Calling(native_index, argument) == <<
  FUNC(1, 2),
  MOVE(V(1), C(argument)),
  CALLN(native_index, 0),
  POKE(gOut, V(0)),
  RETU >>

P2 == Recursive(nfwd) \o Recursive(nblk) \o Calling(nfwd, 5) \o Calling(nblk, 5)

P3 == <<
  \* square
  FUNC(2, 0),
  Ins("MULI", V(-2), V(-1), V(-1)),
  RETU,
  \* helper
  FUNC(2, 2),
  MOVE(V(1), V(-1)),
  CALLN(nblk, 0),
  Ins("ADDI", V(-2), V(0), C(1)),
  RETU >> \o Calling(nfwd, 6)

P4 == <<
  \* helper
  FUNC(2, 1),
  Ins("MULI", V(0), V(-1), V(-1)),
  Ins("ADDI", V(-2), V(0), C(1)),
  RETU,
  \* main, whose loop's first test the assembler leaves out
  FUNC(3, 2),
  MOVE(V(-1), C(0)),
  MOVE(V(-2), C(0)),
  MOVE(V(1), V(-2)),
  CALLN(nfwd, 0),
  Ins("ADDI", V(-1), V(-1), V(0)),
  Ins("FORi", V(-2), C(10), C(-3)),
  POKE(gOut, V(-1)),
  RETU >>

\* gOrder gets one more digit.
Marks(digit) == <<
  PEEK(V(0), gOrder),
  Ins("MULI", V(0), V(0), C(10)),
  Ins("ADDI", V(0), V(0), C(digit)),
  POKE(gOrder, V(0)) >>

Starts(native_index, argument) == <<
  FUNC(2, 2),
  POKE(gOrder, C(0)),
  MOVE(V(1), C(argument)),
  CALLN(native_index, 0),
  MOVE(V(-1), V(0)) >>

P5 ==
  \* double and inc
  <<FUNC(2, 1)>> \o Marks(4) \o <<Ins("MULI", V(-2), V(-1), C(2)), RETU>> \o
  <<FUNC(2, 1)>> \o Marks(3) \o <<Ins("ADDI", V(-2), V(-1), C(1)), RETU>> \o
  \* mark1, mark2 and mark3
  <<FUNC(1, 1)>> \o Marks(1) \o <<RETU>> \o
  <<FUNC(1, 1)>> \o Marks(2) \o <<RETU>> \o
  <<FUNC(1, 1)>> \o Marks(3) \o <<RETU>> \o
  \* mainChain and mainMarks
  Starts(nchain, 7) \o
  <<Ins("MULI", V(0), V(-1), C(1000)), PEEK(V(1), gOrder),
    Ins("ADDI", V(0), V(0), V(1)), POKE(gOut, V(0)), RETU>> \o
  Starts(nmark, 0) \o <<PEEK(V(0), gOrder), POKE(gOut, V(0)), RETU>>

TestProgram == P1 \o P2 \o P3 \o P4 \o P5
TestFunctions == 20

-----------------------------------------------------------------------------
(***************************************************************************)
(* The checks: what a function leaves in gOut, with the functions the      *)
(* natives push, and the one nblk enters.                                  *)
(***************************************************************************)
Pushing(fwd, chain, mark) ==
  [name \in {"nfwd", "nchain", "nmark"} |->
     CASE name = "nfwd" -> fwd [] name = "nchain" -> chain [] name = "nmark" -> mark]

Check(function, wanted, pushed, entered, suspends) ==
  [function |-> function, wanted |-> wanted, pushed |-> pushed, entered |-> entered,
   suspends |-> suspends, repeats |-> 0, lines |-> <<>>]

none == <<>>

Checks == <<
  Check(1, 50, Pushing(<<0>>, none, none), 0, FALSE),              \* mainDirect
  Check(2, 50, Pushing(<<0>>, none, none), 0, FALSE),              \* mainBlk
  Check(3, 503, Pushing(<<0>>, none, none), 0, FALSE),             \* mainFwd
  Check(6, 15, Pushing(<<4>>, none, none), 5, TRUE),              \* mainF
  Check(7, 15, Pushing(<<4>>, none, none), 5, FALSE),              \* mainB
  Check(10, 37, Pushing(<<9>>, none, none), 8, FALSE),             \* main of P3
  Check(12, 295, Pushing(<<11>>, none, none), 0, TRUE),           \* main of P4
  Check(18, 8043, Pushing(none, <<14, 13>>, none), 0, FALSE),      \* mainChain
  Check(19, 321, Pushing(none, none, <<15, 16, 17>>), 0, TRUE) >> \* mainMarks
=============================================================================
