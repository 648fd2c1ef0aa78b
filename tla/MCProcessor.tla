----------------------------- MODULE MCProcessor -----------------------------
(***************************************************************************)
(* Instances of the processor for TLC.                                     *)
(***************************************************************************)
EXTENDS GAZLProcessor, TLC

Plain(op, p0, p1) == [op |-> op, p0 |-> p0, p1 |-> p1, jumps |-> {}, errors |-> {}]
Jumping(op, offsets) == [op |-> op, p0 |-> 0, p1 |-> 0, jumps |-> offsets, errors |-> {}]
Checked(status) == [op |-> "DATA", p0 |-> 0, p1 |-> 0, jumps |-> {}, errors |-> {status}]

(***************************************************************************)
(* main calls a native with a window above its first transient, calls leaf *)
(* directly, and loops; leaf has a larger frame and calls through a        *)
(* pointer; handler needs no frame.                                        *)
(***************************************************************************)
MCInstructions == <<
  Plain("FUNC", 1, 2),          \*  0 main
  Plain("CALL_NVC", 0, 1),      \*  1
  Plain("CALL_CVC", 1, 1),      \*  2
  Jumping("BRANCH", {-2}),        \*  3
  Plain("RETU", 0, 0),          \*  4
  Plain("FUNC", 1, 1),          \*  5 leaf
  Checked("BAD_PEEK"),          \*  6
  Jumping("SWCH", {1, 2}),        \*  7
  Plain("CALL_VVC", 0, 0),      \*  8
  Plain("RETU", 0, 0),          \*  9
  Plain("FUNC", 0, 1),          \* 10 handler
  Jumping("GOTO", {1}),           \* 11
  Plain("RETU", 0, 0) >>        \* 12

MCCodeSize == Len(MCInstructions)
MCCode == [a \in 0 .. MCCodeSize - 1 |-> MCInstructions[a + 1]]
MCMinClock == -1
MCFunctionTable == 0 :> 0 @@ 1 :> 5 @@ 2 :> 10
=============================================================================
