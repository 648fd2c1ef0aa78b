----------------------------- MODULE MCInterrupts -----------------------------
(***************************************************************************)
(* A program that computes in its transients and recurses, and a handler   *)
(* with a local of its own.                                                *)
(***************************************************************************)
EXTENDS GAZLInterrupts

Plain(op, p0, p1) == [op |-> op, p0 |-> p0, p1 |-> p1, jumps |-> {}, errors |-> {}]

MCInstructions == <<
  Plain("FUNC", 0, 1),          \* 0 main
  Plain("DATA", 0, 0),          \* 1
  Plain("CALL_CVC", 0, 0),      \* 2
  Plain("RETU", 0, 0),          \* 3
  Plain("FUNC", 1, 0),          \* 4 handler
  Plain("DATA", 0, 0),          \* 5
  Plain("RETU", 0, 0) >>        \* 6

MCCodeSize == Len(MCInstructions)
MCCode == [a \in 0 .. MCCodeSize - 1 |-> MCInstructions[a + 1]]
MCFunctionTable == [f \in 0 .. 1 |-> 4 * f]
MCMinClock == -1
=============================================================================
