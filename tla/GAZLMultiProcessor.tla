-------------------------- MODULE GAZLMultiProcessor --------------------------
(***************************************************************************)
(* Two processors that run one program in one memory, as the multiple      *)
(* processor test has them: each with an ip stack of its own and a part of *)
(* the data stack, driven by a thread of its own or, in turns, by one      *)
(* thread.  Threads interleave at every instruction.  Only words that two  *)
(* threads never share are read here, so no order of memory accesses       *)
(* weaker than this one is left out.                                       *)
(***************************************************************************)
EXTENDS GAZLInstructions, GAZLCode, Sequences

CONSTANTS
  Program, FloatWords, IpStackSize, Budgets, MinClock,
  globalsSize,       \* words of the globals
  PartSize,          \* words of each processor's part of the data stack
  ThreadBudget,      \* the steps granted to a run() on a thread of its own; when they cooperate, any of Budgets
  Entries            \* what each processor may be given to do

VARIABLES
  ip0, dsp0, clock0, ipStack0, control0, natives0, result0,
  ip1, dsp1, clock1, ipStack1, control1, natives1, result1,
  memory,
  mode,              \* "threads", or "cooperative": one thread for both
  turn,              \* whose turn it is when they cooperate
  jobs               \* where each processor's driver is, its entry and its status

vars0 == <<ip0, dsp0, clock0, ipStack0, control0, natives0, result0>>
vars1 == <<ip1, dsp1, clock1, ipStack1, control1, natives1, result1>>
multiVars == <<vars0, vars1, memory, mode, turn, jobs>>

Processors == {0, 1}
Part(k) == globalsSize + k * PartSize

\* makeProcessor; the test has no natives.
P0 == INSTANCE GAZLMachine WITH
        ip <- ip0, dsp <- dsp0, clock <- clock0, ipStack <- ipStack0, control <- control0,
        natives <- natives0, result <- result0, dataStackOffset <- Part(0), DataStackSize <- PartSize,
        NativeBudgets <- {}, NativeErrors <- {}, MaxNesting <- 0

P1 == INSTANCE GAZLMachine WITH
        ip <- ip1, dsp <- dsp1, clock <- clock1, ipStack <- ipStack1, control <- control1,
        natives <- natives1, result <- result1, dataStackOffset <- Part(1), DataStackSize <- PartSize,
        NativeBudgets <- {}, NativeErrors <- {}, MaxNesting <- 0

MultiInit ==
  /\ P0!Init /\ P1!Init
  /\ clock0 = ThreadBudget /\ clock1 = ThreadBudget
  /\ memory = InitialMemory
  /\ mode \in {"threads", "cooperative"}
  /\ turn = 0
  /\ jobs \in [Processors -> [entry : Entries[0] \cup Entries[1], at : {"enter"}, status : {"none"}]]
  /\ \A k \in Processors : jobs[k].entry \in Entries[k]

-----------------------------------------------------------------------------
(***************************************************************************)
(* The drivers: enter the call, then run it for some steps at a time for   *)
(* as long as it times out.  On one thread, the next processor that has    *)
(* not ended gets its turn after each run().                               *)
(***************************************************************************)
MayDrive(k) == mode = "threads" \/ turn = k
At(k, step) == MayDrive(k) /\ jobs[k].at = step
Moves(k, step) == jobs' = [jobs EXCEPT ![k].at = step]
Ends(k, status) == jobs' = [jobs EXCEPT ![k].at = "done", ![k].status = status]
Granted == IF mode = "threads" THEN {ThreadBudget} ELSE Budgets
NextTurn(k) == turn' = IF jobs[1 - k].at = "done" THEN k ELSE 1 - k

EntersCall(k, succeeds, fails) ==
  /\ At(k, "enter")
  /\ \/ succeeds /\ Moves(k, "grant") /\ UNCHANGED turn
     \/ fails /\ Ends(k, "BAD_CALL") /\ NextTurn(k)

\* Mutant: a run() goes on with what the last one left.
GrantsNothing(k, grants) ==
  At(k, "grant") /\ UNCHANGED <<vars0, vars1>> /\ Moves(k, "run") /\ UNCHANGED turn

GrantsSteps(k, grants) == At(k, "grant") /\ grants /\ Moves(k, "run") /\ UNCHANGED turn

RunsSteps(k, runs) == At(k, "run") /\ runs /\ Moves(k, "returned") /\ UNCHANGED turn

RunReturned(k, status) ==
  /\ At(k, "returned")
  /\ \/ status = "TIME_OUT" /\ Moves(k, "grant")
     \/ status # "TIME_OUT" /\ Ends(k, status)
  /\ NextTurn(k)

Drive0 ==
  \/ EntersCall(0, P0!EnterCall(jobs[0].entry.function), P0!EnterCallFails(jobs[0].entry.function))
  \/ \E n \in Granted : GrantsSteps(0, P0!ResetTimeOut(n))
  \/ RunsSteps(0, P0!Run)
  \/ control0 = "host" /\ RunReturned(0, result0) /\ UNCHANGED vars0

Drive1 ==
  \/ EntersCall(1, P1!EnterCall(jobs[1].entry.function), P1!EnterCallFails(jobs[1].entry.function))
  \/ \E n \in Granted : GrantsSteps(1, P1!ResetTimeOut(n))
  \/ RunsSteps(1, P1!Run)
  \/ control1 = "host" /\ RunReturned(1, result1) /\ UNCHANGED vars1

Thread0 ==
  /\ \/ P0!MachineStep /\ UNCHANGED <<turn, jobs>>
     \/ Drive0 /\ UNCHANGED memory
  /\ UNCHANGED <<vars1, mode>>

Thread1 ==
  /\ \/ P1!MachineStep /\ UNCHANGED <<turn, jobs>>
     \/ Drive1 /\ UNCHANGED memory
  /\ UNCHANGED <<vars0, mode>>

MultiNext == Thread0 \/ Thread1

MultiSpec == MultiInit /\ [][MultiNext]_multiVars

\* No thread is held up for ever: neither waits for the other.
FairMultiSpec == MultiSpec /\ WF_multiVars(Thread0) /\ WF_multiVars(Thread1)

-----------------------------------------------------------------------------
(***************************************************************************)
(* checkResults: whatever the other processor does, and however often both *)
(* are suspended in a recursion, a processor ends with the status, and     *)
(* leaves the result, that its entry has when it runs alone.               *)
(***************************************************************************)
ResultOf(k) == memory[CellAt(MEMORY_OFFSET + 1 + k)]

ResultsAsAlone ==
  \A k \in Processors :
    jobs[k].at = "done" =>
      /\ jobs[k].status = jobs[k].entry.status
      /\ ResultOf(k) = jobs[k].entry.result

(***************************************************************************)
(* A step of one processor leaves every word of the other's part as it is, *)
(* when its recursion overflows its own part and when an index runs off    *)
(* the end of one too.                                                     *)
(***************************************************************************)
PartKept(k) ==
  \A cell \in constantsSize + Part(k) .. constantsSize + Part(k) + PartSize - 1 : memory'[cell] = memory[cell]

NeighboursKept ==
  [][(vars0' = vars0 => PartKept(0)) /\ (vars1' = vars1 => PartKept(1))]_multiVars

\* Every processor's driver ends, whatever the other is given to do.
EveryProcessorEnds == \A k \in Processors : <>(jobs[k].at = "done")
=============================================================================
