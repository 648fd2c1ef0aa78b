# Verification of GAZL

GAZL is a small virtual machine meant to be embedded in a C++ program: an assembler
turns lines of source into instructions, and a processor executes them for a budget
of steps, calling host functions ("natives") which may use the same processor again.
The compilers that produce its source are JavaScript programs, run by NuXJS, an engine
kept in the repository. This directory holds TLA+ models of both machines and of the
host code around them, the TLC runs that check them and theorems that TLAPS proves.
Paths below are relative to the repository.

## The system

| Part | Where | State it keeps | Operations |
|---|---|---|---|
| Processor | `src/GAZL.cpp` 1487-1742, `src/GAZL.h` 372-457 | `ip`, `dsp`, `ipsp`, `clockCyclesLeft`, the two stacks, read-write and constant memory | `run`, `enterCall`, `pushCall`, `resetTimeOut`, `accessMemory`, `accessConstMemory`, `accessParams` |
| Assembler | `src/GAZL.cpp` 903-1485 | `ip`, `functionStart`, `localsSize`, `paramsSize`, the current function's symbols, the open data section, `skipUntilLabel`, assembly-time variables | `newUnit`, `feed`, `finalize` |
| Symbols | `src/GAZL.cpp` 743-901 | names with their types, values and offset ranges; references to names not defined yet | `define`, `link`, `registerSwitch`, `resolveForwardRefs`, and lookups for the host |
| Opcode and operator tables | `src/GAZL.cpp` 367-722 | constant | `OPERATORS` says which operands a mnemonic takes |
| Arithmetic and literals | `src/GAZL.cpp` 93-345 | none | integer operations defined for every operand, number parsing |
| Frozen memory | `src/GAZL.cpp` 1744-1945 | none | `freezeMemory`, `thawMemory` save and restore data by name |
| GAZLCmd | `tools/GAZLCmd.cpp` | the host's own | loads, runs and times a program; `runToCompletion`, natives |
| Tests | `tools/GAZLEnterCallTest.cpp`, `tools/GAZLMultiProcessorTest.cpp`, `tools/GAZLBoundsSweep.cpp`, `src/UnitTest.gazl`, `unitTest()` | programs, oracles and counters | how hosts and natives are meant to use the interface |
| NuXJS | `externals/NuXJS/src/` | a compiler's current section, its scopes and names; a processor's stack, frames, catchers and heap | `Compiler::compile`, `Processor::run`, the collector |
| Impala, JSPEG, scripts | `impala/`, `tools/*.js` | | compilers to GAZL, written in JavaScript, and what drives them |

How they interact. The host creates `Symbols` and an `Assembler` over buffers of its own,
feeds it lines in one or several units, and calls `finalize`. The processor gets the same
buffers: it never sees a name, and checks at run time only what the assembler cannot know.
The host calls `enterCall` and then `run`; `run` returns when the entered function does,
when the budget is spent, or on an error. Within `run`, `CALL ^native` calls host code
with `this`, which may call `enterCall` and `run` recursively, or `pushCall`, which makes
`run` continue in another function once the native has returned OK. One processor is on one
thread; the interleavings that matter within it are those of the host, natives and nested
`run()`s on shared stacks. Several processors, each with its own stacks, may share one
program and its memory, on threads of their own. A program's `GLOB` words can be saved by name
and loaded into a later version of the program. NuXJS is separate from all this: it compiles
a script in one pass and runs it on a stack machine with a chain of frames, one of catchers and
a garbage collector.

What is hard about it:

* `run` keeps `ip`, `dsp`, `ipsp` and the budget in local variables and exchanges them
  with the members only around natives and at its end. What a native did to the members
  is kept, merged or thrown away according to how it returned.
* One instruction pointer stack holds three kinds of entry (calls, pushes and the pair of
  an `enterCall`), told apart by a zero `dsp` and by a bias of one instruction.
* Only `FUNC` checks the data stack. Every other access relative to `dsp` rests on it,
  after time-outs, interrupts and returns, and on the frame sizes the assembler computed.
* Addresses a program computes are checked with one or two unsigned comparisons that must
  hold for every sum that wraps.
* The assembler works in one pass: it emits before it knows a function's frame, a label's
  place or a later function's ordinal, hands out addresses of constants before it knows
  where constants go, and cuts what a label owns back when the next label comes.
* `thawMemory` reads bytes that nobody vouches for, and must change nothing unless all are valid.
* The NuXJS compiler counts the depth of the stack along every path, through every way to leave a
  statement; the processor checks the stack once for each call and trusts the rest.

What makes each part correct:

* Processor: frames stay in the data stack; nested runs leave the outer run's entries
  alone; returns resume exactly what was left; a run ends when the budget does.
* Assembler: whatever it accepts, the processor can execute without the checks it omits.
* Data sections: every address handed out is right after relocation; offsets on a name
  stay in its section; each word of a `GLOB` section has exactly one owner.
* Memory instructions: an access that is let through is inside what it may touch, for
  every value of base, index and length modulo 2^32.
* Frozen memory: thawing what was frozen gives it back; an invalid buffer changes nothing.
* Hosts: a program does the same however often it is suspended; each job ends, with the status
  its failure stands for.
* Several processors: each does what it would do alone, and none touches another's stack.
* NuXJS: a script does what the language says, however it leaves its statements and
  wherever the collector comes between; nothing that can be reached is gone.

`PROJECT.json` lists every part with its status, and every hazard at its line.

## Modules

| Module | Models | Builds on |
|---|---|---|
| `GAZLCode` | assembled code: the interface of the two halves of the system | |
| `GAZLAssembler` | `Assembler::feed`, `newUnit`, `finalize` and `Symbols`, for everything that becomes code | `GAZLCode` (instance) |
| `GAZLProcessor` | `Processor::run`, `enterCall`, `pushCall`, `resetTimeOut`, natives; at its end the mapping to `GAZLCalls` | `GAZLCode` |
| `GAZLCalls` | the abstract specification of calls | |
| `GAZLInterrupts` | what an interrupting call writes | `GAZLProcessor` |
| `GAZLMemory` | integer arithmetic on words; addresses, and every range check | |
| `GAZLInstructions` | instructions with operands, and what `GAZLProcessor` sees of each | `GAZLMemory` |
| `GAZLMachine` | the processor with its memory and data | `GAZLInstructions`, `GAZLProcessor` |
| `GAZLHost`, `GAZLCmd` | a host's loop; the tool's natives, which print, read, refuel and fail | `GAZLMachine` |
| `GAZLHosts` | hosts, natives (with the interpreter test's `nblk`) and machine composed | `GAZLCmd` |
| `GAZLEnterCallPrograms` | the interpreter test's natives and programs | |
| `GAZLBoundsProbes`, `GAZLBoundsSweep` | the bounds sweep: its probes, its oracle, and one for arithmetic | `GAZLMachine` |
| `GAZLMultiProcessor` | two machines on one memory, and the test's threads | two instances of `GAZLMachine` |
| `GAZLSections` | the assembler's data: sections, owners, pointers, relocation | |
| `GAZLSource` | what the source says of data: the specification for `GAZLSections` | `GAZLSections` |
| `GAZLFrozenMemory` | `freezeMemory`, `thawMemory`, and the program saved and restored | `GAZLSource` |
| `NuXJSSyntax`, `NuXJSCode`, `NuXJSCompiler` | scripts as trees, the code, the compiler | |
| `NuXJSHeap`, `NuXJSScopes` | objects and the collector; scopes and names | |
| `NuXJSProcessor` | the processor of NuXJS | compiler and scopes |
| `ECMAScript` | the language's statements, as a reference | |
| `NuXJSControlFlow`, `NuXJSScopePrograms` | the scripts, and what each must do | `ECMAScript` |
| `GAZLProcessorProofs`, `GAZLCallsProofs`, `GAZLMachineProofs`, `GAZLBoundsSweepProofs`, `GAZLHostsProofs`, `GAZLAssemblerProofs`, `GAZLFrozenMemoryProofs`, `GAZLSourceProofs` | theorems and proofs | what they are named for |
| `MC...` | instances for TLC | |

### GAZLCode

A program is a sequence of instructions of nine kinds, one for each effect on control:
`DATA` is every instruction that computes or moves data, `BRANCH` every conditional jump.
`CodeWellFormed` collects what `run()` takes for granted: its `assert`s, and what it does
without a check, such as indexing the function table with a constant ordinal, jumping,
and adding a call's window to `dsp`. `GAZLProcessor` assumes it; it holds
of every program that `finalize` accepts, with the same definition
(`AssembledWellFormed`, checked by TLC and proved in `GAZLAssemblerProofs`). Neither half of the system is checked against a wish.

### GAZLProcessor

The variables are the members of `Processor` while host code has control, and `run()`'s
local copies while it executes; the other copy is then stale and nothing reads it.
`natives` is the C++ stack: one record for each native in progress, with the locals of
the `run()` that called it. `control` says who executes, `result` what the last `run()`
to end returned.

| Action | Code |
|---|---|
| `EnterCall`, `EnterCallFails` | `enterCall`, its early returns |
| `PushCall`, `PushCallFails` | `pushCall`; the first push and the chained push compute different resume points |
| `Run`, `Return` | entry to and exit from `run` |
| `TimeOut` | the test at the top of the loop |
| `Func`, `Call`, `Retu`, `Jump`, `Data` | the cases of the switch, with every error they `goto ret` with |
| `CallNative` | `CALL_NVC` up to the call of the native |
| `NativeOK`, `NativeFails` | what follows it, by the status the native returned |
| `ResetTimeOut` | `resetTimeOut`, from the host or from a native |

Data is left out: a branch goes either way, an instruction with a check succeeds or fails,
a function pointer has any value. So the model has every control path of every program.
Two uses are outside it, as the code's own `assert`s and comments demand: `run()` without
a pending call, and `pushCall` by anyone but a native.

### GAZLCalls

`GAZLCalls` says what calls are, with no stacks in sight: a sequence of activations, each
with the place where it goes on and its frame. A return goes back to the activation below as it
was left; a stop changes nothing; a pushed call is as if the native's caller had made it;
a native that fails leaves the activations as they were when it was called.
`GAZLProcessor` reads the activations off the instruction pointer stack (an `enterCall` entry keeps
`ip`, any other `ip - 1`) and `CallsImplemented` states that the processor implements
the abstract specification.

### GAZLInterrupts

Adds to the processor the words that an interrupting call writes, for one finding.

### GAZLMemory, GAZLInstructions and GAZLMachine

A word is the unsigned value of its `WordSize` bits, so that sums that wrap, signed
comparisons and shifts are those of the code with 32 replaced by a smaller number. Memory is a
function of cells: constants, globals and data stacks, and the zero guard. `MayPeek`,
`MayPoke`, `MayIndex`, `MayCopy`, `accessMemory` and `accessConstMemory` are the code's
comparisons, term by term.

`GAZLMachine` conjoins `GAZLProcessor`'s actions with what an instruction does to memory, so that
a branch goes where its operands send it, and a check fails when it should:

| Action | Code |
|---|---|
| `Compute` | `MOVE`, integer and float operations; a zero divisor is an error |
| `Peek`, `Poke`, `Getl`, `Setl`, `Adrl`, `Copy` | those instructions, in every operand form |
| `Branch`, `For`, `Goto`, `Switch` | where each goes; `FORi` counts and may wrap |
| `CallFunction` | the callee a function pointer names, or `BAD_CALL` |
| `HostWrites` | a word that `accessMemory` or `accessParams` granted to a native |

Float instructions move words like others; what they compute is any of `FloatWords`.
`ProgramAssembled` is what the machine takes from the assembler: operands that are read and written as they
stand are in the frame, and the bases of `GETL`, `SETL` and `ADRL` not below it, which `GAZLAssembler`'s
`OperandsInFrame` establishes. Nothing bounds a base from above (`src/GAZL.cpp:1035`), so it may be past the frame and past the
whole stack: `run()` counts the room left from it, which may be negative, and that check alone protects memory. Constant addresses and
switch tables are in memory, which `GAZLSections`'s `AddressesInside` states and
`GAZLFrozenMemoryProofs` proves.

### Hosts

`GAZLHost` is `runToCompletion`, common to the tool and the test. `host` says where the loop is
and which job it does, `task` where the native in control is.

| Action | Code |
|---|---|
| `HostEnters`, `HostGrants`, `HostRuns`, `HostReturns` | the loop: `enterCall`, then `resetTimeOut` and `run` while it times out; a benchmark goes round again |
| `PushNative` | natives that push one or several calls and give up when one is refused |
| `GAZLHosts`: `BlockingNative` | `nblk`: enters a call and runs it to its end in budgets of its own |
| `GAZLCmd`: `Refuel` | `resetTimeOut(MaxInt)`, the first statement of the natives that print or read |
| `PrintString`, `AssertFail`, `PrintNumber`, `PrintLF`, `Input`, `Ends`, `FloatNative` | the native of that name; `Ends` is `exit` and `abort` |

### GAZLBoundsSweep

`GAZLBoundsProbes` has the sweep's forms of access, each a function that loads its
operands from three globals, probes and stores what it got. `RunProbe` drives one, with any words
for the operands, and `SweepAssumption` says what forms there are and how the driver lays out memory; `AskAccess` asks for memory as a native does. Instructions on locals have their
base anywhere the assembler takes one: in the frame, at its bottom, and before, at and past the end of the stack (`Bases`). The oracle (`Valid`,
`Wanted`, `Transfers`) counts in integers and never wraps. `OperatorsExact` says the same
of every integer operation and comparison, bitwise ones by their bits; what float instructions compute is open.

### GAZLMultiProcessor

Two instances of `GAZLMachine` that share `memory`; all else is each one's own. `Thread0` and
`Thread1` are the test's drivers, one step a line; a step of a machine is one instruction. With
the mode `"cooperative"`, one thread gives each processor a `run()` in turn. The one word that both
processors read and write is the test's counter `shared`, whose value decides nothing and is in
no property, so no weaker order of memory accesses could show in what is checked.

### GAZLAssembler

One action for each kind of line, with any label and operands, in any order, and
`NewUnit` and `Finalize`. The line's text is gone, and a refused line is no step: `feed`
throws and the assembly is given up. What is left is what the assembler keeps
from one line to the next: `code`, `functionTable`, `functionStart`, `localsSize`, `paramsSize`,
the symbols `locals` and `globals`, their forward references, the memory left for
switch tables and data, and `skipUntilLabel`.

| Action | Code |
|---|---|
| `Func`, `FunctionComplete`, `Finalized`, `StartFrame` | `FUNC` and `finalizeFunction` |
| `Loca` | `LOCA`, `PARA`, `LOCi` .. `OUTp` |
| `Noop`, `Retu`, `Jump`, `Switch` | those mnemonics, and comparisons of constants, which assemble to a `GOTO` or to nothing |
| `OnTransient`, `OnLocal`, `Indexed`, `AddressOf`, `AddressOfWindow` | the forms of variable operand in `parseOperand`, and `LOCAL_BOUNDS` |
| `CallFunction`, `CallOther` | `CALL` of a function, of a native or pointer |
| `Section`, `Named` | what data sections and `! DEFi` define |
| `CompileTime`, `IfDefined` | compile-time lines, which may leave out the lines up to a label |
| `NewUnit`, `Finalize` | `newUnit`, `finalize` |

A name is a sequence of numbers, so that `name#n` (which declares `name.n`) is the name with `n`
appended: the labels of a switch's cases are found that way. An instruction carries, beside
its operands, the words of its frame that it uses (`slots`) and the bases from which a
run-time index counts (`bases`); `OperandsInFrame` compares them with the frame that is
known only at the function's end.

### GAZLSections, GAZLSource and GAZLFrozenMemory

`GAZLSections` is the same assembler from the side of data. A program is a sequence of sets of
lines, and each behaviour takes one line of each. An exception ends it, with the error recorded.

| Action | Code |
|---|---|
| `SectionLine` | `GLOB`, `TEMP`, `CNST`: closes the section before, refuses one with words nobody owns, declares the label |
| `DataLine` | `DATi` .. `DATs`: words one by one, then the label and its owner |
| `DefpLine`, `AddpLine` | `! DEFp`, `! ADDp`: a name for an address with how far it may reach; the assembly-time pointer |
| `UseLine` | an instruction's operand that names data: `PEEK`, `POKE`, `CALL`, an address |
| `SwitchLine`, `FuncLine`, `NewUnit` | tables below the constants; the end of a function, which fills them; units |
| `Finalize` | forward references, the move of the constants, poison and the zero guard |

`GAZLSource` defines the same things with no state: where a word is follows from the lines before it,
what a name denotes from the line that has it, which label owns a word from the section's
lines. Three properties of the assembler's data compare the two; `AddressesInside` and `OneOwner`
need no such reference and stand in `GAZLSections`.

`GAZLFrozenMemory` continues from an assembled program: `RunProgram` leaves any of the words in `Ran` in its
globals and stack, before it is frozen and again in the later program before that is thawed; `freezeMemorySize` and
`freezeMemory` write bytes, `Restart` takes damaged bytes and a later version
of the program, `Assemble` assembles that, and `ThawHeader`, `ThawEntry`,
`ThawValidate` and `ThawWalk` are `thawMemory`, in the order of its checks, one entry and
one step of its merged walk at a time.

### NuXJS

`NuXJSCompiler` is the recursive descent of the compiler with its input given as syntax
trees: everything it emits, in which order, at which stack depth, into which section, and
what it inserts in front of what it has already written. Each operation takes the compiler's record and returns it.
`NuXJSProcessor` then runs the code, one instruction a step:

| Action | Code |
|---|---|
| `StartLoaded`, `StartCompiled` | `Runtime::run`: a script is compiled when it is first run |
| `Compute`, `Branch`, `Local`, `ReadNamed`, `WriteNamed`, `DeleteNamed`, `Declare` | the opcodes on the stack, locals and names |
| `NewObject`, `AddProperty`, `Property`, `GetEnumerator`, `NextProperty` | objects and `for in` |
| `GenFunc`, `CallFunction`, `CallMethod`, `New`, `Return` | closures, calls (the host's `eval` and loggers included), `popFrame` |
| `JumpToSubroutine`, `EnterCatch`, `EnterWith`, `PopFrame` | frames without a call of their own |
| `Try`, `Tried`, `ThrowStatement`, and `Throw` in every action that may fail | catchers |
| `Collect` | the collector, between any two instructions |

`NuXJSHeap` says what each kind of item refers to when it is marked, and what is deleted with a frame
without asking the collector. `newOperation` (`externals/NuXJS/src/NuXJS.cpp:3054`) holds the new object in a slot of
the stack that the compiler does not count; the depth is compared between instructions, where that slot is part of the call.

Compiled code and outcomes were compared with the real engine when the model was written: for the
1441 scripts of control flow and 32 about scopes tried, code and output were the same.
`ECMAScript` executes statements as the language defines them, completions and all, and shares nothing with the compiler
but the trees.

## Runs

| Run | Checks | Bounds | States |
|---|---|---|---|
| `processor` | `TypeOK`, `FramesInsideStack`, `NestedRunsStayAbove`, `OuterEntriesKept`, `PushedFunctionsFit`, `IdleHoldsNothing` | 13 instructions, 6 words, 6 entries, budget 6, natives nested 2 deep | 157 570 |
| `processor_calls` | `CallsImplemented`, `EveryRunReturns` | the same program, 5 words, 5 entries, one native budget of 0 | 18 068 |
| `assembler_functions` | `TypeOK`, `AssembledWellFormed`, `FinishedFunctionsKept` | 6 instructions, 2 functions, one name to jump, call or skip to | 604 594 |
| `assembler_frames` | `AssembledWellFormed`, `OperandsInFrame`, `FrameSizesAddUp` | 3 instructions, 1 function, a name and its first case, sizes 0 and 3 = `MaxInt` | 658 659 |
| `hosts` | `ChecksPass`, `InputEchoed`, `ErrorsReported`, `ReadOnlyKept`, `EveryJobEnds` | 16-bit words, the test's nine checks with budgets 1 .. 40 and the maximum, 30 programs with the tool's natives | 19 275 |
| `bounds_sweep` | `ProbesAsOracle`, `AccessesAsOracle`, `OperatorsExact` | 5-bit words, every operand, bases from -`FrameSize` to half of all words | 359 785 |
| `sections` | `LaidOutAsWritten`, `OwnedByTheLastLabel`, `AccessesChecked`, `AddressesInside`, `OneOwner`, `EveryGlobalSaved`, `EntriesInBuffer`, `OnlyGlobalsRestored`, `AllOrNothing`, `RestoredByName` | all sequences of 4 lines of 13, the sweep's programs, 10 versions, 48 words of memory, other words left by a run | 155 772 |
| `multi_processor` | `ResultsAsAlone`, `NeighboursKept`, `EveryProcessorEnds` | 2 processors, 16-bit words, parts of 17 words, budgets 3, 4 and 6 | 419 905 |
| `nuxjs` | `ScriptsAsWritten`, `DepthAsCompiled`, `CatchersOnChain`, `NothingDangling`, `EveryScriptEnds` | 1338 scripts, two collections anywhere in those about scopes | 154 464 |
| `recovery` | `NewCallRecovers`, violated | as `processor` | |
| `interrupts` | `InterruptsSpareTheProgram`, violated | 7 instructions, 4 words, 4 entries | |
| `arguments` | `NothingDangling`, violated | one script, one collection | |

Why the bounds are enough.

* `processor`. The program has each kind of instruction, a
  function with a larger frame than its caller's rest, one that calls through a pointer and
  one without locals, so that both stacks overflow in each place that checks them. Six entries hold
  a call, a push and two entered calls, one inside the other: the least with a nested run below
  which something could be popped, and two natives are the least that nest. A budget of six
  reaches every instruction, and the budget ends at each of them; resetting it continues from there.
  `MinClock` bounds the reruns of a spent budget and `MaxNesting` the natives: both are
  guards of `Run` only.
* The assembler. Six instructions are two functions with a body of two each, enough for a
  forward call, a jump in each direction and lines left out from one function into the next.
  Three hold a switch or a jump with the label before or after it, and an operand after one
  that widened the frame. `MaxInt` is 3 so that the guards against overflow are reached
  with sizes that a line can give. The proofs lift all these bounds.
* `hosts`. The checks are the test's own, with its budgets 1 to 40: most suspend a program in
  every place it has. The tool's programs pass `input` counts on each side of every boundary
  (zero, negative, the first too many, the largest), print a string that ends at the zero guard, and make
  each native fail. Sixteen bits hold the test's results; the natives' constants are theirs.
* `bounds_sweep`. Five bits give 32 addresses, for 5 words of constants, 7 of globals, 12 of stack, a guard
  and a rest of invalid ones on both sides, so that sums wrap from each region into each other. The 32-bit test
  can only sample; here every pair of words is tried. Six bases (the sweep's own, the bottom of the frame, the last word of the stack, its end, one past it,
  and the largest number an operand can have) give each sign of the room that is left.
* `sections`. The thirteen lines are each kind of section and data line, with and without labels, a
  function, a switch and a new unit, with references backwards and forwards; four of them
  in a row are enough for a label that cuts back another across a unit or a section. One saved buffer of 100
  bytes is damaged in each of its 800 bits, cut at every length, lengthened, and rewritten with the
  words that only a careful reader of lengths refuses; whole buffers are thawed into ten versions (longer, shorter, missing, added, renamed,
  of another kind, in another order). A run leaves a different word in every cell, large and negative ones too, so that
  each word that thawing brings back differs from what both programs were assembled with. `maxFunctionCount` is 3, so that a fourth function is refused.
* `multi_processor`. The entries fit their part of the stack exactly, overflow it, write through an
  index to its end and past it, also from a base that is itself past the end, and share a global. Seventeen words hold the task and the deepest recursion
  that succeeds, and budgets of 3 to 6 suspend it in the middle.
* `nuxjs`. Every nesting of a labelled loop, another statement, and a `try` with any of its
  parts that is left in each of the ways, in a function and in evaluated code. That is the product in
  which the code's bookkeeping of depths, scopes and finally blocks has its cases. Two collections are what it takes to
  sweep one item and then what hung on it. `StackSize` 60 is more than any of the scripts uses;
  the check of the stack's end is in the model and unused.

Deadlock is checked where the host may go on for ever; it is not for the
assembler, which stops after `finalize` or where no line is acceptable any more, and for
hosts, sweeps and threads, which end when their work is done.

Fairness. `FairSpec` of the processor: `run()` is a loop that nothing suspends, so weak fairness of `Step`. A
native is a C++ function that returns: strong fairness of its return for each depth,
since a native that nests runs is in control repeatedly and not continuously. Nothing is
assumed of the host. `EveryRunReturns` (a `run()` leads to the host having control) is for
natives that do not extend the budget; a native that resets it to more can keep a program running for
ever, as `GAZLCmd`'s `print` does. `FairHostsSpec`: one thread runs host, natives and program; weak fairness of its next step. `FairMultiSpec`: weak
fairness of each thread, for neither waits for the other. NuXJS: `runUntilReturn` runs to the end, so
weak fairness of `Run`, written as "a script that never ends takes infinitely many steps other than
collections", for `ENABLED` would compile the script again in each state.

Every property of a passing run has a mutant in `PROJECT.json`: a plausible slip in the code
(an off-by-one in a limit, a dropped check, a missing reset) under which the run
finds the property violated. Their definitions stand before those they replace and are
marked `Mutant`.

## Findings

* `recovery`: `docs/gazl/Specification.md:348` says that after an error "a host recovers by starting
  a new call". Nothing unwinds the entries of the failed call, so after `IP_STACK_OVERFLOW`
  `enterCall` fails as well. Confirmed by building the code: it returns -6.
* `interrupts`: `src/GAZL.h:390` says that `enterCall` at any time "double[s] as a mean to issue
  interrupts". It leaves `dsp` at the suspended function's first transient, where the
  interrupting function puts its locals. Confirmed by building the code: an addition of
  two transients that was interrupted after the moves stores 300 instead of 3.
* `arguments`: `externals/NuXJS/src/NuXJS.h:1136` calls an arguments object's reference to its scope
  weak, handled by the scope's destructor. That holds when the scope goes with its frame. When a finally block has run in
  the function, the scope is left to the collector, which sweeps the arguments' values in the same
  collection as the scope: the destructor then copies references to what is gone.
  Confirmed by building the engine.

## Proofs

### The processor

`GAZLProcessorProofs` proves the following for every program that is well formed, all sizes
of the two stacks, all budgets and every depth of nesting, from `CodeAssembled` (the
processor's code is `CodeWellFormed`) and `HostAssumption` (types of the constants).

| Theorem | States |
|---|---|
| `TypeCorrect` | `Spec => []TypeOK` |
| `FramesStayInside` | `Spec => []FramesInsideStack` |
| `NestedRunsSafe` | `Spec => []NestedRunsStayAbove` |
| `OuterRunsUntouched` | `Spec => OuterEntriesKept` |
| `IdleIsEmpty` | `Spec => []IdleHoldsNothing` |
| `PushedStart` | `Spec => []PushedFunctionsFit` |
| `Invariant` | the inductive invariant |

None of these is inductive. `FramesInsideStack` says nothing of entries that belong to
an `enterCall`, yet a return to the host restores `ip` and `dsp` from such a pair; and nothing of the
members while a native has control, yet the native's return or its pushes make them the current frame.
The invariant `IInv` therefore describes every entry and every native:

* `EntryPairs`: the halves of each `enterCall` pair agree, and the bottom one is the idle processor's;
* `ResumesInside`: every other entry resumes after an instruction inside its function's frame;
* `NativesNested`: each native's `ipsp` is at most the next one's, and there is a sentinel pending
  above each native that has nested a run;
* `NativeState` and `EntersFrom`: what the members may be while a native has control, and
  where an `enterCall` made then suspends it;
* `Executing`: what `run()` executes next is inside its frame.

The proof follows the actions: one lemma for each, and under it one step for each
conjunct that the action can disturb. `RETU` needs most of the invariant, `NativeOK` and
`NativeFails` the rest: they cut the stack back to a length at which it was well formed.

`PushedStart` needs the invariant to remember what `pushCall` checked for each function of a chain,
though the stack does not say which entries are pushed. `PushesFit` says that a function has its room
whenever it is about to start above a pushed entry (`NextFits`), whenever a return will start it (`ResumesFit`), and
whenever an `enterCall` came before it could start (`SuspendsFit`).

### The implementation of calls

`GAZLCallsProofs` proves `Implementation`, `Spec => CallsImplemented`: the processor implements `GAZLCalls`, from the
processor's assumptions alone. The mapping picks the entries of the instruction pointer stack that suspend
an activation (not the upper half of an `enterCall` pair), so an activation's place is the
number of such entries up to its own. `Rank` is that number; that it grows by at most one an entry and
meets every activation (`RankOrder`, `RankCovers`) is what the mapping needs, and takes no induction over
sequences, only the least number that would be a counterexample. `CallSuspends` and
`EnterSuspends` then say what one more entry, or one more pair, does to the activations, and there is one
lemma for each action. The activations as they were when each native in progress was called are read off the
entries below the `ipsp` that its `run()` keeps in a local; `SnapshotsKept` shows that nothing changes those
while the native is in progress.

### The machine

`GAZLMachineProofs` proves, for words of every size, every layout that does not wrap and every program that
is `ProgramAssembled`:

| Theorem | States |
|---|---|
| `ConstantsKept` | `MachineSpec => ReadOnlyKept`: no instruction and no granted access changes a constant or the zero guard |
| `MachineImplementsProcessor` | `MachineSpec => Spec`, so all that is proved of the processor holds of the machine |
| `MachineFramesInside` | `MachineSpec => []FramesInsideStack`, by the refinement |
| `MemoryTypeCorrect` | `MachineSpec => []MemoryTypeOK` |
| `PeekInside`, `PokeInside`, `CopyInside`, `AccessInside`, `ConstAccessInside` | each check accepts exactly the accesses that are in range |

The range theorems are equivalences: the comparison, with its sum that may wrap, on one side, and
the cells of the access, as a range of integers, on the other. They need of the layout
what the constructors assert and that no address of memory wraps (`MemoryAssumption`). The
inductive invariant `MInv` is the processor's `IInv` with `MemoryTypeOK`: a store to the
frame is above the constants because `IInv` puts the frame in the data stack, and a value
is a word because each operator returns one. `ProgramAssembled` bounds the base of a `SETL`, `GETL` or `ADRL` only from
below, as the assembler does. That a `SETL` stays below the guard therefore comes from the check at run time, and the proof
uses it: the index is compared, as an unsigned word, with the words from the base to the end of the stack, and when there are
none the instruction fails. `BitsAssumption`, that a sum of
distinct powers of two below the word's size is a word, is arithmetic the provers do not do; TLC evaluates
it for every word size that a run uses. Copies are defined by the distance to the source, without
recursion; for small memories that was compared with a copy word by word.

### The bounds sweep

`GAZLBoundsSweepProofs` proves that what `run()` does with an access is what the sweep's oracle says, for words,
memories and stacks of every size, every operand, and any content of memory. TLC tries every word of five bits; the theorems are for 32.

| Theorem | States |
|---|---|
| `EveryProbeAsOracle` | `SweepSpec => []ProbesAsOracle`: the status, the result and each word of memory after a probe |
| `EveryAccessAsOracle` | `SweepSpec => []AccessesAsOracle` |
| `SweepInvariant` | the inductive invariant `SweepInv` |

They rest on the machine's assumptions and `SweepAssumption`: the layout of the sweep's driver (five words of globals before the
stack, a stack of less than half of all words, so that an index into it is not negative as a signed number), a budget of at least
`ProbeSteps`, and that each function is one of the driver's forms: it loads the operands it uses from the globals, accesses, and stores the result. The base of a `GETL` or `SETL` is any
number that is not below the frame.
`ProbesAsOracle` speaks of a probe that has ended, and says nothing of the dozen instructions before. `SweepInv` follows them, as the machine executes
them one step at a time: `Loaded` says which locals hold their operands at the `k`-th instruction and that
nothing else of memory has changed, `Effect` what the access did (by the range theorems of `GAZLMachineProofs`, which
turn each comparison that may wrap into one of integers), `Answered` what has been stored since, and
`Outcome` what is left when `run()` has returned. `PeekProbed` .. `CopyProbed` are the five instructions; the delicate one is `COPY`,
where the frame itself, or the globals that the result goes to, may be the source or the destination: the oracle calls those words
exempt, and the invariant must not claim to know them.

### The hosts

`GAZLHostsProofs` proves, for every program, table of natives, job and lines of input:

| Theorem | States |
|---|---|
| `HostsInvariant` | the inductive invariant `HInv` |
| `HostsImplementProcessor` | `HostsSpec => Spec`: both hosts and all their natives keep to the processor's interface |
| `HostsFramesInside` | `HostsSpec => []FramesInsideStack /\ []PushedFunctionsFit`, by the refinement |
| `HostsKeepConstants` | `HostsSpec => ReadOnlyKept` |
| `StringsEnd` | `print`'s scan, of which only the first word is checked, ends in memory |

They rest on the machine's assumptions and three more: a job enters and pushes pointers and grants budgets that the machine
knows, and a native may return any error (`JobsAssumption`), the words of memory are constants, read-write words and the guard
(`LayoutAssumption`), and a line of input is words (`LinesAssumption`). `HInv` is
`MInv` with `Guarded` (the word after the writable ones is zero: all that ends `print` in a string without
a terminator), `Places` (each native in progress is at a statement of its own, and where it waited
for a `run()` the result is a status) and `ConsoleType`. The one delicate case is `input`: for a count of -1
it writes its terminator one word past what it asked for, which may be the guard, where it writes
another zero (`InputKeeps`).

### The assembler

`GAZLAssemblerProofs` proves all the properties the two assembler runs check, for all names,
sizes and limits and any number of lines and units, from `AssemblerAssumption` (types of the constants).

| Theorem | States |
|---|---|
| `TypeCorrect` | `Spec => []TypeOK` |
| `FramesAddUp` | `Spec => []FrameSizesAddUp` |
| `FramesHoldOperands` | `Spec => []OperandsInFrame` |
| `WellFormed` | `Spec => []AssembledWellFormed` |
| `FinishedKept` | `Spec => FinishedFunctionsKept` |
| `Invariant` | the inductive invariant |

With `WellFormed` the processor's theorems rest on nothing that the assembler does not
deliver: the formula it proves is the one that `CodeAssembled` assumes. The properties speak of finished
programs only, so the invariant has to say what a half-assembled one is:

* `Closed`: each ended function is complete: its jumps stay inside, its operands fit the
  frame in its `FUNC`, and it ends in a `RETU` or a `GOTO`;
* `Open`: each instruction of the current function fits the frame as far as it is known, each of its
  jumps goes to a label or has a reference, and its labels are inside it, or at its end;
* `Linked`: the function table and the functions among the symbols agree with the code, and
  each call has an ordinal of the table or a reference;
* `Sized`: no size in a `FUNC` is above `MaxInt`.

The work is in `Closing`: when a function ends, `FunctionComplete` is just what turns `Open` into
`Closed`; without its test that no label is left where the next `FUNC` lands (the mutant
`FunctionEnds`) a jump could leave the function. `EmitPreserves` is the other centre: an
instruction may be added to the current function if its operands fit the frame as it becomes, and
every line that emits one is shown to be such a case.

### Data sections and frozen memory

`GAZLFrozenMemoryProofs` proves, for every buffer size, all names, any sequence of lines and any
bytes to thaw, from `SectionsAssumption` (types, and that the addresses below the first global do not go under zero),
`WordsAssumption` (the offsets, the poison and what memory holds before assembly are 32-bit words, as they are in the code; memory
starts below 2^30, the code has 0x12345678, and the function table's limit is a `UInt`) and
`FrozenAssumption` (a name is a sequence of bytes of its own, a valid identifier; lengths and versions
are 32-bit words):

| Theorem | States |
|---|---|
| `AddressesStayInside` | `FrozenSpec => []AddressesInside` |
| `WordsHaveOneOwner` | `FrozenSpec => []OneOwner` |
| `EntriesStayInBuffer` | `FrozenSpec => []EntriesInBuffer` |
| `GlobalsOnlyRestored` | `FrozenSpec => []OnlyGlobalsRestored` |
| `NamesRestored` | `FrozenSpec => []RestoredByName` |
| `FrozenInvariant`, `WalkInvariant` | the inductive invariants `FInv` and, on top of it, `WInv` |

With `AddressesStayInside` the machine's theorems need of the assembler what the assembler is proved to
give, for the addresses in its instructions too. That the words of a table jump to labels is `GAZLAssembler`'s side.

`AddressesInside` speaks of finished programs, and while lines come nobody knows how large a region will be: constants grow
downward, globals upward, and what is below the constants' last word today is a constant tomorrow. So
the invariant says that an address is in what is readable or writable *so far* (`Readable`,
`Writable`), which only grows (`InsideStays`):

* `SymbolsInside`: from each name, any offset it allows reaches readable words, and writable ones if the name is
  writable. For a `! DEFp` name the allowed offsets are 0 or none, and this is what makes that right;
* `OperandsInside`, `RefsAccepted`: an operand of an instruction is inside, or waits for a name in a reference
  that accepts no more than the instruction does, so that `finalize` checks it as `feed` would have (`WaitedInside`);
* `SectionOwned`: the open section lies in its region, and its last label owns all of the rest; without a label
  nobody owns any of it, and if it is a `GLOB` no word has been laid out yet that could be lost;
* `WordsOwned`: no word has two owners, a label owns words of its own section only, and every word of a
  `GLOB` section that has a label is owned. `LabelledStep` is the centre of the proof: the new label
  takes over from where the cut of the last one ends.

For thawing, `FInv` adds that the entries read so far are chained (`Chained`: each starts where the one before
ended, all before `p`, in the buffer), which `EntryRead` gets from the comparisons of `getMemoryEntry`,
lengths with the top bit set included; and that memory is as before the thaw up to `validate`,
and afterwards differs in words of GLOB labels only (`RestoredOnly`). The walk's owners are named by rank, so
that each rank has an owner (`OwnersFound`) rests on `Precedes` being a strict total order of the names
(`PrecedesTransitive`, `PrecedesTotal`), which is proved too.

`RestoredByName` is about the result of the whole walk, and each step sees one entry and one owner only. `Walked` says what the
steps so far have done, for two lists in the order of their names: all that has been passed on one list is before
all that is to come on the other (`Parted`), so an entry passed without a match has none further on; each word of each
owner is what the entry of its name gives it if that has been passed, and else as it was (`Restoring`); and the walk is still
`exact` just when what has been passed on either side has its match on the other (`Matched`). `EntryPassed`, `OwnerPassed` and
`EntryGiven` are the three branches of the loop. That the lists are in order is `OwnersApart`, by ranks and `WordsOwned`, for owners, and for entries
`EntriesApart`, by the comparison of neighbours in `thawMemory`'s validation: without that comparison neither the
walk nor the theorem is right, and its mutant violates `AllOrNothing`.

### What the source says of labels, and what bytes say of words

`GAZLSourceProofs` proves, from the same assumptions and for any sequence of lines, that who owns which word follows
from the source alone, that a frozen program brings back every global, and for any bytes that thawing restores all that they save
or nothing:

| Theorem | States |
|---|---|
| `LastLabelOwns` | `FrozenSpec => []OwnedByTheLastLabel` |
| `LinesFollowed` | the inductive invariant `LInv` |
| `AllRestored` | `FrozenSpec => []AllOrNothing` |
| `ReadingInvariant` | the inductive invariant `BInv`, on top of `WInv` |
| `AllGlobalsSaved` | `FrozenSpec => []EveryGlobalSaved` |
| `SavedInvariant` | the inductive invariant `KInv`, on top of `BInv` and `LInv` |
| `AllAreWords` | `FrozenSpec => []WordsInv` |

`OneOwner` says that no word has two owners, and would hold of an assembler that gave a label's words to the wrong
one of its neighbours. `OwnedByTheLastLabel` names the owner, by places that `GAZLSource` computes as sums over the lines
before. To compare the two while lines come, what `GAZLSource` says of `lines` is said of any sequence of lines (`SectionsOf`,
`PlaceIn`, `AddressOf`), and each part gets a lemma on what one more line does to it: a line keeps its section, its
place and its section's address (`PlacesStay`, `AddressesStay`), since the sums up to a line are of the lines up
to it (`SumsKept`); that such sums exist for every length is `SumsExist`, without an induction principle, by the
least length that would have none. `Follows` then ties the assembler's state to the lines:

* `Counted`: `globalsPointer` and `constantsPointer` are where the sums of the sections and tables say;
* `OpenAt`: the open section is the last one fed, its pointer is as far on as the words given since, and its
  owner is its last label;
* `Describes`: names of data and labels in the source are one to one, each label's value and types are its place's,
  and at each place of its section it owns the word if and only if it is the last label there (`AsDeclared`);
* and each `GLOB` section is labelled from its first word on, unless it is the open one and still waits for a label.

`LabelledFed` is the centre: the label of a line of data takes the rest of the section, and the last label
before it, which the assembler cuts back, is the only one for which `LastAt` changes. The step needs `SInv`
(the owner's symbol is what the cut supposes), so `LInv` is proved on top of `FrozenInvariant`.

`AllOrNothing` compares what was thawed with what freezing writes, concatenations of as many entries as there are. To
be compared with what `getMemoryEntry` takes from the middle of a buffer, they are said of places: `Stands(b, p, s)`, the bytes `s` are
in `b` from `p` on. `EntryPut` and `HeaderPut` say which parts stand where when an entry or a header does, `WordStands`
that the bytes of a word stand where `getMemoryWord` reads it, and `FlatStands` that a concatenation stands where its
pieces stand one after the other, by the least piece that does not. `FrozenStands` puts them together: a buffer is
`FrozenAs(version, saves)` exactly when the header and each of the entries stand in it and it ends with the last of them. From there

* `SavedFits` and `ReadAlike`: an entry that stands there fits, and is read as it was written; so a buffer that is refused,
  at any of the checks, is none that freezing writes for any list of names in order (`Unsaved`);
* `ReadStands` and `KeptFrozen`: an entry whose padding is zero stands there as it would be written, so a buffer that is
  accepted is what freezing its entries writes: nothing in it has been passed over. It is here that the checks of padding, of
  the check entry and of the buffer's end are needed;
* `MatchedAlike`: two lists in the order of their names that match one to one are the same list, so that MEMORY_OK, by
  `RestoredByName`'s invariant, means that the entries are those of the program's own owners, and then `WordsOf` each is what was read.

`ReadSoFar` is what reading needs on the way. That a program's own words can be written at all needs that each is one of 32 bits
(`AllAreWords`, over all of assembly: sums of addresses wrap, `Plus`) and that there are no more owners than words (`OwnersFew`). That a buffer that is accepted is
what *this* version writes would be false, and is not noticed in a version 1 that has none before it:
`thawMemory` accepts any version from 1 to its own, and freezing writes its own. So the property says which, and the run
has `VERSION` 2 and buffers of versions 1 and 3.

`EveryGlobalSaved` relates two programs at two times: what was frozen in one, with the words that its runs had left in it, and what is in memory when
another, of the same lines, has thawed it. Neither is what the lines say: a run may leave any words in the first before it is frozen and any others in the
second before that is thawed, so only a thaw that restores each word makes them equal.
Runs touch no more than globals and stack, keep the program and leave words, and none comes while bytes are read: `RunStep` keeps
`FInv` and `WalkRan` `WInv`, and `RanWords` says that memory is still of 32-bit words, which freezing needs. Between them only `saved` is left, so `KInv` says of it that its bytes are what
freezing the owners of `saved.lines` writes for the words of `saved.memory`, and exactly as many as `freezeMemorySize` said before
(`FrozenSized`: the sums of lengths, word by word of each owner, are the ends of the concatenation). From there:

* `OwnersByLines`: which labels own which words of `GLOB` sections depends on the lines alone (`OwnersIn`, by `LInv`),
  so a program of the same lines has the owners that were frozen;
* `SavedFits` and `ReadAlike` as above: the intact buffer is refused by no check, and each word that the walk gives back to an owner is
  the one that was written (`SavedRead`). Here the word must fit its four bytes: `getMemoryWord` of `putMemoryWord` is the
  identity on `Word` only;
* `GlobalOwned`: every place of every `GLOB` section has an owner among them, whether its section has a label, its first line
  has one, or both. It is what `closeSection` refuses words without a label for.

### Left to TLC

* `EveryRunReturns` and the other liveness properties: liveness under fairness is out of the provers' reach.
* Whatever compares a computation with a reference. `OperatorsExact` compares bitwise operations with a reference
  by digits, and products and quotients modulo 2^w: nonlinear arithmetic and induction over digits. `ChecksPass`, `InputEchoed`, `ErrorsReported` and `ResultsAsAlone`
  say what given programs compute. `LaidOutAsWritten` and `AccessesChecked`
  compare with recursive functions over the lines, or with folds. `AddressesInside` and `OneOwner` are their consequences that
  matter for safety, and those are proved.
* NuXJS's four properties: its compiler and its reference are recursive over syntax trees.
* `NeighboursKept`: to the prover the theorems of an instantiated module are opaque, so none of the machine's theorems can be cited of the two
  machines; and it is a property of the program as well, since a `POKE` of a computed pointer may
  write any writable word.

TLC checked the consequences of the invariants, and the assembler's invariant itself, on
the small instances before they were proved.

## Not modelled

* Float arithmetic and the parsers of literals: conversions over 32-bit floats and text are beyond what TLC
  enumerates. Float instructions are there as moves of words.
* The table `OPERATORS` and the syntax of lines: checked by the repository's `unitTest()` and
  `tools/checkInstructionSet`. How `Symbols` stores names, and its iteration for the host.
* `GAZLCmd`'s options, files, timing and fuzz drivers; the random generators of the tests.
* `pushCall` by a host or during a nested call (`src/GAZL.cpp:1733`), which `src/GAZL.h:391` forbids: it is
  listed as a hazard without a property.
* Of NuXJS: lexing and parsing, arrays and regular expressions, the standard library (JavaScript),
  conversions of numbers and strings, source positions and stack traces, the limits on nesting and on prototype
  chains, time outs, when the collector decides to run (here: any time), and the C++ interface.
* Impala and JSPEG: compilers that are functions of their source text. `gazl-validate` reads a
  file line by line and reports; the scripts start processes.

## Plan

What remains, in the order of what it adds:

1. `LaidOutAsWritten`, on top of `LInv`: which cell each line's words are in, patched and moved, and what each name
   denotes; `AccessesChecked` then follows for the operands that were judged when they were read.
2. NuXJS's `DepthAsCompiled` and `CatchersOnChain` for any code whose depths are consistent; the
   compiler's recursion would have to be in a module that the processor's does not use.
