---------------------------- MODULE GAZLAssembler ----------------------------
(***************************************************************************)
(* GAZL::Assembler: lines of source fed one at a time become functions.    *)
(* Everything about a line is its caller's choice: any label, any operand, *)
(* in any order.  The assembler keeps what it accepts consistent across    *)
(* lines: symbols, references to labels that come later, the size of the   *)
(* frame, the function a line is in, and lines left out by a compile-time  *)
(* branch.  What it emits must be fit to run: Processor::run() checks none *)
(* of it again (GAZLCode's CodeWellFormed).                                *)
(*                                                                         *)
(* A line that is refused makes feed() throw and is no step: the assembly  *)
(* is given up there.  Abstracted: the text of a line, the types and       *)
(* values of variables and constants, and of data sections all but the     *)
(* memory they take and the symbols they define.                           *)
(***************************************************************************)
EXTENDS Integers, Sequences, SequencesExt

CONSTANTS
  MaxCodeSize,       \* instructions from codeBase to codeEnd
  MaxFunctionCount,  \* entries in functionTable
  MaxMemorySize,     \* words of memory for data and switch tables, and a zero guard
  MaxInt,            \* the largest Int: 2^31 - 1 in the code
  Names,             \* names of functions, locals and labels: sequences, name.n is <<.., n>>
  Sizes,             \* the sizes, transients and window positions that lines give
  Offsets,           \* the offsets that lines give a local
  Cases,             \* the cases of a switch, and the words of a data section
  SkipLabels         \* the labels until which compile-time branches leave lines out

ASSUME AssemblerAssumption ==
  /\ {MaxCodeSize, MaxFunctionCount, MaxInt} \subseteq Nat
  /\ MaxMemorySize \in Nat \ {0}
  /\ Names \subseteq Seq(Nat) \ {<<>>}
  /\ Sizes \subseteq 0 .. MaxInt
  /\ Offsets \subseteq Int
  /\ Cases \subseteq 0 .. MaxInt
  /\ SkipLabels \subseteq Names

None == <<>>                \* no label
Labels == Names \cup {None}
Numbered(name, n) == Append(name, n)

NoWindow == <<>>            \* a call without operands: its window is transient 0
Windows == {NoWindow} \cup (Sizes \X Sizes)
Outside == -1               \* functionStart between functions

VARIABLES
  code,            \* the instructions emitted, from codeBase up to ip
  functionTable,
  functionStart,   \* the offset of the current function's FUNC
  localsSize,      \* words of the current function's locals
  paramsSize,      \* words of its transients, the calls' windows included
  locals,          \* the symbols of the current function: branch labels and variables
  localRefs,       \* its jumps to labels that are not defined yet, and its switches
  globals,         \* the symbols of the program
  globalRefs,      \* calls of functions that are not defined yet
  freeWords,       \* words from globalsPointer to constantsPointer
  skipUntilLabel,  \* the label until which lines are left out
  status           \* feeding or done

frame == <<functionStart, localsSize, paramsSize, locals, localRefs>>
vars == <<code, functionTable, functionStart, localsSize, paramsSize, locals, localRefs,
          globals, globalRefs, freeWords, skipUntilLabel, status>>

here == Len(code)           \* ip, as an offset from codeBase

(***************************************************************************)
(* An instruction with the words of its frame that its operands are:       *)
(* slots are read or written wherever it executes, bases are where an      *)
(* index that is checked at run time (GETL, SETL) counts from.             *)
(***************************************************************************)
Emitted(op, p0, p1, jumps) ==
  [op |-> op, p0 |-> p0, p1 |-> p1, jumps |-> jumps, slots |-> {}, bases |-> {}]

Symbol(kind, value) == [kind |-> kind, value |-> value]
Define(symbols, name, symbol) ==
  [n \in DOMAIN symbols \cup {name} |-> IF n = name THEN symbol ELSE symbols[n]]
Larger(m, n) == IF m < n THEN n ELSE m

Init ==
  /\ code = <<>>
  /\ functionTable = <<>>
  /\ functionStart = Outside
  /\ localsSize = 0
  /\ paramsSize = 0
  /\ locals = <<>>
  /\ localRefs = {}
  /\ globals = <<>>
  /\ globalRefs = {}
  /\ freeWords = MaxMemorySize - 1
  /\ skipUntilLabel = None
  /\ status = "feeding"

-----------------------------------------------------------------------------
\* feed() assembles a line, unless lines are being skipped: then only the one with that label.
Feed(l) ==
  /\ status = "feeding"
  /\ skipUntilLabel \in {None, l}
  /\ skipUntilLabel' = None
  /\ UNCHANGED status

\* declare(): a line without a label declares nothing.
Declare(symbols, l, symbol) == IF l = None THEN symbols ELSE Define(symbols, l, symbol)
Undeclared(symbols, l) == l \notin DOMAIN symbols

(***************************************************************************)
(* finalizeFunction().  A reference is to a label and, for a switch, to    *)
(* the labels numbered 0 .. cases - 1 where there are such: the others of  *)
(* its entries go to the label itself.                                     *)
(***************************************************************************)
Referred(r) ==
  {r.label} \cup {n \in DOMAIN locals : \E i \in 0 .. r.cases - 1 : n = Numbered(r.label, i)}

\* Mutant: a label may be left where the next FUNC lands.
FunctionEnds ==
  /\ code # <<>> /\ Last(code).op \in {"RETU", "GOTO"}
  /\ \A r \in localRefs : \A n \in Referred(r) : n \in DOMAIN locals /\ locals[n].kind = "BRANCH"

FunctionComplete ==
  /\ code # <<>> /\ Last(code).op \in {"RETU", "GOTO"}
  /\ \A n \in DOMAIN locals : locals[n] # Symbol("BRANCH", here)
  /\ \A r \in localRefs : \A n \in Referred(r) : n \in DOMAIN locals /\ locals[n].kind = "BRANCH"

\* Mutant: a switch loses the default of its table.
ResolvedCases(r) ==
  {locals[n].value - r.at : n \in IF r.cases = 0 THEN {r.label} ELSE Referred(r) \ {r.label}}

Resolved(r) == {locals[n].value - r.at : n \in Referred(r)}

Finalized ==
  [i \in 1 .. Len(code) |->
     IF i = functionStart + 1 THEN [code[i] EXCEPT !.p0 = localsSize, !.p1 = paramsSize]
     ELSE [code[i] EXCEPT !.jumps = @ \cup UNION {Resolved(r) : r \in {q \in localRefs : q.at = i - 1}}]]

FinalizeFunction ==
  \/ functionStart = Outside
  \/ FunctionComplete

CodeSoFar == IF functionStart = Outside THEN code ELSE Finalized

\* Mutant: the references of one function are still there in the next.
StartFrameKeepsRefs(start) ==
  /\ functionStart' = start
  /\ localsSize' = 0
  /\ paramsSize' = 0
  /\ locals' = <<>>
  /\ UNCHANGED localRefs

\* The next function starts with an empty frame and no local symbols.
StartFrame(start) ==
  /\ functionStart' = start
  /\ localsSize' = 0
  /\ paramsSize' = 0
  /\ locals' = <<>>
  /\ localRefs' = {}

\* Mutant: one function too many.
RoomForFunctionAtLimit == Len(functionTable) <= MaxFunctionCount

RoomForFunction == Len(functionTable) < MaxFunctionCount

Func(l) ==
  /\ Feed(l)
  /\ RoomForFunction
  /\ Undeclared(globals, l)
  /\ FinalizeFunction
  /\ here < MaxCodeSize
  /\ functionTable' = Append(functionTable, here)
  /\ globals' = Declare(globals, l, Symbol("FUNC", Len(functionTable)))
  /\ code' = Append(CodeSoFar, Emitted("FUNC", 0, 0, {}))
  /\ StartFrame(here)
  /\ UNCHANGED <<globalRefs, freeWords>>

\* Mutant: locals of any size.
AnyLocals(size) == size \in Nat

LocalsFit(size) == size <= MaxInt - localsSize

\* LOCA, PARA and the like come before the function's first instruction.
Loca(l, size) ==
  /\ Feed(l)
  /\ functionStart # Outside /\ here = functionStart + 1
  /\ LocalsFit(size)
  /\ Undeclared(locals, l)
  /\ locals' = Declare(locals, l, Symbol("VAR", localsSize))
  /\ localsSize' = localsSize + size
  /\ UNCHANGED <<code, functionTable, functionStart, paramsSize, localRefs, globals, globalRefs, freeWords>>

-----------------------------------------------------------------------------
(***************************************************************************)
(* Lines in a function.  A label on one is the branch label of the next    *)
(* instruction emitted.                                                    *)
(***************************************************************************)
Label(l) ==
  /\ Feed(l)
  /\ functionStart # Outside
  /\ Undeclared(locals, l)
  /\ locals' = Declare(locals, l, Symbol("BRANCH", here))

Emit(l, instruction) ==
  /\ Label(l)
  /\ here < MaxCodeSize
  /\ code' = Append(code, instruction)
  /\ UNCHANGED <<functionTable, functionStart, localsSize, globals>>

\* NOOP, and a conditional jump whose condition is constant and false, emit nothing.
Noop(l) ==
  /\ Label(l)
  /\ UNCHANGED <<code, functionTable, functionStart, localsSize, paramsSize, localRefs,
                 globals, globalRefs, freeWords>>

Retu(l) ==
  /\ Emit(l, Emitted("RETU", localsSize, 0, {}))
  /\ UNCHANGED <<paramsSize, localRefs, globalRefs, freeWords>>

\* Operand %n: transient n, which the frame must have room for.
Transient(n) == n < MaxInt /\ paramsSize' = Larger(paramsSize, n + 1)

\* Operand name:k: a word counted from the first local, never below it.
LocalWord(name, k) == locals[name].value + k
IsLocal(name, k) ==
  /\ name \in DOMAIN locals /\ locals[name].kind = "VAR"
  /\ LocalWord(name, k) \in 0 .. MaxInt

\* Mutant: the word after the last local is accepted.
IsLocalOrNext(name, k) == IsLocal(name, k) /\ LocalWord(name, k) <= localsSize

IsCheckedLocal(name, k) == IsLocal(name, k) /\ LocalWord(name, k) < localsSize

(***************************************************************************)
(* An instruction that computes or moves data, with one variable operand,  *)
(* which stands for the operands of every instruction: each is parsed as   *)
(* this one.                                                               *)
(***************************************************************************)
Data(l, slots, bases) ==
  /\ Emit(l, [Emitted("DATA", 0, 0, {}) EXCEPT !.slots = slots, !.bases = bases])
  /\ UNCHANGED <<localRefs, globalRefs, freeWords>>

OnTransient(l, n) == Data(l, {n}, {}) /\ Transient(n)

OnLocal(l, name, k) ==
  /\ IsCheckedLocal(name, k)
  /\ Data(l, {LocalWord(name, k) - localsSize}, {})
  /\ UNCHANGED paramsSize

\* GETL and SETL: the index they add is checked against the top of the data stack only.
Indexed(l, name, k) ==
  /\ IsLocal(name, k)
  /\ Data(l, {}, {LocalWord(name, k) - localsSize})
  /\ UNCHANGED paramsSize

\* LOCAL_BOUNDS: size words from p1 are part of the frame.
FrameReaches(p1, size) ==
  /\ p1 >= 0 => size <= MaxInt - p1
  /\ paramsSize' = Larger(paramsSize, p1 + size)

\* ADRL hands out the address of size words of the frame.
AddressOf(l, name, k, size) ==
  /\ IsLocal(name, k)
  /\ LET p1 == LocalWord(name, k) - localsSize
     IN  /\ Data(l, p1 .. p1 + size - 1, {p1})
         /\ FrameReaches(p1, size)

-----------------------------------------------------------------------------
\* Operands %n *size: size words from transient n up.
WindowReaches(n, size) ==
  /\ n < MaxInt /\ size <= MaxInt - n
  /\ paramsSize' = Larger(Larger(paramsSize, n + 1), n + size)

\* ADRL of a transient.
AddressOfWindow(l, n, size) ==
  /\ Data(l, n .. n + size - 1, {n})
  /\ WindowReaches(n, size)

Call(l, op, p0, window) ==
  \/ /\ window = NoWindow
     /\ Emit(l, Emitted(op, p0, 0, {}))
     /\ UNCHANGED <<paramsSize, localRefs, freeWords>>
  \/ /\ window # NoWindow
     /\ Emit(l, [Emitted(op, p0, window[1], {}) EXCEPT !.slots = window[1] .. window[1] + window[2] - 1])
     /\ WindowReaches(window[1], window[2])
     /\ UNCHANGED <<localRefs, freeWords>>

\* A native's index and a function pointer are data.
CallOther(l, op, window) ==
  /\ Call(l, op, 0, window)
  /\ UNCHANGED globalRefs

CallFunction(l, name, window) ==
  \/ /\ name \in DOMAIN globals /\ globals[name].kind = "FUNC"
     /\ Call(l, "CALL_CVC", globals[name].value, window)
     /\ UNCHANGED globalRefs
  \/ /\ name \notin DOMAIN globals
     /\ Call(l, "CALL_CVC", 0, window)
     /\ globalRefs' = globalRefs \cup {[at |-> here, label |-> name]}

-----------------------------------------------------------------------------
\* A jump to a label that is known, its own included, is resolved at once.
Jump(l, op, name) ==
  /\ Emit(l, Emitted(op, 0, 0, IF name \in DOMAIN locals' THEN {locals'[name].value - here} ELSE {}))
  /\ \/ /\ name \in DOMAIN locals' /\ locals'[name].kind = "BRANCH"
        /\ UNCHANGED localRefs
     \/ /\ name \notin DOMAIN locals'
        /\ localRefs' = localRefs \cup {[at |-> here, label |-> name, cases |-> 0]}
  /\ UNCHANGED <<paramsSize, globalRefs, freeWords>>

\* A switch takes a word of constants for each case and one for the default; its table is filled
\* when the function is finalized.
Switch(l, name, cases) ==
  /\ Emit(l, Emitted("SWCH", 0, 0, {}))
  /\ cases + 1 <= freeWords
  /\ freeWords' = freeWords - (cases + 1)
  /\ localRefs' = localRefs \cup {[at |-> here, label |-> name, cases |-> cases]}
  /\ UNCHANGED <<paramsSize, globalRefs>>

-----------------------------------------------------------------------------
\* GLOB, TEMP and CNST.
Section(l, size) ==
  /\ Feed(l)
  /\ size <= freeWords
  /\ Undeclared(globals, l)
  /\ globals' = Declare(globals, l, Symbol("OTHER", 0))
  /\ freeWords' = freeWords - size
  /\ UNCHANGED <<code, functionTable, frame, globalRefs>>

\* ! DEFi names a constant, ! DEFp also a function by another name, DATi and the like data.
Named(l, symbol) ==
  /\ Feed(l)
  /\ Undeclared(globals, l)
  /\ globals' = Declare(globals, l, symbol)
  /\ UNCHANGED <<code, functionTable, frame, globalRefs, freeWords>>

(***************************************************************************)
(* Compile-time branches: ! GOTO and comparisons of constants may leave    *)
(* lines out, ! IFDF and ! IFND do if the name is known already or not.    *)
(***************************************************************************)
CompileTime(l, until) ==
  /\ status = "feeding"
  /\ skipUntilLabel \in {None, l}
  /\ skipUntilLabel' = until
  /\ UNCHANGED <<code, functionTable, frame, globals, globalRefs, freeWords, status>>

IfDefined(l, ifdf, name, until) ==
  CompileTime(l, IF (name \in DOMAIN globals) = ifdf THEN until ELSE None)

-----------------------------------------------------------------------------
EndUnit ==
  /\ status = "feeding"
  /\ skipUntilLabel = None
  /\ FinalizeFunction
  /\ StartFrame(Outside)
  /\ UNCHANGED skipUntilLabel

NewUnit ==
  /\ EndUnit
  /\ code' = CodeSoFar
  /\ UNCHANGED <<functionTable, globals, globalRefs, freeWords, status>>

\* finalize() also resolves the calls of functions that came later, in whatever unit.
Finalize ==
  /\ EndUnit
  /\ \A r \in globalRefs : r.label \in DOMAIN globals /\ globals[r.label].kind = "FUNC"
  /\ code' = [i \in 1 .. Len(code) |->
                IF \E r \in globalRefs : r.at = i - 1
                THEN [CodeSoFar[i] EXCEPT !.p0 =
                        globals[(CHOOSE r \in globalRefs : r.at = i - 1).label].value]
                ELSE CodeSoFar[i]]
  /\ status' = "done"
  /\ UNCHANGED <<functionTable, globals, globalRefs, freeWords>>

Line(l) ==
  \/ Func(l) \/ Noop(l) \/ Retu(l)
  \/ \E size \in Sizes : Loca(l, size)
  \/ \E n \in Sizes : OnTransient(l, n)
  \/ \E name \in Names, k \in Offsets :
       \/ OnLocal(l, name, k) \/ Indexed(l, name, k)
       \/ \E size \in Sizes : AddressOf(l, name, k, size)
  \/ \E n \in Sizes, size \in Sizes : AddressOfWindow(l, n, size)
  \/ \E window \in Windows :
       \/ \E op \in {"CALL_VVC", "CALL_NVC"} : CallOther(l, op, window)
       \/ \E name \in Names : CallFunction(l, name, window)
  \/ \E name \in Names :
       \/ \E op \in {"BRANCH", "GOTO"} : Jump(l, op, name)
       \/ \E cases \in Cases : Switch(l, name, cases)
  \/ \E size \in Cases : Section(l, size)
  \/ \E symbol \in {Symbol("OTHER", 0)} \cup {globals[n] : n \in DOMAIN globals} : Named(l, symbol)
  \/ \E until \in SkipLabels \cup {None} : CompileTime(l, until)
  \/ \E ifdf \in BOOLEAN, name \in Names, until \in SkipLabels : IfDefined(l, ifdf, name, until)

Next == (\E l \in Labels : Line(l)) \/ NewUnit \/ Finalize

Spec == Init /\ [][Next]_vars

-----------------------------------------------------------------------------
EmittedCode == [op    : {"FUNC", "CALL_VVC", "CALL_CVC", "CALL_NVC", "RETU", "DATA", "BRANCH", "GOTO", "SWCH"},
                p0    : Nat,
                p1    : Nat,
                jumps : SUBSET Int,
                slots : SUBSET Int,
                bases : SUBSET Int]

TypeOK ==
  /\ code \in Seq(EmittedCode) /\ Len(code) <= MaxCodeSize
  /\ functionTable \in Seq(Nat) /\ Len(functionTable) <= MaxFunctionCount
  /\ \A f \in 1 .. Len(functionTable) : functionTable[f] < Len(code)
  /\ functionStart \in {Outside} \cup (0 .. Len(code) - 1)
  /\ localsSize \in 0 .. MaxInt
  /\ paramsSize \in 0 .. MaxInt
  /\ DOMAIN locals \subseteq Names
  /\ \A n \in DOMAIN locals : locals[n] \in [kind : {"BRANCH", "VAR"}, value : Nat]
  /\ localRefs \subseteq [at : 0 .. Len(code) - 1, label : Names, cases : Cases \cup {0}]
  /\ DOMAIN globals \subseteq Names
  /\ \A n \in DOMAIN globals : globals[n] \in [kind : {"FUNC", "OTHER"}, value : Nat]
  /\ globalRefs \subseteq [at : 0 .. Len(code) - 1, label : Names]
  /\ freeWords \in 0 .. MaxMemorySize - 1
  /\ skipUntilLabel \in SkipLabels \cup {None}
  /\ status \in {"feeding", "done"}

\* What finalize() reports, as the program a Processor is constructed with.
Program == INSTANCE GAZLCode WITH
  CodeSize      <- Len(code),
  Code          <- [a \in 0 .. Len(code) - 1 |->
                      [op |-> code[a + 1].op, p0 |-> code[a + 1].p0, p1 |-> code[a + 1].p1,
                       jumps |-> code[a + 1].jumps, errors |-> {}]],
  FunctionCount <- Len(functionTable),
  FunctionTable <- [f \in 0 .. Len(functionTable) - 1 |-> functionTable[f + 1]]

(***************************************************************************)
(* Whatever lines are fed, in one unit or several, a program that          *)
(* finalize() accepts is one that run() may execute without a check: this  *)
(* is the assumption of GAZLProcessor and of all its theorems.             *)
(***************************************************************************)
AssembledWellFormed == status = "done" /\ functionTable # <<>> => Program!CodeWellFormed

(***************************************************************************)
(* A word that an instruction uses is inside the frame its FUNC allocates, *)
(* and the base of a run-time index is not below it, though the size of    *)
(* the frame is only known at the end of the function.                     *)
(***************************************************************************)
OperandsInFrame ==
  status = "done" =>
    \A a \in 0 .. Len(code) - 1 :
      LET func == code[Program!FunctionAt(a) + 1]
      IN  /\ code[a + 1].slots \subseteq -func.p0 .. func.p1 - 1
          /\ \A b \in code[a + 1].bases : b >= -func.p0

(***************************************************************************)
(* FUNC adds the two sizes of a frame as unsigned ints of the same width:  *)
(* no frame is so large that the sum wraps and passes the check.           *)
(***************************************************************************)
FrameSizesAddUp ==
  \A i \in 1 .. Len(code) : code[i].op = "FUNC" => code[i].p0 + code[i].p1 < 2 * (MaxInt + 1)

(***************************************************************************)
(* Each function is assembled on its own: no later line changes an         *)
(* instruction of a function that has ended, except that finalize() fills  *)
(* in the ordinals of functions called before they were defined.           *)
(***************************************************************************)
FinishedFunctionsKept ==
  [][\A i \in 1 .. Len(code) :
       functionStart = Outside \/ i <= functionStart =>
         \/ code'[i] = code[i]
         \/ /\ status' = "done"
            /\ \E r \in globalRefs : r.at = i - 1
            /\ \E p0 \in 0 .. Len(functionTable) - 1 : code'[i] = [code[i] EXCEPT !.p0 = p0]]_vars
=============================================================================
