---------------------------- MODULE GAZLSections ----------------------------
(***************************************************************************)
(* The Assembler's data: sections, the labels in them, and every operand   *)
(* that is an address.  Globals grow upward from the start of memory and   *)
(* constants downward from its end; finalize moves the constants below the *)
(* globals, and every address handed out before is right only then.  Of    *)
(* code this module keeps the operands that name a global.                 *)
(***************************************************************************)
EXTENDS Integers, Sequences, FiniteSets

CONSTANTS
  maxMemorySize,     \* words of the buffer
  MEMORY_OFFSET,     \* the address of the first global
  FUNCTION_OFFSET,   \* the pointer to the first function
  maxFunctionCount,  \* functions that the table has room for
  POISON,            \* 0xDEADBEEF
  OldWord,           \* whatever the buffer held before
  Distance,          \* a word of a SWCH's table: GAZLAssembler says which
  Labels,            \* the names that lines define
  Programs           \* a set of programs: the choice of lines at each place

VARIABLES
  program,           \* the lines to come, a set for each
  lines,             \* the lines fed so far
  memory,            \* the buffer, from memoryBase
  globalsPointer,
  constantsPointer,
  globals,           \* symbols by name
  forwardRefs,       \* operands that name a symbol that does not exist yet
  data,              \* the open section
  code,              \* the operands of instructions, the switches to resolve, the functions
  variable,          \* the compile-time variable <P>, when it is set
  status             \* "feeding", "done" or the error that ended assembly

vars == <<program, lines, memory, globalsPointer, constantsPointer, globals, forwardRefs, data, code,
          variable, status>>

-----------------------------------------------------------------------------
(***************************************************************************)
(* Words: 32 bits, signed, and a sum of two wraps.                         *)
(***************************************************************************)
LargestWord == 2147483647
Word == {w \in Int : -LargestWord - 1 <= w /\ w <= LargestWord}

Plus(a, b) ==
  CASE b > 0 /\ a > LargestWord - b -> (a - LargestWord - 1) + (b - LargestWord - 1)
    [] b < 0 /\ a < -LargestWord - 1 - b -> (a + LargestWord + 1) + (b + LargestWord + 1)
    [] OTHER -> a + b

\* Memory is smaller than its offset, 0x12345678 in the code: every address in it is a word.
LargestOffset == 1073741823

-----------------------------------------------------------------------------
(***************************************************************************)
(* Types of symbols and operands.                                          *)
(***************************************************************************)
ADDRESS == {"ADDRESS_R", "ADDRESS_W"}
FREE_ADDRESS == ADDRESS \cup {"UNCHECKED_ADDRESS"}
ANY_FREE == FREE_ADDRESS \cup {"NULL_PTR", "FUNC"}
ANY_FWD_FREE == ANY_FREE \cup {"FORWARD"}
KONST == ANY_FWD_FREE \cup {"CONST_INT"}

DeclareTypes(kind) ==
  CASE kind = "GLOB" -> FREE_ADDRESS
    [] kind = "TEMP" -> FREE_ADDRESS \cup {"TEMPORARY"}
    [] kind = "CNST" -> {"ADDRESS_R"}

\* The operand of an instruction that is a global, by what the instruction does with it.
Accepts(use) ==
  CASE use = "PEEK" -> {"ADDRESS_R", "FORWARD"}
    [] use = "POKE" -> {"ADDRESS_W", "FORWARD"}
    [] use = "PEEK indexed" -> {"ADDRESS_R", "UNCHECKED_ADDRESS", "FORWARD"}
    [] use = "POKE indexed" -> {"ADDRESS_W", "UNCHECKED_ADDRESS", "FORWARD"}
    [] use = "MOVp" -> ANY_FWD_FREE
    [] use = "CALL" -> {"FUNC", "FORWARD"}

Symbol(types, value, words) ==
  [types |-> types, value |-> value, declaredWords |-> words, ownedWords |-> words,
   minOffset |-> 0, maxOffset |-> words - 1]

NoName == "-"
Predefined ==
  [n \in {"NULL", "GAZL_VERSION"} |->
     IF n = "NULL" THEN Symbol({"NULL_PTR"}, 0, 1) ELSE Symbol({"CONST_INT"}, 1, 1)]

defined == DOMAIN globals

\* declare: a line without a label defines nothing.
With(symbols, name, symbol) ==
  IF name = NoName THEN symbols
  ELSE [n \in DOMAIN symbols \cup {name} |-> IF n = name THEN symbol ELSE symbols[n]]

-----------------------------------------------------------------------------
(***************************************************************************)
(* Operands: a word, a label with or without an offset, or <P>.  Reading   *)
(* one that names a symbol that exists resolves it; a later symbol is      *)
(* recorded with the place its value goes.                                 *)
(***************************************************************************)
Literal(w) == [k |-> "word", word |-> w]
At(name, offset) == [k |-> "label", name |-> name, given |-> TRUE, offset |-> offset]
To(name) == [k |-> "label", name |-> name, given |-> FALSE, offset |-> 0]
Var == [k |-> "variable"]

InReach(symbol, offset) == symbol.minOffset <= offset /\ offset <= symbol.maxOffset

ResolveError(operand, accepts, symbol) ==
  CASE symbol.types \cap accepts = {} -> "INCOMPATIBLE_TYPES"
    [] /\ symbol.types \cap accepts # {}
       /\ \/ operand.given /\ (symbol.types \cap ADDRESS = {} \/ "POINTER_CONSTANT" \in symbol.types)
          \/ "UNCHECKED_ADDRESS" \notin accepts /\ ~InReach(symbol, operand.offset) -> "OFFSET_OUT_OF_BOUNDS"
    [] OTHER -> "none"

ReadError(operand, accepts) ==
  CASE operand.k = "word" /\ "CONST_INT" \notin accepts -> "DID_NOT_EXPECT_CONSTANT_INT"
    [] operand.k = "label" /\ operand.name \in defined -> ResolveError(operand, accepts, globals[operand.name])
    [] operand.k = "label" /\ operand.name \notin defined /\ "FORWARD" \notin accepts ->
         "NON_FORWARD_SYMBOL_NOT_FOUND"
    [] operand.k = "variable" /\ variable = {} -> "INCOMPATIBLE_COMPILE_TIME_VARIABLE_TYPE"
    [] operand.k = "variable" /\ FREE_ADDRESS \cap accepts = {} -> "INCOMPATIBLE_COMPILE_TIME_VARIABLE_TYPE"
    [] operand.k = "variable" /\ "UNCHECKED_ADDRESS" \notin accepts -> "OFFSET_OUT_OF_BOUNDS"
    [] OTHER -> "none"

Forward(operand) == operand.k = "label" /\ operand.name \notin defined

Read(operand) ==
  CASE operand.k = "word" -> operand.word
    [] operand.k = "variable" -> CHOOSE v \in variable : TRUE
    [] operand.k = "label" -> Plus(globals[operand.name].value, operand.offset)

\* Where an operand's value is stored: in a word of memory or an instruction.
InMemory(cell) == [place |-> "memory", index |-> cell]
InCode(n) == [place |-> "code", index |-> n]

Reference(operand, accepts, storage) == [operand |-> operand, accepts |-> accepts, storage |-> storage]

-----------------------------------------------------------------------------
(***************************************************************************)
(* Lines, as they are when their text has been read.                       *)
(***************************************************************************)
Uses == {"PEEK", "POKE", "PEEK indexed", "POKE indexed", "MOVp", "CALL"}

AnyOperand ==
  [k : {"word"}, word : Word]
    \cup [k : {"label"}, name : STRING, given : BOOLEAN, offset : Word]
    \cup [k : {"variable"}]

AnyLine ==
  [k : {"section"}, kind : {"GLOB", "TEMP", "CNST"}, label : Labels \cup {NoName}, size : Nat]
    \cup [k : {"data"}, label : Labels \cup {NoName}, words : Seq(AnyOperand)]
    \cup [k : {"DEFp"}, label : Labels \cup {NoName}, operand : AnyOperand]
    \cup [k : {"ADDp"}, operand : AnyOperand, add : Word]
    \cup [k : {"use"}, use : Uses, operand : AnyOperand]
    \cup [k : {"switch"}, cases : Nat]
    \cup [k : {"FUNC"}, label : Labels \cup {NoName}]
    \cup [k : {"unit"}]

ASSUME SectionsAssumption ==
  /\ maxMemorySize \in Nat \ {0}
  /\ MEMORY_OFFSET \in Nat
  /\ maxMemorySize <= MEMORY_OFFSET
  /\ NoName \notin Labels
  /\ Programs \subseteq Seq(SUBSET AnyLine)

ASSUME WordsAssumption ==
  /\ {POISON, OldWord, Distance, FUNCTION_OFFSET} \subseteq Word
  /\ maxFunctionCount \in Nat /\ maxFunctionCount <= LargestWord
  /\ MEMORY_OFFSET <= LargestOffset

-----------------------------------------------------------------------------
NoSection ==
  [open |-> FALSE, kind |-> "GLOB", pointer |-> 0, begin |-> 0, end |-> 0, owner |-> NoName]

Init ==
  /\ program \in Programs
  /\ lines = <<>>
  /\ memory = [cell \in 0 .. maxMemorySize - 1 |-> IF cell = maxMemorySize - 1 THEN 0 ELSE OldWord]
  /\ globalsPointer = 0
  /\ constantsPointer = maxMemorySize - 1
  /\ globals = Predefined
  /\ forwardRefs = <<>>
  /\ data = NoSection
  /\ code = [operands |-> <<>>, switches |-> {}, open |-> FALSE, functions |-> 0]
  /\ variable = {}
  /\ status = "feeding"

Feeding(line) ==
  /\ status = "feeding"
  /\ Len(lines) < Len(program)
  /\ line \in program[Len(lines) + 1]
  /\ lines' = Append(lines, line)
  /\ UNCHANGED program

\* The exception a line throws ends assembly: what the line has done by then no longer matters.
Refuses(error) ==
  /\ error # "none"
  /\ status' = error
  /\ UNCHANGED <<memory, globalsPointer, constantsPointer, globals, forwardRefs, data, code, variable>>

-----------------------------------------------------------------------------
(***************************************************************************)
(* GLOB, TEMP and CNST.                                                    *)
(***************************************************************************)

\* Words of a GLOB section that belong to no name: freezing could not save them.
unownedRefused == data.owner = NoName /\ data.kind = "GLOB"

\* Words the section has left are zero.
Closed(words) ==
  [cell \in DOMAIN words |-> IF data.open /\ cell \in data.pointer .. data.end - 1 THEN 0 ELSE words[cell]]

makeGAZLPointer(cell, kind) ==
  IF kind = "CNST" THEN MEMORY_OFFSET - (maxMemorySize - 1 - cell) ELSE MEMORY_OFFSET + cell

\* Mutant: a label's owner is not cut back by the next label.
OwnedUncut(symbols, label, cell) == symbols

\* The previous label owns up to here.
OwnedUpTo(symbols, label, cell) ==
  IF data.owner = NoName THEN symbols
  ELSE [symbols EXCEPT ![data.owner].ownedWords =
          symbols[data.owner].minOffset - symbols[label].minOffset]

DataSymbol(cell, words, kind, begin, end) ==
  [types |-> DeclareTypes(kind), value |-> makeGAZLPointer(cell, kind), declaredWords |-> words,
   ownedWords |-> end - cell, minOffset |-> begin - cell, maxOffset |-> end - cell - 1]

SectionError(line) ==
  CASE data.open /\ unownedRefused -> "UNNAMED_DATA_SECTION"
    [] ~(data.open /\ unownedRefused) /\ constantsPointer - globalsPointer < line.size -> "NOT_ENOUGH_MEMORY_SPACE"
    [] ~(data.open /\ unownedRefused) /\ constantsPointer - globalsPointer >= line.size /\ line.label \in defined ->
         "SYMBOL_ALREADY_DEFINED"
    [] OTHER -> "none"

SectionLine(line) ==
  /\ line.k = "section"
  /\ Feeding(line)
  /\ \/ Refuses(SectionError(line))
     \/ /\ SectionError(line) = "none"
        /\ LET begin == IF line.kind = "CNST" THEN constantsPointer - line.size ELSE globalsPointer
               end == begin + line.size
           IN  /\ globalsPointer' = IF line.kind = "CNST" THEN globalsPointer ELSE end
               /\ constantsPointer' = IF line.kind = "CNST" THEN begin ELSE constantsPointer
               /\ data' = [open |-> TRUE, kind |-> line.kind, pointer |-> begin, begin |-> begin,
                           end |-> end, owner |-> line.label]
               /\ globals' = With(globals, line.label, DataSymbol(begin, line.size, line.kind, begin, end))
        /\ memory' = Closed(memory)
        /\ UNCHANGED <<forwardRefs, code, variable, status>>

-----------------------------------------------------------------------------
(***************************************************************************)
(* DATi, DATf, DATp, DATA and DATs: words are stored one by one, and only  *)
(* then is the line's label declared.                                      *)
(***************************************************************************)
Room == data.end - data.pointer

DataLabelError(label) ==
  CASE label = NoName /\ unownedRefused -> "UNNAMED_DATA_SECTION"
    [] label \in defined -> "SYMBOL_ALREADY_DEFINED"
    [] OTHER -> "none"

\* The first word that fails, if one does: for want of room before anything else.
WordErrors(words) ==
  [i \in DOMAIN words |-> IF i > Room THEN "DATA_SECTION_FULL" ELSE ReadError(words[i], KONST)]

DataError(line) ==
  LET errors == WordErrors(line.words)
      failing == {i \in DOMAIN errors : errors[i] # "none"}
  IN  IF ~data.open THEN "DATA_SECTION_MISSING"
      ELSE IF failing # {} THEN errors[CHOOSE i \in failing : \A j \in failing : i <= j]
      ELSE DataLabelError(line.label)

\* The words that name a symbol that does not exist yet, in order.
LateWords(words) ==
  LET late == {i \in DOMAIN words : Forward(words[i])}
  IN  [k \in 1 .. Cardinality(late) |-> CHOOSE i \in late : Cardinality({j \in late : j < i}) = k - 1]

References(words) ==
  [k \in DOMAIN LateWords(words) |->
     Reference(words[LateWords(words)[k]], KONST, InMemory(data.pointer + LateWords(words)[k] - 1))]

DataLine(line) ==
  /\ line.k = "data"
  /\ Feeding(line)
  /\ \/ Refuses(DataError(line))
     \/ /\ DataError(line) = "none"
        /\ LET words == line.words
               last == data.pointer + Len(words)
           IN  /\ memory' = [cell \in DOMAIN memory |->
                               IF cell \in data.pointer .. last - 1 /\ ~Forward(words[cell - data.pointer + 1])
                               THEN Read(words[cell - data.pointer + 1]) ELSE memory[cell]]
               /\ forwardRefs' = forwardRefs \o References(words)
               /\ IF line.label = NoName
                  THEN /\ globals' = globals
                       /\ data' = [data EXCEPT !.pointer = last]
                  ELSE /\ globals' =
                            OwnedUpTo(With(globals, line.label,
                                           DataSymbol(data.pointer, Len(words), data.kind, data.begin, data.end)),
                                      line.label, data.pointer)
                       /\ data' = [data EXCEPT !.pointer = last, !.owner = line.label]
        /\ UNCHANGED <<globalsPointer, constantsPointer, code, variable, status>>

-----------------------------------------------------------------------------
(***************************************************************************)
(* ! DEFp: a name for an address, with the kind of what it names and       *)
(* whether an access through it is inside the section.  ! ADDp: <P>.       *)
(***************************************************************************)
\* Mutant: the name of a name is taken to be inside whatever its operand was.
IsOutsideOnce(operand) == operand.k = "variable"

IsOutside(operand) == operand.k = "variable" \/ ~InReach(globals[operand.name], operand.offset)

PointerConstant(operand) ==
  LET types == IF operand.k = "variable" THEN FREE_ADDRESS ELSE globals[operand.name].types \cap ANY_FREE
  IN  [Symbol(types \cup {"POINTER_CONSTANT"}, Read(operand), 1)
         EXCEPT !.maxOffset = IF IsOutside(operand) THEN -1 ELSE 0]

DefpError(line) ==
  IF ReadError(line.operand, ANY_FREE) # "none" THEN ReadError(line.operand, ANY_FREE)
  ELSE IF line.label \in defined THEN "SYMBOL_ALREADY_DEFINED" ELSE "none"

DefpLine(line) ==
  /\ line.k = "DEFp"
  /\ Feeding(line)
  /\ \/ Refuses(DefpError(line))
     \/ /\ DefpError(line) = "none"
        /\ globals' = With(globals, line.label, PointerConstant(line.operand))
        /\ UNCHANGED <<memory, globalsPointer, constantsPointer, forwardRefs, data, code, variable, status>>

AddpLine(line) ==
  /\ line.k = "ADDp"
  /\ Feeding(line)
  /\ \/ Refuses(ReadError(line.operand, FREE_ADDRESS))
     \/ /\ ReadError(line.operand, FREE_ADDRESS) = "none"
        /\ variable' = {Plus(Read(line.operand), line.add)}
        /\ UNCHANGED <<memory, globalsPointer, constantsPointer, globals, forwardRefs, data, code, status>>

-----------------------------------------------------------------------------
(***************************************************************************)
(* Code.  A SWCH takes its table from the constants, below any section     *)
(* still open; its words are known when the function ends.                 *)
(***************************************************************************)
Operand(use, address, cases) == [use |-> use, address |-> address, cases |-> cases]

UseError(line) ==
  IF ~code.open THEN "MISSING_FUNCTION_DECLARATION" ELSE ReadError(line.operand, Accepts(line.use))

UseLine(line) ==
  /\ line.k = "use"
  /\ Feeding(line)
  /\ \/ Refuses(UseError(line))
     \/ /\ UseError(line) = "none"
        /\ LET late == Forward(line.operand)
           IN  /\ code' = [code EXCEPT !.operands =
                             Append(@, Operand(line.use, IF late THEN 0 ELSE Read(line.operand), 0))]
               /\ forwardRefs' =
                    IF late THEN Append(forwardRefs, Reference(line.operand, Accepts(line.use),
                                                               InCode(Len(code.operands) + 1)))
                    ELSE forwardRefs
        /\ UNCHANGED <<memory, globalsPointer, constantsPointer, globals, data, variable, status>>

SwitchError(line) ==
  IF ~code.open THEN "MISSING_FUNCTION_DECLARATION"
  ELSE IF line.cases + 1 > constantsPointer - globalsPointer THEN "NOT_ENOUGH_MEMORY_SPACE" ELSE "none"

SwitchLine(line) ==
  /\ line.k = "switch"
  /\ Feeding(line)
  /\ \/ Refuses(SwitchError(line))
     \/ /\ SwitchError(line) = "none"
        /\ LET table == constantsPointer - line.cases - 1
           IN  /\ constantsPointer' = table
               /\ code' = [code EXCEPT !.operands = Append(@, Operand("SWCH", makeGAZLPointer(table, "CNST"), line.cases)),
                                       !.switches = @ \cup (table .. table + line.cases)]
        /\ UNCHANGED <<memory, globalsPointer, globals, forwardRefs, data, variable, status>>

\* finalizeFunction: the tables of its switches get their distances.
Resolved(words) == [cell \in DOMAIN words |-> IF cell \in code.switches THEN Distance ELSE words[cell]]
EndedCode == [code EXCEPT !.switches = {}, !.open = FALSE]

FuncError(line) ==
  IF code.functions >= maxFunctionCount THEN "NOT_ENOUGH_FUNCTION_SPACE"
  ELSE IF line.label \in defined THEN "SYMBOL_ALREADY_DEFINED" ELSE "none"

FuncLine(line) ==
  /\ line.k = "FUNC"
  /\ Feeding(line)
  /\ \/ Refuses(FuncError(line))
     \/ /\ FuncError(line) = "none"
        /\ globals' = With(globals, line.label, Symbol({"FUNC"}, Plus(FUNCTION_OFFSET, code.functions), 1))
        /\ memory' = Resolved(memory)
        /\ code' = [EndedCode EXCEPT !.open = TRUE, !.functions = @ + 1]
        /\ UNCHANGED <<globalsPointer, constantsPointer, forwardRefs, data, variable, status>>

\* The section stays open.
NewUnit(line) ==
  /\ line.k = "unit"
  /\ Feeding(line)
  /\ memory' = Resolved(memory)
  /\ code' = EndedCode
  /\ variable' = {}
  /\ UNCHANGED <<globalsPointer, constantsPointer, globals, forwardRefs, data, status>>

-----------------------------------------------------------------------------
(***************************************************************************)
(* finalize: ends the unit and the section, resolves what is left, moves   *)
(* the constants below the globals and poisons the data stack.             *)
(***************************************************************************)
ForwardError(ref) ==
  IF ref.operand.name \notin defined THEN "FORWARD_SYMBOL_NOT_FOUND"
  ELSE ResolveError(ref.operand, ref.accepts, globals[ref.operand.name])

FinalizeError ==
  LET failing == {i \in DOMAIN forwardRefs : ForwardError(forwardRefs[i]) # "none"}
  IN  IF data.open /\ unownedRefused THEN "UNNAMED_DATA_SECTION"
      ELSE IF failing # {} THEN ForwardError(forwardRefs[CHOOSE i \in failing : \A j \in failing : i <= j])
      ELSE "none"

\* What is stored at a place, or the value of the symbol that it waited for.
Patched(stored, storage) ==
  LET refs == {i \in DOMAIN forwardRefs : forwardRefs[i].storage = storage}
  IN  IF refs = {} THEN stored ELSE Read(forwardRefs[CHOOSE i \in refs : TRUE].operand)

PatchedMemory(words) == [cell \in DOMAIN words |-> Patched(words[cell], InMemory(cell))]
PatchedCode(operands) ==
  [n \in DOMAIN operands |-> [operands[n] EXCEPT !.address = Patched(@, InCode(n))]]

constantsSize == maxMemorySize - 1 - constantsPointer
globalsSize == globalsPointer

Moved(words) ==
  [cell \in DOMAIN words |->
     CASE cell < constantsSize -> words[constantsPointer + cell]
       [] cell \in constantsSize .. constantsSize + globalsSize - 1 -> words[cell - constantsSize]
       [] cell \in constantsSize + globalsSize .. maxMemorySize - 2 -> POISON
       [] cell = maxMemorySize - 1 -> words[cell]]

\* Mutant: the references are resolved where the words have gone from.
FinalizedTooEarly == PatchedMemory(Moved(Closed(Resolved(memory))))

Finalized == Moved(PatchedMemory(Closed(Resolved(memory))))

Finalize ==
  /\ status = "feeding"
  /\ Len(lines) = Len(program)
  /\ \/ Refuses(FinalizeError)
     \/ /\ FinalizeError = "none"
        /\ status' = "done"
        /\ memory' = Finalized
        /\ code' = [EndedCode EXCEPT !.operands = PatchedCode(@)]
        /\ forwardRefs' = <<>>
        /\ variable' = {}
        /\ UNCHANGED <<globalsPointer, constantsPointer, globals, data>>
  /\ UNCHANGED <<program, lines>>

Line(line) ==
  \/ SectionLine(line)
  \/ DataLine(line)
  \/ DefpLine(line)
  \/ AddpLine(line)
  \/ UseLine(line)
  \/ SwitchLine(line)
  \/ FuncLine(line)
  \/ NewUnit(line)

Next ==
  \/ /\ Len(lines) < Len(program)
     /\ \E line \in program[Len(lines) + 1] : Line(line)
  \/ Finalize

Spec == Init /\ [][Next]_vars

-----------------------------------------------------------------------------
(***************************************************************************)
(* What run() takes for granted of addresses in instructions, which it     *)
(* does not check: PEEK and POKE of a label, whatever its offset, in which *)
(* of its sections it is and how many names of names it went through, read *)
(* or write a word of the program's, the latter never a constant; a table  *)
(* of SWCH has all its words among the constants.                          *)
(***************************************************************************)
CellAt(address) == address - MEMORY_OFFSET + constantsSize

AddressesInside ==
  status = "done" =>
    \A n \in DOMAIN code.operands :
      LET operand == code.operands[n]
          cell == CellAt(operand.address)
      IN  CASE operand.use = "PEEK" -> cell \in 0 .. constantsSize + globalsSize - 1
            [] operand.use = "POKE" -> cell \in constantsSize .. constantsSize + globalsSize - 1
            [] operand.use = "SWCH" -> 0 <= cell /\ cell + operand.cases < constantsSize
            [] OTHER -> TRUE

(***************************************************************************)
(* declareData: from each line to the next, no word belongs to two labels, *)
(* what a label owns is in its section, and a GLOB section with a label    *)
(* has an owner for each of its words: freezing saves each of them once.   *)
(***************************************************************************)
isData(types) == types \cap ADDRESS # {} /\ "POINTER_CONSTANT" \notin types
InGlob(types) == isData(types) /\ "ADDRESS_W" \in types /\ "TEMPORARY" \notin types

DataNames == {n \in defined : isData(globals[n].types)}
Owned(symbol) == symbol.value .. symbol.value + symbol.ownedWords - 1
SectionOf(symbol) == symbol.value + symbol.minOffset .. symbol.value + symbol.maxOffset

OneOwner ==
  /\ \A m, n \in DataNames : m # n => Owned(globals[m]) \cap Owned(globals[n]) = {}
  /\ \A n \in DataNames :
       /\ Owned(globals[n]) \subseteq SectionOf(globals[n])
       /\ InGlob(globals[n].types) =>
            \A address \in SectionOf(globals[n]) : \E m \in DataNames : address \in Owned(globals[m])
=============================================================================
