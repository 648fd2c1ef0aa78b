--------------------------- MODULE GAZLBoundsProbes ---------------------------
(***************************************************************************)
(* The bounds sweep's probes: each form in which an instruction that       *)
(* accesses memory takes its operands, in a small program that loads them  *)
(* from the words a host stores in its globals.                            *)
(***************************************************************************)
EXTENDS GAZLInstructions, Sequences

CONSTANTS
  globalsSize,       \* the words of in, out and g
  MemoryValues       \* bound: the words probes write

\* Where the assembler puts the globals and the constants.
inAddress == MEMORY_OFFSET
outAddress == MEMORY_OFFSET + 3
gAddress == MEMORY_OFFSET + 5
cAddress == MEMORY_OFFSET - constantsSize
gLast == MEMORY_OFFSET + globalsSize - 1
cLast == cAddress + 1

\* The locals: a pointer, an index, a value, the result, a pointer and an array of four.
FrameSize == 9
pa == V(-9)
ix == V(-8)
vl == V(-7)
rs == V(-6)
ad == V(-5)
ar == V(-4)

program(body) ==
  << FUNC(FrameSize, 0),
     PEEK(pa, inAddress), PEEK(ix, inAddress + 1), PEEK(vl, inAddress + 2),
     MOVE(rs, C(0)), Ins("ADRL", ad, ar, Unused), POKE(outAddress + 1, ad) >>
  \o body \o << POKE(outAddress, rs), RETU >>

-----------------------------------------------------------------------------
(***************************************************************************)
(* A form: the instruction probed, those around it, and the inputs it      *)
(* takes, at least one word each.  An index, a pointer or an operand in a  *)
(* local is any word at all, wherever the edges of memory are.             *)
(***************************************************************************)
Zero == {0}
Form(instruction, pas, ixs, vls) ==
  [probe |-> instruction, before |-> <<>>, after |-> <<>>, pa |-> pas, ix |-> ixs, vl |-> vls]

Value0 == C(CHOOSE v \in MemoryValues : TRUE)

\* Pointers in a local, indexed by another, by an immediate or not at all.
Extremes == <<0, 1, MinusOne, AllOnes \div 2, AllOnes \div 2 + 1>>

PointerForms ==
  << Form(Ins("PEEK", rs, pa, ix), Word, Word, Zero),
     Form(Ins("PEEK", rs, pa, C(0)), Word, Zero, Zero),
     Form(Ins("POKE", pa, ix, vl), Word, Word, MemoryValues),
     Form(Ins("POKE", pa, ix, Value0), Word, Word, Zero),
     Form(Ins("POKE", pa, C(0), vl), Word, Zero, MemoryValues) >>
  \o [i \in DOMAIN Extremes |-> Form(Ins("PEEK", rs, pa, C(Extremes[i])), Word, Zero, Zero)]
  \o [i \in DOMAIN Extremes |-> Form(Ins("POKE", pa, C(Extremes[i]), vl), Word, Zero, MemoryValues)]
  \o [i \in DOMAIN Extremes |-> Form(Ins("POKE", pa, C(Extremes[i]), Value0), Word, Zero, Zero)]

\* Labels with an index; and alone, when run() checks nothing.
Globals == <<inAddress, inAddress + 2, gAddress, gLast>>
Labels == Globals \o <<cAddress, cLast>>

LabelForms ==
  [i \in DOMAIN Labels |-> Form(Ins("PEEK", rs, C(Labels[i]), ix), Zero, Word, Zero)]
  \o [i \in DOMAIN Globals |-> Form(Ins("POKE", C(Globals[i]), ix, vl), Zero, Word, MemoryValues)]
  \o [i \in DOMAIN Labels |-> Form(PEEK(rs, Labels[i]), Zero, Zero, Zero)]
  \o [i \in DOMAIN Globals |-> Form(POKE(Globals[i], vl), Zero, Zero, MemoryValues)]

\* The assembler takes any base that is not below the frame: the array, the frame's first word, and
\* words at the end of the stack and past it, the last of them the furthest that an offset names.
stackEnd == rwMemorySize - globalsSize - FrameSize
Bases == <<ar, V(-FrameSize), V(stackEnd - 1), V(stackEnd), V(stackEnd + 1), V(WordCount \div 2 - 1)>>

LocalForms ==
  [i \in DOMAIN Bases |-> Form(Ins("GETL", rs, Bases[i], ix), Zero, Word, Zero)]
  \o [i \in DOMAIN Bases |-> Form(Ins("SETL", Bases[i], ix, vl), Zero, Word, MemoryValues)]
  \o [i \in DOMAIN Bases |-> Form(Ins("SETL", Bases[i], ix, Value0), Zero, Word, Zero)]

\* The assembler refuses a count that is larger than writable memory.
Counts == <<0, 1, 4, rwMemorySize>>

CopyOf(destination, source, destinations) ==
  [i \in DOMAIN Counts |-> Form(Ins("COPY", destination, source, C(Counts[i])), destinations, Zero, Zero)]

CopyForms ==
  [i \in DOMAIN Counts |->
     [Form(Ins("COPY", pa, ad, C(Counts[i])), Word, Word, Zero) EXCEPT !.before = <<PEEK(ad, inAddress + 1)>>]]
  \o CopyOf(C(gAddress), C(cAddress), Zero) \o CopyOf(C(gAddress), pa, Word)
  \o CopyOf(pa, C(cAddress), Word) \o CopyOf(pa, C(gAddress), Word)

AccessOps == {"PEEK", "POKE", "GETL", "SETL", "COPY"}
AccessForms == PointerForms \o LabelForms \o LocalForms \o CopyForms
=============================================================================
