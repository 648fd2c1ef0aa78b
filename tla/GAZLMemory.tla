------------------------------ MODULE GAZLMemory ------------------------------
(***************************************************************************)
(* GAZL's words, and a Processor's memory of them: constants below the     *)
(* base, globals and data stacks above it, and the zero guard in the last  *)
(* word.  A pointer is a word, MEMORY_OFFSET that of the base, and every   *)
(* access at an address the program computed is checked with word          *)
(* arithmetic, which wraps.                                                *)
(***************************************************************************)
EXTENDS Integers, FiniteSetsExt

-----------------------------------------------------------------------------
(***************************************************************************)
(* Words: the integer arithmetic that run() and the assembler's constant   *)
(* folding share.  A word is the unsigned value of its bits; arithmetic    *)
(* wraps, and never depends on what C++ leaves undefined.                  *)
(***************************************************************************)
CONSTANTS
  WordSize,   \* bits in a word
  WordCount   \* words there are

ASSUME WordAssumption ==
  /\ WordSize \in Nat \ {0}
  /\ WordCount = 2 ^ WordSize
  /\ WordCount \in Nat \ {0, 1}

Word == 0 .. WordCount - 1

\* The word an integer is converted to, and the integer a word stands for.
ToWord(i) == i % WordCount
Signed(w) == IF w < WordCount - w THEN w ELSE w - WordCount

\* Unsigned sums and differences wrap around.
Plus(a, b) == IF a + b < WordCount THEN a + b ELSE a + b - WordCount
Minus(a, b) == IF a < b THEN a - b + WordCount ELSE a - b

AllOnes == WordCount - 1
MinusOne == AllOnes

Ones(w) == {i \in 0 .. WordSize - 1 : (w \div 2 ^ i) % 2 = 1}
FromOnes(bits) == MapThenSumSet(LAMBDA i : 2 ^ i, bits)

iand(a, b) == FromOnes(Ones(a) \cap Ones(b))
ior(a, b) == FromOnes(Ones(a) \cup Ones(b))
ixor(a, b) == FromOnes((Ones(a) \cup Ones(b)) \ (Ones(a) \cap Ones(b)))

\* Sums of powers of two below a word's size are words: true of every size, and for provers an assumption.
ASSUME BitsAssumption ==
  /\ \A n \in 0 .. WordSize - 1 : 2 ^ n \in Nat \ {0}
  /\ \A bits \in SUBSET (0 .. WordSize - 1) : FromOnes(bits) \in Word

\* Mutant: a count beyond the word's bits shifts them all out, as some processors do.
CountSaturates(n) == IF n < WordSize THEN n ELSE WordSize

\* A shift counts modulo the word size; ashr extends the sign.
Count(n) == n % WordSize
ishl(a, n) == ToWord(a * 2 ^ Count(n))
ashr(a, n) == ToWord(Signed(a) \div 2 ^ Count(n))
lshr(a, n) == a \div 2 ^ Count(n)

absolute(a) == LET x == ashr(a, WordSize - 1) IN Minus(ixor(a, x), x)

iadd(a, b) == Plus(a, b)
isub(a, b) == Minus(a, b)
imul(a, b) == ToWord(Signed(a) * Signed(b))

\* C++ divides toward zero, and overflows for the most negative number by -1.
Magnitude(i) == IF i < 0 THEN -i ELSE i
Quotient(a, b) ==
  LET q == Magnitude(a) \div Magnitude(b) IN IF (a < 0) = (b < 0) THEN q ELSE -q

idiv(a, b) == IF b = MinusOne THEN Minus(0, a) ELSE ToWord(Quotient(Signed(a), Signed(b)))
imod(a, b) ==
  IF b = MinusOne THEN 0
  ELSE ToWord(Signed(a) - Signed(b) * Quotient(Signed(a), Signed(b)))

minimum(a, b) == IF a < b THEN a ELSE b

-----------------------------------------------------------------------------
(***************************************************************************)
(* Memory.                                                                 *)
(***************************************************************************)
CONSTANTS
  MEMORY_OFFSET,   \* the pointer to the base
  constantsSize,   \* words below the base
  rwMemorySize,    \* words from the base up: globals and data stacks
  memorySize       \* the index of the guard: one less than the words given

\* The constructors' asserts; nothing checks that no pointer to memory wraps around.
ASSUME MemoryAssumption ==
  /\ constantsSize \in Nat
  /\ rwMemorySize \in Nat
  /\ memorySize \in Nat
  /\ constantsSize + rwMemorySize <= memorySize
  /\ MEMORY_OFFSET \in Word
  /\ constantsSize <= MEMORY_OFFSET
  /\ MEMORY_OFFSET - constantsSize + memorySize < WordCount

Cell == 0 .. memorySize      \* indices from memoryBase, the guard's included

ReadOnly == 0 .. constantsSize - 1
Writable == constantsSize .. constantsSize + rwMemorySize - 1

readOffset == Minus(constantsSize, MEMORY_OFFSET)

\* &mb[pointer], the word at a pointer: a C++ address, not a word, so it does not wrap.
CellAt(pointer) == pointer - MEMORY_OFFSET + constantsSize
PointerTo(cell) == cell + MEMORY_OFFSET - constantsSize

\* The run-time checks of PEEK and POKE.
\* MayPeekGuard is a mutant: the zero guard is readable too.
MayPeekGuard(pointer) == Plus(pointer, readOffset) <= memorySize
MayPeek(pointer) == Plus(pointer, readOffset) < memorySize
MayPoke(pointer) == Minus(pointer, MEMORY_OFFSET) < rwMemorySize

\* GETL and SETL: index, from word base of the frame at dsp, in a stack of so many words.
\* Mutant: a base above the stack leaves room for nearly any index.
MayIndexUnsigned(dsp, base, index, stackSize) == index < ToWord(stackSize - dsp - base)

MayIndex(dsp, base, index, stackSize) ==
  LET room == stackSize - dsp - base
  IN  Signed(ToWord(room)) > 0 /\ index < ToWord(room)

\* accessConstMemory and accessMemory: the cell a native is given for count words, if it is.
Refused == -1

\* Mutant: a count that is larger than memory wraps around.
accessConstMemoryAnyCount(pointer, count) ==
  LET index == Plus(pointer, readOffset)
  IN  IF index <= Minus(memorySize, count) THEN index ELSE Refused

accessConstMemory(pointer, count) ==
  LET index == Plus(pointer, readOffset)
  IN  IF count <= memorySize /\ index <= memorySize - count THEN index ELSE Refused

accessMemory(pointer, count) ==
  LET index == Minus(pointer, MEMORY_OFFSET)
  IN  IF count <= rwMemorySize /\ index <= rwMemorySize - count THEN constantsSize + index ELSE Refused

\* COPY, whose words move upward, one at a time.
MayCopy(destination, source, count) ==
  /\ count <= rwMemorySize
  /\ Minus(destination, MEMORY_OFFSET) <= rwMemorySize - count
  /\ count <= memorySize
  /\ Plus(source, readOffset) <= memorySize - count

\* A word that is copied may be one copied before: then the words in between repeat.
CopiedFrom(destination, source, n) ==
  source + (IF source < destination THEN n % (destination - source) ELSE n)

Copied(memory, destination, source, count) ==
  [cell \in DOMAIN memory |->
     IF cell \in destination .. destination + count - 1
     THEN memory[CopiedFrom(destination, source, cell - destination)]
     ELSE memory[cell]]
=============================================================================
