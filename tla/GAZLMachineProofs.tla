-------------------------- MODULE GAZLMachineProofs --------------------------
(***************************************************************************)
(* Proofs about GAZLMachine, for every assembled program, every size of    *)
(* words, memory and stacks: its control is GAZLProcessor's, and what it   *)
(* writes is writable.                                                     *)
(***************************************************************************)
EXTENDS GAZLMachine, GAZLProcessorProofs

-----------------------------------------------------------------------------
(***************************************************************************)
(* Words.                                                                  *)
(***************************************************************************)

\* A remainder is smaller than what it is a remainder of, and is the number itself if that is.
LEMMA Remainder ==
  ASSUME NEW i \in Int, NEW n \in Nat \ {0}
  PROVE  i % n \in 0 .. n - 1 /\ (i \in 0 .. n - 1 => i % n = i)
OBVIOUS

\* Nor is it larger than that number.
LEMMA RemainderAtMost ==
  ASSUME NEW i \in Nat, NEW n \in Nat \ {0}
  PROVE  i % n \in 0 .. i
<1>1. CASE i \in 0 .. n - 1 BY <1>1, Remainder
<1>2. CASE i \notin 0 .. n - 1
  <2>1. i % n \in 0 .. n - 1 BY Remainder
  <2> QED BY <1>2, <2>1
<1> QED BY <1>1, <1>2

\* A quotient is a number, between zero and the dividend when both are positive.
LEMMA Division ==
  ASSUME NEW i \in Int, NEW n \in Nat \ {0}
  PROVE  i \div n \in Int /\ (i \in Nat => i \div n \in 0 .. i)
OBVIOUS

\* A product is a number.
LEMMA Product ==
  ASSUME NEW i \in Int, NEW j \in Int
  PROVE  i * j \in Int
OBVIOUS

\* Conversions give words and integers.
LEMMA Conversions ==
  /\ \A i \in Int : ToWord(i) \in Word /\ (i \in Word => ToWord(i) = i)
  /\ \A w \in Word : Signed(w) \in Int
<1>1. WordCount \in Nat \ {0} BY WordAssumption
<1>2. ASSUME NEW i \in Int PROVE ToWord(i) \in Word /\ (i \in Word => ToWord(i) = i)
  BY <1>1, Remainder DEF ToWord, Word
<1>3. ASSUME NEW w \in Word PROVE Signed(w) \in Int
  BY <1>1 DEF Signed, Word
<1> QED BY <1>2, <1>3

\* Sums and differences that wrap around are words.
LEMMA SumsInWord ==
  ASSUME NEW x \in Word, NEW y \in Word
  PROVE  Plus(x, y) \in Word /\ Minus(x, y) \in Word
BY WordAssumption DEF Plus, Minus, Word

\* Words of bits are words.
LEMMA BitsInWord ==
  ASSUME NEW x \in Word, NEW y \in Word
  PROVE  iand(x, y) \in Word /\ ior(x, y) \in Word /\ ixor(x, y) \in Word
<1>1. Ones(x) \subseteq 0 .. WordSize - 1 /\ Ones(y) \subseteq 0 .. WordSize - 1
  BY DEF Ones
<1> QED BY <1>1, BitsAssumption DEF iand, ior, ixor

\* A shift's count is one that a word has bits for.
LEMMA ShiftCount ==
  ASSUME NEW n \in Word
  PROVE  Count(n) \in 0 .. WordSize - 1 /\ 2 ^ Count(n) \in Nat \ {0}
<1>1. Count(n) \in 0 .. WordSize - 1 BY WordAssumption, Remainder DEF Count, Word
<1> QED BY <1>1, BitsAssumption

\* Shifted words are words.
LEMMA ShiftsInWord ==
  ASSUME NEW x \in Word, NEW n \in Word
  PROVE  ishl(x, n) \in Word /\ ashr(x, n) \in Word /\ lshr(x, n) \in Word
<1> DEFINE p == 2 ^ Count(n)
<1>1. p \in Nat \ {0} BY ShiftCount
<1> HIDE DEF p
<1>2. x \in Int /\ Signed(x) \in Int BY Conversions, WordAssumption DEF Word
<1>3. ishl(x, n) \in Word
  <2>1. x * p \in Int BY <1>1, <1>2, Product
  <2> QED BY <2>1, Conversions DEF ishl, p
<1>4. ashr(x, n) \in Word
  <2>1. Signed(x) \div p \in Int BY <1>1, <1>2, Division
  <2> QED BY <2>1, Conversions DEF ashr, p
<1>5. lshr(x, n) \in Word
  <2>1. x \in Nat /\ x < WordCount BY WordAssumption DEF Word
  <2>2. x \div p \in 0 .. x BY <1>1, <2>1, Division
  <2>3. x \div p \in Word BY <2>1, <2>2, WordAssumption DEF Word
  <2> QED BY <2>3 DEF lshr, p
<1> QED BY <1>3, <1>4, <1>5

\* So are products, and what a division leaves, when the divisor is not zero.
LEMMA QuotientsInWord ==
  ASSUME NEW x \in Word, NEW y \in Word
  PROVE  imul(x, y) \in Word /\ (y # 0 => idiv(x, y) \in Word /\ imod(x, y) \in Word)
<1> DEFINE i == Signed(x)
           j == Signed(y)
           q == Quotient(i, j)
<1>1. i \in Int /\ j \in Int BY Conversions
<1>2. imul(x, y) \in Word BY <1>1, Product, Conversions DEF imul
<1>3. ASSUME y # 0 PROVE idiv(x, y) \in Word /\ imod(x, y) \in Word
  <2>1. j # 0 BY <1>3, WordAssumption DEF Signed, Word
  <2> HIDE DEF i, j
  <2>2. Magnitude(i) \in Nat /\ Magnitude(j) \in Nat \ {0} BY <1>1, <2>1 DEF Magnitude
  <2>3. Magnitude(i) \div Magnitude(j) \in Int BY <2>2, Division
  <2>4. q \in Int BY <2>3 DEF Quotient
  <2> HIDE DEF q
  <2>5. j * q \in Int BY <1>1, <2>4, Product
  <2>6. ToWord(q) \in Word /\ ToWord(i - j * q) \in Word
    <3>1. i - j * q \in Int BY <1>1, <2>5
    <3> QED BY <2>4, <3>1, Conversions
  <2>7. 0 \in Word BY WordAssumption DEF Word
  <2>8. Minus(0, x) \in Word BY <2>7, SumsInWord
  <2>9. idiv(x, y) \in Word BY <2>6, <2>8 DEF idiv, q, i, j
  <2> QED BY <2>6, <2>7, <2>9 DEF imod, q, i, j
<1> QED BY <1>2, <1>3

\* The greatest value of a shift's count, by which absolute spreads the sign.
LEMMA AbsoluteInWord ==
  ASSUME NEW x \in Word
  PROVE  absolute(x) \in Word
<1>1. WordSize - 1 \in Int /\ WordSize \in Nat \ {0} BY WordAssumption
<1>2. Count(WordSize - 1) \in 0 .. WordSize - 1 BY <1>1, Remainder DEF Count
<1>3. 2 ^ Count(WordSize - 1) \in Nat \ {0} BY <1>2, BitsAssumption
<1>4. Signed(x) \div 2 ^ Count(WordSize - 1) \in Int BY <1>3, Conversions, Division
<1>5. ashr(x, WordSize - 1) \in Word BY <1>4, Conversions DEF ashr
<1>6. ixor(x, ashr(x, WordSize - 1)) \in Word BY <1>5, BitsInWord
<1> QED BY <1>5, <1>6, SumsInWord DEF absolute

\* Every integer instruction computes a word, unless it divides by zero.
LEMMA IntegersInWord ==
  ASSUME NEW op \in IntegerOps, NEW x \in Word, NEW y \in Word, op \in {"DIVI", "MODI"} => y # 0
  PROVE  Integer(op, x, y) \in Word
<1>1. CASE op \in {"MOVE", "ABSI"} BY <1>1, AbsoluteInWord DEF Integer
<1>2. CASE op \in {"ADDI", "SUBI"} BY <1>2, SumsInWord DEF Integer, iadd, isub
<1>3. CASE op \in {"MULI", "DIVI", "MODI"} BY <1>3, QuotientsInWord DEF Integer
<1>4. CASE op \in {"ANDI", "IORI", "XORI"} BY <1>4, BitsInWord DEF Integer
<1>5. CASE op \in {"SHLI", "SHRI", "SHRU"} BY <1>5, ShiftsInWord DEF Integer
<1> QED BY <1>1, <1>2, <1>3, <1>4, <1>5 DEF IntegerOps

-----------------------------------------------------------------------------
(***************************************************************************)
(* Access checks.  What a check lets through is what the arithmetic of     *)
(* integers says is there, for every word.                                 *)
(***************************************************************************)

\* The sizes and offsets of memory, as numbers.
LEMMA MemoryTypes ==
  /\ WordCount \in Nat \ {0}
  /\ constantsSize \in Nat /\ rwMemorySize \in Nat /\ memorySize \in Nat
  /\ MEMORY_OFFSET \in Word /\ MEMORY_OFFSET \in Nat /\ constantsSize \in Word
  /\ constantsSize + rwMemorySize <= memorySize
  /\ constantsSize <= MEMORY_OFFSET /\ MEMORY_OFFSET - constantsSize + memorySize < WordCount
  /\ readOffset = WordCount + constantsSize - MEMORY_OFFSET \/ readOffset = 0
  /\ readOffset = 0 => constantsSize = MEMORY_OFFSET
BY WordAssumption, MemoryAssumption DEF Word, readOffset, Minus

\* A pointer that PEEK may read is one of the words before the zero guard, and only such a pointer.
THEOREM PeekInside ==
  ASSUME NEW pointer \in Word
  PROVE  MayPeek(pointer) <=> CellAt(pointer) \in 0 .. memorySize - 1
BY MemoryTypes DEF MayPeek, Plus, CellAt, Word

\* A pointer that POKE may write is a writable word, and only such a pointer.
THEOREM PokeInside ==
  ASSUME NEW pointer \in Word
  PROVE  MayPoke(pointer) <=> CellAt(pointer) \in Writable
BY MemoryTypes DEF MayPoke, Minus, CellAt, Word, Writable

\* COPY goes ahead exactly when every word it reads is before the zero guard and every word it
\* writes is writable; one that copies nothing may point just past either.
THEOREM CopyInside ==
  ASSUME NEW destination \in Word, NEW source \in Word, NEW count \in Word
  PROVE  MayCopy(destination, source, count) <=>
           /\ constantsSize <= CellAt(destination)
           /\ CellAt(destination) + count <= constantsSize + rwMemorySize
           /\ 0 <= CellAt(source) /\ CellAt(source) + count <= memorySize
BY MemoryTypes DEF MayCopy, Minus, Plus, CellAt, Word

\* accessMemory gives a native the words it asks for exactly when all of them are writable.
THEOREM AccessInside ==
  ASSUME NEW pointer \in Word, NEW count \in Word
  PROVE  accessMemory(pointer, count) =
           IF constantsSize <= CellAt(pointer) /\ CellAt(pointer) + count <= constantsSize + rwMemorySize
           THEN CellAt(pointer) ELSE Refused
BY MemoryTypes DEF accessMemory, Minus, CellAt, Word

\* accessConstMemory does so when all of them are before the zero guard.
THEOREM ConstAccessInside ==
  ASSUME NEW pointer \in Word, NEW count \in Word
  PROVE  accessConstMemory(pointer, count) =
           IF 0 <= CellAt(pointer) /\ CellAt(pointer) + count <= memorySize
           THEN CellAt(pointer) ELSE Refused
BY MemoryTypes DEF accessConstMemory, Plus, CellAt, Word

-----------------------------------------------------------------------------
(***************************************************************************)
(* What one step does to memory.                                           *)
(***************************************************************************)
ReadOnlySame == \A cell \in Cell \ Writable : memory'[cell] = memory[cell]

MInv == IInv /\ MemoryTypeOK

\* Executing: the instruction at ip is one the assembler let through, in a frame inside the stack.
AtInstruction ==
  /\ MInv
  /\ control = "run"
  /\ OpOf(now) = "DATA" \/ now.op \in Branches \cup {"SWCH", "CALL"}
  /\ Code[ip] = Abstracted(now)

\* A writable word is one of memory's.
LEMMA WritableCells ==
  /\ Writable \subseteq Cell
  /\ \A cell \in Writable : cell \in Int
BY MemoryTypes DEF Writable, Cell

\* A step that stores a word in a writable cell leaves every other as it was.
LEMMA StoreKeeps ==
  ASSUME MemoryTypeOK, NEW cell \in Writable, NEW word \in Word, Store(cell, word)
  PROVE  MemoryTypeOK' /\ ReadOnlySame
BY WritableCells DEF MemoryTypeOK, Store, ReadOnlySame

\* An instruction in a frame that FUNC checked: dsp is far enough from both ends of the stack.
LEMMA AtFrame ==
  ASSUME AtInstruction
  PROVE  /\ ip \in Address /\ dsp \in Int
         /\ Code[FunctionAt(ip)].p0 \in Nat /\ Code[FunctionAt(ip)].p1 \in Nat
         /\ Code[FunctionAt(ip)].p0 <= dsp
         /\ dsp + Code[FunctionAt(ip)].p1 <= DataStackSize
<1>1. ip \in Address /\ dsp \in Int /\ FrameInside(ip, dsp)
  BY DEF AtInstruction, MInv, IInv, TypeOK, Executing
<1>2. OpOf(now) # "FUNC"
  <2>1. ASSUME now.op \in Branches \cup {"SWCH", "CALL"} PROVE OpOf(now) # "FUNC"
    BY <2>1 DEF OpOf, Branches
  <2> QED BY <2>1 DEF AtInstruction
<1>3. ~IsFunction(ip) BY <1>2 DEF AtInstruction, Abstracted, IsFunction
<1> QED BY <1>1, <1>3, CodeTypes DEF FrameInside

\* What the assembler promises of the instruction at ip.
LEMMA AtOperands ==
  ASSUME AtInstruction
  PROVE  /\ now.a \in Operand /\ now.b \in Operand /\ now.c \in Operand
         /\ now.op # "SETL" => InFrame(ip, now.a)
         /\ now.op \notin {"GETL", "ADRL"} => InFrame(ip, now.b)
         /\ InFrame(ip, now.c)
         /\ now.op = "SETL" => NotBelowFrame(ip, now.a)
         /\ now.op \in {"GETL", "ADRL"} => NotBelowFrame(ip, now.b)
         /\ now.op \in Storing => now.a.kind = "V"
         /\ now.op = "PEEK" /\ now.c = Unused =>
              now.b.kind = "C" /\ CellAt(ToWord(now.b.n)) \in Cell
         /\ now.op = "POKE" /\ now.c = Unused =>
              now.a.kind = "C" /\ CellAt(ToWord(now.a.n)) \in Writable
<1>1. ip \in Address BY AtFrame
<1>2. ProgramAssembled BY MachineAssumption
<1>3. now.a \in Operand /\ now.b \in Operand /\ now.c \in Operand
  BY <1>1, <1>2 DEF ProgramAssembled, now
<1>4. /\ \A operand \in LocalsOf(now) : InFrame(ip, operand)
      /\ \A operand \in BaseOf(now) : NotBelowFrame(ip, operand)
  BY <1>1, <1>2 DEF ProgramAssembled, now, AtInstruction
<1>5. /\ now.op # "SETL" => now.a \in LocalsOf(now)
      /\ now.op \notin {"GETL", "ADRL"} => now.b \in LocalsOf(now)
      /\ now.c \in LocalsOf(now)
  BY SMT DEF LocalsOf
<1>6. /\ now.op = "SETL" => now.a \in BaseOf(now)
      /\ now.op \in {"GETL", "ADRL"} => now.b \in BaseOf(now)
  BY SMT DEF BaseOf
<1>7. /\ now.op \in Storing => now.a.kind = "V"
      /\ now.op = "PEEK" /\ now.c = Unused =>
           now.b.kind = "C" /\ CellAt(ToWord(now.b.n)) \in Cell
      /\ now.op = "POKE" /\ now.c = Unused =>
           now.a.kind = "C" /\ CellAt(ToWord(now.a.n)) \in Writable
  BY <1>1, <1>2 DEF ProgramAssembled, now
<1> QED BY <1>3, <1>4, <1>5, <1>6, <1>7

\* A word of the frame is one of this processor's stack.
LEMMA FrameCell ==
  ASSUME AtInstruction, NEW operand \in Operand, operand.kind = "V", InFrame(ip, operand)
  PROVE  /\ operand.n \in Int
         /\ dsp + operand.n \in 0 .. DataStackSize - 1
         /\ CellOf(operand) \in Writable
<1>1. operand.n \in Int BY DEF Operand
<1>2. dsp + operand.n \in 0 .. DataStackSize - 1
  BY <1>1, AtFrame, HostAssumption DEF InFrame
<1>3. CellOf(operand) = constantsSize + dataStackOffset + (dsp + operand.n)
  BY <1>1, AtFrame, MemoryTypes, MachineAssumption DEF CellOf, stackBase
<1>4. dataStackOffset \in Nat /\ dataStackOffset + DataStackSize <= rwMemorySize /\ DataStackSize \in Nat
  BY MachineAssumption, HostAssumption
<1> HIDE DEF CellOf
<1> QED BY <1>1, <1>2, <1>3, <1>4, MemoryTypes DEF Writable

\* Every operand of an instruction is a word.
LEMMA OperandWord ==
  ASSUME AtInstruction, NEW operand \in Operand, InFrame(ip, operand)
  PROVE  Value(operand) \in Word
<1>1. CASE operand.kind = "V"
  <2>1. CellOf(operand) \in Cell BY <1>1, FrameCell, WritableCells
  <2> QED BY <1>1, <2>1 DEF Value, AtInstruction, MInv, MemoryTypeOK
<1>2. CASE operand.kind # "V"
  <2>1. operand.n \in Int BY DEF Operand
  <2> QED BY <1>2, <2>1, Conversions DEF Value
<1> QED BY <1>1, <1>2

\* The operands of the instruction at ip, other than the base of an index or of an address.
LEMMA OperandWords ==
  ASSUME AtInstruction
  PROVE  /\ now.op # "SETL" => V0 \in Word
         /\ now.op \notin {"GETL", "ADRL"} => V1 \in Word
         /\ V2 \in Word
BY AtOperands, OperandWord DEF V0, V1, V2

\* The word that an instruction with a result stores it in is writable.
LEMMA ResultCell ==
  ASSUME AtInstruction, now.op \in Storing, now.op # "SETL"
  PROVE  CellOf(now.a) \in Writable
BY AtOperands, FrameCell

\* What the data instructions have in common: a step of one is at an instruction of its kind.
LEMMA AtData ==
  ASSUME MInv, Data
  PROVE  AtInstruction
<1>1. control = "run" /\ Code[ip].op = "DATA" BY DEF Data, Execute
<1>2. ip \in Address BY DEF MInv, IInv, TypeOK
<1>3. Code[ip] = Abstracted(now) BY <1>2, MachineAssumption DEF ProgramAssembled, now
<1>4. OpOf(now) = "DATA" BY <1>1, <1>3 DEF Abstracted
<1> QED BY <1>1, <1>3, <1>4 DEF AtInstruction

\* Leaving memory alone keeps it.
LEMMA UnchangedKeeps ==
  ASSUME MemoryTypeOK, UNCHANGED memory
  PROVE  MemoryTypeOK' /\ ReadOnlySame
BY DEF MemoryTypeOK, ReadOnlySame

\* Integer and float instructions store their result in the frame.
LEMMA ComputeKeeps ==
  ASSUME MInv, Compute
  PROVE  MemoryTypeOK' /\ ReadOnlySame
<1>1. MemoryTypeOK BY DEF MInv
<1>2. CASE FailsAlone BY <1>1, <1>2, UnchangedKeeps DEF FailsAlone
<1>3. CASE now.op \in IntegerOps /\ ~DividesByZero /\ Succeeds /\ Store(CellOf(now.a), Integer(now.op, V1, V2))
  <2>1. AtInstruction BY <1>3, AtData DEF Succeeds
  <2>2. now.op \notin {"SETL", "GETL", "ADRL"} BY <1>3 DEF IntegerOps
  <2>3. CellOf(now.a) \in Writable BY <1>3, <2>1, <2>2, ResultCell DEF Storing
  <2>4. now.op \in {"DIVI", "MODI"} => V2 # 0 BY <1>3 DEF DividesByZero
  <2>5. V1 \in Word /\ V2 \in Word BY <2>1, <2>2, OperandWords
  <2>6. Integer(now.op, V1, V2) \in Word BY <1>3, <2>4, <2>5, IntegersInWord
  <2> QED BY <1>1, <1>3, <2>3, <2>6, StoreKeeps
<1>4. ASSUME NEW w \in FloatWords, now.op \in FloatOps, Succeeds, Store(CellOf(now.a), w)
      PROVE  MemoryTypeOK' /\ ReadOnlySame
  <2>1. AtInstruction BY <1>4, AtData DEF Succeeds
  <2>2. CellOf(now.a) \in Writable BY <1>4, <2>1, ResultCell DEF Storing, FloatOps
  <2>3. w \in Word BY MachineAssumption
  <2> QED BY <1>1, <1>4, <2>2, <2>3, StoreKeeps
<1> QED BY <1>2, <1>3, <1>4 DEF Compute

\* PEEK stores what it reads, at an address that it checks or that the assembler checked.
LEMMA PeekKeeps ==
  ASSUME MInv, Peek
  PROVE  MemoryTypeOK' /\ ReadOnlySame
<1> DEFINE pointer == IF now.c = Unused THEN V1 ELSE Plus(V1, V2)
<1>1. MemoryTypeOK BY DEF MInv
<1>2. CASE FailsAlone BY <1>1, <1>2, UnchangedKeeps DEF FailsAlone
<1>3. CASE /\ now.c = Unused \/ MayPeek(pointer)
           /\ Succeeds /\ Store(CellOf(now.a), memory[CellAt(pointer)])
  <2>1. AtInstruction BY <1>3, AtData DEF Succeeds
  <2>2. now.op = "PEEK" BY DEF Peek
  <2>3. CellOf(now.a) \in Writable BY <2>1, <2>2, ResultCell DEF Storing
  <2>4. CellAt(pointer) \in Cell
    <3>1. CASE now.c = Unused
      <4>1. V1 = ToWord(now.b.n) BY <2>1, <2>2, <3>1, AtOperands DEF V1, Value
      <4> QED BY <2>1, <2>2, <3>1, <4>1, AtOperands
    <3>2. CASE now.c # Unused
      <4>1. pointer \in Word BY <2>1, <2>2, <3>2, OperandWords, SumsInWord
      <4> HIDE DEF pointer
      <4>2. CellAt(pointer) \in 0 .. memorySize - 1 BY <1>3, <3>2, <4>1, PeekInside
      <4> QED BY <4>2, MemoryTypes DEF Cell
    <3> QED BY <3>1, <3>2
  <2>5. memory[CellAt(pointer)] \in Word BY <1>1, <2>4 DEF MemoryTypeOK
  <2> QED BY <1>1, <1>3, <2>3, <2>5, StoreKeeps
<1> QED BY <1>2, <1>3 DEF Peek

\* POKE writes at an address that it checks or that the assembler checked.
LEMMA PokeKeeps ==
  ASSUME MInv, Poke
  PROVE  MemoryTypeOK' /\ ReadOnlySame
<1> DEFINE pointer == IF now.c = Unused THEN V0 ELSE Plus(V0, V1)
           word == IF now.c = Unused THEN V1 ELSE V2
<1>1. MemoryTypeOK BY DEF MInv
<1>2. CASE FailsAlone BY <1>1, <1>2, UnchangedKeeps DEF FailsAlone
<1>3. CASE /\ now.c = Unused \/ MayPoke(pointer)
           /\ Succeeds /\ Store(CellAt(pointer), word)
  <2>1. AtInstruction BY <1>3, AtData DEF Succeeds
  <2>2. now.op = "POKE" BY DEF Poke
  <2>3. CellAt(pointer) \in Writable
    <3>1. CASE now.c = Unused
      <4>1. V0 = ToWord(now.a.n) BY <2>1, <2>2, <3>1, AtOperands DEF V0, Value
      <4> QED BY <2>1, <2>2, <3>1, <4>1, AtOperands
    <3>2. CASE now.c # Unused
      <4>1. pointer \in Word BY <2>1, <2>2, <3>2, OperandWords, SumsInWord
      <4> HIDE DEF pointer
      <4> QED BY <1>3, <3>2, <4>1, PokeInside
    <3> QED BY <3>1, <3>2
  <2>4. word \in Word BY <2>1, <2>2, OperandWords
  <2> QED BY <1>1, <1>3, <2>3, <2>4, StoreKeeps
<1> QED BY <1>2, <1>3 DEF Poke

\* What the bounds of a base and of a frame leave to the check of an index, as numbers: it may be
\* less than zero by less than half the words, and is no more than the stack.
LEMMA RoomBounds ==
  ASSUME AtInstruction, NEW operand \in Operand, NotBelowFrame(ip, operand)
  PROVE  /\ operand.n \in Int /\ dsp + operand.n \in Nat
         /\ DataStackSize - dsp - operand.n \in Int
         /\ DataStackSize - dsp - operand.n <= DataStackSize
         /\ 0 - WordCount < 2 * (DataStackSize - dsp - operand.n)
<1> DEFINE n == operand.n
           p == Code[FunctionAt(ip)].p0
<1>1. n \in Int BY DEF Operand
<1>2. -p <= n /\ 2 * n < WordCount BY DEF NotBelowFrame
<1>3. p \in Nat /\ dsp \in Int /\ p <= dsp /\ dsp <= DataStackSize BY AtFrame, HostAssumption
<1>4. DataStackSize \in Nat /\ WordCount \in Nat BY HostAssumption, MemoryTypes
<1> HIDE DEF n, p
<1>5. dsp + n \in Nat BY <1>1, <1>2, <1>3
<1>6. DataStackSize - dsp - n \in Int /\ DataStackSize - dsp - n <= DataStackSize
  BY <1>1, <1>3, <1>4, <1>5
<1>7. 0 - WordCount < 2 * (DataStackSize - dsp - n)
  BY <1>1, <1>2, <1>3, <1>4
<1> QED BY <1>1, <1>5, <1>6, <1>7 DEF n

\* A room that is not positive is refused: as a signed number its word is what it was.
LEMMA RoomPositive ==
  ASSUME NEW room \in Int, room < WordCount, 0 - WordCount < 2 * room, Signed(ToWord(room)) > 0
  PROVE  room > 0 /\ ToWord(room) = room
<1>1. WordCount \in Nat \ {0} BY WordAssumption
<1>2. CASE room >= 0
  <2>1. ToWord(room) = room BY <1>1, <1>2, Conversions DEF Word
  <2>2. room # 0 BY <1>1, <2>1 DEF Signed
  <2> QED BY <1>2, <2>1, <2>2
<1>3. CASE room < 0
  <2>1. ToWord(room) = room + WordCount BY <1>1, <1>3 DEF ToWord
  <2>2. Signed(ToWord(room)) = room BY <1>1, <1>3, <2>1 DEF Signed
  <2> QED BY <1>3, <2>2
<1> QED BY <1>2, <1>3

\* An index that GETL or SETL lets through is of a word between its array and the end of the stack:
\* the array may start above the frame or the stack, but a room less than zero lets none through.
LEMMA IndexInside ==
  ASSUME AtInstruction, NEW operand \in Operand, NotBelowFrame(ip, operand),
         NEW index \in Word, MayIndex(dsp, operand.n, index, DataStackSize)
  PROVE  CellOf(operand) + index \in Writable
<1> DEFINE at == dsp + operand.n
           room == DataStackSize - dsp - operand.n
<1>1. operand.n \in Int /\ dsp \in Int /\ at \in Nat BY RoomBounds, AtFrame
<1>2. /\ dataStackOffset \in Nat /\ DataStackSize \in Nat
      /\ dataStackOffset + DataStackSize <= rwMemorySize
  BY MachineAssumption, HostAssumption
<1>3. CellOf(operand) = constantsSize + dataStackOffset + at
  BY <1>1, MemoryTypes, <1>2 DEF CellOf, stackBase
<1>4. room = DataStackSize - at BY <1>1, <1>2
<1>5. room \in Int /\ room <= DataStackSize /\ 0 - WordCount < 2 * room BY RoomBounds
<1>6. Signed(ToWord(room)) > 0 /\ index < ToWord(room) BY DEF MayIndex
<1> HIDE DEF at, room
<1>7. room < WordCount BY <1>2, <1>5, MemoryTypes DEF Word
<1>8. ToWord(room) = room BY <1>5, <1>6, <1>7, RoomPositive
<1>9. index \in Nat /\ at + index < DataStackSize BY <1>1, <1>2, <1>4, <1>6, <1>8, MemoryTypes DEF Word
<1> HIDE DEF CellOf
<1> QED BY <1>1, <1>2, <1>3, <1>9, MemoryTypes DEF Writable

\* GETL reads a word of its stack, and SETL writes one.
LEMMA LocalsKeep ==
  ASSUME MInv, Getl \/ Setl
  PROVE  MemoryTypeOK' /\ ReadOnlySame
<1>1. MemoryTypeOK BY DEF MInv
<1>2. CASE FailsAlone BY <1>1, <1>2, UnchangedKeeps DEF FailsAlone
<1>3. CASE /\ now.op = "GETL" /\ MayIndex(dsp, now.b.n, V2, DataStackSize)
           /\ Succeeds /\ Store(CellOf(now.a), memory[CellOf(now.b) + V2])
  <2>1. AtInstruction BY <1>3, AtData DEF Succeeds
  <2>2. CellOf(now.a) \in Writable BY <1>3, <2>1, ResultCell DEF Storing
  <2>3. CellOf(now.b) + V2 \in Cell
    <3>1. now.b \in Operand /\ NotBelowFrame(ip, now.b) BY <1>3, <2>1, AtOperands
    <3>2. V2 \in Word BY <2>1, OperandWords
    <3> QED BY <1>3, <2>1, <3>1, <3>2, IndexInside, WritableCells
  <2>4. memory[CellOf(now.b) + V2] \in Word BY <1>1, <2>3 DEF MemoryTypeOK
  <2> QED BY <1>1, <1>3, <2>2, <2>4, StoreKeeps
<1>4. CASE /\ now.op = "SETL" /\ MayIndex(dsp, now.a.n, V1, DataStackSize)
           /\ Succeeds /\ Store(CellOf(now.a) + V1, V2)
  <2>1. AtInstruction BY <1>4, AtData DEF Succeeds
  <2>2. now.a \in Operand /\ NotBelowFrame(ip, now.a) BY <1>4, <2>1, AtOperands
  <2>3. CellOf(now.a) + V1 \in Writable
    <3>1. V1 \in Word BY <1>4, <2>1, OperandWords
    <3> QED BY <1>4, <2>1, <2>2, <3>1, IndexInside
  <2>4. V2 \in Word BY <2>1, OperandWords
  <2> QED BY <1>1, <1>4, <2>3, <2>4, StoreKeeps
<1> QED BY <1>2, <1>3, <1>4 DEF Getl, Setl

\* ADRL stores a pointer.
LEMMA AdrlKeeps ==
  ASSUME MInv, Adrl
  PROVE  MemoryTypeOK' /\ ReadOnlySame
<1>1. AtInstruction BY AtData DEF Adrl, Succeeds
<1>2. CellOf(now.a) \in Writable BY <1>1, ResultCell DEF Adrl, Storing
<1>3. CellOf(now.b) \in Int
  <2>1. now.b.n \in Int BY <1>1, AtOperands DEF Operand
  <2> QED BY <1>1, <2>1, AtFrame, MemoryTypes, MachineAssumption DEF CellOf, stackBase
<1>4. PointerTo(CellOf(now.b)) \in Int BY <1>3, MemoryTypes DEF PointerTo
<1>5. ToWord(PointerTo(CellOf(now.b))) \in Word BY <1>4, Conversions
<1> QED BY <1>2, <1>5, StoreKeeps DEF Adrl, MInv

\* The word that another is copied from is one of those to be copied.
LEMMA CopiedFromInside ==
  ASSUME NEW d \in Int, NEW s \in Int, NEW n \in Nat
  PROVE  CopiedFrom(d, s, n) \in s .. s + n
<1>1. CASE s < d
  <2>1. d - s \in Nat \ {0} BY <1>1
  <2>2. n % (d - s) \in 0 .. n BY <2>1, RemainderAtMost
  <2> QED BY <1>1, <2>2 DEF CopiedFrom
<1>2. CASE ~(s < d) BY <1>2 DEF CopiedFrom
<1> QED BY <1>1, <1>2

\* COPY writes words that were in memory, and writes them where they may be written.
LEMMA CopyKeeps ==
  ASSUME MInv, Copy
  PROVE  MemoryTypeOK' /\ ReadOnlySame
<1>1. MemoryTypeOK BY DEF MInv
<1>2. CASE FailsAlone BY <1>1, <1>2, UnchangedKeeps DEF FailsAlone
<1>3. CASE /\ MayCopy(V0, V1, V2)
           /\ Succeeds /\ memory' = Copied(memory, CellAt(V0), CellAt(V1), V2)
  <2> DEFINE d == CellAt(V0)
             s == CellAt(V1)
             count == V2
  <2>1. AtInstruction BY <1>3, AtData DEF Succeeds
  <2>2. V0 \in Word /\ V1 \in Word /\ V2 \in Word BY <2>1, OperandWords DEF Copy
  <2>3. /\ constantsSize <= d /\ d + count <= constantsSize + rwMemorySize
        /\ 0 <= s /\ s + count <= memorySize
    BY <1>3, <2>2, CopyInside
  <2>4. d \in Int /\ s \in Int /\ count \in Nat BY <2>2, MemoryTypes DEF CellAt, Word
  <2>5. memory' = Copied(memory, d, s, count) /\ DOMAIN memory = Cell BY <1>1, <1>3 DEF MemoryTypeOK
  <2> HIDE DEF d, s, count
  <2>6. ASSUME NEW cell \in Cell, cell \in d .. d + count - 1
        PROVE  memory[CopiedFrom(d, s, cell - d)] \in Word /\ cell \in Writable
    <3>1. cell - d \in Nat /\ cell - d < count /\ cell \in Int BY <2>4, <2>6
    <3>2. CopiedFrom(d, s, cell - d) \in s .. s + (cell - d) BY <2>4, <3>1, CopiedFromInside
    <3>3. CopiedFrom(d, s, cell - d) \in Cell BY <2>3, <2>4, <3>1, <3>2, MemoryTypes DEF Cell
    <3>4. cell \in Writable BY <2>3, <2>4, <3>1, MemoryTypes DEF Writable
    <3> QED BY <1>1, <3>3, <3>4 DEF MemoryTypeOK
  <2>7. MemoryTypeOK' BY <1>1, <2>5, <2>6 DEF Copied, MemoryTypeOK
  <2>8. ReadOnlySame BY <2>5, <2>6 DEF Copied, ReadOnlySame
  <2> QED BY <2>7, <2>8
<1> QED BY <1>2, <1>3 DEF Copy

\* A FORi stores its counter in the frame.
LEMMA ForKeeps ==
  ASSUME MInv, For
  PROVE  MemoryTypeOK' /\ ReadOnlySame
<1>1. AtInstruction
  <2>1. control = "run" BY DEF For, Goes, Jump, Execute
  <2>2. ip \in Address BY DEF MInv, IInv, TypeOK
  <2>3. Code[ip] = Abstracted(now) BY <2>2, MachineAssumption DEF ProgramAssembled, now
  <2> QED BY <2>1, <2>3 DEF AtInstruction, For, Branches
<1>2. CellOf(now.a) \in Writable BY <1>1, ResultCell DEF For, Storing
<1>3. V0 \in Word BY <1>1, OperandWords DEF For
<1>4. iadd(V0, 1) \in Word BY <1>3, WordAssumption DEF iadd, Plus, Word
<1> QED BY <1>2, <1>4, StoreKeeps DEF For, MInv

\* Every step of run(), of a native and of the host leaves words in memory, and the rest alone.
LEMMA MemoryKept ==
  ASSUME MInv, MachineNext
  PROVE  MemoryTypeOK' /\ ReadOnlySame
<1>1. CASE UNCHANGED memory BY <1>1, UnchangedKeeps DEF MInv
<1>2. CASE DataInstruction
  BY <1>2, ComputeKeeps, PeekKeeps, PokeKeeps, LocalsKeep, AdrlKeeps, CopyKeeps DEF DataInstruction
<1>3. CASE For BY <1>3, ForKeeps
<1>4. CASE HostWrites BY <1>4, StoreKeeps DEF HostWrites, MInv
<1> QED BY <1>1, <1>2, <1>3, <1>4
        DEF MachineNext, MachineStep, Branch, Goto, Switch, CallFunction, HostCall

-----------------------------------------------------------------------------
(***************************************************************************)
(* The machine with memory is the processor without: every step is one     *)
(* that GAZLProcessor has, or leaves all of its state alone.               *)
(***************************************************************************)

\* A function pointer that a program computed is a word, and so an ordinal or past every one.
LEMMA CallsPointer ==
  ASSUME MInv, CallFunction, control = "run"
  PROVE  \E f \in Pointers : Call(f)
<1>1. ip \in Address BY DEF MInv, IInv, TypeOK
<1>2. Code[ip] = Abstracted(now) BY <1>1, MachineAssumption DEF ProgramAssembled, now
<1>3. AtInstruction BY <1>2 DEF AtInstruction, CallFunction
<1>4. V0 \in Word BY <1>3, OperandWords DEF CallFunction
<1>5. Ordinal(V0) \in Nat
  <2>1. Ordinal(V0) \in Word BY <1>4, SumsInWord, FunctionsAssumption DEF Ordinal
  <2> QED BY <2>1, WordAssumption DEF Word
<1>6. FunctionCount \in Nat BY CodeAssembled DEF CodeWellFormed
<1>7. (IF Ordinal(V0) < FunctionCount THEN Ordinal(V0) ELSE FunctionCount) \in Pointers
  BY <1>5, <1>6 DEF Pointers
<1> QED BY <1>7 DEF CallFunction

\* An instruction of the machine is a step of the processor's, whose data goes any way and whose
\* checks succeed or fail.
LEMMA InstructionSteps ==
  ASSUME MInv, MachineStep
  PROVE  Step
<1>1. CASE TimeOut \/ Func \/ Retu \/ CallNative BY <1>1 DEF Step
<1>2. CASE DataInstruction
  BY <1>2 DEF DataInstruction, Compute, Peek, Poke, Getl, Setl, Adrl, Copy, Succeeds, FailsAlone, Step
<1>3. CASE Branch \/ For \/ Goto \/ Switch
  BY <1>3 DEF Branch, For, Goto, Switch, Goes, Step
<1>4. CASE control = "run" /\ CallFunction BY <1>4, CallsPointer DEF Step
<1> QED BY <1>1, <1>2, <1>3, <1>4 DEF MachineStep

\* So is every step of the host's and of a native's.
LEMMA MachineSteps ==
  ASSUME MInv, [MachineNext]_machineVars
  PROVE  [Next]_vars
<1>1. CASE UNCHANGED vars BY <1>1
<1>2. CASE MachineStep BY <1>2, InstructionSteps DEF Next
<1>3. CASE NativeReturns \/ HostCall BY <1>3 DEF HostCall, Next
<1> QED BY <1>1, <1>2, <1>3 DEF MachineNext, HostWrites, machineVars

\* The invariant that says so needs both: where frames are decides which words an operand is,
\* and the words decide which function a pointer calls.
LEMMA MachinePreserves == MInv /\ [MachineNext]_machineVars => MInv'
<1> SUFFICES ASSUME MInv, [MachineNext]_machineVars PROVE MInv'
  OBVIOUS
<1>1. IInv' BY MachineSteps, Preserved DEF MInv
<1>2. MemoryTypeOK'
  <2>1. CASE MachineNext BY <2>1, MemoryKept
  <2>2. CASE UNCHANGED machineVars BY <2>2, UnchangedKeeps DEF machineVars, MInv
  <2> QED BY <2>1, <2>2
<1> QED BY <1>1, <1>2 DEF MInv

\* It holds of every state the machine can reach.
THEOREM MachineInvariant == MachineSpec => []MInv
<1>1. MachineInit => MInv
  BY Initially, MachineAssumption DEF MachineInit, MInv, MemoryTypeOK
<1> QED BY <1>1, MachinePreserves, PTL DEF MachineSpec

\* Memory holds words, and nothing else, at every cell.
THEOREM MemoryTypeCorrect == MachineSpec => []MemoryTypeOK
BY MachineInvariant, PTL DEF MInv

\* The processor with memory implements the processor without, so that every theorem about the
\* latter's calls and stacks is one about programs that compute their addresses.
THEOREM MachineImplementsProcessor == MachineSpec => Spec
<1>1. MachineInit => Init BY DEF MachineInit
<1>2. MInv /\ [MachineNext]_machineVars => [Next]_vars BY MachineSteps
<1> QED BY <1>1, <1>2, MachineInvariant, PTL DEF MachineSpec, Spec

\* Frames of computed calls stay inside the stack: GAZLProcessor's theorem, through the refinement.
THEOREM MachineFramesInside == MachineSpec => []FramesInsideStack
BY MachineImplementsProcessor, FramesStayInside, PTL

\* Whatever addresses a program computes, no step changes a constant or the zero guard.
THEOREM ConstantsKept == MachineSpec => ReadOnlyKept
<1>1. MInv /\ [MachineNext]_machineVars => [ReadOnlySame]_machineVars
  BY MemoryKept
<1> QED BY <1>1, MachineInvariant, PTL DEF MachineSpec, ReadOnlyKept, ReadOnlySame
=============================================================================
