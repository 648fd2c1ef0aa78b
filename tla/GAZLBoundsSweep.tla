--------------------------- MODULE GAZLBoundsSweep ---------------------------
(***************************************************************************)
(* The bounds sweep: every probe is run on the machine, and what it leaves *)
(* is compared with what an oracle, which knows nothing of the machine's   *)
(* word arithmetic, says it must.  The oracle counts in integers.          *)
(***************************************************************************)
EXTENDS GAZLBoundsProbes, GAZLMachine

CONSTANT Forms     \* the form that each function of the program probes

VARIABLES
  probe,    \* the form probed and the words stored in `in`, or a host's request for memory
  driver    \* where the driver of the probe is

sweepVars == <<machineVars, probe, driver>>

Image(p) ==
  [InitialMemory EXCEPT ![CellAt(inAddress)] = p.pa,
                        ![CellAt(inAddress) + 1] = p.ix,
                        ![CellAt(inAddress) + 2] = p.vl]

Probes ==
  UNION { [form : {f}, ins : {Forms[f].probe}, pa : Forms[f].pa, ix : Forms[f].ix, vl : Forms[f].vl] :
            f \in DOMAIN Forms }

Accesses == [writable : BOOLEAN, pointer : Word, count : Word]

SweepInit ==
  /\ Init
  /\ \/ probe \in Probes /\ memory = Image(probe) /\ driver = "enter"
     \/ probe \in Accesses /\ memory = InitialMemory /\ driver = "access"

\* Runs main once, with more steps than it has.
RunProbe ==
  /\ \/ driver = "enter" /\ EnterCall(probe.form) /\ driver' = "reset"
     \/ driver = "reset" /\ ResetTimeOut(Max(Budgets)) /\ driver' = "run"
     \/ driver = "run" /\ Run /\ driver' = "done"
  /\ UNCHANGED <<memory, probe>>

\* Asks for memory as a native would, in a processor that never runs.
Granted ==
  IF probe.writable THEN accessMemory(probe.pointer, probe.count)
                    ELSE accessConstMemory(probe.pointer, probe.count)

AskAccess ==
  /\ driver = "access"
  /\ driver' = IF Granted = Refused THEN "refused" ELSE "granted"
  /\ UNCHANGED <<machineVars, probe>>

SweepNext ==
  \/ RunProbe
  \/ AskAccess
  \/ MachineStep /\ UNCHANGED <<probe, driver>>

SweepSpec == SweepInit /\ [][SweepNext]_sweepVars

-----------------------------------------------------------------------------
(***************************************************************************)
(* The oracle.                                                             *)
(***************************************************************************)
Done == driver = "done" /\ control = "host"

low == MEMORY_OFFSET - constantsSize

\* [pointer, pointer + count) in [from, from + size)
inRange(pointer, count, from, size) == pointer - from >= 0 /\ pointer - from + count <= size

Readable(pointer, count) == inRange(pointer, count, low, memorySize)
CanWrite(pointer, count) == inRange(pointer, count, MEMORY_OFFSET, rwMemorySize)

ins == probe.ins

\* What an operand is before the probe; ad has been given in:1 to copy from.
Given(operand) ==
  CASE operand.kind = "C" -> ToWord(operand.n)
    [] operand = pa -> probe.pa
    [] operand \in {ix, ad} -> probe.ix
    [] operand = vl -> probe.vl
    [] operand = Unused -> 0

Target(a, b) == (Given(a) + Given(b)) % WordCount

\* The word that GETL or SETL names, the base being that of an array; and whether the stack has it.
arCell(base) == stackBase + FrameSize + base.n
arSlot(base, index) == arCell(base) + Signed(Given(index))
SlotValid(base, index) == Signed(Given(index)) >= 0 /\ arSlot(base, index) < stackBase + DataStackSize

Valid ==
  CASE ins.op = "PEEK" -> Readable(Target(ins.b, ins.c), 1)
    [] ins.op = "POKE" /\ ins.c = Unused -> CanWrite(Given(ins.a), 1)
    [] ins.op = "POKE" /\ ins.c # Unused -> CanWrite(Target(ins.a, ins.b), 1)
    [] ins.op = "GETL" -> SlotValid(ins.b, ins.c)
    [] ins.op = "SETL" -> SlotValid(ins.a, ins.b)
    [] ins.op = "COPY" -> CanWrite(Given(ins.a), Given(ins.c)) /\ Readable(Given(ins.b), Given(ins.c))

\* The program writes its frame and its results.
Exempt == stackBase .. stackBase + FrameSize - 1 \cup {CellAt(outAddress), CellAt(outAddress) + 1}

\* The words an access reads, as a function of the cells it writes: RESULT is what it returns.
RESULT == -1

Transfers ==
  CASE ins.op = "PEEK" -> [cell \in {RESULT} |-> CellAt(Target(ins.b, ins.c))]
    [] ins.op = "GETL" -> [cell \in {RESULT} |-> arSlot(ins.b, ins.c)]
    [] ins.op = "COPY" ->
         [cell \in CellAt(Given(ins.a)) .. CellAt(Given(ins.a)) + Given(ins.c) - 1 |->
            cell - CellAt(Given(ins.a)) + CellAt(Given(ins.b))]
    [] OTHER -> <<>>

Writes ==
  CASE ins.op = "POKE" /\ ins.c = Unused -> [cell \in {CellAt(Given(ins.a))} |-> Given(ins.b)]
    [] ins.op = "POKE" /\ ins.c # Unused -> [cell \in {CellAt(Target(ins.a, ins.b))} |-> Given(ins.c)]
    [] ins.op = "SETL" -> [cell \in {arSlot(ins.a, ins.b)} |-> Given(ins.c)]
    [] OTHER -> <<>>

Overlaps == ins.op = "COPY" /\ DOMAIN Transfers \cap {Transfers[cell] : cell \in DOMAIN Transfers} # {}

FailStatus ==
  CASE ins.op \in {"PEEK", "GETL"} -> "BAD_PEEK"
    [] ins.op \in {"POKE", "SETL"} -> "BAD_POKE"
    [] ins.op = "COPY" -> "ACCESS_VIOLATION"

\* The word a cell holds afterwards, unless it is one the oracle does not know.
Known(cell) ==
  /\ cell \notin Exempt
  /\ Valid /\ cell \in DOMAIN Transfers => ~Overlaps /\ Transfers[cell] \notin Exempt

Wanted(cell) ==
  IF Valid /\ cell \in DOMAIN Transfers THEN Image(probe)[Transfers[cell]]
  ELSE IF Valid /\ cell \in DOMAIN Writes THEN Writes[cell]
  ELSE Image(probe)[cell]

(***************************************************************************)
(* The forms of the access instructions.  An operand is one of the locals  *)
(* that the host's words are loaded into, or a constant; what is accessed  *)
(* without a check is a label's word, which the assembler has checked.     *)
(***************************************************************************)
Input(form, operand) ==
  \/ operand \in {pa, ix, vl} \cup [kind : {"C"}, n : Int]
  \/ operand = ad /\ form.before # <<>>

\* An array's base is not below the frame, and may be above it.
Base(operand) ==
  operand \in [kind : {"V"}, n : Int] /\ - FrameSize <= operand.n /\ 2 * operand.n < WordCount

AccessForm(form) ==
  LET i == form.probe
  IN  /\ form.before \in {<<>>, <<PEEK(ad, inAddress + 1)>>}
      /\ form.after = <<>>
      /\ CASE i.op = "PEEK" -> /\ i.a = rs /\ Input(form, i.b)
                              /\ IF i.c = Unused THEN i.b.kind = "C" /\ Readable(ToWord(i.b.n), 1)
                                                 ELSE Input(form, i.c)
           [] i.op = "POKE" -> /\ Input(form, i.a) /\ Input(form, i.b)
                              /\ IF i.c = Unused THEN i.a.kind = "C" /\ CanWrite(ToWord(i.a.n), 1)
                                                 ELSE Input(form, i.c)
           [] i.op = "GETL" -> i.a = rs /\ Base(i.b) /\ Input(form, i.c)
           [] i.op = "SETL" -> Base(i.a) /\ Input(form, i.b) /\ Input(form, i.c)
           [] i.op = "COPY" -> Input(form, i.a) /\ Input(form, i.b) /\ Input(form, i.c)

\* Steps that a budget has to have for a probe: of the longest, and one more.
ProbeSteps == 12

\* What the sweep's driver sets up: the globals before the stack, a stack of less than half the
\* words, so that an index into it is not negative, room for one call, and a function for each form.
ASSUME SweepAssumption ==
  /\ globalsSize \in Nat /\ 5 <= globalsSize /\ globalsSize <= dataStackOffset
  /\ FrameSize <= DataStackSize /\ 2 * DataStackSize < WordCount
  /\ IpStackSize >= 2
  /\ Max(Budgets) \in Budgets /\ Max(Budgets) >= ProbeSteps
  /\ DOMAIN Forms \subseteq 0 .. FunctionCount - 1
  /\ \A f \in DOMAIN Forms :
       /\ Forms[f].pa \subseteq Word /\ Forms[f].ix \subseteq Word /\ Forms[f].vl \subseteq Word
       /\ Forms[f].probe.op \in AccessOps => AccessForm(Forms[f])
       /\ LET body == program(Forms[f].before \o <<Forms[f].probe>> \o Forms[f].after)
          IN  \A i \in DOMAIN body :
                /\ FunctionTable[f] + i - 1 \in Address
                /\ Program[FunctionTable[f] + i - 1] = body[i]

(***************************************************************************)
(* check(): an access out of range stops the program with the status of    *)
(* its instruction and changes nothing; one in range reads or writes       *)
(* exactly the cells it names: for every pointer and index, those that     *)
(* make the sum wrap included.                                             *)
(***************************************************************************)
ProbesAsOracle ==
  Done /\ ins.op \in AccessOps =>
    /\ result = (IF Valid THEN "OK" ELSE FailStatus)
    /\ \A cell \in Cell : Known(cell) => memory[cell] = Wanted(cell)
    /\ Valid /\ RESULT \in DOMAIN Transfers /\ Transfers[RESULT] \notin Exempt =>
         memory[CellAt(outAddress)] = Image(probe)[Transfers[RESULT]]

(***************************************************************************)
(* A native is given the words it asks for exactly when all of them are    *)
(* readable, or writable, whatever pointer and count the program passes:   *)
(* one word more, the zero guard included, is refused.                     *)
(***************************************************************************)
AccessesAsOracle ==
  driver \in {"granted", "refused"} =>
    /\ (driver = "granted") =
         (IF probe.writable THEN CanWrite(probe.pointer, probe.count) ELSE Readable(probe.pointer, probe.count))
    /\ driver = "granted" => Granted = CellAt(probe.pointer)

-----------------------------------------------------------------------------
(***************************************************************************)
(* What the integer instructions compute, said of integers and bits, for   *)
(* the functions of a program that probe them as the sweep probes memory.  *)
(***************************************************************************)
Congruent(w, i) == (i - w) % WordCount = 0

\* Division truncates: the quotient whose remainder is smaller and has the dividend's sign.
Divides(a, b, q, r) ==
  /\ a = q * b + r
  /\ Magnitude(r) < Magnitude(b)
  /\ r = 0 \/ (r < 0) = (a < 0)

QuotientAndRemainder(a, b) ==
  CHOOSE qr \in (-WordCount .. WordCount) \X (-WordCount .. WordCount) : Divides(a, b, qr[1], qr[2])

Bits == 0 .. WordSize - 1
Shifted(bits, n) == {i + n : i \in bits} \cap Bits
SignBits(w, n) == IF Signed(w) < 0 THEN WordSize - n .. WordSize - 1 ELSE {}

Exactly(op, x, y, w) ==
  LET n == y % WordSize
  IN  CASE op = "ABSI" -> Congruent(w, Magnitude(Signed(x)))
        [] op = "ADDI" -> Congruent(w, x + y)
        [] op = "SUBI" -> Congruent(w, x - y)
        [] op = "MULI" -> Congruent(w, x * y)
        [] op = "DIVI" -> Congruent(w, QuotientAndRemainder(Signed(x), Signed(y))[1])
        [] op = "MODI" -> Congruent(w, QuotientAndRemainder(Signed(x), Signed(y))[2])
        [] op = "SHLI" -> Ones(w) = Shifted(Ones(x), n)
        [] op = "SHRU" -> Ones(w) = Shifted(Ones(x), -n)
        [] op = "SHRI" -> Ones(w) = Shifted(Ones(x), -n) \cup SignBits(x, n)
        [] op = "ANDI" -> Ones(w) = Ones(x) \cap Ones(y)
        [] op = "IORI" -> Ones(w) = Ones(x) \cup Ones(y)
        [] op = "XORI" -> Ones(w) = {i \in Bits : (i \in Ones(x)) # (i \in Ones(y))}

\* A counter that was the greatest number becomes the least.
Counted(x) == IF Signed(x) = WordCount \div 2 - 1 THEN -(WordCount \div 2) ELSE Signed(x) + 1

Taken(op, x, y) ==
  CASE op = "FORi" -> Counted(x) < Signed(y)
    [] op = "LSSI" -> Signed(x) < Signed(y)
    [] op = "NLSI" -> Signed(x) >= Signed(y)
    [] op = "EQUI" -> x = y
    [] op = "NEQI" -> x # y

Cases == ins.b.n

IntegerProbe == ins.op \notin AccessOps \cup FloatOps \cup {"LSSF", "NLSF", "EQUF", "NEQF"}

(***************************************************************************)
(* Every integer operator computes what the integers do, wrapped, for      *)
(* every pair of words: dividing the least number by minus one, counting   *)
(* past the greatest and shifting by more than a word included; the        *)
(* bitwise ones set the bits they should.  Only a zero divisor fails.      *)
(* SWCH takes the default for every number that is no case, the negative   *)
(* ones too.  What floats compute is left open.                            *)
(***************************************************************************)
OperatorsExact ==
  Done /\ IntegerProbe =>
    LET w == memory[CellAt(outAddress)]
    IN  CASE ins.op \in {"DIVI", "MODI"} /\ probe.vl = 0 -> result = "DIVISION_BY_ZERO"
          [] ins.op \in {"FORi", "LSSI", "NLSI", "EQUI", "NEQI"} ->
               result = "OK" /\ w = (IF Taken(ins.op, probe.ix, probe.vl) THEN 1 ELSE 0)
          [] ins.op = "SWCH" ->
               result = "OK" /\ w = (IF Signed(probe.ix) \in 0 .. Cases - 1 THEN Cases - probe.ix ELSE 0)
          [] OTHER -> result = "OK" /\ Exactly(ins.op, probe.ix, probe.vl, w)
=============================================================================
