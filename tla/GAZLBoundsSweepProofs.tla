------------------------ MODULE GAZLBoundsSweepProofs ------------------------
(***************************************************************************)
(* Proofs about the bounds sweep, for every size of words and of memory,   *)
(* every pointer, index and count: what run() and the access functions do  *)
(* is what the oracle, which counts in integers, says.                     *)
(***************************************************************************)
EXTENDS GAZLBoundsSweep, GAZLMachineProofs

-----------------------------------------------------------------------------
(***************************************************************************)
(* Where everything is.                                                    *)
(***************************************************************************)

\* The sizes the sweep depends on, as numbers.
LEMMA SweepSizes ==
  /\ globalsSize \in Nat /\ 5 <= globalsSize /\ globalsSize <= dataStackOffset
  /\ dataStackOffset \in Nat /\ dataStackOffset + DataStackSize <= rwMemorySize
  /\ DataStackSize \in Nat /\ 9 <= DataStackSize /\ 2 * DataStackSize < WordCount
  /\ stackBase \in Nat /\ stackBase = constantsSize + dataStackOffset
BY SweepAssumption, MachineAssumption, HostAssumption, MemoryTypes DEF stackBase, FrameSize

\* The cells of in and out are writable ones below the stack.
LEMMA GlobalCells ==
  /\ inAddress \in Word /\ inAddress + 1 \in Word /\ inAddress + 2 \in Word
  /\ outAddress \in Word /\ outAddress + 1 \in Word
  /\ CellAt(inAddress) = constantsSize /\ CellAt(inAddress + 1) = constantsSize + 1
  /\ CellAt(inAddress + 2) = constantsSize + 2
  /\ CellAt(outAddress) = constantsSize + 3 /\ CellAt(outAddress + 1) = constantsSize + 4
  /\ constantsSize + 4 < stackBase /\ stackBase + DataStackSize <= memorySize
BY SweepSizes, MemoryTypes DEF inAddress, outAddress, CellAt, Word

\* What the host stores in `in`, and memory else.
LEMMA ImageCells ==
  ASSUME NEW p \in Probes
  PROVE  /\ p.pa \in Word /\ p.ix \in Word /\ p.vl \in Word
         /\ p.form \in DOMAIN Forms /\ p.ins = Forms[p.form].probe
         /\ Image(p) \in [Cell -> Word]
         /\ Image(p)[constantsSize] = p.pa
         /\ Image(p)[constantsSize + 1] = p.ix
         /\ Image(p)[constantsSize + 2] = p.vl
<1>1. PICK f \in DOMAIN Forms :
        p \in [form : {f}, ins : {Forms[f].probe}, pa : Forms[f].pa, ix : Forms[f].ix, vl : Forms[f].vl]
  BY DEF Probes
<1>2. p.form = f /\ p.ins = Forms[f].probe /\ p.pa \in Word /\ p.ix \in Word /\ p.vl \in Word
  BY <1>1, SweepAssumption
<1>3. /\ constantsSize \in Cell /\ constantsSize + 1 \in Cell /\ constantsSize + 2 \in Cell
      /\ constantsSize \in Int
  BY SweepSizes, GlobalCells, MemoryTypes DEF Cell
<1>4. InitialMemory \in [Cell -> Word] BY MachineAssumption
<1>5. Image(p) = [InitialMemory EXCEPT ![constantsSize] = p.pa, ![constantsSize + 1] = p.ix,
                                       ![constantsSize + 2] = p.vl]
  BY GlobalCells DEF Image
<1> QED BY <1>1, <1>2, <1>3, <1>4, <1>5

-----------------------------------------------------------------------------
(***************************************************************************)
(* The program of a probe.                                                 *)
(***************************************************************************)
\* Sequences of one and two, one by one.
LEMMA ShortSequences ==
  ASSUME NEW p, NEW q
  PROVE  /\ <<>> \o <<p>> \o <<>> = <<p>>
         /\ <<p>> \o <<q>> \o <<>> = <<p, q>>
         /\ Len(<<p>>) = 1 /\ Len(<<p, q>>) = 2
         /\ \A S : p \in S /\ q \in S => <<p>> \in Seq(S) /\ <<p, q>> \in Seq(S)
<1>1. <<p>> \in Seq({p, q}) /\ <<q>> \in Seq({p, q}) /\ <<>> \in Seq({p, q})
  OBVIOUS
<1>2. <<p>> \o <<q>> = <<p, q>>
  <2>1. Len(<<p>>) = 1 /\ Len(<<q>>) = 1 /\ <<p>>[1] = p /\ <<q>>[1] = q
    OBVIOUS
  <2>2. /\ <<p>> \o <<q>> \in Seq({p, q}) /\ Len(<<p>> \o <<q>>) = 2
        /\ (<<p>> \o <<q>>)[1] = p /\ (<<p>> \o <<q>>)[2] = q
    BY <1>1, <2>1, ConcatProperties
  <2>3. <<p, q>> \in Seq({p, q}) /\ Len(<<p, q>>) = 2 /\ <<p, q>>[1] = p /\ <<p, q>>[2] = q
    OBVIOUS
  <2> DEFINE s == <<p>> \o <<q>>
             t == <<p, q>>
  <2> HIDE DEF s, t
  <2>4. Len(s) = Len(t) /\ \A i \in 1 .. Len(s) : s[i] = t[i]
    <3>1. Len(s) = 2 /\ Len(t) = 2 /\ s[1] = t[1] /\ s[2] = t[2] BY <2>2, <2>3 DEF s, t
    <3> QED BY <3>1
  <2>5. s \in Seq({p, q}) /\ t \in Seq({p, q}) BY <2>2, <2>3 DEF s, t
  <2>6. s = t BY <2>4, <2>5, SeqEqual
  <2> QED BY <2>6 DEF s, t
<1>3. <<p, q>> \in Seq({p, q})
  OBVIOUS
<1> QED BY <1>1, <1>2, <1>3, ConcatEmptySeq

\* Three sequences joined, one by one.
LEMMA Joined ==
  ASSUME NEW S, NEW r \in Seq(S), NEW s \in Seq(S), NEW t \in Seq(S)
  PROVE  /\ DOMAIN (r \o s \o t) = 1 .. Len(r) + Len(s) + Len(t)
         /\ \A i \in 1 .. Len(r) : (r \o s \o t)[i] = r[i]
         /\ \A i \in 1 .. Len(s) : (r \o s \o t)[Len(r) + i] = s[i]
         /\ \A i \in 1 .. Len(t) : (r \o s \o t)[Len(r) + Len(s) + i] = t[i]
<1>1. Len(r) \in Nat /\ Len(s) \in Nat /\ Len(t) \in Nat
  OBVIOUS
<1>2. /\ r \o s \in Seq(S) /\ Len(r \o s) = Len(r) + Len(s)
      /\ \A i \in 1 .. Len(r) + Len(s) : (r \o s)[i] = IF i <= Len(r) THEN r[i] ELSE s[i - Len(r)]
  BY ConcatProperties
<1> DEFINE q == r \o s
<1> HIDE DEF q
<1>3. q \in Seq(S) /\ Len(q) = Len(r) + Len(s) BY <1>2 DEF q
<1>4. /\ q \o t \in Seq(S) /\ Len(q \o t) = Len(q) + Len(t)
      /\ \A i \in 1 .. Len(q) + Len(t) : (q \o t)[i] = IF i <= Len(q) THEN q[i] ELSE t[i - Len(q)]
  <2>1. q \in Seq(S) BY <1>3
  <2>2. q \o t \in Seq(S) /\ Len(q \o t) = Len(q) + Len(t) BY <2>1, ConcatProperties
  <2>3. ASSUME NEW i \in 1 .. Len(q) + Len(t)
        PROVE  (q \o t)[i] = IF i <= Len(q) THEN q[i] ELSE t[i - Len(q)]
    BY <2>1, <2>3, ConcatProperties
  <2> QED BY <2>2, <2>3
<1>5. DOMAIN (q \o t) = 1 .. Len(r) + Len(s) + Len(t)
  BY <1>3, <1>4
<1>6. ASSUME NEW i \in 1 .. Len(r) PROVE (q \o t)[i] = r[i]
  <2>1. (q \o t)[i] = q[i] BY <1>1, <1>3, <1>4
  <2> QED BY <1>1, <1>2, <2>1 DEF q
<1>7. ASSUME NEW i \in 1 .. Len(s) PROVE (q \o t)[Len(r) + i] = s[i]
  <2>1. (q \o t)[Len(r) + i] = q[Len(r) + i] BY <1>1, <1>3, <1>4
  <2>2. (r \o s)[Len(r) + i] = s[i]
    <3>1. Len(r) + i \in 1 .. Len(r) + Len(s) /\ ~(Len(r) + i <= Len(r)) /\ Len(r) + i - Len(r) = i
      BY <1>1
    <3> QED BY <1>2, <3>1
  <2> QED BY <2>1, <2>2 DEF q
<1>8. ASSUME NEW i \in 1 .. Len(t) PROVE (q \o t)[Len(r) + Len(s) + i] = t[i]
  <2>1. /\ Len(r) + Len(s) + i \in 1 .. Len(q) + Len(t) /\ ~(Len(r) + Len(s) + i <= Len(q))
        /\ Len(r) + Len(s) + i - Len(q) = i
    BY <1>1, <1>3
  <2> QED BY <1>4, <2>1
<1> QED BY <1>5, <1>6, <1>7, <1>8 DEF q

Start(f) == FunctionTable[f]
Extra(f) == Len(Forms[f].before)

\* The instructions of a form that accesses memory, one by one.
LEMMA Instructions ==
  ASSUME NEW f \in DOMAIN Forms, Forms[f].probe.op \in AccessOps
  PROVE  /\ AccessForm(Forms[f]) /\ f \in 0 .. FunctionCount - 1
         /\ Start(f) \in Int
         /\ \/ Extra(f) = 0 /\ Forms[f].before = <<>>
            \/ Extra(f) = 1 /\ Forms[f].before # <<>> /\ Program[Start(f) + 7] = PEEK(ad, inAddress + 1)
         /\ \A k \in 0 .. 9 + Extra(f) : Start(f) + k \in Address
         /\ Program[Start(f)] = FUNC(FrameSize, 0)
         /\ Program[Start(f) + 1] = PEEK(pa, inAddress)
         /\ Program[Start(f) + 2] = PEEK(ix, inAddress + 1)
         /\ Program[Start(f) + 3] = PEEK(vl, inAddress + 2)
         /\ Program[Start(f) + 4] = MOVE(rs, C(0))
         /\ Program[Start(f) + 5] = Ins("ADRL", ad, ar, Unused)
         /\ Program[Start(f) + 6] = POKE(outAddress + 1, ad)
         /\ Program[Start(f) + 7 + Extra(f)] = Forms[f].probe
         /\ Program[Start(f) + 8 + Extra(f)] = POKE(outAddress, rs)
         /\ Program[Start(f) + 9 + Extra(f)] = RETU
<1> DEFINE first == << FUNC(FrameSize, 0),
                       PEEK(pa, inAddress), PEEK(ix, inAddress + 1), PEEK(vl, inAddress + 2),
                       MOVE(rs, C(0)), Ins("ADRL", ad, ar, Unused), POKE(outAddress + 1, ad) >>
           last == << POKE(outAddress, rs), RETU >>
           middle == Forms[f].before \o <<Forms[f].probe>> \o Forms[f].after
           body == program(middle)
           All == {first[i] : i \in 1 .. 7} \cup {last[i] : i \in 1 .. 2} \cup {PEEK(ad, inAddress + 1), Forms[f].probe}
<1>1. AccessForm(Forms[f]) /\ f \in 0 .. FunctionCount - 1 /\ f \in DOMAIN Forms
  BY SweepAssumption
<1>2. FunctionTable[f] \in Address /\ Start(f) \in Int
  BY <1>1, CodeAssembled DEF CodeWellFormed, Start, Address
<1>3. \A i \in DOMAIN body : Start(f) + i - 1 \in Address /\ Program[Start(f) + i - 1] = body[i]
  BY SweepAssumption DEF Start
<1>4. first \in Seq(All) /\ last \in Seq(All) /\ Len(first) = 7 /\ Len(last) = 2
  OBVIOUS
<1>5. Forms[f].before \in {<<>>, <<PEEK(ad, inAddress + 1)>>} /\ Forms[f].after = <<>>
  BY <1>1 DEF AccessForm
<1>6. /\ middle \in Seq(All)
      /\ \/ Extra(f) = 0 /\ Forms[f].before = <<>> /\ middle = <<Forms[f].probe>>
         \/ Extra(f) = 1 /\ Forms[f].before # <<>> /\ middle = <<PEEK(ad, inAddress + 1), Forms[f].probe>>
      /\ Len(middle) = 1 + Extra(f)
  <2>1. CASE Forms[f].before = <<>>
    <3>1. middle = <<Forms[f].probe>> BY <2>1, <1>5, ShortSequences
    <3>2. Extra(f) = 0 BY <2>1 DEF Extra
    <3>3. middle \in Seq(All) BY <3>1, ShortSequences
    <3>4. Len(middle) = 1 BY <3>1, ShortSequences
    <3> HIDE DEF middle, All
    <3> QED BY <2>1, <3>1, <3>2, <3>3, <3>4
  <2>2. CASE Forms[f].before = <<PEEK(ad, inAddress + 1)>>
    <3>1. middle = <<PEEK(ad, inAddress + 1), Forms[f].probe>> BY <2>2, <1>5, ShortSequences
    <3>2. Extra(f) = 1 BY <2>2, ShortSequences DEF Extra
    <3>3. Forms[f].before # <<>> BY <2>2
    <3>4. middle \in Seq(All) BY <3>1, ShortSequences
    <3>5. Len(middle) = 2 BY <3>1, ShortSequences
    <3> HIDE DEF middle, All
    <3> QED BY <3>1, <3>2, <3>3, <3>4, <3>5
  <2> QED BY <1>5, <2>1, <2>2
<1>7. body = first \o middle \o last
  BY DEF program
<1> HIDE DEF first, last, middle, body, All
<1>8. Extra(f) \in {0, 1} /\ Len(middle) = 1 + Extra(f)
  BY <1>6
<1>9. /\ DOMAIN body = 1 .. 7 + Len(middle) + 2
      /\ \A i \in 1 .. 7 : body[i] = first[i]
      /\ \A i \in 1 .. Len(middle) : body[7 + i] = middle[i]
      /\ \A i \in 1 .. 2 : body[7 + Len(middle) + i] = last[i]
  <2>1. /\ DOMAIN body = 1 .. Len(first) + Len(middle) + Len(last)
        /\ \A i \in 1 .. Len(first) : body[i] = first[i]
        /\ \A i \in 1 .. Len(middle) : body[Len(first) + i] = middle[i]
        /\ \A i \in 1 .. Len(last) : body[Len(first) + Len(middle) + i] = last[i]
    <3>1. first \in Seq(All) /\ middle \in Seq(All) /\ last \in Seq(All) BY <1>4, <1>6
    <3>2. /\ DOMAIN (first \o middle \o last) = 1 .. Len(first) + Len(middle) + Len(last)
          /\ \A i \in 1 .. Len(first) : (first \o middle \o last)[i] = first[i]
          /\ \A i \in 1 .. Len(middle) : (first \o middle \o last)[Len(first) + i] = middle[i]
          /\ \A i \in 1 .. Len(last) : (first \o middle \o last)[Len(first) + Len(middle) + i] = last[i]
      <4>1. \A r, s, t \in Seq(All) :
              /\ DOMAIN (r \o s \o t) = 1 .. Len(r) + Len(s) + Len(t)
              /\ \A i \in 1 .. Len(r) : (r \o s \o t)[i] = r[i]
              /\ \A i \in 1 .. Len(s) : (r \o s \o t)[Len(r) + i] = s[i]
              /\ \A i \in 1 .. Len(t) : (r \o s \o t)[Len(r) + Len(s) + i] = t[i]
        <5> TAKE r, s, t \in Seq(All)
        <5> QED BY Joined
      <4> QED BY <3>1, <4>1, Zenon
    <3> QED BY <1>7, <3>2
  <2> QED BY <1>4, <2>1
<1>10. \A k \in 0 .. 9 + Extra(f) : Start(f) + k \in Address /\ Program[Start(f) + k] = body[k + 1]
  <2> SUFFICES ASSUME NEW k \in 0 .. 9 + Extra(f)
               PROVE  Start(f) + k \in Address /\ Program[Start(f) + k] = body[k + 1]
    OBVIOUS
  <2>1. k + 1 \in DOMAIN body /\ Start(f) + (k + 1) - 1 = Start(f) + k
    BY <1>2, <1>8, <1>9
  <2> QED BY <1>3, <2>1
<1>11. /\ Program[Start(f) + 0] = first[1] /\ Program[Start(f) + 1] = first[2]
       /\ Program[Start(f) + 2] = first[3] /\ Program[Start(f) + 3] = first[4]
       /\ Program[Start(f) + 4] = first[5] /\ Program[Start(f) + 5] = first[6]
       /\ Program[Start(f) + 6] = first[7]
  BY <1>8, <1>9, <1>10
<1>13. Program[Start(f) + 7] = body[7 + 1] /\ body[7 + 1] = middle[1]
  BY <1>8, <1>9, <1>10
<1>14. Program[Start(f) + (7 + Extra(f))] = middle[1 + Extra(f)]
  <2>1. Program[Start(f) + (7 + Extra(f))] = body[7 + Extra(f) + 1] BY <1>8, <1>10
  <2>2. body[7 + (1 + Extra(f))] = middle[1 + Extra(f)] BY <1>8, <1>9
  <2> QED BY <1>8, <2>1, <2>2
<1>15. Program[Start(f) + (8 + Extra(f))] = last[1] /\ Program[Start(f) + (9 + Extra(f))] = last[2]
  <2>1. /\ Program[Start(f) + (8 + Extra(f))] = body[8 + Extra(f) + 1]
        /\ Program[Start(f) + (9 + Extra(f))] = body[9 + Extra(f) + 1]
    BY <1>8, <1>10
  <2>2. body[7 + (1 + Extra(f)) + 1] = last[1] /\ body[7 + (1 + Extra(f)) + 2] = last[2] BY <1>8, <1>9
  <2> QED BY <1>8, <2>1, <2>2
<1>16. Start(f) + 0 = Start(f) /\ \A i \in {7, 8, 9} : Start(f) + (i + Extra(f)) = Start(f) + i + Extra(f)
  BY <1>2, <1>8
<1>17. middle[1 + Extra(f)] = Forms[f].probe /\ (Extra(f) = 1 => middle[1] = PEEK(ad, inAddress + 1))
  <2>1. CASE Extra(f) = 0 /\ middle = <<Forms[f].probe>>
    BY <2>1
  <2>2. CASE Extra(f) = 1 /\ middle = <<PEEK(ad, inAddress + 1), Forms[f].probe>>
    BY <2>2
  <2> QED BY <1>6, <2>1, <2>2
<1>18. (Extra(f) = 0 /\ Forms[f].before = <<>>) \/ (Extra(f) = 1 /\ Forms[f].before # <<>>)
  BY <1>6
<1> QED BY <1>1, <1>2, <1>10, <1>11, <1>13, <1>14, <1>15, <1>16, <1>17, <1>18 DEF first, last

-----------------------------------------------------------------------------
(***************************************************************************)
(* A step of run() is the instruction at ip.                               *)
(***************************************************************************)

\* The instructions of a probe's program are the machine's, whatever else it has.
LEMMA InstructionAt ==
  ASSUME ip \in Address, control = "run", clock > 0, clock \in Int, MachineStep
  PROVE  /\ Code[ip] = Abstracted(now)
         /\ now.op = "FUNC" => Func /\ UNCHANGED memory
         /\ now.op = "RETU" => Retu /\ UNCHANGED memory
         /\ now.op = "MOVE" => Succeeds /\ Store(CellOf(now.a), V1)
         /\ now.op = "ADRL" => Adrl
         /\ now.op = "PEEK" => Peek
         /\ now.op = "POKE" => Poke
         /\ now.op = "GETL" => Getl
         /\ now.op = "SETL" => Setl
         /\ now.op = "COPY" => Copy
<1>1. Code[ip] = Abstracted(now) BY MachineAssumption DEF ProgramAssembled, now
<1>2. Code[ip].op = OpOf(now) BY <1>1 DEF Abstracted
<1>3. ~TimeOut BY DEF TimeOut
<1>4. CASE now.op = "FUNC"
  <2>1. Code[ip].op = "FUNC" BY <1>2, <1>4 DEF OpOf, Branches
  <2>2. Func /\ UNCHANGED memory
    BY <1>3, <1>4, <2>1 DEF MachineStep, Retu, CallNative, Execute, DataInstruction, Compute, Peek, Poke,
       Getl, Setl, Adrl, Copy, Branch, For, Goto, Switch, CallFunction, IntegerOps, FloatOps
  <2> QED BY <1>1, <1>4, <2>2
<1>5. CASE now.op = "RETU"
  <2>1. Code[ip].op = "RETU" BY <1>2, <1>5 DEF OpOf, Branches
  <2>2. Retu /\ UNCHANGED memory
    BY <1>3, <1>5, <2>1 DEF MachineStep, Func, CallNative, Execute, DataInstruction, Compute, Peek, Poke,
       Getl, Setl, Adrl, Copy, Branch, For, Goto, Switch, CallFunction, IntegerOps, FloatOps
  <2> QED BY <1>1, <1>5, <2>2
<1>6. CASE now.op \in AccessOps \cup {"MOVE", "ADRL"}
  <2>1. Code[ip].op = "DATA" BY <1>2, <1>6 DEF OpOf, Branches, AccessOps
  <2>2. DataInstruction
    BY <1>3, <1>6, <2>1 DEF MachineStep, Func, Retu, CallNative, Execute, Branch, For, Goto, Switch,
       CallFunction, AccessOps
  <2>3. CASE now.op = "MOVE"
    <3>1. Compute BY <2>2, <2>3 DEF DataInstruction, Peek, Poke, Getl, Setl, Adrl, Copy
    <3>2. Succeeds /\ Store(CellOf(now.a), Integer(now.op, V1, V2))
      BY <2>3, <3>1 DEF Compute, FloatOps, IntegerOps, DividesByZero
    <3>3. Integer(now.op, V1, V2) = V1 BY <2>3 DEF Integer
    <3> QED BY <1>1, <2>3, <3>2, <3>3
  <2>4. CASE now.op # "MOVE"
    <3>1. ~Compute BY <1>6, <2>4 DEF Compute, FloatOps, IntegerOps, AccessOps
    <3> QED BY <1>1, <1>6, <2>2, <2>4, <3>1 DEF DataInstruction, Peek, Poke, Getl, Setl, Adrl, Copy, AccessOps
  <2> QED BY <2>3, <2>4
<1>7. CASE now.op \notin AccessOps \cup {"MOVE", "ADRL", "FUNC", "RETU"}
  BY <1>1, <1>7 DEF AccessOps
<1> QED BY <1>4, <1>5, <1>6, <1>7

\* A data instruction that succeeds goes on to the next and touches no stack.
LEMMA SucceedsSteps ==
  ASSUME Succeeds, ip \in Int
  PROVE  /\ ip' = ip + 1 /\ clock' = clock - 1 /\ dsp' = dsp
         /\ ipStack' = ipStack /\ natives' = natives /\ control' = "run"
BY DEF Succeeds, Data, Execute, Continue, Fail

\* One whose check fails ends run() with one of its statuses, and changes no memory.
LEMMA FailsSteps ==
  ASSUME FailsAlone, ip \in Int, natives = <<>>
  PROVE  result' \in Code[ip].errors /\ control' = "host" /\ UNCHANGED memory
BY DEF FailsAlone, Data, Fail, Return

-----------------------------------------------------------------------------
(***************************************************************************)
(* A probe's program, step by step.                                        *)
(***************************************************************************)

\* What enterCall leaves for the RETU of a processor that was idle.
Entered == << [ip |-> 0, dsp |-> 0], [ip |-> 0, dsp |-> NativeReturn] >>

\* run() has executed k instructions of the program.
InProbe(k) ==
  /\ control = "run" /\ natives = <<>> /\ ipStack = Entered
  /\ ip = Start(probe.form) + k
  /\ dsp = IF k = 0 THEN 0 ELSE FrameSize
  /\ clock = Max(Budgets) - k

\* What the first k instructions, all before the probe, have loaded into the frame.
Loaded(m, k) ==
  /\ \A cell \in Cell \ Exempt : m[cell] = Image(probe)[cell]
  /\ k > 1 => m[stackBase] = probe.pa
  /\ k > 2 => m[stackBase + 1] = probe.ix
  /\ k > 3 => m[stackBase + 2] = probe.vl
  /\ k > 7 => m[stackBase + 4] = probe.ix

\* The probe is one of an instruction that accesses memory.
Probing ==
  /\ MInv
  /\ probe \in Probes
  /\ ins.op \in AccessOps

\* Its program.
LEMMA ProbeProgram ==
  ASSUME Probing
  PROVE  /\ probe.form \in DOMAIN Forms /\ ins = Forms[probe.form].probe
         /\ AccessForm(Forms[probe.form])
         /\ Start(probe.form) \in Int /\ Extra(probe.form) \in {0, 1}
         /\ \/ Extra(probe.form) = 0 /\ Forms[probe.form].before = <<>>
            \/ Extra(probe.form) = 1 /\ Forms[probe.form].before # <<>>
         /\ Extra(probe.form) = 1 => Program[Start(probe.form) + 7] = PEEK(ad, inAddress + 1)
         /\ \A k \in 0 .. 9 + Extra(probe.form) : Start(probe.form) + k \in Address
         /\ Program[Start(probe.form)] = FUNC(FrameSize, 0)
         /\ Program[Start(probe.form) + 1] = PEEK(pa, inAddress)
         /\ Program[Start(probe.form) + 2] = PEEK(ix, inAddress + 1)
         /\ Program[Start(probe.form) + 3] = PEEK(vl, inAddress + 2)
         /\ Program[Start(probe.form) + 4] = MOVE(rs, C(0))
         /\ Program[Start(probe.form) + 5] = Ins("ADRL", ad, ar, Unused)
         /\ Program[Start(probe.form) + 6] = POKE(outAddress + 1, ad)
         /\ Program[Start(probe.form) + 7 + Extra(probe.form)] = Forms[probe.form].probe
         /\ Program[Start(probe.form) + 8 + Extra(probe.form)] = POKE(outAddress, rs)
         /\ Program[Start(probe.form) + 9 + Extra(probe.form)] = RETU
<1>1. PICK f \in DOMAIN Forms : probe.form = f /\ probe.ins = Forms[f].probe
  BY ImageCells DEF Probing
<1>2. Forms[f].probe.op \in AccessOps BY <1>1 DEF Probing, ins
<1>3. ins = Forms[f].probe BY <1>1 DEF ins
<1>4. f \in DOMAIN Forms /\ AccessForm(Forms[f]) /\ Start(f) \in Int
  BY <1>2, Instructions
<1>5. \/ Extra(f) = 0 /\ Forms[f].before = <<>>
      \/ Extra(f) = 1 /\ Forms[f].before # <<>> /\ Program[Start(f) + 7] = PEEK(ad, inAddress + 1)
  BY <1>2, Instructions
<1>6. \A k \in 0 .. 9 + Extra(f) : Start(f) + k \in Address BY <1>2, Instructions
<1>7. /\ Program[Start(f)] = FUNC(FrameSize, 0)
      /\ Program[Start(f) + 1] = PEEK(pa, inAddress)
      /\ Program[Start(f) + 2] = PEEK(ix, inAddress + 1)
      /\ Program[Start(f) + 3] = PEEK(vl, inAddress + 2)
      /\ Program[Start(f) + 4] = MOVE(rs, C(0))
      /\ Program[Start(f) + 5] = Ins("ADRL", ad, ar, Unused)
      /\ Program[Start(f) + 6] = POKE(outAddress + 1, ad)
      /\ Program[Start(f) + 7 + Extra(f)] = Forms[f].probe
      /\ Program[Start(f) + 8 + Extra(f)] = POKE(outAddress, rs)
      /\ Program[Start(f) + 9 + Extra(f)] = RETU
  BY <1>2, Instructions
<1>8. Extra(f) \in {0, 1} /\ (Extra(f) = 1 => Program[Start(f) + 7] = PEEK(ad, inAddress + 1)) BY <1>5
<1> QED BY <1>1, <1>3, <1>4, <1>5, <1>6, <1>7, <1>8

\* The cells the program writes itself, and those the host stored its words in.
LEMMA ProgramCells ==
  /\ stackBase \in Exempt /\ stackBase + 1 \in Exempt /\ stackBase + 2 \in Exempt
  /\ stackBase + 3 \in Exempt /\ stackBase + 4 \in Exempt
  /\ constantsSize + 3 \in Exempt /\ constantsSize + 4 \in Exempt
  /\ constantsSize \in Cell \ Exempt /\ constantsSize + 1 \in Cell \ Exempt
  /\ constantsSize + 2 \in Cell \ Exempt
  /\ constantsSize \in Int
  /\ \A i \in 0 .. 8 : stackBase + i \in Cell
  /\ constantsSize + 3 \in Cell /\ constantsSize + 4 \in Cell
  /\ \A cell \in Exempt : cell \in Int
BY GlobalCells, SweepSizes, MemoryTypes DEF Exempt, Cell, FrameSize

\* The budget is enough for every program.
LEMMA EnoughSteps == Max(Budgets) \in Nat /\ Max(Budgets) >= 12 /\ Max(Budgets) \in Int
<1> DEFINE most == Max(Budgets)
<1>1. most \in Budgets /\ most >= 12 BY SweepAssumption DEF ProbeSteps
<1> HIDE DEF most
<1>2. most \in Nat BY <1>1, HostAssumption
<1>3. most \in Nat /\ most >= 12 /\ most \in Int BY <1>1, <1>2
<1> QED BY <1>3 DEF most

\* The step at ip in a probe's program.
LEMMA ProbeStep ==
  ASSUME Probing, NEW k \in 0 .. 9 + Extra(probe.form), InProbe(k), MachineStep
  PROVE  /\ now = Program[Start(probe.form) + k]
         /\ ip \in Address /\ ip \in Int /\ dsp \in Int
         /\ control = "run" /\ clock > 0 /\ clock \in Int
         /\ Code[ip] = Abstracted(now)
         /\ MemoryTypeOK
<1>1. probe.form \in DOMAIN Forms /\ ins = Forms[probe.form].probe
  BY ProbeProgram
<1>2. Start(probe.form) + k \in Address /\ Start(probe.form) \in Int /\ Extra(probe.form) \in {0, 1}
  BY ProbeProgram
<1>3. Max(Budgets) \in Nat /\ Max(Budgets) >= 12
  BY EnoughSteps
<1>4. clock > 0 /\ clock \in Int BY <1>2, <1>3 DEF InProbe
<1>5. ip \in Address /\ ip \in Int BY <1>2 DEF InProbe, Address
<1>6. dsp \in Int BY DEF InProbe, FrameSize
<1>7. Code[ip] = Abstracted(now) BY <1>5, MachineAssumption DEF ProgramAssembled, now
<1> QED BY <1>4, <1>5, <1>6, <1>7 DEF InProbe, now, Probing, MInv

\* FUNC, which the stack has room for.
LEMMA FuncStep ==
  ASSUME Probing, InProbe(0), Loaded(memory, 0), MachineStep, UNCHANGED probe
  PROVE  InProbe(1)' /\ Loaded(memory', 1)
<1>1. probe.form \in DOMAIN Forms /\ ins = Forms[probe.form].probe
  BY ProbeProgram
<1>2. Start(probe.form) \in Int /\ Extra(probe.form) \in {0, 1} /\ Program[Start(probe.form)] = FUNC(FrameSize, 0)
  BY ProbeProgram
<1>3. 0 \in 0 .. 9 + Extra(probe.form) /\ Start(probe.form) + 0 = Start(probe.form) BY <1>2
<1>4. /\ now = FUNC(FrameSize, 0) /\ ip \in Address /\ ip \in Int
      /\ control = "run" /\ clock > 0 /\ clock \in Int /\ Code[ip] = Abstracted(now)
  BY <1>2, <1>3, ProbeStep
<1>5. now.op = "FUNC" /\ now.a.n = 9 /\ now.b.n = 0 BY <1>4 DEF FUNC, Ins, C, FrameSize
<1>6. Func /\ UNCHANGED memory BY <1>4, <1>5, InstructionAt
<1>7. Code[ip].p0 = 9 /\ Code[ip].p1 = 0 BY <1>4, <1>5 DEF Abstracted
<1>8. dsp = 0 BY DEF InProbe
<1>9. FrameFits(ip, dsp) BY <1>7, <1>8, SweepSizes DEF FrameFits
<1>10. /\ dsp' = 9 /\ ip' = ip + 1 /\ clock' = clock - 1
       /\ control' = control /\ natives' = natives /\ ipStack' = ipStack
  BY <1>6, <1>7, <1>8, <1>9 DEF Func, Execute, Continue
<1>11. Max(Budgets) \in Int BY EnoughSteps
<1>12. InProbe(1)'
  BY <1>2, <1>10, <1>11 DEF InProbe, FrameSize
<1>13. Loaded(memory', 1) BY <1>6 DEF Loaded
<1> QED BY <1>12, <1>13

\* A word stored in the frame, by the instructions before the probe, each in its turn.
LEMMA LoadStep ==
  ASSUME Probing, NEW k \in 1 .. 7, Loaded(memory, k),
         NEW cell \in Exempt, NEW word, cell \in Cell, Store(cell, word),
         k = 1 => cell = stackBase /\ word = probe.pa,
         k = 2 => cell = stackBase + 1 /\ word = probe.ix,
         k = 3 => cell = stackBase + 2 /\ word = probe.vl,
         k \in {4, 5, 6} => cell \notin {stackBase, stackBase + 1, stackBase + 2},
         k = 7 => cell = stackBase + 4 /\ word = probe.ix
  PROVE  Loaded(memory', k + 1)
<1>1. memory' = [memory EXCEPT ![cell] = word] /\ DOMAIN memory = Cell
  BY DEF Store, Probing, MInv, MemoryTypeOK
<1>2. memory'[cell] = word /\ \A other \in Cell : other # cell => memory'[other] = memory[other]
  BY <1>1
<1>3. stackBase \in Int /\ \A i \in 0 .. 8 : stackBase + i \in Cell BY SweepSizes, ProgramCells
<1>4. stackBase \in Cell /\ stackBase + 1 \in Cell /\ stackBase + 2 \in Cell /\ stackBase + 4 \in Cell
  <2>1. stackBase + 0 \in Cell BY <1>3
  <2> QED BY <1>3, <2>1
<1>5. \A other \in Cell \ Exempt : memory'[other] = Image(probe)[other] BY <1>2 DEF Loaded
<1>6. memory'[stackBase] = probe.pa
  BY <1>2, <1>3, <1>4 DEF Loaded
<1>7. k + 1 > 2 => memory'[stackBase + 1] = probe.ix
  BY <1>2, <1>3, <1>4 DEF Loaded
<1>8. k + 1 > 3 => memory'[stackBase + 2] = probe.vl
  BY <1>2, <1>3, <1>4 DEF Loaded
<1>9. k + 1 > 7 => memory'[stackBase + 4] = probe.ix
  BY <1>2, <1>3, <1>4 DEF Loaded
<1> QED BY <1>5, <1>6, <1>7, <1>8, <1>9 DEF Loaded

\* The operands of the program's own instructions.
LEMMA ProgramOperands ==
  ASSUME dsp = FrameSize
  PROVE  /\ CellOf(pa) = stackBase /\ CellOf(ix) = stackBase + 1 /\ CellOf(vl) = stackBase + 2
         /\ CellOf(rs) = stackBase + 3 /\ CellOf(ad) = stackBase + 4 /\ CellOf(ar) = stackBase + 5
         /\ Value(C(inAddress)) = inAddress /\ Value(C(inAddress + 1)) = inAddress + 1
         /\ Value(C(inAddress + 2)) = inAddress + 2
         /\ Value(C(outAddress)) = outAddress /\ Value(C(outAddress + 1)) = outAddress + 1
<1>1. stackBase \in Nat BY SweepSizes
<1>2. /\ CellOf(pa) = stackBase /\ CellOf(ix) = stackBase + 1 /\ CellOf(vl) = stackBase + 2
      /\ CellOf(rs) = stackBase + 3 /\ CellOf(ad) = stackBase + 4 /\ CellOf(ar) = stackBase + 5
  BY <1>1 DEF CellOf, FrameSize, pa, ix, vl, rs, ad, ar, V
<1>3. ASSUME NEW w \in Word PROVE Value(C(w)) = w
  <2>1. w \in Int BY MemoryTypes DEF Word
  <2> QED BY <2>1, Conversions DEF Value, C
<1> QED BY <1>2, <1>3, GlobalCells

\* A word loaded from `in`, or stored in `out`: an address that run() does not check.
LEMMA PeekStep ==
  ASSUME Peek, NEW operand, NEW address \in Word, now = PEEK(operand, address)
  PROVE  Succeeds /\ Store(CellOf(operand), memory[CellAt(address)])
<1>1. now.op = "PEEK" /\ now.c = Unused /\ now.a = operand /\ now.b = C(address) BY DEF PEEK, Ins
<1>2. V1 = address
  <2>1. address \in Int BY MemoryTypes DEF Word
  <2> QED BY <1>1, <2>1, Conversions DEF V1, Value, C
<1> QED BY <1>1, <1>2 DEF Peek

\* So are those stored.
LEMMA PokeStep ==
  ASSUME Poke, NEW operand, NEW address \in Word, now = POKE(address, operand)
  PROVE  Succeeds /\ Store(CellAt(address), Value(operand))
<1>1. now.op = "POKE" /\ now.c = Unused /\ now.a = C(address) /\ now.b = operand BY DEF POKE, Ins
<1>2. V0 = address /\ V1 = Value(operand)
  <2>1. address \in Int BY MemoryTypes DEF Word
  <2> QED BY <1>1, <2>1, Conversions DEF V0, V1, Value, C
<1> QED BY <1>1, <1>2 DEF Poke

\* Each instruction before the probe, after FUNC, loads what it should and goes on.
LEMMA BeforeStep ==
  ASSUME Probing, NEW k \in 1 .. 6 + Extra(probe.form), InProbe(k), Loaded(memory, k), MachineStep, UNCHANGED probe
  PROVE  InProbe(k + 1)' /\ Loaded(memory', k + 1)
<1> DEFINE S == Start(probe.form)
<1>1. probe.form \in DOMAIN Forms /\ ins = Forms[probe.form].probe
  BY ProbeProgram
<1>2. /\ S \in Int /\ Extra(probe.form) \in {0, 1}
      /\ Extra(probe.form) = 1 => Program[S + 7] = PEEK(ad, inAddress + 1)
      /\ Program[S + 1] = PEEK(pa, inAddress) /\ Program[S + 2] = PEEK(ix, inAddress + 1)
      /\ Program[S + 3] = PEEK(vl, inAddress + 2) /\ Program[S + 4] = MOVE(rs, C(0))
      /\ Program[S + 5] = Ins("ADRL", ad, ar, Unused) /\ Program[S + 6] = POKE(outAddress + 1, ad)
  BY ProbeProgram
<1>3. k \in 1 .. 7 /\ k \in 0 .. 9 + Extra(probe.form) /\ (k = 7 => Extra(probe.form) = 1) BY <1>2
<1>4. /\ now = Program[S + k] /\ ip \in Address /\ ip \in Int /\ dsp \in Int
      /\ control = "run" /\ clock > 0 /\ clock \in Int /\ MemoryTypeOK
  BY <1>3, ProbeStep
<1>5. dsp = FrameSize BY <1>3 DEF InProbe
<1>6. /\ memory[constantsSize] = probe.pa /\ memory[constantsSize + 1] = probe.ix
      /\ memory[constantsSize + 2] = probe.vl
  BY ProgramCells, ImageCells DEF Loaded, Probing
<1>7. Succeeds /\ Loaded(memory', k + 1)
  <2> HIDE DEF S
  <2>1. CASE k = 1
    <3>1. now = PEEK(pa, inAddress) BY <1>2, <1>4, <2>1
    <3>2. Peek BY <1>4, <3>1, InstructionAt DEF PEEK, Ins
    <3>3. Succeeds /\ Store(stackBase, probe.pa)
      BY <1>5, <1>6, <3>1, <3>2, PeekStep, GlobalCells, ProgramOperands
    <3>4. stackBase \in Cell BY ProgramCells, SweepSizes, MemoryTypes, GlobalCells DEF Cell
    <3> QED BY <1>3, <2>1, <3>3, <3>4, LoadStep, ProgramCells
  <2>2. CASE k = 2
    <3>1. now = PEEK(ix, inAddress + 1) BY <1>2, <1>4, <2>2
    <3>2. Peek BY <1>4, <3>1, InstructionAt DEF PEEK, Ins
    <3>3. Succeeds /\ Store(stackBase + 1, probe.ix)
      BY <1>5, <1>6, <3>1, <3>2, PeekStep, GlobalCells, ProgramOperands
    <3>4. stackBase + 1 \in Cell BY ProgramCells
    <3> QED BY <1>3, <2>2, <3>3, <3>4, LoadStep, ProgramCells
  <2>3. CASE k = 3
    <3>1. now = PEEK(vl, inAddress + 2) BY <1>2, <1>4, <2>3
    <3>2. Peek BY <1>4, <3>1, InstructionAt DEF PEEK, Ins
    <3>3. Succeeds /\ Store(stackBase + 2, probe.vl)
      BY <1>5, <1>6, <3>1, <3>2, PeekStep, GlobalCells, ProgramOperands
    <3>4. stackBase + 2 \in Cell BY ProgramCells
    <3> QED BY <1>3, <2>3, <3>3, <3>4, LoadStep, ProgramCells
  <2>4. CASE k = 4
    <3>1. now = MOVE(rs, C(0)) BY <1>2, <1>4, <2>4
    <3>2. now.op = "MOVE" /\ now.a = rs BY <3>1 DEF MOVE, Ins
    <3>3. Succeeds /\ Store(stackBase + 3, V1) BY <1>4, <1>5, <3>2, InstructionAt, ProgramOperands
    <3>4. stackBase + 3 \in Cell BY ProgramCells
    <3>5. stackBase + 3 \notin {stackBase, stackBase + 1, stackBase + 2} BY SweepSizes
    <3> QED BY <1>3, <2>4, <3>3, <3>4, <3>5, LoadStep, ProgramCells
  <2>5. CASE k = 5
    <3>1. now = Ins("ADRL", ad, ar, Unused) BY <1>2, <1>4, <2>5
    <3>2. now.op = "ADRL" /\ now.a = ad BY <3>1 DEF Ins
    <3>3. Succeeds /\ Store(stackBase + 4, ToWord(PointerTo(CellOf(now.b))))
      BY <1>4, <1>5, <3>2, InstructionAt, ProgramOperands DEF Adrl
    <3>4. stackBase + 4 \in Cell BY ProgramCells
    <3>5. stackBase + 4 \notin {stackBase, stackBase + 1, stackBase + 2} BY SweepSizes
    <3> QED BY <1>3, <2>5, <3>3, <3>4, <3>5, LoadStep, ProgramCells
  <2>6. CASE k = 6
    <3>1. now = POKE(outAddress + 1, ad) BY <1>2, <1>4, <2>6
    <3>2. Poke BY <1>4, <3>1, InstructionAt DEF POKE, Ins
    <3>3. Succeeds /\ Store(constantsSize + 4, Value(ad))
      BY <3>1, <3>2, PokeStep, GlobalCells
    <3>4. constantsSize + 4 \in Cell BY ProgramCells
    <3>5. constantsSize + 4 \notin {stackBase, stackBase + 1, stackBase + 2} BY SweepSizes, GlobalCells, ProgramCells
    <3> QED BY <1>3, <2>6, <3>3, <3>4, <3>5, LoadStep, ProgramCells
  <2>7. CASE k = 7
    <3>1. now = PEEK(ad, inAddress + 1) BY <1>2, <1>3, <1>4, <2>7
    <3>2. Peek BY <1>4, <3>1, InstructionAt DEF PEEK, Ins
    <3>3. Succeeds /\ Store(stackBase + 4, probe.ix)
      BY <1>5, <1>6, <3>1, <3>2, PeekStep, GlobalCells, ProgramOperands
    <3>4. stackBase + 4 \in Cell BY ProgramCells
    <3> QED BY <1>3, <2>7, <3>3, <3>4, LoadStep, ProgramCells
  <2> QED BY <1>3, <2>1, <2>2, <2>3, <2>4, <2>5, <2>6, <2>7
<1>8. InProbe(k + 1)'
  <2>1. /\ ip' = ip + 1 /\ clock' = clock - 1 /\ dsp' = dsp
        /\ ipStack' = ipStack /\ natives' = natives /\ control' = "run"
    BY <1>4, <1>7, SucceedsSteps
  <2>2. Max(Budgets) \in Int BY EnoughSteps
  <2>3. Start(probe'.form) = S BY DEF S
  <2> HIDE DEF S
  <2>4. ip' = S + (k + 1) BY <1>2, <1>3, <2>1 DEF InProbe, S
  <2>5. clock' = Max(Budgets) - (k + 1) BY <1>3, <2>1, <2>2 DEF InProbe
  <2>6. dsp' = IF k + 1 = 0 THEN 0 ELSE FrameSize BY <1>3, <1>5, <2>1
  <2> QED BY <2>1, <2>3, <2>4, <2>5, <2>6 DEF InProbe
<1> QED BY <1>7, <1>8

-----------------------------------------------------------------------------
(***************************************************************************)
(* The probe itself.                                                       *)
(***************************************************************************)

\* What a probe that does not fail has done to memory m.
Effect(m) ==
  /\ Valid
  /\ \A cell \in Cell : Known(cell) => m[cell] = Wanted(cell)
  /\ RESULT \in DOMAIN Transfers /\ Transfers[RESULT] \notin Exempt =>
       m[stackBase + 3] = Image(probe)[Transfers[RESULT]]

\* A pointer and an index are added as words, or as the oracle does.
LEMMA IndexedPointer ==
  ASSUME NEW x \in Word, NEW y \in Word
  PROVE  Plus(x, y) = (x + y) % WordCount /\ (x + 0) % WordCount = x
<1>1. WordCount \in Nat \ {0} /\ x \in Int /\ y \in Int BY MemoryTypes DEF Word
<1>2. x + 0 = x /\ x % WordCount = x BY <1>1, Remainder DEF Word
<1>3. CASE x + y < WordCount
  <2>1. x + y \in 0 .. WordCount - 1 BY <1>1, <1>3 DEF Word
  <2>2. x + y \in Int BY <1>1
  <2>3. \A i \in Int : i \in 0 .. WordCount - 1 => i % WordCount = i BY <1>1, Remainder
  <2>4. (x + y) % WordCount = x + y BY <2>1, <2>2, <2>3
  <2> QED BY <1>2, <1>3, <2>4 DEF Plus
<1>4. CASE ~(x + y < WordCount)
  <2>1. x + y \in WordCount .. 2 * WordCount - 1 BY <1>1, <1>4 DEF Word
  <2>2. \A n \in Nat \ {0} : \A a \in n .. 2 * n - 1 : a % n = a - n
    OBVIOUS
  <2>3. (x + y) % WordCount = x + y - WordCount BY <1>1, <2>1, <2>2, SMTT(30)
  <2> QED BY <1>2, <1>4, <2>3 DEF Plus
<1> QED BY <1>3, <1>4

\* The locals' words are those the host stored, and a constant is a constant.
LEMMA GivenValue ==
  ASSUME Probing, NEW k \in {7 + Extra(probe.form)}, Loaded(memory, k), dsp = FrameSize,
         NEW operand, Input(Forms[probe.form], operand)
  PROVE  Value(operand) = Given(operand) /\ Given(operand) \in Word
<1>1. probe.form \in DOMAIN Forms /\ ins = Forms[probe.form].probe
      /\ probe.pa \in Word /\ probe.ix \in Word /\ probe.vl \in Word
  BY ImageCells DEF Probing, ins
<1>2. \/ Extra(probe.form) = 0 /\ Forms[probe.form].before = <<>>
      \/ Extra(probe.form) = 1 /\ Forms[probe.form].before # <<>>
  BY ProbeProgram
<1>3. /\ memory[stackBase] = probe.pa /\ memory[stackBase + 1] = probe.ix /\ memory[stackBase + 2] = probe.vl
      /\ k > 7 => memory[stackBase + 4] = probe.ix
  BY <1>2 DEF Loaded
<1>4. /\ pa.kind = "V" /\ ix.kind = "V" /\ vl.kind = "V" /\ ad.kind = "V"
      /\ pa # ix /\ pa # vl /\ ix # vl /\ pa # ad /\ ix # ad /\ vl # ad
      /\ pa # Unused /\ ix # Unused /\ vl # Unused /\ ad # Unused
  BY DEF pa, ix, vl, ad, V, Unused
<1>5. CASE operand \in [kind : {"C"}, n : Int]
  <2>1. operand.kind = "C" /\ operand.n \in Int BY <1>5
  <2>2. operand \notin {pa, ix, vl, ad, Unused} BY <1>4, <2>1 DEF Unused
  <2>3. Given(operand) = ToWord(operand.n) BY <2>1, <2>2 DEF Given
  <2> QED BY <2>1, <2>3, Conversions DEF Value
<1>6. CASE operand = pa
  <2>1. Given(operand) = probe.pa BY <1>4, <1>6 DEF Given
  <2> QED BY <1>1, <1>3, <1>4, <1>6, <2>1, ProgramOperands DEF Value
<1>7. CASE operand = ix
  <2>1. Given(operand) = probe.ix BY <1>4, <1>7 DEF Given
  <2> QED BY <1>1, <1>3, <1>4, <1>7, <2>1, ProgramOperands DEF Value
<1>8. CASE operand = vl
  <2>1. Given(operand) = probe.vl BY <1>4, <1>8 DEF Given
  <2> QED BY <1>1, <1>3, <1>4, <1>8, <2>1, ProgramOperands DEF Value
<1>9. CASE operand = ad /\ Forms[probe.form].before # <<>>
  <2>1. Given(operand) = probe.ix BY <1>4, <1>9 DEF Given
  <2>2. k > 7 BY <1>2, <1>9
  <2> QED BY <1>1, <1>3, <1>4, <1>9, <2>1, <2>2, ProgramOperands DEF Value
<1> QED BY <1>5, <1>6, <1>7, <1>8, <1>9 DEF Input

\* An operand that is not there adds nothing.
LEMMA GivenUnused == Given(Unused) = 0
<1>1. /\ Unused.kind = "-" /\ pa.kind = "V" /\ ix.kind = "V" /\ vl.kind = "V" /\ ad.kind = "V"
  BY DEF pa, ix, vl, ad, V, Unused
<1>2. Unused \notin {pa, ix, vl, ad} BY <1>1
<1> QED BY <1>1, <1>2 DEF Given

\* What an instruction that reads a word does.
LEMMA ReadEffect ==
  ASSUME Probing, NEW k, Loaded(memory, k), Valid,
         NEW source \in Cell, Transfers = [cell \in {RESULT} |-> source], Writes = <<>>,
         Store(stackBase + 3, memory[source])
  PROVE  Effect(memory')
<1>1. memory' = [memory EXCEPT ![stackBase + 3] = memory[source]] /\ DOMAIN memory = Cell
  BY DEF Store, Probing, MInv, MemoryTypeOK
<1>2. stackBase + 3 \in Cell /\ stackBase + 3 \in Exempt BY ProgramCells
<1>3. DOMAIN Transfers = {RESULT} /\ Transfers[RESULT] = source /\ DOMAIN Writes = {}
  OBVIOUS
<1>4. RESULT \notin Cell BY MemoryTypes DEF RESULT, Cell
<1>5. ASSUME NEW cell \in Cell, Known(cell) PROVE memory'[cell] = Wanted(cell)
  <2>1. cell \notin Exempt BY <1>5 DEF Known
  <2>2. cell # stackBase + 3 BY <1>2, <2>1
  <2>3. memory'[cell] = memory[cell] BY <1>1, <2>2
  <2>4. memory[cell] = Image(probe)[cell] BY <2>1 DEF Loaded
  <2>5. cell \notin DOMAIN Transfers /\ cell \notin DOMAIN Writes BY <1>3, <1>4
  <2>6. Wanted(cell) = Image(probe)[cell] BY <2>5 DEF Wanted
  <2> QED BY <2>3, <2>4, <2>6
<1>6. memory'[stackBase + 3] = memory[source] BY <1>1, <1>2
<1>7. source \notin Exempt => memory[source] = Image(probe)[source] BY DEF Loaded
<1> QED BY <1>3, <1>5, <1>6, <1>7 DEF Effect

\* What an instruction that writes a word does.
LEMMA WriteEffect ==
  ASSUME Probing, NEW k, Loaded(memory, k), Valid,
         NEW target \in Cell, NEW word, Transfers = <<>>, Writes = [cell \in {target} |-> word],
         Store(target, word)
  PROVE  Effect(memory')
<1>1. memory' = [memory EXCEPT ![target] = word] /\ DOMAIN memory = Cell
  BY DEF Store, Probing, MInv, MemoryTypeOK
<1>2. DOMAIN Transfers = {} /\ DOMAIN Writes = {target} /\ Writes[target] = word
  OBVIOUS
<1>3. ASSUME NEW cell \in Cell, Known(cell) PROVE memory'[cell] = Wanted(cell)
  <2>1. cell \notin Exempt BY <1>3 DEF Known
  <2>2. memory[cell] = Image(probe)[cell] BY <2>1 DEF Loaded
  <2>3. CASE cell = target
    <3>1. Wanted(cell) = word BY <1>2, <2>3 DEF Wanted
    <3> QED BY <1>1, <2>3, <3>1
  <2>4. CASE cell # target
    <3>1. Wanted(cell) = Image(probe)[cell] BY <1>2, <2>4 DEF Wanted
    <3> QED BY <1>1, <2>2, <2>4, <3>1
  <2> QED BY <2>3, <2>4
<1>4. RESULT \notin DOMAIN Transfers BY <1>2
<1> QED BY <1>3, <1>4 DEF Effect

\* The probe's instruction: its operands are inputs, and its one error is the oracle's.
AtProbe ==
  /\ Probing
  /\ InProbe(7 + Extra(probe.form)) /\ Loaded(memory, 7 + Extra(probe.form))
  /\ ip \in Address /\ dsp \in Int /\ dsp = FrameSize
  /\ now = ins /\ AccessForm(Forms[probe.form]) /\ ins = Forms[probe.form].probe
  /\ Code[ip] = Abstracted(now)

\* The probe either does what the oracle says of a valid access, or fails as it says of another.
Probed ==
  \/ Succeeds /\ Effect(memory')
  \/ FailsAlone /\ ~Valid /\ Code[ip].errors = {FailStatus}

\* A word at an address of memory, by its pointer.
LEMMA PeekProbed ==
  ASSUME AtProbe, Peek
  PROVE  Probed
<1> DEFINE form == Forms[probe.form]
           pointer == IF now.c = Unused THEN V1 ELSE Plus(V1, V2)
<1>1. now.op = "PEEK" /\ ins.op = "PEEK" BY DEF Peek, AtProbe
<1>2. /\ ins.a = rs /\ Input(form, ins.b)
      /\ IF ins.c = Unused THEN ins.b.kind = "C" /\ Readable(ToWord(ins.b.n), 1) ELSE Input(form, ins.c)
  BY <1>1 DEF AtProbe, AccessForm
<1>3. V1 = Given(ins.b) /\ Given(ins.b) \in Word BY <1>2, GivenValue DEF AtProbe, V1
<1>4. ins.c # Unused => V2 = Given(ins.c) /\ Given(ins.c) \in Word
  BY <1>2, GivenValue DEF AtProbe, V2
<1>5. pointer = Target(ins.b, ins.c) /\ pointer \in Word
  <2>1. CASE ins.c = Unused BY <1>3, <2>1, GivenUnused, IndexedPointer DEF Target, AtProbe
  <2>2. CASE ins.c # Unused BY <1>3, <1>4, <2>2, IndexedPointer, SumsInWord DEF Target, AtProbe
  <2> QED BY <2>1, <2>2
<1> HIDE DEF pointer
<1>6. Readable(pointer, 1) <=> CellAt(pointer) \in 0 .. memorySize - 1
  BY <1>5, MemoryTypes DEF Readable, inRange, low, CellAt, Word
<1>7. Valid <=> Readable(pointer, 1) BY <1>1, <1>5 DEF Valid
<1>8. ins.c = Unused => Valid
  <2> SUFFICES ASSUME ins.c = Unused PROVE Readable(pointer, 1)
    BY <1>7
  <2>1. pointer = ToWord(ins.b.n) BY <1>2, <1>3 DEF pointer, V1, Value, AtProbe
  <2> QED BY <1>2, <2>1
<1>9. \/ Valid /\ Succeeds /\ Store(CellOf(rs), memory[CellAt(pointer)])
      \/ ins.c # Unused /\ ~Valid /\ FailsAlone
  BY <1>2, <1>5, <1>6, <1>7, <1>8, PeekInside DEF Peek, AtProbe, pointer
<1>10. CASE Valid /\ Succeeds /\ Store(CellOf(rs), memory[CellAt(pointer)])
  <2>1. CellAt(pointer) \in Cell BY <1>6, <1>7, <1>10, MemoryTypes DEF Cell
  <2>2. Transfers = [cell \in {RESULT} |-> CellAt(pointer)] BY <1>1, <1>5 DEF Transfers
  <2>3. Writes = <<>> BY <1>1 DEF Writes
  <2>4. CellOf(rs) = stackBase + 3 BY ProgramOperands DEF AtProbe
  <2>5. Effect(memory') BY <1>10, <2>1, <2>2, <2>3, <2>4, ReadEffect DEF AtProbe
  <2> QED BY <1>10, <2>5 DEF Probed
<1>11. CASE ins.c # Unused /\ ~Valid /\ FailsAlone
  <2>1. Code[ip].errors = {"BAD_PEEK"} BY <1>1, <1>11 DEF AtProbe, Abstracted, ErrorsOf
  <2>2. FailStatus = "BAD_PEEK" BY <1>1 DEF FailStatus
  <2> QED BY <1>11, <2>1, <2>2 DEF Probed
<1> QED BY <1>9, <1>10, <1>11

\* One that is written.
LEMMA PokeProbed ==
  ASSUME AtProbe, Poke
  PROVE  Probed
<1> DEFINE form == Forms[probe.form]
           pointer == IF now.c = Unused THEN V0 ELSE Plus(V0, V1)
           word == IF now.c = Unused THEN V1 ELSE V2
<1>1. now.op = "POKE" /\ ins.op = "POKE" BY DEF Poke, AtProbe
<1>2. /\ Input(form, ins.a) /\ Input(form, ins.b)
      /\ IF ins.c = Unused THEN ins.a.kind = "C" /\ CanWrite(ToWord(ins.a.n), 1) ELSE Input(form, ins.c)
  BY <1>1 DEF AtProbe, AccessForm
<1>3. V0 = Given(ins.a) /\ Given(ins.a) \in Word /\ V1 = Given(ins.b) /\ Given(ins.b) \in Word
  BY <1>2, GivenValue DEF AtProbe, V0, V1
<1>4. ins.c # Unused => V2 = Given(ins.c) /\ Given(ins.c) \in Word
  BY <1>2, GivenValue DEF AtProbe, V2
<1>5. /\ pointer = IF ins.c = Unused THEN Given(ins.a) ELSE Target(ins.a, ins.b)
      /\ word = IF ins.c = Unused THEN Given(ins.b) ELSE Given(ins.c)
      /\ pointer \in Word
  <2>1. CASE ins.c = Unused BY <1>3, <2>1 DEF AtProbe
  <2>2. CASE ins.c # Unused BY <1>3, <1>4, <2>2, IndexedPointer, SumsInWord DEF Target, AtProbe
  <2> QED BY <2>1, <2>2
<1>6. \/ (now.c = Unused \/ MayPoke(pointer)) /\ Succeeds /\ Store(CellAt(pointer), word)
      \/ now.c # Unused /\ ~MayPoke(pointer) /\ FailsAlone
  BY DEF Poke
<1> HIDE DEF pointer, word
<1>7. CanWrite(pointer, 1) <=> CellAt(pointer) \in Writable
  BY <1>5, MemoryTypes DEF CanWrite, inRange, CellAt, Word, Writable
<1>8. Valid <=> CanWrite(pointer, 1) BY <1>1, <1>5 DEF Valid
<1>9. ins.c = Unused => Valid
  <2> SUFFICES ASSUME ins.c = Unused PROVE CanWrite(pointer, 1)
    BY <1>8
  <2>1. pointer = ToWord(ins.a.n) BY <1>2, <1>3, <1>5 DEF V0, Value, AtProbe
  <2> QED BY <1>2, <2>1
<1>10. \/ Valid /\ Succeeds /\ Store(CellAt(pointer), word)
       \/ ins.c # Unused /\ ~Valid /\ FailsAlone
  BY <1>5, <1>6, <1>7, <1>8, <1>9, PokeInside DEF AtProbe
<1>11. CASE Valid /\ Succeeds /\ Store(CellAt(pointer), word)
  <2>1. CellAt(pointer) \in Cell BY <1>7, <1>8, <1>11, WritableCells
  <2>2. Writes = [cell \in {CellAt(pointer)} |-> word]
    <3>1. CASE ins.c = Unused BY <1>1, <1>5, <3>1 DEF Writes
    <3>2. CASE ins.c # Unused BY <1>1, <1>5, <3>2 DEF Writes
    <3> QED BY <3>1, <3>2
  <2>3. Transfers = <<>> BY <1>1 DEF Transfers
  <2>4. Effect(memory') BY <1>11, <2>1, <2>2, <2>3, WriteEffect DEF AtProbe
  <2> QED BY <1>11, <2>4 DEF Probed
<1>12. CASE ins.c # Unused /\ ~Valid /\ FailsAlone
  <2>1. Code[ip].errors = {"BAD_POKE"} BY <1>1, <1>12 DEF AtProbe, Abstracted, ErrorsOf
  <2>2. FailStatus = "BAD_POKE" BY <1>1 DEF FailStatus
  <2> QED BY <1>12, <2>1, <2>2 DEF Probed
<1> QED BY <1>10, <1>11, <1>12

\* An index from a base is checked against the words of the stack from that base on: none, if the
\* base is at the end of the stack or past it.
LEMMA SlotInside ==
  ASSUME NEW base, Base(base), NEW index \in Word
  PROVE  /\ MayIndex(FrameSize, base.n, index, DataStackSize) <=>
              Signed(index) >= 0 /\ arCell(base) + Signed(index) < stackBase + DataStackSize
         /\ Signed(index) >= 0 => Signed(index) = index
         /\ arCell(base) \in Nat /\ stackBase <= arCell(base)
<1>1. FrameSize = 9 BY DEF FrameSize
<1>2. PICK n \in Int : base.n = n /\ -9 <= n /\ 2 * n < WordCount
  BY <1>1 DEF Base
<1>3. PICK room \in Int : room = DataStackSize - 9 - n
  BY <1>2, SweepSizes
<1>4. room <= DataStackSize /\ 2 * room < WordCount /\ 0 - WordCount < 2 * room /\ room < WordCount
  BY <1>2, <1>3, SweepSizes, MemoryTypes
<1>5. DataStackSize - FrameSize - base.n = room BY <1>1, <1>2, <1>3
<1>6. arCell(base) = stackBase + 9 + n BY <1>1, <1>2 DEF arCell
<1>7. arCell(base) \in Nat /\ stackBase <= arCell(base) BY <1>2, <1>6, SweepSizes
<1>8. index \in Nat /\ index < WordCount /\ WordCount \in Nat BY MemoryTypes DEF Word
<1>9. Signed(index) >= 0 => Signed(index) = index BY <1>8 DEF Signed
<1>10. MayIndex(FrameSize, base.n, index, DataStackSize) <=>
         Signed(ToWord(room)) > 0 /\ index < ToWord(room)
  BY <1>5 DEF MayIndex
<1>11. /\ Signed(index) \in Int
       /\ arCell(base) + Signed(index) < stackBase + DataStackSize <=> Signed(index) < room
  <2>1. Signed(index) \in Int BY Conversions
  <2> QED BY <1>2, <1>3, <1>6, <2>1, SweepSizes
<1>12. CASE room <= 0
  <2>1. ~(Signed(ToWord(room)) > 0) BY <1>4, <1>12, RoomPositive
  <2> QED BY <1>7, <1>9, <1>10, <1>11, <1>12, <2>1
<1>13. CASE room > 0
  <2>1. ToWord(room) = room
    <3>1. room \in Word BY <1>4, <1>8, <1>13 DEF Word
    <3> QED BY <3>1, Conversions
  <2>2. Signed(room) = room BY <1>4, <1>8 DEF Signed
  <2>3. index < room <=> Signed(index) >= 0 /\ Signed(index) < room BY <1>4, <1>8 DEF Signed
  <2> QED BY <1>7, <1>9, <1>10, <1>11, <1>13, <2>1, <2>2, <2>3
<1> QED BY <1>12, <1>13

\* A word of the stack, by its index.
LEMMA GetlProbed ==
  ASSUME AtProbe, Getl
  PROVE  Probed
<1>1. now.op = "GETL" /\ ins.op = "GETL" BY DEF Getl, AtProbe
<1>2. ins.a = rs /\ Base(ins.b) /\ Input(Forms[probe.form], ins.c)
  BY <1>1 DEF AtProbe, AccessForm
<1>3. V2 = Given(ins.c) /\ Given(ins.c) \in Word
  BY <1>2, GivenValue DEF AtProbe, V2
<1>4. Valid <=> MayIndex(dsp, now.b.n, V2, DataStackSize)
  BY <1>1, <1>2, <1>3, SlotInside DEF Valid, SlotValid, arSlot, AtProbe
<1>5. CASE Valid
  <2>1. Succeeds /\ Store(CellOf(now.a), memory[CellOf(now.b) + V2]) BY <1>4, <1>5 DEF Getl
  <2>2. CellOf(now.a) = stackBase + 3 /\ CellOf(now.b) = arCell(ins.b)
    <3>1. CellOf(now.a) = stackBase + 3 BY <1>2, ProgramOperands DEF AtProbe
    <3>2. CellOf(now.b) = arCell(ins.b) BY DEF AtProbe, CellOf, arCell
    <3> QED BY <3>1, <3>2
  <2>3. /\ arSlot(ins.b, ins.c) = arCell(ins.b) + V2
        /\ arCell(ins.b) + V2 < stackBase + DataStackSize
        /\ V2 \in Nat
    <3>1. SlotValid(ins.b, ins.c) BY <1>1, <1>5 DEF Valid
    <3>2. V2 \in Nat BY <1>3, MemoryTypes DEF Word
    <3>3. Signed(V2) = V2 BY <1>2, <1>3, <3>1, SlotInside DEF SlotValid
    <3> QED BY <1>3, <3>1, <3>2, <3>3 DEF SlotValid, arSlot
  <2>4. arCell(ins.b) + V2 \in Cell
    <3>1. arCell(ins.b) \in Nat BY <1>2, <1>3, SlotInside
    <3> HIDE DEF arCell
    <3> QED BY <2>3, <3>1, SweepSizes, GlobalCells, MemoryTypes DEF Cell
  <2>5. Transfers = [cell \in {RESULT} |-> arCell(ins.b) + V2] BY <1>1, <2>3 DEF Transfers
  <2>6. Writes = <<>> BY <1>1 DEF Writes
  <2>7. Effect(memory') BY <1>5, <2>1, <2>2, <2>4, <2>5, <2>6, ReadEffect DEF AtProbe
  <2> QED BY <2>1, <2>7 DEF Probed
<1>6. CASE ~Valid
  <2>1. FailsAlone BY <1>4, <1>6 DEF Getl
  <2>2. Code[ip].errors = {"BAD_PEEK"} BY <1>1 DEF AtProbe, Abstracted, ErrorsOf
  <2>3. FailStatus = "BAD_PEEK" BY <1>1 DEF FailStatus
  <2> QED BY <1>6, <2>1, <2>2, <2>3 DEF Probed
<1> QED BY <1>5, <1>6

\* One that is written.
LEMMA SetlProbed ==
  ASSUME AtProbe, Setl
  PROVE  Probed
<1>1. now.op = "SETL" /\ ins.op = "SETL" BY DEF Setl, AtProbe
<1>2. Base(ins.a) /\ Input(Forms[probe.form], ins.b) /\ Input(Forms[probe.form], ins.c)
  BY <1>1 DEF AtProbe, AccessForm
<1>3. V1 = Given(ins.b) /\ Given(ins.b) \in Word /\ V2 = Given(ins.c)
  BY <1>2, GivenValue DEF AtProbe, V1, V2
<1>4. Valid <=> MayIndex(dsp, now.a.n, V1, DataStackSize)
  BY <1>1, <1>2, <1>3, SlotInside DEF Valid, SlotValid, arSlot, AtProbe
<1>5. CASE Valid
  <2>1. Succeeds /\ Store(CellOf(now.a) + V1, V2) BY <1>4, <1>5 DEF Setl
  <2>2. CellOf(now.a) = arCell(ins.a) BY DEF AtProbe, CellOf, arCell
  <2>3. /\ arSlot(ins.a, ins.b) = arCell(ins.a) + V1
        /\ arCell(ins.a) + V1 < stackBase + DataStackSize
        /\ V1 \in Nat
    <3>1. SlotValid(ins.a, ins.b) BY <1>1, <1>5 DEF Valid
    <3>2. V1 \in Nat BY <1>3, MemoryTypes DEF Word
    <3>3. Signed(V1) = V1 BY <1>2, <1>3, <3>1, SlotInside DEF SlotValid
    <3> QED BY <1>3, <3>1, <3>2, <3>3 DEF SlotValid, arSlot
  <2>4. arCell(ins.a) + V1 \in Cell
    <3>1. arCell(ins.a) \in Nat BY <1>2, <1>3, SlotInside
    <3> HIDE DEF arCell
    <3> QED BY <2>3, <3>1, SweepSizes, GlobalCells, MemoryTypes DEF Cell
  <2>5. Writes = [cell \in {arCell(ins.a) + V1} |-> V2] BY <1>1, <1>3, <2>3 DEF Writes
  <2>6. Transfers = <<>> BY <1>1 DEF Transfers
  <2>7. Effect(memory') BY <1>5, <2>1, <2>2, <2>4, <2>5, <2>6, WriteEffect DEF AtProbe
  <2> QED BY <2>1, <2>7 DEF Probed
<1>6. CASE ~Valid
  <2>1. FailsAlone BY <1>4, <1>6 DEF Setl
  <2>2. Code[ip].errors = {"BAD_POKE"} BY <1>1 DEF AtProbe, Abstracted, ErrorsOf
  <2>3. FailStatus = "BAD_POKE" BY <1>1 DEF FailStatus
  <2> QED BY <1>6, <2>1, <2>2, <2>3 DEF Probed
<1> QED BY <1>5, <1>6

\* A word copied from one that no copied word overwrites is the word as it was.
LEMMA CopiesApart ==
  ASSUME NEW destination \in Int, NEW source \in Int, NEW count \in Nat, NEW n \in 0 .. count - 1,
         \A i, j \in 0 .. count - 1 : destination + i # source + j
  PROVE  CopiedFrom(destination, source, n) = source + n
<1>1. CASE source < destination
  <2>1. destination - source \in Nat \ {0} BY <1>1
  <2>2. n < destination - source
    <3> SUFFICES ASSUME destination - source <= n PROVE FALSE
      BY <2>1
    <3>1. destination - source \in 0 .. count - 1 /\ 0 \in 0 .. count - 1 BY <2>1
    <3>2. destination + 0 # source + (destination - source) BY <3>1
    <3> QED BY <3>2
  <2>3. n % (destination - source) = n
    <3> DEFINE d == destination - source
    <3>1. d \in Nat \ {0} /\ n \in 0 .. d - 1 /\ n \in Int BY <2>1, <2>2
    <3> HIDE DEF d
    <3>2. n % d = n BY <3>1, Remainder
    <3> QED BY <3>2 DEF d
  <2> QED BY <1>1, <2>3 DEF CopiedFrom
<1>2. CASE ~(source < destination) BY <1>2 DEF CopiedFrom
<1> QED BY <1>1, <1>2

\* What COPY does.
LEMMA CopyEffect ==
  ASSUME AtProbe, ins.op = "COPY", Valid,
         NEW destination \in Int, NEW source \in Int, NEW count \in Nat,
         destination = CellAt(Given(ins.a)), source = CellAt(Given(ins.b)), count = Given(ins.c),
         0 <= destination, 0 <= source, source + count <= memorySize,
         memory' = Copied(memory, destination, source, count)
  PROVE  Effect(memory')
<1> DEFINE moved == destination .. destination + count - 1
<1>1. Transfers = [cell \in moved |-> cell - destination + source] BY DEF Transfers
<1>2. Writes = <<>> BY DEF Writes
<1>3. DOMAIN Transfers = moved /\ DOMAIN Writes = {} BY <1>1, <1>2
<1>4. DOMAIN memory = Cell BY DEF AtProbe, Probing, MInv, MemoryTypeOK
<1>5. memory' = [cell \in Cell |-> IF cell \in moved
                                   THEN memory[CopiedFrom(destination, source, cell - destination)]
                                   ELSE memory[cell]]
  BY <1>4 DEF Copied
<1>6. \A cell \in Cell \ Exempt : memory[cell] = Image(probe)[cell] BY DEF AtProbe, Loaded
<1>7. ASSUME NEW cell \in Cell, Known(cell) PROVE memory'[cell] = Wanted(cell)
  <2>1. cell \in Int /\ cell \notin Exempt BY <1>7, MemoryTypes DEF Known, Cell
  <2>2. CASE cell \in moved
    <3>1. ~Overlaps /\ Transfers[cell] \notin Exempt /\ Transfers[cell] = cell - destination + source
      BY <1>1, <1>3, <1>7, <2>2 DEF Known
    <3>2. cell - destination + source \in Cell BY <2>1, <2>2, MemoryTypes DEF Cell
    <3>3. CopiedFrom(destination, source, cell - destination) = source + (cell - destination)
      <4>1. cell - destination \in 0 .. count - 1 BY <2>1, <2>2
      <4>2. \A i, j \in 0 .. count - 1 : destination + i # source + j
        <5> SUFFICES ASSUME NEW i \in 0 .. count - 1, NEW j \in 0 .. count - 1, destination + i = source + j
                     PROVE  FALSE
          OBVIOUS
        <5>1. destination + i \in moved /\ destination + j \in moved OBVIOUS
        <5>2. Transfers[destination + j] = destination + i
          <6>1. Transfers[destination + j] = destination + j - destination + source BY <1>1, <5>1
          <6> QED BY <6>1
        <5>3. destination + i \in DOMAIN Transfers \cap {Transfers[c] : c \in DOMAIN Transfers}
          BY <1>3, <5>1, <5>2
        <5> QED BY <3>1, <5>3 DEF Overlaps
      <4> HIDE DEF moved
      <4> QED BY <4>1, <4>2, CopiesApart, ZenonT(60)
    <3>4. source + (cell - destination) = cell - destination + source BY <2>1
    <3>5. memory'[cell] = memory[cell - destination + source] BY <1>5, <2>2, <3>3, <3>4
    <3>6. Wanted(cell) = Image(probe)[Transfers[cell]] BY <1>3, <2>2 DEF Wanted
    <3> HIDE DEF moved
    <3> QED BY <1>6, <3>1, <3>2, <3>5, <3>6
  <2>3. CASE cell \notin moved
    <3>1. memory'[cell] = memory[cell] BY <1>5, <2>3
    <3>2. Wanted(cell) = Image(probe)[cell] BY <1>3, <2>3 DEF Wanted
    <3> QED BY <1>6, <2>1, <3>1, <3>2
  <2> QED BY <2>2, <2>3
<1>8. RESULT \notin DOMAIN Transfers BY <1>3 DEF RESULT
<1> QED BY <1>7, <1>8 DEF Effect

\* Words of the frame and of memory, upward.
LEMMA CopyProbed ==
  ASSUME AtProbe, Copy
  PROVE  Probed
<1>1. now.op = "COPY" /\ ins.op = "COPY" BY DEF Copy, AtProbe
<1>2. Input(Forms[probe.form], ins.a) /\ Input(Forms[probe.form], ins.b) /\ Input(Forms[probe.form], ins.c)
  BY <1>1 DEF AtProbe, AccessForm
<1>3. /\ V0 = Given(ins.a) /\ V1 = Given(ins.b) /\ V2 = Given(ins.c)
      /\ V0 \in Word /\ V1 \in Word /\ V2 \in Word
  BY <1>2, GivenValue DEF AtProbe, V0, V1, V2
<1>4. MayCopy(V0, V1, V2) <=>
        /\ constantsSize <= CellAt(V0)
        /\ CellAt(V0) + V2 <= constantsSize + rwMemorySize
        /\ 0 <= CellAt(V1) /\ CellAt(V1) + V2 <= memorySize
  BY <1>3, CopyInside
<1>5. V0 \in Int /\ V1 \in Int /\ V2 \in Nat BY <1>3, MemoryTypes DEF Word
<1>6. Valid <=> CanWrite(V0, V2) /\ Readable(V1, V2) BY <1>1, <1>3 DEF Valid
<1>7. Valid <=> MayCopy(V0, V1, V2)
  BY <1>4, <1>5, <1>6, MemoryTypes DEF CanWrite, Readable, inRange, low, CellAt
<1>8. CASE Valid
  <2>1. Succeeds /\ memory' = Copied(memory, CellAt(V0), CellAt(V1), V2) BY <1>7, <1>8 DEF Copy
  <2>2. CellAt(V0) \in Int /\ CellAt(V1) \in Int BY <1>5, MemoryTypes DEF CellAt
  <2>3. 0 <= CellAt(V0) /\ 0 <= CellAt(V1) /\ CellAt(V1) + V2 <= memorySize
    BY <1>4, <1>7, <1>8, <2>2, MemoryTypes
  <2>4. Effect(memory') BY <1>1, <1>3, <1>5, <1>8, <2>1, <2>2, <2>3, CopyEffect
  <2> QED BY <2>1, <2>4 DEF Probed
<1>9. CASE ~Valid
  <2>1. FailsAlone BY <1>7, <1>9 DEF Copy
  <2>2. Code[ip].errors = {"ACCESS_VIOLATION"} BY <1>1 DEF AtProbe, Abstracted, ErrorsOf
  <2>3. FailStatus = "ACCESS_VIOLATION" BY <1>1 DEF FailStatus
  <2> QED BY <1>9, <2>1, <2>2, <2>3 DEF Probed
<1> QED BY <1>8, <1>9

-----------------------------------------------------------------------------
(***************************************************************************)
(* The probe's step, and the two after it.                                 *)
(***************************************************************************)
Outcome ==
  /\ result = (IF Valid THEN "OK" ELSE FailStatus)
  /\ \A cell \in Cell : Known(cell) => memory[cell] = Wanted(cell)
  /\ Valid /\ RESULT \in DOMAIN Transfers /\ Transfers[RESULT] \notin Exempt =>
       memory[CellAt(outAddress)] = Image(probe)[Transfers[RESULT]]

\* What the oracle says of a probe depends on nothing else.
LEMMA SameProbe ==
  ASSUME UNCHANGED probe
  PROVE  /\ Valid' = Valid /\ FailStatus' = FailStatus
         /\ Transfers' = Transfers /\ Image(probe)' = Image(probe)
         /\ \A cell \in Cell : (Known(cell)' <=> Known(cell)) /\ Wanted(cell)' = Wanted(cell)
<1>1. Valid' = Valid
  BY DEF Valid, SlotValid, arSlot, Target, Given, ins, Readable, CanWrite, inRange, arCell
<1>2. FailStatus' = FailStatus BY DEF FailStatus, ins
<1>3. Transfers' = Transfers BY DEF Transfers, arSlot, Target, Given, ins, arCell
<1>4. Writes' = Writes BY DEF Writes, arSlot, Target, Given, ins, arCell
<1>5. Image(probe)' = Image(probe) BY DEF Image
<1>6. Overlaps' = Overlaps BY DEF Overlaps, Transfers, arSlot, Target, Given, ins, arCell
<1> QED BY <1>1, <1>2, <1>3, <1>4, <1>5, <1>6 DEF Known, Wanted

\* The result has been stored in out, for a probe that has one.
Answered(m) ==
  RESULT \in DOMAIN Transfers /\ Transfers[RESULT] \notin Exempt =>
    m[constantsSize + 3] = Image(probe)[Transfers[RESULT]]

Running ==
  \E k \in 0 .. 9 + Extra(probe.form) :
    /\ InProbe(k)
    /\ k <= 7 + Extra(probe.form) => Loaded(memory, k)
    /\ k > 7 + Extra(probe.form) => Effect(memory)
    /\ k > 8 + Extra(probe.form) => Answered(memory)

\* Before run(): the host has stored the words, and then entered the call.
Ready ==
  /\ control = "host" /\ natives = <<>> /\ memory = Image(probe) /\ dsp = 0
  /\ \/ driver = "enter" /\ ip = 0 /\ ipStack = <<>>
     \/ driver = "reset" /\ ip = Start(probe.form) /\ ipStack = Entered
     \/ driver = "run" /\ ip = Start(probe.form) /\ ipStack = Entered /\ clock = Max(Budgets)

ProbeState ==
  \/ Ready
  \/ driver = "done" /\ Running
  \/ driver = "done" /\ control = "host" /\ Outcome

Probers == {"enter", "reset", "run", "done"}
Askers == {"access", "granted", "refused"}

SweepInv ==
  /\ MInv
  /\ driver \in Probers \cup Askers
  /\ driver \in Probers => probe \in Probes
  /\ driver \in Probers /\ ins.op \in AccessOps => ProbeState
  /\ driver \in Askers => probe \in Accesses
  /\ driver = "granted" => Granted # Refused
  /\ driver = "refused" => Granted = Refused

\* One instruction further.
LEMMA NextInProbe ==
  ASSUME Probing, NEW k \in 1 .. 9 + Extra(probe.form), InProbe(k), Succeeds, ip \in Int, UNCHANGED probe
  PROVE  InProbe(k + 1)'
<1>1. probe.form \in DOMAIN Forms /\ ins = Forms[probe.form].probe
  BY ProbeProgram
<1>2. Start(probe.form) \in Int /\ Extra(probe.form) \in {0, 1} BY ProbeProgram
<1>3. k \in 1 .. 10 BY <1>2
<1>4. /\ ip' = ip + 1 /\ clock' = clock - 1 /\ dsp' = dsp
      /\ ipStack' = ipStack /\ natives' = natives /\ control' = "run"
  BY SucceedsSteps
<1>5. Start(probe'.form) = Start(probe.form) OBVIOUS
<1>6. ip' = Start(probe.form) + (k + 1) BY <1>2, <1>3, <1>4 DEF InProbe
<1>7. clock' = Max(Budgets) - (k + 1) BY <1>3, <1>4, EnoughSteps DEF InProbe
<1>8. dsp' = IF k + 1 = 0 THEN 0 ELSE FrameSize BY <1>3, <1>4 DEF InProbe
<1> QED BY <1>4, <1>5, <1>6, <1>7, <1>8 DEF InProbe

\* Running, k instructions on.
LEMMA RunsOn ==
  ASSUME UNCHANGED probe, NEW k \in 0 .. 9 + Extra(probe.form), InProbe(k)',
         k <= 7 + Extra(probe.form) => Loaded(memory', k),
         k > 7 + Extra(probe.form) => Effect(memory'),
         k > 8 + Extra(probe.form) => Answered(memory')
  PROVE  Running'
<1>1. Loaded(memory', k) => Loaded(memory, k)' BY DEF Loaded
<1>2. Effect(memory') => Effect(memory)' BY SameProbe DEF Effect
<1>3. Answered(memory') => Answered(memory)' BY SameProbe DEF Answered
<1>4. Extra(probe'.form) = Extra(probe.form) OBVIOUS
<1> QED BY <1>1, <1>2, <1>3, <1>4 DEF Running

\* The program has ended.
LEMMA Ends ==
  ASSUME UNCHANGED probe, result' = (IF Valid THEN "OK" ELSE FailStatus),
         \A cell \in Cell : Known(cell) => memory'[cell] = Wanted(cell),
         Valid => Answered(memory')
  PROVE  Outcome'
BY SameProbe, GlobalCells DEF Outcome, Answered

\* The probe itself.
LEMMA ProbeAdvances ==
  ASSUME Probing, InProbe(7 + Extra(probe.form)), Loaded(memory, 7 + Extra(probe.form)), MachineStep, UNCHANGED probe
  PROVE  Running' \/ (control' = "host" /\ Outcome')
<1>1. probe.form \in DOMAIN Forms /\ ins = Forms[probe.form].probe
  BY ProbeProgram
<1>2. /\ Start(probe.form) \in Int /\ Extra(probe.form) \in {0, 1} /\ AccessForm(Forms[probe.form])
      /\ Program[Start(probe.form) + 7 + Extra(probe.form)] = Forms[probe.form].probe
  BY ProbeProgram
<1>3. PICK k \in Int :
        /\ k = 7 + Extra(probe.form) /\ k \in 0 .. 9 + Extra(probe.form) /\ k \in 1 .. 9 + Extra(probe.form)
        /\ Start(probe.form) + k = Start(probe.form) + 7 + Extra(probe.form)
  <2>1. 7 + Extra(probe.form) \in Int BY <1>2
  <2> QED BY <1>2, <2>1
<1>4. InProbe(k) BY <1>3
<1>5. /\ now = ins /\ ip \in Address /\ ip \in Int /\ dsp \in Int /\ control = "run" /\ clock > 0
      /\ clock \in Int /\ Code[ip] = Abstracted(now)
  BY <1>1, <1>2, <1>3, <1>4, ProbeStep
<1>6. dsp = FrameSize BY <1>3, <1>4 DEF InProbe
<1>7. AtProbe BY <1>1, <1>2, <1>5, <1>6 DEF AtProbe
<1>8. now.op \in AccessOps BY <1>5 DEF Probing
<1>9. Probed
  <2>1. Peek \/ Poke \/ Getl \/ Setl \/ Copy BY <1>5, <1>8, InstructionAt DEF AccessOps
  <2> QED BY <1>7, <2>1, PeekProbed, PokeProbed, GetlProbed, SetlProbed, CopyProbed
<1>10. CASE Succeeds /\ Effect(memory')
  <2>1. InProbe(k + 1)' BY <1>3, <1>4, <1>5, <1>10, NextInProbe DEF InProbe
  <2>2. k + 1 \in 0 .. 9 + Extra(probe.form) /\ ~(k + 1 <= 7 + Extra(probe.form)) /\ ~(k + 1 > 8 + Extra(probe.form))
    BY <1>2, <1>3
  <2> QED BY <1>10, <2>1, <2>2, RunsOn DEF InProbe
<1>11. CASE FailsAlone /\ ~Valid /\ Code[ip].errors = {FailStatus}
  <2>1. result' = FailStatus /\ control' = "host" /\ UNCHANGED memory
    BY <1>4, <1>5, <1>11, FailsSteps DEF InProbe
  <2>2. ASSUME NEW cell \in Cell, Known(cell) PROVE memory'[cell] = Wanted(cell)
    <3>1. cell \notin Exempt BY <2>2 DEF Known
    <3>2. Wanted(cell) = Image(probe)[cell] BY <1>11 DEF Wanted
    <3> QED BY <2>1, <3>1, <3>2 DEF Loaded
  <2>3. Outcome' BY <1>11, <2>1, <2>2, Ends
  <2> QED BY <2>1, <2>3
<1> QED BY <1>9, <1>10, <1>11 DEF Probed

\* The instruction that stores its result for the host.
LEMMA ResultStep ==
  ASSUME Probing, InProbe(8 + Extra(probe.form)), Effect(memory), MachineStep, UNCHANGED probe
  PROVE  Running'
<1>1. probe.form \in DOMAIN Forms /\ ins = Forms[probe.form].probe
  BY ProbeProgram
<1>2. /\ Start(probe.form) \in Int /\ Extra(probe.form) \in {0, 1}
      /\ Program[Start(probe.form) + 8 + Extra(probe.form)] = POKE(outAddress, rs)
  BY ProbeProgram
<1>3. PICK k \in Int :
        /\ k = 8 + Extra(probe.form) /\ k \in 0 .. 9 + Extra(probe.form) /\ k \in 1 .. 9 + Extra(probe.form)
        /\ Start(probe.form) + k = Start(probe.form) + 8 + Extra(probe.form)
  <2>1. 8 + Extra(probe.form) \in Int BY <1>2
  <2> QED BY <1>2, <2>1
<1>4. InProbe(k) BY <1>3
<1>5. /\ now = POKE(outAddress, rs) /\ ip \in Address /\ ip \in Int /\ control = "run" /\ clock > 0
      /\ clock \in Int
  BY <1>2, <1>3, <1>4, ProbeStep
<1>6. dsp = FrameSize BY <1>3, <1>4 DEF InProbe
<1>7. Poke BY <1>5, InstructionAt DEF POKE, Ins
<1>8. Succeeds /\ Store(constantsSize + 3, memory[stackBase + 3])
  <2>1. Value(rs) = memory[stackBase + 3] BY <1>6, ProgramOperands DEF Value, rs, V
  <2> QED BY <1>5, <1>7, <2>1, PokeStep, GlobalCells
<1>9. InProbe(k + 1)' BY <1>3, <1>4, <1>5, <1>8, NextInProbe DEF InProbe
<1>10. memory' = [memory EXCEPT ![constantsSize + 3] = memory[stackBase + 3]] /\ DOMAIN memory = Cell
  BY <1>8 DEF Store, Probing, MInv, MemoryTypeOK
<1>11. constantsSize + 3 \in Exempt /\ constantsSize + 3 \in Cell /\ constantsSize + 3 # stackBase + 3
       /\ stackBase + 3 \in Cell
  BY ProgramCells, GlobalCells, SweepSizes, MemoryTypes
<1>12. Answered(memory') BY <1>10, <1>11 DEF Answered, Effect
<1>13. Effect(memory')
  <2>1. ASSUME NEW cell \in Cell, Known(cell) PROVE memory'[cell] = Wanted(cell)
    <3>1. cell # constantsSize + 3 BY <1>11, <2>1 DEF Known
    <3> QED BY <1>10, <2>1, <3>1 DEF Effect
  <2>2. memory'[stackBase + 3] = memory[stackBase + 3] BY <1>10, <1>11
  <2> QED BY <2>1, <2>2 DEF Effect
<1>14. k + 1 \in 0 .. 9 + Extra(probe.form) /\ ~(k + 1 <= 7 + Extra(probe.form))
  BY <1>2, <1>3
<1> QED BY <1>9, <1>12, <1>13, <1>14, RunsOn DEF InProbe

\* RETU, which ends the only call there is.
LEMMA ReturnStep ==
  ASSUME Probing, InProbe(9 + Extra(probe.form)), Effect(memory), Answered(memory), MachineStep, UNCHANGED probe
  PROVE  control' = "host" /\ Outcome'
<1>1. probe.form \in DOMAIN Forms /\ ins = Forms[probe.form].probe
  BY ProbeProgram
<1>2. /\ Start(probe.form) \in Int /\ Extra(probe.form) \in {0, 1}
      /\ Program[Start(probe.form) + 9 + Extra(probe.form)] = RETU
  BY ProbeProgram
<1>3. PICK k \in Int :
        /\ k = 9 + Extra(probe.form) /\ k \in 0 .. 9 + Extra(probe.form)
        /\ Start(probe.form) + k = Start(probe.form) + 9 + Extra(probe.form)
  <2>1. 9 + Extra(probe.form) \in Int BY <1>2
  <2> QED BY <1>2, <2>1
<1>4. InProbe(k) BY <1>3
<1>5. now = RETU /\ ip \in Address /\ control = "run" /\ clock > 0 /\ clock \in Int
  BY <1>2, <1>3, <1>4, ProbeStep
<1>6. Retu /\ UNCHANGED memory BY <1>5, InstructionAt DEF RETU, Ins
<1>7. Last(ipStack).dsp = NativeReturn
  <2>1. Len(ipStack) = 2 /\ ipStack[2].dsp = NativeReturn BY <1>4 DEF InProbe, Entered
  <2> QED BY <2>1 DEF Last
<1>8. result' = "OK" /\ control' = "host" BY <1>4, <1>6, <1>7 DEF Retu, Return, InProbe
<1>9. Valid /\ \A cell \in Cell : Known(cell) => memory'[cell] = Wanted(cell) BY <1>6 DEF Effect
<1>10. Answered(memory') BY <1>6 DEF Answered
<1> QED BY <1>8, <1>9, <1>10, Ends

\* Every step of the program.
LEMMA RunningSteps ==
  ASSUME Probing, Running, MachineStep, UNCHANGED probe
  PROVE  Running' \/ (control' = "host" /\ Outcome')
<1>1. PICK k \in 0 .. 9 + Extra(probe.form) :
        /\ InProbe(k)
        /\ k <= 7 + Extra(probe.form) => Loaded(memory, k)
        /\ k > 7 + Extra(probe.form) => Effect(memory)
        /\ k > 8 + Extra(probe.form) => Answered(memory)
  BY DEF Running
<1>2. probe.form \in DOMAIN Forms /\ ins = Forms[probe.form].probe
  BY ProbeProgram
<1>3. Extra(probe.form) \in {0, 1} BY ProbeProgram
<1>4. CASE k = 0
  <2>1. Loaded(memory, 0) /\ InProbe(0) BY <1>1, <1>3, <1>4
  <2>2. InProbe(1)' /\ Loaded(memory', 1) BY <2>1, FuncStep
  <2>3. 1 \in 0 .. 9 + Extra(probe.form) /\ ~(1 > 7 + Extra(probe.form)) /\ ~(1 > 8 + Extra(probe.form)) BY <1>3
  <2> QED BY <2>2, <2>3, RunsOn DEF InProbe
<1>5. CASE k \in 1 .. 6 + Extra(probe.form)
  <2>1. Loaded(memory, k) BY <1>1, <1>3, <1>5
  <2>2. InProbe(k + 1)' /\ Loaded(memory', k + 1) BY <1>1, <1>5, <2>1, BeforeStep
  <2>3. /\ k + 1 \in 0 .. 9 + Extra(probe.form) /\ ~(k + 1 > 7 + Extra(probe.form))
        /\ ~(k + 1 > 8 + Extra(probe.form))
    BY <1>3, <1>5
  <2> QED BY <2>2, <2>3, RunsOn DEF InProbe
<1>6. CASE k = 7 + Extra(probe.form) BY <1>1, <1>3, <1>6, ProbeAdvances
<1>7. CASE k = 8 + Extra(probe.form) BY <1>1, <1>3, <1>7, ResultStep DEF InProbe
<1>8. CASE k = 9 + Extra(probe.form) BY <1>1, <1>3, <1>8, ReturnStep
<1> QED BY <1>3, <1>4, <1>5, <1>6, <1>7, <1>8

-----------------------------------------------------------------------------
(***************************************************************************)
(* The theorems.                                                           *)
(***************************************************************************)

\* run() takes no step while the host has control.
LEMMA StepsRun ==
  ASSUME MachineStep
  PROVE  control = "run"
BY DEF MachineStep, TimeOut, Func, Retu, CallNative, Execute

\* What the driver does is what a host may do.
LEMMA DriverCalls ==
  ASSUME SweepInv, RunProbe
  PROVE  HostCall
<1>1. probe \in Probes BY DEF SweepInv, RunProbe, Probers
<1>2. probe.form \in 0 .. FunctionCount - 1 BY <1>1, ImageCells, SweepAssumption
<1>3. probe.form \in Pointers BY <1>2, CodeAssembled DEF Pointers, CodeWellFormed
<1>4. Max(Budgets) \in Budgets BY SweepAssumption
<1> QED BY <1>3, <1>4 DEF RunProbe, HostCall, HostOrNative

\* The driver's three steps lead to the first instruction.
LEMMA DriverSteps ==
  ASSUME Probing, Ready, RunProbe
  PROVE  driver' \in Probers /\ ProbeState'
<1>1. CASE driver = "enter" /\ EnterCall(probe.form) /\ driver' = "reset" /\ UNCHANGED <<memory, probe>>
  <2>1. ipStack = <<>> /\ ip = 0 /\ dsp = 0 BY <1>1 DEF Ready
  <2>2. ipStack' = Entered
    <3>1. ipStack' = <<>> \o Entered BY <1>1, <2>1 DEF EnterCall, Entered
    <3>2. Entered \in Seq(Entry) BY DEF Entered, Entry, NativeReturn
    <3> QED BY <3>1, <3>2, ConcatEmptySeq
  <2>3. Ready' BY <1>1, <2>2 DEF Ready, EnterCall, Start, Image
  <2> QED BY <1>1, <2>3 DEF ProbeState, Probers
<1>2. CASE driver = "reset" /\ ResetTimeOut(Max(Budgets)) /\ driver' = "run" /\ UNCHANGED <<memory, probe>>
  <2>1. Ready' BY <1>2 DEF Ready, ResetTimeOut, Start, Image
  <2> QED BY <1>2, <2>1 DEF ProbeState, Probers
<1>3. CASE driver = "run" /\ Run /\ driver' = "done" /\ UNCHANGED <<memory, probe>>
  <2>1. probe.form \in DOMAIN Forms /\ ins = Forms[probe.form].probe
    BY ProbeProgram
  <2>2. Start(probe.form) \in Int /\ Extra(probe.form) \in {0, 1} BY ProbeProgram
  <2>3. Start(probe.form) + 0 = Start(probe.form) /\ Max(Budgets) - 0 = Max(Budgets) BY <2>2, EnoughSteps
  <2>4. /\ control' = "run" /\ natives' = natives /\ ip' = ip /\ dsp' = dsp /\ clock' = clock
        /\ ipStack' = ipStack /\ probe' = probe /\ memory' = memory
    BY <1>3 DEF Run, machine
  <2>5. InProbe(0)' BY <1>3, <2>3, <2>4 DEF Ready, InProbe
  <2>6. Loaded(memory', 0) BY <1>3, <2>4 DEF Ready, Loaded
  <2>7. 0 \in 0 .. 9 + Extra(probe.form) /\ ~(0 > 7 + Extra(probe.form)) /\ ~(0 > 8 + Extra(probe.form)) BY <2>2
  <2>8. Running' BY <2>4, <2>5, <2>6, <2>7, RunsOn
  <2> QED BY <1>3, <2>8 DEF ProbeState, Probers
<1> QED BY <1>1, <1>2, <1>3 DEF RunProbe

\* The invariant holds of the sweep's initial states.
LEMMA SweepStarts == SweepInit => SweepInv
<1> SUFFICES ASSUME SweepInit PROVE SweepInv
  OBVIOUS
<1>1. IInv BY Initially DEF SweepInit
<1>2. CASE probe \in Probes /\ memory = Image(probe) /\ driver = "enter"
  <2>1. MInv BY <1>1, <1>2, ImageCells DEF MInv, MemoryTypeOK
  <2>2. Ready BY <1>2 DEF Ready, SweepInit, Init
  <2> QED BY <1>2, <2>1, <2>2 DEF SweepInv, ProbeState, Probers, Askers
<1>3. CASE probe \in Accesses /\ memory = InitialMemory /\ driver = "access"
  <2>1. MInv BY <1>1, <1>3, MachineAssumption DEF MInv, MemoryTypeOK
  <2> QED BY <1>3, <2>1 DEF SweepInv, ProbeState, Probers, Askers
<1> QED BY <1>2, <1>3 DEF SweepInit

\* Every step of the sweep preserves it: the program of a probe goes from one instruction to the
\* next, and each leaves what it should.
LEMMA SweepSteps == SweepInv /\ [SweepNext]_sweepVars => SweepInv'
<1> SUFFICES ASSUME SweepInv, [SweepNext]_sweepVars PROVE SweepInv'
  OBVIOUS
<1>1. MInv'
  <2>1. [MachineNext]_machineVars BY DriverCalls DEF SweepNext, AskAccess, MachineNext, machineVars, sweepVars
  <2> QED BY <2>1, MachinePreserves DEF SweepInv
<1>2. CASE RunProbe
  <2>1. driver \in {"enter", "reset", "run"} /\ probe \in Probes BY <1>2 DEF RunProbe, SweepInv, Probers
  <2>2. driver' \in {"reset", "run", "done"} /\ probe' = probe BY <1>2 DEF RunProbe
  <2>3. ASSUME ins.op \in AccessOps PROVE ProbeState'
    <3>1. Probing BY <2>1, <2>3 DEF Probing, SweepInv
    <3>2. Ready BY <2>1, <2>3 DEF SweepInv, ProbeState, Probers
    <3> QED BY <1>2, <3>1, <3>2, DriverSteps
  <2>4. ins' = ins BY <2>2 DEF ins
  <2> QED BY <1>1, <2>1, <2>2, <2>3, <2>4 DEF SweepInv, Probers, Askers
<1>3. CASE AskAccess
  <2>1. driver = "access" /\ driver' \in {"granted", "refused"} /\ probe' = probe BY <1>3 DEF AskAccess
  <2>2. Granted' = Granted BY <2>1 DEF Granted
  <2>3. driver' = IF Granted = Refused THEN "refused" ELSE "granted" BY <1>3 DEF AskAccess
  <2> QED BY <1>1, <2>1, <2>2, <2>3 DEF SweepInv, Probers, Askers
<1>4. CASE MachineStep /\ UNCHANGED <<probe, driver>>
  <2>1. control = "run" BY <1>4, StepsRun
  <2>2. Granted' = Granted /\ ins' = ins BY <1>4 DEF Granted, ins
  <2>3. ASSUME driver \in Probers, ins.op \in AccessOps PROVE ProbeState'
    <3>1. Probing BY <2>3 DEF Probing, SweepInv
    <3>2. driver = "done" /\ Running BY <2>1, <2>3 DEF SweepInv, ProbeState, Ready
    <3>3. Running' \/ (control' = "host" /\ Outcome') BY <1>4, <3>1, <3>2, RunningSteps
    <3>4. driver' = "done" BY <1>4, <3>2
    <3> QED BY <3>3, <3>4 DEF ProbeState
  <2> QED BY <1>1, <1>4, <2>2, <2>3 DEF SweepInv
<1>5. CASE UNCHANGED sweepVars
  <2>1. /\ ip' = ip /\ dsp' = dsp /\ clock' = clock /\ ipStack' = ipStack /\ control' = control
        /\ natives' = natives /\ result' = result /\ memory' = memory /\ probe' = probe /\ driver' = driver
    BY <1>5 DEF sweepVars, machineVars, vars
  <2>2. Granted' = Granted /\ ins' = ins BY <2>1 DEF Granted, ins
  <2>3. ASSUME ProbeState PROVE ProbeState'
    <3>1. Ready => Ready' BY <2>1 DEF Ready, Image
    <3>2. Outcome => Outcome' BY <2>1, SameProbe DEF Outcome
    <3>3. Running => Running'
      <4> SUFFICES ASSUME NEW k \in 0 .. 9 + Extra(probe.form), InProbe(k),
                          k <= 7 + Extra(probe.form) => Loaded(memory, k),
                          k > 7 + Extra(probe.form) => Effect(memory),
                          k > 8 + Extra(probe.form) => Answered(memory)
                   PROVE  Running'
        BY DEF Running
      <4>1. InProbe(k)' BY <2>1 DEF InProbe
      <4>2. /\ k <= 7 + Extra(probe.form) => Loaded(memory', k)
            /\ k > 7 + Extra(probe.form) => Effect(memory')
            /\ k > 8 + Extra(probe.form) => Answered(memory')
        BY <2>1 DEF Loaded, Effect, Answered
      <4> QED BY <2>1, <4>1, <4>2, RunsOn
    <3> QED BY <2>1, <2>3, <3>1, <3>2, <3>3 DEF ProbeState
  <2> QED BY <1>1, <2>1, <2>2, <2>3 DEF SweepInv
<1> QED BY <1>2, <1>3, <1>4, <1>5 DEF SweepNext

\* It holds of every state of the sweep.
THEOREM SweepInvariant == SweepSpec => []SweepInv
BY SweepStarts, SweepSteps, PTL DEF SweepSpec

\* Whatever the words an access takes, with any layout of memory and any word size: out of range it
\* fails with its status and changes nothing; in range it moves the words the oracle names.
THEOREM EveryProbeAsOracle == SweepSpec => []ProbesAsOracle
<1>1. SweepInv => ProbesAsOracle
  <2> SUFFICES ASSUME SweepInv, Done, ins.op \in AccessOps PROVE Outcome
    BY DEF ProbesAsOracle, Outcome
  <2>1. driver = "done" /\ control = "host" BY DEF Done
  <2>2. ProbeState BY <2>1 DEF SweepInv, Probers
  <2> QED BY <2>1, <2>2 DEF ProbeState, Ready, Running, InProbe
<1> QED BY <1>1, SweepInvariant, PTL

\* A native is given exactly the words that the oracle says are there, and where they are.
THEOREM EveryAccessAsOracle == SweepSpec => []AccessesAsOracle
<1>1. SweepInv => AccessesAsOracle
  <2> SUFFICES ASSUME SweepInv, driver \in {"granted", "refused"} PROVE AccessesAsOracle
    BY DEF AccessesAsOracle
  <2>1. probe.pointer \in Word /\ probe.count \in Word /\ probe.writable \in BOOLEAN
    BY DEF SweepInv, Askers, Accesses
  <2> DEFINE p == probe.pointer
             n == probe.count
             there == IF probe.writable THEN CanWrite(p, n) ELSE Readable(p, n)
  <2>2. Granted = IF there THEN CellAt(p) ELSE Refused
    <3>1. p \in Int /\ n \in Int BY <2>1, MemoryTypes DEF Word
    <3>2. CASE probe.writable
      <4>1. CanWrite(p, n) <=>
              constantsSize <= CellAt(p) /\ CellAt(p) + n <= constantsSize + rwMemorySize
        BY <3>1, MemoryTypes DEF CanWrite, inRange, CellAt
      <4> QED BY <2>1, <3>2, <4>1, AccessInside DEF Granted
    <3>3. CASE ~probe.writable
      <4>1. Readable(p, n) <=> 0 <= CellAt(p) /\ CellAt(p) + n <= memorySize
        BY <3>1, MemoryTypes DEF Readable, inRange, low, CellAt
      <4> QED BY <2>1, <3>3, <4>1, ConstAccessInside DEF Granted
    <3> QED BY <3>2, <3>3
  <2>3. there => CellAt(p) # Refused
    <3>1. p \in Int /\ n \in Int BY <2>1, MemoryTypes DEF Word
    <3> QED BY <3>1, MemoryTypes DEF CanWrite, Readable, inRange, low, CellAt, Refused
  <2>4. driver = "granted" => there /\ Granted = CellAt(p) BY <2>2 DEF SweepInv
  <2>5. driver = "refused" => ~there BY <2>2, <2>3 DEF SweepInv
  <2>6. there \in BOOLEAN BY DEF CanWrite, Readable, inRange
  <2>7. (driver = "granted") = there
    <3> HIDE DEF there
    <3>1. CASE driver = "granted" BY <2>4, <2>6, <3>1
    <3>2. CASE driver = "refused" BY <2>5, <2>6, <3>2
    <3> QED BY <3>1, <3>2
  <2> QED BY <2>4, <2>7 DEF AccessesAsOracle
<1> QED BY <1>1, SweepInvariant, PTL
=============================================================================
