------------------------- MODULE GAZLAssemblerProofs -------------------------
(***************************************************************************)
(* Proofs about GAZLAssembler: what it accepts, whatever the lines, the    *)
(* number of units and the limits it is given, is fit to run.              *)
(***************************************************************************)
EXTENDS GAZLAssembler, SequenceTheorems, TLAPS

-----------------------------------------------------------------------------
(***************************************************************************)
(* The inductive invariant.  Instructions are counted from 0, as offsets   *)
(* from codeBase: the one at a is c[a + 1].                                *)
(***************************************************************************)
Starts(c, a) == c[a + 1].op = "FUNC"
Within(c, f, a) == Starts(c, f) /\ \A b \in (f + 1) .. a : ~Starts(c, b)

\* What an instruction needs of the sizes of its frame.
FitsFrame(i, locs, params) ==
  /\ i.slots \subseteq (-locs) .. (params - 1)
  /\ \A b \in i.bases : b >= -locs
  /\ i.op \in Program!Calls => i.p1 <= params

\* The functions of the first n instructions are complete.
Closed(c, n) ==
  \A a \in 0 .. n - 1 :
    /\ \E f \in 0 .. a :
         /\ Within(c, f, a)
         /\ FitsFrame(c[a + 1], c[f + 1].p0, c[f + 1].p1)
         /\ \A j \in c[a + 1].jumps : a + j \in (f + 1) .. (n - 1) /\ Within(c, f, a + j)
    /\ c[a + 1].op \in Program!Jumps => c[a + 1].jumps # {}
    /\ c[a + 1].op \notin {"RETU", "GOTO"} => a + 1 <= n - 1 /\ ~Starts(c, a + 1)

\* The current function: what it needs is known, or there is a reference to it.
OpenAt(a) ==
  /\ ~Starts(code, a)
  /\ FitsFrame(code[a + 1], localsSize, paramsSize)
  /\ \A j \in code[a + 1].jumps : \E n \in DOMAIN locals : locals[n] = Symbol("BRANCH", a + j)
  /\ code[a + 1].op \in Program!Jumps =>
       code[a + 1].jumps # {} \/ \E r \in localRefs : r.at = a

Open ==
  /\ functionStart # Outside =>
       /\ code[functionStart + 1] = Emitted("FUNC", 0, 0, {})
       /\ \A a \in (functionStart + 1) .. (here - 1) : OpenAt(a)
  /\ \A n \in DOMAIN locals :
       locals[n].kind = "BRANCH" =>
         functionStart # Outside /\ locals[n].value \in (functionStart + 1) .. here
  /\ \A r \in localRefs : functionStart # Outside /\ functionStart < r.at

Linked ==
  /\ \A k \in 1 .. Len(functionTable) : Starts(code, functionTable[k])
  /\ \A n \in DOMAIN globals : globals[n].kind = "FUNC" => globals[n].value < Len(functionTable)
  /\ \A r \in globalRefs : code[r.at + 1].op = "CALL_CVC"
  /\ \A a \in 0 .. here - 1 :
       code[a + 1].op = "CALL_CVC" =>
         \/ code[a + 1].p0 < Len(functionTable)
         \/ status = "feeding" /\ \E r \in globalRefs : r.at = a

Sized(c) == \A i \in 1 .. Len(c) : c[i].op = "FUNC" => c[i].p0 <= MaxInt /\ c[i].p1 <= MaxInt

ClosedEnd == IF functionStart = Outside THEN here ELSE functionStart

IInv ==
  /\ TypeOK
  /\ Closed(code, ClosedEnd)
  /\ Open
  /\ Linked
  /\ Sized(code)
  /\ status = "done" => functionStart = Outside

-----------------------------------------------------------------------------
\* What Append() adds and keeps.
LEMMA AppendKeeps ==
  ASSUME NEW S, NEW s \in Seq(S), NEW x \in S
  PROVE  /\ Append(s, x) \in Seq(S)
         /\ Len(Append(s, x)) = Len(s) + 1
         /\ \A i \in 1 .. Len(s) : Append(s, x)[i] = s[i]
         /\ Append(s, x)[Len(s) + 1] = x
OBVIOUS

\* Which function an instruction is in only depends on where the FUNCs are.
LEMMA WithinKept ==
  ASSUME NEW c, NEW d, NEW n \in Nat, NEW a \in 0 .. n - 1, NEW f \in 0 .. a, Within(c, f, a),
         \A b \in 0 .. n - 1 : d[b + 1].op = c[b + 1].op
  PROVE  Within(d, f, a)
BY DEF Within, Starts

\* Complete functions stay complete while code is appended and ordinals of calls are filled in.
LEMMA ClosedKept ==
  ASSUME NEW c, NEW d, NEW n \in Nat, Closed(c, n),
         \A a \in 0 .. n - 1 :
           /\ d[a + 1].op = c[a + 1].op /\ d[a + 1].p1 = c[a + 1].p1
           /\ d[a + 1].jumps = c[a + 1].jumps
           /\ d[a + 1].slots = c[a + 1].slots /\ d[a + 1].bases = c[a + 1].bases
           /\ c[a + 1].op = "FUNC" => d[a + 1].p0 = c[a + 1].p0
  PROVE  Closed(d, n)
<1> SUFFICES ASSUME NEW a \in 0 .. n - 1
             PROVE  /\ \E f \in 0 .. a :
                         /\ Within(d, f, a)
                         /\ FitsFrame(d[a + 1], d[f + 1].p0, d[f + 1].p1)
                         /\ \A j \in d[a + 1].jumps : a + j \in (f + 1) .. (n - 1) /\ Within(d, f, a + j)
                    /\ d[a + 1].op \in Program!Jumps => d[a + 1].jumps # {}
                    /\ d[a + 1].op \notin {"RETU", "GOTO"} => a + 1 <= n - 1 /\ ~Starts(d, a + 1)
  BY DEF Closed
<1>1. PICK f \in 0 .. a :
        /\ Within(c, f, a)
        /\ FitsFrame(c[a + 1], c[f + 1].p0, c[f + 1].p1)
        /\ \A j \in c[a + 1].jumps : a + j \in (f + 1) .. (n - 1) /\ Within(c, f, a + j)
  BY DEF Closed
<1>2. f \in 0 .. n - 1 /\ d[f + 1].p0 = c[f + 1].p0 /\ d[f + 1].p1 = c[f + 1].p1
  BY <1>1 DEF Within, Starts
<1>3. Within(d, f, a) BY <1>1, WithinKept
<1>4. FitsFrame(d[a + 1], d[f + 1].p0, d[f + 1].p1) BY <1>1, <1>2 DEF FitsFrame
<1>5. ASSUME NEW j \in d[a + 1].jumps
      PROVE  a + j \in (f + 1) .. (n - 1) /\ Within(d, f, a + j)
  <2>1. a + j \in (f + 1) .. (n - 1) /\ Within(c, f, a + j) BY <1>1, <1>5
  <2>2. a + j \in 0 .. n - 1 /\ f \in 0 .. a + j BY <1>1, <2>1
  <2>3. PICK b \in 0 .. n - 1 : b = a + j BY <2>2
  <2>4. Within(d, f, b) BY <2>1, <2>2, <2>3, WithinKept
  <2> QED BY <2>1, <2>3, <2>4
<1>6. d[a + 1].op \in Program!Jumps => d[a + 1].jumps # {} BY DEF Closed
<1>7. d[a + 1].op \notin {"RETU", "GOTO"} => a + 1 <= n - 1 /\ ~Starts(d, a + 1)
  <2>1. c[a + 1].op \notin {"RETU", "GOTO"} => a + 1 <= n - 1 /\ ~Starts(c, a + 1) BY DEF Closed
  <2>2. a + 1 <= n - 1 => Starts(d, a + 1) = Starts(c, a + 1) BY DEF Starts
  <2> QED BY <2>1, <2>2
<1> QED BY <1>1, <1>3, <1>4, <1>5, <1>6, <1>7

\* A label that is declared is added to the symbols, and changes none of them.
LEMMA Declared ==
  ASSUME NEW s, NEW l, NEW y, Undeclared(s, l)
  PROVE  /\ DOMAIN s \subseteq DOMAIN Declare(s, l, y)
         /\ \A n \in DOMAIN s : Declare(s, l, y)[n] = s[n]
         /\ \A n \in DOMAIN Declare(s, l, y) :
              \/ n \in DOMAIN s
              \/ n = l /\ l # None /\ Declare(s, l, y)[n] = y
<1>1. CASE l = None BY <1>1 DEF Declare
<1>2. CASE l # None BY <1>2 DEF Declare, Define, Undeclared
<1> QED BY <1>1, <1>2

\* Offsets into the code are never below 0 nor past its end.
LEMMA Lengths ==
  ASSUME TypeOK
  PROVE  /\ here \in Nat /\ Len(functionTable) \in Nat
         /\ ClosedEnd \in Nat /\ ClosedEnd <= here
         /\ functionStart # Outside => functionStart \in 0 .. here - 1
BY DEF TypeOK, here, ClosedEnd, Outside

-----------------------------------------------------------------------------
\* An assembler that has been fed nothing.
THEOREM Initially == Init => IInv
<1> SUFFICES ASSUME Init PROVE IInv
  OBVIOUS
<1>1. TypeOK BY AssemblerAssumption DEF Init, TypeOK, Outside, None
<1>2. Closed(code, ClosedEnd) BY DEF Init, Closed, ClosedEnd, here
<1>3. Open BY DEF Init, Open
<1>4. Linked BY DEF Init, Linked, here
<1>5. Sized(code) BY DEF Init, Sized
<1> QED BY <1>1, <1>2, <1>3, <1>4, <1>5 DEF IInv, Init

-----------------------------------------------------------------------------
(***************************************************************************)
(* Lines in a function.                                                    *)
(***************************************************************************)
LEMMA LabelKeeps ==
  ASSUME IInv, NEW l \in Labels, Label(l)
  PROVE  /\ status = "feeding" /\ status' = "feeding" /\ skipUntilLabel' = None
         /\ functionStart \in 0 .. here - 1
         /\ DOMAIN locals \subseteq DOMAIN locals' /\ DOMAIN locals' \subseteq Names
         /\ \A n \in DOMAIN locals : locals'[n] = locals[n]
         /\ \A n \in DOMAIN locals' : n \in DOMAIN locals \/ locals'[n] = Symbol("BRANCH", here)
         /\ \A n \in DOMAIN locals' : locals'[n] \in [kind : {"BRANCH", "VAR"}, value : Nat]
<1>1. TypeOK BY DEF IInv
<1>2. here \in Nat /\ functionStart \in 0 .. here - 1 BY <1>1, Lengths DEF Label
<1>3. /\ DOMAIN locals \subseteq DOMAIN locals'
      /\ \A n \in DOMAIN locals : locals'[n] = locals[n]
      /\ \A n \in DOMAIN locals' :
           \/ n \in DOMAIN locals
           \/ n = l /\ l # None /\ locals'[n] = Symbol("BRANCH", here)
  <2>1. Undeclared(locals, l) /\ locals' = Declare(locals, l, Symbol("BRANCH", here)) BY DEF Label
  <2>2. PICK y : y = Symbol("BRANCH", here) OBVIOUS
  <2>3. /\ DOMAIN locals \subseteq DOMAIN Declare(locals, l, y)
        /\ \A n \in DOMAIN locals : Declare(locals, l, y)[n] = locals[n]
        /\ \A n \in DOMAIN Declare(locals, l, y) :
             \/ n \in DOMAIN locals
             \/ n = l /\ l # None /\ Declare(locals, l, y)[n] = y
    BY <2>1, Declared
  <2> QED BY <2>1, <2>2, <2>3
<1>4. DOMAIN locals' \subseteq Names BY <1>1, <1>3 DEF TypeOK, Labels
<1>5. Symbol("BRANCH", here) \in [kind : {"BRANCH", "VAR"}, value : Nat] BY <1>2 DEF Symbol
<1>6. \A n \in DOMAIN locals' : locals'[n] \in [kind : {"BRANCH", "VAR"}, value : Nat]
  BY <1>1, <1>3, <1>5 DEF TypeOK
<1>7. status = "feeding" /\ status' = "feeding" /\ skipUntilLabel' = None BY DEF Label, Feed
<1> QED BY <1>2, <1>3, <1>4, <1>6, <1>7

\* A frame that grows keeps the slots it had.
LEMMA RangeGrows ==
  ASSUME NEW k \in Int, NEW m \in Int, NEW n \in Int, m <= n
  PROVE  (-k) .. (m - 1) \subseteq (-k) .. (n - 1)
OBVIOUS

\* An instruction is added whose operands are in the frame, if the frame only grows.
LEMMA EmitPreserves ==
  ASSUME IInv, NEW l \in Labels, NEW i \in EmittedCode, Emit(l, i), i.op # "FUNC",
         paramsSize' \in Int, paramsSize <= paramsSize', paramsSize' <= MaxInt,
         FitsFrame(i, localsSize, paramsSize'),
         \A j \in i.jumps : \E n \in DOMAIN locals' : locals'[n] = Symbol("BRANCH", here + j),
         i.op \in Program!Jumps => i.jumps # {} \/ \E r \in localRefs' : r.at = here,
         localRefs \subseteq localRefs',
         \A r \in localRefs' : r \in localRefs \/ r \in [at : {here}, label : Names, cases : Cases \cup {0}],
         globalRefs \subseteq globalRefs',
         \A r \in globalRefs' :
           r \in globalRefs \/ (i.op = "CALL_CVC" /\ r \in [at : {here}, label : Names]),
         i.op = "CALL_CVC" => i.p0 < Len(functionTable) \/ \E r \in globalRefs' : r.at = here,
         freeWords' \in 0 .. MaxMemorySize - 1
  PROVE  IInv'
<1>1. /\ TypeOK /\ here \in Nat /\ functionStart \in 0 .. here - 1
      /\ functionStart # Outside /\ ClosedEnd = functionStart
  <2>1. TypeOK BY DEF IInv
  <2> QED BY <2>1, Lengths DEF Emit, Label, ClosedEnd
<1>2. /\ Label(l) /\ here < MaxCodeSize
      /\ code' = Append(code, i)
      /\ functionTable' = functionTable /\ functionStart' = functionStart
      /\ localsSize' = localsSize /\ globals' = globals
  BY DEF Emit
<1>3. /\ code' \in Seq(EmittedCode) /\ Len(code') = here + 1
      /\ \A k \in 1 .. here : code'[k] = code[k]
      /\ code'[here + 1] = i
  <2>1. code \in Seq(EmittedCode) BY <1>1 DEF TypeOK
  <2> QED BY <2>1, <1>2, AppendKeeps DEF here
<1>4. \A a \in 0 .. here - 1 : code'[a + 1] = code[a + 1]
  BY <1>1, <1>3
<1>5. TypeOK'
  <2>1. code' \in Seq(EmittedCode) /\ Len(code') <= MaxCodeSize
    BY <1>1, <1>2, <1>3, AssemblerAssumption
  <2>2. /\ functionTable' \in Seq(Nat) /\ Len(functionTable') <= MaxFunctionCount
        /\ \A f \in 1 .. Len(functionTable') : functionTable'[f] < Len(code')
    <3>1. Len(functionTable) \in Nat BY <1>1, Lengths
    <3>2. \A f \in 1 .. Len(functionTable) : functionTable[f] \in Nat /\ functionTable[f] < here
      <4>1. functionTable \in Seq(Nat) /\ \A f \in 1 .. Len(functionTable) : functionTable[f] < here
        BY <1>1 DEF TypeOK, here
      <4> QED BY <4>1
    <3>3. functionTable \in Seq(Nat) /\ Len(functionTable) <= MaxFunctionCount BY <1>1 DEF TypeOK
    <3>4. \A f \in 1 .. Len(functionTable) : functionTable[f] < Len(code') BY <1>1, <1>3, <3>2
    <3> QED BY <1>2, <3>3, <3>4
  <2>3. functionStart' \in {Outside} \cup (0 .. Len(code') - 1) BY <1>1, <1>2, <1>3
  <2>4. localsSize' \in 0 .. MaxInt /\ paramsSize' \in 0 .. MaxInt
    BY <1>1, <1>2, AssemblerAssumption DEF TypeOK
  <2>5. /\ DOMAIN locals' \subseteq Names
        /\ \A n \in DOMAIN locals' : locals'[n] \in [kind : {"BRANCH", "VAR"}, value : Nat]
    BY <1>2, LabelKeeps
  <2>6. localRefs' \subseteq [at : 0 .. Len(code') - 1, label : Names, cases : Cases \cup {0}]
    <3> SUFFICES ASSUME NEW r \in localRefs'
                 PROVE  r \in [at : 0 .. Len(code') - 1, label : Names, cases : Cases \cup {0}]
      OBVIOUS
    <3>1. CASE r \in localRefs BY <1>1, <1>3, <3>1 DEF TypeOK, here
    <3>2. CASE r \in [at : {here}, label : Names, cases : Cases \cup {0}] BY <1>1, <1>3, <3>2
    <3> QED BY <3>1, <3>2
  <2>7. globalRefs' \subseteq [at : 0 .. Len(code') - 1, label : Names]
    <3> SUFFICES ASSUME NEW r \in globalRefs' PROVE r \in [at : 0 .. Len(code') - 1, label : Names]
      OBVIOUS
    <3>1. CASE r \in globalRefs BY <1>1, <1>3, <3>1 DEF TypeOK, here
    <3>2. CASE r \in [at : {here}, label : Names] BY <1>1, <1>3, <3>2
    <3> QED BY <3>1, <3>2
  <2>8. skipUntilLabel' \in SkipLabels \cup {None} /\ status' \in {"feeding", "done"}
    BY <1>2, LabelKeeps
  <2>9. /\ DOMAIN globals' \subseteq Names
        /\ \A n \in DOMAIN globals' : globals'[n] \in [kind : {"FUNC", "OTHER"}, value : Nat]
    BY <1>1, <1>2 DEF TypeOK
  <2> QED BY <2>1, <2>2, <2>3, <2>4, <2>5, <2>6, <2>7, <2>8, <2>9 DEF TypeOK
<1>6. Closed(code', ClosedEnd')
  <2>1. \A a \in 0 .. functionStart - 1 : code'[a + 1] = code[a + 1]
    <3>1. 0 .. functionStart - 1 \subseteq 0 .. here - 1 BY <1>1
    <3> QED BY <1>4, <3>1
  <2>2. Closed(code', functionStart)
    <3>1. Closed(code, functionStart) /\ functionStart \in Nat BY <1>1 DEF IInv
    <3> QED BY <2>1, <3>1, ClosedKept
  <2> QED BY <1>1, <1>2, <2>2 DEF ClosedEnd
<1>7. Open'
  <2>1. code'[functionStart + 1] = Emitted("FUNC", 0, 0, {})
    BY <1>1, <1>4 DEF IInv, Open
  <2>2. ASSUME NEW a \in (functionStart + 1) .. (here - 1)
        PROVE  OpenAt(a)'
    <3>1. OpenAt(a) BY <1>1 DEF IInv, Open
    <3>2. code'[a + 1] = code[a + 1] BY <1>1, <1>4
    <3>3. FitsFrame(code[a + 1], localsSize, paramsSize')
      <4>1. code[a + 1] \in EmittedCode
        <5>1. code \in Seq(EmittedCode) /\ a + 1 \in 1 .. Len(code) BY <1>1 DEF TypeOK, here
        <5> QED BY <5>1
      <4>2. FitsFrame(code[a + 1], localsSize, paramsSize) BY <3>1 DEF OpenAt
      <4>3. paramsSize \in Int /\ localsSize \in Int BY <1>1 DEF TypeOK
      <4>4. (-localsSize) .. (paramsSize - 1) \subseteq (-localsSize) .. (paramsSize' - 1)
        BY <4>3, RangeGrows
      <4>5. code[a + 1].p1 \in Nat BY <4>1 DEF EmittedCode
      <4> QED BY <4>2, <4>3, <4>4, <4>5 DEF FitsFrame
    <3>4. \A j \in code[a + 1].jumps : \E n \in DOMAIN locals' : locals'[n] = Symbol("BRANCH", a + j)
      BY <1>2, <3>1, LabelKeeps DEF OpenAt
    <3>5. code[a + 1].op \in Program!Jumps =>
            code[a + 1].jumps # {} \/ \E r \in localRefs' : r.at = a
      BY <3>1 DEF OpenAt
    <3>6. ~Starts(code, a) BY <3>1 DEF OpenAt
    <3> QED BY <1>2, <3>2, <3>3, <3>4, <3>5, <3>6 DEF OpenAt, Starts
  <2>3. ASSUME NEW a \in {here} PROVE OpenAt(a)'
    <3>1. a = here /\ code'[a + 1] = i BY <1>3, <2>3
    <3>2. ~Starts(code', a) BY <3>1 DEF Starts
    <3> QED BY <1>2, <3>1, <3>2 DEF OpenAt, Starts
  <2>4. ASSUME NEW n \in DOMAIN locals', locals'[n].kind = "BRANCH"
        PROVE  locals'[n].value \in (functionStart + 1) .. (here + 1)
    <3>1. CASE n \in DOMAIN locals
      <4>1. locals'[n] = locals[n] BY <1>2, <3>1, LabelKeeps
      <4>2. locals[n].value \in (functionStart + 1) .. here BY <2>4, <3>1, <4>1 DEF IInv, Open
      <4> QED BY <1>1, <4>1, <4>2
    <3>2. CASE locals'[n] = Symbol("BRANCH", here) BY <1>1, <3>2 DEF Symbol
    <3> QED BY <1>2, <3>1, <3>2, LabelKeeps
  <2>5. ASSUME NEW r \in localRefs' PROVE functionStart < r.at
    <3>1. CASE r \in localRefs BY <3>1 DEF IInv, Open
    <3>2. CASE r \in [at : {here}, label : Names, cases : Cases \cup {0}] BY <1>1, <3>2
    <3> QED BY <3>1, <3>2
  <2>6. here' = here + 1 BY <1>3 DEF here
  <2>7. ASSUME NEW a \in (functionStart' + 1) .. (here' - 1) PROVE OpenAt(a)'
    <3>1. a \in (functionStart + 1) .. (here - 1) \/ a \in {here} BY <1>1, <1>2, <2>6
    <3> QED BY <2>2, <2>3, <3>1
  <2>8. \A n \in DOMAIN locals' :
          locals'[n].kind = "BRANCH" =>
            functionStart' # Outside /\ locals'[n].value \in (functionStart' + 1) .. here'
    BY <1>1, <1>2, <2>4, <2>6
  <2>9. \A r \in localRefs' : functionStart' # Outside /\ functionStart' < r.at BY <1>1, <1>2, <2>5
  <2> QED BY <1>2, <2>1, <2>7, <2>8, <2>9 DEF Open
<1>8. Linked'
  <2>1. \A k \in 1 .. Len(functionTable) : Starts(code', functionTable[k])
    <3>1. \A k \in 1 .. Len(functionTable) : functionTable[k] \in 0 .. here - 1
      BY <1>1 DEF TypeOK, here
    <3> QED BY <1>4, <3>1 DEF IInv, Linked, Starts
  <2>2. \A n \in DOMAIN globals : globals[n].kind = "FUNC" => globals[n].value < Len(functionTable)
    BY DEF IInv, Linked
  <2>3. ASSUME NEW r \in globalRefs' PROVE code'[r.at + 1].op = "CALL_CVC"
    <3>1. CASE r \in globalRefs
      <4>1. r.at \in 0 .. here - 1 BY <1>1, <3>1 DEF TypeOK, here
      <4> QED BY <1>4, <3>1, <4>1 DEF IInv, Linked
    <3>2. CASE i.op = "CALL_CVC" /\ r \in [at : {here}, label : Names] BY <1>3, <3>2
    <3> QED BY <3>1, <3>2
  <2>4. ASSUME NEW a \in 0 .. here, code'[a + 1].op = "CALL_CVC"
        PROVE  code'[a + 1].p0 < Len(functionTable) \/ \E r \in globalRefs' : r.at = a
    <3>1. CASE a \in 0 .. here - 1 BY <1>4, <2>4, <3>1 DEF IInv, Linked
    <3>2. CASE a = here BY <1>3, <2>4, <3>2
    <3> QED BY <1>1, <3>1, <3>2
  <2>5. here' = here + 1 /\ status' = "feeding" BY <1>2, <1>3, LabelKeeps DEF here
  <2>6. 0 .. here' - 1 = 0 .. here BY <1>1, <2>5
  <2> QED BY <1>2, <2>1, <2>2, <2>3, <2>4, <2>5, <2>6 DEF Linked
<1>9. Sized(code')
  <2>1. ASSUME NEW k \in 1 .. Len(code'), code'[k].op = "FUNC"
        PROVE  code'[k].p0 <= MaxInt /\ code'[k].p1 <= MaxInt
    <3>1. k \in 1 .. here /\ code'[k] = code[k] BY <1>1, <1>3, <2>1
    <3> QED BY <2>1, <3>1 DEF IInv, Sized, here
  <2> QED BY <2>1 DEF Sized
<1>10. status' = "feeding" BY <1>2, LabelKeeps
<1> QED BY <1>5, <1>6, <1>7, <1>8, <1>9, <1>10 DEF IInv

\* What an emitting line may assume of the state it starts in.
LEMMA FrameSizes ==
  ASSUME IInv
  PROVE  /\ localsSize \in 0 .. MaxInt /\ paramsSize \in 0 .. MaxInt /\ MaxInt \in Nat
         /\ here \in Nat /\ freeWords \in 0 .. MaxMemorySize - 1
         /\ \A n \in DOMAIN locals : locals[n].value \in Nat
BY AssemblerAssumption, Lengths DEF IInv, TypeOK

\* An instruction without a jump or a reference.
LEMMA PlainPreserves ==
  ASSUME IInv, NEW l \in Labels, NEW i \in EmittedCode, Emit(l, i),
         i.op \in {"RETU", "DATA", "CALL_VVC", "CALL_NVC"}, i.jumps = {},
         paramsSize' \in Int, paramsSize <= paramsSize', paramsSize' <= MaxInt,
         FitsFrame(i, localsSize, paramsSize'),
         UNCHANGED <<localRefs, globalRefs, freeWords>>
  PROVE  IInv'
<1>1. i.op \notin Program!Jumps /\ i.op # "CALL_CVC" /\ i.op # "FUNC" BY DEF Program!Jumps
<1>2. freeWords' \in 0 .. MaxMemorySize - 1 BY FrameSizes
<1> QED BY <1>1, <1>2, EmitPreserves

\* RETU gives back the locals and uses no word of the frame.
LEMMA RetuPreserves ==
  ASSUME IInv, NEW l \in Labels, Retu(l)
  PROVE  IInv'
<1>1. PICK i : i = Emitted("RETU", localsSize, 0, {}) OBVIOUS
<1>2. localsSize \in Nat /\ paramsSize \in Int /\ paramsSize <= MaxInt BY FrameSizes
<1>3. i \in EmittedCode /\ i.op = "RETU" /\ i.jumps = {} BY <1>1, <1>2 DEF Emitted, EmittedCode
<1>4. FitsFrame(i, localsSize, paramsSize) BY <1>1 DEF Emitted, FitsFrame, Program!Calls
<1>5. Emit(l, i) /\ UNCHANGED <<paramsSize, localRefs, globalRefs, freeWords>> BY <1>1 DEF Retu
<1> QED BY <1>2, <1>3, <1>4, <1>5, PlainPreserves

\* Data, with slots in the frame and bases not below it.
LEMMA DataPreserves ==
  ASSUME IInv, NEW l \in Labels, NEW slots \in SUBSET Int, NEW bases \in SUBSET Int,
         Data(l, slots, bases),
         paramsSize' \in Int, paramsSize <= paramsSize', paramsSize' <= MaxInt,
         slots \subseteq (-localsSize) .. (paramsSize' - 1), \A b \in bases : b >= -localsSize
  PROVE  IInv'
<1>1. PICK i : i = [Emitted("DATA", 0, 0, {}) EXCEPT !.slots = slots, !.bases = bases] OBVIOUS
<1>2. /\ i \in EmittedCode /\ i.op = "DATA" /\ i.jumps = {} /\ i.slots = slots /\ i.bases = bases
  BY <1>1 DEF Emitted, EmittedCode
<1>3. FitsFrame(i, localsSize, paramsSize') BY <1>2 DEF FitsFrame, Program!Calls
<1>4. Emit(l, i) /\ UNCHANGED <<localRefs, globalRefs, freeWords>> BY <1>1 DEF Data
<1> QED BY <1>2, <1>3, <1>4, PlainPreserves

\* A transient that is used makes the frame large enough for it.
LEMMA OnTransientPreserves ==
  ASSUME IInv, NEW l \in Labels, NEW n \in Sizes, OnTransient(l, n)
  PROVE  IInv'
<1>1. n \in Nat /\ n < MaxInt BY AssemblerAssumption DEF OnTransient, Transient
<1>2. paramsSize' = Larger(paramsSize, n + 1) /\ Data(l, {n}, {}) BY DEF OnTransient, Transient
<1>3. paramsSize' \in Int /\ paramsSize <= paramsSize' /\ n + 1 <= paramsSize' /\ paramsSize' <= MaxInt
  <2>1. paramsSize \in 0 .. MaxInt /\ MaxInt \in Nat BY FrameSizes
  <2> QED BY <1>1, <1>2, <2>1 DEF Larger
<1>4. {n} \subseteq (-localsSize) .. (paramsSize' - 1) BY <1>1, <1>3, FrameSizes
<1> QED BY <1>1, <1>2, <1>3, <1>4, DataPreserves

\* A local's word is below the first transient and above the frame's start.
LEMMA OnLocalPreserves ==
  ASSUME IInv, NEW l \in Labels, NEW name \in Names, NEW k \in Offsets, OnLocal(l, name, k)
  PROVE  IInv'
<1>1. PICK p \in Int : p = LocalWord(name, k) - localsSize /\ p \in (-localsSize) .. -1
  BY FrameSizes DEF OnLocal, IsCheckedLocal, IsLocal
<1>2. Data(l, {p}, {}) /\ paramsSize' = paramsSize BY <1>1 DEF OnLocal
<1>3. {p} \subseteq (-localsSize) .. (paramsSize - 1) BY <1>1, FrameSizes
<1> QED BY <1>1, <1>2, <1>3, FrameSizes, DataPreserves

\* A run-time index counts from a word that is not below the frame.
LEMMA IndexedPreserves ==
  ASSUME IInv, NEW l \in Labels, NEW name \in Names, NEW k \in Offsets, Indexed(l, name, k)
  PROVE  IInv'
<1>1. PICK p \in Int : p = LocalWord(name, k) - localsSize /\ p >= -localsSize
  BY FrameSizes DEF Indexed, IsLocal
<1>2. Data(l, {}, {p}) /\ paramsSize' = paramsSize BY <1>1 DEF Indexed
<1> QED BY <1>1, <1>2, FrameSizes, DataPreserves

\* ADRL hands out words of the frame, which grows to hold them.
LEMMA AddressOfPreserves ==
  ASSUME IInv, NEW l \in Labels, NEW name \in Names, NEW k \in Offsets, NEW size \in Sizes,
         AddressOf(l, name, k, size)
  PROVE  IInv'
<1>1. PICK p \in Int : /\ p = LocalWord(name, k) - localsSize
                       /\ p >= -localsSize /\ p <= MaxInt - localsSize
  BY FrameSizes DEF AddressOf, IsLocal
<1>2. Data(l, p .. p + size - 1, {p}) /\ FrameReaches(p, size) BY <1>1 DEF AddressOf
<1>3. size \in 0 .. MaxInt BY AssemblerAssumption
<1>4. /\ paramsSize' \in Int /\ paramsSize <= paramsSize' /\ paramsSize' <= MaxInt
      /\ p + size <= paramsSize'
  BY <1>1, <1>2, <1>3, FrameSizes, SMTT(30) DEF FrameReaches, Larger
<1>5. p .. p + size - 1 \subseteq (-localsSize) .. (paramsSize' - 1) BY <1>1, <1>3, <1>4, FrameSizes
<1>6. p .. p + size - 1 \in SUBSET Int BY <1>1, <1>3
<1> QED BY <1>1, <1>2, <1>4, <1>5, <1>6, DataPreserves

\* A window that ends inside a frame is inside it.
LEMMA WindowInFrame ==
  ASSUME NEW n \in Nat, NEW size \in Nat, NEW locs \in Nat, NEW params \in Int, n + size <= params
  PROVE  n .. n + size - 1 \subseteq (-locs) .. (params - 1)
OBVIOUS

\* Operands *size make the frame large enough for the window.
LEMMA WindowReached ==
  ASSUME IInv, NEW n \in Sizes, NEW size \in Sizes, WindowReaches(n, size)
  PROVE  /\ n \in Nat /\ size \in Nat
         /\ paramsSize' \in Int /\ paramsSize <= paramsSize' /\ paramsSize' <= MaxInt
         /\ n < paramsSize'
         /\ n .. n + size - 1 \subseteq (-localsSize) .. (paramsSize' - 1)
<1>1. n \in Nat /\ size \in Nat /\ n <= MaxInt /\ size <= MaxInt BY AssemblerAssumption
<1>2. /\ paramsSize' \in Int /\ paramsSize <= paramsSize' /\ paramsSize' <= MaxInt
      /\ n < paramsSize' /\ n + size <= paramsSize'
  <2>1. paramsSize \in 0 .. MaxInt /\ MaxInt \in Nat BY FrameSizes
  <2>2. /\ n < MaxInt /\ size <= MaxInt - n
        /\ paramsSize' = Larger(Larger(paramsSize, n + 1), n + size)
    BY DEF WindowReaches
  <2> QED BY <1>1, <2>1, <2>2 DEF Larger
<1>3. n .. n + size - 1 \subseteq (-localsSize) .. (paramsSize' - 1)
  <2>1. localsSize \in Nat BY FrameSizes
  <2> QED BY <1>1, <1>2, <2>1, WindowInFrame
<1> QED BY <1>1, <1>2, <1>3

\* ADRL of a transient.
LEMMA AddressOfWindowPreserves ==
  ASSUME IInv, NEW l \in Labels, NEW n \in Sizes, NEW size \in Sizes, AddressOfWindow(l, n, size)
  PROVE  IInv'
<1>1. WindowReaches(n, size) /\ Data(l, n .. n + size - 1, {n}) BY DEF AddressOfWindow
<1>2. n >= -localsSize BY <1>1, WindowReached, FrameSizes
<1>3. n .. n + size - 1 \in SUBSET Int /\ {n} \in SUBSET Int BY <1>1, WindowReached
<1> QED BY <1>1, <1>2, <1>3, WindowReached, DataPreserves

\* A call is one instruction, whose window is inside the frame.
LEMMA CallEmits ==
  ASSUME IInv, NEW l \in Labels, NEW op \in Program!Calls, NEW p0 \in Nat, NEW window \in Windows,
         Call(l, op, p0, window)
  PROVE  /\ \E i \in EmittedCode : /\ Emit(l, i) /\ i.op = op /\ i.p0 = p0 /\ i.jumps = {}
                                   /\ FitsFrame(i, localsSize, paramsSize')
         /\ paramsSize' \in Int /\ paramsSize <= paramsSize' /\ paramsSize' <= MaxInt
         /\ UNCHANGED <<localRefs, freeWords>>
<1>1. localsSize \in Nat /\ paramsSize \in Nat /\ paramsSize <= MaxInt BY FrameSizes
<1>2. CASE window = NoWindow
  <2>1. PICK i : i = Emitted(op, p0, 0, {}) OBVIOUS
  <2>2. Emit(l, i) /\ UNCHANGED <<paramsSize, localRefs, freeWords>> BY <1>2, <2>1 DEF Call
  <2>3. i \in EmittedCode /\ i.op = op /\ i.p0 = p0 /\ i.jumps = {}
    BY <2>1 DEF Emitted, EmittedCode, Program!Calls
  <2>4. FitsFrame(i, localsSize, paramsSize) BY <1>1, <2>1 DEF Emitted, FitsFrame
  <2> QED BY <1>1, <2>2, <2>3, <2>4
<1>3. CASE window # NoWindow
  <2>1. PICK n \in Sizes, size \in Sizes : window = <<n, size>> BY <1>3 DEF Windows
  <2>2. WindowReaches(n, size) /\ UNCHANGED <<localRefs, freeWords>>
    BY <1>3, <2>1 DEF Call
  <2>3. PICK i : i = [Emitted(op, p0, n, {}) EXCEPT !.slots = n .. n + size - 1] OBVIOUS
  <2>4. Emit(l, i) BY <1>3, <2>1, <2>3 DEF Call
  <2>5. n \in Nat /\ size \in Nat /\ n .. n + size - 1 \in SUBSET Int BY <2>2, WindowReached
  <2>6. /\ i \in EmittedCode /\ i.op = op /\ i.p0 = p0 /\ i.jumps = {}
        /\ i.p1 = n /\ i.slots = n .. n + size - 1 /\ i.bases = {}
    BY <2>3, <2>5 DEF Emitted, EmittedCode, Program!Calls
  <2>7. n <= paramsSize' BY <2>2, <2>5, WindowReached
  <2>8. FitsFrame(i, localsSize, paramsSize') BY <2>2, <2>6, <2>7, WindowReached DEF FitsFrame
  <2> QED BY <2>2, <2>4, <2>6, <2>8, WindowReached
<1> QED BY <1>2, <1>3

\* Calls of natives and through pointers refer to no function.
LEMMA CallOtherPreserves ==
  ASSUME IInv, NEW l \in Labels, NEW op \in {"CALL_VVC", "CALL_NVC"}, NEW window \in Windows,
         CallOther(l, op, window)
  PROVE  IInv'
<1>1. op \in Program!Calls /\ Call(l, op, 0, window) /\ UNCHANGED globalRefs
  BY DEF CallOther, Program!Calls
<1> QED BY <1>1, CallEmits, PlainPreserves

\* A call of a function has its ordinal, or there is a reference to it.
LEMMA CallFunctionPreserves ==
  ASSUME IInv, NEW l \in Labels, NEW name \in Names, NEW window \in Windows,
         CallFunction(l, name, window)
  PROVE  IInv'
<1>1. "CALL_CVC" \in Program!Calls /\ "CALL_CVC" \notin Program!Jumps BY DEF Program!Calls, Program!Jumps
<1>2. freeWords \in 0 .. MaxMemorySize - 1 BY FrameSizes
<1>3. CASE /\ name \in DOMAIN globals /\ globals[name].kind = "FUNC"
           /\ Call(l, "CALL_CVC", globals[name].value, window)
           /\ UNCHANGED globalRefs
  <2>1. globals[name].value \in Nat /\ globals[name].value < Len(functionTable)
    BY <1>3 DEF IInv, TypeOK, Linked
  <2>2. PICK i \in EmittedCode :
          /\ Emit(l, i) /\ i.op = "CALL_CVC" /\ i.p0 = globals[name].value /\ i.jumps = {}
          /\ FitsFrame(i, localsSize, paramsSize')
    BY <1>1, <1>3, <2>1, CallEmits
  <2>3. /\ paramsSize' \in Int /\ paramsSize <= paramsSize' /\ paramsSize' <= MaxInt
        /\ UNCHANGED <<localRefs, freeWords>>
    BY <1>1, <1>3, <2>1, CallEmits
  <2> QED BY <1>1, <1>2, <1>3, <2>1, <2>2, <2>3, EmitPreserves
<1>4. CASE /\ name \notin DOMAIN globals
           /\ Call(l, "CALL_CVC", 0, window)
           /\ globalRefs' = globalRefs \cup {[at |-> here, label |-> name]}
  <2>1. PICK i \in EmittedCode :
          /\ Emit(l, i) /\ i.op = "CALL_CVC" /\ i.p0 = 0 /\ i.jumps = {}
          /\ FitsFrame(i, localsSize, paramsSize')
    BY <1>1, <1>4, CallEmits
  <2>2. /\ paramsSize' \in Int /\ paramsSize <= paramsSize' /\ paramsSize' <= MaxInt
        /\ UNCHANGED <<localRefs, freeWords>>
    BY <1>1, <1>4, CallEmits
  <2>3. \E r \in globalRefs' : r.at = here
    <3>1. PICK r : r = [at |-> here, label |-> name] OBVIOUS
    <3>2. r \in globalRefs' /\ r.at = here BY <1>4, <3>1
    <3> QED BY <3>2
  <2>4. \A r \in globalRefs' : r \in globalRefs \/ r \in [at : {here}, label : Names] BY <1>4
  <2> QED BY <1>1, <1>2, <1>4, <2>1, <2>2, <2>3, <2>4, EmitPreserves
<1> QED BY <1>3, <1>4 DEF CallFunction

\* A jump has its distance, or there is a reference to its label.
LEMMA JumpPreserves ==
  ASSUME IInv, NEW l \in Labels, NEW op \in {"BRANCH", "GOTO"}, NEW name \in Names, Jump(l, op, name)
  PROVE  IInv'
<1>1. PICK i : i = Emitted(op, 0, 0, IF name \in DOMAIN locals' THEN {locals'[name].value - here} ELSE {})
  OBVIOUS
<1>2. Emit(l, i) /\ UNCHANGED <<paramsSize, globalRefs, freeWords>> BY <1>1 DEF Jump
<1>3. Label(l) BY <1>2 DEF Emit
<1>4. /\ here \in Nat /\ localsSize \in Nat /\ paramsSize \in Int /\ paramsSize <= MaxInt
      /\ freeWords \in 0 .. MaxMemorySize - 1
  BY FrameSizes
<1>5. name \in DOMAIN locals' => locals'[name] \in [kind : {"BRANCH", "VAR"}, value : Nat]
  BY <1>3, LabelKeeps
<1>6. i \in EmittedCode /\ i.op = op /\ i.op \notin {"FUNC", "CALL_CVC"}
  BY <1>1, <1>4, <1>5 DEF Emitted, EmittedCode
<1>7. FitsFrame(i, localsSize, paramsSize) BY <1>1, <1>4 DEF Emitted, FitsFrame, Program!Calls
<1>8. CASE /\ name \in DOMAIN locals' /\ locals'[name].kind = "BRANCH"
           /\ UNCHANGED localRefs
  <2>1. i.jumps = {locals'[name].value - here} BY <1>1, <1>8 DEF Emitted
  <2>2. ASSUME NEW j \in i.jumps PROVE locals'[name] = Symbol("BRANCH", here + j)
    BY <1>4, <1>5, <1>8, <2>1, <2>2 DEF Symbol
  <2>3. i.jumps # {} BY <2>1
  <2> QED BY <1>2, <1>4, <1>6, <1>7, <1>8, <2>2, <2>3, EmitPreserves
<1>9. CASE /\ name \notin DOMAIN locals'
           /\ localRefs' = localRefs \cup {[at |-> here, label |-> name, cases |-> 0]}
  <2>1. i.jumps = {} BY <1>1, <1>9 DEF Emitted
  <2>2. \E r \in localRefs' : r.at = here
    <3>1. PICK r : r = [at |-> here, label |-> name, cases |-> 0] OBVIOUS
    <3>2. r \in localRefs' /\ r.at = here BY <1>9, <3>1
    <3> QED BY <3>2
  <2>3. \A r \in localRefs' : r \in localRefs \/ r \in [at : {here}, label : Names, cases : Cases \cup {0}]
    BY <1>9
  <2> QED BY <1>2, <1>4, <1>6, <1>7, <1>9, <2>1, <2>2, <2>3, EmitPreserves
<1> QED BY <1>8, <1>9 DEF Jump

\* A switch has its references until the function ends.
LEMMA SwitchPreserves ==
  ASSUME IInv, NEW l \in Labels, NEW name \in Names, NEW cases \in Cases, Switch(l, name, cases)
  PROVE  IInv'
<1>1. PICK i : i = Emitted("SWCH", 0, 0, {}) OBVIOUS
<1>2. Emit(l, i) /\ UNCHANGED <<paramsSize, globalRefs>> BY <1>1 DEF Switch
<1>3. /\ here \in Nat /\ localsSize \in Nat /\ paramsSize \in Int /\ paramsSize <= MaxInt
      /\ freeWords \in 0 .. MaxMemorySize - 1
  BY FrameSizes
<1>4. i \in EmittedCode /\ i.op = "SWCH" /\ i.jumps = {} BY <1>1 DEF Emitted, EmittedCode
<1>5. FitsFrame(i, localsSize, paramsSize) BY <1>1, <1>3 DEF Emitted, FitsFrame, Program!Calls
<1>6. localRefs' = localRefs \cup {[at |-> here, label |-> name, cases |-> cases]} BY DEF Switch
<1>7. freeWords' \in 0 .. MaxMemorySize - 1
  <2>1. cases \in Nat /\ MaxMemorySize \in Nat BY AssemblerAssumption
  <2>2. cases + 1 <= freeWords /\ freeWords' = freeWords - (cases + 1) BY DEF Switch
  <2> QED BY <1>3, <2>1, <2>2
<1>8. \E r \in localRefs' : r.at = here
  <2>1. PICK r : r = [at |-> here, label |-> name, cases |-> cases] OBVIOUS
  <2>2. r \in localRefs' /\ r.at = here BY <1>6, <2>1
  <2> QED BY <2>2
<1>9. \A r \in localRefs' : r \in localRefs \/ r \in [at : {here}, label : Names, cases : Cases \cup {0}]
  BY <1>6
<1> QED BY <1>2, <1>3, <1>4, <1>5, <1>6, <1>7, <1>8, <1>9, EmitPreserves

\* A label without an instruction.
LEMMA NoopPreserves ==
  ASSUME IInv, NEW l \in Labels, Noop(l)
  PROVE  IInv'
<1>1. /\ Label(l)
      /\ UNCHANGED <<code, functionTable, functionStart, localsSize, paramsSize, localRefs,
                     globals, globalRefs, freeWords>>
  BY DEF Noop
<1>2. TypeOK' BY <1>1, LabelKeeps DEF IInv, TypeOK
<1>3. Closed(code', ClosedEnd') BY <1>1 DEF IInv, ClosedEnd, here
<1>4. here \in Nat /\ functionStart \in 0 .. here - 1 /\ functionStart # Outside
  BY <1>1, LabelKeeps, FrameSizes DEF Label
<1>5. Open'
  <2>1. ASSUME NEW a \in (functionStart + 1) .. (here - 1) PROVE OpenAt(a)'
    <3>1. OpenAt(a) BY <1>4, <2>1 DEF IInv, Open
    <3>2. \A j \in code[a + 1].jumps : \E n \in DOMAIN locals' : locals'[n] = Symbol("BRANCH", a + j)
      BY <1>1, <3>1, LabelKeeps DEF OpenAt
    <3> QED BY <1>1, <3>1, <3>2 DEF OpenAt, Starts
  <2>2. ASSUME NEW n \in DOMAIN locals', locals'[n].kind = "BRANCH"
        PROVE  locals'[n].value \in (functionStart + 1) .. here
    <3>1. CASE n \in DOMAIN locals
      <4>1. locals'[n] = locals[n] BY <1>1, <3>1, LabelKeeps
      <4> QED BY <2>2, <3>1, <4>1 DEF IInv, Open
    <3>2. CASE locals'[n] = Symbol("BRANCH", here) BY <1>4, <3>2 DEF Symbol
    <3> QED BY <1>1, <3>1, <3>2, LabelKeeps
  <2>3. code[functionStart + 1] = Emitted("FUNC", 0, 0, {}) BY <1>4 DEF IInv, Open
  <2>4. \A r \in localRefs : functionStart < r.at BY DEF IInv, Open
  <2>5. here' = here BY <1>1 DEF here
  <2> QED BY <1>1, <1>4, <2>1, <2>2, <2>3, <2>4, <2>5 DEF Open
<1>6. Linked' BY <1>1, LabelKeeps DEF IInv, Linked, here, Starts
<1>7. Sized(code') BY <1>1 DEF IInv
<1> QED BY <1>1, <1>2, <1>3, <1>5, <1>6, <1>7, LabelKeeps DEF IInv

\* The frame grows while the function has no instruction yet.
LEMMA LocaPreserves ==
  ASSUME IInv, NEW l \in Labels, NEW size \in Sizes, Loca(l, size)
  PROVE  IInv'
<1>1. /\ functionStart # Outside /\ here = functionStart + 1
      /\ size <= MaxInt - localsSize /\ localsSize' = localsSize + size
      /\ Undeclared(locals, l) /\ locals' = Declare(locals, l, Symbol("VAR", localsSize))
      /\ UNCHANGED <<code, functionTable, functionStart, paramsSize, localRefs, globals, globalRefs,
                     freeWords, status>>
      /\ status = "feeding" /\ skipUntilLabel' = None
  BY DEF Loca, LocalsFit, Feed
<1>2. localsSize \in 0 .. MaxInt /\ MaxInt \in Nat /\ here \in Nat BY FrameSizes
<1>3. localsSize' \in 0 .. MaxInt
  <2>1. size \in Nat BY AssemblerAssumption
  <2> QED BY <1>1, <1>2, <2>1
<1>4. /\ DOMAIN locals \subseteq DOMAIN locals'
      /\ \A n \in DOMAIN locals : locals'[n] = locals[n]
      /\ \A n \in DOMAIN locals' :
           \/ n \in DOMAIN locals
           \/ n = l /\ l # None /\ locals'[n] = Symbol("VAR", localsSize)
  <2>1. PICK y : y = Symbol("VAR", localsSize) OBVIOUS
  <2>2. /\ DOMAIN locals \subseteq DOMAIN Declare(locals, l, y)
        /\ \A n \in DOMAIN locals : Declare(locals, l, y)[n] = locals[n]
        /\ \A n \in DOMAIN Declare(locals, l, y) :
             \/ n \in DOMAIN locals
             \/ n = l /\ l # None /\ Declare(locals, l, y)[n] = y
    BY <1>1, Declared
  <2> QED BY <1>1, <2>1, <2>2
<1>5. TypeOK'
  <2>1. DOMAIN locals' \subseteq Names BY <1>4 DEF IInv, TypeOK, Labels
  <2>2. Symbol("VAR", localsSize) \in [kind : {"BRANCH", "VAR"}, value : Nat] BY <1>2 DEF Symbol
  <2>3. \A n \in DOMAIN locals' : locals'[n] \in [kind : {"BRANCH", "VAR"}, value : Nat]
    BY <1>4, <2>2 DEF IInv, TypeOK
  <2> QED BY <1>1, <1>3, <2>1, <2>3 DEF IInv, TypeOK
<1>6. Closed(code', ClosedEnd') BY <1>1 DEF IInv, ClosedEnd, here
<1>7. Open'
  <2>1. \A a \in (functionStart + 1) .. (here - 1) : FALSE
    <3>1. functionStart \in Int BY <1>1, <1>2, Lengths DEF IInv
    <3> QED BY <1>1, <1>2, <3>1
  <2>2. Symbol("VAR", localsSize).kind # "BRANCH" BY DEF Symbol
  <2>3. \A n \in DOMAIN locals' :
          locals'[n].kind = "BRANCH" => locals'[n].value \in (functionStart + 1) .. here
    BY <1>4, <2>2 DEF IInv, Open
  <2>4. code[functionStart + 1] = Emitted("FUNC", 0, 0, {}) BY <1>1 DEF IInv, Open
  <2>5. \A r \in localRefs : functionStart < r.at BY DEF IInv, Open
  <2>6. here' = here BY <1>1 DEF here
  <2> QED BY <1>1, <2>1, <2>3, <2>4, <2>5, <2>6 DEF Open
<1>8. Linked' BY <1>1 DEF IInv, Linked, here, Starts
<1>9. Sized(code') BY <1>1 DEF IInv
<1> QED BY <1>1, <1>5, <1>6, <1>7, <1>8, <1>9 DEF IInv

-----------------------------------------------------------------------------
(***************************************************************************)
(* Lines that leave the code and the current function as they are.         *)
(***************************************************************************)
LEMMA GlobalsPreserve ==
  ASSUME IInv, UNCHANGED <<code, functionTable, frame, globalRefs, status>>, status = "feeding",
         skipUntilLabel' \in SkipLabels \cup {None}, freeWords' \in 0 .. MaxMemorySize - 1,
         DOMAIN globals' \subseteq Names,
         \A n \in DOMAIN globals' :
           /\ globals'[n] \in [kind : {"FUNC", "OTHER"}, value : Nat]
           /\ globals'[n].kind = "FUNC" => globals'[n].value < Len(functionTable)
  PROVE  IInv'
<1>1. TypeOK' BY DEF IInv, TypeOK, frame
<1>2. Closed(code', ClosedEnd') BY DEF IInv, ClosedEnd, here, frame
<1>3. Open' BY DEF IInv, Open, OpenAt, Starts, here, frame
<1>4. Linked' BY DEF IInv, Linked, here, Starts
<1>5. Sized(code') BY DEF IInv
<1> QED BY <1>1, <1>2, <1>3, <1>4, <1>5 DEF IInv

\* What is declared is a function of the table, or none.
LEMMA GlobalDeclared ==
  ASSUME IInv, NEW l \in Labels, Undeclared(globals, l),
         NEW y \in [kind : {"FUNC", "OTHER"}, value : Nat],
         y.kind = "FUNC" => y.value < Len(functionTable)
  PROVE  /\ DOMAIN Declare(globals, l, y) \subseteq Names
         /\ \A n \in DOMAIN Declare(globals, l, y) :
              /\ Declare(globals, l, y)[n] \in [kind : {"FUNC", "OTHER"}, value : Nat]
              /\ Declare(globals, l, y)[n].kind = "FUNC" => Declare(globals, l, y)[n].value < Len(functionTable)
<1>1. /\ \A n \in DOMAIN globals : Declare(globals, l, y)[n] = globals[n]
      /\ \A n \in DOMAIN Declare(globals, l, y) :
           \/ n \in DOMAIN globals
           \/ n = l /\ l # None /\ Declare(globals, l, y)[n] = y
  BY Declared
<1>2. DOMAIN globals \subseteq Names /\ \A n \in DOMAIN globals : n \in Names BY DEF IInv, TypeOK
<1>3. \A n \in DOMAIN globals :
        /\ globals[n] \in [kind : {"FUNC", "OTHER"}, value : Nat]
        /\ globals[n].kind = "FUNC" => globals[n].value < Len(functionTable)
  BY DEF IInv, TypeOK, Linked
<1>4. DOMAIN Declare(globals, l, y) \subseteq Names BY <1>1, <1>2 DEF Labels
<1> QED BY <1>1, <1>3, <1>4

\* A data section.
LEMMA SectionPreserves ==
  ASSUME IInv, NEW l \in Labels, NEW size \in Cases, Section(l, size)
  PROVE  IInv'
<1>1. PICK y : y = Symbol("OTHER", 0) OBVIOUS
<1>2. y \in [kind : {"FUNC", "OTHER"}, value : Nat] /\ y.kind # "FUNC" BY <1>1 DEF Symbol
<1>3. /\ Undeclared(globals, l) /\ globals' = Declare(globals, l, y)
      /\ UNCHANGED <<code, functionTable, frame, globalRefs, status>> /\ status = "feeding"
      /\ skipUntilLabel' = None /\ size <= freeWords /\ freeWords' = freeWords - size
  BY <1>1 DEF Section, Feed
<1>4. freeWords' \in 0 .. MaxMemorySize - 1
  <2>1. size \in Nat /\ MaxMemorySize \in Nat /\ freeWords \in 0 .. MaxMemorySize - 1
    BY AssemblerAssumption, FrameSizes
  <2> QED BY <1>3, <2>1
<1> QED BY <1>2, <1>3, <1>4, GlobalDeclared, GlobalsPreserve

\* A name for a constant, data, or a function that is known.
LEMMA NamedPreserves ==
  ASSUME IInv, NEW l \in Labels,
         NEW y \in {Symbol("OTHER", 0)} \cup {globals[n] : n \in DOMAIN globals}, Named(l, y)
  PROVE  IInv'
<1>1. y \in [kind : {"FUNC", "OTHER"}, value : Nat] /\ (y.kind = "FUNC" => y.value < Len(functionTable))
  <2>1. CASE y = Symbol("OTHER", 0) BY <2>1 DEF Symbol
  <2>2. CASE y \in {globals[n] : n \in DOMAIN globals} BY <2>2 DEF IInv, TypeOK, Linked
  <2> QED BY <2>1, <2>2
<1>2. /\ Undeclared(globals, l) /\ globals' = Declare(globals, l, y)
      /\ UNCHANGED <<code, functionTable, frame, globalRefs, freeWords, status>> /\ status = "feeding"
      /\ skipUntilLabel' = None
  BY DEF Named, Feed
<1> QED BY <1>1, <1>2, FrameSizes, GlobalDeclared, GlobalsPreserve

\* Lines left out until a label.
LEMMA CompileTimePreserves ==
  ASSUME IInv, NEW l \in Labels, NEW until \in SkipLabels \cup {None}, CompileTime(l, until)
  PROVE  IInv'
<1>1. \A n \in DOMAIN globals :
        /\ globals[n] \in [kind : {"FUNC", "OTHER"}, value : Nat]
        /\ globals[n].kind = "FUNC" => globals[n].value < Len(functionTable)
  BY DEF IInv, TypeOK, Linked
<1>2. DOMAIN globals \subseteq Names BY DEF IInv, TypeOK
<1> QED BY <1>1, <1>2, FrameSizes, GlobalsPreserve DEF CompileTime

\* The same, if a name is known or not.
LEMMA IfDefinedPreserves ==
  ASSUME IInv, NEW l \in Labels, NEW ifdf \in BOOLEAN, NEW name \in Names, NEW until \in SkipLabels,
         IfDefined(l, ifdf, name, until)
  PROVE  IInv'
BY CompileTimePreserves DEF IfDefined

-----------------------------------------------------------------------------
(***************************************************************************)
(* The end of a function.  Its labels are all inside it and every          *)
(* reference goes to one: the function joins the complete ones.            *)
(***************************************************************************)
LEMMA ReferredInside ==
  ASSUME IInv, FunctionComplete, NEW r \in localRefs, NEW n \in Referred(r)
  PROVE  /\ n \in DOMAIN locals /\ functionStart # Outside
         /\ locals[n].value \in (functionStart + 1) .. (here - 1)
<1>1. here \in Nat /\ functionStart # Outside /\ functionStart \in 0 .. here - 1
  BY Lengths DEF IInv, Open
<1>2. n \in DOMAIN locals /\ locals[n].kind = "BRANCH" BY DEF FunctionComplete
<1>3. locals[n].value \in (functionStart + 1) .. here BY <1>2 DEF IInv, Open
<1>4. locals[n].value # here
  <2>1. locals[n] # Symbol("BRANCH", here) BY <1>2 DEF FunctionComplete
  <2>2. locals[n] \in [kind : {"BRANCH", "VAR"}, value : Nat] BY <1>2 DEF IInv, TypeOK
  <2> QED BY <1>2, <2>1, <2>2 DEF Symbol
<1> QED BY <1>1, <1>2, <1>3, <1>4

\* What the end of a function fills in: the sizes in its FUNC, and distances.
LEMMA FinalizedFields ==
  ASSUME IInv, FunctionComplete, functionStart # Outside
  PROVE  /\ Finalized \in Seq(EmittedCode) /\ Len(Finalized) = here
         /\ Finalized[functionStart + 1] =
              [code[functionStart + 1] EXCEPT !.p0 = localsSize, !.p1 = paramsSize]
         /\ \A a \in 0 .. here - 1 :
              /\ Finalized[a + 1].op = code[a + 1].op
              /\ Finalized[a + 1].slots = code[a + 1].slots /\ Finalized[a + 1].bases = code[a + 1].bases
              /\ a # functionStart =>
                   /\ Finalized[a + 1].p0 = code[a + 1].p0 /\ Finalized[a + 1].p1 = code[a + 1].p1
                   /\ Finalized[a + 1].jumps =
                        code[a + 1].jumps \cup UNION {Resolved(r) : r \in {q \in localRefs : q.at = a}}
<1>1. here \in Nat /\ functionStart \in 0 .. here - 1 BY Lengths DEF IInv
<1>2. \A k \in 1 .. here : code[k] \in EmittedCode
  <2>1. code \in Seq(EmittedCode) BY DEF IInv, TypeOK
  <2> QED BY <2>1 DEF here
<1>3. localsSize \in Nat /\ paramsSize \in Nat BY FrameSizes
<1>4. \A r \in localRefs : Resolved(r) \in SUBSET Int
  <2>1. ASSUME NEW r \in localRefs, NEW n \in Referred(r) PROVE locals[n].value - r.at \in Int
    <3>1. r.at \in Int BY <1>1 DEF IInv, TypeOK, here
    <3>2. locals[n].value \in Int BY <1>1, ReferredInside
    <3> QED BY <3>1, <3>2
  <2> QED BY <2>1 DEF Resolved
<1>5. Finalized = [k \in 1 .. here |->
        IF k = functionStart + 1 THEN [code[k] EXCEPT !.p0 = localsSize, !.p1 = paramsSize]
        ELSE [code[k] EXCEPT !.jumps = @ \cup UNION {Resolved(r) : r \in {q \in localRefs : q.at = k - 1}}]]
  BY DEF Finalized, here
<1>6. ASSUME NEW k \in 1 .. here
      PROVE  Finalized[k] \in EmittedCode
  <2>1. CASE k = functionStart + 1
    <3>1. Finalized[k] = [code[k] EXCEPT !.p0 = localsSize, !.p1 = paramsSize] BY <1>5, <2>1
    <3> QED BY <1>2, <1>3, <3>1 DEF EmittedCode
  <2>2. CASE k # functionStart + 1
    <3>1. PICK js : js = UNION {Resolved(r) : r \in {q \in localRefs : q.at = k - 1}} OBVIOUS
    <3>2. js \in SUBSET Int BY <1>4, <3>1
    <3>3. Finalized[k] = [code[k] EXCEPT !.jumps = @ \cup js] BY <1>5, <2>2, <3>1
    <3> QED BY <1>2, <3>2, <3>3 DEF EmittedCode
  <2> QED BY <2>1, <2>2
<1>7. Finalized \in Seq(EmittedCode) /\ Len(Finalized) = here
  <2>1. PICK d : d = Finalized OBVIOUS
  <2>2. d = [k \in 1 .. here |-> d[k]] /\ \A k \in 1 .. here : d[k] \in EmittedCode
    BY <1>5, <1>6, <2>1
  <2>3. d \in [1 .. here -> EmittedCode] BY <2>2
  <2>4. d \in Seq(EmittedCode) BY <1>1, <2>3, SeqDef
  <2>5. Len(d) = here BY <1>1, <2>3, <2>4, LenProperties
  <2> QED BY <2>1, <2>4, <2>5
<1>8. Finalized[functionStart + 1] = [code[functionStart + 1] EXCEPT !.p0 = localsSize, !.p1 = paramsSize]
  <2>1. PICK k \in 1 .. here : k = functionStart + 1 BY <1>1
  <2>2. Finalized[k] = [code[k] EXCEPT !.p0 = localsSize, !.p1 = paramsSize] BY <1>5, <2>1
  <2> QED BY <2>1, <2>2
<1>9. ASSUME NEW a \in 0 .. here - 1
      PROVE  /\ Finalized[a + 1].op = code[a + 1].op
             /\ Finalized[a + 1].slots = code[a + 1].slots /\ Finalized[a + 1].bases = code[a + 1].bases
             /\ a # functionStart =>
                  /\ Finalized[a + 1].p0 = code[a + 1].p0 /\ Finalized[a + 1].p1 = code[a + 1].p1
                  /\ Finalized[a + 1].jumps =
                       code[a + 1].jumps \cup UNION {Resolved(r) : r \in {q \in localRefs : q.at = a}}
  <2>1. a + 1 \in 1 .. here /\ code[a + 1] \in EmittedCode BY <1>1, <1>2
  <2>2. CASE a = functionStart
    <3>1. Finalized[a + 1] = [code[a + 1] EXCEPT !.p0 = localsSize, !.p1 = paramsSize] BY <1>8, <2>2
    <3> QED BY <2>1, <2>2, <3>1 DEF EmittedCode
  <2>3. CASE a # functionStart
    <3>1. a + 1 # functionStart + 1 /\ (a + 1) - 1 = a BY <1>1, <2>3
    <3>2. PICK js : js = UNION {Resolved(r) : r \in {q \in localRefs : q.at = a}} OBVIOUS
    <3>3. Finalized[a + 1] = [code[a + 1] EXCEPT !.jumps = @ \cup js] BY <1>5, <2>1, <3>1, <3>2
    <3> QED BY <2>1, <3>2, <3>3 DEF EmittedCode
  <2> QED BY <2>2, <2>3
<1> QED BY <1>7, <1>8, <1>9

\* Where an instruction of the function goes: to a label that was known, or to one now found.
LEMMA JumpsInside ==
  ASSUME IInv, FunctionComplete, functionStart # Outside,
         NEW a \in (functionStart + 1) .. (here - 1), NEW j \in Finalized[a + 1].jumps
  PROVE  a + j \in (functionStart + 1) .. (here - 1)
<1>1. here \in Nat /\ functionStart \in 0 .. here - 1 BY Lengths DEF IInv
<1>2. a \in 0 .. here - 1 /\ a # functionStart BY <1>1
<1>3. j \in code[a + 1].jumps \/ \E r \in localRefs : r.at = a /\ j \in Resolved(r)
  BY <1>2, FinalizedFields
<1>4. CASE j \in code[a + 1].jumps
  <2>1. PICK n \in DOMAIN locals : locals[n] = Symbol("BRANCH", a + j)
    BY <1>4 DEF IInv, Open, OpenAt
  <2>2. locals[n].kind = "BRANCH" /\ locals[n].value = a + j BY <2>1 DEF Symbol
  <2>3. a + j \in (functionStart + 1) .. here BY <2>2 DEF IInv, Open
  <2>4. a + j # here BY <2>1 DEF FunctionComplete
  <2> QED BY <1>1, <2>3, <2>4
<1>5. CASE \E r \in localRefs : r.at = a /\ j \in Resolved(r)
  <2>1. PICK r \in localRefs : r.at = a /\ j \in Resolved(r) BY <1>5
  <2>2. PICK n \in Referred(r) : j = locals[n].value - a BY <2>1 DEF Resolved
  <2>3. locals[n].value \in (functionStart + 1) .. (here - 1) BY <2>1, ReferredInside
  <2>4. a + j = locals[n].value BY <1>1, <1>2, <2>2, <2>3
  <2> QED BY <2>3, <2>4
<1> QED BY <1>3, <1>4, <1>5

\* A reference of a jump gives it a distance at least.
LEMMA JumpsSomewhere ==
  ASSUME IInv, FunctionComplete, functionStart # Outside,
         NEW a \in (functionStart + 1) .. (here - 1), code[a + 1].op \in Program!Jumps
  PROVE  Finalized[a + 1].jumps # {}
<1>1. here \in Nat /\ functionStart \in 0 .. here - 1 BY Lengths DEF IInv
<1>2. a \in 0 .. here - 1 /\ a # functionStart BY <1>1
<1>3. Finalized[a + 1].jumps =
        code[a + 1].jumps \cup UNION {Resolved(r) : r \in {q \in localRefs : q.at = a}}
  BY <1>2, FinalizedFields
<1>4. code[a + 1].jumps # {} \/ \E r \in localRefs : r.at = a BY DEF IInv, Open, OpenAt
<1>5. ASSUME NEW r \in localRefs, r.at = a PROVE Resolved(r) # {}
  <2>1. r.label \in Referred(r) BY DEF Referred
  <2>2. locals[r.label].value - r.at \in Resolved(r) BY <2>1 DEF Resolved
  <2> QED BY <2>2
<1> QED BY <1>3, <1>4, <1>5

\* The code with the current function complete.
LEMMA Closing ==
  ASSUME IInv, FinalizeFunction
  PROVE  /\ CodeSoFar \in Seq(EmittedCode) /\ Len(CodeSoFar) = here
         /\ Closed(CodeSoFar, here) /\ Sized(CodeSoFar)
         /\ \A a \in 0 .. here - 1 :
              /\ CodeSoFar[a + 1].op = code[a + 1].op
              /\ code[a + 1].op = "CALL_CVC" => CodeSoFar[a + 1].p0 = code[a + 1].p0
<1>1. CASE functionStart = Outside
  <2>1. CodeSoFar = code BY <1>1 DEF CodeSoFar
  <2>2. Closed(code, here) BY <1>1 DEF IInv, ClosedEnd
  <2> QED BY <2>1, <2>2 DEF IInv, TypeOK, here
<1>2. CASE functionStart # Outside
  <2>1. FunctionComplete /\ CodeSoFar = Finalized BY <1>2 DEF FinalizeFunction, CodeSoFar
  <2>2. here \in Nat /\ functionStart \in 0 .. here - 1 BY <1>2, Lengths DEF IInv
  <2>3. PICK f \in 0 .. here - 1 : f = functionStart BY <2>2
  <2>4. PICK d : d = Finalized OBVIOUS
  <2>5. /\ d \in Seq(EmittedCode) /\ Len(d) = here
        /\ d[f + 1] = [code[f + 1] EXCEPT !.p0 = localsSize, !.p1 = paramsSize]
        /\ \A a \in 0 .. here - 1 :
             /\ d[a + 1].op = code[a + 1].op
             /\ d[a + 1].slots = code[a + 1].slots /\ d[a + 1].bases = code[a + 1].bases
             /\ a # f =>
                  /\ d[a + 1].p0 = code[a + 1].p0 /\ d[a + 1].p1 = code[a + 1].p1
                  /\ d[a + 1].jumps =
                       code[a + 1].jumps \cup UNION {Resolved(r) : r \in {q \in localRefs : q.at = a}}
    BY <1>2, <2>1, <2>3, <2>4, FinalizedFields
  <2>6. code[f + 1] = Emitted("FUNC", 0, 0, {}) /\ \A a \in (f + 1) .. (here - 1) : OpenAt(a)
    BY <1>2, <2>3 DEF IInv, Open
  <2>7. /\ d[f + 1].op = "FUNC" /\ d[f + 1].p0 = localsSize /\ d[f + 1].p1 = paramsSize
        /\ d[f + 1].jumps = {} /\ d[f + 1].slots = {} /\ d[f + 1].bases = {}
    BY <2>5, <2>6 DEF Emitted
  <2>8. \A b \in (f + 1) .. (here - 1) : ~Starts(d, b)
    <3> SUFFICES ASSUME NEW b \in (f + 1) .. (here - 1) PROVE ~Starts(d, b)
      OBVIOUS
    <3>1. b \in 0 .. here - 1 /\ ~Starts(code, b) BY <2>6 DEF OpenAt
    <3> QED BY <2>5, <3>1 DEF Starts
  <2>9. \A a \in f .. here - 1 : Within(d, f, a)
    <3>1. Starts(d, f) BY <2>7 DEF Starts
    <3>2. ASSUME NEW a \in f .. here - 1, NEW b \in (f + 1) .. a PROVE ~Starts(d, b)
      <4>1. b \in (f + 1) .. (here - 1) BY <2>2
      <4> QED BY <2>8, <4>1
    <3> QED BY <3>1, <3>2 DEF Within
  <2>10. d[here].op \in {"RETU", "GOTO"}
    <3>1. code # <<>> /\ Last(code).op \in {"RETU", "GOTO"} BY <2>1 DEF FunctionComplete
    <3>2. code[here].op \in {"RETU", "GOTO"} BY <3>1 DEF Last, here
    <3>3. PICK a \in 0 .. here - 1 : a + 1 = here BY <2>2
    <3> QED BY <2>5, <3>2, <3>3
  <2>11. Closed(d, f)
    <3>1. Closed(code, f) BY <1>2, <2>3 DEF IInv, ClosedEnd
    <3>2. ASSUME NEW a \in 0 .. f - 1
          PROVE  /\ d[a + 1].op = code[a + 1].op /\ d[a + 1].p1 = code[a + 1].p1
                 /\ d[a + 1].jumps = code[a + 1].jumps
                 /\ d[a + 1].slots = code[a + 1].slots /\ d[a + 1].bases = code[a + 1].bases
                 /\ code[a + 1].op = "FUNC" => d[a + 1].p0 = code[a + 1].p0
      <4>1. a \in 0 .. here - 1 /\ a # f BY <2>2, <2>3
      <4>2. {q \in localRefs : q.at = a} = {} BY <2>3 DEF IInv, Open
      <4>3. UNION {Resolved(r) : r \in {q \in localRefs : q.at = a}} = {} BY <4>2
      <4>4. d[a + 1].jumps = code[a + 1].jumps
        <5>1. d[a + 1].jumps =
                code[a + 1].jumps \cup UNION {Resolved(r) : r \in {q \in localRefs : q.at = a}}
          BY <2>5, <4>1
        <5>2. PICK js : js = UNION {Resolved(r) : r \in {q \in localRefs : q.at = a}} OBVIOUS
        <5>3. d[a + 1].jumps = code[a + 1].jumps \cup js /\ js = {} BY <4>3, <5>1, <5>2
        <5> QED BY <5>3
      <4> QED BY <2>5, <4>1, <4>4
    <3> QED BY <3>1, <3>2, ClosedKept
  <2>12. Closed(d, here)
    <3> SUFFICES ASSUME NEW a \in 0 .. here - 1
                 PROVE  /\ \E g \in 0 .. a :
                             /\ Within(d, g, a)
                             /\ FitsFrame(d[a + 1], d[g + 1].p0, d[g + 1].p1)
                             /\ \A j \in d[a + 1].jumps : a + j \in (g + 1) .. (here - 1) /\ Within(d, g, a + j)
                        /\ d[a + 1].op \in Program!Jumps => d[a + 1].jumps # {}
                        /\ d[a + 1].op \notin {"RETU", "GOTO"} => a + 1 <= here - 1 /\ ~Starts(d, a + 1)
      BY DEF Closed
    <3>1. CASE a < f
      <4>1. a \in 0 .. f - 1 BY <2>2, <3>1
      <4>2. PICK g \in 0 .. a :
              /\ Within(d, g, a)
              /\ FitsFrame(d[a + 1], d[g + 1].p0, d[g + 1].p1)
              /\ \A j \in d[a + 1].jumps : a + j \in (g + 1) .. (f - 1) /\ Within(d, g, a + j)
        BY <2>11, <4>1 DEF Closed
      <4>3. \A x \in (g + 1) .. (f - 1) : x \in (g + 1) .. (here - 1) BY <2>2
      <4>4. \A j \in d[a + 1].jumps : a + j \in (g + 1) .. (here - 1) /\ Within(d, g, a + j) BY <4>2, <4>3
      <4>5. d[a + 1].op \in Program!Jumps => d[a + 1].jumps # {} BY <2>11, <4>1 DEF Closed
      <4>6. d[a + 1].op \notin {"RETU", "GOTO"} => a + 1 <= f - 1 /\ ~Starts(d, a + 1)
        BY <2>11, <4>1 DEF Closed
      <4>7. a + 1 <= here - 1 BY <2>2, <4>1
      <4> QED BY <4>2, <4>4, <4>5, <4>6, <4>7
    <3>2. CASE a = f
      <4>1. Within(d, f, f) BY <2>2, <2>9
      <4>2. FitsFrame(d[f + 1], d[f + 1].p0, d[f + 1].p1) BY <2>7 DEF FitsFrame, Program!Calls
      <4>3. d[f + 1].op \notin Program!Jumps BY <2>7 DEF Program!Jumps
      <4>4. f + 1 # here BY <2>7, <2>10
      <4>5. f + 1 <= here - 1 /\ ~Starts(d, f + 1) BY <2>2, <2>8, <4>4
      <4> QED BY <2>7, <3>2, <4>1, <4>2, <4>3, <4>5
    <3>3. CASE a > f
      <4>1. a \in (f + 1) .. (here - 1) /\ f \in 0 .. a BY <2>2, <3>3
      <4>2. a # f /\ d[a + 1].p1 = code[a + 1].p1 BY <2>5, <4>1
      <4>3. FitsFrame(d[a + 1], d[f + 1].p0, d[f + 1].p1)
        <5>1. FitsFrame(code[a + 1], localsSize, paramsSize) BY <2>6, <4>1 DEF OpenAt
        <5> QED BY <2>5, <2>7, <4>2, <5>1 DEF FitsFrame
      <4>4. Within(d, f, a) BY <2>9, <4>1
      <4>5. ASSUME NEW j \in d[a + 1].jumps
            PROVE  a + j \in (f + 1) .. (here - 1) /\ Within(d, f, a + j)
        <5>1. a + j \in (f + 1) .. (here - 1) BY <1>2, <2>1, <2>3, <2>4, <4>1, JumpsInside
        <5>2. PICK b \in f .. here - 1 : b = a + j BY <5>1
        <5> QED BY <2>9, <5>1, <5>2
      <4>6. d[a + 1].op \in Program!Jumps => d[a + 1].jumps # {}
        BY <1>2, <2>1, <2>3, <2>4, <2>5, <4>1, JumpsSomewhere
      <4>7. d[a + 1].op \notin {"RETU", "GOTO"} => a + 1 <= here - 1 /\ ~Starts(d, a + 1)
        <5>1. a + 1 = here => d[a + 1].op \in {"RETU", "GOTO"} BY <2>10
        <5>2. a + 1 # here => a + 1 <= here - 1 /\ ~Starts(d, a + 1) BY <2>2, <2>8, <4>1
        <5> QED BY <5>1, <5>2
      <4> QED BY <4>1, <4>3, <4>4, <4>5, <4>6, <4>7
    <3> QED BY <2>2, <3>1, <3>2, <3>3
  <2>13. Sized(d)
    <3>1. ASSUME NEW k \in 1 .. here, d[k].op = "FUNC" PROVE d[k].p0 <= MaxInt /\ d[k].p1 <= MaxInt
      <4>1. PICK a \in 0 .. here - 1 : k = a + 1 BY <2>2
      <4>2. CASE a = f BY <2>7, <4>1, <4>2, FrameSizes
      <4>3. CASE a # f
        <5>1. code[k].op = "FUNC" /\ d[k].p0 = code[k].p0 /\ d[k].p1 = code[k].p1
          BY <2>5, <3>1, <4>1, <4>3
        <5> QED BY <5>1 DEF IInv, Sized, here
      <4> QED BY <4>2, <4>3
    <3> QED BY <2>5, <3>1 DEF Sized
  <2>14. \A a \in 0 .. here - 1 : code[a + 1].op = "CALL_CVC" => d[a + 1].p0 = code[a + 1].p0
    <3>1. code[f + 1].op # "CALL_CVC" BY <2>6 DEF Emitted
    <3> QED BY <2>5, <3>1
  <2> QED BY <2>1, <2>4, <2>5, <2>12, <2>13, <2>14
<1> QED BY <1>1, <1>2

\* A FUNC ends the function before it and starts the next.
LEMMA FuncPreserves ==
  ASSUME IInv, NEW l \in Labels, Func(l)
  PROVE  IInv'
<1>1. PICK c : c = CodeSoFar OBVIOUS
<1>2. PICK func : func = Emitted("FUNC", 0, 0, {}) OBVIOUS
<1>3. PICK y : y = Symbol("FUNC", Len(functionTable)) OBVIOUS
<1>4. /\ code' = Append(c, func) /\ here < MaxCodeSize /\ FinalizeFunction
      /\ functionTable' = Append(functionTable, here) /\ Len(functionTable) < MaxFunctionCount
      /\ Undeclared(globals, l) /\ globals' = Declare(globals, l, y)
      /\ functionStart' = here /\ localsSize' = 0 /\ paramsSize' = 0 /\ locals' = <<>> /\ localRefs' = {}
      /\ UNCHANGED <<globalRefs, freeWords>>
      /\ status = "feeding" /\ status' = "feeding" /\ skipUntilLabel' = None
  BY <1>1, <1>2, <1>3 DEF Func, Feed, RoomForFunction, StartFrame
<1>5. /\ here \in Nat /\ MaxInt \in Nat /\ MaxCodeSize \in Nat /\ MaxFunctionCount \in Nat
      /\ Len(functionTable) \in Nat
  BY AssemblerAssumption, Lengths, FrameSizes DEF IInv
<1>6. /\ c \in Seq(EmittedCode) /\ Len(c) = here /\ Closed(c, here) /\ Sized(c)
      /\ \A a \in 0 .. here - 1 :
           /\ c[a + 1].op = code[a + 1].op
           /\ code[a + 1].op = "CALL_CVC" => c[a + 1].p0 = code[a + 1].p0
  BY <1>1, <1>4, Closing
<1>7. func \in EmittedCode /\ func.op = "FUNC" /\ func.p0 = 0 /\ func.p1 = 0
  BY <1>2 DEF Emitted, EmittedCode
<1>8. /\ code' \in Seq(EmittedCode) /\ Len(code') = here + 1 /\ code'[here + 1] = func
      /\ \A k \in 1 .. here : code'[k] = c[k]
  BY <1>4, <1>6, <1>7, AppendKeeps
<1>9. \A a \in 0 .. here - 1 : code'[a + 1] = c[a + 1] BY <1>5, <1>8
<1>10. here' = here + 1 BY <1>8 DEF here
<1>11. /\ functionTable' \in Seq(Nat) /\ Len(functionTable') = Len(functionTable) + 1
       /\ \A k \in 1 .. Len(functionTable) : functionTable'[k] = functionTable[k]
       /\ functionTable'[Len(functionTable) + 1] = here
  <2>1. functionTable \in Seq(Nat) BY DEF IInv, TypeOK
  <2> QED BY <1>4, <1>5, <2>1, AppendKeeps
<1>12. \A k \in 1 .. Len(functionTable) : functionTable[k] \in 0 .. here - 1
  <2>1. /\ functionTable \in Seq(Nat)
        /\ \A k \in 1 .. Len(functionTable) : functionTable[k] < here
    BY DEF IInv, TypeOK, here
  <2>2. \A k \in 1 .. Len(functionTable) : functionTable[k] \in Nat BY <2>1
  <2> QED BY <1>5, <2>1, <2>2
<1>13. /\ DOMAIN globals' \subseteq Names
       /\ \A n \in DOMAIN globals' :
            /\ globals'[n] \in [kind : {"FUNC", "OTHER"}, value : Nat]
            /\ globals'[n].kind = "FUNC" => globals'[n].value <= Len(functionTable)
  <2>1. /\ \A n \in DOMAIN globals : globals'[n] = globals[n]
        /\ \A n \in DOMAIN globals' :
             \/ n \in DOMAIN globals
             \/ n = l /\ l # None /\ globals'[n] = y
    BY <1>4, Declared
  <2>2. DOMAIN globals' \subseteq Names BY <2>1 DEF IInv, TypeOK, Labels
  <2>3. /\ y \in [kind : {"FUNC", "OTHER"}, value : Nat] /\ y.value = Len(functionTable)
    BY <1>3, <1>5 DEF Symbol
  <2>4. ASSUME NEW n \in DOMAIN globals'
        PROVE  /\ globals'[n] \in [kind : {"FUNC", "OTHER"}, value : Nat]
               /\ globals'[n].kind = "FUNC" => globals'[n].value <= Len(functionTable)
    <3>1. CASE n \in DOMAIN globals
      <4>1. globals'[n] = globals[n] /\ globals[n] \in [kind : {"FUNC", "OTHER"}, value : Nat]
        BY <2>1, <3>1 DEF IInv, TypeOK
      <4>2. globals[n].kind = "FUNC" => globals[n].value < Len(functionTable)
        BY <3>1 DEF IInv, Linked
      <4>3. globals[n].value \in Nat BY <4>1
      <4> QED BY <1>5, <4>1, <4>2, <4>3
    <3>2. CASE globals'[n] = y BY <1>5, <2>3, <3>2
    <3> QED BY <2>1, <3>1, <3>2
  <2> QED BY <2>2, <2>4
<1>14. TypeOK'
  <2>1. code' \in Seq(EmittedCode) /\ Len(code') <= MaxCodeSize BY <1>4, <1>5, <1>8
  <2>2. functionTable' \in Seq(Nat) /\ Len(functionTable') <= MaxFunctionCount BY <1>4, <1>5, <1>11
  <2>3. \A k \in 1 .. Len(functionTable') : functionTable'[k] < Len(code')
    <3> SUFFICES ASSUME NEW k \in 1 .. Len(functionTable') PROVE functionTable'[k] < Len(code')
      OBVIOUS
    <3>1. CASE k \in 1 .. Len(functionTable)
      <4>1. functionTable'[k] = functionTable[k] /\ functionTable[k] \in 0 .. here - 1
        BY <1>11, <1>12, <3>1
      <4> QED BY <1>5, <1>8, <4>1
    <3>2. CASE k = Len(functionTable) + 1 BY <1>5, <1>8, <1>11, <3>2
    <3> QED BY <1>5, <1>11, <3>1, <3>2
  <2>4. functionStart' \in {Outside} \cup (0 .. Len(code') - 1) BY <1>4, <1>5, <1>8
  <2>5. localsSize' \in 0 .. MaxInt /\ paramsSize' \in 0 .. MaxInt BY <1>4, <1>5
  <2>6. globalRefs' \subseteq [at : 0 .. Len(code') - 1, label : Names]
    <3>1. globalRefs \subseteq [at : 0 .. here - 1, label : Names] BY DEF IInv, TypeOK, here
    <3>2. 0 .. here - 1 \subseteq 0 .. Len(code') - 1 BY <1>5, <1>8
    <3> QED BY <1>4, <3>1, <3>2
  <2>7. freeWords' \in 0 .. MaxMemorySize - 1 BY <1>4, FrameSizes
  <2>8. /\ DOMAIN locals' \subseteq Names
        /\ \A n \in DOMAIN locals' : locals'[n] \in [kind : {"BRANCH", "VAR"}, value : Nat]
        /\ localRefs' \subseteq [at : 0 .. Len(code') - 1, label : Names, cases : Cases \cup {0}]
    BY <1>4
  <2> QED BY <1>4, <1>13, <2>1, <2>2, <2>3, <2>4, <2>5, <2>6, <2>7, <2>8 DEF TypeOK
<1>15. functionStart' # Outside BY <1>4, <1>5 DEF Outside
<1>16. Closed(code', ClosedEnd')
  <2>1. Closed(code', here) BY <1>5, <1>6, <1>9, ClosedKept
  <2> QED BY <1>4, <1>15, <2>1 DEF ClosedEnd
<1>17. Open'
  <2>1. \A a \in (functionStart' + 1) .. (here' - 1) : FALSE BY <1>4, <1>5, <1>10
  <2>2. code'[functionStart' + 1] = Emitted("FUNC", 0, 0, {}) BY <1>2, <1>4, <1>8
  <2> QED BY <1>4, <2>1, <2>2 DEF Open
<1>18. Linked'
  <2>1. \A k \in 1 .. Len(functionTable') : Starts(code', functionTable'[k])
    <3> SUFFICES ASSUME NEW k \in 1 .. Len(functionTable') PROVE Starts(code', functionTable'[k])
      OBVIOUS
    <3>1. CASE k \in 1 .. Len(functionTable)
      <4>1. PICK a \in 0 .. here - 1 : a = functionTable[k] BY <1>12, <3>1
      <4>2. code[a + 1].op = "FUNC" BY <3>1, <4>1 DEF IInv, Linked, Starts
      <4>3. code'[a + 1].op = "FUNC" BY <1>6, <1>9, <4>2
      <4> QED BY <1>11, <3>1, <4>1, <4>3 DEF Starts
    <3>2. CASE k = Len(functionTable) + 1 BY <1>7, <1>8, <1>11, <3>2 DEF Starts
    <3> QED BY <1>5, <1>11, <3>1, <3>2
  <2>2. \A n \in DOMAIN globals' : globals'[n].kind = "FUNC" => globals'[n].value < Len(functionTable')
    <3> SUFFICES ASSUME NEW n \in DOMAIN globals', globals'[n].kind = "FUNC"
                 PROVE  globals'[n].value < Len(functionTable')
      OBVIOUS
    <3>1. globals'[n].value \in Nat /\ globals'[n].value <= Len(functionTable) BY <1>13
    <3> QED BY <1>5, <1>11, <3>1
  <2>3. ASSUME NEW r \in globalRefs PROVE code'[r.at + 1].op = "CALL_CVC"
    <3>1. PICK a \in 0 .. here - 1 : a = r.at BY DEF IInv, TypeOK, here
    <3>2. code[a + 1].op = "CALL_CVC" BY <3>1 DEF IInv, Linked
    <3> QED BY <1>6, <1>9, <3>1, <3>2
  <2>4. ASSUME NEW a \in 0 .. here, code'[a + 1].op = "CALL_CVC"
        PROVE  code'[a + 1].p0 < Len(functionTable') \/ \E r \in globalRefs : r.at = a
    <3>1. a # here BY <1>7, <1>8, <2>4
    <3>2. a \in 0 .. here - 1 BY <1>5, <3>1
    <3>3. code[a + 1].op = "CALL_CVC" /\ code'[a + 1].p0 = code[a + 1].p0 BY <1>6, <1>9, <2>4, <3>2
    <3>4. code[a + 1].p0 < Len(functionTable) \/ \E r \in globalRefs : r.at = a
      BY <3>2, <3>3 DEF IInv, Linked
    <3>5. code[a + 1].p0 \in Nat
      <4>1. code \in Seq(EmittedCode) /\ a + 1 \in 1 .. Len(code) BY <1>5, <3>2 DEF IInv, TypeOK, here
      <4>2. code[a + 1] \in EmittedCode BY <4>1
      <4> QED BY <4>2 DEF EmittedCode
    <3> QED BY <1>5, <1>11, <3>3, <3>4, <3>5
  <2>5. 0 .. here' - 1 = 0 .. here BY <1>5, <1>10
  <2> QED BY <1>4, <2>1, <2>2, <2>3, <2>4, <2>5 DEF Linked
<1>19. Sized(code')
  <2>1. ASSUME NEW k \in 1 .. Len(code'), code'[k].op = "FUNC"
        PROVE  code'[k].p0 <= MaxInt /\ code'[k].p1 <= MaxInt
    <3>1. CASE k \in 1 .. here BY <1>6, <1>8, <2>1, <3>1 DEF Sized
    <3>2. CASE k = here + 1 BY <1>5, <1>7, <1>8, <3>2
    <3> QED BY <1>5, <1>8, <3>1, <3>2
  <2> QED BY <2>1 DEF Sized
<1> QED BY <1>4, <1>14, <1>16, <1>17, <1>18, <1>19 DEF IInv

\* Between functions there is nothing open.
LEMMA UnitEnds ==
  ASSUME IInv, EndUnit, UNCHANGED <<functionTable, globals, globalRefs, freeWords>>,
         status' \in {"feeding", "done"},
         code' \in Seq(EmittedCode), Len(code') = here, Closed(code', here), Sized(code'),
         \A a \in 0 .. here - 1 :
           /\ code'[a + 1].op = code[a + 1].op
           /\ code[a + 1].op = "CALL_CVC" =>
                \/ code'[a + 1].p0 < Len(functionTable)
                \/ status' = "feeding" /\ code'[a + 1].p0 = code[a + 1].p0
  PROVE  IInv'
<1>1. /\ functionStart' = Outside /\ localsSize' = 0 /\ paramsSize' = 0 /\ locals' = <<>> /\ localRefs' = {}
      /\ status = "feeding" /\ skipUntilLabel = None /\ skipUntilLabel' = None
  BY DEF EndUnit, StartFrame
<1>2. here \in Nat /\ MaxInt \in Nat /\ here' = here BY Lengths, FrameSizes DEF IInv, here
<1>3. TypeOK'
  <2>1. functionStart' \in {Outside} \cup (0 .. Len(code') - 1) BY <1>1
  <2>2. localsSize' \in 0 .. MaxInt /\ paramsSize' \in 0 .. MaxInt BY <1>1, <1>2
  <2>3. /\ DOMAIN locals' \subseteq Names
        /\ \A n \in DOMAIN locals' : locals'[n] \in [kind : {"BRANCH", "VAR"}, value : Nat]
        /\ localRefs' \subseteq [at : 0 .. Len(code') - 1, label : Names, cases : Cases \cup {0}]
    BY <1>1
  <2>4. skipUntilLabel' \in SkipLabels \cup {None} BY <1>1
  <2> QED BY <1>1, <1>2, <2>1, <2>2, <2>3, <2>4 DEF IInv, TypeOK, here
<1>4. Closed(code', ClosedEnd') BY <1>1, <1>2 DEF ClosedEnd
<1>5. Open' BY <1>1 DEF Open
<1>6. Linked'
  <2>1. ASSUME NEW k \in 1 .. Len(functionTable) PROVE Starts(code', functionTable[k])
    <3>1. functionTable \in Seq(Nat) /\ functionTable[k] < here BY DEF IInv, TypeOK, here
    <3>2. functionTable[k] \in Nat BY <3>1
    <3>3. PICK a \in 0 .. here - 1 : a = functionTable[k] BY <1>2, <3>1, <3>2
    <3>4. Starts(code, a) BY <3>3 DEF IInv, Linked
    <3> QED BY <3>3, <3>4 DEF Starts
  <2>2. \A n \in DOMAIN globals : globals[n].kind = "FUNC" => globals[n].value < Len(functionTable)
    BY DEF IInv, Linked
  <2>3. ASSUME NEW r \in globalRefs PROVE code'[r.at + 1].op = "CALL_CVC"
    <3>1. PICK a \in 0 .. here - 1 : a = r.at BY DEF IInv, TypeOK, here
    <3>2. code[a + 1].op = "CALL_CVC" BY <3>1 DEF IInv, Linked
    <3> QED BY <3>1, <3>2
  <2>4. ASSUME NEW a \in 0 .. here - 1, code'[a + 1].op = "CALL_CVC"
        PROVE  \/ code'[a + 1].p0 < Len(functionTable)
               \/ status' = "feeding" /\ \E r \in globalRefs : r.at = a
    <3>1. code[a + 1].op = "CALL_CVC" BY <2>4
    <3>2. code[a + 1].p0 < Len(functionTable) \/ \E r \in globalRefs : r.at = a
      BY <3>1 DEF IInv, Linked
    <3> QED BY <3>1, <3>2
  <2> QED BY <1>2, <2>1, <2>2, <2>3, <2>4 DEF Linked
<1> QED BY <1>1, <1>3, <1>4, <1>5, <1>6 DEF IInv

\* newUnit() ends the current function.
LEMMA NewUnitPreserves ==
  ASSUME IInv, NewUnit
  PROVE  IInv'
<1>1. /\ EndUnit /\ FinalizeFunction /\ code' = CodeSoFar /\ status' = "feeding"
      /\ UNCHANGED <<functionTable, globals, globalRefs, freeWords>>
  BY DEF NewUnit, EndUnit
<1> QED BY <1>1, Closing, UnitEnds

\* finalize() does too, and every call gets the ordinal of a function.
LEMMA FinalizePreserves ==
  ASSUME IInv, Finalize
  PROVE  IInv'
<1>1. PICK c : c = CodeSoFar OBVIOUS
<1>2. /\ EndUnit /\ FinalizeFunction /\ status' = "done"
      /\ \A r \in globalRefs : r.label \in DOMAIN globals /\ globals[r.label].kind = "FUNC"
      /\ UNCHANGED <<functionTable, globals, globalRefs, freeWords>>
  BY DEF Finalize, EndUnit
<1>3. here \in Nat BY Lengths DEF IInv
<1>4. code' = [k \in 1 .. here |->
                 IF \E r \in globalRefs : r.at = k - 1
                 THEN [c[k] EXCEPT !.p0 = globals[(CHOOSE r \in globalRefs : r.at = k - 1).label].value]
                 ELSE c[k]]
  BY <1>1 DEF Finalize, here
<1>5. /\ c \in Seq(EmittedCode) /\ Len(c) = here /\ Closed(c, here) /\ Sized(c)
      /\ \A a \in 0 .. here - 1 :
           /\ c[a + 1].op = code[a + 1].op
           /\ code[a + 1].op = "CALL_CVC" => c[a + 1].p0 = code[a + 1].p0
  BY <1>1, <1>2, Closing
<1>6. ASSUME NEW a \in 0 .. here - 1
      PROVE  \/ /\ code'[a + 1] = c[a + 1] /\ \A r \in globalRefs : r.at # a
             \/ /\ code[a + 1].op = "CALL_CVC"
                /\ \E p0 \in Nat : p0 < Len(functionTable) /\ code'[a + 1] = [c[a + 1] EXCEPT !.p0 = p0]
  <2>1. a + 1 \in 1 .. here /\ (a + 1) - 1 = a BY <1>3
  <2>2. CASE \E r \in globalRefs : r.at = a
    <3>1. PICK r \in globalRefs : r = (CHOOSE q \in globalRefs : q.at = a) /\ r.at = a BY <2>2
    <3>2. code'[a + 1] = [c[a + 1] EXCEPT !.p0 = globals[r.label].value] BY <1>4, <2>1, <2>2, <3>1
    <3>3. code[a + 1].op = "CALL_CVC" BY <3>1 DEF IInv, Linked
    <3>4. globals[r.label].value \in Nat /\ globals[r.label].value < Len(functionTable)
      BY <1>2 DEF IInv, TypeOK, Linked
    <3> QED BY <3>2, <3>3, <3>4
  <2>3. CASE ~ \E r \in globalRefs : r.at = a BY <1>4, <2>1, <2>3
  <2> QED BY <2>2, <2>3
<1>7. \A a \in 0 .. here - 1 : c[a + 1] \in EmittedCode
  <2>1. \A k \in 1 .. here : c[k] \in EmittedCode BY <1>5
  <2> QED BY <1>3, <2>1
<1>8. ASSUME NEW a \in 0 .. here - 1
      PROVE  /\ code'[a + 1] \in EmittedCode
             /\ code'[a + 1].op = c[a + 1].op /\ code'[a + 1].p1 = c[a + 1].p1
             /\ code'[a + 1].jumps = c[a + 1].jumps
             /\ code'[a + 1].slots = c[a + 1].slots /\ code'[a + 1].bases = c[a + 1].bases
             /\ c[a + 1].op = "FUNC" => code'[a + 1].p0 = c[a + 1].p0
             /\ c[a + 1].op = "CALL_CVC" => code'[a + 1].p0 < Len(functionTable)
  <2>1. CASE /\ code'[a + 1] = c[a + 1] /\ \A r \in globalRefs : r.at # a
    <3>1. c[a + 1].op = "CALL_CVC" => c[a + 1].p0 < Len(functionTable)
      BY <1>5, <2>1 DEF IInv, Linked
    <3> QED BY <1>7, <2>1, <3>1
  <2>2. CASE /\ code[a + 1].op = "CALL_CVC"
             /\ \E p0 \in Nat : p0 < Len(functionTable) /\ code'[a + 1] = [c[a + 1] EXCEPT !.p0 = p0]
    <3>1. PICK p0 \in Nat : p0 < Len(functionTable) /\ code'[a + 1] = [c[a + 1] EXCEPT !.p0 = p0] BY <2>2
    <3>2. c[a + 1] \in EmittedCode /\ c[a + 1].op = "CALL_CVC" BY <1>5, <1>7, <2>2
    <3> QED BY <3>1, <3>2 DEF EmittedCode
  <2> QED BY <1>6, <2>1, <2>2
<1>9. code' \in Seq(EmittedCode) /\ Len(code') = here
  <2>1. PICK d : d = code' OBVIOUS
  <2>2. ASSUME NEW k \in 1 .. here PROVE d[k] \in EmittedCode
    <3>1. PICK a \in 0 .. here - 1 : k = a + 1 BY <1>3
    <3> QED BY <1>8, <2>1, <3>1
  <2>3. d = [k \in 1 .. here |-> d[k]] BY <1>4, <2>1
  <2>4. d \in [1 .. here -> EmittedCode] BY <2>2, <2>3
  <2>5. d \in Seq(EmittedCode) BY <1>3, <2>4, SeqDef
  <2>6. Len(d) = here BY <1>3, <2>4, <2>5, LenProperties
  <2> QED BY <2>1, <2>5, <2>6
<1>10. Closed(code', here) BY <1>3, <1>5, <1>8, ClosedKept
<1>11. Sized(code')
  <2>1. ASSUME NEW k \in 1 .. here, code'[k].op = "FUNC"
        PROVE  code'[k].p0 <= MaxInt /\ code'[k].p1 <= MaxInt
    <3>1. PICK a \in 0 .. here - 1 : k = a + 1 BY <1>3
    <3>2. c[k].op = "FUNC" /\ code'[k].p0 = c[k].p0 /\ code'[k].p1 = c[k].p1 BY <1>8, <2>1, <3>1
    <3> QED BY <1>5, <3>2 DEF Sized
  <2> QED BY <1>9, <2>1 DEF Sized
<1>12. \A a \in 0 .. here - 1 :
         /\ code'[a + 1].op = code[a + 1].op
         /\ code[a + 1].op = "CALL_CVC" => code'[a + 1].p0 < Len(functionTable)
  BY <1>5, <1>8
<1> QED BY <1>2, <1>9, <1>10, <1>11, <1>12, UnitEnds

-----------------------------------------------------------------------------
\* Any line that is accepted.
LEMMA LinePreserves ==
  ASSUME IInv, NEW l \in Labels, Line(l)
  PROVE  IInv'
<1>1. CASE Func(l) BY <1>1, FuncPreserves
<1>2. CASE Noop(l) BY <1>2, NoopPreserves
<1>3. CASE Retu(l) BY <1>3, RetuPreserves
<1>4. CASE \E size \in Sizes : Loca(l, size) BY <1>4, LocaPreserves
<1>5. CASE \E n \in Sizes : OnTransient(l, n) BY <1>5, OnTransientPreserves
<1>6. CASE \E name \in Names, k \in Offsets : OnLocal(l, name, k) BY <1>6, OnLocalPreserves
<1>7. CASE \E name \in Names, k \in Offsets : Indexed(l, name, k) BY <1>7, IndexedPreserves
<1>8. CASE \E name \in Names, k \in Offsets, size \in Sizes : AddressOf(l, name, k, size)
  BY <1>8, AddressOfPreserves
<1>9. CASE \E n \in Sizes, size \in Sizes : AddressOfWindow(l, n, size) BY <1>9, AddressOfWindowPreserves
<1>10. CASE \E window \in Windows, op \in {"CALL_VVC", "CALL_NVC"} : CallOther(l, op, window)
  BY <1>10, CallOtherPreserves
<1>11. CASE \E window \in Windows, name \in Names : CallFunction(l, name, window)
  BY <1>11, CallFunctionPreserves
<1>12. CASE \E name \in Names, op \in {"BRANCH", "GOTO"} : Jump(l, op, name) BY <1>12, JumpPreserves
<1>13. CASE \E name \in Names, cases \in Cases : Switch(l, name, cases) BY <1>13, SwitchPreserves
<1>14. CASE \E size \in Cases : Section(l, size) BY <1>14, SectionPreserves
<1>15. CASE \E y \in {Symbol("OTHER", 0)} \cup {globals[n] : n \in DOMAIN globals} : Named(l, y)
  BY <1>15, NamedPreserves
<1>16. CASE \E until \in SkipLabels \cup {None} : CompileTime(l, until) BY <1>16, CompileTimePreserves
<1>17. CASE \E ifdf \in BOOLEAN, name \in Names, until \in SkipLabels : IfDefined(l, ifdf, name, until)
  BY <1>17, IfDefinedPreserves
<1> QED BY <1>1, <1>2, <1>3, <1>4, <1>5, <1>6, <1>7, <1>8, <1>9, <1>10, <1>11, <1>12, <1>13, <1>14,
           <1>15, <1>16, <1>17 DEF Line

\* The invariant holds however the lines are fed.
THEOREM Preserved == IInv /\ [Next]_vars => IInv'
<1> SUFFICES ASSUME IInv, [Next]_vars PROVE IInv'
  OBVIOUS
<1>1. CASE \E l \in Labels : Line(l) BY <1>1, LinePreserves
<1>2. CASE NewUnit BY <1>2, NewUnitPreserves
<1>3. CASE Finalize BY <1>3, FinalizePreserves
<1>4. CASE UNCHANGED vars
  <2>1. TypeOK' BY <1>4 DEF IInv, TypeOK, vars
  <2>2. Closed(code', ClosedEnd') BY <1>4 DEF IInv, ClosedEnd, here, vars
  <2>3. Open' BY <1>4 DEF IInv, Open, OpenAt, Starts, here, vars
  <2>4. Linked' BY <1>4 DEF IInv, Linked, here, Starts, vars
  <2> QED BY <1>4, <2>1, <2>2, <2>3, <2>4 DEF IInv, vars
<1> QED BY <1>1, <1>2, <1>3, <1>4 DEF Next

\* The inductive invariant, for every program, number of units and limits.
THEOREM Invariant == Spec => []IInv
BY Initially, Preserved, PTL DEF Spec

-----------------------------------------------------------------------------
\* The nearest FUNC at or before an instruction is the one it is complete with.
LEMMA FunctionFound ==
  ASSUME IInv, NEW a \in 0 .. here - 1, NEW f \in 0 .. a, Within(code, f, a)
  PROVE  Program!Heads(f, a) /\ Program!FunctionAt(a) = f
<1>1. here \in Nat BY Lengths DEF IInv
<1>2. \A b \in 0 .. here - 1 : Program!IsFunction(b) = Starts(code, b)
  BY DEF Program!IsFunction, Starts, here
<1>3. ASSUME NEW g \in 0 .. a PROVE Program!Heads(g, a) <=> Within(code, g, a)
  <2>1. g \in 0 .. here - 1 /\ \A b \in (g + 1) .. a : b \in 0 .. here - 1 BY <1>1
  <2> QED BY <1>2, <2>1 DEF Program!Heads, Within
<1>4. ASSUME NEW g \in 0 .. a, Within(code, g, a) PROVE g = f
  <2>1. g < f => FALSE
    <3>1. Starts(code, f) BY DEF Within
    <3>2. g < f => f \in (g + 1) .. a OBVIOUS
    <3> QED BY <1>4, <3>1, <3>2 DEF Within
  <2>2. f < g => FALSE
    <3>1. Starts(code, g) BY <1>4 DEF Within
    <3>2. f < g => g \in (f + 1) .. a OBVIOUS
    <3> QED BY <3>1, <3>2 DEF Within
  <2> QED BY <2>1, <2>2
<1>5. Program!FunctionAt(a) = CHOOSE g \in 0 .. a : Program!Heads(g, a) BY DEF Program!FunctionAt
<1> QED BY <1>3, <1>4, <1>5

\* The variables keep their types, whatever the limits.
THEOREM TypeCorrect == Spec => []TypeOK
<1>1. IInv => TypeOK BY DEF IInv
<1> QED BY <1>1, Invariant, PTL

\* No frame is so large that FUNC's check of its size wraps.
THEOREM FramesAddUp == Spec => []FrameSizesAddUp
<1>1. ASSUME IInv PROVE FrameSizesAddUp
  <2> SUFFICES ASSUME NEW i \in 1 .. Len(code), code[i].op = "FUNC"
               PROVE  code[i].p0 + code[i].p1 < 2 * (MaxInt + 1)
    BY DEF FrameSizesAddUp
  <2>1. code[i] \in EmittedCode
    <3>1. code \in Seq(EmittedCode) BY <1>1 DEF IInv, TypeOK
    <3> QED BY <3>1
  <2>2. code[i].p0 \in Nat /\ code[i].p1 \in Nat /\ MaxInt \in Nat
    BY <1>1, <2>1, FrameSizes DEF EmittedCode
  <2>3. code[i].p0 <= MaxInt /\ code[i].p1 <= MaxInt BY <1>1 DEF IInv, Sized
  <2> QED BY <2>2, <2>3
<1> QED BY <1>1, Invariant, PTL

\* The words that an assembled program's instructions use are inside their function's frame.
THEOREM FramesHoldOperands == Spec => []OperandsInFrame
<1>1. ASSUME IInv PROVE OperandsInFrame
  <2> SUFFICES ASSUME status = "done", NEW a \in 0 .. here - 1
               PROVE  LET func == code[Program!FunctionAt(a) + 1]
                      IN  /\ code[a + 1].slots \subseteq -func.p0 .. func.p1 - 1
                          /\ \A b \in code[a + 1].bases : b >= -func.p0
    BY DEF OperandsInFrame, here
  <2>1. Closed(code, here) BY <1>1 DEF IInv, ClosedEnd
  <2>2. PICK f \in 0 .. a : Within(code, f, a) /\ FitsFrame(code[a + 1], code[f + 1].p0, code[f + 1].p1)
    BY <2>1 DEF Closed
  <2>3. Program!FunctionAt(a) = f BY <1>1, <2>2, FunctionFound
  <2> QED BY <2>2, <2>3 DEF FitsFrame
<1> QED BY <1>1, Invariant, PTL

(***************************************************************************)
(* A program that finalize() accepts is one that Processor::run() may      *)
(* execute: what the processor's theorems assume of the code is proved of  *)
(* the assembler, in whatever units and order its lines were fed.          *)
(***************************************************************************)
THEOREM WellFormed == Spec => []AssembledWellFormed
<1>1. ASSUME IInv PROVE AssembledWellFormed
  <2> SUFFICES ASSUME status = "done", functionTable # <<>> PROVE Program!CodeWellFormed
    BY DEF AssembledWellFormed
  <2>1. Closed(code, here) BY <1>1 DEF IInv, ClosedEnd
  <2>2. here \in Nat /\ Len(functionTable) \in Nat BY <1>1, Lengths DEF IInv
  <2>3. PICK n \in Nat : n = here BY <2>2
  <2>4. Program!Address = 0 .. n - 1 BY <2>3 DEF Program!Address, here
  <2>5. PICK prog : prog = [a \in 0 .. n - 1 |->
                              [op |-> code[a + 1].op, p0 |-> code[a + 1].p0, p1 |-> code[a + 1].p1,
                               jumps |-> code[a + 1].jumps, errors |-> {}]]
    OBVIOUS
  <2>6. PICK table : table = [f \in 0 .. Len(functionTable) - 1 |-> functionTable[f + 1]] OBVIOUS
  <2>7. \A a \in 0 .. n - 1 : code[a + 1] \in EmittedCode
    <3>1. code \in Seq(EmittedCode) BY <1>1 DEF IInv, TypeOK
    <3>2. \A k \in 1 .. n : code[k] \in EmittedCode BY <2>3, <3>1 DEF here
    <3> QED BY <2>3, <3>2
  <2>8. \A k \in 1 .. Len(functionTable) :
          functionTable[k] \in 0 .. n - 1 /\ Starts(code, functionTable[k])
    <3>1. functionTable \in Seq(Nat) /\ \A k \in 1 .. Len(functionTable) : functionTable[k] < n
      BY <1>1, <2>3 DEF IInv, TypeOK, here
    <3>2. \A k \in 1 .. Len(functionTable) : functionTable[k] \in Nat BY <3>1
    <3> QED BY <1>1, <2>3, <3>1, <3>2 DEF IInv, Linked
  <2>9. \A a \in 0 .. n - 1 : Program!IsFunction(a) = Starts(code, a)
    BY <2>3 DEF Program!IsFunction, Starts, here
  <2>10. n # 0
    <3>1. functionTable \in Seq(Nat) BY <1>1 DEF IInv, TypeOK
    <3>2. Len(functionTable) # 0 BY <3>1
    <3>3. 1 \in 1 .. Len(functionTable) BY <2>2, <3>2
    <3> QED BY <2>8, <3>3
  <2>11. prog \in [0 .. n - 1 -> Program!Instruction]
    <3>1. ASSUME NEW a \in 0 .. n - 1
          PROVE  [op |-> code[a + 1].op, p0 |-> code[a + 1].p0, p1 |-> code[a + 1].p1,
                  jumps |-> code[a + 1].jumps, errors |-> {}] \in Program!Instruction
      BY <2>7 DEF EmittedCode, Program!Instruction
    <3> QED BY <2>5, <3>1
  <2>12. ASSUME NEW a \in 0 .. n - 1
         PROVE  /\ \E f \in 0 .. a : Program!Heads(f, a)
                /\ prog[a].op \in Program!Calls \cup {"FUNC", "DATA", "BRANCH", "SWCH"} =>
                     a + 1 \in 0 .. n - 1 /\ ~Program!IsFunction(a + 1)
                /\ prog[a].op \in Program!Jumps => prog[a].jumps # {}
                /\ \A j \in prog[a].jumps :
                     /\ a + j \in 0 .. n - 1 /\ ~Program!IsFunction(a + j)
                     /\ Program!FunctionAt(a + j) = Program!FunctionAt(a)
                /\ prog[a].op \in Program!Calls => prog[a].p1 <= prog[Program!FunctionAt(a)].p1
                /\ prog[a].op = "CALL_CVC" => prog[a].p0 < Len(functionTable)
    <3>1. /\ prog[a].op = code[a + 1].op /\ prog[a].p0 = code[a + 1].p0 /\ prog[a].p1 = code[a + 1].p1
          /\ prog[a].jumps = code[a + 1].jumps
      BY <2>5
    <3>2. PICK f \in 0 .. a :
            /\ Within(code, f, a)
            /\ FitsFrame(code[a + 1], code[f + 1].p0, code[f + 1].p1)
            /\ \A j \in code[a + 1].jumps : a + j \in (f + 1) .. (n - 1) /\ Within(code, f, a + j)
      BY <2>1, <2>3 DEF Closed
    <3>3. Program!Heads(f, a) /\ Program!FunctionAt(a) = f BY <1>1, <2>3, <3>2, FunctionFound
    <3>4. prog[a].op \in Program!Calls \cup {"FUNC", "DATA", "BRANCH", "SWCH"} =>
            a + 1 \in 0 .. n - 1 /\ ~Program!IsFunction(a + 1)
      <4>1. code[a + 1].op \notin {"RETU", "GOTO"} => a + 1 <= n - 1 /\ ~Starts(code, a + 1)
        BY <2>1, <2>3 DEF Closed
      <4>2. a + 1 <= n - 1 => a + 1 \in 0 .. n - 1 OBVIOUS
      <4>3. code[a + 1].op \in Program!Calls \cup {"FUNC", "DATA", "BRANCH", "SWCH"} =>
              code[a + 1].op \notin {"RETU", "GOTO"}
        BY DEF Program!Calls
      <4> QED BY <2>9, <3>1, <4>1, <4>2, <4>3
    <3>5. prog[a].op \in Program!Jumps => prog[a].jumps # {} BY <2>1, <2>3, <3>1 DEF Closed
    <3>6. ASSUME NEW j \in prog[a].jumps
          PROVE  /\ a + j \in 0 .. n - 1 /\ ~Program!IsFunction(a + j)
                 /\ Program!FunctionAt(a + j) = Program!FunctionAt(a)
      <4>1. a + j \in (f + 1) .. (n - 1) /\ Within(code, f, a + j) BY <3>1, <3>2
      <4>2. PICK b \in (f + 1) .. (n - 1) : b = a + j BY <4>1
      <4>3. b \in 0 .. n - 1 /\ f \in 0 .. b /\ b \in (f + 1) .. b OBVIOUS
      <4>4. ~Starts(code, b) BY <4>1, <4>2, <4>3 DEF Within
      <4>5. Program!FunctionAt(b) = f BY <1>1, <2>3, <4>1, <4>2, <4>3, FunctionFound
      <4> QED BY <2>9, <3>3, <4>2, <4>3, <4>4, <4>5
    <3>7. prog[a].op \in Program!Calls => prog[a].p1 <= prog[Program!FunctionAt(a)].p1
      <4>1. f \in 0 .. n - 1 /\ prog[f].p1 = code[f + 1].p1 BY <2>5
      <4> QED BY <3>1, <3>2, <3>3, <4>1 DEF FitsFrame
    <3>8. prog[a].op = "CALL_CVC" => prog[a].p0 < Len(functionTable)
      BY <1>1, <2>3, <3>1 DEF IInv, Linked
    <3> QED BY <3>3, <3>4, <3>5, <3>6, <3>7, <3>8
  <2>13. table \in [0 .. Len(functionTable) - 1 -> {a \in 0 .. n - 1 : Program!IsFunction(a)}]
    <3>1. ASSUME NEW f \in 0 .. Len(functionTable) - 1
          PROVE  functionTable[f + 1] \in {a \in 0 .. n - 1 : Program!IsFunction(a)}
      <4>1. f + 1 \in 1 .. Len(functionTable) BY <2>2
      <4> QED BY <2>8, <2>9, <4>1
    <3> QED BY <2>6, <3>1
  <2>14. Len(code) = n /\ Len(functionTable) \in Nat BY <2>2, <2>3 DEF here
  <2> QED BY <2>4, <2>5, <2>6, <2>10, <2>11, <2>12, <2>13, <2>14 DEF Program!CodeWellFormed
<1> QED BY <1>1, Invariant, PTL

-----------------------------------------------------------------------------
\* Append() keeps what was there, whatever is appended.
LEMMA AppendKeepsAny ==
  ASSUME NEW S, NEW s \in Seq(S), NEW x, NEW i \in 1 .. Len(s)
  PROVE  Append(s, x)[i] = s[i]
OBVIOUS

\* A line that is not FUNC appends to the code, or leaves it.
LEMMA LineKeepsCode ==
  ASSUME IInv, NEW l \in Labels, Line(l), ~Func(l), NEW i \in 1 .. here
  PROVE  code'[i] = code[i]
<1>1. code \in Seq(EmittedCode) BY DEF IInv, TypeOK
<1>2. ASSUME NEW x, Emit(l, x) PROVE code'[i] = code[i]
  <2>1. code' = Append(code, x) BY <1>2 DEF Emit
  <2> QED BY <1>1, <2>1, AppendKeepsAny DEF here
<1>3. CASE Noop(l) BY <1>3 DEF Noop
<1>4. CASE Retu(l) BY <1>2, <1>4 DEF Retu
<1>5. CASE \E size \in Sizes : Loca(l, size) BY <1>5 DEF Loca
<1>6. ASSUME NEW slots, NEW bases, Data(l, slots, bases) PROVE code'[i] = code[i]
  BY <1>2, <1>6 DEF Data
<1>7. CASE \E n \in Sizes : OnTransient(l, n) BY <1>6, <1>7 DEF OnTransient
<1>8. CASE \E name \in Names, k \in Offsets : OnLocal(l, name, k) BY <1>6, <1>8 DEF OnLocal
<1>9. CASE \E name \in Names, k \in Offsets : Indexed(l, name, k) BY <1>6, <1>9 DEF Indexed
<1>10. CASE \E name \in Names, k \in Offsets, size \in Sizes : AddressOf(l, name, k, size)
  BY <1>6, <1>10 DEF AddressOf
<1>11. CASE \E n \in Sizes, size \in Sizes : AddressOfWindow(l, n, size) BY <1>6, <1>11 DEF AddressOfWindow
<1>12. ASSUME NEW op, NEW p0, NEW window \in Windows, Call(l, op, p0, window) PROVE code'[i] = code[i]
  BY <1>2, <1>12 DEF Call
<1>13. CASE \E window \in Windows, op \in {"CALL_VVC", "CALL_NVC"} : CallOther(l, op, window)
  BY <1>12, <1>13 DEF CallOther
<1>14. CASE \E window \in Windows, name \in Names : CallFunction(l, name, window)
  BY <1>12, <1>14 DEF CallFunction
<1>15. CASE \E name \in Names, op \in {"BRANCH", "GOTO"} : Jump(l, op, name) BY <1>2, <1>15 DEF Jump
<1>16. CASE \E name \in Names, cases \in Cases : Switch(l, name, cases) BY <1>2, <1>16 DEF Switch
<1>17. CASE \E size \in Cases : Section(l, size) BY <1>17 DEF Section
<1>18. CASE \E y \in {Symbol("OTHER", 0)} \cup {globals[n] : n \in DOMAIN globals} : Named(l, y)
  BY <1>18 DEF Named
<1>19. CASE \E until \in SkipLabels \cup {None} : CompileTime(l, until) BY <1>19 DEF CompileTime
<1>20. CASE \E ifdf \in BOOLEAN, name \in Names, until \in SkipLabels : IfDefined(l, ifdf, name, until)
  BY <1>20 DEF IfDefined, CompileTime
<1> QED BY <1>3, <1>4, <1>5, <1>7, <1>8, <1>9, <1>10, <1>11, <1>13, <1>14, <1>15, <1>16, <1>17, <1>18,
           <1>19, <1>20 DEF Line

\* Only the current function's references are resolved at its end.
LEMMA ClosingKeeps ==
  ASSUME IInv, FinalizeFunction, NEW i \in 1 .. here, functionStart = Outside \/ i <= functionStart
  PROVE  CodeSoFar[i] = code[i]
<1>1. CASE functionStart = Outside BY <1>1 DEF CodeSoFar
<1>2. CASE functionStart # Outside
  <2>1. here \in Nat /\ functionStart \in 0 .. here - 1 BY <1>2, Lengths DEF IInv
  <2>2. i # functionStart + 1 /\ i - 1 < functionStart BY <1>2, <2>1
  <2>3. {q \in localRefs : q.at = i - 1} = {}
    <3>1. \A r \in localRefs : functionStart < r.at /\ r.at \in Int BY <2>1 DEF IInv, Open, TypeOK, here
    <3> QED BY <2>1, <2>2, <3>1
  <2>4. PICK js : js = UNION {Resolved(r) : r \in {q \in localRefs : q.at = i - 1}} OBVIOUS
  <2>5. js = {} BY <2>3, <2>4
  <2>6. CodeSoFar[i] = [code[i] EXCEPT !.jumps = @ \cup js] BY <1>2, <2>2, <2>4 DEF CodeSoFar, Finalized, here
  <2>7. code[i] \in EmittedCode
    <3>1. code \in Seq(EmittedCode) BY DEF IInv, TypeOK
    <3> QED BY <3>1 DEF here
  <2> QED BY <2>5, <2>6, <2>7 DEF EmittedCode
<1> QED BY <1>1, <1>2

\* No later line changes a function that has ended; finalize() only fills in what its calls go to.
THEOREM FinishedKept == Spec => FinishedFunctionsKept
<1>1. ASSUME IInv, [Next]_vars, NEW i \in 1 .. here, functionStart = Outside \/ i <= functionStart
      PROVE  \/ code'[i] = code[i]
             \/ /\ status' = "done"
                /\ \E r \in globalRefs : r.at = i - 1
                /\ \E p0 \in 0 .. Len(functionTable) - 1 : code'[i] = [code[i] EXCEPT !.p0 = p0]
  <2>1. CASE \E l \in Labels : Line(l) /\ ~Func(l) BY <1>1, <2>1, LineKeepsCode
  <2>2. CASE \E l \in Labels : Func(l)
    <3>1. PICK l \in Labels : Func(l) BY <2>2
    <3>2. FinalizeFunction /\ code' = Append(CodeSoFar, Emitted("FUNC", 0, 0, {})) BY <3>1 DEF Func
    <3>3. CodeSoFar \in Seq(EmittedCode) /\ Len(CodeSoFar) = here BY <1>1, <3>2, Closing
    <3>4. code'[i] = CodeSoFar[i] BY <3>2, <3>3, AppendKeepsAny
    <3> QED BY <1>1, <3>2, <3>4, ClosingKeeps
  <2>3. CASE NewUnit
    <3>1. FinalizeFunction /\ code' = CodeSoFar BY <2>3 DEF NewUnit, EndUnit
    <3> QED BY <1>1, <3>1, ClosingKeeps
  <2>4. CASE Finalize
    <3>1. /\ FinalizeFunction /\ status' = "done"
          /\ \A r \in globalRefs : r.label \in DOMAIN globals /\ globals[r.label].kind = "FUNC"
      BY <2>4 DEF Finalize, EndUnit
    <3>2. code'[i] = IF \E r \in globalRefs : r.at = i - 1
                     THEN [CodeSoFar[i] EXCEPT !.p0 =
                             globals[(CHOOSE r \in globalRefs : r.at = i - 1).label].value]
                     ELSE CodeSoFar[i]
      BY <2>4 DEF Finalize, here
    <3>3. CodeSoFar[i] = code[i] BY <1>1, <3>1, ClosingKeeps
    <3>4. CASE \E r \in globalRefs : r.at = i - 1
      <4>1. PICK r \in globalRefs : r = CHOOSE q \in globalRefs : q.at = i - 1 BY <3>4
      <4>2. code'[i] = [code[i] EXCEPT !.p0 = globals[r.label].value] BY <3>2, <3>3, <3>4, <4>1
      <4>3. globals[r.label].value \in Nat /\ globals[r.label].value < Len(functionTable)
        BY <1>1, <3>1 DEF IInv, TypeOK, Linked
      <4>4. Len(functionTable) \in Nat BY <1>1, Lengths DEF IInv
      <4>5. globals[r.label].value \in 0 .. Len(functionTable) - 1 BY <4>3, <4>4
      <4> QED BY <3>1, <3>4, <4>2, <4>5
    <3>5. CASE ~ \E r \in globalRefs : r.at = i - 1 BY <3>2, <3>3, <3>5
    <3> QED BY <3>4, <3>5
  <2>5. CASE UNCHANGED vars BY <2>5 DEF vars
  <2> QED BY <1>1, <2>1, <2>2, <2>3, <2>4, <2>5 DEF Next
<1>2. IInv /\ [Next]_vars =>
        [\A i \in 1 .. Len(code) :
           functionStart = Outside \/ i <= functionStart =>
             \/ code'[i] = code[i]
             \/ /\ status' = "done"
                /\ \E r \in globalRefs : r.at = i - 1
                /\ \E p0 \in 0 .. Len(functionTable) - 1 : code'[i] = [code[i] EXCEPT !.p0 = p0]]_vars
  BY <1>1 DEF here
<1> QED BY <1>2, Invariant, PTL DEF Spec, FinishedFunctionsKept
=============================================================================
