------------------------- MODULE GAZLProcessorProofs -------------------------
(***************************************************************************)
(* Proofs about GAZLProcessor, for every program the assembler can emit,   *)
(* every size of the two stacks and any depth of nested runs.              *)
(***************************************************************************)
EXTENDS GAZLProcessor, SequenceTheorems, WellFoundedInduction, TLAPS

-----------------------------------------------------------------------------
(***************************************************************************)
(* Numbers.                                                                *)
(***************************************************************************)

\* Every set of natural numbers that is not empty has a least.
LEMMA LeastNumber ==
  ASSUME NEW S \in SUBSET Nat, S # {}
  PROVE  \E n \in S : \A m \in S : n <= m
<1> DEFINE R == OpToRel(<, Nat)
<1>1. IsWellFoundedOn(R, Nat) BY NatLessThanWellFounded
<1>2. \A x, y \in Nat : y < x => <<y, x>> \in R BY DEF OpToRel
<1> HIDE DEF R
<1>3. PICK n \in S : \A m \in S : ~ (<<m, n>> \in R) BY <1>1, WFMin
<1>4. ASSUME NEW m \in S PROVE n <= m
  <2>1. m \in Nat /\ n \in Nat OBVIOUS
  <2>2. ~(m < n) BY <1>2, <1>3, <2>1
  <2> QED BY <2>1, <2>2
<1> QED BY <1>4

-----------------------------------------------------------------------------
(***************************************************************************)
(* Functions, and the frames their instructions use.                       *)
(***************************************************************************)

\* FunctionAt finds the function that the assembler put an instruction in.
LEMMA FunctionAtHeads ==
  ASSUME NEW a \in Address
  PROVE  FunctionAt(a) \in 0 .. a /\ Heads(FunctionAt(a), a)
BY CodeAssembled DEF CodeWellFormed, FunctionAt

\* Only one FUNC is the nearest.
LEMMA HeadsUnique ==
  ASSUME NEW a \in Address, NEW f \in 0 .. a, NEW g \in 0 .. a, Heads(f, a), Heads(g, a)
  PROVE  f = g
<1>1. ~(f < g) BY DEF Heads
<1>2. ~(g < f) BY DEF Heads
<1> QED BY <1>1, <1>2

\* An instruction after another, unless it is a FUNC, is in the same function.
LEMMA SameFunction ==
  ASSUME NEW a \in Address, a + 1 \in Address, ~IsFunction(a + 1)
  PROVE  FunctionAt(a + 1) = FunctionAt(a)
<1>1. FunctionAt(a) \in 0 .. (a + 1) /\ Heads(FunctionAt(a), a + 1)
  BY FunctionAtHeads DEF Heads, Address
<1>2. FunctionAt(a + 1) \in 0 .. (a + 1) /\ Heads(FunctionAt(a + 1), a + 1)
  BY FunctionAtHeads
<1> QED BY <1>1, <1>2, HeadsUnique

\* A FUNC is the first instruction of its function.
LEMMA FunctionItself ==
  ASSUME NEW a \in Address, IsFunction(a)
  PROVE  FunctionAt(a) = a
<1>1. a \in 0 .. a /\ Heads(a, a) BY DEF Heads, Address
<1>2. FunctionAt(a) \in 0 .. a /\ Heads(FunctionAt(a), a) BY FunctionAtHeads
<1> QED BY <1>1, <1>2, HeadsUnique

\* The operands that frames are made of are numbers, in a function that is code.
LEMMA CodeTypes ==
  ASSUME NEW a \in Address
  PROVE  /\ Code[a].p0 \in Nat /\ Code[a].p1 \in Nat
         /\ FunctionAt(a) \in Address
         /\ Code[FunctionAt(a)].p0 \in Nat /\ Code[FunctionAt(a)].p1 \in Nat
<1>1. \A b \in Address : Code[b].p0 \in Nat /\ Code[b].p1 \in Nat
  BY CodeAssembled DEF CodeWellFormed, Instruction
<1>2. FunctionAt(a) \in Address BY FunctionAtHeads, CodeAssembled DEF CodeWellFormed, Address
<1> QED BY <1>1, <1>2

\* dsp itself is never outside the data stack.
LEMMA FrameRange ==
  ASSUME NEW a \in Address, NEW d \in Int, FrameInside(a, d)
  PROVE  0 <= d /\ d <= DataStackSize
BY CodeTypes, HostAssumption DEF FrameInside

\* A call's window starts inside the caller's frame.
LEMMA FrameWindow ==
  ASSUME NEW a \in Address, NEW d \in Int, FrameInside(a, d), Code[a].op \in Calls
  PROVE  0 <= d + Code[a].p1 /\ d + Code[a].p1 <= DataStackSize
<1>1. ~IsFunction(a) BY DEF IsFunction, Calls
<1>2. Code[a].p1 <= Code[FunctionAt(a)].p1 BY CodeAssembled DEF CodeWellFormed
<1> QED BY <1>1, <1>2, CodeTypes, HostAssumption DEF FrameInside

\* The instruction that follows one which is not an end of its function uses the same frame.
LEMMA FrameNext ==
  ASSUME NEW a \in Address, NEW d \in Int, FrameInside(a, d),
         Code[a].op \in Calls \cup {"DATA", "BRANCH", "SWCH"}
  PROVE  a + 1 \in Address /\ FrameInside(a + 1, d)
<1>1. ~IsFunction(a) BY DEF IsFunction, Calls
<1>2. a + 1 \in Address /\ ~IsFunction(a + 1) BY CodeAssembled DEF CodeWellFormed
<1>3. FunctionAt(a + 1) = FunctionAt(a) BY <1>2, SameFunction
<1> QED BY <1>1, <1>2, <1>3 DEF FrameInside

\* So does the target of a jump.
LEMMA FrameJump ==
  ASSUME NEW a \in Address, NEW d \in Int, FrameInside(a, d), ~IsFunction(a),
         NEW j \in Code[a].jumps
  PROVE  a + j \in Address /\ FrameInside(a + j, d)
<1>1. a + j \in Address /\ ~IsFunction(a + j) /\ FunctionAt(a + j) = FunctionAt(a)
  BY CodeAssembled DEF CodeWellFormed
<1> QED BY <1>1 DEF FrameInside

\* FUNC's check covers every instruction of its function.
LEMMA FrameFunc ==
  ASSUME NEW a \in Address, NEW d \in Int, FrameInside(a, d), IsFunction(a), FrameFits(a, d)
  PROVE  a + 1 \in Address /\ FrameInside(a + 1, d + Code[a].p0)
<1>1. a + 1 \in Address /\ ~IsFunction(a + 1) BY CodeAssembled DEF CodeWellFormed, IsFunction
<1>2. FunctionAt(a + 1) = a BY <1>1, SameFunction, FunctionItself
<1> QED BY <1>1, <1>2, CodeTypes, HostAssumption DEF FrameInside, FrameFits

\* A called function's FUNC is anywhere on the stack.
LEMMA FrameCallee ==
  ASSUME NEW f \in 0 .. FunctionCount - 1, NEW d \in Int, 0 <= d, d <= DataStackSize
  PROVE  /\ FunctionTable[f] \in Address
         /\ IsFunction(FunctionTable[f])
         /\ FrameInside(FunctionTable[f], d)
BY CodeAssembled DEF CodeWellFormed, FrameInside

-----------------------------------------------------------------------------
(***************************************************************************)
(* The inductive invariant.  An entry of the ip stack is the first of the  *)
(* two of an enterCall, the second (a sentinel), or resumable.             *)
(***************************************************************************)
EntryPairs ==
  /\ \A i \in 1 .. ipsp :
       Sentinel(i) => i > 1 /\ ~Sentinel(i - 1) /\ ipStack[i].ip = ipStack[i - 1].ip
  /\ ipsp # 0 => ipsp > 1 /\ Sentinel(2) /\ ipStack[1] = [ip |-> 0, dsp |-> 0]
  /\ ipsp = 0 => control = "host" /\ ip = 0 /\ dsp = 0

ResumesInside ==
  \A i \in 1 .. ipsp :
    Resumable(i) => ipStack[i].ip + 1 \in Address /\ FrameInside(ipStack[i].ip + 1, ipStack[i].dsp)

\* The entries that belong to the run()s below native k are those up to natives[k].ipsp.
Above(k) == IF k = Len(natives) THEN ipsp ELSE natives[k + 1].ipsp
PendingSince(k, n) == \E i \in (natives[k].ipsp + 1) .. n : Sentinel(i)

NativeNested(k) ==
  /\ Code[natives[k].ip].op = "CALL_NVC"
  /\ FrameInside(natives[k].ip, natives[k].dsp)
  /\ 2 <= natives[k].ipsp /\ natives[k].ipsp <= Above(k) /\ Above(k) <= ipsp
  /\ \A j \in 1 .. k : natives[j].ipsp <= natives[k].ipsp
  /\ ~Sentinel(natives[k].ipsp + 1)
  /\ k < Len(natives) \/ control = "run" => PendingSince(k, Above(k))

NativesNested == \A k \in 1 .. Len(natives) : NativeNested(k)

(***************************************************************************)
(* The ip a and dsp d that native k has when there are n entries: those of *)
(* its call, those of the function it pushed last, whose frame fits, or,   *)
(* while a call it entered is pending, those of a run() that stopped or    *)
(* has yet to start.                                                       *)
(***************************************************************************)
NativeState(k, n, a, d) ==
  \/ PendingSince(k, n) /\ FrameInside(a, d)
  \/ n = natives[k].ipsp /\ a = natives[k].ip /\ d = natives[k].dsp + Code[a].p1
  \/ n > natives[k].ipsp /\ IsFunction(a) /\ FrameInside(a, d) /\ FrameFits(a, d)

\* An enterCall suspends the host's program, or what native k was about to go on with.
EntersFrom ==
  \A i \in 1 .. ipsp :
    Sentinel(i + 1) =>
      /\ ipStack[i].ip \in Address
      /\ (\A k \in 1 .. Len(natives) : i <= natives[k].ipsp) =>
           FrameInside(ipStack[i].ip, ipStack[i].dsp)
      /\ \A k \in 1 .. Len(natives) :
           natives[k].ipsp < i /\ i <= Above(k) =>
             NativeState(k, i - 1, ipStack[i].ip, ipStack[i].dsp)

Executing ==
  IF control = "native" THEN NativeState(Len(natives), ipsp, ip, dsp) ELSE FrameInside(ip, dsp)

IInv ==
  /\ TypeOK
  /\ EntryPairs
  /\ ResumesInside
  /\ NativesNested
  /\ EntersFrom
  /\ Executing

-----------------------------------------------------------------------------
\* The invariant holds of a processor as constructed.
THEOREM Initially == Init => IInv
<1> SUFFICES ASSUME Init PROVE IInv
  OBVIOUS
<1>1. 0 \in Address /\ IsFunction(0) /\ FrameInside(0, 0)
  <2>1. 0 \in Address BY CodeAssembled DEF CodeWellFormed, Address
  <2>2. IsFunction(0) BY <2>1, FunctionAtHeads DEF Heads
  <2> QED BY <2>1, <2>2, HostAssumption DEF FrameInside
<1>2. TypeOK BY <1>1, HostAssumption DEF Init, TypeOK
<1>3. EntryPairs BY DEF Init, EntryPairs, ipsp
<1>4. ResumesInside /\ EntersFrom BY DEF Init, ResumesInside, EntersFrom, ipsp
<1>5. NativesNested BY DEF Init, NativesNested
<1>6. Executing BY <1>1 DEF Init, Executing
<1> QED BY <1>2, <1>3, <1>4, <1>5, <1>6 DEF IInv

\* A step that leaves both stacks and control alone moves ip and dsp inside a frame.
LEMMA MovePreserves ==
  ASSUME IInv, control # "native", ipsp # 0 , ip' \in Address, dsp' \in Int, clock' \in Int,
         control' \in {"host", "native", "run"}, result' \in Statuses \cup {"none"},
         FrameInside(ip', dsp'), UNCHANGED <<ipStack, control, natives>>
  PROVE  IInv'
<1> USE DEF IInv
<1>1. TypeOK' BY DEF TypeOK, ipsp
<1>2. EntryPairs' BY DEF EntryPairs, ipsp, Sentinel
<1>3. ResumesInside' BY DEF ResumesInside, ipsp, Sentinel, Resumable
<1>4. NativesNested' BY DEF NativesNested, NativeNested, ipsp, Sentinel, Above, PendingSince
<1>5. EntersFrom'
  <2>1. ipsp' = ipsp /\ \A i : Sentinel(i)' <=> Sentinel(i) BY DEF ipsp, Sentinel
  <2>2. \A k, n : PendingSince(k, n)' <=> PendingSince(k, n) BY <2>1 DEF PendingSince
  <2>3. \A k : Above(k)' = Above(k) BY <2>1 DEF Above
  <2>4. \A k, n, a, d : NativeState(k, n, a, d)' <=> NativeState(k, n, a, d)
    BY <2>2 DEF NativeState
  <2> QED BY <2>1, <2>3, <2>4 DEF EntersFrom
<1>6. Executing' BY DEF Executing
<1> QED BY <1>1, <1>2, <1>3, <1>4, <1>5, <1>6

-----------------------------------------------------------------------------
(***************************************************************************)
(* Facts about the sequences.                                              *)
(***************************************************************************)
LEMMA AppendFacts ==
  ASSUME NEW S, NEW s \in Seq(S), NEW e \in S
  PROVE  /\ Append(s, e) \in Seq(S)
         /\ Len(Append(s, e)) = Len(s) + 1
         /\ \A i \in 1 .. Len(s) : Append(s, e)[i] = s[i]
         /\ Append(s, e)[Len(s) + 1] = e
OBVIOUS

\* What appending the two entries of an enterCall does to the ip stack.
LEMMA PairFacts ==
  ASSUME NEW S, NEW s \in Seq(S), NEW a \in S, NEW b \in S
  PROVE  /\ s \o <<a, b>> \in Seq(S)
         /\ Len(s \o <<a, b>>) = Len(s) + 2
         /\ \A i \in 1 .. Len(s) : (s \o <<a, b>>)[i] = s[i]
         /\ (s \o <<a, b>>)[Len(s) + 1] = a
         /\ (s \o <<a, b>>)[Len(s) + 2] = b
OBVIOUS

\* What cutting the ip stack back does.
LEMMA PrefixFacts ==
  ASSUME NEW S, NEW s \in Seq(S), NEW n \in 0 .. Len(s)
  PROVE  /\ SubSeq(s, 1, n) \in Seq(S)
         /\ Len(SubSeq(s, 1, n)) = n
         /\ \A i \in 1 .. n : SubSeq(s, 1, n)[i] = s[i]
OBVIOUS

\* What popping one entry or the last of the natives does.
LEMMA FrontFacts ==
  ASSUME NEW S, NEW s \in Seq(S), s # <<>>
  PROVE  /\ Front(s) \in Seq(S)
         /\ Len(Front(s)) = Len(s) - 1
         /\ \A i \in 1 .. Len(s) - 1 : Front(s)[i] = s[i]
         /\ Len(s) \in Nat \ {0}
         /\ Last(s) = s[Len(s)] /\ Last(s) \in S
<1>1. Len(s) \in Nat \ {0} BY EmptySeq
<1>2. Front(s) = SubSeq(s, 1, Len(s) - 1) BY DEF Front
<1>3. Len(s) - 1 \in 0 .. Len(s) BY <1>1
<1> DEFINE front == SubSeq(s, 1, Len(s) - 1)
<1>4. front \in Seq(S) /\ Len(front) = Len(s) - 1 /\ \A i \in 1 .. Len(s) - 1 : front[i] = s[i]
  BY <1>3, PrefixFacts
<1>5. Last(s) = s[Len(s)] /\ Last(s) \in S BY <1>1 DEF Last
<1> QED BY <1>1, <1>2, <1>4, <1>5

-----------------------------------------------------------------------------
(***************************************************************************)
(* The types of what the two stacks hold.                                  *)
(***************************************************************************)
LEMMA EntryTypes ==
  ASSUME TypeOK
  PROVE  /\ ipsp \in Nat
         /\ \A i \in 1 .. ipsp : ipStack[i].ip \in Int /\ ipStack[i].dsp \in Int
<1>1. ipsp \in Nat BY DEF TypeOK, ipsp
<1>2. \A i \in 1 .. ipsp : ipStack[i] \in Entry BY DEF TypeOK, ipsp
<1> QED BY <1>1, <1>2 DEF Entry

\* The record of a native in progress holds an address and two numbers.
LEMMA NativeTypes ==
  ASSUME TypeOK
  PROVE  /\ Len(natives) \in Nat
         /\ \A k \in 1 .. Len(natives) :
              /\ natives[k].ip \in Address /\ natives[k].dsp \in Int
              /\ natives[k].ipsp \in Nat /\ natives[k].clock \in Int
<1>1. Len(natives) \in Nat /\ \A k \in 1 .. Len(natives) : natives[k] \in Locals
  BY DEF TypeOK
<1> QED BY <1>1 DEF Locals

-----------------------------------------------------------------------------
(***************************************************************************)
(* What a change of the ip stack leaves of the invariant.                  *)
(***************************************************************************)

\* A call or a push adds one resumable entry.
LEMMA EntryAdded ==
  ASSUME IInv, ipsp # 0, NEW e \in Entry, e.dsp # NativeReturn,
         e.ip + 1 \in Address, FrameInside(e.ip + 1, e.dsp),
         ipsp' = ipsp + 1, \A i \in 1 .. ipsp : ipStack'[i] = ipStack[i], ipStack'[ipsp + 1] = e,
         UNCHANGED <<natives, control>>
  PROVE  EntryPairs' /\ ResumesInside' /\ NativesNested' /\ EntersFrom'
<1> USE DEF IInv
<1>1. ipsp \in Nat BY EntryTypes
<1>2. \A i \in Int : Sentinel(i)' <=> Sentinel(i)
  BY <1>1 DEF Sentinel
<1>3. EntryPairs'
  BY <1>1, <1>2 DEF EntryPairs, Sentinel
<1>4. ResumesInside'
  BY <1>1, <1>2 DEF ResumesInside, Resumable
<1>5. \A k \in 1 .. Len(natives) : natives[k].ipsp \in Nat
  BY NativeTypes
<1>6. \A k \in 1 .. Len(natives), n \in Int : PendingSince(k, n)' <=> PendingSince(k, n)
  BY <1>2, <1>5 DEF PendingSince
<1>7. NativesNested'
  <2> SUFFICES ASSUME NEW k \in 1 .. Len(natives) PROVE NativeNested(k)'
    BY DEF NativesNested
  <2>1. Above(k)' = Above(k) \/ (k = Len(natives) /\ Above(k) = ipsp /\ Above(k)' = ipsp + 1)
    BY <1>1 DEF Above
  <2>2. Above(k) \in Nat BY <1>1, <1>5 DEF Above
  <2>3. NativeNested(k) BY DEF NativesNested
  <2>4. ~Sentinel(natives[k].ipsp + 1)' BY <1>2, <1>5, <2>3 DEF NativeNested
  <2>5. PendingSince(k, Above(k)) => PendingSince(k, Above(k))'
    BY <1>1, <1>2, <1>5, <2>1, <2>2 DEF PendingSince
  <2> QED BY <1>1, <1>5, <2>1, <2>2, <2>3, <2>4, <2>5 DEF NativeNested
<1>8. EntersFrom'
  <2>1. \A k \in 1 .. Len(natives), n \in Int : \A a, d : NativeState(k, n, a, d)' <=> NativeState(k, n, a, d)
    BY <1>6 DEF NativeState
  <2>2. \A i \in 1 .. ipsp' : Sentinel(i + 1) => i \in 1 .. ipsp
    BY <1>1 DEF Sentinel
  <2>3. \A k \in 1 .. Len(natives), i \in 1 .. ipsp : i <= Above(k)' => i <= Above(k)
    BY <1>1 DEF Above
  <2> QED BY <1>1, <1>2, <2>1, <2>2, <2>3 DEF EntersFrom
<1> QED BY <1>3, <1>4, <1>7, <1>8

(***************************************************************************)
(* Going back to n entries leaves an intact stack, as long as it does not  *)
(* split a pair, leaves what every native still in progress was called     *)
(* with, and the native that ends, if one does, has no call pending.       *)
(***************************************************************************)
LEMMA EntriesDropped ==
  ASSUME IInv, NEW n \in 0 .. ipsp, n # 1, ~Sentinel(n + 1),
         ipsp' = n, \A i \in 1 .. n : ipStack'[i] = ipStack[i],
         Len(natives') \in {Len(natives), Len(natives) - 1}, Len(natives') >= 0,
         \A k \in 1 .. Len(natives') : natives'[k] = natives[k] /\ natives[k].ipsp <= n,
         Len(natives') < Len(natives) => ~PendingSince(Len(natives), n),
         n = 0 => control' = "host" /\ ip' = 0 /\ dsp' = 0,
         control' = "run" /\ Len(natives') # 0 => PendingSince(Len(natives'), n)
  PROVE  /\ EntryPairs' /\ ResumesInside' /\ NativesNested' /\ EntersFrom'
         /\ \A k \in 1 .. Len(natives'), m \in 0 .. n : PendingSince(k, m)' <=> PendingSince(k, m)
<1> USE DEF IInv
<1>1. ipsp \in Nat /\ Len(natives) \in Nat /\ \A k \in 1 .. Len(natives) : natives[k].ipsp \in Nat
  BY EntryTypes, NativeTypes
<1>2. \A i \in Int : i <= n => (Sentinel(i)' <=> Sentinel(i))
  BY <1>1 DEF Sentinel
<1>3. \A i \in Int : i > n => ~Sentinel(i)'
  BY DEF Sentinel
<1>4. \A i \in 1 .. ipsp' :
        Sentinel(i)' => i > 1 /\ ~Sentinel(i - 1)' /\ ipStack'[i].ip = ipStack'[i - 1].ip
  BY <1>1, <1>2 DEF EntryPairs
<1>5. ipsp' # 0 => ipsp' > 1 /\ Sentinel(2)' /\ ipStack'[1] = [ip |-> 0, dsp |-> 0]
  BY <1>1, <1>2 DEF EntryPairs
<1>6. \A i \in 1 .. n : Sentinel(i + 1)' <=> Sentinel(i + 1)
  BY <1>1, <1>2, <1>3
<1>7. ResumesInside'
  BY <1>1, <1>2, <1>6 DEF ResumesInside, Resumable
<1>8. \A k \in 1 .. Len(natives'), m \in 0 .. n : PendingSince(k, m)' <=> PendingSince(k, m)
  BY <1>1, <1>2 DEF PendingSince
<1>9. EntersFrom'
  <2> SUFFICES ASSUME NEW i \in 1 .. n, Sentinel(i + 1)
               PROVE  /\ ipStack[i].ip \in Address
                      /\ (\A k \in 1 .. Len(natives') : i <= natives[k].ipsp) =>
                           FrameInside(ipStack[i].ip, ipStack[i].dsp)
                      /\ \A k \in 1 .. Len(natives') :
                           natives[k].ipsp < i /\ i <= Above(k)' =>
                             NativeState(k, i - 1, ipStack[i].ip, ipStack[i].dsp)'
    BY <1>1, <1>6 DEF EntersFrom
  <2>1. i + 1 <= n BY <1>1, <1>3, <1>6
  <2>2. Len(natives') < Len(natives) => i <= natives[Len(natives)].ipsp
    BY <1>1, <2>1 DEF PendingSince
  <2>3. \A k \in 1 .. Len(natives') : i <= Above(k)' => i <= Above(k)
    BY <1>1, <2>2 DEF Above
  <2>4. \A k \in 1 .. Len(natives') : \A a, d :
          NativeState(k, i - 1, a, d) => NativeState(k, i - 1, a, d)'
    <3> SUFFICES ASSUME NEW k \in 1 .. Len(natives'), NEW a, NEW d, NativeState(k, i - 1, a, d)
                 PROVE  NativeState(k, i - 1, a, d)'
      OBVIOUS
    <3>1. i - 1 \in 0 .. n BY <1>1
    <3> QED BY <1>1, <1>8, <3>1 DEF NativeState
  <2>5. (\A k \in 1 .. Len(natives') : i <= natives[k].ipsp) =>
          \A k \in 1 .. Len(natives) : i <= natives[k].ipsp
    <3>1. \A k \in 1 .. Len(natives) :
            \/ k \in 1 .. Len(natives')
            \/ Len(natives') < Len(natives) /\ k = Len(natives)
      BY <1>1
    <3> QED BY <2>2, <3>1
  <2> QED BY <1>1, <2>3, <2>4, <2>5 DEF EntersFrom
<1>10. NativesNested'
  <2> SUFFICES ASSUME NEW k \in 1 .. Len(natives') PROVE NativeNested(k)'
    BY DEF NativesNested
  <2>1. k \in 1 .. Len(natives) /\ NativeNested(k) /\ natives'[k] = natives[k] /\ natives[k].ipsp <= n
    BY <1>1 DEF NativesNested
  <2>2. /\ k < Len(natives') => Above(k)' = Above(k) /\ Above(k) <= n /\ Above(k) \in Nat /\ k < Len(natives)
        /\ k = Len(natives') => Above(k)' = n
    BY <1>1 DEF Above
  <2>3. ~Sentinel(natives[k].ipsp + 1)'
    <3>1. natives'[k].ipsp + 1 \in Int /\ natives'[k].ipsp = natives[k].ipsp BY <1>1, <2>1
    <3>2. ~Sentinel(natives[k].ipsp + 1) BY <2>1 DEF NativeNested
    <3> QED BY <1>1, <1>2, <1>3, <3>1, <3>2
  <2>4. k < Len(natives') \/ control' = "run" => PendingSince(k, Above(k))'
    <3>1. CASE k < Len(natives')
      <4>1. PendingSince(k, Above(k)) BY <2>1, <2>2, <3>1 DEF NativeNested
      <4>2. \A m \in 0 .. n : m = Above(k) => PendingSince(k, m)' BY <1>8, <4>1
      <4> QED BY <2>2, <3>1, <4>2 DEF PendingSince
    <3>2. CASE k = Len(natives') /\ control' = "run"
      <4>1. PendingSince(k, n) BY <3>2
      <4>2. \A m \in 0 .. n : m = n => PendingSince(k, m)' BY <1>8, <4>1
      <4> QED BY <1>1, <2>2, <3>2, <4>2 DEF PendingSince
    <3> QED BY <1>1, <3>1, <3>2
  <2>5. Above(k)' <= ipsp' /\ natives[k].ipsp <= Above(k)' BY <1>1, <2>1, <2>2 DEF NativeNested
  <2> QED BY <2>1, <2>3, <2>4, <2>5 DEF NativeNested
<1>11. EntryPairs' BY <1>4, <1>5 DEF EntryPairs
<1> QED BY <1>7, <1>8, <1>9, <1>10, <1>11

-----------------------------------------------------------------------------
(***************************************************************************)
(* Each operation preserves the invariant.                                 *)
(***************************************************************************)
LEMMA EnterCallPreserves ==
  ASSUME IInv, NEW f \in Pointers, EnterCall(f)
  PROVE  IInv'
<1> USE DEF IInv
<1> DEFINE e1 == [ip |-> ip, dsp |-> dsp]
           e2 == [ip |-> ip, dsp |-> NativeReturn]
<1>1. /\ ip \in Address /\ ip \in Int /\ dsp \in Int /\ e1 \in Entry /\ e2 \in Entry
      /\ f \in 0 .. FunctionCount - 1
  BY CodeAssembled DEF CodeWellFormed, TypeOK, Entry, Address, NativeReturn, Pointers, EnterCall
<1> HIDE DEF e1, e2
<1>a. ipStack \in Seq(Entry) /\ ipStack' = ipStack \o <<e1, e2>> BY DEF TypeOK, EnterCall, e1, e2
<1>b. ipStack' \in Seq(Entry) BY <1>1, <1>a, PairFacts
<1>2. /\ ipsp' = ipsp + 2
      /\ \A i \in 1 .. ipsp : ipStack'[i] = ipStack[i]
      /\ ipStack'[ipsp + 1] = e1 /\ ipStack'[ipsp + 2] = e2
  BY <1>1, <1>a, PairFacts DEF ipsp
<1>3. /\ natives' = natives /\ control' = control /\ control # "run" /\ dsp' = dsp
      /\ ip' = FunctionTable[f] /\ UNCHANGED <<clock, result>> /\ ipsp + 2 <= IpStackSize
  BY DEF EnterCall
<1>4. /\ ipsp \in Nat /\ Len(natives) \in Nat
      /\ \A k \in 1 .. Len(natives) : /\ natives[k].ip \in Address /\ natives[k].ipsp \in Nat
                                     /\ natives[k].dsp \in Int
  BY EntryTypes, NativeTypes
<1>5. 0 <= dsp /\ dsp <= DataStackSize
  <2>1. CASE control = "host" BY <1>1, <2>1, FrameRange DEF Executing
  <2>2. CASE control = "native"
    <3> DEFINE k == Len(natives)
    <3>1. k \in 1 .. Len(natives) BY <1>4, <2>2, EmptySeq DEF TypeOK
    <3>2. NativeNested(k) BY <3>1 DEF NativesNested
    <3>3. CASE FrameInside(ip, dsp) BY <1>1, <3>3, FrameRange
    <3>4. CASE ip = natives[k].ip /\ dsp = natives[k].dsp + Code[ip].p1
      BY <1>4, <3>1, <3>2, <3>4, FrameWindow DEF NativeNested, Calls
    <3> QED BY <2>2, <3>3, <3>4 DEF Executing, NativeState
  <2> QED BY <1>3, <2>1, <2>2 DEF TypeOK
<1>6. ip' \in Address /\ FrameInside(ip', dsp')
  BY <1>1, <1>3, <1>5, FrameCallee
<1>7. \A i \in Int : Sentinel(i)' <=> Sentinel(i) \/ i = ipsp + 2
  <2>1. e1.dsp # NativeReturn /\ e2.dsp = NativeReturn BY <1>5 DEF NativeReturn, e1, e2
  <2> QED BY <1>2, <1>4, <2>1 DEF Sentinel
<1>8. TypeOK'
  BY <1>b, <1>2, <1>3, <1>6 DEF TypeOK, ipsp
<1>9. EntryPairs'
  <2>1. e1.ip = e2.ip BY DEF e1, e2
  <2>2. ipsp = 0 => e1 = [ip |-> 0, dsp |-> 0] BY DEF EntryPairs, e1
  <2> QED BY <1>2, <1>4, <1>7, <2>1, <2>2, SMTT(30) DEF EntryPairs, Sentinel
<1>10. ResumesInside'
  BY <1>2, <1>4, <1>7 DEF ResumesInside, Resumable, Sentinel
<1>11. \A k \in 1 .. Len(natives), m \in 0 .. ipsp + 1 : PendingSince(k, m)' <=> PendingSince(k, m)
  <2> SUFFICES ASSUME NEW k \in 1 .. Len(natives), NEW m \in 0 .. ipsp + 1
               PROVE  PendingSince(k, m)' <=> PendingSince(k, m)
    OBVIOUS
  <2>1. natives'[k] = natives[k] /\ natives[k].ipsp \in Nat BY <1>3, <1>4
  <2>2. \A i \in (natives[k].ipsp + 1) .. m : Sentinel(i)' <=> Sentinel(i) BY <1>4, <1>7, <2>1
  <2> QED BY <2>1, <2>2 DEF PendingSince
<1>12. NativesNested'
  <2> SUFFICES ASSUME NEW k \in 1 .. Len(natives) PROVE NativeNested(k)'
    BY <1>3 DEF NativesNested
  <2>1. NativeNested(k) BY DEF NativesNested
  <2>2. \/ k < Len(natives) /\ Above(k)' = Above(k)
        \/ k = Len(natives) /\ Above(k) = ipsp /\ Above(k)' = ipsp + 2
    BY <1>2, <1>3 DEF Above
  <2>3. Above(k) \in Nat BY <1>4 DEF Above
  <2>4. ~Sentinel(natives[k].ipsp + 1)'
    <3>1. natives[k].ipsp \in Nat /\ natives[k].ipsp <= ipsp /\ ~Sentinel(natives[k].ipsp + 1)
      BY <1>4, <2>1, <2>3 DEF NativeNested
    <3>2. natives'[k].ipsp + 1 = natives[k].ipsp + 1 BY <1>3
    <3> QED BY <1>4, <1>7, <3>1, <3>2
  <2>5. k < Len(natives) => PendingSince(k, Above(k))'
    BY <1>4, <1>11, <2>1, <2>2, <2>3 DEF NativeNested
  <2> QED BY <1>2, <1>3, <1>4, <2>1, <2>2, <2>3, <2>4, <2>5 DEF NativeNested
<1>13. EntersFrom'
  <2> SUFFICES ASSUME NEW i \in 1 .. ipsp', Sentinel(i + 1)'
               PROVE  /\ ipStack'[i].ip \in Address
                      /\ (\A k \in 1 .. Len(natives) : i <= natives[k].ipsp) =>
                           FrameInside(ipStack'[i].ip, ipStack'[i].dsp)
                      /\ \A k \in 1 .. Len(natives) :
                           natives[k].ipsp < i /\ i <= Above(k)' =>
                             NativeState(k, i - 1, ipStack[i].ip, ipStack[i].dsp)'
    BY <1>3 DEF EntersFrom
  <2>1. i <= ipsp \/ i = ipsp + 1 BY <1>2, <1>4 DEF Sentinel
  <2>2. \A k \in 1 .. Len(natives) : \A a, d :
          NativeState(k, i - 1, a, d) => NativeState(k, i - 1, a, d)'
    <3> SUFFICES ASSUME NEW k \in 1 .. Len(natives), NEW a, NEW d
                 PROVE  NativeState(k, i - 1, a, d) => NativeState(k, i - 1, a, d)'
      OBVIOUS
    <3>1. i - 1 \in 0 .. ipsp + 1 BY <1>4, <2>1
    <3>2. PendingSince(k, i - 1) => PendingSince(k, i - 1)'
      BY <1>3, <1>4, <1>11, <3>1
    <3>3. natives'[k] = natives[k] BY <1>3
    <3> QED BY <3>2, <3>3 DEF NativeState
  <2>3. \A k \in 1 .. Len(natives) : i <= Above(k)' => k = Len(natives) \/ i <= Above(k)
    BY <1>3 DEF Above
  <2>4. CASE i <= ipsp
    <3>1. Sentinel(i + 1) /\ ipStack'[i] = ipStack[i] BY <1>2, <1>4, <1>7, <2>4
    <3>2. \A k \in 1 .. Len(natives) : i <= Above(k)' => i <= Above(k)
      BY <1>4, <2>3, <2>4 DEF Above
    <3>3. /\ ipStack[i].ip \in Address
          /\ (\A k \in 1 .. Len(natives) : i <= natives[k].ipsp) => FrameInside(ipStack[i].ip, ipStack[i].dsp)
          /\ \A k \in 1 .. Len(natives) :
               natives[k].ipsp < i /\ i <= Above(k) => NativeState(k, i - 1, ipStack[i].ip, ipStack[i].dsp)
      BY <1>4, <2>4, <3>1 DEF EntersFrom
    <3>4. ASSUME NEW k \in 1 .. Len(natives), natives[k].ipsp < i, i <= Above(k)'
          PROVE  NativeState(k, i - 1, ipStack[i].ip, ipStack[i].dsp)'
      <4>1. PICK a, d : a = ipStack[i].ip /\ d = ipStack[i].dsp OBVIOUS
      <4>2. NativeState(k, i - 1, a, d)' BY <2>2, <3>2, <3>3, <3>4, <4>1
      <4> QED BY <3>1, <4>1, <4>2 DEF NativeState
    <3> QED BY <3>1, <3>3, <3>4
  <2>5. CASE i = ipsp + 1
    <3>1. ipStack'[i].ip = ip /\ ipStack'[i].dsp = dsp BY <1>2, <2>5 DEF e1
    <3>2. (\A k \in 1 .. Len(natives) : i <= natives[k].ipsp) => FrameInside(ip, dsp)
      <4>1. \A k \in 1 .. Len(natives) : natives[k].ipsp <= ipsp
        <5>1. \A k \in 1 .. Len(natives) : natives[k].ipsp <= Above(k) /\ Above(k) <= ipsp
          BY DEF NativesNested, NativeNested
        <5>2. \A k \in 1 .. Len(natives) : Above(k) \in Nat BY <1>4 DEF Above
        <5> QED BY <1>4, <5>1, <5>2
      <4>2. (\A k \in 1 .. Len(natives) : i <= natives[k].ipsp) => Len(natives) = 0
        BY <1>4, <2>5, <4>1
      <4>3. Len(natives) = 0 => control = "host" BY <1>3, EmptySeq DEF TypeOK
      <4> QED BY <4>2, <4>3 DEF Executing
    <3>3. \A k \in 1 .. Len(natives) :
            natives[k].ipsp < i /\ i <= Above(k)' => NativeState(k, ipsp, ip, dsp)
      <4>1. \A k \in 1 .. Len(natives) : i <= Above(k)' => k = Len(natives)
        BY <1>2, <1>3, <1>4, <2>5 DEF NativesNested, NativeNested, Above
      <4>2. Len(natives) # 0 => control = "native" BY <1>3 DEF TypeOK
      <4> QED BY <4>1, <4>2 DEF Executing
    <3>4. ASSUME NEW k \in 1 .. Len(natives), natives[k].ipsp < i, i <= Above(k)'
          PROVE  NativeState(k, i - 1, ipStack[i].ip, ipStack[i].dsp)'
      <4>1. PICK a, d : a = ip /\ d = dsp OBVIOUS
      <4>2. NativeState(k, i - 1, a, d) BY <1>4, <2>5, <3>3, <3>4, <4>1
      <4>3. NativeState(k, i - 1, a, d)' BY <2>2, <4>2
      <4> QED BY <3>1, <4>1, <4>3 DEF NativeState
    <3>5. ip \in Address BY DEF TypeOK
    <3> QED BY <3>1, <3>2, <3>4, <3>5
  <2> QED BY <2>1, <2>4, <2>5
<1>14. Executing'
  <2>1. CASE control = "host" BY <1>3, <1>6, <2>1 DEF Executing
  <2>2. CASE control = "native"
    <3> DEFINE k == Len(natives)
    <3>1. k \in 1 .. Len(natives) BY <1>4, <2>2, EmptySeq DEF TypeOK
    <3>2. natives[k].ipsp <= ipsp BY <3>1 DEF NativesNested, NativeNested, Above
    <3>3. PendingSince(k, ipsp)' BY <1>2, <1>3, <1>4, <1>7, <3>1, <3>2 DEF PendingSince
    <3> QED BY <1>2, <1>3, <1>6, <2>2, <3>3 DEF Executing, NativeState
  <2> QED BY <1>3, <2>1, <2>2 DEF TypeOK
<1> QED BY <1>8, <1>9, <1>10, <1>12, <1>13, <1>14

\* What is true while run() executes: an entered call is pending above every native.
LEMMA RunPending ==
  ASSUME IInv, control = "run"
  PROVE  /\ ipsp \in Nat /\ ipsp > 1
         /\ Len(natives) \in Nat
         /\ \A k \in 1 .. Len(natives) : PendingSince(k, Above(k))
         /\ natives # <<>> => Len(natives) \in 1 .. Len(natives) /\ PendingSince(Len(natives), ipsp)
<1> USE DEF IInv
<1>1. ipsp \in Nat /\ Len(natives) \in Nat BY EntryTypes, NativeTypes
<1>2. ipsp > 1 BY DEF EntryPairs
<1>3. \A k \in 1 .. Len(natives) : PendingSince(k, Above(k)) BY DEF NativesNested, NativeNested
<1>4. natives # <<>> => Len(natives) \in 1 .. Len(natives) BY <1>1, EmptySeq DEF TypeOK
<1> QED BY <1>1, <1>2, <1>3, <1>4 DEF Above

\* What is true while a native executes.
LEMMA NativeRunning ==
  ASSUME IInv, control = "native"
  PROVE  /\ Len(natives) \in 1 .. Len(natives)
         /\ natives # <<>> /\ natives \in Seq(Locals)
         /\ caller = natives[Len(natives)]
         /\ NativeNested(Len(natives))
         /\ Above(Len(natives)) = ipsp
         /\ NativeState(Len(natives), ipsp, ip, dsp)
         /\ CallPending <=> PendingSince(Len(natives), ipsp)
<1> USE DEF IInv
<1>1. natives # <<>> /\ natives \in Seq(Locals) BY DEF TypeOK
<1>2. Len(natives) \in 1 .. Len(natives) BY <1>1, EmptySeq, NativeTypes
<1>3. caller = natives[Len(natives)] BY DEF caller, Last
<1>4. NativeNested(Len(natives)) BY <1>2 DEF NativesNested
<1>5. Above(Len(natives)) = ipsp BY DEF Above
<1>6. NativeState(Len(natives), ipsp, ip, dsp) BY DEF Executing
<1>7. CallPending <=> PendingSince(Len(natives), ipsp)
  <2>1. natives[Len(natives)].ipsp \in Nat /\ ipsp \in Nat BY <1>2, NativeTypes, EntryTypes
  <2> QED BY <1>3, <2>1 DEF CallPending, PendingSince, Sentinel
<1> QED BY <1>1, <1>2, <1>3, <1>4, <1>5, <1>6, <1>7

\* A step that leaves both stacks alone: a run() that starts or stops, for one.
LEMMA StacksKept ==
  ASSUME IInv, UNCHANGED <<ipStack, natives>>, TypeOK', Executing', ipsp # 0 \/ control' = "host",
         ipsp = 0 => ip' = 0 /\ dsp' = 0,
         control' = "run" => control = "run" \/ natives = <<>> \/ PendingSince(Len(natives), ipsp)
  PROVE  IInv'
<1> USE DEF IInv
<1>1. ipsp' = ipsp /\ natives' = natives /\ \A i : Sentinel(i)' <=> Sentinel(i)
  BY DEF ipsp, Sentinel
<1>2. \A k, n : PendingSince(k, n)' <=> PendingSince(k, n) BY <1>1 DEF PendingSince
<1>3. \A k : Above(k)' = Above(k) BY <1>1 DEF Above
<1>4. EntryPairs' BY <1>1 DEF EntryPairs
<1>5. ResumesInside' BY <1>1 DEF ResumesInside, Resumable
<1>6. NativesNested'
  <2> SUFFICES ASSUME NEW k \in 1 .. Len(natives) PROVE NativeNested(k)'
    BY DEF NativesNested
  <2>1. NativeNested(k) BY DEF NativesNested
  <2>2. natives # <<>> BY EmptySeq DEF TypeOK
  <2>3. k < Len(natives) \/ control' = "run" => PendingSince(k, Above(k))
    <3>1. k < Len(natives) \/ k = Len(natives) BY NativeTypes
    <3> QED BY <2>1, <2>2, <3>1 DEF NativeNested, Above
  <2>4. PendingSince(k, Above(k))' <=> PendingSince(k, Above(k)) BY <1>1, <1>3 DEF PendingSince
  <2> QED BY <1>1, <1>3, <2>1, <2>3, <2>4 DEF NativeNested
<1>7. EntersFrom'
  <2>1. \A k, n, a, d : NativeState(k, n, a, d)' <=> NativeState(k, n, a, d)
    BY <1>1, <1>2 DEF NativeState
  <2> QED BY <1>1, <1>3, <2>1 DEF EntersFrom
<1> QED BY <1>4, <1>5, <1>6, <1>7

\* TIME_OUT, and every error that an instruction fails with, stop run() where it is.
LEMMA StopPreserves ==
  ASSUME IInv, control = "run", NEW status \in Statuses, Return(status),
         clock' \in Int, UNCHANGED <<ip, dsp, ipStack>>
  PROVE  IInv'
<1> USE DEF IInv
<1>1. ipsp > 1 /\ (natives # <<>> => PendingSince(Len(natives), ipsp)) BY RunPending
<1>2. /\ UNCHANGED natives /\ result' \in Statuses
      /\ control' = IF natives = <<>> THEN "host" ELSE "native"
  BY DEF Return
<1>3. TypeOK' BY <1>2 DEF TypeOK, ipsp
<1>4. Executing'
  <2>1. FrameInside(ip, dsp) BY DEF Executing
  <2>2. natives # <<>> => PendingSince(Len(natives), ipsp)'
    BY <1>1, <1>2 DEF PendingSince, Sentinel, ipsp
  <2> QED BY <1>2, <2>1, <2>2 DEF Executing, NativeState
<1> QED BY <1>1, <1>2, <1>3, <1>4, StacksKept

\* A new budget moves no frame.
LEMMA ResetTimeOutPreserves ==
  ASSUME IInv, NEW n \in Budgets \cup NativeBudgets, ResetTimeOut(n)
  PROVE  IInv'
<1> USE DEF IInv
<1>1. n \in Int /\ clock' = n BY HostAssumption DEF ResetTimeOut
<1>2. UNCHANGED <<ip, dsp, ipStack, control, natives, result>> BY DEF ResetTimeOut
<1>3. TypeOK' BY <1>1, <1>2 DEF TypeOK, ipsp
<1>4. Executing'
  BY <1>2 DEF Executing, NativeState, PendingSince, Sentinel, ipsp
<1>5. control # "run" BY DEF ResetTimeOut
<1> QED BY <1>2, <1>3, <1>4, <1>5, StacksKept DEF EntryPairs

\* run() starts where a call was entered or stopped.
LEMMA RunPreserves ==
  ASSUME IInv, Run
  PROVE  IInv'
<1> USE DEF IInv
<1>1. UNCHANGED <<ip, dsp, clock, ipStack, natives>> /\ control' = "run" /\ result' = "none"
  BY DEF Run, machine
<1>2. TypeOK' BY <1>1 DEF TypeOK, ipsp
<1>3. CASE control = "host"
  <2>1. ipsp # 0 /\ natives = <<>> BY <1>3, EntryTypes DEF Run, TypeOK
  <2>2. Executing' BY <1>1, <1>3 DEF Executing
  <2> QED BY <1>1, <1>2, <2>1, <2>2, StacksKept
<1>4. CASE control = "native"
  <2> DEFINE k == Len(natives)
  <2>1. PendingSince(k, ipsp) /\ NativeState(k, ipsp, ip, dsp) /\ k \in 1 .. k /\ NativeNested(k)
    BY <1>4, NativeRunning DEF Run
  <2>2. ipsp \in Nat /\ natives[k].ipsp \in Nat BY <2>1, EntryTypes, NativeTypes
  <2>3. ipsp # 0 BY <2>1, <2>2 DEF PendingSince, Sentinel
  <2>4. Executing'
    <3>1. ipsp # natives[k].ipsp BY <2>1, <2>2 DEF PendingSince
    <3>2. FrameInside(ip, dsp) BY <2>1, <3>1 DEF NativeState
    <3> QED BY <1>1, <3>2 DEF Executing
  <2> QED BY <1>1, <1>2, <2>1, <2>3, <2>4, StacksKept
<1> QED BY <1>3, <1>4 DEF Run

\* FUNC allocates the frame it has checked.
LEMMA FuncPreserves ==
  ASSUME IInv, Func
  PROVE  IInv'
<1> USE DEF IInv
<1>1. /\ control = "run" /\ IsFunction(ip) /\ clock' = clock - 1 /\ clock' \in Int
      /\ ip \in Address /\ dsp \in Int /\ FrameInside(ip, dsp)
  BY DEF Func, Execute, IsFunction, TypeOK, Executing
<1>2. CASE FrameFits(ip, dsp) /\ dsp' = dsp + Code[ip].p0 /\ ip' = ip + 1 /\ Continue /\ UNCHANGED ipStack
  <2>1. ip' \in Address /\ FrameInside(ip', dsp') BY <1>1, <1>2, FrameFunc
  <2>2. dsp' \in Int BY <1>1, <1>2, CodeTypes
  <2>3. control' = "run" /\ UNCHANGED <<ipStack, control, natives>> /\ result' \in Statuses \cup {"none"}
    BY <1>1, <1>2 DEF Continue, TypeOK
  <2> QED BY <1>1, <2>1, <2>2, <2>3, RunPending, MovePreserves
<1>3. CASE Fail("DATA_STACK_OVERFLOW")
  BY <1>1, <1>3, StopPreserves DEF Fail, Statuses
<1> QED BY <1>2, <1>3 DEF Func

\* An instruction that moves data stays in its frame, or stops on itself.
LEMMA DataPreserves ==
  ASSUME IInv, Data
  PROVE  IInv'
<1> USE DEF IInv
<1>1. /\ control = "run" /\ Code[ip].op = "DATA" /\ clock' = clock - 1 /\ clock' \in Int
      /\ ip \in Address /\ dsp \in Int /\ FrameInside(ip, dsp)
  BY DEF Data, Execute, TypeOK, Executing
<1>2. CASE ip' = ip + 1 /\ Continue /\ UNCHANGED <<dsp, ipStack>>
  <2>1. ip' \in Address /\ FrameInside(ip', dsp') BY <1>1, <1>2, FrameNext
  <2>2. UNCHANGED <<ipStack, control, natives>> /\ result' \in Statuses \cup {"none"}
    BY <1>2 DEF Continue, TypeOK
  <2> QED BY <1>1, <1>2, <2>1, <2>2, RunPending, MovePreserves
<1>3. CASE \E status \in Code[ip].errors : Fail(status)
  <2>1. Code[ip].errors \subseteq Statuses BY <1>1, CodeAssembled DEF CodeWellFormed, Instruction
  <2> QED BY <1>1, <1>3, <2>1, StopPreserves DEF Fail
<1> QED BY <1>2, <1>3 DEF Data

\* A jump stays in its function and its frame.
LEMMA JumpPreserves ==
  ASSUME IInv, Jump
  PROVE  IInv'
<1> USE DEF IInv
<1>1. /\ control = "run" /\ Code[ip].op \in {"BRANCH", "GOTO", "SWCH"}
      /\ clock' = clock - 1 /\ clock' \in Int
      /\ ip \in Address /\ dsp \in Int /\ FrameInside(ip, dsp)
      /\ UNCHANGED <<dsp, ipStack, control, natives, result>>
  BY DEF Jump, Execute, TypeOK, Executing, Continue
<1>2. ip' \in Address /\ FrameInside(ip', dsp')
  <2>1. CASE \E j \in Code[ip].jumps : ip' = ip + j
    <3>1. ~IsFunction(ip) BY <1>1 DEF IsFunction
    <3> QED BY <1>1, <2>1, <3>1, FrameJump
  <2>2. CASE Code[ip].op = "BRANCH" /\ ip' = ip + 1
    BY <1>1, <2>2, FrameNext
  <2> QED BY <2>1, <2>2 DEF Jump, Execute
<1>3. result' \in Statuses \cup {"none"} BY <1>1 DEF TypeOK
<1> QED BY <1>1, <1>2, <1>3, RunPending, MovePreserves

\* What a call and a push have in common: a resumable entry, and a function about to start.
LEMMA CalleePreserves ==
  ASSUME IInv, ipsp # 0, NEW f \in 0 .. FunctionCount - 1, NEW e \in Entry,
         e.dsp # NativeReturn, e.ip + 1 \in Address, FrameInside(e.ip + 1, e.dsp),
         ipsp < IpStackSize, ipStack' = Append(ipStack, e), ip' = FunctionTable[f],
         dsp' \in Int, 0 <= dsp', dsp' <= DataStackSize, clock' \in Int,
         control \in {"run", "native"}, UNCHANGED <<natives, control, result>>,
         control = "native" => FrameFits(FunctionTable[f], dsp')
  PROVE  IInv'
<1> USE DEF IInv
<1>1. ipStack \in Seq(Entry) BY DEF TypeOK
<1>2. /\ ipStack' \in Seq(Entry)
      /\ ipsp' = ipsp + 1
      /\ \A i \in 1 .. ipsp : ipStack'[i] = ipStack[i]
      /\ ipStack'[ipsp + 1] = e
  BY <1>1, AppendFacts DEF ipsp
<1>3. ipsp \in Nat BY EntryTypes
<1>4. ip' \in Address /\ IsFunction(ip') /\ FrameInside(ip', dsp') BY FrameCallee
<1>5. TypeOK' BY <1>2, <1>3, <1>4, HostAssumption DEF TypeOK, ipsp
<1>6. EntryPairs' /\ ResumesInside' /\ NativesNested' /\ EntersFrom'
  BY <1>2, EntryAdded
<1>7. Executing'
  <2>1. CASE control = "run" BY <1>4, <2>1 DEF Executing
  <2>2. CASE control = "native"
    <3> DEFINE k == Len(natives)
    <3>1. k \in 1 .. k /\ NativeNested(k) /\ Above(k) = ipsp BY <2>2, NativeRunning
    <3>2. natives[k].ipsp \in Nat /\ natives[k].ipsp <= ipsp BY <3>1, NativeTypes DEF NativeNested
    <3>3. ipsp' > natives[k].ipsp BY <1>2, <1>3, <3>2
    <3>4. FrameFits(ip', dsp') BY <2>2
    <3>5. FrameFits(ip, dsp)' BY <3>4 DEF FrameFits
    <3> QED BY <1>4, <2>2, <3>3, <3>5 DEF Executing, NativeState
  <2> QED BY <2>1, <2>2
<1> QED BY <1>5, <1>6, <1>7

\* A call leaves its caller an entry that resumes after it.
LEMMA CallPreserves ==
  ASSUME IInv, NEW f \in Pointers, Call(f)
  PROVE  IInv'
<1> USE DEF IInv
<1>1. /\ control = "run" /\ Code[ip].op \in {"CALL_CVC", "CALL_VVC"}
      /\ clock' = clock - 1 /\ clock' \in Int
      /\ ip \in Address /\ dsp \in Int /\ FrameInside(ip, dsp)
  BY DEF Call, Execute, TypeOK, Executing
<1>2. CASE \E status \in Statuses : Fail(status)
  BY <1>1, <1>2, StopPreserves DEF Fail
<1>3. CASE /\ f < FunctionCount /\ ipsp < IpStackSize
           /\ ipStack' = Append(ipStack, [ip |-> ip, dsp |-> dsp])
           /\ dsp' = dsp + Code[ip].p1
           /\ ip' = FunctionTable[f]
           /\ Continue
  <2> DEFINE e == [ip |-> ip, dsp |-> dsp]
  <2>1. f \in 0 .. FunctionCount - 1 BY <1>3, CodeAssembled DEF CodeWellFormed, Pointers
  <2>2. Code[ip].op \in Calls BY <1>1 DEF Calls
  <2>3. 0 <= dsp' /\ dsp' <= DataStackSize BY <1>1, <1>3, <2>2, FrameWindow
  <2>4. dsp' \in Int BY <1>1, <1>3, CodeTypes
  <2>5. ip + 1 \in Address /\ FrameInside(ip + 1, dsp) BY <1>1, <2>2, FrameNext
  <2>6. 0 <= dsp BY <1>1, FrameRange
  <2>7. ip \in Int BY <1>1 DEF Address
  <2>8. e \in Entry /\ e.dsp # NativeReturn /\ e.ip + 1 \in Address /\ FrameInside(e.ip + 1, e.dsp)
    BY <1>1, <2>5, <2>6, <2>7 DEF Entry, NativeReturn
  <2>9. UNCHANGED <<natives, control, result>> BY <1>3 DEF Continue
  <2>10. ipStack' = Append(ipStack, e) BY <1>3
  <2> HIDE DEF e
  <2> QED BY <1>1, <1>3, <2>1, <2>3, <2>4, <2>8, <2>9, <2>10, RunPending, CalleePreserves
<1> QED BY <1>2, <1>3 DEF Call, Statuses

\* A push leaves an entry that resumes the native's caller, or the function pushed before.
LEMMA PushCallPreserves ==
  ASSUME IInv, NEW f \in Pointers, PushCall(f)
  PROVE  IInv'
<1> USE DEF IInv
<1> DEFINE k == Len(natives)
           e == IF AtNativeCall THEN [ip |-> ip, dsp |-> dsp - Code[ip].p1]
                                ELSE [ip |-> ip - 1, dsp |-> dsp]
<1>1. /\ control = "native" /\ ~PendingSince(k, ipsp) /\ PushAccepted(f)
      /\ NativeState(k, ipsp, ip, dsp) /\ NativeNested(k) /\ k \in 1 .. k /\ Above(k) = ipsp
  BY NativeRunning DEF PushCall
<1>2. /\ ip \in Address /\ ip \in Int /\ dsp \in Int /\ ipsp \in Nat /\ clock' \in Int
      /\ natives[k].ip \in Address /\ natives[k].dsp \in Int /\ natives[k].ipsp \in Nat
  BY <1>1, EntryTypes, NativeTypes DEF TypeOK, PushCall, Address
<1>3. f \in 0 .. FunctionCount - 1 BY <1>1, CodeAssembled DEF CodeWellFormed, Pointers, PushAccepted
<1>4. e \in Entry /\ e.dsp # NativeReturn /\ e.ip + 1 \in Address /\ FrameInside(e.ip + 1, e.dsp)
  <2>1. CASE AtNativeCall
    <3>1. ~IsFunction(ip) BY <2>1 DEF AtNativeCall, IsFunction
    <3>2. ip = natives[k].ip /\ dsp = natives[k].dsp + Code[ip].p1
      BY <1>1, <3>1 DEF NativeState
    <3>3. dsp - Code[ip].p1 = natives[k].dsp BY <1>2, <3>2, CodeTypes
    <3>4. FrameInside(ip, natives[k].dsp) BY <1>1, <3>2 DEF NativeNested
    <3>5. Code[ip].op \in Calls BY <2>1 DEF AtNativeCall, Calls
    <3>6. ip + 1 \in Address /\ FrameInside(ip + 1, natives[k].dsp)
      BY <1>2, <3>4, <3>5, FrameNext
    <3>7. 0 <= natives[k].dsp BY <1>2, <3>4, FrameRange
    <3>8. e = [ip |-> ip, dsp |-> natives[k].dsp] BY <2>1, <3>3
    <3> QED BY <1>2, <3>6, <3>7, <3>8 DEF Entry, NativeReturn
  <2>2. CASE ~AtNativeCall
    <3>1. IsFunction(ip) BY <1>1, <2>2 DEF PushAccepted, ChainedPush
    <3>2. ip # natives[k].ip BY <1>1, <3>1 DEF NativeNested, IsFunction
    <3>3. FrameInside(ip, dsp) BY <1>1, <3>2 DEF NativeState
    <3>4. 0 <= dsp BY <1>2, <3>3, FrameRange
    <3>5. e = [ip |-> ip - 1, dsp |-> dsp] /\ ip - 1 \in Int /\ ip - 1 + 1 = ip BY <1>2, <2>2
    <3> QED BY <1>2, <3>3, <3>4, <3>5 DEF Entry, NativeReturn
  <2> QED BY <2>1, <2>2
<1>5. ipStack' = Append(ipStack, e) /\ ip' = FunctionTable[f]
  BY DEF PushCall
<1>6. UNCHANGED <<dsp, natives, control, result>> BY DEF PushCall
<1>7. 0 <= dsp /\ dsp <= DataStackSize
  <2>1. CASE FrameInside(ip, dsp) BY <1>2, <2>1, FrameRange
  <2>2. CASE ip = natives[k].ip /\ dsp = natives[k].dsp + Code[ip].p1
    BY <1>1, <1>2, <2>2, FrameWindow DEF NativeNested, Calls
  <2> QED BY <1>1, <2>1, <2>2 DEF NativeState
<1>8. ipsp # 0 /\ ipsp < IpStackSize BY <1>1 DEF PushAccepted, AtNativeCall, ChainedPush
<1>9. FrameFits(FunctionTable[f], dsp') BY <1>1, <1>6 DEF PushAccepted
<1> HIDE DEF e
<1> QED BY <1>1, <1>2, <1>3, <1>4, <1>5, <1>6, <1>7, <1>8, <1>9, CalleePreserves

\* A native starts with the entries and the window of its call.
LEMMA CallNativePreserves ==
  ASSUME IInv, CallNative
  PROVE  IInv'
<1> USE DEF IInv
<1> DEFINE new == [ip |-> ip, dsp |-> dsp, ipsp |-> ipsp, clock |-> clock - 1]
           m == Len(natives) + 1
<1>1. /\ control = "run" /\ Code[ip].op = "CALL_NVC" /\ clock' = clock - 1 /\ clock' \in Int
      /\ ip \in Address /\ dsp \in Int /\ FrameInside(ip, dsp)
      /\ control' = "native" /\ result' = "none" /\ UNCHANGED <<ip, ipStack>>
      /\ dsp' = dsp + Code[ip].p1 /\ dsp' \in Int
  BY CodeTypes DEF CallNative, Execute, TypeOK, Executing
<1>2. /\ ipsp \in Nat /\ ipsp > 1 /\ Len(natives) \in Nat
      /\ \A k \in 1 .. Len(natives) : PendingSince(k, Above(k))
      /\ \A k \in 1 .. Len(natives) : natives[k].ipsp \in Nat
  BY <1>1, RunPending, NativeTypes
<1>3. natives \in Seq(Locals) /\ new \in Locals /\ natives' = Append(natives, new)
  BY <1>1, <1>2 DEF TypeOK, Locals, CallNative
<1>4. /\ natives' \in Seq(Locals) /\ Len(natives') = m
      /\ \A k \in 1 .. Len(natives) : natives'[k] = natives[k]
      /\ natives'[m] = new
  BY <1>3, AppendFacts
<1>5. new.ip = ip /\ new.dsp = dsp /\ new.ipsp = ipsp
  OBVIOUS
<1> HIDE DEF new
<1>6. ipsp' = ipsp /\ \A i \in Int : Sentinel(i)' <=> Sentinel(i)
  BY <1>1 DEF ipsp, Sentinel
<1>7. TypeOK'
  <2>1. natives' # <<>> BY <1>2, <1>4, EmptySeq
  <2>2. UNCHANGED <<ip, ipStack>> /\ control' = "native" /\ result' = "none" BY <1>1
  <2> QED BY <1>1, <1>4, <2>1, <2>2 DEF TypeOK, ipsp
<1>8. EntryPairs' BY <1>1, <1>2, <1>6 DEF EntryPairs
<1>9. ResumesInside' BY <1>1, <1>2, <1>6 DEF ResumesInside, Resumable
<1>10. \A k \in 1 .. Len(natives) : Above(k)' = Above(k)
  BY <1>2, <1>4, <1>5 DEF Above
<1>11. \A k \in 1 .. Len(natives) : \A n : PendingSince(k, n)' <=> PendingSince(k, n)
  BY <1>2, <1>4, <1>6 DEF PendingSince
<1>12. NativesNested'
  <2> SUFFICES ASSUME NEW k \in 1 .. m PROVE NativeNested(k)'
    BY <1>4 DEF NativesNested
  <2>1. CASE k = m
    <3>1. Above(k)' = ipsp BY <1>4, <1>6, <2>1 DEF Above
    <3>2. natives'[k].ip = ip /\ natives'[k].dsp = dsp /\ natives'[k].ipsp = ipsp
      BY <1>4, <1>5, <2>1
    <3>3. ~Sentinel(natives[k].ipsp + 1)'
      BY <1>2, <1>6, <3>2 DEF Sentinel
    <3>4. ~(k < Len(natives')) /\ control' # "run" BY <1>1, <1>2, <1>4, <2>1
    <3>5. Code[natives'[k].ip].op = "CALL_NVC" /\ FrameInside(natives'[k].ip, natives'[k].dsp)
      BY <1>1, <3>2
    <3>6. \A j \in 1 .. k : natives'[j].ipsp <= ipsp
      <4>1. \A j \in 1 .. Len(natives) : natives[j].ipsp <= Above(j) /\ Above(j) <= ipsp
        BY DEF NativesNested, NativeNested
      <4>2. \A j \in 1 .. Len(natives) : Above(j) \in Nat BY <1>2 DEF Above
      <4>3. \A j \in 1 .. Len(natives) : natives'[j].ipsp <= ipsp BY <1>2, <1>4, <4>1, <4>2
      <4> QED BY <1>2, <2>1, <3>2, <4>3
    <3> QED BY <1>2, <1>6, <3>1, <3>2, <3>3, <3>4, <3>5, <3>6 DEF NativeNested
  <2>2. CASE k \in 1 .. Len(natives)
    <3>1. NativeNested(k) /\ Above(k)' = Above(k) /\ natives'[k] = natives[k]
      BY <1>4, <1>10, <2>2 DEF NativesNested
    <3>2. Above(k) \in Int BY <1>2, <2>2 DEF Above
    <3>3. PendingSince(k, Above(k))'
      BY <1>2, <1>4, <1>6, <2>2, <3>1, <3>2 DEF PendingSince
    <3>4. ~Sentinel(natives[k].ipsp + 1)'
      BY <1>2, <1>6, <2>2, <3>1 DEF NativeNested
    <3>5. \A j \in 1 .. k : natives'[j].ipsp <= natives'[k].ipsp
      BY <1>2, <1>4, <2>2, <3>1 DEF NativeNested
    <3> QED BY <1>6, <3>1, <3>3, <3>4, <3>5 DEF NativeNested
  <2> QED BY <1>2, <2>1, <2>2
<1>13. EntersFrom'
  <2> SUFFICES ASSUME NEW i \in 1 .. ipsp, Sentinel(i + 1)
               PROVE  /\ ipStack[i].ip \in Address
                      /\ (\A k \in 1 .. m : i <= natives'[k].ipsp) =>
                           FrameInside(ipStack[i].ip, ipStack[i].dsp)
                      /\ \A k \in 1 .. m :
                           natives'[k].ipsp < i /\ i <= Above(k)' =>
                             NativeState(k, i - 1, ipStack[i].ip, ipStack[i].dsp)'
    BY <1>1, <1>4, <1>6 DEF EntersFrom
  <2>1. \A k \in 1 .. Len(natives) : \A n, a, d : NativeState(k, n, a, d)' <=> NativeState(k, n, a, d)
    BY <1>4, <1>11 DEF NativeState
  <2>2. ~(natives'[m].ipsp < i) BY <1>2, <1>4, <1>5
  <2>3. \A k \in 1 .. m : k = m \/ k \in 1 .. Len(natives) BY <1>2
  <2>4. (\A k \in 1 .. m : i <= natives'[k].ipsp) => \A k \in 1 .. Len(natives) : i <= natives[k].ipsp
    BY <1>2, <1>4
  <2>5. m \in 1 .. m BY <1>2
  <2>6. \A k \in 1 .. m : natives'[k].ipsp < i /\ i <= Above(k)' =>
          k \in 1 .. Len(natives) /\ natives[k].ipsp < i /\ i <= Above(k)
    BY <1>4, <1>10, <2>2, <2>3
  <2>7. ipStack' = ipStack BY <1>1
  <2> QED BY <2>1, <2>4, <2>6, <2>7 DEF EntersFrom
<1>14. Executing'
  <2>1. natives'[m].ip = ip /\ natives'[m].dsp = dsp /\ natives'[m].ipsp = ipsp BY <1>4, <1>5
  <2>2. NativeState(Len(natives), ipsp, ip, dsp)'
    BY <1>1, <1>4, <1>6, <2>1 DEF NativeState
  <2> QED BY <1>1, <2>2 DEF Executing
<1> QED BY <1>7, <1>8, <1>9, <1>12, <1>13, <1>14

\* RETU goes back to a call or a push, or completes the run() that entered it.
LEMMA RetuPreserves ==
  ASSUME IInv, Retu
  PROVE  IInv'
<1> USE DEF IInv
<1>1. /\ control = "run" /\ clock' = clock - 1 /\ clock' \in Int /\ UNCHANGED natives
      /\ ip \in Address /\ dsp \in Int /\ FrameInside(ip, dsp)
  BY DEF Retu, Execute, TypeOK, Executing, Continue, Return
<1>2. /\ ipsp \in Nat /\ ipsp > 1 /\ Len(natives) \in Nat
      /\ \A k \in 1 .. Len(natives) : PendingSince(k, Above(k))
      /\ \A k \in 1 .. Len(natives) : natives[k].ipsp \in Nat
      /\ natives # <<>> => Len(natives) \in 1 .. Len(natives) /\ PendingSince(Len(natives), ipsp)
  BY <1>1, RunPending, NativeTypes
<1>3. ipStack \in Seq(Entry) /\ ipStack # <<>> /\ Last(ipStack) = ipStack[ipsp]
  BY <1>2, EmptySeq DEF TypeOK, ipsp, Last
<1>4. \A i \in 1 .. ipsp : ipStack[i].ip \in Int /\ ipStack[i].dsp \in Int BY EntryTypes
<1>5. \A k \in 1 .. Len(natives) : natives[k].ipsp + 2 <= Above(k) /\ Above(k) \in Nat /\ Above(k) <= ipsp
  <2> SUFFICES ASSUME NEW k \in 1 .. Len(natives)
               PROVE  natives[k].ipsp + 2 <= Above(k) /\ Above(k) \in Nat /\ Above(k) <= ipsp
    OBVIOUS
  <2>1. NativeNested(k) BY DEF NativesNested
  <2>2. Above(k) \in Nat BY <1>2 DEF Above
  <2>3. PICK i \in (natives[k].ipsp + 1) .. Above(k) : Sentinel(i) BY <1>2 DEF PendingSince
  <2> QED BY <1>2, <2>1, <2>2, <2>3 DEF NativeNested
<1>6. CASE /\ Last(ipStack).dsp # NativeReturn
           /\ ip' = Last(ipStack).ip + 1
           /\ dsp' = Last(ipStack).dsp
           /\ ipStack' = Front(ipStack)
           /\ Continue
  <2> DEFINE n == ipsp - 1
  <2>1. UNCHANGED <<control, natives, result>> BY <1>6 DEF Continue
  <2>2. /\ ipStack' \in Seq(Entry) /\ ipsp' = n /\ n \in 0 .. ipsp
        /\ \A i \in 1 .. n : ipStack'[i] = ipStack[i]
    BY <1>2, <1>3, <1>6, FrontFacts DEF ipsp
  <2>3. ~Sentinel(ipsp) /\ ~Sentinel(ipsp + 1) BY <1>2, <1>3, <1>6 DEF Sentinel
  <2>4. ip' \in Address /\ FrameInside(ip', dsp') /\ dsp' \in Int
    <3>1. Resumable(ipsp) BY <1>2, <2>3 DEF Resumable
    <3> QED BY <1>2, <1>3, <1>4, <1>6, <3>1 DEF ResumesInside
  <2>5. n # 1 BY <1>2, <2>3 DEF EntryPairs
  <2>6. \A k \in 1 .. Len(natives) : natives[k].ipsp <= n
    BY <1>2, <1>5
  <2>7. ~Sentinel(n + 1) BY <1>2, <2>3
  <2>8. n # 0 BY <1>2
  <2> HIDE DEF n
  <2>9. Len(natives) # 0 => PendingSince(Len(natives), n)
    BY <1>2, <2>2, <2>3, EmptySeq DEF PendingSince, n
  <2>10. Len(natives') = Len(natives) /\ Len(natives) >= 0 BY <1>1, <1>2
  <2>11. EntryPairs' /\ ResumesInside' /\ NativesNested' /\ EntersFrom'
    BY <1>1, <2>2, <2>5, <2>6, <2>7, <2>8, <2>9, <2>10, EntriesDropped
  <2>12. TypeOK'
    <3>1. ipsp' <= IpStackSize BY <1>2, <2>2, HostAssumption DEF TypeOK, ipsp
    <3> QED BY <1>1, <2>1, <2>2, <2>4, <3>1 DEF TypeOK, ipsp
  <2>13. Executing' BY <1>1, <2>1, <2>4 DEF Executing
  <2> QED BY <2>11, <2>12, <2>13
<1>7. CASE /\ Last(ipStack).dsp = NativeReturn
           /\ ip' = Last(ipStack).ip
           /\ dsp' = ipStack[ipsp - 1].dsp
           /\ ipStack' = SubSeq(ipStack, 1, ipsp - 2)
           /\ Return("OK")
  <2>0. PICK n \in Int : n = ipsp - 2 BY <1>2
  <2>1. /\ natives' = natives /\ result' = "OK"
        /\ control' = IF natives = <<>> THEN "host" ELSE "native"
    BY <1>7 DEF Return
  <2>2. n \in 0 .. ipsp /\ ipStack' = SubSeq(ipStack, 1, n) BY <1>2, <1>7, <2>0
  <2>3. /\ ipStack' \in Seq(Entry) /\ ipsp' = n
        /\ \A i \in 1 .. n : ipStack'[i] = ipStack[i]
    BY <1>3, <2>2, PrefixFacts DEF ipsp
  <2>4. Sentinel(ipsp) BY <1>2, <1>3, <1>7 DEF Sentinel
  <2>5. ~Sentinel(n + 1) /\ ip' = ipStack[n + 1].ip /\ dsp' = ipStack[n + 1].dsp /\ n # 1
    <3>1. ipsp > 1 /\ ~Sentinel(ipsp - 1) /\ ipStack[ipsp].ip = ipStack[ipsp - 1].ip
      BY <1>2, <2>4 DEF EntryPairs
    <3>2. n + 1 = ipsp - 1 /\ n \in 0 .. ipsp BY <1>2, <2>0, <2>2
    <3>3. ~Sentinel(n + 1) BY <3>1, <3>2
    <3>4. ip' = ipStack[n + 1].ip /\ dsp' = ipStack[n + 1].dsp BY <1>3, <1>7, <3>1, <3>2
    <3>5. n # 1
      <4> SUFFICES ASSUME n = 1 PROVE FALSE
        OBVIOUS
      <4>1. Sentinel(2) BY <1>2, <3>1 DEF EntryPairs
      <4> QED BY <3>3, <4>1
    <3> QED BY <3>3, <3>4, <3>5
  <2>6. \A k \in 1 .. Len(natives) : natives[k].ipsp <= n
    BY <1>2, <1>5, <2>0
  <2>7. n = 0 => control' = "host" /\ ip' = 0 /\ dsp' = 0
    <3> SUFFICES ASSUME n = 0 PROVE control' = "host" /\ ip' = 0 /\ dsp' = 0
      OBVIOUS
    <3>1. ip' = 0 /\ dsp' = 0 BY <1>2, <2>5 DEF EntryPairs
    <3>2. natives = <<>>
      <4> SUFFICES ASSUME natives # <<>> PROVE FALSE
        OBVIOUS
      <4>1. Len(natives) \in 1 .. Len(natives) BY <1>2
      <4>2. NativeNested(Len(natives)) BY <4>1 DEF NativesNested
      <4> QED BY <1>2, <2>6, <4>1, <4>2 DEF NativeNested
    <3> QED BY <2>1, <3>1, <3>2
  <2>8. \A i \in 1 .. ipsp : i = n + 1 => Sentinel(i + 1) BY <1>2, <2>0, <2>4
  <2>9. /\ ip' \in Address /\ dsp' \in Int
        /\ natives = <<>> => FrameInside(ip', dsp')
        /\ natives # <<>> => NativeState(Len(natives), n, ip', dsp')
    <3>1. n + 1 \in 1 .. ipsp BY <1>2, <2>0
    <3>2. ip' \in Address /\ dsp' \in Int BY <1>4, <2>5, <2>8, <3>1 DEF EntersFrom
    <3>3. natives = <<>> => FrameInside(ip', dsp')
      BY <2>5, <2>8, <3>1, EmptySeq DEF EntersFrom
    <3>4. natives # <<>> => NativeState(Len(natives), n, ip', dsp')
      <4> SUFFICES ASSUME natives # <<>> PROVE NativeState(Len(natives), n, ip', dsp')
        OBVIOUS
      <4>1. Len(natives) \in 1 .. Len(natives) /\ Above(Len(natives)) = ipsp BY <1>2 DEF Above
      <4>2. natives[Len(natives)].ipsp < n + 1 BY <1>2, <2>6, <4>1
      <4>3. Sentinel(n + 1 + 1) /\ n + 1 <= Above(Len(natives)) BY <2>8, <3>1, <4>1
      <4>4. NativeState(Len(natives), n + 1 - 1, ipStack[n + 1].ip, ipStack[n + 1].dsp)
        BY <3>1, <4>1, <4>2, <4>3 DEF EntersFrom
      <4>5. n + 1 - 1 = n OBVIOUS
      <4> QED BY <2>5, <4>4, <4>5
    <3> QED BY <3>2, <3>3, <3>4
  <2>10. Len(natives') = Len(natives) /\ Len(natives) >= 0 /\ control' # "run" BY <1>2, <2>1
  <2>11. /\ EntryPairs' /\ ResumesInside' /\ NativesNested' /\ EntersFrom'
         /\ \A k \in 1 .. Len(natives'), m \in 0 .. n : PendingSince(k, m)' <=> PendingSince(k, m)
    BY <2>1, <2>2, <2>3, <2>5, <2>6, <2>7, <2>10, EntriesDropped
  <2>12. TypeOK'
    <3>1. n <= IpStackSize BY <1>2, <2>2, HostAssumption DEF TypeOK, ipsp
    <3> QED BY <1>1, <2>1, <2>3, <2>9, <3>1 DEF TypeOK, ipsp, Statuses
  <2>13. Executing'
    <3>1. CASE natives = <<>> BY <2>1, <2>9, <3>1 DEF Executing
    <3>2. CASE natives # <<>>
      <4>1. PendingSince(Len(natives), n) => PendingSince(Len(natives), n)'
        BY <1>2, <2>1, <2>2, <2>11, <3>2
      <4>2. NativeState(Len(natives), ipsp, ip, dsp)'
        BY <2>1, <2>3, <2>9, <3>2, <4>1 DEF NativeState, PendingSince
      <4> QED BY <2>1, <3>2, <4>2 DEF Executing
    <3> QED BY <3>1, <3>2
  <2> QED BY <2>11, <2>12, <2>13
<1> QED BY <1>6, <1>7 DEF Retu

(***************************************************************************)
(* The innermost native returns: OK with the entries it has pushed (n =    *)
(* ipsp), or with those of its caller only.                                *)
(***************************************************************************)
LEMMA NativeEnds ==
  ASSUME IInv, control = "native", NEW n \in 0 .. ipsp,
         \/ n = ipsp /\ ~CallPending
         \/ n = caller.ipsp,
         natives' = Front(natives), ipStack' \in Seq(Entry), ipsp' = n,
         \A i \in 1 .. n : ipStack'[i] = ipStack[i],
         ip' \in Address, dsp' \in Int, clock' \in Int, FrameInside(ip', dsp'),
         control' \in {"run", IF natives' = <<>> THEN "host" ELSE "native"},
         result' \in Statuses \cup {"none"}
  PROVE  IInv'
<1> USE DEF IInv
<1>1. PICK k \in Nat \ {0} : k = Len(natives) BY NativeRunning, NativeTypes
<1>2. /\ k \in 1 .. Len(natives) /\ caller = natives[k] /\ NativeNested(k) /\ Above(k) = ipsp
      /\ CallPending <=> PendingSince(k, ipsp)
      /\ natives # <<>> /\ natives \in Seq(Locals)
  BY <1>1, NativeRunning
<1>3. /\ ipsp \in Nat
      /\ \A j \in 1 .. k : natives[j].ipsp \in Nat
  BY <1>1, EntryTypes, NativeTypes
<1>4. /\ natives' \in Seq(Locals) /\ Len(natives') = k - 1
      /\ \A j \in 1 .. k - 1 : natives'[j] = natives[j]
  BY <1>1, <1>2, FrontFacts
<1>5. 2 <= natives[k].ipsp /\ natives[k].ipsp <= n /\ n <= ipsp
  BY <1>2, <1>3 DEF NativeNested
<1>6. ~PendingSince(k, n) /\ ~Sentinel(n + 1)
  <2>1. CASE n = ipsp /\ ~CallPending BY <1>2, <1>3, <2>1 DEF Sentinel
  <2>2. CASE n = natives[k].ipsp BY <1>2, <1>3, <2>2 DEF NativeNested, PendingSince
  <2> QED BY <1>2, <2>1, <2>2
<1>7. \A j \in 1 .. k - 1 : natives[j].ipsp <= natives[k].ipsp
  BY <1>1, <1>2 DEF NativeNested
<1>8. k - 1 # 0 => PendingSince(k - 1, n)
  <2> SUFFICES ASSUME k - 1 # 0 PROVE PendingSince(k - 1, n)
    OBVIOUS
  <2>1. k - 1 \in 1 .. k - 1 /\ k - 1 \in 1 .. Len(natives) /\ k - 1 < Len(natives) BY <1>1
  <2>2. PendingSince(k - 1, Above(k - 1)) BY <2>1 DEF NativesNested, NativeNested
  <2>3. Above(k - 1) = natives[k].ipsp BY <1>1, <2>1 DEF Above
  <2> QED BY <1>3, <1>5, <2>1, <2>2, <2>3, SMTT(30) DEF PendingSince
<1>9. /\ EntryPairs' /\ ResumesInside' /\ NativesNested' /\ EntersFrom'
      /\ \A j \in 1 .. k - 1, m \in 0 .. n : PendingSince(j, m)' <=> PendingSince(j, m)
  <2>1. n # 0 /\ n # 1 BY <1>3, <1>5
  <2>2. Len(natives') = Len(natives) - 1 /\ Len(natives') >= 0 BY <1>1, <1>4
  <2>3. \A j \in 1 .. Len(natives') : natives'[j] = natives[j] /\ natives[j].ipsp <= n
    BY <1>1, <1>3, <1>4, <1>5, <1>7
  <2>4. ~PendingSince(Len(natives), n) BY <1>1, <1>6
  <2>5. Len(natives') # 0 => PendingSince(Len(natives'), n) BY <1>1, <1>4, <1>8
  <2> QED BY <1>4, <1>6, <2>1, <2>2, <2>3, <2>4, <2>5, EntriesDropped
<1>10. TypeOK'
  <2>1. ipsp' <= IpStackSize BY <1>3, HostAssumption DEF TypeOK, ipsp
  <2>2. control' \in {"host", "native", "run"} BY DEF Statuses
  <2> QED BY <1>2, <1>4, <2>1, <2>2 DEF TypeOK, ipsp
<1>11. Executing'
  <2>1. CASE control' # "native" BY <2>1 DEF Executing
  <2>2. CASE control' = "native"
    <3>1. k - 1 # 0 BY <1>1, <1>4, <2>2, EmptySeq
    <3>2. PendingSince(k - 1, n)'
      <4>1. k - 1 \in 1 .. k - 1 /\ n \in 0 .. n BY <1>1, <1>3, <3>1
      <4> QED BY <1>8, <1>9, <3>1, <4>1
    <3>3. NativeState(Len(natives), ipsp, ip, dsp)' BY <1>4, <3>2 DEF NativeState, PendingSince
    <3> QED BY <2>2, <3>3 DEF Executing
  <2> QED BY <2>1, <2>2
<1> QED BY <1>9, <1>10, <1>11

\* After a native run() goes on behind the call, or in the function pushed last.
LEMMA NativeOKPreserves ==
  ASSUME IInv, NativeOK
  PROVE  IInv'
<1> USE DEF IInv
<1>1. PICK k \in Nat : k = Len(natives) BY NativeTypes
<1>2. /\ control = "native" /\ ~CallPending /\ control' = "run" /\ natives' = Front(natives)
      /\ result' = "none" /\ UNCHANGED clock /\ clock \in Int
  BY DEF NativeOK, TypeOK
<1>3. /\ k \in 1 .. Len(natives) /\ caller = natives[k] /\ NativeNested(k)
      /\ NativeState(k, ipsp, ip, dsp) /\ ~PendingSince(k, ipsp) /\ Above(k) = ipsp
  BY <1>1, <1>2, NativeRunning
<1>4. /\ ip \in Address /\ dsp \in Int /\ ipStack \in Seq(Entry) /\ ipsp \in Nat
      /\ natives[k].ip \in Address /\ natives[k].dsp \in Int /\ natives[k].ipsp \in Nat
  BY <1>3, NativeTypes, EntryTypes DEF TypeOK
<1>5. CASE ip # caller.ip /\ UNCHANGED <<ip, dsp, ipStack>>
  <2>1. FrameInside(ip, dsp) BY <1>3, <1>5 DEF NativeState
  <2>2. PICK n \in 0 .. ipsp : n = ipsp BY <1>4
  <2>3. ipsp' = n BY <1>5, <2>2 DEF ipsp
  <2> QED BY <1>2, <1>4, <1>5, <2>1, <2>2, <2>3, NativeEnds
<1>6. CASE /\ ip = caller.ip
           /\ ip' = ip + 1
           /\ dsp' = caller.dsp
           /\ ipStack' = SubSeq(ipStack, 1, caller.ipsp)
  <2>1. PICK n \in 0 .. ipsp : n = caller.ipsp BY <1>3, <1>4 DEF NativeNested
  <2>2. /\ ipStack' \in Seq(Entry) /\ ipsp' = n
        /\ \A i \in 1 .. n : ipStack'[i] = ipStack[i]
    BY <1>4, <1>6, <2>1, PrefixFacts DEF ipsp
  <2>3. ip' \in Address /\ FrameInside(ip', dsp') /\ dsp' \in Int
    BY <1>3, <1>4, <1>6, FrameNext DEF NativeNested, Calls
  <2> QED BY <1>2, <2>1, <2>2, <2>3, NativeEnds
<1> QED BY <1>5, <1>6 DEF NativeOK

\* A native that fails leaves its caller as it was.
LEMMA NativeFailsPreserves ==
  ASSUME IInv, NEW status \in NativeErrors, NativeFails(status)
  PROVE  IInv'
<1> USE DEF IInv
<1>1. PICK k \in Nat : k = Len(natives) BY NativeTypes
<1>2. /\ control = "native" /\ natives' = Front(natives)
      /\ control' = IF natives' = <<>> THEN "host" ELSE "native"
      /\ ip' = caller.ip /\ dsp' = caller.dsp /\ clock' = caller.clock /\ result' = status
      /\ ipStack' = SubSeq(ipStack, 1, caller.ipsp)
  BY DEF NativeFails
<1>3. k \in 1 .. Len(natives) /\ caller = natives[k] /\ NativeNested(k) /\ Above(k) = ipsp
  BY <1>1, <1>2, NativeRunning
<1>4. /\ ipStack \in Seq(Entry) /\ ipsp \in Nat /\ natives[k].clock \in Int
      /\ natives[k].ip \in Address /\ natives[k].dsp \in Int /\ natives[k].ipsp \in Nat
  BY <1>3, NativeTypes, EntryTypes DEF TypeOK
<1>5. PICK n \in 0 .. ipsp : n = caller.ipsp BY <1>3, <1>4 DEF NativeNested
<1>6. /\ ipStack' \in Seq(Entry) /\ ipsp' = n
      /\ \A i \in 1 .. n : ipStack'[i] = ipStack[i]
  BY <1>2, <1>4, <1>5, PrefixFacts DEF ipsp
<1>7. ip' \in Address /\ FrameInside(ip', dsp') /\ dsp' \in Int /\ clock' \in Int
  BY <1>2, <1>3, <1>4 DEF NativeNested
<1>8. result' \in Statuses BY <1>2, HostAssumption
<1> QED BY <1>2, <1>5, <1>6, <1>7, <1>8, NativeEnds

-----------------------------------------------------------------------------
\* enterCall and pushCall that fail change nothing, and so does a step of the rest of the system.
LEMMA StutterPreserves ==
  ASSUME IInv, UNCHANGED vars
  PROVE  IInv'
<1> USE DEF IInv, vars
<1>1. TypeOK' BY DEF TypeOK, ipsp
<1>2. \A i : Sentinel(i)' <=> Sentinel(i) BY DEF Sentinel, ipsp
<1>3. EntryPairs' BY <1>2 DEF EntryPairs, ipsp
<1>4. ResumesInside' BY <1>2 DEF ResumesInside, Resumable, ipsp
<1>5. \A k, n : PendingSince(k, n)' <=> PendingSince(k, n) BY <1>2 DEF PendingSince
<1>6. \A k : Above(k)' = Above(k) BY DEF Above, ipsp
<1>7. NativesNested' BY <1>2, <1>5, <1>6 DEF NativesNested, NativeNested, ipsp
<1>8. EntersFrom' BY <1>2, <1>5, <1>6 DEF EntersFrom, NativeState, ipsp
<1>9. Executing' BY <1>5 DEF Executing, NativeState, ipsp
<1> QED BY <1>1, <1>3, <1>4, <1>7, <1>8, <1>9

(***************************************************************************)
(* The theorems.                                                           *)
(***************************************************************************)

\* Every step of the processor, its host and its natives preserves the invariant.
THEOREM Preserved == IInv /\ [Next]_vars => IInv'
<1> SUFFICES ASSUME IInv, [Next]_vars PROVE IInv'
  OBVIOUS
<1>1. CASE Step
  <2>1. CASE TimeOut
    <3>1. clock' \in Int BY <2>1 DEF TimeOut, IInv, TypeOK
    <3> QED BY <2>1, <3>1, StopPreserves DEF TimeOut, Statuses
  <2> QED BY <1>1, <2>1, FuncPreserves, CallPreserves, RetuPreserves, DataPreserves,
             JumpPreserves, CallNativePreserves DEF Step
<1>2. CASE NativeReturns
  BY <1>2, NativeOKPreserves, NativeFailsPreserves DEF NativeReturns
<1>3. CASE HostOrNative
  BY <1>3, EnterCallPreserves, PushCallPreserves, ResetTimeOutPreserves, RunPreserves, StutterPreserves
          DEF HostOrNative, EnterCallFails, PushCallFails
<1>4. CASE UNCHANGED vars BY <1>4, StutterPreserves
<1> QED BY <1>1, <1>2, <1>3, <1>4 DEF Next

\* The inductive invariant holds of every state the processor can reach.
THEOREM Invariant == Spec => []IInv
BY Initially, Preserved, PTL DEF Spec

\* Whatever the program and however natives nest, the stacks hold what their types say, and the
\* ip stack never outgrows its memory.
THEOREM TypeCorrect == Spec => []TypeOK
<1>1. IInv => TypeOK BY DEF IInv
<1> QED BY <1>1, Invariant, PTL

\* No instruction of an assembled program addresses a local or a transient outside the data stack.
THEOREM FramesStayInside == Spec => []FramesInsideStack
<1>1. IInv => FramesInsideStack
  BY DEF IInv, FramesInsideStack, Executing, ResumesInside, NativesNested, NativeNested
<1> QED BY <1>1, Invariant, PTL

\* A nested run() returns before it reaches an entry of the run() below it.
THEOREM NestedRunsSafe == Spec => []NestedRunsStayAbove
<1>1. IInv => NestedRunsStayAbove
  <2> SUFFICES ASSUME IInv, NEW k \in 1 .. Len(natives)
               PROVE  /\ natives[k].ipsp <= Above(k)
                      /\ k < Len(natives) \/ control = "run" =>
                           \E i \in (natives[k].ipsp + 2) .. Above(k) : Sentinel(i)
    BY DEF NestedRunsStayAbove, Above
  <2>1. NativeNested(k) BY DEF IInv, NativesNested
  <2>2. natives[k].ipsp \in Nat /\ ipsp \in Nat BY NativeTypes, EntryTypes DEF IInv
  <2>3. Above(k) \in Nat
    <3>1. k < Len(natives) => k + 1 \in 1 .. Len(natives) BY NativeTypes DEF IInv
    <3> QED BY <2>2, <3>1, NativeTypes DEF IInv, Above
  <2>4. ASSUME PendingSince(k, Above(k))
        PROVE  \E i \in (natives[k].ipsp + 2) .. Above(k) : Sentinel(i)
    <3>1. PICK i \in (natives[k].ipsp + 1) .. Above(k) : Sentinel(i) BY <2>4 DEF PendingSince
    <3>2. i # natives[k].ipsp + 1 BY <2>1, <3>1 DEF NativeNested
    <3> QED BY <2>2, <2>3, <3>1, <3>2
  <2> QED BY <2>1, <2>4 DEF NativeNested
<1> QED BY <1>1, Invariant, PTL

\* When every call has returned, nothing is left of them.
THEOREM IdleIsEmpty == Spec => []IdleHoldsNothing
<1>1. IInv => IdleHoldsNothing
  BY DEF IInv, IdleHoldsNothing, EntryPairs, TypeOK
<1> QED BY <1>1, Invariant, PTL

\* The ip stack after a step that goes back to n entries, or adds to those there are.
Keeps(n) == n <= ipsp' /\ \A i \in 1 .. n : ipStack'[i] = ipStack[i]

\* A RETU leaves the entries of every run() below it: at the least the pair it returns to is above.
LEMMA RetuKeeps ==
  ASSUME IInv, Retu, NEW k \in 1 .. Len(natives)
  PROVE  Keeps(natives[k].ipsp)
<1>1. control = "run" /\ ipsp \in Nat /\ ipsp > 1 /\ natives[k].ipsp \in Nat /\ ipStack \in Seq(Entry)
  BY RunPending, NativeTypes DEF Retu, Execute, IInv, TypeOK
<1>2. natives[k].ipsp + 2 <= ipsp
  <2>1. NativeNested(k) /\ PendingSince(k, Above(k)) BY <1>1, RunPending DEF IInv, NativesNested
  <2>2. Above(k) \in Nat
    <3>1. k < Len(natives) => k + 1 \in 1 .. Len(natives) BY NativeTypes DEF IInv
    <3> QED BY <1>1, <3>1, NativeTypes DEF IInv, Above
  <2>3. PICK i \in (natives[k].ipsp + 1) .. Above(k) : Sentinel(i) BY <2>1 DEF PendingSince
  <2> QED BY <1>1, <2>1, <2>2, <2>3 DEF NativeNested
<1>3. CASE ipStack' = Front(ipStack)
  <2>1. ipStack # <<>> BY <1>1, EmptySeq DEF ipsp
  <2>2. ipsp' = ipsp - 1 /\ \A i \in 1 .. ipsp - 1 : ipStack'[i] = ipStack[i]
    BY <1>1, <1>3, <2>1, FrontFacts DEF ipsp
  <2> QED BY <1>1, <1>2, <2>2 DEF Keeps
<1>4. CASE ipStack' = SubSeq(ipStack, 1, ipsp - 2)
  <2>1. ipsp - 2 \in 0 .. ipsp BY <1>1
  <2>2. ipsp' = ipsp - 2 /\ \A i \in 1 .. ipsp - 2 : ipStack'[i] = ipStack[i]
    BY <1>1, <1>4, <2>1, PrefixFacts DEF ipsp
  <2> QED BY <1>1, <1>2, <2>2 DEF Keeps
<1> QED BY <1>3, <1>4 DEF Retu

\* When a native returns, its caller's entries, and those of the callers below, are all there.
LEMMA NativeKeeps ==
  ASSUME IInv, control = "native", NEW k \in 1 .. Len(natives),
         UNCHANGED ipStack \/ ipStack' = SubSeq(ipStack, 1, caller.ipsp)
  PROVE  Keeps(natives[k].ipsp)
<1>1. PICK m \in Nat : m = Len(natives) BY NativeTypes DEF IInv
<1>2. m \in 1 .. Len(natives) /\ caller = natives[m] /\ NativeNested(m) /\ Above(m) = ipsp
  BY <1>1, NativeRunning
<1>3. /\ ipStack \in Seq(Entry) /\ ipsp \in Nat /\ natives[m].ipsp \in Nat /\ natives[k].ipsp \in Nat
  BY <1>2, NativeTypes, EntryTypes DEF IInv, TypeOK
<1>4. natives[k].ipsp <= natives[m].ipsp /\ natives[m].ipsp <= ipsp
  BY <1>1, <1>2 DEF NativeNested
<1>5. CASE UNCHANGED ipStack BY <1>3, <1>4, <1>5 DEF Keeps, ipsp
<1>6. CASE ipStack' = SubSeq(ipStack, 1, natives[m].ipsp)
  <2>1. ipsp' = natives[m].ipsp /\ \A i \in 1 .. natives[m].ipsp : ipStack'[i] = ipStack[i]
    BY <1>3, <1>4, <1>6, PrefixFacts DEF ipsp
  <2> QED BY <1>3, <1>4, <2>1 DEF Keeps
<1> QED BY <1>2, <1>5, <1>6

\* What an entered, called or pushed function adds is above everything.
LEMMA AddedKeeps ==
  ASSUME IInv, NEW k \in 1 .. Len(natives),
         \/ UNCHANGED ipStack
         \/ \E e \in Entry : ipStack' = Append(ipStack, e)
         \/ \E e1, e2 \in Entry : ipStack' = ipStack \o <<e1, e2>>
  PROVE  Keeps(natives[k].ipsp)
<1>1. ipStack \in Seq(Entry) /\ ipsp \in Nat /\ natives[k].ipsp \in Nat
  BY NativeTypes, EntryTypes DEF IInv, TypeOK
<1>2. natives[k].ipsp <= ipsp
  <2>1. Above(k) \in Nat
    <3>1. k < Len(natives) => k + 1 \in 1 .. Len(natives) BY NativeTypes DEF IInv
    <3> QED BY <1>1, <3>1, NativeTypes DEF IInv, Above
  <2> QED BY <1>1, <2>1 DEF IInv, NativesNested, NativeNested
<1>3. ipsp' \in {ipsp, ipsp + 1, ipsp + 2} /\ \A i \in 1 .. ipsp : ipStack'[i] = ipStack[i]
  <2>1. CASE UNCHANGED ipStack BY <1>1, <2>1 DEF ipsp
  <2>2. ASSUME NEW e \in Entry, ipStack' = Append(ipStack, e)
        PROVE  ipsp' \in {ipsp, ipsp + 1, ipsp + 2} /\ \A i \in 1 .. ipsp : ipStack'[i] = ipStack[i]
    BY <1>1, <2>2, AppendFacts DEF ipsp
  <2>3. ASSUME NEW e1 \in Entry, NEW e2 \in Entry, ipStack' = ipStack \o <<e1, e2>>
        PROVE  ipsp' \in {ipsp, ipsp + 1, ipsp + 2} /\ \A i \in 1 .. ipsp : ipStack'[i] = ipStack[i]
    BY <1>1, <2>3, PairFacts DEF ipsp
  <2> QED BY <2>1, <2>2, <2>3
<1> QED BY <1>1, <1>2, <1>3 DEF Keeps

\* No step, of a nested run() or of its host's code, changes an entry below a waiting run().
THEOREM OuterRunsUntouched == Spec => OuterEntriesKept
<1> DEFINE Kept == \A k \in 1 .. Len(natives) : \A i \in 1 .. natives[k].ipsp :
                     i <= ipsp' /\ ipStack'[i] = ipStack[i]
<1>1. ASSUME IInv, Next, NEW k \in 1 .. Len(natives) PROVE Keeps(natives[k].ipsp)
  <2>1. ip \in Int /\ dsp \in Int /\ \A a \in Address : Code[a].p1 \in Int
    BY <1>1, CodeTypes DEF IInv, TypeOK, Address
  <2>2. \A e : e = [ip |-> ip, dsp |-> dsp] => e \in Entry BY <2>1 DEF Entry
  <2>3. CASE UNCHANGED ipStack BY <1>1, <2>3, AddedKeeps
  <2>4. ASSUME NEW f \in Pointers, Call(f) PROVE Keeps(natives[k].ipsp)
    BY <1>1, <2>2, <2>3, <2>4, AddedKeeps DEF Call, Fail
  <2>5. ASSUME NEW f \in Pointers, EnterCall(f) PROVE Keeps(natives[k].ipsp)
    <3>1. [ip |-> ip, dsp |-> dsp] \in Entry /\ [ip |-> ip, dsp |-> NativeReturn] \in Entry
      BY <2>1 DEF Entry, NativeReturn
    <3> QED BY <1>1, <2>5, <3>1, AddedKeeps DEF EnterCall
  <2>6. ASSUME NEW f \in Pointers, PushCall(f) PROVE Keeps(natives[k].ipsp)
    <3>1. [ip |-> ip, dsp |-> dsp - Code[ip].p1] \in Entry /\ [ip |-> ip - 1, dsp |-> dsp] \in Entry
      BY <1>1, <2>1 DEF Entry, IInv, TypeOK
    <3> QED BY <1>1, <2>6, <3>1, AddedKeeps DEF PushCall
  <2>7. CASE Retu BY <1>1, <2>7, RetuKeeps
  <2>8. CASE NativeReturns BY <1>1, <2>8, NativeKeeps DEF NativeReturns, NativeOK, NativeFails
  <2>9. CASE TimeOut \/ Func \/ Data \/ Jump \/ CallNative
    BY <2>3, <2>9 DEF TimeOut, Func, Data, Jump, CallNative, Fail, Continue
  <2>10. CASE HostOrNative
    BY <2>3, <2>5, <2>6, <2>10 DEF HostOrNative, EnterCallFails, PushCallFails, ResetTimeOut, Run, vars, machine
  <2> QED BY <1>1, <2>4, <2>7, <2>8, <2>9, <2>10 DEF Next, Step
<1>2. IInv /\ [Next]_vars => [Kept]_vars
  <2> SUFFICES ASSUME IInv, Next PROVE Kept
    OBVIOUS
  <2>1. \A k \in 1 .. Len(natives) : natives[k].ipsp \in Nat BY NativeTypes DEF IInv
  <2>2. IInv' BY Preserved
  <2>3. ipsp' \in Nat BY <2>2 DEF IInv, TypeOK, ipsp
  <2> QED BY <1>1, <2>1, <2>3 DEF Keeps
<1> QED BY <1>2, Invariant, PTL DEF Spec, OuterEntriesKept

-----------------------------------------------------------------------------
(***************************************************************************)
(* Pushed functions fit when they start.  pushCall checks the one that is  *)
(* to start first.  What it resumes later, or what an enterCall suspends,  *)
(* was checked by the push before: the invariant says so of each.          *)
(***************************************************************************)
NextFits == IsFunction(ip) /\ Pushed(ipsp) => FrameFits(ip, dsp)

ResumesFit ==
  \A i \in 1 .. ipsp :
    Resumable(i) /\ IsFunction(ipStack[i].ip + 1) => FrameFits(ipStack[i].ip + 1, ipStack[i].dsp)

SuspendsFit ==
  \A i \in 1 .. ipsp :
    Sentinel(i + 1) /\ IsFunction(ipStack[i].ip) /\ Pushed(i - 1) =>
      FrameFits(ipStack[i].ip, ipStack[i].dsp)

PushesFit == NextFits /\ ResumesFit /\ SuspendsFit

\* Going back to n entries leaves those below as they were, when it splits no pair.
LEMMA FitsBelow ==
  ASSUME TypeOK, ResumesFit, SuspendsFit, NEW n \in 0 .. ipsp, ~Sentinel(n + 1),
         ipsp' = n, \A i \in 1 .. n : ipStack'[i] = ipStack[i]
  PROVE  /\ ResumesFit' /\ SuspendsFit'
         /\ \A i \in Int : i <= n => (Pushed(i)' <=> Pushed(i))
<1>1. ipsp \in Nat BY EntryTypes
<1>2. \A i \in Int : i <= n + 1 => (Sentinel(i)' <=> Sentinel(i))
  BY <1>1 DEF Sentinel
<1>3. \A i \in Int : i <= n => (Resumable(i)' <=> Resumable(i))
  <2> SUFFICES ASSUME NEW i \in Int, i <= n PROVE Resumable(i)' <=> Resumable(i)
    OBVIOUS
  <2>1. i + 1 \in Int /\ i + 1 <= n + 1 /\ i <= n + 1 BY <1>1
  <2>2. (Sentinel(i)' <=> Sentinel(i)) /\ (Sentinel(i + 1)' <=> Sentinel(i + 1)) BY <1>2, <2>1
  <2> QED BY <1>1, <2>2 DEF Resumable
<1>4. \A i \in Int : i <= n => (Pushed(i)' <=> Pushed(i))
  <2> SUFFICES ASSUME NEW i \in Int, i <= n PROVE Pushed(i)' <=> Pushed(i)
    OBVIOUS
  <2>1. Resumable(i)' <=> Resumable(i) BY <1>3
  <2>2. Resumable(i) => ipStack'[i] = ipStack[i] BY <1>1 DEF Resumable
  <2> QED BY <2>1, <2>2 DEF Pushed
<1>5. ResumesFit'
  <2> SUFFICES ASSUME NEW i \in 1 .. n, Resumable(i)', IsFunction(ipStack'[i].ip + 1)
               PROVE  FrameFits(ipStack'[i].ip + 1, ipStack'[i].dsp)
    BY DEF ResumesFit, FrameFits, IsFunction
  <2>1. Resumable(i) /\ ipStack'[i] = ipStack[i] /\ i \in 1 .. ipsp BY <1>1, <1>3
  <2> QED BY <2>1 DEF ResumesFit
<1>6. SuspendsFit'
  <2> SUFFICES ASSUME NEW i \in 1 .. n, Sentinel(i + 1)', IsFunction(ipStack'[i].ip), Pushed(i - 1)'
               PROVE  FrameFits(ipStack'[i].ip, ipStack'[i].dsp)
    BY DEF SuspendsFit, FrameFits, IsFunction
  <2>1. ipStack'[i] = ipStack[i] /\ i \in 1 .. ipsp BY <1>1
  <2>2. i - 1 \in Int /\ i - 1 <= n /\ i + 1 \in Int /\ i + 1 <= n + 1 BY <1>1
  <2>3. Pushed(i - 1) BY <1>4, <2>2
  <2>4. Sentinel(i + 1) BY <1>2, <2>2
  <2> QED BY <2>1, <2>3, <2>4 DEF SuspendsFit
<1> QED BY <1>4, <1>5, <1>6

\* A step that changes neither the stack of entries nor dsp, and starts no function.
LEMMA FitsKept ==
  ASSUME PushesFit, UNCHANGED ipStack, UNCHANGED <<ip, dsp>> \/ ~IsFunction(ip')
  PROVE  PushesFit'
<1>1. ipsp' = ipsp /\ \A i : Sentinel(i)' <=> Sentinel(i) BY DEF ipsp, Sentinel
<1>2. \A i : Resumable(i)' <=> Resumable(i) BY <1>1 DEF Resumable
<1>3. \A i : Pushed(i)' <=> Pushed(i) BY <1>2 DEF Pushed
<1>4. ResumesFit' BY <1>1, <1>2 DEF PushesFit, ResumesFit, FrameFits, IsFunction
<1>5. SuspendsFit' BY <1>1, <1>3 DEF PushesFit, SuspendsFit, FrameFits, IsFunction
<1>6. NextFits' BY <1>1, <1>3 DEF PushesFit, NextFits, FrameFits, IsFunction
<1> QED BY <1>4, <1>5, <1>6 DEF PushesFit

\* A call's entry goes on behind the call; a push's in a function that was checked, if in one.
LEMMA FitsAdded ==
  ASSUME TypeOK, PushesFit, ipsp # 0, NEW e \in Entry, e.dsp # NativeReturn,
         ipsp' = ipsp + 1, \A i \in 1 .. ipsp : ipStack'[i] = ipStack[i], ipStack'[ipsp + 1] = e,
         IsFunction(e.ip + 1) => FrameFits(e.ip + 1, e.dsp),
         \/ ~IsFunction(e.ip + 1) /\ Code[e.ip].op # "CALL_NVC"
         \/ FrameFits(ip', dsp')
  PROVE  PushesFit'
<1>1. ipsp \in Nat BY EntryTypes
<1>2. \A i \in Int : Sentinel(i)' <=> Sentinel(i)
  BY <1>1 DEF Sentinel
<1>3. \A i \in 1 .. ipsp : Resumable(i)' <=> Resumable(i)
  BY <1>1, <1>2 DEF Resumable
<1>4. \A i \in Int : i <= ipsp => (Pushed(i)' <=> Pushed(i))
  BY <1>1, <1>3 DEF Pushed, Resumable
<1>5. \A i \in 1 .. ipsp' :
        \/ i \in 1 .. ipsp /\ ipStack'[i] = ipStack[i]
        \/ i = ipsp + 1 /\ ipStack'[i] = e
  BY <1>1
<1>6. ResumesFit'
  <2> SUFFICES ASSUME NEW i \in 1 .. ipsp', Resumable(i)', IsFunction(ipStack'[i].ip + 1)
               PROVE  FrameFits(ipStack'[i].ip + 1, ipStack'[i].dsp)
    BY DEF ResumesFit, FrameFits, IsFunction
  <2> QED BY <1>3, <1>5 DEF PushesFit, ResumesFit
<1>7. SuspendsFit'
  <2> SUFFICES ASSUME NEW i \in 1 .. ipsp', Sentinel(i + 1)', IsFunction(ipStack'[i].ip), Pushed(i - 1)'
               PROVE  FrameFits(ipStack'[i].ip, ipStack'[i].dsp)
    BY DEF SuspendsFit, FrameFits, IsFunction
  <2>1. i + 1 \in Int /\ i - 1 \in Int BY <1>1
  <2>2. Sentinel(i + 1) BY <1>2, <2>1
  <2>3. i \in 1 .. ipsp BY <1>1, <2>2 DEF Sentinel
  <2>4. Pushed(i - 1) BY <1>1, <1>4, <2>1, <2>3
  <2> QED BY <1>1, <2>2, <2>3, <2>4 DEF PushesFit, SuspendsFit
<1>8. NextFits'
  <2> SUFFICES ASSUME Pushed(ipsp)' PROVE FrameFits(ip', dsp')
    BY DEF NextFits, FrameFits
  <2>1. ipStack'[ipsp'] = e BY <1>1
  <2> QED BY <2>1 DEF Pushed, IsFunction
<1> QED BY <1>6, <1>7, <1>8 DEF PushesFit

\* enterCall suspends what was about to start, and its own function was pushed by nobody.
LEMMA EnterFits ==
  ASSUME IInv, PushesFit, NEW f \in Pointers, EnterCall(f)
  PROVE  PushesFit'
<1> DEFINE e1 == [ip |-> ip, dsp |-> dsp]
           e2 == [ip |-> ip, dsp |-> NativeReturn]
<1>1. /\ ip \in Int /\ dsp \in Int /\ e1 \in Entry /\ e2 \in Entry /\ ipsp \in Nat
      /\ ipStack \in Seq(Entry) /\ ipStack' = ipStack \o <<e1, e2>>
  BY EntryTypes DEF IInv, TypeOK, Entry, Address, NativeReturn, EnterCall
<1>2. e1.ip = ip /\ e1.dsp = dsp /\ e2.dsp = NativeReturn OBVIOUS
<1> HIDE DEF e1, e2
<1>3. /\ ipsp' = ipsp + 2
      /\ \A i \in 1 .. ipsp : ipStack'[i] = ipStack[i]
      /\ ipStack'[ipsp + 1] = e1 /\ ipStack'[ipsp + 2] = e2
  BY <1>1, PairFacts DEF ipsp
<1>0. PICK n \in Nat : n = ipsp BY <1>1
<1>4. Sentinel(n + 2)' BY <1>0, <1>2, <1>3 DEF Sentinel
<1>5. ~Sentinel(n + 1)'
  <2>1. IInv' BY EnterCallPreserves
  <2>2. n + 2 \in 1 .. ipsp' /\ n + 2 - 1 = n + 1 BY <1>0, <1>3
  <2> QED BY <1>4, <2>1, <2>2 DEF IInv, EntryPairs
<1>6. \A i \in Int : i <= ipsp + 1 => (Sentinel(i)' <=> Sentinel(i))
  BY <1>0, <1>3, <1>5 DEF Sentinel
<1>7. \A i \in Int : i <= ipsp => (Resumable(i)' <=> Resumable(i))
  <2> SUFFICES ASSUME NEW i \in Int, i <= ipsp PROVE Resumable(i)' <=> Resumable(i)
    OBVIOUS
  <2>1. i + 1 \in Int /\ i + 1 <= ipsp + 1 /\ i <= ipsp + 1 BY <1>1
  <2>2. (Sentinel(i)' <=> Sentinel(i)) /\ (Sentinel(i + 1)' <=> Sentinel(i + 1)) BY <1>6, <2>1
  <2> QED BY <1>1, <1>3, <2>2 DEF Resumable
<1>8. \A i \in Int : i <= ipsp => (Pushed(i)' <=> Pushed(i))
  BY <1>1, <1>3, <1>7 DEF Pushed, Resumable
<1>9. \A i \in 1 .. ipsp' : Resumable(i)' => i \in 1 .. ipsp
  BY <1>0, <1>3, <1>4 DEF Resumable
<1>10. ResumesFit'
  <2> SUFFICES ASSUME NEW i \in 1 .. ipsp', Resumable(i)', IsFunction(ipStack'[i].ip + 1)
               PROVE  FrameFits(ipStack'[i].ip + 1, ipStack'[i].dsp)
    BY DEF ResumesFit, FrameFits, IsFunction
  <2>1. i \in 1 .. ipsp BY <1>9
  <2>2. i \in Int /\ i <= ipsp BY <1>1, <2>1
  <2>3. Resumable(i) BY <1>7, <2>2
  <2>4. ipStack'[i] = ipStack[i] BY <1>3, <2>1
  <2> QED BY <2>1, <2>3, <2>4 DEF PushesFit, ResumesFit
<1>11. SuspendsFit'
  <2> SUFFICES ASSUME NEW i \in 1 .. ipsp', Sentinel(i + 1)', IsFunction(ipStack'[i].ip), Pushed(i - 1)'
               PROVE  FrameFits(ipStack'[i].ip, ipStack'[i].dsp)
    BY DEF SuspendsFit, FrameFits, IsFunction
  <2>1. i <= ipsp \/ i = ipsp + 1 BY <1>1, <1>3 DEF Sentinel
  <2>2. i - 1 \in Int /\ i - 1 <= ipsp /\ i + 1 \in Int BY <1>1, <2>1
  <2>3. Pushed(i - 1) BY <1>8, <2>2
  <2>4. CASE i <= ipsp
    <3>1. i \in 1 .. ipsp /\ i + 1 \in Int /\ i + 1 <= ipsp + 1 BY <1>1, <2>4
    <3>2. Sentinel(i + 1) BY <1>6, <3>1
    <3>3. ipStack'[i] = ipStack[i] BY <1>3, <3>1
    <3> QED BY <2>3, <3>1, <3>2, <3>3 DEF PushesFit, SuspendsFit
  <2>5. CASE i = ipsp + 1
    <3>1. ipStack'[i] = e1 BY <1>3, <2>5
    <3>2. i - 1 = ipsp BY <1>1, <2>5
    <3> QED BY <1>2, <2>3, <3>1, <3>2 DEF PushesFit, NextFits
  <2> QED BY <2>1, <2>4, <2>5
<1>12. NextFits'
  <2>1. ipsp' = n + 2 BY <1>0, <1>3
  <2>2. ~Pushed(ipsp)' BY <1>4, <2>1 DEF Pushed, Resumable
  <2> QED BY <2>2 DEF NextFits
<1> QED BY <1>10, <1>11, <1>12 DEF PushesFit

\* The caller's frame goes on behind the call, which is no function.
LEMMA CallFits ==
  ASSUME IInv, PushesFit, NEW f \in Pointers, Call(f)
  PROVE  PushesFit'
<1>1. /\ control = "run" /\ Code[ip].op \in {"CALL_CVC", "CALL_VVC"} /\ ip \in Address /\ ip \in Int
      /\ dsp \in Int /\ FrameInside(ip, dsp)
  BY DEF Call, Execute, IInv, TypeOK, Executing, Address
<1>2. CASE UNCHANGED <<ip, dsp, ipStack>> BY <1>2, FitsKept
<1>3. CASE ipStack' = Append(ipStack, [ip |-> ip, dsp |-> dsp])
  <2> DEFINE e == [ip |-> ip, dsp |-> dsp]
  <2>1. e \in Entry /\ e.dsp # NativeReturn /\ e.ip = ip
    BY <1>1, FrameRange DEF Entry, NativeReturn
  <2>2. ipStack' = Append(ipStack, e) BY <1>3
  <2> HIDE DEF e
  <2>3. ~IsFunction(ip + 1) BY <1>1, CodeAssembled DEF CodeWellFormed, Calls
  <2>4. ipsp' = ipsp + 1 /\ (\A i \in 1 .. ipsp : ipStack'[i] = ipStack[i]) /\ ipStack'[ipsp + 1] = e
    BY <2>1, <2>2, AppendFacts DEF ipsp, IInv, TypeOK
  <2>5. ipsp # 0 /\ TypeOK BY <1>1, RunPending DEF IInv
  <2> QED BY <1>1, <2>1, <2>3, <2>4, <2>5, FitsAdded
<1> QED BY <1>2, <1>3 DEF Call, Fail

\* pushCall has checked the function it puts first, and the push before the one it puts second.
LEMMA PushFits ==
  ASSUME IInv, PushesFit, NEW f \in Pointers, PushCall(f)
  PROVE  PushesFit'
<1> DEFINE k == Len(natives)
           e == IF AtNativeCall THEN [ip |-> ip, dsp |-> dsp - Code[ip].p1]
                                ELSE [ip |-> ip - 1, dsp |-> dsp]
<1>1. /\ control = "native" /\ ~PendingSince(k, ipsp) /\ PushAccepted(f)
      /\ NativeState(k, ipsp, ip, dsp) /\ NativeNested(k) /\ k \in 1 .. k
  BY NativeRunning DEF PushCall
<1>2. /\ ip \in Address /\ ip \in Int /\ dsp \in Int /\ ipsp \in Nat /\ Code[ip].p1 \in Int
      /\ natives[k].dsp \in Int /\ natives[k].ip \in Address
  BY <1>1, EntryTypes, NativeTypes, CodeTypes DEF IInv, TypeOK, Address
<1>3. ip' = FunctionTable[f] /\ dsp' = dsp /\ ipStack' = Append(ipStack, e) /\ ipsp # 0
  BY <1>1 DEF PushCall, PushAccepted, AtNativeCall, ChainedPush
<1>4. FrameFits(ip', dsp') BY <1>1, <1>3 DEF PushAccepted
<1>5. e \in Entry /\ e.dsp # NativeReturn /\ (IsFunction(e.ip + 1) => FrameFits(e.ip + 1, e.dsp))
  <2>1. CASE AtNativeCall
    <3>1. ip = natives[k].ip /\ dsp = natives[k].dsp + Code[ip].p1
      BY <1>1, <2>1 DEF NativeState, AtNativeCall, IsFunction
    <3>2. e = [ip |-> ip, dsp |-> natives[k].dsp] BY <1>2, <2>1, <3>1
    <3>3. 0 <= natives[k].dsp BY <1>1, <1>2, FrameRange DEF NativeNested
    <3>4. ~IsFunction(ip + 1) BY <1>2, <2>1, CodeAssembled DEF CodeWellFormed, Calls, AtNativeCall
    <3> QED BY <1>2, <3>2, <3>3, <3>4 DEF Entry, NativeReturn
  <2>2. CASE ~AtNativeCall
    <3>1. IsFunction(ip) BY <1>1, <2>2 DEF PushAccepted, ChainedPush
    <3>2. ip # natives[k].ip BY <1>1, <3>1 DEF NativeNested, IsFunction
    <3>3. FrameInside(ip, dsp) /\ FrameFits(ip, dsp) BY <1>1, <3>2 DEF NativeState
    <3>4. 0 <= dsp BY <1>2, <3>3, FrameRange
    <3>5. e = [ip |-> ip - 1, dsp |-> dsp] /\ ip - 1 \in Int /\ ip - 1 + 1 = ip BY <1>2, <2>2
    <3> QED BY <1>2, <3>3, <3>4, <3>5 DEF Entry, NativeReturn
  <2> QED BY <2>1, <2>2
<1> HIDE DEF e
<1>6. ipsp' = ipsp + 1 /\ (\A i \in 1 .. ipsp : ipStack'[i] = ipStack[i]) /\ ipStack'[ipsp + 1] = e
  BY <1>3, <1>5, AppendFacts DEF ipsp, IInv, TypeOK
<1> QED BY <1>3, <1>4, <1>5, <1>6, FitsAdded DEF IInv

\* A return goes on in what was checked when its entry was pushed, or is where enterCall left off.
LEMMA RetuFits ==
  ASSUME IInv, PushesFit, Retu
  PROVE  PushesFit'
<1>1. control = "run" /\ ipsp \in Nat /\ ipsp > 1 /\ ipStack \in Seq(Entry) /\ Last(ipStack) = ipStack[ipsp]
  BY RunPending DEF Retu, Execute, IInv, TypeOK, ipsp, Last
<1>2. CASE /\ Last(ipStack).dsp # NativeReturn
           /\ ip' = Last(ipStack).ip + 1
           /\ dsp' = Last(ipStack).dsp
           /\ ipStack' = Front(ipStack)
  <2>1. PICK n \in 0 .. ipsp : n = ipsp - 1 BY <1>1
  <2>2. ipStack # <<>> BY <1>1, EmptySeq DEF ipsp
  <2>3. ipsp' = n /\ \A i \in 1 .. n : ipStack'[i] = ipStack[i]
    BY <1>1, <1>2, <2>1, <2>2, FrontFacts DEF ipsp
  <2>4. ~Sentinel(n + 1) /\ Resumable(ipsp) BY <1>1, <1>2, <2>1 DEF Sentinel, Resumable
  <2>5. ResumesFit' /\ SuspendsFit' BY <2>3, <2>4, FitsBelow DEF IInv, PushesFit
  <2>6. NextFits'
    <3>1. IsFunction(ip') => FrameFits(ip', dsp') BY <1>1, <1>2, <2>4 DEF PushesFit, ResumesFit
    <3> QED BY <3>1 DEF NextFits, FrameFits, IsFunction
  <2> QED BY <2>5, <2>6 DEF PushesFit
<1>3. CASE /\ Last(ipStack).dsp = NativeReturn
           /\ ip' = Last(ipStack).ip
           /\ dsp' = ipStack[ipsp - 1].dsp
           /\ ipStack' = SubSeq(ipStack, 1, ipsp - 2)
  <2>1. PICK n \in 0 .. ipsp : n = ipsp - 2 BY <1>1
  <2>2. ipStack' = SubSeq(ipStack, 1, n) BY <1>3, <2>1
  <2>3. ipsp' = n /\ \A i \in 1 .. n : ipStack'[i] = ipStack[i]
    BY <1>1, <2>2, PrefixFacts DEF ipsp
  <2>4. Sentinel(ipsp) /\ ipsp \in 1 .. ipsp BY <1>1, <1>3 DEF Sentinel
  <2>5. ~Sentinel(ipsp - 1) /\ ipStack[ipsp].ip = ipStack[ipsp - 1].ip BY <2>4 DEF IInv, EntryPairs
  <2>6. ipsp - 1 = n + 1 /\ n + 1 + 1 = ipsp /\ n + 1 \in 1 .. ipsp /\ n + 1 - 1 = n BY <1>1, <2>1
  <2>7. ~Sentinel(n + 1) BY <2>5, <2>6
  <2>8. /\ ResumesFit' /\ SuspendsFit'
        /\ \A i \in Int : i <= n => (Pushed(i)' <=> Pushed(i))
    BY <2>3, <2>7, FitsBelow DEF IInv, PushesFit
  <2>9. NextFits'
    <3>1. Pushed(n)' <=> Pushed(n) BY <1>1, <2>8
    <3>2. ip' = ipStack[n + 1].ip /\ dsp' = ipStack[n + 1].dsp BY <1>1, <1>3, <2>5, <2>6
    <3>3. Sentinel(n + 1 + 1) BY <2>4, <2>6
    <3>4. IsFunction(ip') /\ Pushed(n) => FrameFits(ip', dsp')
      BY <2>6, <3>2, <3>3 DEF PushesFit, SuspendsFit
    <3>5. Pushed(ipsp)' => Pushed(n)' BY <2>3 DEF Pushed, Resumable, Sentinel, ipsp
    <3> QED BY <3>1, <3>4, <3>5 DEF NextFits, FrameFits, IsFunction
  <2> QED BY <2>8, <2>9 DEF PushesFit
<1> QED BY <1>2, <1>3 DEF Retu

\* When a native returns, run() goes on behind its call or fails at it, or starts what it pushed.
LEMMA NativeEndFits ==
  ASSUME IInv, PushesFit, NativeReturns
  PROVE  PushesFit'
<1>1. control = "native" BY DEF NativeReturns, NativeOK, NativeFails
<1>2. /\ NativeNested(Len(natives)) /\ caller = natives[Len(natives)] /\ ipStack \in Seq(Entry)
      /\ caller.ip \in Address /\ caller.ipsp \in Nat /\ caller.ipsp <= ipsp
  BY <1>1, NativeRunning, NativeTypes DEF IInv, TypeOK, NativeNested
<1>3. CASE UNCHANGED <<ip, dsp, ipStack>> BY <1>3, FitsKept
<1>4. CASE ip' \in {caller.ip, caller.ip + 1} /\ ipStack' = SubSeq(ipStack, 1, caller.ipsp)
  <2>1. PICK n \in 0 .. ipsp : n = caller.ipsp BY <1>2, EntryTypes DEF IInv
  <2>2. ipsp' = n /\ \A i \in 1 .. n : ipStack'[i] = ipStack[i]
    BY <1>2, <1>4, <2>1, PrefixFacts DEF ipsp
  <2>3. ~Sentinel(n + 1) BY <1>2, <2>1 DEF NativeNested
  <2>4. ~IsFunction(ip')
    BY <1>2, <1>4, CodeAssembled DEF CodeWellFormed, Calls, NativeNested, IsFunction
  <2>5. ResumesFit' /\ SuspendsFit' BY <2>2, <2>3, FitsBelow DEF IInv, PushesFit
  <2> QED BY <2>4, <2>5 DEF PushesFit, NextFits, IsFunction
<1> QED BY <1>3, <1>4 DEF NativeReturns, NativeOK, NativeFails

\* No other step adds or drops an entry, or goes to a function.
LEMMA StepFits ==
  ASSUME IInv, PushesFit, [Next]_vars
  PROVE  PushesFit'
<1>1. CASE UNCHANGED <<ip, dsp, ipStack>> BY <1>1, FitsKept
<1>2. ip \in Address BY DEF IInv, TypeOK
<1>3. CASE Func
  <2>1. Code[ip].op = "FUNC" => ~IsFunction(ip + 1) BY <1>2, CodeAssembled DEF CodeWellFormed
  <2> QED BY <1>1, <1>3, <2>1, FitsKept DEF Func, Execute, Fail
<1>4. CASE Data
  <2>1. Code[ip].op = "DATA" => ~IsFunction(ip + 1) BY <1>2, CodeAssembled DEF CodeWellFormed
  <2> QED BY <1>1, <1>4, <2>1, FitsKept DEF Data, Execute, Fail
<1>5. CASE Jump
  <2>1. Code[ip].op = "BRANCH" => ~IsFunction(ip + 1) BY <1>2, CodeAssembled DEF CodeWellFormed
  <2>2. \A j \in Code[ip].jumps : ~IsFunction(ip + j) BY <1>2, CodeAssembled DEF CodeWellFormed
  <2> QED BY <1>5, <2>1, <2>2, FitsKept DEF Jump, Execute
<1>6. CASE CallNative BY <1>6, FitsKept DEF CallNative, Execute, IsFunction
<1>7. CASE NativeReturns BY <1>7, NativeEndFits
<1>8. CASE TimeOut \/ UNCHANGED vars BY <1>1, <1>8 DEF TimeOut, vars
<1>9. CASE HostOrNative
  BY <1>1, <1>9, EnterFits, PushFits
     DEF HostOrNative, EnterCallFails, PushCallFails, ResetTimeOut, Run, vars, machine
<1> QED BY <1>3, <1>4, <1>5, <1>6, <1>7, <1>8, <1>9, CallFits, RetuFits DEF Next, Step

\* A function that a native pushed, the first or the last of a chain, starts with the room it needs.
THEOREM PushedStart == Spec => []PushedFunctionsFit
<1>1. Init => PushesFit
  BY DEF Init, PushesFit, NextFits, ResumesFit, SuspendsFit, Pushed, Resumable, ipsp
<1>2. IInv /\ PushesFit /\ [Next]_vars => PushesFit' BY StepFits
<1>3. PushesFit => PushedFunctionsFit BY DEF PushesFit, NextFits, PushedFunctionsFit
<1> QED BY <1>1, <1>2, <1>3, Invariant, PTL DEF Spec
=============================================================================
