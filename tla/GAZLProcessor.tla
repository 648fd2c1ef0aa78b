---------------------------- MODULE GAZLProcessor ----------------------------
(***************************************************************************)
(* GAZL::Processor: the virtual machine's calls, its step budget and its   *)
(* host interface.  A Processor is driven by one thread of host code,      *)
(* which enters calls (enterCall) and runs them (run) for a budget of      *)
(* steps.  A program calls host functions ("natives"), and a native may    *)
(* use the same Processor again: enter and run further calls, push calls   *)
(* to be made when it returns (pushCall), or change the budget.            *)
(*                                                                         *)
(* Data is abstracted: a branch goes either way, a checked instruction     *)
(* succeeds or fails, a function pointer holds any value.  What is kept is *)
(* where every frame lies on the data stack and what every entry of the    *)
(* instruction pointer stack (the "ip stack") resumes.                     *)
(***************************************************************************)
EXTENDS GAZLCode, Sequences, SequencesExt

CONSTANTS
  DataStackSize,  \* words from dataStackBase to dataStackEnd
  IpStackSize,    \* entries from ipStackBase to ipStackEnd
  Budgets,        \* budgets the host gives to resetTimeOut
  NativeBudgets,  \* budgets natives give to resetTimeOut
  NativeErrors,   \* statuses other than OK that natives return
  MaxNesting,     \* bound: natives in progress, one below the other
  MinClock        \* bound: how far below zero reruns may take the budget

\* The code comes from the Assembler: GAZLAssembler shows what it emits to be so.
ASSUME CodeAssembled == CodeWellFormed

ASSUME HostAssumption ==
  /\ DataStackSize \in Nat
  /\ IpStackSize \in Nat
  /\ Budgets \subseteq Nat
  /\ NativeBudgets \subseteq Nat
  /\ NativeErrors \subseteq Statuses \ {"OK"}
  /\ MaxNesting \in Nat
  /\ MinClock \in Int

NativeReturn == -1      \* the zero dsp of an entry that returns to host code

(***************************************************************************)
(* ip, dsp, clock and ipStack are the members clockCyclesLeft, ip, dsp and *)
(* the live entries below ipsp while host code has control, and run()'s    *)
(* local copies of them while it executes: the other copy is then stale,   *)
(* and nothing reads it.  Addresses on the data stack are offsets from     *)
(* dataStackBase.                                                          *)
(***************************************************************************)
VARIABLES
  ip,
  dsp,
  clock,
  ipStack,
  control,     \* who executes: the host, a native, or run()
  natives,     \* the run() locals below each native in progress, innermost last
  result       \* what the last run() to end returned, "none" once another goes on

machine == <<ip, dsp, clock, ipStack>>
vars == <<ip, dsp, clock, ipStack, control, natives, result>>

Entry == [ip : Int, dsp : Int]
Locals == [ip : Address, dsp : Int, ipsp : Nat, clock : Int]

TypeOK ==
  /\ ip \in Address
  /\ dsp \in Int
  /\ clock \in Int
  /\ ipStack \in Seq(Entry)
  /\ Len(ipStack) <= IpStackSize
  /\ control \in {"host", "native", "run"}
  /\ natives \in Seq(Locals)
  /\ (control = "native") => natives # <<>>
  /\ (control = "host") => natives = <<>>
  /\ result \in Statuses \cup {"none"}

ipsp == Len(ipStack)
caller == Last(natives)      \* the run() that called the native in control

Init ==
  /\ ip = 0
  /\ dsp = 0
  /\ clock \in Budgets     \* the constructor's 0x7FFFFFFF is one of them
  /\ ipStack = <<>>
  /\ control = "host"
  /\ natives = <<>>
  /\ result = "none"

-----------------------------------------------------------------------------
(***************************************************************************)
(* The host interface.  The host uses it between runs, a native during     *)
(* one.                                                                    *)
(***************************************************************************)

\* Calls that a native entered and has not run to their end.
CallPending == \E i \in (caller.ipsp + 1) .. ipsp : ipStack[i].dsp = NativeReturn

\* enterCall(f): f is a function ordinal, or FunctionCount for any pointer that is not a function.
\* BAD_CALL and IP_STACK_OVERFLOW: enterCall returns them and does nothing.
EnterCallFails(f) ==
  /\ control # "run"
  /\ f >= FunctionCount \/ ipsp + 2 > IpStackSize
  /\ UNCHANGED vars

EnterCall(f) ==
  /\ control # "run"
  /\ f < FunctionCount
  /\ ipsp + 2 <= IpStackSize
  /\ ipStack' = ipStack \o <<[ip |-> ip, dsp |-> dsp], [ip |-> ip, dsp |-> NativeReturn]>>
  /\ ip' = FunctionTable[f]
  /\ UNCHANGED <<dsp, clock, control, natives, result>>

ResetTimeOut(n) ==
  /\ \/ control = "host" /\ n \in Budgets
     \/ control = "native" /\ n \in NativeBudgets
  /\ clock' = n
  /\ UNCHANGED <<ip, dsp, ipStack, control, natives, result>>

\* Mutant: run() as its assert has it, which the calls below the native satisfy too.
RunAnyCall ==
  /\ control = "host" \/ Len(natives) < MaxNesting
  /\ control # "run"
  /\ ipsp > 0
  /\ clock > MinClock
  /\ control' = "run"
  /\ result' = "none"
  /\ UNCHANGED <<machine, natives>>

\* run() is called for a call that was entered and has not returned.
Run ==
  /\ \/ control = "host" /\ ipsp > 0
     \/ control = "native" /\ CallPending /\ Len(natives) < MaxNesting
  /\ clock > MinClock
  /\ control' = "run"
  /\ result' = "none"
  /\ UNCHANGED <<machine, natives>>

(***************************************************************************)
(* pushCall(f): the callee's frame is checked now, and run() continues in  *)
(* it when the native returns OK.  An entry holds its resume point minus   *)
(* one: the call itself for the first push, and for a later one the word   *)
(* before the function pushed previously.                                  *)
(***************************************************************************)
\* Mutant: the check forgets the transients.
LocalsFit(f, d) == Code[f].p0 <= DataStackSize - d

FrameFits(f, d) == Code[f].p0 + Code[f].p1 <= DataStackSize - d

AtNativeCall == ipsp # 0 /\ Code[ip].op = "CALL_NVC"
ChainedPush == ipsp # 0 /\ IsFunction(ip)

\* Mutants: a push on a full ip stack, and a push without FUNC's check.
PushOnFullStack(f) ==
  /\ f < FunctionCount
  /\ AtNativeCall \/ ChainedPush
  /\ ipsp <= IpStackSize
  /\ FrameFits(FunctionTable[f], dsp)

PushUnchecked(f) ==
  /\ f < FunctionCount
  /\ AtNativeCall \/ ChainedPush
  /\ ipsp < IpStackSize

PushAccepted(f) ==
  /\ f < FunctionCount
  /\ AtNativeCall \/ ChainedPush
  /\ ipsp < IpStackSize
  /\ FrameFits(FunctionTable[f], dsp)

PushCallFails(f) ==
  /\ control = "native" /\ ~CallPending
  /\ ~PushAccepted(f)
  /\ UNCHANGED vars

\* Mutant: a chained push resumes the function pushed before after its FUNC.
PushCallUnbiased(f) ==
  /\ control = "native" /\ ~CallPending
  /\ PushAccepted(f)
  /\ ipStack' = Append(ipStack,
                       IF AtNativeCall THEN [ip |-> ip, dsp |-> dsp - Code[ip].p1]
                                       ELSE [ip |-> ip, dsp |-> dsp])
  /\ ip' = FunctionTable[f]
  /\ UNCHANGED <<dsp, clock, control, natives, result>>

PushCall(f) ==
  /\ control = "native" /\ ~CallPending
  /\ PushAccepted(f)
  /\ ipStack' = Append(ipStack,
                       IF AtNativeCall THEN [ip |-> ip, dsp |-> dsp - Code[ip].p1]
                                       ELSE [ip |-> ip - 1, dsp |-> dsp])
  /\ ip' = FunctionTable[f]
  /\ UNCHANGED <<dsp, clock, control, natives, result>>

-----------------------------------------------------------------------------
(***************************************************************************)
(* run()'s loop.  Each turn takes one step off the budget.                 *)
(***************************************************************************)

\* run() returns to the code that called it, the host's or the innermost native's.
Return(status) ==
  /\ control' = IF natives = <<>> THEN "host" ELSE "native"
  /\ result' = status
  /\ UNCHANGED natives

Continue == UNCHANGED <<control, natives, result>>

TimeOut ==
  /\ control = "run"
  /\ clock <= 0
  /\ clock' = clock - 1
  /\ Return("TIME_OUT")
  /\ UNCHANGED <<ip, dsp, ipStack>>

\* Mutant: a step that costs nothing.
ExecuteFree(ops) ==
  /\ control = "run"
  /\ clock > 0
  /\ Code[ip].op \in ops
  /\ clock' = clock

\* The instruction at ip executes.
Execute(ops) ==
  /\ control = "run"
  /\ clock > 0
  /\ Code[ip].op \in ops
  /\ clock' = clock - 1

\* An instruction fails: ip stays on it, and run() returns the status.
Fail(status) == Return(status) /\ UNCHANGED <<ip, dsp, ipStack>>

Func ==
  /\ Execute({"FUNC"})
  /\ \/ /\ FrameFits(ip, dsp)
        /\ dsp' = dsp + Code[ip].p0
        /\ ip' = ip + 1
        /\ Continue /\ UNCHANGED ipStack
     \/ ~FrameFits(ip, dsp) /\ Fail("DATA_STACK_OVERFLOW")

\* A called function's frame starts in the caller's, at the call's window.
Call(f) ==
  /\ \/ Execute({"CALL_CVC"}) /\ f = Code[ip].p0
     \/ Execute({"CALL_VVC"})
  /\ \/ f >= FunctionCount /\ Fail("BAD_CALL")
     \/ f < FunctionCount /\ ipsp >= IpStackSize /\ Fail("IP_STACK_OVERFLOW")
     \/ /\ f < FunctionCount /\ ipsp < IpStackSize
        /\ ipStack' = Append(ipStack, [ip |-> ip, dsp |-> dsp])
        /\ dsp' = dsp + Code[ip].p1
        /\ ip' = FunctionTable[f]
        /\ Continue

\* Mutant: a return to the host leaves dsp where the call had it.
RetuKeepsDsp ==
  /\ Execute({"RETU"})
  /\ ipsp > 0
  /\ ip' = Last(ipStack).ip + (IF Last(ipStack).dsp = NativeReturn THEN 0 ELSE 1)
  /\ \/ /\ Last(ipStack).dsp # NativeReturn
        /\ dsp' = Last(ipStack).dsp
        /\ ipStack' = Front(ipStack)
        /\ Continue
     \/ /\ Last(ipStack).dsp = NativeReturn
        /\ ipStack' = SubSeq(ipStack, 1, ipsp - 2)
        /\ Return("OK")
        /\ UNCHANGED dsp

Retu ==
  /\ Execute({"RETU"})
  /\ ipsp > 0
  /\ \/ /\ Last(ipStack).dsp # NativeReturn
        /\ ip' = Last(ipStack).ip + 1
        /\ dsp' = Last(ipStack).dsp
        /\ ipStack' = Front(ipStack)
        /\ Continue
     \/ /\ Last(ipStack).dsp = NativeReturn
        /\ ip' = Last(ipStack).ip
        /\ dsp' = ipStack[ipsp - 1].dsp
        /\ ipStack' = SubSeq(ipStack, 1, ipsp - 2)
        /\ Return("OK")

Data ==
  /\ Execute({"DATA"})
  /\ \/ ip' = ip + 1 /\ Continue /\ UNCHANGED <<dsp, ipStack>>
     \/ \E status \in Code[ip].errors : Fail(status)

Jump ==
  /\ \/ Execute({"BRANCH", "GOTO", "SWCH"}) /\ \E j \in Code[ip].jumps : ip' = ip + j
     \/ Execute({"BRANCH"}) /\ ip' = ip + 1
  /\ Continue /\ UNCHANGED <<dsp, ipStack>>

\* The native sees its arguments at dsp; run() keeps its own copies.
CallNative ==
  /\ Execute({"CALL_NVC"})
  /\ natives' = Append(natives, [ip |-> ip, dsp |-> dsp, ipsp |-> ipsp, clock |-> clock - 1])
  /\ dsp' = dsp + Code[ip].p1
  /\ control' = "native"
  /\ result' = "none"
  /\ UNCHANGED <<ip, ipStack>>

(***************************************************************************)
(* A native returns OK only when the calls it entered have returned.  Then *)
(* run() takes the budget it left, and goes on after the call, or in the   *)
(* function pushed last.  Any other status makes run() return it with its  *)
(* own copies: the native's pushed and entered calls are gone, and so is   *)
(* what it did to the budget.                                              *)
(***************************************************************************)
NativeOK ==
  /\ control = "native"
  /\ ~CallPending
  /\ control' = "run"
  /\ natives' = Front(natives)
  /\ \/ ip # caller.ip /\ UNCHANGED <<ip, dsp, ipStack>>
     \/ /\ ip = caller.ip
        /\ ip' = ip + 1
        /\ dsp' = caller.dsp
        /\ ipStack' = SubSeq(ipStack, 1, caller.ipsp)
  /\ result' = "none"
  /\ UNCHANGED clock

\* Mutant: run() keeps the entries a failing native pushed.
NativeFailsWithPushes(status) ==
  /\ control = "native"
  /\ natives' = Front(natives)
  /\ control' = IF natives' = <<>> THEN "host" ELSE "native"
  /\ ip' = caller.ip
  /\ dsp' = caller.dsp
  /\ clock' = caller.clock
  /\ result' = status
  /\ UNCHANGED ipStack

NativeFails(status) ==
  /\ control = "native"
  /\ natives' = Front(natives)
  /\ control' = IF natives' = <<>> THEN "host" ELSE "native"
  /\ ip' = caller.ip
  /\ dsp' = caller.dsp
  /\ ipStack' = SubSeq(ipStack, 1, caller.ipsp)
  /\ clock' = caller.clock
  /\ result' = status

-----------------------------------------------------------------------------
Pointers == 0 .. FunctionCount      \* FunctionCount: any pointer that is not a function

Step ==
  \/ TimeOut
  \/ Func
  \/ \E f \in Pointers : Call(f)
  \/ Retu
  \/ Data
  \/ Jump
  \/ CallNative

NativeReturns ==
  \/ NativeOK
  \/ \E status \in NativeErrors : NativeFails(status)

HostOrNative ==
  \/ \E f \in Pointers : EnterCall(f) \/ EnterCallFails(f) \/ PushCall(f) \/ PushCallFails(f)
  \/ \E n \in Budgets \cup NativeBudgets : ResetTimeOut(n)
  \/ Run

Next == Step \/ NativeReturns \/ HostOrNative

Spec == Init /\ [][Next]_vars

(***************************************************************************)
(* run() is a loop that nothing suspends, and a native is a host function  *)
(* that eventually returns: one that nests runs may be in control          *)
(* repeatedly before it does.                                              *)
(***************************************************************************)
FairSpec ==
  /\ Spec
  /\ WF_vars(Step)
  /\ \A depth \in 1 .. MaxNesting : SF_vars(Len(natives) = depth /\ NativeReturns)

-----------------------------------------------------------------------------
(***************************************************************************)
(* Safety.                                                                 *)
(***************************************************************************)

Sentinel(i) == i \in 1 .. ipsp /\ ipStack[i].dsp = NativeReturn

\* An entry that a RETU resumes: a call's or a push's, not one of the two of an enterCall.
Resumable(i) == i \in 1 .. ipsp /\ ~Sentinel(i) /\ ~Sentinel(i + 1)

\* The frame that instruction a uses when dsp is d is inside the data stack.
FrameInside(a, d) ==
  IF IsFunction(a) THEN 0 <= d /\ d <= DataStackSize
                   ELSE Code[FunctionAt(a)].p0 <= d /\ d + Code[FunctionAt(a)].p1 <= DataStackSize

(***************************************************************************)
(* The words an instruction addresses relative to dsp are inside the data  *)
(* stack, though FUNC alone checks them: in the frame that executes, in    *)
(* that of every caller a RETU will resume, and in that of every run()     *)
(* waiting for a native.                                                   *)
(***************************************************************************)
FramesInsideStack ==
  /\ control # "native" => FrameInside(ip, dsp)
  /\ \A i \in 1 .. ipsp :
       Resumable(i) => ipStack[i].ip + 1 \in Address /\ FrameInside(ipStack[i].ip + 1, ipStack[i].dsp)
  /\ \A k \in 1 .. Len(natives) : FrameInside(natives[k].ip, natives[k].dsp)

(***************************************************************************)
(* A nested run() never pops an entry that was there when its native was   *)
(* called: what the outer run() needs is below its own ipsp.  Each native  *)
(* that runs has an entered call above it that its run() returns at.       *)
(***************************************************************************)
NestedRunsStayAbove ==
  \A k \in 1 .. Len(natives) :
    LET top == IF k = Len(natives) THEN ipsp ELSE natives[k + 1].ipsp
    IN  /\ natives[k].ipsp <= top
        /\ k < Len(natives) \/ control = "run" =>
             \E i \in (natives[k].ipsp + 2) .. top : Sentinel(i)

(***************************************************************************)
(* The same as a property of steps: until the native returns, no step      *)
(* touches an entry below its caller's ipsp.                               *)
(***************************************************************************)
OuterEntriesKept ==
  [][\A k \in 1 .. Len(natives) : \A i \in 1 .. natives[k].ipsp :
       i <= ipsp' /\ ipStack'[i] = ipStack[i]]_vars

(***************************************************************************)
(* pushCall checks the callee's frame early, so a pushed function that is  *)
(* about to start never stops the program with DATA_STACK_OVERFLOW, not    *)
(* even the first of a chain, whose turn comes when the later ones have    *)
(* returned, or one that was interrupted before it started.                *)
(***************************************************************************)
Pushed(i) == Resumable(i) /\ (IsFunction(ipStack[i].ip + 1) \/ Code[ipStack[i].ip].op = "CALL_NVC")

PushedFunctionsFit ==
  control = "run" /\ IsFunction(ip) /\ Pushed(ipsp) => FrameFits(ip, dsp)

(***************************************************************************)
(* Once every entered call has returned, the processor is as it was        *)
(* constructed: no frame is left on the data stack.                        *)
(***************************************************************************)
IdleHoldsNothing == ipsp = 0 => ip = 0 /\ dsp = 0 /\ natives = <<>>

(***************************************************************************)
(* Not kept: "After an error the processor still points at the failing     *)
(* instruction [...]; a host recovers by starting a new call" (docs/gazl/  *)
(* Specification.md:348).  Nothing unwinds the entries of the call that    *)
(* failed, so when it failed for want of an entry enterCall fails too, and *)
(* will until the host constructs another processor.                       *)
(***************************************************************************)
NewCallRecovers ==
  control = "host" /\ result = "IP_STACK_OVERFLOW" => ipsp + 2 <= IpStackSize

(***************************************************************************)
(* Liveness: every run() hands control back to the host, for whatever      *)
(* program and however natives nest runs, as long as no native extends     *)
(* the budget.                                                             *)
(***************************************************************************)
EveryRunReturns == control = "run" ~> control = "host"

-----------------------------------------------------------------------------
(***************************************************************************)
(* The two stacks implement the activations of GAZLCalls.                  *)
(***************************************************************************)
ReturnsToHost(stack, i) == i \in 1 .. Len(stack) /\ stack[i].dsp = NativeReturn

\* The activation an entry suspends: enterCall keeps ip itself, every other entry ip minus one.
Suspended(stack, i) ==
  [next    |-> IF ReturnsToHost(stack, i + 1) THEN stack[i].ip ELSE stack[i].ip + 1,
   base    |-> stack[i].dsp,
   entered |-> ReturnsToHost(stack, i - 1)]

\* How many of the first i entries suspend an activation: a sentinel does not.
Rank(stack, i) == Cardinality({j \in 1 .. i : ~ReturnsToHost(stack, j)})

\* The entry that suspends the k-th activation.
EntryOf(stack, k) == CHOOSE i \in 1 .. Len(stack) : ~ReturnsToHost(stack, i) /\ Rank(stack, i) = k

\* The activations below the one that executes.
Callers(stack) == [k \in 1 .. Rank(stack, Len(stack)) |-> Suspended(stack, EntryOf(stack, k))]

Activations(stack, a, d) ==
  Append(Callers(stack), [next |-> a, base |-> d, entered |-> ReturnsToHost(stack, Len(stack))])

Frames == Activations(ipStack, ip, dsp)

\* The activations when native n was called.
Saved(stack, n) == Activations(SubSeq(stack, 1, n.ipsp), n.ip, n.dsp)

Snapshots == [k \in 1 .. Len(natives) |-> Saved(ipStack, natives[k])]

Abstract == INSTANCE GAZLCalls WITH frames <- Frames, snapshots <- Snapshots, control <- control

(***************************************************************************)
(* Every step of run(), enterCall, pushCall and a native's return is one   *)
(* of the abstract machine's, or changes no activation: returns go back to *)
(* where the call was made however calls, interrupts, nested runs, pushes, *)
(* time outs and failing natives are interleaved.                          *)
(***************************************************************************)
CallsImplemented == Abstract!Spec
=============================================================================
