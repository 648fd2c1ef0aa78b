---------------------------- MODULE GAZLInterrupts ----------------------------
(***************************************************************************)
(* enterCall on a suspended program, as a host uses it to issue an         *)
(* interrupt: which words of the data stack the interrupting call writes.  *)
(* The host is the only caller: a native's enterCall starts its callee in  *)
(* the window the program gave the native.                                 *)
(***************************************************************************)
EXTENDS GAZLProcessor

VARIABLE interrupts   \* the interrupts that have not returned: where they were entered, what they wrote

interruptVars == <<vars, interrupts>>

\* The words instruction a owns when dsp is d; a FUNC has yet to allocate any.
FrameWords(a, d) ==
  IF IsFunction(a) THEN {}
  ELSE (d - Code[FunctionAt(a)].p0) .. (d + Code[FunctionAt(a)].p1 - 1)

InterruptInit == Init /\ interrupts = <<>>

\* The first enterCall has no program to interrupt.
Enter(f) ==
  /\ EnterCall(f)
  /\ interrupts' = IF control = "host" /\ ipsp > 0
                   THEN Append(interrupts, [entry |-> ipsp + 1, written |-> {}])
                   ELSE interrupts

\* An instruction that moves data writes one word of its frame, or none.
Write ==
  /\ Data
  /\ \/ UNCHANGED interrupts
     \/ \E w \in FrameWords(ip, dsp) :
          /\ ip' = ip + 1
          /\ interrupts' = [n \in DOMAIN interrupts |->
                              [interrupts[n] EXCEPT !.written = @ \cup {w}]]

\* Any other step of run(), after which the interrupts whose entries it popped are over.
Proceed ==
  /\ \/ TimeOut \/ Func \/ Retu \/ Jump
     \/ \E f \in Pointers : Call(f)
  /\ interrupts' = SelectSeq(interrupts, LAMBDA i : i.entry <= ipsp')

HostRuns ==
  /\ Run \/ \E n \in Budgets : ResetTimeOut(n)
  /\ UNCHANGED interrupts

InterruptNext == (\E f \in Pointers : Enter(f)) \/ Write \/ Proceed \/ HostRuns

InterruptSpec == InterruptInit /\ [][InterruptNext]_interruptVars

(***************************************************************************)
(* "It is ok to call enterCall() at any time, current instruction pointer  *)
(* and stack is pushed and popped as expected which makes enterCall()      *)
(* double as a mean to issue interrupts" (src/GAZL.h:390): what an         *)
(* interrupt writes is not a word of the frame it interrupts.  enterCall   *)
(* leaves dsp at the interrupted frame's first transient, where the        *)
(* interrupting function then allocates its locals.                        *)
(***************************************************************************)
InterruptsSpareTheProgram ==
  \A n \in DOMAIN interrupts :
    LET suspended == ipStack[interrupts[n].entry]
    IN  interrupts[n].written \cap FrameWords(suspended.ip, suspended.dsp) = {}
=============================================================================
