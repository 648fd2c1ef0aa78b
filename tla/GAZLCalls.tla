------------------------------ MODULE GAZLCalls ------------------------------
(***************************************************************************)
(* What a GAZL processor promises about calls, without the stacks it keeps *)
(* them on: a stack of activations, each with the place it goes on at and  *)
(* the place of its frame.  Only the last one executes.  A return goes     *)
(* back to the activation below exactly as it was left, a run stopped in   *)
(* between changes nothing, a pushed call is the same as a call made by    *)
(* the native's caller, and a native that fails leaves every activation as *)
(* it was when the native was called.                                      *)
(***************************************************************************)
EXTENDS Integers, Sequences, SequencesExt

VARIABLES
  frames,      \* the activations, the one that executes last
  snapshots,   \* frames at the call of each native in progress, innermost last
  control      \* who has control: the host, a native, or run()

vars == <<frames, snapshots, control>>

\* entered: the activation was started by enterCall, and its return ends a run().
Frame(next, base, entered) == [next |-> next, base |-> base, entered |-> entered]

Init ==
  /\ frames = <<Frame(0, 0, FALSE)>>
  /\ snapshots = <<>>
  /\ control = "host"

\* The activations once the one that executes has made a call.
AfterCall(fs) == Append(Front(fs), [Last(fs) EXCEPT !.next = @ + 1])

\* frames' is fs with a new activation on top.
Starts(fs, entered) ==
  /\ Len(frames') = Len(fs) + 1
  /\ Front(frames') = fs
  /\ Last(frames').entered = entered

EnteredSince(fs) == \E i \in (Len(fs) + 1) .. Len(frames) : frames[i].entered

HandBack == control' = IF snapshots' = <<>> THEN "host" ELSE "native"

-----------------------------------------------------------------------------
Enter ==
  /\ control # "run"
  /\ Starts(frames, TRUE)
  /\ Last(frames').base = Last(frames).base
  /\ UNCHANGED <<snapshots, control>>

Run ==
  /\ control # "run"
  /\ EnteredSince(IF control = "host" THEN <<Frame(0, 0, FALSE)>> ELSE Last(snapshots))
  /\ control' = "run"
  /\ UNCHANGED <<frames, snapshots>>

\* The budget ends or an instruction fails: the next run() goes on exactly here.
Stop ==
  /\ control = "run"
  /\ HandBack
  /\ UNCHANGED <<frames, snapshots>>

\* FUNC allocates locals; nothing else moves the frame of an activation.
Work ==
  /\ control = "run"
  /\ Len(frames') = Len(frames)
  /\ Front(frames') = Front(frames)
  /\ Last(frames').entered = Last(frames).entered
  /\ Last(frames').base >= Last(frames).base
  /\ UNCHANGED <<snapshots, control>>

Call ==
  /\ control = "run"
  /\ Starts(AfterCall(frames), FALSE)
  /\ Last(frames').base >= Last(frames).base
  /\ UNCHANGED <<snapshots, control>>

Return ==
  /\ control = "run"
  /\ Len(frames) > 1
  /\ ~Last(frames).entered
  /\ frames' = Front(frames)
  /\ UNCHANGED <<snapshots, control>>

\* The return of an entered activation, and of no other, completes a run().
Leave ==
  /\ control = "run"
  /\ Last(frames).entered
  /\ frames' = Front(frames)
  /\ UNCHANGED snapshots
  /\ HandBack

-----------------------------------------------------------------------------
CallNative ==
  /\ control = "run"
  /\ Len(frames') = Len(frames)
  /\ Front(frames') = Front(frames)
  /\ \E window \in 0 .. (Last(frames').base - Last(frames).base) :
       Last(frames') = [Last(frames) EXCEPT !.base = @ + window]
  /\ snapshots' = Append(snapshots, frames)
  /\ control' = "native"

\* The first push is a call by the native's caller; a later one is called before it.
Push ==
  /\ control = "native"
  /\ \/ Len(frames) = Len(Last(snapshots)) /\ Starts(AfterCall(Last(snapshots)), FALSE)
     \/ Len(frames) > Len(Last(snapshots)) /\ Starts(frames, FALSE)
  /\ Last(frames').base = Last(frames).base
  /\ UNCHANGED <<snapshots, control>>

NativeOK ==
  /\ control = "native"
  /\ ~EnteredSince(Last(snapshots))
  /\ frames' = IF Len(frames) = Len(Last(snapshots)) THEN AfterCall(Last(snapshots)) ELSE frames
  /\ snapshots' = Front(snapshots)
  /\ control' = "run"

NativeFails ==
  /\ control = "native"
  /\ frames' = Last(snapshots)
  /\ snapshots' = Front(snapshots)
  /\ HandBack

Next ==
  \/ Enter \/ Run \/ Stop \/ Work \/ Call \/ Return \/ Leave
  \/ CallNative \/ Push \/ NativeOK \/ NativeFails

Spec == Init /\ [][Next]_vars
=============================================================================
