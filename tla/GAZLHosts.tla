------------------------------ MODULE GAZLHosts ------------------------------
(***************************************************************************)
(* The interpreter test and the command line tool: one thread runs the     *)
(* host, its natives and the program.  The test is of calls made from      *)
(* inside a native: blocking ones (enterCall, then run() until it returns) *)
(* and pushed ones, chained and recursive, with steps granted a few at a   *)
(* time.                                                                   *)
(***************************************************************************)
EXTENDS GAZLEnterCallPrograms, GAZLCmd

(***************************************************************************)
(* nblk enters its call and runs it, however often that takes.             *)
(***************************************************************************)
BlockFuel == 100000

BlockingNative ==
  /\ InNative({"nblk"})
  /\ \/ /\ InPlace("start")
        /\ \/ EnterCall(Task.entered) /\ Continues("grant")
           \/ EnterCallRefused(Task.entered) /\ ReturnsError(EnterCallError(Task.entered))
     \/ InPlace("grant") /\ ResetTimeOut(BlockFuel) /\ Continues("run")
     \/ InPlace("run") /\ Run /\ Continues("returned")
     \/ /\ InPlace("returned")
        /\ \/ result = "TIME_OUT" /\ Continues("grant") /\ UNCHANGED vars
           \/ result # "TIME_OUT" /\ Returns(result)
  /\ UNCHANGED memory

-----------------------------------------------------------------------------
allVars == <<hostedVars, console>>

HostsInit == HostInit /\ ConsoleInit

HostsNext ==
  \/ Driver /\ UNCHANGED console
  \/ Machine /\ UNCHANGED console
  \/ PushNative /\ UNCHANGED console
  \/ BlockingNative /\ UNCHANGED console
  \/ ToolNative

HostsSpec == HostsInit /\ [][HostsNext]_allVars

\* Nothing suspends that thread.
FairHostsSpec == HostsSpec /\ WF_allVars(HostsNext)

-----------------------------------------------------------------------------
(***************************************************************************)
(* check(): however few steps each run() is granted, so that it is         *)
(* suspended in the middle of forwarded, chained and nested calls, the     *)
(* program returns OK and leaves in gOut what it would without a           *)
(* suspension.                                                             *)
(***************************************************************************)
ChecksPass ==
  host.at = "done" /\ "wanted" \in DOMAIN Task =>
    /\ host.status = "OK"
    /\ memory[CellAt(gOut)] = Task.wanted
    /\ Task.suspends /\ Task.fuel = 25 => host.suspends > 0

(***************************************************************************)
(* Every run to completion completes: a program that ends when it is never *)
(* suspended also ends when it is, were it after each instruction, and     *)
(* whatever its natives suspend, push or enter.                            *)
(***************************************************************************)
EveryJobEnds == <>(host.at = "done")
=============================================================================
