------------------------------- MODULE GAZLHost -------------------------------
(***************************************************************************)
(* The host code around a Processor, as the command line tool and the      *)
(* interpreter test both have it: the loop that runs a function to its end *)
(* and the natives that have nothing to do but push calls.  The natives    *)
(* that do more are in GAZLCmd and GAZLHosts, which share this module.     *)
(***************************************************************************)
EXTENDS GAZLMachine

CONSTANTS
  NativeNames,   \* the native at each index of the native table
  Jobs           \* the runs a host makes, by name

(***************************************************************************)
(* A job: the function to run, the steps granted to each run(), how often  *)
(* a benchmark repeats it, the functions each pushing native pushes and    *)
(* the one a blocking native enters.  A native may return any status.      *)
(***************************************************************************)
ASSUME JobsAssumption ==
  /\ NativeErrors = Statuses \ {"OK"}
  /\ \A j \in DOMAIN Jobs :
       /\ Jobs[j].function \in Pointers
       /\ Jobs[j].entered \in Pointers
       /\ Jobs[j].fuel \in Budgets \ {0}
       /\ Jobs[j].repeats \in Nat
       /\ \A name \in DOMAIN Jobs[j].pushed : Jobs[j].pushed[name] \in Seq(Pointers)

\* The constructor that both hosts use gives the data stack all that the program leaves of memory.
ASSUME LayoutAssumption ==
  /\ constantsSize + rwMemorySize = memorySize
  /\ dataStackOffset + DataStackSize = rwMemorySize

VARIABLES
  job,     \* the job's name
  host,    \* where the host's loop is, what it returned, how often it was suspended
  pcs      \* where each native in progress is, innermost last

hostVars == <<job, host, pcs>>
hostedVars == <<machineVars, hostVars>>

Task == Jobs[job]

At(step) == control = "host" /\ host.at = step
Moves(step) == host' = [host EXCEPT !.at = step]
Finishes(status) == host' = [host EXCEPT !.at = "done", !.status = status]

EnterCallRefused(f) == f >= FunctionCount \/ ipsp + 2 > IpStackSize
EnterCallError(f) == IF f >= FunctionCount THEN "BAD_CALL" ELSE "IP_STACK_OVERFLOW"

HostInit ==
  /\ MachineInit
  /\ job \in DOMAIN Jobs
  /\ clock = Jobs[job].fuel
  /\ host = [at |-> "enter", status |-> "none", suspends |-> 0, repeated |-> 0]
  /\ pcs = <<>>

(***************************************************************************)
(* runToCompletion: enter the call, then run it, some steps at a time, for *)
(* as long as it times out.  A benchmark does so again and again.          *)
(***************************************************************************)
HostEnters ==
  /\ At("enter")
  /\ \/ EnterCall(Task.function) /\ Moves("grant")
     \/ EnterCallFails(Task.function) /\ Finishes(EnterCallError(Task.function))
  /\ UNCHANGED <<memory, job, pcs>>

\* Mutant: the loop runs again on what is left.
HostGrantsNothing == At("grant") /\ Moves("run") /\ UNCHANGED <<machineVars, job, pcs>>

HostGrants == At("grant") /\ ResetTimeOut(Task.fuel) /\ Moves("run") /\ UNCHANGED <<memory, job, pcs>>

HostRuns == At("run") /\ Run /\ Moves("returned") /\ UNCHANGED <<memory, job, pcs>>

Completed == result \in {"OK", "TERMINATED"}

HostReturns ==
  /\ At("returned")
  /\ \/ /\ result = "TIME_OUT"
        /\ host' = [host EXCEPT !.at = "grant", !.suspends = @ + 1]
     \/ /\ Completed /\ host.repeated < Task.repeats
        /\ host' = [host EXCEPT !.at = "enter", !.repeated = @ + 1]
     \/ /\ result # "TIME_OUT"
        /\ ~(Completed /\ host.repeated < Task.repeats)
        /\ Finishes(result)
  /\ UNCHANGED <<machineVars, job, pcs>>

Driver == HostEnters \/ HostGrants \/ HostRuns \/ HostReturns

\* A native that run() calls starts at its first statement.
Start == [at |-> "start", pushed |-> 0]

Machine ==
  /\ MachineStep
  /\ pcs' = IF Len(natives') > Len(natives) THEN Append(pcs, Start) ELSE pcs
  /\ UNCHANGED <<job, host>>

-----------------------------------------------------------------------------
(***************************************************************************)
(* Natives.                                                                *)
(***************************************************************************)
native == NativeNames[Program[caller.ip].a.n]
InNative(names) == control = "native" /\ native \in names

place == Last(pcs)
InPlace(step) == place.at = step
Continues(step) == pcs' = Append(Front(pcs), [place EXCEPT !.at = step]) /\ UNCHANGED <<job, host>>

\* The native returns: OK, or an error that makes the run() that called it return too.
ReturnsOK == NativeOK /\ pcs' = Front(pcs) /\ UNCHANGED <<job, host>>
ReturnsError(status) == NativeFails(status) /\ pcs' = Front(pcs) /\ UNCHANGED <<job, host>>
Returns(status) ==
  \/ status = "OK" /\ ReturnsOK
  \/ status # "OK" /\ ReturnsError(status)

(***************************************************************************)
(* A native that pushes its calls one by one, then returns; and that gives *)
(* up when one is refused.                                                 *)
(***************************************************************************)
PushNative ==
  /\ InNative(DOMAIN Task.pushed)
  /\ LET wanted == Task.pushed[native]
         f == wanted[place.pushed + 1]
     IN  \/ /\ place.pushed < Len(wanted)
            /\ PushCall(f)
            /\ pcs' = Append(Front(pcs), [place EXCEPT !.pushed = @ + 1])
            /\ UNCHANGED <<job, host>>
         \/ place.pushed < Len(wanted) /\ ~PushAccepted(f) /\ ReturnsError("BAD_CALL")
         \/ place.pushed = Len(wanted) /\ ReturnsOK
  /\ UNCHANGED memory
=============================================================================
