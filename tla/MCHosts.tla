------------------------------- MODULE MCHosts -------------------------------
(***************************************************************************)
(* The interpreter test and the command line tool on one program, function *)
(* table and memory: every check with every fuel, and programs that use    *)
(* the tool's natives.                                                     *)
(***************************************************************************)
EXTENDS MCHostPrograms, GAZLHosts

MCMinClock == -1
MaxInt == 2147483647
MCFuels == 1 .. 40 \cup {MaxInt}
MCNativeErrors == Statuses \ {"OK"}
MCBudgets == MCFuels
MCNativeBudgets == {BlockFuel, MaxInt}

Line12 == <<72, 105>>
ToolJob(function) ==
  [function |-> function, pushed |-> [name \in {"forward"} |-> <<0>>], entered |-> 5,
   repeats |-> 0, fuel |-> MaxInt, lines |-> <<Line12>>]

EchoJob(i) == [echo |-> Echoes[i]] @@ ToolJob(TestFunctions + i - 1)

\* A benchmark of a program that calls exit() goes on until the ip stack is full.
OtherJob(i) ==
  [error |-> Others[i].error, printed |-> Others[i].printed, repeats |-> IF Others[i].error = "IP_STACK_OVERFLOW" THEN 9 ELSE 0]
    @@ ToolJob(TestFunctions + Len(Echoes) + i - 1)

MCJobNames ==
  {<<"check", i, fuel>> : i \in DOMAIN Checks, fuel \in MCFuels}
    \cup {<<"echo", i, MaxInt>> : i \in DOMAIN Echoes}
    \cup {<<"other", i, MaxInt>> : i \in DOMAIN Others}
    \cup {<<"no function", 0, MaxInt>>}

MCJobs ==
  [name \in MCJobNames |->
     CASE name[1] = "check" -> [fuel |-> name[3]] @@ Checks[name[2]]
       [] name[1] = "echo" -> EchoJob(name[2])
       [] name[1] = "other" -> OtherJob(name[2])
       [] name[1] = "no function" -> ToolJob(MCFunctionCount)]
=============================================================================
