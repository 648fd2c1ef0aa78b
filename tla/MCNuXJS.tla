------------------------------ MODULE MCNuXJS ------------------------------
(***************************************************************************)
(* The scripts that the NuXJS processor is checked with: those of          *)
(* NuXJSControlFlow, and those of NuXJSScopePrograms, each of which may be *)
(* interrupted anywhere to collect.                                        *)
(***************************************************************************)
EXTENDS NuXJSProcessor

ControlFlow == INSTANCE NuXJSControlFlow
ScopePrograms == INSTANCE NuXJSScopePrograms

MCStarted == ControlFlow!Started \cup ScopePrograms!Started
MCSources ==
    [s \in ControlFlow!Started \cup ScopePrograms!Scripts |->
       IF s \in ScopePrograms!Scripts THEN ScopePrograms!Source(s) ELSE ControlFlow!Source(s)]
MCCollections == [s \in MCStarted |-> IF s \in ScopePrograms!Started THEN 2 ELSE 0]
MCExpected ==
    [s \in MCStarted |->
       IF s \in ScopePrograms!Started THEN ScopePrograms!Does(s) ELSE ControlFlow!Does(s)]

(* A function whose scope is left to the collector, because a finally block *)
(* ran in it, and whose arguments object outlives it.  None of the scripts  *)
(* above does so without a closure that keeps the scope.                    *)
ArgumentsStarted == {<<"arguments">>}
ArgumentsSources ==
    <<"arguments">> :>
      [target |-> "FOR_GLOBAL",
       body |-> <<
         ScopePrograms!Declared("f", <<"a">>, <<
           ScopePrograms!Finally(<<>>, <<>>), ScopePrograms!Return(ScopePrograms!Id("arguments"))>>),
         ScopePrograms!Var("x", ScopePrograms!CallOf("f", <<ScopePrograms!One>>)),
         ScopePrograms!Log(ScopePrograms!Dot(
           ScopePrograms!At(ScopePrograms!Id("x"), ScopePrograms!Num(0)), "p"))>>]
ArgumentsCollections == [s \in ArgumentsStarted |-> 1]
ArgumentsExpected ==
    [s \in ArgumentsStarted |->
       [output |-> <<<<"number", 1>>>>, outcome |-> <<"returned", <<"undefined">>>>]]
=============================================================================
