-------------------------- MODULE NuXJSControlFlow --------------------------
(***************************************************************************)
(* Scripts that leave statements in every way: a labelled loop, in it      *)
(* another statement, in that one a try statement in which a break, a      *)
(* continue, a return or an exception leaves it, as the body of a function *)
(* and as code that is evaluated.  What each of them does is what          *)
(* ECMAScript says.                                                        *)
(***************************************************************************)
EXTENDS NuXJSSyntax

Reference == INSTANCE ECMAScript

Exits ==
    [none |-> Log(Num(10)), break |-> Break(""), continue |-> Continue(""),
     breakL |-> Break("L"), continueL |-> Continue("L"), return |-> Return(Num(7)),
     throw |-> Throw(Num(8)), fail |-> Fail(Num(9))]

(* An exit where it is not the only statement of its block. *)
Tries(exit) ==
    [plain |-> Block(<<exit>>),
     catch |-> Try(<<Log(Num(1)), exit>>, "e", <<Log(Id("e"))>>),
     inCatch |-> Try(<<Fail(Num(3))>>, "e", <<Log(Id("e")), exit>>),
     finally |-> Finally(<<Log(Num(1)), exit>>, <<Log(Num(2))>>),
     inCatchFinally |-> TryFinally(<<Throw(Num(3))>>, "e", <<exit>>, <<Log(Num(4))>>),
     inFinally |-> Finally(<<Fail(Num(5))>>, <<Log(Num(2)), exit>>),
     nested |-> TryFinally(<<Finally(<<exit>>, <<Log(Num(6))>>)>>, "e", <<Log(Id("e"))>>,
                           <<Log(Num(7))>>),
     withIn |-> Finally(<<With(Obj(<<[name |-> "w", value |-> Num(2)]>>), exit)>>, <<Log(Num(2))>>),
     loopIn |-> Finally(<<exit>>, <<DoWhile(If(Same(Id("k"), Num(0)), Continue(""), Log(Id("k"))),
                                            Less(PostInc(Id("k")), Num(1)))>>)]

Pair == Obj(<<[name |-> "p", value |-> Num(1)], [name |-> "q", value |-> Num(2)]>>)
Statements(name, s) ==
    [plain |-> s,
     while |-> While(Less(PostInc(Id(name)), Num(2)), s),
     do |-> DoWhile(s, Less(PreInc(Id(name)), Num(2))),
     for |-> For(Absent, Less(Id(name), Num(2)), PostInc(Id(name)), s),
     forIn |-> ForIn(Id(name), Pair, s),
     switch |-> Switch(Id("k"), <<Case(Num(1), <<Log(Num(11))>>), Case(Num(0), <<s>>),
                                  Default(<<Log(Num(12))>>)>>),
     with |-> With(Obj(<<[name |-> "w", value |-> Num(3)]>>), Block(<<s, Log(Id("w"))>>))]

(* A kind of script is <<target, outer, inner, try, exit>>. *)
Body(kind) ==
    LET inner == Statements("j", Tries(Exits[kind[5]])[kind[4]])[kind[3]]
    IN  <<Label("L", Statements("i", Block(<<Do(Let(Id("j"), Num(0))), inner, Log(Num(13))>>))[kind[2]]),
          Log(Num(14))>>

(* The loops around every other statement, and every loop around some.  A   *)
(* value that evaluated code had before it left a finally block is not      *)
(* looked at: how it is kept differs. *)
Loops == {"while", "do", "for", "forIn"}
Others == {"plain", "switch", "with"}
All(targets, outers, inners) ==
    targets \X outers \X inners \X (DOMAIN Tries(Absent)) \X (DOMAIN Exits)
Kinds == All({"FOR_GLOBAL", "FOR_EVAL"}, {"for"}, Loops \cup Others)
         \cup All({"FOR_GLOBAL", "FOR_EVAL"}, Loops, {"plain"})
Started ==
    {k \in Kinds : k[1] = "FOR_EVAL" =>
       k[5] # "return" /\ (k[4] = "inFinally" => k[5] \in {"none", "throw", "fail"})}

variables == {"i", "j", "k"}
zero == [n \in 1..3 |-> [name |-> <<"i", "j", "k">>[n], init |-> Num(0)]]
zeroed == [n \in 1..3 |-> Do(Let(Id(zero[n].name), zero[n].init))]

Source(kind) ==
    [target |-> kind[1],
     body |-> IF kind[1] = "FOR_EVAL" THEN zeroed \o Body(kind)
              ELSE <<Declared("f", <<>>, <<Vars(zero)>> \o Body(kind)),
                     Log(Call(Id("f"), <<>>))>>]

functionDoes(x) ==
    IF x.type = "throw" THEN [output |-> x.output, outcome |-> <<"thrown", x.value>>]
    ELSE [output |-> Append(x.output, IF x.type = "return" THEN x.value ELSE <<"undefined">>),
          outcome |-> <<"returned", <<"undefined">>>>]
evaluatedDoes(x) ==
    [output |-> x.output, outcome |-> <<IF x.type = "throw" THEN "thrown" ELSE "returned", x.value>>]
Does(kind) ==
    IF kind[1] = "FOR_EVAL" THEN evaluatedDoes(Reference!ended(variables, zeroed \o Body(kind)))
    ELSE functionDoes(Reference!ended(variables, Body(kind)))
=============================================================================
