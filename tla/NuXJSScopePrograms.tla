------------------------- MODULE NuXJSScopePrograms -------------------------
(***************************************************************************)
(* Scripts whose names, functions and objects outlive the statements that  *)
(* made them: closures over parameters, exceptions and with objects, code  *)
(* that is evaluated in a scope, arguments objects, constructors, and the  *)
(* errors that calls, names and properties raise.  Each is given with what *)
(* it logs.  A text that a script evaluates has a name, and is a program   *)
(* of its own.                                                             *)
(***************************************************************************)
EXTENDS NuXJSSyntax, TLC

Property(name, value) == [name |-> name, value |-> value]
One == Obj(<<Property("p", Num(1))>>)
Returning(params, e) == Func("", params, <<Return(e)>>)
CallOf(name, args) == Call(Id(name), args)
Method(object, name) == Call(Dot(Id(object), name), <<>>)
Set(name, e) == Do(Let(Id(name), e))

(* The texts that are evaluated. *)
Texts ==
    [declare |-> <<Var("y", Num(1)), Do(Id("y"))>>,
     readX |-> <<Do(Id("x"))>>,
     function |-> <<Declared("g", <<>>, <<Return(Id("x"))>>)>>,
     break |-> <<Try(<<While(Num(0), Do(Num(1))), Break("")>>, "x", <<>>)>>,
     assign |-> <<Do(Let(Call(Id("log"), <<Num(1)>>), Num(2)))>>,
     exception |-> <<Set("e", Num(2)), Var("w", Id("e"))>>,
     shadowed |-> <<Var("p", Num(5))>>,
     throw |-> <<Do(Num(1)), Finally(<<Throw(Num(6))>>, <<Do(Num(2))>>)>>,
     value |-> <<Do(Num(1)), Finally(<<Do(Num(2))>>, <<Do(Num(3))>>),
                 If(Num(0), Do(Num(4)), Absent), ForIn(Id("n"), One, Block(<<>>))>>]

Closures ==
    [closure |-> <<
       Declared("f", <<"x">>, <<Var("n", Id("x")), Return(Returning(<<>>, PostInc(Id("n"))))>>),
       Var("g", CallOf("f", <<Num(5)>>)), Var("h", CallOf("f", <<Num(8)>>)),
       Log(CallOf("g", <<>>)), Log(CallOf("h", <<>>)), Log(CallOf("g", <<>>))>>,
     exceptions |-> <<
       Var("o", Obj(<<>>)),
       For(Let(Id("i"), Num(0)), Less(Id("i"), Num(2)), PostInc(Id("i")),
           Try(<<Throw(Id("i"))>>, "e",
               <<Do(Let(At(Id("o"), Id("i")), Returning(<<>>, PostInc(Id("e")))))>>)),
       Log(Call(At(Id("o"), Num(0)), <<>>)), Log(Call(At(Id("o"), Num(1)), <<>>)),
       Log(Call(At(Id("o"), Num(0)), <<>>))>>,
     with |-> <<
       Var("o", One), Var("g", Absent),
       With(Id("o"), Block(<<Set("p", Num(2)), Set("g", Returning(<<>>, Id("p"))),
                             Set("b", Num(3))>>)),
       Log(Dot(Id("o"), "p")), Do(Let(Dot(Id("o"), "p"), Num(5))),
       Log(CallOf("g", <<>>)), Log(Id("b"))>>,
     finally |-> <<
       Declared("f", <<"a">>, <<Finally(<<Return(Returning(<<>>, Id("a")))>>,
                                        <<Set("a", Num(2))>>)>>),
       Log(Call(CallOf("f", <<Num(1)>>), <<>>))>>,
     inWith |-> <<
       Declared("f", <<"x">>, <<Var("n", Num(2)),
          With(Obj(<<Property("x", Num(1))>>), Return(Returning(<<>>, Add(Id("x"), Id("n")))))>>),
       Log(Call(CallOf("f", <<Num(5)>>), <<>>))>>,
     selfName |-> <<
       Var("f", Func("g", <<"n">>, <<Set("g", Num(1)),
          Return(Choose(Less(Id("n"), Num(1)), TypeofOf(Id("g")),
                        CallOf("g", <<Binary("SUB", Id("n"), Num(1))>>)))>>)),
       Log(CallOf("f", <<Num(1)>>)), Log(TypeofOf(Id("g")))>>,
     hoisting |-> <<
       Log(CallOf("f", <<>>)), Log(Id("v")),
       Declared("f", <<>>, <<Log(TypeofOf(Id("i"))), Declared("i", <<>>, <<>>),
                             Var("i", Absent), Return(Num(1))>>),
       Var("v", Num(2)), Log(Id("v"))>>]

Evaluations ==
    [declared |-> <<
       Declared("f", <<>>, <<Log(Eval("declare")), Log(Id("y")), Log(DeleteOf(Id("y"))),
                             Return(TypeofOf(Id("y")))>>),
       Log(CallOf("f", <<>>)), Log(Eval("declare")), Log(DeleteOf(Id("y")))>>,
     indirect |-> <<
       Var("x", Num(1)),
       Declared("f", <<>>, <<Var("x", Num(2)), Var("e", Id("eval")), Log(Eval("readX")),
                             Log(CallOf("e", <<Text("readX")>>)), Log(CallOf("e", <<Num(3)>>)),
                             Log(CallOf("e", <<>>))>>),
       Do(CallOf("f", <<>>))>>,
     evalFunction |-> <<
       Declared("f", <<"x">>, <<Do(Eval("function")), Return(Id("g"))>>),
       Log(Call(CallOf("f", <<Num(4)>>), <<>>)), Log(TypeofOf(Id("g")))>>,
     evalClosure |-> <<
       Declared("f", <<>>, <<Do(Eval("declare")), Return(Returning(<<>>, PostInc(Id("y"))))>>),
       Var("g", CallOf("f", <<>>)), Do(CallOf("g", <<>>)), Log(CallOf("g", <<>>))>>,
     evalErrors |-> <<
       Caught(Do(Eval("break"))), Caught(Do(Eval("assign"))), Caught(Do(Eval("throw"))),
       Log(Eval("value"))>>,
     evalScopes |-> <<
       Var("o", One), Try(<<Throw(Num(1))>>, "e", <<Do(Eval("exception")), Log(Id("e"))>>),
       Log(Id("w")), With(Id("o"), Do(Eval("shadowed"))), Log(Dot(Id("o"), "p")), Log(Id("p"))>>]

Calls ==
    [alias |-> <<
       Declared("f", <<"a", "b">>, <<Do(Let(At(Id("arguments"), Num(0)), Num(3))), Log(Id("a")),
          Set("a", Num(4)), Log(At(Id("arguments"), Num(0))), Log(Id("b")),
          Return(Id("arguments"))>>),
       Var("x", CallOf("f", <<Num(1)>>)), Log(At(Id("x"), Num(0))), Log(Dot(Id("x"), "length")),
       Do(Let(At(Id("x"), Num(0)), Num(6))), Log(At(Id("x"), Num(0))),
       Log(DeleteOf(At(Id("x"), Num(0)))), Log(At(Id("x"), Num(0)))>>,
     aliasKept |-> <<
       Declared("f", <<"a">>, <<Set("x", Id("arguments")), Return(Returning(<<>>, Id("a")))>>),
       Var("g", CallOf("f", <<One>>)), Log(Dot(At(Id("x"), Num(0)), "p")),
       Do(Let(At(Id("x"), Num(0)), Num(2))), Log(CallOf("g", <<>>))>>,
     new |-> <<
       Declared("C", <<"v">>, <<Do(Let(Dot(This, "v"), Id("v")))>>),
       Do(Let(Dot(Dot(Id("C"), "prototype"), "get"), Returning(<<>>, Dot(This, "v")))),
       Var("o", NewOf(Id("C"), <<Num(3)>>)), Log(Method("o", "get")),
       Log(Same(Dot(Id("o"), "constructor"), Id("C"))),
       Declared("D", <<>>, <<Return(One)>>), Log(Dot(NewOf(Id("D"), <<>>), "p")),
       Caught(Do(NewOf(Id("o"), <<>>)))>>,
     this |-> <<
       Var("o", Obj(<<Property("p", Num(7)), Property("m", Returning(<<>>, This))>>)),
       Declared("t", <<>>, <<Return(This)>>), Log(Same(CallOf("t", <<>>), This)),
       Log(Same(Method("o", "m"), Id("o"))),
       With(Id("o"), Log(Dot(CallOf("m", <<>>), "p")))>>,
     recursion |-> <<
       Declared("r", <<"n">>, <<Return(Choose(Less(Id("n"), Num(1)), Num(0),
                     Add(Num(1), CallOf("r", <<Binary("SUB", Id("n"), Num(1))>>))))>>),
       Log(CallOf("r", <<Num(2)>>)),
       Caught(Do(Call(Func("q", <<>>, <<Do(CallOf("q", <<>>))>>), <<>>))),
       Log(CallOf("r", <<Num(1)>>))>>,
     unwinding |-> <<
       Var("n", Num(0)),
       Declared("q", <<>>, <<Finally(<<Do(CallOf("q", <<>>))>>, <<Do(PostInc(Id("n")))>>)>>),
       Caught(Do(CallOf("q", <<>>))), Log(Less(Num(3), Id("n")))>>,
     notCallable |-> <<
       Var("o", One), Caught(Do(CallOf("o", <<>>))), Caught(Do(Method("o", "p"))),
       Caught(Do(Call(Num(1), <<>>))), Caught(Do(Call(Dot(VoidOf(Num(0)), "m"), <<>>)))>>]

Names ==
    [undeclared |-> <<
       Caught(Do(Id("u"))), Log(TypeofOf(Id("u"))), Set("u", Num(1)), Log(DeleteOf(Id("u"))),
       Caught(Do(CallOf("u", <<>>)))>>,
     undefined |-> <<
       Var("u", Absent), Caught(Do(Dot(Id("u"), "x"))),
       Caught(Do(Let(Dot(Id("u"), "x"), Num(1)))), Caught(Do(DeleteOf(Dot(Id("u"), "x")))),
       Caught(Do(In(Str("x"), Id("u")))), Caught(With(Id("u"), Log(Num(1)))),
       Caught(Do(Call(Dot(Id("u"), "m"), <<>>))), Caught(Log(TypeofOf(NewOf(Id("u"), <<>>))))>>,
     deleted |-> <<
       Var("o", One), Log(DeleteOf(Dot(Id("o"), "p"))), Log(In(Str("p"), Id("o"))),
       Log(DeleteOf(Id("o"))), Do(CallOf("f", <<Num(1)>>)),
       Declared("f", <<"a">>, <<Log(DeleteOf(Id("a"))), Log(DeleteOf(Num(1))),
                                Log(DeleteOf(CallOf("log", <<Num(2)>>))),
                                Log(DeleteOf(Id("arguments")))>>),
       With(One, Log(DeleteOf(Id("p"))))>>,
     forIn |-> <<
       Declared("C", <<>>, <<Do(Let(Dot(This, "q"), Num(2)))>>),
       Do(Let(Dot(Id("C"), "prototype"), One)), Var("n", Num(0)), Var("o", NewOf(Id("C"), <<>>)),
       ForVarIn("k", Id("o"), Do(AddTo(Id("n"), At(Id("o"), Id("k"))))), Log(Id("n")),
       ForIn(Dot(Id("o"), "t"), One, Log(Dot(Id("o"), "t"))),
       ForIn(At(Id("o"), Comma(CallOf("log", <<Num(4)>>), Str("t"))), One, Log(Dot(Id("o"), "t"))),
       Caught(ForIn(Id("n"), VoidOf(Num(0)), Log(Num(1))))>>,
     operators |-> <<
       Var("a", Num(1)), Var("o", One), Do(AddTo(Id("a"), Num(2))),
       Log(Or(And(Id("a"), Num(0)), Num(5))), Log(And(Id("o"), Str("s"))), Log(Not(Id("a"))),
       Log(Comma(PostDec(Id("a")), PreDec(Id("a")))),
       Do(AddTo(Dot(Id("o"), "p"), Num(3))), Log(PostInc(Dot(Id("o"), "p"))),
       Log(PreInc(At(Id("o"), Str("p")))), Log(Add(Str("s"), Str("t"))),
       Log(Add(VoidOf(Id("a")), Num(1))), Log(TypeofOf(Add(VoidOf(Num(0)), Num(1)))),
       Log(Choose(Same(Id("a"), Num(1)), Str("y"), Str("n"))), Log(Let(Dot(Id("o"), "p"), Num(2)))>>]

Programs == Closures @@ Evaluations @@ Calls @@ Names
Evaluated == {"break", "throw", "value"}
Started == {<<name>> : name \in DOMAIN Programs \cup Evaluated}

Source(script) ==
    IF script[1] \in DOMAIN Programs THEN [target |-> "FOR_GLOBAL", body |-> Programs[script[1]]]
    ELSE [target |-> "FOR_EVAL", body |-> Texts[script[1]]]
Scripts == {<<name>> : name \in DOMAIN Programs \cup DOMAIN Texts}

-----------------------------------------------------------------------------
(* What each of them logs, and how the texts end that the host evaluates.   *)

undefined == <<"undefined">>
true == <<"boolean", TRUE>>
false == <<"boolean", FALSE>>
number(n) == <<"number", n>>
string(s) == <<"string", s>>
error(type) == <<"error", type>>
numbers(list) == [i \in DOMAIN list |-> number(list[i])]

Logs ==
    [closure |-> numbers(<<5, 8, 6>>),
     exceptions |-> numbers(<<0, 1, 1>>),
     with |-> numbers(<<2, 5, 3>>),
     finally |-> numbers(<<2>>),
     inWith |-> numbers(<<3>>),
     selfName |-> <<string("function"), string("undefined")>>,
     hoisting |-> <<string("function"), number(1), undefined, number(2)>>,
     declared |-> <<number(1), number(1), true, string("undefined"), number(1), true>>,
     indirect |-> <<number(2), number(1), number(3), undefined>>,
     evalFunction |-> <<number(4), string("undefined")>>,
     evalClosure |-> numbers(<<2>>),
     evalErrors |-> <<error("SyntaxError"), error("ReferenceError"), number(6), number(2)>>,
     evalScopes |-> <<number(2), number(2), number(5), undefined>>,
     alias |-> <<number(3), number(4), undefined, number(4), number(1), number(6), true, undefined>>,
     aliasKept |-> numbers(<<1, 2>>),
     new |-> <<number(3), true, number(1), error("TypeError")>>,
     this |-> <<true, true, number(7)>>,
     recursion |-> <<number(2), error("RangeError"), number(1)>>,
     unwinding |-> <<error("RangeError"), true>>,
     notCallable |-> <<error("TypeError"), error("TypeError"), error("TypeError"), error("TypeError")>>,
     undeclared |-> <<error("ReferenceError"), string("undefined"), true, error("ReferenceError")>>,
     undefined |-> [i \in 1..7 |-> error("TypeError")],
     deleted |-> <<true, false, false, false, true, number(2), true, false, true>>,
     forIn |-> <<number(3), string("p"), number(4), string("p"), error("TypeError")>>,
     operators |-> <<number(5), string("s"), false, number(1), number(4), number(6), string("st"),
                     <<"NaN">>, string("number"), string("y"), number(2)>>]

Ends == [break |-> <<"thrown", error("SyntaxError")>>, throw |-> <<"thrown", number(6)>>,
         value |-> <<"returned", number(2)>>]

Does(script) ==
    IF script[1] \in Evaluated THEN [output |-> <<>>, outcome |-> Ends[script[1]]]
    ELSE [output |-> Logs[script[1]], outcome |-> <<"returned", undefined>>]
=============================================================================
