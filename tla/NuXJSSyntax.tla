----------------------------- MODULE NuXJSSyntax -----------------------------
(***************************************************************************)
(* Short names for the syntax trees that scripts are given as, see         *)
(* NuXJSCompiler.                                                          *)
(***************************************************************************)
EXTENDS Integers, Sequences

Absent == [k |-> "none"]

Const(value) == [k |-> "const", value |-> value]
Num(n) == Const(<<"number", n>>)
Str(s) == Const(<<"string", s>>)
Id(name) == [k |-> "name", name |-> name]
This == [k |-> "this"]
Func(name, params, body) == [k |-> "function", name |-> name, params |-> params, body |-> body]
Obj(properties) == [k |-> "object", properties |-> properties]
Dot(object, name) == [k |-> "dot", object |-> object, name |-> name]
At(object, key) == [k |-> "brackets", object |-> object, key |-> key]
Call(callee, args) == [k |-> "call", callee |-> callee, args |-> args]
NewOf(callee, args) == [k |-> "new", callee |-> callee, args |-> args]
DeleteOf(of) == [k |-> "delete", of |-> of]
TypeofOf(of) == [k |-> "typeof", of |-> of]
VoidOf(of) == [k |-> "void", of |-> of]
Not(of) == [k |-> "not", of |-> of]
PostInc(of) == [k |-> "increment", of |-> of, op |-> "INC", post |-> TRUE]
PreInc(of) == [k |-> "increment", of |-> of, op |-> "INC", post |-> FALSE]
PostDec(of) == [PostInc(of) EXCEPT !.op = "DEC"]
PreDec(of) == [PreInc(of) EXCEPT !.op = "DEC"]
Binary(op, left, right) == [k |-> "binary", op |-> op, left |-> left, right |-> right]
Add(left, right) == Binary("ADD", left, right)
Less(left, right) == Binary("LT", left, right)
Same(left, right) == Binary("X_EQ", left, right)
In(left, right) == [k |-> "in", left |-> left, right |-> right]
Or(left, right) == [k |-> "logical", op |-> "JT_OR_POP", left |-> left, right |-> right]
And(left, right) == [k |-> "logical", op |-> "JF_OR_POP", left |-> left, right |-> right]
Choose(test, then, else) ==
    [k |-> "conditional", test |-> test, then |-> then, else |-> else]
Comma(left, right) == [k |-> "comma", left |-> left, right |-> right]
Let(left, right) == [k |-> "assign", left |-> left, right |-> right]
AddTo(left, right) == [k |-> "compound", op |-> "ADD", left |-> left, right |-> right]

Do(e) == [k |-> "expression", e |-> e]
Text(name) == Const(<<"string", <<name>>>>)
Eval(name) == Call(Id("eval"), <<Text(name)>>)
Log(e) == Do(Call(Id("log"), <<e>>))
Fail(e) == Do(Call(Id("fail"), <<e>>))
Vars(vars) == [k |-> "var", vars |-> vars]
Var(name, init) == Vars(<<[name |-> name, init |-> init]>>)
Declared(name, params, body) ==
    [k |-> "declaration", name |-> name, params |-> params, body |-> body]
Block(list) == [k |-> "block", list |-> list]
If(test, then, else) == [k |-> "if", test |-> test, then |-> then, else |-> else]
While(test, body) == [k |-> "while", test |-> test, body |-> body]
DoWhile(body, test) == [k |-> "do", test |-> test, body |-> body]
For(init, test, increment, body) ==
    [k |-> "for", vars |-> <<>>, init |-> init, test |-> test, increment |-> increment,
     of |-> Absent, body |-> body]
ForIn(init, of, body) ==
    [k |-> "for", vars |-> <<>>, init |-> init, test |-> Absent, increment |-> Absent,
     of |-> of, body |-> body]
ForVarIn(name, of, body) ==
    [ForIn(Absent, of, body) EXCEPT !.vars = <<[name |-> name, init |-> Absent]>>]
Break(label) == [k |-> "break", label |-> label]
Continue(label) == [k |-> "continue", label |-> label]
Return(e) == [k |-> "return", e |-> e]
Throw(e) == [k |-> "throw", e |-> e]
Caught(s) == [k |-> "try", block |-> <<s>>, param |-> "e", handler |-> <<Log(Id("e"))>>,
              hasFinally |-> FALSE, finally |-> <<>>]
Try(block, param, handler) ==
    [k |-> "try", block |-> block, param |-> param, handler |-> handler,
     hasFinally |-> FALSE, finally |-> <<>>]
Finally(block, finally) ==
    [k |-> "try", block |-> block, param |-> "", handler |-> <<>>,
     hasFinally |-> TRUE, finally |-> finally]
TryFinally(block, param, handler, finally) ==
    [Try(block, param, handler) EXCEPT !.hasFinally = TRUE, !.finally = finally]
Switch(on, clauses) == [k |-> "switch", on |-> on, clauses |-> clauses]
Case(test, body) == [test |-> test, body |-> body]
Default(body) == Case(Absent, body)
With(object, body) == [k |-> "with", object |-> object, body |-> body]
Label(label, body) == [k |-> "label", label |-> label, body |-> body]
=============================================================================
