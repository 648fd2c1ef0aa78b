----------------------------- MODULE ECMAScript -----------------------------
(***************************************************************************)
(* What ECMAScript says that statements do, to hold the compiled code      *)
(* against: a statement is executed as a whole and ends in a completion.   *)
(* Only what the control flow needs is here: names are in one list of      *)
(* scopes, values are no objects, and the only functions are those of the  *)
(* host, one that logs and one that fails.                                 *)
(*                                                                         *)
(* An execution is a record x: the scopes, innermost last, what has been   *)
(* logged, and the completion of what was executed last, its type, value   *)
(* and label; a value that is Empty is none.                               *)
(***************************************************************************)
EXTENDS Integers, Sequences, SequencesExt

Empty == <<>>
Undefined == <<"undefined">>

completed(x, type, value, label) ==
    [x EXCEPT !.type = type, !.value = value, !.label = label]
normally(x, value) == completed(x, "normal", value, "")
isNormal(x) == x.type = "normal"

(* The value of a completion that has none is what went before. *)
updateEmpty(x, value) == IF x.value = Empty THEN [x EXCEPT !.value = value] ELSE x

truth(v) == v \notin {Undefined, <<"boolean", FALSE>>, <<"number", 0>>}

scopeOf(x, name) ==
    LET having == {i \in DOMAIN x.scopes : name \in DOMAIN x.scopes[i]}
    IN  IF having = {} THEN 1 ELSE Max(having)
written(x, name, value) == [x EXCEPT !.scopes[scopeOf(x, name)] = (name :> value) @@ @]

entering(x, bindings) == [x EXCEPT !.scopes = Append(@, bindings)]
leaving(x) == [x EXCEPT !.scopes = Front(@)]

-----------------------------------------------------------------------------
(* Expressions complete normally with their value, or throw. *)

RECURSIVE evaluated(_, _)

calledWith(x, name) ==
    IF ~isNormal(x) THEN x
    ELSE IF name = "fail" THEN completed(x, "throw", x.value, "")
    ELSE normally([x EXCEPT !.output = Append(@, x.value)], Undefined)

assigned(x, name) == IF isNormal(x) THEN written(x, name, x.value) ELSE x

applied(op, l, x) ==
    CASE ~isNormal(x) -> x
      [] isNormal(x) /\ op = "ADD" -> normally(x, <<"number", l[2] + x.value[2]>>)
      [] isNormal(x) /\ op = "LT" -> normally(x, <<"boolean", l[2] < x.value[2]>>)
      [] isNormal(x) /\ op = "X_EQ" -> normally(x, <<"boolean", l = x.value>>)

operated(x, e) == IF isNormal(x) THEN applied(e.op, x.value, evaluated(x, e.right)) ELSE x

incremented(x, name, post) ==
    LET n == x.value[2]
    IN  normally(written(x, name, <<"number", n + 1>>), <<"number", IF post THEN n ELSE n + 1>>)

evaluated(x, e) ==
    CASE e.k = "const" -> normally(x, e.value)
      [] e.k = "name" -> normally(x, x.scopes[scopeOf(x, e.name)][e.name])
      [] e.k = "assign" -> assigned(evaluated(x, e.right), e.left.name)
      [] e.k = "increment" -> incremented(evaluated(x, e.of), e.of.name, e.post)
      [] e.k = "binary" -> operated(evaluated(x, e.left), e)
      [] e.k = "call" -> calledWith(evaluated(x, e.args[1]), e.callee.name)
      [] e.k = "none" -> normally(x, Undefined)

-----------------------------------------------------------------------------
(* Statements; labels are those a statement carries, "" stands for the      *)
(* loop or switch itself. *)

RECURSIVE executed(_, _, _)

then(x, s) == IF isNormal(x) THEN updateEmpty(executed(normally(x, Empty), s, {}), x.value)
              ELSE x
executedList(x, list) == FoldLeft(then, normally(x, Empty), list)

stopped(x, labels) ==
    IF x.type = "break" /\ x.label \in labels THEN normally(x, x.value) ELSE x

(* A loop: its body is executed as long as the test, evaluated first or     *)
(* last, holds; v is the value so far. *)
RECURSIVE looped(_, _, _, _)
tested(x, s, labels, v) ==
    IF ~isNormal(x) THEN x
    ELSE IF truth(x.value) THEN looped(x, s, labels, v) ELSE normally(x, v)
testOf(s) == IF s.test.k = "none" THEN [k |-> "const", value |-> <<"boolean", TRUE>>] ELSE s.test
again(x, s, labels) ==
    LET continues == isNormal(x) \/ (x.type = "continue" /\ x.label \in labels)
        next == IF s.k = "for" THEN evaluated(x, s.increment) ELSE normally(x, Empty)
    IN  IF ~continues THEN stopped(x, labels)
        ELSE IF isNormal(next) THEN tested(evaluated(next, testOf(s)), s, labels, x.value) ELSE next
looped(x, s, labels, v) ==
    again(updateEmpty(executed(normally(x, Empty), s.body, {}), v), s, labels)

looping(x, s, labels) ==
    IF s.k = "do" THEN looped(x, s, labels, Empty)
    ELSE tested(evaluated(x, testOf(s)), s, labels, Empty)

(* A for-in loop, over the names of an object literal in their order. *)
RECURSIVE enumerated(_, _, _, _, _)
enumeratedOn(x, s, names, labels) ==
    IF isNormal(x) \/ (x.type = "continue" /\ x.label \in labels)
    THEN enumerated(x, s, names, labels, x.value) ELSE stopped(x, labels)
enumerated(x, s, names, labels, v) ==
    IF names = <<>> THEN normally(x, v)
    ELSE LET named == written(normally(x, Empty), s.init.name, <<"string", Head(names).name>>)
         IN  enumeratedOn(updateEmpty(executed(named, s.body, {}), v), s, Tail(names), labels)

(* The clauses from the first that is equal, or else from the default one. *)
chosen(v, clauses) ==
    LET equal == {i \in DOMAIN clauses : clauses[i].test.k # "none" /\ clauses[i].test.value = v}
        default == {i \in DOMAIN clauses : clauses[i].test.k = "none"}
    IN  CASE equal # {} -> Min(equal)
          [] equal = {} /\ default # {} -> Min(default)
          [] OTHER -> Len(clauses) + 1
switched(x, clauses, labels) ==
    LET bodies == [i \in DOMAIN clauses |-> clauses[i].body]
    IN  IF ~isNormal(x) THEN x
        ELSE stopped(executedList(x, FlattenSeq(SubSeq(bodies, chosen(x.value, clauses),
                                                      Len(bodies)))), labels)

caught(x, s) ==
    IF x.type = "throw" /\ s.param # ""
    THEN leaving(executedList(entering(x, s.param :> x.value), s.handler)) ELSE x
finallyDone(x, s) ==
    LET done == executedList(x, s.finally)
    IN  IF s.hasFinally /\ ~isNormal(done) THEN done
        ELSE completed(IF s.hasFinally THEN done ELSE x, x.type, x.value, x.label)

bound(object) == [n \in {p.name : p \in Range(object.properties)} |->
                    (CHOOSE p \in Range(object.properties) : p.name = n).value.value]

executed(x, s, labels) ==
    CASE s.k = "expression" -> evaluated(x, s.e)
      [] s.k = "block" -> executedList(x, s.list)
      [] s.k = "if" ->
           LET test == evaluated(x, s.test)
           IN  IF ~isNormal(test) THEN test
               ELSE IF truth(test.value) THEN executed(normally(test, Empty), s.then, {})
               ELSE IF s.else.k = "none" THEN normally(test, Empty)
               ELSE executed(normally(test, Empty), s.else, {})
      [] s.k \in {"while", "do"} -> looping(x, s, labels \cup {""})
      [] s.k = "for" /\ s.of.k = "none" -> looping(evaluated(x, s.init), s, labels \cup {""})
      [] s.k = "for" /\ s.of.k # "none" ->
           enumerated(x, s, s.of.properties, labels \cup {""}, Empty)
      [] s.k = "break" -> completed(x, "break", Empty, s.label)
      [] s.k = "continue" -> completed(x, "continue", Empty, s.label)
      [] s.k = "return" ->
           LET v == evaluated(x, s.e) IN IF isNormal(v) THEN [v EXCEPT !.type = "return"] ELSE v
      [] s.k = "throw" ->
           LET v == evaluated(x, s.e) IN IF isNormal(v) THEN [v EXCEPT !.type = "throw"] ELSE v
      [] s.k = "try" -> finallyDone(caught(executedList(x, s.block), s), s)
      [] s.k = "switch" -> switched(evaluated(x, s.on), s.clauses, labels \cup {""})
      [] s.k = "with" -> leaving(executed(entering(x, bound(s.object)), s.body, {}))
      [] s.k = "label" ->
           LET l == executed(x, s.body, labels \cup {s.label}) IN stopped(l, {s.label})

(* What the statements log, and how they end, from variables that are zero. *)
ended(variables, list) ==
    executedList([scopes |-> <<[v \in variables |-> <<"number", 0>>]>>, output |-> <<>>,
                  type |-> "normal", value |-> Empty, label |-> ""], list)
=============================================================================
