--------------------------- MODULE NuXJSCompiler ---------------------------
(***************************************************************************)
(* The NuXJS compiler (externals/NuXJS/src/NuXJS.cpp 3535-5300): one pass  *)
(* over the script, no tree, writing into the current section as it reads. *)
(* What it reads is given here as syntax trees, so that scanning, operator *)
(* precedence and the limit on nesting are left out; everything it emits,  *)
(* in which order and at which stack depth, is kept.                       *)
(*                                                                         *)
(* A compiler is a record c: what it compiles for, the section it writes   *)
(* and the one that runs first (setup), the semantic scopes it is inside   *)
(* of (a sequence, innermost last), the names of the function, and the     *)
(* Codes finished so far.  An operation takes a compiler and returns it;   *)
(* the result of the expression just compiled is c.xr.  Expressions and     *)
(* statements are records [k, ...], their kind first; [k |-> "none"] is an *)
(* expression or a statement that is not there.                            *)
(***************************************************************************)
EXTENDS NuXJSCode

(* Index of a name that is a catch parameter where it is compiled. *)
CATCH_PARAMETER == 1000000

ExpressionResult(type, value) == [t |-> type, v |-> value]
NONE == ExpressionResult("NONE", 0)
PUSHED == ExpressionResult("PUSHED", 0)
PUSHED_PRIMITIVE == ExpressionResult("PUSHED_PRIMITIVE", 0)

SemanticScope(type, label, depth) ==
    [type |-> type, label |-> label, stackDepthOnEntry |-> depth,
     breaks |-> <<>>, continues |-> <<>>, finallys |-> <<>>]

Compiler(target, codes) ==
    [compilingFor |-> target, section |-> CodeSection(1), setup |-> CodeSection(1),
     scopes |-> <<>>, nameIndexes |-> <<>>, varNames |-> <<>>, argumentNames |-> <<>>,
     bloomSet |-> {}, withScopeCounter |-> 0, xr |-> NONE, points |-> <<>>,
     aside |-> <<>>, rollbackStackDepth |-> 0, codes |-> codes, error |-> "none"]

(* An error stops the compiler. *)
error(c, type) == [c EXCEPT !.error = IF @ = "none" THEN type ELSE @]
failed(c) == c.error # "none"

Name(c, name, index) == [c EXCEPT !.nameIndexes = (name :> index) @@ @]
Resulting(c, xr) == [c EXCEPT !.xr = xr]

(* changeSection: to the code that is run first and back, and to a section *)
(* of some depth that is inserted later.                                   *)
exchanged(c) == [c EXCEPT !.section = c.setup, !.setup = c.section]
asideAt(c, depth) == [c EXCEPT !.section = CodeSection(depth),
                               !.aside = Append(@, c.section)]
back(c) == [c EXCEPT !.section = Last(c.aside), !.aside = [@ EXCEPT ![Len(@)] = c.section]]
insertAside(c) == [c EXCEPT !.section = inserted(@, Last(c.aside)), !.aside = Front(@)]

-----------------------------------------------------------------------------
(* Values. *)

(* The instruction that reads what an expression result refers to. *)
reading == ("NONE" :> "VOID") @@ ("CONSTANT" :> "CONST") @@ ("LOCAL" :> "READ_LOCAL")
           @@ ("NAMED" :> "READ_NAMED") @@ ("PROPERTY" :> "GET_PROPERTY")
           @@ ("SAFEKEPT" :> "REPUSH")
writing == ("LOCAL" :> "WRITE_LOCAL") @@ ("NAMED" :> "WRITE_NAMED")
           @@ ("PROPERTY" :> "SET_PROPERTY")

read(c, xr) ==
    IF xr.t \in DOMAIN reading
    THEN emit(c, reading[xr.t],
              IF xr.t # "SAFEKEPT" THEN xr.v
              ELSE IF inDeadCode(c.section) THEN 0 ELSE xr.v - c.section.stackDepth + 1)
    ELSE c

(* makeRValue: c.xr on the stack, a primitive if toPrimitiveOp makes it one. *)
makeRValue(c, toPrimitiveOp) ==
    CASE c.xr.t \in {"PUSHED_PRIMITIVE", "NONE", "CONSTANT"} ->
           Resulting(read(c, c.xr), PUSHED_PRIMITIVE)
      [] c.xr.t \in {"PUSHED", "LOCAL", "NAMED", "PROPERTY", "SAFEKEPT"} ->
           IF toPrimitiveOp = "none" THEN Resulting(read(c, c.xr), PUSHED)
           ELSE Resulting(emit(read(c, c.xr), toPrimitiveOp, 0), PUSHED_PRIMITIVE)

(* The value of a script that is evaluated stays on top of the stack. *)
evalPopOpcode(c) == IF c.compilingFor = "FOR_EVAL" THEN "PUSH_BACK" ELSE "POP"

safeKeptAt(c, offset) ==
    Resulting(c, ExpressionResult("SAFEKEPT", IF inDeadCode(c.section) THEN 0
                                              ELSE c.section.stackDepth - offset))
safeKeep(c) == IF c.compilingFor = "FOR_EVAL" THEN safeKeptAt(emit(c, "SWAP", 0), 2)
               ELSE safeKeptAt(c, 1)

returnSafeKept(c) == emit(c, evalPopOpcode(c), 1)

makeAssignment(c, xr) ==
    IF xr.t \in DOMAIN writing THEN emit(c, writing[xr.t], xr.v)
    ELSE error(c, "ReferenceError")

emitIf(condition, c, op, im) == IF condition THEN emit(c, op, im) ELSE c
pop(c) == emit(c, "POP", 1)

(* discard: nobody uses c.xr, but a name or a property is still read. *)
discard(c) ==
    Resulting(IF c.xr.t \in {"PUSHED", "PUSHED_PRIMITIVE", "NAMED", "PROPERTY"}
              THEN pop(IF c.xr.t \in {"NAMED", "PROPERTY"} THEN read(c, c.xr) ELSE c)
              ELSE c, NONE)

(* A name is a local when nothing between here and its function can add    *)
(* or remove names: no eval code, no with, no catch of that name.          *)
nameResult(c, name) ==
    LET isLocal == /\ name # "arguments" /\ c.compilingFor = "FOR_FUNCTION"
                   /\ c.withScopeCounter = 0
                   /\ name \in DOMAIN c.nameIndexes
                   /\ c.nameIndexes[name] # CATCH_PARAMETER
    IN  IF isLocal
        THEN ExpressionResult("LOCAL", c.nameIndexes[name])
        ELSE ExpressionResult("NAMED", name)

(* A property that is read and then written: its object and name are kept  *)
(* for the write.                                                          *)
keepResolved(c) ==
    IF c.xr.t = "PROPERTY"
    THEN emit(emit(c, "CHECK_RESOLVE_PROPERTY", 0), "REPUSH_2", 0)
    ELSE c

-----------------------------------------------------------------------------
(* Expressions: preOperate, postOperate and the operands they start from.  *)
(* An operator named ..Of or ..To goes on from the compiler its operand    *)
(* has left.                                                               *)

RECURSIVE syntax(_, _, _), statementList(_, _)

expression(c, e) == syntax(c, e, 0)
statement(c, s, end) == syntax(c, s, end)

operandTo(c, e, toPrimitiveOp) == makeRValue(expression(c, e), toPrimitiveOp)
rvalueExpression(c, e) == operandTo(c, e, "none")

functionCall(c, op, args) ==
    Resulting(emit(FoldLeft(rvalueExpression, c, args), op, Len(args)), PUSHED)

(* FUNCTION_CALL, of what c.xr is. *)
callOf(c, args) ==
    CASE c.xr.t = "PROPERTY" -> functionCall(c, "CALL_METHOD", args)
      [] c.xr.t = "NAMED" /\ c.xr.v # "eval" ->
           functionCall(emit(c, "READ_NAMED_WITH_THIS", c.xr.v), "CALL_WITH_THIS", args)
      [] OTHER -> functionCall(makeRValue(c, "none"),
                               IF c.xr.t = "NAMED" THEN "CALL_EVAL" ELSE "CALL", args)

(* NEW_OPERATOR. *)
newOf(c, args) ==
    Resulting(emit(functionCall(c, "NEW", args), "NEW_RESULT", 0), PUSHED)

(* DELETE_OPERATOR. *)
deleteOf(c) ==
    LET constant(value) == ExpressionResult("CONSTANT", <<"boolean", value>>)
    IN  CASE c.xr.t \in {"PUSHED", "PUSHED_PRIMITIVE"} -> Resulting(pop(c), constant(TRUE))
          [] c.xr.t \in {"NONE", "CONSTANT"} -> Resulting(c, constant(TRUE))
          [] c.xr.t = "LOCAL" -> Resulting(c, constant(FALSE))
          [] c.xr.t \in {"NAMED", "PROPERTY"} ->
               Resulting(emit(c, IF c.xr.t = "NAMED" THEN "DELETE_NAMED" ELSE "DELETE",
                              c.xr.v), PUSHED_PRIMITIVE)

typeofOf(c) ==
    Resulting(IF c.xr.t = "NAMED" THEN emit(c, "TYPEOF_NAMED", c.xr.v)
              ELSE emit(makeRValue(c, "none"), "TYPEOF", 0), PUSHED_PRIMITIVE)

(* PRE_INC_DEC and POST_INC_DEC, of what xr is. *)
incrementTo(c, e, xr) ==
    LET before == emit(emit(c, "PLUS", 0),
                       IF xr.t = "PROPERTY" THEN "POST_SHUFFLE" ELSE "REPUSH", 0)
        written == makeAssignment(emit(IF e.post THEN before ELSE c, e.op, 0), xr)
    IN  Resulting(emitIf(e.post, written, "POP", 1), PUSHED_PRIMITIVE)
incrementOf(c, e) == incrementTo(makeRValue(keepResolved(c), "OBJ_TO_NUMBER"), e, c.xr)

(* BINARY: the operands of an addition stay strings, the others become     *)
(* numbers; equality takes them as they are.                               *)
conversion(op) == CASE op = "ADD" -> "OBJ_TO_PRIMITIVE"
                    [] op = "X_EQ" -> "none"
                    [] OTHER -> "OBJ_TO_NUMBER"
binaryExpression(c, e) ==
    LET left == operandTo(c, e.left, conversion(e.op))
    IN  Resulting(emit(operandTo(left, e.right, conversion(e.op)), e.op, 0),
                  PUSHED_PRIMITIVE)

inExpression(c, e) ==
    LET left == operandTo(c, e.left, "OBJ_TO_STRING")
    IN  Resulting(emit(rvalueExpression(left, e.right), "IN", 0), PUSHED_PRIMITIVE)

logicalExpression(c, e) ==
    LET left == emitForwardBranch(rvalueExpression(c, e.left), e.op)
    IN  Resulting(arrive(rvalueExpression(left, e.right), 1), PUSHED)

conditionalExpression(c, e) ==
    LET test == emitForwardBranch(rvalueExpression(c, e.test), "JF")
        then == emitForwardBranch(rvalueExpression(test, e.then), "JMP")
        else == rvalueExpression(arrive(then, 2), e.else)
    IN  Resulting(arrive(else, 1), PUSHED)

(* ASSIGNMENT: the result is what the right side was. *)
assignedTo(c, xr) == Resulting(makeAssignment(c, xr), c.xr)
assignmentOf(c, right) ==
    assignedTo(rvalueExpression(IF c.xr.t = "PROPERTY"
                                THEN emit(c, "CHECK_RESOLVE_PROPERTY", 0) ELSE c, right),
               c.xr)

(* COMPOUND_ASSIGNMENT. *)
compoundOf(c, e) ==
    LET left == makeRValue(keepResolved(c), conversion(e.op))
        changed == emit(operandTo(left, e.right, conversion(e.op)), e.op, 0)
    IN  Resulting(makeAssignment(changed, c.xr), PUSHED_PRIMITIVE)

propertyDot(c, e) ==
    LET object == emit(rvalueExpression(c, e.object), "CHECK_OBJECT_COERCIBLE", 0)
    IN  Resulting(emit(object, "CONST", <<"string", e.name>>),
                  ExpressionResult("PROPERTY", 0))

propertyBrackets(c, e) ==
    LET key == rvalueExpression(rvalueExpression(c, e.object), e.key)
    IN  Resulting(makeRValue(emit(key, "CHECK_RESOLVE_PROPERTY", 0), "OBJ_TO_STRING"),
                  ExpressionResult("PROPERTY", 0))

objectInitialiser(c, e) ==
    LET property(d, p) ==
          emit(rvalueExpression(d, p.value), "ADD_PROPERTY", <<"string", p.name>>)
    IN  Resulting(FoldLeft(property, emit(c, "NEW_OBJECT", 0), e.properties), PUSHED)

(* optionalExpression: what c.xr has on the stack goes before the           *)
(* expression that replaces it.                                             *)
optionalExpression(c, e) == IF e.k = "none" THEN c ELSE expression(discard(c), e)

(* The result of an expression nobody reads. *)
discarded(c, e) == discard(optionalExpression(Resulting(c, NONE), e))

-----------------------------------------------------------------------------
(* Codes. *)

inner(c, s) == statement(c, s, Len(c.scopes))
statementList(c, list) ==
    IF list = <<>> THEN c ELSE inner(statementList(c, Front(list)), Last(list))

(* Compiler::compile, with the Code it fills in: the setup section runs     *)
(* before the main one, and both start with one value on the stack.         *)
reserveIf(condition, c) == IF condition THEN emit(pop(c), "VOID", 0) ELSE c

finished(c, selfName) ==
    [c EXCEPT !.codes = Append(@,
       [codeWords |-> c.setup.code \o c.section.code,
        nameIndexes |-> c.nameIndexes,
        vars |-> Len(c.varNames), arguments |-> Len(c.argumentNames),
        selfName |-> selfName, bloomSet |-> c.bloomSet,
        maxStackDepth |-> larger(c.setup.maxStackDepth, c.section.maxStackDepth)])]

compile(c, body, selfName) ==
    LET evaluating == c.compilingFor = "FOR_EVAL"
        begun == reserveIf(evaluating, c)
        listed == statementList([begun EXCEPT !.scopes = <<SemanticScope("ROOT", "", 1)>>],
                                body)
    IN  finished(emit(reserveIf(~evaluating, listed), "RETURN", 0), selfName)

(* compileFunction: its parameters are the names it starts with. *)
compileFunction(codes, f, selfName) ==
    LET fresh == Compiler("FOR_FUNCTION", codes)
        parameter(d, name) == [Name(d, name, Len(d.argumentNames)) EXCEPT
                                 !.argumentNames = Append(@, name)]
    IN  compile([FoldLeft(parameter, fresh, f.params) EXCEPT
                   !.bloomSet = Range(f.params) \cup {"arguments"}
                                \cup (IF selfName = "" THEN {} ELSE {selfName})],
                f.body, selfName)

(* functionDefinition: another compiler for the function. *)
closure(c, done) ==
    emit([c EXCEPT !.codes = done.codes, !.error = IF @ = "none" THEN done.error ELSE @],
         "GEN_FUNC", Len(done.codes))
functionDefinition(c, f, selfName) == closure(c, compileFunction(c.codes, f, selfName))

-----------------------------------------------------------------------------
(* Declarations. *)

(* declareIdentifier: a function's variables get an index, those of global *)
(* and eval code are declared when the code is entered.                    *)
declaredLater(c, name, func) ==
    IF func THEN emit(c, "DECLARE", name)
    ELSE exchanged(emit(emit(exchanged(c), "VOID", 0), "DECLARE", name))

indexed(c, name) ==
    IF name = "arguments" \/ name \in DOMAIN c.nameIndexes THEN c
    ELSE [Name(c, name, -(Len(c.varNames) + 1)) EXCEPT
            !.varNames = Append(@, name), !.bloomSet = @ \cup {name}]

declaredResult(c, name) ==
    LET isLocal == /\ name # "arguments" /\ c.withScopeCounter = 0
                   /\ c.nameIndexes[name] # CATCH_PARAMETER
    IN  Resulting(c, IF isLocal THEN ExpressionResult("LOCAL", c.nameIndexes[name])
                     ELSE ExpressionResult("NAMED", name))

declareIdentifier(c, name, func) ==
    IF c.compilingFor # "FOR_FUNCTION"
    THEN Resulting(declaredLater(c, name, func), ExpressionResult("NAMED", name))
    ELSE declaredResult(indexed(c, name), name)

(* The value on the stack becomes that of the name. *)
store(c, xr) == Resulting(pop(makeAssignment(c, xr)), xr)

initialised(c, e) == IF e.k = "none" THEN c ELSE store(rvalueExpression(c, e), c.xr)
varDeclaration(c, v) == initialised(declareIdentifier(c, v.name, FALSE), v.init)

assignFunction(c) == IF c.compilingFor = "FOR_FUNCTION" THEN store(c, c.xr) ELSE c
functionStatement(c, f) ==
    exchanged(assignFunction(declareIdentifier(functionDefinition(exchanged(c), f, ""),
                                               f.name, TRUE)))

-----------------------------------------------------------------------------
(* Leaving statements: what a break, a continue or a return undoes of each  *)
(* scope it leaves. *)

entered(c, type, label) ==
    [c EXCEPT !.scopes = Append(@, SemanticScope(type, label, c.section.stackDepth))]
left(c) == [c EXCEPT !.scopes = Front(@)]
innermost(c) == Last(c.scopes)

(* makeIteratorScopes: the labels of a loop are continued as the loop is.   *)
makeIteratorScopes(c, end) ==
    [c EXCEPT !.scopes = SubSeq(@, 1, end) \o
       [i \in 1..(Len(@) - end) |-> [@[end + i] EXCEPT !.type = "ITERATOR_LABEL"]]]
iterator(c, end) == makeIteratorScopes(entered(c, "LABEL", ""), end)

popStack(c, scope, popOp) ==
    LET distance == c.rollbackStackDepth - scope.stackDepthOnEntry
    IN  IF inDeadCode(c.section) \/ distance <= 0 THEN c
        ELSE [emit(c, popOp, distance) EXCEPT !.rollbackStackDepth = scope.stackDepthOnEntry]

popScopeFrame(c, scope) ==
    IF scope.type \in {"CATCH", "WITH", "FINALLY"} THEN emit(c, "POP_FRAME", 0) ELSE c
(* Mutant: the exception of a catch block stays on the stack. *)
popTryStack(c, scope, popOp) ==
    IF scope.type \in {"TRY", "ROOT"} THEN popStack(c, scope, popOp) ELSE c

popScopeStack(c, scope, popOp) ==
    IF scope.type \in {"TRY", "CATCH", "ROOT"} THEN popStack(c, scope, popOp) ELSE c
callFinally(c, i) ==
    [emit(c, "JSR", 0) EXCEPT !.scopes[i].finallys = Append(@, branchPoint(c.section, "JSR"))]

callScopeFinally(c, i) ==
    IF c.scopes[i].type \in {"TRY", "CATCH"} THEN callFinally(c, i) ELSE c

rollback(c, i, popOp) ==
    callScopeFinally(popScopeStack(popScopeFrame(c, c.scopes[i]), c.scopes[i], popOp), i)

(* The scopes inside scope number i, undone from the innermost. *)
rollbackTo(c, i, popOp) ==
    LET undo(d, n) == rollback(d, n, popOp)
    IN  FoldLeft(undo, [c EXCEPT !.rollbackStackDepth = c.section.stackDepth],
                 [n \in 1..(Len(c.scopes) - i) |-> Len(c.scopes) + 1 - n])

isTarget(scope, label) == scope.label = label
                          /\ scope.type \in {"ITERATOR_LABEL", "LABEL"}
leaving(c, i) ==
    popStack(rollbackTo(c, i, evalPopOpcode(c)), c.scopes[i], evalPopOpcode(c))

breakTo(c, i) ==
    [emit(c, "JMP", 0) EXCEPT !.scopes[i].breaks = Append(@, branchPoint(c.section, "JMP"))]
breakStatement(c, label) ==
    LET targets == {i \in DOMAIN c.scopes : isTarget(c.scopes[i], label)}
    IN  IF targets = {} THEN error(c, "SyntaxError")
        ELSE breakTo(leaving(c, Max(targets)), Max(targets))

continueTo(c, i) ==
    [emit(c, "JMP", 0) EXCEPT !.scopes[i].continues = Append(@, branchPoint(c.section, "JMP"))]
continueStatement(c, label) ==
    LET targets == {i \in DOMAIN c.scopes :
                      /\ isTarget(c.scopes[i], label)
                      /\ c.scopes[i].type = "LABEL" => label # ""}
    IN  IF targets = {} \/ c.scopes[Max(targets)].type = "LABEL" THEN error(c, "SyntaxError")
        ELSE continueTo(leaving(c, Max(targets)), Max(targets))

returnStatement(c, e) ==
    IF c.compilingFor # "FOR_FUNCTION" THEN error(c, "SyntaxError")
    ELSE emit(rollbackTo(makeRValue(optionalExpression(Resulting(c, NONE), e), "none"), 0,
                         "PUSH_BACK"), "RETURN", 0)

throwStatement(c, e) == emit(rvalueExpression(c, e), "THROW", 0)

(* Statement e when nothing is made of its value: eval code keeps it.       *)
expressionStatement(c, e) ==
    IF c.compilingFor = "FOR_EVAL"
    THEN makeRValue(optionalExpression(Resulting(c, PUSHED), e), "none")
    ELSE discarded(c, e)

completeIteratorContinues(c, end) ==
    completeForwardBranches(c, FlattenSeq([n \in 1..(Len(c.scopes) - end) |->
                                             nth(c.scopes, n).continues]))
completeIteratorBreaks(c, end) ==
    completeForwardBranches(c, FlattenSeq([n \in 1..(Len(c.scopes) - end) |->
                                             nth(c.scopes, n).breaks]))

-----------------------------------------------------------------------------
(* Statements.  The scopes above number `end` are the labels this statement *)
(* carries; a statement inside another carries none. *)

ifStatement(c, s) ==
    LET then == inner(emitForwardBranch(rvalueExpression(c, s.test), "JF"), s.then)
        elseOf(d) == IF s.else.k = "none" THEN d
                     ELSE inner(arrive(emitForwardBranch(d, "JMP"), 2), s.else)
    IN  arrive(elseOf(then), 1)

whileStatement(c, s, end) ==
    LET begun == iterator(markBackwardBranch(c), end)
        test == emitForwardBranch(rvalueExpression(begun, s.test), "JF")
        body == inner(test, s.body)
        again(d) == emitBackwardBranch(completeIteratorContinues(d, end), "JMP", 2)
    IN  IF failed(body) THEN body ELSE completeIteratorBreaks(arrive(again(body), 1), end)

doWhileStatement(c, s, end) ==
    LET begun == iterator(markBackwardBranch(c), end)
        body == inner(begun, s.body)
        test(d) == rvalueExpression(completeIteratorContinues(d, end), s.test)
    IN  IF failed(body) THEN body
        ELSE completeIteratorBreaks(emitBackwardBranch(test(body), "JT", 1), end)

(* forStatement, its initialisation done: the increment is written aside    *)
(* and put where the continues arrive.                                      *)
forTest(c, e) == IF e.k = "none" THEN hold(c, <<>>)
                 ELSE emitForwardBranch(rvalueExpression(c, e), "JF")
asideHere(c) == asideAt(c, c.section.stackDepth)

(* Mutant: a continue arrives behind the increment. *)
forSkippingIncrement(c, s, end) ==
    LET test == forTest(markBackwardBranch(c), s.test)
        body == inner(back(discarded(asideHere(test), s.increment)), s.body)
        again(d) == emitBackwardBranch(completeIteratorContinues(insertAside(d), end), "JMP", 2)
    IN  IF failed(body) THEN body ELSE completeIteratorBreaks(arrive(again(body), 1), end)

forStatement(c, s, end) ==
    LET test == forTest(markBackwardBranch(c), s.test)
        increment == back(discarded(asideHere(test), s.increment))
        body == inner(increment, s.body)
        again(d) == emitBackwardBranch(insertAside(completeIteratorContinues(d, end)), "JMP", 2)
    IN  IF failed(body) THEN body ELSE completeIteratorBreaks(arrive(again(body), 1), end)

(* forInStatement: the enumerator stays on the stack during the loop, so a  *)
(* continue must leave it there.  The name goes to what was written aside,  *)
(* when anything was.                                                       *)
deepened(c, end) ==
    [c EXCEPT !.scopes = SubSeq(@, 1, end) \o
       [i \in 1..(Len(@) - end) |->
          [@[end + i] EXCEPT !.stackDepthOnEntry = c.section.stackDepth]]]

storeName(c, xr) ==
    IF Last(c.aside).code = <<>> THEN store([c EXCEPT !.aside = Front(@)], xr)
    ELSE returnSafeKept(store(makeRValue(insertAside(safeKeep(c)), "none"), xr))

forInStatement(c, s, end) ==
    LET enumerator == safeKeep(emit(rvalueExpression(c, s.of), "GET_ENUMERATOR", 0))
        loop == makeRValue(markBackwardBranch(deepened(enumerator, end)), "none")
        named == storeName(emitForwardBranch(loop, "NEXT_PROPERTY"), c.xr)
        body == inner(named, s.body)
        again(d) == emitBackwardBranch(completeIteratorContinues(d, end), "JMP", 2)
    IN  IF failed(body) THEN body
        ELSE returnSafeKept(completeIteratorBreaks(arrive(again(body), 1), end))

iteration(c, s) ==
    IF s.vars # <<>> THEN back(asideHere(FoldLeft(varDeclaration, c, s.vars)))
    ELSE back(optionalExpression(asideHere(Resulting(c, NONE)), s.init))
forInitialised(c, s) ==
    IF s.vars # <<>> THEN FoldLeft(varDeclaration, c, s.vars)
    ELSE insertAside(back(discarded(asideHere(c), s.init)))

forOrForInStatement(c, s, end) ==
    IF s.of.k # "none" THEN forInStatement(iteration(iterator(c, end), s), s, end)
    ELSE forStatement(forInitialised(iterator(c, end), s), s, end)

withStatement(c, s) ==
    LET with == entered(emit(rvalueExpression(c, s.object), "WITH_SCOPE", 0), "WITH", "")
        body == left(inner([with EXCEPT !.withScopeCounter = @ + 1], s.body))
    IN  emit([body EXCEPT !.withScopeCounter = @ - 1], "POP_FRAME", 0)

(* switchStatement: the tests are written aside and put after the cases, so *)
(* that the breaks of the cases are branches of the main section.  A clause *)
(* without a test is the default one.  Held are the jump to the tests and   *)
(* then the default clause.                                                 *)
controlResult(c) ==
    ExpressionResult("SAFEKEPT", innermost(c).stackDepthOnEntry
                                 - (IF c.compilingFor = "FOR_EVAL" THEN 2 ELSE 1))
caseClause(c, test) ==
    LET here == markBackwardBranch([c EXCEPT !.section.stackDepth = Last(c.aside).stackDepth])
        control == makeRValue(Resulting(back(here), controlResult(c)), "none")
        equal == emit(rvalueExpression(control, test), "X_EQ", 0)
    IN  back(emitBackwardBranch(equal, "JT", 1))
defaultClause(c) ==
    LET here == markBackwardBranch(
                  [c EXCEPT !.section.stackDepth = innermost(c).stackDepthOnEntry])
    IN  IF nth(c.points, 1) # <<>> THEN error(c, "SyntaxError") ELSE drop(here, 2)
clauseOf(c, clause) ==
    statementList(IF clause.test.k = "none" THEN defaultClause(c)
                  ELSE caseClause(c, clause.test), clause.body)

(* The jumps to the cases, the only JT of the tests, counted from where the *)
(* tests were written.                                                      *)
insertTests(c) ==
    insertAside([c EXCEPT !.aside[Len(c.aside)].code = [i \in DOMAIN @ |->
      IF @[i].op = "JT" THEN [@[i] EXCEPT !.im = @ - Len(c.section.code)] ELSE @[i]]])
jumpToDefault(c) == IF nth(c.points, 2) = <<>> THEN drop(c, 2)
                    ELSE emitBackwardBranch(c, "JMP", 2)
completeBreaks(c) == completeForwardBranches(c, innermost(c).breaks)

switchStatement(c, s) ==
    LET control == entered(safeKeep(rvalueExpression(c, s.on)), "LABEL", "")
        tests(d) == back(asideAt(d, innermost(d).stackDepthOnEntry))
        begun == hold(emitForwardBranch(tests(control), "JMP"), <<>>)
        done == FoldLeft(clauseOf, begun, s.clauses)
        missed(d) == jumpToDefault(insertTests(arrive(emitForwardBranch(d, "JMP"), 3)))
    IN  IF failed(done) THEN done
        ELSE returnSafeKept(left(completeBreaks(arrive(missed(done), 1))))

(* tryStatement.  The try block and the catch block each leave through a    *)
(* JSR to the finally block, which ends the catcher and returns; what the   *)
(* catch block throws, or the try block when nothing catches, goes to the   *)
(* rethrower, which runs the finally block too.  A slot under the exception *)
(* keeps the stack equally deep at every JSR.  Held are, from the first,    *)
(* the JSRs of the try block and its end, the catcher, the JSRs of the      *)
(* catch block and its end.                                                 *)
evalEmit(c, op, im) == IF c.compilingFor = "FOR_EVAL" THEN emit(c, op, im) ELSE c
leftFinallys(c) == hold(left(c), innermost(c).finallys)
moved(c, n) == drop(hold(c, nth(c.points, n)), n + 1)

tryBlock(c, block) ==
    LET trying == evalEmit(emitForwardBranch(entered(c, "TRY", ""), "TRY"), "REPUSH", 0)
        tried == statementList(trying, block)
        called(d) == callFinally(evalEmit(d, "PUSH_BACK", 1), Len(d.scopes))
    IN  IF failed(tried) THEN tried
        ELSE moved(emitForwardBranch(leftFinallys(called(tried)), "JMP"), 3)

catchBlockFrom(c, param, handler) ==
    LET catching == emitForwardBranch(arrive(Name(c, param, CATCH_PARAMETER), 1), "TRY")
        scoped == entered(emit(catching, "CATCH_SCOPE", param), "CATCH", "")
        handled == statementList(scoped, handler)
        called(d) == callFinally(emit(d, "POP_FRAME", 0), Len(d.scopes))
        done == emitForwardBranch(leftFinallys(called(handled)), "JMP")
    IN  IF failed(handled) THEN handled ELSE
        [done EXCEPT !.nameIndexes =
           IF param \in DOMAIN c.nameIndexes THEN [@ EXCEPT ![param] = c.nameIndexes[param]]
           ELSE RestrictDomain(@, LAMBDA n : n # param)]

catchBlock(c, s) ==
    CASE failed(c) -> c
      [] ~failed(c) /\ s.param # "" -> catchBlockFrom(c, s.param, s.handler)
      [] ~failed(c) /\ s.param = "" -> hold(hold(c, <<>>), <<>>)

rethrower(c, depth) ==
    emit(emitForwardBranch(emit(c, "PUSH_BACK", c.section.stackDepth - depth), "JSR"),
         "THROW", 0)

finallyBlock(c, s) ==
    LET begun == evalEmit(entered(c, "FINALLY", ""), "VOID", 0)
    IN  IF s.hasFinally THEN left(evalEmit(statementList(begun, s.finally), "POP", 1)) ELSE c

tryStatementFrom(c, s) ==
    LET caught == catchBlock(tryBlock(c, s.block), s)
        rethrown == rethrower(arrive(caught, 3), c.section.stackDepth)
        tried == arrive(emit(arrive(arrive(rethrown, 5), 3), "TRIED", 0), 1)
        returned == finallyBlock(tried, s)
    IN  IF failed(caught) THEN caught
        ELSE IF failed(returned) THEN returned
        ELSE arrive(arrive(emit(returned, "RETURN", 0), 2), 1)

tryStatement(c, s) ==
    LET evaluating == c.compilingFor = "FOR_EVAL"
        tried == tryStatementFrom(emitIf(~evaluating, c, "VOID", 0), s)
    IN  IF s.param = "" /\ ~s.hasFinally THEN error(c, "SyntaxError")
        ELSE emitIf(~evaluating, tried, "POP", 1)

labelLeft(c) == left(IF innermost(c).type = "ITERATOR_LABEL" THEN c ELSE completeBreaks(c))
labelledStatement(c, s, end) ==
    IF \E i \in DOMAIN c.scopes : c.scopes[i].label = s.label THEN error(c, "SyntaxError")
    ELSE labelLeft(statement(entered(c, "LABEL", s.label), s.body, end))

(* Everything the compiler reads; end is for statements. *)
syntax(c, t, end) ==
    IF failed(c) THEN c ELSE
    CASE t.k = "const" -> Resulting(c, ExpressionResult("CONSTANT", t.value))
      [] t.k = "name" -> Resulting(c, nameResult(c, t.name))
      [] t.k = "this" -> Resulting(emit(c, "THIS", 0), PUSHED)
      [] t.k = "function" -> Resulting(functionDefinition(c, t, t.name), PUSHED)
      [] t.k = "object" -> objectInitialiser(c, t)
      [] t.k = "dot" -> propertyDot(c, t)
      [] t.k = "brackets" -> propertyBrackets(c, t)
      [] t.k = "call" -> callOf(expression(c, t.callee), t.args)
      [] t.k = "new" -> newOf(rvalueExpression(c, t.callee), t.args)
      [] t.k = "delete" -> deleteOf(expression(c, t.of))
      [] t.k = "typeof" -> typeofOf(expression(c, t.of))
      [] t.k = "void" -> discard(expression(c, t.of))
      [] t.k = "not" ->
           Resulting(emit(rvalueExpression(c, t.of), "NOT", 0), PUSHED_PRIMITIVE)
      [] t.k = "increment" -> incrementOf(expression(c, t.of), t)
      [] t.k = "binary" -> binaryExpression(c, t)
      [] t.k = "in" -> inExpression(c, t)
      [] t.k = "logical" -> logicalExpression(c, t)
      [] t.k = "conditional" -> conditionalExpression(c, t)
      [] t.k = "comma" -> rvalueExpression(discard(expression(c, t.left)), t.right)
      [] t.k = "assign" -> assignmentOf(expression(c, t.left), t.right)
      [] t.k = "compound" -> compoundOf(expression(c, t.left), t)
      [] t.k = "expression" -> expressionStatement(c, t.e)
      [] t.k = "var" -> FoldLeft(varDeclaration, c, t.vars)
      [] t.k = "declaration" -> functionStatement(c, t)
      [] t.k = "block" -> statementList(c, t.list)
      [] t.k = "if" -> ifStatement(c, t)
      [] t.k = "while" -> left(whileStatement(c, t, end))
      [] t.k = "do" -> left(doWhileStatement(c, t, end))
      [] t.k = "for" -> left(forOrForInStatement(c, t, end))
      [] t.k = "break" -> breakStatement(c, t.label)
      [] t.k = "continue" -> continueStatement(c, t.label)
      [] t.k = "return" -> returnStatement(c, t.e)
      [] t.k = "throw" -> throwStatement(c, t.e)
      [] t.k = "try" -> tryStatement(c, t)
      [] t.k = "switch" -> switchStatement(c, t)
      [] t.k = "with" -> withStatement(c, t)
      [] t.k = "label" -> labelledStatement(c, t, end)

(* compileGlobalCode and compileEvalCode: a compiler with the Codes it has  *)
(* finished, the last one the script's own, or the error that stopped it.   *)
compiled(target, script, codes) ==
    compile(Compiler(target, codes), script, "")
=============================================================================
