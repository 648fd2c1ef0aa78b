--------------------------- MODULE NuXJSProcessor ---------------------------
(***************************************************************************)
(* The NuXJS processor (externals/NuXJS/src/NuXJS.cpp 2730-2737, 2848-3395 *)
(* and 5742-5870, NuXJS.h 1600-1755): it runs what the compiler has        *)
(* written for one script, one instruction a step, on a stack of values, a *)
(* chain of frames and a chain of catchers, with the garbage collector     *)
(* between any two instructions.                                           *)
(*                                                                         *)
(* The stack is a sequence: sp is its length, and its first value is the   *)
(* result of the whole run.  An ip is a Code and a place in it, NoIP when  *)
(* nothing runs.  Frames, scopes and catchers are items of the heap like   *)
(* the objects of the script.  A script is named; the text that a script   *)
(* passes to eval is the name of another one.                              *)
(***************************************************************************)
EXTENDS NuXJSCompiler, NuXJSScopes

CONSTANTS
  Sources,         \* the scripts: their names to [target, body]
  StartedScripts,  \* the names of those the host starts
  StackSize,       \* values on the processor's stack
  Collections,     \* how often each started script may be interrupted to collect
  Expected         \* what each started script logs and gives the host

ASSUME SourcesAssumption ==
  /\ StartedScripts \subseteq DOMAIN Sources
  /\ \A s \in StartedScripts : Sources[s].target \in {"FOR_GLOBAL", "FOR_EVAL"}
ASSUME StackSizeAssumption == StackSize \in Nat \ {0}
ASSUME CollectionsAssumption == Collections \in [StartedScripts -> Nat]
ASSUME ExpectedAssumption == DOMAIN Expected = StartedScripts

VARIABLES
  script,         \* what the host runs
  heap,
  currentFrame,
  firstCatcher,
  ip,
  stack,
  evalCodeCache,  \* text of eval code -> its Code
  output,         \* what the script logged
  outcome,        \* NotEnded, or what the host got: a value returned or thrown
  collections     \* collections so far

processor == <<currentFrame, firstCatcher, ip, stack, outcome>>
vars == <<script, heap, processor, evalCodeCache, output, collections>>

NoIP == [code |-> None, at |-> 0]
NotEnded == <<"not ended">>

frame == heap[currentFrame]
scope == frame.scope
instruction == heap[ip.code].codeWords[ip.at]
im == instruction.im
next == [ip EXCEPT !.at = @ + 1]
branched == [ip EXCEPT !.at = @ + 1 + im]

(* sp[-n], and the stack without its n last values. *)
top(n) == stack[Len(stack) - n]
without(n) == SubSeq(stack, 1, Len(stack) - n)

-----------------------------------------------------------------------------
(* What every instruction is made of. *)

(* An instruction of these opcodes that ends with heap h, stack s and ip to. *)
At(ops) == ip # NoIP /\ instruction.op \in ops
Done(h, s, to) ==
    /\ heap' = h
    /\ stack' = s
    /\ ip' = to
    /\ UNCHANGED <<currentFrame, firstCatcher, outcome>>
HeapOnly == UNCHANGED <<script, evalCodeCache, output, collections>>

(* What a host shows of a value. *)
shown(h, v) == IF isObject(v) THEN IF h[v[2]].kind = "Error" THEN <<"error", h[v[2]].type>>
                                   ELSE <<h[v[2]].kind>>
               ELSE v

(* throwVirtualException: to the first catcher, or out of the processor. *)
Throw(h, value) ==
    IF firstCatcher = None
    THEN /\ heap' = h
         /\ currentFrame' = None
         /\ firstCatcher' = None
         /\ ip' = NoIP
         /\ stack' = <<undefined>>
         /\ outcome' = <<"thrown", shown(h, value)>>
    ELSE /\ heap' = freed(h, firstCatcher)
         /\ currentFrame' = h[firstCatcher].frame
         /\ firstCatcher' = h[firstCatcher].nextCatcher
         /\ ip' = h[firstCatcher].ip
         /\ stack' = Append(SubSeq(stack, 1, h[firstCatcher].sp), value)
         /\ UNCHANGED outcome

ThrowError(h, type) == Throw(allocated(h, Error(type)), ObjectValue(fresh(h)))

(* pushFrame, and popFrame of the innermost frame. *)
Frame(returnIP, code, inScope, thisObject) ==
    [kind |-> "Frame", returnIP |-> returnIP, code |-> code, scope |-> inScope,
     thisObject |-> thisObject, previousFrame |-> currentFrame]
PushFrame(h, s, to, newFrame) ==
    /\ heap' = allocated(h, newFrame)
    /\ currentFrame' = fresh(h)
    /\ stack' = s
    /\ ip' = to
    /\ UNCHANGED <<firstCatcher, outcome>>
framePopped == freed(leave(heap, scope), currentFrame)

(* enter: refused when the stack may not hold what the code can push.  The  *)
(* stack is that of the caller with room for the result, sp where it was    *)
(* when the call was made.                                                  *)
Enter(h, sp, s, code, inScope, thisObject) ==
    IF sp - 1 + h[code].maxStackDepth > StackSize THEN ThrowError(h, "RangeError")
    ELSE PushFrame(h, s, [code |-> code, at |-> 1],
                   Frame(IF ip = NoIP THEN NoIP ELSE next, code, inScope,
                         IF thisObject = None THEN GlobalObject ELSE thisObject))

-----------------------------------------------------------------------------
(* Code that is compiled while the processor runs. *)

(* The Codes of a compilation share their constants, among which are those  *)
(* of its functions: each keeps all of them, the script's own only itself.  *)
nthOf(set, n) == CHOOSE i \in set : Cardinality({j \in set : j < i}) = n - 1
asCode(code, new, functions) ==
    [code EXCEPT !.codeWords = [i \in DOMAIN @ |->
        IF @[i].op = "GEN_FUNC" THEN [@[i] EXCEPT !.im = nthOf(new, @)] ELSE @[i]]]
    @@ [kind |-> "Code", unit |-> functions]
placedAt(h, codes, new) ==
    [i \in new |-> asCode(codes[Cardinality({j \in new : j <= i})], new, new \ {Max(new)})] @@ h
loaded(h, codes) ==
    LET all == 1..(Cardinality(DOMAIN h) + Len(codes))
    IN  placedAt(h, codes,
                 {i \in all \ DOMAIN h : Cardinality({j \in 1..i : j \notin DOMAIN h}) <= Len(codes)})

(* The Code of a script is the last one of its compilation. *)
codeLoaded(h, g) == Max(DOMAIN g \ DOMAIN h)

(* EvalFunction::invoke and compileEvalCode: a text is compiled once, until *)
(* the next collection.                                                     *)
EnterEval(h, sp, s, code, direct) ==
    Enter(allocated(h, EvalScope(IF direct THEN scope ELSE GlobalScope)), sp, s, code, fresh(h),
          IF direct THEN frame.thisObject ELSE GlobalObject)

EvalLoaded(h, g, sp, s, text, direct) ==
    /\ evalCodeCache' = (text :> codeLoaded(h, g)) @@ evalCodeCache
    /\ EnterEval(g, sp, s, codeLoaded(h, g), direct)
EvalCompiled(h, sp, s, text, direct, c) ==
    IF c.error # "none" THEN ThrowError(h, c.error) /\ UNCHANGED evalCodeCache
    ELSE EvalLoaded(h, loaded(h, c.codes), sp, s, text, direct)

Eval(h, sp, s, text, direct) ==
    IF text \in DOMAIN evalCodeCache
    THEN EnterEval(h, sp, s, evalCodeCache[text], direct) /\ UNCHANGED evalCodeCache
    ELSE EvalCompiled(h, sp, s, text, direct,
                      compiled("FOR_EVAL", Sources[text].body, <<>>))

(* invoke, for each class of functions.  A function of the host either logs *)
(* its argument or fails with it.                                           *)
Result(h, rest, value) == Done(h, Append(rest, value), next)

InvokeNative(h, sp, f, direct, args, rest) ==
    CASE h[f].name = "log" -> /\ output' = Append(output, shown(h, args[1]))
                              /\ Result(h, rest, undefined)
                              /\ UNCHANGED evalCodeCache
      [] h[f].name = "fail" -> Throw(h, args[1]) /\ UNCHANGED <<output, evalCodeCache>>
      [] h[f].name = "eval" -> /\ IF args # <<>> /\ args[1][1] = "string"
                                  THEN Eval(h, sp, Append(rest, undefined), args[1][2], direct)
                                  ELSE /\ Result(h, rest, IF args = <<>> THEN undefined ELSE args[1])
                                       /\ UNCHANGED evalCodeCache
                               /\ UNCHANGED output

Invoke(h, sp, f, direct, args, rest, thisObject) ==
    /\ IF h[f].kind = "JSFunction"
       THEN /\ Enter(allocated(h, FunctionScope(h, f, args)), sp, Append(rest, undefined),
                     h[f].code, fresh(h), thisObject)
            /\ UNCHANGED <<output, evalCodeCache>>
       ELSE InvokeNative(h, sp, f, direct, args, rest)
    /\ UNCHANGED <<script, collections>>

(* asFunction: anything else cannot be called. *)
isCallable(h, v) == isObject(v) /\ isFunction(h[v[2]])
Refuse(type) == ThrowError(heap, type) /\ HeapOnly

-----------------------------------------------------------------------------
(* Instructions on the stack alone. *)

toBool(v) == CASE v[1] = "object" -> TRUE
               [] v[1] \in {"undefined", "NaN"} -> FALSE
               [] v[1] = "boolean" -> v[2]
               [] v[1] = "number" -> v[2] # 0
               [] v[1] = "string" -> v[2] # ""

(* Arithmetic is on whole numbers: what is none becomes NaN. *)
NaN == <<"NaN">>
isNumber(v) == v[1] = "number"
numeric(v) == IF isNumber(v) THEN v ELSE NaN
offsetBy(v, n) == IF isNumber(v) THEN Number(v[2] + n) ELSE NaN

typeOfString(h, v) ==
    String(CASE isObject(v) -> IF isFunction(h[v[2]]) THEN "function" ELSE "object"
             [] v = NaN -> "number"
             [] OTHER -> v[1])

UNARY == {"INC", "DEC", "PLUS", "NOT", "TYPEOF"}
unary(op, v) ==
    CASE op = "INC" -> offsetBy(v, 1)
      [] op = "DEC" -> offsetBy(v, -1)
      [] op = "PLUS" -> numeric(v)
      [] op = "NOT" -> Boolean(~toBool(v))
      [] op = "TYPEOF" -> typeOfString(heap, v)

BINARY == {"ADD", "SUB", "LT", "X_EQ"}
binary(op, l, r) ==
    CASE op = "ADD" -> IF l[1] = "string" /\ r[1] = "string" THEN String(l[2] \o r[2])
                       ELSE IF isNumber(r) THEN offsetBy(l, r[2]) ELSE NaN
      [] op = "SUB" -> IF isNumber(r) THEN offsetBy(l, -r[2]) ELSE NaN
      [] op = "LT" -> Boolean(isNumber(l) /\ isNumber(r) /\ l[2] < r[2])
      [] op = "X_EQ" -> Boolean(l = r /\ l # NaN)

(* The conversions of the runtime without its library return their argument. *)
CONVERSIONS == {"OBJ_TO_PRIMITIVE", "OBJ_TO_NUMBER", "OBJ_TO_STRING"}

SHUFFLES == {"CONST", "VOID", "THIS", "REPUSH", "REPUSH_2", "SWAP", "POST_SHUFFLE", "POP",
    "PUSH_BACK", "NEW_RESULT"}
shuffled(op) ==
    CASE op = "CONST" -> Append(stack, im)
      [] op = "VOID" -> Append(stack, undefined)
      [] op = "THIS" -> Append(stack, ObjectValue(frame.thisObject))
      [] op = "REPUSH" -> Append(stack, top(-im))
      [] op = "REPUSH_2" -> stack \o <<top(1), top(0)>>
      [] op = "SWAP" -> without(2) \o <<top(0), top(1)>>
      [] op = "POST_SHUFFLE" -> without(3) \o <<top(0), top(2), top(1), top(0)>>
      [] op = "POP" -> without(im)
      [] op = "PUSH_BACK" -> Append(without(im + 1), top(0))
      [] op = "NEW_RESULT" -> Append(without(2), IF isObject(top(0)) THEN top(0) ELSE top(1))

Compute ==
    /\ At(UNARY \cup BINARY \cup CONVERSIONS \cup SHUFFLES)
    /\ Done(heap,
            LET op == instruction.op
            IN  CASE op \in UNARY -> Append(without(1), unary(op, top(0)))
                  [] op \in BINARY -> Append(without(2), binary(op, top(1), top(0)))
                  [] op \in CONVERSIONS -> stack
                  [] op \in SHUFFLES -> shuffled(op),
            next)
    /\ HeapOnly

Branch ==
    /\ At({"JMP", "JT", "JF", "JT_OR_POP", "JF_OR_POP"})
    /\ LET op == instruction.op
           taken == CASE op = "JMP" -> TRUE
                      [] op \in {"JT", "JT_OR_POP"} -> toBool(top(0))
                      [] op \in {"JF", "JF_OR_POP"} -> ~toBool(top(0))
           stays == op = "JMP" \/ (taken /\ op \in {"JT_OR_POP", "JF_OR_POP"})
       IN  Done(heap, IF stays THEN stack ELSE without(1), IF taken THEN branched ELSE next)
    /\ HeapOnly

-----------------------------------------------------------------------------
(* Names. *)

locals == localsScope(heap, scope)

Local ==
    /\ At({"READ_LOCAL", "WRITE_LOCAL", "WRITE_LOCAL_POP"})
    /\ IF instruction.op = "READ_LOCAL"
       THEN Done(heap, Append(stack, heap[locals].locals[im]), next)
       ELSE Done([heap EXCEPT ![locals].locals[im] = top(0)],
                 IF instruction.op = "WRITE_LOCAL" THEN stack ELSE without(1), next)
    /\ HeapOnly

(* A name that no scope has is an error, but not for typeof. *)
ReadTo(r) ==
    CASE instruction.op = "TYPEOF_NAMED" ->
           Done(r.heap, Append(stack, typeOfString(r.heap, valueOf(r.found))), next)
      [] instruction.op # "TYPEOF_NAMED" /\ r.found = {} -> ThrowError(r.heap, "ReferenceError")
      [] OTHER -> Done(r.heap,
                       (IF instruction.op = "READ_NAMED" THEN stack ELSE Append(stack, r.this))
                       \o <<valueOf(r.found)>>,
                       next)
ReadNamed ==
    /\ At({"READ_NAMED", "READ_NAMED_WITH_THIS", "TYPEOF_NAMED"})
    /\ ReadTo(readVar(heap, scope, im))
    /\ HeapOnly

WriteNamed ==
    /\ At({"WRITE_NAMED", "WRITE_NAMED_POP"})
    /\ Done(writeVar(heap, scope, im, top(0)),
            IF instruction.op = "WRITE_NAMED" THEN stack ELSE without(1), next)
    /\ HeapOnly

DeletedTo(rest, r) == Done(r.heap, Append(rest, Boolean(r.result)), next)
DeleteNamed == At({"DELETE_NAMED"}) /\ DeletedTo(stack, deleteVar(heap, scope, im)) /\ HeapOnly

Declare ==
    /\ At({"DECLARE"})
    /\ Done(declareVar(heap, scope, im, top(0), {"DONT_DELETE"}), without(1), next)
    /\ HeapOnly

-----------------------------------------------------------------------------
(* Objects and their properties.  Only objects have any: of the other       *)
(* values, undefined cannot be converted and the scripts use no wrappers.   *)

key(v) == IF v[1] = "string" THEN v[2] ELSE ToString(v[2])

NewObject ==
    /\ At({"NEW_OBJECT"})
    /\ Done(allocated(heap, JSObject(ObjectPrototype)), Append(stack, ObjectValue(fresh(heap))), next)
    /\ HeapOnly

AddProperty ==
    /\ At({"ADD_PROPERTY"})
    /\ Done(setOwnProperty(heap, top(1)[2], key(im), top(0), {}), without(1), next)
    /\ HeapOnly

(* Where the object of a property instruction is. *)
objectAt == ("CHECK_OBJECT_COERCIBLE" :> 0) @@ ("CHECK_RESOLVE_PROPERTY" :> 1)
            @@ ("GET_PROPERTY" :> 1) @@ ("SET_PROPERTY" :> 2) @@ ("SET_PROPERTY_POP" :> 2) @@ ("DELETE" :> 1) @@ ("IN" :> 0)

PropertyOf(h, o) ==
    CASE instruction.op \in {"CHECK_OBJECT_COERCIBLE", "CHECK_RESOLVE_PROPERTY"} ->
           Done(heap, stack, next)
      [] instruction.op = "GET_PROPERTY" ->
           Done(h, Append(without(2), valueOf(getProperty(h, o, key(top(0))))), next)
      [] instruction.op = "SET_PROPERTY" ->
           Done(setProperty(h, o, key(top(1)), top(0)), Append(without(3), top(0)), next)
      [] instruction.op = "SET_PROPERTY_POP" ->
           Done(setProperty(h, o, key(top(1)), top(0)), without(3), next)
      [] instruction.op = "DELETE" -> DeletedTo(without(2), deleteProperty(h, o, key(top(0))))
      [] instruction.op = "IN" ->
           Done(h, Append(without(2), Boolean(getProperty(h, o, key(top(1))) # {})), next)

PropertyFrom(object) ==
    IF isObject(object) THEN PropertyOf(getCompleteObject(heap, object[2]), object[2])
    ELSE ThrowError(heap, "TypeError")
Property ==
    /\ At(DOMAIN objectAt)
    /\ PropertyFrom(top(objectAt[instruction.op]))
    /\ HeapOnly

(* A for-in loop gets the names in an order of the implementation's own.    *)
orders(names) == {s \in [1..Cardinality(names) -> names] : Range(s) = names}
GetEnumerator ==
    /\ At({"GET_ENUMERATOR"})
    /\ IF ~isObject(top(0)) THEN ThrowError(heap, "TypeError")
       ELSE \E s \in orders(enumerable(heap, top(0)[2])) :
              Done(allocated(heap, Enumerator(s)),
                   Append(without(1), ObjectValue(fresh(heap))), next)
    /\ HeapOnly

NextPropertyOf(enumerator) ==
    IF heap[enumerator].names = <<>> THEN Done(heap, without(1), branched)
    ELSE Done([heap EXCEPT ![enumerator].names = Tail(@)],
              Append(without(1), String(Head(heap[enumerator].names))), next)
NextProperty == At({"NEXT_PROPERTY"}) /\ NextPropertyOf(top(0)[2]) /\ HeapOnly

GenFunc ==
    /\ At({"GEN_FUNC"})
    /\ LET h == makeClosure(heap, scope)
       IN  Done(allocated(h, JSFunction(im, scope)), Append(stack, ObjectValue(fresh(h))), next)
    /\ HeapOnly

-----------------------------------------------------------------------------
(* Calls.  The arguments are on top of the stack, below them what is called *)
(* and, for a method, its object.                                           *)

arguments == SubSeq(stack, Len(stack) - im + 1, Len(stack))

CallFunction ==
    /\ At({"CALL", "CALL_EVAL", "CALL_WITH_THIS"})
    /\ LET withThis == instruction.op = "CALL_WITH_THIS"
           object == top(im + 1)
       IN  IF ~isCallable(heap, top(im)) THEN Refuse("TypeError")
           ELSE Invoke(heap, Len(stack), top(im)[2], instruction.op = "CALL_EVAL", arguments,
                       without(IF withThis THEN im + 2 ELSE im + 1),
                       IF withThis /\ isObject(object) THEN object[2] ELSE None)

MethodOf(h, o, f) ==
    IF ~isCallable(h, f) THEN ThrowError(h, "TypeError") /\ HeapOnly
    ELSE Invoke(h, Len(stack), f[2], FALSE, arguments, without(im + 2), o)
MethodFrom(h, o) == MethodOf(h, o, valueOf(getProperty(h, o, key(top(im)))))
CallMethod ==
    /\ At({"CALL_METHOD"})
    /\ IF ~isObject(top(im + 1)) THEN Refuse("TypeError")
       ELSE MethodFrom(getCompleteObject(heap, top(im + 1)[2]), top(im + 1)[2])

(* newOperation: the new object takes the place of the function, and a slot *)
(* of its own while the constructor is entered.                             *)
Construct(h, f, o) ==
    Invoke(h, Len(stack) + 1, f, FALSE, arguments, Append(without(im + 1), ObjectValue(o)), o)
NewFrom(h, f, prototype) ==
    Construct(allocated(h, JSObject(IF isObject(prototype) THEN prototype[2] ELSE ObjectPrototype)),
              f, fresh(h))
NewOf(h, f) == NewFrom(h, f, valueOf(getProperty(h, f, "prototype")))
New ==
    /\ At({"NEW"})
    /\ IF ~isCallable(heap, top(im)) THEN Refuse("TypeError")
       ELSE NewOf(getCompleteObject(heap, top(im)[2]), top(im)[2])

(* RETURN: the run ends with the frame of the script. *)
Return ==
    /\ At({"RETURN"})
    /\ heap' = framePopped
    /\ currentFrame' = frame.previousFrame
    /\ ip' = frame.returnIP
    /\ outcome' = IF frame.returnIP = NoIP THEN <<"returned", shown(heap, top(0))>>
                  ELSE outcome
    /\ UNCHANGED <<firstCatcher, stack>>
    /\ HeapOnly

-----------------------------------------------------------------------------
(* Frames that share the stack of their function, and catchers. *)

JumpToSubroutine ==
    /\ At({"JSR"})
    /\ PushFrame(makeClosure(heap, scope), stack, branched,
                 Frame(next, frame.code, scope, frame.thisObject))
    /\ HeapOnly

ScopeFrame(newScope) ==
    PushFrame(allocated(heap, newScope), without(1), next,
              Frame(next, frame.code, fresh(heap), frame.thisObject))
EnterCatch ==
    At({"CATCH_SCOPE"}) /\ ScopeFrame(CatchScope(scope, im, top(0))) /\ HeapOnly
EnterWith ==
    /\ At({"WITH_SCOPE"})
    /\ IF isObject(top(0)) THEN ScopeFrame(WithScope(scope, top(0)[2]))
       ELSE ThrowError(heap, "TypeError")
    /\ HeapOnly

PopFrame ==
    /\ At({"POP_FRAME"})
    /\ heap' = framePopped
    /\ currentFrame' = frame.previousFrame
    /\ ip' = next
    /\ UNCHANGED <<firstCatcher, stack, outcome>>
    /\ HeapOnly

Try ==
    /\ At({"TRY"})
    /\ heap' = allocated(heap, [kind |-> "Catcher", ip |-> branched, sp |-> Len(stack),
                                frame |-> currentFrame, nextCatcher |-> firstCatcher])
    /\ firstCatcher' = fresh(heap)
    /\ ip' = next
    /\ UNCHANGED <<currentFrame, stack, outcome>>
    /\ HeapOnly

(* Mutant: the catcher stays. *)
TriedForgotten ==
    At({"TRIED"}) /\ Done(heap, stack, next) /\ HeapOnly

Tried ==
    /\ At({"TRIED"})
    /\ heap' = freed(heap, firstCatcher)
    /\ firstCatcher' = heap[firstCatcher].nextCatcher
    /\ ip' = next
    /\ UNCHANGED <<currentFrame, stack, outcome>>
    /\ HeapOnly

ThrowStatement == At({"THROW"}) /\ Throw(heap, top(0)) /\ HeapOnly

-----------------------------------------------------------------------------
(* The host, and the collector. *)

global(i) == [value |-> ObjectValue(i), flags |-> {"DONT_ENUM"}]
InitialHeap ==
    <<[kind |-> "GlobalScope", parentScope |-> None, deleteOnPop |-> FALSE],
      [JSObject(ObjectPrototype) EXCEPT !.properties =
         ("eval" :> global(EvalFunction)) @@ ("log" :> global(6)) @@ ("fail" :> global(7))],
      JSObject(None), JSObject(ObjectPrototype),
      NativeFunction("eval"), NativeFunction("log"), NativeFunction("fail")>>

Init ==
    /\ script \in StartedScripts
    /\ heap = InitialHeap
    /\ currentFrame = None /\ firstCatcher = None
    /\ ip = NoIP
    /\ stack = <<undefined>>
    /\ evalCodeCache = [text \in {} |-> None]
    /\ output = <<>>
    /\ outcome = NotEnded
    /\ collections = 0

(* Runtime::run and Runtime::eval: the script is compiled and entered; one  *)
(* that does not compile never reaches the processor.                       *)
StartLoaded(h) ==
    IF Sources[script].target = "FOR_GLOBAL"
    THEN /\ Enter(h, 1, stack, codeLoaded(heap, h), GlobalScope, GlobalObject)
         /\ UNCHANGED evalCodeCache
    ELSE EvalLoaded(heap, h, 1, stack, script, FALSE)
StartCompiled(c) ==
    /\ IF c.error # "none"
       THEN /\ outcome' = <<"thrown", <<"error", c.error>>>>
            /\ UNCHANGED <<heap, currentFrame, firstCatcher, ip, stack, evalCodeCache>>
       ELSE StartLoaded(loaded(heap, c.codes))
    /\ UNCHANGED <<script, output, collections>>
Start ==
    /\ outcome = NotEnded /\ currentFrame = None
    /\ StartCompiled(compiled(Sources[script].target, Sources[script].body, <<>>))

(* autoGC, between any two instructions: what is on the stack, in the chain *)
(* of frames or in that of catchers is kept, eval code is compiled anew.    *)
roots == {currentFrame, firstCatcher} \cup objectsIn(Range(stack))
Collect ==
    /\ ip # NoIP
    /\ collections < Collections[script]
    /\ heap' = collected(heap, roots)
    /\ evalCodeCache' = [text \in {} |-> None]
    /\ collections' = collections + 1
    /\ UNCHANGED <<script, processor, output>>

Ended == outcome # NotEnded /\ UNCHANGED vars

Run == \/ Start
       \/ Compute \/ Branch
       \/ Local \/ ReadNamed \/ WriteNamed \/ DeleteNamed \/ Declare
       \/ NewObject \/ AddProperty \/ Property \/ GetEnumerator \/ NextProperty \/ GenFunc
       \/ CallFunction \/ CallMethod \/ New \/ Return
       \/ JumpToSubroutine \/ EnterCatch \/ EnterWith \/ PopFrame
       \/ Try \/ Tried \/ ThrowStatement

Next == Run \/ Collect \/ Ended

(* runUntilReturn runs the processor until it returns: weak fairness of Run, *)
(* written out because Run is enabled until there is an outcome, which       *)
(* ENABLED would find out by compiling the script again.                     *)
Fairness == <>[](outcome = NotEnded) => []<><<collections' = collections>>_vars
Spec == Init /\ [][Next]_vars /\ Fairness

-----------------------------------------------------------------------------
(* Properties. *)

(* Every script logs and returns what its source says, however it leaves    *)
(* the statements it is in and whenever the collector comes between.        *)
ScriptsAsWritten ==
    outcome # NotEnded => Expected[script] = [output |-> output, outcome |-> outcome]

(* The frame of a call has a scope of its own; the frames of a finally      *)
(* block, a catch block and a with statement are inside it, and share its   *)
(* part of the stack, which starts where the result of the call goes.       *)
isCall(f) ==
    /\ heap[heap[f].scope].kind \in {"GlobalScope", "FunctionScope", "EvalScope"}
    /\ heap[f].previousFrame # None => heap[f].scope # heap[heap[f].previousFrame].scope

depthAt(at) == heap[at.code].codeWords[at.at].depth

RECURSIVE base(_)
base(f) == CASE ~isCall(f) -> base(heap[f].previousFrame)
             [] isCall(f) /\ heap[f].previousFrame = None -> 0
             [] isCall(f) /\ heap[f].previousFrame # None ->
                  base(heap[f].previousFrame) + depthAt(heap[f].returnIP) - 1

RECURSIVE catchers(_)
catchers(c) == IF c = None THEN {} ELSE {c} \cup catchers(heap[c].nextCatcher)

(* At every instruction the stack is as deep as the compiler counted before *)
(* it, above what the calls around it hold, by whatever jumps, finally      *)
(* blocks and exceptions it came there; and so it will be where each        *)
(* catcher goes to. *)
DepthAsCompiled ==
    ip # NoIP =>
      /\ ip.code = frame.code
      /\ Len(stack) = base(currentFrame) + depthAt(ip)
      /\ Len(stack) - base(currentFrame) <= heap[ip.code].maxStackDepth
      /\ Len(stack) <= StackSize
      /\ \A c \in catchers(firstCatcher) :
           /\ heap[c].ip.code = heap[heap[c].frame].code
           /\ heap[c].sp + 1 = base(heap[c].frame) + depthAt(heap[c].ip)

RECURSIVE frames(_)
frames(f) == IF f = None THEN <<>> ELSE <<f>> \o frames(heap[f].previousFrame)

(* The catchers are those of the frames that run, the innermost first: none *)
(* outlives the function it is in, whether that returned or was left by an  *)
(* exception. *)
CatchersOnChain ==
    LET chain == frames(currentFrame)
        place(c) == CHOOSE i \in DOMAIN chain : chain[i] = heap[c].frame
    IN  \A c \in catchers(firstCatcher) :
          /\ heap[c].frame \in Range(chain)
          /\ heap[c].nextCatcher # None =>
               /\ heap[heap[c].nextCatcher].frame \in Range(chain)
               /\ place(c) <= place(heap[c].nextCatcher)
               /\ heap[c].sp >= heap[heap[c].nextCatcher].sp

(* Whatever the script can still get at is there: no scope is deleted with  *)
(* its frame, and nothing is collected, while something refers to it. *)
NothingDangling ==
    marked(heap, roots \cup Range(evalCodeCache)) \subseteq DOMAIN heap

(* Every script comes to its end. *)
EveryScriptEnds == <>(outcome # NotEnded)
=============================================================================
