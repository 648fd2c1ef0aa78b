---------------------------- MODULE NuXJSScopes ----------------------------
(***************************************************************************)
(* The scopes of NuXJS (externals/NuXJS/src/NuXJS.cpp 2411-2592, 2730-2835 *)
(* and 5317-5341): a chain from the innermost one to the global scope, in  *)
(* which each kind finds, writes, deletes and declares names its own way.  *)
(* A function scope has an array of values for the names the compiler      *)
(* knew, and an object for those that code evaluated in it declared and    *)
(* for `arguments`, made when the first of them is asked for: a read may   *)
(* change the heap.                                                        *)
(***************************************************************************)
EXTENDS NuXJSHeap

EvalScope(parent) == Scope("EvalScope", parent)

CatchScope(parent, name, value) ==
    Scope("CatchScope", parent) @@ [exceptionName |-> name, exceptionValue |-> value]

WithScope(parent, object) == Scope("WithScope", parent) @@ [withObject |-> object]

(* calcLocalsSize and the constructor: variables below zero, then the       *)
(* arguments that were passed and those that were not.                      *)
FunctionScope(h, function, args) ==
    LET code == h[h[function].code]
        passed(i) == IF i \in 0..(Len(args) - 1) THEN args[i + 1] ELSE undefined
        last == IF code.arguments > Len(args) THEN code.arguments ELSE Len(args)
    IN  Scope("FunctionScope", h[function].closure)
        @@ [function |-> function, passedArgumentsCount |-> Len(args),
            locals |-> [i \in (-code.vars)..(last - 1) |-> passed(i)],
            dynamicVars |-> None, arguments |-> None, bloomSet |-> code.bloomSet]

codeOf(h, s) == h[h[h[s].function].code]

(* localsPointer: the scopes inside a function share its locals. *)
RECURSIVE localsScope(_, _)
localsScope(h, s) == IF s = None \/ h[s].kind = "FunctionScope" THEN s
                     ELSE localsScope(h, h[s].parentScope)

(* getDynamicVars. *)
withDynamicVars(h, s) ==
    LET vars == fresh(h)
        arguments == fresh(allocated(h, JSObject(None)))
        property == [value |-> ObjectValue(arguments), flags |-> {"DONT_DELETE"}]
        object == [JSObject(None) EXCEPT !.properties = "arguments" :> property]
    IN  IF h[s].dynamicVars # None THEN h
        ELSE [allocated(allocated(h, object), Arguments(h, s))
                EXCEPT ![s].dynamicVars = vars, ![s].arguments = arguments]

-----------------------------------------------------------------------------
(* Which scope has a name, and the heap once it has been looked for. *)

isIndexed(h, s, name) == name \in DOMAIN codeOf(h, s).nameIndexes
isDynamic(h, s, name) ==
    \/ name = "arguments"
    \/ h[s].dynamicVars # None /\ getOwnProperty(h, h[s].dynamicVars, name) # {}

hasVar(h, s, name) ==
    LET kind == h[s].kind
    IN  \/ /\ kind = "FunctionScope" /\ name \in h[s].bloomSet
           /\ \/ isIndexed(h, s, name)
              \/ isDynamic(h, s, name)
              \/ codeOf(h, s).selfName = name
        \/ kind = "CatchScope" /\ h[s].exceptionName = name
        \/ kind = "WithScope" /\ getProperty(h, h[s].withObject, name) # {}
        \/ kind = "GlobalScope"

RECURSIVE holder(_, _, _)
holder(h, s, name) == IF hasVar(h, s, name) THEN s ELSE holder(h, h[s].parentScope, name)

lookedUp(h, s, name) ==
    IF h[s].kind = "FunctionScope" /\ ~isIndexed(h, s, name) /\ name = "arguments"
    THEN withDynamicVars(h, s) ELSE h

(* The variable of that name in the scope that has it: a property, or none. *)
variable(h, s, name) ==
    CASE h[s].kind = "FunctionScope" ->
           IF isIndexed(h, s, name)
           THEN {[value |-> h[s].locals[codeOf(h, s).nameIndexes[name]], flags |-> {"DONT_DELETE"}]}
           ELSE IF isDynamic(h, s, name) THEN getOwnProperty(h, h[s].dynamicVars, name)
           ELSE {[value |-> ObjectValue(h[s].function), flags |-> {"DONT_DELETE", "READ_ONLY"}]}
      [] h[s].kind = "CatchScope" -> {[value |-> h[s].exceptionValue, flags |-> {"DONT_DELETE"}]}
      [] h[s].kind = "WithScope" -> getProperty(h, h[s].withObject, name)
      [] h[s].kind = "GlobalScope" -> getProperty(h, GlobalObject, name)

(* readVar: the heap after it, what was found, and the object of the with   *)
(* statement that had it, the `this` of a call.                             *)
readIn(h, s, name) ==
    [heap |-> h, found |-> variable(h, s, name),
     this |-> IF h[s].kind = "WithScope" THEN ObjectValue(h[s].withObject) ELSE undefined]
readFrom(h, s, name) == readIn(lookedUp(h, s, name), s, name)
readVar(h, s, name) == readFrom(h, holder(h, s, name), name)

-----------------------------------------------------------------------------
(* Writing, deleting and declaring. *)

writeIn(h, s, name, value) ==
    CASE h[s].kind = "FunctionScope" ->
           IF isIndexed(h, s, name)
           THEN [h EXCEPT ![s].locals[codeOf(h, s).nameIndexes[name]] = value]
           ELSE IF isDynamic(h, s, name)
           THEN setOwnProperty(h, h[s].dynamicVars, name, value, {})
           ELSE h
      [] h[s].kind = "CatchScope" -> [h EXCEPT ![s].exceptionValue = value]
      [] h[s].kind = "WithScope" ->
           IF \E p \in getProperty(h, h[s].withObject, name) : "READ_ONLY" \in p.flags THEN h
           ELSE setOwnProperty(h, h[s].withObject, name, value, {})
      [] h[s].kind = "GlobalScope" -> setProperty(h, GlobalObject, name, value)

writeFrom(h, s, name, value) == writeIn(lookedUp(h, s, name), s, name, value)
writeVar(h, s, name, value) == writeFrom(h, holder(h, s, name), name, value)

(* deleteVar: the heap after it and whether the name could be deleted. *)
deleteProperty(h, o, name) ==
    IF isDeletable(h, o, name) THEN [heap |-> deleteOwnProperty(h, o, name), result |-> TRUE]
    ELSE [heap |-> h, result |-> FALSE]

deleteIn(h, s, name) ==
    CASE h[s].kind = "WithScope" -> deleteProperty(h, h[s].withObject, name)
      [] h[s].kind = "GlobalScope" -> deleteProperty(h, GlobalObject, name)
      [] h[s].kind = "FunctionScope" /\ ~isIndexed(h, s, name) /\ isDynamic(h, s, name) ->
           deleteProperty(h, h[s].dynamicVars, name)
      [] OTHER -> [heap |-> h, result |-> FALSE]

deleteFrom(h, s, name) == deleteIn(lookedUp(h, s, name), s, name)
deleteVar(h, s, name) == deleteFrom(h, holder(h, s, name), name)

(* Mutant: the new name is not among those the function may have. *)
DeclaredUnfiltered(h, s, name, value, flags) ==
    LET made == withDynamicVars(h, s)
        declared == setOwnProperty(made, made[s].dynamicVars, name, undefined, flags)
        known == IF isIndexed(h, s, name) THEN h ELSE declared
    IN  IF value = undefined THEN known ELSE writeVar(known, s, name, value)

(* declareVar: code evaluated in a function declares what can be deleted,   *)
(* in the function's scope; what is there already keeps its value unless    *)
(* there is one to give.                                                    *)
declareInFunction(h, s, name, value, flags) ==
    LET made == withDynamicVars(h, s)
        isNew == ~isIndexed(h, s, name) /\ getOwnProperty(made, made[s].dynamicVars, name) = {}
        declared == setOwnProperty(made, made[s].dynamicVars, name, undefined, flags)
        known == IF isIndexed(h, s, name) THEN h
                 ELSE IF isNew THEN [declared EXCEPT ![s].bloomSet = @ \cup {name}] ELSE made
    IN  IF value = undefined THEN known ELSE writeVar(known, s, name, value)

declareGlobally(h, name, value, flags) ==
    IF getOwnProperty(h, GlobalObject, name) = {} \/ value # undefined
    THEN setOwnProperty(h, GlobalObject, name, value, flags) ELSE h

RECURSIVE declareVar(_, _, _, _, _)
declareVar(h, s, name, value, flags) ==
    CASE h[s].kind = "FunctionScope" -> declareInFunction(h, s, name, value, flags)
      [] h[s].kind = "GlobalScope" -> declareGlobally(h, name, value, flags)
      [] h[s].kind = "EvalScope" -> declareVar(h, h[s].parentScope, name, value, {})
      [] OTHER -> declareVar(h, h[s].parentScope, name, value, flags)

-----------------------------------------------------------------------------
(* How long a scope lives. *)

(* Mutant: only the innermost scope is kept. *)
ClosureOfOne(h, s) == [h EXCEPT ![s].deleteOnPop = FALSE]

(* makeClosure: what a function or a finally block still refers to is left  *)
(* to the collector, with all that is around it.                            *)
RECURSIVE makeClosure(_, _)
makeClosure(h, s) ==
    IF h[s].deleteOnPop
    THEN makeClosure([h EXCEPT ![s].deleteOnPop = FALSE], h[s].parentScope)
    ELSE h

(* leave: a scope that was not kept goes when its frame is popped. *)
leave(h, s) == IF h[s].deleteOnPop THEN deletedScope(h, s) ELSE h
=============================================================================
