----------------------------- MODULE NuXJSHeap -----------------------------
(***************************************************************************)
(* The heap of a NuXJS runtime: garbage-collected items that refer to each *)
(* other by their number, the properties of objects, and what a collection *)
(* marks and sweeps (externals/NuXJS/src/NuXJS.h 700-1215 and NuXJS.cpp    *)
(* 1660-1675, 1730-1935 and 2340-2400).                                    *)
(*                                                                         *)
(* A heap is a function from the numbers in use to items, records whose    *)
(* `kind` is the class.  The items of the runtime itself are always there. *)
(* A value is a tuple that starts with its type; a name is a string.       *)
(***************************************************************************)
EXTENDS Integers, Sequences, FiniteSets, FiniteSetsExt, Functions, TLC

undefined == <<"undefined">>
Boolean(b) == <<"boolean", b>>
Number(n) == <<"number", n>>
String(s) == <<"string", s>>
ObjectValue(i) == <<"object", i>>

isObject(v) == v[1] = "object"

GlobalScope == 1
GlobalObject == 2
ObjectPrototype == 3
FunctionPrototype == 4
EvalFunction == 5

None == 0

-----------------------------------------------------------------------------
(* Items. *)

Scope(kind, parent) == [kind |-> kind, parentScope |-> parent, deleteOnPop |-> TRUE]

JSObject(prototype) == [kind |-> "JSObject", prototype |-> prototype, properties |-> <<>>]
JSFunction(code, closure) ==
    [kind |-> "JSFunction", prototype |-> FunctionPrototype, properties |-> <<>>,
     isComplete |-> FALSE, code |-> code, closure |-> closure]
Error(type) == [kind |-> "Error", prototype |-> ObjectPrototype, properties |-> <<>>,
                type |-> type]
NativeFunction(name) == [kind |-> "NativeFunction", prototype |-> FunctionPrototype,
                         properties |-> <<>>, name |-> name]
Enumerator(names) == [kind |-> "Enumerator", names |-> names]

isFunction(item) == item.kind \in {"JSFunction", "NativeFunction"}

fresh(h) == CHOOSE i \in 1..(Cardinality(DOMAIN h) + 1) :
              i \notin DOMAIN h /\ \A j \in 1..(i - 1) : j \in DOMAIN h

allocated(h, item) == (fresh(h) :> item) @@ h
freed(h, i) == Restrict(h, DOMAIN h \ {i})

-----------------------------------------------------------------------------
(* Arguments: while its function runs, and as long as a closure keeps the  *)
(* scope, the object has no values of its own and reads the parameters.    *)

Arguments(h, scope) ==
    [kind |-> "Arguments", prototype |-> ObjectPrototype,
     scope |-> scope, function |-> h[scope].function,
     count |-> h[scope].passedArgumentsCount, deletedArguments |-> {}, values |-> <<>>,
     properties |-> ("length" :> [value |-> Number(h[scope].passedArgumentsCount),
                                  flags |-> {"DONT_ENUM"}])
                    @@ ("callee" :> [value |-> ObjectValue(h[scope].function),
                                     flags |-> {"DONT_ENUM"}])]

(* detach: the values are copied out when the scope goes. *)
detached(h, a) ==
    LET scope == h[h[a].scope]
    IN  [h EXCEPT ![a].values = [i \in 0..(h[a].count - 1) |-> scope.locals[i]],
                  ![a].scope = None]

(* findProperty: the arguments that are still properties of the object. *)
argumentIndex(item, name) ==
    {i \in 0..(item.count - 1) : ToString(i) = name /\ i \notin item.deletedArguments}

argumentValue(h, item, i) ==
    IF item.scope = None THEN item.values[i] ELSE h[item.scope].locals[i]

(* What happens to a scope that is deleted, by the processor or by the     *)
(* collector: its arguments object, if it made one, is detached.           *)
deletedScope(h, s) ==
    LET hasArguments == h[s].kind = "FunctionScope" /\ h[s].arguments # None
    IN  freed(IF hasArguments /\ h[s].arguments \in DOMAIN h
              THEN detached(h, h[s].arguments) ELSE h, s)

-----------------------------------------------------------------------------
(* Properties.  A property is [value, flags]; getOwnProperty gives the set *)
(* of the properties of that name, empty or a singleton.                   *)

getOwnProperty(h, o, name) ==
    LET item == h[o]
        i == IF item.kind = "Arguments" THEN argumentIndex(item, name) ELSE {}
    IN  CASE i # {} -> {[value |-> argumentValue(h, item, CHOOSE n \in i : TRUE),
                         flags |-> {"DONT_ENUM"}]}
          [] i = {} /\ name \in DOMAIN item.properties -> {item.properties[name]}
          [] OTHER -> {}

RECURSIVE getProperty(_, _, _)
getProperty(h, o, name) ==
    IF o = None THEN {}
    ELSE LET own == getOwnProperty(h, o, name)
         IN  IF own # {} THEN own ELSE getProperty(h, h[o].prototype, name)

valueOf(found) == IF found = {} THEN undefined ELSE (CHOOSE p \in found : TRUE).value

(* setOwnProperty with the standard flags or more: a property that is      *)
(* there keeps its flags and one that is read-only its value.              *)
setOwnProperty(h, o, name, value, flags) ==
    LET item == h[o]
        i == IF item.kind = "Arguments" THEN argumentIndex(item, name) ELSE {}
        index == CHOOSE n \in i : TRUE
        isThere == name \in DOMAIN item.properties
        kept == IF isThere THEN item.properties[name].flags ELSE {}
        property == [value |-> value, flags |-> kept \cup flags]
    IN  CASE i # {} /\ item.scope = None -> [h EXCEPT ![o].values[index] = value]
          [] i # {} /\ item.scope # None -> [h EXCEPT ![item.scope].locals[index] = value]
          [] i = {} /\ "READ_ONLY" \in kept -> h
          [] OTHER -> [h EXCEPT ![o].properties = (name :> property) @@ @]

(* setProperty: a read-only property of a prototype prevents it. *)
setProperty(h, o, name, value) ==
    LET own == getOwnProperty(h, o, name)
        inherited == getProperty(h, h[o].prototype, name)
        prevented == own = {} /\ \E p \in inherited : "READ_ONLY" \in p.flags
    IN  IF prevented THEN h ELSE setOwnProperty(h, o, name, value, {})

isDeletable(h, o, name) ==
    \A p \in getOwnProperty(h, o, name) :
       argumentIndex(IF h[o].kind = "Arguments" THEN h[o] ELSE [count |-> 0], name) = {}
       => "DONT_DELETE" \notin p.flags

(* deleteOwnProperty, of a property that isDeletable. *)
deleteOwnProperty(h, o, name) ==
    LET i == IF h[o].kind = "Arguments" THEN argumentIndex(h[o], name) ELSE {}
    IN  IF i # {} THEN [h EXCEPT ![o].deletedArguments = @ \cup i]
        ELSE [h EXCEPT ![o].properties = Restrict(@, DOMAIN @ \ {name})]

(* The prototype object of a function is made when a property of the       *)
(* function is first asked for.                                            *)
getCompleteObject(h, o) ==
    LET prototype == [JSObject(ObjectPrototype) EXCEPT
                        !.properties = "constructor" :>
                           [value |-> ObjectValue(o), flags |-> {"DONT_ENUM"}]]
        property == "prototype" :> [value |-> ObjectValue(fresh(h)), flags |-> {"DONT_DELETE"}]
    IN  IF h[o].kind = "JSFunction" /\ ~h[o].isComplete
        THEN [allocated(h, prototype) EXCEPT ![o].isComplete = TRUE, ![o].properties = property]
        ELSE h

(* getPropertyEnumerator: the names of an object and its prototypes that   *)
(* can be enumerated and are not hidden by one that cannot.                *)
RECURSIVE enumerable(_, _)
enumerable(h, o) ==
    IF o = None THEN {}
    ELSE LET own == DOMAIN h[o].properties
             hidden == {n \in own : "DONT_ENUM" \in h[o].properties[n].flags}
         IN  (own \ hidden) \cup (enumerable(h, h[o].prototype) \ own)

-----------------------------------------------------------------------------
(* Collection. *)

valuesOf(f) == {f[i] : i \in DOMAIN f}
objectsIn(values) == {v[2] : v \in {w \in values : isObject(w)}}
propertiesOf(item) == objectsIn({p.value : p \in valuesOf(item.properties)})

(* gcMarkReferences of each class: an arguments object does not mark its   *)
(* scope, and has no values to mark while it has a scope.                  *)
references(item) ==
    CASE item.kind = "Frame" ->
           {item.code, item.scope, item.thisObject, item.previousFrame}
      [] item.kind = "Catcher" -> {item.frame, item.nextCatcher}
      [] item.kind = "FunctionScope" ->
           {item.parentScope, item.function, item.dynamicVars, item.arguments}
           \cup objectsIn(valuesOf(item.locals))
      [] item.kind = "CatchScope" -> {item.parentScope} \cup objectsIn({item.exceptionValue})
      [] item.kind = "WithScope" -> {item.parentScope, item.withObject}
      [] item.kind \in {"EvalScope", "GlobalScope"} -> {item.parentScope}
      [] item.kind = "JSFunction" ->
           {item.code, item.closure, item.prototype} \cup propertiesOf(item)
      [] item.kind = "Arguments" ->
           {item.function, item.prototype} \cup objectsIn(valuesOf(item.values))
           \cup propertiesOf(item)
      [] item.kind = "Code" -> item.unit
      [] item.kind = "Enumerator" -> {}
      [] OTHER -> {item.prototype} \cup propertiesOf(item)

(* The numbers reached from some roots, whether or not they are in use. *)
RECURSIVE reached(_, _, _)
reached(h, seen, next) ==
    IF next = {} THEN seen
    ELSE LET all == seen \cup next
             more == UNION {references(h[i]) : i \in next \cap DOMAIN h}
         IN  reached(h, all, more \ (all \cup {None}))

runtimeItems == {GlobalScope, GlobalObject, ObjectPrototype, FunctionPrototype, EvalFunction}

marked(h, roots) == reached(h, {}, (roots \cup runtimeItems) \ {None})

(* Heap::gc: everything that is not marked is deleted, a scope with what   *)
(* its deletion does.                                                      *)
collected(h, roots) ==
    LET kept == marked(h, roots)
        scopes == {s \in DOMAIN h \ kept : h[s].kind = "FunctionScope"
                                           /\ h[s].arguments \in kept}
        detach(g, s) == detached(g, g[s].arguments)
    IN  Restrict(FoldSet(LAMBDA s, g : detach(g, s), h, scopes), kept \cap DOMAIN h)
=============================================================================
