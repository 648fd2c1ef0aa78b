----------------------------- MODULE NuXJSCode -----------------------------
(***************************************************************************)
(* What the NuXJS compiler writes: instructions, the sections it writes    *)
(* them into, and the branches between them.  A section counts the depth   *)
(* of the value stack as it goes; after an instruction that never falls    *)
(* through it is in dead code and drops what is emitted until a branch     *)
(* arrives (externals/NuXJS/src/NuXJS.cpp 2640-2735 and 3645-3765).        *)
(*                                                                         *)
(* An instruction is [op, im, depth]: the packed opcode and operand, and   *)
(* the depth the compiler counted before it.  The depth is not stored by   *)
(* the code: it is what the processor's stack is compared with.  A branch  *)
(* operand counts instructions from the next one, an operand that the code *)
(* looks up in the constants is the constant itself.                       *)
(***************************************************************************)
EXTENDS Integers, Sequences, SequencesExt

(* DEAD_CODE_STACK_DEPTH: a depth no section counts. *)
Dead == -1000000

(* Change of the stack depth by an instruction, its operand aside. *)
Pushing == {"CONST", "READ_LOCAL", "READ_NAMED", "REPUSH", "POST_SHUFFLE", "NEW",
    "NEW_OBJECT", "THIS", "VOID", "DELETE_NAMED", "GEN_FUNC", "TYPEOF_NAMED"}
Popping == {"ADD", "SUB", "LT", "X_EQ", "IN", "WRITE_LOCAL_POP", "WRITE_NAMED_POP",
    "GET_PROPERTY", "ADD_PROPERTY", "JT", "JF", "JT_OR_POP", "JF_OR_POP",
    "CALL_METHOD", "CALL_WITH_THIS", "NEW_RESULT", "RETURN", "DELETE", "DECLARE",
    "CATCH_SCOPE", "WITH_SCOPE", "THROW"}
stackUse(op) ==
    CASE op \in Pushing -> 1
      [] op \in Popping -> -1
      [] op \in {"REPUSH_2", "READ_NAMED_WITH_THIS"} -> 2
      [] op = "SET_PROPERTY" -> -2
      [] op = "SET_PROPERTY_POP" -> -3
      [] OTHER -> 0

(* The flags of the opcodes. *)
TERMINAL == {"JMP", "RETURN", "THROW"}
POP_OPERAND == {"POP", "PUSH_BACK", "CALL", "CALL_METHOD", "CALL_EVAL", "NEW",
    "CALL_WITH_THIS"}
NO_POP_ON_BRANCH == {"JT_OR_POP", "JF_OR_POP", "TRY"}
POP_ON_BRANCH == {"NEXT_PROPERTY"}

(* A write followed by a pop is one instruction, a value that is popped at *)
(* once is never pushed. *)
popped == [WRITE_LOCAL |-> "WRITE_LOCAL_POP", WRITE_NAMED |-> "WRITE_NAMED_POP",
           SET_PROPERTY |-> "SET_PROPERTY_POP"]
pointless == {"REPUSH", "CONST", "VOID"}

CodeSection(depth) ==
    [code |-> <<>>, lastEmitted |-> "none", initialStackDepth |-> depth,
     stackDepth |-> depth, maxStackDepth |-> depth]

inDeadCode(section) == section.stackDepth = Dead

larger(a, b) == IF a > b THEN a ELSE b

(* CodeSection::emit: the depth after the instruction, then its place. *)
counted(section, op, depth) ==
    [section EXCEPT !.stackDepth = IF op \in TERMINAL THEN Dead ELSE depth,
                    !.maxStackDepth = larger(@, depth)]

placed(section, op, im, depth) ==
    LET pops == op = "POP" /\ im = 1
    IN  CASE pops /\ section.lastEmitted \in DOMAIN popped ->
               [section EXCEPT !.code[Len(section.code)].op = popped[section.lastEmitted],
                               !.lastEmitted = popped[section.lastEmitted]]
          [] pops /\ section.lastEmitted \in pointless ->
               [section EXCEPT !.code = Front(@), !.lastEmitted = "none"]
          [] OTHER ->
               [section EXCEPT !.code = Append(@, [op |-> op, im |-> im, depth |-> depth]),
                               !.lastEmitted = op]

emitted(section, op, im) ==
    LET popping == IF op \in POP_OPERAND THEN im ELSE 0
    IN  IF inDeadCode(section) THEN section
        ELSE placed(counted(section, op, section.stackDepth + stackUse(op) - popping),
                    op, im, section.stackDepth)

(* insertSection: another section's code at the end of this one. *)
insertedAt(section, other, adjust) ==
    [section EXCEPT
       !.lastEmitted = "none",
       !.code = @ \o [i \in DOMAIN other.code |->
                        [other.code[i] EXCEPT !.depth = @ + adjust]],
       !.stackDepth = other.stackDepth + adjust,
       !.maxStackDepth = larger(@, other.maxStackDepth + adjust)]

inserted(section, other) ==
    insertedAt(section, other, section.stackDepth - other.initialStackDepth)

-----------------------------------------------------------------------------
(* Branches of the section a compiler c is writing, c.section.  The points  *)
(* that the functions of the compiler hold in variables, the branches not   *)
(* yet completed and the places to branch back to, are c.points, each with  *)
(* those completed together and the last one first.                         *)

emit(c, op, im) == [c EXCEPT !.section = emitted(@, op, im)]

nth(s, n) == s[Len(s) + 1 - n]
hold(c, points) == [c EXCEPT !.points = Append(@, points)]
drop(c, n) == [c EXCEPT !.points = RemoveAt(@, Len(@) + 1 - n)]

branchPoint(section, op) ==
    [at |-> Len(section.code) + 1,
     depth |-> IF inDeadCode(section) THEN Dead
               ELSE section.stackDepth + stackUse(op)
                    + (IF op \in NO_POP_ON_BRANCH THEN 1 ELSE 0)
                    - (IF op \in POP_ON_BRANCH THEN 1 ELSE 0)]

emitForwardBranch(c, op) == hold(emit(c, op, 0), <<branchPoint(c.section, op)>>)

completeForwardBranch(c, point) ==
    IF point.depth = Dead THEN c
    ELSE [c EXCEPT
            !.section.lastEmitted = "none",
            !.section.stackDepth = point.depth,
            !.section.maxStackDepth = larger(@, point.depth),
            !.section.code[point.at].im = Len(c.section.code) - point.at]

completeForwardBranches(c, points) ==
    IF points = <<>> THEN c ELSE FoldLeft(completeForwardBranch, c, points)

(* The n-th points held arrive here. *)
arrive(c, n) == drop(completeForwardBranches(c, nth(c.points, n)), n)

markBackwardBranch(c) ==
    hold([c EXCEPT !.section.lastEmitted = "none"],
         <<[at |-> Len(c.section.code), depth |-> c.section.stackDepth]>>)

emitBackwardBranch(c, op, n) ==
    drop(IF inDeadCode(c.section) THEN c
         ELSE emit(c, op, nth(c.points, n)[1].at - 1 - Len(c.section.code)), n)
=============================================================================
