--------------------------- MODULE MCBoundsPrograms ---------------------------
(***************************************************************************)
(* The program and the memory of MCBoundsSweep: a function for each of the *)
(* sweep's forms, and for those of the instructions that compute and       *)
(* branch.                                                                 *)
(***************************************************************************)
EXTENDS GAZLBoundsProbes, FiniteSets

\* Memory: c and a SWCH table, then in, out and g, then the stack: the frame and three words.
MCBase == 9
MCFunctionBase == 0
MCConstants == 5
MCGlobals == 7
MCStack == 12
rw == MCGlobals + MCStack
MCGuard == MCConstants + rw
Table == 2
MCMemory ==
  [cell \in 0 .. MCGuard |->
     CASE cell < Table -> 20 + cell
       [] cell \in Table .. MCConstants - 1 -> cell - Table + 1
       [] cell \in MCConstants .. MCGuard - 1 -> cell
       [] cell = MCGuard -> 0]

-----------------------------------------------------------------------------
\* rs is what the operator computes, 1 when the branch is taken, or how many cases SWCH skipped.
Operators == <<"ADDI", "SUBI", "MULI", "DIVI", "MODI", "ANDI", "IORI", "XORI", "SHLI", "SHRI", "SHRU">>
Comparisons == <<"FORi", "LSSI", "NLSI", "EQUI", "NEQI">>

Count1 == Ins("ADDI", rs, rs, C(1))
Branching(form) == [form EXCEPT !.after = <<GOTO(2), Count1>>]

OtherForms ==
  [i \in DOMAIN Operators |-> Form(Ins(Operators[i], rs, ix, vl), Zero, Word, Word)]
  \o [i \in DOMAIN Comparisons |-> Branching(Form(Ins(Comparisons[i], ix, vl, C(2)), Zero, Word, Word))]
  \o << Form(Ins("ABSI", rs, ix, Unused), Zero, Word, Zero),
        Form(Ins("ADDF", rs, ix, vl), Zero, {1}, {2}),
        Branching(Form(Ins("LSSF", ix, vl, C(2)), Zero, {1}, {2})),
        [Form(Ins("SWCH", ix, C(2), C(cAddress + Table)), Zero, Word, Zero) EXCEPT !.after = <<Count1, Count1>>] >>

AllForms == AccessForms \o OtherForms

-----------------------------------------------------------------------------
ZeroBased(seq) == [a \in 0 .. Len(seq) - 1 |-> seq[a + 1]]

\* The functions of the forms, one after the other: halves are joined, so that few sequences are copied.
Functions(forms) ==
  LET body(form) == program(form.before \o <<form.probe>> \o form.after)
      bodies[f \in DOMAIN forms, n \in Nat] ==
        IF n = 1 THEN body(forms[f])
        ELSE bodies[f, n \div 2] \o bodies[f + n \div 2, n - n \div 2]
  IN  bodies[1, Len(forms)]

MCForms == ZeroBased(AllForms)
MCInstructions == Functions(AllForms)
MCCodeSize == Len(MCInstructions)
MCProgram == ZeroBased(MCInstructions)
MCCode == [a \in 0 .. MCCodeSize - 1 |-> Abstracted(MCInstructions[a + 1])]

FunctionStarts == {a \in 0 .. MCCodeSize - 1 : MCProgram[a].op = "FUNC"}
MCFunctionCount == Len(AllForms)
MCFunctionTable ==
  [f \in 0 .. MCFunctionCount - 1 |->
     CHOOSE a \in FunctionStarts : Cardinality({b \in FunctionStarts : b < a}) = f]
=============================================================================
