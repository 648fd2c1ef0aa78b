----------------------------- MODULE MCSections -----------------------------
(***************************************************************************)
(* Programs for the data side of the assembler: those the bounds sweep     *)
(* assembles, and all short sequences of lines of every kind; and its      *)
(* saved memory: what one program freezes, damaged in every bit, cut at    *)
(* every length, or intact, thawed into every version of the program.      *)
(***************************************************************************)
EXTENDS GAZLFrozenMemory

Section(kind, label, size) == [k |-> "section", kind |-> kind, label |-> label, size |-> size]
Dat(label, words) == [k |-> "data", label |-> label, words |-> words]
Dati(label, word) == Dat(label, <<Literal(word)>>)
Datp(label, operand) == Dat(label, <<operand>>)
Defp(label, operand) == [k |-> "DEFp", label |-> label, operand |-> operand]
Addp(operand, add) == [k |-> "ADDp", operand |-> operand, add |-> add]
Use(use, operand) == [k |-> "use", use |-> use, operand |-> operand]
Switch(cases) == [k |-> "switch", cases |-> cases]
Func(label) == [k |-> "FUNC", label |-> label]
Unit == [k |-> "unit"]

\* A script is a program without a choice.
Script(script) == [i \in DOMAIN script |-> {script[i]}]

EachUse(operand) == {Use(use, operand) : use \in Uses}

\* sweepFrozenEntries.
FrozenEntries ==
  <<Section("GLOB", NoName, 1), Dati("clock", 7), Section("GLOB", "params", 4), Section("GLOB", "state", 3),
    Dati("gain", 8), Dati("level", 3), Section("GLOB", "head", 3), Dati(NoName, 61), Dati("mid", 62),
    Section("GLOB", NoName, 3), Dati("first", 21), Dati(NoName, 22), Section("GLOB", NoName, 8),
    Dat("multi", <<Literal(31), Literal(32), Literal(33)>>), Dat("text", <<Literal(97), Literal(98), Literal(99)>>),
    Section("TEMP", "scratch", 2), Dati("tmpval", 41), Section("CNST", "table", 2), Dati("entry", 51),
    Defp("alias", At("multi", 1)), Func("main"), Use("PEEK", At("multi", 2))>>

\* sweepUnnamedSections, sweepLabelReach and sweepPointerConstantReach: every edge of each kind of section.
ReachSections ==
  <<Section("GLOB", NoName, 1), Dati("before", 0), Section("GLOB", NoName, 3), Dati("a", 1), Dati("b", 2),
    Dati(NoName, 3), Section("GLOB", NoName, 1), Dati("after", 0), Section("TEMP", "t", 1),
    Section("CNST", NoName, 2), Dati("c", 4), Dati(NoName, 5)>>

Reaches == {At(name, offset) : name \in {"b", "t", "c"}, offset \in -2 .. 2}

DirectReach == Script(ReachSections \o <<Func("main")>>) \o <<UNION {EachUse(operand) : operand \in Reaches}>>
NamedReach ==
  Script(ReachSections) \o <<{Defp("P", operand) : operand \in Reaches}>>
    \o Script(<<Defp("Q", To("P")), Func("main")>>) \o <<EachUse(To("P")) \cup EachUse(To("Q")) \cup EachUse(At("P", 0))>>
LaterReach ==
  Script(ReachSections \o <<Func("main")>>) \o <<EachUse(To("P")) \cup EachUse(At("P", 1))>>
    \o <<{Defp("P", operand) : operand \in Reaches}>>

\* sweepFunctionOffsets.
Offsets == {At(name, 0) : name \in {"R", "NULL", "main", "later", "GAZL_VERSION"}}
             \cup {To(name) : name \in {"NULL", "main", "later", "GAZL_VERSION"}}

\* sweepPointerConstantKinds.
Kinds ==
  Script(<<Section("GLOB", "g", 2)>>)
    \o <<{Addp(At("g", 1), 1), Addp(To("g"), 0), Func("f"), Section("CNST", "h", 1)}>>
    \o <<{Defp("R", operand) : operand \in {Var, To("g"), To("h"), To("NULL"), To("f"), To("GAZL_VERSION")}}>>
    \o <<{Defp("S", To("R")), Unit, Addp(Var, 1), Addp(To("R"), 1)}>>
    \o Script(<<Func("main")>>)
    \o <<UNION {EachUse(operand) : operand \in Offsets \cup {Var, To("R"), To("S"), To("h"), At("g", LargestWord)}}>>
    \o <<{Func("later"), Defp("later", To("NULL")), Defp("later", At("g", 1))}>>

\* Every kind of section, label, unit and reference, in every order.
FreeLine ==
  {Section("GLOB", "s", 2), Section("GLOB", NoName, 2), Section("CNST", "s", 2), Section("TEMP", NoName, 2),
   Dati(NoName, 5), Dati("a", 6), Dat("b", <<>>), Dat("a", <<To("c"), At("s", 1)>>), Datp("b", At("a", -1)),
   Dat("c", <<Literal(7)>>), Func("f"), Switch(1), Unit}

FreePlaces ==
  Script(<<Func("main")>>) \o [i \in 1 .. 4 |-> FreeLine]
    \o <<{Section("GLOB", "e", 1), Section("CNST", "e", 1), Dati("c", 9)}>>

\* One function more than the table has room for, and as many.
Functions == Script(<<Func("f"), Func("main"), Func("later")>>) \o <<{Func("g"), Use("CALL", To("later"))}>>

MCPrograms == {Script(FrozenEntries), DirectReach, NamedReach, LaterReach, Kinds, FreePlaces, Functions}
MCMaxMemory == 48

-----------------------------------------------------------------------------
(***************************************************************************)
(* sweepThawRules.                                                         *)
(***************************************************************************)
Sevens(count) == [i \in 1 .. count |-> Literal(7)]
From == <<Section("GLOB", "a", 2), Dat(NoName, <<Literal(1), Literal(2)>>), Section("GLOB", "b", 1), Dati(NoName, 3),
          Section("GLOB", "c", 1), Dati(NoName, 4)>>
AOf(count) == <<Section("GLOB", "a", count), Dat(NoName, Sevens(count))>>
B == <<Section("GLOB", "b", 1), Dati(NoName, 7)>>
C == <<Section("GLOB", "c", 1), Dati(NoName, 7)>>
D == <<Section("GLOB", "d", 1), Dati(NoName, 7)>>
TempB == <<Section("TEMP", "b", 1), Dati(NoName, 7)>>
Versions ==
  {From, AOf(3) \o B \o C, AOf(1) \o B \o C, AOf(2) \o C, AOf(2) \o B \o C \o D, AOf(2) \o TempB \o C,
   <<Section("GLOB", "s", 2), Dat("a", Sevens(2))>> \o B \o C, C \o B \o AOf(2), C \o B \o AOf(1), <<>>}

\* A program may have a name like the check entry's, and labels that own nothing or what follows them.
Awkward ==
  <<Section("CNST", "table", 1), Dati("entry", 51), Section("GLOB", "$gazl", 1), Dati(NoName, -1),
    Section("GLOB", "x.1", 4), Dati(NoName, 5), Dat("x", <<>>), Dati("y", 6), Dati(NoName, -2147483647),
    Section("TEMP", NoName, 1), Defp("alias", At("y", 1))>>

MCLater(choices) ==
  CASE choices = Script(From) -> {Script(version) : version \in Versions}
    [] choices = Script(Awkward) -> {Script(Awkward), Script(From)}
    [] choices = Script(FrozenEntries) -> {Script(FrozenEntries)}
    [] OTHER -> {}

\* What is written has the bytes of large and of negative words in it.
MCRan(choices) ==
  IF MCLater(choices) = {} THEN {} ELSE {[cell \in 0 .. MCMaxMemory - 1 |-> 20000003 * cell - 400000000]}

MCSaves == MCPrograms \cup {Script(From), Script(Awkward)}

MCNameBytes ==
  [a |-> <<97>>, b |-> <<98>>, c |-> <<99>>, d |-> <<100>>, e |-> <<101>>, f |-> <<102>>, g |-> <<103>>, h |-> <<104>>,
   s |-> <<115>>, t |-> <<116>>, x |-> <<120>>, y |-> <<121>>, P |-> <<80>>, Q |-> <<81>>, R |-> <<82>>, S |-> <<83>>,
   clock |-> <<99, 108, 111, 99, 107>>, params |-> <<112, 97, 114, 97, 109, 115>>,
   state |-> <<115, 116, 97, 116, 101>>, gain |-> <<103, 97, 105, 110>>, level |-> <<108, 101, 118, 101, 108>>,
   head |-> <<104, 101, 97, 100>>, mid |-> <<109, 105, 100>>, first |-> <<102, 105, 114, 115, 116>>,
   multi |-> <<109, 117, 108, 116, 105>>, text |-> <<116, 101, 120, 116>>, main |-> <<109, 97, 105, 110>>,
   scratch |-> <<115, 99, 114, 97, 116, 99, 104>>, tmpval |-> <<116, 109, 112, 118, 97, 108>>,
   table |-> <<116, 97, 98, 108, 101>>, entry |-> <<101, 110, 116, 114, 121>>, alias |-> <<97, 108, 105, 97, 115>>,
   before |-> <<98, 101, 102, 111, 114, 101>>, after |-> <<97, 102, 116, 101, 114>>, later |-> <<108, 97, 116, 101, 114>>]
    @@ [n \in {"$gazl", "x.1"} |-> IF n = "$gazl" THEN CheckName ELSE <<120, 46, 49>>]

MCLabels == DOMAIN MCNameBytes

-----------------------------------------------------------------------------
(***************************************************************************)
(* Damage.                                                                 *)
(***************************************************************************)
Flipped(byte, bit) == IF (byte \div 2 ^ bit) % 2 = 1 THEN byte - 2 ^ bit ELSE byte + 2 ^ bit
WithWord(bytes, p, w) ==
  [i \in DOMAIN bytes |-> IF i \in p + 1 .. p + 4 THEN putMemoryWord(w)[i - p] ELSE bytes[i]]

\* All damage is done to one buffer: what From froze when it had run.
FromSize == 100
IsFrom(bytes) == Len(bytes) = FromSize /\ getMemoryWord(bytes, 60) # 1

MCDamaged(bytes) ==
  {bytes} \cup
  IF ~IsFrom(bytes) THEN {SubSeq(bytes, 1, Len(bytes) - 1), bytes \o <<0, 0, 0, 0>>}
  ELSE {[bytes EXCEPT ![i] = Flipped(@, bit)] : i \in 1 .. FromSize, bit \in 0 .. 7}
         \cup {SubSeq(bytes, 1, n) : n \in 0 .. FromSize}
         \cup {bytes \o <<0, 0, 0, 0>>, WithWord(bytes, 36, 16909061) \o <<0, 0, 0, 0>>}
         \cup {WithWord(bytes, p, w) : p \in {16, 48, 92}, w \in {0, 1, 2, 3, 5, -16, -1, 16777216}}
         \cup {WithWord(bytes, 52, 97 + 120 * 256), WithWord(bytes, 72, 97), WithWord(bytes, 8, 0)}
         \cup {WithWord(bytes, 8, version) : version \in {1, 3, -1}}
=============================================================================
