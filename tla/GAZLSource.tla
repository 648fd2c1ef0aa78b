----------------------------- MODULE GAZLSource -----------------------------
(***************************************************************************)
(* What the lines of a program say of its data, read off the source alone: *)
(* the word at each place of each section, the label each word belongs to, *)
(* and the addresses an instruction may access.  GAZLSections's assembler, *)
(* which hands out addresses before it knows the sizes of the regions, cuts*)
(* owners back label by label and patches forward references, must agree.  *)
(***************************************************************************)
EXTENDS GAZLSections, SequencesExt

Lines(kinds) == {i \in DOMAIN lines : lines[i].k \in kinds}

\* What the first numbers of a sequence add up to: of none of them, of one, and so on.
Sums(sizes) ==
  LET sum[i \in 0 .. Len(sizes)] == IF i = 0 THEN 0 ELSE sum[i - 1] + sizes[i] IN sum

(***************************************************************************)
(* A section's place follows from the sizes of those in the same region.   *)
(***************************************************************************)
SectionLines == Lines({"section"})
IsConstant(s) == lines[s].kind = "CNST"

\* The words each line adds to the constants, the tables of switches included, to the globals, and to its section.
ConstantSizes ==
  [i \in DOMAIN lines |-> CASE lines[i].k = "section" /\ IsConstant(i) -> lines[i].size
                            [] lines[i].k = "switch" -> lines[i].cases + 1
                            [] OTHER -> 0]
GlobalSizes ==
  [i \in DOMAIN lines |-> IF lines[i].k = "section" /\ ~IsConstant(i) THEN lines[i].size ELSE 0]
DataSizes ==
  [i \in DOMAIN lines |-> IF lines[i].k = "data" THEN Len(lines[i].words) ELSE 0]

SectionAddress(s) ==
  IF IsConstant(s) THEN MEMORY_OFFSET - Sums(ConstantSizes)[s] ELSE MEMORY_OFFSET + Sums(GlobalSizes)[s - 1]

SectionAt(i) == CHOOSE s \in SectionLines : s <= i /\ \A t \in SectionLines : t <= i => t <= s

DataIn(s) == {i \in Lines({"data"}) : SectionAt(i) = s}
PlaceOf(i) == IF i \in SectionLines THEN 0 ELSE Sums(DataSizes)[i - 1] - Sums(DataSizes)[SectionAt(i)]

-----------------------------------------------------------------------------
(***************************************************************************)
(* Names, and what an operand denotes where it stands.                     *)
(***************************************************************************)
Naming(name) == {i \in Lines({"section", "data", "DEFp", "FUNC"}) : lines[i].label = name}
LineOf(name) == CHOOSE i \in Naming(name) : TRUE
IsNamed(operand) == operand.k = "label" /\ Naming(operand.name) # {}

\* The compile-time variable where line i stands is the last one set in its unit.
Setting(i) == {j \in Lines({"ADDp"}) : j < i /\ \A u \in Lines({"unit"}) : ~(j < u /\ u < i)}
LastSetting(i) == CHOOSE j \in Setting(i) : \A k \in Setting(i) : k <= j

FunctionsBefore(i) == Cardinality({f \in Lines({"FUNC"}) : f < i})

(***************************************************************************)
(* The address each line names or computes, and the line of the section or *)
(* function it was made from: a computed one was made from none.           *)
(***************************************************************************)
Nothing == 0
Computed == -1
Denoted(operand, i, address) ==
  CASE operand.k = "word" -> operand.word
    [] operand.k = "variable" -> address[LastSetting(i)]
    [] IsNamed(operand) -> Plus(address[LineOf(operand.name)], operand.offset)
    [] OTHER -> Predefined[operand.name].value

Addresses ==
  LET address[i \in DOMAIN lines] ==
        LET line == lines[i]
        IN  CASE line.k \in {"section", "data"} -> SectionAddress(SectionAt(i)) + PlaceOf(i)
              [] line.k = "FUNC" -> Plus(FUNCTION_OFFSET, FunctionsBefore(i))
              [] line.k = "DEFp" -> Denoted(line.operand, i, address)
              [] line.k = "ADDp" -> Plus(Denoted(line.operand, i, address), line.add)
  IN  address

Denotes(operand, i) == Denoted(operand, i, Addresses)

Made(operand, origin) ==
  CASE operand.k = "variable" -> Computed
    [] IsNamed(operand) -> origin[LineOf(operand.name)]
    [] OTHER -> Nothing

Origins ==
  LET origin[i \in DOMAIN lines] ==
        CASE lines[i].k \in {"section", "data"} -> SectionAt(i)
          [] lines[i].k = "FUNC" -> i
          [] lines[i].k = "DEFp" -> Made(lines[i].operand, origin)
          [] OTHER -> Computed
  IN  origin

Origin(operand) == Made(operand, Origins)

-----------------------------------------------------------------------------
(***************************************************************************)
(* Layout.                                                                 *)
(***************************************************************************)
WordAt(s, place) ==
  LET holders == {i \in DataIn(s) : PlaceOf(i) <= place /\ place < PlaceOf(i) + Len(lines[i].words)}
  IN  IF holders = {} THEN 0
      ELSE LET i == CHOOSE i \in holders : TRUE IN Denotes(lines[i].words[place - PlaceOf(i) + 1], i)

Places(s) == 0 .. lines[s].size - 1

UsesBefore(i) == Cardinality({j \in Lines({"use", "switch"}) : j < i})

AsWritten ==
  /\ \A s \in SectionLines : \A place \in Places(s) :
       memory[CellAt(SectionAddress(s) + place)] = WordAt(s, place)
  /\ LET taken == UNION {{CellAt(SectionAddress(s) + place) : place \in Places(s)} : s \in SectionLines}
     IN  \A cell \in DOMAIN memory \ taken :
           memory[cell] = IF cell < constantsSize THEN Distance
                          ELSE IF cell = maxMemorySize - 1 THEN 0 ELSE POISON
  /\ \A i \in Lines({"use"}) : code.operands[UsesBefore(i) + 1].address = Denotes(lines[i].operand, i)

(***************************************************************************)
(* declareData, unownedRefused: the words of a GLOB section, which are     *)
(* what freezing saves, belong to exactly one label each, the last one at  *)
(* or before them, whichever of section, data and several labels at one    *)
(* word name them and wherever a unit ends; no other word belongs to two.  *)
(***************************************************************************)
LabelsIn(s) == {i \in DataIn(s) \cup {s} : lines[i].label # NoName}
Owners(s, place) ==
  {i \in LabelsIn(s) : LET owned == globals[lines[i].label].ownedWords
                       IN  PlaceOf(i) <= place /\ place < PlaceOf(i) + owned}

OwnedByTheLastLabel ==
  status = "done" =>
    \A s \in SectionLines : \A place \in Places(s) :
      LET earlier == {i \in LabelsIn(s) : PlaceOf(i) <= place}
      IN  /\ Owners(s, place) = {i \in earlier : \A j \in earlier : j <= i}
          /\ lines[s].kind = "GLOB" => Owners(s, place) # {}

(***************************************************************************)
(* resolve, ! DEFp: an access that run() will not check reaches a word of  *)
(* the section its label is in, writable when it is written, through names *)
(* of names and names defined later too; no function or NULL is accessed   *)
(* as data; and no operand is refused that is as it should be.             *)
(***************************************************************************)
InSection(operand, i) ==
  LET s == Origin(operand)
      address == Denotes(operand, i)
  IN  s \in SectionLines /\ SectionAddress(s) <= address /\ address < SectionAddress(s) + lines[s].size

IsData(operand) == Origin(operand) \in SectionLines \cup {Computed}
IsReadOnly(operand) == Origin(operand) \in SectionLines /\ IsConstant(Origin(operand))
IsNumber(operand) == operand.k = "label" /\ operand.name = "GAZL_VERSION"

\* Only a label of data takes an offset.
OffsetAllowed(operand) ==
  operand.k = "label" /\ operand.given => IsNamed(operand) /\ lines[LineOf(operand.name)].k \in {"section", "data"}

LegalUse(operand, use, i) ==
  CASE use = "PEEK" -> InSection(operand, i)
    [] use = "POKE" -> InSection(operand, i) /\ ~IsReadOnly(operand)
    [] use = "PEEK indexed" -> IsData(operand)
    [] use = "POKE indexed" -> IsData(operand) /\ ~IsReadOnly(operand)
    [] use = "CALL" -> Origin(operand) \in Lines({"FUNC"})
    [] use = "MOVp" -> ~IsNumber(operand)

Operands(i) ==
  CASE lines[i].k = "data" -> {lines[i].words[n] : n \in DOMAIN lines[i].words}
    [] lines[i].k \in {"use", "DEFp", "ADDp"} -> {lines[i].operand}
    [] OTHER -> {}

Legal(operand, i) ==
  /\ OffsetAllowed(operand)
  /\ CASE lines[i].k = "use" -> LegalUse(operand, lines[i].use, i)
       [] lines[i].k = "data" -> TRUE
       [] lines[i].k = "DEFp" -> ~IsNumber(operand)
       [] lines[i].k = "ADDp" -> IsData(operand)

\* An operand of a later name is judged when the program is complete.
Judged(operand, i) ==
  \/ operand.k = "variable" /\ Setting(i) # {}
  \/ operand.k = "label" /\ (IsNamed(operand) \/ operand.name \in DOMAIN Predefined)

AccessesChecked ==
  /\ status = "done" => \A i \in DOMAIN lines : \A operand \in Operands(i) : Legal(operand, i)
  /\ status \in {"OFFSET_OUT_OF_BOUNDS", "INCOMPATIBLE_TYPES"} =>
       \E i \in DOMAIN lines : \E operand \in Operands(i) : Judged(operand, i) /\ ~Legal(operand, i)
=============================================================================
