-------------------------- MODULE GAZLFrozenMemory --------------------------
(***************************************************************************)
(* freezeMemory and thawMemory: the words of the GLOB sections, saved by   *)
(* name from one assembled program and restored into another, which may be *)
(* a later version of it.  Either program may have run in between, and     *)
(* left other words in memory than it was assembled with.  What is thawed  *)
(* may be any bytes.  A word is a signed 32-bit integer here, and a byte 0 *)
(* to 255.                                                                 *)
(***************************************************************************)
EXTENDS GAZLSource

CONSTANTS
  VERSION,          \* the GAZL version
  WORD_SIZE,        \* in bits
  NameBytes,        \* the bytes of every name
  Ran(_),           \* bound: the memories that runs of a program may leave
  Later(_),         \* the programs that may thaw what a program froze
  Damaged(_)        \* what may become of frozen bytes before they are thawed

Byte == 0 .. 255

isValidIdentifierChar(c) == c \in {95, 46, 36} \cup 48 .. 57 \cup 65 .. 90 \cup 97 .. 122
isValidIdentifier(name) ==
  /\ name # <<>>
  /\ \A i \in DOMAIN name : isValidIdentifierChar(name[i])
  /\ name[1] \notin 48 .. 57

ASSUME FrozenAssumption ==
  /\ NameBytes \in [Labels -> Seq(Byte)]
  /\ \A m, n \in Labels : m # n => NameBytes[m] # NameBytes[n]
  /\ \A n \in Labels : isValidIdentifier(NameBytes[n]) /\ Len(NameBytes[n]) <= LargestWord
  /\ {VERSION, WORD_SIZE} \subseteq {n \in Nat \ {0} : n <= LargestWord}
  /\ \A p \in Programs : Later(p) \subseteq Seq(SUBSET AnyLine)

VARIABLES
  saved,            \* what the first program froze, with the lines and words it had
  thaw,             \* thawMemory in progress
  ran               \* the program in memory has run since it was assembled

thawVars == <<vars, saved, thaw, ran>>

-----------------------------------------------------------------------------
(***************************************************************************)
(* Bytes.                                                                  *)
(***************************************************************************)
putMemoryWord(w) == <<w % 256, (w \div 256) % 256, (w \div 65536) % 256, (w \div 16777216) % 256>>

\* Of buffer, from offset p on.
Bytes(buffer, p, count) == SubSeq(buffer, p + 1, p + count)
getMemoryWord(buffer, p) ==
  LET top == buffer[p + 4]
  IN  buffer[p + 1] + buffer[p + 2] * 256 + buffer[p + 3] * 65536
        + (IF top < 128 THEN top ELSE top - 256) * 16777216

\* An unsigned word greater than a size.
Above(word, size) == word < 0 \/ word > size

minimum(a, b) == IF a < b THEN a ELSE b
memoryPadding(nameLength) == (4 - (nameLength % 4)) % 4
Zeros(count) == [i \in 1 .. count |-> 0]

MEMORY_MAGIC == <<71, 90, 77, 77>>
MEMORY_FORMAT_VERSION == 1
MEMORY_HEADER_SIZE == 20
MEMORY_CHECK_SIZE == 28
CheckName == <<36, 103, 97, 122, 108>>
CheckWords == <<16909060, 1065353216, 2139095041>>

putMemoryEntry(name, words) ==
  putMemoryWord(Len(name)) \o name \o Zeros(memoryPadding(Len(name)))
    \o putMemoryWord(Len(words)) \o FlattenSeq([i \in DOMAIN words |-> putMemoryWord(words[i])])

Check == [name |-> CheckName, words |-> CheckWords]
putMemoryCheck == putMemoryEntry(Check.name, Check.words)

\* Byte order, then length.
Precedes(a, b) ==
  \E n \in 0 .. Len(a) :
    /\ n < Len(b)
    /\ SubSeq(a, 1, n) = SubSeq(b, 1, n)
    /\ n = Len(a) \/ a[n + 1] < b[n + 1]

-----------------------------------------------------------------------------
(***************************************************************************)
(* Owners: labels in GLOB sections that own words, by ascending name.      *)
(***************************************************************************)
\* Mutant: a label's words are counted from the start of memory, where the constants are.
OwnerFromStart(name) ==
  [name |-> NameBytes[name], first |-> globals[name].value - MEMORY_OFFSET, ownedWords |-> globals[name].ownedWords]

Owner(name) ==
  [name |-> NameBytes[name], first |-> CellAt(globals[name].value), ownedWords |-> globals[name].ownedWords]

GlobNames == {n \in defined : InGlob(globals[n].types) /\ globals[n].ownedWords # 0}

findMemoryOwners ==
  LET found == {Owner(n) : n \in GlobNames}
      Rank(owner) == Cardinality({other \in found : Precedes(other.name, owner.name)})
  IN  [i \in 1 .. Cardinality(found) |-> CHOOSE owner \in found : Rank(owner) = i - 1]

WordsOf(owner) == SubSeq([i \in 1 .. maxMemorySize |-> memory[i - 1]], owner.first + 1, owner.first + owner.ownedWords)

EntrySize(nameLength, wordCount) == 4 + nameLength + memoryPadding(nameLength) + 4 + wordCount * 4

frozenSize(owners) ==
  MEMORY_HEADER_SIZE + MEMORY_CHECK_SIZE
    + Sums([o \in DOMAIN owners |-> EntrySize(Len(owners[o].name), owners[o].ownedWords)])[Len(owners)]

\* What is saved, and the bytes that a version writes for it: the check entry is written exactly as any other.
OwnersSaved ==
  [o \in DOMAIN findMemoryOwners |-> [name |-> findMemoryOwners[o].name, words |-> WordsOf(findMemoryOwners[o])]]

Header(version, count) ==
  MEMORY_MAGIC \o putMemoryWord(MEMORY_FORMAT_VERSION) \o putMemoryWord(version) \o putMemoryWord(WORD_SIZE)
    \o putMemoryWord(count)

FrozenAs(version, saves) ==
  LET all == <<Check>> \o saves
  IN  Header(version, Len(all)) \o FlattenSeq([i \in DOMAIN all |-> putMemoryEntry(all[i].name, all[i].words)])

Frozen == FrozenAs(VERSION, OwnersSaved)

-----------------------------------------------------------------------------
(***************************************************************************)
(* The host: asks for the size, freezes, and loads into another program.   *)
(***************************************************************************)
NotSaved == [size |-> 0, bytes |-> <<>>, lines |-> <<>>, memory |-> <<>>]
Thaw(step) ==
  [at |-> step, buffer |-> <<>>, prefix |-> FALSE, p |-> 0, left |-> 0, entries |-> <<>>,
   e |-> 1, o |-> 1, exact |-> TRUE, status |-> "none", before |-> <<>>]

FrozenInit ==
  /\ Init
  /\ saved = NotSaved
  /\ thaw = Thaw("none")
  /\ ran = FALSE

Assemble ==
  /\ Next
  /\ UNCHANGED <<saved, thaw, ran>>

\* What run() may have written before the host freezes or thaws: any word of the globals and the stacks.
rwCells == constantsSize .. maxMemorySize - 2

RunProgram ==
  /\ status = "done"
  /\ \/ thaw.at = "none" /\ saved.bytes = <<>>
     \/ thaw.at = "assemble"
  /\ \E words \in Ran(program) \cap [0 .. maxMemorySize - 1 -> Word] :
       memory' = [cell \in DOMAIN memory |-> IF cell \in rwCells THEN words[cell] ELSE memory[cell]]
  /\ ran' = TRUE
  /\ UNCHANGED <<program, lines, globalsPointer, constantsPointer, globals, forwardRefs, data, code,
                 variable, status, saved, thaw>>

freezeMemorySize ==
  /\ status = "done"
  /\ saved = NotSaved
  /\ Later(program) # {}
  /\ saved' = [saved EXCEPT !.size = frozenSize(findMemoryOwners)]
  /\ UNCHANGED <<vars, thaw, ran>>

freezeMemory ==
  /\ saved.size # 0
  /\ saved.bytes = <<>>
  /\ saved' = [saved EXCEPT !.bytes = Frozen, !.lines = lines, !.memory = memory]
  /\ UNCHANGED <<vars, thaw, ran>>

\* Another process: the program that thaws is assembled from nothing.
Restart ==
  /\ saved.bytes # <<>>
  /\ thaw.at = "none"
  /\ program' \in Later(program)
  /\ lines' = <<>>
  /\ memory' = [cell \in 0 .. maxMemorySize - 1 |-> IF cell = maxMemorySize - 1 THEN 0 ELSE OldWord]
  /\ globalsPointer' = 0
  /\ constantsPointer' = maxMemorySize - 1
  /\ globals' = Predefined
  /\ forwardRefs' = <<>>
  /\ data' = NoSection
  /\ code' = [operands |-> <<>>, switches |-> {}, open |-> FALSE, functions |-> 0]
  /\ variable' = {}
  /\ status' = "feeding"
  /\ thaw' = Thaw("assemble")
  /\ ran' = FALSE
  /\ UNCHANGED saved

-----------------------------------------------------------------------------
(***************************************************************************)
(* thawMemory.                                                             *)
(***************************************************************************)
Refused(error) == thaw' = [thaw EXCEPT !.at = "done", !.status = error]
Thawing(step) == thaw.at = step /\ UNCHANGED <<program, lines, globalsPointer, constantsPointer, globals,
                                                forwardRefs, data, code, variable, status, saved, ran>>

HeaderError(buffer) ==
  CASE Len(buffer) < 4 \/ Bytes(buffer, 0, 4) # MEMORY_MAGIC -> "BAD_MAGIC"
    [] OTHER ->
         IF Len(buffer) < MEMORY_HEADER_SIZE THEN "TRUNCATED"
         ELSE IF \/ getMemoryWord(buffer, 4) # MEMORY_FORMAT_VERSION
                 \/ getMemoryWord(buffer, 8) = 0
                 \/ Above(getMemoryWord(buffer, 8), VERSION) THEN "BAD_VERSION"
         ELSE IF getMemoryWord(buffer, 12) # WORD_SIZE THEN "BAD_WORDSIZE" ELSE "none"

ThawHeader ==
  /\ thaw.at = "assemble" /\ status = "done"
  /\ \E buffer \in Damaged(saved.bytes) \cap Seq(Byte), prefix \in BOOLEAN :
       thaw' = IF HeaderError(buffer) # "none"
               THEN [thaw EXCEPT !.at = "done", !.status = HeaderError(buffer), !.buffer = buffer,
                                 !.prefix = prefix, !.before = memory]
               ELSE [thaw EXCEPT !.at = "entries", !.buffer = buffer, !.prefix = prefix, !.before = memory,
                                 !.p = MEMORY_HEADER_SIZE, !.left = getMemoryWord(buffer, 16)]
  /\ UNCHANGED <<vars, saved, ran>>

\* The lengths of the entry at p, as far as they can be read, fit the buffer.
BytesAfter(p) == Len(thaw.buffer) - p
NameLengthAt(p) == getMemoryWord(thaw.buffer, p)
NameFits(p) ==
  /\ BytesAfter(p) >= 4
  /\ ~Above(NameLengthAt(p), BytesAfter(p) - 4)
  /\ BytesAfter(p) - 4 - NameLengthAt(p) >= memoryPadding(NameLengthAt(p)) + 4
WordsAt(p) == p + 4 + NameLengthAt(p) + memoryPadding(NameLengthAt(p)) + 4
WordCountAt(p) == getMemoryWord(thaw.buffer, WordsAt(p) - 4)
\* Mutant: the words of an entry are counted as bytes.
EntryFitsAsBytes(p) == NameFits(p) /\ ~Above(WordCountAt(p), BytesAfter(WordsAt(p)))

EntryFits(p) == NameFits(p) /\ ~Above(WordCountAt(p), BytesAfter(WordsAt(p)) \div 4)

getMemoryEntry(p) ==
  [name |-> Bytes(thaw.buffer, p + 4, NameLengthAt(p)),
   padding |-> Bytes(thaw.buffer, p + 4 + NameLengthAt(p), memoryPadding(NameLengthAt(p))),
   wordCount |-> WordCountAt(p), words |-> WordsAt(p), next |-> WordsAt(p) + WordCountAt(p) * 4]

ThawEntry ==
  /\ Thawing("entries")
  /\ \/ thaw.left = 0 /\ thaw' = [thaw EXCEPT !.at = "validate"]
     \/ thaw.left # 0 /\ ~EntryFits(thaw.p) /\ Refused("TRUNCATED")
     \/ /\ thaw.left # 0 /\ EntryFits(thaw.p)
        /\ LET entry == getMemoryEntry(thaw.p)
           IN  thaw' = [thaw EXCEPT !.left = @ - 1, !.entries = Append(@, entry), !.p = entry.next]
  /\ UNCHANGED memory

CanaryKept ==
  /\ thaw.entries # <<>>
  /\ thaw.entries[1].next = MEMORY_HEADER_SIZE + MEMORY_CHECK_SIZE
  /\ Bytes(thaw.buffer, MEMORY_HEADER_SIZE, MEMORY_CHECK_SIZE) = putMemoryCheck

\* Mutant: names may repeat.
WellFormedRepeating ==
  /\ \A e \in 2 .. Len(thaw.entries) :
       LET entry == thaw.entries[e]
       IN  isValidIdentifier(entry.name) /\ entry.padding = Zeros(Len(entry.padding))
  /\ thaw.p = Len(thaw.buffer)

WellFormed ==
  /\ \A e \in 2 .. Len(thaw.entries) :
       LET entry == thaw.entries[e]
       IN  /\ isValidIdentifier(entry.name)
           /\ entry.padding = Zeros(Len(entry.padding))
           /\ e > 2 => Precedes(thaw.entries[e - 1].name, entry.name)
  /\ thaw.p = Len(thaw.buffer)

ThawValidate ==
  /\ Thawing("validate")
  /\ \/ ~CanaryKept /\ Refused("BAD_CANARY")
     \/ CanaryKept /\ ~WellFormed /\ Refused("MALFORMED")
     \/ CanaryKept /\ WellFormed /\ thaw' = [thaw EXCEPT !.at = "walk", !.e = 2]
  /\ UNCHANGED memory

(***************************************************************************)
(* One merged walk over entries and owners, both by ascending name.        *)
(***************************************************************************)
OwnersNow == findMemoryOwners
NoEntry == thaw.e > Len(thaw.entries)
NoOwner == thaw.o > Len(OwnersNow)
EntryNow == thaw.entries[thaw.e]
OwnerNow == OwnersNow[thaw.o]

\* Mutant: an entry with another name than the owner's is taken to be before it.
EntryFirstUnordered == ~NoEntry /\ (~NoOwner => EntryNow.name # OwnerNow.name)

EntryFirst == ~NoEntry /\ (~NoOwner => Precedes(EntryNow.name, OwnerNow.name))
OwnerFirst == ~NoOwner /\ (~NoEntry => Precedes(OwnerNow.name, EntryNow.name))

\* Mutant: all that was saved is restored, whatever the owner has room for.
RestoredWhole == IF EntryNow.wordCount = OwnerNow.ownedWords \/ thaw.prefix THEN EntryNow.wordCount ELSE 0

Restored ==
  IF EntryNow.wordCount = OwnerNow.ownedWords \/ thaw.prefix
  THEN minimum(EntryNow.wordCount, OwnerNow.ownedWords) ELSE 0

ThawWalk ==
  /\ Thawing("walk")
  /\ \/ EntryFirst /\ thaw' = [thaw EXCEPT !.e = @ + 1, !.exact = FALSE] /\ UNCHANGED memory
     \/ OwnerFirst /\ thaw' = [thaw EXCEPT !.o = @ + 1, !.exact = FALSE] /\ UNCHANGED memory
     \/ /\ ~NoEntry /\ ~NoOwner /\ EntryNow.name = OwnerNow.name
        /\ thaw' = [thaw EXCEPT !.e = @ + 1, !.o = @ + 1, !.exact = @ /\ EntryNow.wordCount = OwnerNow.ownedWords]
        /\ memory' = [cell \in DOMAIN memory |->
                        IF cell \in OwnerNow.first .. OwnerNow.first + Restored - 1
                        THEN getMemoryWord(thaw.buffer, EntryNow.words + (cell - OwnerNow.first) * 4) ELSE memory[cell]]
     \/ /\ NoEntry /\ NoOwner
        /\ thaw' = [thaw EXCEPT !.at = "done", !.status = IF thaw.exact THEN "OK" ELSE "MISMATCH"]
        /\ UNCHANGED memory

FrozenNext ==
  \/ Assemble
  \/ RunProgram
  \/ freezeMemorySize
  \/ freezeMemory
  \/ Restart
  \/ ThawHeader
  \/ ThawEntry
  \/ ThawValidate
  \/ ThawWalk

FrozenSpec == FrozenInit /\ [][FrozenNext]_thawVars

-----------------------------------------------------------------------------
(***************************************************************************)
(* Properties.                                                             *)
(***************************************************************************)
Thawed == thaw.at = "done"
Accepted == thaw.status \in {"OK", "MISMATCH"}

(***************************************************************************)
(* finalize: when the constants have been moved below the globals, every   *)
(* word of every section is at the address that all that was assembled     *)
(* before knew it by, zero where the source gives none; an address in it,  *)
(* or in an instruction, is that of what it names, also of what is named   *)
(* later; what is left is switch tables, poison and the zero guard.        *)
(***************************************************************************)
LaidOutAsWritten == status = "done" /\ ~ran /\ thaw.at \in {"none", "assemble"} => AsWritten

(***************************************************************************)
(* freezeMemorySize, freezeMemory: the bytes fill the buffer exactly, and  *)
(* with the program that wrote them they bring back every word of every    *)
(* GLOB section, whatever labels the section has and whatever runs have    *)
(* left in it, before freezing and before thawing.                         *)
(***************************************************************************)
EveryGlobalSaved ==
  /\ saved.bytes # <<>> => Len(saved.bytes) = saved.size
  /\ Thawed /\ thaw.buffer = saved.bytes /\ lines = saved.lines =>
       /\ thaw.status = "OK"
       /\ \A s \in SectionLines : lines[s].kind = "GLOB" =>
            \A place \in Places(s) :
              LET cell == CellAt(SectionAddress(s) + place) IN memory[cell] = saved.memory[cell]

(***************************************************************************)
(* getMemoryEntry: whatever lengths a buffer has in it, no byte past its   *)
(* end is read: an entry's name, padding and words are inside, and the     *)
(* next one starts where they end.                                         *)
(***************************************************************************)
EntriesInBuffer ==
  thaw.at \in {"entries", "validate", "walk"} =>
    /\ 0 <= thaw.p /\ thaw.p <= Len(thaw.buffer)
    /\ \A i \in DOMAIN thaw.entries :
         LET entry == thaw.entries[i]
             start == IF i = 1 THEN MEMORY_HEADER_SIZE ELSE thaw.entries[i - 1].next
         IN  /\ start + 8 + Len(entry.name) + Len(entry.padding) = entry.words
             /\ 0 <= entry.wordCount
             /\ entry.next = entry.words + entry.wordCount * 4
             /\ entry.next <= thaw.p

(***************************************************************************)
(* thawMemory writes nothing until it has validated the whole buffer, and  *)
(* then nothing but words of the program's GLOB labels: one that it        *)
(* refuses has changed no word.                                            *)
(***************************************************************************)
OwnedCells(symbol) == {CellAt(address) : address \in Owned(symbol)}

OnlyGlobalsRestored ==
  /\ thaw.at \in {"entries", "validate"} => memory = thaw.before
  /\ Thawed /\ ~Accepted => memory = thaw.before
  /\ thaw.at \in {"walk", "done"} =>
       \A cell \in DOMAIN memory :
         memory[cell] = thaw.before[cell]
           \/ \E n \in DataNames : InGlob(globals[n].types) /\ cell \in OwnedCells(globals[n])

(***************************************************************************)
(* thawMemory restores all: a buffer it accepts is to the last byte what   *)
(* freezing its entries writes, in this version or one before it, and it   *)
(* is MEMORY_OK exactly when freezing again gives the same bytes but for   *)
(* the version.  Nothing but GLOB sections is written.                     *)
(***************************************************************************)
EntryWords(e) == [i \in 1 .. e.wordCount |-> getMemoryWord(thaw.buffer, e.words + (i - 1) * 4)]
EntriesSaved ==
  [i \in 1 .. Len(thaw.entries) - 1 |->
     [name |-> thaw.entries[i + 1].name, words |-> EntryWords(thaw.entries[i + 1])]]
Ascending(saves) == \A i, j \in DOMAIN saves : i < j => Precedes(saves[i].name, saves[j].name)
Supported == 1 .. VERSION

AllOrNothing ==
  Thawed =>
    /\ Accepted =>
         /\ \E version \in Supported : thaw.buffer = FrozenAs(version, EntriesSaved)
         /\ Ascending(EntriesSaved)
    /\ thaw.status = "OK" <=> \E version \in Supported : thaw.buffer = FrozenAs(version, OwnersSaved)
    /\ \A cell \in DOMAIN memory :
         memory[cell] # thaw.before[cell] =>
           \E s \in SectionLines : lines[s].kind = "GLOB" /\ cell - CellAt(SectionAddress(s)) \in Places(s)

(***************************************************************************)
(* thawMemory's merged walk, into whatever version of the program and for  *)
(* whatever buffer it accepts: a label of a GLOB section gets the words of *)
(* the entry with its name, as many as the policy lets through, and keeps  *)
(* those it had where there is none, however entries and labels fall       *)
(* between each other; and the result is MEMORY_OK exactly when both have  *)
(* the same names with the same numbers of words.                          *)
(***************************************************************************)
RestoredOf(owned, from) == IF owned = from \/ thaw.prefix THEN minimum(owned, from) ELSE 0
SavedEntries == 2 .. Len(thaw.entries)
RestoringTo(n, word) ==
  {e \in SavedEntries : /\ thaw.entries[e].name = NameBytes[n]
                        /\ word < RestoredOf(globals[n].ownedWords, thaw.entries[e].wordCount)}

RestoredByName ==
  Thawed /\ Accepted =>
    /\ \A n \in GlobNames : \A word \in 0 .. globals[n].ownedWords - 1 :
         LET cell == CellAt(globals[n].value) + word
         IN  IF RestoringTo(n, word) = {} THEN memory[cell] = thaw.before[cell]
             ELSE \A e \in RestoringTo(n, word) :
                    memory[cell] = getMemoryWord(thaw.buffer, thaw.entries[e].words + word * 4)
    /\ thaw.status = "OK" <=>
         {<<NameBytes[n], globals[n].ownedWords>> : n \in GlobNames}
           = {<<thaw.entries[e].name, thaw.entries[e].wordCount>> : e \in SavedEntries}
=============================================================================
