\* The bounds sweep's programs and saved memory, damaged and thawed into other versions, and all short sequences of lines.
SPECIFICATION FrozenSpec
CONSTANTS
  maxMemorySize <- MCMaxMemory
  MEMORY_OFFSET = 1000
  FUNCTION_OFFSET = 2000
  maxFunctionCount = 3
  POISON = 9991
  OldWord = 9992
  Distance = 9993
  Labels <- MCLabels
  Programs <- MCSaves
  VERSION = 2
  WORD_SIZE = 32
  NameBytes <- MCNameBytes
  Ran <- MCRan
  Later <- MCLater
  Damaged <- MCDamaged
CHECK_DEADLOCK FALSE
INVARIANTS
  LaidOutAsWritten
  OwnedByTheLastLabel
  AccessesChecked
  AddressesInside
  OneOwner
  EveryGlobalSaved
  EntriesInBuffer
  OnlyGlobalsRestored
  AllOrNothing
  RestoredByName
