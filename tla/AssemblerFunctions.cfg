\* Two functions, in one unit or two, that jump, call and
\* leave out lines forwards and backwards by one name.
SPECIFICATION Spec
CONSTANTS
  MaxCodeSize = 6
  MaxFunctionCount = 2
  MaxMemorySize = 1
  MaxInt = 3
  Names <- MCOneName
  Sizes = {}
  Offsets = {}
  Cases = {}
  SkipLabels <- MCOneName
CHECK_DEADLOCK FALSE
INVARIANTS
  TypeOK
  AssembledWellFormed
PROPERTIES
  FinishedFunctionsKept
