\* Two processors, on threads of their own or taking turns, each with every entry of the test's program.
SPECIFICATION FairMultiSpec
CONSTANTS
  WordSize = 16
  WordCount = 65536
  MEMORY_OFFSET = 4660
  FUNCTION_OFFSET = 22136
  constantsSize <- MCConstants
  rwMemorySize <- MCRw
  memorySize <- MCGuard
  globalsSize <- MCGlobals
  PartSize <- MCPart
  InitialMemory <- MCMemory
  FloatWords = {0}
  CodeSize <- MCCodeSize
  Code <- MCCode
  Program <- MCProgram
  FunctionCount <- MCFunctionCount
  FunctionTable <- MCFunctionTable
  IpStackSize = 30
  Budgets <- MCBudgets
  ThreadBudget = 6
  MinClock <- MCMinClock
  Entries <- MCEntries
CHECK_DEADLOCK FALSE
INVARIANTS
  ResultsAsAlone
PROPERTIES
  NeighboursKept
  EveryProcessorEnds
