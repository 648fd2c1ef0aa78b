\* Every access form and every integer operator with every word, and every request of a native.
SPECIFICATION SweepSpec
CONSTANTS
  WordSize = 5
  WordCount = 32
  MEMORY_OFFSET <- MCBase
  FUNCTION_OFFSET <- MCFunctionBase
  constantsSize <- MCConstants
  globalsSize <- MCGlobals
  rwMemorySize <- rw
  memorySize <- MCGuard
  dataStackOffset <- MCGlobals
  DataStackSize <- MCStack
  InitialMemory <- MCMemory
  MemoryValues = {30}
  FloatWords = {0, 1}
  Forms <- MCForms
  CodeSize <- MCCodeSize
  Code <- MCCode
  Program <- MCProgram
  FunctionCount <- MCFunctionCount
  FunctionTable <- MCFunctionTable
  IpStackSize = 3
  Budgets <- MCBudgets
  NativeBudgets = {}
  NativeErrors = {}
  MaxNesting = 0
  MinClock = 0
CHECK_DEADLOCK FALSE
INVARIANTS
  ProbesAsOracle
  AccessesAsOracle
  OperatorsExact
