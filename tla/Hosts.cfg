\* The interpreter test's checks with every fuel, and programs that use the command line tool's natives.
SPECIFICATION FairHostsSpec
CONSTANTS
  WordSize = 16
  WordCount = 65536
  MEMORY_OFFSET <- MCBase
  FUNCTION_OFFSET <- MCFunctionBase
  constantsSize <- MCConstants
  rwMemorySize <- rw
  memorySize <- MCGuard
  dataStackOffset <- MCGlobals
  DataStackSize <- MCStack
  InitialMemory <- MCMemory
  FloatWords = {0, 1}
  CodeSize <- MCCodeSize
  Code <- MCCode
  Program <- MCProgram
  FunctionCount <- MCFunctionCount
  FunctionTable <- MCFunctionTable
  IpStackSize = 16
  Budgets <- MCBudgets
  NativeBudgets <- MCNativeBudgets
  NativeErrors <- MCNativeErrors
  MaxNesting = 10
  MinClock <- MCMinClock
  NativeNames <- MCNativeNames
  Jobs <- MCJobs
  MaxFuel <- MaxInt
CHECK_DEADLOCK FALSE
INVARIANTS
  ChecksPass
  InputEchoed
  ErrorsReported
PROPERTIES
  ReadOnlyKept
  EveryJobEnds
