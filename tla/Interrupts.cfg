\* A host that interrupts a program between two of its instructions.
SPECIFICATION InterruptSpec
CONSTANTS
  CodeSize <- MCCodeSize
  Code <- MCCode
  FunctionCount = 2
  FunctionTable <- MCFunctionTable
  DataStackSize = 4
  IpStackSize = 4
  Budgets = {2, 4}
  NativeBudgets = {}
  NativeErrors = {}
  MaxNesting = 0
  MinClock <- MCMinClock
INVARIANTS
  InterruptsSpareTheProgram
