\* The refinement of GAZLCalls, and liveness where natives never extend the budget.
SPECIFICATION FairSpec
CONSTANTS
  CodeSize <- MCCodeSize
  Code <- MCCode
  FunctionCount = 3
  FunctionTable <- MCFunctionTable
  DataStackSize = 5
  IpStackSize = 5
  Budgets = {6}
  NativeBudgets = {0}
  NativeErrors = {"TIME_OUT"}
  MaxNesting = 2
  MinClock <- MCMinClock
PROPERTIES
  CallsImplemented
  EveryRunReturns
