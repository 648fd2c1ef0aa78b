\* A host that starts a new call after the program has failed.
SPECIFICATION Spec
CONSTANTS
  CodeSize <- MCCodeSize
  Code <- MCCode
  FunctionCount = 3
  FunctionTable <- MCFunctionTable
  DataStackSize = 6
  IpStackSize = 6
  Budgets = {6}
  NativeBudgets = {0, 2}
  NativeErrors = {"TIME_OUT", "ABORTED"}
  MaxNesting = 2
  MinClock <- MCMinClock
INVARIANTS
  NewCallRecovers
