\* One processor, every interleaving of host, natives and run() up to one native nested in another.
SPECIFICATION Spec
CONSTANTS
  CodeSize <- MCCodeSize
  Code <- MCCode
  FunctionCount = 3
  FunctionTable <- MCFunctionTable
  DataStackSize = 6
  IpStackSize = 6
  Budgets = {6}
  NativeBudgets = {0, 2}
  NativeErrors = {"TIME_OUT", "ABORTED"}
  MaxNesting = 2
  MinClock <- MCMinClock
INVARIANTS
  TypeOK
  FramesInsideStack
  NestedRunsStayAbove
  PushedFunctionsFit
  IdleHoldsNothing
PROPERTIES
  OuterEntriesKept
