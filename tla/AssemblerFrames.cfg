\* One function: its jumps and switches, over a label and the label of a switch's first case,
\* between its locals, transients and call windows.
SPECIFICATION Spec
CONSTANTS
  MaxCodeSize = 3
  MaxFunctionCount = 1
  MaxMemorySize = 3
  MaxInt = 3
  Names <- MCNames
  Sizes = {0, 3}
  Offsets <- MCOffsets
  Cases = {1}
  SkipLabels = {}
CHECK_DEADLOCK FALSE
INVARIANTS
  AssembledWellFormed
  OperandsInFrame
  FrameSizesAddUp
