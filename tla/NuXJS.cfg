\* Generated scripts of every statement and operator, and of scopes, compiled and run, with a collector that may run between any two instructions.
SPECIFICATION Spec
CONSTANTS
  Sources <- MCSources
  StartedScripts <- MCStarted
  StackSize = 60
  Collections <- MCCollections
  Expected <- MCExpected
INVARIANTS
  ScriptsAsWritten
  DepthAsCompiled
  CatchersOnChain
  NothingDangling
PROPERTY
  EveryScriptEnds
