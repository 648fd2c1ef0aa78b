\* One script and one collection.
SPECIFICATION Spec
CONSTANTS
  Sources <- ArgumentsSources
  StartedScripts <- ArgumentsStarted
  StackSize = 60
  Collections <- ArgumentsCollections
  Expected <- ArgumentsExpected
INVARIANTS
  NothingDangling
