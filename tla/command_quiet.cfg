\* A shell and a process of its own, whose standard error fits into the pipe.
CONSTANTS
  bash = bash
  child = child
  Shell = bash
  Children <- MCChildren
  Lines <- MCLines
  Programs <- QuietPrograms
  Capacity = 2
SPECIFICATION FairSpec
INVARIANTS
  CommandTypeOK
  NothingIsLost
PROPERTIES
  CommandReturns
CHECK_DEADLOCK FALSE
