\* Commands that may write more to their standard error than the pipe holds.
CONSTANTS
  bash = bash
  child = child
  Shell = bash
  Children <- MCChildren
  Lines <- MCLines
  Programs <- AllPrograms
  Capacity = 2
SPECIFICATION FairSpec
PROPERTY CommandReturns
CHECK_DEADLOCK FALSE
