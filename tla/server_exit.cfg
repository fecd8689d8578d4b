\* What stop() leaves behind for the destructors.
CONSTANTS
  s1 = s1
  s2 = s2
  NoZone = NoZone
  NoSession = NoSession
  Sessions = {s1, s2}
  Threads = 3
  Names <- MCOneName
  InitialDirs <- MCOneName
  ShellPaths <- MCNone
  Workload <- MCWorkRequests
  Faults = {"write"}
SPECIFICATION ServerSpec
SYMMETRY Symmetry
INVARIANT ExitIsClean
CHECK_DEADLOCK FALSE
