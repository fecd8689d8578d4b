\* Sessions come and go while stop() copies sessions_.
CONSTANTS
  s1 = s1
  s2 = s2
  NoZone = NoZone
  NoSession = NoSession
  Sessions = {s1, s2}
  Threads = 2
  Names <- MCOneName
  InitialDirs <- MCOneName
  ShellPaths <- MCNone
  Workload <- MCStayRequests
  Faults = {}
SPECIFICATION ServerSpec
SYMMETRY Symmetry
INVARIANT CopyIsAlive
CHECK_DEADLOCK FALSE
