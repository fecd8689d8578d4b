\* No fault of the environment: can a request end the process?
CONSTANTS
  s1 = s1
  s2 = s2
  NoZone = NoZone
  Sessions = {s1, s2}
  Threads = 2
  Names <- MCNames
  InitialDirs <- MCShell
  ShellPaths <- MCShell
  Workload <- MCAllRequests
  Faults = {}
SPECIFICATION SessionSpec
SYMMETRY Symmetry
INVARIANT
  ServerSurvives
CHECK_DEADLOCK FALSE
