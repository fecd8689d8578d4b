\* The operator stops the server while two sessions work; every response fits the
\* send buffer and commands end.
CONSTANTS
  s1 = s1
  s2 = s2
  NoZone = NoZone
  NoSession = NoSession
  Sessions = {s1, s2}
  Threads = 2
  Names <- MCOneName
  InitialDirs <- MCOneName
  ShellPaths <- MCNone
  Workload <- MCStayRequests
  Faults = {}
SPECIFICATION FairServerSpec
INVARIANTS
  ServerTypeOK
  OneCloser
  AtMostOneSurvives
  CopyIsKept
PROPERTIES
  StopTerminates
CHECK_DEADLOCK FALSE
