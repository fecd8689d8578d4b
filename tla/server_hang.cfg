\* One client goes away, or stop closes its socket, while its response is being written.
CONSTANTS
  s1 = s1
  s2 = s2
  NoZone = NoZone
  NoSession = NoSession
  Sessions = {s1}
  Threads = 2
  Names <- MCOneName
  InitialDirs <- MCOneName
  ShellPaths <- MCNone
  Workload <- MCWorkRequests
  Faults = {"write"}
SPECIFICATION FairServerSpec
PROPERTY StopTerminates
CHECK_DEADLOCK FALSE
