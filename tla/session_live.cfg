\* One thread for two sessions: commands may never end and writes may fail.  What is
\* still served, and released.
CONSTANTS
  s1 = s1
  s2 = s2
  NoZone = NoZone
  Sessions = {s1, s2}
  Threads = 1
  Names <- MCOneName
  InitialDirs <- MCOneName
  ShellPaths <- MCNone
  Workload <- MCWorkRequests
  Faults = {"write"}
SPECIFICATION FairSessionSpec
PROPERTIES
  RequestsAreAnswered
  DisconnectReleases
CHECK_DEADLOCK FALSE
