\* Two sessions, two zones, every request, every fault.
CONSTANTS
  s1 = s1
  s2 = s2
  NoZone = NoZone
  Sessions = {s1, s2}
  Threads = 2
  Names <- MCNames
  InitialDirs <- MCShell
  ShellPaths <- MCShell
  Workload <- MCAllRequests
  Faults = {"write", "throw"}
SPECIFICATION SessionSpec
SYMMETRY Symmetry
INVARIANTS
  SessionTypeOK
  ExclusiveZones
  OccupiedMeansHeld
  GoneMeansReleased
  NoneForgotten
  ToldEnteredIsInZone
PROPERTIES
  OnlyHolderReleases
  ImplementsLease
CHECK_DEADLOCK FALSE
