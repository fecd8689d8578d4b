\* Nested zone names and shell commands that make and remove directories.
CONSTANTS
  Names <- MCNested
  InitialDirs <- MCShell
  ShellPaths <- MCShell
SPECIFICATION ZoneSpec
INVARIANTS
  ZoneTypeOK
PROPERTIES
  TopLevelZonesPersist
