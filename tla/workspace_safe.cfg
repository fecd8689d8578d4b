SPECIFICATION WorkspaceSpec
CONSTANTS
  Text <- MCText
  Names <- MCNames
  InitialDirs <- MCInitialDirs
  ShellPaths <- MCShellPaths
  FileNames <- MCFileNames
  Contents <- MCContents
  Uploads <- MCUploads
  RemoteNames <- MCRemoteNames
  Directories <- MCDirectories
  Sessions = {s1, s2}
INVARIANTS
  WorkspaceTypeOK
  CommandsStayHome
  UploadsAreKept
PROPERTY
  FreeZonesAreStill
  LeasesItsZones
