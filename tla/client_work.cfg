SPECIFICATION LiveClientSpec
CONSTANTS
  Text <- MCText
  Line <- MCLine
  Marker <- MCMarker
  Blank <- MCBlank
  Garbage <- MCGarbage
  Long <- MCLong
  Names <- MCNames
  InitialDirs <- MCInitialDirs
  ShellPaths <- MCShellPaths
  FileNames <- MCFileNames
  Contents <- MCContents
  Typed <- MCTyped
  Uploads <- MCUploads
  RemoteNames <- MCRemoteNames
  Directories <- MCDirectories
  Outputs <- MCOutputs
  Sessions = {me, other}
  me = me
  MaxUnread = 3
INVARIANTS
  ClientTypeOK
  InStep
  ToldWhereItIs
  
PROPERTY
  CommandsReturn
CHECK_DEADLOCK FALSE
