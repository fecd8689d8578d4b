-------------------------- MODULE WorkspaceProofs --------------------------
(***************************************************************************)
(* Theorems about the workspaces, for every set of sessions, names and     *)
(* contents, whatever paths the requests and the commands use.             *)
(***************************************************************************)
EXTENDS PathProofs

Zone(z) == z \in Paths /\ TopLevel(z)

LEMMA NamesAreZones == \A z \in Names \cup InitialDirs : Zone(z)
BY NamesAssumption, WorkspaceAssumption DEF Zone

\* What lies in a zone has the zone's name for its first component.
LEMMA ZoneLeads ==
  ASSUME NEW z, Zone(z), NEW p, SX!IsPrefix(z, p)
  PROVE  p[1] = z[1]
<1>1. Len(z) = 1
  BY DEF Zone, TopLevel
<1>2. SubSeq(z, 1, 1) = SubSeq(p, 1, 1)
  BY <1>1 DEF SX!IsPrefix
<1>3. SubSeq(z, 1, 1)[1] = z[1] /\ SubSeq(p, 1, 1)[1] = p[1]
  OBVIOUS
<1>. QED
  BY <1>2, <1>3

LEMMA SameZone ==
  ASSUME NEW z, NEW y, Zone(z), Zone(y), z[1] = y[1]
  PROVE  z = y
BY DEF Zone, TopLevel, Paths

\* And what begins with it lies in the zone.
LEMMA LeadsZone ==
  ASSUME NEW z, Zone(z), NEW p \in Paths, p[1] = z[1]
  PROVE  SX!IsPrefix(z, p)
<1>1. Len(z) = 1 /\ Len(p) \in Nat \ {0}
  BY DEF Zone, TopLevel, Paths
<1>2. SubSeq(z, 1, 1) = SubSeq(p, 1, 1)
  OBVIOUS
<1>. QED
  BY <1>1, <1>2 DEF SX!IsPrefix

(***************************************************************************)
(* The inductive invariant.  A session in a zone occupies it alone; its    *)
(* directory, once it exists under that name, is a path into the zone; and *)
(* what it has uploaded lies there as well, unchanged.                     *)
(***************************************************************************)
Housed(s) ==
  InZone(s) =>
    /\ path[s] \in occupied
    /\ directory[s] \in Paths /\ SX!IsPrefix(path[s], directory[s])

Kept(s) ==
  \A f \in DOMAIN kept[s] :
    /\ InZone(s) /\ f[1] = path[s][1]
    /\ f \in DOMAIN files /\ files[f] = kept[s][f]

HomeInv ==
  /\ ZoneTypeOK
  /\ strays \subseteq Paths
  /\ path \in [Sessions -> Names \cup {None}]
  /\ DOMAIN directory = Sessions /\ DOMAIN kept = Sessions
  /\ \A s, t \in Sessions : s # t /\ InZone(s) => path[s] # path[t]
  /\ \A s \in Sessions : Housed(s) /\ Kept(s)

LEMMA HomeInitInv == WorkspaceInit => HomeInv
BY NamesAssumption
   DEF WorkspaceInit, ZoneInit, HomeInv, ZoneTypeOK, Scan, InZone, Housed, Kept, None

-----------------------------------------------------------------------------
\* The step changes no file outside the zone of path z.
OnlyIn(z) ==
  \A f : f[1] # z[1] =>
    /\ f \in DOMAIN files' <=> f \in DOMAIN files
    /\ f \in DOMAIN files => files'[f] = files[f]

\* A process changes files below its own directory only.
LEMMA RunStaysBelow ==
  ASSUME dirs \subseteq Paths, NEW d \in Paths, RunIn(d)
  PROVE  dirs' \subseteq Paths /\ OnlyIn(d)
<1>1. ASSUME NEW name \in FileNames, NEW content, files' = With(files, d \o name, content)
      PROVE  OnlyIn(d)
  <2>1. name \in Paths
    BY WorkspaceAssumption
  <2>2. (d \o name)[1] = d[1]
    BY <2>1 DEF Paths
  <2>. QED
    BY <1>1, <2>2 DEF OnlyIn, With
<1>2. UNCHANGED files => OnlyIn(d)
  BY DEF OnlyIn
<1>3. ASSUME NEW p \in ShellPaths, SX!IsPrefix(d, p), files' = Without(files, Below(p))
      PROVE  OnlyIn(d)
  <2>1. Len(d) \in Nat \ {0} /\ Len(p) \in Nat \ {0}
    BY NamesAssumption DEF Paths
  <2>2. p[1] = d[1]
    <3>1. SubSeq(d, 1, Len(d))[1] = d[1] /\ SubSeq(p, 1, Len(d))[1] = p[1]
      BY <2>1
    <3>. QED
      BY <1>3, <3>1 DEF SX!IsPrefix
  <2>3. \A f \in Below(p) : f[1] = p[1]
    <3>1. ASSUME NEW f \in Below(p) PROVE f[1] = p[1]
      <4>1. SubSeq(p, 1, Len(p)) = SubSeq(f, 1, Len(p))
        BY <3>1 DEF Below, SX!IsPrefix
      <4>2. SubSeq(p, 1, Len(p))[1] = p[1] /\ SubSeq(f, 1, Len(p))[1] = f[1]
        BY <2>1
      <4>. QED
        BY <4>1, <4>2
    <3>. QED
      BY <3>1
  <2>. QED
    BY <1>3, <2>2, <2>3 DEF OnlyIn, Without
<1>4. dirs' \subseteq Paths
  BY NamesAssumption, PrefixesArePaths DEF RunIn
<1>. QED
  BY <1>1, <1>2, <1>3, <1>4 DEF RunIn

\* The path check: an upload goes into the zone of the session, whatever its
\* name is; so does what the session's commands do.
LEMMA HandlerFiles ==
  ASSUME HomeInv, NEW s \in Sessions, Handles(s)
  PROVE  files' = files \/ (InZone(s) /\ OnlyIn(path[s]))
<1>1. CASE \E name, content, reply : handleUpload(s, name, content, reply) /\ files' # files
  <2>1. PICK name, content, reply : handleUpload(s, name, content, reply) /\ files' # files
    BY <1>1
  <2>2. /\ InZone(s) /\ SX!IsPrefix(path[s], Normal(path[s] \o name))
        /\ files' = With(files, Normal(path[s] \o name), content)
    BY <2>1 DEF handleUpload, Writable, Inside
  <2>3. Normal(path[s] \o name)[1] = path[s][1]
    BY <2>2, ZoneLeads, NamesAreZones DEF HomeInv, InZone
  <2>. QED
    BY <2>2, <2>3 DEF OnlyIn, With
<1>2. CASE \E reply : runCommand(s, reply) /\ files' # files
  <2>1. InZone(s) /\ RunIn(directory[s])
    BY <1>2 DEF runCommand
  <2>2. directory[s] \in Paths /\ SX!IsPrefix(path[s], directory[s])
    BY <2>1 DEF HomeInv, Housed
  <2>3. directory[s][1] = path[s][1]
    BY <2>1, <2>2, ZoneLeads, NamesAreZones DEF HomeInv, InZone
  <2>4. OnlyIn(directory[s])
    BY <2>1, <2>2, RunStaysBelow DEF HomeInv, ZoneTypeOK
  <2>. QED
    BY <2>1, <2>3, <2>4 DEF OnlyIn
<1>. QED
  BY <1>1, <1>2 DEF Handles, handleCreateZone, handleEnterZone, handleLeaveZone, Left,
                    changeDirectory, workspaceVars

-----------------------------------------------------------------------------
LEMMA CreateHome ==
  ASSUME HomeInv, NEW s \in Sessions, NEW name \in Names, NEW reply,
         handleCreateZone(s, name, reply)
  PROVE  HomeInv'
<1>1. ZoneTypeOK'
  BY NamesAssumption, PrefixesArePaths
     DEF HomeInv, ZoneTypeOK, handleCreateZone, create_zone, zoneVars
<1>2. /\ UNCHANGED <<occupied, files, path, directory, strays, kept>>
  BY DEF handleCreateZone, create_zone, zoneVars
<1>. QED
  BY <1>1, <1>2 DEF HomeInv, InZone, Housed, Kept

LEMMA EnterHome ==
  ASSUME HomeInv, NEW s \in Sessions, NEW name \in Names, NEW reply,
         handleEnterZone(s, name, reply)
  PROVE  HomeInv'
<1>1. CASE reply = "ERROR"
  BY <1>1 DEF handleEnterZone, HomeInv, ZoneTypeOK, zoneVars, InZone, Housed, Kept
<1>2. CASE reply # "ERROR"
  <2>1. /\ ~InZone(s) /\ name \in zones \ occupied
        /\ occupied' = occupied \cup {name} /\ dirs' = dirs \cup Prefixes(name)
        /\ path' = [path EXCEPT ![s] = name]
        /\ directory' = [directory EXCEPT ![s] = name]
        /\ UNCHANGED <<zones, files, strays, kept>>
    BY <1>2 DEF handleEnterZone, Entered
  <2>2. name \in Paths /\ SX!IsPrefix(name, name) /\ name # None
    BY NamesAssumption DEF SX!IsPrefix, Paths, None
  <2>3. ZoneTypeOK'
    BY <2>1, <2>2, PrefixesArePaths DEF HomeInv, ZoneTypeOK
  <2>4. \A t, u \in Sessions : t # u /\ InZone(t)' => path'[t] # path'[u]
    BY <2>1, <2>2 DEF HomeInv, InZone, Housed
  <2>5. \A t \in Sessions : Housed(t)' /\ Kept(t)'
    <3>1. ASSUME NEW t \in Sessions, t # s PROVE Housed(t)' /\ Kept(t)'
      BY <2>1, <3>1 DEF HomeInv, InZone, Housed, Kept
    <3>2. Housed(s)' /\ Kept(s)'
      BY <2>1, <2>2 DEF HomeInv, InZone, Housed, Kept
    <3>. QED
      BY <3>1, <3>2
  <2>. QED
    BY <2>1, <2>3, <2>4, <2>5 DEF HomeInv
<1>. QED
  BY <1>1, <1>2

LEMMA LeaveHome ==
  ASSUME HomeInv, NEW s \in Sessions, NEW reply, handleLeaveZone(s, reply)
  PROVE  HomeInv'
<1>1. CASE ~InZone(s)
  BY <1>1 DEF handleLeaveZone, workspaceVars, HomeInv, ZoneTypeOK, zoneVars, InZone, Housed, Kept
<1>2. CASE InZone(s)
  <2>1. /\ occupied' \subseteq occupied /\ occupied \subseteq occupied' \cup {path[s]}
        /\ path' = [path EXCEPT ![s] = None]
        /\ directory' = [directory EXCEPT ![s] = None]
        /\ kept' = [kept EXCEPT ![s] = <<>>]
        /\ UNCHANGED <<zones, dirs, files, strays>>
    BY <1>2 DEF handleLeaveZone, Left, leave_zone
  <2>2. \A t \in Sessions : Housed(t)' /\ Kept(t)'
    <3>1. ASSUME NEW t \in Sessions, t # s PROVE Housed(t)' /\ Kept(t)'
      BY <1>2, <2>1, <3>1 DEF HomeInv, InZone, Housed, Kept
    <3>2. Housed(s)' /\ Kept(s)'
      BY <2>1 DEF HomeInv, InZone, Housed, Kept
    <3>. QED
      BY <3>1, <3>2
  <2>. QED
    BY <2>1, <2>2 DEF HomeInv, ZoneTypeOK, InZone
<1>. QED
  BY <1>1, <1>2

LEMMA ChangeHome ==
  ASSUME HomeInv, NEW s \in Sessions, NEW name, NEW reply, changeDirectory(s, name, reply)
  PROVE  HomeInv'
<1>1. CASE UNCHANGED directory
  BY <1>1 DEF changeDirectory, HomeInv, ZoneTypeOK, zoneVars, InZone, Housed, Kept
<1>2. CASE ~UNCHANGED directory
  <2> DEFINE new == Normal(directory[s] \o name)
  <2>1. /\ InZone(s) /\ SX!IsPrefix(path[s], new) /\ IsDirectory(new)
        /\ directory' = [directory EXCEPT ![s] = new]
        /\ UNCHANGED <<zoneVars, files, path, strays, kept>>
    BY <1>2 DEF changeDirectory, Inside
  <2>2. new \in Paths
    <3>1. new # <<>>
      <4>1. Len(path[s]) = 1
        BY <2>1, NamesAreZones DEF HomeInv, InZone, Zone, TopLevel
      <4>. QED
        BY <2>1, <4>1 DEF SX!IsPrefix
    <3>. QED
      BY <2>1, <3>1 DEF IsDirectory, HomeInv, ZoneTypeOK
  <2>3. \A t \in Sessions : Housed(t)' /\ Kept(t)'
    <3> HIDE DEF new
    <3>1. ASSUME NEW t \in Sessions, t # s PROVE Housed(t)' /\ Kept(t)'
      BY <2>1, <3>1 DEF HomeInv, InZone, Housed, Kept, zoneVars
    <3>2. Housed(s)' /\ Kept(s)'
      BY <2>1, <2>2 DEF HomeInv, InZone, Housed, Kept, zoneVars
    <3>. QED
      BY <3>1, <3>2
  <2>. QED
    BY <2>1, <2>3 DEF HomeInv, ZoneTypeOK, zoneVars, InZone
<1>. QED
  BY <1>1, <1>2

\* A session's own steps leave what others have uploaded: it is in their zones.
LEMMA OthersKept ==
  ASSUME HomeInv, NEW s \in Sessions, InZone(s), OnlyIn(path[s]), path' = path,
         NEW t \in Sessions, t # s, kept'[t] = kept[t]
  PROVE  Kept(t)'
<1> SUFFICES ASSUME NEW f \in DOMAIN kept[t]
             PROVE  /\ InZone(t)' /\ f[1] = path'[t][1]
                    /\ f \in DOMAIN files' /\ files'[f] = kept[t][f]
  BY DEF Kept
<1>1. InZone(t) /\ f[1] = path[t][1] /\ f \in DOMAIN files /\ files[f] = kept[t][f]
  BY DEF HomeInv, Kept
<1>2. f[1] # path[s][1]
  BY <1>1, NamesAreZones, SameZone DEF HomeInv, InZone
<1>. QED
  BY <1>1, <1>2 DEF OnlyIn, InZone

LEMMA UploadHome ==
  ASSUME HomeInv, NEW s \in Sessions, NEW name, NEW content, NEW reply,
         handleUpload(s, name, content, reply)
  PROVE  HomeInv'
<1>1. CASE reply # "UPLOAD_OK"
  BY <1>1 DEF handleUpload, HomeInv, ZoneTypeOK, zoneVars, InZone, Housed, Kept
<1>2. CASE reply = "UPLOAD_OK"
  <2> DEFINE f == Normal(path[s] \o name)
  <2>1. /\ InZone(s) /\ SX!IsPrefix(path[s], f)
        /\ files' = With(files, f, content)
        /\ kept' = [kept EXCEPT ![s] = With(kept[s], f, content)]
        /\ UNCHANGED <<zoneVars, path, directory, strays>>
    BY <1>2 DEF handleUpload, Writable, Inside
  <2> HIDE DEF f
  <2>2. f[1] = path[s][1]
    BY <2>1, ZoneLeads, NamesAreZones DEF HomeInv, InZone
  <2>3. OnlyIn(path[s])
    BY <2>1, <2>2 DEF OnlyIn, With
  <2>4. \A t \in Sessions \ {s} : Kept(t)'
    BY <2>1, <2>3, OthersKept DEF HomeInv
  <2>5. Kept(s)'
    BY <2>1, <2>2 DEF HomeInv, Kept, With, InZone
  <2>6. \A t \in Sessions : Housed(t)'
    BY <2>1 DEF HomeInv, zoneVars, InZone, Housed
  <2>. QED
    BY <2>1, <2>4, <2>5, <2>6 DEF HomeInv, ZoneTypeOK, zoneVars, InZone
<1>. QED
  BY <1>1, <1>2

LEMMA RunHome ==
  ASSUME HomeInv, NEW s \in Sessions, NEW reply, runCommand(s, reply)
  PROVE  HomeInv'
<1>1. CASE UNCHANGED <<files, dirs, strays, kept>>
  BY <1>1 DEF runCommand, HomeInv, ZoneTypeOK, InZone, Housed, Kept
<1>2. CASE ~UNCHANGED <<files, dirs, strays, kept>>
  <2>1. /\ InZone(s) /\ RunIn(directory[s])
        /\ strays' \subseteq strays \cup {directory[s]}
        /\ kept' = [kept EXCEPT ![s] = <<>>]
        /\ UNCHANGED <<zones, occupied, path, directory>>
    BY <1>2 DEF runCommand
  <2>2. /\ directory[s] \in Paths /\ SX!IsPrefix(path[s], directory[s])
    BY <2>1 DEF HomeInv, Housed
  <2>3. dirs' \subseteq Paths /\ OnlyIn(directory[s])
    BY <2>1, <2>2, RunStaysBelow DEF HomeInv, ZoneTypeOK
  <2>4. OnlyIn(path[s])
    BY <2>1, <2>2, <2>3, ZoneLeads, NamesAreZones DEF HomeInv, InZone, OnlyIn
  <2>5. \A t \in Sessions \ {s} : Kept(t)'
    BY <2>1, <2>4, OthersKept DEF HomeInv
  <2>6. Kept(s)'
    BY <2>1 DEF HomeInv, Kept
  <2>7. \A t \in Sessions : Housed(t)'
    BY <2>1 DEF HomeInv, InZone, Housed
  <2>. QED
    BY <2>1, <2>2, <2>3, <2>5, <2>6, <2>7 DEF HomeInv, ZoneTypeOK, InZone
<1>. QED
  BY <1>1, <1>2

LEMMA StrayHome ==
  ASSUME HomeInv, NEW d \in strays, Stray(d)
  PROVE  HomeInv'
<1>1. /\ strays' \subseteq strays /\ dirs' \subseteq Paths
      /\ UNCHANGED <<zones, occupied, path, directory>>
  BY RunStaysBelow DEF Stray, HomeInv, ZoneTypeOK
<1>2. kept' = [s \in Sessions |->
                 Without(kept[s], {f \in DOMAIN kept[s] :
                                     f \notin DOMAIN files' \/ files'[f] # kept[s][f]})]
  BY DEF Stray, KeepUntouched
<1>3. \A s \in Sessions : Kept(s)'
  BY <1>1, <1>2 DEF HomeInv, Kept, Without, InZone
<1>4. \A s \in Sessions : Housed(s)'
  BY <1>1 DEF HomeInv, InZone, Housed
<1>. QED
  BY <1>1, <1>2, <1>3, <1>4 DEF HomeInv, ZoneTypeOK, InZone

LEMMA HomeStep == HomeInv /\ [WorkspaceNext]_workspaceVars => HomeInv'
<1>1. HomeInv /\ WorkspaceNext => HomeInv'
  BY CreateHome, EnterHome, LeaveHome, ChangeHome, RunHome, UploadHome, StrayHome
     DEF WorkspaceNext, Handles
<1>2. HomeInv /\ UNCHANGED workspaceVars => HomeInv'
  BY DEF workspaceVars, zoneVars, HomeInv, ZoneTypeOK, InZone, Housed, Kept
<1>. QED
  BY <1>1, <1>2

THEOREM HomeInvariant == WorkspaceSpec => []HomeInv
BY HomeStep, HomeInitInv, PTL DEF WorkspaceSpec

\* A session's commands run in its own zone and in no other session's, whatever
\* zones were entered and left before and wherever "cd" has led
\* (handleEnterZone, handleLeaveZone, Workspace::execute_command).
THEOREM StayHome == WorkspaceSpec => []CommandsStayHome
<1>1. HomeInv => CommandsStayHome
  <2> SUFFICES ASSUME HomeInv, NEW s \in Sessions, InZone(s),
                      NEW t \in Sessions \ {s}, InZone(t), SX!IsPrefix(path[s], directory[t])
               PROVE  FALSE
    BY DEF CommandsStayHome, HomeInv, Housed
  <2>1. Zone(path[s]) /\ Zone(path[t]) /\ SX!IsPrefix(path[t], directory[t])
    BY NamesAreZones DEF HomeInv, InZone, Housed
  <2>2. path[s][1] = path[t][1]
    BY <2>1, ZoneLeads
  <2>. QED
    BY <2>1, <2>2, SameZone DEF HomeInv
<1>. QED
  BY <1>1, HomeInvariant, PTL

\* What was uploaded stays, but for the zone's own commands: the path check of
\* Workspace::validate_path keeps every other session's files out.
THEOREM KeepsUploads == WorkspaceSpec => []UploadsAreKept
<1>1. HomeInv => UploadsAreKept
  BY DEF HomeInv, Kept, UploadsAreKept
<1>. QED
  BY <1>1, HomeInvariant, PTL

\* Nothing happens to the files of a zone that nobody is in and in which no
\* process was left.
THEOREM StillZones == WorkspaceSpec => FreeZonesAreStill
<1> DEFINE Alone(name) == (\A s \in Sessions : path[s] # name)
                            /\ (\A d \in strays : ~SX!IsPrefix(name, d))
           Still(name) == \A f \in Below(name) \cup Below(name)' :
             f \in DOMAIN files /\ f \in DOMAIN files' /\ files'[f] = files[f]
           Stills == \A name \in Names : Alone(name) => Still(name)
<1>1. ASSUME NEW name \in Names, NEW z, OnlyIn(z), z[1] # name[1] PROVE Still(name)
  <2>1. ASSUME NEW f, SX!IsPrefix(name, f) PROVE f[1] # z[1]
    BY <1>1, <2>1, ZoneLeads, NamesAreZones
  <2>2. \A f \in Below(name) \cup Below(name)' : SX!IsPrefix(name, f)
    BY DEF Below
  <2>. QED
    BY <1>1, <2>1, <2>2 DEF OnlyIn, Below
<1>2. ASSUME NEW name, UNCHANGED files PROVE Still(name)
  BY <1>2 DEF Below
<1>3. ASSUME HomeInv, WorkspaceNext PROVE Stills
  <2> SUFFICES ASSUME NEW name \in Names, Alone(name) PROVE Still(name)
    OBVIOUS
  <2>1. CASE \E s \in Sessions : Handles(s) /\ files' # files
    <3>1. PICK s \in Sessions : Handles(s) /\ files' # files
      BY <2>1
    <3>2. InZone(s) /\ OnlyIn(path[s])
      BY <1>3, <3>1, HandlerFiles
    <3>3. path[s][1] # name[1]
      BY <1>3, <3>2, NamesAreZones, SameZone DEF HomeInv, InZone
    <3>. QED
      BY <1>1, <3>2, <3>3
  <2>2. CASE \E d \in strays : Stray(d)
    <3>1. PICK d \in strays : Stray(d)
      BY <2>2
    <3>2. d \in Paths /\ OnlyIn(d)
      BY <1>3, <3>1, RunStaysBelow DEF Stray, HomeInv, ZoneTypeOK
    <3>3. d[1] # name[1]
      BY <3>2, LeadsZone, NamesAreZones
    <3>. QED
      BY <1>1, <3>2, <3>3
  <2>. QED
    BY <1>2, <1>3, <2>1, <2>2 DEF WorkspaceNext
<1>4. HomeInv /\ [WorkspaceNext]_workspaceVars => [Stills]_workspaceVars
  BY <1>3
<1>. QED
  BY <1>4, HomeInvariant, PTL DEF WorkspaceSpec, FreeZonesAreStill

-----------------------------------------------------------------------------
(***************************************************************************)
(* The types.  A file lies below a zone's directory, never in its place,   *)
(* so that making a zone's directory meets no file; and a session outside  *)
(* the zones has no directory left from the last one.                      *)
(***************************************************************************)
FilesInv ==
  /\ \A f \in DOMAIN files : f \in Paths /\ ~TopLevel(f) /\ f \notin dirs
  /\ \A s \in Sessions : ~InZone(s) => directory[s] = None

LEMMA TopLevelPrefixes ==
  ASSUME NEW z, Zone(z)
  PROVE  Prefixes(z) = {z}
<1>1. Len(z) = 1 /\ SubSeq(z, 1, 1) = z
  BY DEF Zone, TopLevel, Paths
<1>. QED
  BY <1>1 DEF Prefixes

\* Only a file of the zone is written over or made by an upload.
LEMMA UploadTyped ==
  ASSUME HomeInv, FilesInv, NEW s \in Sessions, NEW name \in RemoteNames, NEW content, NEW reply,
         handleUpload(s, name, content, reply)
  PROVE  FilesInv'
<1> DEFINE p == path[s] \o name
           f == Normal(p)
<1>1. UNCHANGED <<dirs, path, directory>>
  BY DEF handleUpload, zoneVars
<1>2. CASE files' = files
  BY <1>1, <1>2 DEF FilesInv, InZone
<1>3. CASE files' # files
  <2>1. /\ InZone(s) /\ SX!IsPrefix(path[s], f) /\ Reachable(p) /\ ~IsDirectory(f)
        /\ files' = With(files, f, content)
    BY <1>3 DEF handleUpload, Writable, Inside
  <2>2. Zone(path[s]) /\ Dotless(path[s]) /\ name \in Paths
    BY <2>1, NamesAreZones, WorkspaceAssumption DEF HomeInv, InZone
  <2>3. p \in Seq(STRING) /\ Len(p) \in Nat /\ Len(p) > 1 /\ SubSeq(p, 1, 1) = path[s]
    BY <2>2 DEF Zone, TopLevel, Paths
  <2> HIDE DEF p
  <2>4. path[s] \in dirs
    <3>1. IsDirectory(Normal(SubSeq(p, 1, 1)))
      BY <2>1, <2>3 DEF Reachable
    <3>. QED
      BY <2>1, <2>2, <2>3, <3>1, NormalOfOne DEF IsDirectory, Zone, InZone, None
  <2>5. f \in Paths /\ f \notin dirs
    BY <2>1, <2>3, NormalIsPath DEF IsDirectory, Paths
  <2> HIDE DEF f
  <2>6. ~TopLevel(f)
    <3>1. TopLevel(f) => f = path[s]
      BY <2>1, <2>2, <2>5, ZoneLeads, SameZone DEF Zone
    <3>. QED
      BY <2>4, <2>5, <3>1
  <2>. QED
    BY <1>1, <2>1, <2>5, <2>6 DEF FilesInv, With, InZone
<1>. QED
  BY <1>2, <1>3

\* A process writes below its directory, and to no directory's place.
LEMMA RunTyped ==
  ASSUME HomeInv, FilesInv, NEW d \in Paths, RunIn(d)
  PROVE  \A f \in DOMAIN files' : f \in Paths /\ ~TopLevel(f) /\ f \notin dirs'
<1>1. ASSUME NEW name \in FileNames, NEW content, ~IsDirectory(d \o name), UNCHANGED dirs,
             files' = With(files, d \o name, content)
      PROVE  \A f \in DOMAIN files' : f \in Paths /\ ~TopLevel(f) /\ f \notin dirs'
  <2> DEFINE g == d \o name
  <2>0. name \in Paths
    BY WorkspaceAssumption
  <2>1. g \in Paths /\ ~TopLevel(g)
    BY <2>0 DEF Paths, TopLevel
  <2>2. g \notin dirs'
    BY <1>1 DEF IsDirectory
  <2>3. files' = With(files, g, content) /\ dirs' = dirs
    BY <1>1
  <2> HIDE DEF g
  <2>. QED
    BY <2>1, <2>2, <2>3 DEF FilesInv, With
<1>2. ASSUME DOMAIN files \cap dirs' = {}, UNCHANGED files
      PROVE  \A f \in DOMAIN files' : f \in Paths /\ ~TopLevel(f) /\ f \notin dirs'
  BY <1>2 DEF FilesInv
<1>3. ASSUME NEW S, dirs' \subseteq dirs, files' = Without(files, S)
      PROVE  \A f \in DOMAIN files' : f \in Paths /\ ~TopLevel(f) /\ f \notin dirs'
  BY <1>3 DEF FilesInv, Without
<1>4. ASSUME UNCHANGED <<dirs, files>>
      PROVE  \A f \in DOMAIN files' : f \in Paths /\ ~TopLevel(f) /\ f \notin dirs'
  BY <1>4 DEF FilesInv
<1>. QED
  BY <1>1, <1>2, <1>3, <1>4 DEF RunIn

LEMMA FilesStep ==
  ASSUME HomeInv, FilesInv, WorkspaceNext
  PROVE  FilesInv'
<1>1. ASSUME NEW s \in Sessions, NEW name \in Names, NEW reply, handleCreateZone(s, name, reply)
      PROVE  FilesInv'
  <2>1. Prefixes(name) = {name} /\ TopLevel(name)
    BY NamesAreZones, TopLevelPrefixes DEF Zone
  <2>2. dirs' \subseteq dirs \cup {name} /\ UNCHANGED <<files, path, directory>>
    BY <1>1, <2>1 DEF handleCreateZone, create_zone, zoneVars
  <2>. QED
    BY <2>1, <2>2 DEF FilesInv, InZone
<1>2. ASSUME NEW s \in Sessions, NEW name \in Names, NEW reply, handleEnterZone(s, name, reply)
      PROVE  FilesInv'
  <2>1. Prefixes(name) = {name} /\ TopLevel(name) /\ name # None
    BY NamesAreZones, TopLevelPrefixes DEF Zone, Paths, None
  <2>2. CASE reply = "ERROR"
    BY <1>2, <2>2 DEF handleEnterZone, zoneVars, FilesInv, InZone
  <2>3. CASE reply # "ERROR"
    <3>1. /\ dirs' = dirs \cup {name} /\ UNCHANGED files
          /\ path' = [path EXCEPT ![s] = name] /\ directory' = [directory EXCEPT ![s] = name]
      BY <1>2, <2>1, <2>3 DEF handleEnterZone, Entered
    <3>. QED
      BY <2>1, <3>1 DEF HomeInv, FilesInv, InZone
  <2>. QED
    BY <2>2, <2>3
<1>3. ASSUME NEW s \in Sessions, NEW reply, handleLeaveZone(s, reply)
      PROVE  FilesInv'
  <2>1. CASE InZone(s)
    BY <1>3, <2>1 DEF handleLeaveZone, Left, leave_zone, HomeInv, FilesInv, InZone
  <2>2. CASE ~InZone(s)
    BY <1>3, <2>2 DEF handleLeaveZone, workspaceVars, zoneVars, FilesInv, InZone
  <2>. QED
    BY <2>1, <2>2
<1>4. ASSUME NEW s \in Sessions, NEW name, NEW reply, changeDirectory(s, name, reply)
      PROVE  FilesInv'
  <2>1. /\ UNCHANGED <<dirs, files, path>>
        /\ \/ directory' = directory
           \/ InZone(s) /\ \E q : directory' = [directory EXCEPT ![s] = q]
    BY <1>4 DEF changeDirectory, zoneVars
  <2>. QED
    BY <2>1 DEF HomeInv, FilesInv, InZone
<1>5. ASSUME NEW s \in Sessions, NEW reply, runCommand(s, reply)
      PROVE  FilesInv'
  <2>1. UNCHANGED <<path, directory>>
    BY <1>5 DEF runCommand
  <2>2. CASE UNCHANGED <<files, dirs>>
    BY <2>1, <2>2 DEF FilesInv, InZone
  <2>3. CASE ~UNCHANGED <<files, dirs>>
    <3>1. RunIn(directory[s]) /\ directory[s] \in Paths
      BY <1>5, <2>3 DEF runCommand, HomeInv, Housed
    <3>. QED
      BY <2>1, <3>1, RunTyped DEF FilesInv, InZone
  <2>. QED
    BY <2>2, <2>3
<1>6. ASSUME NEW d \in strays, Stray(d)
      PROVE  FilesInv'
  <2>1. RunIn(d) /\ d \in Paths /\ UNCHANGED <<path, directory>>
    BY <1>6 DEF Stray, HomeInv
  <2>. QED
    BY <2>1, RunTyped DEF FilesInv, InZone
<1>. QED
  BY <1>1, <1>2, <1>3, <1>4, <1>5, <1>6, UploadTyped DEF WorkspaceNext, Handles

LEMMA FilesInvariant == WorkspaceSpec => []FilesInv
<1>1. WorkspaceInit => FilesInv
  BY DEF WorkspaceInit, FilesInv, InZone
<1>2. FilesInv /\ UNCHANGED workspaceVars => FilesInv'
  BY DEF workspaceVars, zoneVars, FilesInv, InZone
<1>. QED
  BY <1>1, <1>2, FilesStep, HomeInvariant, PTL DEF WorkspaceSpec

\* Files, directories and sessions have paths, and no file has the path of a
\* directory, whatever is uploaded, made, removed and entered (upload_file,
\* execute_command, create_directories).
THEOREM WorkspaceTypeCorrect == WorkspaceSpec => []WorkspaceTypeOK
<1>1. HomeInv /\ FilesInv => WorkspaceTypeOK
  BY NamesAssumption DEF HomeInv, Housed, FilesInv, WorkspaceTypeOK, InZone
<1>. QED
  BY <1>1, HomeInvariant, FilesInvariant, PTL

-----------------------------------------------------------------------------
\* A request creates a zone, takes one that is free, gives back its session's
\* own, or leaves the leases alone.
LEMMA LeaseStep ==
  ASSUME HomeInv, WorkspaceNext
  PROVE  [Lease!LeaseNext]_(Lease!leaseVars)
<1> USE DEF Lease!leaseVars
<1>1. ASSUME UNCHANGED <<zones, path>> PROVE UNCHANGED Lease!leaseVars
  BY <1>1 DEF Leased
<1>2. ASSUME NEW s \in Sessions, NEW name \in Names, NEW reply, handleCreateZone(s, name, reply)
      PROVE  [Lease!LeaseNext]_(Lease!leaseVars)
  <2>1. UNCHANGED Leased
    BY <1>2 DEF handleCreateZone, Leased
  <2>2. zones' = zones \/ zones' = zones \cup {name}
    BY <1>2 DEF handleCreateZone, create_zone, zoneVars
  <2>3. zones' = zones \cup {name} => Lease!Create(name)
    BY <2>1 DEF Lease!Create
  <2>. QED
    BY <2>1, <2>2, <2>3 DEF Lease!LeaseNext
<1>3. ASSUME NEW s \in Sessions, NEW name \in Names, NEW reply, handleEnterZone(s, name, reply)
      PROVE  [Lease!LeaseNext]_(Lease!leaseVars)
  <2>1. CASE reply = "ERROR"
    BY <1>1, <1>3, <2>1 DEF handleEnterZone, zoneVars
  <2>2. CASE reply # "ERROR"
    <3>1. /\ ~InZone(s) /\ name \in zones \ occupied
          /\ path' = [path EXCEPT ![s] = name] /\ zones' = zones
      BY <1>3, <2>2 DEF handleEnterZone, Entered
    <3>2. /\ \A t \in Sessions : path[t] # name
          /\ \A y \in Names : path[s] # y
      <4>1. name # None /\ None \notin Names
        BY NamesAssumption DEF None, Paths
      <4>. QED
        BY <3>1, <4>1 DEF HomeInv, Housed, InZone
    <3>3. Leased' = Leased \cup {<<s, name>>}
      BY <3>1, <3>2 DEF HomeInv, Leased
    <3>4. Lease!Free(name) /\ Lease!Outside(s)
      BY <3>2 DEF Lease!Free, Lease!Outside, Leased
    <3>5. Lease!Acquire(s, name)
      BY <3>1, <3>3, <3>4 DEF Lease!Acquire
    <3>. QED
      BY <3>5 DEF Lease!LeaseNext
  <2>. QED
    BY <2>1, <2>2
<1>4. ASSUME NEW s \in Sessions, NEW reply, handleLeaveZone(s, reply)
      PROVE  [Lease!LeaseNext]_(Lease!leaseVars)
  <2>1. CASE ~InZone(s)
    BY <1>1, <1>4, <2>1 DEF handleLeaveZone, workspaceVars, zoneVars
  <2>2. CASE InZone(s)
    <3>1. path' = [path EXCEPT ![s] = None] /\ zones' = zones /\ path[s] \in Names
      BY <1>4, <2>2 DEF handleLeaveZone, Left, leave_zone, HomeInv, InZone
    <3>2. None \notin Names
      BY NamesAssumption DEF None, Paths
    <3>3. Leased' = Leased \ {<<s, path[s]>>} /\ <<s, path[s]>> \in Leased
      BY <3>1, <3>2 DEF HomeInv, Leased
    <3>4. Lease!Release(s, path[s])
      BY <3>1, <3>3 DEF Lease!Release
    <3>. QED
      BY <3>1, <3>4 DEF Lease!LeaseNext
  <2>. QED
    BY <2>1, <2>2
<1>. QED
  BY <1>1, <1>2, <1>3, <1>4
     DEF WorkspaceNext, Handles, changeDirectory, runCommand, handleUpload, Stray, zoneVars

\* The workspaces implement the leases: nobody works on a zone's files but the
\* session that the zone is leased to (handleEnterZone, handleLeaveZone, close).
THEOREM WorkspaceRefinement == WorkspaceSpec => LeasesItsZones
<1>1. WorkspaceInit => Lease!LeaseInit
  BY NamesAssumption DEF WorkspaceInit, Lease!LeaseInit, Leased, None, Paths
<1>2. UNCHANGED workspaceVars => UNCHANGED Lease!leaseVars
  BY DEF workspaceVars, zoneVars, Lease!leaseVars, Leased
<1>. QED
  BY <1>1, <1>2, LeaseStep, HomeInvariant, PTL DEF WorkspaceSpec, LeasesItsZones, Lease!LeaseSpec
=============================================================================
