----------------------------- MODULE Workspace -----------------------------
(***************************************************************************)
(* The workspaces of the sessions (server/Workspace.cpp) as the request    *)
(* handlers use them (server/command_handlers/SessionCommandHandler.cpp):  *)
(* the files of the zones, the directory a session's commands run in, the  *)
(* path check, and the processes that commands leave running.              *)
(*                                                                         *)
(* A request is one step here; Session has the steps inside it.  A path is *)
(* a sequence of components, relative to base_path_; <<>> is base_path_    *)
(* itself.  There are no symbolic links.                                   *)
(***************************************************************************)
EXTENDS ZoneManager

SX == INSTANCE SequencesExt

CONSTANTS
  Sessions,    \* the connections
  Text,        \* texts of lines
  Contents,    \* what commands write to files: a text for every line
  Uploads,     \* the lines that uploads bring
  FileNames,   \* the files that shell commands write, relative to their directory
  RemoteNames, \* the names in uploads and downloads
  Directories  \* the directories in "cd"

\* No zone lies in another (zone_nested is about those that do), so no file is
\* ever in the way of a zone's directory.  None is "." or "..", which create_zone
\* refuses.  The names that requests bring may have both; what a shell command
\* does is told by the paths it reaches, which do not.
ASSUME WorkspaceAssumption ==
  /\ Contents \subseteq Seq(Text) \ {<<>>}
  /\ Uploads \subseteq Text \ {""}
  /\ \A name \in Names \cup InitialDirs : TopLevel(name) /\ Dotless(name)
  /\ FileNames \cup RemoteNames \cup Directories \subseteq Paths
  /\ \A name \in FileNames : Dotless(name)

VARIABLES
  files,       \* the files: a function from their paths to contents
  path,        \* Workspace::path_, the zone's directory; <<>> outside a zone
  directory,   \* Workspace::current_directory_
  strays,      \* the directories, still there, that a process left by a command
               \* runs in
  kept         \* history: per session, the files it has uploaded to the zone it
               \* is in and no command of that zone has touched

workspaceVars == <<zoneVars, files, path, directory, strays, kept>>

None == <<>>

\* The first words of the responses.
Replies == {"ZONE_CREATED", "ENTERED_ZONE", "LEFT_ZONE", "ZONES:", "CMD_RESULT", "UPLOAD_OK",
            "UPLOAD_ERROR", "DOWNLOAD", "DOWNLOAD_ERROR", "ERROR"}

InZone(s) == path[s] # None

-----------------------------------------------------------------------------
(***************************************************************************)
(* Paths.  Normal is lexically_normal: "." is dropped, and ".." takes the  *)
(* component before it away.  Inside is the test on fs::relative, which is *)
(* relative to the zone's directory and must not begin with "..".          *)
(***************************************************************************)
Go(q, c) ==
  IF c = "." THEN q
  ELSE IF c = ".." /\ q # <<>> /\ SX!Last(q) # ".." THEN SX!Front(q)
  ELSE Append(q, c)

Normal(p) ==
  LET walked[i \in 0 .. Len(p)] == IF i = 0 THEN <<>> ELSE Go(walked[i - 1], p[i])
  IN  walked[Len(p)]

\* Broken: the path is compared before it is normalised.
InsideUnnormalised(s, p) == SX!IsPrefix(path[s], p)

Inside(s, p) == SX!IsPrefix(path[s], Normal(p))

IsDirectory(p) == p = <<>> \/ p \in dirs

\* The system finds a file by going down its path from directory to directory.
Reachable(p) == \A i \in 1 .. Len(p) - 1 : IsDirectory(Normal(SubSeq(p, 1, i)))

Below(p) == {f \in DOMAIN files : SX!IsPrefix(p, f)}

Without(f, S) == [x \in DOMAIN f \ S |-> f[x]]

With(f, x, value) == [y \in DOMAIN f \cup {x} |-> IF y = x THEN value ELSE f[y]]

-----------------------------------------------------------------------------
(***************************************************************************)
(* The handlers of SessionCommandHandler, with their whole effect.         *)
(* `reply' is the first word of the response.                              *)
(***************************************************************************)
handleCreateZone(s, name, reply) ==
  /\ IF InZone(s)
     THEN reply = "ERROR" /\ UNCHANGED zoneVars
     ELSE \E created \in BOOLEAN :
            /\ create_zone(name, created)
            /\ reply = IF created THEN "ZONE_CREATED" ELSE "ERROR"
  /\ UNCHANGED <<files, path, directory, strays, kept>>

\* Broken: the session's directory stays that of the workspace before.
EnteredKeeping(s, name) ==
  /\ path' = [path EXCEPT ![s] = name]
  /\ dirs' = dirs \cup Prefixes(name)
  /\ UNCHANGED directory

\* workspace = Workspace(get_zone_path(name)), and the zone's name.
Entered(s, name) ==
  /\ path' = [path EXCEPT ![s] = name]
  /\ directory' = [directory EXCEPT ![s] = name]
  /\ dirs' = dirs \cup Prefixes(name)

handleEnterZone(s, name, reply) ==
  /\ reply = IF ~InZone(s) /\ name \in zones \ occupied THEN "ENTERED_ZONE" ELSE "ERROR"
  /\ IF reply = "ERROR"
     THEN UNCHANGED <<zoneVars, path, directory>>
     ELSE /\ occupied' = occupied \cup {name}
          /\ Entered(s, name)
          /\ UNCHANGED zones
  /\ UNCHANGED <<files, strays, kept>>

\* Broken: the zone is released, and the session still has its name.
LeftNamed(s) ==
  /\ leave_zone(path[s])
  /\ kept' = [kept EXCEPT ![s] = <<>>]
  /\ UNCHANGED <<files, strays, path, directory>>

\* workspace = Workspace(), and no zone's name.  When the session is closed
\* instead, close() leaves the zone and the workspace goes with the session.
Left(s) ==
  /\ leave_zone(path[s])
  /\ path' = [path EXCEPT ![s] = None]
  /\ directory' = [directory EXCEPT ![s] = None]
  /\ kept' = [kept EXCEPT ![s] = <<>>]
  /\ UNCHANGED <<files, strays>>

handleLeaveZone(s, reply) ==
  /\ reply = IF InZone(s) THEN "LEFT_ZONE" ELSE "ERROR"
  /\ IF InZone(s) THEN Left(s) ELSE UNCHANGED workspaceVars

\* Broken: a directory is written over.
WritableOver(s, p) == Inside(s, p) /\ Reachable(p)

\* Broken: validate_path is not called.
WritableAnywhere(s, p) == InZone(s) /\ Reachable(p) /\ ~IsDirectory(Normal(p))

\* upload_file: inside the zone, in a directory that is there, and not over a
\* directory.
Writable(s, p) == Inside(s, p) /\ Reachable(p) /\ ~IsDirectory(Normal(p))

handleUpload(s, name, content, reply) ==
  LET p == path[s] \o name IN
  /\ reply = IF ~InZone(s) THEN "ERROR"
             ELSE IF Writable(s, p) THEN "UPLOAD_OK" ELSE "UPLOAD_ERROR"
  /\ IF reply = "UPLOAD_OK"
     THEN /\ files' = With(files, Normal(p), content)
          /\ kept' = [kept EXCEPT ![s] = With(@, Normal(p), content)]
     ELSE UNCHANGED <<files, kept>>
  /\ UNCHANGED <<zoneVars, path, directory, strays>>

\* download_file reads a file of the zone; nothing changes.
Readable(s, p) == Inside(s, p) /\ Reachable(p) /\ Normal(p) \in DOMAIN files

handleDownload(s, name, reply) ==
  /\ reply = IF ~InZone(s) THEN "ERROR"
             ELSE IF Readable(s, path[s] \o name) THEN "DOWNLOAD" ELSE "DOWNLOAD_ERROR"
  /\ UNCHANGED workspaceVars

-----------------------------------------------------------------------------
(***************************************************************************)
(* COMMAND.  "cd" is the server's own: it moves the session's directory,   *)
(* which uploads and downloads take no notice of.                          *)
(***************************************************************************)
changeDirectory(s, name, reply) ==
  LET new == directory[s] \o name IN
  /\ reply = IF InZone(s) THEN "CMD_RESULT" ELSE "ERROR"
  /\ directory' = IF InZone(s) /\ Inside(s, new) /\ IsDirectory(Normal(new))
                  THEN [directory EXCEPT ![s] = Normal(new)] ELSE directory
  /\ UNCHANGED <<zoneVars, files, path, strays, kept>>

(***************************************************************************)
(* What a process run in directory d does: it writes a file, makes or      *)
(* removes a directory, below d.  (Nothing keeps it below d: see           *)
(* ShellCommand in ZoneManager for the table's view of that.)              *)
(***************************************************************************)
RunIn(d) ==
  \/ /\ \E name \in FileNames, content \in Contents :
          /\ ~IsDirectory(d \o name) /\ Reachable(d \o name)
          /\ files' = With(files, d \o name, content)
     /\ UNCHANGED dirs
  \/ /\ \E p \in ShellPaths : SX!IsPrefix(d, p) /\ dirs' = dirs \cup Prefixes(p)
     /\ DOMAIN files \cap dirs' = {}
     /\ UNCHANGED files
  \/ \E p \in ShellPaths \cap dirs :
       /\ SX!IsPrefix(d, p)
       /\ dirs' = {e \in dirs : ~SX!IsPrefix(p, e)}
       /\ files' = Without(files, Below(p))
  \/ UNCHANGED <<dirs, files>>

\* Every session's uploads, but those that the step has changed.
KeepUntouched ==
  kept' = [s \in Sessions |->
             Without(kept[s], {f \in DOMAIN kept[s] : f \notin DOMAIN files' \/ files'[f] # kept[s][f]})]

\* A shell command: bash starts in the session's directory, if that is there,
\* and may leave a process behind.
runCommand(s, reply) ==
  /\ reply = IF InZone(s) THEN "CMD_RESULT" ELSE "ERROR"
  /\ IF InZone(s) /\ IsDirectory(directory[s])
     THEN /\ RunIn(directory[s])
          /\ \E left \in {{}, {directory[s]}} : strays' = (strays \cup left) \cap dirs'
          /\ kept' = [kept EXCEPT ![s] = <<>>]
     ELSE UNCHANGED <<files, dirs, strays, kept>>
  /\ UNCHANGED <<zones, occupied, path, directory>>

\* A process that was left goes on, whoever is in the zone by now, and ends.  In
\* a directory that has been removed it finds nothing, even if that is made again.
Stray(d) ==
  /\ d \in strays
  /\ RunIn(d)
  /\ \E over \in {{}, {d}} : strays' = (strays \ over) \cap dirs'
  /\ KeepUntouched
  /\ UNCHANGED <<zones, occupied, path, directory>>

-----------------------------------------------------------------------------
WorkspaceInit ==
  /\ ZoneInit
  /\ files = <<>>
  /\ path = [s \in Sessions |-> None]
  /\ directory = [s \in Sessions |-> None]
  /\ strays = {}
  /\ kept = [s \in Sessions |-> <<>>]

\* A request of session s, or its end.
Handles(s) ==
  \E reply \in Replies :
    \/ \E name \in Names : handleCreateZone(s, name, reply)
    \/ \E name \in Names : handleEnterZone(s, name, reply)
    \/ handleLeaveZone(s, reply)
    \/ \E d \in Directories : changeDirectory(s, d, reply)
    \/ runCommand(s, reply)
    \/ \E name \in RemoteNames, text \in Uploads : handleUpload(s, name, <<text>>, reply)

WorkspaceNext ==
  \/ \E s \in Sessions : Handles(s)
  \/ \E d \in strays : Stray(d)

WorkspaceSpec == WorkspaceInit /\ [][WorkspaceNext]_workspaceVars

-----------------------------------------------------------------------------
(***************************************************************************)
(* Properties.                                                             *)
(***************************************************************************)
WorkspaceTypeOK ==
  /\ ZoneTypeOK
  /\ DOMAIN files \subseteq Paths /\ DOMAIN files \cap dirs = {}
  /\ \A s \in Sessions : {path[s], directory[s]} \subseteq Paths \cup {None}
  /\ strays \subseteq Paths

\* The commands of a session run in its own zone, and two sessions' commands
\* never in one another's: the table, the zone's directory and the directory
\* that "cd" moves agree, whatever zones have been entered and left before.
CommandsStayHome ==
  \A s \in Sessions :
    InZone(s) =>
      /\ path[s] \in occupied /\ SX!IsPrefix(path[s], directory[s])
      /\ \A t \in Sessions \ {s} : InZone(t) => ~SX!IsPrefix(path[s], directory[t])

\* What a session has uploaded stays as it is while the session is in the zone:
\* no upload by another session reaches it, by whatever path.
UploadsAreKept ==
  \A s \in Sessions :
    \A f \in DOMAIN kept[s] : f \in DOMAIN files /\ files[f] = kept[s][f]

\* The files of a zone that no session is in, and that no process left in it is
\* still running in, do not change, whatever paths the others use.
FreeZonesAreStill ==
  [][\A name \in Names :
       (\A s \in Sessions : path[s] # name) /\ (\A d \in strays : ~SX!IsPrefix(name, d)) =>
         \A f \in Below(name) \cup Below(name)' :
           f \in DOMAIN files /\ f \in DOMAIN files' /\ files'[f] = files[f]]_workspaceVars

(***************************************************************************)
(* Whole requests keep the promise of ZoneLease, as the steps inside them  *)
(* do (Session!ImplementsLease): the zone whose files a session works on   *)
(* is leased to it, and to no other, until it leaves.                      *)
(***************************************************************************)
Leased == {p \in Sessions \X Names : path[p[1]] = p[2]}

Lease == INSTANCE ZoneLease WITH known <- zones, held <- Leased

LeasesItsZones == Lease!LeaseSpec
=============================================================================
