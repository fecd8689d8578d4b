---------------------------- MODULE ZoneManager ----------------------------
(***************************************************************************)
(* The zone table of the server (server/ZoneManager.{h,cpp}) and the       *)
(* directories under base_path_ ("workspaces") that back it.               *)
(*                                                                         *)
(* A zone name is a relative path, hence a non-empty sequence of path      *)
(* components: <<"a">> is the zone "a" and <<"a", "b">> the zone "a/b",    *)
(* whose directory lies inside that of "a".  Every member function holds   *)
(* mutex_ from its first line to its return and calls nothing that takes   *)
(* another lock, so each is one atomic step.                               *)
(***************************************************************************)
EXTENDS Naturals, Sequences

CONSTANTS
  Names,       \* the zone names the clients use
  InitialDirs, \* the directories found when the server starts
  ShellPaths   \* the directories a zone's shell commands make or remove

Paths == Seq(STRING) \ {<<>>}

TopLevel(p) == Len(p) = 1

\* No component stands for a directory itself or for the one above it.
Dotless(p) == \A i \in 1 .. Len(p) : p[i] \notin {".", ".."}

\* A name may be "." or "..", but not lead through them: it would be another
\* spelling of some other path.
ASSUME NamesAssumption ==
  /\ Names \subseteq Paths /\ InitialDirs \subseteq Paths /\ ShellPaths \subseteq Paths
  /\ \A p \in InitialDirs \cup ShellPaths : Dotless(p)
  /\ \A name \in Names : Dotless(name) \/ TopLevel(name)

VARIABLES
  zones,       \* the keys of zones_
  occupied,    \* the keys whose ZoneInfo has occupied = true
  dirs         \* the directories on disk, as paths relative to base_path_

zoneVars == <<zones, occupied, dirs>>

(***************************************************************************)
(* The directories create_directories(p) leaves behind: p and everything   *)
(* above it.                                                               *)
(***************************************************************************)
Prefixes(p) == {SubSeq(p, 1, i) : i \in 1 .. Len(p)}

-----------------------------------------------------------------------------
(***************************************************************************)
(* The member functions.  `result' is the returned bool.  A name is        *)
(* refused when it is in the table, and also when create_directories       *)
(* returns false because the directory is already there, as "." and ".."   *)
(* always are.                                                             *)
(***************************************************************************)
CreateRefused(name) == name \in zones \/ name \in dirs \/ ~Dotless(name)

\* Broken: an existing entry is replaced by a new one, which is available.
create_zone_again(name, result) ==
  /\ result = TRUE
  /\ zones' = zones \cup {name}
  /\ dirs' = dirs \cup Prefixes(name)
  /\ occupied' = occupied \ {name}

create_zone(name, result) ==
  /\ result = ~CreateRefused(name)
  /\ zones' = IF result THEN zones \cup {name} ELSE zones
  /\ dirs' = IF result THEN dirs \cup Prefixes(name) ELSE dirs
  /\ UNCHANGED occupied

\* Broken: the name is not looked up before it is marked.
enter_zone_unknown(name, result) ==
  /\ result = (name \notin occupied)
  /\ occupied' = IF result THEN occupied \cup {name} ELSE occupied
  /\ UNCHANGED <<zones, dirs>>

\* Broken: the flag is not tested.
enter_zone_shared(name, result) ==
  /\ result = (name \in zones)
  /\ occupied' = IF result THEN occupied \cup {name} ELSE occupied
  /\ UNCHANGED <<zones, dirs>>

enter_zone(name, result) ==
  /\ result = (name \in zones \ occupied)
  /\ occupied' = IF result THEN occupied \cup {name} ELSE occupied
  /\ UNCHANGED <<zones, dirs>>

leave_zone(name) ==
  /\ occupied' = IF name \in zones THEN occupied \ {name} ELSE occupied
  /\ UNCHANGED <<zones, dirs>>

\* An entry of the table.
ZoneInfo(name) == [name |-> name, occupied |-> name \in occupied]

\* The entries list_zones() reports, each with "occupied" or "available".
list_zones == {ZoneInfo(name) : name \in zones}

\* Broken: a directory with subdirectories is passed over.
ScanLeaves(entries) ==
  {d \in entries : TopLevel(d) /\ \A e \in entries : d \in Prefixes(e) => e = d}

(***************************************************************************)
(* The constructor: it reads the table from the immediate subdirectories   *)
(* of base_path_ (directory_iterator does not descend), all available.     *)
(***************************************************************************)
Scan(entries) == {d \in entries : TopLevel(d)}

ZoneInit ==
  /\ dirs = InitialDirs
  /\ zones = Scan(dirs)
  /\ occupied = {}

scan_existing_zones ==
  /\ zones' = Scan(dirs)
  /\ occupied' = {}
  /\ UNCHANGED dirs

(***************************************************************************)
(* What a shell command run in some zone may do to the directories: the    *)
(* command's working directory is inside base_path_ and nothing confines   *)
(* it (mkdir -p and rm -r).                                                *)
(***************************************************************************)
ShellEffects ==
  {dirs} \cup {dirs \cup Prefixes(p) : p \in ShellPaths}
         \cup {{d \in dirs : p \notin Prefixes(d)} : p \in ShellPaths}

ShellCommand ==
  /\ dirs' \in ShellEffects
  /\ UNCHANGED <<zones, occupied>>

\* Workspace(get_zone_path(name)): the constructor makes the directory again
\* if it is gone.
open_workspace(name) ==
  /\ dirs' = dirs \cup Prefixes(name)
  /\ UNCHANGED <<zones, occupied>>

-----------------------------------------------------------------------------
(***************************************************************************)
(* The table on its own: any thread may call any member function, a zone   *)
(* that has been entered gets its workspace directory, a shell command may *)
(* run while some zone is occupied, and the server may be started again    *)
(* over the directories it left.                                           *)
(***************************************************************************)
Create == \E name \in Names, result \in BOOLEAN : create_zone(name, result)

Enter == \E name \in Names, result \in BOOLEAN : enter_zone(name, result)

Open == \E name \in occupied : open_workspace(name)

Leave == \E name \in occupied : leave_zone(name)

Shell == occupied # {} /\ ShellCommand

ZoneNext ==
  \/ Create
  \/ Enter
  \/ Open
  \/ Leave
  \/ Shell
  \/ scan_existing_zones

ZoneSpec == ZoneInit /\ [][ZoneNext]_zoneVars

-----------------------------------------------------------------------------
(***************************************************************************)
(* Properties.                                                             *)
(***************************************************************************)

\* The table and the directories hold paths; the flag belongs to an entry of
\* the table.
ZoneTypeOK ==
  /\ zones \subseteq Paths
  /\ occupied \subseteq zones
  /\ dirs \subseteq Paths

\* CREATE_ZONE answers "Zone exists" only for a zone that LIST_ZONES reports.
\* It need not: ZoneProofs has the names for which this is so.
RefusedZonesAreListed ==
  \A name \in Names : CreateRefused(name) => \E z \in list_zones : z.name = name

\* Whatever the names and the shell commands, a top-level zone that still has
\* its directory is never lost from the table.
TopLevelZonesPersist ==
  [][\A z \in zones : TopLevel(z) /\ z \in dirs' => z \in zones']_zoneVars
=============================================================================
