----------------------------- MODULE ZoneProofs -----------------------------
(***************************************************************************)
(* Theorems about the zone table, for every set of names, of directories   *)
(* found and of paths that shell commands touch.                           *)
(***************************************************************************)
EXTENDS ZoneManager, TLAPS

\* The directories above a path are paths.
LEMMA PrefixesArePaths ==
  ASSUME NEW p \in Paths
  PROVE  Prefixes(p) \subseteq Paths
BY DEF Prefixes, Paths

LEMMA ShellEffectsArePaths ==
  ASSUME dirs \subseteq Paths, NEW d \in ShellEffects
  PROVE  d \subseteq Paths
BY PrefixesArePaths, NamesAssumption DEF ShellEffects

\* Every variable keeps its type, over any number of restarts: in particular an
\* occupied name is one of the table.
THEOREM ZoneTypeCorrect == ZoneSpec => []ZoneTypeOK
<1>1. ZoneInit => ZoneTypeOK
  BY NamesAssumption DEF ZoneInit, ZoneTypeOK, Scan
<1>2. ZoneTypeOK /\ ZoneNext => ZoneTypeOK'
  <2> SUFFICES ASSUME ZoneTypeOK, ZoneNext PROVE ZoneTypeOK'
    OBVIOUS
  <2> USE NamesAssumption, PrefixesArePaths DEF ZoneTypeOK
  <2>1. CASE Create
    BY <2>1 DEF Create, create_zone
  <2>2. CASE Enter \/ Open \/ Leave
    BY <2>2 DEF Enter, enter_zone, Open, open_workspace, Leave, leave_zone
  <2>3. CASE Shell
    BY <2>3, ShellEffectsArePaths DEF Shell, ShellCommand
  <2>4. CASE scan_existing_zones
    BY <2>4 DEF scan_existing_zones, Scan
  <2>. QED
    BY <2>1, <2>2, <2>3, <2>4 DEF ZoneNext
<1>3. ZoneTypeOK /\ UNCHANGED zoneVars => ZoneTypeOK'
  BY DEF ZoneTypeOK, zoneVars
<1>. QED
  BY <1>1, <1>2, <1>3, PTL DEF ZoneSpec

\* A top-level zone whose directory is there stays in the table, whatever names,
\* commands and restarts come: the only step that drops an entry is the scan of
\* the constructor, which finds that directory.
THEOREM TopLevelPersist == ZoneSpec => TopLevelZonesPersist
<1> DEFINE Persists == \A z \in zones : TopLevel(z) /\ z \in dirs' => z \in zones'
<1>1. [ZoneNext]_zoneVars => [Persists]_zoneVars
  BY DEF ZoneNext, Create, create_zone, Enter, enter_zone, Open, open_workspace, Leave,
         leave_zone, Shell, ShellCommand, scan_existing_zones, Scan, zoneVars
<1>. QED
  BY <1>1, PTL DEF ZoneSpec, TopLevelZonesPersist

-----------------------------------------------------------------------------
(***************************************************************************)
(* Where "Zone exists" is true: for names of one component that is neither *)
(* "." nor "..", as long as no command makes a directory with the name of  *)
(* a zone.  Without the first, a zone "a/b" keeps its directory over a     *)
(* restart and loses its entry, and "." and ".." are refused and never     *)
(* listed.                                                                 *)
(***************************************************************************)
Flat ==
  /\ \A name \in Names : TopLevel(name) /\ Dotless(name)
  /\ \A p \in ShellPaths : Prefixes(p) \cap Names = {}

LEMMA FlatPrefixes ==
  ASSUME NEW p \in Paths, TopLevel(p)
  PROVE  Prefixes(p) = {p}
<1>1. p \in Seq(STRING) /\ Len(p) = 1
  BY DEF Paths, TopLevel
<1>2. SubSeq(p, 1, 1) = p
  BY <1>1
<1>. QED
  BY <1>1, <1>2 DEF Prefixes

ListedInv ==
  /\ ZoneTypeOK
  /\ \A z \in zones : TopLevel(z)
  /\ Names \cap dirs \subseteq zones

\* A client that is told "Zone exists" finds the zone in the list, over any
\* number of restarts, when every name is a single component other than "." and
\* ".." and the commands make no directory that has the name of a zone
\* (create_zone, list_zones, scan_existing_zones).
THEOREM FlatRefusalsAreListed ==
  ASSUME Flat
  PROVE  ZoneSpec => []RefusedZonesAreListed
<1>1. ZoneInit => ListedInv
  BY NamesAssumption DEF ZoneInit, ZoneTypeOK, Scan, ListedInv, Flat
<1>2. ListedInv /\ ZoneTypeOK' /\ ZoneNext => ListedInv'
  <2> SUFFICES ASSUME ListedInv, ZoneTypeOK', ZoneNext PROVE ListedInv'
    OBVIOUS
  <2>1. CASE Create
    <3>1. PICK name \in Names, result \in BOOLEAN : create_zone(name, result)
      BY <2>1 DEF Create
    <3>2. Prefixes(name) = {name}
      BY FlatPrefixes, NamesAssumption DEF Flat
    <3>. QED
      BY <3>1, <3>2 DEF create_zone, ListedInv, Flat
  <2>2. CASE Open
    <3>1. PICK name \in occupied : open_workspace(name)
      BY <2>2 DEF Open
    <3>2. name \in zones /\ Prefixes(name) = {name}
      BY FlatPrefixes DEF ListedInv, ZoneTypeOK
    <3>. QED
      BY <3>1, <3>2 DEF open_workspace, ListedInv
  <2>3. CASE Enter \/ Leave
    BY <2>3 DEF Enter, enter_zone, Leave, leave_zone, ListedInv
  <2>4. CASE Shell
    <3>1. Names \cap dirs' \subseteq dirs
      BY <2>4 DEF Shell, ShellCommand, ShellEffects, Flat
    <3>. QED
      BY <2>4, <3>1 DEF Shell, ShellCommand, ListedInv
  <2>5. CASE scan_existing_zones
    BY <2>5 DEF scan_existing_zones, Scan, ListedInv, Flat
  <2>. QED
    BY <2>1, <2>2, <2>3, <2>4, <2>5 DEF ZoneNext
<1>3. ListedInv /\ UNCHANGED zoneVars => ListedInv'
  BY DEF ListedInv, ZoneTypeOK, zoneVars
<1>4. ListedInv => RefusedZonesAreListed
  <2> SUFFICES ASSUME ListedInv, NEW name \in Names, CreateRefused(name)
               PROVE  \E z \in list_zones : z.name = name
    BY DEF RefusedZonesAreListed
  <2>1. name \in zones /\ ZoneInfo(name).name = name
    BY DEF ListedInv, CreateRefused, ZoneInfo, Flat
  <2>. QED
    BY <2>1 DEF list_zones
<1>. QED
  BY <1>1, <1>2, <1>3, <1>4, ZoneTypeCorrect, PTL DEF ZoneSpec, ListedInv
=============================================================================
