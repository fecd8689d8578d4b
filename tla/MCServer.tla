------------------------------ MODULE MCServer ------------------------------
(***************************************************************************)
(* Instances of Server for TLC.                                            *)
(***************************************************************************)
EXTENDS Server, TLC

CONSTANTS s1, s2

MCOneName == {<<"a">>}

MCNone == {}

\* Sessions that work in one zone, which is there from the start.
MCWorkRequests ==
  [op : {"ENTER_ZONE"}, name : Names] \cup [op : {"LEAVE_ZONE", "COMMAND"}, name : {NoZone}]

\* Sessions that enter the zone and stay until they are closed.
MCStayRequests ==
  [op : {"ENTER_ZONE"}, name : Names] \cup [op : {"COMMAND"}, name : {NoZone}]

Symmetry == Permutations(Sessions)
=============================================================================
