--------------------------- MODULE MCZoneManager ---------------------------
(***************************************************************************)
(* Instances of ZoneManager for TLC: names with and without a '/', one     *)
(* that is always refused, and the paths that shell commands touch.        *)
(***************************************************************************)
EXTENDS ZoneManager

MCNested == {<<"a">>, <<"b">>, <<"a", "b">>, <<"..">>}

MCShell == {<<"a">>, <<"c">>}
=============================================================================
