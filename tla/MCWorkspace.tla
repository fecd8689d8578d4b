---------------------------- MODULE MCWorkspace ----------------------------
(***************************************************************************)
(* A small instance of Workspace: two sessions, a zone that is there and   *)
(* one to be created, and names that lead out of a zone, directly or past  *)
(* a directory, and through ".".  A command may make a directory where     *)
(* others upload a file.                                                   *)
(***************************************************************************)
EXTENDS Workspace

MCText == {"x", "y"}
MCNames == {<<"a">>, <<"b">>}
MCInitialDirs == {<<"b">>}
MCShellPaths == {<<"a">>, <<"a", "f">>}
MCFileNames == {<<"f">>}
MCContents == {<<"x">>, <<"y">>}
MCUploads == {"x", "y"}
MCRemoteNames == {<<"f">>, <<"..", "b", "f">>, <<"f", ".", "..", "f">>}
MCDirectories == {<<".", "f">>, <<"..">>}
=============================================================================
