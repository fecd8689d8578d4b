------------------------------ MODULE MCClient ------------------------------
(***************************************************************************)
(* Small instances of Client: one zone, this client's session and one      *)
(* other, local files that are empty or missing, of several lines, and     *)
(* with the delimiter inside, and files too long for one send.             *)
(***************************************************************************)
EXTENDS Client

MCText == {"", "x", "y", "END_CMD", "long", "?"}
MCMarker == Plain("END_CMD")
MCBlank == Plain("")
MCGarbage == Plain("?")
MCLong == {Plain("long")}
MCLine == Lines

MCNames == {<<"a">>}
MCInitialDirs == {}
MCShellPaths == {}
MCFileNames == {<<"f">>}
MCContents == {<<"x">>}
MCUploads == {"x", "y"}
MCRemoteNames == {<<"f">>}
MCDirectories == {<<"..">>}

Typing(cmds, name, content) == [cmd : cmds, name : {name}, content : {content}]

MCTyped ==
  Typing({"help", "exit", "leave_zone", "list_zones", "dir", ""}, <<>>, <<"">>)
    \cup Typing({"create_zone", "enter_zone"}, <<"a">>, <<"">>)
    \cup Typing({"command"}, <<"run">>, <<"">>)
    \cup Typing({"command"}, <<"cd", "..">>, <<"">>)
    \cup Typing({"download"}, <<"f">>, <<"">>)
    \cup UNION {Typing({"upload"}, <<"f">>, content) :
                 content \in {<<"">>, <<"", "y", "x">>, <<"x", "END_CMD", "x">>}}
    \cup Typing({"upload"}, <<>>, <<"">>)

MCOutputs == {<<"long">>}
=============================================================================
