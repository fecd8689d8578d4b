----------------------------- MODULE MCSession -----------------------------
(***************************************************************************)
(* Instances of Session for TLC.                                           *)
(***************************************************************************)
EXTENDS Session, TLC

CONSTANTS s1, s2

MCNames == {<<"a">>, <<"b">>}

MCOneName == {<<"a">>}

MCNone == {}

MCShell == {<<"b">>}

NoName == {NoZone}

\* Every request of the protocol.
MCAllRequests ==
  [op : {"CREATE_ZONE", "ENTER_ZONE"}, name : Names \cup NoName]
    \cup [op : {"LEAVE_ZONE", "LIST_ZONES", "COMMAND", "UPLOAD", "UPLOAD_EMPTY",
                "DOWNLOAD", "UNKNOWN"}, name : NoName]

\* Sessions that work in one zone, which is there from the start.
MCWorkRequests ==
  [op : {"ENTER_ZONE"}, name : Names] \cup [op : {"LEAVE_ZONE", "COMMAND"}, name : NoName]

Symmetry == Permutations(Sessions)
=============================================================================
