------------------------------- MODULE Server -------------------------------
(***************************************************************************)
(* The life of the server (server/Server.cpp, main.cpp): the acceptor, the *)
(* operator's "stop" and the end of the process, composed with the         *)
(* connections of Session.                                                 *)
(*                                                                         *)
(* Server::stop runs on a thread of the pool as part of the handler of a   *)
(* console line, beside whatever the other threads do.  Its steps are      *)
(*   copying   acceptor_ is closed, sessions_ is being copied;             *)
(*   closing   between two calls of Session::close();                      *)
(*   shutting, clearing   inside the call for the session `target'.        *)
(***************************************************************************)
EXTENDS Session

CONSTANT NoSession

ASSUME ServerAssumption == NoSession \notin Sessions

VARIABLES
  acceptor,    \* "open"; "last": closed while the handler of one more accepted
               \* connection was queued; or "closed"
  copy,        \* Server::stop's sessions_copy: references to sessions
  todo,        \* those of copy that stop has still to close
  target,      \* the session stop is closing
  raced,       \* sessions_ was changed while stop copied it
  stale        \* the sessions erased from it meanwhile, whose freed nodes the
               \* loop may still meet

stopVars == <<acceptor, copy, todo, target, raced, stale>>

serverVars == <<sessionVars, stopVars>>

StopPhases == {"copying", "closing", "shutting", "clearing"}

-----------------------------------------------------------------------------
(***************************************************************************)
(* The console: the handler of a line runs handle_command on a thread of   *)
(* the pool and then waits for the next.  At the end of the input it does  *)
(* not wait again, and nobody can stop the server any more.                *)
(***************************************************************************)
Console(phase, next) ==
  /\ console = phase /\ console' = next
  /\ UNCHANGED <<zoneVars, io, registered, pc, talkVars, current_zone, socketVars, peer,
                 stopVars>>

\* "help", "status" and anything unknown only print.
ConsoleLine == Dispatch /\ Console("waiting", "printing")

ConsoleDone == Running /\ Console("printing", "waiting")

ConsoleClosed == Dispatch /\ Console("waiting", "closed")

(***************************************************************************)
(* stop() closes the acceptor, then copies sessions_, one reference after  *)
(* the other, without taking sessions_mutex_.                              *)
(***************************************************************************)
StopBegin ==
  /\ Dispatch
  /\ console = "waiting" /\ acceptor = "open"
  /\ acceptor' \in {"closed", "last"}
  /\ console' = "copying"
  /\ UNCHANGED <<zoneVars, io, registered, pc, talkVars, current_zone,
                 socketVars, peer, copy, todo, target, raced, stale>>

(***************************************************************************)
(* The loop over the hash table.  An insertion or erasure beside it frees  *)
(* nodes and relinks them: the loop may then read the node of an erased    *)
(* session, take a reference from it although the session is destroyed     *)
(* already, end without having seen every session, or crash.               *)
(***************************************************************************)
StopCopy(s) ==
  /\ Running /\ console = "copying"
  /\ s \in (registered \cup stale) \ copy
  /\ copy' = copy \cup {s}
  /\ UNCHANGED <<zoneVars, hostVars, pc, talkVars, current_zone, socketVars, peer,
                 acceptor, todo, target, raced, stale>>

StopCopied ==
  /\ Running /\ console = "copying"
  /\ registered \subseteq copy \/ raced
  /\ todo' = copy
  /\ stale' = {}
  /\ console' = "closing"
  /\ UNCHANGED <<zoneVars, io, registered, pc, talkVars, current_zone, socketVars, peer,
                 acceptor, copy, target, raced>>

StopCrash ==
  /\ Running /\ console = "copying" /\ raced
  /\ io' = "terminated"
  /\ UNCHANGED <<zoneVars, console, registered, pc, talkVars, current_zone, socketVars,
                 peer, stopVars>>

(***************************************************************************)
(* The loop that closes the sessions of the copy.                          *)
(***************************************************************************)
StopClose(s) ==
  /\ Running /\ console = "closing" /\ s \in todo /\ pc[s] # "new"
  /\ \/ /\ CloseSocket(s, "stop")
        /\ console' = "shutting"
        /\ target' = s
        /\ UNCHANGED todo
     \/ /\ socket_mutex[s] = "free" /\ ~socket_active[s]
        /\ todo' = todo \ {s}
        /\ UNCHANGED <<socketVars, console, target>>
  /\ UNCHANGED <<zoneVars, io, registered, pc, talkVars, current_zone, peer,
                 acceptor, copy, raced, stale>>

\* close() of a session that is destroyed: the freed memory still says that it is
\* closed, or the process crashes.  The lock in it may also never be got: then
\* this step is never taken.
StopCloseFreed(s) ==
  /\ Running /\ console = "closing" /\ s \in todo /\ pc[s] = "new"
  /\ \/ todo' = todo \ {s} /\ UNCHANGED io
     \/ io' = "terminated" /\ UNCHANGED todo
  /\ UNCHANGED <<zoneVars, console, registered, pc, talkVars, current_zone, socketVars,
                 peer, acceptor, copy, target, raced, stale>>

StopLeave ==
  /\ Running /\ console = "shutting"
  /\ LeaveCurrentZone(target)
  /\ console' = "clearing"
  /\ UNCHANGED <<io, registered, pc, talkVars, current_zone, socketVars, peer,
                 acceptor, copy, todo, target, raced, stale>>

StopClear ==
  /\ Running /\ console = "clearing"
  /\ ClearCurrentZone(target)
  /\ todo' = todo \ {target}
  /\ target' = NoSession
  /\ console' = "closing"
  /\ UNCHANGED <<zoneVars, io, registered, pc, talkVars, socket_active, peer,
                 acceptor, copy, raced, stale>>

\* Broken: the loop ends before all sessions are closed.
StopEndEarly ==
  /\ Running /\ console = "closing"
  /\ io' = "stopped"
  /\ console' = "waiting"
  /\ copy' = {}
  /\ UNCHANGED <<zoneVars, registered, pc, talkVars, current_zone, socketVars,
                 peer, acceptor, todo, target, raced, stale>>

\* io_context_.stop(): no further handler is dispatched; those that run go on.
StopEnd ==
  /\ Running /\ console = "closing" /\ todo = {}
  /\ io' = "stopped"
  /\ console' = "waiting"
  /\ copy' = {}
  /\ UNCHANGED <<zoneVars, registered, pc, talkVars, current_zone, socketVars,
                 peer, acceptor, todo, target, raced, stale>>

\* main joins the four threads and returns: the Server is destroyed, then the
\* io_context with the operations still queued in it.
Exit ==
  /\ io = "stopped" /\ Busy = 0
  /\ io' = "exited"
  /\ UNCHANGED <<zoneVars, console, registered, pc, talkVars, current_zone,
                 socketVars, peer, stopVars>>

Stop ==
  \/ \E s \in Sessions : StopCopy(s) \/ StopClose(s)
  \/ StopCopied \/ StopLeave \/ StopClear \/ StopEnd

\* Steps of stop() on memory that is not there any more.
StopAstray == StopCrash \/ \E s \in Sessions : StopCloseFreed(s)

-----------------------------------------------------------------------------
\* Broken: the acceptor goes on accepting.
AcceptAlways(s) == Start(s) /\ UNCHANGED acceptor

(***************************************************************************)
(* The connections beside it: nothing is accepted once the acceptor is     *)
(* closed, and a reference in stop's copy keeps its session from being     *)
(* destroyed.  What such a reference names is not another connection.      *)
(***************************************************************************)
Accept(s) ==
  /\ Start(s)
  /\ acceptor # "closed" /\ s \notin copy
  /\ acceptor' = IF acceptor = "last" THEN "closed" ELSE acceptor

NoteRace ==
  /\ raced' = (raced \/ (console = "copying" /\ registered' # registered))
  /\ stale' = IF console = "copying" THEN stale \cup (registered \ registered') ELSE stale

\* Broken: the copy holds plain pointers.
ConnectionUncounted(s) ==
  /\ \/ Accept(s)
     \/ (Serve(s) \/ Destroy(s)) /\ UNCHANGED acceptor
  /\ NoteRace
  /\ UNCHANGED <<copy, todo, target>>

Connection(s) ==
  /\ \/ Accept(s)
     \/ Serve(s) /\ UNCHANGED acceptor
     \/ Destroy(s) /\ s \notin copy /\ UNCHANGED acceptor
  /\ NoteRace
  /\ UNCHANGED <<copy, todo, target>>

ServerInit ==
  /\ SessionInit
  /\ acceptor = "open"
  /\ copy = {} /\ todo = {} /\ target = NoSession
  /\ raced = FALSE
  /\ stale = {}

\* What the operator's commands do, and the end of the operator's input.
Operator ==
  ConsoleLine \/ ConsoleDone \/ ConsoleClosed \/ StopBegin \/ Stop \/ StopAstray

ServerNext ==
  \/ Operator
  \/ Exit
  \/ \E s \in Sessions : Connection(s)

ServerSpec == ServerInit /\ [][ServerNext]_serverVars

(***************************************************************************)
(* Fairness, as in Session: threads run, queued handlers are dispatched in *)
(* turn, commands end.  The operator owes nothing, and neither does what   *)
(* stop() finds in freed memory.                                           *)
(***************************************************************************)
FairServerSpec ==
  /\ ServerSpec
  /\ WF_serverVars(ConsoleDone \/ Stop)
  /\ WF_serverVars(Exit)
  /\ \A s \in Sessions : WF_serverVars((Step(s) \/ FinishCommand(s)) /\ Connection(s))

-----------------------------------------------------------------------------
(***************************************************************************)
(* Properties.                                                             *)
(***************************************************************************)
ServerTypeOK ==
  /\ SessionTypeOK
  /\ console \in {"waiting", "printing", "closed"} \cup StopPhases
  /\ acceptor \in {"open", "last", "closed"}
  /\ todo \subseteq copy /\ copy \subseteq Sessions
  /\ target \in Sessions \cup {NoSession}
  /\ raced \in BOOLEAN
  /\ stale \subseteq Sessions

\* The handler of a failed read and Server::stop are never both inside the
\* body of the same session's close(), however their steps interleave.
OneCloser ==
  /\ target # NoSession => pc[target] \notin {"shutting", "clearing"}
  /\ \A s \in Sessions :
       socket_mutex[s] = "stop" <=> console \in {"shutting", "clearing"} /\ target = s

\* stop() has closed every session that was there when it closed the acceptor,
\* and at most the one connection accepted before survives it, unless sessions_
\* was changed while it was copied.
AtMostOneSurvives ==
  io \in {"stopped", "exited"} /\ ~raced =>
    Cardinality({s \in Sessions : socket_active[s]}) <= 1

\* The memory of a session that stop() is going to close is still there.
CopyIsAlive ==
  \A s \in todo : pc[s] # "new"

\* Once the copy is complete it keeps its sessions: one whose read handler erases
\* it, and lets go of it, before stop() has closed it is not destroyed.  This is
\* so if none was erased or inserted while the copy was made.
CopyIsKept == ~raced => CopyIsAlive

\* Once the operator has said "stop", the process ends, unless stop() waits for
\* the lock of a session that is destroyed.
StopTerminates ==
  (console \in StopPhases) ~> (io \in {"exited", "terminated"} \/ ~CopyIsAlive)

\* When main returns, no session is left that would still have a zone to leave:
\* its destructor would run after that of the Server's zone table.
ExitIsClean ==
  io = "exited" => \A s \in Sessions : socket_active[s] => ~InZone(s)
=============================================================================
