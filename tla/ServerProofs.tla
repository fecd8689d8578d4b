---------------------------- MODULE ServerProofs ----------------------------
(***************************************************************************)
(* Theorems about "stop" beside the sessions, for every set of sessions    *)
(* and names, every number of threads, workload and set of faults.         *)
(***************************************************************************)
EXTENDS Server, SessionProofs, FiniteSetTheorems

Active == {s \in Sessions : socket_active[s]}

(***************************************************************************)
(* What the phase of a chain says of its session when stop() may close     *)
(* sockets as well: less than PhaseInv, which it breaks.                   *)
(***************************************************************************)
ServedInv ==
  \A s \in Sessions :
    /\ pc[s] = "entering" => request[s].name \in Names
    /\ pc[s] \in {"shutting", "clearing"} => socket_mutex[s] = "handler"
    /\ s \in registered => pc[s] # "new"
    /\ socket_active[s] => s \in registered /\ pc[s] \notin Released

(***************************************************************************)
(* Where stop() is.  Those that it may still copy, or has still to close,  *)
(* are the only ones besides at most one newcomer whose sockets are open,  *)
(* and they are there, unless sessions_ was changed while it was copied.   *)
(***************************************************************************)
Ahead == IF console = "copying" THEN registered ELSE todo

StopInv ==
  /\ console \in {"waiting", "printing", "closed", "copying"} => todo = {}
  /\ console \notin StopPhases => copy = {}
  /\ target # NoSession <=> console \in {"shutting", "clearing"}
  /\ target # NoSession => target \in todo /\ ~socket_active[target] /\ pc[target] # "new"
  /\ acceptor = "open" => console \notin StopPhases /\ io \notin {"stopped", "exited"}
  /\ io \in {"stopped", "exited"} => console \notin StopPhases
  /\ ~raced => stale = {}
  /\ ~raced => \A s \in copy : pc[s] # "new"
  /\ ~raced /\ console = "copying" => copy \subseteq registered
  /\ ~raced /\ acceptor = "last" => Active \subseteq Ahead
  /\ ~raced /\ acceptor = "closed" => \A s, t \in Active \ Ahead : s = t

ServerInv == ServerTypeOK /\ ServedInv /\ StopInv /\ OneCloser

-----------------------------------------------------------------------------
LEMMA ServerInitInv == ServerInit => ServerInv
<1> SUFFICES ASSUME ServerInit PROVE ServerInv
  OBVIOUS
<1>1. SessionTypeOK
  BY InitTypeOK DEF ServerInit
<1>. QED
  BY <1>1, ServerAssumption
     DEF ServerInit, SessionInit, ServerInv, ServerTypeOK, ServedInv, StopInv, OneCloser,
         StopPhases, Active, Ahead, Released

-----------------------------------------------------------------------------
\* A session's own steps: what its phase says stays so, stop() keeps its lock,
\* and only the start of a session opens a socket.
LEMMA StepServed ==
  ASSUME SessionTypeOK, ServedInv, NEW s \in Sessions, SessionStep(s)
  PROVE  /\ ServedInv'
         /\ socket_mutex'[s] = "stop" <=> socket_mutex[s] = "stop"
         /\ pc'[s] \in {"shutting", "clearing"} => socket_mutex'[s] = "handler"
         /\ socket_active'[s] => socket_active[s] \/ Start(s)
         /\ pc'[s] = "new" => pc[s] = "new" \/ Destroy(s)
         /\ pc[s] = "new" /\ pc'[s] # "new" => Start(s)
<1> DEFINE Served(t) ==
      /\ pc[t] = "entering" => request[t].name \in Names
      /\ pc[t] \in {"shutting", "clearing"} => socket_mutex[t] = "handler"
      /\ t \in registered => pc[t] # "new"
      /\ socket_active[t] => t \in registered /\ pc[t] \notin Released
<1>1. ASSUME NEW t \in Sessions, t # s PROVE Served(t)'
  <2>1. Served(t)
    BY DEF ServedInv
  <2>. QED
    BY <1>1, <2>1, StepFrame
<1>2. /\ Served(s)'
      /\ socket_mutex'[s] = "stop" <=> socket_mutex[s] = "stop"
      /\ socket_active'[s] => socket_active[s] \/ Start(s)
      /\ pc'[s] = "new" => pc[s] = "new" \/ Destroy(s)
      /\ pc[s] = "new" /\ pc'[s] # "new" => Start(s)
  <2> USE DEF SessionTypeOK, ServedInv, Goto, Reply, Throw, Released,
              zoneVars, hostVars, talkVars, socketVars
  <2>1. CASE Client(s)
    BY <2>1 DEF Client, Send, Disconnect
  <2>2. CASE Start(s)
    BY <2>2 DEF Start, Created
  <2>3. CASE Handler(s)
    BY <2>3 DEF Handler, ReadRequest, ReadFailed, Written, WriteFailed, DoRead
  <2>4. CASE FirstRead(s) \/ DoWrite(s)
    BY <2>4 DEF FirstRead, DoRead, DoWrite
  <2>5. CASE HandleCreateZone(s)
    BY <2>5 DEF HandleCreateZone, Handling
  <2>6. CASE HandleEnterZone(s)
    BY <2>6 DEF HandleEnterZone, Handling, Requests, NoRequest
  <2>7. CASE FinishEnterZone(s) \/ HandleLeaveZone(s) \/ FinishLeaveZone(s)
    BY <2>7 DEF FinishEnterZone, HandleLeaveZone, FinishLeaveZone, Handling
  <2>8. CASE HandleQuery(s) \/ HandleCommand(s) \/ FinishCommand(s) \/ HandleUpload(s)
    BY <2>8 DEF HandleQuery, HandleCommand, FinishCommand, HandleUpload, Handling
  <2>9. CASE CloseBegin(s) \/ CloseLeave(s) \/ CloseEnd(s) \/ Erase(s)
    BY <2>9 DEF CloseBegin, CloseSocket, CloseLeave, CloseEnd, ClearCurrentZone, Erase
  <2>10. CASE Destroy(s)
    BY <2>10 DEF Destroy
  <2>. QED
    BY <2>1, <2>2, <2>3, <2>4, <2>5, <2>6, <2>7, <2>8, <2>9, <2>10 DEF SessionStep, Serve, Step
<1>. QED
  BY <1>1, <1>2 DEF ServedInv

-----------------------------------------------------------------------------
\* A session's own steps leave the console alone, and end nothing but, by an
\* exception, the process.
LEMMA StepHost ==
  ASSUME NEW s \in Sessions, SessionStep(s)
  PROVE  console' = console /\ (io' = io \/ io' = "terminated")
<1> USE DEF Goto, Reply, Throw, hostVars
<1>1. CASE Client(s) \/ Start(s) \/ Handler(s)
  BY <1>1 DEF Client, Send, Disconnect, Start, Created, Handler, ReadRequest, ReadFailed, Written,
              WriteFailed
<1>2. CASE FirstRead(s) \/ DoWrite(s) \/ HandleQuery(s) \/ HandleUpload(s)
  BY <1>2 DEF FirstRead, DoWrite, HandleQuery, HandleUpload
<1>3. CASE HandleCreateZone(s) \/ HandleEnterZone(s) \/ FinishEnterZone(s)
  BY <1>3 DEF HandleCreateZone, HandleEnterZone, FinishEnterZone
<1>4. CASE HandleLeaveZone(s) \/ FinishLeaveZone(s) \/ HandleCommand(s) \/ FinishCommand(s)
  BY <1>4 DEF HandleLeaveZone, FinishLeaveZone, HandleCommand, FinishCommand
<1>5. CASE CloseBegin(s) \/ CloseLeave(s) \/ CloseEnd(s) \/ Erase(s) \/ Destroy(s)
  BY <1>5 DEF CloseBegin, CloseLeave, CloseEnd, Erase, Destroy
<1>. QED
  BY <1>1, <1>2, <1>3, <1>4, <1>5 DEF SessionStep, Serve, Step

\* A chain that is served is neither started nor destroyed by that step.
LEMMA ServeOnly ==
  ASSUME SessionTypeOK, NEW s \in Sessions, Serve(s)
  PROVE  ~Start(s) /\ ~Destroy(s)
<1>1. pc' = pc \/ pc[s] \notin {"new", "ended"}
  BY DEF Serve, Client, Send, Disconnect, Handler, ReadRequest, ReadFailed, Written,
         WriteFailed, Step, FirstRead, DoWrite, HandleQuery, HandleUpload, HandleCreateZone,
         HandleEnterZone, FinishEnterZone, HandleLeaveZone, FinishLeaveZone, HandleCommand,
         FinishCommand, CloseBegin, CloseLeave, CloseEnd, Erase, Handling
<1>. QED
  BY <1>1 DEF Start, Created, Destroy, Goto, SessionTypeOK

\* A connection's steps beside stop().  A session of the copy is not destroyed
\* by them, and what is accepted is outside the copy.
LEMMA ConnectionInv ==
  ASSUME ServerInv, NEW s \in Sessions, Connection(s)
  PROVE  ServerInv'
<1>1. SessionStep(s)
  BY DEF Connection, Accept, SessionStep
<1>2. SessionTypeOK /\ ServedInv /\ EnteringNamed
  BY DEF ServerInv, ServerTypeOK, ServedInv, EnteringNamed
<1>3. SessionTypeOK' /\ console' = console /\ (io' = io \/ io' = "terminated")
  BY <1>1, <1>2, StepTypeOK, StepHost
<1>4. /\ copy' = copy /\ todo' = todo /\ target' = target
      /\ raced' \in BOOLEAN /\ stale' \subseteq Sessions
      /\ ~raced' => ~raced /\ (console = "copying" => registered' = registered)
      /\ ~raced' => stale' = stale
  BY <1>3 DEF Connection, NoteRace, ServerInv, ServerTypeOK, SessionTypeOK
<1>5. \/ /\ Start(s) /\ acceptor # "closed"
         /\ acceptor' = IF acceptor = "last" THEN "closed" ELSE acceptor
      \/ ~Start(s) /\ acceptor' = acceptor
  BY <1>2, ServeOnly DEF Connection, Accept, Start, Created, Destroy, Goto, SessionTypeOK
<1>6. s \in copy => ~Destroy(s) /\ ~Start(s)
  BY <1>2, ServeOnly DEF Connection, Accept
<1>7. /\ ServedInv'
      /\ socket_mutex'[s] = "stop" <=> socket_mutex[s] = "stop"
      /\ pc'[s] \in {"shutting", "clearing"} => socket_mutex'[s] = "handler"
      /\ socket_active'[s] => socket_active[s] \/ Start(s)
      /\ pc'[s] = "new" => pc[s] = "new" \/ Destroy(s)
  BY <1>1, <1>2, StepServed
<1>8. \A t \in Sessions \ {s} :
        /\ pc'[t] = pc[t] /\ socket_mutex'[t] = socket_mutex[t]
        /\ socket_active'[t] = socket_active[t]
  BY <1>1, <1>2, StepFrame
<1>9. ServerTypeOK'
  BY <1>3, <1>4, <1>5 DEF ServerInv, ServerTypeOK
<1>10. OneCloser'
  <2>1. \A t \in Sessions : socket_mutex'[t] = "stop" <=> socket_mutex[t] = "stop"
    BY <1>7, <1>8
  <2>2. target # NoSession => target \in Sessions /\ socket_mutex'[target] = "stop"
    BY <2>1 DEF ServerInv, StopInv, OneCloser, ServerTypeOK
  <2>3. target # NoSession => pc'[target] \notin {"shutting", "clearing"}
    BY <2>2, <1>7, <1>8 DEF ServerInv, OneCloser
  <2>. QED
    BY <1>3, <1>4, <2>1, <2>3 DEF ServerInv, OneCloser
<1>11. StopInv'
  <2>1. todo \subseteq copy /\ copy \subseteq Sessions
    BY DEF ServerInv, ServerTypeOK
  <2>2. \A t \in copy : /\ pc'[t] = "new" => pc[t] = "new"
                        /\ socket_active'[t] => socket_active[t]
    BY <1>6, <1>7, <1>8, <2>1
  <2>3. target # NoSession => target \in todo /\ ~socket_active'[target] /\ pc'[target] # "new"
    BY <2>1, <2>2 DEF ServerInv, StopInv
  <2>4. ~raced' => \A t \in copy : pc'[t] # "new"
    BY <1>4, <2>2 DEF ServerInv, StopInv
  <2>5. ~raced' /\ console = "copying" => copy \subseteq registered'
    BY <1>4 DEF ServerInv, StopInv
  <2>6. ~raced' => (acceptor' = "last" => Active' \subseteq Ahead')
    <3>1. CASE console = "copying"
      BY <1>3, <1>7, <3>1 DEF Active, Ahead, ServedInv
    <3>2. CASE console # "copying"
      <4>1. acceptor' = "last" => acceptor = "last" /\ Active' \subseteq Active
        BY <1>5, <1>7, <1>8 DEF Active
      <4>. QED
        BY <1>3, <1>4, <3>2, <4>1 DEF ServerInv, StopInv, Ahead
    <3>. QED
      BY <3>1, <3>2
  <2>7. ~raced' => (acceptor' = "closed" => \A t, u \in Active' \ Ahead' : t = u)
    <3>1. CASE console = "copying"
      BY <1>3, <1>7, <3>1 DEF Active, Ahead, ServedInv
    <3>2. CASE console # "copying"
      <4>1. Ahead' = Ahead
        BY <1>3, <1>4, <3>2 DEF Ahead
      <4>2. \/ acceptor' = acceptor /\ Active' \subseteq Active
            \/ /\ Active' \subseteq Active \cup {s}
               /\ acceptor # "closed"
               /\ acceptor' = IF acceptor = "last" THEN "closed" ELSE acceptor
        BY <1>5, <1>7, <1>8 DEF Active
      <4>. QED
        BY <1>4, <4>1, <4>2 DEF ServerInv, StopInv
    <3>. QED
      BY <3>1, <3>2
  <2>8. acceptor' = "open" => acceptor = "open"
    BY <1>5
  <2>. QED
    BY <1>3, <1>4, <2>3, <2>4, <2>5, <2>6, <2>7, <2>8 DEF ServerInv, StopInv
<1>. QED
  BY <1>7, <1>9, <1>10, <1>11 DEF ServerInv

-----------------------------------------------------------------------------
\* Where only the console moves, and not into or out of stop().
LEMMA ConsoleInv ==
  ASSUME ServerInv, ConsoleLine \/ ConsoleDone \/ ConsoleClosed
  PROVE  ServerInv'
<1> USE DEF ConsoleLine, ConsoleDone, ConsoleClosed, Console, zoneVars, talkVars, socketVars, stopVars
<1>1. SessionTypeOK' /\ ServedInv'
  BY DEF ServerInv, ServerTypeOK, SessionTypeOK, ZoneTypeOK, ServedInv
<1>2. Active' = Active /\ Ahead' = Ahead
  BY DEF Active, Ahead
<1>. QED
  BY <1>1, <1>2 DEF ServerInv, ServerTypeOK, StopInv, OneCloser, StopPhases

LEMMA BeginInv ==
  ASSUME ServerInv, StopBegin
  PROVE  ServerInv'
<1> USE DEF StopBegin, zoneVars, talkVars, socketVars
<1>1. SessionTypeOK' /\ ServedInv'
  BY DEF ServerInv, ServerTypeOK, SessionTypeOK, ZoneTypeOK, ServedInv
<1>2. Active' = Active /\ Active \subseteq registered /\ Ahead' = registered
  BY DEF Active, Ahead, ServerInv, ServedInv
<1>3. todo = {} /\ copy = {}
  BY DEF ServerInv, StopInv, StopPhases
<1>. QED
  BY <1>1, <1>2, <1>3 DEF ServerInv, ServerTypeOK, StopInv, OneCloser, StopPhases

LEMMA CopyInv ==
  ASSUME ServerInv, NEW s \in Sessions, StopCopy(s)
  PROVE  ServerInv'
<1> USE DEF StopCopy, zoneVars, hostVars, talkVars, socketVars
<1>1. SessionTypeOK' /\ ServedInv'
  BY DEF ServerInv, ServerTypeOK, SessionTypeOK, ZoneTypeOK, ServedInv
<1>2. Active' = Active /\ Ahead' = Ahead
  BY DEF Active, Ahead
<1>3. ~raced => s \in registered /\ pc[s] # "new"
  BY DEF ServerInv, ServedInv, StopInv
<1>. QED
  BY <1>1, <1>2, <1>3 DEF ServerInv, ServerTypeOK, StopInv, OneCloser, StopPhases

\* If sessions_ was left alone, the copy has every session whose socket is open.
LEMMA CopiedInv ==
  ASSUME ServerInv, StopCopied
  PROVE  ServerInv'
<1> USE DEF StopCopied, zoneVars, talkVars, socketVars
<1>1. SessionTypeOK' /\ ServedInv'
  BY DEF ServerInv, ServerTypeOK, SessionTypeOK, ZoneTypeOK, ServedInv
<1>2. Active' = Active /\ Active \subseteq registered /\ Ahead' = copy
  BY DEF Active, Ahead, ServerInv, ServedInv
<1>3. ~raced => Active' \subseteq Ahead'
  BY <1>2
<1>4. console' = "closing" /\ todo' = copy /\ target = NoSession
  BY DEF ServerInv, StopInv
<1>. QED
  BY <1>1, <1>2, <1>3, <1>4 DEF ServerInv, ServerTypeOK, StopInv, OneCloser, StopPhases

\* What stop() does to freed memory changes no session that is there.
LEMMA AstrayInv ==
  ASSUME ServerInv, StopAstray
  PROVE  ServerInv'
<1> USE DEF StopAstray, StopCrash, StopCloseFreed, zoneVars, talkVars, socketVars, stopVars
<1>1. SessionTypeOK' /\ ServedInv'
  BY DEF ServerInv, ServerTypeOK, SessionTypeOK, ZoneTypeOK, ServedInv
<1>2. Active' = Active /\ raced /\ target = NoSession
  BY DEF Active, ServerInv, ServerTypeOK, StopInv
<1>. QED
  BY <1>1, <1>2 DEF ServerInv, ServerTypeOK, StopInv, OneCloser, StopPhases

LEMMA CloseInv ==
  ASSUME ServerInv, NEW s \in Sessions, StopClose(s)
  PROVE  ServerInv'
<1> USE DEF StopClose, CloseSocket, zoneVars, talkVars, socketVars
<1>1. SessionTypeOK'
  BY DEF ServerInv, ServerTypeOK, SessionTypeOK, ZoneTypeOK
<1>2. ServedInv'
  BY DEF ServerInv, ServerTypeOK, SessionTypeOK, ServedInv
<1>3. /\ Active' \subseteq Active /\ s \notin Active'
      /\ Ahead = todo /\ Ahead' = todo' /\ todo \ {s} \subseteq todo' /\ todo' \subseteq todo
  BY DEF Active, Ahead, ServerInv, ServerTypeOK, SessionTypeOK
<1>4. /\ Active' \ Ahead' \subseteq Active \ Ahead
      /\ Active \subseteq Ahead => Active' \subseteq Ahead'
  BY <1>3
<1>5. target = NoSession /\ s # NoSession
  BY ServerAssumption DEF ServerInv, StopInv
<1>6. OneCloser'
  BY <1>5 DEF ServerInv, ServerTypeOK, SessionTypeOK, OneCloser, ServedInv
<1>7. target' # NoSession => target' \in todo' /\ ~socket_active'[target'] /\ pc'[target'] # "new"
  BY <1>5 DEF ServerInv, ServerTypeOK, SessionTypeOK
<1>. QED
  BY <1>1, <1>2, <1>3, <1>4, <1>5, <1>6, <1>7 DEF ServerInv, ServerTypeOK, StopInv, StopPhases

LEMMA LeaveInv ==
  ASSUME ServerInv, StopLeave
  PROVE  ServerInv'
<1> USE DEF StopLeave, zoneVars, talkVars, socketVars
<1>1. SessionTypeOK' /\ ServedInv'
  BY DEF ServerInv, ServerTypeOK, SessionTypeOK, ZoneTypeOK, ServedInv, LeaveCurrentZone, leave_zone
<1>2. Active' = Active /\ Ahead' = Ahead
  BY DEF Active, Ahead
<1>. QED
  BY <1>1, <1>2 DEF ServerInv, ServerTypeOK, StopInv, OneCloser, StopPhases

LEMMA ClearInv ==
  ASSUME ServerInv, StopClear
  PROVE  ServerInv'
<1> USE DEF StopClear, ClearCurrentZone, zoneVars, talkVars, socketVars
<1>1. target \in Sessions /\ target \in todo /\ ~socket_active[target]
  BY DEF ServerInv, ServerTypeOK, StopInv
<1>2. SessionTypeOK'
  BY DEF ServerInv, ServerTypeOK, SessionTypeOK, ZoneTypeOK
<1>3. ServedInv'
  BY <1>1 DEF ServerInv, ServerTypeOK, SessionTypeOK, ServedInv, OneCloser, StopInv
<1>4. /\ Active' = Active /\ Ahead = todo /\ Ahead' = todo \ {target} /\ target \notin Active
  BY <1>1 DEF Active, Ahead
<1>5. OneCloser'
  BY <1>1 DEF ServerInv, ServerTypeOK, SessionTypeOK, OneCloser
<1>. QED
  BY <1>1, <1>2, <1>3, <1>4, <1>5 DEF ServerInv, ServerTypeOK, StopInv, StopPhases

LEMMA EndInv ==
  ASSUME ServerInv, StopEnd \/ Exit
  PROVE  ServerInv'
<1> USE DEF StopEnd, Exit, zoneVars, talkVars, socketVars, stopVars
<1>1. SessionTypeOK' /\ ServedInv'
  BY DEF ServerInv, ServerTypeOK, SessionTypeOK, ZoneTypeOK, ServedInv
<1>2. Active' = Active /\ Ahead' = Ahead
  BY DEF Active, Ahead
<1>. QED
  BY <1>1, <1>2 DEF ServerInv, ServerTypeOK, StopInv, OneCloser, StopPhases

\* The invariant of the server holds in every reachable state.
THEOREM ServerInvariant == ServerSpec => []ServerInv
<1>1. ServerInv /\ ServerNext => ServerInv'
  BY ConsoleInv, BeginInv, CopyInv, CopiedInv, AstrayInv, CloseInv, LeaveInv, ClearInv, EndInv, ConnectionInv
     DEF ServerNext, Operator, Stop
<1>2. ServerInv /\ UNCHANGED serverVars => ServerInv'
  BY DEF serverVars, sessionVars, stopVars, zoneVars, hostVars, talkVars, socketVars,
         ServerInv, ServerTypeOK, SessionTypeOK, ZoneTypeOK, ServedInv, StopInv, OneCloser,
         Active, Ahead
<1>. QED
  BY <1>1, <1>2, ServerInitInv, PTL DEF ServerSpec

\* Every variable keeps its type, also while stop() works beside the sessions.
THEOREM ServerTypeCorrect == ServerSpec => []ServerTypeOK
BY ServerInvariant, PTL DEF ServerInv

\* Two threads are never both inside the body of one session's close()
\* (Session::close, called by Server::stop and by the handler of a read).
THEOREM ClosesAlone == ServerSpec => []OneCloser
BY ServerInvariant, PTL DEF ServerInv

\* If no session came or went while Server::stop copied sessions_, it never
\* calls close() on one that is destroyed, however many let go of themselves
\* before their turn has come.
THEOREM CopyKeepsSessions == ServerSpec => []CopyIsKept
<1>1. ServerInv => CopyIsKept
  BY DEF ServerInv, ServerTypeOK, StopInv, CopyIsKept, CopyIsAlive
<1>. QED
  BY <1>1, ServerInvariant, PTL

\* If no session came or went while Server::stop copied sessions_, at most the
\* one connection that was already accepted when it closed the acceptor is open
\* when it has ended.
THEOREM StopClosesAllButOne == ServerSpec => []AtMostOneSurvives
<1>1. ServerInv => AtMostOneSurvives
  <2> SUFFICES ASSUME ServerInv, io \in {"stopped", "exited"}, ~raced
               PROVE  Cardinality(Active) <= 1
    BY DEF AtMostOneSurvives, Active
  <2>1. Ahead = {}
    BY DEF ServerInv, ServerTypeOK, StopInv, StopPhases, Ahead
  <2>2. \A s, t \in Active : s = t
    BY <2>1 DEF ServerInv, ServerTypeOK, StopInv
  <2>3. CASE Active = {}
    BY <2>3, FS_EmptySet
  <2>4. CASE Active # {}
    <3>1. PICK s \in Active : TRUE
      BY <2>4
    <3>2. Active = {s}
      BY <2>2, <3>1
    <3>. QED
      BY <3>2, FS_Singleton
  <2>. QED
    BY <2>3, <2>4
<1>. QED
  BY <1>1, ServerInvariant, PTL

-----------------------------------------------------------------------------
(***************************************************************************)
(* Until the operator says "stop", nothing but the connections touches the *)
(* sessions: what was proved of Session, for which there is no operator,   *)
(* holds of the server.  Afterwards close() runs beside the handlers of    *)
(* the same session, and it does not.                                      *)
(***************************************************************************)
ServingInv == acceptor = "open" => IInv /\ ToldInv

LEMMA ServingStep ==
  ASSUME ServerInv, ServingInv, [ServerNext]_serverVars
  PROVE  ServingInv'
<1> SUFFICES ASSUME acceptor' = "open" PROVE (IInv /\ ToldInv)'
  BY DEF ServingInv
<1>1. CASE \E s \in Sessions : Connection(s)
  <2>1. PICK s \in Sessions : Connection(s)
    BY <1>1
  <2>2. SessionStep(s) /\ acceptor = "open"
    BY <2>1 DEF Connection, Accept, SessionStep
  <2>. QED
    BY <2>2, StepInv, StepTold DEF ServingInv, IInv
<1>2. CASE ConsoleLine \/ ConsoleDone \/ ConsoleClosed
  <2>1. IInv /\ ToldInv
    BY <1>2 DEF ConsoleLine, ConsoleDone, ConsoleClosed, Console, stopVars, ServingInv
  <2>2. UNCHANGED <<zoneVars, io, registered, pc, talkVars, current_zone, socketVars, peer>>
    BY <1>2 DEF ConsoleLine, ConsoleDone, ConsoleClosed, Console
  <2>. QED
    BY <2>1, <2>2 DEF IInv, zoneVars, talkVars, socketVars, SessionTypeOK, ZoneTypeOK, PhaseInv,
                      OccupiedMeansHeld, ExclusiveZones, Holds, InZone, ToldInv
<1>3. CASE StopBegin
  BY <1>3 DEF StopBegin
<1>4. CASE Stop \/ StopAstray \/ Exit
  <2>1. acceptor = "open" => console \notin StopPhases /\ io # "stopped"
    BY DEF ServerInv, StopInv
  <2>. QED
    BY <1>4, <2>1 DEF Stop, StopAstray, StopCopy, StopCopied, StopCrash, StopCloseFreed, StopClose, StopLeave, StopClear, StopEnd, Exit, StopPhases,
                      stopVars
<1>5. CASE UNCHANGED serverVars
  BY <1>5, StutterInv DEF serverVars, stopVars, sessionVars, talkVars, ServingInv, ToldInv, InZone
<1>. QED
  BY <1>1, <1>2, <1>3, <1>4, <1>5 DEF ServerNext, Operator

\* While the acceptor is open, zones are exclusive, the table is right about
\* them, those that have gone have released theirs, and what the clients were
\* told is so, whatever else is typed at the console.
THEOREM SoundUntilStopped ==
  ServerSpec => [](acceptor = "open" => /\ ExclusiveZones /\ OccupiedMeansHeld
                                        /\ GoneMeansReleased /\ NoneForgotten
                                        /\ ToldEnteredIsInZone)
<1>1. ServerInit => ServingInv
  BY InitInv DEF ServerInit, ServingInv, SessionInit, ToldInv
<1>2. ServingInv => (acceptor = "open" => /\ ExclusiveZones /\ OccupiedMeansHeld
                                          /\ GoneMeansReleased /\ NoneForgotten
                                          /\ ToldEnteredIsInZone)
  BY InvReleases, ToldHolds DEF ServingInv, IInv
<1>. QED
  BY <1>1, <1>2, ServingStep, ServerInvariant, PTL DEF ServerSpec
=============================================================================
