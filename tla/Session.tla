------------------------------ MODULE Session ------------------------------
(***************************************************************************)
(* The connections of a running server: Session (server/Session.cpp) and   *)
(* the request handlers of SessionCommandHandler                           *)
(* (server/command_handlers/SessionCommandHandler.cpp), executed by the    *)
(* threads that main.cpp lets run one io_context, over the zone table of   *)
(* ZoneManager.                                                            *)
(*                                                                         *)
(* A session is a chain of completion handlers, at most one of them        *)
(* pending or running: accept -> read -> request -> write -> read -> ...   *)
(* pc[s] says where the chain is.  A handler needs a thread of the pool    *)
(* from its dispatch to its return, also while it waits for a mutex or for *)
(* a child process.  Between the steps below any other thread may run.     *)
(***************************************************************************)
EXTENDS ZoneManager, FiniteSets

CONSTANTS
  Sessions,    \* the connections that clients open, each used once
  Threads,     \* the number of threads that call io_context.run()
  Workload,    \* the requests the clients send
  NoZone,      \* an empty zone name: current_zone_ == "", or no argument
  Faults       \* what may go wrong in this instance: see FaultKinds

Operations == {"CREATE_ZONE", "ENTER_ZONE", "LEAVE_ZONE", "LIST_ZONES",
               "COMMAND", "UPLOAD", "UPLOAD_EMPTY", "DOWNLOAD", "UNKNOWN"}

Requests == [op : Operations, name : Names \cup {NoZone}]

NoRequest == [op |-> "NONE", name |-> NoZone]

(***************************************************************************)
(* "write": a response may fail to be sent; "throw": a directory may fail  *)
(* to be created, which boost::filesystem reports by an exception.         *)
(***************************************************************************)
FaultKinds == {"write", "throw"}

ASSUME SessionAssumption ==
  /\ IsFiniteSet(Sessions)
  /\ Threads \in Nat \ {0}
  /\ Workload \subseteq Requests
  /\ NoZone \notin Names
  /\ Faults \subseteq FaultKinds

VARIABLES
  io,             \* io_context: "running" or "stopped"; the process has
                  \* "exited" or was "terminated"
  console,        \* the console: "waiting" for a line or, after the end of its
                  \* input, "closed"; "printing", or a step of Server::stop
  registered,     \* Server::sessions_
  pc,             \* where each session's chain of handlers is
  request,        \* the request sent and not yet answered
  reply,          \* the last response: its first word, or "RESULT" for what a
                  \* listing, a command or a file transfer answers
  current_zone,   \* Session::current_zone_
  socket_active,  \* Session::socket_active_
  socket_mutex,   \* Session::socket_mutex_: "free", or who holds it
  peer            \* the client's end: "open" or "gone"

hostVars == <<io, console, registered>>

talkVars == <<request, reply>>

socketVars == <<socket_active, socket_mutex>>

sessionVars ==
  <<zoneVars, hostVars, pc, talkVars, current_zone, socketVars, peer>>

-----------------------------------------------------------------------------
(***************************************************************************)
(* Where a chain is.  An asynchronous operation is pending, or a handler   *)
(* runs; "deadlocked" is a handler that waits for a mutex it holds.        *)
(***************************************************************************)
Pending == {"reading", "badRead", "writing"}

OnThread == {"starting", "handling", "entering", "leaving", "executing",
             "replying", "closing", "shutting", "clearing", "erasing",
             "deadlocked"}

Phases == {"new", "ended"} \cup Pending \cup OnThread

Busy == Cardinality({s \in Sessions : pc[s] \in OnThread})
        + (IF console \in {"waiting", "closed"} THEN 0 ELSE 1)

\* io_context.run() takes a completed operation's handler to a free thread.
Dispatch == io = "running" /\ Busy < Threads

\* A handler that runs takes its next step.
Running == io \in {"running", "stopped"}

Goto(s, phase) == pc' = [pc EXCEPT ![s] = phase]

-----------------------------------------------------------------------------
(***************************************************************************)
(* The client: it sends one request and waits for the response (see        *)
(* Client::send_command), and may go away at any time.                     *)
(***************************************************************************)
Send(s) ==
  /\ peer[s] = "open" /\ socket_active[s]
  /\ pc[s] = "reading" /\ request[s] = NoRequest
  /\ \E r \in Workload : request' = [request EXCEPT ![s] = r]
  /\ UNCHANGED <<zoneVars, hostVars, pc, reply, current_zone, socketVars,
                 peer>>

Disconnect(s) ==
  /\ peer[s] = "open" /\ pc[s] # "new"
  /\ peer' = [peer EXCEPT ![s] = "gone"]
  /\ UNCHANGED <<zoneVars, hostVars, pc, talkVars, current_zone, socketVars>>

-----------------------------------------------------------------------------
\* Session::create: a session whose socket is open, and which is in no zone.
Created(s) ==
  /\ socket_active' = [socket_active EXCEPT ![s] = TRUE]
  /\ UNCHANGED <<current_zone, socket_mutex>>

(***************************************************************************)
(* Accepting: the handler of start_accept creates the session and calls    *)
(* its start(), which registers it and calls do_read.  The next accept is  *)
(* started when the handler is done, so one of them runs at a time.        *)
(***************************************************************************)
Start(s) ==
  /\ Dispatch
  /\ pc[s] = "new" /\ \A t \in Sessions : pc[t] # "starting"
  /\ Created(s)
  /\ registered' = registered \cup {s}
  /\ Goto(s, "starting")
  /\ UNCHANGED <<zoneVars, io, console, talkVars, peer>>

\* do_read: on a socket closed meanwhile the read completes with an error.
DoRead(s) == Goto(s, IF socket_active[s] THEN "reading" ELSE "badRead")

FirstRead(s) ==
  /\ Running
  /\ pc[s] = "starting"
  /\ DoRead(s)
  /\ UNCHANGED <<zoneVars, hostVars, talkVars, current_zone, socketVars, peer>>

(***************************************************************************)
(* The completion handler of the read.  A complete request that was        *)
(* received before the socket was closed is still handed over.  The read   *)
(* fails when the client is gone, or when it was begun on a closed socket; *)
(* a read that close() cancels fails with operation_aborted, and the       *)
(* handler then does nothing.                                              *)
(***************************************************************************)
ReadRequest(s) ==
  /\ Dispatch
  /\ pc[s] = "reading" /\ request[s] # NoRequest
  /\ Goto(s, "handling")
  /\ UNCHANGED <<zoneVars, hostVars, talkVars, current_zone, socketVars, peer>>

\* Broken: the session is erased without close().
ReadFailedUnclosed(s) ==
  /\ Dispatch
  /\ \/ pc[s] = "reading" /\ peer[s] = "gone"
     \/ pc[s] = "badRead"
  /\ request' = [request EXCEPT ![s] = NoRequest]
  /\ Goto(s, "erasing")
  /\ UNCHANGED <<zoneVars, hostVars, reply, current_zone, socketVars, peer>>

\* Broken: whatever the error, the handler reads again.
ReadFailedRearmed(s) ==
  /\ Dispatch
  /\ \/ pc[s] = "reading" /\ peer[s] = "gone"
     \/ pc[s] = "badRead"
  /\ request' = [request EXCEPT ![s] = NoRequest]
  /\ DoRead(s)
  /\ UNCHANGED <<zoneVars, hostVars, reply, current_zone, socketVars, peer>>

ReadFailed(s) ==
  /\ Dispatch
  /\ \/ /\ pc[s] = "badRead" \/ (pc[s] = "reading" /\ peer[s] = "gone")
        /\ Goto(s, "closing")
     \/ /\ pc[s] = "reading" /\ ~socket_active[s]
        /\ Goto(s, "ended")
  /\ request' = [request EXCEPT ![s] = NoRequest]
  /\ UNCHANGED <<zoneVars, hostVars, reply, current_zone, socketVars, peer>>

-----------------------------------------------------------------------------
(***************************************************************************)
(* process_request: one action per request handler.  The first test of     *)
(* each handler and its call into the zone table read nothing that another *)
(* thread of a serving server changes, so they are one step; what follows  *)
(* an entered or left zone is a step of its own.                           *)
(***************************************************************************)
Handling(s, op) == Running /\ pc[s] = "handling" /\ request[s].op = op

InZone(s) == current_zone[s] # NoZone

Reply(s, text) ==
  /\ reply' = [reply EXCEPT ![s] = text]
  /\ request' = [request EXCEPT ![s] = NoRequest]
  /\ Goto(s, "replying")

\* An exception that leaves a handler leaves io_context.run() and the thread's
\* function: std::terminate.
Throw ==
  /\ io' = "terminated"
  /\ UNCHANGED <<zoneVars, pc, talkVars, current_zone>>

HandleCreateZone(s) ==
  /\ Handling(s, "CREATE_ZONE")
  /\ \/ /\ InZone(s) \/ request[s].name = NoZone
        /\ Reply(s, "ERROR")
        /\ UNCHANGED <<zoneVars, io>>
     \/ /\ ~InZone(s) /\ request[s].name # NoZone
        /\ \E created \in BOOLEAN :
             /\ create_zone(request[s].name, created)
             /\ Reply(s, IF created THEN "ZONE_CREATED" ELSE "ERROR")
        /\ UNCHANGED io
     \/ /\ ~InZone(s) /\ request[s].name \notin zones \cup {NoZone}
        /\ "throw" \in Faults
        /\ Throw
  /\ UNCHANGED <<console, registered, current_zone, socketVars, peer>>

HandleEnterZone(s) ==
  /\ Handling(s, "ENTER_ZONE")
  /\ \/ /\ InZone(s) \/ request[s].name = NoZone
        /\ Reply(s, "ERROR")
        /\ UNCHANGED zoneVars
     \/ /\ ~InZone(s) /\ request[s].name # NoZone
        /\ \E entered \in BOOLEAN :
             /\ enter_zone(request[s].name, entered)
             /\ IF entered THEN Goto(s, "entering") /\ UNCHANGED talkVars
                           ELSE Reply(s, "ERROR")
  /\ UNCHANGED <<hostVars, current_zone, socketVars, peer>>

\* Broken: the session does not note the zone it has entered.
FinishEnterZoneUnnoted(s) ==
  /\ Running /\ pc[s] = "entering"
  /\ open_workspace(request[s].name)
  /\ Reply(s, "ENTERED_ZONE")
  /\ UNCHANGED <<hostVars, current_zone, socketVars, peer>>

\* The rest of handleEnterZone: the Workspace and the session's zone name.
FinishEnterZone(s) ==
  /\ Running /\ pc[s] = "entering"
  /\ \/ /\ open_workspace(request[s].name)
        /\ current_zone' = [current_zone EXCEPT ![s] = request[s].name]
        /\ Reply(s, "ENTERED_ZONE")
        /\ UNCHANGED io
     \/ /\ "throw" \in Faults
        /\ Throw
  /\ UNCHANGED <<console, registered, socketVars, peer>>

HandleLeaveZone(s) ==
  /\ Handling(s, "LEAVE_ZONE")
  /\ \/ /\ ~InZone(s)
        /\ Reply(s, "ERROR")
        /\ UNCHANGED zoneVars
     \/ /\ InZone(s)
        /\ leave_zone(current_zone[s])
        /\ Goto(s, "leaving")
        /\ UNCHANGED talkVars
  /\ UNCHANGED <<hostVars, current_zone, socketVars, peer>>

\* Broken: current_zone_ is not cleared.
FinishLeaveZoneKeeps(s) ==
  /\ Running /\ pc[s] = "leaving"
  /\ Reply(s, "LEFT_ZONE")
  /\ UNCHANGED <<zoneVars, hostVars, current_zone, socketVars, peer>>

\* The rest of handleLeaveZone: the session's zone name and Workspace.
FinishLeaveZone(s) ==
  /\ Running /\ pc[s] = "leaving"
  /\ current_zone' = [current_zone EXCEPT ![s] = NoZone]
  /\ Reply(s, "LEFT_ZONE")
  /\ UNCHANGED <<zoneVars, hostVars, socketVars, peer>>

\* LIST_ZONES, DOWNLOAD and an unknown command change nothing but the reply.
HandleQuery(s) ==
  /\ Running /\ pc[s] = "handling"
  /\ request[s].op \in {"LIST_ZONES", "DOWNLOAD", "UNKNOWN"}
  /\ Reply(s, IF \/ request[s].op = "UNKNOWN"
                 \/ request[s].op = "DOWNLOAD" /\ ~InZone(s)
              THEN "ERROR" ELSE "RESULT")
  /\ UNCHANGED <<zoneVars, hostVars, current_zone, socketVars, peer>>

\* COMMAND runs a child process and keeps the thread until it has ended.
HandleCommand(s) ==
  /\ Handling(s, "COMMAND")
  /\ IF InZone(s) THEN Goto(s, "executing") /\ UNCHANGED talkVars
                  ELSE Reply(s, "ERROR")
  /\ UNCHANGED <<zoneVars, hostVars, current_zone, socketVars, peer>>

FinishCommand(s) ==
  /\ Running /\ pc[s] = "executing"
  /\ ShellCommand
  /\ Reply(s, "RESULT")
  /\ UNCHANGED <<hostVars, current_zone, socketVars, peer>>

\* UPLOAD: splitTwoArgs throws outside the try block when the content is empty.
HandleUpload(s) ==
  /\ Running /\ pc[s] = "handling"
  /\ request[s].op \in {"UPLOAD", "UPLOAD_EMPTY"}
  /\ IF InZone(s) /\ request[s].op = "UPLOAD_EMPTY"
     THEN Throw
     ELSE /\ Reply(s, IF InZone(s) THEN "RESULT" ELSE "ERROR")
          /\ UNCHANGED <<zoneVars, io, current_zone>>
  /\ UNCHANGED <<console, registered, socketVars, peer>>

-----------------------------------------------------------------------------
\* Broken: the response is not sent.
DoWriteNothing(s) ==
  /\ Running
  /\ pc[s] = "replying" /\ socket_mutex[s] = "free"
  /\ Goto(s, "reading")
  /\ UNCHANGED <<zoneVars, hostVars, talkVars, current_zone, socketVars, peer>>

(***************************************************************************)
(* do_write sends the response, under socket_mutex_, unless the socket has *)
(* been closed meanwhile; then nothing continues the chain.                *)
(***************************************************************************)
DoWrite(s) ==
  /\ Running
  /\ pc[s] = "replying" /\ socket_mutex[s] = "free"
  /\ Goto(s, IF socket_active[s] THEN "writing" ELSE "ended")
  /\ UNCHANGED <<zoneVars, hostVars, talkVars, current_zone, socketVars, peer>>

Written(s) ==
  /\ Dispatch
  /\ pc[s] = "writing" /\ socket_mutex[s] = "free"
  /\ DoRead(s)
  /\ UNCHANGED <<zoneVars, hostVars, talkVars, current_zone, socketVars, peer>>

(***************************************************************************)
(* The write failed: the client is gone, or close() has cancelled the      *)
(* write.  The handler holds socket_mutex_ when it calls close(), whose    *)
(* first line locks the same std::mutex: it waits for itself for ever, and *)
(* what follows in the handler (erasing the session) is never reached.     *)
(***************************************************************************)
WriteFailed(s) ==
  /\ Dispatch
  /\ "write" \in Faults
  /\ pc[s] = "writing" /\ socket_mutex[s] = "free"
  /\ peer[s] = "gone" \/ ~socket_active[s]
  /\ socket_mutex' = [socket_mutex EXCEPT ![s] = "handler"]
  /\ Goto(s, "deadlocked")
  /\ UNCHANGED <<zoneVars, hostVars, talkVars, current_zone, socket_active,
                 peer>>

-----------------------------------------------------------------------------
\* Broken: close() does not lock, and does not test socket_active_.
CloseSocketUnlocked(s, who) ==
  /\ socket_mutex' = [socket_mutex EXCEPT ![s] = who]
  /\ socket_active' = [socket_active EXCEPT ![s] = FALSE]

(***************************************************************************)
(* close(), under socket_mutex_: by the read handler ("handler") or by     *)
(* Server::stop.  On a socket already closed it does nothing.              *)
(***************************************************************************)
CloseSocket(s, who) ==
  /\ socket_mutex[s] = "free" /\ socket_active[s]
  /\ socket_mutex' = [socket_mutex EXCEPT ![s] = who]
  /\ socket_active' = [socket_active EXCEPT ![s] = FALSE]

\* Broken: close() only clears the session's own note of its zone.
LeaveCurrentZoneNot(s) == UNCHANGED zoneVars

LeaveCurrentZone(s) ==
  IF InZone(s) THEN leave_zone(current_zone[s])
               ELSE UNCHANGED zoneVars

\* Broken: the lock is not released.
ClearCurrentZoneLocked(s) ==
  /\ current_zone' = [current_zone EXCEPT ![s] = NoZone]
  /\ UNCHANGED socket_mutex

ClearCurrentZone(s) ==
  /\ current_zone' = [current_zone EXCEPT ![s] = NoZone]
  /\ socket_mutex' = [socket_mutex EXCEPT ![s] = "free"]

CloseBegin(s) ==
  /\ Running /\ pc[s] = "closing"
  /\ \/ CloseSocket(s, "handler") /\ Goto(s, "shutting")
     \/ /\ socket_mutex[s] = "free" /\ ~socket_active[s]
        /\ Goto(s, "erasing")
        /\ UNCHANGED socketVars
  /\ UNCHANGED <<zoneVars, hostVars, talkVars, current_zone, peer>>

CloseLeave(s) ==
  /\ Running /\ pc[s] = "shutting"
  /\ LeaveCurrentZone(s)
  /\ Goto(s, "clearing")
  /\ UNCHANGED <<hostVars, talkVars, current_zone, socketVars, peer>>

CloseEnd(s) ==
  /\ Running /\ pc[s] = "clearing"
  /\ ClearCurrentZone(s)
  /\ Goto(s, "erasing")
  /\ UNCHANGED <<zoneVars, hostVars, talkVars, socket_active, peer>>

\* Broken: the session stays in sessions_.
EraseNot(s) ==
  /\ Running /\ pc[s] = "erasing"
  /\ Goto(s, "ended")
  /\ UNCHANGED <<zoneVars, hostVars, talkVars, current_zone, socketVars, peer>>

Erase(s) ==
  /\ Running /\ pc[s] = "erasing"
  /\ registered' = registered \ {s}
  /\ Goto(s, "ended")
  /\ UNCHANGED <<zoneVars, io, console, talkVars, current_zone, socketVars,
                 peer>>

(***************************************************************************)
(* The chain holds no reference any more: unless it is still registered,   *)
(* the session is destroyed.  ~Session calls close(); its erase is never   *)
(* reached, self_ having expired.  The identity s then stands for a later  *)
(* connection.                                                             *)
(***************************************************************************)
Destroy(s) ==
  /\ Running
  /\ pc[s] = "ended" /\ s \notin registered
  /\ IF socket_active[s] THEN LeaveCurrentZone(s)
                         ELSE UNCHANGED zoneVars
  /\ current_zone' = [current_zone EXCEPT ![s] = NoZone]
  /\ socket_active' = [socket_active EXCEPT ![s] = FALSE]
  /\ reply' = [reply EXCEPT ![s] = "none"]
  /\ peer' = [peer EXCEPT ![s] = "open"]
  /\ Goto(s, "new")
  /\ UNCHANGED <<hostVars, request, socket_mutex>>

-----------------------------------------------------------------------------
SessionInit ==
  /\ ZoneInit
  /\ io = "running"
  /\ console = "waiting"
  /\ registered = {}
  /\ pc = [s \in Sessions |-> "new"]
  /\ request = [s \in Sessions |-> NoRequest]
  /\ reply = [s \in Sessions |-> "none"]
  /\ current_zone = [s \in Sessions |-> NoZone]
  /\ socket_active = [s \in Sessions |-> FALSE]
  /\ socket_mutex = [s \in Sessions |-> "free"]
  /\ peer = [s \in Sessions |-> "open"]

Client(s) == Send(s) \/ Disconnect(s)

\* io_context hands a completed operation to a thread.
Handler(s) ==
  ReadRequest(s) \/ ReadFailed(s) \/ Written(s) \/ WriteFailed(s)

\* A thread goes on with a handler, the run of a child process apart.
Step(s) ==
  \/ FirstRead(s)
  \/ HandleCreateZone(s) \/ HandleEnterZone(s) \/ FinishEnterZone(s)
  \/ HandleLeaveZone(s) \/ FinishLeaveZone(s)
  \/ HandleQuery(s) \/ HandleCommand(s) \/ HandleUpload(s)
  \/ DoWrite(s)
  \/ CloseBegin(s) \/ CloseLeave(s) \/ CloseEnd(s) \/ Erase(s)

Serve(s) == Client(s) \/ Handler(s) \/ Step(s) \/ FinishCommand(s)

SessionStep(s) == Start(s) \/ Serve(s) \/ Destroy(s)

SessionNext == \E s \in Sessions : SessionStep(s)

SessionSpec == SessionInit /\ [][SessionNext]_sessionVars

(***************************************************************************)
(* Fairness.  A running thread is not stopped for ever (WF of each step).  *)
(* Completed operations wait in the io_context's FIFO queue, so a handler  *)
(* that can be dispatched again and again is dispatched (SF), for whatever *)
(* outcome of its operation.  Clients owe nothing, and neither do their    *)
(* commands: they may never end.                                           *)
(***************************************************************************)
FairSessionSpec ==
  /\ SessionSpec
  /\ \A s \in Sessions :
       /\ WF_sessionVars(Step(s))
       /\ SF_sessionVars(Handler(s))

-----------------------------------------------------------------------------
(***************************************************************************)
(* Properties.                                                             *)
(***************************************************************************)
Replies == {"none", "ERROR", "RESULT", "ZONE_CREATED", "ENTERED_ZONE",
            "LEFT_ZONE"}

SessionTypeOK ==
  /\ ZoneTypeOK
  /\ io \in {"running", "stopped", "exited", "terminated"}
  /\ registered \subseteq Sessions
  /\ pc \in [Sessions -> Phases]
  /\ request \in [Sessions -> Requests \cup {NoRequest}]
  /\ reply \in [Sessions -> Replies]
  /\ current_zone \in [Sessions -> Names \cup {NoZone}]
  /\ socket_active \in [Sessions -> BOOLEAN]
  /\ socket_mutex \in [Sessions -> {"free", "handler", "stop"}]
  /\ peer \in [Sessions -> {"open", "gone"}]

(***************************************************************************)
(* s is the occupant of zone z: from the enter_zone that returned true to  *)
(* the leave_zone, that is a step longer than current_zone says at one end *)
(* and a step shorter at the other.                                        *)
(***************************************************************************)
Holds(s, z) ==
  \/ pc[s] = "entering" /\ request[s].name = z
  \/ pc[s] \notin {"leaving", "clearing"} /\ InZone(s) /\ current_zone[s] = z

(***************************************************************************)
(* The sessions implement the abstract leases of ZoneLease: every step of  *)
(* theirs creates a zone, takes a free one, gives back one's own, or does  *)
(* nothing to the leases.                                                  *)
(***************************************************************************)
Held == {p \in Sessions \X Names : Holds(p[1], p[2])}

Lease == INSTANCE ZoneLease WITH known <- zones, held <- Held

ImplementsLease == Lease!LeaseSpec

\* No two sessions are in the same zone, whatever the interleaving of their
\* requests and of the disconnects.
ExclusiveZones ==
  \A s, t \in Sessions, z \in Names : Holds(s, z) /\ Holds(t, z) => s = t

\* The flag in the table and the sessions agree: a zone is occupied exactly
\* when a session is in it.  None stays occupied for nobody and none looks
\* available with somebody inside.
OccupiedMeansHeld ==
  \A z \in Names \cup zones : z \in occupied <=> \E s \in Sessions : Holds(s, z)

\* A session outside Server::sessions_ has given back its zone and its socket,
\* so that its destructor finds nothing to release.
GoneMeansReleased ==
  \A s \in Sessions \ registered :
    pc[s] \in {"new", "ended"} /\ ~InZone(s) /\ ~socket_active[s]

\* A session whose chain of handlers has ended is not kept in Server::sessions_:
\* nothing would ever take it out again, or free its memory.
NoneForgotten ==
  \A s \in registered : pc[s] # "ended"

\* No request ends the process: a handler reports its failure in its response.
ServerSurvives == io # "terminated"

\* What the client was told is still so: after ENTERED_ZONE the session is in
\* the zone until the client sends something else or the connection is closed.
ToldEnteredIsInZone ==
  \A s \in Sessions :
    /\ reply[s] = "ENTERED_ZONE" /\ pc[s] \in {"replying", "writing", "reading"}
    => \E z \in Names : Holds(s, z) /\ z \in occupied

\* A step that makes a zone available is one of the session that is in it: it
\* leaves, or closes.
HolderReleases ==
  \A z \in occupied \ occupied' :
    \E s \in Sessions :
      /\ Holds(s, z)
      /\ pc[s] \in {"handling", "shutting"} /\ pc'[s] # pc[s]

\* No session gives back another one's zone.
OnlyHolderReleases == [][HolderReleases]_sessionVars

\* A handler that may never return: a command that does not end, or a write
\* that has failed.
Stuck(s) == pc[s] \in {"executing", "deadlocked"}

NoThreadLeft == Cardinality({s \in Sessions : Stuck(s)}) = Threads

\* Every request is taken up and answered, or the connection is closed, as
\* long as a thread of the pool is left that is not stuck.
RequestsAreAnswered ==
  \A s \in Sessions :
    (request[s] # NoRequest)
      ~> (pc[s] \in {"writing", "closing"} \/ Stuck(s) \/ NoThreadLeft)

\* When a client has gone, its session leaves its zone and is forgotten, as
\* long as its own handler is not one that is stuck and a thread of the pool is
\* left that is not.
DisconnectReleases ==
  \A s \in Sessions :
    (peer[s] = "gone")
      ~> ((s \notin registered /\ ~InZone(s)) \/ Stuck(s) \/ NoThreadLeft)
=============================================================================
