--------------------------- MODULE SessionProofs ---------------------------
(***************************************************************************)
(* Theorems about the sessions of a serving server, for every set of       *)
(* sessions and names, every number of threads, workload and set of        *)
(* faults.                                                                 *)
(***************************************************************************)
EXTENDS Session, ZoneProofs

(***************************************************************************)
(* The inductive invariant: where the chain is decides whether the session *)
(* is registered, has its socket, and is in a zone.  A socket is closed    *)
(* only by the session's own read handler, so no read is begun on a closed *)
(* one.                                                                    *)
(***************************************************************************)
Released == {"new", "ended", "shutting", "clearing", "erasing"}

PhaseInv ==
  \A s \in Sessions :
    /\ pc[s] # "badRead"
    /\ pc[s] \in {"new", "entering", "erasing", "ended"} => ~InZone(s)
    /\ pc[s] = "leaving" => InZone(s)
    /\ pc[s] = "entering" => request[s].name \in Names
    /\ socket_active[s] <=> pc[s] \notin Released
    /\ s \in registered <=> pc[s] \notin {"new", "ended"}

IInv == SessionTypeOK /\ PhaseInv /\ OccupiedMeansHeld /\ ExclusiveZones

-----------------------------------------------------------------------------
LEMMA InitTypeOK == SessionInit => SessionTypeOK
BY NamesAssumption
   DEF SessionInit, SessionTypeOK, ZoneInit, ZoneTypeOK, Scan, Phases, Replies,
       Requests, NoRequest

\* A handler that has entered a zone has its name in the request.
EnteringNamed ==
  \A s \in Sessions : pc[s] = "entering" => request[s].name \in Names

LEMMA PhaseNamed == PhaseInv => EnteringNamed
BY DEF PhaseInv, EnteringNamed

LEMMA StepTypeOK ==
  ASSUME SessionTypeOK, EnteringNamed, NEW s \in Sessions, SessionStep(s)
  PROVE  SessionTypeOK'
<1> USE NamesAssumption, SessionAssumption, PrefixesArePaths
<1> USE DEF SessionTypeOK, ZoneTypeOK, Phases, Pending, OnThread, Replies, Goto,
            zoneVars, hostVars, talkVars, socketVars
<1>1. CASE Client(s)
  BY <1>1 DEF Client, Send, Disconnect
<1>2. CASE Start(s) \/ Handler(s)
  BY <1>2 DEF Handler, Start, Created, ReadRequest, ReadFailed, Written,
              WriteFailed, DoRead
<1>3. CASE FirstRead(s) \/ DoWrite(s)
  BY <1>3 DEF FirstRead, DoRead, DoWrite
<1>4. CASE HandleCreateZone(s)
  <2>1. request[s].name \in Names \cup {NoZone}
    BY <1>4 DEF HandleCreateZone, Handling, Requests, NoRequest
  <2>2. request[s].name # NoZone =>
          Prefixes(request[s].name) \subseteq Paths /\ request[s].name \in Paths
    BY <2>1
  <2>3. zones' \subseteq Paths /\ occupied' \subseteq zones' /\ dirs' \subseteq Paths
    BY <1>4, <2>2 DEF HandleCreateZone, create_zone, Throw
  <2>. QED
    BY <1>4, <2>3 DEF HandleCreateZone, Handling, Reply, Throw
<1>5. CASE HandleEnterZone(s) \/ HandleLeaveZone(s)
  BY <1>5 DEF HandleEnterZone, HandleLeaveZone, Handling, Reply, enter_zone, leave_zone
<1>6. CASE FinishEnterZone(s)
  <2>1. request[s].name \in Names
    BY <1>6 DEF FinishEnterZone, EnteringNamed
  <2>2. Prefixes(request[s].name) \subseteq Paths
    BY <2>1
  <2>. QED
    BY <1>6, <2>1, <2>2 DEF FinishEnterZone, Reply, Throw, open_workspace
<1>7. CASE FinishLeaveZone(s) \/ HandleQuery(s) \/ HandleCommand(s) \/ HandleUpload(s)
  BY <1>7 DEF FinishLeaveZone, HandleQuery, HandleCommand, HandleUpload, Handling,
              Reply, Throw
<1>8. CASE FinishCommand(s)
  BY <1>8, ShellEffectsArePaths DEF FinishCommand, ShellCommand, Reply
<1>9. CASE CloseBegin(s) \/ CloseLeave(s) \/ CloseEnd(s) \/ Erase(s)
  BY <1>9 DEF CloseBegin, CloseSocket, CloseLeave, LeaveCurrentZone, leave_zone,
              CloseEnd, ClearCurrentZone, Erase
<1>10. CASE Destroy(s)
  BY <1>10 DEF Destroy, LeaveCurrentZone, leave_zone
<1>. QED
  BY <1>1, <1>2, <1>3, <1>4, <1>5, <1>6, <1>7, <1>8, <1>9, <1>10
     DEF SessionStep, Serve, Step

-----------------------------------------------------------------------------
\* A step of one session leaves the others' chains, zones and sockets alone.
LEMMA StepFrame ==
  ASSUME SessionTypeOK, NEW s \in Sessions, SessionStep(s),
         NEW t \in Sessions, t # s
  PROVE  /\ pc'[t] = pc[t] /\ request'[t] = request[t] /\ reply'[t] = reply[t]
         /\ current_zone'[t] = current_zone[t]
         /\ socket_active'[t] = socket_active[t] /\ socket_mutex'[t] = socket_mutex[t]
         /\ t \in registered' <=> t \in registered
<1> USE DEF SessionTypeOK, Goto, Reply, Throw,
            zoneVars, hostVars, talkVars, socketVars
<1>1. CASE Client(s)
  BY <1>1 DEF Client, Send, Disconnect
<1>2. CASE Start(s) \/ Handler(s)
  BY <1>2 DEF Handler, Start, Created, ReadRequest, ReadFailed, Written,
              WriteFailed, DoRead
<1>3. CASE FirstRead(s) \/ DoWrite(s)
  BY <1>3 DEF FirstRead, DoRead, DoWrite
<1>4. CASE HandleCreateZone(s) \/ HandleEnterZone(s) \/ FinishEnterZone(s)
  BY <1>4 DEF HandleCreateZone, HandleEnterZone, FinishEnterZone
<1>5. CASE HandleLeaveZone(s) \/ FinishLeaveZone(s) \/ HandleQuery(s)
  BY <1>5 DEF HandleLeaveZone, FinishLeaveZone, HandleQuery
<1>6. CASE HandleCommand(s) \/ FinishCommand(s) \/ HandleUpload(s)
  BY <1>6 DEF HandleCommand, FinishCommand, HandleUpload
<1>7. CASE CloseBegin(s) \/ CloseLeave(s) \/ CloseEnd(s) \/ Erase(s)
  BY <1>7 DEF CloseBegin, CloseSocket, CloseLeave, CloseEnd, ClearCurrentZone, Erase
<1>8. CASE Destroy(s)
  BY <1>8 DEF Destroy
<1>. QED
  BY <1>1, <1>2, <1>3, <1>4, <1>5, <1>6, <1>7, <1>8 DEF SessionStep, Serve, Step

\* Every step of a chain keeps what its phase says of its session.
LEMMA StepPhase ==
  ASSUME SessionTypeOK, PhaseInv, NEW s \in Sessions, SessionStep(s)
  PROVE  PhaseInv'
<1> DEFINE Ph(t) ==
      /\ pc[t] # "badRead"
      /\ pc[t] \in {"new", "entering", "erasing", "ended"} => ~InZone(t)
      /\ pc[t] = "leaving" => InZone(t)
      /\ pc[t] = "entering" => request[t].name \in Names
      /\ socket_active[t] <=> pc[t] \notin Released
      /\ t \in registered <=> pc[t] \notin {"new", "ended"}
<1>1. ASSUME NEW t \in Sessions, t # s PROVE Ph(t)'
  <2>1. Ph(t)
    BY DEF PhaseInv
  <2>. QED
    BY <1>1, <2>1, StepFrame DEF InZone
<1>2. Ph(s)'
  <2> USE DEF SessionTypeOK, PhaseInv, Goto, Reply, Throw, InZone, Released,
              zoneVars, hostVars, talkVars, socketVars
  <2>1. CASE Client(s)
    BY <2>1 DEF Client, Send, Disconnect
  <2>2. CASE Start(s) \/ Handler(s)
    BY <2>2 DEF Handler, Start, Created, ReadRequest, ReadFailed, Written,
              WriteFailed, DoRead
  <2>3. CASE FirstRead(s) \/ DoWrite(s)
    BY <2>3 DEF FirstRead, DoRead, DoWrite
  <2>4. CASE HandleCreateZone(s)
    BY <2>4 DEF HandleCreateZone, Handling
  <2>5. CASE HandleEnterZone(s)
    BY <2>5 DEF HandleEnterZone, Handling, Requests, NoRequest
  <2>6. CASE FinishEnterZone(s) \/ HandleLeaveZone(s) \/ FinishLeaveZone(s)
    BY <2>6 DEF FinishEnterZone, HandleLeaveZone, FinishLeaveZone, Handling
  <2>7. CASE HandleQuery(s) \/ HandleCommand(s) \/ FinishCommand(s) \/ HandleUpload(s)
    BY <2>7 DEF HandleQuery, HandleCommand, FinishCommand, HandleUpload, Handling
  <2>8. CASE CloseBegin(s) \/ CloseLeave(s) \/ CloseEnd(s) \/ Erase(s)
    BY <2>8 DEF CloseBegin, CloseSocket, CloseLeave, CloseEnd, ClearCurrentZone, Erase
  <2>9. CASE Destroy(s)
    BY <2>9 DEF Destroy
  <2>. QED
    BY <2>1, <2>2, <2>3, <2>4, <2>5, <2>6, <2>7, <2>8, <2>9 DEF SessionStep, Serve, Step
<1>. QED
  BY <1>1, <1>2 DEF PhaseInv

-----------------------------------------------------------------------------
(***************************************************************************)
(* What a step of s does to the zone s is in.  HoldsSame: nothing.         *)
(* HoldsMore: s, in no zone, is now in a free one.  HoldsLess: s, in a     *)
(* zone, is now in none.                                                   *)
(***************************************************************************)
HoldsSame(s) ==
  /\ occupied' = occupied
  /\ zones' = zones \/ \E z \in Names : zones' = zones \cup {z}
  /\ \A z \in Names : Holds(s, z)' <=> Holds(s, z)

HoldsMore(s) ==
  /\ zones' = zones
  /\ \E y \in Names \cap (zones \ occupied) :
       /\ occupied' = occupied \cup {y}
       /\ \A z \in Names : ~Holds(s, z) /\ (Holds(s, z)' <=> z = y)

HoldsLess(s) ==
  /\ zones' = zones
  /\ \E y \in Names :
       /\ occupied' = occupied \ {y}
       /\ \A z \in Names : ~Holds(s, z)' /\ (Holds(s, z) <=> z = y)

\* A session is in one zone at most.
LEMMA HoldsOne ==
  ASSUME SessionTypeOK, PhaseInv, NEW s \in Sessions,
         NEW y \in Names, NEW z \in Names, Holds(s, y), Holds(s, z)
  PROVE  y = z
BY DEF Holds, PhaseInv, InZone

\* Taking, giving back, or neither: the steps that touch occupied are those
\* that change which zone the session is in.
LEMMA StepHolds ==
  ASSUME SessionTypeOK, PhaseInv, occupied \subseteq Names,
         NEW s \in Sessions, SessionStep(s)
  PROVE  HoldsSame(s) \/ HoldsMore(s) \/ HoldsLess(s)
<1> USE SessionAssumption
<1> USE DEF SessionTypeOK, ZoneTypeOK, PhaseInv, Goto, Reply, Throw, InZone, Holds,
            zoneVars, hostVars, talkVars, socketVars
<1>1. CASE Client(s)
  BY <1>1 DEF HoldsSame, Client, Send, Disconnect
<1>2. CASE Start(s) \/ Handler(s)
  BY <1>2 DEF HoldsSame, Handler, Start, Created, ReadRequest, ReadFailed,
              Written,
              WriteFailed, DoRead
<1>3. CASE FirstRead(s) \/ DoWrite(s)
  BY <1>3 DEF HoldsSame, FirstRead, DoRead, DoWrite
<1>4. CASE HandleCreateZone(s)
  BY <1>4 DEF HoldsSame, HandleCreateZone, Handling, create_zone, Requests, NoRequest
<1>5. CASE HandleEnterZone(s)
  <2>1. CASE pc'[s] = "entering"
    <3>1. request[s].name \in Names \cap (zones \ occupied)
      BY <1>5, <2>1 DEF HandleEnterZone, Handling, enter_zone, Requests, NoRequest
    <3>. QED
      BY <1>5, <2>1, <3>1 DEF HoldsMore, HandleEnterZone, Handling, enter_zone
  <2>2. CASE pc'[s] # "entering"
    BY <1>5, <2>2 DEF HoldsSame, HandleEnterZone, Handling, enter_zone
  <2>. QED
    BY <2>1, <2>2
<1>6. CASE FinishEnterZone(s)
  BY <1>6 DEF HoldsSame, FinishEnterZone, open_workspace
<1>7. CASE HandleLeaveZone(s)
  <2>1. CASE InZone(s)
    <3>1. current_zone[s] \in Names
      BY <2>1
    <3>. QED
      BY <1>7, <2>1, <3>1 DEF HoldsLess, HandleLeaveZone, Handling, leave_zone
  <2>2. CASE ~InZone(s)
    BY <1>7, <2>2 DEF HoldsSame, HandleLeaveZone, Handling
  <2>. QED
    BY <2>1, <2>2
<1>8. CASE FinishLeaveZone(s) \/ HandleQuery(s) \/ HandleCommand(s)
           \/ FinishCommand(s) \/ HandleUpload(s)
  BY <1>8 DEF HoldsSame, FinishLeaveZone, HandleQuery, HandleCommand, FinishCommand,
              HandleUpload, Handling, ShellCommand
<1>9. CASE CloseLeave(s)
  <2>1. CASE InZone(s)
    <3>1. current_zone[s] \in Names
      BY <2>1
    <3>. QED
      BY <1>9, <2>1, <3>1 DEF HoldsLess, CloseLeave, LeaveCurrentZone, leave_zone
  <2>2. CASE ~InZone(s)
    BY <1>9, <2>2 DEF HoldsSame, CloseLeave, LeaveCurrentZone
  <2>. QED
    BY <2>1, <2>2
<1>10. CASE CloseBegin(s) \/ CloseEnd(s) \/ Erase(s)
  BY <1>10 DEF HoldsSame, CloseBegin, CloseSocket, CloseEnd, ClearCurrentZone, Erase
<1>11. CASE Destroy(s)
  BY <1>11 DEF HoldsSame, Destroy, Released
<1>. QED
  BY <1>1, <1>2, <1>3, <1>4, <1>5, <1>6, <1>7, <1>8, <1>9, <1>10, <1>11
     DEF SessionStep, Serve, Step

-----------------------------------------------------------------------------
\* Only names of Names are occupied.
LEMMA OccupiedAreNames ==
  ASSUME SessionTypeOK, PhaseInv, OccupiedMeansHeld
  PROVE  occupied \subseteq Names
<1> SUFFICES ASSUME NEW z \in occupied PROVE z \in Names
  OBVIOUS
<1>1. PICK s \in Sessions : Holds(s, z)
  BY DEF OccupiedMeansHeld, SessionTypeOK, ZoneTypeOK
<1>. QED
  BY <1>1 DEF Holds, InZone, PhaseInv, SessionTypeOK

LEMMA OthersHold ==
  ASSUME SessionTypeOK, NEW s \in Sessions, SessionStep(s),
         NEW t \in Sessions, t # s, NEW z
  PROVE  Holds(t, z)' <=> Holds(t, z)
BY StepFrame DEF Holds, InZone

LEMMA StepInv ==
  ASSUME IInv, NEW s \in Sessions, SessionStep(s)
  PROVE  IInv'
<1>1. SessionTypeOK' /\ PhaseInv'
  BY StepTypeOK, StepPhase, PhaseNamed DEF IInv
<1>2. occupied \subseteq Names
  BY OccupiedAreNames DEF IInv
<1>3. \A t \in Sessions \ {s}, z \in Names : Holds(t, z)' <=> Holds(t, z)
  BY OthersHold DEF IInv
<1>4. ASSUME NEW z \in Names PROVE (z \in occupied <=> \E t \in Sessions : Holds(t, z))
  BY DEF IInv, OccupiedMeansHeld
<1>5. ASSUME NEW z \in Names, NEW t \in Sessions, NEW u \in Sessions,
             Holds(t, z), Holds(u, z)
      PROVE  t = u
  BY <1>5 DEF IInv, ExclusiveZones
<1>6. /\ occupied' \subseteq Names
      /\ \A z \in Names : z \in occupied' <=> \E t \in Sessions : Holds(t, z)'
      /\ \A t, u \in Sessions, z \in Names : Holds(t, z)' /\ Holds(u, z)' => t = u
  <2>1. CASE HoldsSame(s)
    BY <1>2, <1>3, <1>4, <1>5, <2>1 DEF HoldsSame
  <2>2. CASE HoldsMore(s)
    BY <1>2, <1>3, <1>4, <1>5, <2>2 DEF HoldsMore
  <2>3. CASE HoldsLess(s)
    BY <1>2, <1>3, <1>4, <1>5, <2>3 DEF HoldsLess
  <2>. QED
    BY <1>2, <2>1, <2>2, <2>3, StepHolds DEF IInv
<1>7. ASSUME NEW t \in Sessions, NEW z, Holds(t, z)' PROVE z \in Names
  BY <1>1, <1>7 DEF Holds, InZone, PhaseInv, SessionTypeOK
<1>8. OccupiedMeansHeld'
  BY <1>6, <1>7 DEF OccupiedMeansHeld
<1>9. ExclusiveZones'
  BY <1>6 DEF ExclusiveZones
<1>. QED
  BY <1>1, <1>8, <1>9 DEF IInv

LEMMA InitInv == SessionInit => IInv
<1> SUFFICES ASSUME SessionInit PROVE IInv
  OBVIOUS
<1>1. SessionTypeOK
  BY InitTypeOK
<1>2. PhaseInv
  BY DEF SessionInit, PhaseInv, InZone, Released
<1>3. \A s \in Sessions : \A z : ~Holds(s, z)
  BY DEF SessionInit, Holds, InZone
<1>. QED
  BY <1>1, <1>2, <1>3 DEF IInv, OccupiedMeansHeld, ExclusiveZones, SessionInit, ZoneInit

\* A step that changes no variable keeps the invariant.
LEMMA StutterInv == IInv /\ UNCHANGED sessionVars => IInv'
BY DEF IInv, sessionVars, zoneVars, hostVars, talkVars, socketVars,
       SessionTypeOK, ZoneTypeOK, PhaseInv, OccupiedMeansHeld,
       ExclusiveZones, Holds, InZone

\* The inductive invariant holds in every reachable state.
THEOREM SessionInvariant == SessionSpec => []IInv
<1>1. IInv /\ [SessionNext]_sessionVars => IInv'
  BY StepInv, StutterInv DEF SessionNext
<1>. QED
  BY <1>1, InitInv, PTL DEF SessionSpec

\* What the phases say of those outside and inside sessions_.
LEMMA InvReleases == IInv => GoneMeansReleased /\ NoneForgotten
BY DEF IInv, PhaseInv, SessionTypeOK, GoneMeansReleased, NoneForgotten, Released

\* Every variable keeps its type: a session is always at one of the known
\* points of its chain of handlers.
THEOREM SessionTypeCorrect == SessionSpec => []SessionTypeOK
BY SessionInvariant, PTL DEF IInv

\* No two sessions are ever in the same zone, for any number of connections,
\* threads and zones (enter_zone, handleEnterZone, handleLeaveZone, close).
THEOREM Exclusion == SessionSpec => []ExclusiveZones
BY SessionInvariant, PTL DEF IInv

\* The table's occupied flag and the sessions always agree: a zone is neither
\* lost to a session that has gone nor free with somebody inside.
THEOREM OccupiedAgrees == SessionSpec => []OccupiedMeansHeld
BY SessionInvariant, PTL DEF IInv

\* A session that is out of Server::sessions_ has released zone and socket.
THEOREM GoneReleased == SessionSpec => []GoneMeansReleased
BY InvReleases, SessionInvariant, PTL

-----------------------------------------------------------------------------
\* A step of a session is a step of the leases, or leaves them alone.
LEMMA StepLease ==
  ASSUME IInv, NEW s \in Sessions, SessionStep(s)
  PROVE  [Lease!LeaseNext]_(Lease!leaseVars)
<1>1. occupied \subseteq Names
  BY OccupiedAreNames DEF IInv
<1>2. \A t \in Sessions \ {s}, z \in Names : Holds(t, z)' <=> Holds(t, z)
  BY OthersHold DEF IInv
<1>3. CASE HoldsSame(s)
  <2>1. Held' = Held
    BY <1>2, <1>3 DEF HoldsSame, Held
  <2>. QED
    BY <1>3, <2>1 DEF HoldsSame, Lease!LeaseNext, Lease!leaseVars, Lease!Create
<1>4. CASE HoldsMore(s)
  <2>1. PICK y \in Names \cap (zones \ occupied) :
          \A z \in Names : ~Holds(s, z) /\ (Holds(s, z)' <=> z = y)
    BY <1>4 DEF HoldsMore
  <2>2. Held' = Held \cup {<<s, y>>}
    BY <1>2, <2>1 DEF Held
  <2>3. Lease!Free(y) /\ Lease!Outside(s)
    BY <2>1 DEF Lease!Free, Lease!Outside, Held, IInv, OccupiedMeansHeld
  <2>4. Lease!Acquire(s, y)
    BY <1>4, <2>1, <2>2, <2>3 DEF Lease!Acquire, HoldsMore
  <2>. QED
    BY <2>1, <2>4 DEF Lease!LeaseNext
<1>5. CASE HoldsLess(s)
  <2>1. PICK y \in Names :
          \A z \in Names : ~Holds(s, z)' /\ (Holds(s, z) <=> z = y)
    BY <1>5 DEF HoldsLess
  <2>2. <<s, y>> \in Held /\ Held' = Held \ {<<s, y>>}
    BY <1>2, <2>1 DEF Held
  <2>3. Lease!Release(s, y)
    BY <1>5, <2>2 DEF Lease!Release, HoldsLess
  <2>. QED
    BY <2>1, <2>3 DEF Lease!LeaseNext
<1>. QED
  BY <1>1, <1>3, <1>4, <1>5, StepHolds DEF IInv

\* The sessions, with all the steps of their handlers, implement the abstract
\* leases: one session per zone, one zone per session, and a zone gets free
\* only by its own session.
THEOREM Refinement == SessionSpec => ImplementsLease
<1>1. SessionInit => Lease!LeaseInit
  BY DEF SessionInit, Lease!LeaseInit, Held, Holds, InZone
<1>2. IInv /\ [SessionNext]_sessionVars => [Lease!LeaseNext]_(Lease!leaseVars)
  <2>1. IInv /\ UNCHANGED sessionVars => UNCHANGED Lease!leaseVars
    BY DEF sessionVars, zoneVars, talkVars, Lease!leaseVars, Held, Holds, InZone
  <2>. QED
    BY <2>1, StepLease DEF SessionNext
<1>. QED
  BY <1>1, <1>2, SessionInvariant, PTL DEF SessionSpec, ImplementsLease, Lease!LeaseSpec

-----------------------------------------------------------------------------
\* Only two steps take a zone out of occupied: handleLeaveZone's call of
\* leave_zone, and the one in close().
LEMMA StepReleases ==
  ASSUME IInv, NEW s \in Sessions, SessionStep(s), ~(occupied \subseteq occupied')
  PROVE  pc[s] \in {"handling", "shutting"} /\ pc'[s] # pc[s]
<1> USE DEF IInv, SessionTypeOK, Goto, Reply, Throw,
            zoneVars, hostVars, talkVars, socketVars
<1>1. CASE Client(s)
  BY <1>1 DEF Client, Send, Disconnect
<1>2. CASE Start(s) \/ Handler(s)
  BY <1>2 DEF Handler, Start, Created, ReadRequest, ReadFailed, Written,
              WriteFailed
<1>3. CASE FirstRead(s) \/ DoWrite(s) \/ HandleCreateZone(s)
  BY <1>3 DEF FirstRead, DoWrite, HandleCreateZone, create_zone
<1>4. CASE HandleEnterZone(s) \/ FinishEnterZone(s)
  BY <1>4 DEF HandleEnterZone, enter_zone, FinishEnterZone, open_workspace
<1>5. CASE HandleLeaveZone(s)
  BY <1>5 DEF HandleLeaveZone, Handling
<1>6. CASE FinishLeaveZone(s) \/ HandleQuery(s) \/ HandleCommand(s)
           \/ FinishCommand(s) \/ HandleUpload(s)
  BY <1>6 DEF FinishLeaveZone, HandleQuery, HandleCommand, FinishCommand,
              ShellCommand, HandleUpload
<1>7. CASE CloseLeave(s)
  BY <1>7 DEF CloseLeave
<1>8. CASE CloseBegin(s) \/ CloseEnd(s) \/ Erase(s)
  BY <1>8 DEF CloseBegin, CloseEnd, Erase
<1>9. CASE Destroy(s)
  BY <1>9 DEF Destroy, PhaseInv, Released
<1>. QED
  BY <1>1, <1>2, <1>3, <1>4, <1>5, <1>6, <1>7, <1>8, <1>9
     DEF SessionStep, Serve, Step

\* A zone becomes available only by a step of the session that is in it: no
\* handler and no close() ever gives back somebody else's zone.
THEOREM ReleaseByHolder == SessionSpec => OnlyHolderReleases
<1>1. ASSUME IInv, NEW s \in Sessions, SessionStep(s), NEW z \in occupied \ occupied'
      PROVE  \E t \in Sessions :
               Holds(t, z) /\ pc[t] \in {"handling", "shutting"} /\ pc'[t] # pc[t]
  <2>1. pc[s] \in {"handling", "shutting"} /\ pc'[s] # pc[s]
    BY <1>1, StepReleases
  <2>2. Holds(s, z)
    <3>1. HoldsSame(s) \/ HoldsMore(s) \/ HoldsLess(s)
      BY <1>1, StepHolds, OccupiedAreNames DEF IInv
    <3>2. ~HoldsSame(s) /\ ~HoldsMore(s)
      BY <1>1 DEF HoldsSame, HoldsMore
    <3>3. PICK y \in Names : /\ occupied' = occupied \ {y}
                            /\ Holds(s, y)
      BY <3>1, <3>2 DEF HoldsLess
    <3>4. z = y
      BY <1>1, <3>3
    <3>. QED
      BY <3>3, <3>4
  <2>. QED
    BY <2>1, <2>2
<1>2. IInv /\ [SessionNext]_sessionVars => [HolderReleases]_sessionVars
  BY <1>1 DEF SessionNext, HolderReleases
<1>. QED
  BY <1>2, SessionInvariant, PTL DEF SessionSpec, OnlyHolderReleases

\* A session out of whose chain nothing more will come is not in sessions_.
THEOREM NobodyForgotten == SessionSpec => []NoneForgotten
BY InvReleases, SessionInvariant, PTL

-----------------------------------------------------------------------------
(***************************************************************************)
(* What was told: a connection begins with no response, and ENTERED_ZONE   *)
(* is answered by a session in a zone, which stays there until it handles  *)
(* the next request or closes.                                             *)
(***************************************************************************)
ToldInv ==
  \A s \in Sessions :
    /\ pc[s] \in {"new", "starting"} => reply[s] = "none"
    /\ reply[s] = "ENTERED_ZONE" /\ pc[s] \in {"replying", "writing", "reading"} => InZone(s)

LEMMA StepTold ==
  ASSUME SessionTypeOK, PhaseInv, ToldInv, NEW s \in Sessions, SessionStep(s)
  PROVE  ToldInv'
<1> DEFINE Told(t) ==
      /\ pc[t] \in {"new", "starting"} => reply[t] = "none"
      /\ reply[t] = "ENTERED_ZONE" /\ pc[t] \in {"replying", "writing", "reading"} => InZone(t)
<1>1. ASSUME NEW t \in Sessions, t # s PROVE Told(t)'
  <2>1. Told(t)
    BY DEF ToldInv
  <2>. QED
    BY <1>1, <2>1, StepFrame DEF InZone
<1>2. Told(s)'
  <2> USE SessionAssumption
  <2> USE DEF SessionTypeOK, PhaseInv, ToldInv, Goto, Reply, Throw, InZone,
              zoneVars, hostVars, talkVars, socketVars
  <2>1. CASE Client(s)
    BY <2>1 DEF Client, Send, Disconnect
  <2>2. CASE Start(s) \/ Handler(s)
    BY <2>2 DEF Handler, Start, Created, ReadRequest, ReadFailed, Written, WriteFailed, DoRead
  <2>3. CASE FirstRead(s) \/ DoWrite(s)
    BY <2>3 DEF FirstRead, DoRead, DoWrite
  <2>4. CASE HandleCreateZone(s) \/ HandleEnterZone(s)
    BY <2>4 DEF HandleCreateZone, HandleEnterZone, Handling
  <2>5. CASE FinishEnterZone(s)
    <3>1. request[s].name \in Names /\ request[s].name # NoZone
      BY <2>5 DEF FinishEnterZone
    <3>. QED
      BY <2>5, <3>1 DEF FinishEnterZone
  <2>6. CASE HandleLeaveZone(s) \/ FinishLeaveZone(s)
    BY <2>6 DEF HandleLeaveZone, FinishLeaveZone, Handling
  <2>7. CASE HandleQuery(s) \/ HandleCommand(s) \/ FinishCommand(s) \/ HandleUpload(s)
    BY <2>7 DEF HandleQuery, HandleCommand, FinishCommand, HandleUpload, Handling
  <2>8. CASE CloseBegin(s) \/ CloseLeave(s) \/ CloseEnd(s) \/ Erase(s)
    BY <2>8 DEF CloseBegin, CloseSocket, CloseLeave, CloseEnd, ClearCurrentZone, Erase
  <2>9. CASE Destroy(s)
    BY <2>9 DEF Destroy
  <2>. QED
    BY <2>1, <2>2, <2>3, <2>4, <2>5, <2>6, <2>7, <2>8, <2>9 DEF SessionStep, Serve, Step
<1>. QED
  BY <1>1, <1>2 DEF ToldInv

LEMMA ToldHolds == IInv /\ ToldInv => ToldEnteredIsInZone
<1> SUFFICES ASSUME IInv, ToldInv, NEW s \in Sessions,
                    reply[s] = "ENTERED_ZONE", pc[s] \in {"replying", "writing", "reading"}
             PROVE  \E z \in Names : Holds(s, z) /\ z \in occupied
  BY DEF ToldEnteredIsInZone
<1>1. InZone(s) /\ current_zone[s] \in Names
  BY DEF ToldInv, IInv, SessionTypeOK, InZone
<1>2. Holds(s, current_zone[s])
  BY <1>1 DEF Holds
<1>. QED
  BY <1>1, <1>2 DEF IInv, OccupiedMeansHeld

\* After ENTERED_ZONE the session is in a zone, and the table knows it, until
\* the client's next request is handled or the connection is closed.
THEOREM ToldEntered == SessionSpec => []ToldEnteredIsInZone
<1>1. SessionInit => ToldInv
  BY DEF SessionInit, ToldInv
<1>2. IInv /\ ToldInv /\ [SessionNext]_sessionVars => ToldInv'
  <2>1. IInv /\ ToldInv /\ SessionNext => ToldInv'
    BY StepTold DEF IInv, SessionNext
  <2>2. ToldInv /\ UNCHANGED sessionVars => ToldInv'
    BY DEF sessionVars, talkVars, ToldInv, InZone
  <2>. QED
    BY <2>1, <2>2
<1>. QED
  BY <1>1, <1>2, ToldHolds, SessionInvariant, PTL DEF SessionSpec
=============================================================================
