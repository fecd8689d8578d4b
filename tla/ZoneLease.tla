----------------------------- MODULE ZoneLease -----------------------------
(***************************************************************************)
(* What the server promises about its zones, whatever its handlers do in   *)
(* between: a session works in at most one zone, a zone has at most one    *)
(* session in it, a session enters only a zone that exists and only while  *)
(* nobody is there, and a zone gets free only by its own session going.    *)
(***************************************************************************)
CONSTANTS
  Names,      \* zone names
  Sessions    \* those who enter them

VARIABLES
  known,      \* the zones that exist
  held        \* the pairs <<session, zone>> of a session and the zone it is in

leaseVars == <<known, held>>

LeaseInit == held = {}

Free(z) == \A t \in Sessions : <<t, z>> \notin held

Outside(s) == \A y \in Names : <<s, y>> \notin held

Create(z) ==
  /\ known' = known \cup {z}
  /\ UNCHANGED held

Acquire(s, z) ==
  /\ z \in known /\ Free(z) /\ Outside(s)
  /\ held' = held \cup {<<s, z>>}
  /\ UNCHANGED known

Release(s, z) ==
  /\ <<s, z>> \in held
  /\ held' = held \ {<<s, z>>}
  /\ UNCHANGED known

LeaseNext ==
  \/ \E z \in Names : Create(z)
  \/ \E s \in Sessions, z \in Names : Acquire(s, z) \/ Release(s, z)

LeaseSpec == LeaseInit /\ [][LeaseNext]_leaseVars
=============================================================================
