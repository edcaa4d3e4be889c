-------------------------- MODULE MCHouseholdServer --------------------------
(* A household, whose address is configured in lower case, as in the       *)
(* README, and another one that it nets with.  The readings and the        *)
(* transfers meet only in PUT /sensor-stats, which may start a collection, *)
(* and in a crash, which may end one; NettingSuccessHeard and              *)
(* CollectionFailed do so at any time.  So a run starts either with every  *)
(* reading and an entity that will not net, or with the database ready, no *)
(* reading left, no crash to come and an entity that will.                 *)
EXTENDS HouseholdServer

CONSTANTS lower, mixed, peer, r1, r2

Three == {lower, mixed, peer}
ChecksumOf == [a \in Three |-> IF a = lower THEN mixed ELSE a]
Checksums == {mixed, peer}
OneAgainstTwo == {<<lower, 1>>, <<peer, -2>>}
OwnLower == {lower}
Two == {r1, r2}
ThreeAndOne == r1 :> 3 @@ r2 :> 1
Early == {-1, 0}

Idle == [reports |-> MaxReports, nettings |-> MaxNettings, events |-> MaxEvents,
         restarts |-> MaxNedRestarts, transfers |-> 0]

MCInit ==
  \/ InitWith(Two, Idle, "createDB", 0) /\ skew = 0
  \/ InitWith({}, Nothing, "done", MaxCrashes)

MCSpec == MCInit /\ [][Next]_vars
=============================================================================
