--------------------------- MODULE MCRosterPanel ---------------------------
(***************************************************************************)
(* Four legs, this station on leg 0 or, before it has read its serial, on  *)
(* leg 1 or without one.  The rosters hold a station that changes legs,    *)
(* two that change places, two of one name, one that bears the name of     *)
(* this station, and a configured row that is offline.                     *)
(***************************************************************************)
EXTENDS RosterPanel

LegIndexes == {-1, 0, 1}

Peer(name, leg, online) == [name |-> name, leg |-> leg, online |-> online]

SomeRosters ==
    { << >>,
      <<Peer("Bob", 1, TRUE)>>,
      <<Peer("Bob", 2, TRUE), Peer("Sue", 3, TRUE)>>,
      <<Peer("Sue", 2, TRUE), Peer("Bob", 3, TRUE)>>,
      <<Peer("Bob", 2, TRUE), Peer("Bob", 3, TRUE)>>,
      <<Peer("Bob", 1, FALSE), Peer("Bob", 2, TRUE)>>,
      <<Peer("Me", 1, TRUE), Peer("Sue", 3, FALSE)>> }
=============================================================================
