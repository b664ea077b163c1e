---------------------------- MODULE MCPeerRoster ----------------------------
(***************************************************************************)
(* The roster on a fabric of three legs, with two stations of one name and *)
(* different instance ids, and an older station without one.               *)
(***************************************************************************)
EXTENDS PeerRoster

RosterArrivals ==
    {[name |-> "Sally", instance |-> "phone"],
     [name |-> "Sally", instance |-> "laptop"],
     [name |-> "Desk", instance |-> NoInstance]}

\* "Desk" is configured on the leg of this station, where it is never heard.
RosterConfigured == {[name |-> "Sally", port |-> 1], [name |-> "Desk", port |-> 2]}
=============================================================================
