----------------------------- MODULE PeerRoster -----------------------------
(***************************************************************************)
(* The roster of one station (lib/session/peer_roster.cpp) as the          *)
(* orchestrator keeps it: announces of the stations on the other legs of   *)
(* the fabric go through handle_announce into touch_peer, tick_presence    *)
(* ages the rows, the settings dialog seeds them again.                    *)
(*                                                                         *)
(* station is what the roster is to reflect: who is plugged into each leg, *)
(* and on which port it believes to be.  A station reads its leg from the  *)
(* serial of its cable, once; if that read fails (no cable yet, or the     *)
(* listener holds the port longer than 200 ms) it takes its libusb index   *)
(* for its leg as long as it runs.  The environment moves, renames,        *)
(* restarts and removes stations.  The vector peers_ is a set here: where  *)
(* the code takes the first row that matches, the model takes any.         *)
(***************************************************************************)
EXTENDS Naturals, FiniteSets

CONSTANTS
    Leg,            \* legs of the fabric, kFabricLegCount of them
    MyLeg,          \* the leg this station is plugged into
    PortIndex,      \* the libusb index of a PC with one cable, read as a leg
    Name,           \* display names
    Instance,       \* instance ids of the announces of current versions
    NoInstance,     \* an announce of an older version carries none
    Absent,         \* nobody is plugged in
    Arrivals,       \* stations that may turn up on a leg: [name, instance]
    Configured,     \* rows of the configuration: [name, port]
    Stale,          \* mark_stale_peers_offline's 45 s, in units of time
    MaxChanges      \* bound: changes of the environment in a behaviour

Identity == [name : Name, instance : Instance \cup {NoInstance}]
Station == [name : Name, instance : Instance \cup {NoInstance}, port : Leg]

ASSUME RosterAssumption ==
    /\ {MyLeg, PortIndex} \subseteq Leg /\ NoInstance \notin Instance /\ Absent \notin Station
    /\ Arrivals \subseteq Identity
    /\ Configured \subseteq [name : Name, port : Leg]
    /\ Stale \in Nat /\ MaxChanges \in Nat

VARIABLES
    peers,      \* PeerRoster::peers_
    leg,        \* cached_fabric_leg_ of this station
    station,    \* who is on each other leg, and the port it announces
    plugged,    \* whether the cable of this station is in
    changes     \* changes of the environment so far

outside == <<leg, station, plugged, changes>>
vars == <<peers, outside>>

OtherLeg == Leg \ {MyLeg}
Row == [name : Name, instance : Instance \cup {NoInstance}, port : Leg,
        online : BOOLEAN, seen : BOOLEAN, age : 0 .. Stale + 1]

\* make_peer_id: the instance id, or else port and name.  Equality of ids.
SameId(p, q) == /\ p.instance = q.instance
                /\ p.instance = NoInstance => p.port = q.port /\ p.name = q.name

SeedsOnline == {[name |-> c.name, instance |-> NoInstance, port |-> c.port,
                 online |-> TRUE, seen |-> FALSE, age |-> 0] : c \in Configured}

\* seed_from_config
Seeds == {[name |-> c.name, instance |-> NoInstance, port |-> c.port,
           online |-> FALSE, seen |-> FALSE, age |-> 0] : c \in Configured}

Init == /\ peers = Seeds
        /\ leg \in {MyLeg, PortIndex}
        /\ station = [l \in OtherLeg |-> Absent]
        /\ plugged = TRUE /\ changes = 0

-----------------------------------------------------------------------------
(* touch_peer.                                                             *)

Announced(name, instance, port) ==
    [name |-> name, instance |-> instance, port |-> port,
     online |-> TRUE, seen |-> TRUE, age |-> 0]

\* One live station per port: every other row of the port goes.
KeepsAll(row) == peers
Kept(row) == {p \in peers : p.port = row.port => SameId(p, row)}

MatchesByName(row) == {p \in Kept(row) : p.name = row.name}

\* The row to update: that of the instance; of the port; of the name.
Matches(row) ==
    LET OfPort == {p \in Kept(row) : p.port = row.port}
        OfName == {p \in Kept(row) : p.name = row.name /\ p.instance = NoInstance}
    IN  IF row.instance # NoInstance
        THEN {p \in Kept(row) : p.instance = row.instance}
        ELSE IF OfPort # {} THEN OfPort ELSE OfName

AppendPeer(row) == peers' = Kept(row) \cup {row}

TouchPeer(row) ==
    \/ Matches(row) = {} /\ AppendPeer(row)
    \/ \E p \in Matches(row) : peers' = (Kept(row) \ {p}) \cup {row}

-----------------------------------------------------------------------------
(* The orchestrator.                                                       *)

\* resolve_remote_fabric_port: what claims this station's own port is an echo.
RemotePort(port) == port # leg

\* handle_announce of the station on leg l.
Hears(l) ==
    /\ plugged /\ l \in OtherLeg /\ station[l] # Absent
    /\ IF RemotePort(station[l].port)
       THEN TouchPeer(Announced(station[l].name, station[l].instance, station[l].port))
       ELSE UNCHANGED peers
    /\ UNCHANGED outside

Offline(p) == [p EXCEPT !.online = FALSE]

NeverStale(p) == ~p.seen

\* mark_stale_peers_offline
IsStale(p) == ~p.seen \/ p.age > Stale
MarkedStale == {IF IsStale(p) THEN Offline(p) ELSE p : p \in peers}

\* tick_presence, of which the presence thread does one per second.
Tick ==
    /\ peers' = IF plugged THEN MarkedStale ELSE {Offline(p) : p \in peers}
    /\ UNCHANGED outside

Older(p) == IF p.seen /\ p.age <= Stale THEN [p EXCEPT !.age = @ + 1] ELSE p
Elapse ==
    /\ peers' = {Older(p) : p \in peers}
    /\ UNCHANGED outside

\* set_identity seeds the roster again and drops what it had heard.
SetIdentity ==
    /\ peers' = Seeds
    /\ UNCHANGED outside

-----------------------------------------------------------------------------
(* The stations of the fabric.                                             *)

\* No two stations share an instance id; stations without one differ in name.
Distinct(fabric) ==
    \A l, m \in OtherLeg : l # m /\ fabric[l] # Absent /\ fabric[m] # Absent =>
        /\ fabric[l].instance = fabric[m].instance => fabric[l].instance = NoInstance
        /\ fabric[l].instance = NoInstance /\ fabric[m].instance = NoInstance =>
              fabric[l].name # fabric[m].name

Becomes(fabric) ==
    /\ changes < MaxChanges /\ changes' = changes + 1
    /\ station' = fabric /\ Distinct(fabric)
    /\ UNCHANGED <<peers, plugged, leg>>

On(a, port) == [name |-> a.name, instance |-> a.instance, port |-> port]

\* A station is plugged into a free leg, or restarts there under another id.
Arrives(l, a) ==
    \E port \in {l, PortIndex} :
        station[l] # On(a, port) /\ Becomes([station EXCEPT ![l] = On(a, port)])
Leaves(l) == station[l] # Absent /\ Becomes([station EXCEPT ![l] = Absent])
\* A moved station goes on announcing the port it knows, unless it is restarted.
Moves(l, m) ==
    /\ station[l] # Absent /\ l # m
    /\ \E port \in {station[l].port, m} :
          Becomes([station EXCEPT ![m] = On(station[l], port), ![l] = station[m]])
Renames(l, name) ==
    /\ station[l] # Absent /\ station[l].name # name
    /\ Becomes([station EXCEPT ![l].name = name])

MyCable ==
    /\ changes < MaxChanges /\ changes' = changes + 1
    /\ plugged' = ~plugged
    /\ UNCHANGED <<peers, station, leg>>

Environment ==
    \/ \E l \in OtherLeg : \/ \E a \in Arrivals : Arrives(l, a)
                            \/ Leaves(l)
                            \/ \E m \in OtherLeg : Moves(l, m)
                            \/ \E name \in Name : Renames(l, name)
    \/ MyCable

Next == \/ Environment \/ Elapse \/ Tick \/ SetIdentity
        \/ \E l \in OtherLeg : Hears(l)

\* Time passes and the presence thread goes on ticking.  Nothing is assumed of
\* the announces: the fabric does not buffer, any of them may be lost.
Spec == Init /\ [][Next]_vars /\ WF_vars(Tick) /\ WF_vars(Elapse)

-----------------------------------------------------------------------------
(* Properties.                                                             *)

\* Every row has its type, and a row that was only configured is never online.
TypeOK ==
    /\ peers \subseteq Row /\ leg \in Leg /\ plugged \in BOOLEAN /\ changes \in 0..MaxChanges
    /\ station \in [OtherLeg -> {Absent} \cup Station]
    /\ \A p \in peers : p.online => p.seen

\* "One live peer per USB port": whatever stations move, restart, rename, are of
\* an older version or wrong about their own leg, two rows that are online never
\* share a port, so a file dropped on a port's row goes to one station.
OnePeerPerPort ==
    \A p, q \in peers : p.online /\ q.online /\ p.port = q.port => p = q

\* find_by_id is unambiguous: no two rows have the same id.
UniqueIds == \A p, q \in peers : SameId(p, q) => p = q

\* The roster at any time: types, and rows that are told apart by port and by id.
\* Neither half of the latter holds without the other, because touch_peer keeps the
\* rows of a port that have the id announced there.
RosterOK == TypeOK /\ UniqueIds /\ OnePeerPerPort

\* Row p names a station that announces p's port.
Right(p) == \E l \in OtherLeg : station[l] = On(p, p.port)
Listed(l) == station[l] # Absent /\ \E p \in peers : p.online /\ station[l] = On(p, p.port)

\* protocols/session.md: "instance_id distinguishes multiple apps on different
\* legs with the same display name" -- a station that is heard is listed, and
\* takes no row from a rightly listed station that announces another port.
HearingListsAll ==
    [][\A l \in OtherLeg : Hears(l) =>
          /\ station[l].port # leg => Listed(l)'
          /\ \A m \in OtherLeg :
                Listed(m) /\ station[m].port # station[l].port => Listed(m)']_vars

\* Once the stations stay put, a station that has left, moved or changed its
\* name does not stay online in the roster, even if no announce gets through.
NoGhosts == <>[](\A p \in peers : p.online => plugged /\ Right(p))
=============================================================================
