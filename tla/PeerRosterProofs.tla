-------------------------- MODULE PeerRosterProofs --------------------------
(***************************************************************************)
(* Proofs about the roster, for every number of legs, every configuration  *)
(* and every population of stations: rows are well formed, ids are unique  *)
(* and at most one row of a port is online.                                *)
(***************************************************************************)
EXTENDS PeerRoster, TLAPS

\* What touch_peer and the ageing preserve together: OnePeerPerPort needs
\* UniqueIds, for touch_peer keeps the rows of the port that have the new id.
RowsInv == UniqueIds /\ OnePeerPerPort
RosterInv == TypeOK /\ RowsInv

-----------------------------------------------------------------------------
\* Ageing and marking change neither id nor port, and switch no row on.
LEMMA RowsMapped ==
    ASSUME RosterInv, NEW f \in [peers -> Row],
           \A p \in peers : /\ f[p].name = p.name /\ f[p].instance = p.instance
                            /\ f[p].port = p.port
                            /\ f[p].online => p.online /\ f[p].seen,
           peers' = {f[p] : p \in peers},
           UNCHANGED outside
    PROVE  RosterInv'
<1> USE DEF RosterInv, RowsInv
<1>1. TypeOK'  BY DEF TypeOK, outside
<1>2. UniqueIds'
  <2>1. SUFFICES ASSUME NEW p \in peers, NEW q \in peers, SameId(f[p], f[q])
                 PROVE  f[p] = f[q]
    BY DEF UniqueIds
  <2>2. SameId(p, q)  BY <2>1 DEF SameId
  <2> QED  BY <2>2 DEF UniqueIds
<1>3. OnePeerPerPort'  BY DEF OnePeerPerPort
<1> QED  BY <1>1, <1>2, <1>3

\* Of the rows touch_peer keeps on the port, the one with the new id is the row
\* it updates: no other row is left there.
LEMMA PortIsCleared ==
    ASSUME RosterInv, NEW row \in Row, NEW p \in Kept(row), p.port = row.port
    PROVE  p \in Matches(row) /\ \A q \in Kept(row) : q.port = row.port => q = p
<1> USE DEF RosterInv, RowsInv
<1>1. p \in peers /\ SameId(p, row)  BY DEF Kept
<1>2. p \in Matches(row)  BY <1>1 DEF Matches, SameId
<1>3. ASSUME NEW q \in Kept(row), q.port = row.port PROVE q = p
  <2>1. q \in peers /\ SameId(q, row)  BY <1>3 DEF Kept
  <2>2. SameId(q, p)  BY <1>1, <2>1 DEF SameId
  <2> QED  BY <1>1, <2>1, <2>2 DEF UniqueIds
<1> QED  BY <1>2, <1>3

\* A row of the same id as the new one is the row that is updated.
LEMMA IdIsReplaced ==
    ASSUME RosterInv, NEW row \in Row, NEW p \in Kept(row), SameId(p, row)
    PROVE  p \in Matches(row)
<1>1. p \in peers  BY DEF Kept
<1>2. CASE row.instance # NoInstance  BY <1>2 DEF SameId, Matches
<1>3. CASE row.instance = NoInstance
  <2>1. p.port = row.port  BY <1>3 DEF SameId
  <2> QED  BY <2>1, PortIsCleared
<1> QED  BY <1>2, <1>3

\* All matches are the same row, unless the row is found by its name, which
\* happens only when no row of its port is left.
LEMMA OneMatch ==
    ASSUME RosterInv, NEW row \in Row, NEW p \in Matches(row), NEW q \in Kept(row),
           SameId(q, row) \/ q.port = row.port
    PROVE  q = p
<1>1. p \in peers /\ q \in peers /\ p \in Kept(row)  BY DEF Matches, Kept
<1>2. q \in Matches(row)  BY IdIsReplaced, PortIsCleared
<1>3. CASE row.instance # NoInstance
  <2>1. SameId(p, q)  BY <1>2, <1>3 DEF Matches, SameId
  <2> QED  BY <1>1, <2>1 DEF RosterInv, RowsInv, UniqueIds
<1>4. CASE row.instance = NoInstance
  <2>1. q.port = row.port  BY <1>4 DEF SameId
  <2>2. p.port = row.port  BY <1>4, <2>1 DEF Matches
  <2> QED  BY <1>1, <2>1, <2>2, PortIsCleared
<1> QED  BY <1>3, <1>4

LEMMA TouchKeepsRows ==
    ASSUME RosterInv, NEW row \in Row, row.online, row.seen,
           TouchPeer(row), UNCHANGED outside
    PROVE  RosterInv'
<1>1. PICK gone \in SUBSET Matches(row) :
         /\ peers' = (Kept(row) \ gone) \cup {row}
         /\ \A q \in Kept(row) \ gone : ~SameId(q, row) /\ q.port # row.port
  <2>1. CASE Matches(row) = {} /\ AppendPeer(row)
    <3>1. \A q \in Kept(row) : ~SameId(q, row) /\ q.port # row.port
      BY <2>1, IdIsReplaced, PortIsCleared
    <3> WITNESS {} \in SUBSET Matches(row)
    <3> QED  BY <2>1, <3>1 DEF AppendPeer
  <2>2. ASSUME NEW p \in Matches(row), peers' = (Kept(row) \ {p}) \cup {row}
        PROVE  \E gone \in SUBSET Matches(row) :
                  /\ peers' = (Kept(row) \ gone) \cup {row}
                  /\ \A q \in Kept(row) \ gone : ~SameId(q, row) /\ q.port # row.port
    <3>1. \A q \in Kept(row) \ {p} : ~SameId(q, row) /\ q.port # row.port
      BY OneMatch
    <3> WITNESS {p} \in SUBSET Matches(row)
    <3> QED  BY <2>2, <3>1
  <2> QED  BY <2>1, <2>2 DEF TouchPeer
<1>2. \A q \in peers' : q = row \/ (q \in peers /\ ~SameId(q, row) /\ q.port # row.port)
  <2>1. Kept(row) \subseteq peers  BY DEF Kept
  <2>2. ASSUME NEW q \in peers', q # row
        PROVE  q \in peers /\ ~SameId(q, row) /\ q.port # row.port
    <3>1. q \in Kept(row) \ gone  BY <1>1, <2>2
    <3> QED  BY <1>1, <2>1, <3>1
  <2> QED  BY <2>2
<1> USE DEF RosterInv, RowsInv
<1>3. TypeOK'  BY <1>2 DEF TypeOK, outside
<1>4. UniqueIds'
  <2>1. \A q \in peers : SameId(row, q) => SameId(q, row)  BY DEF SameId
  <2> QED  BY <1>2, <2>1 DEF UniqueIds
<1>5. OnePeerPerPort'  BY <1>2 DEF OnePeerPerPort
<1> QED  BY <1>3, <1>4, <1>5

-----------------------------------------------------------------------------
LEMMA SeedsAreRows ==
    /\ Seeds \subseteq Row
    /\ \A p \in Seeds : ~p.online
    /\ \A p, q \in Seeds : SameId(p, q) => p = q
<1> DEFINE seed(c) == [name |-> c.name, instance |-> NoInstance, port |-> c.port,
                       online |-> FALSE, seen |-> FALSE, age |-> 0]
<1>1. Seeds \subseteq Row /\ \A p \in Seeds : ~p.online
  <2>1. ASSUME NEW c \in Configured PROVE seed(c) \in Row /\ ~seed(c).online
    <3>1. c.name \in Name /\ c.port \in Leg /\ 0 \in 0 .. Stale + 1
      BY RosterAssumption
    <3> QED  BY <3>1 DEF Row
  <2>2. Seeds = {seed(c) : c \in Configured}  BY DEF Seeds
  <2> HIDE DEF seed
  <2> QED  BY <2>1, <2>2
<1>2. ASSUME NEW c \in Configured, NEW d \in Configured, c.name = d.name, c.port = d.port
      PROVE  c = d
  BY <1>2, RosterAssumption
<1>3. \A p, q \in Seeds : SameId(p, q) => p = q
  <2>1. ASSUME NEW c \in Configured, NEW d \in Configured, SameId(seed(c), seed(d))
        PROVE  seed(c) = seed(d)
    BY <1>2, <2>1 DEF SameId
  <2>2. Seeds = {seed(c) : c \in Configured}  BY DEF Seeds
  <2> HIDE DEF seed
  <2> QED  BY <2>1, <2>2
<1> QED  BY <1>1, <1>3

LEMMA RosterStart == Init => RosterInv
<1> SUFFICES ASSUME Init PROVE RosterInv  OBVIOUS
<1>1. station \in [OtherLeg -> {Absent} \cup Station]
  BY DEF Init
<1>2. TypeOK  BY <1>1, SeedsAreRows, RosterAssumption DEF Init, TypeOK
<1>3. RowsInv
  BY SeedsAreRows DEF Init, RowsInv, UniqueIds, OnePeerPerPort
<1> QED  BY <1>2, <1>3 DEF RosterInv

\* An announce that moves no row and the changes around the station keep RosterInv.
LEMMA SameRows ==
    ASSUME RosterInv, peers' = peers, leg' = leg, plugged' \in BOOLEAN,
           changes' \in 0..MaxChanges, station' \in [OtherLeg -> {Absent} \cup Station]
    PROVE  RosterInv'
  BY DEF RosterInv, RowsInv, TypeOK, UniqueIds, OnePeerPerPort

LEMMA HearsKeepsRows ==
    ASSUME RosterInv, NEW l \in OtherLeg, Hears(l)
    PROVE  RosterInv'
<1> DEFINE row == Announced(station[l].name, station[l].instance, station[l].port)
<1>1. station[l] \in Station
  BY DEF RosterInv, TypeOK, Hears
<1>2. row \in Row /\ row.online /\ row.seen
  <2>1. 0 \in 0 .. Stale + 1
    BY RosterAssumption
  <2> QED  BY <1>1, <2>1 DEF Announced, Row, Station
<1>3. CASE TouchPeer(row) /\ UNCHANGED outside
  <2> HIDE DEF row
  <2> QED  BY <1>2, <1>3, TouchKeepsRows
<1>4. CASE peers' = peers /\ UNCHANGED outside
  BY <1>4, SameRows DEF outside, RosterInv, TypeOK
<1> QED  BY <1>3, <1>4 DEF Hears

LEMMA TickKeepsRows == ASSUME RosterInv, Tick PROVE RosterInv'
<1> DEFINE f == [p \in peers |-> IF plugged /\ ~IsStale(p) THEN p ELSE Offline(p)]
<1>1. peers' = {f[p] : p \in peers} /\ UNCHANGED outside
  BY DEF Tick, MarkedStale
<1>2. peers \subseteq Row /\ \A p \in peers : p.online => p.seen  BY DEF RosterInv, TypeOK
<1>3. f \in [peers -> Row]  BY <1>2 DEF Offline, Row
<1>4. \A p \in peers : /\ f[p].name = p.name /\ f[p].instance = p.instance
                       /\ f[p].port = p.port
                       /\ f[p].online => p.online /\ f[p].seen
  BY <1>2 DEF Offline, Row
<1> HIDE DEF f
<1> QED  BY <1>1, <1>3, <1>4, RowsMapped

LEMMA ElapseKeepsRows == ASSUME RosterInv, Elapse PROVE RosterInv'
<1> DEFINE f == [p \in peers |-> Older(p)]
<1>1. peers' = {f[p] : p \in peers} /\ UNCHANGED outside
  BY DEF Elapse
<1>2. peers \subseteq Row /\ \A p \in peers : p.online => p.seen  BY DEF RosterInv, TypeOK
<1>3. \A p \in Row : /\ Older(p) \in Row
                     /\ Older(p).name = p.name /\ Older(p).instance = p.instance
                     /\ Older(p).port = p.port
                     /\ Older(p).online = p.online /\ Older(p).seen = p.seen
  BY RosterAssumption DEF Older, Row
<1>4. f \in [peers -> Row]  BY <1>2, <1>3
<1>5. \A p \in peers : /\ f[p].name = p.name /\ f[p].instance = p.instance
                       /\ f[p].port = p.port
                       /\ f[p].online => p.online /\ f[p].seen
  BY <1>2, <1>3
<1> HIDE DEF f
<1> QED  BY <1>1, <1>4, <1>5, RowsMapped

LEMMA EnvironmentKeepsRows == ASSUME RosterInv, Environment PROVE RosterInv'
<1> DEFINE Fabric == [OtherLeg -> {Absent} \cup Station]
<1>1. ASSUME NEW fabric \in Fabric, Becomes(fabric) PROVE RosterInv'
  BY <1>1, SameRows, RosterAssumption DEF Becomes, RosterInv, TypeOK
<1>2. station \in Fabric  BY DEF RosterInv, TypeOK
<1>3. ASSUME NEW l \in OtherLeg, NEW a \in Arrivals, Arrives(l, a) PROVE RosterInv'
  <2>1. PICK port \in {l, PortIndex} : Becomes([station EXCEPT ![l] = On(a, port)])
    BY <1>3 DEF Arrives
  <2>2. On(a, port) \in Station
    BY RosterAssumption DEF On, Station, Identity, OtherLeg
  <2>3. [station EXCEPT ![l] = On(a, port)] \in Fabric  BY <1>2, <2>2
  <2> QED  BY <1>1, <2>1, <2>3
<1>4. ASSUME NEW l \in OtherLeg, Leaves(l) PROVE RosterInv'
  <2>1. [station EXCEPT ![l] = Absent] \in Fabric  BY <1>2
  <2> QED  BY <1>1, <1>4, <2>1 DEF Leaves
<1>5. ASSUME NEW l \in OtherLeg, NEW m \in OtherLeg, Moves(l, m) PROVE RosterInv'
  <2>1. PICK port \in {station[l].port, m} :
          Becomes([station EXCEPT ![m] = On(station[l], port), ![l] = station[m]])
    BY <1>5 DEF Moves
  <2>2. station[l] \in Station  BY <1>2, <1>5 DEF Moves
  <2>3. On(station[l], port) \in Station
    BY <2>2 DEF On, Station, OtherLeg
  <2>4. [station EXCEPT ![m] = On(station[l], port), ![l] = station[m]] \in Fabric
    BY <1>2, <2>3
  <2> QED  BY <1>1, <2>1, <2>4
<1>6. ASSUME NEW l \in OtherLeg, NEW name \in Name, Renames(l, name) PROVE RosterInv'
  <2>1. station[l] \in Station
    BY <1>2, <1>6 DEF Renames
  <2>2. [station[l] EXCEPT !.name = name] \in Station  BY <2>1 DEF Station
  <2>3. [station EXCEPT ![l].name = name] \in Fabric  BY <1>2, <2>2
  <2> QED  BY <1>1, <1>6, <2>3 DEF Renames
<1>7. CASE MyCable
  BY <1>7, SameRows, RosterAssumption DEF MyCable, RosterInv, TypeOK
<1> QED  BY <1>3, <1>4, <1>5, <1>6, <1>7 DEF Environment

LEMMA RosterStep == RosterInv /\ [Next]_vars => RosterInv'
<1> SUFFICES ASSUME RosterInv, [Next]_vars PROVE RosterInv'  OBVIOUS
<1>1. CASE Environment  BY <1>1, EnvironmentKeepsRows
<1>2. CASE Elapse  BY <1>2, ElapseKeepsRows
<1>3. CASE Tick  BY <1>3, TickKeepsRows
<1>4. CASE SetIdentity
  BY <1>4, SeedsAreRows
  DEF SetIdentity, outside, RosterInv, TypeOK, RowsInv, UniqueIds, OnePeerPerPort
<1>5. ASSUME NEW l \in OtherLeg, Hears(l) PROVE RosterInv'  BY <1>5, HearsKeepsRows
<1>6. CASE UNCHANGED vars
  BY <1>6, SameRows DEF vars, outside, RosterInv, TypeOK
<1> QED  BY <1>1, <1>2, <1>3, <1>4, <1>5, <1>6 DEF Next

\* Whatever stations move, restart or rename themselves, and whichever announces are
\* lost: every row, seed and station has its type, two rows that are online never share
\* a port, and a peer id names one row, so that what the user picks is what is found
\* again.
THEOREM RosterAlwaysOK == Spec => []RosterOK
<1>1. RosterInv => RosterOK  BY DEF RosterInv, RowsInv, RosterOK
<1> QED  BY <1>1, RosterStart, RosterStep, PTL DEF Spec

-----------------------------------------------------------------------------
\* Stations keep different ids, whoever moves, restarts or renames itself.
LEMMA FabricStaysDistinct == Distinct(station) /\ [Next]_vars => Distinct(station)'
<1> SUFFICES ASSUME Distinct(station), [Next]_vars PROVE Distinct(station')
  BY DEF Distinct
<1>1. CASE station' = station  BY <1>1
<1>2. CASE \E fabric : Becomes(fabric)  BY <1>2 DEF Becomes
<1>3. CASE Environment
  BY <1>1, <1>2, <1>3 DEF Environment, Arrives, Leaves, Moves, Renames, MyCable
<1>4. CASE Elapse \/ Tick \/ SetIdentity \/ \E l \in OtherLeg : Hears(l)
  BY <1>1, <1>4 DEF Elapse, Tick, SetIdentity, Hears, outside
<1>5. CASE UNCHANGED vars  BY <1>1, <1>5 DEF vars, outside
<1> QED  BY <1>3, <1>4, <1>5 DEF Next

\* An announce touches no row of a station that differs in id and port.
LEMMA OthersAreKept ==
    ASSUME NEW row \in Row, TouchPeer(row), NEW p \in peers, p.port # row.port,
           p.instance = row.instance => p.instance = NoInstance /\ p.name # row.name
    PROVE  p \in peers'
<1>1. p \in Kept(row)  BY DEF Kept
<1>2. p \notin Matches(row)
  <2>1. CASE row.instance # NoInstance  BY <2>1 DEF Matches
  <2>2. CASE row.instance = NoInstance  BY <2>2 DEF Matches
  <2> QED  BY <2>1, <2>2
<1> QED  BY <1>1, <1>2 DEF TouchPeer, AppendPeer

\* handle_announce, for every fabric: a station that is heard on another port than
\* this station's is listed at that port, and no station that is listed at a third
\* port loses its row to it, be it of the same display name.
THEOREM HeardStationsAreListed == Spec => HearingListsAll
<1> DEFINE Lists == \A l \in OtherLeg : Hears(l) =>
                       /\ station[l].port # leg => Listed(l)'
                       /\ \A m \in OtherLeg :
                             Listed(m) /\ station[m].port # station[l].port => Listed(m)'
<1>1. Init => Distinct(station)
  BY DEF Init, Distinct
<1>2. ASSUME RosterInv, Distinct(station), [Next]_vars PROVE Lists
  <2> SUFFICES ASSUME NEW l \in OtherLeg, Hears(l)
               PROVE  /\ station[l].port # leg => Listed(l)'
                      /\ \A m \in OtherLeg :
                            Listed(m) /\ station[m].port # station[l].port => Listed(m)'
    OBVIOUS
  <2> DEFINE row == Announced(station[l].name, station[l].instance, station[l].port)
  <2>1. station[l] \in Station /\ station[l] # Absent /\ station' = station
    BY <1>2 DEF RosterInv, TypeOK, Hears, outside
  <2>2. /\ row \in Row /\ row.online /\ station[l] = On(row, row.port)
        /\ row.name = station[l].name /\ row.instance = station[l].instance
        /\ row.port = station[l].port
    <3>1. 0 \in 0 .. Stale + 1  BY RosterAssumption
    <3> QED  BY <2>1, <3>1 DEF Announced, Row, Station, On
  <2>3. CASE RemotePort(station[l].port) /\ TouchPeer(row)
    <3> HIDE DEF row
    <3>1. row \in peers'
      BY <2>3 DEF TouchPeer, AppendPeer
    <3>2. Listed(l)'
      BY <2>1, <2>2, <3>1 DEF Listed
    <3>3. ASSUME NEW m \in OtherLeg, Listed(m), station[m].port # station[l].port
          PROVE  Listed(m)'
      <4>1. PICK p \in peers : p.online /\ station[m] = On(p, p.port)
        BY <3>3 DEF Listed
      <4>2. /\ station[m].name = p.name /\ station[m].instance = p.instance
            /\ station[m].port = p.port /\ station[m] # Absent /\ l # m
        BY <3>3, <4>1 DEF On, Listed
      <4>3. p.instance = row.instance => p.instance = NoInstance /\ p.name # row.name
        BY <1>2, <2>1, <2>2, <4>2 DEF Distinct
      <4>4. p \in peers'
        BY <2>2, <2>3, <3>3, <4>2, <4>3, OthersAreKept
      <4> QED  BY <2>1, <4>1, <4>2, <4>4 DEF Listed
    <3> QED  BY <3>2, <3>3
  <2>4. CASE ~RemotePort(station[l].port) /\ peers' = peers
    BY <2>1, <2>4 DEF Listed, RemotePort
  <2> QED  BY <2>3, <2>4 DEF Hears
<1>3. RosterInv /\ Distinct(station) /\ [Next]_vars => [Lists]_vars
  BY <1>2
<1> QED  BY <1>1, <1>3, RosterStart, RosterStep, FabricStaysDistinct, PTL DEF Spec, HearingListsAll
=============================================================================
