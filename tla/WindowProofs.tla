---------------------------- MODULE WindowProofs ----------------------------
(***************************************************************************)
(* Theorems about the desktop window.                                      *)
(*                                                                         *)
(* The list of peers (RosterPanel), for every number of legs and every set *)
(* of rosters: types and selection; an open file dialog keeps its row;     *)
(* and, unless a row is clicked before the rows have caught up with a file *)
(* dialog, the rows follow the roster and a file goes to the station of    *)
(* the row it is dropped on.                                               *)
(*                                                                         *)
(* The window with its dialogs (Desktop), for any number of offers, queued *)
(* snapshots and events, and any time to answer: types; and                *)
(* once closed the window asks and answers nothing.                        *)
(***************************************************************************)
EXTENDS RosterPanel, Desktop, SequenceTheorems, WellFoundedInduction, TLAPS

\* A search through a sequence stops at the first match, if there is one.
LEMMA FirstMatches ==
    ASSUME NEW T \in SUBSET Nat, T # {}
    PROVE  First(T) \in T /\ \A j \in T : First(T) <= j
<1> DEFINE R == OpToRel(<, Nat)
<1>1. IsWellFoundedOn(R, Nat)  BY NatLessThanWellFounded
<1>2. R = {ss \in Nat \X Nat : ss[1] < ss[2]}  BY DEF OpToRel
<1>3. \A x, y \in Nat : x < y => <<x, y>> \in R  BY <1>2
<1> HIDE DEF R
<1>4. PICK x \in T : \A y \in T : ~ (<<y, x>> \in R)  BY <1>1, WFMin
<1>5. ASSUME NEW y \in T PROVE x <= y
  <2>1. x \in Nat /\ y \in Nat  OBVIOUS
  <2>2. ~(y < x)  BY <1>3, <1>4, <2>1
  <2> QED  BY <2>1, <2>2
<1> QED  BY <1>5 DEF First

-----------------------------------------------------------------------------
\* The rows carry the legs and names of the signature they were built for.
Shown == [i \in DOMAIN rows |-> [leg |-> rows[i].leg, name |-> rows[i].name]]

ViewOK(v) == v \in [peers : Rosters \cup {<< >>}, fabric_connected : BOOLEAN,
                    port_index : Ports \cup {0}, transfer_busy : BOOLEAN]
Slot == [leg : Int, name : Name \cup {NoName}]
DropZone == [leg : Int, name : Name \cup {NoName}, busy : BOOLEAN, target : Name \cup {NoName}]

\* The type invariant, with what a row is made of.
RowsOK == /\ rows \in Seq(DropZone) /\ Len(rows) \in {0, LegCount - 1, LegCount}
          /\ \A i \in DOMAIN rows : rows[i].target \in {NoName, rows[i].name}
SelectionOK ==
    /\ selected_peer = frame_peer
    /\ selected_peer = NoName \/ \E i \in DOMAIN rows : selected_peer = rows[i].name
    /\ selected_peer = NoName => \A i \in DOMAIN rows : rows[i].name = NoName
PanelInv == ViewOK(view) /\ RowsOK /\ SelectionOK /\ dialog \in 0 .. Len(rows)

LEMMA PanelTypes == PanelInv => PanelTypeOK
<1> SUFFICES ASSUME PanelInv PROVE PanelTypeOK  OBVIOUS
<1>1. \A i \in DOMAIN rows : rows[i] \in DropZone
  BY DEF PanelInv, RowsOK
<1>2. \A i \in DOMAIN rows : rows[i].name \in Name \cup {NoName}
  BY <1>1 DEF DropZone
<1> QED  BY <1>2 DEF PanelInv, ViewOK, RowsOK, SelectionOK, PanelTypeOK

\* The legs other than one's own, numbered from 1.
LEMMA RemoteLegsFunction ==
    ASSUME NEW mine \in Int
    PROVE  \E k \in {LegCount - 1, LegCount} :
              /\ k \in Nat /\ RemoteLegs(mine) \in [1 .. k -> Int]
<1>1. CASE mine \in 0 .. LegCount - 1
  <2>1. LegCount - 1 \in Nat  BY PanelAssumption
  <2>2. RemoteLegs(mine) \in [1 .. LegCount - 1 -> Int]
    BY <1>1, PanelAssumption DEF RemoteLegs
  <2> QED  BY <2>1, <2>2
<1>2. CASE mine \notin 0 .. LegCount - 1
  BY <1>2, PanelAssumption DEF RemoteLegs
<1> QED  BY <1>1, <1>2

\* A roster is a sequence of peers with names.
LEMMA PeersOK ==
    ASSUME NEW v, ViewOK(v)
    PROVE  /\ v.peers \in Seq(PeerEntry) /\ DOMAIN v.peers \subseteq Nat
           /\ \A i \in DOMAIN v.peers : v.peers[i].name \in Name
<1>1. v.peers \in Rosters \/ v.peers = << >>  BY DEF ViewOK
<1>2. Rosters \subseteq Seq(PeerEntry)  BY PanelAssumption
<1>3. v.peers \in Seq(PeerEntry)
  <2>1. CASE v.peers \in Rosters  BY <1>2, <2>1
  <2>2. CASE v.peers = << >>  BY <2>2
  <2> QED  BY <1>1, <2>1, <2>2
<1>4. v.peers \in [1 .. Len(v.peers) -> PeerEntry] /\ Len(v.peers) \in Nat
  <2> HIDE DEF PeerEntry
  <2> QED  BY <1>3
<1> QED  BY <1>3, <1>4 DEF PeerEntry

\* A slot has the name of a peer of its leg, or none.
LEMMA SlotOfLeg ==
    ASSUME NEW v, ViewOK(v), NEW leg \in Int
    PROVE  /\ SlotOf(v.peers, leg) \in Slot
           /\ SlotOf(v.peers, leg).leg = leg
           /\ SlotOf(v.peers, leg).name # NoName =>
                 \E i \in OfLeg(v.peers, leg) : SlotOf(v.peers, leg).name = v.peers[i].name
<1> DEFINE here == OfLeg(v.peers, leg)
<1>1. here \in SUBSET Nat  BY PeersOK DEF OfLeg
<1>2. CASE here = {}  BY <1>2 DEF SlotOf, Slot
<1>3. CASE here # {}
  <2>1. First(here) \in here  BY <1>1, <1>3, FirstMatches
  <2>2. v.peers[First(here)].name \in Name  BY <2>1, PeersOK DEF OfLeg
  <2>3. SlotOf(v.peers, leg) = [leg |-> leg, name |-> v.peers[First(here)].name]
    BY <1>3 DEF SlotOf
  <2> QED  BY <2>1, <2>2, <2>3 DEF Slot
<1> QED  BY <1>2, <1>3

\* There is a slot for each remote leg, or none at all.
LEMMA SlotsFunction ==
    ASSUME NEW v, ViewOK(v)
    PROVE  \E k \in {0, LegCount - 1, LegCount} :
              /\ k \in Nat
              /\ Slots(v) \in [1 .. k -> Slot]
              /\ \A i \in 1 .. k : Slots(v)[i] = SlotOf(v.peers, Slots(v)[i].leg)
<1>1. v.port_index \in Int
  <2>1. v.port_index \in Ports \/ v.port_index = 0  BY DEF ViewOK
  <2>2. Ports \subseteq Int  BY PanelAssumption
  <2>3. CASE v.port_index \in Ports  BY <2>2, <2>3
  <2>4. CASE v.port_index = 0  BY <2>4
  <2> QED  BY <2>1, <2>3, <2>4
<1>2. CASE v.fabric_connected /\ v.port_index >= 0
  <2> DEFINE L == RemoteLegs(v.port_index)
  <2>1. PICK k \in {LegCount - 1, LegCount} : k \in Nat /\ L \in [1 .. k -> Int]
    BY <1>1, RemoteLegsFunction
  <2> HIDE DEF L
  <2>2. Slots(v) = [i \in 1 .. k |-> SlotOf(v.peers, L[i])]
    BY <1>2, <2>1 DEF Slots, L
  <2>3. \A i \in 1 .. k : L[i] \in Int  BY <2>1
  <2>4. Slots(v) \in [1 .. k -> Slot]
    BY <2>2, <2>3, SlotOfLeg
  <2>5. \A i \in 1 .. k : Slots(v)[i] = SlotOf(v.peers, Slots(v)[i].leg)
    BY <2>2, <2>3, SlotOfLeg
  <2> QED  BY <2>1, <2>4, <2>5
<1>3. CASE ~(v.fabric_connected /\ v.port_index >= 0)
  <2>1. Slots(v) = << >>  BY <1>3 DEF Slots
  <2> QED  BY <2>1
<1> QED  BY <1>2, <1>3

\* A selection is a name on screen; there is one if there is a name on screen.
LEMMA SelectionOnScreen ==
    ASSUME NEW v, ViewOK(v), NEW sel
    PROVE  /\ Reselected(v, sel) = NoName \/ \E i \in DOMAIN Slots(v) : Slots(v)[i].name = Reselected(v, sel)
           /\ Reselected(v, sel) = NoName => \A i \in DOMAIN Slots(v) : Slots(v)[i].name = NoName
<1>1. Online(v) \in SUBSET Nat
  BY SlotsFunction DEF Online
<1>2. Online(v) # {} => First(Online(v)) \in Online(v)  BY <1>1, FirstMatches
<1> QED  BY <1>2 DEF Reselected, Online

\* A row is offered its slot's name or nothing, whatever transfer runs.
LEMMA ZoneOfSlot ==
    ASSUME NEW s, s.leg \in Int, s.name \in Name \cup {NoName}, NEW active \in BOOLEAN
    PROVE  /\ Zone(s, active) \in DropZone
           /\ Zone(s, active).leg = s.leg /\ Zone(s, active).name = s.name
           /\ Zone(s, active).target \in {NoName, s.name}
  BY DEF Zone, DropZone

\* RebuildList leaves rows that show the slots of the view.
LEMMA Rebuilds ==
    ASSUME NEW v, ViewOK(v), NEW sel, Rebuild(v, sel)
    PROVE  RowsOK' /\ SelectionOK' /\ Shown' = Slots(v)
<1>1. PICK k \in {0, LegCount - 1, LegCount} : k \in Nat /\ Slots(v) \in [1 .. k -> Slot]
  BY SlotsFunction
<1>2. \A i \in 1 .. k : Slots(v)[i].leg \in Int /\ Slots(v)[i].name \in Name \cup {NoName}
  BY <1>1 DEF Slot
<1>3. v.transfer_busy \in BOOLEAN  BY DEF ViewOK
<1>4. rows' = [i \in 1 .. k |-> Zone(Slots(v)[i], v.transfer_busy)]
  BY <1>1 DEF Rebuild
<1>5. \A i \in 1 .. k : /\ rows'[i] \in DropZone
                        /\ rows'[i].leg = Slots(v)[i].leg /\ rows'[i].name = Slots(v)[i].name
                        /\ rows'[i].target \in {NoName, rows'[i].name}
  BY <1>2, <1>3, <1>4, ZoneOfSlot
<1>6. rows' \in Seq(DropZone) /\ Len(rows') = k /\ DOMAIN rows' = 1 .. k
  BY <1>1, <1>4, <1>5
<1>7. RowsOK'  BY <1>5, <1>6 DEF RowsOK
<1>8. SelectionOK'
  <2> DEFINE new == Reselected(v, sel)
  <2>1. selected_peer' = new /\ frame_peer' = new  BY DEF Rebuild
  <2>2. /\ new = NoName \/ \E i \in DOMAIN Slots(v) : Slots(v)[i].name = new
        /\ new = NoName => \A i \in DOMAIN Slots(v) : Slots(v)[i].name = NoName
    BY SelectionOnScreen
  <2>3. DOMAIN Slots(v) = DOMAIN rows' /\ DOMAIN rows' = 1 .. k  BY <1>1, <1>6
  <2> HIDE DEF new
  <2> QED  BY <1>5, <2>1, <2>2, <2>3 DEF SelectionOK
<1>9. Shown' = Slots(v)
  <2>1. \A i \in 1 .. k : Slots(v)[i] = [leg |-> rows'[i].leg, name |-> rows'[i].name]
    BY <1>1, <1>5 DEF Slot
  <2>2. Shown' = [i \in 1 .. k |-> [leg |-> rows'[i].leg, name |-> rows'[i].name]]
    BY <1>6 DEF Shown
  <2> QED  BY <1>1, <2>1, <2>2
<1> QED  BY <1>7, <1>8, <1>9

\* RefreshCountdowns leaves legs and names of the rows.
LEMMA Refreshes ==
    ASSUME RowsOK, NEW v, ViewOK(v), Refresh(v)
    PROVE  /\ RowsOK' /\ DOMAIN rows' = DOMAIN rows /\ Len(rows') = Len(rows)
           /\ \A i \in DOMAIN rows : rows'[i].name = rows[i].name /\ rows'[i].leg = rows[i].leg
           /\ Shown' = Shown
<1>1. /\ rows \in [1 .. Len(rows) -> DropZone] /\ Len(rows) \in Nat
      /\ DOMAIN rows = 1 .. Len(rows)
  BY DEF RowsOK
<1>2. \A i \in 1 .. Len(rows) : rows[i].leg \in Int /\ rows[i].name \in Name \cup {NoName}
  BY <1>1 DEF DropZone
<1>3. v.transfer_busy \in BOOLEAN  BY DEF ViewOK
<1>4. rows' = [i \in 1 .. Len(rows) |-> Zone(rows[i], v.transfer_busy)]
  BY <1>1 DEF Refresh
<1>5. \A i \in 1 .. Len(rows) : /\ rows'[i] \in DropZone
                        /\ rows'[i].leg = rows[i].leg /\ rows'[i].name = rows[i].name
                        /\ rows'[i].target \in {NoName, rows'[i].name}
  BY <1>2, <1>3, <1>4, ZoneOfSlot
<1>6. rows' \in Seq(DropZone) /\ Len(rows') = Len(rows) /\ DOMAIN rows' = 1 .. Len(rows)
  BY <1>1, <1>4, <1>5
<1>7. RowsOK'  BY <1>5, <1>6 DEF RowsOK
<1>8. Shown' = Shown  BY <1>1, <1>5, <1>6 DEF Shown
<1> QED  BY <1>1, <1>5, <1>6, <1>7, <1>8

\* A file that goes out selects the row's peer, in the panel and in the window.
LEMMA DropSelects ==
    ASSUME PanelInv, NEW i \in DOMAIN rows, NEW name, name \in {NoName, rows[i].name}, NEW t,
           DropFilesOnPeer(i, name, t), rows' = rows
    PROVE  SelectionOK'
<1>1. SelectionOK  BY DEF PanelInv
<1>2. CASE view.transfer_busy \/ name = NoName
  <2>1. UNCHANGED <<selected_peer, frame_peer>>  BY <1>2 DEF DropFilesOnPeer, selections
  <2> QED  BY <1>1, <2>1 DEF SelectionOK
<1>3. CASE ~(view.transfer_busy \/ name = NoName)
  <2>1. selected_peer' = name /\ frame_peer' = name /\ name = rows[i].name /\ name # NoName
    BY <1>3 DEF DropFilesOnPeer
  <2> QED  BY <2>1 DEF SelectionOK
<1> QED  BY <1>2, <1>3

-----------------------------------------------------------------------------
LEMMA PanelStarts == PanelInit => PanelInv /\ Shown = layout_key.signature
<1> SUFFICES ASSUME PanelInit PROVE PanelInv /\ Shown = layout_key.signature  OBVIOUS
<1>1. ViewOK(view)  BY DEF PanelInit, ViewOK, Start
<1>2. rows = << >>  BY DEF PanelInit
<1>3. RowsOK  BY <1>2 DEF RowsOK
<1>4. SelectionOK /\ dialog \in 0 .. Len(rows)  BY <1>2 DEF PanelInit, SelectionOK
<1>5. layout_key.signature = << >>
  BY DEF PanelInit, KeyOf, Slots, Start
<1>6. Shown = << >>  BY <1>2 DEF Shown
<1> QED  BY <1>1, <1>3, <1>4, <1>5, <1>6 DEF PanelInv

\* Every handler leaves the panel in order; a row that is clicked while the rows are
\* behind the view is the only one after which the key is not the key of the rows.
LEMMA PanelStep ==
    ASSUME PanelInv, [PanelNext]_panel_vars
    PROVE  /\ PanelInv'
           /\ (~StaleClicks /\ Shown = layout_key.signature => (Shown = layout_key.signature)')
<1> DEFINE Keyed == Shown = layout_key.signature
<1>1. CASE UNCHANGED panel_vars
  BY <1>1 DEF panel_vars, selections, PanelInv, ViewOK, RowsOK, SelectionOK, Shown
<1>2. ASSUME NEW v \in Views, UpdateRoster(v) PROVE PanelInv' /\ (Keyed => Keyed')
  <2>1. ViewOK(v)  BY DEF Views, ViewOK
  <2>2. view' = v /\ dialog' = dialog  BY <1>2 DEF UpdateRoster
  <2>3. CASE dialog # 0
    <3>1. UNCHANGED <<layout_key, rows, selections, dialog>>  BY <1>2, <2>3 DEF UpdateRoster
    <3> QED  BY <2>1, <2>2, <3>1 DEF selections, PanelInv, RowsOK, SelectionOK, Shown
  <2>4. CASE dialog = 0 /\ KeyOf(v) # layout_key
    <3>1. layout_key' = KeyOf(v) /\ Rebuild(v, selected_peer)
      BY <1>2, <2>4 DEF UpdateRoster
    <3>2. RowsOK' /\ SelectionOK' /\ Shown' = Slots(v)  BY <2>1, <3>1, Rebuilds
    <3>3. (dialog \in 0 .. Len(rows))'  BY <2>2, <2>4, <3>2 DEF RowsOK
    <3>4. KeyOf(v).signature = Slots(v)  BY DEF KeyOf
    <3>5. ViewOK(view')  BY <2>1, <2>2
    <3> QED  BY <3>1, <3>2, <3>3, <3>4, <3>5 DEF PanelInv, ViewOK
  <2>5. CASE dialog = 0 /\ KeyOf(v) = layout_key
    <3>1. Refresh(v) /\ UNCHANGED <<layout_key, selections>>
      BY <1>2, <2>5 DEF UpdateRoster
    <3>2. /\ RowsOK' /\ DOMAIN rows' = DOMAIN rows /\ Len(rows') = Len(rows)
          /\ \A i \in DOMAIN rows : rows'[i].name = rows[i].name
          /\ Shown' = Shown
      BY <2>1, <3>1, Refreshes DEF PanelInv
    <3>3. SelectionOK'  BY <3>1, <3>2 DEF selections, PanelInv, SelectionOK
    <3>4. ViewOK(view')  BY <2>1, <2>2
    <3> QED  BY <2>2, <3>1, <3>2, <3>3, <3>4 DEF PanelInv, ViewOK
  <2> QED  BY <2>3, <2>4, <2>5
<1>3. CASE OnCountdownTimer
  <2>1. Refresh(view) /\ UNCHANGED <<view, layout_key, selections, dialog>>
    BY <1>3 DEF OnCountdownTimer
  <2>2. /\ RowsOK' /\ DOMAIN rows' = DOMAIN rows /\ Len(rows') = Len(rows)
        /\ \A i \in DOMAIN rows : rows'[i].name = rows[i].name
        /\ Shown' = Shown
    BY <2>1, Refreshes DEF PanelInv
  <2>3. SelectionOK'  BY <2>1, <2>2 DEF selections, PanelInv, SelectionOK
  <2> QED  BY <2>1, <2>2, <2>3 DEF PanelInv, ViewOK
<1>4. ASSUME NEW i \in Row, OnPeerRowClicked(i)
      PROVE  PanelInv' /\ (~StaleClicks /\ Keyed => Keyed')
  <2>1. /\ Rebuild(view, rows[i].name) /\ UNCHANGED <<view, layout_key, dialog>> /\ dialog = 0
        /\ StaleClicks \/ KeyOf(view) = layout_key
    BY <1>4 DEF OnPeerRowClicked
  <2>2. RowsOK' /\ SelectionOK' /\ Shown' = Slots(view)  BY <2>1, Rebuilds DEF PanelInv
  <2>3. (dialog \in 0 .. Len(rows))'  BY <2>1, <2>2 DEF RowsOK
  <2>4. KeyOf(view).signature = Slots(view)  BY DEF KeyOf
  <2> QED  BY <2>1, <2>2, <2>3, <2>4, PanelAssumption DEF PanelInv, ViewOK
<1>5. ASSUME NEW i \in Row, OnChooseFile(i) PROVE PanelInv' /\ (Keyed => Keyed')
  <2>1. i \in DOMAIN rows /\ dialog' = i /\ UNCHANGED <<view, layout_key, rows, selections>>
    BY <1>5 DEF OnChooseFile
  <2>2. i \in 0 .. Len(rows)  BY <2>1 DEF PanelInv, RowsOK
  <2> QED  BY <2>1, <2>2 DEF selections, PanelInv, ViewOK, RowsOK, SelectionOK, Shown
<1>6. CASE CancelDialog
  <2>1. dialog' = 0 /\ UNCHANGED <<view, layout_key, rows, selections>>
    BY <1>6 DEF CancelDialog
  <2>2. 0 \in 0 .. Len(rows)  BY DEF PanelInv, RowsOK
  <2> QED  BY <2>1, <2>2 DEF selections, PanelInv, ViewOK, RowsOK, SelectionOK, Shown
<1>7. ASSUME NEW t \in Truths, FilesChosen(t) PROVE PanelInv' /\ (Keyed => Keyed')
  <2>1. /\ dialog # 0 /\ dialog' = 0 /\ DropFilesOnPeer(dialog, rows[dialog].name, t)
        /\ UNCHANGED <<view, layout_key, rows>>
    BY <1>7 DEF FilesChosen
  <2>2. dialog \in DOMAIN rows /\ 0 \in 0 .. Len(rows)  BY <2>1 DEF PanelInv, RowsOK
  <2>3. SelectionOK'  BY <2>1, <2>2, DropSelects
  <2> QED  BY <2>1, <2>2, <2>3 DEF PanelInv, ViewOK, RowsOK, Shown
<1>8. ASSUME NEW t \in Truths, NEW i \in Row, OnDropFiles(i, t) PROVE PanelInv' /\ (Keyed => Keyed')
  <2>1. /\ i \in DOMAIN rows /\ DropFilesOnPeer(i, rows[i].target, t)
        /\ UNCHANGED <<view, layout_key, rows, dialog>>
    BY <1>8 DEF OnDropFiles
  <2>2. SelectionOK'  BY <2>1, DropSelects DEF PanelInv, RowsOK
  <2> QED  BY <2>1, <2>2 DEF PanelInv, ViewOK, RowsOK, Shown
<1> QED  BY <1>1, <1>2, <1>3, <1>4, <1>5, <1>6, <1>7, <1>8 DEF PanelNext

-----------------------------------------------------------------------------
\* The name of a row leads back to the leg of the row, if no other peer has it.
LEMMA NameLeadsToLeg ==
    ASSUME PanelInv, Shown = layout_key.signature, NEW i \in DOMAIN rows,
           rows[i].name # NoName, NEW t, FairDrop(t)
    PROVE  SentTo(rows[i].name, t) = rows[i].leg
<1> DEFINE name == rows[i].name
           leg == rows[i].leg
           found == FindByName(t.peers, name)
<1>1. ViewOK(view) /\ t.peers = view.peers  BY DEF PanelInv, FairDrop
<1>2. leg \in Int
  <2>1. rows[i] \in DropZone  BY DEF PanelInv, RowsOK
  <2> QED  BY <2>1 DEF DropZone
<1>3. Slots(view) = Shown
  <2>1. layout_key = KeyOf(view)  BY DEF FairDrop
  <2> QED  BY <2>1 DEF KeyOf
<1>4. Slots(view)[i] = [leg |-> leg, name |-> name] /\ i \in DOMAIN Slots(view)
  BY <1>3 DEF Shown
<1>5. SlotOf(view.peers, leg).name = name
  BY <1>1, <1>4, SlotsFunction
<1>6. PICK j \in OfLeg(view.peers, leg) : name = view.peers[j].name
  BY <1>1, <1>2, <1>5, SlotOfLeg
<1>7. j \in DOMAIN t.peers /\ t.peers[j].online /\ t.peers[j].leg = leg /\ t.peers[j].name = name
  BY <1>1, <1>6 DEF OfLeg
<1>8. \A k, l \in DOMAIN t.peers : t.peers[k].name = t.peers[l].name => k = l
  BY DEF FairDrop
<1>9. found = {j}  BY <1>7, <1>8 DEF FindByName
<1>10. First(found) = j
  <2>1. found \in SUBSET Nat /\ found # {}  BY <1>1, <1>7, <1>9, PeersOK
  <2> HIDE DEF found
  <2> QED  BY <1>9, <2>1, FirstMatches
<1> QED  BY <1>7, <1>9, <1>10 DEF SentTo, FairDrop

\* So does a file that is dropped on the row.
LEMMA DropGoesToRow ==
    ASSUME PanelInv, Shown = layout_key.signature, FileGoesToRow, NEW i \in DOMAIN rows,
           NEW name, name \in {NoName, rows[i].name}, NEW t, DropFilesOnPeer(i, name, t)
    PROVE  FileGoesToRow'
<1>1. CASE view.transfer_busy \/ name = NoName
  BY <1>1 DEF DropFilesOnPeer, NoDrop, FileGoesToRow
<1>2. CASE ~(view.transfer_busy \/ name = NoName)
  <2>1. drop' = [row |-> i, leg |-> rows[i].leg, to |-> SentTo(rows[i].name, t), fair |-> FairDrop(t)]
    BY <1>2 DEF DropFilesOnPeer
  <2>2. FairDrop(t) => SentTo(rows[i].name, t) = rows[i].leg  BY <1>2, NameLeadsToLeg
  <2>3. drop'.fair = FairDrop(t) /\ drop'.to = SentTo(rows[i].name, t) /\ drop'.leg = rows[i].leg
    BY <2>1
  <2> QED  BY <2>2, <2>3 DEF FileGoesToRow
<1> QED  BY <1>1, <1>2

LEMMA FileGoesToRowNext ==
    ASSUME PanelInv, Shown = layout_key.signature, FileGoesToRow, [PanelNext]_panel_vars
    PROVE  FileGoesToRow'
<1>1. CASE drop' = drop  BY <1>1 DEF FileGoesToRow
<1>2. ASSUME NEW t \in Truths, FilesChosen(t) PROVE FileGoesToRow'
  <2>1. dialog \in DOMAIN rows  BY <1>2 DEF FilesChosen, PanelInv, RowsOK
  <2> QED  BY <1>2, <2>1, DropGoesToRow DEF FilesChosen
<1>3. ASSUME NEW t \in Truths, NEW i \in Row, OnDropFiles(i, t) PROVE FileGoesToRow'
  <2>1. rows[i].target \in {NoName, rows[i].name}  BY <1>3 DEF OnDropFiles, PanelInv, RowsOK
  <2> QED  BY <1>3, <2>1, DropGoesToRow DEF OnDropFiles
<1> QED
  BY <1>1, <1>2, <1>3 DEF PanelNext, panel_vars, UpdateRoster, OnCountdownTimer, OnPeerRowClicked,
     OnChooseFile,
                          CancelDialog

\* A row that is left in place shows what a rebuilt one would show.
LEMMA RowsFollow ==
    ASSUME PanelInv, Shown = layout_key.signature, [PanelNext]_panel_vars, dialog = 0, view' # view
    PROVE  rows' = [i \in DOMAIN Slots(view') |-> Zone(Slots(view')[i], view'.transfer_busy)]
<1>1. PICK v \in Views : UpdateRoster(v)
  BY DEF PanelNext, panel_vars, OnCountdownTimer, OnPeerRowClicked, OnChooseFile, CancelDialog, FilesChosen,
         OnDropFiles
<1>2. view' = v  BY <1>1 DEF UpdateRoster
<1>3. CASE KeyOf(v) # layout_key  BY <1>1, <1>2, <1>3 DEF UpdateRoster, Rebuild
<1>4. CASE KeyOf(v) = layout_key
  <2>1. Slots(v) = Shown  BY <1>4 DEF KeyOf
  <2>2. \A i \in DOMAIN rows : Slots(v)[i].leg = rows[i].leg /\ Slots(v)[i].name = rows[i].name
    BY <2>1 DEF Shown
  <2>3. DOMAIN Slots(v) = DOMAIN rows  BY <2>1 DEF Shown
  <2>4. rows' = [i \in DOMAIN rows |-> Zone(rows[i], v.transfer_busy)]
    BY <1>1, <1>4 DEF UpdateRoster, Refresh
  <2>5. \A i \in DOMAIN rows : Zone(rows[i], v.transfer_busy) = Zone(Slots(v)[i], v.transfer_busy)
    BY <2>2 DEF Zone
  <2> QED  BY <1>2, <2>3, <2>4, <2>5
<1> QED  BY <1>3, <1>4

-----------------------------------------------------------------------------
\* The members of the panel keep their types, and the selection of the panel is
\* that of the window and a peer on screen, whatever snapshots, clicks and drops
\* come in whatever order.
THEOREM PanelTypeCorrect == PanelSpec => []PanelTypeOK
<1>1. PanelInv /\ [PanelNext]_panel_vars => PanelInv'  BY PanelStep
<1>2. PanelInit => PanelInv  BY PanelStarts
<1> QED  BY <1>1, <1>2, PanelTypes, PTL DEF PanelSpec

\* While a file dialog is open no event rebuilds or refreshes the rows, so the
\* panel the dialog was opened from lives on.
THEOREM DialogKeepsItsRow == PanelSpec => ZoneOutlivesItsDialog
<1>1. [PanelNext]_panel_vars => (dialog # 0 => rows' = rows)
  BY DEF PanelNext, panel_vars, UpdateRoster, OnCountdownTimer, OnPeerRowClicked, OnChooseFile,
         CancelDialog, FilesChosen, OnDropFiles
<1>2. [PanelNext]_panel_vars => [dialog # 0 => rows' = rows]_panel_vars  BY <1>1
<1> QED  BY <1>2, PTL DEF PanelSpec, ZoneOutlivesItsDialog

\* If no row is clicked before the rows have caught up with a file dialog, each
\* row shows, and takes files for, the peer the roster has on its leg.
THEOREM RowsShowTheRoster == ASSUME ~StaleClicks PROVE PanelSpec => RowsFollowRoster
<1> DEFINE Keyed == Shown = layout_key.signature
           Follows == dialog = 0 /\ view' # view =>
                         rows' = [i \in DOMAIN Slots(view') |->
                                    Zone(Slots(view')[i], view'.transfer_busy)]
<1>1. PanelInit => PanelInv /\ Keyed  BY PanelStarts
<1>2. PanelInv /\ Keyed /\ [PanelNext]_panel_vars => PanelInv' /\ Keyed'  BY PanelStep
<1>3. PanelInv /\ Keyed /\ [PanelNext]_panel_vars => [Follows]_panel_vars  BY RowsFollow
<1> QED  BY <1>1, <1>2, <1>3, PTL DEF PanelSpec, RowsFollowRoster

\* On the same condition, a file dropped on a row is sent to the station on the
\* leg of that row, if the names of the roster are unambiguous.
THEOREM FileReachesItsRow == ASSUME ~StaleClicks PROVE PanelSpec => []FileGoesToRow
<1> DEFINE Keyed == Shown = layout_key.signature
<1>1. PanelInit => PanelInv /\ Keyed /\ FileGoesToRow
  <2>1. PanelInit => FileGoesToRow  BY DEF PanelInit, NoDrop, FileGoesToRow
  <2> QED  BY <2>1, PanelStarts
<1>2. PanelInv /\ Keyed /\ FileGoesToRow /\ [PanelNext]_panel_vars => (PanelInv /\ Keyed /\ FileGoesToRow)'
  BY PanelStep, FileGoesToRowNext
<1> QED  BY <1>1, <1>2, PTL DEF PanelSpec

-----------------------------------------------------------------------------
(* The window with its dialogs.                                            *)

ModalDialog == [kind : {"incoming", "settings", "picker", "message"},
                offer : Offers \cup {NoOffer}, secs : 1 .. DialogSecs, decided : BOOLEAN]

\* Settings, the list of cables and the message box are opened by the window itself, so
\* that only the outermost dialog can be one of them.
StackOK(st) == /\ st \in Seq(ModalDialog)
               /\ \A i \in DOMAIN st : st[i].kind # "incoming" => i = 1

OrchestratorOK == /\ alive \in BOOLEAN /\ orch \in State /\ accepting \in BOOLEAN
                  /\ orch.waiting => orch.busy
PostsOK == queue \in Seq(State) /\ held \in State \cup {None}
ShownOK(u) == /\ \E s \in State : u = [View(s) EXCEPT !.button = u.button]
              /\ u.button \in {"connect", "disconnect"}
OffersOK == /\ StackOK(stack)
            /\ shown_offer \in Offers \cup {NoOffer} /\ prompted \subseteq Offers
FrameOK == /\ closed \in BOOLEAN /\ signalled \in BOOLEAN
           /\ events \in 0 .. MaxEvents /\ resets \in 0 .. events
\* An orchestrator behind a closed window has no dialog that could answer for it.
Silent == closed /\ alive => stack = << >>

WindowInv == /\ OrchestratorOK /\ PostsOK /\ ShownOK(ui) /\ OffersOK /\ FrameOK /\ Silent

LEMMA InvTypes == WindowInv => TypeOK
<1> SUFFICES ASSUME WindowInv PROVE TypeOK  OBVIOUS
<1>1. resets \in 0 .. MaxEvents  BY DesktopAssumption DEF WindowInv, FrameOK
<1>2. \A i \in DOMAIN stack : stack[i] \in ModalDialog
  BY ElementOfSeq DEF WindowInv, OffersOK, StackOK
<1> QED
  BY <1>1, <1>2 DEF WindowInv, OrchestratorOK, PostsOK, ShownOK, OffersOK, FrameOK, ModalDialog,
     TypeOK

LEMMA IdleOK == Idle \in State /\ ~Idle.waiting /\ ShownOK(View(Idle))
<1>1. Idle \in State /\ ~Idle.waiting  BY DEF Idle, State
<1> QED  BY <1>1 DEF ShownOK, View, Button

LEMMA ViewShown == \A s \in State : ShownOK(View(s))
  BY DEF ShownOK, View, Button

-----------------------------------------------------------------------------
(* The stack of dialogs.                                                   *)

LEMMA NoDialogs == StackOK(<< >>)
  BY EmptySeq DEF StackOK

\* A dialog returns, and only the top one does.
LEMMA Returned ==
    ASSUME StackOK(stack), stack # << >>
    PROVE  /\ Len(stack) \in Nat \ {0} /\ Top \in ModalDialog /\ StackOK(Below)
           /\ Top.kind # "incoming" => Below = << >>
<1>1. stack \in Seq(ModalDialog) /\ Len(stack) \in Nat \ {0} /\ DOMAIN stack = 1 .. Len(stack)
  BY LenProperties, EmptySeq DEF StackOK
<1>2. Top \in ModalDialog  BY <1>1, ElementOfSeq DEF Top
<1>3. /\ Below \in Seq(ModalDialog) /\ Len(Below) = Len(stack) - 1
      /\ \A i \in 1 .. Len(stack) - 1 : Below[i] = stack[i]
  BY <1>1, SubSeqProperties DEF Below
<1>4. DOMAIN Below = 1 .. Len(stack) - 1  BY <1>3, LenProperties
<1>5. ASSUME Top.kind # "incoming" PROVE Below = << >>
  <2>1. Len(stack) = 1  BY <1>1, <1>5 DEF StackOK, Top
  <2> QED  BY <1>3, <2>1, EmptySeq
<1> QED  BY <1>1, <1>2, <1>3, <1>4, <1>5 DEF StackOK

LEMMA Asked ==
    ASSUME NEW st, StackOK(st), NEW o \in Offers \cup {NoOffer}
    PROVE  StackOK(Append(st, Dialog("incoming", o)))
<1>1. Dialog("incoming", o) \in ModalDialog /\ Dialog("incoming", o).kind = "incoming"
  BY DesktopAssumption DEF Dialog, ModalDialog
<1> DEFINE new == Append(st, Dialog("incoming", o))
<1>2. /\ new \in Seq(ModalDialog) /\ Len(new) = Len(st) + 1 /\ new[Len(st) + 1] = Dialog("incoming", o)
      /\ \A i \in 1 .. Len(st) : new[i] = st[i]
  BY <1>1, AppendProperties DEF StackOK
<1>3. DOMAIN st = 1 .. Len(st) /\ DOMAIN new = 1 .. Len(st) + 1 /\ Len(st) \in Nat
  BY <1>2, LenProperties DEF StackOK
<1>4. ASSUME NEW i \in DOMAIN new, new[i].kind # "incoming" PROVE i = 1
  <2>1. i # Len(st) + 1  BY <1>1, <1>2, <1>4
  <2>2. i \in DOMAIN st  BY <1>3, <2>1
  <2> QED  BY <1>2, <1>3, <1>4, <2>2 DEF StackOK
<1> QED  BY <1>2, <1>4 DEF StackOK

LEMMA OpensFirst ==
    ASSUME NEW kind \in {"settings", "picker", "message"}
    PROVE  StackOK(Append(<< >>, Dialog(kind, NoOffer)))
<1>1. Dialog(kind, NoOffer) \in ModalDialog
  BY DesktopAssumption DEF Dialog, ModalDialog
<1> DEFINE new == Append(<< >>, Dialog(kind, NoOffer))
<1>2. new \in Seq(ModalDialog) /\ Len(new) = 1
  BY <1>1, AppendProperties, EmptySeq
<1>3. DOMAIN new = 1 .. 1  BY <1>2, LenProperties
<1> QED  BY <1>2, <1>3 DEF StackOK

\* A dialog that counts down or has its answer stays where it is.
LEMMA Changed ==
    ASSUME StackOK(stack), NEW i \in DOMAIN stack, NEW d \in ModalDialog, d.kind = stack[i].kind
    PROVE  StackOK([stack EXCEPT ![i] = d])
<1>1. stack \in Seq(ModalDialog) /\ i \in 1 .. Len(stack)
  BY LenProperties DEF StackOK
<1>2. [stack EXCEPT ![i] = d] \in Seq(ModalDialog)
      /\ DOMAIN [stack EXCEPT ![i] = d] = DOMAIN stack
  BY <1>1, ExceptSeq
<1> QED  BY <1>2 DEF StackOK

-----------------------------------------------------------------------------
(* What a step leaves of it.                                               *)

\* A snapshot is applied: it is shown, and the offer in it may open a dialog.
LEMMA ShowsOffer ==
    ASSUME NEW s \in State, NEW st, StackOK(st), OffersOK, MaybeShow(s, st)
    PROVE  /\ OffersOK' /\ (Asks(s) \/ stack' = st)
<1>1. CASE Asks(s)
  <2>1. s.pending \in Offers  BY <1>1 DEF State, Asks
  <2>2. StackOK(stack')  BY <1>1, <2>1, Asked DEF MaybeShow
  <2>3. shown_offer' = s.pending /\ prompted' = prompted \cup {s.pending}
    BY <1>1 DEF MaybeShow
  <2> QED  BY <1>1, <2>1, <2>2, <2>3 DEF OffersOK, StackOK
<1>2. CASE ~Asks(s)
  <2>1. stack' = st /\ UNCHANGED <<shown_offer, prompted>>  BY <1>2 DEF MaybeShow
  <2> QED  BY <2>1 DEF OffersOK, StackOK
<1> QED  BY <1>1, <1>2

LEMMA AppliesOK ==
    ASSUME WindowInv, NEW s \in State, NEW st, StackOK(st), Apply(s, st)
    PROVE  OffersOK' /\ ShownOK(ui')
<1>1. OffersOK'  BY ShowsOffer DEF Apply, WindowInv
<1>2. ShownOK(ui')  BY ViewShown DEF Apply, WindowInv
<1> QED  BY <1>1, <1>2

LEMMA OrchestratingKeeps == WindowInv /\ Orchestrating => WindowInv'
<1> SUFFICES ASSUME WindowInv, Orchestrating PROVE WindowInv'  OBVIOUS
<1>1. PICK s : Becomes(s) /\ s \in State /\ (s.waiting => s.busy) /\ accepting' \in BOOLEAN
  <2> USE DEF WindowInv, OrchestratorOK, State
  <2>1. CASE CableChanges  BY <2>1 DEF CableChanges
  <2>2. CASE PayloadBegins  BY <2>2 DEF PayloadBegins
  <2>3. CASE Dismisses  BY <2>3 DEF Dismisses
  <2>4. CASE \E o \in Offers : OfferArrives(o)  BY <2>4 DEF OfferArrives
  <2>5. CASE \E ok \in BOOLEAN : TransferEnds(ok)  BY <2>5 DEF TransferEnds
  <2> QED  BY <2>1, <2>2, <2>3, <2>4, <2>5 DEF Orchestrating
<1>2. /\ orch' = s /\ alive' = alive /\ events' = events + 1 /\ events < MaxEvents
      /\ UNCHANGED <<posts, ui, dialogs, frame>>
  BY <1>1 DEF Becomes, Happens
<1>3. OrchestratorOK'  BY <1>1, <1>2 DEF WindowInv, OrchestratorOK
<1>4. FrameOK'  BY <1>2, DesktopAssumption DEF WindowInv, FrameOK, frame
<1> QED
  BY <1>2, <1>3, <1>4 DEF WindowInv, PostsOK, OffersOK, StackOK, Silent, posts, dialogs, frame,
     ShownOK

LEMMA PostingKeeps ==
    ASSUME WindowInv, Copies \/ Posts \/ Publishes \/ AppliesSnapshot
    PROVE  WindowInv'
<1>1. /\ UNCHANGED <<orchestrator, frame, events>> /\ OrchestratorOK' /\ FrameOK'
  BY DEF Copies, Posts, Publishes, AppliesSnapshot, WindowInv, OrchestratorOK, FrameOK,
     orchestrator, frame
<1>2. /\ orch \in State /\ queue \in Seq(State) /\ held \in State \cup {None}
  BY DEF WindowInv, OrchestratorOK, PostsOK
<1>3. CASE Copies \/ Posts \/ Publishes
  <2>1. PostsOK'
    BY <1>2, <1>3, AppendProperties DEF Copies, Posts, Publishes, PostsOK
  <2>2. UNCHANGED <<ui, dialogs>>  BY <1>3 DEF Copies, Posts, Publishes
  <2> QED
    BY <1>1, <2>1, <2>2 DEF WindowInv, OffersOK, StackOK, ShownOK, Silent, orchestrator, dialogs,
       frame
<1>4. CASE AppliesSnapshot
  <2>1. Head(queue) \in State /\ Tail(queue) \in Seq(State)
    BY <1>2, <1>4, HeadTailProperties DEF AppliesSnapshot
  <2>2. PostsOK'  BY <1>2, <1>4, <2>1 DEF AppliesSnapshot, PostsOK
  <2>3. CASE closed
    <3>1. UNCHANGED <<ui, dialogs>>  BY <1>4, <2>3 DEF AppliesSnapshot, IsBeingDeleted
    <3> QED
      BY <1>1, <2>2, <3>1 DEF WindowInv, OffersOK, StackOK, ShownOK, Silent, orchestrator, dialogs,
         frame
  <2>4. CASE ~closed
    <3>1. Apply(Head(queue), stack)  BY <1>4, <2>4 DEF AppliesSnapshot, IsBeingDeleted
    <3>2. OffersOK' /\ ShownOK(ui')  BY <2>1, <3>1, AppliesOK DEF WindowInv, OffersOK
    <3> QED  BY <1>1, <2>2, <2>4, <3>2 DEF WindowInv, Silent, ShownOK, frame
  <2> QED  BY <2>3, <2>4
<1> QED  BY <1>3, <1>4

\* An answer, a second of the countdown or the return of a dialog.
LEMMA AnsweringKeeps ==
    ASSUME WindowInv, Answering \/ Returns
    PROVE  WindowInv'
<1>1. /\ UNCHANGED <<alive, posts, ui, prompted, frame, events>>
      /\ orch' \in {orch, [orch EXCEPT !.pending = NoOffer]} /\ accepting' \in BOOLEAN
      /\ shown_offer' \in {shown_offer, NoOffer}
  BY DEF Answering, OnAccept, OnReject, CloseBox, OnCountdown, Declines, Returns, WindowInv,
     OrchestratorOK, orchestrator
<1>2. OrchestratorOK'
  BY <1>1 DEF WindowInv, OrchestratorOK, State
<1>3. StackOK(stack) /\ (stack # << >> <=> Len(stack) \in DOMAIN stack)
      /\ \A i \in DOMAIN stack : stack # << >>
  <2>1. DOMAIN stack = 1 .. Len(stack)  BY LenProperties DEF WindowInv, OffersOK, StackOK
  <2>2. stack # << >> => Len(stack) \in Nat \ {0}  BY Returned DEF WindowInv, OffersOK
  <2>3. stack = << >> => Len(stack) = 0  BY EmptySeq
  <2> QED  BY <2>1, <2>2, <2>3 DEF WindowInv, OffersOK
<1>4. StackOK(stack') /\ (stack = << >> => stack' = << >>)
  <2>1. ASSUME NEW i \in DOMAIN stack, stack' = [stack EXCEPT ![i].decided = TRUE]
        PROVE  StackOK(stack') /\ stack # << >>
    <3>1. stack[i] \in ModalDialog  BY <1>3, ElementOfSeq DEF StackOK
    <3>2. [stack[i] EXCEPT !.decided = TRUE] \in ModalDialog
          /\ [stack[i] EXCEPT !.decided = TRUE].kind = stack[i].kind
      BY <3>1 DEF ModalDialog
    <3>3. stack' = [stack EXCEPT ![i] = [stack[i] EXCEPT !.decided = TRUE]]  BY <2>1
    <3>4. StackOK([stack EXCEPT ![i] = [stack[i] EXCEPT !.decided = TRUE]])
      BY <1>3, <3>2, Changed
    <3> QED  BY <1>3, <3>3, <3>4
  <2>2. CASE OnAccept \/ OnReject \/ CloseBox
    <3>1. stack # << >> /\ stack' = [stack EXCEPT ![Len(stack)].decided = TRUE]
      BY <2>2 DEF OnAccept, OnReject, CloseBox, Declines, IsTop
    <3> QED  BY <1>3, <2>1, <3>1
  <2>3. CASE \E i \in 1 .. Len(stack) : OnCountdown(i)
    <3>1. PICK i \in 1 .. Len(stack) : OnCountdown(i)  BY <2>3
    <3>2. i \in DOMAIN stack /\ stack[i] \in ModalDialog
      BY <1>3, <3>1, ElementOfSeq DEF OnCountdown, StackOK
    <3>3. CASE stack[i].secs > 1
      <4>1. stack' = [stack EXCEPT ![i] = [stack[i] EXCEPT !.secs = @ - 1]]
        BY <3>1, <3>3 DEF OnCountdown
      <4>2. [stack[i] EXCEPT !.secs = @ - 1] \in ModalDialog
            /\ [stack[i] EXCEPT !.secs = @ - 1].kind = stack[i].kind
        BY <3>2, <3>3, DesktopAssumption DEF ModalDialog
      <4>3. StackOK([stack EXCEPT ![i] = [stack[i] EXCEPT !.secs = @ - 1]])
        BY <1>3, <3>2, <4>2, Changed
      <4> QED  BY <1>3, <3>2, <4>1, <4>3
    <3>4. CASE ~(stack[i].secs > 1)
      <4>1. stack' = [stack EXCEPT ![i].decided = TRUE]
        BY <3>1, <3>4 DEF OnCountdown, Declines
      <4> QED  BY <2>1, <3>2, <4>1
    <3> QED  BY <3>3, <3>4
  <2>4. CASE Returns
    <3>1. stack # << >> /\ stack' = Below  BY <2>4 DEF Returns
    <3> QED  BY <1>3, <3>1, Returned
  <2> QED  BY <2>2, <2>3, <2>4 DEF Answering
<1>5. OffersOK'  BY <1>1, <1>4 DEF WindowInv, OffersOK, StackOK
<1> QED
  BY <1>1, <1>2, <1>4, <1>5 DEF WindowInv, PostsOK, ShownOK, FrameOK, Silent, posts, frame

\* A dialog is opened or returns, or something is shown: the rest stays.
LEMMA ShowingKeeps ==
    ASSUME WindowInv, UNCHANGED <<orchestrator, posts, frame>>, events' \in 0 .. MaxEvents,
           events' >= events, ShownOK(ui'), OffersOK', closed => ~alive
    PROVE  WindowInv'
<1>1. FrameOK'  BY DEF WindowInv, FrameOK, frame
<1> QED
  BY <1>1 DEF WindowInv, OrchestratorOK, PostsOK, ShownOK, Silent, orchestrator, posts, frame

\* The window itself opens a dialog only if there is none.
LEMMA OpensOK ==
    ASSUME WindowInv, NEW kind \in {"settings", "picker", "message"}, stack = << >>, Opens(kind)
    PROVE  OffersOK'
  BY OpensFirst DEF WindowInv, OffersOK, StackOK, Opens

\* A dialog of the window's own returns: it was the outermost.
LEMMA ReturnsOK ==
    ASSUME WindowInv, NEW kind \in {"settings", "picker", "message"}, IsTop(kind)
    PROVE  Below = << >> /\ StackOK(Below) /\ (closed => ~alive)
  BY Returned DEF WindowInv, OffersOK, IsTop, Silent

LEMMA NoCableOK == WindowInv /\ NoCable => ShownOK(ui')
<1> SUFFICES ASSUME WindowInv, NoCable PROVE ShownOK(ui')  OBVIOUS
<1>1. PICK s \in State : ui = [View(s) EXCEPT !.button = ui.button]
  BY DEF WindowInv, ShownOK
<1>2. ui' = [View(s) EXCEPT !.button = "connect"] /\ ui'.button = "connect"
  BY <1>1 DEF NoCable, View
<1> QED  BY <1>2 DEF ShownOK

\* An orchestrator starts: no dialog is left that could answer for it.
LEMMA StartKeeps ==
    ASSUME WindowInv, StartOrchestrator, events' = events, stack' = << >>,
           UNCHANGED <<shown_offer, prompted>>
    PROVE  WindowInv'
<1>1. OrchestratorOK'  BY IdleOK DEF StartOrchestrator, OrchestratorOK
<1>2. OffersOK'  BY NoDialogs DEF WindowInv, OffersOK, StackOK
<1> QED
  BY <1>1, <1>2 DEF StartOrchestrator, WindowInv, PostsOK, ShownOK, FrameOK, Silent, posts, frame

\* An orchestrator ends; the copy that one of its threads held is queued.
LEMMA DestroyedKeeps ==
    ASSUME WindowInv, Destroyed, ShownOK(ui'), UNCHANGED <<dialogs, signalled, resets>>,
           closed' \in BOOLEAN, events' \in 0 .. MaxEvents, events' >= events
    PROVE  WindowInv'
<1>1. OrchestratorOK'  BY IdleOK DEF Destroyed, OrchestratorOK
<1>2. queue \in Seq(State) /\ held \in State \cup {None}  BY DEF WindowInv, PostsOK
<1>3. PostsOK'  BY <1>2, AppendProperties DEF Destroyed, PostsOK
<1>4. FrameOK'  BY DEF Destroyed, WindowInv, FrameOK
<1>5. OffersOK'  BY DEF WindowInv, OffersOK, StackOK, dialogs
<1> QED  BY <1>1, <1>3, <1>4, <1>5 DEF WindowInv, Destroyed, Silent, ShownOK

LEMMA Counts == WindowInv /\ Happens => events' \in 0 .. MaxEvents /\ events' = events + 1
  BY DesktopAssumption DEF WindowInv, FrameOK, Happens

LEMMA ClickingKeeps == WindowInv /\ Clicking => WindowInv'
<1> SUFFICES ASSUME WindowInv, Clicking PROVE WindowInv'  OBVIOUS
<1>1. /\ events \in 0 .. MaxEvents /\ events >= events /\ events + 1 >= events
      /\ ShownOK(ui) /\ OffersOK /\ orch \in State
  BY DesktopAssumption DEF WindowInv, FrameOK, OrchestratorOK
<1>2. CASE OnSendRequested
  <2>1. Happens /\ ~closed /\ UNCHANGED <<alive, accepting, posts, ui, dialogs, frame>>
        /\ orch' = [orch EXCEPT !.busy = TRUE, !.waiting = TRUE, !.error = FALSE]
    BY <1>2 DEF OnSendRequested, Click
  <2>2. OrchestratorOK'  BY <1>1, <2>1 DEF WindowInv, OrchestratorOK, State
  <2>3. FrameOK'  BY <2>1, Counts DEF WindowInv, FrameOK, frame
  <2> QED
    BY <2>1, <2>2, <2>3 DEF WindowInv, PostsOK, ShownOK, OffersOK, StackOK, Silent, posts,
       dialogs, frame
<1>3. CASE OnSettings
  <2>1. OffersOK'  BY <1>3, OpensOK DEF OnSettings, Click
  <2>2. /\ ~closed /\ events' \in 0 .. MaxEvents /\ events' = events + 1 /\ ui' = ui
        /\ UNCHANGED <<orchestrator, posts, frame>>
    BY <1>3, Counts DEF OnSettings, Click
  <2> QED  BY <1>1, <2>1, <2>2, ShowingKeeps
<1>4. CASE SettingsClosed
  <2>1. StackOK(Below) /\ (closed => ~alive)  BY <1>4, ReturnsOK DEF SettingsClosed
  <2>2. OffersOK' /\ ShownOK(ui')
    <3>1. CASE alive
      BY <1>1, <1>4, <2>1, <3>1, AppliesOK DEF SettingsClosed
    <3>2. CASE ~alive
      BY <1>1, <1>4, <2>1, <3>2 DEF SettingsClosed, OffersOK, StackOK
    <3> QED  BY <3>1, <3>2
  <2>3. UNCHANGED <<orchestrator, posts, frame>> /\ events' = events
    BY <1>4 DEF SettingsClosed
  <2> QED  BY <1>1, <2>1, <2>2, <2>3, ShowingKeeps
<1>5. CASE OnConnectUsb
  <2>1. stack = << >> /\ ~closed /\ events' = events  BY <1>5 DEF OnConnectUsb
  <2>2. CASE StartOrchestrator /\ UNCHANGED dialogs
    BY <2>1, <2>2, StartKeeps DEF dialogs
  <2>3. CASE Opens("picker") /\ UNCHANGED <<orchestrator, posts, ui, frame>>
    <3>1. OffersOK'  BY <2>1, <2>3, OpensOK
    <3> QED  BY <1>1, <2>1, <2>3, <3>1, ShowingKeeps
  <2>4. CASE NoCable /\ UNCHANGED <<posts, dialogs, frame>>
    <3>1. OffersOK' /\ UNCHANGED orchestrator
      BY <1>1, <2>4 DEF OffersOK, StackOK, dialogs, NoCable
    <3> QED  BY <1>1, <2>1, <2>4, <3>1, NoCableOK, ShowingKeeps
  <2> QED  BY <1>5, <2>2, <2>3, <2>4 DEF OnConnectUsb
<1>6. CASE CablePicked
  <2>1. stack' = << >> /\ UNCHANGED <<shown_offer, prompted, events>> /\ StartOrchestrator
    BY <1>6, ReturnsOK DEF CablePicked
  <2> QED  BY <2>1, StartKeeps
<1>7. CASE NonePicked
  <2>1. StackOK(stack') /\ (closed => ~alive)  BY <1>7, ReturnsOK DEF NonePicked
  <2>2. OffersOK'  BY <1>1, <1>7, <2>1 DEF NonePicked, OffersOK, StackOK
  <2>3. UNCHANGED <<orchestrator, posts, frame>> /\ events' = events /\ ShownOK(ui')
    BY <1>7, NoCableOK DEF NonePicked, NoCable
  <2> QED  BY <1>1, <2>1, <2>2, <2>3, ShowingKeeps
<1>8. CASE MessageRead
  <2>1. StackOK(stack') /\ (closed => ~alive)  BY <1>8, ReturnsOK DEF MessageRead
  <2>2. OffersOK'  BY <1>1, <1>8, <2>1 DEF MessageRead, OffersOK, StackOK
  <2>3. UNCHANGED <<orchestrator, posts, frame>> /\ events' = events /\ ui' = ui
    BY <1>8 DEF MessageRead
  <2> QED  BY <1>1, <2>1, <2>2, <2>3, ShowingKeeps
<1>9. CASE OnDisconnectUsb
  <2>1. stack = << >> /\ ~closed /\ events' \in 0 .. MaxEvents /\ events' = events + 1
    BY <1>9, Counts DEF OnDisconnectUsb, Click
  <2>2. CASE orch.busy \/ accepting
    <3>1. Opens("message") /\ UNCHANGED <<orchestrator, posts, ui, frame>>
      BY <1>9, <2>2 DEF OnDisconnectUsb
    <3>2. OffersOK'  BY <2>1, <3>1, OpensOK
    <3> QED  BY <1>1, <2>1, <3>1, <3>2, ShowingKeeps
  <2>3. CASE ~(orch.busy \/ accepting)
    <3>1. Destroyed /\ ui' = View(Idle) /\ UNCHANGED <<dialogs, signalled, closed, resets>>
      BY <1>9, <2>3 DEF OnDisconnectUsb
    <3>2. ShownOK(ui') /\ closed' \in BOOLEAN  BY <3>1, IdleOK DEF WindowInv, FrameOK
    <3> QED  BY <1>1, <2>1, <3>1, <3>2, DestroyedKeeps
  <2> QED  BY <2>2, <2>3
<1>10. CASE OnResetConnection
  <2>1. /\ ~closed /\ resets' = resets + 1 /\ Happens
        /\ UNCHANGED <<orchestrator, posts, ui, dialogs, signalled, closed>>
    BY <1>10 DEF OnResetConnection, Click
  <2>2. FrameOK'  BY <2>1, Counts DEF WindowInv, FrameOK
  <2> QED
    BY <2>1, <2>2 DEF WindowInv, OrchestratorOK, PostsOK, ShownOK, OffersOK, StackOK, Silent,
       orchestrator, posts, dialogs
<1>11. CASE ClosedByUser
  <2>1. /\ Destroyed /\ UNCHANGED <<ui, dialogs, signalled, resets, events>> /\ closed' = TRUE
    BY <1>11 DEF ClosedByUser, OnClose
  <2> QED  BY <1>1, <2>1, DestroyedKeeps
<1> QED
  BY <1>2, <1>3, <1>4, <1>5, <1>6, <1>7, <1>8, <1>9, <1>10, <1>11 DEF Clicking

LEMMA EndingKeeps == WindowInv /\ (Resets \/ Closing) => WindowInv'
<1> SUFFICES ASSUME WindowInv, Resets \/ Closing PROVE WindowInv'  OBVIOUS
<1>1. /\ events \in 0 .. MaxEvents /\ events >= events /\ ShownOK(ui) /\ orch \in State
      /\ closed \in BOOLEAN
  BY DesktopAssumption DEF WindowInv, FrameOK, OrchestratorOK
<1>2. CASE Resets
  <2>1. OrchestratorOK'
    BY <1>1, <1>2, IdleOK DEF Resets, WindowInv, OrchestratorOK, State, Idle
  <2>2. FrameOK'  BY <1>2 DEF Resets, WindowInv, FrameOK
  <2> QED
    BY <1>2, <2>1, <2>2 DEF Resets, WindowInv, PostsOK, ShownOK, OffersOK, StackOK, Silent, posts,
       dialogs
<1>3. CASE Signal
  <2>1. /\ signalled' = TRUE /\ Happens
        /\ UNCHANGED <<orchestrator, posts, ui, dialogs, closed, resets>>
    BY <1>3 DEF Signal
  <2>2. FrameOK'  BY <2>1, Counts DEF WindowInv, FrameOK
  <2> QED
    BY <2>1, <2>2 DEF WindowInv, OrchestratorOK, PostsOK, ShownOK, OffersOK, StackOK, Silent,
       orchestrator, posts, dialogs
<1>4. CASE OnShutdownPollTimer \/ FrameDeleted
  <2>1. /\ Destroyed /\ UNCHANGED <<ui, dialogs, signalled, resets, events>>
        /\ closed' \in BOOLEAN
    BY <1>1, <1>4 DEF OnShutdownPollTimer, OnClose, FrameDeleted
  <2> QED  BY <1>1, <2>1, DestroyedKeeps
<1> QED  BY <1>2, <1>3, <1>4 DEF Closing

LEMMA WindowInit == Init => WindowInv
<1> SUFFICES ASSUME Init PROVE WindowInv  OBVIOUS
<1>1. queue \in Seq(State)  BY EmptySeq DEF Init
<1>2. StackOK(stack)  BY NoDialogs DEF Init
<1>3. ShownOK(ui)  BY IdleOK DEF Init
<1>4. events = 0 /\ 0 \in 0 .. MaxEvents /\ resets \in 0 .. events
  BY DesktopAssumption DEF Init
<1>5. OrchestratorOK  BY IdleOK DEF Init, OrchestratorOK
<1>6. FrameOK  BY <1>4 DEF Init, FrameOK
<1> QED  BY <1>1, <1>2, <1>3, <1>5, <1>6 DEF Init, WindowInv, PostsOK, OffersOK, Silent

LEMMA WindowNext == WindowInv /\ [Next]_vars => WindowInv'
<1> SUFFICES ASSUME WindowInv, [Next]_vars PROVE WindowInv'  OBVIOUS
<1>1. CASE UNCHANGED vars
  BY <1>1 DEF vars, WindowInv, OrchestratorOK, PostsOK, ShownOK, OffersOK, StackOK, FrameOK,
     Silent, orchestrator, posts, dialogs, frame
<1> QED
  BY <1>1, OrchestratingKeeps, PostingKeeps, AnsweringKeeps, ClickingKeeps, EndingKeeps DEF Next

\* Behind a closed window nobody is asked and nobody answers.
LEMMA SilentNext ==
    ASSUME WindowInv, [Next]_vars, closed
    PROVE  UNCHANGED <<prompted, answer>> /\ (Answering => UNCHANGED orchestrator)
<1>1. stack # << >> => ~alive  BY DEF WindowInv, Silent
<1>2. CASE Answering
  <2>1. stack # << >>
    <3>1. \A i \in 1 .. Len(stack) : OnCountdown(i) => stack # << >>
      BY EmptySeq
    <3> QED  BY <1>2, <3>1 DEF Answering, OnAccept, OnReject, CloseBox, IsTop
  <2> QED
    BY <1>1, <1>2, <2>1 DEF Answering, OnAccept, OnReject, CloseBox, OnCountdown, Declines,
       orchestrator
<1>3. CASE Clicking
  <2>1. CASE SettingsClosed
    BY <1>1, <2>1 DEF SettingsClosed, IsTop
  <2>2. ~OnSendRequested /\ ~OnSettings /\ ~OnDisconnectUsb /\ ~OnResetConnection
    BY DEF OnSendRequested, OnSettings, OnDisconnectUsb, OnResetConnection, Click
  <2>3. ~OnConnectUsb /\ ~ClosedByUser  BY DEF OnConnectUsb, ClosedByUser, OnClose
  <2>4. ASSUME CablePicked \/ NonePicked \/ MessageRead PROVE UNCHANGED <<prompted, answer>>
    BY <2>4 DEF CablePicked, NonePicked, MessageRead
  <2> QED  BY <1>2, <1>3, <2>1, <2>2, <2>3, <2>4 DEF Clicking
<1>4. CASE ~Answering /\ ~Clicking
  <2>1. UNCHANGED dialogs \/ Returns
    BY <1>4 DEF Next, vars, Orchestrating, CableChanges, PayloadBegins, Dismisses, OfferArrives,
       TransferEnds, Becomes, Copies, Posts, Publishes, AppliesSnapshot, IsBeingDeleted, Resets,
       Closing, Signal, OnShutdownPollTimer, OnClose, FrameDeleted
  <2> QED  BY <1>4, <2>1 DEF dialogs, Returns
<1> QED  BY <1>2, <1>3, <1>4

\* The members of the window keep their types, however late snapshots come and in
\* whatever order dialogs open and close; what the window shows is a view of some
\* state of the orchestrator, but for the button, which NoCable sets by itself.
THEOREM DesktopTypeOK == Spec => []TypeOK
  BY WindowInit, WindowNext, InvTypes, PTL DEF Spec

\* Once OnClose has run no dialog asks about an offer, although the settings still
\* apply a snapshot when they are closed behind the window, and no dialog that is
\* still open answers, not even for an orchestrator the list of cables has started.
THEOREM DesktopSilent == Spec => ClosedWindowIsSilent
<1>1. WindowInv /\ [Next]_vars =>
        [closed => UNCHANGED <<prompted, answer>> /\ (Answering => UNCHANGED orchestrator)]_vars
  BY SilentNext
<1> QED  BY WindowInit, WindowNext, <1>1, PTL DEF Spec, ClosedWindowIsSilent
=============================================================================
