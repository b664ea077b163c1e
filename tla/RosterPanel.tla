---------------------------- MODULE RosterPanel ----------------------------
(***************************************************************************)
(* The list of peers of the desktop window (apps/wx/roster_panel.cpp) and  *)
(* what the window does with a file that is dropped on one of its rows     *)
(* (MainFrame::OnSendRequested, TransferOrchestrator::send_to_peer).       *)
(*                                                                         *)
(* The window hands every snapshot of the orchestrator to UpdateRoster.    *)
(* Rows are widgets: they are rebuilt only when the signature of the list  *)
(* changes, never while one of them has its file dialog open, and in       *)
(* between only refreshed.  A row keeps the name it was built with, in its *)
(* drop target and for its Choose button.  Snapshots arrive late, so the   *)
(* orchestrator's state at the moment of a drop is any state.              *)
(***************************************************************************)
EXTENDS Integers, Sequences

CONSTANTS
    LegCount,       \* kFabricLegCount; the legs of the fabric are 0 .. LegCount - 1
    Name,           \* display names of stations
    Rosters,        \* rosters (sequences of peers) the orchestrator may publish
    Ports,          \* local legs it may publish; -1 without a cable
    Self,           \* display name of this station
    NoName,         \* the empty name
    StaleClicks     \* TRUE: a row may be clicked before the first snapshot that
                    \* follows a file dialog has brought the rows up to date

PeerEntry == [name : Name, leg : Int, online : BOOLEAN]

ASSUME PanelAssumption == /\ LegCount \in Nat \ {0} /\ Ports \subseteq Int
                          /\ NoName \notin Name /\ Rosters \subseteq Seq(PeerEntry)
                          /\ StaleClicks \in BOOLEAN

VARIABLES
    view,           \* what the last UpdateRoster was given: peers_, fabric_connected_, ...
    layout_key,     \* layout_key_: connected, local leg and signature of the rows
    rows,           \* peer_rows_ and drop_zones_
    selected_peer,  \* RosterPanel::selected_peer_
    frame_peer,     \* MainFrame::selected_peer_
    dialog,         \* the row whose file dialog is open (file_dialog_open_), 0 if none
    counting,       \* countdown_timer_ runs
    drop            \* the last files dropped or chosen and what became of them

panel_vars == <<view, layout_key, rows, selected_peer, frame_peer, dialog, counting, drop>>
selections == <<selected_peer, frame_peer>>

Views == [peers : Rosters, fabric_connected : BOOLEAN, port_index : Ports, transfer_busy : BOOLEAN]
\* What an orchestrator knows; alive is false after Disconnect.
Truths == [peers : Rosters, fabric_connected : BOOLEAN, busy : BOOLEAN, alive : BOOLEAN]

NoDrop == [row |-> 0, leg |-> 0, to |-> -1, fair |-> FALSE]

-----------------------------------------------------------------------------
(* The rows a view calls for.                                              *)

\* remote_fabric_legs: the legs in order, without one's own
RemoteLegs(mine) ==
    IF mine \in 0 .. LegCount - 1
    THEN [i \in 1 .. LegCount - 1 |-> IF i <= mine THEN i - 1 ELSE i]
    ELSE [i \in 1 .. LegCount |-> i - 1]

\* Where a search that ends at the first match stops, and the rows that match.
First(matches) == CHOOSE i \in matches : \A j \in matches : i <= j
OfLeg(peers, leg) ==
    {i \in DOMAIN peers : peers[i].online /\ peers[i].leg = leg /\ peers[i].name # Self}

\* roster_slots, and their signature: leg and name of each
SlotOf(peers, leg) ==
    LET here == OfLeg(peers, leg)
    IN  [leg |-> leg, name |-> IF here = {} THEN NoName ELSE peers[First(here)].name]
Slots(v) ==
    IF v.fabric_connected /\ v.port_index >= 0
    THEN [i \in DOMAIN RemoteLegs(v.port_index) |-> SlotOf(v.peers, RemoteLegs(v.port_index)[i])]
    ELSE << >>

LegsOnlyKey(v) == [connected |-> v.fabric_connected, leg |-> v.port_index,
                   signature |-> [i \in DOMAIN Slots(v) |-> Slots(v)[i].leg]]
KeyOf(v) == [connected |-> v.fabric_connected, leg |-> v.port_index, signature |-> Slots(v)]

\* PeerDropZonePanel: SetOffline and SetTransferState.  No drop target while the
\* row is offline or a transfer runs.
Zone(slot, active) ==
    LET offline == slot.name = NoName
    IN  [leg |-> slot.leg, name |-> slot.name, busy |-> active /\ ~offline,
         target |-> IF offline \/ active THEN NoName ELSE slot.name]

Online(v) == {i \in DOMAIN Slots(v) : Slots(v)[i].name # NoName}

\* RebuildList keeps a selection that is still listed, or takes the first peer.
KeepsSelection(v, sel) == sel
Reselected(v, sel) ==
    IF \E i \in Online(v) : Slots(v)[i].name = sel THEN sel
    ELSE IF Online(v) = {} THEN NoName ELSE Slots(v)[First(Online(v))].name

\* RebuildList with v as the panel's members and sel selected; it also tells
\* the window the selection.
Rebuild(v, sel) ==
    /\ rows' = [i \in DOMAIN Slots(v) |-> Zone(Slots(v)[i], v.transfer_busy)]
    /\ selected_peer' = Reselected(v, sel)
    /\ frame_peer' = selected_peer'
    /\ counting' = (Slots(v) # << >>)

\* RefreshCountdowns: SetTransferState on every row there is.
Refresh(v) == rows' = [i \in DOMAIN rows |-> Zone(rows[i], v.transfer_busy)]

Start == [peers |-> << >>, fabric_connected |-> FALSE, port_index |-> 0, transfer_busy |-> FALSE]

PanelInit == /\ view = Start
             /\ layout_key = KeyOf([Start EXCEPT !.port_index = 0])
             /\ rows = << >> /\ selected_peer = NoName /\ frame_peer = NoName
             /\ dialog = 0 /\ counting = FALSE /\ drop = NoDrop

-----------------------------------------------------------------------------
(* Snapshots and the timer.                                                *)

UpdatesUnderDialog(v) ==
    /\ view' = v
    /\ IF KeyOf(v) # layout_key
       THEN layout_key' = KeyOf(v) /\ Rebuild(v, selected_peer)
       ELSE Refresh(v) /\ UNCHANGED <<layout_key, selections, counting>>
    /\ UNCHANGED <<dialog, drop>>

UpdateRoster(v) ==
    /\ view' = v
    /\ IF dialog # 0 THEN UNCHANGED <<layout_key, rows, selections, counting>>
       ELSE IF KeyOf(v) # layout_key
       THEN layout_key' = KeyOf(v) /\ Rebuild(v, selected_peer)
       ELSE Refresh(v) /\ UNCHANGED <<layout_key, selections, counting>>
    /\ UNCHANGED <<dialog, drop>>

OnCountdownTimer ==
    /\ counting /\ dialog = 0
    /\ Refresh(view)
    /\ UNCHANGED <<view, layout_key, selections, dialog, counting, drop>>

-----------------------------------------------------------------------------
(* The user.  A file dialog is modal: it is the only way on while it is    *)
(* open, except for files dragged in from another program.                 *)

\* SelectPeer, from a click on row i.  It rebuilds the rows and leaves the
\* layout key as it is.
OnPeerRowClicked(i) ==
    /\ dialog = 0 /\ i \in DOMAIN rows /\ rows[i].name # NoName
    /\ rows[i].name # selected_peer
    /\ StaleClicks \/ KeyOf(view) = layout_key
    /\ Rebuild(view, rows[i].name)
    /\ UNCHANGED <<view, layout_key, dialog, drop>>

OnChooseFile(i) ==
    /\ dialog = 0 /\ i \in DOMAIN rows /\ rows[i].name # NoName /\ ~rows[i].busy
    /\ dialog' = i
    /\ UNCHANGED <<view, layout_key, rows, selections, counting, drop>>

CancelDialog ==
    /\ dialog # 0 /\ dialog' = 0
    /\ UNCHANGED <<view, layout_key, rows, selections, counting, drop>>

\* PeerRoster::find_by_name: the first row of the name, online or not
FindByName(peers, name) == {i \in DOMAIN peers : peers[i].name = name}

\* OnSendRequested and send_to_peer pass: the leg the name is found on, else -1.
SentTo(name, t) ==
    LET found == FindByName(t.peers, name)
    IN  IF /\ t.alive /\ ~t.busy /\ t.fabric_connected
           /\ found # {} /\ \A i \in found : t.peers[i].online
        THEN t.peers[First(found)].leg ELSE -1

\* The rows show the orchestrator's roster, and its names are unambiguous.
FairDrop(t) ==
    /\ t.alive /\ ~t.busy /\ t.fabric_connected /\ t.peers = view.peers
    /\ KeyOf(view) = layout_key
    /\ \A i, j \in DOMAIN t.peers : t.peers[i].name = t.peers[j].name => i = j

SelectionOnly(i, name, t) ==
    IF view.transfer_busy \/ name = NoName
    THEN drop' = NoDrop /\ UNCHANGED selections
    ELSE /\ selected_peer' = name /\ UNCHANGED frame_peer
         /\ drop' = [row |-> i, leg |-> rows[i].leg,
                     to |-> SentTo(frame_peer, t), fair |-> FairDrop(t)]

\* DropFilesOnPeer; name is the one the row's drop target or button kept.
DropFilesOnPeer(i, name, t) ==
    IF view.transfer_busy \/ name = NoName
    THEN drop' = NoDrop /\ UNCHANGED selections
    ELSE /\ selected_peer' = name /\ frame_peer' = name
         /\ drop' = [row |-> i, leg |-> rows[i].leg,
                     to |-> SentTo(name, t), fair |-> FairDrop(t)]

FilesChosen(t) ==
    /\ dialog # 0 /\ dialog' = 0
    /\ DropFilesOnPeer(dialog, rows[dialog].name, t)
    /\ UNCHANGED <<view, layout_key, rows, counting>>

OnDropFiles(i, t) ==
    /\ i \in DOMAIN rows /\ rows[i].target # NoName
    /\ DropFilesOnPeer(i, rows[i].target, t)
    /\ UNCHANGED <<view, layout_key, rows, dialog, counting>>

-----------------------------------------------------------------------------
Row == 1 .. LegCount

PanelNext == \/ \E v \in Views : UpdateRoster(v)
             \/ OnCountdownTimer
             \/ \E i \in Row : OnPeerRowClicked(i) \/ OnChooseFile(i)
             \/ CancelDialog
             \/ \E t \in Truths : FilesChosen(t) \/ \E i \in Row : OnDropFiles(i, t)

PanelSpec == PanelInit /\ [][PanelNext]_panel_vars

-----------------------------------------------------------------------------
(* Properties.                                                             *)

\* The types of the panel's members; the selection of the panel is that of the
\* window and is a peer on screen, and there is one if a peer is on screen.
PanelTypeOK ==
    /\ view \in [peers : Rosters \cup {<< >>}, fabric_connected : BOOLEAN,
                 port_index : Ports \cup {0}, transfer_busy : BOOLEAN]
    /\ Len(rows) \in {0, LegCount - 1, LegCount} /\ dialog \in 0 .. Len(rows)
    /\ \A i \in DOMAIN rows : /\ rows[i].name \in Name \cup {NoName}
                             /\ rows[i].target \in {NoName, rows[i].name}
    /\ selected_peer = frame_peer
    /\ selected_peer \in {rows[i].name : i \in DOMAIN rows} \cup {NoName}
    /\ selected_peer = NoName => \A i \in DOMAIN rows : rows[i].name = NoName

\* The signature decides rightly when the rows can stay: after every UpdateRoster
\* that is not put off by a file dialog, each row shows, and its drop target
\* takes files for, the peer the roster now has on that leg, and nothing can be
\* dropped on it while a transfer runs.
RowsFollowRoster ==
    [][dialog = 0 /\ view' # view =>
          rows' = [i \in DOMAIN Slots(view') |-> Zone(Slots(view')[i], view'.transfer_busy)]]_panel_vars

\* PeerDropZonePanel::OnChooseFile goes on after its modal file dialog with its
\* own members: as long as the dialog is open no event may rebuild the rows,
\* which would delete the panel it runs in.
ZoneOutlivesItsDialog == [][dialog # 0 => rows' = rows]_panel_vars

\* Peers are addressed by name from the row to the offer.  If the names in the
\* roster are unambiguous and the rows are up to date, a file dropped on a row
\* is sent, and to the station on the leg of that row.
FileGoesToRow == drop.fair => drop.to = drop.leg
=============================================================================
