# RocketBox transfer models

TLA+ models of the RocketBox transfer software (`src/`): USB transfer engines, the session
handshake between stations, the threads and the port lock of a station, the peer roster, the desktop
window, and the browser app's own implementation of the handshake. TLC checks them on small
instances; TLAPS proves for every value of the constants that the three transfer engines implement their
contract and the two stations of a native handshake theirs, and the central facts about the loopback
engine's slots, the browser's handshake, the roster, the desktop window with its peer list and the
life of a station.

Two applications speak one protocol over a switch ("the fabric") that joins four host-facing legs
and **does not buffer**: a bulk-OUT transfer completes only if the station on the other leg is
reading at that moment.

* the native application (C++: `core/`, `lib/session/`, `sdks/cpp/`, `apps/wx/`), built on libusb,
  with one orchestrator object shared by four threads;
* the browser application (TypeScript: `apps/web/`, `sdks/typescript/`), built on WebUSB, with one
  thread and many asynchronous tasks.

A transfer is a handshake of small session frames, `offer -> accept -> ready`, then one payload
frame: a 32-byte header and 4 MiB bulk transfers. Lost frames are the normal case, and time-outs,
one retransmission and idempotent handlers must make up for them.

## Inventory

| Component | State it keeps | Operations | Interacts with | What is hard |
|---|---|---|---|---|
| Receive engine, `receive_file_core` (`core/src/usb_transfer_core.cpp:907-1192`) | ring of 34 slots (state, status, actual, real_bytes), counters of submission, accounting and writing, error flags | read header, submit, complete, account, write, cancel, drain, join | libusb call-backs, a writer thread, caller | three actors share the ring through one atomic per slot; short completions; teardown with transfers still pending |
| Send engine, `send_file_core` (`:719-905`) | queue of 32 entries, `active`, sums, error | header, prime, handle events, scan, refill, drain | libusb, file | batches of completions, failures in the middle of a scan, an unlimited drain |
| Loopback engine, `loopback_transfer_core`, `file_cross_connect_core` (`:500-695`) | claimed ports, two slots with `filled`, `usb_done`, eof; `transfer_error` | open, header, reader, transfer and writer threads, compare | two cables, two files | condition variables nobody notifies, a slot reused early, an empty file, a transfer that completes short |
| Native orchestrator (`lib/session/transfer_orchestrator.cpp`) | `busy`, `waiting_for_partner`, `outbound_offer_`, `staged_payload_`, `awaiting_ready_`, `pending_offer`, `accepting_` and `last_completed_inbound_session_id_`, `payload_thread_` | send_to_peer, accept, decline, handlers of the session messages, payloads, tick_presence, reset, stop | listener, transport, roster, UI | a lock held for single steps only, snapshots used after the unlock, one thread object assigned from two threads |
| Session listener (`session_listener.cpp`) | paused, in_receive, tight_poll | start, stop, pause, resume, poll | orchestrator, transport | nested pauses that do not count; a receive that outlasts the pause |
| Station: threads of the orchestrator from start to destructor (`transfer_orchestrator.cpp`) | startup, presence, listener, payload and dismissal threads, `shutting_down_`, `dismiss_epoch_` | start, tick, announce, reset_connection, stop | transfer controller, window | a stop while the threads are being started, threads nobody joins, a dismissal that comes late |
| Transfer controller, USB plane (`transfer_controller.cpp`, `sdks/cpp/`) | port lock, cached leg and presence | send, receive, probe | engines | answers given while the port is locked, caches that are never renewed |
| Peer roster (`peer_roster.cpp`, `announce_note.cpp`, `fabric_port.cpp`) | rows of id, instance, name, port, online, last_seen | seed, touch, mark stale, all offline | announces, presence, settings dialog | which row an announce belongs to after moves, renames, restarts |
| Desktop window (`apps/wx/main_frame.cpp`, `incoming_dialog.cpp`, panels) | `orchestrator_`, the stack of modal dialogs, `shown_offer_id_`, phase, light, buttons | apply a snapshot, accept, decline, countdown, connect, disconnect, settings, reset, close | orchestrator's threads through `CallAfter` | snapshots late or out of order, event loops inside event loops, an answer to another offer |
| Desktop peer list (`apps/wx/roster_panel.cpp`) | last view, layout key, rows with their drop targets, selection | update, rebuild, refresh, click, choose, drop | window, orchestrator | rows rebuilt under their own dialog, or kept although stale |
| Browser orchestrator (`apps/web/src/lib/web_transfer_orchestrator.ts`) | `busy`, `outboundOffer`, `awaitingReady`, `pendingInbound`, `linkActivity`, one waiter each for accept and ready, timers | sendToPeer, handlers, accept, decline, retransmission, presence tick, reset | FabricLink, React hook | state read before an `await` and used after it, timers that outlive their send |
| FabricLink and WebUSB session (`sdks/typescript/src/`) | listen mode, queues of two tiers, device handle | poll, session send, payload, abort, reset | browser orchestrator | serialisation on one bus, resets behind the orchestrator's back |
| Codec, tar packing, configuration, settings, logs, web UI, simulator, tools | none that the protocol depends on | pure functions and presentation | | |

What makes each correct:

* engines: *success means the whole file, once and in order*; no buffer is used by two actors, none
  is freed while libusb holds it; every call returns;
* handshake: a station that asks first receives only what its user accepted; the file that arrives
  is the one that was offered; whatever is lost, both sides come to rest, with nothing left behind
  (members, paused listener, temporary file);
* station: one holder of the port, no cable taken for lost while the port is merely busy, stop returns
  and leaves no loop behind;
* window: it calls no orchestrator that is gone, shows every offer, shows the truth in the end, Accept
  takes the offer on the screen, a file dropped on a row goes to the station of that row;
* roster: one live row per port, unique ids, no row lost to another station's announce, no ghosts;
* browser app: the dialog's Accept answers the offer on the screen, a payload leaves only for a
  receiver that is ready for it, every task ends, an idle station listens.

`PROJECT.json` lists the hazards behind these at the lines where they bite.

## Modules

| Module | Models | Kind |
|---|---|---|
| `FileTransfer` | what one call of a transfer engine promises to the threads above it | abstract specification |
| `RecvRing` | `receive_file_core`, `ring_cb` and the writer thread | component, implements `FileTransfer` |
| `RecvRingProofs` | arithmetic of `n % kPoolSize`; invariants of `RecvRing`; it implements `FileTransfer` | proofs |
| `SendQueue` | `send_file_core`, `queued_cb` | component, implements `FileTransfer` |
| `SendQueueProofs` | invariants of `SendQueue`; it implements `FileTransfer` | proofs |
| `CrossConnect` | `loopback_transfer_core`, `open_device_by_index`, `file_cross_connect_core`, `usb_transfer_chunk` | component, implements `FileTransfer` |
| `CrossConnectProofs` | exclusive use of the slots of `CrossConnect`; the copy is the file; it implements `FileTransfer` | proofs |
| `Handshake` | what a handshake promises the users of two stations | abstract specification |
| `Orchestrator` | two native stations: `TransferOrchestrator` and `SessionListener` over a fabric that does not buffer | composition, implements `Handshake` |
| `OrchestratorProofs` | types, consent, rest and the file received in `Orchestrator`; it implements `Handshake` | proofs |
| `Station` | the threads of one native station from `start` to the destructor, `SessionListener`'s loop, `usb_mutex_` and the probes of `TransferController`, the cables on the bus | composition |
| `StationProofs` | invariants of `Station` | proofs |
| `Desktop` | `MainFrame`, `IncomingDialog`, the connection and progress panels, the device picker, over what the window sees of the orchestrator | composition |
| `RosterPanel`, `MCRosterPanel` | `RosterPanel`, `PeerDropZonePanel`, `MainFrame::OnSendRequested`, the lookup of `send_to_peer` | component and environment |
| `WindowProofs` | invariants and rows of `RosterPanel`, invariants and silence after closing of `Desktop` | proofs |
| `PeerRoster`, `MCPeerRoster` | `PeerRoster`, `handle_announce`, `tick_presence`, `set_identity`, `fabric_leg` among stations that come, go and move | component and environment |
| `PeerRosterProofs` | invariants of `PeerRoster`; what an announce does to the list | proofs |
| `WebOrchestrator`, `MCWebOrchestrator` | `WebTransferOrchestrator` and what it sees of `FabricLink` | component and environment |
| `WebOrchestratorProofs` | the dialog and the order of frames in `WebOrchestrator` | proofs |

### FileTransfer

The contract of `send_file_core`, `receive_file_core` and `loopback_transfer_core`: the size is learned once, output is only
appended, progress never runs ahead of the fabric nor back, the result is given once and nothing
moves afterwards, and success means that the whole file is out, each unit once and in order. For a
send the output is the wire, for a receive the file on disk, for a loopback the copy. `RecvRing`, `SendQueue` and `CrossConnect`
each instantiate it with a refinement mapping (`Transfer == INSTANCE FileTransfer WITH ...`), and
`ImplementsTransfer == Transfer!Spec` is a property of their runs. Its liveness counterpart, that the
call ends, is `Returns` in the first two and `ReturnsUnlessFailure` in `CrossConnect`.

### RecvRing

`main` is the calling thread, `writer` the `std::thread` of lines 997-1027, `Usb` the completions
libusb delivers while `main` is inside `libusb_handle_events_timeout`. The loop of `try_submit`
(1038-1088) is `Submit`, `SubmitFails`, `SubmitSeesWriteError`, `SubmitDone`; the loop at 1093 is
`SlotArrived`, `Account`, `AccountFailure`, `LeaveLoop`; 1138-1192 are `Finish`, `Drained`,
`DrainGivesUp`, `Join`. `main` accounts and `writer` writes in two steps each, because each reads
fields of a slot the other may change. Bytes are units: the i-th unit of the peer's file is the
number i, 0 is anything that is not file data, so "the file on disk is the peer's file" can be said.
`ShortReads` says whether the device may complete an IN transfer early; `Wedged` whether a
cancelled transfer may stay pending longer than the 2 s the drain allows. The header loop keeps the
rule that a stray session frame is discarded ahead of a payload.

The runs take `ShortReads = FALSE`. With `TRUE`, `ImplementsTransfer` does not hold (1121): main counts
what a short completion brought, but the offset of the transfers behind it was fixed when they were
submitted and nothing asks for the missing bytes again; main goes on to slots that hold no transfer
and counts their old contents until the file seems complete. The hazard list says so. Of the theorems
about `RecvRing`, types, the lap and the teardown hold in both cases; books, correction and refinement
assume `~ShortReads`, as the run does.

### SendQueue

One thread, and libusb as the environment: `Sent` and `SendBreaks` happen during `HandleEvents`, so
any set of transfers may be complete when `scan` walks the queue. A failed entry ends the scan with
later completions uncounted, and the drain (877-886) must find them. `submit_next` may find the file
shorter than its header said (`ReadFails`, `truncated`).

The documentation says that the last chunk is padded to a full 4 MiB transfer
(`protocols/file-transfer.md:61`, "pad the last chunk with zeros"); the native sender submits the `n`
bytes it read (807-815). `SendQueue` follows the code, and `RecvRing` accepts both lengths.

### CrossConnect

`Prologue` is what the calling thread does alone: two devices or none (`TwoDevices`,
`TooFewDevices`), each port opened with up to `MaxOpenAttempts` attempts while it is busy
(`OpenPort`; the second port is tried whatever became of the first), the header from one to the
other. `HeaderCrosses` starts the reader and the writer. A thread in `cv.wait` whose predicate is
false is `asleep` until somebody calls `notify_all` on its slot; that is what makes a missed
notification visible. `Close` is what every way out does, `Compare` the comparison and removal of
the copy. `Failures` selects what may go wrong; one of them, `"short"`, is not an error to the code:
an IN transfer that is `COMPLETED` with fewer bytes than were sent (403), after which `rx_actual`,
not the length sent, goes into the slot and the sum.

A file is a sequence of units, the buffers of a slot hold units, and both are used outside the
slot's mutex. A buffer that is being overwritten holds 0 in the place of the new data (`Torn`,
`Over`), so a thread that reads it in between gets the old, the new or a mixture. The wait of main
(633) is the code's: it goes on as soon as the slot is filled, also if the writer has not emptied
it. Such a *lap* is counted by the history variable `laps`, a short transfer is remembered in
`short`; no step of the program looks at either.

What TLC and the proofs say of it:

* Whatever happens, laps, short transfers and failures included, a call that returns keeps the
  contract of `FileTransfer`: a success has the whole file in the copy, each unit once and in order.
  The comparison at the end is what makes it so.
* The slots do not keep the threads apart. `docs/PROTOCOL.md:66` promises "double-buffered disk/USB
  overlap", but `DoubleBuffered` alone, as an invariant, is violated with nothing failing and a file
  of three chunks: `filled` stays true until the writer has run, so with a slow disk main takes the
  same slot again, sends its chunk a second time and receives it over the data the writer is
  writing. The copy then has a chunk twice or torn and the comparison fails on a healthy link; or
  main reads the `eof` of the wrong pass (657), leaves, and the last chunk is never sent.
* A lap is the only way there: as long as `laps = 0` the flags keep reader and writer off the
  buffers of a transfer (`SlotsOK`), and a link that delivers everything gives a success
  (`HealthyLinkPasses`).
* The call need not return. For an empty file reader and writer do nothing and main waits at 633 for
  ever, both ports claimed and the copy neither compared nor deleted (`docs/PROTOCOL.md:67`). After
  a short transfer the writer waits for bytes that never come and main for the writer (676). After
  an error reader and writer raise `transfer_error` without notifying any slot (573, 610), and the
  reader's wait (563) does not look at it. `usb_transfer_chunk` ignores the result of both submits
  (392-393) and then polls for ever. `ReturnsUnlessFailure` says that these are all the ways: a file
  that is not empty, no failure, no short transfer and no lap, and the call ends. None of the four
  conditions can be dropped.

### Handshake

The contract of `TransferOrchestrator` with the users of both stations, without frames, threads or
time-outs: a session is offered with one staged file (`Offer`), the other user is asked (`Ask`) and
agrees (`Agree`) or not (`Dismiss`), the station takes the session up (`TakeUp`) and the file is
delivered (`Deliver`) or given up (`Drop`, `GiveUp`). A file leaves `staged` when it is delivered and
never comes back, so that it is delivered at most once. A station that asks first takes up what its
user agreed to and nothing else. `calm` says that no cable was lost and no thread held up; then the
file delivered is the one offered in the session its receiver has taken up, a station takes up one
session at a time, and nobody is asked about a session that is over, however late or often an offer
comes. `Orchestrator` instantiates it (`Promise == INSTANCE Handshake WITH ...`): `asked` is
`pending_offer`, `taking` is `accepting_session_id_`, `staged` the temporary files, `calm` is `prompt`
as long as `losses = 0`. `ImplementsHandshake == Promise!Spec` is a property of its run; that every
handshake comes to rest is `Settles`.

### Orchestrator

`st` holds the members `state_mutex_` guards, `th` the control of the UI and listener threads, `pt`
that of `payload_thread_`, `presence` that of the presence thread. A boundary between two actions
stands wherever the code drops the lock: the busy check and the posting of an offer are two steps,
as are the decision that time is up (`TimeUp`) and the unlocked writes of the expiry (`Expire`).
`Delivered` is the only way for a frame to arrive: the peer's listener is in its IN poll and nothing
holds its port. Joining `payload_thread_` and assigning to it are separate steps of the UI and the
listener; assigning to a joinable `std::thread` is `std::terminate` (`terminated`).

`prompt` splits the behaviours. With `prompt = TRUE` a station's code between two sleeps or USB
calls takes no time compared with them, as on a machine that is not overloaded. With `FALSE` a thread
may be suspended anywhere. `ConsentFirst`, `Settles` and the part of `RestIsClean` about members, `MembersReset`, hold in both.
`ReceivesWhatWasOffered` and the other part of `RestIsClean`, `NoTempLeft` (no staged file is left),
are claimed for prompt behaviours without a cable loss, and do not hold beyond them: an expiry suspended between snapshot and write clears the members of the
payload that has just begun, and `tick_presence` finishes a transfer whose thread still runs and
finishes it again later.

Two threads that pass the join together end in `std::terminate`. This can happen in prompt behaviours
too: a dialog that opened while files were staged is accepted with the station's own offer out (see
`one_transfer`), the ready for that offer arrives, UI and listener both wait in `join` for the poll
loop of the offer to end, and both assign. The model contains it (`terminated`), and the properties speak
of stations that are `Alive`.

The dialog of the native application is modal, so that in prompt behaviours the user answers it
before anything else; but it can open while `send_to_peer` is staging files, and
`accept_pending_offer` never asks `is_busy` (run `one_transfer`).

### Station

One native station. `startup`, `listener`, `presence`, `payload[k]` and `dismissals` are its threads,
`lock` is `usb_mutex_` with its holder, `todo` what the thread that ends the station has yet to do:
`stop()` by the window or a tool and again by the destructor, each of them five steps (`Stop`). What is
said on the fabric is left to `Orchestrator` and `PeerRoster`: a transfer here is a thread that pauses
the listener, takes the port or is refused, holds it, and ends well or badly. The probes
(`fabric_port_available`, `device_count`) enumerate the bus if they get the lock and otherwise repeat
what the last one found (`known`); `PortAvailable` and `Probes` say so. `TickBegins` to `TickEnds` are
`tick_presence` with its reading of `port_ok` before, and its use after, other threads moved on.
`Begins`, `Reset`, `PayloadFinishes` and `StopBegins` advance `dismiss_epoch_` as the code does, and
`Dismiss` compares.

`was_absent` is not in the code: it says whether the cable was away since presence last saw it, and is
what `NoFalseLoss` compares the loss with. `StopReturns` leaves out one case, in which the startup
thread clears the listener's `stop_` after `stop()` has set it (`session_listener.cpp:91` against
`:100`): the join of the listener then waits for a thread nobody stops.

### Desktop

Every modal dialog runs an event loop on top of the handler that opened it. `stack` holds the dialogs;
only the innermost takes clicks and only it can return, but snapshots and timers reach all of them.
`Copies` and `Posts` are the two halves of `publish_state`, so that a snapshot may be overtaken by a
later one (`Publishes` does both at once). The copy is one step of the model: most callers of
`publish_state` read `state_` without `state_mutex_` (`transfer_orchestrator.cpp:316-321`), so a real
copy may mix two states, and what the window does with such a mixture is not modelled. `Apply` is `ApplyOrchestratorState` with
`MaybeShowIncomingDialog`, `View` what the panels derive from a snapshot (`derive_phase`,
`UpdateConnectionStatus`, `SyncConnectActions`). Opening and closing settings, the picker and the
message box, the countdown and the close box of the incoming dialog, Connect, Disconnect, Reset with
its detached thread, the shutdown signal and its poll timer are actions of their own.

`orch` with `CableChanges`, `OfferArrives`, `PayloadBegins`, `TransferEnds` and `Dismisses` is what the
orchestrator may do to the members of `OrchestratorUiState`, as coarse as the window can see.
Every handler of the window asks whether there still is an orchestrator before it calls it; the thread
of `OnResetConnection` is detached and may be left with a pointer to nothing, which the hazard list
names and the model does not follow. `CatchesUp` excludes a window that was disconnected: a snapshot queued before
Disconnect is applied after it, because the queued lambda looks only at `IsBeingDeleted`; the window
then shows a connection that is no more and a Disconnect button that returns early.

`ClosedWindowIsSilent` is about a window that a signal closes under its dialogs: their handlers go on
behind it. The settings apply one more snapshot when they return, which would ask about an offer if an
orchestrator were there; the picker starts one. That nobody is asked or answers is because the window
opens settings and picker only while no dialog is open, so that at most one of them is, below all
others. wxWidgets is taken at its word for this: `IsBeingDeleted` is true from the end of `OnClose`, and
the frame is deleted after the last dialog has returned.

### RosterPanel

The rows of the peer list are rebuilt only if the layout key changes, refreshed otherwise, and left
alone while one of them has its file dialog open. A row keeps the name it was built with, for its drop
target and its button; the drop itself meets an orchestrator in any state (`Truths`), because
snapshots arrive late. `StaleClicks = FALSE` says that no row is clicked between the end of a file
dialog and the next snapshot (there is one every second): `SelectPeer` rebuilds the rows from the new
view without renewing the layout key, so that the rows no longer match it, and with `TRUE`
`RowsFollowRoster` does not hold.

### PeerRoster

`station` is the truth, who is on which leg and which port it announces; the environment lets
stations arrive, leave, restart under another id, move and rename themselves, and pulls this
station's own cable. Every announce may be lost. `TouchPeer` is `touch_peer` in its order: rows of
the port with another id go first; then the row of the instance is updated, or for an announce of an
older version the row of the port, then that of the name; else a row is appended.

`leg` and the ports of the other stations are what `TransferController::fabric_leg` returned. It
caches its first answer for as long as the controller lives, and when the serial cannot be read
within 200 ms it answers with the libusb index. The startup thread asks immediately after starting
the listener, whose first receive holds the port for up to 2 s. So every station, this one included,
may be wrong about its leg for good, and a native station that is moved keeps the leg it had. The
models admit both. The roster's promises hold relative to what is announced; that announces carry
the true leg, as `protocols/session.md:44` demands, does not hold, and no run states it.

### WebOrchestrator

One thread: every action is the code between two awaits of a task, or one call-back together with
the continuation of the promise it settles. `snd`, `rcv`, `declining`, `resend` are the tasks,
`timers` the `setTimeout`s that nothing clears. `Listens`, `SetListen`, `poll`, `BusFree` and
`UsbReset` are what the orchestrator sees of `FabricLink`: a poll outlives a switch to off, OUT
transfers queue behind it, and closing the device leaves listening off. The other stations answer as
the protocol says, late, or not at all (`out`, `offering`).

`Overlap = FALSE` says that the user drops one file at a time. With `Overlap = TRUE`,
`SendsWhatWasAccepted` fails: `sendToPeer` checks `busy`, then awaits the file and a pause of 50 ms
before it sets it, so a second file dropped meanwhile passes the check, replaces `outboundOffer`, and
its accept and ready let the first send put its own file on the wire; the first waiter is overwritten
too, and one of the promises may hang. In the same gap an open station may begin to receive. `Workloads`
bounds what a behaviour contains.

`Settles` excludes one case, `claim_failed`: `prepareForPayloadSend` stands outside `try`/`finally`,
and an interface that cannot be claimed back leaves `busy` set for good.

`UsbReset` switches listening off behind the back of `linkActivity`. Three of its four callers switch
it on again; `resetConnection`, behind the Reset button, does not (808): unless the hook's one-second
poll happens to see the sub-second disconnect, the idle station announces itself and hears nothing.
No run states this; it is one missing call in one place, and the hazard list names it.

## Runs

| Run | Question | Result |
|---|---|---|
| `recv_full` | `RecvRing` with whole completions, disk and USB failures, a wedged device | holds: `ImplementsTransfer`, `NoReuseBeforeWrite`, `FreedTransfersIdle`, `BooksBalance`, `CorrectionIsNoop`, `Returns`, `TypeOK` |
| `send` | `SendQueue` under every batching and failure | holds: `ImplementsTransfer`, `QueueOK` (types, and `active` counts exactly what libusb holds), `Returns` |
| `loopback` | `CrossConnect` with every failure, short transfers, a slow disk, an empty and a longer file | holds: `ImplementsTransfer`; `SlotsOK` (types, and exclusive use of a slot until a lap); `HealthyLinkPasses` and `ReturnsUnlessFailure` under the conditions they name |
| `handshake` | two stations, two sessions, a cable loss, prompt and not prompt | holds: `ConsentFirst`, `ReceivesWhatWasOffered`, `RestIsClean`, `ImplementsHandshake`, `Settles`, `TypeOK` |
| `one_transfer` | a station has one transfer at a time | **violated** `OneTransferAtATime` |
| `station` | one station from start to destruction, a cable that comes and goes, two transfers | holds: `NoFalseLoss`, `HarmlessDismissal`, `NothingLeftRunning`, `StopReturns`, `PresenceSettles`, `TypeOK` (with one holder of the port) |
| `desktop` | the window with two offers, late and reordered snapshots, nested dialogs | holds: `CatchesUp`, `EveryOfferIsShown`, `ClosedWindowIsSilent`, `TypeOK` |
| `desktop_consent` | what the user accepts is what the dialog shows | **violated** `AcceptsWhatIsShown`: Accept takes the offer that replaced the one shown |
| `roster_panel` | the peer list under every snapshot, click, drop and file dialog | holds: `FileGoesToRow`, `RowsFollowRoster`, `ZoneOutlivesItsDialog`, `PanelTypeOK` |
| `roster` | stations that come, go, move, rename, restart, or mistake their leg | holds: `RosterOK` (types, `OnePeerPerPort`, `UniqueIds`), `HearingListsAll`, `NoGhosts` |
| `web` | two sends, a send and an offer that cross, two offers | holds: `DialogOK` (types, and the dialog shows the pending offer), `SendsWhatWasAccepted`, `Settles` |
| `web_ready` | a ready without accept is enough | **violated** `ReadySuffices`: the ready is dropped and the send times out |

The three runs that end in a violation check what a document of the repository says of the program;
`PROJECT.json` quotes it with its place. They are kept as runs so that a repair can be seen to work.

### Bounds and why they suffice

* `recv_full`: 3 slots, window 2, chunk 2, sizes 0, 1, 4, 9, 10. The ring is lapped, the window is
  smaller than the ring as with `effective_queue_depth`; the sizes are empty, part of a chunk, a
  multiple, a partial and a whole last chunk of the lap after the first.
* `send`: 4 entries, window 3, chunk 2, sizes 0, 1, 6, 9 (5 chunks): one entry waits for
  its turn while three are submitted, entries are used a second time, the last chunk is partial or whole.
* `loopback`: files of 0, 3 and 7 units in chunks of 2, that is none, two and four chunks with a partial
  last one, so that both slots are used again; 5 attempts to open a port, of which any number may fail;
  main laps the writer at most once (`MaxLaps`; two laps have been checked with the same result where nothing fails and transfers are whole or short), and
  the behaviour goes on behind it. The theorems do without the bounds.
* `handshake`: 2 stations, one that asks first and one that is open. Prompt behaviours contain two
  sessions in either direction and one cable loss: crossing offers, a second send after a first one that
  expired, a stale ready, a cable lost under either. Behaviours in which threads may be suspended
  anywhere contain two events in all (`MaxEvents`): two sessions, or a session and a cable loss. What the
  bound leaves out there, two sessions *and* a loss, is covered by the theorems for everything that is
  claimed without promptness, except `Settles`.
* `station`: one cable, two transfers, two replugs: the cable is away at the start or goes and comes
  back, the second transfer follows the first while its dismissal is pending, stop comes at any time,
  also during startup. The theorems do without the bounds.
* `desktop`: two offers, so that one can replace the other; one snapshot queued and one held, so that
  two change places; four events of the orchestrator or clicks (connecting and closing not counted),
  enough to lose a cable, fail, reset and close, or to have two offers and settings open at once; one
  second of countdown.
* `roster_panel`: four legs as in `kFabricLegCount`, this station on leg 0, on leg 1 or unknown, and seven rosters: a station
  that changes legs, two that change places, two of one name, one that bears this station's name, a
  configured row that is offline. Any snapshot may follow any other.
* `roster`: 3 legs, 3 stations (two of one name, one of an older version), two configured rows, five
  changes of the environment: each station can come, move, be renamed and leave. Age is counted up to
  one more than `Stale`.
* `web`: two sessions in all, of every combination. One send with two offers (1.2 million states) has
  been checked with the same result.

### Fairness

Threads are scheduled and libusb answers every transfer it holds, because each is submitted with a
time-out or has been cancelled (`RecvRing`, `SendQueue`). In `CrossConnect` only the three threads
are fair, and being asleep is not being enabled. In `Orchestrator` a UI call once begun goes on, the
listener, payload and presence threads run, and every USB call ends, at the latest by its time-out;
users, deliveries and cable losses are not forced. In `Station` the loops, each payload thread and a
`stop()` once called go on; replugs, transfers and the beginning of a stop are not forced. A probe
waits 200 ms for the lock, and nobody holds the lock for good, so a presence thread that probes again
and again does not find it taken for ever: strong fairness of `TickBegins` with the lock free, used
only by `PresenceSettles`. In `Desktop` a thread that copied the state queues the copy, the event loop
applies what is queued, lets dialogs return and runs its timers; clicks and events are not forced, and
that presence publishes every second is the fairness of `Copies`. `RosterPanel` has no liveness. In
`PeerRoster` time passes and the presence thread ticks; no announce is assumed to arrive. In
`WebOrchestrator` timers fire, tasks whose await is over go on, offers are not repeated for ever;
users and replies are not forced.

`CHECK_DEADLOCK FALSE` stands in the cfgs of the handshake, the loopback, the station, the desktop and
the browser app: there a system at rest, destroyed, closed, or with its threads asleep, has no step.
The receive and send engines stutter only in `Returned`, so that a deadlock of theirs would be
reported.

## Proofs

All proofs are machine-checked for every value of the constants that satisfies the named
assumptions of the modules; nothing is assumed beyond these.

* `RecvRingProofs!TypeCorrect`: `Spec => []TypeOK`. `TypeOK` is almost inductive; `TypeInv` adds
  `NothingCountedYet` (before a header is accepted no byte was counted), since `file_size` may still
  change then. Submitting `SubmitSize` and accounting `Least(actual, file_size - bytes_received)` keep
  both counts within the file, with and without short completions.
* `RecvRingProofs!NeverReusedBeforeWrite`: `Spec => []NoReuseBeforeWrite`: main is never more than
  one lap ahead of the writer, nor of its own accounting, and the window is never overfilled by more
  than the ring holds. `NoReuseBeforeWrite` itself is not inductive: that the slot `submit_count` maps
  to is FREE says something about the writer only if every slot between the writer's index and
  `submit_count` is known not to be FREE. `RingInv` says it: `HeldUntilWritten` (a submission not yet
  written occupies its slot), `WindowOfTransfers` (`active` is the distance of the two counters),
  `ErrorBeforeFree` (the writer frees a slot it could not write only after it raised `write_error`). The lemmas
  at the head of the module say that counters less than a lap apart name different slots and counters a lap apart
  the same; they are proved from division with remainder.
* `RecvRingProofs!FreedOnlyWhenIdle`: `Spec => []FreedTransfersIdle`, with and without short
  completions. That `active = 0` means an idle ring is not inductive: it needs to know *which* slots
  libusb may hold, those of the window between accounting and submission.
* `RecvRingProofs!BooksAlwaysBalance`, `CorrectionChangesNothing`, `ReceiveImplementsTransfer`, under
  `~ShortReads`. `CountInv` says which part of the file each transfer of the window asked for and has
  brought (`Asks`, `Arrives`, `Streams`), and that none comes well before one submitted earlier
  (`FirstFirst`); `WriterInv` where the writer is; `DataInv` that each slot holds its part of the file
  and the output is the file up to the writer's counter. The refinement follows step by step: accounting is
  `Count`, a chunk handed to the file is `Move`, the return with everything written is `Succeed`,
  the rest stutters.
* `SendQueueProofs!SendQueueOK` and `SendImplementsTransfer`. Each entry of the queue holds a span of
  the file that no other holds (`Blocks`). Progress is credited in the order of the *scan*, which is not
  that of the wire, so the two are compared by counting: `Carried` and `Credited` say that what is on
  the wire and what is still in flight was read, and that what was credited and what is still to be
  credited is on the wire. As long as nothing failed, the wire is a prefix of the file, the entries in
  flight go on where it ends (`InOrder`), and a success leaves neither.
* `PeerRosterProofs!RosterAlwaysOK`: `Spec => []RosterOK`. Neither `OnePeerPerPort` nor `UniqueIds` is
  inductive alone, because `touch_peer` keeps the rows of the port that carry the announced id;
  together with `TypeOK` they are. `OneMatch` is the heart: every row that shares the id or the port of an announce is the
  row that is updated, so that writing it cannot make a second one.
* `PeerRosterProofs!HeardStationsAreListed`: `Spec => HearingListsAll`, a property of steps: an announce
  from another port leaves its sender listed there, and removes no station listed at a third port.
* `CrossConnectProofs!CrossConnectSlots`: `Spec => []SlotsOK`, with no assumption on the disk or the
  link. `Inv` adds to the types, as long as main has not lapped the writer, what each thread knows of the
  flags of the slot it is at: the reader that it is empty, main that it is filled and not done, the writer
  that it is filled and done (`ReaderKnows`, `MainKnows`, `WriterKnows`); these exclude each other,
  which is the property. It is inductive with `DoneIsFilled` (a done slot is filled) and `MoreToRead`.
  The one step that can break it is `MainStarts` in a slot that is done, and that step is a lap.
* `CrossConnectProofs!CrossConnectHealthy`: `Spec => []HealthyLinkPasses`. `Copying` holds as long as
  there was no failure, no short transfer and no lap. It says in which order the two slots are filled,
  transferred and given back (`Order`), how the three counters follow from that (`Sums`), which piece
  of the file each buffer holds (`Pieces`, `Passing`) and how long the copy is (`Written`). `Tidy` says
  which ports are claimed and whether the copy exists at each point of the prologue and the closing. It
  is a statement about calls that return; that they do is left to TLC.
* `CrossConnectProofs!LoopbackImplementsTransfer`: `Spec => ImplementsTransfer`, again with no
  assumption. Nothing about slots is needed: `CallInv` says that reader and writer exist only between
  the header and the join, so that nothing moves before or after (`Alone`), that main holds received
  units only between a transfer and their count (`Pending`), and that a run which is compared as a
  success has counted every unit (`Counted`); the comparison says the rest.
* `StationProofs`: `StationTypeOK` (types, with `OneHolder`), `StationNoFalseLoss`,
  `StationHarmlessDismissal` and `StationNothingLeftRunning`. `OneHolder` is inductive because each
  thread's control says whether it holds the lock. `NoFalseLoss` needs `Seen`: what presence and the
  last probe know of the cable is true, or the cable was away since. `HarmlessDismissal` needs
  `Dated`: no dismissal is of a later epoch than the present one, and in the epoch a dismissal is for
  no other result can be on display. `NothingLeftRunning` needs `InOrder`: how far the two passes of
  `stop()` have come tells which threads have ended and can no longer be started; the second pass,
  the destructor's, is what closes the gap of a startup thread that starts the loops during the first.
* `OrchestratorProofs`: `OrchestratorTypeOK` and `OrchestratorConsent`, for any number of sessions and
  cable losses, prompt or not. What was received says nothing of consent by itself, so `Inv` follows a
  session from its maker to the receiver (`Followed`): threads about an offer hold a session of their
  own station (`Own`), an offer on its way in or pending is one of the peer's (`Foreign`), and every
  thread bound to accept holds one that is, where the station asks first, also consented (`Agreed`).
  Steps that neither make a session nor give consent keep these three (`KeptKeeps`); `send_to_peer`
  and the dialog's Accept only add to them (`UiActs`).
* `OrchestratorProofs!OrchestratorMembersReset`: `Spec => []MembersReset`, the first part of
  `RestIsClean`, for any number of sessions and cable losses, prompt or not. At rest no thread is left
  that could reset anything, so the invariant, `AllTended`, speaks of the states in between: each of
  `busy`, `waiting_for_partner`, `awaiting_ready_`, `outbound_offer_`, `staged_payload_`, `accepting_`
  and the listener's pause that is set has a thread (UI, listener, payload or presence) that is on its way to a statement which
  resets it. The lemmas named `...Tends` go through the code one thread at a time.
* `OrchestratorProofs!OrchestratorReceivesWhatWasOffered`: `Spec => []ReceivesWhatWasOffered`, and
  `OrchestratorRestIsClean`: `Spec => []RestIsClean`, with `NoTempLeft`, its part about files; for any
  number of sessions, and whatever frames are lost or late. The properties themselves say that they
  are about prompt behaviours without a cable loss. `Prompted` has two parts. `Ordered` looks at one
  station at a time: its threads take turns (`InTurn`: while the UI or the listener has code to run,
  the payload thread is not at the end of a sleep), the session it offers is in the hands of one thread
  that `outbound_offer_` and `staged_payload_` agree with (`Outgoing`), so is the one it accepts
  (`Incoming`), and every staged file has a thread that will remove it (`TempHeld`). `Matched` looks at
  both: a station that was told ready for a session (`Released`) has a peer that can receive in no
  other one (`Serves`). The lemmas named `...InOrder` show, one action at a time, that a step keeps its
  own station in order, releases nothing by itself and takes in no offer (`Keeps`); what it does to
  the other station is a frame or the payload (`Elsewhere`). A ready that arrives while the receiver
  of it is already sending would break both; `ReadyFindsNoSender` shows that `Matched` excludes it.
* `OrchestratorProofs!OrchestratorImplementsHandshake`: `Spec => ImplementsHandshake`, for any number
  of sessions and cable losses, whatever frames are lost or late, and with threads held up. That an
  offer is not posted again for a session that is over needs to know where a session can still come
  from. `Traced` says it: what a station holds for sending is its own (`Owned`), what it is about to
  offer is out nowhere else (`Fresh`), and in calm a session that was received is about to be offered
  by nobody, in no thread that offers it, and in no listener or pending offer of its receiver
  (`Closed`). It is inductive because a session only moves along, from `send_to_peer` to the thread
  that offers it, to the other station's listener, to its pending offer (`MovesAlong`), and because
  of `Matched`: a sender that sends, and a receiver that receives in one session, have that session in
  hand and nowhere else (`DeliveryCloses`). The lemmas named `...Implements` map each
  action to a step of `Handshake` or to none.
* `WebOrchestratorProofs!DialogTellsTheTruth`: `Spec => []DialogOK`; the invariant is inductive as it
  stands, because the code changes `pendingInbound` and what the UI shows in one uninterrupted piece
  everywhere it changes either.
* `WebOrchestratorProofs!PayloadOnlyWhenReady`: `~Overlap` gives `Spec => []SendsWhatWasAccepted`. At
  most one send is under way (`OneAtATime`), and `outboundOffer`, if set, is its offer (`OfferIsOut`); so
  the waiters belong to it, and a reply or a leftover timer of an earlier send either finds another
  session in `outboundOffer` or can only end the send, never release it. With `Overlap` it is false, as
  said above.
* `WindowProofs` on the list of peers: `PanelTypeCorrect`, `DialogKeepsItsRow`, and under `~StaleClicks`
  `RowsShowTheRoster` and `FileReachesItsRow`. The rows are what `layout_key` says they are (`Shown`),
  and `layout_key` is that of the last snapshot whenever a row may be clicked; that the first peer on a
  leg is the one a name leads to needs the roster's names to be unambiguous, as the property says
  (`FairDrop`). The searches of the code stop at the least index that matches; that there is one is
  `FirstMatches`, proved from the well-foundedness of the natural numbers.
* `WindowProofs` on the window: `DesktopTypeOK` and `DesktopSilent` (`Spec => ClosedWindowIsSilent`), for
  any number of offers, queued snapshots and events. The invariant, `WindowInv`, adds to the types that
  only the outermost dialog can be one the window opened itself (`StackOK`), and that an orchestrator
  behind a closed window has no dialog on top of it (`Silent`): where the settings are open there is no
  list of cables, and where there was one it is gone by the time its orchestrator runs. The module
  extends both modules of the window, whose definitions therefore have different names.

Left to TLC: everything about liveness, because the provers do not handle fairness and `ENABLED`.
Every other property that a passing run checks is stated by a theorem.

## Not modelled, and why

* Text: codec, meta files, tar packing, path handling, configuration, display, logs. They keep no
  protocol state; a message is a record or a kind and a session.
* Presentation: layout, messages, rates, settings, event log, speed monitor, the web user interface,
  the command-line tools.
* The simulator: it buffers frames and ignores their kind, unlike the fabric.
* `reset_connection` in the middle of a handshake: it is an action of `Station`, not of `Orchestrator`.
* Announces as traffic during a handshake, routing by `to_name`, the orchestrator's loopback test, the
  controller's worker threads, which only the SDK uses.
* Browser: the two-tier queue inside `FabricLink`, its payload transfers, loss of the cable and the
  hook's automatic reconnect, its own roster, announces.
* The buffer of `std::ofstream` (a flush that fails after the last write, 1173).
* Time: a deadline is "may have passed". Where an order of delays matters (the accept is sent later
  than the sender's gap ends), it is a guard.

## Plan

Done: receive ring, send queue and loopback from opening to comparison, each with its invariants and
proved to implement `FileTransfer`; the proofs of the loopback's slots and of the copy; native handshake, proved
to implement `Handshake`, and life of a station, desktop window, peer list, roster and browser
handshake, all with proofs.

Left, in order:

1. `FabricLink`: the control tier ahead of payload chunks, listen modes, abort and reset; composed
   with `WebOrchestrator` in place of what it assumes of the link today.
2. Announces: suppression during a handshake (`protocols/session.md`, "Suppress announces", against
   the native check of pause and outbound offer only) and `to_name`.
3. Cable loss and reconnect in the browser app.

## Running

    tlc -workers 2 -config RecvRing_full.cfg RecvRing
    tlapm RecvRingProofs.tla

and likewise for the other configurations, each of which begins with the name of its module.
