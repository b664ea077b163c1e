------------------------------ MODULE Station ------------------------------
(***************************************************************************)
(* The life of a native station: its threads from start to the destructor  *)
(* of the orchestrator (lib/session/transfer_orchestrator.cpp), the lock   *)
(* that keeps them from using the USB port at once (transfer_controller    *)
(* .cpp, reached through sdks/cpp/src/usb_plane.cpp), the loop of the      *)
(* session listener, and the cables on the bus of the computer.            *)
(*                                                                         *)
(* What is said on the fabric is the subject of Orchestrator and           *)
(* PeerRoster: here a transfer is a thread that holds the port for a time  *)
(* and then succeeds or fails.                                             *)
(***************************************************************************)
EXTENDS Integers, Sequences

CONSTANTS
    MaxCables,      \* cables the computer has
    PortIndex,      \* port_index_: which of the cables the station was given
    MaxTransfers,   \* bound: transfers begun
    MaxPlugs        \* bound: times a cable is plugged in or pulled

ASSUME StationAssumption ==
    {MaxCables, PortIndex, MaxTransfers, MaxPlugs} \subseteq Nat

VARIABLES
    bus,            \* how many cables are plugged in
    was_absent,     \* the station's cable was away since presence last saw it
    plugs,
    lock,           \* who holds usb_mutex_
    known,          \* last_port_present_
    down,           \* shutting_down_ of the orchestrator and of the controller
    todo,           \* what the thread that ends the station has yet to do
    startup,        \* startup_thread_
    listener,       \* SessionListener: its thread, stop_ and paused_
    presence,       \* presence_thread_, and port_ok of its tick
    fabric_was_connected,
    st,             \* members of the orchestrator guarded by state_mutex_
    payload,        \* the payload threads, one for each transfer begun
    owned,          \* the transfer payload_thread_ stands for, 0 if none
    epoch,          \* dismiss_epoch_
    dismissals,     \* threads of schedule_dismiss_transfer_display
    wiped           \* the last dismissal: [by, display]

world == <<bus, was_absent, plugs>>
port == <<lock, known>>
ending == <<down, todo>>
links == <<presence, fabric_was_connected>>
payloads == <<payload, owned>>
display == <<epoch, dismissals, wiped>>
vars == <<world, port, ending, startup, listener, links, st, payloads, display>>

\* Who holds the lock: nobody, the listener, presence, or else a transfer.
Free == 0
Listening == -1
Announcing == -2
NoTransfer == 0

\* stop() by the window or the tool, and again by the destructor
Stop == <<"stop", "listener", "presence", "startup", "payload">>
StopsOnce == Stop
Teardown == Stop \o Stop
Up == todo = Teardown
Gone == todo = << >>

Over(at) == at \in {"off", "ended"}

Init ==
    /\ bus \in 0 .. MaxCables /\ was_absent = (PortIndex >= bus) /\ plugs = 0
    /\ lock = Free /\ known = FALSE
    /\ down = FALSE /\ todo = Teardown
    /\ startup = "begin"
    /\ listener = [at |-> "off", stop |-> FALSE, paused |-> FALSE]
    /\ presence = [at |-> "off", ok |-> FALSE] /\ fabric_was_connected = FALSE
    /\ st = [connected |-> FALSE, busy |-> NoTransfer, done |-> NoTransfer, error |-> FALSE]
    /\ payload = << >> /\ owned = NoTransfer
    /\ epoch = 0 /\ dismissals = {} /\ wiped = [by |-> NoTransfer, display |-> NoTransfer]

-----------------------------------------------------------------------------
(* The bus, and TransferController, whose probes enumerate it and open      *)
(* nothing.  A probe waits 200 ms for the lock, a transfer 2 s.             *)

Present == PortIndex < bus

Replug ==
    /\ plugs < MaxPlugs /\ plugs' = plugs + 1
    /\ bus' \in {bus - 1, bus + 1} \cap 0 .. MaxCables
    /\ was_absent' = (was_absent \/ PortIndex >= bus')
    /\ UNCHANGED <<port, ending, startup, listener, links, st, payloads, display>>

\* fabric_port_available: an enumeration, or what the last one found
BusyIsGone == lock = Free /\ Present
PortAvailable == IF lock = Free THEN Present ELSE known
RemembersArrivals == known' = (known \/ (lock = Free /\ Present)) /\ UNCHANGED lock
Probes == known' = (IF lock = Free THEN Present ELSE known) /\ UNCHANGED lock

OverlooksHolder(who) == lock' = who /\ UNCHANGED known
Acquire(who) == lock = Free /\ lock' = who /\ UNCHANGED known
Release(who) == lock = who /\ lock' = Free /\ UNCHANGED known

-----------------------------------------------------------------------------
(* start(): the startup thread starts the listener and the presence loop.  *)

Startup(here, there) == /\ startup = here /\ startup' = there
                        /\ UNCHANGED <<world, port, ending, st, payloads, display>>

StartupBegins == /\ Startup("begin", IF down THEN "ended" ELSE "listen")
                 /\ UNCHANGED <<listener, links>>

\* ensure_listener_started: start() clears stop_.
StartsListener ==
    /\ Startup("listen", "presence") /\ Over(listener.at)
    /\ listener' = [listener EXCEPT !.at = "loop", !.stop = FALSE]
    /\ UNCHANGED links

\* start_presence_thread does nothing if the thread is there already.
StartsPresence ==
    /\ Startup("presence", "ended")
    /\ presence' = IF presence.at = "off" THEN [presence EXCEPT !.at = "tick"] ELSE presence
    /\ UNCHANGED <<listener, fabric_was_connected>>

-----------------------------------------------------------------------------
(* SessionListener::listen_loop.                                           *)

Listen(here, there) ==
    /\ listener.at = here /\ listener' = [listener EXCEPT !.at = there]
    /\ UNCHANGED <<world, ending, startup, links, st, payloads, display>>

ListenerStops == Listen("loop", "ended") /\ listener.stop /\ UNCHANGED port
ListenerProbes == /\ Listen("loop", IF PortAvailable THEN "wait" ELSE "loop")
                  /\ ~listener.stop /\ ~listener.paused /\ Probes

\* receive_on_port: the lock, or a refusal while shutting down or busy
ListenerReceives == Listen("wait", "receive") /\ ~down /\ Acquire(Listening)
ListenerRefused == /\ Listen("wait", "loop") /\ (down \/ lock # Free)
                   /\ UNCHANGED port
\* A message and its handler, a failure, or the time-out of the header read
ListenerReturns == Listen("receive", "loop") /\ Release(Listening)

-----------------------------------------------------------------------------
(* The presence loop and tick_presence.                                    *)

\* finish_transfer, by whoever thinks that transfer k has ended
Finished(ok, k) == [st EXCEPT !.busy = NoTransfer, !.error = ~ok,
                              !.done = IF ok THEN k ELSE @]

Ticks(here, there, ok) ==
    /\ presence.at = here /\ presence' = [at |-> there, ok |-> ok]
    /\ UNCHANGED <<bus, plugs, ending, startup, payloads, display>>

LoopsOn == FALSE
LeavesLoop == down

TickBegins ==
    /\ ~LeavesLoop
    /\ Ticks("tick", "probed", PortAvailable) /\ Probes
    /\ was_absent' = IF PortAvailable THEN ~Present ELSE was_absent
    /\ UNCHANGED <<listener, fabric_was_connected, st>>
PresenceEnds ==
    /\ LeavesLoop /\ Ticks("tick", "ended", presence.ok)
    /\ UNCHANGED <<was_absent, port, listener, fabric_was_connected, st>>

Lost == presence.at = "probed" /\ ~presence.ok /\ fabric_was_connected

\* fabric_just_lost: a busy orchestrator is finished and its listener resumed.
TickLoses ==
    /\ Lost /\ st.busy # NoTransfer /\ Ticks("probed", "show", FALSE)
    /\ st' = Finished(FALSE, NoTransfer)
    /\ listener' = [listener EXCEPT !.paused = FALSE]
    /\ UNCHANGED <<was_absent, port, fabric_was_connected>>
TickGoesOn ==
    /\ ~Lost \/ st.busy = NoTransfer
    /\ Ticks("probed", "show", presence.ok)
    /\ UNCHANGED <<was_absent, port, listener, fabric_was_connected, st>>

\* The state for the window
TickShows ==
    /\ Ticks("show", "announce", presence.ok)
    /\ fabric_was_connected' = presence.ok
    /\ st' = [st EXCEPT !.connected = presence.ok]
    /\ UNCHANGED <<was_absent, port, listener>>

\* maybe_send_announce, at times, only while connected and not paused
TickAnnounces ==
    /\ st.connected /\ ~listener.paused /\ ~down
    /\ Ticks("announce", "sending", presence.ok) /\ Acquire(Announcing)
    /\ UNCHANGED <<was_absent, listener, fabric_was_connected, st>>
Announced ==
    /\ Ticks("sending", "tick", presence.ok) /\ Release(Announcing)
    /\ UNCHANGED <<was_absent, listener, fabric_was_connected, st>>
TickEnds ==
    /\ Ticks("announce", "tick", presence.ok)
    /\ UNCHANGED <<was_absent, port, listener, fabric_was_connected, st>>

-----------------------------------------------------------------------------
(* Transfers: send_to_peer or an accepted offer, up to finish_transfer.    *)

\* payload_thread_ is joined before it is used again.
Joined == \A k \in {owned} \ {NoTransfer} : payload[k] = "ended"

Begins ==
    /\ Up /\ st.busy = NoTransfer /\ Joined /\ Len(payload) < MaxTransfers
    /\ st' = [st EXCEPT !.busy = Len(payload) + 1, !.error = FALSE]
    /\ payload' = Append(payload, "begin") /\ owned' = Len(payload')
    /\ epoch' = epoch + 1
    /\ UNCHANGED <<world, port, ending, startup, listener, links, dismissals, wiped>>

Moves(k, here, there) ==
    /\ payload[k] = here /\ payload' = [payload EXCEPT ![k] = there]
    /\ UNCHANGED <<world, ending, startup, links, owned, wiped>>

PayloadPauses(k) == /\ Moves(k, "begin", "try")
                    /\ listener' = [listener EXCEPT !.paused = TRUE]
                    /\ UNCHANGED <<port, st, epoch, dismissals>>
PayloadAcquires(k) == /\ ~down /\ Moves(k, "try", "hold") /\ Acquire(k)
                      /\ UNCHANGED <<listener, st, epoch, dismissals>>
PayloadRefused(k) == /\ down \/ lock # Free
                     /\ Moves(k, "try", "failed")
                     /\ UNCHANGED <<port, listener, st, epoch, dismissals>>
PayloadMoves(k) == /\ \E end \in {"moved", "failed"} : Moves(k, "hold", end)
                   /\ Release(k)
                   /\ UNCHANGED <<listener, st, epoch, dismissals>>

\* finish_transfer resumes the listener; a success is taken down after a while.
PayloadFinishes(k) ==
    /\ \/ /\ Moves(k, "moved", "ended")
          /\ st' = Finished(TRUE, k)
          /\ epoch' = epoch + 1
          /\ dismissals' = dismissals \cup {[by |-> k, epoch |-> epoch']}
       \/ /\ Moves(k, "failed", "ended")
          /\ st' = Finished(FALSE, k)
          /\ UNCHANGED <<epoch, dismissals>>
    /\ listener' = [listener EXCEPT !.paused = FALSE]
    /\ UNCHANGED port

AnyEpoch(d) == ~down /\ st.busy = NoTransfer /\ st.done # NoTransfer
MayDismiss(d) == ~down /\ d.epoch = epoch /\ st.busy = NoTransfer /\ st.done # NoTransfer

Dismiss(d) ==
    /\ d \in dismissals /\ dismissals' = dismissals \ {d}
    /\ IF MayDismiss(d)
       THEN /\ st' = [st EXCEPT !.done = NoTransfer]
            /\ wiped' = [by |-> d.by, display |-> st.done]
       ELSE UNCHANGED <<st, wiped>>
    /\ UNCHANGED <<world, port, ending, startup, listener, links, payloads, epoch>>

\* reset_connection, the button of a failed transfer: payload_thread_ is joined, or
\* detached after two seconds.
Reset ==
    /\ Up /\ st.busy = NoTransfer /\ st.error
    /\ st' = [st EXCEPT !.done = NoTransfer, !.error = FALSE]
    /\ epoch' = epoch + 1 /\ owned' = NoTransfer
    /\ listener' = [listener EXCEPT !.paused = FALSE]
    /\ UNCHANGED <<world, port, ending, startup, links, payload, dismissals, wiped>>

-----------------------------------------------------------------------------
(* stop().                                                                 *)

Does(step) == /\ todo # << >> /\ Head(todo) = step /\ todo' = Tail(todo)
              /\ UNCHANGED <<world, port, startup, links, st, payload, dismissals, wiped>>

StopBegins ==
    /\ Does("stop")
    /\ down' = TRUE /\ epoch' = epoch + 1
    /\ listener' = [listener EXCEPT !.stop = TRUE]
    /\ UNCHANGED owned

\* The thread objects are joined in turn, if they are joinable by then.
Joins == /\ \/ Does("listener") /\ Over(listener.at)
            \/ Does("presence") /\ Over(presence.at)
            \/ Does("startup") /\ Over(startup)
         /\ UNCHANGED <<down, listener, owned, epoch>>

\* The payload thread is joined, or detached after three seconds.
JoinsPayload == /\ Does("payload") /\ owned' = NoTransfer
                /\ UNCHANGED <<down, listener, epoch>>

-----------------------------------------------------------------------------
Starting == StartupBegins \/ StartsListener \/ StartsPresence
ListenLoop == \/ ListenerStops \/ ListenerProbes \/ ListenerReceives
              \/ ListenerRefused \/ ListenerReturns
PresenceLoop == \/ TickBegins \/ PresenceEnds \/ TickLoses \/ TickGoesOn \/ TickShows
                \/ TickAnnounces \/ Announced \/ TickEnds
Payload(k) == /\ k \in DOMAIN payload
              /\ \/ PayloadPauses(k) \/ PayloadAcquires(k) \/ PayloadRefused(k)
                 \/ PayloadMoves(k) \/ PayloadFinishes(k)
Stopping == StopBegins \/ Joins \/ JoinsPayload

Next == \/ Replug \/ Starting \/ ListenLoop \/ PresenceLoop \/ Begins
        \/ \E k \in 1 .. MaxTransfers : Payload(k)
        \/ \E d \in dismissals : Dismiss(d)
        \/ Reset \/ Stopping

\* Every thread runs on, stop() once it was called; every transfer ends by a
\* time-out.  A probe waits for the lock, so one that is tried again and again
\* finds it free: nobody holds it for good.
Fairness == /\ WF_vars(Starting) /\ WF_vars(ListenLoop) /\ WF_vars(PresenceLoop)
            /\ WF_vars(~Up /\ Stopping)
            /\ \A k \in 1 .. MaxTransfers : WF_vars(Payload(k))
            /\ SF_vars(TickBegins /\ lock = Free)

Spec == Init /\ [][Next]_vars /\ Fairness

-----------------------------------------------------------------------------
(* Properties.                                                             *)

Step == {"stop", "listener", "presence", "startup", "payload"}
ListenerAt == {"off", "loop", "wait", "receive", "ended"}
PresenceAt == {"off", "tick", "probed", "show", "announce", "sending", "ended"}
PayloadAt == {"begin", "try", "hold", "moved", "failed", "ended"}

\* The port is held by one thread, and by the thread that thinks it holds it.
OneHolder ==
    /\ lock \in {Free, Listening, Announcing} \cup DOMAIN payload
    /\ (lock = Listening) <=> (listener.at = "receive")
    /\ (lock = Announcing) <=> (presence.at = "sending")
    /\ \A k \in DOMAIN payload : (lock = k) <=> (payload[k] = "hold")

\* Every variable has its type, and the port has one holder.
TypeOK ==
    /\ bus \in 0 .. MaxCables /\ plugs \in 0 .. MaxPlugs
    /\ {was_absent, known, down, fabric_was_connected} \subseteq BOOLEAN
    /\ listener \in [at : ListenerAt, stop : BOOLEAN, paused : BOOLEAN]
    /\ presence \in [at : PresenceAt, ok : BOOLEAN]
    /\ st \in [connected : BOOLEAN, busy : Nat, done : Nat, error : BOOLEAN]
    /\ payload \in Seq(PayloadAt) /\ todo \in Seq(Step)
    /\ {owned, st.busy, st.done} \subseteq DOMAIN payload \cup {NoTransfer}
    /\ OneHolder

\* However the port is contended, presence takes the cable for lost, and fails the
\* transfer in progress, only if it was away since presence last saw it.
NoFalseLoss == Lost => was_absent

\* The thread that takes down the result of a transfer after a while never takes
\* down the result of another one.
HarmlessDismissal == wiped.by = wiped.display

\* When the orchestrator is destroyed none of its loops runs on, even if stop() was
\* called while the startup thread was about to start them.
NothingLeftRunning == Gone => Over(listener.at) /\ Over(presence.at) /\ Over(startup)

\* stop() returns, whatever the other threads are about to do.  (Not if the startup
\* thread clears the flag of the listener again before stop() joins it.)
StopReturns == ~Up /\ startup = "ended" /\ listener.stop ~> Gone

\* Once the cables are left alone the window is told whether the cable is there.
PresenceSettles == <>[](Up => st.connected = Present)
=============================================================================
