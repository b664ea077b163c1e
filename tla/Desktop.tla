------------------------------ MODULE Desktop ------------------------------
(***************************************************************************)
(* The desktop window (apps/wx/main_frame.cpp) with its dialogs, its       *)
(* connection panel and its progress panel, over an orchestrator of which  *)
(* only what the window sees is kept: the members of OrchestratorUiState   *)
(* and the calls the window makes.  The list of peers has a module of its  *)
(* own, RosterPanel.                                                       *)
(*                                                                         *)
(* The orchestrator's threads publish copies of their state with CallAfter *)
(* and the window applies them later, in whatever event loop is running:   *)
(* every modal dialog runs one of its own on top of the code that opened   *)
(* it, so the dialogs form a stack and only the top one takes clicks, but  *)
(* timers and snapshots reach the lower ones.  A copy is made before it is *)
(* queued, so two threads may queue theirs in the other order.  The copy   *)
(* is one step here; publish_state makes it member by member, in most of   *)
(* its callers without the lock, so that a real one may mix two states.    *)
(***************************************************************************)
EXTENDS Naturals, Sequences, FiniteSets

CONSTANTS
    Offers,         \* session ids of the offers, in the order the peers make them
    None,           \* no offer, no copy
    DialogSecs,     \* accept_dialog_sec
    MaxQueue,       \* bound: snapshots queued
    MaxEvents       \* bound: events of the orchestrator and clicks in the window

ASSUME DesktopAssumption == /\ Offers \subseteq Nat /\ None \notin Offers
                            /\ DialogSecs \in Nat \ {0}
                            /\ {MaxQueue, MaxEvents} \subseteq Nat

VARIABLES
    alive,          \* orchestrator_ is set
    orch,           \* TransferOrchestrator::state_
    accepting,      \* accepting_inbound_session_id_ is set
    queue,          \* snapshots queued by CallAfter
    held,           \* the copy a thread has made and not yet queued
    ui,             \* what the window shows
    stack,          \* the modal dialogs, innermost last
    shown_offer,    \* shown_offer_id_
    prompted,       \* the offers a dialog was opened for
    answer,         \* the last answer: [shown, got], what it asked for and took
    signalled,      \* g_shutdown_requested
    closed,         \* OnClose has run
    resets,         \* reset threads of OnResetConnection that have not ended
    events

orchestrator == <<alive, orch, accepting>>
posts == <<queue, held>>
dialogs == <<stack, shown_offer, prompted, answer>>
frame == <<signalled, closed, resets>>
vars == <<orchestrator, posts, ui, dialogs, frame, events>>

NoOffer == None
Idle == [connected |-> FALSE, busy |-> FALSE, waiting |-> FALSE, pending |-> NoOffer,
         error |-> FALSE, done |-> FALSE]
State == [connected : BOOLEAN, busy : BOOLEAN, waiting : BOOLEAN,
          pending : Offers \cup {NoOffer}, error : BOOLEAN, done : BOOLEAN]

-----------------------------------------------------------------------------
(* What the panels make of a snapshot.                                     *)

\* derive_phase
Phase(s) == CASE s.busy /\ s.waiting -> "waiting"
              [] s.busy /\ ~s.waiting -> "transferring"
              [] ~s.busy /\ s.error -> "failed"
              [] ~s.busy /\ ~s.error /\ s.done -> "complete"
              [] OTHER -> "idle"

\* UpdateConnectionStatus: the light, and the pulse timer behind it
Link(s) == IF ~s.connected THEN "offline"
           ELSE IF s.busy THEN "transferring" ELSE "connected"

\* SyncConnectActions: which of the buttons is there
Button(s) == IF s.connected THEN "disconnect" ELSE "connect"

\* TransferProgressPanel::ApplyState shows Reset only for a failure.
View(s) == [link |-> Link(s), button |-> Button(s), phase |-> Phase(s),
            reset |-> Phase(s) = "failed"]

-----------------------------------------------------------------------------
Top == stack[Len(stack)]
IsTop(kind) == stack # << >> /\ Top.kind = kind /\ ~Top.decided
Below == SubSeq(stack, 1, Len(stack) - 1)
Dialog(kind, offer) == [kind |-> kind, offer |-> offer, secs |-> DialogSecs, decided |-> FALSE]
ModalDepth(st) == Cardinality({i \in DOMAIN st : st[i].kind = "settings"})
Happens == events < MaxEvents /\ events' = events + 1

Init == /\ alive = FALSE /\ orch = Idle /\ accepting = FALSE
        /\ queue = << >> /\ held = None
        /\ ui = View(Idle)
        /\ stack = << >> /\ shown_offer = NoOffer /\ prompted = {}
        /\ answer = [shown |-> NoOffer, got |-> NoOffer]
        /\ signalled = FALSE /\ closed = FALSE /\ resets = 0
        /\ events = 0

-----------------------------------------------------------------------------
(* The threads of the orchestrator.                                        *)

Becomes(s) == /\ alive /\ Happens /\ orch' = s
              /\ UNCHANGED <<alive, posts, ui, dialogs, frame>>

\* tick_presence: the cable is found or lost; a loss ends a transfer.
CableChanges ==
    /\ Becomes(IF orch.connected /\ orch.busy
               THEN [orch EXCEPT !.connected = FALSE, !.busy = FALSE, !.waiting = FALSE,
                                 !.error = TRUE]
               ELSE [orch EXCEPT !.connected = ~@])
    /\ UNCHANGED accepting

\* handle_offer of a station that asks first: it replaces the pending offer.
OfferArrives(o) ==
    /\ ~orch.busy /\ ~accepting /\ orch.connected
    /\ o \notin prompted \cup {orch.pending}
    /\ \A p \in Offers : p < o => p \in prompted \cup {orch.pending}
    /\ Becomes([orch EXCEPT !.pending = o, !.error = FALSE])
    /\ UNCHANGED accepting

\* run_inbound_payload of the accepted offer, or the payload of a send
PayloadBegins ==
    /\ IF orch.busy THEN orch.waiting ELSE accepting
    /\ Becomes([orch EXCEPT !.busy = TRUE, !.waiting = FALSE, !.error = FALSE])
    /\ UNCHANGED accepting

EndsStillWaiting(ok) ==
    /\ orch.busy \/ accepting
    /\ Becomes([orch EXCEPT !.busy = FALSE, !.error = ~ok, !.done = @ \/ ok])
    /\ accepting' = FALSE

\* finish_transfer; the notification of an earlier success outlives a failure.
TransferEnds(ok) ==
    /\ orch.busy \/ accepting
    /\ Becomes([orch EXCEPT !.busy = FALSE, !.waiting = FALSE, !.error = ~ok,
                            !.done = @ \/ ok])
    /\ accepting' = FALSE

\* schedule_dismiss_transfer_display
Dismisses == /\ orch.done /\ ~orch.busy
             /\ Becomes([orch EXCEPT !.done = FALSE])
             /\ UNCHANGED accepting

\* publish_state, by whichever thread: copies the state and queues the copy.
Copies == /\ alive /\ held = None /\ held' = orch
          /\ UNCHANGED <<orchestrator, queue, ui, dialogs, frame, events>>
Posts == /\ held # None /\ Len(queue) < MaxQueue
         /\ queue' = Append(queue, held) /\ held' = None
         /\ UNCHANGED <<orchestrator, ui, dialogs, frame, events>>
Publishes == /\ alive /\ Len(queue) < MaxQueue
             /\ queue' = Append(queue, orch)
             /\ UNCHANGED <<orchestrator, held, ui, dialogs, frame, events>>

-----------------------------------------------------------------------------
(* ApplyOrchestratorState and MaybeShowIncomingDialog, in the event loop    *)
(* of the dialogs st.  In the settings dialog only the offer is looked at.  *)

Asks(s) == s.pending # NoOffer /\ s.pending # shown_offer

MaybeShow(s, st) ==
    IF Asks(s)
    THEN /\ stack' = Append(st, Dialog("incoming", s.pending))
         /\ shown_offer' = s.pending /\ prompted' = prompted \cup {s.pending}
         /\ UNCHANGED answer
    ELSE stack' = st /\ UNCHANGED <<shown_offer, prompted, answer>>

DropsOfferInSettings(s, st) ==
    IF ModalDepth(st) > 0
    THEN UNCHANGED ui /\ stack' = st /\ UNCHANGED <<shown_offer, prompted, answer>>
    ELSE ui' = View(s) /\ MaybeShow(s, st)

HoldsWhileOffered(s, st) ==
    /\ IF ModalDepth(st) > 0 \/ shown_offer # NoOffer THEN UNCHANGED ui ELSE ui' = View(s)
    /\ MaybeShow(s, st)

Apply(s, st) ==
    /\ IF ModalDepth(st) > 0 THEN UNCHANGED ui ELSE ui' = View(s)
    /\ MaybeShow(s, st)

\* The event loop runs: no dialog is about to return from it.
Running == stack # << >> => ~Top.decided

\* The queued lambda does nothing once the window is being deleted.
NeverBeingDeleted == FALSE
IsBeingDeleted == closed

AppliesSnapshot ==
    /\ Running /\ queue # << >> /\ queue' = Tail(queue)
    /\ IF IsBeingDeleted THEN UNCHANGED <<ui, dialogs>> ELSE Apply(Head(queue), stack)
    /\ UNCHANGED <<orchestrator, held, frame, events>>

-----------------------------------------------------------------------------
(* IncomingDialog.  Decide calls accept_pending_offer or                   *)
(* decline_pending_offer, which take no session: they answer whatever is   *)
(* pending.                                                                *)

Declines(i) ==
    /\ shown_offer' = IF alive THEN NoOffer ELSE shown_offer
    /\ orch' = IF alive THEN [orch EXCEPT !.pending = NoOffer] ELSE orch
    /\ stack' = [stack EXCEPT ![i].decided = TRUE]
    /\ UNCHANGED <<alive, accepting, posts, ui, prompted, answer, frame, events>>

OnAccept ==
    /\ IsTop("incoming")
    /\ IF ~alive THEN UNCHANGED <<orch, accepting, shown_offer, answer>>
       ELSE /\ orch' = [orch EXCEPT !.pending = NoOffer]
            /\ accepting' = (accepting \/ orch.pending # NoOffer)
            /\ shown_offer' = NoOffer
            /\ answer' = [shown |-> Top.offer, got |-> orch.pending]
    /\ stack' = [stack EXCEPT ![Len(stack)].decided = TRUE]
    /\ UNCHANGED <<alive, posts, ui, prompted, frame, events>>

OnReject == IsTop("incoming") /\ Declines(Len(stack))

\* The countdown runs in every open dialog, also below another one.
OnCountdown(i) ==
    /\ Running /\ i \in DOMAIN stack /\ stack[i].kind = "incoming" /\ ~stack[i].decided
    /\ IF stack[i].secs > 1
       THEN /\ stack' = [stack EXCEPT ![i].secs = @ - 1]
            /\ UNCHANGED <<orchestrator, posts, ui, shown_offer, prompted, answer, frame, events>>
       ELSE Declines(i)

\* The close box of the title bar ends the dialog without a decision.
CloseBox ==
    /\ IsTop("incoming")
    /\ stack' = [stack EXCEPT ![Len(stack)].decided = TRUE]
    /\ UNCHANGED <<orchestrator, posts, ui, shown_offer, prompted, answer, frame, events>>

\* ShowModal of a decided dialog returns once it is the innermost one again.
Returns ==
    /\ stack # << >> /\ Top.decided
    /\ stack' = Below
    /\ UNCHANGED <<orchestrator, posts, ui, shown_offer, prompted, answer, frame, events>>

-----------------------------------------------------------------------------
(* The main window, which takes clicks only while no dialog is open.       *)

Click == stack = << >> /\ ~closed /\ Happens
Opens(kind) == /\ stack' = Append(stack, Dialog(kind, NoOffer))
               /\ UNCHANGED <<shown_offer, prompted, answer>>

\* OnSendRequested with files and a peer: send_to_peer unless it is busy.
OnSendRequested ==
    /\ Click /\ alive /\ ~orch.busy /\ ~accepting /\ orch.connected
    /\ orch' = [orch EXCEPT !.busy = TRUE, !.waiting = TRUE, !.error = FALSE]
    /\ UNCHANGED <<alive, accepting, posts, ui, dialogs, frame>>

OnSettings ==
    /\ Click /\ Opens("settings")
    /\ UNCHANGED <<orchestrator, posts, ui, frame>>

\* The settings dialog is closed, saved or not; saving only publishes.  The
\* window catches up with what it ignored in the meantime.
SettingsClosed ==
    /\ IsTop("settings")
    /\ IF alive THEN Apply(orch, Below)
       ELSE stack' = Below /\ UNCHANGED <<ui, shown_offer, prompted, answer>>
    /\ UNCHANGED <<orchestrator, posts, frame, events>>

\* StartOrchestrator, with the cable chosen.  A click on Connect, or the first
\* show of the window, finds no cable, one, or several to pick from.
StartOrchestrator == /\ alive' = TRUE /\ orch' = Idle /\ accepting' = FALSE
                     /\ UNCHANGED <<posts, ui, frame>>

\* Without a cable the connection panel is told so; the light stays as it is.
NoCable == ui' = [ui EXCEPT !.button = "connect"] /\ UNCHANGED orchestrator

OnConnectUsb ==
    /\ stack = << >> /\ ~closed /\ ~alive /\ ui.button = "connect" /\ UNCHANGED events
    /\ \/ StartOrchestrator /\ UNCHANGED dialogs
       \/ Opens("picker") /\ UNCHANGED <<orchestrator, posts, ui, frame>>
       \/ NoCable /\ UNCHANGED <<posts, dialogs, frame>>

\* pick_fabric_port_index returns a cable, or none.
CablePicked ==
    /\ IsTop("picker") /\ stack' = Below
    /\ StartOrchestrator
    /\ UNCHANGED <<shown_offer, prompted, answer, events>>
NonePicked ==
    /\ IsTop("picker") /\ stack' = Below
    /\ NoCable
    /\ UNCHANGED <<posts, shown_offer, prompted, answer, frame, events>>

MessageRead ==
    /\ IsTop("message") /\ stack' = Below
    /\ UNCHANGED <<orchestrator, posts, ui, shown_offer, prompted, answer, frame, events>>

\* stop() and reset() of orchestrator_: the threads are joined, a copy that one of
\* them holds is queued first.  A reset thread that is inside it then has a
\* pointer to nothing; what it does with that is not modelled.
Destroyed == /\ alive' = FALSE /\ orch' = Idle /\ accepting' = FALSE /\ held' = None
             /\ queue' = IF held = None THEN queue ELSE Append(queue, held)

OnDisconnectUsb ==
    /\ Click /\ alive /\ ui.button = "disconnect"
    /\ IF orch.busy \/ accepting
       THEN Opens("message") /\ UNCHANGED <<orchestrator, posts, ui, frame>>
       ELSE /\ Destroyed /\ ui' = View(Idle)
            /\ UNCHANGED <<dialogs, signalled, closed, resets>>

\* OnResetConnection starts a detached thread, one for each click.
OnResetConnection ==
    /\ Click /\ alive /\ ui.reset
    /\ resets' = resets + 1
    /\ UNCHANGED <<orchestrator, posts, ui, dialogs, signalled, closed>>

\* The thread: reset_connection, if there still is somebody to reset.
Resets ==
    /\ resets > 0 /\ resets' = resets - 1
    /\ IF alive
       THEN orch' = [Idle EXCEPT !.connected = orch.connected] /\ accepting' = FALSE
       ELSE UNCHANGED <<orch, accepting>>
    /\ UNCHANGED <<alive, posts, ui, dialogs, signalled, closed, events>>

\* OnClose, from the title bar or from OnShutdownPollTimer; the timer also runs
\* in the event loop of a dialog.
OnClose == /\ ~closed /\ closed' = TRUE
           /\ Destroyed
           /\ UNCHANGED <<ui, dialogs, signalled, resets>>

Signal == /\ ~signalled /\ ~closed /\ Happens /\ signalled' = TRUE
          /\ UNCHANGED <<orchestrator, posts, ui, dialogs, closed, resets>>
OnShutdownPollTimer == Running /\ signalled /\ OnClose /\ UNCHANGED events
ClosedByUser == stack = << >> /\ OnClose /\ UNCHANGED events

\* The frame is deleted when the last dialog has returned, and an orchestrator
\* started after OnClose with it.
FrameDeleted == /\ closed /\ stack = << >> /\ alive
                /\ Destroyed
                /\ UNCHANGED <<ui, dialogs, signalled, closed, resets, events>>

-----------------------------------------------------------------------------
Orchestrating == \/ CableChanges \/ PayloadBegins \/ Dismisses
                 \/ \E o \in Offers : OfferArrives(o)
                 \/ \E ok \in BOOLEAN : TransferEnds(ok)
Answering == OnAccept \/ OnReject \/ CloseBox \/ \E i \in 1 .. Len(stack) : OnCountdown(i)
Clicking == \/ OnSendRequested \/ OnSettings \/ SettingsClosed \/ OnConnectUsb
            \/ CablePicked \/ NonePicked \/ MessageRead \/ OnDisconnectUsb
            \/ OnResetConnection \/ ClosedByUser
Closing == Signal \/ OnShutdownPollTimer \/ FrameDeleted

Next == \/ Orchestrating \/ Copies \/ Posts \/ Publishes \/ AppliesSnapshot
        \/ Answering \/ Returns \/ Clicking \/ Resets \/ Closing

\* The presence thread publishes every second; the event loop handles what is
\* queued, its timers and the return of its dialogs; threads run on.
Fairness == /\ WF_vars(Copies) /\ WF_vars(Posts) /\ WF_vars(AppliesSnapshot)
            /\ WF_vars(Returns) /\ WF_vars(OnShutdownPollTimer)
            /\ \A i \in 1 .. Cardinality(Offers) + 1 : WF_vars(OnCountdown(i))

Spec == Init /\ [][Next]_vars /\ Fairness

-----------------------------------------------------------------------------
(* Properties.                                                             *)

TypeOK ==
    /\ alive \in BOOLEAN /\ orch \in State /\ accepting \in BOOLEAN
    /\ orch.waiting => orch.busy
    /\ queue \in Seq(State) /\ held \in State \cup {None}
    /\ \E s \in State : ui = [View(s) EXCEPT !.button = ui.button]
    /\ ui.button \in {"connect", "disconnect"}
    /\ \A i \in DOMAIN stack : stack[i] \in
           [kind : {"incoming", "settings", "picker", "message"},
            offer : Offers \cup {NoOffer}, secs : 1 .. DialogSecs, decided : BOOLEAN]
    /\ shown_offer \in Offers \cup {NoOffer} /\ prompted \subseteq Offers
    /\ closed \in BOOLEAN /\ signalled \in BOOLEAN /\ resets \in 0 .. MaxEvents

\* Once OnClose has run nobody is asked about an offer any more, and no answer or
\* countdown of a dialog that is still open reaches an orchestrator, not even one that
\* was started behind the closed window, from the list of cables.
ClosedWindowIsSilent ==
    [][closed => UNCHANGED <<prompted, answer>> /\ (Answering => UNCHANGED orchestrator)]_vars

\* However snapshots are delayed, reordered or ignored during the settings
\* dialog, once nothing happens any more the window shows the orchestrator it has.
CatchesUp == <>[](alive /\ ~closed /\ ModalDepth(stack) = 0 => ui = View(orch))

\* An offer that stays pending is put to the user, whatever dialog is open.
EveryOfferIsShown ==
    \A o \in Offers : orch.pending = o ~> (o \in prompted \/ orch.pending # o \/ closed)

\* What Accept starts is the offer the dialog shows.
AcceptsWhatIsShown == answer.got \in {NoOffer, answer.shown}
=============================================================================
