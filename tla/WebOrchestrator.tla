--------------------------- MODULE WebOrchestrator ---------------------------
(***************************************************************************)
(* WebTransferOrchestrator (apps/web/src/lib/web_transfer_orchestrator.ts):*)
(* the handshake of the browser app.  One thread, many tasks: code runs    *)
(* undisturbed up to its next await, so every action below is the code     *)
(* between two awaits of one task, or one callback with the continuation   *)
(* of the promise it settles.  The tasks are                               *)
(*   sendToPeer, once per file the user drops;                             *)
(*   handleOffer / acceptPendingOffer -> runInboundAccept, per offer;      *)
(*   declinePendingOffer; maybeRetransmitOffer; tickPresence; the timers   *)
(*   of waitForAccept and waitForReady, which nothing clears.              *)
(* The other stations answer as the protocol says; any frame may be lost.  *)
(***************************************************************************)
EXTENDS Naturals

CONSTANTS
    Sends,      \* the sendToPeer calls of the user, and the sessions they make
    Inbound,    \* the sessions other stations offer
    None,       \* null
    Workloads,  \* bound: the sends and offers of a behaviour, one [sends, offers] of these
    Overlap     \* bound: whether the user drops a file while another is under way

ASSUME WebAssumption ==
    /\ None \notin Sends \cup Inbound /\ Overlap \in BOOLEAN
    /\ Workloads \subseteq [sends : SUBSET Sends, offers : SUBSET Inbound]

VARIABLES
    open,           \* receive_status: TRUE for open (and busy), FALSE for ask_first
    listen,         \* FabricLink.listenMode is not "off"
    poll,           \* listening is off, but its last poll has not returned
    activity,       \* linkActivity
    busy,
    offer,          \* outboundOffer
    awaiting,       \* awaitingReady
    pending,        \* pendingInbound
    dialog,         \* AppUiState.pendingOffer, the dialog on the screen
    failed,         \* AppUiState.errorMessage is set
    acceptWaiter,   \* whose promise acceptWaiter settles
    readyWaiter,
    timers,         \* timers still to fire: <<"accept" or "ready", send>>
    snd,            \* control of each sendToPeer
    rcv,            \* control of each runInboundAccept
    declining,      \* control of declinePendingOffer, per offer
    resend,         \* control of maybeRetransmitOffer
    out,            \* what the receiving station of each send has done
    offering,       \* the offers other stations still repeat
    heardReady      \* sends whose ready handleReady took in

link    == <<listen, poll>>
ui      == <<dialog, failed>>
waits   == <<acceptWaiter, readyWaiter, timers>>
tasks   == <<snd, rcv, declining, resend>>
session == <<activity, busy, offer, awaiting, pending>>
peer    == <<out, offering, heardReady>>
vars    == <<open, link, session, ui, waits, tasks, peer>>

Init ==
    /\ open \in BOOLEAN
    /\ listen = TRUE /\ poll = FALSE /\ activity = "idle"
    /\ busy = FALSE /\ offer = None /\ awaiting = FALSE
    /\ pending = None /\ dialog = None /\ failed = FALSE
    /\ acceptWaiter = None /\ readyWaiter = None /\ timers = {}
    /\ \E w \in Workloads :
          /\ snd = [s \in Sends |-> IF s \in w.sends THEN "new" ELSE "over"]
          /\ offering = w.offers
    /\ rcv = [o \in Inbound |-> "none"]
    /\ declining = [o \in Inbound |-> "none"] /\ resend = "none"
    /\ out = [s \in Sends |-> "new"] /\ heardReady = {}

Over == {"over", "no_accept", "no_ready"}

-----------------------------------------------------------------------------
(* The link.                                                               *)

\* syncListenMode: "off" while a payload is expected.
Listens(a) == a \in {"idle", "handshake"}

\* setListenMode; a poll that runs when listening is switched off is finished.
SetListen(on) == listen' = on /\ poll' = (~on /\ (listen \/ poll))

\* The same from the callback of a frame, with which the poll is over.
SetListenAfterFrame(on) == listen' = on /\ poll' = FALSE

\* setLinkActivity
SetActivity(a) == activity' = a /\ SetListen(Listens(a))
Resume == SetListen(Listens(activity))

\* receiveFileTransfer, too, hands on the session frames it meets.
Hearing == listen \/ poll \/ \E o \in Inbound : rcv[o] = "payload"

\* OUT transfers queue up behind the poll.
BusFree == ~poll

\* resetConnection of the USB session closes the device and leaves it "off".
Connected == /\ \A s \in Sends : snd[s] # "resetting"
             /\ \A o \in Inbound : rcv[o] # "resetting" /\ declining[o] # "resetting"
UsbReset == listen' = FALSE /\ poll' = FALSE

PollEnds ==
    /\ poll /\ poll' = FALSE
    /\ UNCHANGED <<open, listen, session, ui, waits, tasks, peer>>

-----------------------------------------------------------------------------
(* sendToPeer.                                                             *)

Send(s) ==
    /\ snd[s] = "new" /\ ~busy /\ Connected /\ pending = None
    /\ Overlap \/ \A t \in Sends : snd[t] \in {"new"} \cup Over
    /\ snd' = [snd EXCEPT ![s] = "reading"]
    /\ UNCHANGED <<open, link, session, ui, waits, rcv, declining, resend, peer>>

\* readFilePayload, then pauseListener and a pause of 50 ms.
FileRead(s) ==
    /\ snd[s] = "reading" /\ snd' = [snd EXCEPT ![s] = "pausing"]
    /\ SetListen(FALSE)
    /\ UNCHANGED <<open, session, ui, waits, rcv, declining, resend, peer>>

FileUnreadable(s) ==
    /\ snd[s] = "reading" /\ snd' = [snd EXCEPT ![s] = "over"]
    /\ failed' = TRUE
    /\ UNCHANGED <<open, link, session, dialog, waits, rcv, declining, resend, peer>>

SendBegins(s) ==
    /\ snd[s] = "pausing" /\ snd' = [snd EXCEPT ![s] = "offering"]
    /\ SetActivity("handshake")
    /\ busy' = TRUE /\ offer' = s /\ awaiting' = FALSE /\ failed' = FALSE
    /\ UNCHANGED <<open, pending, dialog, waits, rcv, declining, resend, peer>>

\* The offer is on the wire; whether the peer listened is another matter.
PeerMayHear(s) == out' \in {out, [out EXCEPT ![s] = IF @ = "new" THEN "heard" ELSE @]}

OfferSent(s) ==
    /\ snd[s] = "offering" /\ BusFree /\ snd' = [snd EXCEPT ![s] = "gap"]
    /\ PeerMayHear(s)
    /\ UNCHANGED <<open, link, session, ui, waits, rcv, declining, resend,
                   offering, heardReady>>

StaysBusy == busy' = busy
Freed == busy' = FALSE

\* What a send that fails before its payload does: finishTransfer included.
Unoffered(s, how) ==
    /\ snd' = [snd EXCEPT ![s] = how]
    /\ offer' = None /\ Freed /\ SetActivity("idle")
    /\ dialog' = None /\ failed' = TRUE
    /\ UNCHANGED <<open, awaiting, pending, rcv, declining, resend, peer>>

OfferFails(s) == snd[s] = "offering" /\ Unoffered(s, "over") /\ UNCHANGED waits

\* The gap in which only the receiver is on the bus; then waitForAccept.
GapOver(s) ==
    /\ snd[s] = "gap" /\ snd' = [snd EXCEPT ![s] = "accept"]
    /\ SetActivity("handshake")
    /\ acceptWaiter' = s /\ timers' = timers \cup {<<"accept", s>>}
    /\ UNCHANGED <<open, busy, offer, awaiting, pending, ui, readyWaiter,
                   rcv, declining, resend, peer>>

\* The timer rejects whatever waits when it fires, its own send or a later one.
AcceptTimeout(s) ==
    /\ <<"accept", s>> \in timers /\ timers' = timers \ {<<"accept", s>>}
    /\ acceptWaiter' = None /\ UNCHANGED readyWaiter
    /\ \/ acceptWaiter = None
          /\ UNCHANGED <<open, link, session, ui, tasks, peer>>
       \/ acceptWaiter # None /\ Unoffered(acceptWaiter, "no_accept")

ReadyTimeout(s) ==
    /\ <<"ready", s>> \in timers /\ timers' = timers \ {<<"ready", s>>}
    /\ readyWaiter' = None /\ UNCHANGED acceptWaiter
    /\ \/ readyWaiter = None
          /\ UNCHANGED <<open, link, session, ui, tasks, peer>>
       \/ readyWaiter # None /\ Unoffered(readyWaiter, "no_ready")

\* prepareForPayloadSend: the bus idle, the interface released and claimed.
PayloadPrepared(s) ==
    /\ snd[s] = "preparing" /\ BusFree /\ snd' = [snd EXCEPT ![s] = "payload"]
    /\ UNCHANGED <<open, link, session, ui, waits, rcv, declining, resend, peer>>

\* The claim fails for good and the exception leaves sendToPeer as it stands.
ClaimFails(s) ==
    /\ snd[s] = "preparing" /\ BusFree /\ snd' = [snd EXCEPT ![s] = "claim_failed"]
    /\ failed' = TRUE
    /\ UNCHANGED <<open, link, session, dialog, waits, rcv, declining, resend, peer>>

PayloadEnds(s) ==
    /\ snd[s] = "payload" /\ snd' = [snd EXCEPT ![s] = "resetting"]
    /\ offer' = None /\ awaiting' = FALSE /\ busy' = FALSE /\ activity' = "idle"
    /\ dialog' = None /\ failed' \in BOOLEAN
    /\ UsbReset
    /\ UNCHANGED <<open, pending, waits, rcv, declining, resend, peer>>

SendReset(s) ==
    /\ snd[s] = "resetting" /\ snd' = [snd EXCEPT ![s] = "over"]
    /\ Resume
    /\ UNCHANGED <<open, session, ui, waits, rcv, declining, resend, peer>>

-----------------------------------------------------------------------------
(* maybeRetransmitOffer, every 100 ms.                                     *)

ResendBegins ==
    /\ resend = "none" /\ resend' = "pausing"
    /\ offer # None /\ ~awaiting /\ acceptWaiter # None
    /\ SetListen(FALSE)
    /\ UNCHANGED <<open, session, ui, waits, snd, rcv, declining, peer>>

Resent ==
    /\ resend = "pausing" /\ offer # None /\ BusFree /\ resend' = "gap"
    /\ PeerMayHear(offer)
    /\ UNCHANGED <<open, link, session, ui, waits, snd, rcv, declining,
                   offering, heardReady>>

\* After the gap; at once if the transfer fails or the offer is gone.
ResendOver ==
    /\ resend # "none" /\ resend' = "none"
    /\ Resume
    /\ UNCHANGED <<open, session, ui, waits, snd, rcv, declining, peer>>

-----------------------------------------------------------------------------
(* onSessionMessage: replies to an offer of this station.                  *)

AnySend(s) == offer # None
IsForOffer(s) == offer = s

Ignored == UNCHANGED <<session, ui, waits, tasks, heardReady, listen>> /\ poll' = FALSE

\* The send that waits for accept goes on to waitForReady.
HandleAccept(s) ==
    \/ ~IsForOffer(s) /\ Ignored
    \/ /\ IsForOffer(s) /\ awaiting' = TRUE
       /\ acceptWaiter' = None
       /\ \/ acceptWaiter = None /\ UNCHANGED <<snd, readyWaiter, timers>>
          \/ /\ acceptWaiter # None
             /\ snd' = [snd EXCEPT ![acceptWaiter] = "ready"]
             /\ readyWaiter' = acceptWaiter
             /\ timers' = timers \cup {<<"ready", acceptWaiter>>}
       /\ SetListenAfterFrame(listen)
       /\ UNCHANGED <<activity, busy, offer, pending, ui, rcv, declining, resend, heardReady>>

\* A ready without accept settles the waiter of accept, and then the waiter of
\* ready, which the send makes only when it runs again.
HandleReady(s) ==
    \/ ~IsForOffer(s) /\ Ignored
    \/ LET accepted == IF awaiting THEN None ELSE acceptWaiter IN
       /\ IsForOffer(s) /\ awaiting' = TRUE
       /\ acceptWaiter' = (IF awaiting THEN acceptWaiter ELSE None)
       /\ readyWaiter' = accepted
       /\ timers' = timers \cup {<<"ready", t>> : t \in {accepted} \ {None}}
       /\ snd' = [t \in Sends |-> CASE t = readyWaiter -> "preparing"
                                    [] t = accepted -> "ready"
                                    [] OTHER -> snd[t]]
       /\ activity' = "sending" /\ SetListenAfterFrame(FALSE)
       /\ heardReady' = heardReady \cup {s}
       /\ UNCHANGED <<busy, offer, pending, ui, rcv, declining, resend>>

KeepsWaiters == UNCHANGED <<acceptWaiter, readyWaiter>>
ForgetsWaiters == acceptWaiter' = None /\ readyWaiter' = None

\* rejectWaiters, and the sends that were waiting end.
RejectWaiters(how) ==
    /\ ForgetsWaiters
    /\ snd' = [s \in Sends |-> IF s \in {acceptWaiter, readyWaiter} THEN how ELSE snd[s]]
    /\ UNCHANGED timers

HandleDecline(s) ==
    \/ ~IsForOffer(s) /\ Ignored
    \/ /\ IsForOffer(s) /\ RejectWaiters("over")
       /\ offer' = None /\ awaiting' = FALSE /\ busy' = FALSE
       /\ activity' = "idle" /\ SetListenAfterFrame(TRUE)
       /\ dialog' = None /\ failed' = TRUE
       /\ UNCHANGED <<pending, rcv, declining, resend, heardReady>>

-----------------------------------------------------------------------------
(* Offers of other stations.                                               *)

\* runInboundAccept up to its first sleep.
Receive(o) ==
    /\ rcv' = [rcv EXCEPT ![o] = "replying"]
    /\ busy' = TRUE /\ pending' = o /\ activity' = "receiving"
    /\ dialog' = None /\ failed' = FALSE

HandleOffer(o) ==
    \/ busy /\ Ignored
    \/ ~busy /\ ~open /\ pending = o /\ Ignored        \* a repeated offer
    \/ /\ ~busy /\ open /\ rcv[o] = "none"             \* bound: one task per offer
       /\ Receive(o) /\ SetListenAfterFrame(FALSE)
       /\ UNCHANGED <<offer, awaiting, waits, snd, declining, resend, heardReady>>
    \/ /\ ~busy /\ ~open /\ pending # o                \* the newest offer wins
       /\ pending' = o /\ dialog' = o /\ failed' = FALSE
       /\ SetListenAfterFrame(listen)
       /\ UNCHANGED <<activity, busy, offer, awaiting, waits, tasks, heardReady>>

\* acceptPendingOffer from the dialog.
UserAccepts ==
    /\ dialog # None /\ pending # None /\ Connected /\ rcv[pending] = "none"
    /\ Receive(pending) /\ SetListen(FALSE)
    /\ UNCHANGED <<open, offer, awaiting, waits, snd, declining, resend, peer>>

Replied(o) ==
    /\ rcv[o] \in {"replying", "accepted"} /\ BusFree
    /\ rcv' = [rcv EXCEPT ![o] = IF @ = "replying" THEN "accepted" ELSE "payload"]
    /\ UNCHANGED <<open, link, session, ui, waits, snd, declining, resend, peer>>

\* A reply fails, the payload arrives, or the header is waited for in vain.
ReceiveEnds(o) ==
    /\ rcv[o] \in {"replying", "accepted", "payload"}
    /\ rcv' = [rcv EXCEPT ![o] = "resetting"]
    /\ pending' = None /\ busy' = FALSE /\ activity' = "idle"
    /\ dialog' = None
    /\ \/ failed' = TRUE
       \/ rcv[o] = "payload" /\ failed' = FALSE
    /\ UsbReset
    /\ UNCHANGED <<open, offer, awaiting, waits, snd, declining, resend, peer>>

ReceiveReset(o) ==
    /\ rcv[o] = "resetting" /\ rcv' = [rcv EXCEPT ![o] = "none"]
    /\ Resume
    /\ UNCHANGED <<open, session, ui, waits, snd, declining, resend, peer>>

\* declinePendingOffer, by the user or by the dialog's own timer.
UserDeclines ==
    /\ dialog # None /\ pending # None /\ declining[pending] = "none"
    /\ declining' = [declining EXCEPT ![pending] = "sending"]
    /\ pending' = None /\ dialog' = None
    /\ SetListen(FALSE)
    /\ UNCHANGED <<open, activity, busy, offer, awaiting, failed, waits, snd, rcv, resend, peer>>

DeclineSent(o) ==
    /\ declining[o] = "sending" /\ BusFree
    /\ declining' = [declining EXCEPT ![o] = "resetting"]
    /\ failed' \in {failed, TRUE} /\ UsbReset
    /\ UNCHANGED <<open, session, dialog, waits, snd, rcv, resend, peer>>

DeclineReset(o) ==
    /\ declining[o] = "resetting" /\ declining' = [declining EXCEPT ![o] = "none"]
    /\ Resume
    /\ UNCHANGED <<open, session, ui, waits, snd, rcv, resend, peer>>

-----------------------------------------------------------------------------
(* tickPresence and the Reset button.                                      *)

LeavesDialog == UNCHANGED dialog
ClosesDialog == dialog' = None

\* expireStalePendingOffer
OfferExpires ==
    /\ pending # None /\ ~busy /\ Connected
    /\ pending' = None /\ ClosesDialog
    /\ UNCHANGED <<open, link, activity, busy, offer, awaiting, failed, waits, tasks, peer>>

\* recoverStuckHandshakeState
StuckRecovers ==
    /\ ~busy /\ offer = None /\ pending = None /\ activity # "idle" /\ Connected
    /\ SetActivity("idle")
    /\ UNCHANGED <<open, busy, offer, awaiting, pending, ui, waits, tasks, peer>>

\* resetTransfer, offered on the screen of a failed transfer: clearTransferState,
\* then resetConnection of the orchestrator, after which nothing resumes.
UserResets ==
    /\ failed /\ ~busy /\ Connected
    /\ RejectWaiters("over")
    /\ offer' = None /\ awaiting' = FALSE /\ pending' = None /\ activity' = "idle"
    /\ dialog' = None /\ failed' = FALSE /\ UsbReset
    /\ UNCHANGED <<open, busy, rcv, declining, resend, peer>>

-----------------------------------------------------------------------------
(* The other stations.                                                     *)

Lost == UNCHANGED <<session, ui, waits, tasks, heardReady, link>>

\* accept_reply_delay_ms exceeds the gap of the sender.
PeerAccepts(s) ==
    /\ out[s] = "heard" /\ snd[s] # "gap" /\ out' = [out EXCEPT ![s] = "accepted"]
    /\ (Lost \/ (Hearing /\ HandleAccept(s)))
    /\ UNCHANGED <<open, offering>>

PeerIsReady(s) ==
    /\ out[s] = "accepted" /\ snd[s] # "gap" /\ out' = [out EXCEPT ![s] = "ready"]
    /\ (Lost \/ (Hearing /\ HandleReady(s)))
    /\ UNCHANGED <<open, offering>>

PeerDeclines(s) ==
    /\ out[s] = "heard" /\ out' = [out EXCEPT ![s] = "declined"]
    /\ (Lost \/ (Hearing /\ HandleDecline(s)))
    /\ UNCHANGED <<open, offering>>

OfferArrives(o) ==
    /\ o \in offering /\ Hearing
    /\ HandleOffer(o)
    /\ UNCHANGED <<open, out, offering>>

OffererStops(o) ==
    /\ o \in offering /\ offering' = offering \ {o}
    /\ UNCHANGED <<open, link, session, ui, waits, tasks, out, heardReady>>

-----------------------------------------------------------------------------
Sending(s) ==
    \/ FileRead(s) \/ FileUnreadable(s) \/ SendBegins(s) \/ OfferSent(s) \/ OfferFails(s)
    \/ GapOver(s) \/ PayloadPrepared(s) \/ ClaimFails(s) \/ PayloadEnds(s) \/ SendReset(s)
Resending == Resent \/ ResendOver
Receiving(o) == Replied(o) \/ ReceiveEnds(o) \/ ReceiveReset(o)
Declining(o) == DeclineSent(o) \/ DeclineReset(o)
Presence == OfferExpires \/ StuckRecovers

User == \/ \E s \in Sends : Send(s)
        \/ UserAccepts \/ UserDeclines \/ UserResets

Peers == \/ \E s \in Sends : PeerAccepts(s) \/ PeerIsReady(s) \/ PeerDeclines(s)
         \/ \E o \in Inbound : OfferArrives(o) \/ OffererStops(o)

Next == \/ User \/ Peers \/ PollEnds \/ ResendBegins \/ Resending \/ Presence
        \/ \E s \in Sends : Sending(s) \/ AcceptTimeout(s) \/ ReadyTimeout(s)
        \/ \E o \in Inbound : Receiving(o) \/ Declining(o)

\* Timers fire, USB transfers end and awaiting tasks go on; other stations stop
\* repeating an offer.  Nothing is assumed of users, replies or deliveries.
Fairness ==
    /\ \A s \in Sends : /\ WF_vars(Sending(s))
                        /\ WF_vars(AcceptTimeout(s)) /\ WF_vars(ReadyTimeout(s))
    /\ \A o \in Inbound : /\ WF_vars(Receiving(o)) /\ WF_vars(Declining(o))
                          /\ WF_vars(OffererStops(o))
    /\ WF_vars(PollEnds) /\ WF_vars(Resending) /\ WF_vars(Presence)

Spec == Init /\ [][Next]_vars /\ Fairness

-----------------------------------------------------------------------------
(* Properties.                                                             *)

\* Every variable has its type, and a waiter belongs to a send that waits.
TypeOK ==
    /\ {open, listen, poll, busy, awaiting, failed} \subseteq BOOLEAN
    /\ activity \in {"idle", "handshake", "receiving", "sending"}
    /\ offer \in Sends \cup {None} /\ {pending, dialog} \subseteq Inbound \cup {None}
    /\ acceptWaiter \in {None} \cup {s \in Sends : snd[s] = "accept"}
    /\ readyWaiter \in {None} \cup {s \in Sends : snd[s] = "ready"}
    /\ timers \subseteq {"accept", "ready"} \X Sends
    /\ snd \in [Sends -> {"new", "reading", "pausing", "offering", "gap", "accept", "ready",
                          "preparing", "payload", "claim_failed", "resetting"} \cup Over]
    /\ rcv \in [Inbound -> {"none", "replying", "accepted", "payload", "resetting"}]
    /\ declining \in [Inbound -> {"none", "sending", "resetting"}]
    /\ resend \in {"none", "pausing", "gap"}
    /\ out \in [Sends -> {"new", "heard", "accepted", "ready", "declined"}]
    /\ offering \subseteq Inbound /\ heardReady \subseteq Sends

\* The dialog's Accept takes whatever pendingInbound holds: it is always the
\* offer on the screen, although offers replace one another and expire.
AcceptsWhatIsShown == dialog # None => dialog = pending

\* The state of the app at any time: types, and a dialog that tells the truth.
DialogOK == TypeOK /\ AcceptsWhatIsShown

\* A payload leaves only in the session its receiver is ready for, whatever
\* replies to earlier offers and timers of earlier sends are still about.
SendsWhatWasAccepted == \A s \in Sends : snd[s] = "payload" => out[s] = "ready"

\* protocols/session.md:137: "if accept was dropped, treat ready as implicit
\* accept. Do not fail solely because accept never arrived."
ReadySuffices == \A s \in heardReady : snd[s] \notin {"no_accept", "no_ready"}

\* Nothing is under way.
AtRest ==
    /\ ~busy /\ offer = None /\ pending = None /\ dialog = None /\ activity = "idle"
    /\ acceptWaiter = None /\ readyWaiter = None
    /\ \A s \in Sends : snd[s] \in {"new"} \cup Over
    /\ \A o \in Inbound : rcv[o] = "none" /\ declining[o] = "none"
    /\ resend = "none"

\* Whatever is lost, every task ends and the station is free again -- unless the
\* interface cannot be claimed back before a payload.
Settles == <>[](AtRest \/ \E s \in Sends : snd[s] = "claim_failed")
=============================================================================
