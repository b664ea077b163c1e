------------------------ MODULE WebOrchestratorProofs ------------------------
(***************************************************************************)
(* The browser app, for any number of sends and offers: the dialog always  *)
(* shows the offer that Accept would take; and, if files are dropped one   *)
(* at a time, a payload leaves only when the station it is for is ready.   *)
(***************************************************************************)
EXTENDS WebOrchestrator, TLAPS

Steps == {"new", "reading", "pausing", "offering", "gap", "accept", "ready",
          "preparing", "payload", "claim_failed", "resetting"} \cup Over

-----------------------------------------------------------------------------
(* The dialog.  DialogOK is inductive by itself.                           *)

\* A station starts with no dialog and no waiter.
LEMMA DialogInit == Init => DialogOK
<1> SUFFICES ASSUME Init PROVE DialogOK
  OBVIOUS
<1>1. snd \in [Sends -> {"new", "over"}] /\ offering \subseteq Inbound
  <2>1. PICK w \in Workloads : /\ snd = [s \in Sends |-> IF s \in w.sends THEN "new" ELSE "over"]
                               /\ offering = w.offers
    BY DEF Init
  <2> QED
    BY <2>1, WebAssumption
<1> QED
  BY <1>1 DEF Init, DialogOK, TypeOK, AcceptsWhatIsShown, Over

\* The clicks of the user.
LEMMA DialogUser == DialogOK /\ User => DialogOK'
<1> SUFFICES ASSUME DialogOK, User PROVE DialogOK'
  OBVIOUS
<1> USE WebAssumption DEF DialogOK, TypeOK, AcceptsWhatIsShown, Over
<1>1. ASSUME NEW s \in Sends, Send(s) PROVE DialogOK'
  BY <1>1 DEF Send, link, ui, waits, session, peer
<1>2. CASE UserAccepts
  BY <1>2 DEF UserAccepts, Receive, SetListen, waits, peer
<1>3. CASE UserDeclines
  BY <1>3 DEF UserDeclines, SetListen, waits, peer
<1>4. CASE UserResets
  BY <1>4 DEF UserResets, RejectWaiters, ForgetsWaiters, UsbReset, peer
<1> QED
  BY <1>1, <1>2, <1>3, <1>4 DEF User

\* The steps of sendToPeer.
LEMMA DialogSending ==
  ASSUME NEW s \in Sends, DialogOK, Sending(s)
  PROVE  DialogOK'
<1> USE WebAssumption DEF DialogOK, TypeOK, AcceptsWhatIsShown, Over
<1>1. CASE FileRead(s)
  BY <1>1 DEF FileRead, SetListen, ui, waits, session, peer
<1>2. CASE FileUnreadable(s)
  BY <1>2 DEF FileUnreadable, link, waits, session, peer
<1>3. CASE SendBegins(s)
  BY <1>3 DEF SendBegins, SetActivity, SetListen, Listens, waits, peer
<1>4. CASE OfferSent(s)
  BY <1>4 DEF OfferSent, PeerMayHear, link, ui, waits, session
<1>5. CASE OfferFails(s)
  BY <1>5 DEF OfferFails, Unoffered, Freed, SetActivity, SetListen, Listens, waits, peer
<1>6. CASE GapOver(s)
  BY <1>6 DEF GapOver, SetActivity, SetListen, Listens, ui, peer
<1>7. CASE PayloadPrepared(s)
  BY <1>7 DEF PayloadPrepared, link, ui, waits, session, peer
<1>8. CASE ClaimFails(s)
  BY <1>8 DEF ClaimFails, link, waits, session, peer
<1>9. CASE PayloadEnds(s)
  BY <1>9 DEF PayloadEnds, UsbReset, waits, peer
<1>10. CASE SendReset(s)
  BY <1>10 DEF SendReset, Resume, SetListen, Listens, ui, waits, session, peer
<1> QED
  BY <1>1, <1>2, <1>3, <1>4, <1>5, <1>6, <1>7, <1>8, <1>9, <1>10 DEF Sending

\* The two timers, whosever waiter they reject.
LEMMA DialogTimers ==
  ASSUME NEW s \in Sends, DialogOK, AcceptTimeout(s) \/ ReadyTimeout(s)
  PROVE  DialogOK'
<1> USE WebAssumption DEF DialogOK, TypeOK, AcceptsWhatIsShown, Over
<1>1. CASE AcceptTimeout(s)
  <2>1. CASE acceptWaiter = None
    BY <1>1, <2>1 DEF AcceptTimeout, link, ui, session, tasks, peer
  <2>2. CASE acceptWaiter # None
    <3>1. acceptWaiter \in Sends /\ acceptWaiter # readyWaiter /\ snd' = [snd EXCEPT ![acceptWaiter] = "no_accept"]
          /\ timers' \subseteq timers /\ acceptWaiter' = None /\ readyWaiter' = readyWaiter
      BY <1>1, <2>2 DEF AcceptTimeout, Unoffered
    <3>2. /\ readyWaiter' \in {None} \cup {t \in Sends : snd'[t] = "ready"}
          /\ snd' \in [Sends -> Steps]
      BY <3>1 DEF Steps
    <3>3. /\ offer' = None /\ busy' = FALSE /\ activity' = "idle" /\ listen' = TRUE
          /\ poll' = FALSE /\ dialog' = None /\ failed' = TRUE
          /\ UNCHANGED <<open, awaiting, pending, rcv, declining, resend, out, offering, heardReady>>
      BY <1>1, <2>2 DEF AcceptTimeout, Unoffered, Freed, SetActivity, SetListen, Listens, peer
    <3> QED
      BY <3>1, <3>2, <3>3 DEF Steps
  <2> QED
    BY <2>1, <2>2
<1>2. CASE ReadyTimeout(s)
  <2>1. CASE readyWaiter = None
    BY <1>2, <2>1 DEF ReadyTimeout, link, ui, session, tasks, peer
  <2>2. CASE readyWaiter # None
    <3>1. readyWaiter \in Sends /\ readyWaiter # acceptWaiter /\ snd' = [snd EXCEPT ![readyWaiter] = "no_ready"]
          /\ timers' \subseteq timers /\ readyWaiter' = None /\ acceptWaiter' = acceptWaiter
      BY <1>2, <2>2 DEF ReadyTimeout, Unoffered
    <3>2. /\ acceptWaiter' \in {None} \cup {t \in Sends : snd'[t] = "accept"}
          /\ snd' \in [Sends -> Steps]
      BY <3>1 DEF Steps
    <3>3. /\ offer' = None /\ busy' = FALSE /\ activity' = "idle" /\ listen' = TRUE
          /\ poll' = FALSE /\ dialog' = None /\ failed' = TRUE
          /\ UNCHANGED <<open, awaiting, pending, rcv, declining, resend, out, offering, heardReady>>
      BY <1>2, <2>2 DEF ReadyTimeout, Unoffered, Freed, SetActivity, SetListen, Listens, peer
    <3> QED
      BY <3>1, <3>2, <3>3 DEF Steps
  <2> QED
    BY <2>1, <2>2
<1> QED
  BY <1>1, <1>2

\* Replies of the station an offer went to.
LEMMA DialogReplies ==
  ASSUME NEW s \in Sends, DialogOK, PeerAccepts(s) \/ PeerIsReady(s) \/ PeerDeclines(s)
  PROVE  DialogOK'
<1> USE WebAssumption DEF DialogOK, TypeOK, AcceptsWhatIsShown, Over
<1>1. out' \in [Sends -> {"new", "heard", "accepted", "ready", "declined"}]
      /\ open' = open /\ offering' = offering
  BY DEF PeerAccepts, PeerIsReady, PeerDeclines
<1>2. CASE Lost
  BY <1>1, <1>2 DEF Lost, link, ui, waits, session, tasks
<1>3. CASE Ignored
  BY <1>1, <1>3 DEF Ignored, ui, waits, session, tasks
<1>4. CASE HandleAccept(s)
  <2>1. CASE acceptWaiter = None
    BY <1>1, <1>3, <1>4, <2>1 DEF HandleAccept, SetListenAfterFrame, ui
  <2>2. CASE acceptWaiter # None
    <3> SUFFICES ASSUME ~Ignored PROVE DialogOK'
      BY <1>3
    <3>1. /\ acceptWaiter \in Sends /\ snd' = [snd EXCEPT ![acceptWaiter] = "ready"]
          /\ acceptWaiter' = None /\ readyWaiter' = acceptWaiter
          /\ timers' = timers \cup {<<"ready", acceptWaiter>>}
      BY <1>4, <2>2 DEF HandleAccept
    <3>2. readyWaiter' \in {t \in Sends : snd'[t] = "ready"} /\ snd' \in [Sends -> Steps]
          /\ timers' \subseteq {"accept", "ready"} \X Sends
      BY <3>1 DEF Steps
    <3>3. /\ awaiting' = TRUE /\ listen' = listen /\ poll' = FALSE
          /\ UNCHANGED <<activity, busy, offer, pending, dialog, failed, rcv, declining,
                         resend, heardReady>>
      BY <1>4 DEF HandleAccept, SetListenAfterFrame, ui
    <3> QED
      BY <1>1, <3>1, <3>2, <3>3 DEF Steps
  <2> QED
    BY <2>1, <2>2
<1>5. CASE HandleReady(s)
  <2> SUFFICES ASSUME ~Ignored PROVE DialogOK'
    BY <1>3
  <2> DEFINE accepted == IF awaiting THEN None ELSE acceptWaiter
  <2>1. /\ awaiting' = TRUE
        /\ acceptWaiter' = (IF awaiting THEN acceptWaiter ELSE None)
        /\ readyWaiter' = accepted
        /\ timers' = timers \cup {<<"ready", t>> : t \in {accepted} \ {None}}
        /\ snd' = [t \in Sends |-> CASE t = readyWaiter -> "preparing"
                                     [] t = accepted -> "ready"
                                     [] OTHER -> snd[t]]
        /\ activity' = "sending" /\ listen' = FALSE /\ poll' = FALSE
        /\ heardReady' = heardReady \cup {s}
        /\ UNCHANGED <<busy, offer, pending, ui, rcv, declining, resend>>
    BY <1>5 DEF HandleReady, SetListenAfterFrame
  <2>2. accepted \in {None} \cup {t \in Sends : snd[t] = "accept"}
        /\ acceptWaiter' \in {None} \cup {t \in Sends : snd[t] = "accept"}
    BY <2>1
  <2>8. readyWaiter \in {None} \cup {t \in Sends : snd[t] = "ready"}
    OBVIOUS
  <2> HIDE DEF accepted
  <2>3. \A t \in Sends : (snd')[t] = (IF t = readyWaiter THEN "preparing"
                                    ELSE IF t = accepted THEN "ready" ELSE snd[t])
    BY <2>1, <2>2, <2>8
  <2>4. readyWaiter' \in {None} \cup {t \in Sends : snd'[t] = "ready"}
    BY <2>1, <2>2, <2>3
  <2>5. acceptWaiter' \in {None} \cup {t \in Sends : snd'[t] = "accept"}
    BY <2>1, <2>2, <2>3 DEF accepted
  <2>6. timers' \subseteq {"accept", "ready"} \X Sends
    BY <2>1, <2>2
  <2>7. snd' \in [Sends -> Steps]
    BY <2>1, <2>3 DEF Steps
  <2> QED
    BY <1>1, <2>1, <2>4, <2>5, <2>6, <2>7 DEF ui, Steps
<1>6. CASE HandleDecline(s)
  <2> SUFFICES ASSUME ~Ignored PROVE DialogOK'
    BY <1>3
  <2>1. \A t \in Sends : (snd')[t] \in {"over", snd[t]}
    BY <1>6 DEF HandleDecline, RejectWaiters
  <2>2. snd' \in [Sends -> Steps]
    BY <1>6, <2>1 DEF HandleDecline, RejectWaiters, Steps
  <2>3. /\ acceptWaiter' = None /\ readyWaiter' = None /\ timers' = timers
        /\ offer' = None /\ awaiting' = FALSE /\ busy' = FALSE /\ activity' = "idle"
        /\ listen' = TRUE /\ poll' = FALSE /\ dialog' = None /\ failed' = TRUE
        /\ UNCHANGED <<pending, rcv, declining, resend, heardReady>>
    BY <1>6 DEF HandleDecline, RejectWaiters, ForgetsWaiters, SetListenAfterFrame
  <2> QED
    BY <1>1, <2>2, <2>3 DEF Steps
<1> QED
  BY <1>2, <1>4, <1>5, <1>6 DEF PeerAccepts, PeerIsReady, PeerDeclines

\* Offers of other stations: a newer one takes the pending place and the dialog.
LEMMA DialogOffers ==
  ASSUME NEW o \in Inbound, DialogOK,
         OfferArrives(o) \/ OffererStops(o) \/ Receiving(o) \/ Declining(o)
  PROVE  DialogOK'
<1> USE WebAssumption DEF DialogOK, TypeOK, AcceptsWhatIsShown, Over
<1>1. CASE OffererStops(o)
  BY <1>1 DEF OffererStops, link, ui, waits, session, tasks
<1>2. CASE OfferArrives(o)
  <2>1. CASE Ignored
    BY <1>2, <2>1 DEF OfferArrives, Ignored, ui, waits, session, tasks
  <2>2. CASE Receive(o) /\ SetListenAfterFrame(FALSE)
             /\ UNCHANGED <<offer, awaiting, waits, snd, declining, resend, heardReady>>
    BY <1>2, <2>2 DEF OfferArrives, Receive, SetListenAfterFrame, waits
  <2>3. CASE pending' = o /\ dialog' = o /\ failed' = FALSE /\ SetListenAfterFrame(listen)
             /\ UNCHANGED <<activity, busy, offer, awaiting, waits, tasks, heardReady>>
    BY <1>2, <2>3 DEF OfferArrives, SetListenAfterFrame, waits, tasks
  <2> QED
    BY <1>2, <2>1, <2>2, <2>3 DEF OfferArrives, HandleOffer
<1>3. CASE Replied(o)
  BY <1>3 DEF Replied, link, ui, waits, session, peer
<1>4. CASE ReceiveEnds(o)
  BY <1>4 DEF ReceiveEnds, UsbReset, waits, peer
<1>5. CASE ReceiveReset(o)
  BY <1>5 DEF ReceiveReset, Resume, SetListen, Listens, ui, waits, session, peer
<1>6. CASE DeclineSent(o)
  BY <1>6 DEF DeclineSent, UsbReset, waits, session, peer
<1>7. CASE DeclineReset(o)
  BY <1>7 DEF DeclineReset, Resume, SetListen, Listens, ui, waits, session, peer
<1> QED
  BY <1>1, <1>2, <1>3, <1>4, <1>5, <1>6, <1>7 DEF Receiving, Declining

\* The rest: the poll, retransmission, presence.
LEMMA DialogOthers ==
  ASSUME DialogOK, PollEnds \/ ResendBegins \/ Resending \/ Presence \/ UNCHANGED vars
  PROVE  DialogOK'
<1> USE WebAssumption DEF DialogOK, TypeOK, AcceptsWhatIsShown, Over
<1>1. CASE PollEnds
  BY <1>1 DEF PollEnds, ui, waits, session, tasks, peer
<1>2. CASE ResendBegins
  BY <1>2 DEF ResendBegins, SetListen, ui, waits, session, peer
<1>3. CASE Resent
  BY <1>3 DEF Resent, PeerMayHear, link, ui, waits, session
<1>4. CASE ResendOver
  BY <1>4 DEF ResendOver, Resume, SetListen, Listens, ui, waits, session, peer
<1>5. CASE OfferExpires
  BY <1>5 DEF OfferExpires, ClosesDialog, link, waits, tasks, peer
<1>6. CASE StuckRecovers
  BY <1>6 DEF StuckRecovers, SetActivity, SetListen, Listens, ui, waits, tasks, peer
<1>7. CASE UNCHANGED vars
  BY <1>7 DEF vars, link, ui, waits, session, tasks, peer
<1> QED
  BY <1>1, <1>2, <1>3, <1>4, <1>5, <1>6, <1>7 DEF Resending, Presence

\* Accept in the dialog answers the offer on the screen: offers that replace one
\* another, expire, or are taken down by a transfer that ends never leave
\* AppUiState.pendingOffer on another session than pendingInbound.
THEOREM DialogTellsTheTruth == Spec => []DialogOK
<1>1. DialogOK /\ [Next]_vars => DialogOK'
  BY DialogUser, DialogSending, DialogTimers, DialogReplies, DialogOffers, DialogOthers
     DEF Next, Peers
<1> QED
  BY DialogInit, <1>1, PTL DEF Spec

-----------------------------------------------------------------------------
(* What a payload waits for.                                               *)

UnderWay(s) == snd[s] \notin {"new"} \cup Over
OneAtATime == \A s, t \in Sends : UnderWay(s) /\ UnderWay(t) => s = t

\* outboundOffer is the offer of the send under way, from its first frame on.
Offered == {"offering", "gap", "accept", "ready", "preparing", "payload", "claim_failed"}
OfferIsOut == offer # None => snd[offer] \in Offered

Released == {"preparing", "payload"}
ReadyFirst == \A s \in Sends : snd[s] \in Released => out[s] = "ready"

Ordered == OneAtATime /\ OfferIsOut /\ ReadyFirst

\* A send begins with its task, and only when there is no other.
LEMMA OrderedInit == Init => Ordered
<1> SUFFICES ASSUME Init PROVE Ordered
  OBVIOUS
<1>1. snd \in [Sends -> {"new", "over"}] /\ offer = None
  BY DEF Init
<1> QED
  BY <1>1 DEF Ordered, OneAtATime, OfferIsOut, ReadyFirst, UnderWay, Released, Over

\* A step that begins no send, offers nothing new, and releases only a send whose
\* peer is ready, keeps the order.
LEMMA OrderKept ==
  ASSUME DialogOK, Ordered, offer' \in {offer, None},
         \A t \in Sends : snd[t] \in {"new"} \cup Over => (snd')[t] \in {"new"} \cup Over,
         offer' # None => (snd')[offer] \in Offered,
         \A t \in Sends : (snd')[t] \in Released => snd[t] \in Released \/ (out')[t] = "ready",
         \A t \in Sends : out[t] = "ready" => (out')[t] = "ready"
  PROVE  Ordered'
<1>1. OneAtATime'
  BY DEF Ordered, OneAtATime, UnderWay
<1>2. OfferIsOut'
  BY DEF OfferIsOut
<1>3. ReadyFirst'
  BY DEF Ordered, ReadyFirst
<1> QED
  BY <1>1, <1>2, <1>3 DEF Ordered

\* The same when no send moves.
LEMMA OrderStays ==
  ASSUME DialogOK, Ordered, snd' = snd, offer' \in {offer, None},
         \A t \in Sends : out[t] = "ready" => (out')[t] = "ready"
  PROVE  Ordered'
  BY OrderKept DEF Ordered, OfferIsOut

\* The same when a send under way, s, moves to a state in which its peer need
\* not be ready, and keeps the offer, or drops it.
LEMMA OrderMoves ==
  ASSUME DialogOK, Ordered, NEW s \in Sends, UnderWay(s), NEW how,
         snd' = [snd EXCEPT ![s] = how], how \notin Released,
         how \in Offered \/ offer' = None \/ offer # s, offer' \in {offer, None},
         \A t \in Sends : out[t] = "ready" => (out')[t] = "ready"
  PROVE  Ordered'
<1>1. \A t \in Sends : (snd')[t] = IF t = s THEN how ELSE snd[t]
  BY DEF DialogOK, TypeOK
<1>2. \A t \in Sends : snd[t] \in {"new"} \cup Over => (snd')[t] \in {"new"} \cup Over
  BY <1>1 DEF UnderWay
<1>3. offer' # None => (snd')[offer] \in Offered
  BY <1>1 DEF Ordered, OfferIsOut, DialogOK, TypeOK
<1>4. \A t \in Sends : (snd')[t] \in Released => snd[t] \in Released \/ (out')[t] = "ready"
  BY <1>1
<1> QED
  BY <1>2, <1>3, <1>4, OrderKept

\* What a peer has heard of an offer takes nothing back.
LEMMA HearingKeeps ==
  ASSUME DialogOK, NEW s \in Sends, PeerMayHear(s)
  PROVE  \A t \in Sends : out[t] = "ready" => (out')[t] = "ready"
  BY DEF PeerMayHear, DialogOK, TypeOK

\* sendToPeer, if no file is dropped while another is on its way.
LEMMA OrderSending ==
  ASSUME ~Overlap, DialogOK, Ordered, NEW s \in Sends, Send(s) \/ Sending(s)
  PROVE  Ordered'
<1> USE WebAssumption
<1> DEFINE NothingTakenBack == \A t \in Sends : out[t] = "ready" => (out')[t] = "ready"
<1>1. CASE Send(s)
  <2>1. /\ \A t \in Sends : ~UnderWay(t)
        /\ \A t \in Sends : (snd')[t] = IF t = s THEN "reading" ELSE snd[t]
        /\ offer' = offer /\ out' = out
    BY <1>1 DEF Send, UnderWay, session, peer, DialogOK, TypeOK
  <2>2. offer = None
    BY <2>1 DEF Ordered, OfferIsOut, Offered, UnderWay, Over, DialogOK, TypeOK
  <2> QED
    BY <2>1, <2>2 DEF Ordered, OneAtATime, OfferIsOut, ReadyFirst, UnderWay, Released, Over
<1>2. CASE FileRead(s)
  <2>1. UnderWay(s) /\ offer # s
    BY <1>2 DEF FileRead, UnderWay, Over, Ordered, OfferIsOut, Offered
  <2>2. snd' = [snd EXCEPT ![s] = "pausing"] /\ offer' = offer /\ out' = out
    BY <1>2 DEF FileRead, session, peer
  <2> QED
    BY <2>1, <2>2, OrderMoves DEF Released
<1>3. CASE FileUnreadable(s)
  <2>1. UnderWay(s) /\ offer # s
    BY <1>3 DEF FileUnreadable, UnderWay, Over, Ordered, OfferIsOut, Offered
  <2>2. snd' = [snd EXCEPT ![s] = "over"] /\ offer' = offer /\ out' = out
    BY <1>3 DEF FileUnreadable, session, peer
  <2> QED
    BY <2>1, <2>2, OrderMoves DEF Released
<1>4. CASE SendBegins(s)
  <2>1. /\ UnderWay(s) /\ offer' = s /\ out' = out
        /\ \A t \in Sends : (snd')[t] = IF t = s THEN "offering" ELSE snd[t]
    BY <1>4 DEF SendBegins, UnderWay, Over, peer, DialogOK, TypeOK
  <2> QED
    BY <2>1 DEF Ordered, OneAtATime, OfferIsOut, ReadyFirst, UnderWay, Offered, Released, Over
<1>5. CASE OfferSent(s)
  <2>1. UnderWay(s) /\ NothingTakenBack
    BY <1>5, HearingKeeps DEF OfferSent, UnderWay, Over
  <2>2. snd' = [snd EXCEPT ![s] = "gap"] /\ offer' = offer
    BY <1>5 DEF OfferSent, session
  <2>3. "gap" \notin Released /\ "gap" \in Offered
    BY DEF Released, Offered
  <2> QED
    BY <2>1, <2>2, <2>3, OrderMoves
<1>6. CASE OfferFails(s)
  <2>1. UnderWay(s)
    BY <1>6 DEF OfferFails, UnderWay, Over
  <2>2. snd' = [snd EXCEPT ![s] = "over"] /\ offer' = None /\ out' = out
    BY <1>6 DEF OfferFails, Unoffered, peer
  <2> QED
    BY <2>1, <2>2, OrderMoves DEF Released
<1>7. CASE GapOver(s)
  <2>1. UnderWay(s)
    BY <1>7 DEF GapOver, UnderWay, Over
  <2>2. snd' = [snd EXCEPT ![s] = "accept"] /\ offer' = offer /\ out' = out
    BY <1>7 DEF GapOver, peer
  <2> QED
    BY <2>1, <2>2, OrderMoves DEF Released, Offered
<1>8. CASE PayloadPrepared(s)
  <2>1. /\ snd[s] = "preparing" /\ offer' = offer /\ out' = out
        /\ \A t \in Sends : (snd')[t] = IF t = s THEN "payload" ELSE snd[t]
    BY <1>8 DEF PayloadPrepared, session, peer, DialogOK, TypeOK
  <2>2. \A t \in Sends : snd[t] \in {"new"} \cup Over => (snd')[t] \in {"new"} \cup Over
    BY <2>1 DEF Over
  <2>3. offer # None => (snd')[offer] \in Offered
    BY <2>1 DEF Ordered, OfferIsOut, Offered, DialogOK, TypeOK
  <2>4. \A t \in Sends : (snd')[t] \in Released => snd[t] \in Released
    BY <2>1 DEF Released
  <2> QED
    BY <2>1, <2>2, <2>3, <2>4, OrderKept
<1>9. CASE ClaimFails(s)
  <2>1. UnderWay(s)
    BY <1>9 DEF ClaimFails, UnderWay, Over
  <2>2. snd' = [snd EXCEPT ![s] = "claim_failed"] /\ offer' = offer /\ out' = out
    BY <1>9 DEF ClaimFails, session, peer
  <2> QED
    BY <2>1, <2>2, OrderMoves DEF Released, Offered
<1>10. CASE PayloadEnds(s)
  <2>1. UnderWay(s)
    BY <1>10 DEF PayloadEnds, UnderWay, Over
  <2>2. snd' = [snd EXCEPT ![s] = "resetting"] /\ offer' = None /\ out' = out
    BY <1>10 DEF PayloadEnds, peer
  <2> QED
    BY <2>1, <2>2, OrderMoves DEF Released
<1>11. CASE SendReset(s)
  <2>1. UnderWay(s) /\ offer # s
    BY <1>11 DEF SendReset, UnderWay, Over, Ordered, OfferIsOut, Offered
  <2>2. snd' = [snd EXCEPT ![s] = "over"] /\ offer' = offer /\ out' = out
    BY <1>11 DEF SendReset, session, peer
  <2> QED
    BY <2>1, <2>2, OrderMoves DEF Released
<1> QED
  BY <1>1, <1>2, <1>3, <1>4, <1>5, <1>6, <1>7, <1>8, <1>9, <1>10, <1>11 DEF Sending

\* A timer ends the send it finds waiting, if there is one, and its offer.
LEMMA OrderTimers ==
  ASSUME DialogOK, Ordered, NEW s \in Sends, AcceptTimeout(s) \/ ReadyTimeout(s)
  PROVE  Ordered'
<1> USE WebAssumption
<1>1. CASE snd' = snd /\ offer' = offer /\ out' = out
  BY <1>1, OrderStays
<1>2. ASSUME NEW t \in {acceptWaiter, readyWaiter}, t # None,
             NEW how \in Over, Unoffered(t, how)
      PROVE  Ordered'
  <2>1. t \in Sends /\ UnderWay(t)
    BY <1>2 DEF UnderWay, Over, DialogOK, TypeOK
  <2>2. snd' = [snd EXCEPT ![t] = how] /\ offer' = None /\ out' = out
    BY <1>2 DEF Unoffered, peer
  <2>3. how \notin Released
    BY DEF Over, Released
  <2> QED
    BY <2>1, <2>2, <2>3, OrderMoves
<1> QED
  BY <1>1, <1>2 DEF AcceptTimeout, ReadyTimeout, session, tasks, peer, Over

\* The waiter of a reply to the present offer is the send the offer is of.
LEMMA WaiterIsOffered ==
  ASSUME DialogOK, Ordered, NEW s \in Sends, offer = s
  PROVE  {acceptWaiter, readyWaiter} \subseteq {None, s}
<1>1. UnderWay(s)
  BY WebAssumption DEF Ordered, OfferIsOut, Offered, UnderWay, Over
<1>2. acceptWaiter # None => acceptWaiter \in Sends /\ UnderWay(acceptWaiter)
  BY DEF DialogOK, TypeOK, UnderWay, Over
<1>3. readyWaiter # None => readyWaiter \in Sends /\ UnderWay(readyWaiter)
  BY DEF DialogOK, TypeOK, UnderWay, Over
<1> QED
  BY <1>1, <1>2, <1>3 DEF Ordered, OneAtATime

\* Dropping every waiter, with the offer, ends the sends that waited.
LEMMA OrderRejects ==
  ASSUME DialogOK, Ordered, RejectWaiters("over"), offer' = None,
         \A t \in Sends : out[t] = "ready" => (out')[t] = "ready"
  PROVE  Ordered'
<1>1. \A t \in Sends : (snd')[t] \in {"over", snd[t]}
  BY DEF RejectWaiters
<1>2. \A t \in Sends : snd[t] \in {"new"} \cup Over => (snd')[t] \in {"new"} \cup Over
  BY <1>1 DEF Over
<1>3. \A t \in Sends : (snd')[t] \in Released => snd[t] \in Released
  BY <1>1 DEF Released
<1> QED
  BY <1>2, <1>3, OrderKept

\* Replies: only the ready of the present offer releases a send, and it is that
\* offer's send.
LEMMA OrderReplies ==
  ASSUME DialogOK, Ordered, NEW s \in Sends,
         PeerAccepts(s) \/ PeerIsReady(s) \/ PeerDeclines(s)
  PROVE  Ordered'
<1> USE WebAssumption
<1>1. \A t \in Sends : out[t] = "ready" => (out')[t] = "ready"
  BY DEF PeerAccepts, PeerIsReady, PeerDeclines, DialogOK, TypeOK
<1>2. CASE Lost \/ Ignored
  <2>1. snd' = snd /\ offer' = offer
    BY <1>2 DEF Lost, Ignored, session, tasks
  <2> QED
    BY <1>1, <2>1, OrderStays
<1>3. CASE PeerAccepts(s) /\ HandleAccept(s) /\ ~Ignored
  <2>1. offer = s /\ offer' = offer
    BY <1>3 DEF HandleAccept, IsForOffer
  <2>2. CASE acceptWaiter = None
    <3>1. snd' = snd
      BY <1>3, <2>2 DEF HandleAccept
    <3> QED
      BY <1>1, <2>1, <3>1, OrderStays
  <2>3. CASE acceptWaiter # None
    <3>1. acceptWaiter \in Sends /\ UnderWay(acceptWaiter)
      BY <2>3 DEF DialogOK, TypeOK, UnderWay, Over
    <3>2. snd' = [snd EXCEPT ![acceptWaiter] = "ready"]
      BY <1>3, <2>3 DEF HandleAccept
    <3> QED
      BY <1>1, <2>1, <3>1, <3>2, OrderMoves DEF Released, Offered
  <2> QED
    BY <2>2, <2>3
<1>4. CASE PeerIsReady(s) /\ HandleReady(s) /\ ~Ignored
  <2>1. offer = s /\ offer' = offer /\ (out')[s] = "ready"
    BY <1>4 DEF PeerIsReady, HandleReady, IsForOffer, DialogOK, TypeOK
  <2>2. {acceptWaiter, readyWaiter} \subseteq {None, s}
    BY <2>1, WaiterIsOffered
  <2>3. \A t \in Sends : (snd')[t] = snd[t] \/ (t = s /\ (snd')[t] \in {"preparing", "ready"})
    <3>1. snd' = [t \in Sends |-> CASE t = readyWaiter -> "preparing"
                                     [] t = (IF awaiting THEN None ELSE acceptWaiter) -> "ready"
                                     [] OTHER -> snd[t]]
      BY <1>4 DEF HandleReady
    <3> TAKE t \in Sends
    <3>2. t # None
      OBVIOUS
    <3>3. CASE t = s
      BY <3>1, <3>3
    <3>4. CASE t # s
      BY <2>2, <3>1, <3>2, <3>4
    <3> QED
      BY <3>3, <3>4
  <2>4. snd[s] \in Offered
    BY <2>1 DEF Ordered, OfferIsOut
  <2>5. \A t \in Sends : snd[t] \in {"new"} \cup Over => (snd')[t] \in {"new"} \cup Over
    BY <2>3, <2>4 DEF Offered, Over
  <2>6. (snd')[offer] \in Offered
    BY <2>1, <2>3, <2>4 DEF Offered
  <2>7. \A t \in Sends : (snd')[t] \in Released => snd[t] \in Released \/ (out')[t] = "ready"
    BY <2>1, <2>3
  <2> QED
    BY <1>1, <2>1, <2>5, <2>6, <2>7, OrderKept
<1>5. CASE PeerDeclines(s) /\ HandleDecline(s) /\ ~Ignored
  <2>1. RejectWaiters("over") /\ offer' = None
    BY <1>5 DEF HandleDecline
  <2> QED
    BY <1>1, <2>1, OrderRejects
<1> QED
  BY <1>2, <1>3, <1>4, <1>5 DEF PeerAccepts, PeerIsReady, PeerDeclines

\* The other tasks never move a send; the Reset button ends those that wait.
LEMMA OrderOthers ==
  ASSUME DialogOK, Ordered,
         \/ PollEnds \/ ResendBegins \/ Resending \/ Presence \/ UNCHANGED vars
         \/ UserAccepts \/ UserDeclines \/ UserResets
         \/ \E o \in Inbound : OfferArrives(o) \/ OffererStops(o) \/ Receiving(o) \/ Declining(o)
  PROVE  Ordered'
<1>1. CASE UserResets
  <2>1. RejectWaiters("over") /\ offer' = None /\ out' = out
    BY <1>1 DEF UserResets, peer
  <2> QED
    BY <2>1, OrderRejects
<1>2. CASE Resent
  <2>1. offer \in Sends /\ snd' = snd /\ offer' = offer /\ PeerMayHear(offer)
    BY <1>2 DEF Resent, session, DialogOK, TypeOK
  <2>2. \A t \in Sends : out[t] = "ready" => (out')[t] = "ready"
    BY <2>1, HearingKeeps
  <2> QED
    BY <2>1, <2>2, OrderStays
<1>3. CASE PollEnds \/ ResendBegins \/ ResendOver \/ Presence \/ UNCHANGED vars
           \/ UserAccepts \/ UserDeclines
  <2>1. snd' = snd /\ offer' = offer /\ out' = out
    BY <1>3 DEF PollEnds, ResendBegins, ResendOver, Presence, OfferExpires, StuckRecovers,
                UserAccepts, UserDeclines, vars, session, tasks, peer
  <2> QED
    BY <2>1, OrderStays
<1>4. ASSUME NEW o \in Inbound,
             OfferArrives(o) \/ OffererStops(o) \/ Receiving(o) \/ Declining(o)
      PROVE  Ordered'
  <2>1. CASE OfferArrives(o)
    <3>1. snd' = snd /\ offer' = offer /\ out' = out
      BY <2>1 DEF OfferArrives, HandleOffer, Ignored, session, tasks
    <3> QED
      BY <3>1, OrderStays
  <2>2. CASE OffererStops(o) \/ Receiving(o) \/ Declining(o)
    <3>1. snd' = snd /\ offer' = offer /\ out' = out
      BY <2>2 DEF OffererStops, Receiving, Replied, ReceiveEnds, ReceiveReset,
                  Declining, DeclineSent, DeclineReset, session, tasks, peer
    <3> QED
      BY <3>1, OrderStays
  <2> QED
    BY <1>4, <2>1, <2>2
<1> QED
  BY <1>1, <1>2, <1>3, <1>4 DEF Resending

\* If files are dropped one at a time, sendFileTransfer begins only in a session
\* whose receiver has said that it is ready for it: late replies to earlier
\* offers and timers of earlier sends, which nothing clears, never release it.
THEOREM PayloadOnlyWhenReady ==
  ASSUME ~Overlap
  PROVE  Spec => []SendsWhatWasAccepted
<1>1. DialogOK /\ Ordered /\ [Next]_vars => Ordered'
  BY OrderSending, OrderTimers, OrderReplies, OrderOthers DEF Next, User, Peers
<1>2. Ordered => SendsWhatWasAccepted
  BY DEF Ordered, ReadyFirst, Released, SendsWhatWasAccepted
<1> QED
  BY OrderedInit, DialogTellsTheTruth, <1>1, <1>2, PTL DEF Spec
=============================================================================
