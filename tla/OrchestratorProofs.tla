------------------------- MODULE OrchestratorProofs -------------------------
(***************************************************************************)
(* Theorems about Orchestrator: types, consent, that rest leaves no member *)
(* of a transfer set and no file staged, and that the file received is the *)
(* one offered.                                                            *)
(*                                                                         *)
(* For consent, a session is followed from the thread that makes it to the *)
(* thread that receives in it: what a station is offered was made by its   *)
(* peer, and a station that asks first has its user's consent from the     *)
(* moment a thread of its own is bound to accept.  For rest, each member   *)
(* that is set has a thread on its way to reset it.  Both hold for every   *)
(* number of sessions and cable losses, with every frame lost or late, and *)
(* with threads suspended anywhere.                                        *)
(*                                                                         *)
(* The two results about files are for prompt behaviours without a cable   *)
(* loss.  There the threads of a station take turns, each staged file has  *)
(* a thread that will remove it, and a station released to send in a       *)
(* session has a peer that can receive in no other.                        *)
(***************************************************************************)
EXTENDS Orchestrator, TLAPS

Made(s) == s \in 1..sessions
Own(n, s) == Made(s) /\ from[s] = n
Foreign(n, s) == Made(s) /\ from[s] = Peer(n)
Agreed(n, s) == /\ Foreign(n, s)
                /\ n \in AskFirst => s \in consented

\* What the control of a thread says of the session it is about.
UiOK(n, t) ==
    \/ t.at = "idle"
    \/ t.at \in {"stage", "join", "begin", "spawn"} /\ t.flow = "offer" /\ Own(n, t.s)
    \/ t.at \in {"join", "spawn"} /\ t.flow = "accept" /\ Agreed(n, t.s)
    \/ t.at \in {"join", "spawn"} /\ t.flow = "decline"
ListenerOK(n, t) ==
    \/ t.at \in {"idle", "finish", "start"}
    \/ t.at = "got" /\ (t.flow = "offer" => Foreign(n, t.s))
    \/ t.at \in {"busy_check", "post"} /\ Foreign(n, t.s)
    \/ t.at = "accept" /\ n \notin AskFirst
    \/ t.at \in {"join", "spawn"} /\ t.flow = "accept" /\ Agreed(n, t.s)
    \/ t.at \in {"join", "spawn"} /\ t.flow = "payload"
Offering == {"offer", "send_offer", "gap", "arm", "poll", "resend", "resume", "expire"}
Accepting == {"accept", "send_accept", "send_ready", "prepare", "receiving", "received", "leave"}
PayloadOK(n, p) == /\ p.at \in Offering => Own(n, p.s)
                   /\ p.at \in Accepting => Agreed(n, p.s)
PendingOK(n, r) == r.pending = NoSession \/ Foreign(n, r.pending)

Followed == \A n \in Node : /\ UiOK(n, th[n]["ui"]) /\ ListenerOK(n, th[n]["listener"])
                            /\ PayloadOK(n, pt[n]) /\ PendingOK(n, st[n])
ReceivedOK == \A r \in received : \E n \in Node : Agreed(n, r[1])

Inv == TypeOK /\ Followed /\ ReceivedOK

-----------------------------------------------------------------------------
\* There are two stations, so a station is the peer of its peer.
LEMMA PeerOfPeer == \A n \in Node : /\ Peer(n) \in Node /\ Peer(n) # n
                                    /\ \A m \in Node : m # n => m = Peer(n)
                                    /\ Peer(Peer(n)) = n
<1>1. PICK x, y \in Node : x # y /\ Node = {x, y}  BY StationsAssumption
<1>2. Peer(x) = y /\ Peer(y) = x  BY <1>1 DEF Peer
<1> QED  BY <1>1, <1>2

\* finish_transfer leaves the pending offer and payload_thread_ alone.
LEMMA FinishedMembers ==
    ASSUME NEW r \in Members, NEW how \in {"Sent", "Received", "Failed"}
    PROVE  /\ Finished(r, how) \in Members
           /\ Finished(r, how).pending = r.pending /\ Finished(r, how).joinable = r.joinable
<1>1. NoSession \in SessionOr0  BY BoundsAssumption DEF NoSession, SessionOr0
<1>2. CASE how = "Received" /\ r.accepting # NoSession
  BY <1>1, <1>2 DEF Finished, Members
<1>3. CASE ~(how = "Received" /\ r.accepting # NoSession)
  BY <1>1, <1>3 DEF Finished, Members
<1> QED  BY <1>2, <1>3

\* At the start no thread is about any session.
LEMMA InvInit == Init => Inv
<1> SUFFICES ASSUME Init PROVE Inv  OBVIOUS
<1>1. (CHOOSE n \in Node : TRUE) \in Node  BY StationsAssumption
<1>2. 0 \in SessionOr0  BY BoundsAssumption DEF SessionOr0
<1>3. TypeOK
  <2>1. st \in [Node -> Members]  BY <1>2 DEF Init, Members, NoSession
  <2>2. Idle \in Control  BY <1>2 DEF Idle, Control, NoSession
  <2>3. Quiet \in Errand  BY <1>2 DEF Quiet, Errand, NoSession
  <2>4. th \in [Node -> [{"ui", "listener"} -> Control]] /\ pt \in [Node -> Errand]
    BY <2>2, <2>3 DEF Init
  <2>5. \A n \in Node : pt[n].at = "none"  BY DEF Init, Quiet
  <2>6. /\ from \in [Session -> Node] /\ sessions \in SessionOr0
        /\ temp \subseteq Session /\ consented \subseteq Session
        /\ received \in SUBSET (Session \X Session)
    BY <1>1, <1>2 DEF Init
  <2>7. presence \in [Node -> {"idle", "finish"}] /\ losses \in 0..MaxLosses
    BY BoundsAssumption DEF Init
  <2> QED  BY <2>1, <2>4, <2>5, <2>6, <2>7 DEF Init, TypeOK
<1>4. Followed
  BY DEF Init, Followed, UiOK, ListenerOK, PayloadOK, PendingOK, Idle, Quiet, Offering, Accepting
<1> QED  BY <1>3, <1>4 DEF Inv, ReceivedOK, Init

-----------------------------------------------------------------------------
(* Steps that make no session and give no consent.  What is known of       *)
(* sessions stays then, and only what the step changes has to be looked at.*)

MembersKept == /\ st' \in [Node -> Members]
               /\ \A m \in Node : /\ st'[m].pending \in {NoSession, st[m].pending}
                                  /\ st'[m].joinable = st[m].joinable
PayloadsKept == /\ pt' \in [Node -> Errand]
                /\ \A m \in Node : /\ pt'[m].at # "none" => pt[m].at # "none"
                                   /\ PayloadOK(m, pt'[m])
ThreadsKept == /\ th' \in [Node -> [{"ui", "listener"} -> Control]]
               /\ \A m \in Node : UiOK(m, th'[m]["ui"]) /\ ListenerOK(m, th'[m]["listener"])
SessionsKept == /\ UNCHANGED <<sessions, from, consented, prompt>>
                /\ received' \in SUBSET (Session \X Session)
                /\ \A r \in received' : r \in received \/ \E n \in Node : Agreed(n, r[1])
                /\ presence' \in [Node -> {"idle", "finish"}]
                /\ temp' \subseteq temp /\ losses' \in 0..MaxLosses

\* A step that keeps sessions preserves Inv if what it leaves in members, payload
\* threads and the two other threads is in order.
LEMMA StepKeeps ==
    ASSUME Inv, SessionsKept, ThreadsKept,
           st' \in [Node -> Members], pt' \in [Node -> Errand],
           \A m \in Node : /\ pt'[m].at # "none" => st'[m].joinable
                           /\ PayloadOK(m, pt'[m]) /\ PendingOK(m, st'[m])
    PROVE  Inv'
<1>1. TypeOK'  BY DEF Inv, TypeOK, SessionsKept, ThreadsKept
<1>2. Followed'
  BY DEF Followed, UiOK, ListenerOK, PayloadOK, PendingOK, Agreed, Foreign, Own, Made,
         SessionsKept, ThreadsKept
<1>3. ReceivedOK'  BY DEF Inv, ReceivedOK, Agreed, Foreign, Made, SessionsKept
<1> QED  BY <1>1, <1>2, <1>3 DEF Inv

\* The same for a step that, besides, joins no thread and posts no offer.
LEMMA KeptKeeps ==
    ASSUME Inv, MembersKept, PayloadsKept, ThreadsKept, SessionsKept
    PROVE  Inv'
<1>1. \A m \in Node : /\ pt'[m].at # "none" => st'[m].joinable
                      /\ PayloadOK(m, pt'[m]) /\ PendingOK(m, st'[m])
  BY DEF Inv, TypeOK, Followed, PendingOK, MembersKept, PayloadsKept
<1> QED  BY <1>1, StepKeeps DEF MembersKept, PayloadsKept

\* The parts of a step: the members,
LEMMA SameMembers == Inv /\ st' = st => MembersKept
  BY DEF Inv, TypeOK, MembersKept
LEMMA NewMembers ==
    ASSUME Inv, NEW n \in Node, NEW r \in Members, st' = [st EXCEPT ![n] = r],
           r.pending \in {NoSession, st[n].pending}, r.joinable = st[n].joinable
    PROVE  MembersKept
  BY DEF Inv, TypeOK, MembersKept
LEMMA FinishedKept ==
    ASSUME Inv, NEW n \in Node, NEW how \in {"Sent", "Received", "Failed"},
           st' = [st EXCEPT ![n] = Finished(@, how)]
    PROVE  MembersKept
<1>1. st[n] \in Members  BY DEF Inv, TypeOK
<1> QED  BY <1>1, FinishedMembers, NewMembers

\* the payload threads,
LEMMA SamePayloads == Inv /\ pt' = pt => PayloadsKept
  BY DEF Inv, TypeOK, Followed, PayloadsKept
LEMMA PayloadExits == ASSUME Inv, NEW n \in Node, PtExit(n) PROVE PayloadsKept
<1>1. Quiet \in Errand
  BY BoundsAssumption DEF Quiet, Errand, NoSession, SessionOr0
<1>2. /\ pt' \in [Node -> Errand] /\ pt'[n].at = "none"
      /\ \A m \in Node : m # n => pt'[m] = pt[m]
  BY <1>1 DEF Inv, TypeOK, PtExit, Quiet
<1> QED  BY <1>2 DEF Inv, Followed, PayloadsKept, PayloadOK, Offering, Accepting
LEMMA PayloadMovesOn ==
    ASSUME Inv, NEW n \in Node,
           NEW l \in {"offer", "send_offer", "gap", "arm", "poll", "resend", "resume", "expire",
                      "failed", "accept", "send_accept", "send_ready", "prepare", "receiving",
                      "received", "leave", "decline", "send_decline", "payload", "sending"},
           PtMove(n, l), pt[n].at # "none",
           l \in Offering => pt[n].at \in Offering, l \in Accepting => pt[n].at \in Accepting
    PROVE  PayloadsKept
<1>1. pt \in [Node -> Errand]  BY DEF Inv, TypeOK
<1>2. /\ pt' \in [Node -> Errand] /\ pt'[n].at = l /\ pt'[n].s = pt[n].s
      /\ \A m \in Node : m # n => pt'[m] = pt[m]
  BY <1>1 DEF PtMove, Errand
<1> QED  BY <1>2 DEF Inv, Followed, PayloadsKept, PayloadOK

\* and the threads ui and listener.
LEMMA SameThreads == Inv /\ th' = th => ThreadsKept
  BY DEF Inv, TypeOK, Followed, ThreadsKept
LEMMA ThreadTurns ==
    ASSUME Inv, NEW n \in Node, NEW c \in {"ui", "listener"}, NEW t \in Control,
           th' = [th EXCEPT ![n][c] = t],
           c = "ui" => UiOK(n, t), c = "listener" => ListenerOK(n, t)
    PROVE  ThreadsKept
<1>1. /\ th' \in [Node -> [{"ui", "listener"} -> Control]] /\ th'[n][c] = t
      /\ \A m \in Node, d \in {"ui", "listener"} : m # n \/ d # c => th'[m][d] = th[m][d]
  BY DEF Inv, TypeOK
<1> QED  BY <1>1 DEF Inv, Followed, ThreadsKept
LEMMA ThreadReturns ==
    ASSUME Inv, NEW n \in Node, NEW c \in {"ui", "listener"}, Return(n, c)
    PROVE  ThreadsKept
<1>1. Idle \in Control /\ Idle.at = "idle"
  BY BoundsAssumption DEF Idle, Control, NoSession, SessionOr0
<1> QED  BY <1>1, ThreadTurns DEF Return, UiOK, ListenerOK
LEMMA ThreadMoves ==
    ASSUME Inv, NEW n \in Node, NEW c \in {"ui", "listener"},
           NEW l \in {"idle", "stage", "begin", "join", "spawn", "got", "busy_check", "post",
                      "accept", "finish", "start"},
           Move(n, c, l),
           c = "ui" => UiOK(n, [th[n][c] EXCEPT !.at = l]),
           c = "listener" => ListenerOK(n, [th[n][c] EXCEPT !.at = l])
    PROVE  ThreadsKept
<1>1. th[n][c] \in Control  BY DEF Inv, TypeOK
<1>2. th' = [th EXCEPT ![n][c] = [th[n][c] EXCEPT !.at = l]]  BY DEF Move
<1>3. [th[n][c] EXCEPT !.at = l] \in Control  BY <1>1 DEF Control
<1> QED  BY <1>2, <1>3, ThreadTurns
LEMMA FrameArrives ==
    ASSUME Inv, NEW n \in Node, NEW kind \in {"offer", "accept", "decline", "ready"},
           kind = "offer" => Own(n, pt[n].s), Delivered(n, kind, Mine(n)) \/ Lost
    PROVE  ThreadsKept
<1> DEFINE t == [at |-> "got", flow |-> kind, s |-> pt[n].s]
<1>1. CASE Lost  BY <1>1, SameThreads DEF Lost
<1>2. CASE Delivered(n, kind, Mine(n))
  <2>1. t \in Control  BY DEF Inv, TypeOK, Errand, Control
  <2>2. ListenerOK(Peer(n), t)  BY PeerOfPeer DEF ListenerOK, Own, Foreign
  <2>3. th' = [th EXCEPT ![Peer(n)]["listener"] = t]  BY <1>2 DEF Delivered, Mine
  <2> QED  BY <2>1, <2>2, <2>3, PeerOfPeer, ThreadTurns
<1> QED  BY <1>1, <1>2

-----------------------------------------------------------------------------
(* The payload threads.                                                    *)

\* The thread of an offer: its session stays the one the station made.
LEMMA OfferThreadKeeps ==
    ASSUME Inv, NEW n \in Node, OfferThread(n)
    PROVE  Inv'
<1> USE DEF PtAt, Mine
<1>1. st[n] \in Members /\ pt[n] \in Errand  BY DEF Inv, TypeOK
<1>2. NoSession \in SessionOr0  BY BoundsAssumption DEF NoSession, SessionOr0
<1>3. pt[n].at \in Offering => Own(n, pt[n].s)  BY DEF Inv, Followed, PayloadOK
<1>4. /\ presence \in [Node -> {"idle", "finish"}] /\ losses \in 0..MaxLosses
      /\ received \in SUBSET (Session \X Session)
  BY DEF Inv, TypeOK
<1>5. CASE Pauses(n, "offer", "send_offer")
  <2>1. MembersKept  BY <1>5, <1>1, <1>2 DEF Pauses, world, MembersKept, Members, Inv, TypeOK
  <2>2. PayloadsKept  BY <1>5, PayloadMovesOn DEF Pauses, world, Offering, Accepting
  <2>3. ThreadsKept  BY <1>5, SameThreads DEF Pauses, world
  <2>4. SessionsKept  BY <1>5, <1>4 DEF Pauses, world, SessionsKept
  <2> QED  BY <2>1, <2>2, <2>3, <2>4, KeptKeeps
<1>6. CASE OfferSent(n)
  <2>1. MembersKept  BY <1>6, SameMembers DEF OfferSent, world
  <2>2. PayloadsKept  BY <1>6, PayloadMovesOn DEF OfferSent, world, Offering, Accepting
  <2>3. ThreadsKept  BY <1>6, FrameArrives, <1>3 DEF OfferSent, world, Offering
  <2>4. SessionsKept  BY <1>6, <1>4 DEF OfferSent, world, SessionsKept
  <2> QED  BY <2>1, <2>2, <2>3, <2>4, KeptKeeps
<1>7. CASE OfferFails(n)
  <2>1. MembersKept  BY <1>7, SameMembers DEF OfferFails, world
  <2>2. PayloadsKept  BY <1>7, PayloadMovesOn DEF OfferFails, world, Offering, Accepting
  <2>3. ThreadsKept  BY <1>7, SameThreads DEF OfferFails, world
  <2>4. SessionsKept  BY <1>7, <1>4 DEF OfferFails, world, SessionsKept
  <2> QED  BY <2>1, <2>2, <2>3, <2>4, KeptKeeps
<1>8. CASE Rearm(n)
  <2>1. MembersKept  BY <1>8, <1>1, <1>2 DEF Rearm, world, MembersKept, Members, Inv, TypeOK
  <2>2. PayloadsKept  BY <1>8, PayloadMovesOn DEF Rearm, world, Offering, Accepting
  <2>3. ThreadsKept  BY <1>8, SameThreads DEF Rearm, world
  <2>4. SessionsKept  BY <1>8, <1>4 DEF Rearm, world, SessionsKept
  <2> QED  BY <2>1, <2>2, <2>3, <2>4, KeptKeeps
<1>9. CASE Arm(n)
  <2> DEFINE r == [st[n] EXCEPT !.staged = pt[n].s, !.offer = pt[n].s,
                                !.awaiting = FALSE, !.waiting = TRUE]
  <2>1. MembersKept
    <3>1. r \in Members /\ r.pending = st[n].pending /\ r.joinable = st[n].joinable
      BY <1>1 DEF Members, Errand
    <3>2. st' = [st EXCEPT ![n] = r]  BY <1>9 DEF Arm
    <3> QED  BY <3>1, <3>2, NewMembers
  <2>2. PayloadsKept  BY <1>9, PayloadMovesOn DEF Arm, world, Offering, Accepting
  <2>3. ThreadsKept  BY <1>9, SameThreads DEF Arm, world
  <2>4. SessionsKept  BY <1>9, <1>4 DEF Arm, world, SessionsKept
  <2> QED  BY <2>1, <2>2, <2>3, <2>4, KeptKeeps
<1>10. CASE LeavePoll(n)
  <2>1. MembersKept  BY <1>10, SameMembers DEF LeavePoll, world
  <2>2. PayloadsKept  BY <1>10, PayloadExits DEF LeavePoll, world
  <2>3. ThreadsKept  BY <1>10, SameThreads DEF LeavePoll, world
  <2>4. SessionsKept  BY <1>10, <1>4 DEF LeavePoll, world, SessionsKept
  <2> QED  BY <2>1, <2>2, <2>3, <2>4, KeptKeeps
<1>11. CASE Retransmit(n)
  <2>1. MembersKept  BY <1>11, <1>1, <1>2 DEF Retransmit, world, MembersKept, Members, Inv, TypeOK
  <2>2. PayloadsKept
    <3>1. /\ pt' \in [Node -> Errand] /\ pt'[n].at = "resend" /\ pt'[n].s = pt[n].s
          /\ \A m \in Node : m # n => pt'[m] = pt[m]
      BY <1>1, <1>11 DEF Retransmit, Errand, Inv, TypeOK
    <3> QED  BY <1>11, <3>1 DEF Retransmit, Inv, Followed, PayloadsKept, PayloadOK,
                                Offering, Accepting
  <2>3. ThreadsKept  BY <1>11, SameThreads DEF Retransmit, world
  <2>4. SessionsKept  BY <1>11, <1>4 DEF Retransmit, world, SessionsKept
  <2> QED  BY <2>1, <2>2, <2>3, <2>4, KeptKeeps
<1>12. CASE Resend(n)
  <2>1. MembersKept  BY <1>12, SameMembers DEF Resend, world
  <2>2. PayloadsKept  BY <1>12, PayloadMovesOn DEF Resend, world, Offering, Accepting
  <2>3. ThreadsKept  BY <1>12, FrameArrives, <1>3 DEF Resend, world, Offering
  <2>4. SessionsKept  BY <1>12, <1>4 DEF Resend, world, SessionsKept
  <2> QED  BY <2>1, <2>2, <2>3, <2>4, KeptKeeps
<1>13. CASE ResumeAfterResend(n)
  <2>1. MembersKept  BY <1>13, <1>1, <1>2 DEF ResumeAfterResend, world, MembersKept, Members, Inv, TypeOK
  <2>2. PayloadsKept  BY <1>13, PayloadMovesOn DEF ResumeAfterResend, world, Offering, Accepting
  <2>3. ThreadsKept  BY <1>13, SameThreads DEF ResumeAfterResend, world
  <2>4. SessionsKept  BY <1>13, <1>4 DEF ResumeAfterResend, world, SessionsKept
  <2> QED  BY <2>1, <2>2, <2>3, <2>4, KeptKeeps
<1>14. CASE TimeUp(n)
  <2>1. MembersKept  BY <1>14, SameMembers DEF TimeUp, world
  <2>2. PayloadsKept  BY <1>14, PayloadMovesOn DEF TimeUp, world, Offering, Accepting
  <2>3. ThreadsKept  BY <1>14, SameThreads DEF TimeUp, world
  <2>4. SessionsKept  BY <1>14, <1>4 DEF TimeUp, world, SessionsKept
  <2> QED  BY <2>1, <2>2, <2>3, <2>4, KeptKeeps
<1>15. CASE Expire(n)
  <2>1. MembersKept  BY <1>15, <1>1, <1>2 DEF Expire, RemovesTemp, world, MembersKept, Members, Inv, TypeOK
  <2>2. PayloadsKept  BY <1>15, PayloadMovesOn DEF Expire, RemovesTemp, world, Offering, Accepting
  <2>3. ThreadsKept  BY <1>15, SameThreads DEF Expire, RemovesTemp, world
  <2>4. SessionsKept  BY <1>15, <1>4 DEF Expire, RemovesTemp, world, SessionsKept
  <2> QED  BY <2>1, <2>2, <2>3, <2>4, KeptKeeps
<1>16. CASE FinishFailed(n)
  <2>1. MembersKept  BY <1>16, FinishedKept DEF FinishFailed, world
  <2>2. PayloadsKept  BY <1>16, PayloadExits DEF FinishFailed, world
  <2>3. ThreadsKept  BY <1>16, SameThreads DEF FinishFailed, world
  <2>4. SessionsKept  BY <1>16, <1>4 DEF FinishFailed, world, SessionsKept
  <2> QED  BY <2>1, <2>2, <2>3, <2>4, KeptKeeps
<1> QED  BY <1>5, <1>6, <1>7, <1>8, <1>9, <1>10, <1>11, <1>12, <1>13, <1>14, <1>15, <1>16 DEF OfferThread

\* The thread of an accepted offer: consent was given before it began.
LEMMA AcceptThreadKeeps ==
    ASSUME Inv, NEW n \in Node, AcceptThread(n)
    PROVE  Inv'
<1> USE DEF PtAt, Mine
<1>1. st[n] \in Members /\ pt[n] \in Errand  BY DEF Inv, TypeOK
<1>2. NoSession \in SessionOr0  BY BoundsAssumption DEF NoSession, SessionOr0
<1>3. pt[n].at \in Offering => Own(n, pt[n].s)  BY DEF Inv, Followed, PayloadOK
<1>4. /\ presence \in [Node -> {"idle", "finish"}] /\ losses \in 0..MaxLosses
      /\ received \in SUBSET (Session \X Session)
  BY DEF Inv, TypeOK
<1>5. CASE SkipCompleted(n)
  <2>1. MembersKept  BY <1>5, <1>1, <1>2 DEF SkipCompleted, world, MembersKept, Members, Inv, TypeOK
  <2>2. PayloadsKept  BY <1>5, PayloadExits DEF SkipCompleted, world
  <2>3. ThreadsKept  BY <1>5, SameThreads DEF SkipCompleted, world
  <2>4. SessionsKept  BY <1>5, <1>4 DEF SkipCompleted, world, SessionsKept
  <2> QED  BY <2>1, <2>2, <2>3, <2>4, KeptKeeps
<1>6. CASE PauseToAccept(n)
  <2>1. MembersKept  BY <1>6, <1>1, <1>2 DEF PauseToAccept, Pauses, world, MembersKept, Members, Inv, TypeOK
  <2>2. PayloadsKept  BY <1>6, PayloadMovesOn DEF PauseToAccept, Pauses, world, Offering, Accepting
  <2>3. ThreadsKept  BY <1>6, SameThreads DEF PauseToAccept, Pauses, world
  <2>4. SessionsKept  BY <1>6, <1>4 DEF PauseToAccept, Pauses, world, SessionsKept
  <2> QED  BY <2>1, <2>2, <2>3, <2>4, KeptKeeps
<1>7. CASE AcceptSent(n)
  <2>1. MembersKept  BY <1>7, SameMembers DEF AcceptSent, world
  <2>2. PayloadsKept  BY <1>7, PayloadMovesOn DEF AcceptSent, world, Offering, Accepting
  <2>3. ThreadsKept  BY <1>7, FrameArrives, <1>3 DEF AcceptSent, world, Offering
  <2>4. SessionsKept  BY <1>7, <1>4 DEF AcceptSent, world, SessionsKept
  <2> QED  BY <2>1, <2>2, <2>3, <2>4, KeptKeeps
<1>8. CASE AcceptFails(n)
  <2>1. MembersKept  BY <1>8, <1>1, <1>2 DEF AcceptFails, world, MembersKept, Members, Inv, TypeOK
  <2>2. PayloadsKept  BY <1>8, PayloadMovesOn DEF AcceptFails, world, Offering, Accepting
  <2>3. ThreadsKept  BY <1>8, SameThreads DEF AcceptFails, world
  <2>4. SessionsKept  BY <1>8, <1>4 DEF AcceptFails, world, SessionsKept
  <2> QED  BY <2>1, <2>2, <2>3, <2>4, KeptKeeps
<1>9. CASE ReadySent(n)
  <2>1. MembersKept  BY <1>9, <1>1, <1>2 DEF ReadySent, world, MembersKept, Members, Inv, TypeOK
  <2>2. PayloadsKept  BY <1>9, PayloadMovesOn DEF ReadySent, world, Offering, Accepting
  <2>3. ThreadsKept  BY <1>9, FrameArrives, <1>3 DEF ReadySent, world, Offering
  <2>4. SessionsKept  BY <1>9, <1>4 DEF ReadySent, world, SessionsKept
  <2> QED  BY <2>1, <2>2, <2>3, <2>4, KeptKeeps
<1>10. CASE ReadyFails(n)
  <2>1. MembersKept  BY <1>10, FinishedKept DEF ReadyFails, world
  <2>2. PayloadsKept  BY <1>10, PayloadMovesOn DEF ReadyFails, world, Offering, Accepting
  <2>3. ThreadsKept  BY <1>10, SameThreads DEF ReadyFails, world
  <2>4. SessionsKept  BY <1>10, <1>4 DEF ReadyFails, world, SessionsKept
  <2> QED  BY <2>1, <2>2, <2>3, <2>4, KeptKeeps
<1>11. CASE Prepare(n)
  <2>1. MembersKept  BY <1>11, <1>1, <1>2 DEF Prepare, world, MembersKept, Members, Inv, TypeOK
  <2>2. PayloadsKept  BY <1>11, PayloadMovesOn DEF Prepare, world, Offering, Accepting
  <2>3. ThreadsKept  BY <1>11, SameThreads DEF Prepare, world
  <2>4. SessionsKept  BY <1>11, <1>4 DEF Prepare, world, SessionsKept
  <2> QED  BY <2>1, <2>2, <2>3, <2>4, KeptKeeps
<1>12. CASE ReceiveFails(n)
  <2>1. MembersKept  BY <1>12, FinishedKept DEF ReceiveFails, world
  <2>2. PayloadsKept  BY <1>12, PayloadMovesOn DEF ReceiveFails, world, Offering, Accepting
  <2>3. ThreadsKept  BY <1>12, SameThreads DEF ReceiveFails, world
  <2>4. SessionsKept  BY <1>12, <1>4 DEF ReceiveFails, world, SessionsKept
  <2> QED  BY <2>1, <2>2, <2>3, <2>4, KeptKeeps
<1>13. CASE FinishReceived(n)
  <2>1. MembersKept  BY <1>13, FinishedKept DEF FinishReceived, world
  <2>2. PayloadsKept  BY <1>13, PayloadMovesOn DEF FinishReceived, world, Offering, Accepting
  <2>3. ThreadsKept  BY <1>13, SameThreads DEF FinishReceived, world
  <2>4. SessionsKept  BY <1>13, <1>4 DEF FinishReceived, world, SessionsKept
  <2> QED  BY <2>1, <2>2, <2>3, <2>4, KeptKeeps
<1>14. CASE Leave(n)
  <2>1. MembersKept  BY <1>14, <1>1, <1>2 DEF Leave, world, MembersKept, Members, Inv, TypeOK
  <2>2. PayloadsKept  BY <1>14, PayloadExits DEF Leave, world
  <2>3. ThreadsKept  BY <1>14, SameThreads DEF Leave, world
  <2>4. SessionsKept  BY <1>14, <1>4 DEF Leave, world, SessionsKept
  <2> QED  BY <2>1, <2>2, <2>3, <2>4, KeptKeeps
<1> QED  BY <1>5, <1>6, <1>7, <1>8, <1>9, <1>10, <1>11, <1>12, <1>13, <1>14 DEF AcceptThread

\* The thread of a declined offer.
LEMMA DeclineThreadKeeps ==
    ASSUME Inv, NEW n \in Node, DeclineThread(n)
    PROVE  Inv'
<1> USE DEF PtAt, Mine
<1>1. st[n] \in Members /\ pt[n] \in Errand  BY DEF Inv, TypeOK
<1>2. NoSession \in SessionOr0  BY BoundsAssumption DEF NoSession, SessionOr0
<1>3. pt[n].at \in Offering => Own(n, pt[n].s)  BY DEF Inv, Followed, PayloadOK
<1>4. /\ presence \in [Node -> {"idle", "finish"}] /\ losses \in 0..MaxLosses
      /\ received \in SUBSET (Session \X Session)
  BY DEF Inv, TypeOK
<1>5. CASE Pauses(n, "decline", "send_decline")
  <2>1. MembersKept  BY <1>5, <1>1, <1>2 DEF Pauses, world, MembersKept, Members, Inv, TypeOK
  <2>2. PayloadsKept  BY <1>5, PayloadMovesOn DEF Pauses, world, Offering, Accepting
  <2>3. ThreadsKept  BY <1>5, SameThreads DEF Pauses, world
  <2>4. SessionsKept  BY <1>5, <1>4 DEF Pauses, world, SessionsKept
  <2> QED  BY <2>1, <2>2, <2>3, <2>4, KeptKeeps
<1>6. CASE DeclineSent(n)
  <2>1. MembersKept  BY <1>6, <1>1, <1>2 DEF DeclineSent, world, MembersKept, Members, Inv, TypeOK
  <2>2. PayloadsKept  BY <1>6, PayloadExits DEF DeclineSent, world
  <2>3. ThreadsKept  BY <1>6, FrameArrives, <1>3 DEF DeclineSent, world, Offering
  <2>4. SessionsKept  BY <1>6, <1>4 DEF DeclineSent, world, SessionsKept
  <2> QED  BY <2>1, <2>2, <2>3, <2>4, KeptKeeps
<1> QED  BY <1>5, <1>6 DEF DeclineThread

\* The sender's payload thread.  What the peer receives, it receives in the session
\* its own thread is bound to.
LEMMA PayloadThreadKeeps ==
    ASSUME Inv, NEW n \in Node, PayloadThread(n)
    PROVE  Inv'
<1> USE DEF PtAt, Mine
<1>1. st[n] \in Members /\ pt[n] \in Errand  BY DEF Inv, TypeOK
<1>2. NoSession \in SessionOr0  BY BoundsAssumption DEF NoSession, SessionOr0
<1>3. pt[n].at \in Offering => Own(n, pt[n].s)  BY DEF Inv, Followed, PayloadOK
<1>4. /\ presence \in [Node -> {"idle", "finish"}] /\ losses \in 0..MaxLosses
      /\ received \in SUBSET (Session \X Session)
  BY DEF Inv, TypeOK
<1>5. CASE Pauses(n, "payload", "sending")
  <2>1. MembersKept  BY <1>5, <1>1, <1>2 DEF Pauses, world, MembersKept, Members, Inv, TypeOK
  <2>2. PayloadsKept  BY <1>5, PayloadMovesOn DEF Pauses, world, Offering, Accepting
  <2>3. ThreadsKept  BY <1>5, SameThreads DEF Pauses, world
  <2>4. SessionsKept  BY <1>5, <1>4 DEF Pauses, world, SessionsKept
  <2> QED  BY <2>1, <2>2, <2>3, <2>4, KeptKeeps
<1>6. CASE PayloadAlone(n)
  <2>1. MembersKept  BY <1>6, FinishedKept DEF PayloadAlone, RemovesTemp, world
  <2>2. PayloadsKept  BY <1>6, PayloadExits DEF PayloadAlone, RemovesTemp, world
  <2>3. ThreadsKept  BY <1>6, SameThreads DEF PayloadAlone, RemovesTemp, world
  <2>4. SessionsKept  BY <1>6, <1>4 DEF PayloadAlone, RemovesTemp, world, SessionsKept
  <2> QED  BY <2>1, <2>2, <2>3, <2>4, KeptKeeps
<1>7. CASE PayloadMoves(n)
  <2> DEFINE p == Peer(n)
  <2>1. /\ pt[p].at = "receiving" /\ pt[n].at = "sending" /\ pt[n].s \in temp
        /\ received' = received \cup {<<pt[p].s, pt[n].s>>}
        /\ pt' = [pt EXCEPT ![n] = Quiet, ![p].at = "received"]
        /\ p \in Node /\ p # n
    BY <1>7, PeerOfPeer DEF PayloadMoves
  <2>2. Agreed(p, pt[p].s)  BY <2>1 DEF Inv, Followed, PayloadOK, Accepting
  <2>3. pt[p].s \in Session /\ pt[n].s \in Session
    BY <2>1, <2>2, BoundsAssumption
       DEF Agreed, Foreign, Made, Session, SessionOr0, Inv, TypeOK
  <2>4. SessionsKept
    BY <1>7, <1>4, <2>1, <2>2, <2>3 DEF PayloadMoves, RemovesTemp, SessionsKept
  <2>5. PayloadsKept
    <3>1. Quiet \in Errand /\ Quiet.at = "none"
      BY <1>2 DEF Quiet, Errand
    <3>2. /\ pt' \in [Node -> Errand] /\ pt'[n] = Quiet
          /\ pt'[p].at = "received" /\ pt'[p].s = pt[p].s
          /\ \A m \in Node : m # n /\ m # p => pt'[m] = pt[m]
      BY <2>1, <3>1 DEF Errand, Inv, TypeOK
    <3> QED  BY <2>1, <2>2, <3>1, <3>2
              DEF Inv, Followed, PayloadsKept, PayloadOK, Offering, Accepting
  <2>6. MembersKept  BY <1>7, FinishedKept DEF PayloadMoves
  <2>7. ThreadsKept  BY <1>7, SameThreads DEF PayloadMoves
  <2> QED  BY <2>4, <2>5, <2>6, <2>7, KeptKeeps
<1> QED  BY <1>5, <1>6, <1>7 DEF PayloadThread

-----------------------------------------------------------------------------
(* The threads ui and listener.                                            *)

\* The listener's handlers, but for the two that post an offer and accept it.
LEMMA ListenerSteps ==
    ASSUME Inv, NEW n \in Node,
           \/ HandleOffer(n) \/ OfferBusyCheck(n) \/ HandleAccept(n) \/ HandleDecline(n)
           \/ FinishDeclined(n) \/ HandleReady(n) \/ StartOutbound(n)
    PROVE  Inv'
<1> USE DEF At, Got, Subject
<1>1. /\ st[n] \in Members /\ th[n]["listener"] \in Control
      /\ ListenerOK(n, th[n]["listener"])
  BY DEF Inv, TypeOK, Followed
<1>2. NoSession \in SessionOr0  BY BoundsAssumption DEF NoSession, SessionOr0
<1>4. /\ presence \in [Node -> {"idle", "finish"}] /\ losses \in 0..MaxLosses
      /\ received \in SUBSET (Session \X Session)
  BY DEF Inv, TypeOK
<1>5. CASE HandleOffer(n)
  <2>1. MembersKept  BY <1>5, SameMembers DEF HandleOffer, world
  <2>2. ThreadsKept
    <3>1. CASE Move(n, "listener", "busy_check")
      <4>1. ListenerOK(n, [th[n]["listener"] EXCEPT !.at = "busy_check"])
        BY <1>1, <1>5 DEF HandleOffer, ListenerOK, Control
      <4> QED  BY <3>1, <4>1, ThreadMoves
    <3>2. CASE Return(n, "listener")  BY <3>2, ThreadReturns
    <3> QED  BY <1>5, <3>1, <3>2 DEF HandleOffer
  <2>7. PayloadsKept  BY <1>5, SamePayloads DEF HandleOffer, world
  <2>8. SessionsKept  BY <1>5, <1>4 DEF HandleOffer, world, SessionsKept
  <2> QED  BY <2>1, <2>2, <2>7, <2>8, KeptKeeps
<1>6. CASE OfferBusyCheck(n)
  <2>1. MembersKept  BY <1>6, SameMembers DEF OfferBusyCheck, world
  <2>2. ThreadsKept
    <3>1. CASE Move(n, "listener", "post")
      <4>1. ListenerOK(n, [th[n]["listener"] EXCEPT !.at = "post"])
        BY <1>1, <1>6 DEF OfferBusyCheck, ListenerOK, Control
      <4> QED  BY <3>1, <4>1, ThreadMoves
    <3>2. CASE Return(n, "listener")  BY <3>2, ThreadReturns
    <3> QED  BY <1>6, <3>1, <3>2 DEF OfferBusyCheck
  <2>7. PayloadsKept  BY <1>6, SamePayloads DEF OfferBusyCheck, world
  <2>8. SessionsKept  BY <1>6, <1>4 DEF OfferBusyCheck, world, SessionsKept
  <2> QED  BY <2>1, <2>2, <2>7, <2>8, KeptKeeps
<1>7. CASE HandleAccept(n)
  <2>1. MembersKept  BY <1>7, <1>1, <1>2 DEF HandleAccept, MembersKept, Members, Inv, TypeOK
  <2>2. ThreadsKept  BY <1>7, ThreadReturns DEF HandleAccept
  <2>7. PayloadsKept  BY <1>7, SamePayloads DEF HandleAccept, world
  <2>8. SessionsKept  BY <1>7, <1>4 DEF HandleAccept, world, SessionsKept
  <2> QED  BY <2>1, <2>2, <2>7, <2>8, KeptKeeps
<1>8. CASE HandleDecline(n)
  <2>1. MembersKept
    <3> DEFINE r == [st[n] EXCEPT !.offer = NoSession, !.staged = NoSession, !.awaiting = FALSE]
    <3>1. st' = [st EXCEPT ![n] = r] \/ st' = st  BY <1>8 DEF HandleDecline
    <3>2. r \in Members /\ r.pending = st[n].pending /\ r.joinable = st[n].joinable
      BY <1>1, <1>2 DEF Members
    <3> QED  BY <3>1, <3>2, NewMembers, SameMembers
  <2>2. ThreadsKept
    <3>1. CASE Move(n, "listener", "finish")
      <4>1. ListenerOK(n, [th[n]["listener"] EXCEPT !.at = "finish"])
        BY <1>1, <1>8 DEF HandleDecline, ListenerOK, Control
      <4> QED  BY <3>1, <4>1, ThreadMoves
    <3>2. CASE Return(n, "listener")  BY <3>2, ThreadReturns
    <3> QED  BY <1>8, <3>1, <3>2 DEF HandleDecline
  <2>7. PayloadsKept  BY <1>8, SamePayloads DEF HandleDecline, world
  <2>8. SessionsKept  BY <1>8, <1>4 DEF HandleDecline, world, SessionsKept
  <2> QED  BY <2>1, <2>2, <2>7, <2>8, KeptKeeps
<1>9. CASE FinishDeclined(n)
  <2>1. MembersKept  BY <1>9, FinishedKept DEF FinishDeclined
  <2>2. ThreadsKept  BY <1>9, ThreadReturns DEF FinishDeclined
  <2>7. PayloadsKept  BY <1>9, SamePayloads DEF FinishDeclined, world
  <2>8. SessionsKept  BY <1>9, <1>4 DEF FinishDeclined, world, SessionsKept
  <2> QED  BY <2>1, <2>2, <2>7, <2>8, KeptKeeps
<1>10. CASE HandleReady(n)
  <2>1. MembersKept
    <3> DEFINE r == [st[n] EXCEPT !.awaiting = TRUE]
    <3>1. st' = [st EXCEPT ![n] = r] \/ st' = st  BY <1>10 DEF HandleReady
    <3>2. r \in Members /\ r.pending = st[n].pending /\ r.joinable = st[n].joinable
      BY <1>1 DEF Members
    <3> QED  BY <3>1, <3>2, NewMembers, SameMembers
  <2>2. ThreadsKept
    <3>1. CASE Move(n, "listener", "start")
      <4>1. ListenerOK(n, [th[n]["listener"] EXCEPT !.at = "start"])
        BY <1>1, <1>10 DEF HandleReady, ListenerOK, Control
      <4> QED  BY <3>1, <4>1, ThreadMoves
    <3>2. CASE Return(n, "listener")  BY <3>2, ThreadReturns
    <3> QED  BY <1>10, <3>1, <3>2 DEF HandleReady
  <2>7. PayloadsKept  BY <1>10, SamePayloads DEF HandleReady, world
  <2>8. SessionsKept  BY <1>10, <1>4 DEF HandleReady, world, SessionsKept
  <2> QED  BY <2>1, <2>2, <2>7, <2>8, KeptKeeps
<1>11. CASE StartOutbound(n)
  <2>1. MembersKept  BY <1>11, <1>1, <1>2 DEF StartOutbound, MembersKept, Members, Inv, TypeOK
  <2>2. ThreadsKept
    <3> DEFINE t == [at |-> "join", flow |-> "payload", s |-> st[n].staged]
    <3>1. t \in Control /\ ListenerOK(n, t)  BY <1>1 DEF Control, Members, ListenerOK
    <3>2. th' = [th EXCEPT ![n]["listener"] = t]  BY <1>11 DEF StartOutbound
    <3> QED  BY <3>1, <3>2, ThreadTurns
  <2>7. PayloadsKept  BY <1>11, SamePayloads DEF StartOutbound, world
  <2>8. SessionsKept  BY <1>11, <1>4 DEF StartOutbound, world, SessionsKept
  <2> QED  BY <2>1, <2>2, <2>7, <2>8, KeptKeeps
<1> QED  BY <1>5, <1>6, <1>7, <1>8, <1>9, <1>10, <1>11

\* An offer that reaches a station was made by its peer; an open one accepts it.
LEMMA PostOfferKeeps == ASSUME Inv, NEW n \in Node, PostOffer(n) PROVE Inv'
<1> DEFINE s == th[n]["listener"].s
<1>1. /\ st[n] \in Members /\ th[n]["listener"] \in Control
      /\ Foreign(n, s) /\ s \in SessionOr0
  BY DEF PostOffer, At, Inv, TypeOK, Followed, ListenerOK, Control
<1>2. SessionsKept  BY DEF PostOffer, world, SessionsKept, Inv, TypeOK
<1>3. ThreadsKept
  <2>1. CASE AutoAccepts(n)
    <3>1. ListenerOK(n, [th[n]["listener"] EXCEPT !.at = "accept"])
      BY <1>1, <2>1 DEF AutoAccepts, ListenerOK, Control
    <3> QED  BY <2>1, <3>1, ThreadMoves DEF PostOffer
  <2>2. CASE ~AutoAccepts(n)  BY <2>2, ThreadReturns DEF PostOffer
  <2> QED  BY <2>1, <2>2
<1>4. /\ st' \in [Node -> Members] /\ st'[n].pending = s /\ st'[n].joinable = st[n].joinable
      /\ \A m \in Node : m # n => st'[m] = st[m]
  BY <1>1 DEF PostOffer, Subject, Members, Inv, TypeOK
<1>5. \A m \in Node : /\ pt'[m].at # "none" => st'[m].joinable
                      /\ PayloadOK(m, pt'[m]) /\ PendingOK(m, st'[m])
  BY <1>1, <1>4 DEF PostOffer, Inv, TypeOK, Followed, PendingOK
<1>6. pt' \in [Node -> Errand]  BY DEF PostOffer, Inv, TypeOK
<1> QED  BY <1>2, <1>3, <1>4, <1>5, <1>6, StepKeeps

\* accept_pending_offer binds its thread to the pending session, or returns.
LEMMA AcceptPendingSteps ==
    ASSUME Inv, NEW n \in Node, NEW c \in {"ui", "listener"}, AcceptPending(n, c)
    PROVE  /\ MembersKept
           /\ \/ Return(n, c)
              \/ /\ st[n].pending # NoSession
                 /\ th' = [th EXCEPT ![n][c] =
                              [at |-> "join", flow |-> "accept", s |-> st[n].pending]]
<1> DEFINE s == st[n].pending
           r == [st[n] EXCEPT !.pending = NoSession]
           q == [st[n] EXCEPT !.pending = NoSession, !.accepting = s]
<1>1. st' = st \/ st' = [st EXCEPT ![n] = r] \/ st' = [st EXCEPT ![n] = q]
  BY DEF AcceptPending
<1>2. NoSession \in SessionOr0  BY BoundsAssumption DEF NoSession, SessionOr0
<1>3. st[n] \in Members  BY DEF Inv, TypeOK
<1>4. r \in Members /\ r.pending = NoSession /\ r.joinable = st[n].joinable
  BY <1>2, <1>3 DEF Members
<1>5. q \in Members /\ q.pending = NoSession /\ q.joinable = st[n].joinable
  BY <1>2, <1>3 DEF Members
<1>6. MembersKept  BY <1>1, <1>4, <1>5, SameMembers, NewMembers
<1> QED  BY <1>6 DEF AcceptPending

\* Only an open station comes to accept_pending_offer without its user.
LEMMA AutoAcceptKeeps == ASSUME Inv, NEW n \in Node, AutoAccept(n) PROVE Inv'
<1> DEFINE t == [at |-> "join", flow |-> "accept", s |-> st[n].pending]
<1>1. SessionsKept  BY DEF AutoAccept, world, SessionsKept, Inv, TypeOK
<1>2. PayloadsKept  BY SamePayloads DEF AutoAccept
<1>3. AcceptPending(n, "listener")  BY DEF AutoAccept
<1>4. ThreadsKept
  <2>1. CASE Return(n, "listener")  BY <2>1, ThreadReturns
  <2>2. CASE st[n].pending # NoSession /\ th' = [th EXCEPT ![n]["listener"] = t]
    <3>1. Agreed(n, st[n].pending)
      BY <2>2 DEF AutoAccept, At, Inv, Followed, PendingOK, ListenerOK, Agreed
    <3>2. t \in Control  BY DEF Inv, TypeOK, Members, Control
    <3> QED  BY <2>2, <3>1, <3>2, ThreadTurns DEF ListenerOK
  <2> QED  BY <1>3, <2>1, <2>2, AcceptPendingSteps
<1> QED  BY <1>1, <1>2, <1>3, <1>4, AcceptPendingSteps, KeptKeeps

\* payload_thread_ is joined and given its next errand, by either thread.
LEMMA JoinKeeps ==
    ASSUME Inv, NEW n \in Node, NEW c \in {"ui", "listener"}, JoinPayload(n, c)
    PROVE  Inv'
<1> DEFINE l == IF th[n][c].flow = "offer" THEN "begin" ELSE "spawn"
           t == th[n][c]
           r == [st[n] EXCEPT !.joinable = FALSE]
<1>1. /\ st[n] \in Members /\ t \in Control /\ t.at = "join"
      /\ (c = "ui" => UiOK(n, t))
      /\ (c = "listener" => ListenerOK(n, t))
  BY DEF JoinPayload, At, Inv, TypeOK, Followed
<1>2. SessionsKept  BY DEF JoinPayload, world, SessionsKept, Inv, TypeOK
<1>3. c = "ui" => UiOK(n, [t EXCEPT !.at = l])
  BY <1>1 DEF UiOK, Control, Inv, Followed
<1>4. c = "listener" => ListenerOK(n, [t EXCEPT !.at = l])
  BY <1>1 DEF ListenerOK, Control, Inv, Followed
<1>5. ThreadsKept  BY <1>3, <1>4, ThreadMoves DEF JoinPayload
<1>6. /\ st' \in [Node -> Members] /\ st'[n].pending = st[n].pending
      /\ \A m \in Node : m # n => st'[m] = st[m]
  BY <1>1 DEF JoinPayload, Members, Inv, TypeOK
<1>7. pt' = pt /\ pt[n].at = "none"
  BY DEF JoinPayload, Joined, Inv, TypeOK
<1>8. \A m \in Node : /\ pt'[m].at # "none" => st'[m].joinable
                      /\ PayloadOK(m, pt'[m]) /\ PendingOK(m, st'[m])
  BY <1>6, <1>7 DEF Inv, TypeOK, Followed, PendingOK
<1>9. pt' \in [Node -> Errand]  BY <1>7 DEF Inv, TypeOK
<1> QED  BY <1>2, <1>5, <1>6, <1>8, <1>9, StepKeeps

\* The errand of the new payload thread is about the session of the thread that
\* starts it.
LEMMA SpawnKeeps ==
    ASSUME Inv, NEW n \in Node, NEW c \in {"ui", "listener"}, Spawn(n, c)
    PROVE  Inv'
<1> DEFINE t == th[n][c]
           e == [at |-> t.flow, s |-> t.s, resent |-> FALSE]
<1>1. /\ st[n] \in Members /\ t \in Control /\ t.at = "spawn"
      /\ UiOK(n, t) \/ ListenerOK(n, t)
  BY DEF Spawn, At, Inv, TypeOK, Followed
<1>2. SessionsKept  BY DEF Spawn, world, SessionsKept, Inv, TypeOK
<1>3. ThreadsKept  BY ThreadReturns DEF Spawn
<1>4. e \in Errand /\ PayloadOK(n, e) /\ e.at # "none"
  BY <1>1 DEF UiOK, ListenerOK, PayloadOK, Offering, Accepting, Control, Errand
<1>5. CASE st[n].joinable
  <2>1. MembersKept
    <3> DEFINE r == [st[n] EXCEPT !.terminated = TRUE]
    <3>1. r \in Members /\ r.pending = st[n].pending /\ r.joinable = st[n].joinable
      BY <1>1 DEF Members
    <3>2. st' = [st EXCEPT ![n] = r]  BY <1>5 DEF Spawn
    <3> QED  BY <3>1, <3>2, NewMembers
  <2> QED  BY <1>2, <1>3, <1>5, <2>1, SamePayloads, KeptKeeps DEF Spawn
<1>6. CASE ~st[n].joinable
  <2>1. /\ st' \in [Node -> Members] /\ st'[n].pending = st[n].pending /\ st'[n].joinable
        /\ \A m \in Node : m # n => st'[m] = st[m]
    <3> DEFINE r == [st[n] EXCEPT !.joinable = TRUE]
    <3>1. r \in Members /\ r.pending = st[n].pending /\ r.joinable
      BY <1>1 DEF Members
    <3>2. st' = [st EXCEPT ![n] = r]  BY <1>6 DEF Spawn
    <3> QED  BY <3>1, <3>2 DEF Inv, TypeOK
  <2>2. pt' = [pt EXCEPT ![n] = e]  BY <1>6 DEF Spawn
  <2>3. pt' \in [Node -> Errand]  BY <1>4, <2>2 DEF Inv, TypeOK
  <2>4. \A m \in Node : /\ pt'[m].at # "none" => st'[m].joinable
                        /\ PayloadOK(m, pt'[m]) /\ PendingOK(m, st'[m])
    BY <1>4, <2>1, <2>2 DEF Inv, TypeOK, Followed, PendingOK
  <2> QED  BY <1>2, <1>3, <2>1, <2>3, <2>4, StepKeeps
<1> QED  BY <1>5, <1>6

\* The steps of the ui thread that neither make a session nor accept one.
LEMMA UiSteps ==
    ASSUME Inv, NEW n \in Node, Staged(n) \/ SendBegins(n) \/ UserDeclines(n)
    PROVE  Inv'
<1>1. /\ st[n] \in Members /\ th[n]["ui"] \in Control /\ UiOK(n, th[n]["ui"])
  BY DEF Inv, TypeOK, Followed
<1>2. NoSession \in SessionOr0  BY BoundsAssumption DEF NoSession, SessionOr0
<1>3. SessionsKept
  BY DEF Staged, SendBegins, UserDeclines, world, SessionsKept, Inv, TypeOK
<1>4. PayloadsKept  BY SamePayloads DEF Staged, SendBegins, UserDeclines
<1>5. CASE Staged(n)
  <2>1. MembersKept  BY <1>5, SameMembers DEF Staged
  <2>2. UiOK(n, [th[n]["ui"] EXCEPT !.at = "join"])
    BY <1>1, <1>5 DEF Staged, At, UiOK, Control
  <2>3. ThreadsKept  BY <1>5, <2>2, ThreadMoves DEF Staged
  <2> QED  BY <1>3, <1>4, <2>1, <2>3, KeptKeeps
<1>6. CASE SendBegins(n)
  <2>1. MembersKept
    <3> DEFINE r == [st[n] EXCEPT !.busy = TRUE, !.waiting = TRUE]
    <3>1. r \in Members /\ r.pending = st[n].pending /\ r.joinable = st[n].joinable
      BY <1>1 DEF Members
    <3>2. st' = [st EXCEPT ![n] = r]  BY <1>6 DEF SendBegins
    <3> QED  BY <3>1, <3>2, NewMembers
  <2>2. UiOK(n, [th[n]["ui"] EXCEPT !.at = "spawn"])
    BY <1>1, <1>6 DEF SendBegins, At, UiOK, Control
  <2>3. ThreadsKept  BY <1>6, <2>2, ThreadMoves DEF SendBegins
  <2> QED  BY <1>3, <1>4, <2>1, <2>3, KeptKeeps
<1>7. CASE UserDeclines(n)
  <2>1. MembersKept
    <3> DEFINE r == [st[n] EXCEPT !.pending = NoSession]
    <3>1. r \in Members /\ r.pending = NoSession /\ r.joinable = st[n].joinable
      BY <1>1, <1>2 DEF Members
    <3>2. st' = [st EXCEPT ![n] = r]  BY <1>7 DEF UserDeclines
    <3> QED  BY <3>1, <3>2, NewMembers
  <2>2. ThreadsKept
    <3> DEFINE t == [at |-> "join", flow |-> "decline", s |-> st[n].pending]
    <3>1. t \in Control /\ UiOK(n, t)  BY <1>1 DEF Members, Control, UiOK
    <3>2. th' = [th EXCEPT ![n]["ui"] = t]  BY <1>7 DEF UserDeclines
    <3> QED  BY <3>1, <3>2, ThreadTurns
  <2> QED  BY <1>3, <1>4, <2>1, <2>2, KeptKeeps
<1> QED  BY <1>5, <1>6, <1>7

\* Making a session and giving consent only add to what is known of sessions.
Grows == \A n \in Node, s \in SessionOr0 :
            /\ (Own(n, s) => Own(n, s)')
            /\ (Foreign(n, s) => Foreign(n, s)')
            /\ (Agreed(n, s) => Agreed(n, s)')

\* So what is known of a thread, a member or a received payload stays known.
LEMMA GrowsKeeps ==
    ASSUME Inv, Grows, UNCHANGED <<pt, received>>, MembersKept
    PROVE  /\ \A m \in Node, t \in Control : (UiOK(m, t) => UiOK(m, t)')
           /\ \A m \in Node, t \in Control : (ListenerOK(m, t) => ListenerOK(m, t)')
           /\ \A m \in Node : PayloadOK(m, pt[m])' /\ PendingOK(m, st[m])'
           /\ ReceivedOK'
<1>1. ASSUME NEW m \in Node, NEW t \in Control
      PROVE  /\ (UiOK(m, t) => UiOK(m, t)')
             /\ (ListenerOK(m, t) => ListenerOK(m, t)')
  BY DEF Control, Grows, UiOK, ListenerOK
<1>2. ASSUME NEW m \in Node PROVE PayloadOK(m, pt[m])' /\ PendingOK(m, st[m])'
  <2>1. pt[m].s \in SessionOr0 /\ st[m].pending \in SessionOr0 /\ pt'[m] = pt[m]
    BY DEF Inv, TypeOK, Errand, Members
  <2>2. PayloadOK(m, pt[m])'  BY <2>1 DEF Grows, PayloadOK, Inv, Followed
  <2>3. PendingOK(m, st[m])'
    BY <2>1 DEF Grows, PendingOK, Inv, Followed, MembersKept
  <2> QED  BY <2>2, <2>3
<1>3. ReceivedOK'
  BY DEF Grows, ReceivedOK, Inv, TypeOK, Session, SessionOr0
<1> QED  BY <1>1, <1>2, <1>3

\* Then only the new control of ui has to be looked at.
LEMMA UiActs ==
    ASSUME Inv, Grows, UNCHANGED <<pt, received>>, MembersKept,
           NEW n \in Node, NEW t \in Control,
           th' = [th EXCEPT ![n]["ui"] = t], UiOK(n, t)'
    PROVE  Followed' /\ ReceivedOK' /\ th' \in [Node -> [{"ui", "listener"} -> Control]]
<1>1. /\ th' \in [Node -> [{"ui", "listener"} -> Control]] /\ th'[n]["ui"] = t
      /\ \A m \in Node, d \in {"ui", "listener"} : m # n \/ d # "ui" => th'[m][d] = th[m][d]
  BY DEF Inv, TypeOK
<1>2. ASSUME NEW m \in Node
      PROVE  UiOK(m, th[m]["ui"])' /\ ListenerOK(m, th[m]["listener"])'
  <2>1. th[m]["ui"] \in Control /\ th[m]["listener"] \in Control
    BY DEF Inv, TypeOK
  <2>2. PICK u \in Control, v \in Control : u = th[m]["ui"] /\ v = th[m]["listener"]
    BY <2>1
  <2>3. UiOK(m, u)' /\ ListenerOK(m, v)'
    BY <2>2, GrowsKeeps DEF Inv, Followed
  <2>4. ListenerOK(m, th[m]["listener"])'
    <3>1. th'[m]["listener"] = v  BY <1>1, <2>2
    <3> QED  BY <2>3, <3>1 DEF ListenerOK
  <2>5. UiOK(m, th[m]["ui"])'
    <3>1. CASE m = n  BY <1>1, <3>1 DEF UiOK
    <3>2. CASE m # n
      <4>1. th'[m]["ui"] = u  BY <1>1, <2>2, <3>2
      <4> QED  BY <2>3, <4>1 DEF UiOK
    <3> QED  BY <3>1, <3>2
  <2> QED  BY <2>4, <2>5
<1> QED  BY <1>1, <1>2, GrowsKeeps DEF Followed

\* send_to_peer: the new session is the station's own.
LEMMA SendKeeps == ASSUME Inv, NEW n \in Node, Send(n) PROVE Inv'
<1>1. sessions + 1 \in Session /\ sessions \in Nat
  BY BoundsAssumption DEF Send, Inv, TypeOK, Session, SessionOr0
<1>2. PICK k \in Session : k = sessions + 1  BY <1>1
<1>3. k \in Nat \ {0} /\ k \in SessionOr0
  BY <1>1, <1>2, BoundsAssumption DEF Session, SessionOr0
<1>4. PICK t \in Control : t = [at |-> "stage", flow |-> "offer", s |-> k]
  BY <1>3 DEF Control
<1>5. /\ sessions' = k /\ from' \in [Session -> Node] /\ from'[k] = n
      /\ \A s \in 1..sessions : from'[s] = from[s]
  BY <1>1, <1>2, <1>3 DEF Send, Inv, TypeOK, Session, SessionOr0
<1>6. 1..sessions \subseteq 1..sessions' /\ consented' = consented
  BY <1>1, <1>2, <1>5 DEF Send
<1>7. Grows  BY <1>5, <1>6 DEF Grows, Own, Foreign, Agreed, Made
<1>8. MembersKept /\ UNCHANGED <<pt, received>>  BY SameMembers DEF Send
<1>9. UiOK(n, t)'  BY <1>3, <1>4, <1>5 DEF UiOK, Own, Made
<1>10. th' = [th EXCEPT ![n]["ui"] = t]  BY <1>2, <1>4 DEF Send
<1>11. Followed' /\ ReceivedOK' /\ th' \in [Node -> [{"ui", "listener"} -> Control]]
  BY <1>7, <1>8, <1>9, <1>10, UiActs
<1>12. TypeOK'  BY <1>2, <1>3, <1>5, <1>11 DEF Send, Inv, TypeOK
<1> QED  BY <1>11, <1>12 DEF Inv

\* accept_pending_offer called by the dialog: consent is given for the very session
\* the thread is bound to.
LEMMA UserAcceptsKeeps == ASSUME Inv, NEW n \in Node, UserAccepts(n) PROVE Inv'
<1>1. /\ st[n].pending \in SessionOr0 /\ st[n].pending # NoSession
      /\ Foreign(n, st[n].pending)
  BY DEF UserAccepts, Inv, TypeOK, Members, Followed, PendingOK
<1>2. st[n].pending \in Session
  BY <1>1, BoundsAssumption DEF Session, SessionOr0, NoSession
<1>3. PICK k \in SessionOr0 : k = st[n].pending  BY <1>1
<1>4. /\ consented' = consented \cup {k}
      /\ UNCHANGED <<pt, received, sessions, from, presence, temp, losses, prompt>>
  BY <1>3 DEF UserAccepts
<1>5. Grows  BY <1>4 DEF Grows, Own, Foreign, Agreed, Made
<1>6. PICK t \in Control : t = [at |-> "join", flow |-> "accept", s |-> k]
  BY <1>3 DEF Control
<1>7. PICK u \in Control : u = Idle
  <2>1. Idle \in Control  BY BoundsAssumption DEF Control, Idle, NoSession, SessionOr0
  <2> QED  BY <2>1
<1>8. UiOK(n, t)'
  <2>1. Foreign(n, k)'  BY <1>1, <1>3, <1>4 DEF Foreign, Made
  <2>2. Agreed(n, k)'  BY <2>1, <1>4 DEF Agreed
  <2> QED  BY <2>2, <1>6 DEF UiOK
<1>9. UiOK(n, u)'  BY <1>7 DEF UiOK, Idle
<1>10. MembersKept /\ (Return(n, "ui") \/ th' = [th EXCEPT ![n]["ui"] = t])
  BY <1>3, <1>6, AcceptPendingSteps DEF UserAccepts
<1>11. th' = [th EXCEPT ![n]["ui"] = u] \/ th' = [th EXCEPT ![n]["ui"] = t]
  BY <1>7, <1>10 DEF Return
<1>12. Followed' /\ ReceivedOK' /\ th' \in [Node -> [{"ui", "listener"} -> Control]]
  BY <1>4, <1>5, <1>8, <1>9, <1>10, <1>11, UiActs
<1>13. \A m \in Node : pt'[m].at # "none" => st'[m].joinable
  BY <1>4, <1>10 DEF MembersKept, Inv, TypeOK
<1>14. TypeOK'
  BY <1>2, <1>3, <1>4, <1>10, <1>12, <1>13 DEF MembersKept, Inv, TypeOK
<1> QED  BY <1>12, <1>14 DEF Inv

\* A lost cable finishes a transfer and touches no session.
LEMMA PresenceKeeps ==
    ASSUME Inv, NEW n \in Node, CableLost(n) \/ FinishLost(n)
    PROVE  Inv'
<1>1. SessionsKept
  BY BoundsAssumption DEF CableLost, FinishLost, world, SessionsKept, Inv, TypeOK
<1>2. PayloadsKept /\ ThreadsKept
  BY SamePayloads, SameThreads DEF CableLost, FinishLost
<1>3. MembersKept  BY SameMembers, FinishedKept DEF CableLost, FinishLost
<1> QED  BY <1>1, <1>2, <1>3, KeptKeeps

-----------------------------------------------------------------------------
\* Inv is inductive.
LEMMA InvNext == Inv /\ [Next]_vars => Inv'
<1> SUFFICES ASSUME Inv, [Next]_vars PROVE Inv'  OBVIOUS
<1>1. CASE UNCHANGED vars
  BY <1>1 DEF vars, world, Inv, TypeOK, Followed, ReceivedOK, UiOK, ListenerOK, PayloadOK,
              PendingOK, Agreed, Foreign, Own, Made
<1>2. ASSUME NEW n \in Node, Ui(n) PROVE Inv'
  BY <1>2, SendKeeps, UiSteps, UserAcceptsKeeps, JoinKeeps, SpawnKeeps DEF Ui
<1>3. ASSUME NEW n \in Node, Listener(n) PROVE Inv'
  BY <1>3, ListenerSteps, PostOfferKeeps, AutoAcceptKeeps, JoinKeeps, SpawnKeeps DEF Listener
<1>4. ASSUME NEW n \in Node, Payload(n) PROVE Inv'
  BY <1>4, OfferThreadKeeps, AcceptThreadKeeps, DeclineThreadKeeps, PayloadThreadKeeps
     DEF Payload
<1> QED  BY <1>1, <1>2, <1>3, <1>4, PresenceKeeps DEF Next

\* What was received was received by the peer of the session's maker.
LEMMA InvConsent == Inv => ConsentFirst
<1> SUFFICES ASSUME Inv, NEW r \in received, Peer(from[r[1]]) \in AskFirst
             PROVE  r[1] \in consented
  BY DEF ConsentFirst
<1>1. PICK n \in Node : Agreed(n, r[1])  BY DEF Inv, ReceivedOK
<1>2. Peer(from[r[1]]) = n  BY <1>1, PeerOfPeer DEF Agreed, Foreign
<1> QED  BY <1>1, <1>2 DEF Agreed

\* Every variable of the handshake keeps its type, and the payload thread of a
\* station runs only while payload_thread_ owns it: no join or assignment of ui
\* and listener loses a running thread, whatever they interleave with.
THEOREM OrchestratorTypeOK == Spec => []TypeOK
<1>1. Inv => TypeOK  BY DEF Inv
<1> QED  BY <1>1, InvInit, InvNext, PTL DEF Spec

\* A station set to AskFirst receives a payload only in a session its user
\* accepted, for any number of sessions and cable losses and whatever frames the
\* fabric loses or delays.
THEOREM OrchestratorConsent == Spec => []ConsentFirst
<1> QED  BY InvInit, InvNext, InvConsent, PTL DEF Spec

-----------------------------------------------------------------------------
(* Who tidies up.  Each member of a transfer that is set has a thread on   *)
(* its way to reset it: p is the payload thread, ui and li are the other   *)
(* two, r the members.  This needs no bound, and neither promptness nor a  *)
(* cable that holds.                                                       *)

Releasing(li) == li.at \in {"join", "spawn"} /\ li.flow = "payload"

PausePoints == {"send_offer", "gap", "resend", "resume", "failed", "send_accept", "send_ready",
                "prepare", "receiving", "received", "leave", "send_decline", "payload", "sending"}
PauseTended(r, li, p) == r.paused => p.at \in PausePoints \/ Releasing(li)

Waits == {"poll", "resend", "resume"}
FinishPoints == {"offer", "send_offer", "gap", "arm", "expire", "failed", "receiving", "received",
                 "payload", "sending"}
InTransfer(r) == \/ r.busy \/ r.waiting \/ r.awaiting
                 \/ r.offer # NoSession \/ r.staged # NoSession
TransferTended(r, ui, li, p) ==
    InTransfer(r) => \/ ui.at = "spawn" /\ ui.flow = "offer"
                     \/ p.at \in FinishPoints
                     \/ p.at \in Waits /\ r.waiting /\ r.offer # NoSession
                     \/ li.at \in {"finish", "start"} \/ Releasing(li)

AcceptTended(r, ui, li, p) ==
    r.accepting # NoSession => \/ ui.at \in {"join", "spawn"} /\ ui.flow = "accept"
                               \/ li.at \in {"join", "spawn"} /\ li.flow = "accept"
                               \/ p.at \in Accepting

Tended(r, ui, li, p) ==
    r.terminated \/ (PauseTended(r, li, p) /\ TransferTended(r, ui, li, p) /\ AcceptTended(r, ui, li, p))

AllTended == \A n \in Node : Tended(st[n], th[n]["ui"], th[n]["listener"], pt[n])

\* A step of one station leaves the other one in order: at most a frame reaches
\* its listener, which was idle and tended nothing.
LEMMA OneTended ==
    ASSUME AllTended, NEW n \in Node,
           \A m \in Node : m # n =>
              /\ st'[m] = st[m] /\ pt'[m] = pt[m] /\ th'[m]["ui"] = th[m]["ui"]
              /\ th'[m]["listener"] = th[m]["listener"] \/ th[m]["listener"].at = "idle",
           Tended(st'[n], th'[n]["ui"], th'[n]["listener"], pt'[n])
    PROVE  AllTended'
<1> SUFFICES ASSUME NEW m \in Node, m # n
             PROVE  Tended(st'[m], th'[m]["ui"], th'[m]["listener"], pt'[m])
  BY DEF AllTended
<1>1. Tended(st[m], th[m]["ui"], th[m]["listener"], pt[m])
  BY DEF AllTended
<1>2. /\ st'[m] = st[m] /\ pt'[m] = pt[m] /\ th'[m]["ui"] = th[m]["ui"]
      /\ th'[m]["listener"] = th[m]["listener"] \/ th[m]["listener"].at = "idle"
  OBVIOUS
<1> QED
  BY <1>1, <1>2 DEF Tended, PauseTended, TransferTended, AcceptTended, Releasing

\* What finish_transfer leaves behind is only the session being accepted.
LEMMA FinishedIsTended ==
    ASSUME NEW r \in Members, NEW how \in {"Sent", "Received", "Failed"},
           NEW ui, NEW li, NEW p,
           r.terminated \/ AcceptTended(r, ui, li, p)
    PROVE  Tended(Finished(r, how), ui, li, p)
<1>1. /\ ~Finished(r, how).busy /\ ~Finished(r, how).waiting /\ ~Finished(r, how).awaiting
      /\ ~Finished(r, how).paused /\ Finished(r, how).offer = NoSession
      /\ Finished(r, how).staged = NoSession /\ Finished(r, how).accepting = r.accepting
      /\ Finished(r, how).terminated = r.terminated
  BY DEF Finished, Members
<1> QED
  BY <1>1 DEF Tended, PauseTended, TransferTended, InTransfer, AcceptTended

\* A session frame touches the listener of the peer only, and finds it idle.
LEMMA FrameElsewhere ==
    ASSUME Inv, NEW n \in Node, NEW kind, Delivered(n, kind, Mine(n)) \/ Lost
    PROVE  /\ th'[n] = th[n]
           /\ \A m \in Node : m # n =>
                 /\ th'[m]["ui"] = th[m]["ui"]
                 /\ th'[m]["listener"] = th[m]["listener"] \/ th[m]["listener"].at = "idle"
<1>1. CASE Lost  BY <1>1 DEF Lost
<1>2. CASE Delivered(n, kind, Mine(n))
  <2>1. Peer(n) \in Node /\ Peer(n) # n /\ th[Peer(n)]["listener"].at = "idle"
    BY <1>2, PeerOfPeer DEF Delivered, Polling, At
  <2>2. th' = [th EXCEPT ![Peer(n)]["listener"] = [at |-> "got", flow |-> kind, s |-> Mine(n)]]
    BY <1>2 DEF Delivered
  <2> QED  BY <2>1, <2>2 DEF Inv, TypeOK
<1> QED  BY <1>1, <1>2

\* The thread of an offer.
LEMMA OfferThreadTends ==
    ASSUME Inv, AllTended, NEW n \in Node, OfferThread(n)
    PROVE  AllTended'
<1> USE DEF PtAt, PtMove, PtExit, Mine
<1> DEFINE r == st[n]
           p == pt[n]
           ui == th[n]["ui"]
           li == th[n]["listener"]
<1>1. r \in Members /\ p \in Errand /\ st \in [Node -> Members] /\ pt \in [Node -> Errand]
  BY DEF Inv, TypeOK
<1>2. Tended(r, ui, li, p)  BY DEF AllTended
<1>3. \A m \in Node : m # n => st'[m] = st[m] /\ pt'[m] = pt[m]
  BY <1>1 DEF OfferThread, Pauses, OfferSent, OfferFails, Rearm, Arm, LeavePoll, Retransmit, Resend,
       ResumeAfterResend, TimeUp, Expire, FinishFailed
<1>4. /\ th'[n] = th[n]
      /\ \A m \in Node : m # n =>
            /\ th'[m]["ui"] = th[m]["ui"]
            /\ th'[m]["listener"] = th[m]["listener"] \/ th[m]["listener"].at = "idle"
  BY FrameElsewhere DEF OfferThread, Pauses, OfferSent, OfferFails, Rearm, Arm, LeavePoll, Retransmit,
       Resend, ResumeAfterResend, TimeUp, Expire, FinishFailed
<1> SUFFICES Tended(st'[n], ui, li, pt'[n])  BY <1>3, <1>4, OneTended
<1> HIDE DEF ui, li
<1> USE DEF Tended, PauseTended, TransferTended, AcceptTended, InTransfer, PausePoints, FinishPoints, Waits,
            Accepting
<1>5. CASE Pauses(n, "offer", "send_offer")
  BY <1>1, <1>2, <1>5 DEF Pauses, Members, Errand
<1>6. CASE OfferSent(n)
  BY <1>1, <1>2, <1>6 DEF OfferSent, Errand
<1>7. CASE OfferFails(n)
  BY <1>1, <1>2, <1>7 DEF OfferFails, Errand
<1>8. CASE Rearm(n)
  BY <1>1, <1>2, <1>8 DEF Rearm, Members, Errand
<1>9. CASE Arm(n)
  <2>1. p.s # NoSession
    BY <1>9 DEF Arm, Inv, TypeOK, Followed, PayloadOK, Offering, Own, Made, NoSession
  <2> QED  BY <1>1, <1>2, <1>9, <2>1 DEF Arm, Members, Errand
<1>10. CASE LeavePoll(n)
  BY <1>1, <1>2, <1>10 DEF LeavePoll, StillWaiting
<1>11. CASE Retransmit(n)
  BY <1>1, <1>2, <1>11 DEF Retransmit, StillWaiting, Members, Errand
<1>12. CASE Resend(n)
  BY <1>1, <1>2, <1>12 DEF Resend, Errand
<1>13. CASE ResumeAfterResend(n)
  BY <1>1, <1>2, <1>13 DEF ResumeAfterResend, Members, Errand
<1>14. CASE TimeUp(n)
  BY <1>1, <1>2, <1>14 DEF TimeUp, Errand
<1>15. CASE Expire(n)
  BY <1>1, <1>2, <1>15 DEF Expire, Members, Errand
<1>16. CASE FinishFailed(n)
  <2>1. st'[n] = Finished(r, "Failed")  BY <1>1, <1>16 DEF FinishFailed
  <2>2. r.terminated \/ AcceptTended(r, ui, li, pt'[n])
    BY <1>1, <1>2, <1>16 DEF FinishFailed
  <2> HIDE DEF Tended, AcceptTended
  <2> QED  BY <1>1, <2>1, <2>2, FinishedIsTended
<1> QED  BY <1>5, <1>6, <1>7, <1>8, <1>9, <1>10, <1>11, <1>12, <1>13, <1>14, <1>15, <1>16 DEF OfferThread

\* The thread of an accepted offer.
LEMMA AcceptThreadTends ==
    ASSUME Inv, AllTended, NEW n \in Node, AcceptThread(n)
    PROVE  AllTended'
<1> USE DEF PtAt, PtMove, PtExit, Mine
<1> DEFINE r == st[n]
           p == pt[n]
           ui == th[n]["ui"]
           li == th[n]["listener"]
<1>1. r \in Members /\ p \in Errand /\ st \in [Node -> Members] /\ pt \in [Node -> Errand]
  BY DEF Inv, TypeOK
<1>2. Tended(r, ui, li, p)  BY DEF AllTended
<1>3. \A m \in Node : m # n => st'[m] = st[m] /\ pt'[m] = pt[m]
  BY <1>1 DEF AcceptThread, SkipCompleted, PauseToAccept, Pauses, AcceptSent, AcceptFails, ReadySent,
       ReadyFails, Prepare, ReceiveFails, FinishReceived, Leave
<1>4. /\ th'[n] = th[n]
      /\ \A m \in Node : m # n =>
            /\ th'[m]["ui"] = th[m]["ui"]
            /\ th'[m]["listener"] = th[m]["listener"] \/ th[m]["listener"].at = "idle"
  BY FrameElsewhere DEF AcceptThread, SkipCompleted, PauseToAccept, Pauses, AcceptSent, AcceptFails,
       ReadySent, ReadyFails, Prepare, ReceiveFails, FinishReceived, Leave
<1> SUFFICES Tended(st'[n], ui, li, pt'[n])  BY <1>3, <1>4, OneTended
<1> HIDE DEF ui, li
<1> USE DEF Tended, PauseTended, TransferTended, AcceptTended, InTransfer, PausePoints, FinishPoints, Waits,
            Accepting
<1>5. CASE SkipCompleted(n)
  BY <1>1, <1>2, <1>5 DEF SkipCompleted, Members
<1>6. CASE PauseToAccept(n)
  BY <1>1, <1>2, <1>6 DEF PauseToAccept, Pauses, Members, Errand
<1>7. CASE AcceptSent(n)
  BY <1>1, <1>2, <1>7 DEF AcceptSent, Errand
<1>8. CASE AcceptFails(n)
  BY <1>1, <1>2, <1>8 DEF AcceptFails, Members, Errand
<1>9. CASE ReadySent(n)
  BY <1>1, <1>2, <1>9 DEF ReadySent, Members, Errand
<1>10. CASE ReadyFails(n)
  <2>1. st'[n] = Finished(r, "Failed")  BY <1>1, <1>10 DEF ReadyFails
  <2>2. r.terminated \/ AcceptTended(r, ui, li, pt'[n])
    BY <1>1, <1>2, <1>10 DEF ReadyFails, Errand
  <2> HIDE DEF Tended, AcceptTended
  <2> QED  BY <1>1, <2>1, <2>2, FinishedIsTended
<1>11. CASE Prepare(n)
  BY <1>1, <1>2, <1>11 DEF Prepare, Members, Errand
<1>12. CASE ReceiveFails(n)
  <2>1. st'[n] = Finished(r, "Failed")  BY <1>1, <1>12 DEF ReceiveFails
  <2>2. r.terminated \/ AcceptTended(r, ui, li, pt'[n])
    BY <1>1, <1>2, <1>12 DEF ReceiveFails, Errand
  <2> HIDE DEF Tended, AcceptTended
  <2> QED  BY <1>1, <2>1, <2>2, FinishedIsTended
<1>13. CASE FinishReceived(n)
  <2>1. st'[n] = Finished(r, "Received")  BY <1>1, <1>13 DEF FinishReceived
  <2>2. r.terminated \/ AcceptTended(r, ui, li, pt'[n])
    BY <1>1, <1>2, <1>13 DEF FinishReceived, Errand
  <2> HIDE DEF Tended, AcceptTended
  <2> QED  BY <1>1, <2>1, <2>2, FinishedIsTended
<1>14. CASE Leave(n)
  BY <1>1, <1>2, <1>14 DEF Leave, Members
<1> QED  BY <1>5, <1>6, <1>7, <1>8, <1>9, <1>10, <1>11, <1>12, <1>13, <1>14 DEF AcceptThread

\* The thread of a declined offer.
LEMMA DeclineThreadTends ==
    ASSUME Inv, AllTended, NEW n \in Node, DeclineThread(n)
    PROVE  AllTended'
<1> USE DEF PtAt, PtMove, PtExit, Mine
<1> DEFINE r == st[n]
           p == pt[n]
           ui == th[n]["ui"]
           li == th[n]["listener"]
<1>1. r \in Members /\ p \in Errand /\ st \in [Node -> Members] /\ pt \in [Node -> Errand]
  BY DEF Inv, TypeOK
<1>2. Tended(r, ui, li, p)  BY DEF AllTended
<1>3. \A m \in Node : m # n => st'[m] = st[m] /\ pt'[m] = pt[m]
  BY <1>1 DEF DeclineThread, Pauses, DeclineSent
<1>4. /\ th'[n] = th[n]
      /\ \A m \in Node : m # n =>
            /\ th'[m]["ui"] = th[m]["ui"]
            /\ th'[m]["listener"] = th[m]["listener"] \/ th[m]["listener"].at = "idle"
  BY FrameElsewhere DEF DeclineThread, Pauses, DeclineSent
<1> SUFFICES Tended(st'[n], ui, li, pt'[n])  BY <1>3, <1>4, OneTended
<1> HIDE DEF ui, li
<1> USE DEF Tended, PauseTended, TransferTended, AcceptTended, InTransfer, PausePoints, FinishPoints, Waits,
            Accepting
<1>5. CASE Pauses(n, "decline", "send_decline")
  BY <1>1, <1>2, <1>5 DEF Pauses, Members, Errand
<1>6. CASE DeclineSent(n)
  BY <1>1, <1>2, <1>6 DEF DeclineSent, Members
<1> QED  BY <1>5, <1>6 DEF DeclineThread

\* The thread that sends the payload; its reader goes from receiving to received.
LEMMA PayloadThreadTends ==
    ASSUME Inv, AllTended, NEW n \in Node, PayloadThread(n)
    PROVE  AllTended'
<1> USE DEF PtAt, PtMove, PtExit, Mine
<1> DEFINE r == st[n]
           p == pt[n]
           ui == th[n]["ui"]
           li == th[n]["listener"]
<1>1. r \in Members /\ p \in Errand /\ st \in [Node -> Members] /\ pt \in [Node -> Errand]
  BY DEF Inv, TypeOK
<1>2. Tended(r, ui, li, p)  BY DEF AllTended
<1> USE DEF Tended, PauseTended, TransferTended, AcceptTended, InTransfer, PausePoints, FinishPoints, Waits,
            Accepting
<1>3. CASE Pauses(n, "payload", "sending")
  <2>1. \A m \in Node : m # n => st'[m] = st[m] /\ pt'[m] = pt[m]
    BY <1>1, <1>3 DEF Pauses
  <2>2. Tended(st'[n], ui, li, pt'[n])
    <3> HIDE DEF ui, li
    <3> QED  BY <1>1, <1>2, <1>3 DEF Pauses, Members, Errand
  <2>3. th' = th  BY <1>3 DEF Pauses
  <2> HIDE DEF Tended
  <2> QED  BY <2>1, <2>2, <2>3, OneTended
<1>4. ASSUME st' = [st EXCEPT ![n] = Finished(@, "Sent")], pt'[n].at = "none", p.at = "sending"
      PROVE  Tended(st'[n], ui, li, pt'[n])
  <2> HIDE DEF ui, li
  <2>1. st'[n] = Finished(r, "Sent")  BY <1>1, <1>4
  <2>2. r.terminated \/ AcceptTended(r, ui, li, pt'[n])
    BY <1>1, <1>2, <1>4
  <2> HIDE DEF Tended, AcceptTended
  <2> QED  BY <1>1, <2>1, <2>2, FinishedIsTended
<1> HIDE DEF Tended
<1>5. CASE PayloadAlone(n)
  <2>1. \A m \in Node : m # n => st'[m] = st[m] /\ pt'[m] = pt[m]
    BY <1>1, <1>5 DEF PayloadAlone
  <2>2. pt'[n].at = "none"  BY <1>1, <1>5 DEF PayloadAlone, Quiet
  <2>3. Tended(st'[n], ui, li, pt'[n]) /\ th' = th
    BY <1>4, <1>5, <2>2 DEF PayloadAlone
  <2> QED  BY <2>1, <2>3, OneTended
<1>6. CASE PayloadMoves(n)
  <2> DEFINE m == Peer(n)
  <2>1. /\ m \in Node /\ m # n /\ \A k \in Node : k = n \/ k = m
        /\ pt[m].at = "receiving"
    BY <1>6, PeerOfPeer DEF PayloadMoves
  <2>2. pt'[n].at = "none" /\ pt'[m] = [pt[m] EXCEPT !.at = "received"] /\ st'[m] = st[m]
    <3> HIDE DEF m
    <3>1. pt' = [pt EXCEPT ![n] = Quiet, ![m].at = "received"]
      BY <1>6 DEF PayloadMoves, m
    <3>2. st' = [st EXCEPT ![n] = Finished(@, "Sent")]  BY <1>6 DEF PayloadMoves
    <3> QED  BY <1>1, <2>1, <3>1, <3>2 DEF Quiet
  <2>3. th' = th  BY <1>6 DEF PayloadMoves
  <2>4. Tended(st'[n], ui, li, pt'[n])
    BY <1>4, <1>6, <2>2 DEF PayloadMoves
  <2>5. Tended(st[m], th[m]["ui"], th[m]["listener"], pt'[m])
    <3>1. Tended(st[m], th[m]["ui"], th[m]["listener"], pt[m])  BY <2>1 DEF AllTended
    <3>2. pt'[m].at = "received"  BY <1>1, <2>1, <2>2 DEF Errand
    <3> QED  BY <2>1, <3>1, <3>2 DEF Tended
  <2>6. \A k \in Node : Tended(st'[k], th'[k]["ui"], th'[k]["listener"], pt'[k])
    BY <2>1, <2>2, <2>3, <2>4, <2>5
  <2> QED  BY <2>6 DEF AllTended
<1> QED  BY <1>3, <1>5, <1>6 DEF PayloadThread

\* The threads ui and listener work on one station; r, ui and li are what a step
\* leaves of it.
LEMMA ThreadTends ==
    ASSUME Inv, AllTended, NEW n \in Node, NEW c \in {"ui", "listener"}, NEW r, NEW t,
           th' = [th EXCEPT ![n][c] = t], st' = [st EXCEPT ![n] = r] \/ (st' = st /\ r = st[n]),
           \A m \in Node : m # n => pt'[m] = pt[m],
           c = "ui" => Tended(r, t, th[n]["listener"], pt'[n]),
           c = "listener" => Tended(r, th[n]["ui"], t, pt'[n])
    PROVE  AllTended'
<1>1. /\ th'[n][c] = t /\ \A d \in {"ui", "listener"} : d # c => th'[n][d] = th[n][d]
      /\ \A m \in Node : m # n => th'[m] = th[m]
  BY DEF Inv, TypeOK
<1>2. st'[n] = r /\ \A m \in Node : m # n => st'[m] = st[m]
  BY DEF Inv, TypeOK
<1>3. Tended(st'[n], th'[n]["ui"], th'[n]["listener"], pt'[n])
  BY <1>1, <1>2
<1> QED  BY <1>1, <1>2, <1>3, OneTended

\* A handler of the listener hands each claim it drops to the steps that follow it.
LEMMA ListenerTends ==
    ASSUME Inv, AllTended, NEW n \in Node,
           \/ HandleOffer(n) \/ OfferBusyCheck(n) \/ PostOffer(n) \/ HandleAccept(n)
           \/ HandleDecline(n) \/ FinishDeclined(n) \/ HandleReady(n) \/ StartOutbound(n)
    PROVE  AllTended'
<1> USE DEF At, Got, Subject
<1> DEFINE r == st[n]
           p == pt[n]
           ui == th[n]["ui"]
           li == th[n]["listener"]
<1>1. r \in Members /\ li \in Control /\ pt' = pt
  BY DEF Inv, TypeOK, HandleOffer, OfferBusyCheck, PostOffer, HandleAccept, HandleDecline,
         FinishDeclined, HandleReady, StartOutbound
<1>2. Tended(r, ui, li, p)  BY DEF AllTended
<1> DEFINE Turns(l) == [li EXCEPT !.at = l]
           Leaves(q, t) == /\ th' = [th EXCEPT ![n]["listener"] = t]
                           /\ st' = [st EXCEPT ![n] = q] \/ (st' = st /\ q = r)
                           /\ Tended(q, ui, t, p)
<1>3. ASSUME NEW q, NEW t, Leaves(q, t) PROVE AllTended'
  BY <1>1, <1>3, ThreadTends
<1> HIDE DEF ui, p
<1> USE DEF Tended, PauseTended, TransferTended, AcceptTended, InTransfer, Releasing
<1>4. CASE HandleOffer(n)
  <2>1. Leaves(r, Idle) \/ Leaves(r, Turns("busy_check"))
    BY <1>1, <1>2, <1>4 DEF HandleOffer, Return, Move, Idle, Control
  <2> QED  BY <2>1, <1>3
<1>5. CASE OfferBusyCheck(n)
  <2>1. Leaves(r, Idle) \/ Leaves(r, Turns("post"))
    BY <1>1, <1>2, <1>5 DEF OfferBusyCheck, Return, Move, Idle, Control
  <2> QED  BY <2>1, <1>3
<1>6. CASE PostOffer(n)
  <2> DEFINE q == [r EXCEPT !.pending = li.s]
  <2>1. Leaves(q, Idle) \/ Leaves(q, Turns("accept"))
    BY <1>1, <1>2, <1>6 DEF PostOffer, Return, Move, Idle, Control, Members
  <2> QED  BY <2>1, <1>3
<1>7. CASE HandleAccept(n)
  <2> DEFINE q == [r EXCEPT !.waiting = TRUE, !.awaiting = TRUE]
  <2>1. Leaves(r, Idle) \/ Leaves(q, Idle)
    BY <1>1, <1>2, <1>7 DEF HandleAccept, IsForOutbound, Return, Idle, Members
  <2> QED  BY <2>1, <1>3
<1>8. CASE HandleDecline(n)
  <2> DEFINE q == [r EXCEPT !.offer = NoSession, !.staged = NoSession, !.awaiting = FALSE]
  <2>1. CASE ~IsForOutbound(n, li.s)
    <3>1. Leaves(r, Idle)  BY <1>1, <1>2, <1>8, <2>1 DEF HandleDecline, Return, Idle
    <3> QED  BY <3>1, <1>3
  <2>2. CASE IsForOutbound(n, li.s)
    <3>1. Leaves(q, Turns("finish"))
      BY <1>1, <1>2, <1>8, <2>2 DEF HandleDecline, Move, Control, Members
    <3> QED  BY <3>1, <1>3
  <2> QED  BY <2>1, <2>2
<1>9. CASE FinishDeclined(n)
  <2>1. r.terminated \/ AcceptTended(r, ui, Idle, p)
    BY <1>2, <1>9 DEF FinishDeclined
  <2>2. Tended(Finished(r, "Failed"), ui, Idle, p)
    <3> HIDE DEF Tended, AcceptTended
    <3> QED  BY <1>1, <2>1, FinishedIsTended
  <2>3. Leaves(Finished(r, "Failed"), Idle)
    <3> HIDE DEF Tended
    <3> QED  BY <1>1, <1>9, <2>2 DEF FinishDeclined, Return
  <2> QED  BY <2>3, <1>3
<1>10. CASE HandleReady(n)
  <2> DEFINE q == [r EXCEPT !.awaiting = TRUE]
  <2>1. Leaves(r, Idle) \/ Leaves(q, Turns("start"))
    BY <1>1, <1>2, <1>10 DEF HandleReady, Return, Move, Idle, Control, Members
  <2> QED  BY <2>1, <1>3
<1>11. CASE StartOutbound(n)
  <2> DEFINE q == [r EXCEPT !.paused = TRUE, !.waiting = FALSE]
             t == [at |-> "join", flow |-> "payload", s |-> r.staged]
  <2>1. Leaves(q, t)
    BY <1>1, <1>2, <1>11 DEF StartOutbound, Members
  <2> QED  BY <2>1, <1>3
<1> QED  BY <1>4, <1>5, <1>6, <1>7, <1>8, <1>9, <1>10, <1>11

\* A thread that waits for payload_thread_ keeps what it tends, and hands it to
\* the thread it starts; the one it replaces tended nothing any more.
LEMMA JoinTends ==
    ASSUME Inv, AllTended, NEW n \in Node, NEW c \in {"ui", "listener"}, JoinPayload(n, c)
    PROVE  AllTended'
<1> DEFINE q == [st[n] EXCEPT !.joinable = FALSE]
           l == IF th[n][c].flow = "offer" THEN "begin" ELSE "spawn"
           t == [th[n][c] EXCEPT !.at = l]
<1>1. st[n] \in Members /\ th[n][c] \in Control /\ th[n][c].at = "join" /\ pt' = pt
  BY DEF Inv, TypeOK, JoinPayload, At
<1>2. Tended(st[n], th[n]["ui"], th[n]["listener"], pt[n])  BY DEF AllTended
<1>3. th' = [th EXCEPT ![n][c] = t] /\ st' = [st EXCEPT ![n] = q]
  BY DEF JoinPayload, Move
<1>4. /\ q.terminated = st[n].terminated /\ q.paused = st[n].paused
      /\ q.accepting = st[n].accepting /\ q.offer = st[n].offer /\ q.waiting = st[n].waiting
      /\ InTransfer(q) = InTransfer(st[n])
  BY <1>1 DEF Members, InTransfer
<1>5. t.at = l /\ t.flow = th[n][c].flow  BY <1>1 DEF Control
<1> HIDE DEF q, t
<1> USE DEF Tended, PauseTended, TransferTended, AcceptTended, Releasing
<1>6. c = "ui" => Tended(q, t, th[n]["listener"], pt[n])
  BY <1>1, <1>2, <1>4, <1>5
<1>7. c = "listener" => Tended(q, th[n]["ui"], t, pt[n])
  BY <1>1, <1>2, <1>4, <1>5
<1> HIDE DEF Tended
<1> QED  BY <1>1, <1>3, <1>6, <1>7, ThreadTends

LEMMA SpawnTends ==
    ASSUME Inv, AllTended, NEW n \in Node, NEW c \in {"ui", "listener"}, Spawn(n, c)
    PROVE  AllTended'
<1> DEFINE u == th[n][c]
           e == [at |-> u.flow, s |-> u.s, resent |-> FALSE]
<1>1. /\ st[n] \in Members /\ u \in Control /\ u.at = "spawn"
      /\ u.flow \in {"offer", "accept", "decline", "payload"}
      /\ c = "ui" => u.flow # "payload"
      /\ c = "listener" => u.flow # "offer"
  BY DEF Inv, TypeOK, Followed, UiOK, ListenerOK, Spawn, At
<1>2. Tended(st[n], th[n]["ui"], th[n]["listener"], pt[n])  BY DEF AllTended
<1>3. th' = [th EXCEPT ![n][c] = Idle]  BY DEF Spawn, Return
<1>4. CASE st[n].joinable
  <2> DEFINE q == [st[n] EXCEPT !.terminated = TRUE]
  <2>1. q.terminated  BY <1>1 DEF Members
  <2>2. st' = [st EXCEPT ![n] = q] /\ pt' = pt  BY <1>4 DEF Spawn
  <2> HIDE DEF q
  <2>3. \A ui, li, p : Tended(q, ui, li, p)  BY <2>1 DEF Tended
  <2> QED  BY <1>3, <2>2, <2>3, ThreadTends
<1>5. CASE ~st[n].joinable
  <2> DEFINE q == [st[n] EXCEPT !.joinable = TRUE]
  <2>1. st' = [st EXCEPT ![n] = q] /\ pt' = [pt EXCEPT ![n] = e]  BY <1>5 DEF Spawn
  <2>2. pt[n].at = "none"  BY <1>5 DEF Inv, TypeOK
  <2>3. /\ q.terminated = st[n].terminated /\ q.paused = st[n].paused
        /\ q.accepting = st[n].accepting /\ InTransfer(q) = InTransfer(st[n])
    BY <1>1 DEF Members, InTransfer
  <2> HIDE DEF q
  <2> DEFINE p == pt'[n]
  <2>4. p.at = u.flow /\ \A m \in Node : m # n => pt'[m] = pt[m]
    BY <2>1 DEF Inv, TypeOK
  <2> HIDE DEF p
  <2> USE DEF Tended, PauseTended, TransferTended, AcceptTended, Releasing, PausePoints, FinishPoints,
              Waits, Accepting, Idle
  <2>5. c = "ui" => Tended(q, Idle, th[n]["listener"], p)
    BY <1>1, <1>2, <2>2, <2>3, <2>4
  <2>6. c = "listener" => Tended(q, th[n]["ui"], Idle, p)
    BY <1>1, <1>2, <2>2, <2>3, <2>4
  <2> HIDE DEF Tended
  <2> QED  BY <1>3, <2>1, <2>4, <2>5, <2>6, ThreadTends DEF p
<1> QED  BY <1>4, <1>5

\* accept_pending_offer claims the session and binds the thread to it in one step.
LEMMA AcceptPendingTends ==
    ASSUME Inv, AllTended, NEW n \in Node, NEW c \in {"ui", "listener"},
           th[n][c].at \in {"idle", "accept"}, AcceptPending(n, c), pt' = pt
    PROVE  AllTended'
<1> DEFINE s == st[n].pending
           q == [st[n] EXCEPT !.pending = NoSession]
           x == [st[n] EXCEPT !.pending = NoSession, !.accepting = s]
           t == [at |-> "join", flow |-> "accept", s |-> s]
           Leaves(y, z) == /\ th' = [th EXCEPT ![n][c] = z]
                           /\ st' = [st EXCEPT ![n] = y] \/ (st' = st /\ y = st[n])
                           /\ c = "ui" => Tended(y, z, th[n]["listener"], pt[n])
                           /\ c = "listener" => Tended(y, th[n]["ui"], z, pt[n])
<1>1. st[n] \in Members  BY DEF Inv, TypeOK
<1>2. Tended(st[n], th[n]["ui"], th[n]["listener"], pt[n])  BY DEF AllTended
<1>3. ASSUME NEW y, NEW z, Leaves(y, z) PROVE AllTended'
  BY <1>3, ThreadTends
<1>4. /\ q.terminated = st[n].terminated /\ q.paused = st[n].paused
      /\ q.accepting = st[n].accepting /\ q.offer = st[n].offer /\ q.waiting = st[n].waiting
      /\ InTransfer(q) = InTransfer(st[n])
      /\ x.terminated = st[n].terminated /\ x.paused = st[n].paused
      /\ x.offer = st[n].offer /\ x.waiting = st[n].waiting
      /\ InTransfer(x) = InTransfer(st[n])
  BY <1>1 DEF Members, InTransfer
<1>5. \/ Return(n, c) /\ st' = st
      \/ Return(n, c) /\ st' = [st EXCEPT ![n] = q]
      \/ th' = [th EXCEPT ![n][c] = t] /\ st' = [st EXCEPT ![n] = x]
  BY DEF AcceptPending
<1> HIDE DEF q, x
<1> USE DEF Tended, PauseTended, TransferTended, AcceptTended, Releasing, Idle
<1>6. Leaves(st[n], Idle) \/ Leaves(q, Idle) \/ Leaves(x, t)
  BY <1>2, <1>4, <1>5 DEF Return
<1> QED  BY <1>3, <1>6

\* The user's calls, and the loss of the cable.
LEMMA UserTends ==
    ASSUME Inv, AllTended, NEW n \in Node,
           \/ Send(n) \/ Staged(n) \/ SendBegins(n) \/ UserDeclines(n)
           \/ CableLost(n) \/ FinishLost(n)
    PROVE  AllTended'
<1> DEFINE r == st[n]
           p == pt[n]
           ui == th[n]["ui"]
           li == th[n]["listener"]
           Leaves(q, t) == /\ th' = [th EXCEPT ![n]["ui"] = t]
                           /\ st' = [st EXCEPT ![n] = q] \/ (st' = st /\ q = r)
                           /\ Tended(q, t, li, p)
<1>1. r \in Members /\ ui \in Control /\ pt' = pt
  BY DEF Inv, TypeOK, Send, Staged, SendBegins, UserDeclines, CableLost, FinishLost
<1>2. Tended(r, ui, li, p)  BY DEF AllTended
<1>3. ASSUME NEW q, NEW t, Leaves(q, t) PROVE AllTended'
  BY <1>1, <1>3, ThreadTends
<1> HIDE DEF li, p
<1> USE DEF Tended, PauseTended, TransferTended, AcceptTended, InTransfer
<1>4. CASE Send(n)
  <2> DEFINE t == [at |-> "stage", flow |-> "offer", s |-> sessions + 1]
  <2>1. Leaves(r, t)  BY <1>1, <1>2, <1>4 DEF Send, At
  <2> QED  BY <1>3, <2>1
<1>5. CASE Staged(n)
  <2>1. UiOK(n, ui)  BY DEF Inv, Followed
  <2>2. ui.flow = "offer"  BY <1>5, <2>1 DEF Staged, At, UiOK
  <2>3. Leaves(r, [ui EXCEPT !.at = "join"])
    BY <1>1, <1>2, <1>5, <2>2 DEF Staged, At, Move, Control
  <2> QED  BY <1>3, <2>3
<1>6. CASE SendBegins(n)
  <2> DEFINE q == [r EXCEPT !.busy = TRUE, !.waiting = TRUE]
  <2>1. UiOK(n, ui)  BY DEF Inv, Followed
  <2>2. ui.flow = "offer"  BY <1>6, <2>1 DEF SendBegins, At, UiOK
  <2>3. Leaves(q, [ui EXCEPT !.at = "spawn"])
    BY <1>1, <1>2, <1>6, <2>2 DEF SendBegins, At, Move, Control, Members
  <2> QED  BY <1>3, <2>3
<1>7. CASE UserDeclines(n)
  <2> DEFINE q == [r EXCEPT !.pending = NoSession]
             t == [at |-> "join", flow |-> "decline", s |-> r.pending]
  <2>1. Leaves(q, t)  BY <1>1, <1>2, <1>7 DEF UserDeclines, At, Members
  <2> QED  BY <1>3, <2>1
<1>8. CASE CableLost(n)
  BY <1>8 DEF CableLost, AllTended
<1>9. CASE FinishLost(n)
  <2>1. r.terminated \/ AcceptTended(r, ui, li, p)  BY <1>2
  <2>2. Tended(Finished(r, "Failed"), ui, li, p)
    <3> HIDE DEF Tended, AcceptTended
    <3> QED  BY <1>1, <2>1, FinishedIsTended
  <2>3. th' = th /\ st'[n] = Finished(r, "Failed") /\ \A m \in Node : m # n => st'[m] = st[m]
    BY <1>9 DEF FinishLost, Inv, TypeOK
  <2> HIDE DEF Tended
  <2> QED  BY <1>1, <2>2, <2>3, OneTended DEF li, p
<1> QED  BY <1>4, <1>5, <1>6, <1>7, <1>8, <1>9

\* AllTended is inductive, given the types and what the threads are about.
LEMMA TendedInit == Init => AllTended
<1> SUFFICES ASSUME Init, NEW n \in Node
             PROVE  Tended(st[n], th[n]["ui"], th[n]["listener"], pt[n])
  BY DEF AllTended
<1>1. /\ ~st[n].paused /\ ~st[n].busy /\ ~st[n].waiting /\ ~st[n].awaiting
      /\ st[n].offer = NoSession /\ st[n].staged = NoSession /\ st[n].accepting = NoSession
  BY DEF Init
<1> QED  BY <1>1 DEF Tended, PauseTended, TransferTended, AcceptTended, InTransfer
LEMMA TendedNext == Inv /\ AllTended /\ [Next]_vars => AllTended'
<1> SUFFICES ASSUME Inv, AllTended, [Next]_vars PROVE AllTended'  OBVIOUS
<1>1. CASE UNCHANGED vars  BY <1>1 DEF vars, AllTended
<1>2. ASSUME NEW n \in Node, UserAccepts(n) PROVE AllTended'
  BY <1>2, AcceptPendingTends DEF UserAccepts, At
<1>3. ASSUME NEW n \in Node, AutoAccept(n) PROVE AllTended'
  BY <1>3, AcceptPendingTends DEF AutoAccept, At
<1>4. ASSUME NEW n \in Node, Ui(n) PROVE AllTended'
  BY <1>2, <1>4, UserTends, JoinTends, SpawnTends DEF Ui
<1>5. ASSUME NEW n \in Node, Listener(n) PROVE AllTended'
  BY <1>3, <1>5, ListenerTends, JoinTends, SpawnTends DEF Listener
<1>6. ASSUME NEW n \in Node, Payload(n) PROVE AllTended'
  BY <1>6, OfferThreadTends, AcceptThreadTends, DeclineThreadTends, PayloadThreadTends DEF Payload
<1> QED  BY <1>1, <1>4, <1>5, <1>6, UserTends DEF Next

\* A station at rest has no thread on its way to anything, so nothing is set.
LEMMA TendedResets == AllTended => MembersReset
<1> SUFFICES ASSUME AllTended, NEW n \in Node, Alive(n), AtRest(n)
             PROVE  /\ ~st[n].paused /\ ~IsBusy(n) /\ ~st[n].waiting /\ ~st[n].awaiting
                    /\ st[n].offer = NoSession /\ st[n].staged = NoSession
  BY DEF MembersReset
<1>1. Tended(st[n], Idle, Idle, Quiet)  BY DEF AllTended, AtRest
<1> QED
  BY <1>1 DEF Alive, IsBusy, Tended, PauseTended, TransferTended, AcceptTended, InTransfer, Releasing,
              PausePoints, FinishPoints, Waits, Accepting, Idle, Quiet

\* Whichever of the paths to finish_transfer ended a transfer, a station whose
\* threads are all at rest listens again and can send and be offered: whatever the
\* threads interleave, however late a frame or a timeout is, and whatever cable is
\* lost in between.
THEOREM OrchestratorMembersReset == Spec => []MembersReset
<1> QED  BY InvInit, InvNext, TendedInit, TendedNext, TendedResets, PTL DEF Spec
-----------------------------------------------------------------------------
(* Prompt behaviours without a cable loss: the file received is the file   *)
(* offered, and rest leaves no staged file.  Each station is in order by   *)
(* itself, whatever the other does: its threads take turns, what it sends  *)
(* and what it accepts agree with their control, and each staged file has  *)
(* a thread that will remove it.  Across the fabric, a station that is     *)
(* released to send a session meets a peer that can receive no other.      *)

Early == {"offer", "send_offer", "gap", "arm"}
Sending == {"payload", "sending"}
Late == {"prepare", "receiving", "received", "leave"}
Brief == {"arm", "expire", "failed", "prepare", "leave"}
Offers(ui) == ui.at \in {"stage", "join", "begin", "spawn"} /\ ui.flow = "offer"
Accepts(t) == t.at \in {"join", "spawn"} /\ t.flow = "accept"
HasOffer(li) == li.at = "got" /\ li.flow = "offer"
HasReady(li) == li.at = "got" /\ li.flow = "ready"

\* While ui or listener has code to run, no payload thread ends a sleep.
InTurn(r, ui, li, p) ==
    /\ li.at \notin {"idle", "join"} => p.at \notin Brief
    /\ ui.at \in {"begin", "spawn"} => p.at \in {"none", "accept", "send_accept"} \cup Sending
    /\ li.at = "spawn" => p.at \in {"none", "offer", "send_offer", "accept", "send_accept",
                                    "decline", "send_decline"}
    /\ p.at \in {"resend", "resume"} => r.paused /\ li.at \in {"idle", "join"}

\* The session offered: who has it in hand, and what keeps a second one away.
Outgoing(r, ui, li, p) ==
    /\ r.staged = r.offer
    /\ r.offer # NoSession =>
          r.busy /\ \/ p.at \in Waits \cup {"expire"} \cup Sending /\ p.s = r.offer
                    \/ Releasing(li) /\ li.s = r.offer
    /\ r.offer # NoSession /\ p.at \in Waits =>
          r.waiting \/ (Releasing(li) /\ li.s = r.offer)
    /\ p.at \in Early => /\ r.busy /\ r.offer = NoSession
                         /\ li.at \notin {"finish", "start"} /\ ~Releasing(li)
    /\ li.at = "start" => r.offer # NoSession /\ r.offer = li.s
    /\ li.at = "finish" => r.offer = NoSession
    /\ p.at \in Sending => li.at # "start" /\ ~HasReady(li) /\ ~Releasing(li)
    /\ Releasing(li) => /\ p.at \notin {"resend", "resume", "expire"}
                        /\ p.at = "poll" => ~r.waiting
                        /\ p.at \in Accepting \cup {"failed"} => ui.at = "idle"
                        /\ r.offer # NoSession \/ (p.at \in {"leave", "none"} /\ ui.at = "idle")
    /\ Offers(ui) => /\ r.offer = NoSession /\ p.at \notin Early
                     /\ li.at \notin {"finish", "start"} /\ ~Releasing(li)
                     /\ ui.at = "spawn" => r.busy

\* The session accepted: one thread has it in hand, and no other offer is posted.
Incoming(r, ui, li, p) ==
    /\ r.accepting # NoSession => r.pending = NoSession
    /\ li.at = "post" => r.accepting = NoSession
    /\ p.at \in Accepting => r.accepting # NoSession /\ r.accepting = p.s
    /\ Accepts(ui) => r.accepting # NoSession /\ r.accepting = ui.s
    /\ Accepts(li) => r.accepting # NoSession /\ r.accepting = li.s
    /\ ~(Accepts(ui) /\ Accepts(li))
    /\ p.at \in Accepting => ~Accepts(ui) /\ ~Accepts(li)

\* The thread that has the file staged for s, and will remove it.
Holds(r, ui, li, p, s) ==
    \/ Offers(ui) /\ ui.s = s
    \/ Releasing(li) /\ li.s = s
    \/ p.at \in Early \cup {"expire"} \cup Sending /\ p.s = s
    \/ p.at \in Waits /\ p.s = s /\ r.offer = s

\* The peer has said that it is ready for s, and the payload is not yet sent.
Released(li, p, s) ==
    \/ (HasReady(li) \/ li.at = "start" \/ Releasing(li)) /\ li.s = s
    \/ p.at \in Sending /\ p.s = s

\* A station that can receive in no session but s: it has said that it is ready.
Serves(r, li, p, s) ==
    /\ r.pending = NoSession /\ ~HasOffer(li) /\ li.at \notin {"busy_check", "post"}
    /\ r.accepting # NoSession => p.at \in Late /\ p.s = s

TempHeld(n) == \A s \in temp :
    from[s] = n => Holds(st[n], th[n]["ui"], th[n]["listener"], pt[n], s)
InOrder(n) == /\ InTurn(st[n], th[n]["ui"], th[n]["listener"], pt[n])
              /\ Outgoing(st[n], th[n]["ui"], th[n]["listener"], pt[n])
              /\ Incoming(st[n], th[n]["ui"], th[n]["listener"], pt[n])
              /\ TempHeld(n)

\* A step of n keeps it in order, releases no session by itself, and takes in none.
Keeps(n) ==
    st'[n].terminated \/
    /\ InOrder(n)'
    /\ \A s \in SessionOr0 :
          /\ Released(th'[n]["listener"], pt'[n], s) => Released(th[n]["listener"], pt[n], s)
          /\ Serves(st[n], th[n]["listener"], pt[n], s) =>
                Serves(st'[n], th'[n]["listener"], pt'[n], s)

\* What the end of a sleep or of a USB call finds: no thread has code to run.
Pausing(r, ui, li, p) ==
    /\ ui.at \in {"idle", "stage"} \/ (ui.at = "join" /\ r.joinable /\ p.at # "none")
    /\ li.at = "idle" \/ (li.at = "join" /\ r.joinable /\ p.at # "none")
    /\ p.at \notin Brief

LEMMA SlowPauses ==
    ASSUME Inv, prompt, NEW n \in Node, Slow(n)
    PROVE  Pausing(st[n], th[n]["ui"], th[n]["listener"], pt[n])
<1>1. ListenerOK(n, th[n]["listener"])  BY DEF Inv, Followed
<1>2. th[n]["listener"].at # "stage"  BY <1>1 DEF ListenerOK
<1>3. /\ \A c \in {"ui", "listener"} :
            \/ th[n][c].at \in {"idle", "stage"}
            \/ th[n][c].at = "join" /\ st[n].joinable /\ pt[n].at # "none"
      /\ pt[n].at \notin Brief
  BY DEF Slow, Running, Brief
<1> QED  BY <1>2, <1>3 DEF Pausing

\* Which flows the two threads are in, at which places; and that a session in the
\* hands of a payload thread is one.
Roles(r, ui, li, p) ==
    /\ ui.at \in {"idle", "stage", "join", "begin", "spawn"}
    /\ ui.at \in {"stage", "begin"} => ui.flow = "offer"
    /\ ui.at \in {"join", "spawn"} => ui.flow \in {"offer", "accept", "decline"}
    /\ li.at \notin {"stage", "begin"}
    /\ li.at \in {"join", "spawn"} => li.flow \in {"accept", "payload"}
    /\ p.at \in Offering \cup Accepting => p.s # NoSession
    /\ p.at # "none" => r.joinable

LEMMA InRoles ==
    ASSUME Inv, NEW n \in Node
    PROVE  /\ Roles(st[n], th[n]["ui"], th[n]["listener"], pt[n])
           /\ st[n] \in Members /\ pt[n] \in Errand
           /\ th[n]["ui"] \in Control /\ th[n]["listener"] \in Control
           /\ st \in [Node -> Members] /\ pt \in [Node -> Errand]
           /\ th \in [Node -> [{"ui", "listener"} -> Control]]
<1>1. UiOK(n, th[n]["ui"]) /\ ListenerOK(n, th[n]["listener"]) /\ PayloadOK(n, pt[n])
  BY DEF Inv, Followed
<1>2. TypeOK  BY DEF Inv
<1>3. pt[n].at \in Offering \cup Accepting => pt[n].s # NoSession
  BY <1>1 DEF PayloadOK, Own, Agreed, Foreign, Made, NoSession
<1>4. pt[n].at # "none" => st[n].joinable  BY <1>2 DEF TypeOK
<1>5. /\ th[n]["ui"].at \in {"idle", "stage", "join", "begin", "spawn"}
      /\ th[n]["ui"].at \in {"stage", "begin"} => th[n]["ui"].flow = "offer"
      /\ th[n]["ui"].at \in {"join", "spawn"} => th[n]["ui"].flow \in {"offer", "accept", "decline"}
  BY <1>1 DEF UiOK
<1>6. /\ th[n]["listener"].at \notin {"stage", "begin"}
      /\ th[n]["listener"].at \in {"join", "spawn"} => th[n]["listener"].flow \in {"accept", "payload"}
  BY <1>1 DEF ListenerOK
<1> QED  BY <1>2, <1>3, <1>4, <1>5, <1>6 DEF TypeOK, Roles

\* The members finish_transfer resets, and those it leaves alone.
LEMMA FinishedFields ==
    ASSUME NEW r \in Members, NEW how \in {"Sent", "Received", "Failed"}
    PROVE  LET q == Finished(r, how) IN
           /\ q.offer = NoSession /\ q.staged = NoSession
           /\ ~q.busy /\ ~q.waiting /\ ~q.paused
           /\ q.pending = r.pending /\ q.accepting = r.accepting
           /\ q.joinable = r.joinable /\ q.terminated = r.terminated
  BY DEF Finished, Members

\* The parts of Keeps, for a step that leaves rr, uu, ll and pp of a station.
LEMMA KeepsByParts ==
    ASSUME NEW n \in Node, temp' \subseteq Session,
           InTurn(st'[n], th'[n]["ui"], th'[n]["listener"], pt'[n]),
           Outgoing(st'[n], th'[n]["ui"], th'[n]["listener"], pt'[n]),
           Incoming(st'[n], th'[n]["ui"], th'[n]["listener"], pt'[n]),
           \A s \in Session : s \in temp' /\ from'[s] = n =>
              Holds(st'[n], th'[n]["ui"], th'[n]["listener"], pt'[n], s),
           \A s \in SessionOr0 :
              Released(th'[n]["listener"], pt'[n], s) => Released(th[n]["listener"], pt[n], s),
           \A s \in SessionOr0 : Serves(st[n], th[n]["listener"], pt[n], s) =>
              Serves(st'[n], th'[n]["listener"], pt'[n], s)
    PROVE  Keeps(n)
  BY DEF Keeps, InOrder, TempHeld

-----------------------------------------------------------------------------
(* Each station by itself: a step of n keeps n in order.                   *)

\* The thread of an offer.
LEMMA OfferThreadInOrder ==
    ASSUME Inv, Inv', prompt, NEW n \in Node, ~st[n].terminated, InOrder(n), OfferThread(n)
    PROVE  Keeps(n)
<1> DEFINE r == st[n]
           p == pt[n]
           ui == th[n]["ui"]
           li == th[n]["listener"]
           rr == st'[n]
           pp == pt'[n]
           uu == th'[n]["ui"]
           ll == th'[n]["listener"]
<1>1. /\ Roles(r, ui, li, p) /\ r \in Members /\ p \in Errand /\ ui \in Control /\ li \in Control
      /\ st \in [Node -> Members] /\ pt \in [Node -> Errand]
      /\ th \in [Node -> [{"ui", "listener"} -> Control]]
  BY InRoles
<1>2. Slow(n) => Pausing(r, ui, li, p)  BY SlowPauses
<1>3. /\ InTurn(r, ui, li, p) /\ Outgoing(r, ui, li, p) /\ Incoming(r, ui, li, p)
      /\ \A s \in temp : from[s] = n => Holds(r, ui, li, p, s)
  BY DEF InOrder, TempHeld
<1> DEFINE HeldOn == \A s \in Session : s \in temp' /\ from'[s] = n => Holds(rr, uu, ll, pp, s)
           ReleasesNone == \A s \in SessionOr0 : Released(ll, pp, s) => Released(li, p, s)
           TakesNone == \A s \in SessionOr0 : Serves(r, li, p, s) => Serves(rr, ll, pp, s)
<1>5. temp' \subseteq Session  BY DEF Inv, TypeOK
<1>4. ASSUME InTurn(rr, uu, ll, pp), Outgoing(rr, uu, ll, pp), Incoming(rr, uu, ll, pp),
             HeldOn, ReleasesNone, TakesNone
      PROVE  Keeps(n)
  BY <1>4, <1>5, KeepsByParts
<1> USE DEF PtAt, PtMove, PtExit, Mine
<1> HIDE DEF r, p, ui, li, rr, pp, uu, ll
<1> USE DEF Brief, Early, Sending, Late, Waits, Offers, Accepts, HasReady, HasOffer, Releasing,
   Accepting,
            Offering, Pausing, Quiet, Idle, Members, Errand
<1>10. CASE Pauses(n, "offer", "send_offer")
  <2>1. /\ rr = [r EXCEPT !.paused = TRUE]
        /\ pp = [p EXCEPT !.at = "send_offer"]
        /\ p.at = "offer"
        /\ uu = ui /\ ll = li
        /\ temp' = temp /\ from' = from
    BY <1>1, <1>2, <1>10 DEF Pauses, world, r, p, ui, li, rr, pp, uu, ll
  <2>2. InTurn(rr, uu, ll, pp)  BY <1>1, <1>3, <2>1 DEF InTurn, Roles
  <2>3. Outgoing(rr, uu, ll, pp)  BY <1>1, <1>3, <2>1 DEF InTurn, Outgoing, Roles
  <2>4. Incoming(rr, uu, ll, pp)  BY <1>1, <1>3, <2>1 DEF InTurn, Outgoing, Incoming, Roles
  <2>5. HeldOn  BY <1>1, <1>3, <2>1 DEF InTurn, Outgoing, Holds, Roles
  <2>6. ReleasesNone  BY <1>1, <1>3, <2>1 DEF Released
  <2>7. TakesNone  BY <1>1, <1>3, <2>1 DEF InTurn, Outgoing, Incoming, Serves, Roles
  <2> QED  BY <1>4, <2>2, <2>3, <2>4, <2>5, <2>6, <2>7
<1>11. CASE OfferSent(n)
  <2>1. /\ rr = r
        /\ pp = [p EXCEPT !.at = "gap"]
        /\ p.at = "send_offer"
        /\ uu = ui /\ ll = li
        /\ temp' = temp /\ from' = from
        /\ Pausing(r, ui, li, p)
    BY <1>1, <1>2, <1>11, FrameElsewhere DEF OfferSent, world, r, p, ui, li, rr, pp, uu, ll
  <2>2. InTurn(rr, uu, ll, pp)  BY <1>1, <1>3, <2>1 DEF InTurn, Roles
  <2>3. Outgoing(rr, uu, ll, pp)  BY <1>1, <1>3, <2>1 DEF InTurn, Outgoing, Roles
  <2>4. Incoming(rr, uu, ll, pp)  BY <1>1, <1>3, <2>1 DEF InTurn, Outgoing, Incoming, Roles
  <2>5. HeldOn  BY <1>1, <1>3, <2>1 DEF InTurn, Outgoing, Holds, Roles
  <2>6. ReleasesNone  BY <1>1, <1>3, <2>1 DEF Released
  <2>7. TakesNone  BY <1>1, <1>3, <2>1 DEF InTurn, Outgoing, Incoming, Serves, Roles
  <2> QED  BY <1>4, <2>2, <2>3, <2>4, <2>5, <2>6, <2>7
<1>12. CASE OfferFails(n)
  <2>1. /\ rr = r
        /\ pp = [p EXCEPT !.at = "failed"]
        /\ p.at = "send_offer"
        /\ uu = ui /\ ll = li
        /\ temp' = temp \ {p.s} /\ from' = from
        /\ Pausing(r, ui, li, p)
    BY <1>1, <1>2, <1>12 DEF OfferFails, r, p, ui, li, rr, pp, uu, ll
  <2>2. InTurn(rr, uu, ll, pp)  BY <1>1, <1>3, <2>1 DEF InTurn, Roles
  <2>3. Outgoing(rr, uu, ll, pp)  BY <1>1, <1>3, <2>1 DEF InTurn, Outgoing, Roles
  <2>4. Incoming(rr, uu, ll, pp)  BY <1>1, <1>3, <2>1 DEF InTurn, Outgoing, Incoming, Roles
  <2>5. HeldOn  BY <1>1, <1>3, <2>1 DEF InTurn, Outgoing, Holds, Roles
  <2>6. ReleasesNone  BY <1>1, <1>3, <2>1 DEF Released
  <2>7. TakesNone  BY <1>1, <1>3, <2>1 DEF InTurn, Outgoing, Incoming, Serves, Roles
  <2> QED  BY <1>4, <2>2, <2>3, <2>4, <2>5, <2>6, <2>7
<1>13. CASE Rearm(n)
  <2>1. /\ rr = [r EXCEPT !.paused = FALSE]
        /\ pp = [p EXCEPT !.at = "arm"]
        /\ p.at = "gap"
        /\ uu = ui /\ ll = li
        /\ temp' = temp /\ from' = from
        /\ Pausing(r, ui, li, p)
    BY <1>1, <1>2, <1>13 DEF Rearm, world, r, p, ui, li, rr, pp, uu, ll
  <2>2. InTurn(rr, uu, ll, pp)  BY <1>1, <1>3, <2>1 DEF InTurn, Roles
  <2>3. Outgoing(rr, uu, ll, pp)  BY <1>1, <1>3, <2>1 DEF InTurn, Outgoing, Roles
  <2>4. Incoming(rr, uu, ll, pp)  BY <1>1, <1>3, <2>1 DEF InTurn, Outgoing, Incoming, Roles
  <2>5. HeldOn  BY <1>1, <1>3, <2>1 DEF InTurn, Outgoing, Holds, Roles
  <2>6. ReleasesNone  BY <1>1, <1>3, <2>1 DEF Released
  <2>7. TakesNone  BY <1>1, <1>3, <2>1 DEF InTurn, Outgoing, Incoming, Serves, Roles
  <2> QED  BY <1>4, <2>2, <2>3, <2>4, <2>5, <2>6, <2>7
<1>14. CASE Arm(n)
  <2>1. /\ rr = [r EXCEPT !.staged = p.s, !.offer = p.s,
                            !.awaiting = FALSE, !.waiting = TRUE]
        /\ pp = [p EXCEPT !.at = "poll"]
        /\ p.at = "arm"
        /\ uu = ui /\ ll = li
        /\ temp' = temp /\ from' = from
    BY <1>1, <1>2, <1>14 DEF Arm, world, r, p, ui, li, rr, pp, uu, ll
  <2>2. InTurn(rr, uu, ll, pp)  BY <1>1, <1>3, <2>1 DEF InTurn, Roles
  <2>3. Outgoing(rr, uu, ll, pp)  BY <1>1, <1>3, <2>1 DEF InTurn, Outgoing, Roles
  <2>4. Incoming(rr, uu, ll, pp)  BY <1>1, <1>3, <2>1 DEF InTurn, Outgoing, Incoming, Roles
  <2>5. HeldOn  BY <1>1, <1>3, <2>1 DEF InTurn, Outgoing, Holds, Roles
  <2>6. ReleasesNone  BY <1>1, <1>3, <2>1 DEF Released
  <2>7. TakesNone  BY <1>1, <1>3, <2>1 DEF InTurn, Outgoing, Incoming, Serves, Roles
  <2> QED  BY <1>4, <2>2, <2>3, <2>4, <2>5, <2>6, <2>7
<1>15. CASE LeavePoll(n)
  <2>1. /\ rr = r
        /\ pp = Quiet
        /\ p.at = "poll" /\ ~(r.waiting /\ r.offer # NoSession)
        /\ uu = ui /\ ll = li
        /\ temp' = temp /\ from' = from
        /\ Pausing(r, ui, li, p)
    BY <1>1, <1>2, <1>15 DEF LeavePoll, StillWaiting, world, r, p, ui, li, rr, pp, uu, ll
  <2>2. InTurn(rr, uu, ll, pp)  BY <1>1, <1>3, <2>1 DEF InTurn, Roles
  <2>3. Outgoing(rr, uu, ll, pp)  BY <1>1, <1>3, <2>1 DEF InTurn, Outgoing, Roles
  <2>4. Incoming(rr, uu, ll, pp)  BY <1>1, <1>3, <2>1 DEF InTurn, Outgoing, Incoming, Roles
  <2>5. HeldOn  BY <1>1, <1>3, <2>1 DEF InTurn, Outgoing, Holds, Roles
  <2>6. ReleasesNone  BY <1>1, <1>3, <2>1 DEF Released
  <2>7. TakesNone  BY <1>1, <1>3, <2>1 DEF InTurn, Outgoing, Incoming, Serves, Roles
  <2> QED  BY <1>4, <2>2, <2>3, <2>4, <2>5, <2>6, <2>7
<1>16. CASE Retransmit(n)
  <2>1. /\ rr = [r EXCEPT !.paused = TRUE]
        /\ pp = [p EXCEPT !.at = "resend", !.resent = TRUE]
        /\ p.at = "poll" /\ r.waiting /\ r.offer # NoSession
        /\ uu = ui /\ ll = li
        /\ temp' = temp /\ from' = from
        /\ Pausing(r, ui, li, p)
    BY <1>1, <1>2, <1>16 DEF Retransmit, StillWaiting, world, r, p, ui, li, rr, pp, uu, ll
  <2>2. InTurn(rr, uu, ll, pp)  BY <1>1, <1>3, <2>1 DEF InTurn, Roles
  <2>3. Outgoing(rr, uu, ll, pp)  BY <1>1, <1>3, <2>1 DEF InTurn, Outgoing, Roles
  <2>4. Incoming(rr, uu, ll, pp)  BY <1>1, <1>3, <2>1 DEF InTurn, Outgoing, Incoming, Roles
  <2>5. HeldOn  BY <1>1, <1>3, <2>1 DEF InTurn, Outgoing, Holds, Roles
  <2>6. ReleasesNone  BY <1>1, <1>3, <2>1 DEF Released
  <2>7. TakesNone  BY <1>1, <1>3, <2>1 DEF InTurn, Outgoing, Incoming, Serves, Roles
  <2> QED  BY <1>4, <2>2, <2>3, <2>4, <2>5, <2>6, <2>7
<1>17. CASE Resend(n)
  <2>1. /\ rr = r
        /\ pp = [p EXCEPT !.at = "resume"]
        /\ p.at = "resend"
        /\ uu = ui /\ ll = li
        /\ temp' = temp /\ from' = from
        /\ Pausing(r, ui, li, p)
    BY <1>1, <1>2, <1>17, FrameElsewhere DEF Resend, world, r, p, ui, li, rr, pp, uu, ll
  <2>2. InTurn(rr, uu, ll, pp)  BY <1>1, <1>3, <2>1 DEF InTurn, Roles
  <2>3. Outgoing(rr, uu, ll, pp)  BY <1>1, <1>3, <2>1 DEF InTurn, Outgoing, Roles
  <2>4. Incoming(rr, uu, ll, pp)  BY <1>1, <1>3, <2>1 DEF InTurn, Outgoing, Incoming, Roles
  <2>5. HeldOn  BY <1>1, <1>3, <2>1 DEF InTurn, Outgoing, Holds, Roles
  <2>6. ReleasesNone  BY <1>1, <1>3, <2>1 DEF Released
  <2>7. TakesNone  BY <1>1, <1>3, <2>1 DEF InTurn, Outgoing, Incoming, Serves, Roles
  <2> QED  BY <1>4, <2>2, <2>3, <2>4, <2>5, <2>6, <2>7
<1>18. CASE ResumeAfterResend(n)
  <2>1. /\ rr = [r EXCEPT !.paused = FALSE]
        /\ pp = [p EXCEPT !.at = "poll"]
        /\ p.at = "resume"
        /\ uu = ui /\ ll = li
        /\ temp' = temp /\ from' = from
    BY <1>1, <1>2, <1>18 DEF ResumeAfterResend, world, r, p, ui, li, rr, pp, uu, ll
  <2>2. InTurn(rr, uu, ll, pp)  BY <1>1, <1>3, <2>1 DEF InTurn, Roles
  <2>3. Outgoing(rr, uu, ll, pp)  BY <1>1, <1>3, <2>1 DEF InTurn, Outgoing, Roles
  <2>4. Incoming(rr, uu, ll, pp)  BY <1>1, <1>3, <2>1 DEF InTurn, Outgoing, Incoming, Roles
  <2>5. HeldOn  BY <1>1, <1>3, <2>1 DEF InTurn, Outgoing, Holds, Roles
  <2>6. ReleasesNone  BY <1>1, <1>3, <2>1 DEF Released
  <2>7. TakesNone  BY <1>1, <1>3, <2>1 DEF InTurn, Outgoing, Incoming, Serves, Roles
  <2> QED  BY <1>4, <2>2, <2>3, <2>4, <2>5, <2>6, <2>7
<1>19. CASE TimeUp(n)
  <2>1. /\ rr = r
        /\ pp = [p EXCEPT !.at = "expire"]
        /\ p.at = "poll" /\ r.waiting /\ r.offer # NoSession
        /\ uu = ui /\ ll = li
        /\ temp' = temp /\ from' = from
        /\ Pausing(r, ui, li, p)
    BY <1>1, <1>2, <1>19 DEF TimeUp, Overdue, StillWaiting, world, r, p, ui, li, rr, pp, uu, ll
  <2>2. InTurn(rr, uu, ll, pp)  BY <1>1, <1>3, <2>1 DEF InTurn, Roles
  <2>3. Outgoing(rr, uu, ll, pp)  BY <1>1, <1>3, <2>1 DEF InTurn, Outgoing, Roles
  <2>4. Incoming(rr, uu, ll, pp)  BY <1>1, <1>3, <2>1 DEF InTurn, Outgoing, Incoming, Roles
  <2>5. HeldOn  BY <1>1, <1>3, <2>1 DEF InTurn, Outgoing, Holds, Roles
  <2>6. ReleasesNone  BY <1>1, <1>3, <2>1 DEF Released
  <2>7. TakesNone  BY <1>1, <1>3, <2>1 DEF InTurn, Outgoing, Incoming, Serves, Roles
  <2> QED  BY <1>4, <2>2, <2>3, <2>4, <2>5, <2>6, <2>7
<1>20. CASE Expire(n)
  <2>1. /\ rr = [r EXCEPT !.offer = NoSession, !.staged = NoSession,
                            !.awaiting = FALSE]
        /\ pp = [p EXCEPT !.at = "failed"]
        /\ p.at = "expire"
        /\ uu = ui /\ ll = li
        /\ temp' = temp \ {p.s} /\ from' = from
    BY <1>1, <1>2, <1>20 DEF Expire, RemovesTemp, r, p, ui, li, rr, pp, uu, ll
  <2>2. InTurn(rr, uu, ll, pp)  BY <1>1, <1>3, <2>1 DEF InTurn, Roles
  <2>3. Outgoing(rr, uu, ll, pp)  BY <1>1, <1>3, <2>1 DEF InTurn, Outgoing, Roles
  <2>4. Incoming(rr, uu, ll, pp)  BY <1>1, <1>3, <2>1 DEF InTurn, Outgoing, Incoming, Roles
  <2>5. HeldOn  BY <1>1, <1>3, <2>1 DEF InTurn, Outgoing, Holds, Roles
  <2>6. ReleasesNone  BY <1>1, <1>3, <2>1 DEF Released
  <2>7. TakesNone  BY <1>1, <1>3, <2>1 DEF InTurn, Outgoing, Incoming, Serves, Roles
  <2> QED  BY <1>4, <2>2, <2>3, <2>4, <2>5, <2>6, <2>7
<1>21. CASE FinishFailed(n)
  <2>1. /\ rr = Finished(r, "Failed")
        /\ pp = Quiet
        /\ p.at = "failed"
        /\ uu = ui /\ ll = li
        /\ temp' = temp /\ from' = from
    BY <1>1, <1>2, <1>21 DEF FinishFailed, world, r, p, ui, li, rr, pp, uu, ll
  <2>8. /\ rr.offer = NoSession /\ rr.staged = NoSession
        /\ ~rr.busy /\ ~rr.waiting /\ ~rr.paused
        /\ rr.pending = r.pending /\ rr.accepting = r.accepting
        /\ rr.joinable = r.joinable /\ rr.terminated = r.terminated
    BY <1>1, <2>1, FinishedFields
  <2>2. InTurn(rr, uu, ll, pp)  BY <1>1, <1>3, <2>1, <2>8 DEF InTurn, Roles
  <2>3. Outgoing(rr, uu, ll, pp)  BY <1>1, <1>3, <2>1, <2>8 DEF InTurn, Outgoing, Roles
  <2>4. Incoming(rr, uu, ll, pp)
    BY <1>1, <1>3, <2>1, <2>8 DEF InTurn, Outgoing, Incoming, Roles
  <2>5. HeldOn  BY <1>1, <1>3, <2>1, <2>8 DEF InTurn, Outgoing, Holds, Roles
  <2>6. ReleasesNone  BY <1>1, <1>3, <2>1, <2>8 DEF Released
  <2>7. TakesNone  BY <1>1, <1>3, <2>1, <2>8 DEF InTurn, Outgoing, Incoming, Serves, Roles
  <2> QED  BY <1>4, <2>2, <2>3, <2>4, <2>5, <2>6, <2>7
<1> QED
  BY <1>10, <1>11, <1>12, <1>13, <1>14, <1>15, <1>16, <1>17, <1>18, <1>19, <1>20, <1>21
     DEF OfferThread

\* The thread that accepts and receives.
LEMMA AcceptThreadInOrder ==
    ASSUME Inv, Inv', prompt, NEW n \in Node, ~st[n].terminated, InOrder(n), AcceptThread(n)
    PROVE  Keeps(n)
<1> DEFINE r == st[n]
           p == pt[n]
           ui == th[n]["ui"]
           li == th[n]["listener"]
           rr == st'[n]
           pp == pt'[n]
           uu == th'[n]["ui"]
           ll == th'[n]["listener"]
<1>1. /\ Roles(r, ui, li, p) /\ r \in Members /\ p \in Errand /\ ui \in Control /\ li \in Control
      /\ st \in [Node -> Members] /\ pt \in [Node -> Errand]
      /\ th \in [Node -> [{"ui", "listener"} -> Control]]
  BY InRoles
<1>2. Slow(n) => Pausing(r, ui, li, p)  BY SlowPauses
<1>3. /\ InTurn(r, ui, li, p) /\ Outgoing(r, ui, li, p) /\ Incoming(r, ui, li, p)
      /\ \A s \in temp : from[s] = n => Holds(r, ui, li, p, s)
  BY DEF InOrder, TempHeld
<1> DEFINE HeldOn == \A s \in Session : s \in temp' /\ from'[s] = n => Holds(rr, uu, ll, pp, s)
           ReleasesNone == \A s \in SessionOr0 : Released(ll, pp, s) => Released(li, p, s)
           TakesNone == \A s \in SessionOr0 : Serves(r, li, p, s) => Serves(rr, ll, pp, s)
<1>5. temp' \subseteq Session  BY DEF Inv, TypeOK
<1>4. ASSUME InTurn(rr, uu, ll, pp), Outgoing(rr, uu, ll, pp), Incoming(rr, uu, ll, pp),
             HeldOn, ReleasesNone, TakesNone
      PROVE  Keeps(n)
  BY <1>4, <1>5, KeepsByParts
<1> USE DEF PtAt, PtMove, PtExit, Mine
<1> HIDE DEF r, p, ui, li, rr, pp, uu, ll
<1> USE DEF Brief, Early, Sending, Late, Waits, Offers, Accepts, HasReady, HasOffer, Releasing,
   Accepting,
            Offering, Pausing, Quiet, Idle, Members, Errand
<1>10. CASE SkipCompleted(n)
  <2>1. /\ rr = [r EXCEPT !.accepting = NoSession]
        /\ pp = Quiet
        /\ p.at = "accept"
        /\ uu = ui /\ ll = li
        /\ temp' = temp /\ from' = from
    BY <1>1, <1>2, <1>10 DEF SkipCompleted, world, r, p, ui, li, rr, pp, uu, ll
  <2>2. InTurn(rr, uu, ll, pp)  BY <1>1, <1>3, <2>1 DEF InTurn, Roles
  <2>3. Outgoing(rr, uu, ll, pp)  BY <1>1, <1>3, <2>1 DEF InTurn, Outgoing, Roles
  <2>4. Incoming(rr, uu, ll, pp)  BY <1>1, <1>3, <2>1 DEF InTurn, Outgoing, Incoming, Roles
  <2>5. HeldOn  BY <1>1, <1>3, <2>1 DEF InTurn, Outgoing, Holds, Roles
  <2>6. ReleasesNone  BY <1>1, <1>3, <2>1 DEF Released
  <2>7. TakesNone  BY <1>1, <1>3, <2>1 DEF InTurn, Outgoing, Incoming, Serves, Roles
  <2> QED  BY <1>4, <2>2, <2>3, <2>4, <2>5, <2>6, <2>7
<1>11. CASE PauseToAccept(n)
  <2>1. /\ rr = [r EXCEPT !.paused = TRUE]
        /\ pp = [p EXCEPT !.at = "send_accept"]
        /\ p.at = "accept"
        /\ uu = ui /\ ll = li
        /\ temp' = temp /\ from' = from
    BY <1>1, <1>2, <1>11 DEF PauseToAccept, Pauses, world, r, p, ui, li, rr, pp, uu, ll
  <2>2. InTurn(rr, uu, ll, pp)  BY <1>1, <1>3, <2>1 DEF InTurn, Roles
  <2>3. Outgoing(rr, uu, ll, pp)  BY <1>1, <1>3, <2>1 DEF InTurn, Outgoing, Roles
  <2>4. Incoming(rr, uu, ll, pp)  BY <1>1, <1>3, <2>1 DEF InTurn, Outgoing, Incoming, Roles
  <2>5. HeldOn  BY <1>1, <1>3, <2>1 DEF InTurn, Outgoing, Holds, Roles
  <2>6. ReleasesNone  BY <1>1, <1>3, <2>1 DEF Released
  <2>7. TakesNone  BY <1>1, <1>3, <2>1 DEF InTurn, Outgoing, Incoming, Serves, Roles
  <2> QED  BY <1>4, <2>2, <2>3, <2>4, <2>5, <2>6, <2>7
<1>12. CASE AcceptSent(n)
  <2>1. /\ rr = r
        /\ pp = [p EXCEPT !.at = "send_ready"]
        /\ p.at = "send_accept"
        /\ uu = ui /\ ll = li
        /\ temp' = temp /\ from' = from
        /\ Pausing(r, ui, li, p)
    BY <1>1, <1>2, <1>12, FrameElsewhere DEF AcceptSent, world, r, p, ui, li, rr, pp, uu, ll
  <2>2. InTurn(rr, uu, ll, pp)  BY <1>1, <1>3, <2>1 DEF InTurn, Roles
  <2>3. Outgoing(rr, uu, ll, pp)  BY <1>1, <1>3, <2>1 DEF InTurn, Outgoing, Roles
  <2>4. Incoming(rr, uu, ll, pp)  BY <1>1, <1>3, <2>1 DEF InTurn, Outgoing, Incoming, Roles
  <2>5. HeldOn  BY <1>1, <1>3, <2>1 DEF InTurn, Outgoing, Holds, Roles
  <2>6. ReleasesNone  BY <1>1, <1>3, <2>1 DEF Released
  <2>7. TakesNone  BY <1>1, <1>3, <2>1 DEF InTurn, Outgoing, Incoming, Serves, Roles
  <2> QED  BY <1>4, <2>2, <2>3, <2>4, <2>5, <2>6, <2>7
<1>13. CASE AcceptFails(n)
  <2>1. /\ rr = [r EXCEPT !.accepting = NoSession]
        /\ pp = [p EXCEPT !.at = "failed"]
        /\ p.at = "send_accept"
        /\ uu = ui /\ ll = li
        /\ temp' = temp /\ from' = from
        /\ Pausing(r, ui, li, p)
    BY <1>1, <1>2, <1>13 DEF AcceptFails, world, r, p, ui, li, rr, pp, uu, ll
  <2>2. InTurn(rr, uu, ll, pp)  BY <1>1, <1>3, <2>1 DEF InTurn, Roles
  <2>3. Outgoing(rr, uu, ll, pp)  BY <1>1, <1>3, <2>1 DEF InTurn, Outgoing, Roles
  <2>4. Incoming(rr, uu, ll, pp)  BY <1>1, <1>3, <2>1 DEF InTurn, Outgoing, Incoming, Roles
  <2>5. HeldOn  BY <1>1, <1>3, <2>1 DEF InTurn, Outgoing, Holds, Roles
  <2>6. ReleasesNone  BY <1>1, <1>3, <2>1 DEF Released
  <2>7. TakesNone  BY <1>1, <1>3, <2>1 DEF InTurn, Outgoing, Incoming, Serves, Roles
  <2> QED  BY <1>4, <2>2, <2>3, <2>4, <2>5, <2>6, <2>7
<1>14. CASE ReadySent(n)
  <2>1. /\ rr = [r EXCEPT !.paused = TRUE]
        /\ pp = [p EXCEPT !.at = "prepare"]
        /\ p.at = "send_ready"
        /\ uu = ui /\ ll = li
        /\ temp' = temp /\ from' = from
        /\ Pausing(r, ui, li, p)
    BY <1>1, <1>2, <1>14, FrameElsewhere DEF ReadySent, world, r, p, ui, li, rr, pp, uu, ll
  <2>2. InTurn(rr, uu, ll, pp)  BY <1>1, <1>3, <2>1 DEF InTurn, Roles
  <2>3. Outgoing(rr, uu, ll, pp)  BY <1>1, <1>3, <2>1 DEF InTurn, Outgoing, Roles
  <2>4. Incoming(rr, uu, ll, pp)  BY <1>1, <1>3, <2>1 DEF InTurn, Outgoing, Incoming, Roles
  <2>5. HeldOn  BY <1>1, <1>3, <2>1 DEF InTurn, Outgoing, Holds, Roles
  <2>6. ReleasesNone  BY <1>1, <1>3, <2>1 DEF Released
  <2>7. TakesNone  BY <1>1, <1>3, <2>1 DEF InTurn, Outgoing, Incoming, Serves, Roles
  <2> QED  BY <1>4, <2>2, <2>3, <2>4, <2>5, <2>6, <2>7
<1>15. CASE ReadyFails(n)
  <2>1. /\ rr = Finished(r, "Failed")
        /\ pp = [p EXCEPT !.at = "leave"]
        /\ p.at = "send_ready"
        /\ uu = ui /\ ll = li
        /\ temp' = temp /\ from' = from
        /\ Pausing(r, ui, li, p)
    BY <1>1, <1>2, <1>15 DEF ReadyFails, world, r, p, ui, li, rr, pp, uu, ll
  <2>8. /\ rr.offer = NoSession /\ rr.staged = NoSession
        /\ ~rr.busy /\ ~rr.waiting /\ ~rr.paused
        /\ rr.pending = r.pending /\ rr.accepting = r.accepting
        /\ rr.joinable = r.joinable /\ rr.terminated = r.terminated
    BY <1>1, <2>1, FinishedFields
  <2>2. InTurn(rr, uu, ll, pp)  BY <1>1, <1>3, <2>1, <2>8 DEF InTurn, Roles
  <2>3. Outgoing(rr, uu, ll, pp)  BY <1>1, <1>3, <2>1, <2>8 DEF InTurn, Outgoing, Roles
  <2>4. Incoming(rr, uu, ll, pp)
    BY <1>1, <1>3, <2>1, <2>8 DEF InTurn, Outgoing, Incoming, Roles
  <2>5. HeldOn  BY <1>1, <1>3, <2>1, <2>8 DEF InTurn, Outgoing, Holds, Roles
  <2>6. ReleasesNone  BY <1>1, <1>3, <2>1, <2>8 DEF Released
  <2>7. TakesNone  BY <1>1, <1>3, <2>1, <2>8 DEF InTurn, Outgoing, Incoming, Serves, Roles
  <2> QED  BY <1>4, <2>2, <2>3, <2>4, <2>5, <2>6, <2>7
<1>16. CASE Prepare(n)
  <2>1. /\ rr = [r EXCEPT !.busy = TRUE]
        /\ pp = [p EXCEPT !.at = "receiving"]
        /\ p.at = "prepare"
        /\ uu = ui /\ ll = li
        /\ temp' = temp /\ from' = from
    BY <1>1, <1>2, <1>16 DEF Prepare, world, r, p, ui, li, rr, pp, uu, ll
  <2>2. InTurn(rr, uu, ll, pp)  BY <1>1, <1>3, <2>1 DEF InTurn, Roles
  <2>3. Outgoing(rr, uu, ll, pp)  BY <1>1, <1>3, <2>1 DEF InTurn, Outgoing, Roles
  <2>4. Incoming(rr, uu, ll, pp)  BY <1>1, <1>3, <2>1 DEF InTurn, Outgoing, Incoming, Roles
  <2>5. HeldOn  BY <1>1, <1>3, <2>1 DEF InTurn, Outgoing, Holds, Roles
  <2>6. ReleasesNone  BY <1>1, <1>3, <2>1 DEF Released
  <2>7. TakesNone  BY <1>1, <1>3, <2>1 DEF InTurn, Outgoing, Incoming, Serves, Roles
  <2> QED  BY <1>4, <2>2, <2>3, <2>4, <2>5, <2>6, <2>7
<1>17. CASE ReceiveFails(n)
  <2>1. /\ rr = Finished(r, "Failed")
        /\ pp = [p EXCEPT !.at = "leave"]
        /\ p.at \in {"receiving", "received"}
        /\ uu = ui /\ ll = li
        /\ temp' = temp /\ from' = from
        /\ Pausing(r, ui, li, p)
    BY <1>1, <1>2, <1>17 DEF ReceiveFails, world, r, p, ui, li, rr, pp, uu, ll
  <2>8. /\ rr.offer = NoSession /\ rr.staged = NoSession
        /\ ~rr.busy /\ ~rr.waiting /\ ~rr.paused
        /\ rr.pending = r.pending /\ rr.accepting = r.accepting
        /\ rr.joinable = r.joinable /\ rr.terminated = r.terminated
    BY <1>1, <2>1, FinishedFields
  <2>2. InTurn(rr, uu, ll, pp)  BY <1>1, <1>3, <2>1, <2>8 DEF InTurn, Roles
  <2>3. Outgoing(rr, uu, ll, pp)  BY <1>1, <1>3, <2>1, <2>8 DEF InTurn, Outgoing, Roles
  <2>4. Incoming(rr, uu, ll, pp)
    BY <1>1, <1>3, <2>1, <2>8 DEF InTurn, Outgoing, Incoming, Roles
  <2>5. HeldOn  BY <1>1, <1>3, <2>1, <2>8 DEF InTurn, Outgoing, Holds, Roles
  <2>6. ReleasesNone  BY <1>1, <1>3, <2>1, <2>8 DEF Released
  <2>7. TakesNone  BY <1>1, <1>3, <2>1, <2>8 DEF InTurn, Outgoing, Incoming, Serves, Roles
  <2> QED  BY <1>4, <2>2, <2>3, <2>4, <2>5, <2>6, <2>7
<1>18. CASE FinishReceived(n)
  <2>1. /\ rr = Finished(r, "Received")
        /\ pp = [p EXCEPT !.at = "leave"]
        /\ p.at = "received"
        /\ uu = ui /\ ll = li
        /\ temp' = temp /\ from' = from
        /\ Pausing(r, ui, li, p)
    BY <1>1, <1>2, <1>18 DEF FinishReceived, world, r, p, ui, li, rr, pp, uu, ll
  <2>8. /\ rr.offer = NoSession /\ rr.staged = NoSession
        /\ ~rr.busy /\ ~rr.waiting /\ ~rr.paused
        /\ rr.pending = r.pending /\ rr.accepting = r.accepting
        /\ rr.joinable = r.joinable /\ rr.terminated = r.terminated
    BY <1>1, <2>1, FinishedFields
  <2>2. InTurn(rr, uu, ll, pp)  BY <1>1, <1>3, <2>1, <2>8 DEF InTurn, Roles
  <2>3. Outgoing(rr, uu, ll, pp)  BY <1>1, <1>3, <2>1, <2>8 DEF InTurn, Outgoing, Roles
  <2>4. Incoming(rr, uu, ll, pp)
    BY <1>1, <1>3, <2>1, <2>8 DEF InTurn, Outgoing, Incoming, Roles
  <2>5. HeldOn  BY <1>1, <1>3, <2>1, <2>8 DEF InTurn, Outgoing, Holds, Roles
  <2>6. ReleasesNone  BY <1>1, <1>3, <2>1, <2>8 DEF Released
  <2>7. TakesNone  BY <1>1, <1>3, <2>1, <2>8 DEF InTurn, Outgoing, Incoming, Serves, Roles
  <2> QED  BY <1>4, <2>2, <2>3, <2>4, <2>5, <2>6, <2>7
<1>19. CASE Leave(n)
  <2>1. /\ rr = [r EXCEPT !.accepting = NoSession, !.paused = FALSE]
        /\ pp = Quiet
        /\ p.at = "leave"
        /\ uu = ui /\ ll = li
        /\ temp' = temp /\ from' = from
    BY <1>1, <1>2, <1>19 DEF Leave, world, r, p, ui, li, rr, pp, uu, ll
  <2>2. InTurn(rr, uu, ll, pp)  BY <1>1, <1>3, <2>1 DEF InTurn, Roles
  <2>3. Outgoing(rr, uu, ll, pp)  BY <1>1, <1>3, <2>1 DEF InTurn, Outgoing, Roles
  <2>4. Incoming(rr, uu, ll, pp)  BY <1>1, <1>3, <2>1 DEF InTurn, Outgoing, Incoming, Roles
  <2>5. HeldOn  BY <1>1, <1>3, <2>1 DEF InTurn, Outgoing, Holds, Roles
  <2>6. ReleasesNone  BY <1>1, <1>3, <2>1 DEF Released
  <2>7. TakesNone  BY <1>1, <1>3, <2>1 DEF InTurn, Outgoing, Incoming, Serves, Roles
  <2> QED  BY <1>4, <2>2, <2>3, <2>4, <2>5, <2>6, <2>7
<1> QED
  BY <1>10, <1>11, <1>12, <1>13, <1>14, <1>15, <1>16, <1>17, <1>18, <1>19 DEF AcceptThread

\* The threads that decline, and that send the payload.
LEMMA OtherThreadsInOrder ==
    ASSUME Inv, Inv', prompt, NEW n \in Node, ~st[n].terminated, InOrder(n), 
           DeclineThread(n) \/ PayloadThread(n)
    PROVE  Keeps(n)
<1> DEFINE r == st[n]
           p == pt[n]
           ui == th[n]["ui"]
           li == th[n]["listener"]
           rr == st'[n]
           pp == pt'[n]
           uu == th'[n]["ui"]
           ll == th'[n]["listener"]
<1>1. /\ Roles(r, ui, li, p) /\ r \in Members /\ p \in Errand /\ ui \in Control /\ li \in Control
      /\ st \in [Node -> Members] /\ pt \in [Node -> Errand]
      /\ th \in [Node -> [{"ui", "listener"} -> Control]]
  BY InRoles
<1>2. Slow(n) => Pausing(r, ui, li, p)  BY SlowPauses
<1>3. /\ InTurn(r, ui, li, p) /\ Outgoing(r, ui, li, p) /\ Incoming(r, ui, li, p)
      /\ \A s \in temp : from[s] = n => Holds(r, ui, li, p, s)
  BY DEF InOrder, TempHeld
<1> DEFINE HeldOn == \A s \in Session : s \in temp' /\ from'[s] = n => Holds(rr, uu, ll, pp, s)
           ReleasesNone == \A s \in SessionOr0 : Released(ll, pp, s) => Released(li, p, s)
           TakesNone == \A s \in SessionOr0 : Serves(r, li, p, s) => Serves(rr, ll, pp, s)
<1>5. temp' \subseteq Session  BY DEF Inv, TypeOK
<1>4. ASSUME InTurn(rr, uu, ll, pp), Outgoing(rr, uu, ll, pp), Incoming(rr, uu, ll, pp),
             HeldOn, ReleasesNone, TakesNone
      PROVE  Keeps(n)
  BY <1>4, <1>5, KeepsByParts
<1> USE DEF PtAt, PtMove, PtExit, Mine
<1> HIDE DEF r, p, ui, li, rr, pp, uu, ll
<1> USE DEF Brief, Early, Sending, Late, Waits, Offers, Accepts, HasReady, HasOffer, Releasing,
   Accepting,
            Offering, Pausing, Quiet, Idle, Members, Errand
<1>10. CASE Pauses(n, "decline", "send_decline")
  <2>1. /\ rr = [r EXCEPT !.paused = TRUE]
        /\ pp = [p EXCEPT !.at = "send_decline"]
        /\ p.at = "decline"
        /\ uu = ui /\ ll = li
        /\ temp' = temp /\ from' = from
    BY <1>1, <1>2, <1>10 DEF Pauses, world, r, p, ui, li, rr, pp, uu, ll
  <2>2. InTurn(rr, uu, ll, pp)  BY <1>1, <1>3, <2>1 DEF InTurn, Roles
  <2>3. Outgoing(rr, uu, ll, pp)  BY <1>1, <1>3, <2>1 DEF InTurn, Outgoing, Roles
  <2>4. Incoming(rr, uu, ll, pp)  BY <1>1, <1>3, <2>1 DEF InTurn, Outgoing, Incoming, Roles
  <2>5. HeldOn  BY <1>1, <1>3, <2>1 DEF InTurn, Outgoing, Holds, Roles
  <2>6. ReleasesNone  BY <1>1, <1>3, <2>1 DEF Released
  <2>7. TakesNone  BY <1>1, <1>3, <2>1 DEF InTurn, Outgoing, Incoming, Serves, Roles
  <2> QED  BY <1>4, <2>2, <2>3, <2>4, <2>5, <2>6, <2>7
<1>11. CASE DeclineSent(n)
  <2>1. /\ rr = [r EXCEPT !.paused = FALSE]
        /\ pp = Quiet
        /\ p.at = "send_decline"
        /\ uu = ui /\ ll = li
        /\ temp' = temp /\ from' = from
        /\ Pausing(r, ui, li, p)
    BY <1>1, <1>2, <1>11, FrameElsewhere DEF DeclineSent, world, r, p, ui, li, rr, pp, uu, ll
  <2>2. InTurn(rr, uu, ll, pp)  BY <1>1, <1>3, <2>1 DEF InTurn, Roles
  <2>3. Outgoing(rr, uu, ll, pp)  BY <1>1, <1>3, <2>1 DEF InTurn, Outgoing, Roles
  <2>4. Incoming(rr, uu, ll, pp)  BY <1>1, <1>3, <2>1 DEF InTurn, Outgoing, Incoming, Roles
  <2>5. HeldOn  BY <1>1, <1>3, <2>1 DEF InTurn, Outgoing, Holds, Roles
  <2>6. ReleasesNone  BY <1>1, <1>3, <2>1 DEF Released
  <2>7. TakesNone  BY <1>1, <1>3, <2>1 DEF InTurn, Outgoing, Incoming, Serves, Roles
  <2> QED  BY <1>4, <2>2, <2>3, <2>4, <2>5, <2>6, <2>7
<1>12. CASE Pauses(n, "payload", "sending")
  <2>1. /\ rr = [r EXCEPT !.paused = TRUE]
        /\ pp = [p EXCEPT !.at = "sending"]
        /\ p.at = "payload"
        /\ uu = ui /\ ll = li
        /\ temp' = temp /\ from' = from
    BY <1>1, <1>2, <1>12 DEF Pauses, world, r, p, ui, li, rr, pp, uu, ll
  <2>2. InTurn(rr, uu, ll, pp)  BY <1>1, <1>3, <2>1 DEF InTurn, Roles
  <2>3. Outgoing(rr, uu, ll, pp)  BY <1>1, <1>3, <2>1 DEF InTurn, Outgoing, Roles
  <2>4. Incoming(rr, uu, ll, pp)  BY <1>1, <1>3, <2>1 DEF InTurn, Outgoing, Incoming, Roles
  <2>5. HeldOn  BY <1>1, <1>3, <2>1 DEF InTurn, Outgoing, Holds, Roles
  <2>6. ReleasesNone  BY <1>1, <1>3, <2>1 DEF Released
  <2>7. TakesNone  BY <1>1, <1>3, <2>1 DEF InTurn, Outgoing, Incoming, Serves, Roles
  <2> QED  BY <1>4, <2>2, <2>3, <2>4, <2>5, <2>6, <2>7
<1>13. CASE PayloadAlone(n)
  <2>1. /\ rr = Finished(r, "Sent")
        /\ pp = Quiet
        /\ p.at = "sending"
        /\ uu = ui /\ ll = li
        /\ temp' = temp \ {p.s} /\ from' = from
        /\ Pausing(r, ui, li, p)
    BY <1>1, <1>2, <1>13 DEF PayloadAlone, RemovesTemp, r, p, ui, li, rr, pp, uu, ll
  <2>8. /\ rr.offer = NoSession /\ rr.staged = NoSession
        /\ ~rr.busy /\ ~rr.waiting /\ ~rr.paused
        /\ rr.pending = r.pending /\ rr.accepting = r.accepting
        /\ rr.joinable = r.joinable /\ rr.terminated = r.terminated
    BY <1>1, <2>1, FinishedFields
  <2>2. InTurn(rr, uu, ll, pp)  BY <1>1, <1>3, <2>1, <2>8 DEF InTurn, Roles
  <2>3. Outgoing(rr, uu, ll, pp)  BY <1>1, <1>3, <2>1, <2>8 DEF InTurn, Outgoing, Roles
  <2>4. Incoming(rr, uu, ll, pp)
    BY <1>1, <1>3, <2>1, <2>8 DEF InTurn, Outgoing, Incoming, Roles
  <2>5. HeldOn  BY <1>1, <1>3, <2>1, <2>8 DEF InTurn, Outgoing, Holds, Roles
  <2>6. ReleasesNone  BY <1>1, <1>3, <2>1, <2>8 DEF Released
  <2>7. TakesNone  BY <1>1, <1>3, <2>1, <2>8 DEF InTurn, Outgoing, Incoming, Serves, Roles
  <2> QED  BY <1>4, <2>2, <2>3, <2>4, <2>5, <2>6, <2>7
<1>14. CASE PayloadMoves(n)
  <2>1. /\ rr = Finished(r, "Sent")
        /\ pp = Quiet
        /\ p.at = "sending"
        /\ uu = ui /\ ll = li
        /\ temp' = temp \ {p.s} /\ from' = from
        /\ Pausing(r, ui, li, p)
    BY <1>1, <1>2, <1>14, PeerOfPeer DEF PayloadMoves, RemovesTemp, r, p, ui, li, rr, pp, uu, ll
  <2>8. /\ rr.offer = NoSession /\ rr.staged = NoSession
        /\ ~rr.busy /\ ~rr.waiting /\ ~rr.paused
        /\ rr.pending = r.pending /\ rr.accepting = r.accepting
        /\ rr.joinable = r.joinable /\ rr.terminated = r.terminated
    BY <1>1, <2>1, FinishedFields
  <2>2. InTurn(rr, uu, ll, pp)  BY <1>1, <1>3, <2>1, <2>8 DEF InTurn, Roles
  <2>3. Outgoing(rr, uu, ll, pp)  BY <1>1, <1>3, <2>1, <2>8 DEF InTurn, Outgoing, Roles
  <2>4. Incoming(rr, uu, ll, pp)
    BY <1>1, <1>3, <2>1, <2>8 DEF InTurn, Outgoing, Incoming, Roles
  <2>5. HeldOn  BY <1>1, <1>3, <2>1, <2>8 DEF InTurn, Outgoing, Holds, Roles
  <2>6. ReleasesNone  BY <1>1, <1>3, <2>1, <2>8 DEF Released
  <2>7. TakesNone  BY <1>1, <1>3, <2>1, <2>8 DEF InTurn, Outgoing, Incoming, Serves, Roles
  <2> QED  BY <1>4, <2>2, <2>3, <2>4, <2>5, <2>6, <2>7
<1> QED  BY <1>10, <1>11, <1>12, <1>13, <1>14 DEF DeclineThread, PayloadThread

\* The user's calls.
LEMMA UiInOrder ==
    ASSUME Inv, Inv', prompt, NEW n \in Node, ~st[n].terminated, InOrder(n), Ui(n)
    PROVE  Keeps(n)
<1> DEFINE r == st[n]
           p == pt[n]
           ui == th[n]["ui"]
           li == th[n]["listener"]
           rr == st'[n]
           pp == pt'[n]
           uu == th'[n]["ui"]
           ll == th'[n]["listener"]
<1>1. /\ Roles(r, ui, li, p) /\ r \in Members /\ p \in Errand /\ ui \in Control /\ li \in Control
      /\ st \in [Node -> Members] /\ pt \in [Node -> Errand]
      /\ th \in [Node -> [{"ui", "listener"} -> Control]]
  BY InRoles
<1>2. Slow(n) => Pausing(r, ui, li, p)  BY SlowPauses
<1>3. /\ InTurn(r, ui, li, p) /\ Outgoing(r, ui, li, p) /\ Incoming(r, ui, li, p)
      /\ \A s \in temp : from[s] = n => Holds(r, ui, li, p, s)
  BY DEF InOrder, TempHeld
<1> DEFINE HeldOn == \A s \in Session : s \in temp' /\ from'[s] = n => Holds(rr, uu, ll, pp, s)
           ReleasesNone == \A s \in SessionOr0 : Released(ll, pp, s) => Released(li, p, s)
           TakesNone == \A s \in SessionOr0 : Serves(r, li, p, s) => Serves(rr, ll, pp, s)
<1>5. temp' \subseteq Session  BY DEF Inv, TypeOK
<1>4. ASSUME InTurn(rr, uu, ll, pp), Outgoing(rr, uu, ll, pp), Incoming(rr, uu, ll, pp),
             HeldOn, ReleasesNone, TakesNone
      PROVE  Keeps(n)
  BY <1>4, <1>5, KeepsByParts
<1> HIDE DEF r, p, ui, li, rr, pp, uu, ll
<1> USE DEF Brief, Early, Sending, Late, Waits, Offers, Accepts, HasReady, HasOffer, Releasing,
   Accepting,
            Offering, Pausing
<1>10. CASE Send(n)
  <2>1. /\ rr = r /\ pp = p /\ ll = li
        /\ ui.at = "idle" /\ ~r.busy /\ r.accepting = NoSession /\ r.pending = NoSession
        /\ uu = [at |-> "stage", flow |-> "offer", s |-> sessions + 1]
        /\ \A s \in Session : s \in temp' /\ from'[s] = n /\ s # sessions + 1 => s \in temp /\ from[s] = n
        /\ Pausing(r, ui, li, p)
  <3>1. from \in [Session -> Node] /\ sessions \in SessionOr0  BY DEF Inv, TypeOK
  <3> QED  BY <1>1, <1>2, <1>10, <3>1 DEF Send, At, IsBusy, r, p, ui, li, rr, pp, uu, ll
  <2>2. InTurn(rr, uu, ll, pp)
    BY <1>1, <1>3, <2>1 DEF InTurn, Roles, Idle, Members, Errand, Control
  <2>3. Outgoing(rr, uu, ll, pp)
    BY <1>1, <1>3, <2>1 DEF InTurn, Outgoing, Roles, Idle, Members, Errand, Control
  <2>4. Incoming(rr, uu, ll, pp)
    BY <1>1, <1>3, <2>1 DEF InTurn, Outgoing, Incoming, Roles, Idle, Members, Errand, Control
  <2>5. HeldOn
    BY <1>1, <1>3, <2>1 DEF InTurn, Outgoing, Holds, Roles, Idle, Members, Errand, Control
  <2>6. ReleasesNone  BY <1>1, <1>3, <2>1 DEF Released, Idle, Members, Errand, Control
  <2>7. TakesNone
    BY <1>1, <1>3, <2>1 DEF InTurn, Outgoing, Incoming, Serves, Roles, Idle, Members, Errand,
       Control
  <2> QED  BY <1>4, <2>2, <2>3, <2>4, <2>5, <2>6, <2>7
<1>11. CASE Staged(n)
  <2>1. /\ rr = r /\ pp = p
        /\ ui.at = "stage" /\ uu = [ui EXCEPT !.at = "join"] /\ ll = li
        /\ temp' = temp /\ from' = from
        /\ Pausing(r, ui, li, p)
    BY <1>1, <1>2, <1>11 DEF Staged, At, Move, world, r, p, ui, li, rr, pp, uu, ll
  <2>2. InTurn(rr, uu, ll, pp)
    BY <1>1, <1>3, <2>1 DEF InTurn, Roles, Idle, Members, Errand, Control
  <2>3. Outgoing(rr, uu, ll, pp)
    BY <1>1, <1>3, <2>1 DEF InTurn, Outgoing, Roles, Idle, Members, Errand, Control
  <2>4. Incoming(rr, uu, ll, pp)
    BY <1>1, <1>3, <2>1 DEF InTurn, Outgoing, Incoming, Roles, Idle, Members, Errand, Control
  <2>5. HeldOn
    BY <1>1, <1>3, <2>1 DEF InTurn, Outgoing, Holds, Roles, Idle, Members, Errand, Control
  <2>6. ReleasesNone  BY <1>1, <1>3, <2>1 DEF Released, Idle, Members, Errand, Control
  <2>7. TakesNone
    BY <1>1, <1>3, <2>1 DEF InTurn, Outgoing, Incoming, Serves, Roles, Idle, Members, Errand,
       Control
  <2> QED  BY <1>4, <2>2, <2>3, <2>4, <2>5, <2>6, <2>7
<1>12. CASE SendBegins(n)
  <2>1. /\ rr = [r EXCEPT !.busy = TRUE, !.waiting = TRUE] /\ pp = p
        /\ ui.at = "begin" /\ uu = [ui EXCEPT !.at = "spawn"] /\ ll = li
        /\ temp' = temp /\ from' = from
    BY <1>1, <1>2, <1>12 DEF SendBegins, At, Move, world, r, p, ui, li, rr, pp, uu, ll
  <2>2. InTurn(rr, uu, ll, pp)
    BY <1>1, <1>3, <2>1 DEF InTurn, Roles, Idle, Members, Errand, Control
  <2>3. Outgoing(rr, uu, ll, pp)
    BY <1>1, <1>3, <2>1 DEF InTurn, Outgoing, Roles, Idle, Members, Errand, Control
  <2>4. Incoming(rr, uu, ll, pp)
    BY <1>1, <1>3, <2>1 DEF InTurn, Outgoing, Incoming, Roles, Idle, Members, Errand, Control
  <2>5. HeldOn
    BY <1>1, <1>3, <2>1 DEF InTurn, Outgoing, Holds, Roles, Idle, Members, Errand, Control
  <2>6. ReleasesNone  BY <1>1, <1>3, <2>1 DEF Released, Idle, Members, Errand, Control
  <2>7. TakesNone
    BY <1>1, <1>3, <2>1 DEF InTurn, Outgoing, Incoming, Serves, Roles, Idle, Members, Errand,
       Control
  <2> QED  BY <1>4, <2>2, <2>3, <2>4, <2>5, <2>6, <2>7
<1>13. CASE UserAccepts(n) /\ r.pending \in {NoSession, r.accepting}
  <2>1. /\ r.pending # NoSession /\ ui.at = "idle"
        /\ rr = r /\ pp = p
        /\ uu = Idle /\ ll = li
        /\ temp' = temp /\ from' = from
        /\ Pausing(r, ui, li, p)
    BY <1>1, <1>2, <1>13 DEF UserAccepts, AcceptPending, At, Return, r, p, ui, li, rr, pp, uu,
       ll
  <2>2. InTurn(rr, uu, ll, pp)
    BY <1>1, <1>3, <2>1 DEF InTurn, Roles, Idle, Members, Errand, Control
  <2>3. Outgoing(rr, uu, ll, pp)
    BY <1>1, <1>3, <2>1 DEF InTurn, Outgoing, Roles, Idle, Members, Errand, Control
  <2>4. Incoming(rr, uu, ll, pp)
    BY <1>1, <1>3, <2>1 DEF InTurn, Outgoing, Incoming, Roles, Idle, Members, Errand, Control
  <2>5. HeldOn
    BY <1>1, <1>3, <2>1 DEF InTurn, Outgoing, Holds, Roles, Idle, Members, Errand, Control
  <2>6. ReleasesNone  BY <1>1, <1>3, <2>1 DEF Released, Idle, Members, Errand, Control
  <2>7. TakesNone
    BY <1>1, <1>3, <2>1 DEF InTurn, Outgoing, Incoming, Serves, Roles, Idle, Members, Errand,
       Control
  <2> QED  BY <1>4, <2>2, <2>3, <2>4, <2>5, <2>6, <2>7
<1>14. CASE UserAccepts(n) /\ r.pending \notin {NoSession, r.accepting} /\ r.pending = r.completed
  <2>1. /\ r.pending # NoSession /\ ui.at = "idle"
        /\ rr = [r EXCEPT !.pending = NoSession] /\ pp = p
        /\ uu = Idle /\ ll = li
        /\ temp' = temp /\ from' = from
        /\ Pausing(r, ui, li, p)
    BY <1>1, <1>2, <1>14 DEF UserAccepts, AcceptPending, At, Return, r, p, ui, li, rr, pp, uu,
       ll
  <2>2. InTurn(rr, uu, ll, pp)
    BY <1>1, <1>3, <2>1 DEF InTurn, Roles, Idle, Members, Errand, Control
  <2>3. Outgoing(rr, uu, ll, pp)
    BY <1>1, <1>3, <2>1 DEF InTurn, Outgoing, Roles, Idle, Members, Errand, Control
  <2>4. Incoming(rr, uu, ll, pp)
    BY <1>1, <1>3, <2>1 DEF InTurn, Outgoing, Incoming, Roles, Idle, Members, Errand, Control
  <2>5. HeldOn
    BY <1>1, <1>3, <2>1 DEF InTurn, Outgoing, Holds, Roles, Idle, Members, Errand, Control
  <2>6. ReleasesNone  BY <1>1, <1>3, <2>1 DEF Released, Idle, Members, Errand, Control
  <2>7. TakesNone
    BY <1>1, <1>3, <2>1 DEF InTurn, Outgoing, Incoming, Serves, Roles, Idle, Members, Errand,
       Control
  <2> QED  BY <1>4, <2>2, <2>3, <2>4, <2>5, <2>6, <2>7
<1>15. CASE UserAccepts(n) /\ r.pending \notin {NoSession, r.accepting} /\ r.pending # r.completed
  <2>1. /\ r.pending # NoSession /\ ui.at = "idle"
        /\ rr = [r EXCEPT !.pending = NoSession, !.accepting = r.pending] /\ pp = p
        /\ uu = [at |-> "join", flow |-> "accept", s |-> r.pending] /\ ll = li
        /\ temp' = temp /\ from' = from
        /\ Pausing(r, ui, li, p)
    <3>1. r.pending # NoSession /\ ui.at = "idle"
      BY <1>1, <1>2, <1>15 DEF UserAccepts, AcceptPending, At, Return, r, p, ui, li, rr, pp,
         uu, ll
    <3>2. rr = [r EXCEPT !.pending = NoSession, !.accepting = r.pending] /\ pp = p
      BY <1>1, <1>2, <1>15 DEF UserAccepts, AcceptPending, At, Return, r, p, ui, li, rr, pp,
         uu, ll
    <3>3. uu = [at |-> "join", flow |-> "accept", s |-> r.pending] /\ ll = li
      BY <1>1, <1>2, <1>15 DEF UserAccepts, AcceptPending, At, Return, r, p, ui, li, rr, pp,
         uu, ll
    <3>4. temp' = temp /\ from' = from
      BY <1>1, <1>2, <1>15 DEF UserAccepts, AcceptPending, At, Return, r, p, ui, li, rr, pp,
         uu, ll
    <3>5. Pausing(r, ui, li, p)
      BY <1>1, <1>2, <1>15 DEF UserAccepts, AcceptPending, At, Return, r, p, ui, li, rr, pp,
         uu, ll
    <3> QED  BY <3>1, <3>2, <3>3, <3>4, <3>5
  <2>8. r.accepting = NoSession /\ p.at \notin Accepting  BY <1>3, <2>1 DEF Incoming
  <2>2. InTurn(rr, uu, ll, pp)
    BY <1>1, <1>3, <2>1, <2>8 DEF InTurn, Roles, Idle, Members, Errand, Control
  <2>3. Outgoing(rr, uu, ll, pp)
    BY <1>1, <1>3, <2>1, <2>8 DEF InTurn, Outgoing, Roles, Idle, Members, Errand, Control
  <2>4. Incoming(rr, uu, ll, pp)
    BY <1>1, <1>3, <2>1, <2>8 DEF InTurn, Outgoing, Incoming, Roles, Idle, Members, Errand,
       Control
  <2>5. HeldOn
    BY <1>1, <1>3, <2>1, <2>8 DEF InTurn, Outgoing, Holds, Roles, Idle, Members, Errand, Control
  <2>6. ReleasesNone  BY <1>1, <1>3, <2>1, <2>8 DEF Released, Idle, Members, Errand, Control
  <2>7. TakesNone
    BY <1>1, <1>3, <2>1, <2>8 DEF InTurn, Outgoing, Incoming, Serves, Roles, Idle, Members,
       Errand, Control
  <2> QED  BY <1>4, <2>2, <2>3, <2>4, <2>5, <2>6, <2>7
<1>16. CASE UserDeclines(n)
  <2>1. /\ r.pending # NoSession /\ ui.at = "idle"
        /\ rr = [r EXCEPT !.pending = NoSession] /\ pp = p
        /\ uu = [at |-> "join", flow |-> "decline", s |-> r.pending] /\ ll = li
        /\ temp' = temp /\ from' = from
        /\ Pausing(r, ui, li, p)
    BY <1>1, <1>2, <1>16 DEF UserDeclines, At, world, r, p, ui, li, rr, pp, uu, ll
  <2>2. InTurn(rr, uu, ll, pp)
    BY <1>1, <1>3, <2>1 DEF InTurn, Roles, Idle, Members, Errand, Control
  <2>3. Outgoing(rr, uu, ll, pp)
    BY <1>1, <1>3, <2>1 DEF InTurn, Outgoing, Roles, Incoming, Idle, Members, Errand, Control
  <2>4. Incoming(rr, uu, ll, pp)
    BY <1>1, <1>3, <2>1 DEF InTurn, Outgoing, Incoming, Roles, Idle, Members, Errand, Control
  <2>5. HeldOn
    BY <1>1, <1>3, <2>1 DEF InTurn, Outgoing, Holds, Roles, Idle, Members, Errand, Control
  <2>6. ReleasesNone  BY <1>1, <1>3, <2>1 DEF Released, Idle, Members, Errand, Control
  <2>7. TakesNone
    BY <1>1, <1>3, <2>1 DEF InTurn, Outgoing, Incoming, Serves, Roles, Idle, Members, Errand,
       Control
  <2> QED  BY <1>4, <2>2, <2>3, <2>4, <2>5, <2>6, <2>7
<1>17. CASE JoinPayload(n, "ui")
  <2>1. /\ rr = [r EXCEPT !.joinable = FALSE] /\ pp = p
        /\ p.at = "none"
        /\ ui.at = "join" /\ uu = [ui EXCEPT !.at =
                            IF ui.flow = "offer" THEN "begin" ELSE "spawn"]
        /\ ll = li
        /\ temp' = temp /\ from' = from
    BY <1>1, <1>2, <1>17 DEF JoinPayload, Joined, At, Move, world, Roles, r, p, ui, li, rr, pp,
       uu, ll
  <2>2. InTurn(rr, uu, ll, pp)
    BY <1>1, <1>3, <2>1 DEF InTurn, Roles, Idle, Members, Errand, Control
  <2>3. Outgoing(rr, uu, ll, pp)
    BY <1>1, <1>3, <2>1 DEF InTurn, Outgoing, Roles, Idle, Members, Errand, Control
  <2>4. Incoming(rr, uu, ll, pp)
    BY <1>1, <1>3, <2>1 DEF InTurn, Outgoing, Incoming, Roles, Idle, Members, Errand, Control
  <2>5. HeldOn
    BY <1>1, <1>3, <2>1 DEF InTurn, Outgoing, Holds, Roles, Idle, Members, Errand, Control
  <2>6. ReleasesNone  BY <1>1, <1>3, <2>1 DEF Released, Idle, Members, Errand, Control
  <2>7. TakesNone
    BY <1>1, <1>3, <2>1 DEF InTurn, Outgoing, Incoming, Serves, Roles, Idle, Members, Errand,
       Control
  <2> QED  BY <1>4, <2>2, <2>3, <2>4, <2>5, <2>6, <2>7
<1>18. CASE Spawn(n, "ui") /\ ~r.joinable
  <2>1. /\ rr = [r EXCEPT !.joinable = TRUE]
        /\ p.at = "none" /\ pp = [at |-> ui.flow, s |-> ui.s, resent |-> FALSE]
        /\ ui.at = "spawn" /\ uu = Idle /\ ll = li
        /\ temp' = temp /\ from' = from
    BY <1>1, <1>2, <1>18 DEF Spawn, At, Return, world, Roles, r, p, ui, li, rr, pp, uu, ll
  <2>2. InTurn(rr, uu, ll, pp)
    BY <1>1, <1>3, <2>1 DEF InTurn, Roles, Idle, Members, Errand, Control
  <2>3. Outgoing(rr, uu, ll, pp)
    BY <1>1, <1>3, <2>1 DEF InTurn, Outgoing, Roles, Idle, Members, Errand, Control
  <2>4. Incoming(rr, uu, ll, pp)
    BY <1>1, <1>3, <2>1 DEF InTurn, Outgoing, Incoming, Roles, Idle, Members, Errand, Control
  <2>5. HeldOn
    BY <1>1, <1>3, <2>1 DEF InTurn, Outgoing, Holds, Roles, Idle, Members, Errand, Control
  <2>6. ReleasesNone  BY <1>1, <1>3, <2>1 DEF Released, Roles, Idle, Members, Errand, Control
  <2>7. TakesNone
    BY <1>1, <1>3, <2>1 DEF InTurn, Outgoing, Incoming, Serves, Roles, Idle, Members, Errand,
       Control
  <2> QED  BY <1>4, <2>2, <2>3, <2>4, <2>5, <2>6, <2>7
<1>19. CASE Spawn(n, "ui") /\ r.joinable
  BY <1>1, <1>19 DEF Keeps, Spawn, Members, r
<1> QED  BY <1>10, <1>11, <1>12, <1>13, <1>14, <1>15, <1>16, <1>17, <1>18, <1>19 DEF Ui

\* The messages the listener handles.
LEMMA ListenerInOrder ==
    ASSUME Inv, Inv', prompt, NEW n \in Node, ~st[n].terminated, InOrder(n), Listener(n)
    PROVE  Keeps(n)
<1> DEFINE r == st[n]
           p == pt[n]
           ui == th[n]["ui"]
           li == th[n]["listener"]
           rr == st'[n]
           pp == pt'[n]
           uu == th'[n]["ui"]
           ll == th'[n]["listener"]
<1>1. /\ Roles(r, ui, li, p) /\ r \in Members /\ p \in Errand /\ ui \in Control /\ li \in Control
      /\ st \in [Node -> Members] /\ pt \in [Node -> Errand]
      /\ th \in [Node -> [{"ui", "listener"} -> Control]]
  BY InRoles
<1>2. Slow(n) => Pausing(r, ui, li, p)  BY SlowPauses
<1>3. /\ InTurn(r, ui, li, p) /\ Outgoing(r, ui, li, p) /\ Incoming(r, ui, li, p)
      /\ \A s \in temp : from[s] = n => Holds(r, ui, li, p, s)
  BY DEF InOrder, TempHeld
<1> DEFINE HeldOn == \A s \in Session : s \in temp' /\ from'[s] = n => Holds(rr, uu, ll, pp, s)
           ReleasesNone == \A s \in SessionOr0 : Released(ll, pp, s) => Released(li, p, s)
           TakesNone == \A s \in SessionOr0 : Serves(r, li, p, s) => Serves(rr, ll, pp, s)
<1>5. temp' \subseteq Session  BY DEF Inv, TypeOK
<1>4. ASSUME InTurn(rr, uu, ll, pp), Outgoing(rr, uu, ll, pp), Incoming(rr, uu, ll, pp),
             HeldOn, ReleasesNone, TakesNone
      PROVE  Keeps(n)
  BY <1>4, <1>5, KeepsByParts
<1> HIDE DEF r, p, ui, li, rr, pp, uu, ll
<1> USE DEF Brief, Early, Sending, Late, Waits, Offers, Accepts, HasReady, HasOffer, Releasing,
   Accepting,
            Offering, Pausing
<1>10. CASE HandleOffer(n)
  <2>1. /\ rr = r /\ pp = p /\ uu = ui
        /\ HasOffer(li)
        /\ ll = Idle \/ ll = [li EXCEPT !.at = "busy_check"]
        /\ temp' = temp /\ from' = from
    BY <1>1, <1>2, <1>10 DEF HandleOffer, Got, At, Move, Return, world, r, p, ui, li, rr, pp,
       uu, ll
  <2>2. InTurn(rr, uu, ll, pp)
    BY <1>1, <1>3, <2>1 DEF InTurn, Roles, Idle, Members, Errand, Control
  <2>3. Outgoing(rr, uu, ll, pp)
    BY <1>1, <1>3, <2>1 DEF InTurn, Outgoing, Roles, Idle, Members, Errand, Control
  <2>4. Incoming(rr, uu, ll, pp)
    BY <1>1, <1>3, <2>1 DEF InTurn, Outgoing, Incoming, Roles, Idle, Members, Errand, Control
  <2>5. HeldOn
    BY <1>1, <1>3, <2>1 DEF InTurn, Outgoing, Holds, Roles, Idle, Members, Errand, Control
  <2>6. ReleasesNone  BY <1>1, <1>3, <2>1 DEF Released, Idle, Members, Errand, Control
  <2>7. TakesNone
    BY <1>1, <1>3, <2>1 DEF InTurn, Outgoing, Incoming, Serves, Roles, Idle, Members, Errand,
       Control
  <2> QED  BY <1>4, <2>2, <2>3, <2>4, <2>5, <2>6, <2>7
<1>11. CASE OfferBusyCheck(n)
  <2>1. /\ rr = r /\ pp = p /\ uu = ui
        /\ li.at = "busy_check"
        /\ ll = Idle \/ (r.accepting = NoSession /\ ll = [li EXCEPT !.at = "post"])
        /\ temp' = temp /\ from' = from
    BY <1>1, <1>2, <1>11 DEF OfferBusyCheck, IsBusy, At, Move, Return, world, r, p, ui, li, rr,
       pp, uu, ll
  <2>2. InTurn(rr, uu, ll, pp)
    BY <1>1, <1>3, <2>1 DEF InTurn, Roles, Idle, Members, Errand, Control
  <2>3. Outgoing(rr, uu, ll, pp)
    BY <1>1, <1>3, <2>1 DEF InTurn, Outgoing, Roles, Idle, Members, Errand, Control
  <2>4. Incoming(rr, uu, ll, pp)
    BY <1>1, <1>3, <2>1 DEF InTurn, Outgoing, Incoming, Roles, Idle, Members, Errand, Control
  <2>5. HeldOn
    BY <1>1, <1>3, <2>1 DEF InTurn, Outgoing, Holds, Roles, Idle, Members, Errand, Control
  <2>6. ReleasesNone  BY <1>1, <1>3, <2>1 DEF Released, Idle, Members, Errand, Control
  <2>7. TakesNone
    BY <1>1, <1>3, <2>1 DEF InTurn, Outgoing, Incoming, Serves, Roles, Idle, Members, Errand,
       Control
  <2> QED  BY <1>4, <2>2, <2>3, <2>4, <2>5, <2>6, <2>7
<1>12. CASE PostOffer(n)
  <2>1. /\ rr = [r EXCEPT !.pending = li.s] /\ pp = p /\ uu = ui
        /\ li.at = "post"
        /\ ll = Idle \/ ll = [li EXCEPT !.at = "accept"]
        /\ temp' = temp /\ from' = from
    BY <1>1, <1>2, <1>12 DEF PostOffer, Subject, At, Move, Return, world, r, p, ui, li, rr, pp,
       uu, ll
  <2>2. InTurn(rr, uu, ll, pp)
    BY <1>1, <1>3, <2>1 DEF InTurn, Roles, Idle, Members, Errand, Control
  <2>3. Outgoing(rr, uu, ll, pp)
    BY <1>1, <1>3, <2>1 DEF InTurn, Outgoing, Roles, Idle, Members, Errand, Control
  <2>4. Incoming(rr, uu, ll, pp)
    BY <1>1, <1>3, <2>1 DEF InTurn, Outgoing, Incoming, Roles, Idle, Members, Errand, Control
  <2>5. HeldOn
    BY <1>1, <1>3, <2>1 DEF InTurn, Outgoing, Holds, Roles, Idle, Members, Errand, Control
  <2>6. ReleasesNone  BY <1>1, <1>3, <2>1 DEF Released, Idle, Members, Errand, Control
  <2>7. TakesNone
    BY <1>1, <1>3, <2>1 DEF InTurn, Outgoing, Incoming, Serves, Roles, Idle, Members, Errand,
       Control
  <2> QED  BY <1>4, <2>2, <2>3, <2>4, <2>5, <2>6, <2>7
<1>13. CASE AutoAccept(n) /\ r.pending \in {NoSession, r.accepting}
  <2>1. /\ li.at = "accept"
        /\ rr = r /\ pp = p
        /\ ll = Idle /\ uu = ui
        /\ temp' = temp /\ from' = from
    BY <1>1, <1>2, <1>13 DEF AutoAccept, AcceptPending, At, Return, world, r, p, ui, li, rr,
       pp, uu, ll
  <2>2. InTurn(rr, uu, ll, pp)
    BY <1>1, <1>3, <2>1 DEF InTurn, Roles, Idle, Members, Errand, Control
  <2>3. Outgoing(rr, uu, ll, pp)
    BY <1>1, <1>3, <2>1 DEF InTurn, Outgoing, Roles, Idle, Members, Errand, Control
  <2>4. Incoming(rr, uu, ll, pp)
    BY <1>1, <1>3, <2>1 DEF InTurn, Outgoing, Incoming, Roles, Idle, Members, Errand, Control
  <2>5. HeldOn
    BY <1>1, <1>3, <2>1 DEF InTurn, Outgoing, Holds, Roles, Idle, Members, Errand, Control
  <2>6. ReleasesNone  BY <1>1, <1>3, <2>1 DEF Released, Idle, Members, Errand, Control
  <2>7. TakesNone
    BY <1>1, <1>3, <2>1 DEF InTurn, Outgoing, Incoming, Serves, Roles, Idle, Members, Errand,
       Control
  <2> QED  BY <1>4, <2>2, <2>3, <2>4, <2>5, <2>6, <2>7
<1>14. CASE AutoAccept(n) /\ r.pending \notin {NoSession, r.accepting} /\ r.pending = r.completed
  <2>1. /\ li.at = "accept"
        /\ rr = [r EXCEPT !.pending = NoSession] /\ pp = p
        /\ ll = Idle /\ uu = ui
        /\ temp' = temp /\ from' = from
    BY <1>1, <1>2, <1>14 DEF AutoAccept, AcceptPending, At, Return, world, r, p, ui, li, rr,
       pp, uu, ll
  <2>2. InTurn(rr, uu, ll, pp)
    BY <1>1, <1>3, <2>1 DEF InTurn, Roles, Idle, Members, Errand, Control
  <2>3. Outgoing(rr, uu, ll, pp)
    BY <1>1, <1>3, <2>1 DEF InTurn, Outgoing, Roles, Idle, Members, Errand, Control
  <2>4. Incoming(rr, uu, ll, pp)
    BY <1>1, <1>3, <2>1 DEF InTurn, Outgoing, Incoming, Roles, Idle, Members, Errand, Control
  <2>5. HeldOn
    BY <1>1, <1>3, <2>1 DEF InTurn, Outgoing, Holds, Roles, Idle, Members, Errand, Control
  <2>6. ReleasesNone  BY <1>1, <1>3, <2>1 DEF Released, Idle, Members, Errand, Control
  <2>7. TakesNone
    BY <1>1, <1>3, <2>1 DEF InTurn, Outgoing, Incoming, Serves, Roles, Idle, Members, Errand,
       Control
  <2> QED  BY <1>4, <2>2, <2>3, <2>4, <2>5, <2>6, <2>7
<1>15. CASE AutoAccept(n) /\ r.pending \notin {NoSession, r.accepting} /\ r.pending # r.completed
  <2>1. /\ li.at = "accept"
        /\ r.pending # NoSession
        /\ rr = [r EXCEPT !.pending = NoSession, !.accepting = r.pending] /\ pp = p
        /\ ll = [at |-> "join", flow |-> "accept", s |-> r.pending] /\ uu = ui
        /\ temp' = temp /\ from' = from
    <3>1. li.at = "accept"
      BY <1>1, <1>2, <1>15 DEF AutoAccept, AcceptPending, At, Return, world, r, p, ui, li, rr,
         pp, uu, ll
    <3>2. r.pending # NoSession
      BY <1>1, <1>2, <1>15 DEF AutoAccept, AcceptPending, At, Return, world, r, p, ui, li, rr,
         pp, uu, ll
    <3>3. rr = [r EXCEPT !.pending = NoSession, !.accepting = r.pending] /\ pp = p
      BY <1>1, <1>2, <1>15 DEF AutoAccept, AcceptPending, At, Return, world, r, p, ui, li, rr,
         pp, uu, ll
    <3>4. ll = [at |-> "join", flow |-> "accept", s |-> r.pending] /\ uu = ui
      BY <1>1, <1>2, <1>15 DEF AutoAccept, AcceptPending, At, Return, world, r, p, ui, li, rr,
         pp, uu, ll
    <3>5. temp' = temp /\ from' = from
      BY <1>1, <1>2, <1>15 DEF AutoAccept, AcceptPending, At, Return, world, r, p, ui, li, rr,
         pp, uu, ll
    <3> QED  BY <3>1, <3>2, <3>3, <3>4, <3>5
  <2>8. r.accepting = NoSession /\ p.at \notin Accepting  BY <1>3, <2>1 DEF Incoming
  <2>2. InTurn(rr, uu, ll, pp)
    BY <1>1, <1>3, <2>1, <2>8 DEF InTurn, Roles, Idle, Members, Errand, Control
  <2>3. Outgoing(rr, uu, ll, pp)
    BY <1>1, <1>3, <2>1, <2>8 DEF InTurn, Outgoing, Roles, Idle, Members, Errand, Control
  <2>4. Incoming(rr, uu, ll, pp)
    BY <1>1, <1>3, <2>1, <2>8 DEF InTurn, Outgoing, Incoming, Roles, Idle, Members, Errand,
       Control
  <2>5. HeldOn
    BY <1>1, <1>3, <2>1, <2>8 DEF InTurn, Outgoing, Holds, Roles, Idle, Members, Errand, Control
  <2>6. ReleasesNone  BY <1>1, <1>3, <2>1, <2>8 DEF Released, Idle, Members, Errand, Control
  <2>7. TakesNone
    BY <1>1, <1>3, <2>1, <2>8 DEF InTurn, Outgoing, Incoming, Serves, Roles, Idle, Members,
       Errand, Control
  <2> QED  BY <1>4, <2>2, <2>3, <2>4, <2>5, <2>6, <2>7
<1>16. CASE HandleAccept(n) /\ ~IsForOutbound(n, Subject(n))
  <2>1. /\ li.at = "got" /\ ~HasOffer(li) /\ uu = ui
        /\ rr = r /\ pp = p /\ ll = Idle
        /\ temp' = temp /\ from' = from
    BY <1>1, <1>2, <1>16 DEF HandleAccept, IsForOutbound, Subject, Got, At, Return, world, r,
       p, ui, li, rr, pp, uu, ll
  <2>2. InTurn(rr, uu, ll, pp)
    BY <1>1, <1>3, <2>1 DEF InTurn, Roles, Idle, Members, Errand, Control
  <2>3. Outgoing(rr, uu, ll, pp)
    BY <1>1, <1>3, <2>1 DEF InTurn, Outgoing, Roles, Idle, Members, Errand, Control
  <2>4. Incoming(rr, uu, ll, pp)
    BY <1>1, <1>3, <2>1 DEF InTurn, Outgoing, Incoming, Roles, Idle, Members, Errand, Control
  <2>5. HeldOn
    BY <1>1, <1>3, <2>1 DEF InTurn, Outgoing, Holds, Roles, Idle, Members, Errand, Control
  <2>6. ReleasesNone  BY <1>1, <1>3, <2>1 DEF Released, Idle, Members, Errand, Control
  <2>7. TakesNone
    BY <1>1, <1>3, <2>1 DEF InTurn, Outgoing, Incoming, Serves, Roles, Idle, Members, Errand,
       Control
  <2> QED  BY <1>4, <2>2, <2>3, <2>4, <2>5, <2>6, <2>7
<1>17. CASE HandleAccept(n) /\ IsForOutbound(n, Subject(n))
  <2>1. /\ li.at = "got" /\ ~HasOffer(li) /\ ll = Idle /\ uu = ui
        /\ r.offer # NoSession
        /\ rr = [r EXCEPT !.waiting = TRUE, !.awaiting = TRUE] /\ pp = p
        /\ temp' = temp /\ from' = from
    BY <1>1, <1>2, <1>17 DEF HandleAccept, IsForOutbound, Subject, Got, At, Return, world, r,
       p, ui, li, rr, pp, uu, ll
  <2>2. InTurn(rr, uu, ll, pp)
    BY <1>1, <1>3, <2>1 DEF InTurn, Roles, Idle, Members, Errand, Control
  <2>3. Outgoing(rr, uu, ll, pp)
    BY <1>1, <1>3, <2>1 DEF InTurn, Outgoing, Roles, Idle, Members, Errand, Control
  <2>4. Incoming(rr, uu, ll, pp)
    BY <1>1, <1>3, <2>1 DEF InTurn, Outgoing, Incoming, Roles, Idle, Members, Errand, Control
  <2>5. HeldOn
    BY <1>1, <1>3, <2>1 DEF InTurn, Outgoing, Holds, Roles, Idle, Members, Errand, Control
  <2>6. ReleasesNone  BY <1>1, <1>3, <2>1 DEF Released, Idle, Members, Errand, Control
  <2>7. TakesNone
    BY <1>1, <1>3, <2>1 DEF InTurn, Outgoing, Incoming, Serves, Roles, Idle, Members, Errand,
       Control
  <2> QED  BY <1>4, <2>2, <2>3, <2>4, <2>5, <2>6, <2>7
<1>18. CASE HandleDecline(n) /\ ~IsForOutbound(n, Subject(n))
  <2>1. /\ li.at = "got" /\ ~HasOffer(li) /\ ~HasReady(li) /\ uu = ui
        /\ rr = r /\ pp = p /\ ll = Idle
        /\ temp' = temp /\ from' = from
    BY <1>1, <1>2, <1>18 DEF HandleDecline, IsForOutbound, Subject, Got, At, Move, Return, r,
       p, ui, li, rr, pp, uu, ll
  <2>2. InTurn(rr, uu, ll, pp)
    BY <1>1, <1>3, <2>1 DEF InTurn, Roles, Idle, Members, Errand, Control
  <2>3. Outgoing(rr, uu, ll, pp)
    BY <1>1, <1>3, <2>1 DEF InTurn, Outgoing, Roles, Idle, Members, Errand, Control
  <2>4. Incoming(rr, uu, ll, pp)
    BY <1>1, <1>3, <2>1 DEF InTurn, Outgoing, Incoming, Roles, Idle, Members, Errand, Control
  <2>5. HeldOn
    BY <1>1, <1>3, <2>1 DEF InTurn, Outgoing, Holds, Roles, Idle, Members, Errand, Control
  <2>6. ReleasesNone  BY <1>1, <1>3, <2>1 DEF Released, Idle, Members, Errand, Control
  <2>7. TakesNone
    BY <1>1, <1>3, <2>1 DEF InTurn, Outgoing, Incoming, Serves, Roles, Idle, Members, Errand,
       Control
  <2> QED  BY <1>4, <2>2, <2>3, <2>4, <2>5, <2>6, <2>7
<1>19. CASE HandleDecline(n) /\ IsForOutbound(n, Subject(n))
  <2>1. /\ li.at = "got" /\ ~HasOffer(li) /\ ~HasReady(li) /\ uu = ui
        /\ r.offer # NoSession /\ ll = [li EXCEPT !.at = "finish"]
        /\ rr = [r EXCEPT !.offer = NoSession, !.staged = NoSession, !.awaiting = FALSE] /\ pp = p
        /\ temp' = temp \ {r.staged} /\ from' = from
    <3>1. li.at = "got" /\ ~HasOffer(li) /\ ~HasReady(li) /\ uu = ui
      BY <1>1, <1>2, <1>19 DEF HandleDecline, IsForOutbound, Subject, Got, At, Move, Return, r,
         p, ui, li, rr, pp, uu, ll
    <3>2. r.offer # NoSession /\ ll = [li EXCEPT !.at = "finish"]
      BY <1>1, <1>2, <1>19 DEF HandleDecline, IsForOutbound, Subject, Got, At, Move, Return, r,
         p, ui, li, rr, pp, uu, ll
    <3>3. rr = [r EXCEPT !.offer = NoSession, !.staged = NoSession, !.awaiting = FALSE] /\ pp = p
      BY <1>1, <1>2, <1>19 DEF HandleDecline, IsForOutbound, Subject, Got, At, Move, Return, r,
         p, ui, li, rr, pp, uu, ll
    <3>4. temp' = temp \ {r.staged} /\ from' = from
      BY <1>1, <1>2, <1>19 DEF HandleDecline, IsForOutbound, Subject, Got, At, Move, Return, r,
         p, ui, li, rr, pp, uu, ll
    <3> QED  BY <3>1, <3>2, <3>3, <3>4
  <2>2. InTurn(rr, uu, ll, pp)
    BY <1>1, <1>3, <2>1 DEF InTurn, Roles, Idle, Members, Errand, Control
  <2>3. Outgoing(rr, uu, ll, pp)
    BY <1>1, <1>3, <2>1 DEF InTurn, Outgoing, Roles, Idle, Members, Errand, Control
  <2>4. Incoming(rr, uu, ll, pp)
    BY <1>1, <1>3, <2>1 DEF InTurn, Outgoing, Incoming, Roles, Idle, Members, Errand, Control
  <2>5. HeldOn
    BY <1>1, <1>3, <2>1 DEF InTurn, Outgoing, Holds, Roles, Idle, Members, Errand, Control
  <2>6. ReleasesNone  BY <1>1, <1>3, <2>1 DEF Released, Idle, Members, Errand, Control
  <2>7. TakesNone
    BY <1>1, <1>3, <2>1 DEF InTurn, Outgoing, Incoming, Serves, Roles, Idle, Members, Errand,
       Control
  <2> QED  BY <1>4, <2>2, <2>3, <2>4, <2>5, <2>6, <2>7
<1>20. CASE FinishDeclined(n)
  <2>1. /\ li.at = "finish" /\ ll = Idle /\ uu = ui
        /\ rr = Finished(r, "Failed") /\ pp = p
        /\ temp' = temp /\ from' = from
    BY <1>1, <1>2, <1>20 DEF FinishDeclined, At, Return, world, r, p, ui, li, rr, pp, uu, ll
  <2>8. /\ rr.offer = NoSession /\ rr.staged = NoSession
        /\ ~rr.busy /\ ~rr.waiting /\ ~rr.paused
        /\ rr.pending = r.pending /\ rr.accepting = r.accepting
        /\ rr.joinable = r.joinable /\ rr.terminated = r.terminated
    BY <1>1, <2>1, FinishedFields
  <2>2. InTurn(rr, uu, ll, pp)
    BY <1>1, <1>3, <2>1, <2>8 DEF InTurn, Roles, Idle, Members, Errand, Control
  <2>3. Outgoing(rr, uu, ll, pp)
    BY <1>1, <1>3, <2>1, <2>8 DEF InTurn, Outgoing, Roles, Idle, Members, Errand, Control
  <2>4. Incoming(rr, uu, ll, pp)
    BY <1>1, <1>3, <2>1, <2>8 DEF InTurn, Outgoing, Incoming, Roles, Idle, Members, Errand,
       Control
  <2>5. HeldOn
    BY <1>1, <1>3, <2>1, <2>8 DEF InTurn, Outgoing, Holds, Roles, Idle, Members, Errand, Control
  <2>6. ReleasesNone  BY <1>1, <1>3, <2>1, <2>8 DEF Released, Idle, Members, Errand, Control
  <2>7. TakesNone
    BY <1>1, <1>3, <2>1, <2>8 DEF InTurn, Outgoing, Incoming, Serves, Roles, Idle, Members,
       Errand, Control
  <2> QED  BY <1>4, <2>2, <2>3, <2>4, <2>5, <2>6, <2>7
<1>21. CASE HandleReady(n) /\ ~IsForOutbound(n, Subject(n))
  <2>1. /\ HasReady(li) /\ uu = ui
        /\ rr = r /\ pp = p /\ ll = Idle
        /\ temp' = temp /\ from' = from
    BY <1>1, <1>2, <1>21 DEF HandleReady, IsForOutbound, Subject, Got, At, Move, Return, world,
       r, p, ui, li, rr, pp, uu, ll
  <2>2. InTurn(rr, uu, ll, pp)
    BY <1>1, <1>3, <2>1 DEF InTurn, Roles, Idle, Members, Errand, Control
  <2>3. Outgoing(rr, uu, ll, pp)
    BY <1>1, <1>3, <2>1 DEF InTurn, Outgoing, Roles, Idle, Members, Errand, Control
  <2>4. Incoming(rr, uu, ll, pp)
    BY <1>1, <1>3, <2>1 DEF InTurn, Outgoing, Incoming, Roles, Idle, Members, Errand, Control
  <2>5. HeldOn
    BY <1>1, <1>3, <2>1 DEF InTurn, Outgoing, Holds, Roles, Idle, Members, Errand, Control
  <2>6. ReleasesNone  BY <1>1, <1>3, <2>1 DEF Released, Idle, Members, Errand, Control
  <2>7. TakesNone
    BY <1>1, <1>3, <2>1 DEF InTurn, Outgoing, Incoming, Serves, Roles, Idle, Members, Errand,
       Control
  <2> QED  BY <1>4, <2>2, <2>3, <2>4, <2>5, <2>6, <2>7
<1>22. CASE HandleReady(n) /\ IsForOutbound(n, Subject(n))
  <2>1. /\ HasReady(li) /\ uu = ui
        /\ r.offer # NoSession /\ r.offer = li.s
        /\ rr = [r EXCEPT !.awaiting = TRUE] /\ pp = p /\ ll = [li EXCEPT !.at = "start"]
        /\ temp' = temp /\ from' = from
    BY <1>1, <1>2, <1>22 DEF HandleReady, IsForOutbound, Subject, Got, At, Move, Return, world,
       r, p, ui, li, rr, pp, uu, ll
  <2>2. InTurn(rr, uu, ll, pp)
    BY <1>1, <1>3, <2>1 DEF InTurn, Roles, Idle, Members, Errand, Control
  <2>3. Outgoing(rr, uu, ll, pp)
    BY <1>1, <1>3, <2>1 DEF InTurn, Outgoing, Roles, Idle, Members, Errand, Control
  <2>4. Incoming(rr, uu, ll, pp)
    BY <1>1, <1>3, <2>1 DEF InTurn, Outgoing, Incoming, Roles, Idle, Members, Errand, Control
  <2>5. HeldOn
    BY <1>1, <1>3, <2>1 DEF InTurn, Outgoing, Holds, Roles, Idle, Members, Errand, Control
  <2>6. ReleasesNone  BY <1>1, <1>3, <2>1 DEF Released, Idle, Members, Errand, Control
  <2>7. TakesNone
    BY <1>1, <1>3, <2>1 DEF InTurn, Outgoing, Incoming, Serves, Roles, Idle, Members, Errand,
       Control
  <2> QED  BY <1>4, <2>2, <2>3, <2>4, <2>5, <2>6, <2>7
<1>23. CASE StartOutbound(n)
  <2>1. /\ li.at = "start" /\ uu = ui /\ pp = p
        /\ rr = [r EXCEPT !.paused = TRUE, !.waiting = FALSE]
        /\ ll = [at |-> "join", flow |-> "payload", s |-> r.staged]
        /\ temp' = temp /\ from' = from
    BY <1>1, <1>2, <1>23 DEF StartOutbound, At, world, r, p, ui, li, rr, pp, uu, ll
  <2>2. InTurn(rr, uu, ll, pp)
    BY <1>1, <1>3, <2>1 DEF InTurn, Roles, Idle, Members, Errand, Control
  <2>3. Outgoing(rr, uu, ll, pp)
    BY <1>1, <1>3, <2>1 DEF InTurn, Outgoing, Roles, Idle, Members, Errand, Control
  <2>4. Incoming(rr, uu, ll, pp)
    BY <1>1, <1>3, <2>1 DEF InTurn, Outgoing, Incoming, Roles, Idle, Members, Errand, Control
  <2>5. HeldOn
    BY <1>1, <1>3, <2>1 DEF InTurn, Outgoing, Holds, Roles, Idle, Members, Errand, Control
  <2>6. ReleasesNone  BY <1>1, <1>3, <2>1 DEF Released, Outgoing, Idle, Members, Errand, Control
  <2>7. TakesNone
    BY <1>1, <1>3, <2>1 DEF InTurn, Outgoing, Incoming, Serves, Roles, Idle, Members, Errand,
       Control
  <2> QED  BY <1>4, <2>2, <2>3, <2>4, <2>5, <2>6, <2>7
<1>24. CASE JoinPayload(n, "listener")
  <2>1. /\ rr = [r EXCEPT !.joinable = FALSE] /\ pp = p
        /\ p.at = "none"
        /\ li.at = "join" /\ ll = [li EXCEPT !.at =
                            IF li.flow = "offer" THEN "begin" ELSE "spawn"]
        /\ uu = ui
        /\ temp' = temp /\ from' = from
    BY <1>1, <1>2, <1>24 DEF JoinPayload, Joined, At, Move, world, Roles, r, p, ui, li, rr, pp,
       uu, ll
  <2>2. InTurn(rr, uu, ll, pp)
    BY <1>1, <1>3, <2>1 DEF InTurn, Roles, Idle, Members, Errand, Control
  <2>3. Outgoing(rr, uu, ll, pp)
    BY <1>1, <1>3, <2>1 DEF InTurn, Outgoing, Roles, Idle, Members, Errand, Control
  <2>4. Incoming(rr, uu, ll, pp)
    BY <1>1, <1>3, <2>1 DEF InTurn, Outgoing, Incoming, Roles, Idle, Members, Errand, Control
  <2>5. HeldOn
    BY <1>1, <1>3, <2>1 DEF InTurn, Outgoing, Holds, Roles, Idle, Members, Errand, Control
  <2>6. ReleasesNone  BY <1>1, <1>3, <2>1 DEF Released, Idle, Members, Errand, Control
  <2>7. TakesNone
    BY <1>1, <1>3, <2>1 DEF InTurn, Outgoing, Incoming, Serves, Roles, Idle, Members, Errand,
       Control
  <2> QED  BY <1>4, <2>2, <2>3, <2>4, <2>5, <2>6, <2>7
<1>25. CASE Spawn(n, "listener") /\ ~r.joinable
  <2>1. /\ rr = [r EXCEPT !.joinable = TRUE]
        /\ p.at = "none" /\ pp = [at |-> li.flow, s |-> li.s, resent |-> FALSE]
        /\ li.at = "spawn" /\ ll = Idle /\ uu = ui
        /\ temp' = temp /\ from' = from
    BY <1>1, <1>2, <1>25 DEF Spawn, At, Return, world, Roles, r, p, ui, li, rr, pp, uu, ll
  <2>2. InTurn(rr, uu, ll, pp)
    BY <1>1, <1>3, <2>1 DEF InTurn, Roles, Idle, Members, Errand, Control
  <2>3. Outgoing(rr, uu, ll, pp)
    BY <1>1, <1>3, <2>1 DEF InTurn, Outgoing, Roles, Idle, Members, Errand, Control
  <2>4. Incoming(rr, uu, ll, pp)
    BY <1>1, <1>3, <2>1 DEF InTurn, Outgoing, Incoming, Roles, Idle, Members, Errand, Control
  <2>5. HeldOn
    BY <1>1, <1>3, <2>1 DEF InTurn, Outgoing, Holds, Roles, Idle, Members, Errand, Control
  <2>6. ReleasesNone  BY <1>1, <1>3, <2>1 DEF Released, Roles, Idle, Members, Errand, Control
  <2>7. TakesNone
    BY <1>1, <1>3, <2>1 DEF InTurn, Outgoing, Incoming, Serves, Roles, Idle, Members, Errand,
       Control
  <2> QED  BY <1>4, <2>2, <2>3, <2>4, <2>5, <2>6, <2>7
<1>26. CASE Spawn(n, "listener") /\ r.joinable
  BY <1>1, <1>26 DEF Keeps, Spawn, Members, r
<1> QED
  BY <1>10, <1>11, <1>12, <1>13, <1>14, <1>15, <1>16, <1>17, <1>18, <1>19, <1>20, <1>21, <1>22,
     <1>23, <1>24, <1>25, <1>26 DEF Listener

-----------------------------------------------------------------------------
(* What a step of n does at the other station m: nothing, a frame that its *)
(* listener takes, or the payload that it receives.                        *)

Reached(n, m) == \E kind \in {"offer", "accept", "decline", "ready"} :
    /\ Slow(n) /\ Slow(m) /\ Polling(m) /\ pt'[m] = pt[m]
    /\ th'[m]["listener"] = [at |-> "got", flow |-> kind, s |-> pt[n].s]
    /\ kind = "offer" => pt[n].at \in {"send_offer", "resend"}
    /\ kind = "ready" => /\ pt[n].at = "send_ready" /\ pt'[n] = [pt[n] EXCEPT !.at = "prepare"]
                         /\ st'[n] = [st[n] EXCEPT !.paused = TRUE] /\ th'[n] = th[n]
Elsewhere(n, m) ==
    /\ st'[m] = st[m] /\ th'[m]["ui"] = th[m]["ui"]
    /\ \A s \in Session : s \in temp' /\ from'[s] = m => s \in temp /\ from[s] = m
    /\ \/ th'[m]["listener"] = th[m]["listener"] /\ pt'[m] = pt[m]
       \/ /\ th'[m]["listener"] = th[m]["listener"]
          /\ pt[m].at = "receiving" /\ pt'[m] = [pt[m] EXCEPT !.at = "received"]
       \/ Reached(n, m)

\* The steps of the threads ui and listener stay at their station.
LEMMA ThreadsStay ==
    ASSUME Inv, NEW n \in Node, NEW m \in Node, m # n, Ui(n) \/ Listener(n)
    PROVE  Elsewhere(n, m)
<1>1. /\ st \in [Node -> Members] /\ pt \in [Node -> Errand]
      /\ th \in [Node -> [{"ui", "listener"} -> Control]]
      /\ from \in [Session -> Node] /\ temp \subseteq Session
  BY DEF Inv, TypeOK
<1> USE DEF Elsewhere, world, At, Move, Return
<1>2. CASE Send(n)  BY <1>1, <1>2 DEF Send
<1>3. CASE Staged(n) \/ SendBegins(n) \/ UserDeclines(n)
  BY <1>1, <1>3 DEF Staged, SendBegins, UserDeclines
<1>4. CASE UserAccepts(n)  BY <1>1, <1>4 DEF UserAccepts, AcceptPending
<1>5. ASSUME NEW c \in {"ui", "listener"}, JoinPayload(n, c) \/ Spawn(n, c)
      PROVE  Elsewhere(n, m)
  BY <1>1, <1>5 DEF JoinPayload, Spawn
<1>6. CASE HandleOffer(n) \/ OfferBusyCheck(n) \/ HandleAccept(n) \/ HandleReady(n)
  BY <1>1, <1>6 DEF HandleOffer, OfferBusyCheck, HandleAccept, HandleReady
<1>7. CASE PostOffer(n) \/ FinishDeclined(n) \/ StartOutbound(n)
  BY <1>1, <1>7 DEF PostOffer, FinishDeclined, StartOutbound
<1>8. CASE HandleDecline(n)  BY <1>1, <1>8 DEF HandleDecline
<1>9. CASE AutoAccept(n)  BY <1>1, <1>9 DEF AutoAccept, AcceptPending
<1> HIDE DEF Elsewhere
<1> QED  BY <1>2, <1>3, <1>4, <1>5, <1>6, <1>7, <1>8, <1>9 DEF Ui, Listener

\* The steps of the payload thread.
LEMMA PayloadsReach ==
    ASSUME Inv, NEW n \in Node, NEW m \in Node, m # n, Payload(n)
    PROVE  Elsewhere(n, m)
<1>1. /\ st \in [Node -> Members] /\ pt \in [Node -> Errand]
      /\ th \in [Node -> [{"ui", "listener"} -> Control]]
  BY DEF Inv, TypeOK
<1>2. m = Peer(n)  BY PeerOfPeer
<1>3. ASSUME NEW kind, Delivered(n, kind, Mine(n))
      PROVE  /\ Slow(m) /\ Polling(m) /\ th'[m]["ui"] = th[m]["ui"] /\ th'[n] = th[n]
             /\ th'[m]["listener"] = [at |-> "got", flow |-> kind, s |-> pt[n].s]
  BY <1>1, <1>2, <1>3 DEF Delivered, Mine
<1> USE DEF PtAt, PtMove, PtExit, Mine, world
<1>4. CASE OfferSent(n)
  <2>1. st' = st /\ pt'[m] = pt[m] /\ temp' = temp /\ from' = from /\ Slow(n)
        /\ pt[n].at = "send_offer"
    BY <1>1, <1>4 DEF OfferSent
  <2>2. Delivered(n, "offer", Mine(n)) \/ Lost  BY <1>4 DEF OfferSent
  <2> QED  BY <1>3, <2>1, <2>2 DEF Elsewhere, Reached, Lost
<1>5. CASE Resend(n)
  <2>1. st' = st /\ pt'[m] = pt[m] /\ temp' = temp /\ from' = from /\ Slow(n)
        /\ pt[n].at = "resend"
    BY <1>1, <1>5 DEF Resend
  <2>2. Delivered(n, "offer", Mine(n)) \/ Lost  BY <1>5 DEF Resend
  <2> QED  BY <1>3, <2>1, <2>2 DEF Elsewhere, Reached, Lost
<1>6. CASE AcceptSent(n)
  <2>1. st' = st /\ pt'[m] = pt[m] /\ temp' = temp /\ from' = from /\ Slow(n)
    BY <1>1, <1>6 DEF AcceptSent
  <2>2. Delivered(n, "accept", Mine(n)) \/ Lost  BY <1>6 DEF AcceptSent
  <2> QED  BY <1>3, <2>1, <2>2 DEF Elsewhere, Reached, Lost
<1>7. CASE DeclineSent(n)
  <2>1. st'[m] = st[m] /\ pt'[m] = pt[m] /\ temp' = temp /\ from' = from /\ Slow(n)
    BY <1>1, <1>7 DEF DeclineSent
  <2>2. Delivered(n, "decline", Mine(n)) \/ Lost  BY <1>7 DEF DeclineSent
  <2> QED  BY <1>3, <2>1, <2>2 DEF Elsewhere, Reached, Lost
<1>8. CASE ReadySent(n)
  <2>1. /\ st'[m] = st[m] /\ pt'[m] = pt[m] /\ temp' = temp /\ from' = from /\ Slow(n)
        /\ pt[n].at = "send_ready" /\ pt'[n] = [pt[n] EXCEPT !.at = "prepare"]
        /\ st'[n] = [st[n] EXCEPT !.paused = TRUE]
    BY <1>1, <1>8 DEF ReadySent
  <2>2. Delivered(n, "ready", Mine(n)) \/ Lost  BY <1>8 DEF ReadySent
  <2> QED  BY <1>3, <2>1, <2>2 DEF Elsewhere, Reached, Lost
<1>9. CASE PayloadMoves(n)
  BY <1>1, <1>2, <1>9 DEF PayloadMoves, RemovesTemp, Elsewhere, PtAt
<1>10. CASE \/ Pauses(n, "offer", "send_offer") \/ OfferFails(n) \/ Rearm(n) \/ Arm(n)
            \/ LeavePoll(n) \/ Retransmit(n) \/ ResumeAfterResend(n)
            \/ TimeUp(n) \/ Expire(n) \/ FinishFailed(n)
  BY <1>1, <1>10 DEF Elsewhere, Pauses, OfferFails, Rearm, Arm, LeavePoll, Retransmit, ResumeAfterResend,
     TimeUp, Expire, FinishFailed, RemovesTemp
<1>11. CASE \/ SkipCompleted(n) \/ PauseToAccept(n) \/ AcceptFails(n) \/ ReadyFails(n)
            \/ Prepare(n) \/ ReceiveFails(n) \/ FinishReceived(n) \/ Leave(n)
            \/ Pauses(n, "decline", "send_decline")
            \/ Pauses(n, "payload", "sending") \/ PayloadAlone(n)
  BY <1>1, <1>11 DEF Elsewhere, Pauses, SkipCompleted, PauseToAccept, AcceptFails, ReadyFails, Prepare,
     ReceiveFails, FinishReceived, Leave, PayloadAlone, RemovesTemp
<1> QED
  BY <1>4, <1>5, <1>6, <1>7, <1>8, <1>9, <1>10, <1>11
     DEF Payload, OfferThread, AcceptThread, DeclineThread, PayloadThread

-----------------------------------------------------------------------------
(* The two stations together.                                              *)

Ordered == \A n \in Node : ~st[n].terminated => InOrder(n)
Matched == \A n, m \in Node : n # m /\ ~st[n].terminated /\ ~st[m].terminated =>
    \A s \in SessionOr0 : Released(th[n]["listener"], pt[n], s) =>
                             Serves(st[m], th[m]["listener"], pt[m], s)
Calm == \A n \in Node : presence[n] = "idle"
Prompted == prompt /\ losses = 0 => Calm /\ Ordered /\ Matched /\ \A x \in received : x[1] = x[2]

\* A ready reaches no station that is sending: its peer would be able to receive
\* in the session it sends, and in no other.
LEMMA ReadyFindsNoSender ==
    ASSUME Inv, Matched, NEW n \in Node, NEW m \in Node, m # n, InOrder(n),
           ~st[n].terminated, ~st[m].terminated, pt[n].at = "send_ready"
    PROVE  pt[m].at \notin Sending
<1> SUFFICES ASSUME pt[m].at \in Sending PROVE FALSE  OBVIOUS
<1>1. pt[m].s \in SessionOr0  BY DEF Inv, TypeOK, Errand
<1>2. Released(th[m]["listener"], pt[m], pt[m].s)  BY DEF Released
<1>3. Serves(st[n], th[n]["listener"], pt[n], pt[m].s)  BY <1>1, <1>2 DEF Matched
<1>4. st[n].accepting # NoSession  BY DEF InOrder, Incoming, Accepting
<1> QED  BY <1>3, <1>4 DEF Serves, Late

\* A step of n keeps the other station in order.
LEMMA OtherInOrder ==
    ASSUME Inv, Inv', prompt, NEW n \in Node, NEW m \in Node, m # n, Elsewhere(n, m), InOrder(m),
           pt[n].at = "send_ready" => pt[m].at \notin Sending
    PROVE  InOrder(m)'
<1> DEFINE r == st[m]
           p == pt[m]
           ui == th[m]["ui"]
           li == th[m]["listener"]
           pp == pt'[m]
           ll == th'[m]["listener"]
<1>1. /\ r \in Members /\ p \in Errand /\ li \in Control /\ st'[m] = r /\ th'[m]["ui"] = ui
      /\ \A s \in temp' : from'[s] = m => s \in temp /\ from[s] = m
  BY DEF Elsewhere, Inv, TypeOK
<1>2. /\ InTurn(r, ui, li, p) /\ Outgoing(r, ui, li, p) /\ Incoming(r, ui, li, p)
      /\ \A s \in temp : from[s] = m => Holds(r, ui, li, p, s)
  BY DEF InOrder, TempHeld
<1>3. \/ ll = li /\ pp = p
      \/ ll = li /\ p.at = "receiving" /\ pp = [p EXCEPT !.at = "received"]
      \/ /\ pp = p /\ ll.at = "got" /\ li.at = "idle" /\ ~r.paused /\ Pausing(r, ui, li, p)
         /\ ll.flow = "ready" => p.at \notin Sending
  <2>1. CASE Reached(n, m)
    <3>1. PICK kind \in {"offer", "accept", "decline", "ready"} :
             /\ Slow(m) /\ Polling(m) /\ pp = p
             /\ ll = [at |-> "got", flow |-> kind, s |-> pt[n].s]
             /\ kind = "ready" => pt[n].at = "send_ready"
      BY <2>1 DEF Reached
    <3>2. Pausing(r, ui, li, p)  BY <3>1, SlowPauses
    <3> QED  BY <3>1, <3>2 DEF Polling, At
  <2> QED  BY <2>1 DEF Elsewhere
<1> SUFFICES /\ InTurn(r, ui, ll, pp) /\ Outgoing(r, ui, ll, pp) /\ Incoming(r, ui, ll, pp)
             /\ \A s \in temp' : from'[s] = m => Holds(r, ui, ll, pp, s)
  BY <1>1 DEF InOrder, TempHeld
<1> HIDE DEF r, p, ui, li, pp, ll
<1> USE DEF Brief, Early, Sending, Late, Waits, Offers, Accepts, HasReady, HasOffer, Releasing, Accepting,
            Offering, Pausing, Errand
<1>4. InTurn(r, ui, ll, pp)  BY <1>1, <1>2, <1>3 DEF InTurn
<1>5. Outgoing(r, ui, ll, pp)  BY <1>1, <1>2, <1>3 DEF Outgoing
<1>6. Incoming(r, ui, ll, pp)  BY <1>1, <1>2, <1>3 DEF Incoming
<1>7. \A s \in temp' : from'[s] = m => Holds(r, ui, ll, pp, s)
  BY <1>1, <1>2, <1>3 DEF Holds
<1> QED  BY <1>4, <1>5, <1>6, <1>7

\* A step of n, which releases nothing by itself, finds at the peer what it was
\* released to send; and what it releases at the peer, it can receive.
LEMMA StepMatches ==
    ASSUME Inv, Inv', prompt, Matched, NEW n \in Node, NEW m \in Node, m # n,
           ~st[n].terminated, ~st[m].terminated, ~st'[n].terminated,
           InOrder(n), Keeps(n), Elsewhere(n, m)
    PROVE  \A s \in SessionOr0 :
              /\ Released(th'[n]["listener"], pt'[n], s) =>
                    Serves(st'[m], th'[m]["listener"], pt'[m], s)
              /\ Released(th'[m]["listener"], pt'[m], s) =>
                    Serves(st'[n], th'[n]["listener"], pt'[n], s)
<1>1. /\ \A s \in SessionOr0 : Released(th[n]["listener"], pt[n], s) =>
            Serves(st[m], th[m]["listener"], pt[m], s)
      /\ \A s \in SessionOr0 : Released(th[m]["listener"], pt[m], s) =>
            Serves(st[n], th[n]["listener"], pt[n], s)
  BY DEF Matched
<1>2. \A s \in SessionOr0 :
         /\ Released(th'[n]["listener"], pt'[n], s) => Released(th[n]["listener"], pt[n], s)
         /\ Serves(st[n], th[n]["listener"], pt[n], s) =>
               Serves(st'[n], th'[n]["listener"], pt'[n], s)
  BY DEF Keeps
<1>3. st'[m] = st[m] /\ pt[m] \in Errand /\ th[m]["listener"] \in Control
      /\ st[n] \in Members /\ pt[n] \in Errand
  BY DEF Elsewhere, Inv, TypeOK
<1>4. CASE /\ th'[m]["listener"] = th[m]["listener"]
           /\ \/ pt'[m] = pt[m]
              \/ pt[m].at = "receiving" /\ pt'[m] = [pt[m] EXCEPT !.at = "received"]
  <2>1. \A s \in SessionOr0 :
           /\ Serves(st[m], th[m]["listener"], pt[m], s) =>
                 Serves(st'[m], th'[m]["listener"], pt'[m], s)
           /\ Released(th'[m]["listener"], pt'[m], s) => Released(th[m]["listener"], pt[m], s)
    BY <1>3, <1>4 DEF Serves, Released, Late, Sending, Errand
  <2> QED  BY <1>1, <1>2, <2>1
<1>5. CASE Reached(n, m)
  <2>1. PICK kind \in {"offer", "accept", "decline", "ready"} :
           /\ Slow(n) /\ Slow(m) /\ Polling(m) /\ pt'[m] = pt[m]
           /\ th'[m]["listener"] = [at |-> "got", flow |-> kind, s |-> pt[n].s]
           /\ kind = "offer" => pt[n].at \in {"send_offer", "resend"}
           /\ kind = "ready" => /\ pt[n].at = "send_ready"
                                /\ pt'[n] = [pt[n] EXCEPT !.at = "prepare"]
                                /\ st'[n] = [st[n] EXCEPT !.paused = TRUE] /\ th'[n] = th[n]
    BY <1>5 DEF Reached
  <2>2. Pausing(st[n], th[n]["ui"], th[n]["listener"], pt[n])  BY <2>1, SlowPauses
  <2>3. Outgoing(st[n], th[n]["ui"], th[n]["listener"], pt[n])
        /\ Incoming(st[n], th[n]["ui"], th[n]["listener"], pt[n])
    BY DEF InOrder
  <2>4. ASSUME NEW s \in SessionOr0, Released(th[n]["listener"], pt[n], s)
        PROVE  Serves(st'[m], th'[m]["listener"], pt'[m], s)
    <3>1. kind # "offer"
      BY <2>1, <2>2, <2>3, <2>4
         DEF Released, HasReady, Releasing, Pausing, Outgoing, Early, Sending
    <3>2. Serves(st[m], th[m]["listener"], pt[m], s)  BY <1>1, <2>4
    <3> QED  BY <1>3, <2>1, <3>1, <3>2 DEF Serves, HasOffer
  <2>5. ASSUME NEW s \in SessionOr0, Released(th'[m]["listener"], pt'[m], s)
        PROVE  Serves(st'[n], th'[n]["listener"], pt'[n], s)
    <3>1. CASE Released(th[m]["listener"], pt[m], s)  BY <1>1, <1>2, <3>1
    <3>2. CASE ~Released(th[m]["listener"], pt[m], s)
      <4>1. kind = "ready" /\ s = pt[n].s
        BY <2>1, <2>5, <3>2 DEF Released, HasReady, Releasing
      <4>2. st[n].accepting = pt[n].s /\ st[n].pending = NoSession
        BY <2>1, <2>3, <4>1 DEF Incoming, Accepting
      <4>3. ~HasOffer(th[n]["listener"]) /\ th[n]["listener"].at \notin {"busy_check", "post"}
        BY <2>2 DEF Pausing, HasOffer
      <4> QED  BY <1>3, <2>1, <4>1, <4>2, <4>3 DEF Serves, Late, Members, Errand
    <3> QED  BY <3>1, <3>2
  <2> QED  BY <1>2, <2>4, <2>5
<1> QED  BY <1>4, <1>5 DEF Elsewhere

\* The payload that moves is the one its peer can receive.
LEMMA PayloadIsOffered ==
    ASSUME Inv, Ordered, Matched, NEW n \in Node, PayloadMoves(n)
    PROVE  Mine(Peer(n)) = Mine(n)
<1>1. Peer(n) \in Node /\ Peer(n) # n  BY PeerOfPeer
<1>2. /\ ~st[n].terminated /\ pt[n].at = "sending"
      /\ ~st[Peer(n)].terminated /\ pt[Peer(n)].at = "receiving"
  BY DEF PayloadMoves, PtAt, Alive
<1>3. pt[n].s \in SessionOr0  BY DEF Inv, TypeOK, Errand
<1>4. Serves(st[Peer(n)], th[Peer(n)]["listener"], pt[Peer(n)], pt[n].s)
  BY <1>1, <1>2, <1>3 DEF Matched, Released, Sending
<1>5. st[Peer(n)].accepting # NoSession
  BY <1>1, <1>2 DEF Ordered, InOrder, Incoming, Accepting
<1> QED  BY <1>4, <1>5 DEF Serves, Mine

\* A step of n other than the loss of a cable.
LEMMA StationPrompted ==
    ASSUME Inv, Inv', prompt, Calm, Ordered, Matched, \A x \in received : x[1] = x[2],
           NEW n \in Node, Ui(n) \/ Listener(n) \/ Payload(n)
    PROVE  Calm' /\ Ordered' /\ Matched' /\ \A x \in received' : x[1] = x[2]
<1>1. ~st[n].terminated /\ presence' = presence
  <2>1. CASE Ui(n)
    BY <2>1 DEF Ui, Send, Staged, SendBegins, UserAccepts, UserDeclines, JoinPayload, Spawn, At, Alive
  <2>2. CASE Listener(n)
    BY <2>2 DEF Listener, HandleOffer, OfferBusyCheck, PostOffer, AutoAccept, HandleAccept,
       HandleDecline, FinishDeclined, HandleReady, StartOutbound, JoinPayload, Spawn, Got, At, Alive
  <2>3. CASE OfferThread(n)
    BY <2>3 DEF OfferThread, Pauses, OfferSent, OfferFails, Rearm, Arm, LeavePoll, Retransmit, Resend,
       ResumeAfterResend, TimeUp, Expire, FinishFailed, PtAt, Alive
  <2>4. CASE AcceptThread(n)
    BY <2>4 DEF AcceptThread, SkipCompleted, PauseToAccept, Pauses, AcceptSent, AcceptFails, ReadySent,
       ReadyFails, Prepare, ReceiveFails, FinishReceived, Leave, PtAt, Alive
  <2>5. CASE DeclineThread(n) \/ PayloadThread(n)
    BY <2>5 DEF DeclineThread, PayloadThread, Pauses, DeclineSent, PayloadAlone, PayloadMoves, PtAt, Alive
  <2> QED  BY <2>1, <2>2, <2>3, <2>4, <2>5 DEF Payload
<1>2. InOrder(n)  BY <1>1 DEF Ordered
<1>3. Keeps(n)
  BY <1>1, <1>2, UiInOrder, ListenerInOrder, OfferThreadInOrder, AcceptThreadInOrder,
     OtherThreadsInOrder DEF Payload
<1>4. \A m \in Node : m # n => Elsewhere(n, m)  BY ThreadsStay, PayloadsReach
<1>5. Ordered'
  <2> SUFFICES ASSUME NEW m \in Node, ~st'[m].terminated PROVE InOrder(m)'  BY DEF Ordered
  <2>1. CASE m = n  BY <1>3, <2>1 DEF Keeps
  <2>2. CASE m # n
    <3>1. Elsewhere(n, m) /\ ~st[m].terminated  BY <1>4, <2>2 DEF Elsewhere
    <3>2. InOrder(m)  BY <3>1 DEF Ordered
    <3>3. pt[n].at = "send_ready" => pt[m].at \notin Sending
      BY <1>1, <1>2, <2>2, <3>1, ReadyFindsNoSender
    <3> QED  BY <2>2, <3>1, <3>2, <3>3, OtherInOrder
  <2> QED  BY <2>1, <2>2
<1>6. Matched'
  <2> SUFFICES ASSUME NEW m \in Node, m # n, ~st'[n].terminated, ~st'[m].terminated
      PROVE  \A s \in SessionOr0 :
                /\ Released(th'[n]["listener"], pt'[n], s) =>
                      Serves(st'[m], th'[m]["listener"], pt'[m], s)
                /\ Released(th'[m]["listener"], pt'[m], s) =>
                      Serves(st'[n], th'[n]["listener"], pt'[n], s)
    <3>1. \A k, m \in Node : k # m => k = n \/ m = n  BY PeerOfPeer
    <3> QED  BY <3>1 DEF Matched
  <2>1. Elsewhere(n, m) /\ ~st[m].terminated  BY <1>4 DEF Elsewhere
  <2> QED  BY <1>1, <1>2, <1>3, <2>1, StepMatches
<1>7. \A x \in received' : x[1] = x[2]
  <2>1. CASE PayloadMoves(n)
    <3>1. Mine(Peer(n)) = Mine(n)  BY <2>1, PayloadIsOffered
    <3> QED  BY <2>1, <3>1 DEF PayloadMoves
  <2>2. CASE ~PayloadMoves(n)
    <3>1. received' = received
      <4>1. CASE Ui(n)
        BY <4>1 DEF Ui, Send, Staged, SendBegins, UserAccepts, UserDeclines, JoinPayload, Spawn, world
      <4>2. CASE Listener(n)
        BY <4>2 DEF Listener, HandleOffer, OfferBusyCheck, PostOffer, AutoAccept, HandleAccept,
           HandleDecline, FinishDeclined, HandleReady, StartOutbound, JoinPayload, Spawn, world
      <4>3. CASE OfferThread(n)
        BY <4>3 DEF OfferThread, Pauses, OfferSent, OfferFails, Rearm, Arm, LeavePoll, Retransmit,
           Resend, ResumeAfterResend, TimeUp, Expire, FinishFailed, world
      <4>4. CASE AcceptThread(n)
        BY <4>4 DEF AcceptThread, SkipCompleted, PauseToAccept, Pauses, AcceptSent, AcceptFails,
           ReadySent, ReadyFails, Prepare, ReceiveFails, FinishReceived, Leave, world
      <4>5. CASE DeclineThread(n) \/ PayloadThread(n)
        BY <2>2, <4>5 DEF DeclineThread, PayloadThread, Pauses, DeclineSent, PayloadAlone, world
      <4> QED  BY <4>1, <4>2, <4>3, <4>4, <4>5 DEF Payload
    <3> QED  BY <3>1
  <2> QED  BY <2>1, <2>2
<1> QED  BY <1>1, <1>5, <1>6, <1>7 DEF Calm

\* Prompted is inductive, given the types and what the threads are about.
LEMMA PromptedInit == Init => Prompted
<1> SUFFICES ASSUME Init PROVE Calm /\ Ordered /\ Matched /\ \A x \in received : x[1] = x[2]
  BY DEF Prompted
<1>1. Calm /\ temp = {} /\ received = {}  BY DEF Init, Calm
<1>2. ASSUME NEW n \in Node
      PROVE  /\ InOrder(n)
             /\ \A s \in SessionOr0 : ~Released(th[n]["listener"], pt[n], s)
  <2>1. /\ th[n]["ui"] = Idle /\ th[n]["listener"] = Idle /\ pt[n] = Quiet
        /\ st[n].offer = NoSession /\ st[n].staged = NoSession /\ st[n].accepting = NoSession
    BY <1>2 DEF Init
  <2> USE DEF Brief, Early, Sending, Late, Waits, Offers, Accepts, HasReady, HasOffer, Releasing, Accepting,
              Offering, Idle, Quiet
  <2>2. InTurn(st[n], Idle, Idle, Quiet)  BY DEF InTurn
  <2>3. Outgoing(st[n], Idle, Idle, Quiet)  BY <2>1 DEF Outgoing
  <2>4. Incoming(st[n], Idle, Idle, Quiet)  BY <2>1 DEF Incoming
  <2>5. \A s \in SessionOr0 : ~Released(Idle, Quiet, s)  BY DEF Released
  <2> HIDE DEF Brief, Early, Sending, Late, Waits, Offers, Accepts, HasReady, HasOffer, Releasing, Accepting,
               Offering, Idle, Quiet
  <2> QED  BY <1>1, <2>1, <2>2, <2>3, <2>4, <2>5 DEF InOrder, TempHeld
<1> QED  BY <1>1, <1>2 DEF Ordered, Matched
LEMMA PromptedNext == Inv /\ Inv' /\ Prompted /\ [Next]_vars => Prompted'
<1> SUFFICES ASSUME Inv, Inv', Prompted, [Next]_vars, prompt', losses' = 0
             PROVE  Calm' /\ Ordered' /\ Matched' /\ \A x \in received' : x[1] = x[2]
  BY DEF Prompted
<1>1. CASE UNCHANGED vars
  BY <1>1 DEF vars, world, Prompted, Calm, Ordered, Matched, InOrder, TempHeld
<1>2. ASSUME NEW n \in Node, Ui(n) \/ Listener(n) \/ Payload(n)
      PROVE  Calm' /\ Ordered' /\ Matched' /\ \A x \in received' : x[1] = x[2]
  <2>1. prompt /\ losses = 0
    <3>1. CASE Ui(n)
      BY <3>1 DEF Ui, Send, Staged, SendBegins, UserAccepts, UserDeclines, JoinPayload, Spawn, world
    <3>2. CASE Listener(n)
      BY <3>2 DEF Listener, HandleOffer, OfferBusyCheck, PostOffer, AutoAccept, HandleAccept,
         HandleDecline, FinishDeclined, HandleReady, StartOutbound, JoinPayload, Spawn, world
    <3>3. CASE OfferThread(n)
      BY <3>3 DEF OfferThread, Pauses, OfferSent, OfferFails, Rearm, Arm, LeavePoll, Retransmit,
         Resend, ResumeAfterResend, TimeUp, Expire, FinishFailed, world
    <3>4. CASE AcceptThread(n)
      BY <3>4 DEF AcceptThread, SkipCompleted, PauseToAccept, Pauses, AcceptSent, AcceptFails,
         ReadySent, ReadyFails, Prepare, ReceiveFails, FinishReceived, Leave, world
    <3>5. CASE DeclineThread(n) \/ PayloadThread(n)
      BY <3>5 DEF DeclineThread, PayloadThread, Pauses, DeclineSent, PayloadAlone, PayloadMoves, world
    <3> QED  BY <1>2, <3>1, <3>2, <3>3, <3>4, <3>5 DEF Payload
  <2> QED  BY <1>2, <2>1, StationPrompted DEF Prompted
<1>3. ASSUME NEW n \in Node, CableLost(n) PROVE FALSE
  <2>1. losses \in Nat /\ losses' = losses + 1  BY <1>3, BoundsAssumption DEF CableLost, Inv, TypeOK
  <2> QED  BY <2>1
<1>4. ASSUME NEW n \in Node, FinishLost(n) PROVE FALSE
  <2>1. prompt /\ losses = 0 /\ presence[n] = "finish"  BY <1>4 DEF FinishLost, world
  <2> QED  BY <2>1 DEF Prompted, Calm
<1> QED  BY <1>1, <1>2, <1>3, <1>4 DEF Next

\* A station at rest has no thread that holds a staged file.
LEMMA PromptedRests == Prompted => NoTempLeft
<1> SUFFICES ASSUME Prompted, prompt, losses = 0, NEW n \in Node, Alive(n), AtRest(n),
                    NEW s \in temp, from[s] = n
             PROVE  FALSE
  BY DEF NoTempLeft
<1>1. Holds(st[n], Idle, Idle, Quiet, s)
  BY DEF Prompted, Ordered, InOrder, TempHeld, Alive, AtRest
<1> QED
  BY <1>1 DEF Holds, Idle, Quiet, Offers, Releasing, Early, Sending, Waits

\* In a prompt behaviour without a cable loss, the file received in a session is
\* the one offered in it, for every number of sessions and whatever frames are lost
\* or late: no stale ready and no leftover staged_payload_ sends another file.
THEOREM OrchestratorReceivesWhatWasOffered == Spec => []ReceivesWhatWasOffered
<1>1. Prompted => ReceivesWhatWasOffered  BY DEF Prompted, ReceivesWhatWasOffered
<1> QED  BY <1>1, InvInit, InvNext, PromptedInit, PromptedNext, PTL DEF Spec

\* Every path to finish_transfer cleans up: a station at rest has no member of a
\* transfer set and, in a prompt behaviour without a cable loss, no staged file.
THEOREM OrchestratorRestIsClean == Spec => []RestIsClean
<1>1. MembersReset /\ NoTempLeft => RestIsClean  BY DEF RestIsClean
<1> QED
  BY <1>1, InvInit, InvNext, TendedInit, TendedNext, TendedResets, PromptedInit, PromptedNext,
     PromptedRests, PTL DEF Spec

-----------------------------------------------------------------------------
(* Where a session is, for the promises of Handshake: about to be offered  *)
(* by ui, in the hands of the thread that offers it, an invitation on its  *)
(* way in at the other station, or held for sending.                       *)

ToOffer(m, s) == Offers(th[m]["ui"]) /\ th[m]["ui"].s = s
OnOffer(m, s) == pt[m].at \in Offering /\ pt[m].s = s
Inviting(li) == HasOffer(li) \/ li.at \in {"busy_check", "post"}
Invited(m, s) == \/ Inviting(th[m]["listener"]) /\ th[m]["listener"].s = s
                 \/ st[m].pending = s
ToSend(m, s) ==
    \/ st[m].staged = s
    \/ Releasing(th[m]["listener"]) /\ th[m]["listener"].s = s
    \/ pt[m].at \in Sending /\ pt[m].s = s

\* A session only moves along: a step other than send_to_peer brings none up that
\* was not there before.
MovesAlong(m) == \A s \in Session :
    /\ ToOffer(m, s)' => ToOffer(m, s)
    /\ OnOffer(m, s)' => OnOffer(m, s) \/ (ToOffer(m, s) /\ th'[m]["ui"] = Idle)
    /\ ToSend(m, s)' => ToSend(m, s) \/ OnOffer(m, s)
    /\ Invited(m, s)' => Invited(m, s) \/ \E k \in Node : OnOffer(k, s)

\* What of a step decides that: the parts of MovesAlong for what it leaves of station n.
LEMMA AlongByParts ==
    ASSUME NEW n \in Node,
           Offers(th'[n]["ui"]) => Offers(th[n]["ui"]) /\ th'[n]["ui"].s = th[n]["ui"].s,
           pt'[n].at \in Offering =>
              \/ pt[n].at \in Offering /\ pt'[n].s = pt[n].s
              \/ Offers(th[n]["ui"]) /\ pt'[n].s = th[n]["ui"].s /\ th'[n]["ui"] = Idle,
           pt'[n].at \in Sending =>
              \/ pt[n].at \in Sending /\ pt'[n].s = pt[n].s
              \/ Releasing(th[n]["listener"]) /\ pt'[n].s = th[n]["listener"].s,
           Releasing(th'[n]["listener"]) =>
              \/ Releasing(th[n]["listener"]) /\ th'[n]["listener"].s = th[n]["listener"].s
              \/ th'[n]["listener"].s = st[n].staged,
           Inviting(th'[n]["listener"]) =>
              Inviting(th[n]["listener"]) /\ th'[n]["listener"].s = th[n]["listener"].s,
           \/ st'[n].staged \in {st[n].staged, NoSession}
           \/ pt[n].at \in Offering /\ st'[n].staged = pt[n].s,
           \/ st'[n].pending \in {st[n].pending, NoSession}
           \/ th[n]["listener"].at = "post" /\ st'[n].pending = th[n]["listener"].s
    PROVE  MovesAlong(n)
<1>1. 0 \notin Session  BY DEF Session
<1> SUFFICES ASSUME NEW s \in Session
    PROVE  /\ ToOffer(n, s)' => ToOffer(n, s)
           /\ OnOffer(n, s)' => OnOffer(n, s) \/ (ToOffer(n, s) /\ th'[n]["ui"] = Idle)
           /\ ToSend(n, s)' => ToSend(n, s) \/ OnOffer(n, s)
           /\ Invited(n, s)' => Invited(n, s)
  BY DEF MovesAlong
<1>2. ToOffer(n, s)' => ToOffer(n, s)  BY DEF ToOffer
<1>3. OnOffer(n, s)' => OnOffer(n, s) \/ (ToOffer(n, s) /\ th'[n]["ui"] = Idle)  BY DEF OnOffer, ToOffer
<1>4. ToSend(n, s)' => ToSend(n, s) \/ OnOffer(n, s)  BY <1>1 DEF ToSend, OnOffer, NoSession
<1>5. Invited(n, s)' => Invited(n, s)  BY <1>1 DEF Invited, Inviting, NoSession
<1> QED  BY <1>2, <1>3, <1>4, <1>5

\* The steps of ui and of the listener, at their own station.
LEMMA ThreadsMoveAlong ==
    ASSUME Inv, NEW n \in Node, ~Send(n), Ui(n) \/ Listener(n)
    PROVE  MovesAlong(n)
<1> DEFINE r == st[n]
           ui == th[n]["ui"]
           li == th[n]["listener"]
<1>1. /\ st \in [Node -> Members] /\ pt \in [Node -> Errand]
      /\ th \in [Node -> [{"ui", "listener"} -> Control]]
      /\ r \in Members /\ ui \in Control /\ li \in Control
      /\ Roles(r, ui, li, pt[n])
  BY InRoles
<1> USE DEF Offers, Releasing, Inviting, HasOffer, Offering, Sending
<1>2. ASSUME pt'[n] = pt[n], th'[n]["listener"] = li,
             \/ th'[n]["ui"].at \notin {"stage", "join", "begin", "spawn"}
             \/ th'[n]["ui"].flow # "offer"
             \/ Offers(ui) /\ th'[n]["ui"].s = ui.s,
             st'[n].staged = r.staged, st'[n].pending \in {r.pending, NoSession}
      PROVE  MovesAlong(n)
  BY <1>2, AlongByParts
<1>3. ASSUME pt'[n] = pt[n], th'[n]["ui"] = ui,
             \/ th'[n]["listener"].at \in {"idle", "accept", "finish", "start"}
             \/ th'[n]["listener"].at \in {"busy_check", "post"} /\ Inviting(li) /\ th'[n]["listener"].s = li.s
             \/ th'[n]["listener"].at = "join" /\ \/ th'[n]["listener"].flow = "accept"
                                                  \/ th'[n]["listener"].s = r.staged,
             st'[n].staged \in {r.staged, NoSession},
             st'[n].pending \in {r.pending, NoSession} \/ (li.at = "post" /\ st'[n].pending = li.s)
      PROVE  MovesAlong(n)
  BY <1>3, AlongByParts
<1> USE DEF At, Move, Return, Got, Subject
<1>4. CASE Staged(n)  BY <1>1, <1>2, <1>4 DEF Staged, Roles
<1>5. CASE SendBegins(n)  BY <1>1, <1>2, <1>5 DEF SendBegins, Roles
<1>6. CASE UserDeclines(n)
  <2>1. /\ pt' = pt /\ th'[n]["listener"] = li /\ th'[n]["ui"].flow = "decline"
        /\ st'[n].staged = r.staged /\ st'[n].pending = NoSession
    BY <1>1, <1>6 DEF UserDeclines, Members
  <2> QED  BY <1>2, <2>1
<1>7. ASSUME NEW c \in {"ui", "listener"}, AcceptPending(n, c)
      PROVE  /\ st'[n].staged = r.staged /\ st'[n].pending \in {r.pending, NoSession}
             /\ \/ th'[n][c] = Idle
                \/ th'[n][c].at = "join" /\ th'[n][c].flow = "accept"
             /\ \A d \in {"ui", "listener"} : d # c => th'[n][d] = th[n][d]
  <2>1. /\ st' = st \/ st' = [st EXCEPT ![n].pending = NoSession]
           \/ st' = [st EXCEPT ![n].pending = NoSession, ![n].accepting = r.pending]
        /\ \/ th' = [th EXCEPT ![n][c] = Idle]
           \/ th' = [th EXCEPT ![n][c] = [at |-> "join", flow |-> "accept", s |-> r.pending]]
    BY <1>7 DEF AcceptPending
  <2>2. st'[n].staged = r.staged /\ st'[n].pending \in {r.pending, NoSession}
    BY <1>1, <2>1 DEF Members
  <2>3. /\ \/ th'[n][c] = Idle
           \/ th'[n][c].at = "join" /\ th'[n][c].flow = "accept"
        /\ \A d \in {"ui", "listener"} : d # c => th'[n][d] = th[n][d]
    BY <1>1, <2>1
  <2> QED  BY <2>2, <2>3
<1>8. CASE UserAccepts(n)
  <2>1. pt' = pt /\ AcceptPending(n, "ui")  BY <1>8 DEF UserAccepts
  <2> QED  BY <1>2, <1>7, <2>1 DEF Idle
<1>9. CASE AutoAccept(n)
  <2>1. pt' = pt /\ AcceptPending(n, "listener")  BY <1>9 DEF AutoAccept
  <2> QED  BY <1>3, <1>7, <2>1 DEF Idle
<1>10. ASSUME NEW c \in {"ui", "listener"}, JoinPayload(n, c) PROVE MovesAlong(n)
  <2>1. /\ pt' = pt /\ st'[n].staged = r.staged /\ st'[n].pending = r.pending
        /\ \A d \in {"ui", "listener"} : d # c => th'[n][d] = th[n][d]
        /\ th'[n][c].flow = th[n][c].flow /\ th'[n][c].s = th[n][c].s
        /\ th'[n][c].at \in {"begin", "spawn"} /\ th[n][c].at = "join"
        /\ th'[n][c].at = "begin" => th[n][c].flow = "offer"
    BY <1>1, <1>10 DEF JoinPayload, Members, Control
  <2>2. CASE c = "ui"  BY <1>2, <2>1, <2>2
  <2>3. CASE c = "listener"
    BY <1>1, <2>1, <2>3, AlongByParts DEF Roles
  <2> QED  BY <2>2, <2>3
<1>11. ASSUME NEW c \in {"ui", "listener"}, Spawn(n, c)
       PROVE  /\ st'[n].staged = r.staged /\ st'[n].pending = r.pending
              /\ \A d \in {"ui", "listener"} : d # c => th'[n][d] = th[n][d]
              /\ th'[n][c] = Idle /\ th[n][c].at = "spawn"
              /\ pt'[n] = pt[n] \/ (pt'[n].at = th[n][c].flow /\ pt'[n].s = th[n][c].s)
  BY <1>1, <1>11 DEF Spawn, Members
<1>12. CASE Spawn(n, "ui")
  <2>1. /\ st'[n].staged = r.staged /\ st'[n].pending = r.pending
        /\ th'[n]["listener"] = li /\ th'[n]["ui"] = Idle /\ ui.at = "spawn"
        /\ pt'[n] = pt[n] \/ (pt'[n].at = ui.flow /\ pt'[n].s = ui.s)
    BY <1>11, <1>12
  <2> QED  BY <1>1, <2>1, AlongByParts DEF Roles, Idle
<1>13. CASE Spawn(n, "listener")  BY <1>1, <1>11, <1>13, AlongByParts DEF Roles, Idle
<1>14. CASE HandleOffer(n)
  <2>1. /\ st' = st /\ pt' = pt /\ th'[n]["ui"] = ui /\ HasOffer(li)
        /\ \/ th'[n]["listener"] = Idle
           \/ th'[n]["listener"].at = "busy_check" /\ th'[n]["listener"].s = li.s
    BY <1>1, <1>14 DEF HandleOffer, Control
  <2> QED  BY <1>3, <2>1 DEF Idle
<1>15. CASE OfferBusyCheck(n)
  <2>1. /\ st' = st /\ pt' = pt /\ th'[n]["ui"] = ui /\ Inviting(li)
        /\ \/ th'[n]["listener"] = Idle
           \/ th'[n]["listener"].at = "post" /\ th'[n]["listener"].s = li.s
    BY <1>1, <1>15 DEF OfferBusyCheck, Control
  <2> QED  BY <1>3, <2>1 DEF Idle
<1>16. CASE PostOffer(n)
  <2>1. /\ pt' = pt /\ th'[n]["ui"] = ui /\ li.at = "post"
        /\ st'[n].staged = r.staged /\ st'[n].pending = li.s
    BY <1>1, <1>16 DEF PostOffer, Members
  <2>2. th'[n]["listener"].at \in {"idle", "accept"}
    BY <1>1, <1>16 DEF PostOffer, Idle, Control
  <2> QED  BY <1>3, <2>1, <2>2
<1>17. CASE HandleAccept(n) \/ FinishDeclined(n)
  <2>1. /\ pt' = pt /\ th'[n]["ui"] = ui /\ th'[n]["listener"] = Idle
        /\ st'[n].staged \in {r.staged, NoSession} /\ st'[n].pending = r.pending
    BY <1>1, <1>17, FinishedFields DEF HandleAccept, FinishDeclined, Members
  <2> QED  BY <1>3, <2>1 DEF Idle
<1>18. CASE HandleDecline(n)
  <2>1. /\ pt' = pt /\ th'[n]["ui"] = ui
        /\ st'[n].staged \in {r.staged, NoSession} /\ st'[n].pending = r.pending
    BY <1>1, <1>18 DEF HandleDecline, Members
  <2>2. th'[n]["listener"].at \in {"idle", "finish"}
    BY <1>1, <1>18 DEF HandleDecline, Idle, Control
  <2> QED  BY <1>3, <2>1, <2>2
<1>19. CASE HandleReady(n)
  <2>1. /\ pt' = pt /\ th'[n]["ui"] = ui
        /\ st'[n].staged = r.staged /\ st'[n].pending = r.pending
    BY <1>1, <1>19 DEF HandleReady, Members
  <2>2. th'[n]["listener"].at \in {"idle", "start"}
    BY <1>1, <1>19 DEF HandleReady, Idle, Control
  <2> QED  BY <1>3, <2>1, <2>2
<1>20. CASE StartOutbound(n)
  <2>1. /\ pt' = pt /\ th'[n]["ui"] = ui
        /\ st'[n].staged = r.staged /\ st'[n].pending = r.pending
        /\ th'[n]["listener"].at = "join" /\ th'[n]["listener"].s = r.staged
    BY <1>1, <1>20 DEF StartOutbound, Members
  <2> QED  BY <1>3, <2>1
<1> QED
  BY <1>4, <1>5, <1>6, <1>8, <1>9, <1>10, <1>12, <1>13, <1>14, <1>15, <1>16, <1>17, <1>18, <1>19, <1>20
     DEF Ui, Listener

\* The steps of the payload thread, at its own station.
LEMMA PayloadsMoveAlong ==
    ASSUME Inv, NEW n \in Node, Payload(n)
    PROVE  MovesAlong(n)
<1>1. /\ st \in [Node -> Members] /\ pt \in [Node -> Errand]
      /\ th \in [Node -> [{"ui", "listener"} -> Control]]
      /\ 0 \notin Session
  BY InRoles DEF Session
<1>2. Peer(n) \in Node /\ Peer(n) # n  BY PeerOfPeer
<1>3. th'[n] = th[n]
  BY <1>1, <1>2 DEF Payload, OfferThread, AcceptThread, DeclineThread, PayloadThread, Pauses, OfferSent,
     OfferFails, Rearm, Arm, LeavePoll, Retransmit, Resend, ResumeAfterResend, TimeUp, Expire, FinishFailed,
     SkipCompleted, PauseToAccept, AcceptSent, AcceptFails, ReadySent, ReadyFails, Prepare, ReceiveFails,
     FinishReceived, Leave, DeclineSent, PayloadAlone, PayloadMoves, Delivered, Lost
<1>4. ASSUME \/ st'[n].staged \in {st[n].staged, NoSession}
             \/ pt[n].at \in Offering /\ st'[n].staged = pt[n].s,
             st'[n].pending = st[n].pending,
             \/ pt'[n].at \notin Offering \cup Sending
             \/ pt'[n].at \in Offering /\ pt[n].at \in Offering /\ pt'[n].s = pt[n].s
             \/ pt'[n].at \in Sending /\ pt[n].at \in Sending /\ pt'[n].s = pt[n].s
      PROVE  MovesAlong(n)
  BY <1>3, <1>4, AlongByParts DEF Offering, Sending
<1> USE DEF PtAt, PtMove, PtExit, Mine, Quiet, Offering, Sending, Members, Errand
<1>5. CASE Pauses(n, "offer", "send_offer") \/ Rearm(n) \/ Retransmit(n) \/ ResumeAfterResend(n)
  <2>1. st'[n].staged = st[n].staged /\ st'[n].pending = st[n].pending
    BY <1>1, <1>5 DEF Pauses, Rearm, Retransmit, ResumeAfterResend
  <2>2. \/ pt'[n].at \notin Offering \cup Sending
        \/ pt'[n].at \in Offering /\ pt[n].at \in Offering /\ pt'[n].s = pt[n].s
        \/ pt'[n].at \in Sending /\ pt[n].at \in Sending /\ pt'[n].s = pt[n].s
    BY <1>1, <1>5 DEF Pauses, Rearm, Retransmit, ResumeAfterResend
  <2> QED  BY <1>4, <2>1, <2>2
<1>6. CASE Pauses(n, "decline", "send_decline") \/ Pauses(n, "payload", "sending")
  <2>1. st'[n].staged = st[n].staged /\ st'[n].pending = st[n].pending
    BY <1>1, <1>6 DEF Pauses
  <2>2. \/ pt'[n].at \notin Offering \cup Sending
        \/ pt'[n].at \in Offering /\ pt[n].at \in Offering /\ pt'[n].s = pt[n].s
        \/ pt'[n].at \in Sending /\ pt[n].at \in Sending /\ pt'[n].s = pt[n].s
    BY <1>1, <1>6 DEF Pauses
  <2> QED  BY <1>4, <2>1, <2>2
<1>7. CASE OfferSent(n) \/ OfferFails(n) \/ LeavePoll(n) \/ Resend(n) \/ TimeUp(n)
  <2>1. st'[n].staged = st[n].staged /\ st'[n].pending = st[n].pending
    BY <1>1, <1>7 DEF OfferSent, OfferFails, LeavePoll, Resend, TimeUp
  <2>2. \/ pt'[n].at \notin Offering \cup Sending
        \/ pt'[n].at \in Offering /\ pt[n].at \in Offering /\ pt'[n].s = pt[n].s
        \/ pt'[n].at \in Sending /\ pt[n].at \in Sending /\ pt'[n].s = pt[n].s
    BY <1>1, <1>7 DEF OfferSent, OfferFails, LeavePoll, Resend, TimeUp
  <2> QED  BY <1>4, <2>1, <2>2
<1>8. CASE SkipCompleted(n) \/ PauseToAccept(n) \/ AcceptSent(n) \/ AcceptFails(n)
  <2>1. st'[n].staged = st[n].staged /\ st'[n].pending = st[n].pending
    BY <1>1, <1>8 DEF SkipCompleted, PauseToAccept, Pauses, AcceptSent, AcceptFails
  <2>2. \/ pt'[n].at \notin Offering \cup Sending
        \/ pt'[n].at \in Offering /\ pt[n].at \in Offering /\ pt'[n].s = pt[n].s
        \/ pt'[n].at \in Sending /\ pt[n].at \in Sending /\ pt'[n].s = pt[n].s
    BY <1>1, <1>8 DEF SkipCompleted, PauseToAccept, Pauses, AcceptSent, AcceptFails
  <2> QED  BY <1>4, <2>1, <2>2
<1>9. CASE ReadySent(n) \/ Prepare(n) \/ Leave(n) \/ DeclineSent(n)
  <2>1. st'[n].staged = st[n].staged /\ st'[n].pending = st[n].pending
    BY <1>1, <1>9 DEF ReadySent, Prepare, Leave, DeclineSent
  <2>2. \/ pt'[n].at \notin Offering \cup Sending
        \/ pt'[n].at \in Offering /\ pt[n].at \in Offering /\ pt'[n].s = pt[n].s
        \/ pt'[n].at \in Sending /\ pt[n].at \in Sending /\ pt'[n].s = pt[n].s
    BY <1>1, <1>9 DEF ReadySent, Prepare, Leave, DeclineSent
  <2> QED  BY <1>4, <2>1, <2>2
<1>10. CASE Arm(n)  BY <1>1, <1>4, <1>10 DEF Arm
<1>11. CASE Expire(n)  BY <1>1, <1>4, <1>11 DEF Expire
<1>12. CASE \/ FinishFailed(n) \/ ReadyFails(n) \/ ReceiveFails(n) \/ FinishReceived(n)
            \/ PayloadAlone(n) \/ PayloadMoves(n)
  <2>1. PICK how \in {"Sent", "Received", "Failed"} : st' = [st EXCEPT ![n] = Finished(@, how)]
    BY <1>12 DEF FinishFailed, ReadyFails, ReceiveFails, FinishReceived, PayloadAlone, PayloadMoves
  <2>2. st'[n].staged = NoSession /\ st'[n].pending = st[n].pending
    BY <1>1, <2>1, FinishedFields
  <2>3. pt'[n].at \notin Offering \cup Sending
    BY <1>1, <1>2, <1>12
       DEF FinishFailed, ReadyFails, ReceiveFails, FinishReceived, PayloadAlone, PayloadMoves
  <2> QED  BY <1>4, <2>2, <2>3
<1> QED
  BY <1>5, <1>6, <1>7, <1>8, <1>9, <1>10, <1>11, <1>12
     DEF Payload, OfferThread, AcceptThread, DeclineThread, PayloadThread

\* Nor at the other station, where only an offer on its way in is new.
LEMMA OthersMoveAlong ==
    ASSUME Inv, NEW n \in Node, NEW m \in Node, m # n, Elsewhere(n, m)
    PROVE  MovesAlong(m)
<1>1. pt[m] \in Errand /\ th[m]["listener"] \in Control  BY DEF Inv, TypeOK
<1>2. st'[m] = st[m] /\ th'[m]["ui"] = th[m]["ui"]  BY DEF Elsewhere
<1>3. CASE /\ th'[m]["listener"] = th[m]["listener"]
           /\ \/ pt'[m] = pt[m]
              \/ pt[m].at = "receiving" /\ pt'[m] = [pt[m] EXCEPT !.at = "received"]
  BY <1>1, <1>2, <1>3 DEF MovesAlong, ToOffer, OnOffer, Invited, ToSend, Offering, Sending, Errand
<1>4. CASE Reached(n, m)
  <2>1. PICK kind \in {"offer", "accept", "decline", "ready"} :
           /\ pt'[m] = pt[m]
           /\ th'[m]["listener"] = [at |-> "got", flow |-> kind, s |-> pt[n].s]
           /\ kind = "offer" => pt[n].at \in {"send_offer", "resend"}
    BY <1>4 DEF Reached
  <2> QED
    BY <1>2, <2>1 DEF MovesAlong, ToOffer, OnOffer, Invited, Inviting, ToSend, HasOffer, Releasing, Offering
<1> QED  BY <1>3, <1>4 DEF Elsewhere

\* And the end of a transfer whose cable is gone.
LEMMA StepMovesAlong ==
    ASSUME Inv, [Next]_vars, \A n \in Node : ~Send(n), NEW m \in Node
    PROVE  MovesAlong(m)
<1>1. st \in [Node -> Members] /\ pt \in [Node -> Errand]
  BY DEF Inv, TypeOK
<1>2. ASSUME th' = th, pt' = pt,
             st'[m].staged \in {st[m].staged, NoSession}, st'[m].pending = st[m].pending
      PROVE  MovesAlong(m)
  BY <1>2, AlongByParts
<1>3. CASE UNCHANGED vars  BY <1>2, <1>3 DEF vars
<1>4. ASSUME NEW n \in Node, Ui(n) \/ Listener(n) \/ Payload(n) PROVE MovesAlong(m)
  <2>1. CASE m = n  BY <1>4, <2>1, ThreadsMoveAlong, PayloadsMoveAlong
  <2>2. CASE m # n  BY <1>4, <2>2, ThreadsStay, PayloadsReach, OthersMoveAlong
  <2> QED  BY <2>1, <2>2
<1>5. ASSUME NEW n \in Node, CableLost(n) PROVE MovesAlong(m)  BY <1>2, <1>5 DEF CableLost
<1>6. ASSUME NEW n \in Node, FinishLost(n) PROVE MovesAlong(m)
  BY <1>1, <1>2, <1>6, FinishedFields DEF FinishLost
<1> QED  BY <1>3, <1>4, <1>5, <1>6 DEF Next

\* What a station holds for sending is its own, nothing about to be offered is out
\* already, and in calm a session that was received is nowhere offered any more.
Owned == \A n \in Node, s \in Session : ToSend(n, s) => Own(n, s)
Fresh == \A n \in Node, s \in Session : ToOffer(n, s) => ~OnOffer(n, s) /\ ~ToSend(n, s)
Offered(n, s) == ToOffer(n, s) \/ OnOffer(n, s) \/ Invited(n, s)
Closed == prompt /\ losses = 0 =>
    \A x \in received, n \in Node : ~Offered(n, x[1])
Traced == Owned /\ Fresh /\ Closed

LEMMA OffersAreOwn ==
    ASSUME Inv, NEW n \in Node, NEW s
    PROVE  /\ ToOffer(n, s) => Own(n, s)
           /\ OnOffer(n, s) => Own(n, s)
           /\ Invited(n, s) => s = NoSession \/ Foreign(n, s)
<1>1. /\ UiOK(n, th[n]["ui"]) /\ ListenerOK(n, th[n]["listener"])
      /\ PayloadOK(n, pt[n]) /\ PendingOK(n, st[n])
  BY DEF Inv, Followed
<1>2. ToOffer(n, s) => Own(n, s)  BY <1>1 DEF UiOK, ToOffer, Offers
<1>3. OnOffer(n, s) => Own(n, s)  BY <1>1 DEF PayloadOK, OnOffer
<1>4. Invited(n, s) => s = NoSession \/ Foreign(n, s)
  BY <1>1 DEF ListenerOK, PendingOK, Invited, Inviting, HasOffer
<1> QED  BY <1>2, <1>3, <1>4

\* No step but the payload's makes anything received; only send_to_peer makes a
\* session; only the loss of a cable ends the calm.
LEMMA NothingElseDelivers ==
    ASSUME NEW n \in Node, Ui(n) \/ Listener(n) \/ Payload(n), ~PayloadMoves(n)
    PROVE  received' = received
<1>1. CASE Ui(n)
  BY <1>1 DEF Ui, Send, Staged, SendBegins, UserAccepts, UserDeclines, JoinPayload, Spawn, world
<1>2. CASE Listener(n)
  BY <1>2 DEF Listener, HandleOffer, OfferBusyCheck, PostOffer, AutoAccept, HandleAccept,
     HandleDecline, FinishDeclined, HandleReady, StartOutbound, JoinPayload, Spawn, world
<1>3. CASE OfferThread(n)
  BY <1>3 DEF OfferThread, Pauses, OfferSent, OfferFails, Rearm, Arm, LeavePoll, Retransmit,
     Resend, ResumeAfterResend, TimeUp, Expire, FinishFailed, world
<1>4. CASE AcceptThread(n)
  BY <1>4 DEF AcceptThread, SkipCompleted, PauseToAccept, Pauses, AcceptSent, AcceptFails,
     ReadySent, ReadyFails, Prepare, ReceiveFails, FinishReceived, Leave, world
<1>5. CASE DeclineThread(n) \/ PayloadThread(n)
  BY <1>5 DEF DeclineThread, PayloadThread, Pauses, DeclineSent, PayloadAlone, world
<1> QED  BY <1>1, <1>2, <1>3, <1>4, <1>5 DEF Payload

LEMMA SessionsStay ==
    ASSUME NEW n \in Node, Ui(n) \/ Listener(n) \/ Payload(n)
    PROVE  /\ losses' = losses /\ prompt' = prompt
           /\ ~Send(n) => sessions' = sessions /\ from' = from
<1>1. CASE Ui(n)
  BY <1>1 DEF Ui, Send, Staged, SendBegins, UserAccepts, UserDeclines, JoinPayload, Spawn, world
<1>2. CASE Listener(n)
  BY <1>2 DEF Listener, HandleOffer, OfferBusyCheck, PostOffer, AutoAccept, HandleAccept,
     HandleDecline, FinishDeclined, HandleReady, StartOutbound, JoinPayload, Spawn, world
<1>3. CASE OfferThread(n)
  BY <1>3 DEF OfferThread, Pauses, OfferSent, OfferFails, Rearm, Arm, LeavePoll, Retransmit,
     Resend, ResumeAfterResend, TimeUp, Expire, FinishFailed, world
<1>4. CASE AcceptThread(n)
  BY <1>4 DEF AcceptThread, SkipCompleted, PauseToAccept, Pauses, AcceptSent, AcceptFails,
     ReadySent, ReadyFails, Prepare, ReceiveFails, FinishReceived, Leave, world
<1>5. CASE DeclineThread(n) \/ PayloadThread(n)
  BY <1>5 DEF DeclineThread, PayloadThread, Pauses, DeclineSent, PayloadAlone, PayloadMoves, world
<1> QED  BY <1>1, <1>2, <1>3, <1>4, <1>5 DEF Payload

LEMMA TracedInit == Init => Traced
<1> SUFFICES ASSUME Init PROVE Traced  OBVIOUS
<1>1. 0 \notin Session  BY DEF Session
<1>2. ASSUME NEW n \in Node, NEW s \in Session
      PROVE  ~ToOffer(n, s) /\ ~ToSend(n, s)
  BY <1>1, <1>2 DEF Init, Idle, Quiet, ToOffer, ToSend, Offers, Releasing, Sending, NoSession
<1> QED  BY <1>2 DEF Init, Traced, Owned, Fresh, Closed

\* The session that a payload is delivered in is offered nowhere: its receiver can
\* receive in no other, and its sender has it in hand for sending.
LEMMA DeliveryCloses ==
    ASSUME Inv, Traced, Ordered, Matched, NEW n \in Node, PayloadMoves(n),
           NEW s, s = Mine(n), NEW m \in Node
    PROVE  ~Offered(m, s)'
<1> DEFINE p == Peer(n)
<1>1. s = pt[n].s /\ p \in Node /\ p # n /\ (\A k \in Node : k = n \/ k = p) /\ Peer(p) = n
  BY PeerOfPeer DEF Mine
<1>2. /\ ~st[n].terminated /\ pt[n].at = "sending"
      /\ ~st[p].terminated /\ pt[p].at = "receiving"
      /\ s \in Session /\ s # NoSession /\ s \in SessionOr0
  BY <1>1 DEF PayloadMoves, PtAt, Alive, Mine, Inv, TypeOK, Session, SessionOr0, NoSession
<1>3. ToSend(n, s) /\ Own(n, s)  BY <1>1, <1>2 DEF Traced, Owned, ToSend, Sending
<1>4. ~Offered(n, s)
  <2>1. ~ToOffer(n, s)  BY <1>2, <1>3 DEF Traced, Fresh
  <2>2. ~OnOffer(n, s)  BY <1>2 DEF OnOffer, Offering
  <2>3. ~Invited(n, s)  BY <1>1, <1>2, <1>3, OffersAreOwn DEF Own, Foreign
  <2> QED  BY <2>1, <2>2, <2>3 DEF Offered
<1>5. ~Offered(p, s)
  <2>1. ~ToOffer(p, s)  BY <1>1, <1>3, OffersAreOwn DEF Own
  <2>2. ~OnOffer(p, s)  BY <1>2 DEF OnOffer, Offering
  <2>3. Serves(st[p], th[p]["listener"], pt[p], s)
    BY <1>1, <1>2 DEF Matched, Released, Sending
  <2>4. ~Invited(p, s)  BY <1>2, <2>3 DEF Serves, Invited, Inviting
  <2> QED  BY <2>1, <2>2, <2>4 DEF Offered
<1>6. MovesAlong(m)
  <2>1. Payload(n)  BY DEF Payload, PayloadThread
  <2> QED  BY <2>1, PayloadsMoveAlong, PayloadsReach, OthersMoveAlong
<1>7. ~(ToOffer(m, s) \/ OnOffer(m, s) \/ Invited(m, s)) /\ \A k \in Node : ~OnOffer(k, s)
  BY <1>1, <1>4, <1>5 DEF Offered
<1> QED  BY <1>2, <1>6, <1>7 DEF MovesAlong, Offered

LEMMA TracedNext == Inv /\ Inv' /\ Prompted /\ Traced /\ [Next]_vars => Traced'
<1> SUFFICES ASSUME Inv, Inv', Prompted, Traced, [Next]_vars PROVE Traced'  OBVIOUS
<1>1. ASSUME NEW n \in Node, Send(n) PROVE Traced'
  <2>1. sessions \in Nat /\ sessions + 1 \in Session
    BY <1>1, BoundsAssumption DEF Send, Inv, TypeOK, Session, SessionOr0
  <2>2. /\ \A s : Made(s) => s # sessions + 1
        /\ \A m \in Node : \A s : Own(m, s) => Own(m, s)'
    <3>1. \A s : Made(s) => s # sessions + 1 /\ s \in Session
      BY <2>1, BoundsAssumption DEF Made, Session
    <3>2. sessions' = sessions + 1 /\ from' = [from EXCEPT ![sessions + 1] = n]
      BY <1>1 DEF Send
    <3>3. \A s : Made(s) => Made(s)' /\ from'[s] = from[s]
      BY <2>1, <3>1, <3>2 DEF Made, Inv, TypeOK
    <3> QED  BY <3>1, <3>3 DEF Own
  <2>3. ASSUME NEW m \in Node, NEW s \in Session
        PROVE  /\ ToSend(m, s)' <=> ToSend(m, s)
               /\ OnOffer(m, s)' <=> OnOffer(m, s)
               /\ Invited(m, s)' <=> Invited(m, s)
               /\ ToOffer(m, s)' => ToOffer(m, s) \/ s = sessions + 1
    <3>1. /\ st' = st /\ pt' = pt
          /\ th' = [th EXCEPT ![n]["ui"] = [at |-> "stage", flow |-> "offer", s |-> sessions + 1]]
      BY <1>1 DEF Send
    <3>2. /\ th'[m]["listener"] = th[m]["listener"]
          /\ th'[m]["ui"] = th[m]["ui"] \/ th'[m]["ui"].s = sessions + 1
      BY <3>1 DEF Inv, TypeOK
    <3> QED  BY <3>1, <3>2 DEF ToSend, OnOffer, Invited, ToOffer
  <2>4. Owned'  BY <2>2, <2>3 DEF Traced, Owned
  <2>5. Fresh'
    BY <2>2, <2>3, OffersAreOwn DEF Traced, Owned, Fresh, Own
  <2>6. Closed'
    <3> SUFFICES ASSUME prompt', losses' = 0, NEW x \in received', NEW m \in Node
        PROVE  ~Offered(m, x[1])'
      BY DEF Closed
    <3>1. prompt /\ losses = 0 /\ x \in received  BY <1>1 DEF Send
    <3>2. x[1] \in Session /\ Made(x[1])
      BY <3>1 DEF Inv, TypeOK, ReceivedOK, Agreed, Foreign
    <3>3. PICK s \in Session : s = x[1]  BY <3>2
    <3>4. ~Offered(m, s)  BY <3>1, <3>3 DEF Traced, Closed
    <3>5. ~Offered(m, s)'  BY <2>2, <2>3, <3>2, <3>3, <3>4 DEF Offered
    <3> QED  BY <3>3, <3>5
  <2> QED  BY <2>4, <2>5, <2>6 DEF Traced
<1>2. CASE \A n \in Node : ~Send(n)
  <2>1. \A m \in Node : MovesAlong(m)  BY <1>2, StepMovesAlong
  <2>2. sessions' = sessions /\ from' = from
    <3>1. ASSUME NEW n \in Node, CableLost(n) \/ FinishLost(n)
          PROVE  sessions' = sessions /\ from' = from
      BY <3>1 DEF CableLost, FinishLost, world
    <3> QED  BY <1>2, <3>1, SessionsStay DEF Next, vars, world
  <2>3. Owned'
    BY <2>1, <2>2, OffersAreOwn DEF Traced, Owned, MovesAlong, Own, Made
  <2>4. Fresh'
    <3> SUFFICES ASSUME NEW m \in Node, NEW s \in Session, ToOffer(m, s)'
        PROVE  ~OnOffer(m, s)' /\ ~ToSend(m, s)'
      BY DEF Fresh
    <3>1. ToOffer(m, s) /\ th'[m]["ui"] # Idle
      BY <2>1 DEF MovesAlong, ToOffer, Offers, Idle
    <3> QED  BY <2>1, <3>1 DEF MovesAlong, Traced, Fresh
  <2>5. Closed'
    <3> SUFFICES ASSUME prompt', losses' = 0, NEW x \in received', NEW m \in Node
        PROVE  ~Offered(m, x[1])'
      BY DEF Closed
    <3>1. PICK s \in Session : s = x[1]  BY DEF Inv, TypeOK
    <3>2. ASSUME NEW n \in Node, CableLost(n) PROVE FALSE
      <4>1. losses \in Nat /\ losses' = losses + 1
        BY <3>2, BoundsAssumption DEF CableLost, Inv, TypeOK
      <4> QED  BY <4>1
    <3>3. prompt /\ losses = 0
      BY <3>2, SessionsStay DEF Next, vars, world, FinishLost
    <3>4. CASE x \in received
      <4>1. \A k \in Node : ~Offered(k, s)  BY <3>1, <3>3, <3>4 DEF Traced, Closed
      <4>2. ~Offered(m, s)'  BY <2>1, <4>1 DEF MovesAlong, Offered
      <4> QED  BY <3>1, <4>2
    <3>5. CASE x \notin received
      <4>1. ASSUME NEW n \in Node, PayloadMoves(n) PROVE ~Offered(m, x[1])'
        <5>1. Ordered /\ Matched  BY <3>3 DEF Prompted
        <5>2. x = <<Mine(Peer(n)), Mine(n)>>  BY <3>5, <4>1 DEF PayloadMoves
        <5>3. s = Mine(n)  BY <3>1, <4>1, <5>1, <5>2, PayloadIsOffered
        <5>4. ~Offered(m, s)'  BY <4>1, <5>1, <5>3, DeliveryCloses
        <5> QED  BY <3>1, <5>4
      <4> QED
        BY <3>2, <3>5, <4>1, NothingElseDelivers DEF Next, vars, world, FinishLost
    <3> QED  BY <3>4, <3>5
  <2> QED  BY <2>3, <2>4, <2>5 DEF Traced
<1> QED  BY <1>1, <1>2

-----------------------------------------------------------------------------
(* Step by step, what the stations do is what Handshake promises.          *)

AskedKept == \A m \in Node : st'[m].pending = st[m].pending
TakenKept == \A m \in Node : st'[m].accepting = st[m].accepting

\* Whatever else a station does with itself, its users see at most a file given up.
LEMMA QuietSteps ==
    ASSUME AskedKept, TakenKept,
           UNCHANGED <<sessions, from, consented, received, prompt, losses>>,
           temp' = temp \/ \E f : temp' = temp \ {f}
    PROVE  [Promise!Next]_Promise!vars
<1>1. /\ [n \in Node |-> st[n].pending]' = [n \in Node |-> st[n].pending]
      /\ [n \in Node |-> st[n].accepting]' = [n \in Node |-> st[n].accepting]
  BY DEF AskedKept, TakenKept
<1>2. CASE temp' = temp  BY <1>1, <1>2 DEF Promise!vars
<1>3. ASSUME NEW f \in temp, temp' = temp \ {f} PROVE Promise!Next
  <2>1. Promise!GiveUp(f)  BY <1>1, <1>3 DEF Promise!GiveUp
  <2> QED  BY <1>3, <2>1 DEF Promise!Next
<1> QED  BY <1>2, <1>3

\* A station that no longer asks, or no longer takes, a session.
LEMMA DropSteps ==
    ASSUME Inv, NEW n \in Node, AskedKept,
           st'[n].accepting = NoSession, \A m \in Node : m # n => st'[m].accepting = st[m].accepting,
           UNCHANGED <<sessions, from, temp, consented, received, prompt, losses>>
    PROVE  Promise!Next
<1>1. /\ [m \in Node |-> st[m].pending]' = [m \in Node |-> st[m].pending]
      /\ [m \in Node |-> st[m].accepting]' = [[m \in Node |-> st[m].accepting] EXCEPT ![n] = 0]
  BY DEF AskedKept, NoSession
<1>2. Promise!Drop(n)  BY <1>1 DEF Promise!Drop, Promise!None
<1> QED  BY <1>2 DEF Promise!Next

\* What the user is asked about changes at one station only.
LEMMA AskedAt ==
    ASSUME NEW n \in Node, NEW s, st'[n].pending = s, \A m \in Node : m # n => st'[m].pending = st[m].pending
    PROVE  [m \in Node |-> st[m].pending]' = [[m \in Node |-> st[m].pending] EXCEPT ![n] = s]
  OBVIOUS
LEMMA TakenAt ==
    ASSUME NEW n \in Node, NEW s, st'[n].accepting = s,
           \A m \in Node : m # n => st'[m].accepting = st[m].accepting
    PROVE  [m \in Node |-> st[m].accepting]' = [[m \in Node |-> st[m].accepting] EXCEPT ![n] = s]
  OBVIOUS

\* The thread of an offer, and the threads that decline or send a payload.
LEMMA SenderImplements ==
    ASSUME Inv, NEW n \in Node,
           \/ OfferThread(n) \/ DeclineThread(n) \/ Pauses(n, "payload", "sending") \/ PayloadAlone(n)
    PROVE  [Promise!Next]_Promise!vars
<1>1. st \in [Node -> Members]  BY DEF Inv, TypeOK
<1> USE DEF world, AskedKept, TakenKept, Members
<1>2. CASE \/ Pauses(n, "offer", "send_offer") \/ Pauses(n, "decline", "send_decline")
           \/ Pauses(n, "payload", "sending") \/ OfferSent(n) \/ Rearm(n) \/ Arm(n)
  BY <1>1, <1>2, QuietSteps DEF Pauses, OfferSent, Rearm, Arm
<1>3. CASE LeavePoll(n) \/ Retransmit(n) \/ Resend(n) \/ ResumeAfterResend(n) \/ TimeUp(n) \/ DeclineSent(n)
  BY <1>1, <1>3, QuietSteps DEF LeavePoll, Retransmit, Resend, ResumeAfterResend, TimeUp, DeclineSent
<1>4. CASE OfferFails(n) \/ Expire(n)
  <2>1. temp' = temp \ {pt[n].s}  BY <1>4 DEF OfferFails, Expire, RemovesTemp, Mine
  <2>2. AskedKept /\ TakenKept  BY <1>1, <1>4 DEF OfferFails, Expire
  <2>3. UNCHANGED <<sessions, from, consented, received, prompt, losses>>
    BY <1>4 DEF OfferFails, Expire
  <2> QED  BY <2>1, <2>2, <2>3, QuietSteps
<1>5. CASE FinishFailed(n) \/ PayloadAlone(n)
  <2>1. temp' = temp \/ temp' = temp \ {pt[n].s}
    BY <1>5 DEF FinishFailed, PayloadAlone, RemovesTemp, Mine
  <2>2. AskedKept /\ TakenKept  BY <1>1, <1>5, FinishedFields DEF FinishFailed, PayloadAlone
  <2>3. UNCHANGED <<sessions, from, consented, received, prompt, losses>>
    BY <1>5 DEF FinishFailed, PayloadAlone
  <2> QED  BY <2>1, <2>2, <2>3, QuietSteps
<1> QED  BY <1>2, <1>3, <1>4, <1>5 DEF OfferThread, DeclineThread

\* The thread that accepts: it gives up what it has taken.
LEMMA AccepterImplements ==
    ASSUME Inv, NEW n \in Node, AcceptThread(n)
    PROVE  [Promise!Next]_Promise!vars
<1>1. st \in [Node -> Members]  BY DEF Inv, TypeOK
<1> USE DEF world, AskedKept, TakenKept, Members
<1>2. CASE SkipCompleted(n) \/ AcceptFails(n) \/ Leave(n)
  BY <1>1, <1>2, DropSteps DEF SkipCompleted, AcceptFails, Leave
<1>3. CASE PauseToAccept(n) \/ AcceptSent(n) \/ ReadySent(n) \/ Prepare(n)
  BY <1>1, <1>3, QuietSteps DEF PauseToAccept, Pauses, AcceptSent, ReadySent, Prepare
<1>4. CASE ReadyFails(n) \/ ReceiveFails(n) \/ FinishReceived(n)
  BY <1>1, <1>4, QuietSteps, FinishedFields DEF ReadyFails, ReceiveFails, FinishReceived
<1> QED  BY <1>2, <1>3, <1>4 DEF AcceptThread

\* The payload: it arrives in the session its receiver was permitted to receive in.
LEMMA PayloadImplements ==
    ASSUME Inv, Prompted, Traced, NEW n \in Node, PayloadMoves(n)
    PROVE  Promise!Next
<1> DEFINE p == Peer(n)
           s == pt[p].s
           f == pt[n].s
<1>1. p \in Node /\ p # n /\ Peer(p) = n  BY PeerOfPeer
<1>2. /\ pt[n].at = "sending" /\ pt[p].at = "receiving" /\ f \in temp /\ ~st[p].terminated
      /\ received' = received \cup {<<s, f>>} /\ temp' = temp \ {f}
      /\ UNCHANGED <<sessions, from, consented, prompt, losses>>
  BY DEF PayloadMoves, PtAt, Mine, RemovesTemp, Alive
<1>3. Agreed(p, s)  BY <1>1, <1>2 DEF Inv, Followed, PayloadOK, Accepting
<1>4. Own(n, f)  BY <1>2 DEF Traced, Owned, ToSend, Sending, Inv, TypeOK
<1>5. ASSUME prompt, losses = 0 PROVE f = s /\ st[p].accepting = s
  <2>1. Ordered /\ Matched  BY <1>5 DEF Prompted
  <2>2. s = f  BY <2>1, PayloadIsOffered DEF Mine
  <2>3. st[p].accepting = s  BY <1>1, <1>2, <2>1 DEF Ordered, InOrder, Incoming, Accepting
  <2> QED  BY <2>2, <2>3
<1>6. AskedKept /\ TakenKept
  BY FinishedFields DEF PayloadMoves, AskedKept, TakenKept, Inv, TypeOK, Members
<1>7. /\ [m \in Node |-> st[m].pending]' = [m \in Node |-> st[m].pending]
      /\ [m \in Node |-> st[m].accepting]' = [m \in Node |-> st[m].accepting]
  BY <1>6 DEF AskedKept, TakenKept
<1>8. s \in 1..sessions /\ f \in 1..sessions /\ from[s] # p /\ from[f] # p
      /\ (p \in AskFirst => s \in consented)
  BY <1>1, <1>3, <1>4 DEF Agreed, Foreign, Own, Made
<1>9. [m \in Node |-> st[m].accepting][p] = st[p].accepting  BY <1>1
<1> HIDE DEF p, s, f
<1>10. Promise!Deliver(p, s, f)
  BY <1>2, <1>5, <1>7, <1>8, <1>9 DEF Promise!Deliver, Promise!FromAnother, Promise!Permitted
<1> QED  BY <1>1, <1>8, <1>10 DEF Promise!Next

\* In calm a session that somebody still invites to is not over, and a station that
\* has an offer pending, or is about to post one, has taken up nothing.
LEMMA CalmInvitation ==
    ASSUME Inv, Prompted, Traced, prompt, losses = 0, NEW n \in Node, ~st[n].terminated
    PROVE  /\ \A s : Invited(n, s) => ~Promise!Over(s)
           /\ st[n].pending # NoSession => st[n].accepting = NoSession
           /\ th[n]["listener"].at = "post" => st[n].accepting = NoSession
<1>1. \A s : Invited(n, s) => ~Promise!Over(s)
  BY DEF Traced, Closed, Offered, Promise!Over
<1>2. Incoming(st[n], th[n]["ui"], th[n]["listener"], pt[n])
  BY DEF Prompted, Ordered, InOrder
<1> QED  BY <1>1, <1>2 DEF Incoming

\* accept_pending_offer.
LEMMA TakeUpImplements ==
    ASSUME Inv, Prompted, Traced, NEW n \in Node, NEW c \in {"ui", "listener"},
           ~st[n].terminated, AcceptPending(n, c),
           \/ consented' = consented /\ n \notin AskFirst
           \/ consented' = consented \cup {st[n].pending} /\ st[n].pending # NoSession,
           UNCHANGED <<sessions, from, temp, received, prompt, losses>>
    PROVE  [Promise!Next]_Promise!vars
<1> DEFINE s == st[n].pending
           asked == [m \in Node |-> st[m].pending]
           taking == [m \in Node |-> st[m].accepting]
<1>1. st \in [Node -> Members] /\ st[n] \in Members  BY DEF Inv, TypeOK
<1>2. asked[n] = s /\ taking[n] = st[n].accepting  OBVIOUS
<1>3. CASE AskedKept /\ TakenKept
  <2>1. asked' = asked /\ taking' = taking  BY <1>3 DEF AskedKept, TakenKept
  <2>2. CASE consented' = consented  BY <1>3, <2>2, QuietSteps
  <2>3. CASE consented' = consented \cup {s} /\ s # NoSession
    <3>1. Promise!Agree(n)  BY <1>2, <2>1, <2>3 DEF Promise!Agree, Promise!None, NoSession
    <3> QED  BY <3>1 DEF Promise!Next
  <2> QED  BY <2>2, <2>3
<1>4. CASE st' = [st EXCEPT ![n].pending = NoSession]
  <2>1. st'[n].pending = NoSession /\ (\A m \in Node : m # n => st'[m].pending = st[m].pending)
        /\ TakenKept
    BY <1>1, <1>4 DEF Members, TakenKept
  <2>2. asked' = [asked EXCEPT ![n] = 0] /\ taking' = taking
    BY <2>1, AskedAt DEF NoSession, TakenKept
  <2>3. CASE consented' = consented
    <3>1. Promise!Dismiss(n)  BY <2>2, <2>3 DEF Promise!Dismiss, Promise!None
    <3> QED  BY <3>1 DEF Promise!Next
  <2>4. CASE consented' = consented \cup {s} /\ s # NoSession
    <3>1. Promise!Agree(n)  BY <1>2, <2>2, <2>4 DEF Promise!Agree, Promise!None, NoSession
    <3> QED  BY <3>1 DEF Promise!Next
  <2> QED  BY <2>3, <2>4
<1>5. CASE s # NoSession /\ st' = [st EXCEPT ![n].pending = NoSession, ![n].accepting = s]
  <2>1. /\ st'[n].pending = NoSession /\ st'[n].accepting = s
        /\ \A m \in Node : m # n => st'[m].pending = st[m].pending /\ st'[m].accepting = st[m].accepting
    BY <1>1, <1>5 DEF Members
  <2>2. asked' = [asked EXCEPT ![n] = 0]  BY <2>1, AskedAt DEF NoSession
  <2>3. taking' = [taking EXCEPT ![n] = s]  BY <2>1, TakenAt
  <2>4. prompt /\ losses = 0 => st[n].accepting = NoSession /\ ~Promise!Over(s)
    BY <1>5, CalmInvitation DEF Invited
  <2>5. Promise!TakeUp(n)
    BY <1>2, <1>5, <2>2, <2>3, <2>4 DEF Promise!TakeUp, Promise!None, NoSession
  <2> QED  BY <2>5 DEF Promise!Next
<1>6. \/ st' = st \/ st' = [st EXCEPT ![n].pending = NoSession]
      \/ s # NoSession /\ st' = [st EXCEPT ![n].pending = NoSession, ![n].accepting = s]
  BY DEF AcceptPending
<1> QED  BY <1>3, <1>4, <1>5, <1>6 DEF AskedKept, TakenKept

\* The user, and the ui thread.
LEMMA UiImplements ==
    ASSUME Inv, Prompted, Traced, NEW n \in Node, Ui(n)
    PROVE  [Promise!Next]_Promise!vars
<1>1. st \in [Node -> Members]  BY DEF Inv, TypeOK
<1>2. CASE Send(n)
  <2>1. Promise!Offer(n)  BY <1>2 DEF Send, Promise!Offer
  <2> QED  BY <2>1 DEF Promise!Next
<1>3. CASE Staged(n) \/ SendBegins(n) \/ JoinPayload(n, "ui") \/ Spawn(n, "ui")
  <2>1. AskedKept /\ TakenKept
    BY <1>1, <1>3 DEF Staged, SendBegins, JoinPayload, Spawn, AskedKept, TakenKept, Members
  <2> QED  BY <1>3, <2>1, QuietSteps DEF Staged, SendBegins, JoinPayload, Spawn, world
<1>4. CASE UserAccepts(n)
  BY <1>4, TakeUpImplements DEF UserAccepts, At, Alive
<1>5. CASE UserDeclines(n)
  <2>1. /\ st'[n].pending = NoSession /\ (\A m \in Node : m # n => st'[m].pending = st[m].pending)
        /\ TakenKept
    BY <1>1, <1>5 DEF UserDeclines, Members, TakenKept
  <2>2. /\ [m \in Node |-> st[m].pending]' = [[m \in Node |-> st[m].pending] EXCEPT ![n] = 0]
        /\ [m \in Node |-> st[m].accepting]' = [m \in Node |-> st[m].accepting]
    BY <2>1, AskedAt DEF NoSession, TakenKept
  <2>3. Promise!Dismiss(n)
    BY <1>5, <2>2 DEF UserDeclines, world, Promise!Dismiss, Promise!None
  <2> QED  BY <2>3 DEF Promise!Next
<1> QED  BY <1>2, <1>3, <1>4, <1>5 DEF Ui

\* The listener: an offer that it posts is the other station's, and in calm open.
LEMMA ListenerImplements ==
    ASSUME Inv, Prompted, Traced, NEW n \in Node, Listener(n)
    PROVE  [Promise!Next]_Promise!vars
<1>1. st \in [Node -> Members] /\ ListenerOK(n, th[n]["listener"])
  BY DEF Inv, TypeOK, Followed
<1>2. CASE HandleOffer(n) \/ OfferBusyCheck(n) \/ HandleAccept(n) \/ HandleReady(n) \/ StartOutbound(n)
  <2>1. AskedKept /\ TakenKept
    BY <1>1, <1>2 DEF HandleOffer, OfferBusyCheck, HandleAccept, HandleReady, StartOutbound,
       AskedKept, TakenKept, Members
  <2> QED
    BY <1>2, <2>1, QuietSteps
       DEF HandleOffer, OfferBusyCheck, HandleAccept, HandleReady, StartOutbound, world
<1>3. CASE JoinPayload(n, "listener") \/ Spawn(n, "listener")
  <2>1. AskedKept /\ TakenKept
    BY <1>1, <1>3 DEF JoinPayload, Spawn, AskedKept, TakenKept, Members
  <2> QED  BY <1>3, <2>1, QuietSteps DEF JoinPayload, Spawn, world
<1>4. CASE HandleDecline(n)
  <2>1. AskedKept /\ TakenKept
    BY <1>1, <1>4 DEF HandleDecline, AskedKept, TakenKept, Members
  <2>2. temp' = temp \/ temp' = temp \ {st[n].staged}  BY <1>4 DEF HandleDecline
  <2> QED  BY <1>4, <2>1, <2>2, QuietSteps DEF HandleDecline
<1>5. CASE FinishDeclined(n)
  <2>1. AskedKept /\ TakenKept
    BY <1>1, <1>5, FinishedFields DEF FinishDeclined, AskedKept, TakenKept
  <2> QED  BY <1>5, <2>1, QuietSteps DEF FinishDeclined, world
<1>6. CASE PostOffer(n)
  <2> DEFINE taking == [m \in Node |-> st[m].accepting]
  <2>1. ~st[n].terminated /\ th[n]["listener"].at = "post" /\ UNCHANGED <<world, pt>>
    BY <1>6 DEF PostOffer, At, Alive
  <2>2. PICK s \in 1..sessions : s = th[n]["listener"].s /\ from[s] # n
    BY <1>1, <2>1, PeerOfPeer DEF ListenerOK, Foreign, Made
  <2>3. /\ st'[n].pending = s /\ (\A m \in Node : m # n => st'[m].pending = st[m].pending)
        /\ TakenKept
    BY <1>1, <1>6, <2>2 DEF PostOffer, Subject, Members, TakenKept
  <2>4. /\ [m \in Node |-> st[m].pending]' = [[m \in Node |-> st[m].pending] EXCEPT ![n] = s]
        /\ taking' = taking /\ taking[n] = st[n].accepting
    BY <2>3, AskedAt DEF TakenKept
  <2>5. prompt /\ losses = 0 => st[n].accepting = 0 /\ ~Promise!Over(s)
    BY <2>1, <2>2, CalmInvitation DEF Invited, Inviting, NoSession
  <2> HIDE DEF taking
  <2>6. Promise!Ask(n, s)
    BY <2>1, <2>2, <2>4, <2>5 DEF world, taking, Promise!Ask, Promise!FromAnother, Promise!None
  <2> QED  BY <2>6 DEF Promise!Next
<1>7. CASE AutoAccept(n)
  <2>1. n \notin AskFirst /\ ~st[n].terminated
    BY <1>1, <1>7 DEF AutoAccept, At, Alive, ListenerOK
  <2> QED  BY <1>7, <2>1, TakeUpImplements DEF AutoAccept, world
<1> QED  BY <1>2, <1>3, <1>4, <1>5, <1>6, <1>7 DEF Listener

\* A lost cable ends the calm.
LEMMA PresenceImplements ==
    ASSUME Inv, NEW n \in Node, CableLost(n) \/ FinishLost(n)
    PROVE  [Promise!Next]_Promise!vars
<1>1. st \in [Node -> Members]  BY DEF Inv, TypeOK
<1>2. CASE CableLost(n)
  <2>1. losses \in Nat /\ losses' = losses + 1
    BY <1>2, BoundsAssumption DEF CableLost, Inv, TypeOK
  <2>2. (prompt /\ losses = 0)' = FALSE  BY <2>1
  <2>3. Promise!Disturb  BY <1>2, <2>2 DEF CableLost, Promise!Disturb
  <2> QED  BY <2>3 DEF Promise!Next
<1>3. CASE FinishLost(n)
  <2>1. AskedKept /\ TakenKept
    BY <1>1, <1>3, FinishedFields DEF FinishLost, AskedKept, TakenKept
  <2> QED  BY <1>3, <2>1, QuietSteps DEF FinishLost, world
<1> QED  BY <1>2, <1>3

LEMMA StepImplements == Inv /\ Prompted /\ Traced /\ [Next]_vars => [Promise!Next]_Promise!vars
<1> SUFFICES ASSUME Inv, Prompted, Traced, [Next]_vars PROVE [Promise!Next]_Promise!vars  OBVIOUS
<1>1. CASE UNCHANGED vars  BY <1>1 DEF vars, world, Promise!vars
<1>2. ASSUME NEW n \in Node, Payload(n) PROVE [Promise!Next]_Promise!vars
  BY <1>2, SenderImplements, AccepterImplements, PayloadImplements DEF Payload, PayloadThread
<1> QED
  BY <1>1, <1>2, UiImplements, ListenerImplements, PresenceImplements DEF Next

\* The two stations keep what Handshake promises their users, for every number of
\* sessions and cable losses, whatever frames are lost or late.
THEOREM OrchestratorImplementsHandshake == Spec => ImplementsHandshake
<1>1. Init => Promise!Init
  <2> SUFFICES ASSUME Init PROVE Promise!Init  OBVIOUS
  <2>1. from \in [1..MaxSessions -> Node]  BY InvInit DEF Inv, TypeOK, Session
  <2>2. /\ [n \in Node |-> st[n].pending] = [n \in Node |-> 0]
        /\ [n \in Node |-> st[n].accepting] = [n \in Node |-> 0]
    BY DEF Init, NoSession
  <2> QED  BY <2>1, <2>2 DEF Init, Promise!Init, Promise!None
<1> QED
  BY <1>1, InvInit, InvNext, PromptedInit, PromptedNext, TracedInit, TracedNext, StepImplements, PTL
     DEF Spec, ImplementsHandshake, Promise!Spec
=============================================================================
