---------------------------- MODULE Orchestrator ----------------------------
(***************************************************************************)
(* TransferOrchestrator (lib/session/transfer_orchestrator.cpp) and the    *)
(* SessionListener it drives, on two stations joined by a fabric that does *)
(* not buffer: the handshake offer -> accept -> ready -> payload.          *)
(*                                                                         *)
(* Each station runs four threads over one orchestrator object:            *)
(*   "ui"        calls send_to_peer, accept_ and decline_pending_offer;    *)
(*   "listener"  receives one session message at a time and handles it;    *)
(*   presence    notices a lost cable and finishes the running transfer;   *)
(*   payload     the thread object payload_thread_, joined and assigned by *)
(*               both ui and listener.                                     *)
(* state_mutex_ makes single steps atomic, not whole operations: every     *)
(* place where the code drops the lock is a boundary between two actions.  *)
(* A session is the number of the send_to_peer call that made it, and also *)
(* stands for the temp file staged for it.                                 *)
(***************************************************************************)
EXTENDS Naturals

CONSTANTS
    Node,           \* the two stations
    AskFirst,       \* stations whose receive_status is AskFirst; the rest are Open
    MaxSessions,    \* bound: send_to_peer calls in a behaviour
    MaxLosses,      \* bound: cable losses in a behaviour
    MaxEvents       \* bound: the two together, where the behaviour is not prompt

ASSUME StationsAssumption == /\ \E x, y \in Node : x # y /\ Node = {x, y}
                             /\ AskFirst \subseteq Node
ASSUME BoundsAssumption == MaxSessions \in Nat /\ MaxLosses \in Nat /\ MaxEvents \in Nat

VARIABLES
    st,         \* the members state_mutex_ guards, per station
    th,         \* control of the threads "ui" and "listener", per station
    pt,         \* control of payload_thread_, per station
    presence,   \* control of the presence thread, per station
    sessions,   \* sessions made so far
    from,       \* the station that made each session
    temp,       \* sessions whose staged temp file exists
    losses,     \* cable losses so far
    consented,  \* sessions a user accepted in the dialog
    prompt,     \* whether this behaviour runs between sleeps and I/O in no time
    received    \* <<s, f>>: session s was received, with the file staged for f

world == <<sessions, from, temp, losses, consented, received, prompt>>
vars  == <<st, th, pt, presence, world>>

NoSession == 0
Session == 1..MaxSessions
SessionOr0 == 0..MaxSessions
Peer(n) == CHOOSE m \in Node : m # n

Idle == [at |-> "idle", flow |-> "none", s |-> NoSession]
Quiet == [at |-> "none", s |-> NoSession, resent |-> FALSE]

Init == /\ st = [n \in Node |->
                   [busy |-> FALSE, waiting |-> FALSE, offer |-> NoSession,
                    staged |-> NoSession, awaiting |-> FALSE, pending |-> NoSession,
                    accepting |-> NoSession, completed |-> NoSession,
                    paused |-> FALSE, joinable |-> FALSE, terminated |-> FALSE]]
        /\ th = [n \in Node |-> [c \in {"ui", "listener"} |-> Idle]]
        /\ pt = [n \in Node |-> Quiet]
        /\ presence = [n \in Node |-> "idle"]
        /\ sessions = 0 /\ from = [s \in Session |-> CHOOSE n \in Node : TRUE]
        /\ temp = {} /\ losses = 0 /\ consented = {} /\ received = {}
        /\ prompt \in BOOLEAN

Alive(n) == ~st[n].terminated

IsBusyMember(n) == st[n].busy
IsBusy(n) == st[n].busy \/ st[n].accepting # NoSession

\* finish_transfer on the members r of a station, with resume() of the listener.
\* "Sent", "Received" and "Failed" are its three outcomes; only one matters here.
FinishKeepsPause(r, how) ==
    [r EXCEPT !.offer = NoSession, !.staged = NoSession, !.awaiting = FALSE,
              !.busy = FALSE, !.waiting = FALSE,
              !.completed = IF how = "Received" /\ r.accepting # NoSession
                            THEN r.accepting ELSE @]
Finished(r, how) ==
    [r EXCEPT !.offer = NoSession, !.staged = NoSession, !.awaiting = FALSE,
              !.busy = FALSE, !.waiting = FALSE,
              !.completed = IF how = "Received" /\ r.accepting # NoSession
                            THEN r.accepting ELSE @,
              !.paused = FALSE]

\* n is between two sleeps or USB calls: some thread of n has code to run now.
\* (The retiring poll loop and the wait for payload_thread_ are sleeps.)
Running(n) ==
    \/ \E c \in {"ui", "listener"} :
          /\ th[n][c].at \notin {"idle", "stage"}
          /\ th[n][c].at = "join" /\ st[n].joinable => pt[n].at = "none"
    \/ pt[n].at \in {"arm", "expire", "failed", "prepare", "leave"}
    \/ presence[n] = "finish"

\* The bound on what the environment still does: send_to_peer calls, cable losses.
MoreToCome == prompt \/ sessions + losses < MaxEvents

\* Guard of the steps that end a sleep or a USB call, or begin with the user.
Slow(n) == prompt => ~Running(n)

At(n, c, l) == Alive(n) /\ th[n][c].at = l
Move(n, c, l) == th' = [th EXCEPT ![n][c].at = l]
Return(n, c) == th' = [th EXCEPT ![n][c] = Idle]

-----------------------------------------------------------------------------
(* Steps ui and listener share: join payload_thread_, then assign to it.   *)

JoinsAtOnce(n) == TRUE
Joined(n) == st[n].joinable => pt[n].at = "none"

JoinPayload(n, c) ==
    /\ At(n, c, "join") /\ Joined(n)
    /\ st' = [st EXCEPT ![n].joinable = FALSE]
    /\ Move(n, c, IF th[n][c].flow = "offer" THEN "begin" ELSE "spawn")
    /\ UNCHANGED <<pt, presence, world>>

\* Assigning to a std::thread that is joinable calls std::terminate.
Spawn(n, c) ==
    /\ At(n, c, "spawn")
    /\ IF st[n].joinable
       THEN st' = [st EXCEPT ![n].terminated = TRUE] /\ UNCHANGED pt
       ELSE /\ st' = [st EXCEPT ![n].joinable = TRUE]
            /\ pt' = [pt EXCEPT ![n] = [at |-> th[n][c].flow, s |-> th[n][c].s,
                                        resent |-> FALSE]]
    /\ Return(n, c)
    /\ UNCHANGED <<presence, world>>

IsDuplicate(r, s) == r.accepting = s \/ r.completed = s

\* accept_pending_offer up to the join.
AcceptPending(n, c) ==
    LET s == st[n].pending IN
    IF s = NoSession \/ st[n].accepting = s
    THEN Return(n, c) /\ UNCHANGED st
    ELSE IF st[n].completed = s
    THEN Return(n, c) /\ st' = [st EXCEPT ![n].pending = NoSession]
    ELSE /\ st' = [st EXCEPT ![n].pending = NoSession, ![n].accepting = s]
         /\ th' = [th EXCEPT ![n][c] = [at |-> "join", flow |-> "accept", s |-> s]]

-----------------------------------------------------------------------------
(* The user.                                                               *)

\* send_to_peer: the busy check, then staging the files (a directory is packed
\* into a temp tar, which takes its time).
Send(n) ==
    /\ Slow(n) /\ At(n, "ui", "idle") /\ ~IsBusy(n)
    /\ prompt => st[n].pending = NoSession      \* the dialog is up, and modal
    /\ sessions < MaxSessions /\ MoreToCome
    /\ sessions' = sessions + 1
    /\ from' = [from EXCEPT ![sessions + 1] = n]
    /\ temp' = temp \cup {sessions + 1}
    /\ th' = [th EXCEPT ![n]["ui"] = [at |-> "stage", flow |-> "offer", s |-> sessions + 1]]
    /\ UNCHANGED <<st, pt, presence, losses, consented, received, prompt>>

Staged(n) ==
    /\ At(n, "ui", "stage") /\ Slow(n)
    /\ Move(n, "ui", "join")
    /\ UNCHANGED <<st, pt, presence, world>>

SendBegins(n) ==
    /\ At(n, "ui", "begin")
    /\ st' = [st EXCEPT ![n].busy = TRUE, ![n].waiting = TRUE]
    /\ Move(n, "ui", "spawn")
    /\ UNCHANGED <<pt, presence, world>>

UserAccepts(n) ==
    /\ Slow(n) /\ At(n, "ui", "idle") /\ n \in AskFirst /\ st[n].pending # NoSession
    /\ AcceptPending(n, "ui")
    /\ consented' = consented \cup {st[n].pending}
    /\ UNCHANGED <<pt, presence, sessions, from, temp, losses, received, prompt>>

UserDeclines(n) ==
    /\ Slow(n) /\ At(n, "ui", "idle") /\ n \in AskFirst /\ st[n].pending # NoSession
    /\ st' = [st EXCEPT ![n].pending = NoSession]
    /\ th' = [th EXCEPT ![n]["ui"] =
                 [at |-> "join", flow |-> "decline", s |-> st[n].pending]]
    /\ UNCHANGED <<pt, presence, world>>

Ui(n) == \/ Send(n) \/ Staged(n) \/ SendBegins(n) \/ UserAccepts(n) \/ UserDeclines(n)
         \/ JoinPayload(n, "ui") \/ Spawn(n, "ui")

-----------------------------------------------------------------------------
(* The listener thread handles the message it received.                    *)

Got(n, kind) == At(n, "listener", "got") /\ th[n]["listener"].flow = kind
Subject(n) == th[n]["listener"].s

HandleOffer(n) ==
    /\ Got(n, "offer")
    /\ IF IsDuplicate(st[n], Subject(n)) \/ st[n].pending = Subject(n)
       THEN Return(n, "listener") ELSE Move(n, "listener", "busy_check")
    /\ UNCHANGED <<st, pt, presence, world>>

OfferBusyCheck(n) ==
    /\ At(n, "listener", "busy_check")
    /\ IF IsBusy(n) THEN Return(n, "listener") ELSE Move(n, "listener", "post")
    /\ UNCHANGED <<st, pt, presence, world>>

AlwaysOpen(n) == TRUE
AutoAccepts(n) == n \notin AskFirst

\* AskFirst opens the dialog; Open goes on to accept_pending_offer at once.
PostOffer(n) ==
    /\ At(n, "listener", "post")
    /\ st' = [st EXCEPT ![n].pending = Subject(n)]
    /\ IF AutoAccepts(n) THEN Move(n, "listener", "accept") ELSE Return(n, "listener")
    /\ UNCHANGED <<pt, presence, world>>

AutoAccept(n) ==
    /\ At(n, "listener", "accept")
    /\ AcceptPending(n, "listener")
    /\ UNCHANGED <<pt, presence, world>>

AnySession(n, s) == st[n].offer # NoSession
IsForOutbound(n, s) == st[n].offer # NoSession /\ st[n].offer = s

HandleAccept(n) ==
    /\ Got(n, "accept")
    /\ st' = IF IsForOutbound(n, Subject(n))
             THEN [st EXCEPT ![n].waiting = TRUE, ![n].awaiting = TRUE] ELSE st
    /\ Return(n, "listener")
    /\ UNCHANGED <<pt, presence, world>>

HandleDecline(n) ==
    /\ Got(n, "decline")
    /\ IF IsForOutbound(n, Subject(n))
       THEN /\ st' = [st EXCEPT ![n].offer = NoSession, ![n].staged = NoSession,
                                ![n].awaiting = FALSE]
            /\ temp' = temp \ {st[n].staged}
            /\ Move(n, "listener", "finish")
       ELSE Return(n, "listener") /\ UNCHANGED <<st, temp>>
    /\ UNCHANGED <<pt, presence, sessions, from, losses, consented, received, prompt>>

FinishDeclined(n) ==
    /\ At(n, "listener", "finish")
    /\ st' = [st EXCEPT ![n] = Finished(@, "Failed")]
    /\ Return(n, "listener")
    /\ UNCHANGED <<pt, presence, world>>

\* ready implies accept.
HandleReady(n) ==
    /\ Got(n, "ready")
    /\ IF IsForOutbound(n, Subject(n))
       THEN st' = [st EXCEPT ![n].awaiting = TRUE] /\ Move(n, "listener", "start")
       ELSE UNCHANGED st /\ Return(n, "listener")
    /\ UNCHANGED <<pt, presence, world>>

\* start_outbound_payload: pause the listener, copy staged_payload_, tell the
\* waiting payload thread to leave, join it.
StartOutbound(n) ==
    /\ At(n, "listener", "start")
    /\ st' = [st EXCEPT ![n].paused = TRUE, ![n].waiting = FALSE]
    /\ th' = [th EXCEPT ![n]["listener"] =
                 [at |-> "join", flow |-> "payload", s |-> st[n].staged]]
    /\ UNCHANGED <<pt, presence, world>>

Listener(n) == \/ HandleOffer(n) \/ OfferBusyCheck(n) \/ PostOffer(n) \/ AutoAccept(n)
               \/ HandleAccept(n) \/ HandleDecline(n) \/ FinishDeclined(n)
               \/ HandleReady(n) \/ StartOutbound(n)
               \/ JoinPayload(n, "listener") \/ Spawn(n, "listener")

-----------------------------------------------------------------------------
(* The fabric.  A session frame reaches the peer only while the peer's     *)
(* listener is in its IN poll; otherwise the send fails, or is lost.       *)

UsesUsb(n) == pt[n].at \in {"sending", "receiving"}
Polling(n) == /\ At(n, "listener", "idle") /\ ~st[n].paused /\ ~UsesUsb(n)

\* The outcomes of send_session_message(kind, s) by station n.
Delivered(n, kind, s) ==
    /\ Slow(Peer(n)) /\ Polling(Peer(n))
    /\ th' = [th EXCEPT ![Peer(n)]["listener"] = [at |-> "got", flow |-> kind, s |-> s]]
Lost == UNCHANGED th

-----------------------------------------------------------------------------
(* payload_thread_.                                                        *)

PtAt(n, l) == Alive(n) /\ pt[n].at = l
PtMove(n, l) == pt' = [pt EXCEPT ![n].at = l]
PtExit(n) == pt' = [pt EXCEPT ![n] = Quiet]
Mine(n) == pt[n].s

\* ListenerPauseGuard, and the 50 ms before the frame goes out.
Pauses(n, here, there) ==
    /\ PtAt(n, here)
    /\ st' = [st EXCEPT ![n].paused = TRUE]
    /\ PtMove(n, there)
    /\ UNCHANGED <<th, presence, world>>

\* The payload thread has removed its claims and reports a failure.
FinishFailed(n) ==
    /\ PtAt(n, "failed")
    /\ st' = [st EXCEPT ![n] = Finished(@, "Failed")]
    /\ PtExit(n)
    /\ UNCHANGED <<th, presence, world>>

OfferSent(n) ==
    /\ Slow(n) /\ PtAt(n, "send_offer")
    /\ Delivered(n, "offer", Mine(n)) \/ Lost
    /\ PtMove(n, "gap")
    /\ UNCHANGED <<st, presence, world>>

OfferFails(n) ==
    /\ Slow(n) /\ PtAt(n, "send_offer")
    /\ temp' = temp \ {Mine(n)}
    /\ PtMove(n, "failed")
    /\ UNCHANGED <<st, th, presence, sessions, from, losses, consented, received, prompt>>

\* The guard is released after the grace gap; only then are the members set.
Rearm(n) ==
    /\ Slow(n) /\ PtAt(n, "gap")
    /\ st' = [st EXCEPT ![n].paused = FALSE]
    /\ PtMove(n, "arm")
    /\ UNCHANGED <<th, presence, world>>

Arm(n) ==
    /\ PtAt(n, "arm")
    /\ st' = [st EXCEPT ![n].staged = Mine(n), ![n].offer = Mine(n),
                        ![n].awaiting = FALSE, ![n].waiting = TRUE]
    /\ PtMove(n, "poll")
    /\ UNCHANGED <<th, presence, world>>

StillWaiting(n) == st[n].waiting /\ st[n].offer # NoSession

\* The 200 ms poll loop: leave, retransmit once, or decide that time is up.
LeavePoll(n) ==
    /\ Slow(n) /\ PtAt(n, "poll") /\ ~StillWaiting(n)
    /\ PtExit(n)
    /\ UNCHANGED <<st, th, presence, world>>

Retransmit(n) ==
    /\ Slow(n) /\ PtAt(n, "poll") /\ StillWaiting(n) /\ ~st[n].awaiting /\ ~pt[n].resent
    /\ st' = [st EXCEPT ![n].paused = TRUE]
    /\ pt' = [pt EXCEPT ![n].at = "resend", ![n].resent = TRUE]
    /\ UNCHANGED <<th, presence, world>>

Resend(n) ==
    /\ Slow(n) /\ PtAt(n, "resend")
    /\ Delivered(n, "offer", Mine(n)) \/ Lost
    /\ PtMove(n, "resume")
    /\ UNCHANGED <<st, presence, world>>

ResumeAfterResend(n) ==
    /\ Slow(n) /\ PtAt(n, "resume")
    /\ st' = [st EXCEPT ![n].paused = FALSE]
    /\ PtMove(n, "poll")
    /\ UNCHANGED <<th, presence, world>>

WaitsForAcceptOnly(n) == StillWaiting(n) /\ ~st[n].awaiting
Overdue(n) == StillWaiting(n)

\* The accept or ready deadline has passed in the snapshot taken at the poll.
TimeUp(n) ==
    /\ Slow(n) /\ PtAt(n, "poll") /\ Overdue(n)
    /\ PtMove(n, "expire")
    /\ UNCHANGED <<st, th, presence, world>>

\* The expiry writes the members without the lock and without looking again.
LeavesTemp(n) == temp
RemovesTemp(n) == temp \ {Mine(n)}

Expire(n) ==
    /\ PtAt(n, "expire")
    /\ temp' = RemovesTemp(n)
    /\ st' = [st EXCEPT ![n].offer = NoSession, ![n].staged = NoSession,
                        ![n].awaiting = FALSE]
    /\ PtMove(n, "failed")
    /\ UNCHANGED <<th, presence, sessions, from, losses, consented, received, prompt>>

OfferThread(n) == \/ Pauses(n, "offer", "send_offer")
                  \/ OfferSent(n) \/ OfferFails(n) \/ Rearm(n) \/ Arm(n)
                  \/ LeavePoll(n) \/ Retransmit(n) \/ Resend(n) \/ ResumeAfterResend(n)
                  \/ TimeUp(n) \/ Expire(n) \/ FinishFailed(n)

-----------------------------------------------------------------------------
(* The receiving side's payload thread: accept, ready, receive.            *)

\* A session already completed is skipped.
SkipCompleted(n) ==
    /\ PtAt(n, "accept") /\ st[n].completed = Mine(n)
    /\ st' = [st EXCEPT ![n].accepting = NoSession]
    /\ PtExit(n)
    /\ UNCHANGED <<th, presence, world>>

PauseToAccept(n) == st[n].completed # Mine(n) /\ Pauses(n, "accept", "send_accept")

AcceptSent(n) ==
    /\ Slow(n) /\ PtAt(n, "send_accept")
    /\ Delivered(n, "accept", Mine(n)) \/ Lost
    /\ PtMove(n, "send_ready")
    /\ UNCHANGED <<st, presence, world>>

AcceptFails(n) ==
    /\ Slow(n) /\ PtAt(n, "send_accept")
    /\ st' = [st EXCEPT ![n].accepting = NoSession]
    /\ PtMove(n, "failed")
    /\ UNCHANGED <<th, presence, world>>

\* run_inbound_payload pauses once more and sends ready before it receives.
ReadySent(n) ==
    /\ Slow(n) /\ PtAt(n, "send_ready")
    /\ Delivered(n, "ready", Mine(n)) \/ Lost
    /\ st' = [st EXCEPT ![n].paused = TRUE]
    /\ PtMove(n, "prepare")
    /\ UNCHANGED <<presence, world>>

ReadyFails(n) ==
    /\ Slow(n) /\ PtAt(n, "send_ready")
    /\ st' = [st EXCEPT ![n] = Finished(@, "Failed")]
    /\ PtMove(n, "leave")
    /\ UNCHANGED <<th, presence, world>>

Prepare(n) ==
    /\ PtAt(n, "prepare")
    /\ st' = [st EXCEPT ![n].busy = TRUE]
    /\ PtMove(n, "receiving")
    /\ UNCHANGED <<th, presence, world>>

\* No payload header in time, a broken stream, a size or tar mismatch: the
\* partial file is removed.
ReceiveFails(n) ==
    /\ Slow(n)
    /\ PtAt(n, "receiving") \/ PtAt(n, "received")
    /\ st' = [st EXCEPT ![n] = Finished(@, "Failed")]
    /\ PtMove(n, "leave")
    /\ UNCHANGED <<th, presence, world>>

FinishReceived(n) ==
    /\ Slow(n) /\ PtAt(n, "received")
    /\ st' = [st EXCEPT ![n] = Finished(@, "Received")]
    /\ PtMove(n, "leave")
    /\ UNCHANGED <<th, presence, world>>

Leave(n) ==
    /\ PtAt(n, "leave")
    /\ st' = [st EXCEPT ![n].accepting = NoSession, ![n].paused = FALSE]
    /\ PtExit(n)
    /\ UNCHANGED <<th, presence, world>>

AcceptThread(n) == \/ SkipCompleted(n) \/ PauseToAccept(n) \/ AcceptSent(n) \/ AcceptFails(n)
                   \/ ReadySent(n) \/ ReadyFails(n) \/ Prepare(n) \/ ReceiveFails(n)
                   \/ FinishReceived(n) \/ Leave(n)

DeclineSent(n) ==
    /\ Slow(n) /\ PtAt(n, "send_decline")
    /\ Delivered(n, "decline", Mine(n)) \/ Lost
    /\ st' = [st EXCEPT ![n].paused = FALSE]
    /\ PtExit(n)
    /\ UNCHANGED <<presence, world>>

DeclineThread(n) == Pauses(n, "decline", "send_decline") \/ DeclineSent(n)

-----------------------------------------------------------------------------
(* The sending side's payload thread, and the payload itself.              *)

\* send_file_on_port fails (no reader, a stall, the file is gone), or claims
\* success while nobody read the frames.
PayloadAlone(n) ==
    /\ Slow(n) /\ PtAt(n, "sending")
    /\ temp' = RemovesTemp(n)
    /\ st' = [st EXCEPT ![n] = Finished(@, "Sent")]
    /\ PtExit(n)
    /\ UNCHANGED <<th, presence, sessions, from, losses, consented, received, prompt>>

\* The peer reads the payload; its tar, if it is one, is still to be extracted.
\* The sender's end may fail on its last completion all the same.
PayloadMoves(n) ==
    LET p == Peer(n) IN
    /\ Slow(n) /\ PtAt(n, "sending")
    /\ Mine(n) \in temp
    /\ PtAt(p, "receiving")
    /\ received' = received \cup {<<Mine(p), Mine(n)>>}
    /\ temp' = RemovesTemp(n)
    /\ st' = [st EXCEPT ![n] = Finished(@, "Sent")]
    /\ pt' = [pt EXCEPT ![n] = Quiet, ![p].at = "received"]
    /\ UNCHANGED <<th, presence, sessions, from, losses, consented, prompt>>

PayloadThread(n) == \/ Pauses(n, "payload", "sending")
                    \/ PayloadAlone(n) \/ PayloadMoves(n)

Payload(n) == OfferThread(n) \/ AcceptThread(n) \/ DeclineThread(n) \/ PayloadThread(n)

-----------------------------------------------------------------------------
(* tick_presence: the cable is gone; a busy orchestrator is finished.  A    *)
(* loss that finds it idle touches the roster only (see Station).           *)

CableLost(n) ==
    /\ Slow(n) /\ Alive(n) /\ presence[n] = "idle" /\ losses < MaxLosses /\ MoreToCome
    /\ st[n].busy
    /\ losses' = losses + 1
    /\ presence' = [presence EXCEPT ![n] = "finish"]
    /\ UNCHANGED <<st, th, pt, sessions, from, temp, consented, received, prompt>>

FinishLost(n) ==
    /\ Alive(n) /\ presence[n] = "finish"
    /\ st' = [st EXCEPT ![n] = Finished(@, "Failed")]
    /\ presence' = [presence EXCEPT ![n] = "idle"]
    /\ UNCHANGED <<th, pt, world>>

-----------------------------------------------------------------------------
Next == \E n \in Node : \/ Ui(n) \/ Listener(n) \/ Payload(n)
                        \/ CableLost(n) \/ FinishLost(n)

\* As long as some thread can run one does, and every USB call returns, by its
\* timeout at the latest; what the user does, and whether a cable is lost, is not
\* forced, except that a UI call once begun goes on.
System(n) == \/ Staged(n) \/ SendBegins(n) \/ JoinPayload(n, "ui") \/ Spawn(n, "ui")
             \/ Listener(n) \/ Payload(n) \/ FinishLost(n)
Fairness == WF_vars(\E n \in Node : System(n))

Spec == Init /\ [][Next]_vars /\ Fairness

AtRest(n) == /\ th[n]["ui"] = Idle /\ th[n]["listener"] = Idle
             /\ pt[n] = Quiet /\ presence[n] = "idle"

-----------------------------------------------------------------------------
(* Properties.                                                             *)

Members == [busy : BOOLEAN, waiting : BOOLEAN, awaiting : BOOLEAN, paused : BOOLEAN,
            joinable : BOOLEAN, terminated : BOOLEAN, offer : SessionOr0,
            staged : SessionOr0, pending : SessionOr0, accepting : SessionOr0,
            completed : SessionOr0]
Control == [at : {"idle", "stage", "begin", "join", "spawn", "got", "busy_check", "post",
                  "accept", "finish", "start"},
            flow : {"none", "offer", "accept", "decline", "ready", "payload"},
            s : SessionOr0]
Errand == [at : {"none", "offer", "send_offer", "gap", "arm", "poll", "resend", "resume",
                 "expire", "failed", "accept", "send_accept", "send_ready", "prepare",
                 "receiving", "received", "leave", "decline", "send_decline",
                 "payload", "sending"},
           s : SessionOr0, resent : BOOLEAN]

\* Every variable has its type, and a payload thread runs only while
\* payload_thread_ owns it.
TypeOK ==
    /\ st \in [Node -> Members]
    /\ th \in [Node -> [{"ui", "listener"} -> Control]]
    /\ pt \in [Node -> Errand]
    /\ presence \in [Node -> {"idle", "finish"}]
    /\ sessions \in SessionOr0 /\ from \in [Session -> Node]
    /\ temp \subseteq Session /\ consented \subseteq Session
    /\ losses \in 0..MaxLosses /\ prompt \in BOOLEAN
    /\ received \in SUBSET (Session \X Session)
    /\ \A n \in Node : pt[n].at # "none" => st[n].joinable

\* Consent: whatever frames are lost, repeated or late, a station set to
\* AskFirst receives a payload only in a session its user accepted.
ConsentFirst ==
    \A r \in received : Peer(from[r[1]]) \in AskFirst => r[1] \in consented

\* In a prompt behaviour without a cable loss, the file received in a session is
\* the one offered in it: no stale ready and no leftover staged_payload_ sends
\* another file in its place.
ReceivesWhatWasOffered ==
    prompt /\ losses = 0 => \A r \in received : r[1] = r[2]

\* Whichever of the paths to finish_transfer ended a transfer, a station whose
\* threads are all at rest listens again and can send and be offered: no member
\* of the finished session is left behind.
MembersReset ==
    \A n \in Node : Alive(n) /\ AtRest(n) =>
       /\ ~st[n].paused /\ ~IsBusy(n) /\ ~st[n].waiting /\ ~st[n].awaiting
       /\ st[n].offer = NoSession /\ st[n].staged = NoSession

\* In a prompt behaviour without a cable loss, a station at rest keeps no staged
\* temp file: exactly one of send failure, decline, expiry and payload removes it.
NoTempLeft ==
    prompt /\ losses = 0 =>
       \A n \in Node : Alive(n) /\ AtRest(n) => \A s \in temp : from[s] # n

\* Every path to finish_transfer cleans up: members and files.
RestIsClean == MembersReset /\ NoTempLeft

\* Every handshake ends: the offer, accept and ready deadlines leave no thread
\* waiting for a frame that was lost, and no two threads for each other.
Settles == <>[](\A n \in Node : AtRest(n) \/ ~Alive(n))

\* The two stations keep what Handshake promises.  A behaviour is calm while it is
\* prompt and no cable was lost.
Promise == INSTANCE Handshake WITH
    made <- sessions, maker <- from, staged <- temp, agreed <- consented,
    asked <- [n \in Node |-> st[n].pending], taking <- [n \in Node |-> st[n].accepting],
    delivered <- received, calm <- prompt /\ losses = 0

\* Whatever frames are lost, repeated or late, every step of the stations is one the
\* users were promised: a file is delivered at most once, to a station permitted to
\* receive it, in calm in its own session; a late or repeated offer never reopens a
\* session that is over.
ImplementsHandshake == Promise!Spec

\* protocols/file-transfer.md: "One transfer at a time per orchestrator until
\* complete or fail" -- a station accepting an inbound session has no outbound
\* offer of its own pending.
OneTransferAtATime ==
    prompt => \A n \in Node : st[n].accepting = NoSession \/ st[n].offer = NoSession
=============================================================================
