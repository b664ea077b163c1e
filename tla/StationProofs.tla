--------------------------- MODULE StationProofs ---------------------------
(***************************************************************************)
(* Theorems about Station: the port has one holder, a cable is never taken *)
(* for lost while it stayed where it was, a late dismissal takes down      *)
(* nobody else's result, and the destructor leaves no loop running,        *)
(* however many cables, transfers and replugs there are.  Seen is what     *)
(* presence can conclude from the last probe; Dated is what an epoch says  *)
(* of the result on display; InOrder is what the thread that stops the     *)
(* station has seen end so far.                                            *)
(***************************************************************************)
EXTENDS Station, SequenceTheorems, TLAPS

\* Once presence found the cable, the last probe found it too or it was away since.
Seen ==
    /\ ~Present => was_absent
    /\ presence.ok \/ fabric_was_connected => known \/ was_absent
    /\ NoFalseLoss

\* In the epoch a dismissal is for, only the result it is for can be on display.
InItsEpoch(d) == /\ d.epoch <= epoch
                 /\ d.epoch = epoch => st.done \in {NoTransfer, d.by}
Dated ==
    /\ epoch \in Nat
    /\ dismissals \subseteq [by : Nat, epoch : Nat]
    /\ \A d \in dismissals : InItsEpoch(d)
    /\ HarmlessDismissal

-----------------------------------------------------------------------------
(* What the thread steps have in common.                                   *)

\* A thread of payload moves from one point to the next: one entry is replaced.
LEMMA OneMoves ==
    ASSUME NEW S, NEW s \in Seq(S), NEW k \in DOMAIN s, NEW e \in S
    PROVE  /\ [s EXCEPT ![k] = e] \in Seq(S)
           /\ DOMAIN [s EXCEPT ![k] = e] = DOMAIN s
           /\ \A j \in DOMAIN s : [s EXCEPT ![k] = e][j] = IF j = k THEN e ELSE s[j]
<1>1. DOMAIN s = 1 .. Len(s)  BY LenProperties
<1> QED  BY <1>1, ExceptSeq

\* A transfer begins: one entry is added.
LEMMA OneMore ==
    ASSUME NEW S, NEW s \in Seq(S), NEW e \in S
    PROVE  /\ Append(s, e) \in Seq(S)
           /\ Len(Append(s, e)) = Len(s) + 1 /\ Len(s) \in Nat
           /\ DOMAIN Append(s, e) = DOMAIN s \cup {Len(s) + 1}
           /\ DOMAIN s = 1 .. Len(s)
           /\ \A j \in DOMAIN s : Append(s, e)[j] = s[j]
           /\ Append(s, e)[Len(s) + 1] = e
<1>1. DOMAIN s = 1 .. Len(s) /\ Len(s) \in Nat  BY LenProperties
<1>2. Append(s, e) \in Seq(S) /\ Len(Append(s, e)) = Len(s) + 1
  BY AppendProperties
<1>3. \A j \in 1 .. Len(s) : Append(s, e)[j] = s[j]
  BY AppendProperties
<1>4. Append(s, e)[Len(s) + 1] = e
  BY AppendProperties
<1>5. DOMAIN Append(s, e) = 1 .. Len(s) + 1  BY <1>2, LenProperties
<1>6. 1 .. Len(s) + 1 = (1 .. Len(s)) \cup {Len(s) + 1}  BY <1>1
<1> QED  BY <1>1, <1>2, <1>3, <1>4, <1>5, <1>6

LEMMA FiveSteps ==
    ASSUME NEW S, NEW a \in S, NEW b \in S, NEW c \in S, NEW d \in S, NEW e \in S
    PROVE  <<a, b, c, d, e>> \in Seq(S)
<1>1. <<a, b, c, d, e>> \in [1 .. 5 -> S]  OBVIOUS
<1> QED  BY <1>1, SeqDef

LEMMA InitTyped == Init => TypeOK
<1> SUFFICES ASSUME Init PROVE TypeOK  OBVIOUS
<1>1. Stop \in Seq(Step)  BY FiveSteps DEF Stop, Step
<1>2. todo \in Seq(Step)  BY <1>1, ConcatProperties DEF Teardown, Init
<1>3. payload \in Seq(PayloadAt) /\ DOMAIN payload = {}  BY EmptySeq DEF Init
<1>4. bus \in 0 .. MaxCables /\ plugs \in 0 .. MaxPlugs
  BY StationAssumption DEF Init
<1>5. {was_absent, known, down, fabric_was_connected} \subseteq BOOLEAN
  <2>1. was_absent \in BOOLEAN
    <3>1. was_absent = (PortIndex >= bus)  BY DEF Init
    <3>2. (PortIndex >= bus) \in BOOLEAN  OBVIOUS
    <3> QED  BY <3>1, <3>2, Zenon
  <2>2. known = FALSE /\ down = FALSE /\ fabric_was_connected = FALSE  BY DEF Init
  <2> QED  BY <2>1, <2>2
<1>6. /\ listener \in [at : ListenerAt, stop : BOOLEAN, paused : BOOLEAN]
      /\ presence \in [at : PresenceAt, ok : BOOLEAN]
      /\ lock = Free /\ listener.at = "off" /\ presence.at = "off"
  <2>1. /\ listener = [at |-> "off", stop |-> FALSE, paused |-> FALSE]
        /\ presence = [at |-> "off", ok |-> FALSE] /\ lock = Free
    BY DEF Init
  <2> QED  BY <2>1 DEF ListenerAt, PresenceAt
<1>7. st \in [connected : BOOLEAN, busy : Nat, done : Nat, error : BOOLEAN]
  BY DEF Init, NoTransfer
<1>8. {owned, st.busy, st.done} = {NoTransfer}  BY DEF Init
<1>9. OneHolder  BY <1>3, <1>6 DEF OneHolder, Free, Listening, Announcing
<1> QED  BY <1>2, <1>3, <1>4, <1>5, <1>6, <1>7, <1>8, <1>9 DEF TypeOK

-----------------------------------------------------------------------------
(* Type correctness, and with it the exclusion of the port.                *)

\* What a probe answers, and what it leaves in known, is a truth value.
LEMMA ProbeTyped ==
    ASSUME TypeOK
    PROVE  /\ Present \in BOOLEAN /\ PortAvailable \in BOOLEAN
           /\ Probes => known' \in BOOLEAN /\ lock' = lock
<1>1. Present \in BOOLEAN  BY DEF Present
<1>2. known \in BOOLEAN  BY DEF TypeOK
<1>3. PortAvailable \in BOOLEAN  BY <1>1, <1>2, Zenon DEF PortAvailable
<1>4. Probes => known' \in BOOLEAN /\ lock' = lock  BY <1>1, <1>2, Zenon DEF Probes
<1> QED  BY <1>1, <1>3, <1>4

\* A step of the listener, or of the thread that starts it.
LEMMA ListenTyped ==
    ASSUME TypeOK, NEW there \in ListenerAt, NEW stop \in BOOLEAN, known' \in BOOLEAN,
           UNCHANGED <<world, ending, links, st, payloads>>,
           listener' = [listener EXCEPT !.at = there, !.stop = stop],
           \/ lock' = lock /\ "receive" \notin {listener.at, there}
           \/ Acquire(Listening) /\ there = "receive"
           \/ Release(Listening) /\ there # "receive"
    PROVE  TypeOK'
<1> USE DEF TypeOK, world, ending, links, payloads, Free, Listening, Announcing,
            NoTransfer, Acquire, Release
<1>1. DOMAIN payload \subseteq Nat  BY LenProperties
<1>2. /\ listener' \in [at : ListenerAt, stop : BOOLEAN, paused : BOOLEAN]
      /\ listener'.at = there
  OBVIOUS
<1>3. OneHolder'  BY <1>1, <1>2 DEF OneHolder
<1> QED  BY <1>2, <1>3

LEMMA Listened ==
    ASSUME TypeOK, NEW here \in ListenerAt, NEW there \in ListenerAt, Listen(here, there),
           known' \in BOOLEAN,
           \/ lock' = lock /\ "receive" \notin {here, there}
           \/ Acquire(Listening) /\ there = "receive"
           \/ Release(Listening) /\ there # "receive"
    PROVE  TypeOK'
<1>1. listener.stop \in BOOLEAN /\ listener.at = here
  BY DEF TypeOK, Listen
<1>2. listener' = [listener EXCEPT !.at = there, !.stop = listener.stop]
  BY DEF TypeOK, Listen
<1> QED  BY <1>1, <1>2, ListenTyped DEF Listen

LEMMA ListenerTyped == TypeOK /\ (Starting \/ ListenLoop) => TypeOK'
<1> SUFFICES ASSUME TypeOK, Starting \/ ListenLoop PROVE TypeOK'
  OBVIOUS
<1> USE DEF world, port, links, ListenerAt
<1>1. /\ listener \in [at : ListenerAt, stop : BOOLEAN, paused : BOOLEAN]
      /\ presence \in [at : PresenceAt, ok : BOOLEAN]
      /\ known \in BOOLEAN
  BY DEF TypeOK
<1>2. CASE StartupBegins
  BY <1>2 DEF StartupBegins, Startup, TypeOK, OneHolder, payloads, ending
<1>3. CASE StartsListener
  <2>1. listener' = [listener EXCEPT !.at = "loop", !.stop = FALSE]
    BY <1>3 DEF StartsListener
  <2>2. listener.at # "receive"  BY <1>3 DEF StartsListener, Over
  <2> QED  BY <1>1, <1>3, <2>1, <2>2, ListenTyped DEF StartsListener, Startup
<1>4. CASE StartsPresence
  <2>1. /\ presence' \in [at : PresenceAt, ok : BOOLEAN]
        /\ presence'.at = "sending" <=> presence.at = "sending"
    BY <1>1, <1>4 DEF StartsPresence, PresenceAt
  <2> QED  BY <1>4, <2>1 DEF StartsPresence, Startup, TypeOK, OneHolder, payloads, ending
<1>5. CASE ListenerStops \/ ListenerRefused
  <2>1. Listen("loop", "ended") \/ Listen("wait", "loop")
    BY <1>5 DEF ListenerStops, ListenerRefused
  <2>2. lock' = lock /\ known' = known  BY <1>5 DEF ListenerStops, ListenerRefused
  <2> QED  BY <1>1, <2>1, <2>2, Listened
<1>6. CASE ListenerProbes
  <2>1. known' \in BOOLEAN /\ lock' = lock  BY <1>6, ProbeTyped DEF ListenerProbes
  <2>2. Listen("loop", "wait") \/ Listen("loop", "loop")
    BY <1>6 DEF ListenerProbes
  <2> QED  BY <1>1, <2>1, <2>2, Listened
<1>7. CASE ListenerReceives
  <2>1. Listen("wait", "receive") /\ Acquire(Listening)  BY <1>7 DEF ListenerReceives
  <2> QED  BY <1>1, <2>1, Listened DEF Acquire
<1>8. CASE ListenerReturns
  <2>1. Listen("receive", "loop") /\ Release(Listening)  BY <1>8 DEF ListenerReturns
  <2> QED  BY <1>1, <2>1, Listened DEF Release
<1> QED  BY <1>2, <1>3, <1>4, <1>5, <1>6, <1>7, <1>8 DEF Starting, ListenLoop

\* A tick of presence, whatever it does to the port and to the state.
LEMMA TickTyped ==
    ASSUME TypeOK, NEW here \in PresenceAt, NEW there \in PresenceAt,
           NEW found \in BOOLEAN, Ticks(here, there, found),
           {was_absent', known', fabric_was_connected'} \subseteq BOOLEAN,
           listener' = listener \/ listener' = [listener EXCEPT !.paused = FALSE],
           st' \in [connected : BOOLEAN, busy : Nat, done : Nat, error : BOOLEAN],
           {st'.busy, st'.done} \subseteq {st.busy, st.done, NoTransfer},
           \/ lock' = lock /\ "sending" \notin {here, there}
           \/ Acquire(Announcing) /\ there = "sending"
           \/ Release(Announcing) /\ there # "sending"
    PROVE  TypeOK'
<1> USE DEF TypeOK, ending, payloads, display, Free, Listening, Announcing, NoTransfer,
            Ticks, Acquire, Release
<1>1. DOMAIN payload \subseteq Nat  BY LenProperties
<1>2. presence' \in [at : PresenceAt, ok : BOOLEAN] /\ presence'.at = there
  OBVIOUS
<1>3. /\ listener' \in [at : ListenerAt, stop : BOOLEAN, paused : BOOLEAN]
      /\ listener'.at = listener.at
  OBVIOUS
<1>4. OneHolder'
  BY <1>1, <1>2, <1>3 DEF OneHolder
<1> QED  BY <1>2, <1>3, <1>4

LEMMA PresenceTyped == TypeOK /\ PresenceLoop => TypeOK'
<1> SUFFICES ASSUME TypeOK, PresenceLoop PROVE TypeOK'  OBVIOUS
<1> USE DEF world, port, links, NoTransfer, PresenceAt
<1>1. /\ {was_absent, known, fabric_was_connected, presence.ok} \subseteq BOOLEAN
      /\ st \in [connected : BOOLEAN, busy : Nat, done : Nat, error : BOOLEAN]
  BY DEF TypeOK
<1>2. CASE TickBegins
  <2>1. known' \in BOOLEAN /\ lock' = lock /\ PortAvailable \in BOOLEAN
    BY <1>2, ProbeTyped DEF TickBegins
  <2>2. was_absent' \in BOOLEAN
    <3>1. Present \in BOOLEAN  BY ProbeTyped
    <3>2. was_absent' = IF PortAvailable THEN ~Present ELSE was_absent
      BY <1>2 DEF TickBegins
    <3> QED  BY <1>1, <3>1, <3>2, Zenon
  <2> QED  BY <1>1, <1>2, <2>1, <2>2, TickTyped DEF TickBegins
<1>3. CASE PresenceEnds  BY <1>1, <1>3, TickTyped DEF PresenceEnds
<1>4. CASE TickLoses
  <2>1. st' = [st EXCEPT !.busy = NoTransfer, !.error = TRUE]
    BY <1>4 DEF TickLoses, Finished
  <2>2. /\ st' \in [connected : BOOLEAN, busy : Nat, done : Nat, error : BOOLEAN]
        /\ st'.busy = NoTransfer /\ st'.done = st.done
    BY <1>1, <2>1
  <2> QED  BY <1>1, <1>4, <2>2, TickTyped DEF TickLoses
<1>5. CASE TickGoesOn  BY <1>1, <1>5, TickTyped DEF TickGoesOn
<1>6. CASE TickShows  BY <1>1, <1>6, TickTyped DEF TickShows
<1>7. CASE TickAnnounces  BY <1>1, <1>7, TickTyped DEF TickAnnounces, Acquire
<1>8. CASE Announced  BY <1>1, <1>8, TickTyped DEF Announced, Release
<1>9. CASE TickEnds  BY <1>1, <1>9, TickTyped DEF TickEnds
<1> QED  BY <1>2, <1>3, <1>4, <1>5, <1>6, <1>7, <1>8, <1>9 DEF PresenceLoop

\* A step of the thread of transfer k: it takes the lock exactly to hold it.
LEMMA MoveTyped ==
    ASSUME TypeOK, NEW k \in DOMAIN payload, NEW here \in PayloadAt, NEW there \in PayloadAt,
           Moves(k, here, there), known' = known,
           listener' = [listener EXCEPT !.paused = listener'.paused],
           listener'.paused \in BOOLEAN,
           st' \in [connected : BOOLEAN, busy : Nat, done : Nat, error : BOOLEAN],
           {st'.busy, st'.done} \subseteq {st.busy, st.done, k, NoTransfer},
           \/ lock' = lock /\ "hold" \notin {here, there}
           \/ Acquire(k) /\ there = "hold"
           \/ Release(k) /\ there # "hold"
    PROVE  TypeOK'
<1> USE DEF TypeOK, Moves, world, ending, links, Free, Listening, Announcing, NoTransfer,
            Acquire, Release
<1>1. /\ payload' \in Seq(PayloadAt) /\ DOMAIN payload' = DOMAIN payload
      /\ \A j \in DOMAIN payload : payload'[j] = IF j = k THEN there ELSE payload[j]
  BY OneMoves
<1>2. DOMAIN payload \subseteq Nat \ {0}  BY LenProperties
<1>3. /\ listener' \in [at : ListenerAt, stop : BOOLEAN, paused : BOOLEAN]
      /\ listener'.at = listener.at
  OBVIOUS
<1>4. OneHolder'
  <2>1. OneHolder /\ payload[k] = here /\ presence' = presence  BY DEF TypeOK, Moves
  <2> HIDE DEF TypeOK, Moves
  <2>2. CASE lock' = lock /\ "hold" \notin {here, there}
    BY <1>1, <1>2, <1>3, <2>1, <2>2 DEF OneHolder
  <2>3. CASE Acquire(k) /\ there = "hold"
    BY <1>1, <1>2, <1>3, <2>1, <2>3 DEF OneHolder
  <2>4. CASE Release(k) /\ there # "hold"
    BY <1>1, <1>2, <1>3, <2>1, <2>4 DEF OneHolder
  <2> QED  BY <2>2, <2>3, <2>4
<1> QED  BY <1>1, <1>3, <1>4

LEMMA PayloadTyped ==
    ASSUME TypeOK, NEW k \in DOMAIN payload, Payload(k)
    PROVE  TypeOK'
<1> USE DEF port, PayloadAt, NoTransfer
<1>1. /\ st \in [connected : BOOLEAN, busy : Nat, done : Nat, error : BOOLEAN]
      /\ listener \in [at : ListenerAt, stop : BOOLEAN, paused : BOOLEAN]
      /\ k \in Nat
  BY LenProperties DEF TypeOK
<1>2. CASE PayloadPauses(k)  BY <1>1, <1>2, MoveTyped DEF PayloadPauses
<1>3. CASE PayloadAcquires(k)  BY <1>1, <1>3, MoveTyped DEF PayloadAcquires, Acquire
<1>4. CASE PayloadRefused(k)  BY <1>1, <1>4, MoveTyped DEF PayloadRefused
<1>5. CASE PayloadMoves(k)  BY <1>1, <1>5, MoveTyped DEF PayloadMoves, Release
<1>6. CASE PayloadFinishes(k)
  <2>1. lock' = lock /\ known' = known /\ listener' = [listener EXCEPT !.paused = FALSE]
    BY <1>6 DEF PayloadFinishes
  <2>2. PICK ok \in BOOLEAN : /\ st' = Finished(ok, k)
                              /\ Moves(k, IF ok THEN "moved" ELSE "failed", "ended")
    BY <1>6 DEF PayloadFinishes
  <2>3. /\ st' \in [connected : BOOLEAN, busy : Nat, done : Nat, error : BOOLEAN]
        /\ st'.busy = NoTransfer /\ st'.done \in {st.done, k}
    BY <1>1, <2>2 DEF Finished
  <2> QED  BY <1>1, <2>1, <2>2, <2>3, MoveTyped
<1> QED  BY <1>2, <1>3, <1>4, <1>5, <1>6 DEF Payload

LEMMA BeginsTyped == TypeOK /\ Begins => TypeOK'
<1> SUFFICES ASSUME TypeOK, Begins PROVE TypeOK'  OBVIOUS
<1> DEFINE n == Len(payload) + 1
<1>1. /\ payload' \in Seq(PayloadAt) /\ DOMAIN payload' = DOMAIN payload \cup {n}
      /\ n \in Nat /\ n \notin DOMAIN payload /\ n # 0 /\ Len(payload') = n
      /\ \A j \in DOMAIN payload : payload'[j] = payload[j]
      /\ payload'[n] = "begin"
  <2>1. "begin" \in PayloadAt  BY DEF PayloadAt
  <2> QED  BY <2>1, OneMore DEF TypeOK, Begins
<1>2. /\ st' \in [connected : BOOLEAN, busy : Nat, done : Nat, error : BOOLEAN]
      /\ st'.busy = n /\ st'.done = st.done /\ owned' = n
  BY <1>1 DEF TypeOK, Begins
<1>3. OneHolder'
  BY <1>1 DEF TypeOK, OneHolder, Begins, port, links, Free, Listening, Announcing
<1> QED  BY <1>1, <1>2, <1>3 DEF TypeOK, Begins, world, port, ending, links

LEMMA EndsTyped == TypeOK /\ (Reset \/ Stopping \/ Replug) => TypeOK'
<1> SUFFICES ASSUME TypeOK, Reset \/ Stopping \/ Replug PROVE TypeOK'  OBVIOUS
<1> USE DEF TypeOK, OneHolder, world, port, ending, links, payloads, NoTransfer
<1>1. CASE Reset  BY <1>1 DEF Reset
<1>2. ASSUME NEW step, Does(step)
      PROVE  todo' \in Seq(Step)
  <2>1. todo \in Seq(Step) /\ todo # << >>  BY <1>2 DEF Does
  <2>2. Tail(todo) \in Seq(Step)  BY <2>1, HeadTailProperties
  <2> QED  BY <1>2, <2>2 DEF Does
<1>3. CASE Stopping
  <2>1. todo' \in Seq(Step)
    BY <1>2, <1>3 DEF Stopping, StopBegins, Joins, JoinsPayload
  <2>2. UNCHANGED <<world, port, startup, links, st, payload>>
    BY <1>3 DEF Stopping, StopBegins, Joins, JoinsPayload, Does
  <2>3. /\ down' \in BOOLEAN /\ owned' \in {owned, NoTransfer}
        /\ listener' \in {listener, [listener EXCEPT !.stop = TRUE]}
    BY <1>3 DEF Stopping, StopBegins, Joins, JoinsPayload
  <2>4. /\ listener' \in [at : ListenerAt, stop : BOOLEAN, paused : BOOLEAN]
        /\ listener'.at = listener.at
    BY <2>3
  <2> QED  BY <2>1, <2>2, <2>3, <2>4
<1>4. CASE Replug
  <2>1. was_absent' \in BOOLEAN
    <3>1. (PortIndex >= bus') \in BOOLEAN  OBVIOUS
    <3>2. was_absent' = (was_absent \/ PortIndex >= bus')  BY <1>4 DEF Replug
    <3>3. was_absent \in BOOLEAN  OBVIOUS
    <3> HIDE DEF TypeOK
    <3> QED  BY <3>1, <3>2, <3>3, Zenon
  <2>2. bus' \in 0 .. MaxCables /\ plugs' \in 0 .. MaxPlugs
    BY <1>4, StationAssumption DEF Replug
  <2> QED  BY <1>4, <2>1, <2>2 DEF Replug
<1> QED  BY <1>1, <1>3, <1>4

LEMMA DismissTyped ==
    ASSUME TypeOK, NEW d \in dismissals, Dismiss(d)
    PROVE  TypeOK'
<1>1. \/ st' = st
      \/ st' = [st EXCEPT !.done = NoTransfer]
  BY DEF Dismiss
<1> QED  BY <1>1 DEF Dismiss, TypeOK, OneHolder, world, port, ending, links, payloads,
                     NoTransfer

LEMMA NextTyped == TypeOK /\ [Next]_vars => TypeOK'
<1> SUFFICES ASSUME TypeOK, [Next]_vars PROVE TypeOK'  OBVIOUS
<1>1. CASE UNCHANGED vars
  BY <1>1 DEF TypeOK, OneHolder, vars, world, port, ending, links, payloads
<1>2. ASSUME NEW k \in 1 .. MaxTransfers, Payload(k) PROVE TypeOK'
  BY <1>2, PayloadTyped DEF Payload
<1>3. ASSUME NEW d \in dismissals, Dismiss(d) PROVE TypeOK'
  BY <1>3, DismissTyped
<1> QED  BY <1>1, <1>2, <1>3, ListenerTyped, PresenceTyped, BeginsTyped, EndsTyped DEF Next

\* Whatever the threads do, every variable keeps its type and the lock of
\* TransferController is held by at most one of the listener, the presence loop and
\* the payload threads, each exactly while it is inside the transport.
THEOREM StationTypeOK == Spec => []TypeOK
<1>1. TypeOK /\ [Next]_vars => TypeOK'  BY NextTyped
<1> QED  BY <1>1, InitTyped, PTL DEF Spec

-----------------------------------------------------------------------------
(* No cable is taken for lost while it stayed where it was.                *)

LEMMA InitSeen == Init => Seen
<1> SUFFICES ASSUME Init PROVE Seen  OBVIOUS
<1>1. ~Present => PortIndex >= bus  BY StationAssumption DEF Init, Present
<1>2. was_absent = (PortIndex >= bus)  BY DEF Init
<1>3. ~Present => was_absent  BY <1>1, <1>2, Zenon
<1>4. ~presence.ok /\ ~fabric_was_connected  BY DEF Init
<1> QED  BY <1>3, <1>4 DEF Seen, NoFalseLoss, Lost

\* A probe that finds the lock taken answers what the last one found.
LEMMA ProbeSeen ==
    ASSUME TypeOK, Seen, Probes
    PROVE  /\ known \/ was_absent => known' \/ was_absent
           /\ PortAvailable => known'
           /\ ~PortAvailable => ~Present \/ ~known
<1>1. known \in BOOLEAN /\ was_absent \in BOOLEAN  BY DEF TypeOK
<1>2. Present \in BOOLEAN  BY ProbeTyped
<1> QED  BY <1>1, <1>2, Zenon DEF Seen, Probes, PortAvailable

LEMMA NextSeen == TypeOK /\ Seen /\ [Next]_vars => Seen'
<1> SUFFICES ASSUME TypeOK, Seen, [Next]_vars PROVE Seen'  OBVIOUS
<1> DEFINE seen == <<bus, was_absent, known, presence, fabric_was_connected>>
<1>1. CASE UNCHANGED seen
  BY <1>1 DEF Seen, Present, NoFalseLoss, Lost
<1>2. CASE Replug
  <2>1. bus \in Nat /\ bus' \in Nat /\ PortIndex \in Nat
    BY <1>2, StationAssumption DEF TypeOK, Replug
  <2>2. was_absent' = (was_absent \/ PortIndex >= bus')  BY <1>2 DEF Replug
  <2>3. UNCHANGED <<known, presence, fabric_was_connected>>  BY <1>2 DEF Replug, port, links
  <2>4. ~Present' => was_absent'
    <3>1. ~Present' => PortIndex >= bus'  BY <2>1 DEF Present
    <3> QED  BY <2>2, <3>1, Zenon
  <2>5. was_absent => was_absent'  BY <2>2
  <2> QED  BY <2>3, <2>4, <2>5 DEF Seen, NoFalseLoss, Lost
<1>3. CASE StartsPresence
  <2>1. (presence'.ok = presence.ok /\ presence'.at # "probed") \/ presence' = presence
    BY <1>3 DEF StartsPresence, TypeOK
  <2> QED  BY <1>3, <2>1 DEF StartsPresence, Startup, world, port, Seen, Present, NoFalseLoss,
                         Lost
<1>4. CASE ListenerProbes
  BY <1>4, ProbeSeen DEF ListenerProbes, Listen, world, links, Seen, Present, NoFalseLoss, Lost
<1>5. CASE TickBegins
  <2>1. Probes /\ bus' = bus /\ fabric_was_connected' = fabric_was_connected
        /\ presence' = [at |-> "probed", ok |-> PortAvailable]
        /\ was_absent' = IF PortAvailable THEN ~Present ELSE was_absent
    BY <1>5 DEF TickBegins, Ticks
  <2>2. CASE PortAvailable
    BY <2>1, <2>2, ProbeSeen DEF Seen, Present, NoFalseLoss, Lost
  <2>3. CASE ~PortAvailable
    BY <2>1, <2>3, ProbeSeen DEF Seen, Present, NoFalseLoss, Lost
  <2> QED  BY <2>2, <2>3
<1>6. CASE PresenceLoop /\ ~TickBegins
  <2> DEFINE Goes == /\ presence'.at # "probed" /\ (presence'.ok => presence.ok)
                     /\ UNCHANGED <<bus, was_absent, known>>
                     /\ fabric_was_connected' => fabric_was_connected \/ presence.ok
  <2>1. ASSUME PresenceEnds \/ TickEnds PROVE Goes
    BY <2>1 DEF PresenceEnds, TickEnds, Ticks, port
  <2>2. ASSUME TickLoses \/ TickGoesOn PROVE Goes
    <3>1. /\ presence' = [at |-> "show", ok |-> FALSE]
             \/ presence' = [at |-> "show", ok |-> presence.ok]
          /\ UNCHANGED <<bus, was_absent, known, fabric_was_connected>>
      BY <2>2 DEF TickLoses, TickGoesOn, Ticks, port
    <3> QED  BY <3>1
  <2>3. ASSUME TickShows PROVE Goes
    BY <2>3 DEF TickShows, Ticks, port
  <2>4. ASSUME TickAnnounces \/ Announced PROVE Goes
    BY <2>4 DEF TickAnnounces, Announced, Ticks, Acquire, Release
  <2>5. Goes  BY <1>6, <2>1, <2>2, <2>3, <2>4 DEF PresenceLoop
  <2> QED  BY <2>5 DEF Seen, Present, NoFalseLoss, Lost
<1>7. CASE Starting \/ ListenLoop \/ Begins \/ Reset \/ Stopping
  <2>1. CASE StartupBegins \/ StartsListener
    BY <1>1, <2>1 DEF StartupBegins, StartsListener, Startup, world, port, links
  <2>2. CASE ListenerStops \/ ListenerReceives \/ ListenerRefused \/ ListenerReturns
    BY <1>1, <2>2 DEF ListenerStops, ListenerReceives, ListenerRefused, ListenerReturns,
                      Listen, Acquire, Release, world, port, links
  <2>3. CASE Begins \/ Reset
    BY <1>1, <2>3 DEF Begins, Reset, world, port, links
  <2>4. CASE Stopping
    BY <1>1, <2>4 DEF Stopping, StopBegins, Joins, JoinsPayload, Does, world, port, links
  <2> QED  BY <1>3, <1>4, <1>7, <2>1, <2>2, <2>3, <2>4 DEF Starting, ListenLoop
<1>8. ASSUME NEW k \in 1 .. MaxTransfers, Payload(k) PROVE Seen'
  BY <1>1, <1>8 DEF Payload, PayloadPauses, PayloadAcquires, PayloadRefused, PayloadMoves,
                    PayloadFinishes, Moves, Acquire, Release, world, port, links
<1>9. ASSUME NEW d \in dismissals, Dismiss(d) PROVE Seen'
  BY <1>1, <1>9 DEF Dismiss, world, port, links
<1>10. CASE UNCHANGED vars  BY <1>1, <1>10 DEF vars, world, port, links
<1> QED  BY <1>2, <1>5, <1>6, <1>7, <1>8, <1>9, <1>10 DEF Next

\* fabric_just_lost never fires, and never fails a transfer in progress, unless the
\* station's cable was away since presence last found it: a port that is merely busy
\* is not taken for one that is gone (fabric_port_available keeps the last answer).
THEOREM StationNoFalseLoss == Spec => []NoFalseLoss
<1>1. TypeOK /\ Seen /\ [Next]_vars => TypeOK' /\ Seen'  BY NextTyped, NextSeen
<1>2. Seen => NoFalseLoss  BY DEF Seen
<1> QED  BY <1>1, <1>2, InitTyped, InitSeen, PTL DEF Spec

-----------------------------------------------------------------------------
(* A late dismissal takes down nobody else's result.                       *)

LEMMA InitDated == Init => Dated
  BY DEF Init, Dated, InItsEpoch, HarmlessDismissal

\* The epoch goes up: no dismissal is for the new one.
LEMMA LaterDated ==
    ASSUME Dated, epoch' = epoch + 1, dismissals' = dismissals, wiped' = wiped
    PROVE  Dated'
<1>1. \A d \in dismissals : d.epoch \in Nat /\ d.epoch <= epoch  BY DEF Dated, InItsEpoch
<1>2. epoch' \in Nat /\ \A d \in dismissals' : d.epoch <= epoch' /\ d.epoch # epoch'
  BY <1>1 DEF Dated, InItsEpoch
<1> QED  BY <1>2 DEF Dated, InItsEpoch, HarmlessDismissal

\* The display stays, or is cleared.
LEMMA SameDated ==
    ASSUME Dated, epoch' = epoch, dismissals' \subseteq dismissals, wiped' = wiped,
           st'.done \in {st.done, NoTransfer}
    PROVE  Dated'
  BY DEF Dated, InItsEpoch, HarmlessDismissal

LEMMA FinishDated ==
    ASSUME TypeOK, Dated, NEW k \in DOMAIN payload, PayloadFinishes(k)
    PROVE  Dated'
<1>1. CASE st' = Finished(TRUE, k) /\ epoch' = epoch + 1
           /\ dismissals' = dismissals \cup {[by |-> k, epoch |-> epoch']}
  <2>1. k \in Nat  BY LenProperties DEF TypeOK
  <2>2. st'.done = k  BY <1>1 DEF Finished, TypeOK
  <2>3. wiped' = wiped  BY DEF PayloadFinishes, Moves
  <2>4. \A d \in dismissals : /\ d \in [by : Nat, epoch : Nat]
                                /\ d.epoch <= epoch' /\ d.epoch # epoch'
    BY <1>1 DEF Dated, InItsEpoch
  <2>5. epoch' \in Nat /\ [by |-> k, epoch |-> epoch'] \in [by : Nat, epoch : Nat]
    BY <1>1, <2>1 DEF Dated, InItsEpoch
  <2>6. \A d \in dismissals' : d \in dismissals \/ (d.by = k /\ d.epoch = epoch')
    BY <1>1
  <2>7. dismissals' \subseteq [by : Nat, epoch : Nat]  BY <1>1, <2>4, <2>5
  <2>8. \A d \in dismissals' : InItsEpoch(d)'
    BY <2>2, <2>4, <2>5, <2>6 DEF InItsEpoch
  <2>9. HarmlessDismissal'  BY <2>3 DEF Dated, InItsEpoch, HarmlessDismissal
  <2> QED  BY <2>5, <2>7, <2>8, <2>9 DEF Dated
<1>2. CASE st' = Finished(FALSE, k) /\ UNCHANGED <<epoch, dismissals>>
  <2>1. st'.done = st.done  BY <1>2 DEF Finished, TypeOK
  <2> QED  BY <1>2, <2>1, SameDated DEF PayloadFinishes, Moves
<1> QED  BY <1>1, <1>2 DEF PayloadFinishes

\* The guard of the dismissal is what makes it harmless.
LEMMA DismissDated ==
    ASSUME TypeOK, Dated, NEW d \in dismissals, Dismiss(d)
    PROVE  Dated'
<1>1. CASE MayDismiss(d)
  <2>1. st.done = d.by  BY <1>1 DEF Dated, InItsEpoch, MayDismiss
  <2>2. wiped' = [by |-> d.by, display |-> st.done] /\ st'.done = NoTransfer
    BY <1>1 DEF Dismiss, TypeOK
  <2>3. epoch' = epoch /\ dismissals' \subseteq dismissals  BY DEF Dismiss
  <2> QED  BY <2>1, <2>2, <2>3 DEF Dated, InItsEpoch, HarmlessDismissal
<1>2. CASE ~MayDismiss(d)
  BY <1>2, SameDated DEF Dismiss
<1> QED  BY <1>1, <1>2

LEMMA NextDated == TypeOK /\ Dated /\ [Next]_vars => Dated'
<1> SUFFICES ASSUME TypeOK, Dated, [Next]_vars PROVE Dated'  OBVIOUS
<1> USE DEF display
<1>1. CASE UNCHANGED <<epoch, dismissals, wiped>> /\ st'.done = st.done
  BY <1>1, SameDated
<1>2. CASE Replug \/ Starting \/ ListenLoop
  BY <1>1, <1>2 DEF Replug, Starting, StartupBegins, StartsListener, StartsPresence, Startup,
       ListenLoop, ListenerStops, ListenerProbes, ListenerReceives, ListenerRefused,
       ListenerReturns, Listen
<1>3. CASE PresenceLoop
  <2>1. UNCHANGED <<epoch, dismissals, wiped>>
    BY <1>3 DEF PresenceLoop, TickBegins, PresenceEnds, TickLoses, TickGoesOn, TickShows,
       TickAnnounces, Announced, TickEnds, Ticks
  <2>2. \/ st' = st \/ st' = Finished(FALSE, NoTransfer)
        \/ st' = [st EXCEPT !.connected = presence.ok]
    BY <1>3 DEF PresenceLoop, TickBegins, PresenceEnds, TickLoses, TickGoesOn, TickShows,
       TickAnnounces, Announced, TickEnds
  <2>3. st'.done = st.done  BY <2>2 DEF Finished, TypeOK
  <2> QED  BY <1>1, <2>1, <2>3
<1>4. CASE Begins \/ Reset  BY <1>4, LaterDated DEF Begins, Reset
<1>5. CASE Stopping
  <2>1. CASE StopBegins  BY <2>1, LaterDated DEF StopBegins, Does
  <2>2. CASE Joins \/ JoinsPayload  BY <1>1, <2>2 DEF Joins, JoinsPayload, Does
  <2> QED  BY <1>5, <2>1, <2>2 DEF Stopping
<1>6. ASSUME NEW k \in 1 .. MaxTransfers, Payload(k) PROVE Dated'
  <2>1. CASE PayloadFinishes(k)  BY <1>6, <2>1, FinishDated DEF Payload
  <2>2. CASE ~PayloadFinishes(k)
    BY <1>1, <1>6, <2>2 DEF Payload, PayloadPauses, PayloadAcquires, PayloadRefused,
                            PayloadMoves, Moves
  <2> QED  BY <2>1, <2>2
<1>7. ASSUME NEW d \in dismissals, Dismiss(d) PROVE Dated'  BY <1>7, DismissDated
<1>8. CASE UNCHANGED vars  BY <1>1, <1>8 DEF vars
<1> QED  BY <1>2, <1>3, <1>4, <1>5, <1>6, <1>7, <1>8 DEF Next

\* schedule_dismiss_transfer_display, however late its detached thread wakes up, never
\* takes down the result of another transfer: dismiss_epoch_ tells them apart.
THEOREM StationHarmlessDismissal == Spec => []HarmlessDismissal
<1>1. TypeOK /\ Dated /\ [Next]_vars => TypeOK' /\ Dated'  BY NextTyped, NextDated
<1>2. Dated => HarmlessDismissal  BY DEF Dated
<1> QED  BY <1>1, <1>2, InitTyped, InitDated, PTL DEF Spec

-----------------------------------------------------------------------------
(* The destructor leaves no loop running.                                  *)

\* How many steps of Teardown are done, and what they have seen end.  The startup
\* thread is joined by the first stop(): the second finds the loops it started.
DoneSteps == 10 - Len(todo)
Sequel == /\ Len(todo) <= 10
          /\ \A i \in 1 .. Len(todo) : todo[i] = Teardown[DoneSteps + i]
SeenEnd == /\ DoneSteps >= 4 => Over(startup)
           /\ DoneSteps >= 7 => Over(listener.at)
           /\ DoneSteps >= 8 => Over(presence.at)
InOrder == TypeOK /\ Sequel /\ SeenEnd

LEMMA TeardownSteps ==
    /\ Teardown \in Seq(Step) /\ Len(Teardown) = 10
    /\ Teardown[4] = "startup" /\ Teardown[7] = "listener" /\ Teardown[8] = "presence"
<1>1. /\ Stop \in Seq(Step) /\ Len(Stop) = 5
      /\ Stop[4] = "startup" /\ Stop[2] = "listener" /\ Stop[3] = "presence"
  BY FiveSteps DEF Stop, Step
<1>2. /\ Stop \o Stop \in Seq(Step)
      /\ Len(Stop \o Stop) = Len(Stop) + Len(Stop)
      /\ \A i \in 1 .. Len(Stop) + Len(Stop) :
            (Stop \o Stop)[i] = IF i <= Len(Stop) THEN Stop[i] ELSE Stop[i - Len(Stop)]
  BY <1>1, ConcatProperties
<1> HIDE DEF Stop
<1>3. /\ (Stop \o Stop)[4] = Stop[4] /\ (Stop \o Stop)[7] = Stop[2]
      /\ (Stop \o Stop)[8] = Stop[3]
  BY <1>1, <1>2
<1> QED  BY <1>1, <1>2, <1>3 DEF Teardown

LEMMA InitInOrder == Init => InOrder
<1> SUFFICES ASSUME Init PROVE InOrder  OBVIOUS
<1>1. todo = Teardown  BY DEF Init
<1>2. DoneSteps = 0  BY <1>1, TeardownSteps DEF DoneSteps
<1> QED  BY <1>1, <1>2, InitTyped, TeardownSteps DEF InOrder, Sequel, SeenEnd

\* The loops end, but never start again once the startup thread has ended.
LEMMA OthersInOrder ==
    ASSUME InOrder, todo' = todo,
           Over(startup) => Over(startup'),
           Over(startup) /\ Over(listener.at) => Over(listener'.at),
           Over(startup) /\ Over(presence.at) => Over(presence'.at)
    PROVE  Sequel' /\ SeenEnd'
<1>1. Len(todo) \in Nat  BY LenProperties DEF InOrder, TypeOK
<1> QED  BY <1>1 DEF InOrder, Sequel, SeenEnd, DoneSteps

LEMMA StoppingInOrder ==
    ASSUME InOrder, Stopping
    PROVE  Sequel' /\ SeenEnd'
<1>1. PICK step : Does(step) /\ Head(todo) = step
  BY DEF Stopping, StopBegins, Joins, JoinsPayload, Does
<1>2. /\ todo \in Seq(Step) /\ todo # << >> /\ todo' = Tail(todo)
      /\ Len(todo) \in Nat \ {0} /\ Len(todo') = Len(todo) - 1
      /\ \A i \in 1 .. Len(todo') : todo'[i] = todo[i + 1]
  <2>1. todo \in Seq(Step) /\ todo # << >> /\ todo' = Tail(todo)
    BY <1>1 DEF Does, InOrder, TypeOK
  <2> QED  BY <2>1, HeadTailProperties, EmptySeq
<1>3. Sequel' /\ DoneSteps' = DoneSteps + 1 /\ DoneSteps \in Nat
  BY <1>2 DEF InOrder, Sequel, DoneSteps
<1>4. step = Teardown[DoneSteps + 1]
  BY <1>1, <1>2 DEF InOrder, Sequel, DoneSteps
<1>5. /\ step = "startup" => Over(startup)
      /\ step = "listener" => Over(listener.at)
      /\ step = "presence" => Over(presence.at)
  BY <1>1 DEF Stopping, StopBegins, Joins, JoinsPayload, Does
<1>6. UNCHANGED <<startup, presence>> /\ listener'.at = listener.at
  BY DEF Stopping, StopBegins, Joins, JoinsPayload, Does, links, InOrder, TypeOK
<1>7. /\ DoneSteps = 3 => Over(startup)
      /\ DoneSteps = 6 => Over(listener.at)
      /\ DoneSteps = 7 => Over(presence.at)
  BY <1>3, <1>4, <1>5, TeardownSteps
<1> QED  BY <1>3, <1>6, <1>7 DEF InOrder, SeenEnd, Over

LEMMA NextInOrder == InOrder /\ [Next]_vars => InOrder'
<1> SUFFICES ASSUME InOrder, [Next]_vars PROVE Sequel' /\ SeenEnd'
  BY NextTyped DEF InOrder
<1> USE DEF Over, ending
<1>1. CASE todo' = todo /\ UNCHANGED <<startup, presence>> /\ listener'.at = listener.at
  BY <1>1, OthersInOrder
<1>2. CASE Starting
  BY <1>2, OthersInOrder DEF Starting, StartupBegins, StartsListener, StartsPresence, Startup,
                             links, InOrder, TypeOK
<1>3. CASE ListenLoop
  <2>1. /\ todo' = todo /\ UNCHANGED <<startup, presence>> /\ ~Over(listener.at)
    BY <1>3 DEF ListenLoop, ListenerStops, ListenerProbes, ListenerReceives, ListenerRefused,
                ListenerReturns, Listen, links
  <2> QED  BY <2>1, OthersInOrder
<1>4. CASE PresenceLoop
  <2>1. /\ todo' = todo /\ startup' = startup /\ ~Over(presence.at)
    BY <1>4 DEF PresenceLoop, TickBegins, PresenceEnds, TickLoses, TickGoesOn, TickShows,
                TickAnnounces, Announced, TickEnds, Ticks, Lost
  <2>2. listener' \in {listener, [listener EXCEPT !.paused = FALSE]}
    BY <1>4 DEF PresenceLoop, TickBegins, PresenceEnds, TickLoses, TickGoesOn, TickShows,
                TickAnnounces, Announced, TickEnds
  <2>3. listener'.at = listener.at  BY <2>2 DEF InOrder, TypeOK
  <2> QED  BY <2>1, <2>3, OthersInOrder
<1>5. CASE Begins \/ Reset \/ Replug
  BY <1>1, <1>5 DEF Begins, Reset, Replug, links, InOrder, TypeOK
<1>6. CASE Stopping  BY <1>6, StoppingInOrder
<1>7. ASSUME NEW k \in 1 .. MaxTransfers, Payload(k) PROVE Sequel' /\ SeenEnd'
  <2>1. todo' = todo /\ UNCHANGED <<startup, presence>>
    BY <1>7 DEF Payload, PayloadPauses, PayloadAcquires, PayloadRefused, PayloadMoves,
                PayloadFinishes, Moves, links
  <2>2. listener' = listener \/ (\E b \in BOOLEAN : listener' = [listener EXCEPT !.paused = b])
    BY <1>7 DEF Payload, PayloadPauses, PayloadAcquires, PayloadRefused, PayloadMoves,
                PayloadFinishes
  <2>3. listener'.at = listener.at  BY <2>2 DEF InOrder, TypeOK
  <2> QED  BY <1>1, <2>1, <2>3
<1>8. ASSUME NEW d \in dismissals, Dismiss(d) PROVE Sequel' /\ SeenEnd'
  BY <1>1, <1>8 DEF Dismiss, links
<1>9. CASE UNCHANGED vars  BY <1>1, <1>9 DEF vars, links
<1> QED  BY <1>2, <1>3, <1>4, <1>5, <1>6, <1>7, <1>8, <1>9 DEF Next

\* stop() is called twice, by the owner and by the destructor, and the first may come
\* while the startup thread has yet to start the loops: when the second is over no
\* thread of the orchestrator runs a loop on members that are about to be destroyed.
THEOREM StationNothingLeftRunning == Spec => []NothingLeftRunning
<1>1. InOrder => NothingLeftRunning
  <2> SUFFICES ASSUME InOrder, Gone PROVE Over(listener.at) /\ Over(presence.at) /\ Over(startup)
    BY DEF NothingLeftRunning
  <2>1. DoneSteps = 10  BY EmptySeq DEF Gone, DoneSteps
  <2> QED  BY <2>1 DEF InOrder, SeenEnd
<1> QED  BY <1>1, InitInOrder, NextInOrder, PTL DEF Spec

=============================================================================
