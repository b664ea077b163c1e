----------------------------- MODULE Handshake -----------------------------
(***************************************************************************)
(* What the handshake promises to the users of two stations: a session is  *)
(* offered with one staged file, the other user is asked, agrees or not,   *)
(* the station takes it up, and the file is delivered, once, or given up.  *)
(* A station that asks first takes up only what its user agreed to when he *)
(* was asked.  As long as nothing disturbs the stations (calm), the file   *)
(* delivered is the one offered in the session that its receiver has taken *)
(* up, a station takes up one session at a time, and nobody is asked about *)
(* a session that is over.  Orchestrator implements it.                    *)
(***************************************************************************)
EXTENDS Naturals

CONSTANTS Node, AskFirst, MaxSessions

VARIABLES
    made,           \* number of sessions offered
    maker,          \* who offered each
    staged,         \* sessions whose file is staged
    asked,          \* per station, the session its user is asked about
    agreed,         \* sessions a user agreed to
    taking,         \* per station, the session it has taken up
    delivered,      \* <<s, f>>: the file of f arrived in session s
    calm            \* no cable was lost and no thread was held up

vars == <<made, maker, staged, asked, agreed, taking, delivered, calm>>

None == 0

Init == /\ made = 0 /\ maker \in [1..MaxSessions -> Node]
        /\ staged = {} /\ agreed = {} /\ delivered = {}
        /\ asked = [n \in Node |-> None] /\ taking = [n \in Node |-> None]
        /\ calm \in BOOLEAN

FromAnother(n, s) == s \in 1..made /\ maker[s] # n
Over(s) == \E d \in delivered : d[1] = s
Permitted(n, s) == n \in AskFirst => s \in agreed

Offer(n) == /\ made < MaxSessions
            /\ made' = made + 1
            /\ maker' = [maker EXCEPT ![made + 1] = n]
            /\ staged' = staged \cup {made + 1}
            /\ UNCHANGED <<asked, agreed, taking, delivered, calm>>

Ask(n, s) == /\ FromAnother(n, s)
             /\ calm => taking[n] = None /\ ~Over(s)
             /\ asked' = [asked EXCEPT ![n] = s]
             /\ UNCHANGED <<made, maker, staged, agreed, taking, delivered, calm>>

Dismiss(n) == /\ asked' = [asked EXCEPT ![n] = None]
              /\ UNCHANGED <<made, maker, staged, agreed, taking, delivered, calm>>

\* The user agrees; the station may find that it has taken up the session already,
\* or has had it.
Agree(n) == /\ asked[n] # None
            /\ agreed' = agreed \cup {asked[n]}
            /\ asked' \in {asked, [asked EXCEPT ![n] = None]}
            /\ UNCHANGED <<made, maker, staged, taking, delivered, calm>>

TakeUp(n) == /\ asked[n] # None
             /\ agreed' \in {agreed, agreed \cup {asked[n]}}
             /\ n \in AskFirst => asked[n] \in agreed'
             /\ calm => taking[n] = None /\ ~Over(asked[n])
             /\ asked' = [asked EXCEPT ![n] = None]
             /\ taking' = [taking EXCEPT ![n] = asked[n]]
             /\ UNCHANGED <<made, maker, staged, delivered, calm>>

Drop(n) == /\ taking' = [taking EXCEPT ![n] = None]
           /\ UNCHANGED <<made, maker, staged, asked, agreed, delivered, calm>>

Deliver(n, s, f) == /\ FromAnother(n, s) /\ Permitted(n, s)
                    /\ FromAnother(n, f) /\ f \in staged
                    /\ calm => f = s /\ taking[n] = s
                    /\ delivered' = delivered \cup {<<s, f>>}
                    /\ staged' = staged \ {f}
                    /\ UNCHANGED <<made, maker, asked, agreed, taking, calm>>

GiveUp(f) == /\ f \in staged
             /\ staged' = staged \ {f}
             /\ UNCHANGED <<made, maker, asked, agreed, taking, delivered, calm>>

Disturb == /\ calm' = FALSE
           /\ UNCHANGED <<made, maker, staged, asked, agreed, taking, delivered>>

Next == \/ \E n \in Node : \/ Offer(n) \/ Dismiss(n) \/ Agree(n) \/ TakeUp(n) \/ Drop(n)
                           \/ \E s \in 1..made : Ask(n, s)
                           \/ \E s, f \in 1..made : Deliver(n, s, f)
        \/ \E f \in staged : GiveUp(f)
        \/ Disturb

Spec == Init /\ [][Next]_vars
=============================================================================
