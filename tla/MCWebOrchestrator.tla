-------------------------- MODULE MCWebOrchestrator --------------------------
(***************************************************************************)
(* The browser app with two sessions: two sends one after the other, a     *)
(* send and an offer that cross, or two offers that follow one another.    *)
(***************************************************************************)
EXTENDS WebOrchestrator

CONSTANTS s1, s2, o1, o2

WebSends == {s1, s2}
WebInbound == {o1, o2}
WebWorkloads == {[sends |-> {s1, s2}, offers |-> {}],
                 [sends |-> {s1}, offers |-> {o1}],
                 [sends |-> {}, offers |-> {o1, o2}]}
OneSend == {[sends |-> {s1}, offers |-> {}]}
=============================================================================
