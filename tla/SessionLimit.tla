---------------------------- MODULE SessionLimit ----------------------------
(***************************************************************************)
(* What a tunnel handler promises about its sessions, without saying how:  *)
(* at most MaxSessions are live, at most Slots of them are in setup, none  *)
(* leaves while it holds a setup slot, and after Close none is admitted.   *)
(* TunnelHandler implements it.                                            *)
(***************************************************************************)
EXTENDS Naturals, FiniteSets

CONSTANTS Conn, Slots, MaxSessions

VARIABLES
    open,     \* sessions are still admitted
    live,     \* the admitted sessions
    setup     \* those holding a setup slot

vars == <<open, live, setup>>

Init == open = TRUE /\ live = {} /\ setup = {}

Enter(c) ==
    /\ open
    /\ c \notin live
    /\ Cardinality(live) < MaxSessions
    /\ live' = live \cup {c}
    /\ UNCHANGED <<open, setup>>

BeginSetup(c) ==
    /\ c \in live \ setup
    /\ Cardinality(setup) < Slots
    /\ setup' = setup \cup {c}
    /\ UNCHANGED <<open, live>>

EndSetup(c) ==
    /\ c \in setup
    /\ setup' = setup \ {c}
    /\ UNCHANGED <<open, live>>

Leave(c) ==
    /\ c \in live \ setup
    /\ live' = live \ {c}
    /\ UNCHANGED <<open, setup>>

Close ==
    /\ open
    /\ open' = FALSE
    /\ UNCHANGED <<live, setup>>

Next ==
    \/ Close
    \/ \E c \in Conn : Enter(c) \/ BeginSetup(c) \/ EndSetup(c) \/ Leave(c)

Spec == Init /\ [][Next]_vars

=============================================================================
