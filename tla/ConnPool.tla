------------------------------ MODULE ConnPool ------------------------------
(***************************************************************************)
(* The connection pool of internal/tunnel/pool.go.                         *)
(*                                                                         *)
(* A pool bounds two things for one tunnel handler: the number of sessions *)
(* admitted at a time, and the number of them that may be dialling and     *)
(* performing the handshake at a time.  The operators below are the pool's *)
(* methods; TunnelHandler drives them from the accept loops, the workers   *)
(* and Stop.  Each operator is one critical section of p.mu, or one        *)
(* operation on the channel p.sem.                                         *)
(***************************************************************************)
EXTENDS Naturals, FiniteSets

CONSTANTS
    Conn,         \* the connections clients may open, by identity
    Slots,        \* capacity of the channel p.sem
    MaxSessions   \* maxSessionsPerTunnel (256 in the code)

ASSUME SlotsAssumption == Slots \in Nat \ {0}
ASSUME MaxSessionsAssumption == MaxSessions \in Nat \ {0}

VARIABLES
    sem,        \* len(p.sem): tokens in the channel, not who put them there
    sessions,   \* p.sessions
    stopped,    \* p.stopped
    closed      \* accepted connections on which this process called Close

poolVars == <<sem, sessions, stopped, closed>>

PoolTypeOK ==
    /\ sem \in 0..Slots
    /\ sessions \subseteq Conn
    /\ IsFiniteSet(sessions)
    /\ stopped \in BOOLEAN
    /\ closed \subseteq Conn

NewConnPool ==
    /\ sem = 0
    /\ sessions = {}
    /\ stopped = FALSE
    /\ closed = {}

-----------------------------------------------------------------------------

(* Mutant: Run forgets that the pool is stopped. *)
FullByCount == Cardinality(sessions) >= MaxSessions

Full == stopped \/ Cardinality(sessions) >= MaxSessions

(* Run, when the session is refused: the connection is closed, no worker. *)
Refuse(c) ==
    /\ Full
    /\ closed' = closed \cup {c}
    /\ UNCHANGED <<sem, sessions, stopped>>

(* Run, when the session is registered (before its goroutine starts). *)
Admit(c) ==
    /\ ~Full
    /\ sessions' = sessions \cup {c}
    /\ UNCHANGED <<sem, stopped, closed>>

CloseConn(c) ==
    /\ closed' = closed \cup {c}
    /\ UNCHANGED <<sem, sessions, stopped>>

(* The deferred delete of Run's goroutine. *)
Forget(c) ==
    /\ sessions' = sessions \ {c}
    /\ UNCHANGED <<sem, stopped, closed>>

(* CloseAll holds p.mu over the flag and the whole loop. *)
CloseAll ==
    /\ stopped' = TRUE
    /\ closed' = closed \cup sessions
    /\ UNCHANGED <<sem, sessions>>

(* The send on p.sem in Acquire: possible when the channel is not full. *)
TakeSlot ==
    /\ sem < Slots
    /\ sem' = sem + 1
    /\ UNCHANGED <<sessions, stopped, closed>>

(* Release receives from p.sem, and would block for ever on an empty one. *)
Release ==
    /\ sem > 0
    /\ sem' = sem - 1
    /\ UNCHANGED <<sessions, stopped, closed>>

=============================================================================
