---------------------------- MODULE TunnelHandler ----------------------------
(***************************************************************************)
(* One TCP or KCP tunnel handler (internal/tunnel/tcp.go and kcp.go) with  *)
(* its connection pool: Start binds the local ports one at a time and      *)
(* spawns an accept loop for each, a loop hands every accepted connection  *)
(* to the pool, an admitted connection gets a worker goroutine that        *)
(* acquires a setup slot, dials and performs the handshake, gives the slot *)
(* back, proxies, and unwinds; Stop cancels the context, closes the pool   *)
(* and then closes the listeners, in three separate steps.                 *)
(*                                                                         *)
(* The manager calls Start once and Stop afterwards under its own mutex,   *)
(* so the two never overlap on one handler (TunnelLifecycle); everything   *)
(* else here runs concurrently.                                            *)
(***************************************************************************)
EXTENDS ConnPool

CONSTANTS
    Port,        \* the local ports the handler binds
    Mode,        \* "iran": dial, then handshake as client;
                 \* "overseas": handshake as server, then dial the target
    Transport    \* "tcp" or "kcp": kcp.DialWithOptions takes no context

ASSUME ModeAssumption == Mode \in {"iran", "overseas"}
ASSUME TransportAssumption == Transport \in {"tcp", "kcp"}

VARIABLES
    phase,      \* where the caller of Start and Stop is
    ctxDone,    \* h.ctx is cancelled
    listener,   \* per port: not bound, bound, or closed
    loop,       \* per port: its accept goroutine
    inHand,     \* per port: the connection accepted and not yet given to Run
    pc,         \* per connection: where its worker goroutine is
    expired,    \* workers whose Acquire timeout (10 s) has passed
    released,   \* workers whose `released` flag is set
    remote      \* per worker: the second connection, dialled by the worker

handlerVars == <<phase, ctxDone, listener, loop, inHand>>
workerVars == <<pc, expired, released, remote>>
vars == <<poolVars, handlerVars, workerVars>>

Phases == {"new", "binding", "up", "failed", "cancelled", "poolClosed", "down"}

(* States of a worker between the end of Acquire and the deferred release. *)
AfterGrant == {"granted", "dialing", "dialed", "handshaking", "ready",
               "proxying", "unwinding", "releasing"}
WorkerStates == {"admitted", "waiting", "leaving", "closing"} \cup AfterGrant
PcStates == {"new", "accepted", "refused", "gone"} \cup WorkerStates

Holders == {c \in Conn : pc[c] \in AfterGrant /\ c \notin released}

TypeOK ==
    /\ PoolTypeOK
    /\ phase \in Phases
    /\ ctxDone \in BOOLEAN
    /\ listener \in [Port -> {"none", "open", "closed"}]
    /\ loop \in [Port -> {"off", "looping", "exited"}]
    /\ inHand \in [Port -> SUBSET Conn]
    /\ pc \in [Conn -> PcStates]
    /\ expired \subseteq Conn
    /\ released \subseteq Conn
    /\ remote \in [Conn -> {"none", "open", "closed"}]

Init ==
    /\ NewConnPool
    /\ phase = "new"
    /\ ctxDone = FALSE
    /\ listener = [p \in Port |-> "none"]
    /\ loop = [p \in Port |-> "off"]
    /\ inHand = [p \in Port |-> {}]
    /\ pc = [c \in Conn |-> "new"]
    /\ expired = {}
    /\ released = {}
    /\ remote = [c \in Conn |-> "none"]

Goto(c, from, to) == pc[c] = from /\ pc' = [pc EXCEPT ![c] = to]

-----------------------------------------------------------------------------
(* Start and Stop.                                                         *)

BeginStart ==
    /\ phase = "new"
    /\ phase' = "binding"
    /\ UNCHANGED <<poolVars, workerVars, ctxDone, listener, loop, inHand>>

(* A bound port accepts at once, while later ports are still being bound. *)
BindPort(p) ==
    /\ phase = "binding"
    /\ listener[p] = "none"
    /\ listener' = [listener EXCEPT ![p] = "open"]
    /\ loop' = [loop EXCEPT ![p] = "looping"]
    /\ UNCHANGED <<poolVars, workerVars, phase, ctxDone, inHand>>

(* A port that does not parse or is in use: Start stops what it started. *)
BindFails ==
    /\ phase = "binding"
    /\ \E p \in Port : listener[p] = "none"
    /\ phase' = "failed"
    /\ UNCHANGED <<poolVars, workerVars, ctxDone, listener, loop, inHand>>

StartReturns ==
    /\ phase = "binding"
    /\ \A p \in Port : listener[p] = "open"
    /\ phase' = "up"
    /\ UNCHANGED <<poolVars, workerVars, ctxDone, listener, loop, inHand>>

StopCancels ==
    /\ phase \in {"up", "failed"}
    /\ phase' = "cancelled"
    /\ ctxDone' = TRUE
    /\ UNCHANGED <<poolVars, workerVars, listener, loop, inHand>>

StopClosesPool ==
    /\ phase = "cancelled"
    /\ phase' = "poolClosed"
    /\ CloseAll
    /\ UNCHANGED <<workerVars, ctxDone, listener, loop, inHand>>

(* After a failed Start the manager calls Stop again: it changes nothing. *)
StopClosesListeners ==
    /\ phase = "poolClosed"
    /\ phase' = "down"
    /\ listener' = [p \in Port |->
                       IF listener[p] = "open" THEN "closed" ELSE listener[p]]
    /\ UNCHANGED <<poolVars, workerVars, ctxDone, loop, inHand>>

-----------------------------------------------------------------------------
(* The accept loops.                                                       *)

Accept(p, c) ==
    /\ loop[p] = "looping"
    /\ inHand[p] = {}
    /\ listener[p] = "open"
    /\ Goto(c, "new", "accepted")
    /\ inHand' = [inHand EXCEPT ![p] = {c}]
    /\ UNCHANGED <<poolVars, phase, ctxDone, listener, loop,
                   expired, released, remote>>

(* Accept failed.  The loop retries, unless the context is done. *)
LoopExits(p) ==
    /\ loop[p] = "looping"
    /\ inHand[p] = {}
    /\ ctxDone
    /\ loop' = [loop EXCEPT ![p] = "exited"]
    /\ UNCHANGED <<poolVars, workerVars, phase, ctxDone, listener, inHand>>

RunRefuses(p, c) ==
    /\ c \in inHand[p]
    /\ Refuse(c)
    /\ Goto(c, "accepted", "refused")
    /\ inHand' = [inHand EXCEPT ![p] = {}]
    /\ UNCHANGED <<phase, ctxDone, listener, loop, expired, released, remote>>

RunAdmits(p, c) ==
    /\ c \in inHand[p]
    /\ Admit(c)
    /\ Goto(c, "accepted", "admitted")
    /\ inHand' = [inHand EXCEPT ![p] = {}]
    /\ UNCHANGED <<phase, ctxDone, listener, loop, expired, released, remote>>

-----------------------------------------------------------------------------
(* A worker: Acquire.                                                      *)

AcquireCtxDone(c) == ctxDone \/ c \in expired

(* The check before the select: the timeout has only just been armed. *)
AcquireBegins(c) ==
    /\ IF ctxDone THEN Goto(c, "admitted", "leaving")
                  ELSE Goto(c, "admitted", "waiting")
    /\ UNCHANGED <<poolVars, handlerVars, expired, released, remote>>

AcquireExpires(c) ==
    /\ pc[c] \in {"waiting", "granted"}
    /\ c \notin expired
    /\ expired' = expired \cup {c}
    /\ UNCHANGED <<poolVars, handlerVars, pc, released, remote>>

AcquireGrants(c) ==
    /\ TakeSlot
    /\ Goto(c, "waiting", "granted")
    /\ UNCHANGED <<handlerVars, expired, released, remote>>

AcquireGivesUp(c) ==
    /\ AcquireCtxDone(c)
    /\ Goto(c, "waiting", "leaving")
    /\ UNCHANGED <<poolVars, handlerVars, expired, released, remote>>

(* Mutant: the error return after the grant forgets p.Release(). *)
BacksOutKeepingSlot(c) ==
    /\ AcquireCtxDone(c)
    /\ Goto(c, "granted", "leaving")
    /\ UNCHANGED <<poolVars, handlerVars, expired, released, remote>>

(* The grant raced with the timeout or with Stop: the slot goes back. *)
AcquireBacksOut(c) ==
    /\ AcquireCtxDone(c)
    /\ Release
    /\ Goto(c, "granted", "leaving")
    /\ UNCHANGED <<handlerVars, expired, released, remote>>

AcquireReturns(c) ==
    /\ ~AcquireCtxDone(c)
    /\ Goto(c, "granted", IF Mode = "iran" THEN "dialing" ELSE "handshaking")
    /\ UNCHANGED <<poolVars, handlerVars, expired, released, remote>>

-----------------------------------------------------------------------------
(* A worker: dial and handshake, in the order of its mode.                 *)

(* DialContext fails once the context is done; the KCP dial does not look. *)
DialAllowed == ~ctxDone \/ (Mode = "iran" /\ Transport = "kcp")

DialSucceeds(c) ==
    /\ DialAllowed
    /\ Goto(c, "dialing", IF Mode = "iran" THEN "dialed" ELSE "ready")
    /\ remote' = [remote EXCEPT ![c] = "open"]
    /\ UNCHANGED <<poolVars, handlerVars, expired, released>>

(* context.AfterFunc(h.ctx, remoteConn.Close), armed right after the dial. *)
ArmAfterFunc(c) ==
    /\ Goto(c, "dialed", "handshaking")
    /\ UNCHANGED <<poolVars, handlerVars, expired, released, remote>>

HandshakeSucceeds(c) ==
    /\ IF Mode = "iran" THEN remote[c] = "open" ELSE c \notin closed
    /\ Goto(c, "handshaking", IF Mode = "iran" THEN "ready" ELSE "dialing")
    /\ UNCHANGED <<poolVars, handlerVars, expired, released, remote>>

(* Mutant: no deadline on the handshake; only a closed connection ends it. *)
SetupFailsUnlessSilent(c) ==
    /\ \/ Goto(c, "dialing", IF Mode = "iran" THEN "releasing" ELSE "unwinding")
       \/ /\ IF Mode = "iran" THEN remote[c] # "open" ELSE c \in closed
          /\ Goto(c, "handshaking",
                  IF Mode = "iran" THEN "unwinding" ELSE "releasing")
    /\ UNCHANGED <<poolVars, handlerVars, expired, released, remote>>

(* An error, a closed connection or the 10 s deadline ends the setup.  A   *)
(* failure of its first half has registered no deferred Close yet.         *)
SetupFails(c) ==
    /\ \/ Goto(c, "dialing", IF Mode = "iran" THEN "releasing" ELSE "unwinding")
       \/ Goto(c, "handshaking",
               IF Mode = "iran" THEN "unwinding" ELSE "releasing")
    /\ UNCHANGED <<poolVars, handlerVars, expired, released, remote>>

(* release() before the long-lived proxy loop. *)
Establish(c) ==
    /\ Release
    /\ released' = released \cup {c}
    /\ Goto(c, "ready", "proxying")
    /\ UNCHANGED <<handlerVars, expired, remote>>

-----------------------------------------------------------------------------
(* A worker: proxying and unwinding.                                       *)

(* Connections a pending AfterFunc closes: the dialled one in the client   *)
(* setup, both once ProxyBidirectionalContext runs.                        *)
Guarded(c) ==
    \/ pc[c] = "proxying"
    \/ Mode = "iran" /\ pc[c] \in {"handshaking", "ready"}

AfterFuncCloses(c) ==
    /\ ctxDone
    /\ Guarded(c)
    /\ remote[c] = "open" \/ (pc[c] = "proxying" /\ c \notin closed)
    /\ remote' = [remote EXCEPT ![c] = "closed"]
    /\ closed' = IF pc[c] = "proxying" THEN closed \cup {c} ELSE closed
    /\ UNCHANGED <<sem, sessions, stopped, handlerVars, pc, expired, released>>

(* Both peers finished, an I/O error, the idle watcher, or cancellation:   *)
(* the proxy returns with both connections closed.                         *)
ProxyEnds(c) ==
    /\ Goto(c, "proxying", "unwinding")
    /\ remote' = [remote EXCEPT ![c] = "closed"]
    /\ CloseConn(c)
    /\ UNCHANGED <<handlerVars, expired, released>>

(* Mutant: no deferred remoteConn.Close. *)
UnwindForgettingRemote(c) ==
    /\ Goto(c, "unwinding", "releasing")
    /\ UNCHANGED <<poolVars, handlerVars, expired, released, remote>>

(* Deferred calls, last first: the dialled connection and secureConn, which *)
(* wraps c on the server side, then release, then c.                       *)
UnwindRemote(c) ==
    /\ Goto(c, "unwinding", "releasing")
    /\ remote' = [remote EXCEPT ![c] = IF @ = "open" THEN "closed" ELSE @]
    /\ IF Mode = "overseas" THEN CloseConn(c) ELSE UNCHANGED poolVars
    /\ UNCHANGED <<handlerVars, expired, released>>

(* Mutant: the deferred release does not look at the released flag. *)
UnwindReleasesAgain(c) ==
    /\ Goto(c, "releasing", "leaving")
    /\ Release
    /\ released' = released \cup {c}
    /\ UNCHANGED <<handlerVars, expired, remote>>

UnwindRelease(c) ==
    /\ Goto(c, "releasing", "leaving")
    /\ IF c \in released
          THEN UNCHANGED <<poolVars, released>>
          ELSE Release /\ released' = released \cup {c}
    /\ UNCHANGED <<handlerVars, expired, remote>>

UnwindClose(c) ==
    /\ Goto(c, "leaving", "closing")
    /\ CloseConn(c)
    /\ UNCHANGED <<handlerVars, expired, released, remote>>

UnwindForget(c) ==
    /\ Goto(c, "closing", "gone")
    /\ Forget(c)
    /\ UNCHANGED <<handlerVars, expired, released, remote>>

-----------------------------------------------------------------------------

HandlerStep ==
    \/ BeginStart \/ BindFails \/ StartReturns
    \/ StopCancels \/ StopClosesPool \/ StopClosesListeners
    \/ \E p \in Port : BindPort(p)

LoopStep(p) ==
    \/ LoopExits(p)
    \/ \E c \in Conn : Accept(p, c) \/ RunRefuses(p, c) \/ RunAdmits(p, c)

(* Setup steps that need no peer. *)
LocalStep(c) ==
    \/ AcquireBegins(c) \/ AcquireGrants(c) \/ AcquireGivesUp(c)
    \/ AcquireBacksOut(c) \/ AcquireReturns(c)
    \/ ArmAfterFunc(c) \/ Establish(c)

SetupStep(c) ==
    LocalStep(c) \/ DialSucceeds(c) \/ HandshakeSucceeds(c) \/ SetupFails(c)

UnwindStep(c) ==
    UnwindRemote(c) \/ UnwindRelease(c) \/ UnwindClose(c) \/ UnwindForget(c)

WorkerStep(c) ==
    \/ SetupStep(c) \/ AcquireExpires(c)
    \/ AfterFuncCloses(c) \/ ProxyEnds(c) \/ UnwindStep(c)

Next ==
    \/ HandlerStep
    \/ \E p \in Port : LoopStep(p)
    \/ \E c \in Conn : WorkerStep(c)

Spec == Init /\ [][Next]_vars

(* A started Start or Stop runs to its end, but nobody has to call Stop    *)
(* on a healthy handler, no client has to connect and no peer to answer:   *)
(* the deadlines on dial and handshake are what ends a silent setup.  A    *)
(* proxy session need not end while its context is alive.                  *)
Fairness ==
    /\ WF_vars(StopClosesPool)
    /\ WF_vars(StopClosesListeners)
    /\ WF_vars(phase = "failed" /\ StopCancels)
    /\ \A p \in Port :
         /\ WF_vars(listener[p] = "closed" /\ LoopExits(p))
         /\ WF_vars(\E c \in Conn : RunRefuses(p, c) \/ RunAdmits(p, c))
    /\ \A c \in Conn :
         /\ WF_vars(LocalStep(c))
         /\ WF_vars(SetupFails(c))
         /\ WF_vars(AcquireExpires(c))
         /\ WF_vars(ctxDone /\ ProxyEnds(c))
         /\ WF_vars(UnwindStep(c))

FairSpec == Spec /\ Fairness

-----------------------------------------------------------------------------
(* Properties.                                                             *)

(* The channel counts exactly the workers inside setup: whatever way a     *)
(* worker leaves (timeout racing the grant, failed dial or handshake,      *)
(* cancellation, normal establishment followed by the deferred release),   *)
(* its slot was given back once, so no slot leaks and none is freed twice. *)
SlotsAccounted == sem = Cardinality(Holders)

(* No goroutine backlog: workers in any state are registered sessions, and *)
(* there are never more than MaxSessions of them.                          *)
BoundedWorkers ==
    /\ \A c \in Conn : pc[c] \in WorkerStates <=> c \in sessions
    /\ Cardinality(sessions) <= MaxSessions

(* Once the pool is closed, every admitted connection is closed, so no     *)
(* read of a worker can outlive Stop: nothing slips in between CloseAll    *)
(* and the closing of the listeners.                                       *)
StopReachesEveryConn == stopped => sessions \subseteq closed

(* A worker that is gone left no connection behind: neither the client's   *)
(* nor the one it dialled, even when Stop or a timeout hit mid-setup.      *)
NothingLeftOpen ==
    \A c \in Conn :
        /\ remote[c] = "open" => pc[c] \in AfterGrant
        /\ pc[c] \in {"gone", "refused"} => c \in closed /\ remote[c] # "open"

(* "Once stopped, a pool never admits another session" (pool.go:58), also  *)
(* for connections accepted before the listeners are closed.               *)
NoAdmissionAfterStop == [][stopped => sessions' \subseteq sessions]_vars

(* From cancellation on the handler drains for good: loops exit, workers   *)
(* unwind, every slot and every connection is given back.                  *)
Drained ==
    /\ sem = 0
    /\ sessions = {}
    /\ \A p \in Port : loop[p] # "looping" /\ listener[p] # "open"
    /\ \A c \in Conn : pc[c] \in {"new", "refused", "gone"}
                       /\ remote[c] # "open"
StopDrains == ctxDone ~> []Drained

(* Even when the peer never answers, a worker in setup gives its slot back *)
(* ("otherwise a hung/unresponsive overseas peer would block this          *)
(* goroutine (and leak the fd, and its pool slot) indefinitely",           *)
(* tcp.go:132-134).                                                        *)
SlotsComeBack == \A c \in Conn : c \in Holders ~> c \notin Holders

(* The handler implements the session limit: the code's counter, map and   *)
(* flags behave like the abstract sets of live and of setting-up sessions. *)
Limit == INSTANCE SessionLimit
            WITH open <- ~stopped, live <- sessions, setup <- Holders
ImplementsLimit == Limit!Spec

=============================================================================
