------------------------------ MODULE ByteProxy ------------------------------
(***************************************************************************)
(* One proxied session: proxyWithTimeout of internal/tunnel/helper.go with *)
(* its two pumps, the idle watcher and the context's AfterFunc.            *)
(*                                                                         *)
(* The two connections are the sides 1 and 2.  The pump of side s reads    *)
(* from s and writes to the other side; bytes travel in chunks, and only   *)
(* how many of them are where is kept.  Time advances in quarters of the   *)
(* timeout, the period of the watcher's ticker; ages stop at Timeout, so   *)
(* time itself needs no bound.  The peers behind the connections send,     *)
(* finish, read or stop reading, or vanish, as they please.                *)
(***************************************************************************)
EXTENDS Naturals

CONSTANTS
    HalfClose,   \* sides whose CloseWrite sends an end of stream (not KCP's)
    Timeout,     \* the session's idle timeout, in ticks: 4 in the code
    MaxChunks,   \* bound: chunks the two peers send together
    Buffer       \* bound: chunks a connection takes before Write blocks

ASSUME HalfCloseAssumption == HalfClose \subseteq {1, 2}
ASSUME TimeoutAssumption == Timeout \in Nat \ {0}
ASSUME MaxChunksAssumption == MaxChunks \in Nat
ASSUME BufferAssumption == Buffer \in Nat \ {0}

VARIABLES
    out,         \* per side: the peer's sending end: open, finished or reset
    reads,       \* per side: the peer's receiving end: open or closed
    sent,        \* per side: chunks its peer has sent
    backlog,     \* per side: chunks written to it that its peer has not read
    pc,          \* per side: where the pump that reads it is
    taken,       \* per side: chunks the pump has read from it
    delivered,   \* per side: chunks written to it
    finSent,     \* sides whose peer was sent an end of stream by halfCloseWrite
    closed,      \* sides whose connection was closed by this process
    ctx,         \* the session's context: live or done
    closer,      \* the AfterFunc: armed, its two Close calls, done, or stopped
    watch,       \* the watcher goroutine
    tick,        \* the ticker's channel holds a tick
    main,        \* proxyWithTimeout itself
    idle,        \* age of the activity clock
    quiet,       \* history: time since a chunk was last read or written
    writeAge     \* per side: age of the deadline of the write in progress, else 0

peerVars == <<out, reads, sent>>
dataVars == <<backlog, taken, delivered, finSent>>
ctlVars == <<closed, ctx, closer, watch, tick, main>>
timeVars == <<idle, quiet, writeAge>>
vars == <<peerVars, dataVars, ctlVars, timeVars, pc>>

Side == {1, 2}
Other(s) == 3 - s

PumpStates == {"check", "read", "seen", "write", "wrote",
               "eof", "failed", "done"}

TypeOK ==
    /\ finSent \subseteq Side /\ closed \subseteq Side
    /\ out \in [Side -> {"open", "fin", "reset"}]
    /\ reads \in [Side -> {"open", "closed"}]
    /\ sent \in [Side -> Nat] /\ taken \in [Side -> Nat]
    /\ backlog \in [Side -> Nat] /\ delivered \in [Side -> Nat]
    /\ pc \in [Side -> PumpStates]
    /\ ctx \in {"live", "done"}
    /\ closer \in {"armed", "first", "second", "done", "stopped"}
    /\ watch \in {"waiting", "cut", "gone"}
    /\ tick \in {"none", "pending"}
    /\ main \in {"pumping", "joining", "closing", "returned"}
    /\ idle \in 0..Timeout /\ quiet \in 0..Timeout
    /\ writeAge \in [Side -> 0..Timeout]

Init ==
    /\ out = [s \in Side |-> "open"]
    /\ reads = [s \in Side |-> "open"]
    /\ sent = [s \in Side |-> 0]
    /\ backlog = [s \in Side |-> 0]
    /\ pc = [s \in Side |-> "check"]
    /\ taken = [s \in Side |-> 0]
    /\ delivered = [s \in Side |-> 0]
    /\ finSent = {} /\ closed = {}
    /\ ctx = "live" /\ closer = "armed"
    /\ watch = "waiting" /\ tick = "none" /\ main = "pumping"
    /\ idle = 0 /\ quiet = 0
    /\ writeAge = [s \in Side |-> 0]

Goto(s, from, to) == pc[s] = from /\ pc' = [pc EXCEPT ![s] = to]
IfLive(next) == IF ctx = "live" THEN next ELSE "failed"

(* cancel(): the AfterFunc starts, unless it was stopped or runs already.  *)
Cancel ==
    /\ ctx' = "done"
    /\ closer' = IF closer = "armed" THEN "first" ELSE closer

-----------------------------------------------------------------------------
(* The peers, as long as their connection is open at this end, and time.   *)

PeerSends(s) ==
    /\ s \notin closed
    /\ out[s] = "open" /\ sent[1] + sent[2] < MaxChunks
    /\ sent' = [sent EXCEPT ![s] = @ + 1]
    /\ UNCHANGED <<out, reads, dataVars, ctlVars, timeVars, pc>>

PeerReads(s) ==
    /\ s \notin closed
    /\ reads[s] = "open" /\ backlog[s] > 0
    /\ backlog' = [backlog EXCEPT ![s] = @ - 1]
    /\ UNCHANGED <<peerVars, taken, delivered, finSent, ctlVars, timeVars, pc>>

(* The peer finishes sending, and may stop reading with it.                *)
PeerFinishes(s) ==
    /\ s \notin closed
    /\ out[s] = "open"
    /\ out' = [out EXCEPT ![s] = "fin"]
    /\ reads' \in {reads, [reads EXCEPT ![s] = "closed"]}
    /\ UNCHANGED <<sent, dataVars, ctlVars, timeVars, pc>>

PeerVanishes(s) ==
    /\ s \notin closed
    /\ out[s] # "reset"
    /\ out' = [out EXCEPT ![s] = "reset"]
    /\ reads' = [reads EXCEPT ![s] = "closed"]
    /\ UNCHANGED <<sent, dataVars, ctlVars, timeVars, pc>>

Aged(a) == IF a < Timeout THEN a + 1 ELSE a

(* A quarter of the timeout passes.  A tick nobody took yet is not doubled. *)
(* A cancelled session needs no clock: the closed connections end it.      *)
TimePasses ==
    /\ ctx = "live"
    /\ idle' = Aged(idle)
    /\ quiet' = Aged(quiet)
    /\ writeAge' = [s \in Side |-> IF pc[s] = "write" THEN Aged(writeAge[s]) ELSE 0]
    /\ tick' = "pending"
    /\ UNCHANGED <<peerVars, dataVars, closed, ctx, closer, watch, main, pc>>

-----------------------------------------------------------------------------
(* copyWithActivity, run by the pump of side s.                            *)

(* The check before a read; later ones are part of StampWrite.             *)
CheckContext(s) ==
    /\ Goto(s, "check", IfLive("read"))
    /\ UNCHANGED <<peerVars, dataVars, ctlVars, timeVars>>

ReadChunk(s) ==
    /\ s \notin closed /\ out[s] # "reset"
    /\ taken[s] < sent[s]
    /\ Goto(s, "read", "seen")
    /\ taken' = [taken EXCEPT ![s] = @ + 1]
    /\ quiet' = 0
    /\ UNCHANGED <<peerVars, backlog, delivered, finSent, ctlVars, idle, writeAge>>

ReadEof(s) ==
    /\ s \notin closed /\ out[s] = "fin"
    /\ taken[s] = sent[s]
    /\ Goto(s, "read", "eof")
    /\ UNCHANGED <<peerVars, dataVars, ctlVars, timeVars>>

ReadFails(s) ==
    /\ s \in closed \/ out[s] = "reset"
    /\ Goto(s, "read", "failed")
    /\ UNCHANGED <<peerVars, dataVars, ctlVars, timeVars>>

(* Mutant: the activity clock is not touched by reads. *)
StampDeadlineOnly(s) ==
    /\ Goto(s, "seen", IfLive("write"))
    /\ writeAge' = [writeAge EXCEPT ![s] = 0]
    /\ UNCHANGED <<peerVars, dataVars, ctlVars, idle, quiet>>

(* activity.Store and SetWriteDeadline after a read, and the context check: *)
(* nothing another goroutine does can tell the three apart.                *)
StampRead(s) ==
    /\ Goto(s, "seen", IfLive("write"))
    /\ idle' = 0
    /\ writeAge' = [writeAge EXCEPT ![s] = 0]
    /\ UNCHANGED <<peerVars, dataVars, ctlVars, quiet>>

(* Data written to a peer that is going away may still be taken.           *)
WriteChunk(s) ==
    LET d == Other(s) IN
    /\ d \notin closed /\ out[d] # "reset"
    /\ backlog[d] < Buffer
    /\ Goto(s, "write", "wrote")
    /\ backlog' = [backlog EXCEPT ![d] = @ + 1]
    /\ delivered' = [delivered EXCEPT ![d] = @ + 1]
    /\ quiet' = 0
    /\ writeAge' = [writeAge EXCEPT ![s] = 0]
    /\ UNCHANGED <<peerVars, taken, finSent, ctlVars, idle>>

(* Closed here, refused by the peer, or blocked until the write deadline.  *)
WriteFails(s) ==
    LET d == Other(s) IN
    /\ d \in closed \/ reads[d] = "closed" \/ writeAge[s] = Timeout
    /\ Goto(s, "write", "failed")
    /\ writeAge' = [writeAge EXCEPT ![s] = 0]
    /\ UNCHANGED <<peerVars, dataVars, ctlVars, idle, quiet>>

StampWrite(s) ==
    /\ Goto(s, "wrote", IfLive("read"))
    /\ idle' = 0
    /\ UNCHANGED <<peerVars, dataVars, ctlVars, quiet, writeAge>>

(* The end of a pump: half-close on a clean end, cancel on any other.      *)
PumpEndsClean(s) ==
    /\ Goto(s, "eof", "done")
    /\ finSent' = IF Other(s) \in HalfClose \ closed
                     THEN finSent \cup {Other(s)} ELSE finSent
    /\ UNCHANGED <<peerVars, backlog, taken, delivered, ctlVars, timeVars>>

(* Mutant: every end of a pump half-closes the other side. *)
FailureHalfCloses(s) ==
    /\ Goto(s, "failed", "done")
    /\ finSent' = IF Other(s) \in HalfClose \ closed
                     THEN finSent \cup {Other(s)} ELSE finSent
    /\ Cancel
    /\ UNCHANGED <<peerVars, backlog, taken, delivered, closed, watch, tick,
                   main, timeVars>>

PumpFails(s) ==
    /\ Goto(s, "failed", "done")
    /\ Cancel
    /\ UNCHANGED <<peerVars, dataVars, closed, watch, tick, main, timeVars>>

-----------------------------------------------------------------------------
(* The watcher, the AfterFunc, and proxyWithTimeout.                       *)

(* The comparison; cancel() is a step of its own, so a chunk may arrive in *)
(* between.                                                                *)
WatcherLooks ==
    /\ watch = "waiting" /\ tick = "pending"
    /\ tick' = "none"
    /\ watch' = IF idle >= Timeout THEN "cut" ELSE "waiting"
    /\ UNCHANGED <<peerVars, dataVars, closed, ctx, closer, main, timeVars, pc>>

WatcherCuts ==
    /\ watch = "cut"
    /\ watch' = "gone"
    /\ Cancel
    /\ UNCHANGED <<peerVars, dataVars, closed, tick, main, timeVars, pc>>

(* ctx.Done(), or watchDone, which is closed when proxyWithTimeout returns. *)
WatcherLeaves ==
    /\ watch = "waiting"
    /\ ctx = "done" \/ main = "returned"
    /\ watch' = "gone"
    /\ UNCHANGED <<peerVars, dataVars, closed, ctx, closer, tick, main, timeVars, pc>>

(* The tunnel is stopped: the parent context is cancelled.                 *)
StopTunnel ==
    /\ ctx = "live"
    /\ Cancel
    /\ UNCHANGED <<peerVars, dataVars, closed, watch, tick, main, timeVars, pc>>

(* Mutant: the AfterFunc closes only the first connection. *)
CloserClosesFirst ==
    /\ \/ closer = "first" /\ closer' = "second" /\ closed' = closed \cup {1}
       \/ closer = "second" /\ closer' = "done" /\ closed' = closed
    /\ UNCHANGED <<peerVars, dataVars, ctx, watch, tick, main, timeVars, pc>>

CloserCloses ==
    /\ \/ closer = "first" /\ closer' = "second" /\ closed' = closed \cup {1}
       \/ closer = "second" /\ closer' = "done" /\ closed' = closed \cup {2}
    /\ UNCHANGED <<peerVars, dataVars, ctx, watch, tick, main, timeVars, pc>>

(* wg.Wait(), then stop(): disarms the AfterFunc, or reports that it ran.  *)
PumpsJoin ==
    /\ main = "pumping"
    /\ \A s \in Side : pc[s] = "done"
    /\ IF closer = "armed" THEN closer' = "stopped" /\ main' = "closing"
                           ELSE main' = "joining" /\ UNCHANGED closer
    /\ UNCHANGED <<peerVars, dataVars, closed, ctx, watch, tick, timeVars, pc>>

CloserJoins ==
    /\ main = "joining" /\ closer = "done"
    /\ main' = "closing"
    /\ UNCHANGED <<peerVars, dataVars, closed, ctx, closer, watch, tick, timeVars, pc>>

(* Both Close calls, close(watchDone), cancel().                           *)
Return ==
    /\ main = "closing"
    /\ main' = "returned"
    /\ closed' = Side
    /\ Cancel
    /\ UNCHANGED <<peerVars, dataVars, watch, tick, timeVars, pc>>

-----------------------------------------------------------------------------

PeerStep(s) ==
    PeerSends(s) \/ PeerReads(s) \/ PeerFinishes(s) \/ PeerVanishes(s)

PumpStep(s) ==
    \/ CheckContext(s) \/ ReadChunk(s) \/ ReadEof(s) \/ ReadFails(s)
    \/ StampRead(s) \/ WriteChunk(s) \/ WriteFails(s)
    \/ StampWrite(s) \/ PumpEndsClean(s) \/ PumpFails(s)

MainStep == PumpsJoin \/ CloserJoins \/ Return
WatcherStep == WatcherLooks \/ WatcherCuts \/ WatcherLeaves

Next ==
    \/ TimePasses \/ StopTunnel \/ WatcherStep \/ CloserCloses \/ MainStep
    \/ \E s \in Side : PeerStep(s) \/ PumpStep(s)

Spec == Init /\ [][Next]_vars

(* The scheduler runs every goroutine that can run, and time goes on.  No  *)
(* fairness of the peers: a silent or stuck peer is what the timeout is for. *)
Fairness ==
    /\ WF_vars(TimePasses) /\ WF_vars(WatcherStep)
    /\ WF_vars(CloserCloses) /\ WF_vars(MainStep)
    /\ \A s \in Side : WF_vars(PumpStep(s))

FairSpec == Spec /\ Fairness

-----------------------------------------------------------------------------
(* Properties.                                                             *)

(* The watcher decides to cut a session only if neither direction moved a  *)
(* chunk for the whole timeout: an active one-way session is not cut.  The *)
(* one exception is a chunk moved but not yet stamped (helper.go:87-102).  *)
CutIsEarned ==
    [][watch' = "cut" /\ watch = "waiting" =>
         quiet = Timeout \/ \E s \in Side : pc[s] \in {"seen", "wrote"}]_vars

Complete(s) ==
    /\ out[Other(s)] # "open"
    /\ delivered[s] = sent[Other(s)]

(* A peer that is sent an end of stream while the session is not cancelled *)
(* got every chunk the other peer had sent before its own end: half-close  *)
(* in the middle of the session, or both closed after a clean end.         *)
CleanEndIsComplete ==
    \A s \in Side :
        s \in finSent \/ (s \in closed /\ closer = "stopped") => Complete(s)

(* Why: the accounts of the pumps.  A pump that is still going has written *)
(* all it read, but for the chunk in its buffer; one that is done passed   *)
(* everything on, or the session is cancelled.                             *)
InHand(s) == IF pc[s] \in {"seen", "write"} THEN 1 ELSE 0

PumpsAccount ==
    \A s \in Side :
        /\ taken[s] <= sent[s]
        /\ pc[s] \notin {"failed", "done"} =>
               delivered[Other(s)] + InHand(s) = taken[s]
        /\ pc[s] = "eof" => out[s] # "open" /\ taken[s] = sent[s]
        /\ pc[s] = "done" => Complete(Other(s)) \/ ctx = "done"

EndsAccount == \A s \in finSent : Complete(s)

(* The AfterFunc is disarmed only after two clean ends, and is armed       *)
(* exactly as long as the session is neither cancelled nor over.           *)
CloserAccount ==
    /\ closer = "armed" => ctx = "live" /\ main = "pumping"
    /\ ctx = "live" => closer \in {"armed", "stopped"}
    /\ closer = "stopped" => \A s \in Side : Complete(s)
    /\ closed # {} /\ closer # "stopped" => ctx = "done"

SessionInv == TypeOK /\ PumpsAccount /\ EndsAccount /\ CloserAccount

Over ==
    /\ main = "returned" /\ watch = "gone" /\ closer \in {"stopped", "done"}
    /\ closed = Side
    /\ \A s \in Side : pc[s] = "done"

(* Every session ends with both connections closed and all its goroutines  *)
(* gone, whatever the peers do: idle, stuck in a write, half-closed for    *)
(* ever over a transport without half-close, or stopped at any point.      *)
SessionEnds == <>[]Over
=============================================================================
