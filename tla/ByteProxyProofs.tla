--------------------------- MODULE ByteProxyProofs ---------------------------
(***************************************************************************)
(* Proofs about ByteProxy, for every timeout, buffer, number of chunks and *)
(* choice of transports: an end of stream that is not a cancellation never *)
(* loses a chunk.                                                          *)
(***************************************************************************)
EXTENDS ByteProxy, TLAPS

USE DEF peerVars, dataVars, ctlVars, timeVars
USE HalfCloseAssumption, TimeoutAssumption, MaxChunksAssumption, BufferAssumption

LEMMA SideFacts ==
    /\ 1 \in Side /\ 2 \in Side
    /\ \A s \in Side : Other(s) \in Side /\ Other(Other(s)) = s /\ Other(s) # s
  BY SMT DEF Side, Other

LEMMA InitSound == Init => SessionInv
<1> SUFFICES ASSUME Init PROVE SessionInv
  OBVIOUS
<1>1. TypeOK
  BY SMT DEF Init, TypeOK, PumpStates
<1>2. PumpsAccount
  BY SideFacts, SMT DEF Init, PumpsAccount, InHand
<1>3. EndsAccount /\ CloserAccount
  BY DEF Init, EndsAccount, CloserAccount
<1> QED
  BY <1>1, <1>2, <1>3 DEF SessionInv

LEMMA PumpSound ==
    ASSUME SessionInv, NEW s \in Side, PumpStep(s)
    PROVE  SessionInv'
<1> USE SideFacts DEF SessionInv
<1>1. CASE ReadChunk(s)
  <2>1. TypeOK'
    BY <1>1, SMT DEF ReadChunk, Goto, TypeOK, PumpStates, Side
  <2>2. PumpsAccount'
    BY <1>1, <2>1, SMT DEF ReadChunk, Goto, PumpsAccount, InHand, Complete,
       TypeOK, EndsAccount, CloserAccount
  <2>3. EndsAccount'
    BY <1>1, SMT DEF ReadChunk, Goto, PumpsAccount, InHand, Complete, TypeOK,
       EndsAccount
  <2>4. CloserAccount'
    BY <1>1, SMT DEF ReadChunk, Goto, PumpsAccount, InHand, Complete, TypeOK,
       CloserAccount
  <2> QED
    BY <2>1, <2>2, <2>3, <2>4
<1>2. CASE ReadEof(s)
  <2>1. TypeOK'
    BY <1>2, SMT DEF ReadEof, Goto, TypeOK, PumpStates, Side
  <2>2. PumpsAccount'
    BY <1>2, <2>1, SMT DEF ReadEof, Goto, PumpsAccount, InHand, Complete,
       TypeOK, EndsAccount, CloserAccount
  <2>3. EndsAccount'
    BY <1>2, SMT DEF ReadEof, Goto, PumpsAccount, InHand, Complete, TypeOK,
       EndsAccount
  <2>4. CloserAccount'
    BY <1>2, SMT DEF ReadEof, Goto, PumpsAccount, InHand, Complete, TypeOK,
       CloserAccount
  <2> QED
    BY <2>1, <2>2, <2>3, <2>4
<1>3. CASE ReadFails(s)
  <2>1. TypeOK'
    BY <1>3, SMT DEF ReadFails, Goto, TypeOK, PumpStates, Side
  <2>2. PumpsAccount'
    BY <1>3, <2>1, SMT DEF ReadFails, Goto, PumpsAccount, InHand, Complete,
       TypeOK, EndsAccount, CloserAccount
  <2>3. EndsAccount'
    BY <1>3, SMT DEF ReadFails, Goto, PumpsAccount, InHand, Complete, TypeOK,
       EndsAccount
  <2>4. CloserAccount'
    BY <1>3, SMT DEF ReadFails, Goto, PumpsAccount, InHand, Complete, TypeOK,
       CloserAccount
  <2> QED
    BY <2>1, <2>2, <2>3, <2>4
<1>4. CASE CheckContext(s)
  <2>1. TypeOK'
    BY <1>4, SMT DEF CheckContext, Goto, IfLive, TypeOK, PumpStates, Side
  <2>2. PumpsAccount'
    BY <1>4, <2>1, SMT DEF CheckContext, Goto, IfLive, PumpsAccount, InHand,
       Complete, TypeOK, EndsAccount, CloserAccount
  <2>3. EndsAccount'
    BY <1>4, SMT DEF CheckContext, Goto, IfLive, PumpsAccount, InHand,
       Complete, TypeOK, EndsAccount
  <2>4. CloserAccount'
    BY <1>4, SMT DEF CheckContext, Goto, IfLive, PumpsAccount, InHand,
       Complete, TypeOK, CloserAccount
  <2> QED
    BY <2>1, <2>2, <2>3, <2>4
<1>5. CASE StampRead(s)
  <2>1. TypeOK'
    BY <1>5, SMT DEF StampRead, Goto, IfLive, TypeOK, PumpStates, Side
  <2>2. PumpsAccount'
    BY <1>5, <2>1, SMT DEF StampRead, Goto, IfLive, PumpsAccount, InHand,
       Complete, TypeOK, EndsAccount, CloserAccount
  <2>3. EndsAccount'
    BY <1>5, SMT DEF StampRead, Goto, IfLive, PumpsAccount, InHand, Complete,
       TypeOK, EndsAccount
  <2>4. CloserAccount'
    BY <1>5, SMT DEF StampRead, Goto, IfLive, PumpsAccount, InHand, Complete,
       TypeOK, CloserAccount
  <2> QED
    BY <2>1, <2>2, <2>3, <2>4
<1>6. CASE WriteChunk(s)
  <2>1. TypeOK'
    BY <1>6, SMT DEF WriteChunk, Goto, TypeOK, PumpStates, Side
  <2>2. PumpsAccount'
    BY <1>6, <2>1, SMT DEF WriteChunk, Goto, PumpsAccount, InHand, Complete,
       TypeOK, EndsAccount, CloserAccount
  <2>3. EndsAccount'
    BY <1>6, SMT DEF WriteChunk, Goto, PumpsAccount, InHand, Complete, TypeOK,
       EndsAccount
  <2>4. CloserAccount'
    BY <1>6, SMT DEF WriteChunk, Goto, PumpsAccount, InHand, Complete, TypeOK,
       CloserAccount
  <2> QED
    BY <2>1, <2>2, <2>3, <2>4
<1>7. CASE WriteFails(s)
  <2>1. TypeOK'
    BY <1>7, SMT DEF WriteFails, Goto, TypeOK, PumpStates, Side
  <2>2. PumpsAccount'
    BY <1>7, <2>1, SMT DEF WriteFails, Goto, PumpsAccount, InHand, Complete,
       TypeOK, EndsAccount, CloserAccount
  <2>3. EndsAccount'
    BY <1>7, SMT DEF WriteFails, Goto, PumpsAccount, InHand, Complete, TypeOK,
       EndsAccount
  <2>4. CloserAccount'
    BY <1>7, SMT DEF WriteFails, Goto, PumpsAccount, InHand, Complete, TypeOK,
       CloserAccount
  <2> QED
    BY <2>1, <2>2, <2>3, <2>4
<1>8. CASE StampWrite(s)
  <2>1. TypeOK'
    BY <1>8, SMT DEF StampWrite, Goto, IfLive, TypeOK, PumpStates, Side
  <2>2. PumpsAccount'
    BY <1>8, <2>1, SMT DEF StampWrite, Goto, IfLive, PumpsAccount, InHand,
       Complete, TypeOK, EndsAccount, CloserAccount
  <2>3. EndsAccount'
    BY <1>8, SMT DEF StampWrite, Goto, IfLive, PumpsAccount, InHand, Complete,
       TypeOK, EndsAccount
  <2>4. CloserAccount'
    BY <1>8, SMT DEF StampWrite, Goto, IfLive, PumpsAccount, InHand, Complete,
       TypeOK, CloserAccount
  <2> QED
    BY <2>1, <2>2, <2>3, <2>4
<1>9. CASE PumpEndsClean(s)
  <2>0. finSent' \subseteq Side
    BY <1>9, SMT DEF PumpEndsClean, TypeOK
  <2>1. TypeOK'
    BY <1>9, <2>0, SMT DEF PumpEndsClean, Goto, TypeOK, PumpStates, Side
  <2>2. PumpsAccount'
    BY <1>9, <2>1, SMT DEF PumpEndsClean, Goto, PumpsAccount, InHand,
       Complete, TypeOK, EndsAccount, CloserAccount
  <2>3. EndsAccount'
    BY <1>9, SMT DEF PumpEndsClean, Goto, PumpsAccount, InHand, Complete,
       TypeOK, EndsAccount
  <2>4. CloserAccount'
    BY <1>9, SMT DEF PumpEndsClean, Goto, PumpsAccount, InHand, Complete,
       TypeOK, CloserAccount
  <2> QED
    BY <2>1, <2>2, <2>3, <2>4
<1>10. CASE PumpFails(s)
  <2>1. TypeOK'
    BY <1>10, SMT DEF PumpFails, Goto, Cancel, TypeOK, PumpStates, Side
  <2>2. PumpsAccount'
    BY <1>10, <2>1, SMT DEF PumpFails, Goto, Cancel, PumpsAccount, InHand,
       Complete, TypeOK, EndsAccount, CloserAccount
  <2>3. EndsAccount'
    BY <1>10, SMT DEF PumpFails, Goto, Cancel, PumpsAccount, InHand, Complete,
       TypeOK, EndsAccount
  <2>4. CloserAccount'
    BY <1>10, SMT DEF PumpFails, Goto, Cancel, PumpsAccount, InHand, Complete,
       TypeOK, CloserAccount
  <2> QED
    BY <2>1, <2>2, <2>3, <2>4
<1> QED
  BY <1>1, <1>2, <1>3, <1>4, <1>5, <1>6, <1>7, <1>8, <1>9, <1>10 DEF PumpStep

LEMMA PeerSound ==
    ASSUME SessionInv, NEW s \in Side, PeerStep(s)
    PROVE  SessionInv'
<1> USE SideFacts DEF SessionInv
<1>1. CASE PeerSends(s)
  <2>1. TypeOK'
    BY <1>1, SMT DEF PeerSends, TypeOK, PumpStates, Side
  <2>2. PumpsAccount'
    BY <1>1, <2>1, SMT DEF PeerSends, PumpsAccount, InHand, Complete, TypeOK,
       EndsAccount, CloserAccount
  <2>3. EndsAccount'
    BY <1>1, SMT DEF PeerSends, PumpsAccount, InHand, Complete, TypeOK,
       EndsAccount
  <2>4. CloserAccount'
    BY <1>1, SMT DEF PeerSends, PumpsAccount, InHand, Complete, TypeOK,
       CloserAccount
  <2> QED
    BY <2>1, <2>2, <2>3, <2>4
<1>2. CASE PeerReads(s)
  <2>1. TypeOK'
    BY <1>2, SMT DEF PeerReads, TypeOK, PumpStates, Side
  <2>2. PumpsAccount'
    BY <1>2, <2>1, SMT DEF PeerReads, PumpsAccount, InHand, Complete, TypeOK,
       EndsAccount, CloserAccount
  <2>3. EndsAccount'
    BY <1>2, SMT DEF PeerReads, PumpsAccount, InHand, Complete, TypeOK,
       EndsAccount
  <2>4. CloserAccount'
    BY <1>2, SMT DEF PeerReads, PumpsAccount, InHand, Complete, TypeOK,
       CloserAccount
  <2> QED
    BY <2>1, <2>2, <2>3, <2>4
<1>3. CASE PeerFinishes(s)
  <2>1. TypeOK'
    BY <1>3, SMT DEF PeerFinishes, TypeOK, PumpStates, Side
  <2>2. PumpsAccount'
    BY <1>3, <2>1, SMT DEF PeerFinishes, PumpsAccount, InHand, Complete,
       TypeOK, EndsAccount, CloserAccount
  <2>3. EndsAccount'
    BY <1>3, SMT DEF PeerFinishes, PumpsAccount, InHand, Complete, TypeOK,
       EndsAccount
  <2>4. CloserAccount'
    BY <1>3, SMT DEF PeerFinishes, PumpsAccount, InHand, Complete, TypeOK,
       CloserAccount
  <2> QED
    BY <2>1, <2>2, <2>3, <2>4
<1>4. CASE PeerVanishes(s)
  <2>1. TypeOK'
    BY <1>4, SMT DEF PeerVanishes, TypeOK, PumpStates, Side
  <2>2. PumpsAccount'
    BY <1>4, <2>1, SMT DEF PeerVanishes, PumpsAccount, InHand, Complete,
       TypeOK, EndsAccount, CloserAccount
  <2>3. EndsAccount'
    BY <1>4, SMT DEF PeerVanishes, PumpsAccount, InHand, Complete, TypeOK,
       EndsAccount
  <2>4. CloserAccount'
    BY <1>4, SMT DEF PeerVanishes, PumpsAccount, InHand, Complete, TypeOK,
       CloserAccount
  <2> QED
    BY <2>1, <2>2, <2>3, <2>4
<1> QED
  BY <1>1, <1>2, <1>3, <1>4 DEF PeerStep

LEMMA ControlSound ==
    ASSUME SessionInv, TimePasses \/ StopTunnel \/ WatcherStep \/ CloserCloses \/ MainStep
    PROVE  SessionInv'
<1> USE SideFacts DEF SessionInv
<1>1. CASE TimePasses
  <2>1. TypeOK'
    BY <1>1, SMT DEF TimePasses, Aged, TypeOK, PumpStates, Side
  <2>2. PumpsAccount'
    BY <1>1, <2>1, SMT DEF TimePasses, Aged, PumpsAccount, InHand, Complete,
       TypeOK, EndsAccount, CloserAccount
  <2>3. EndsAccount'
    BY <1>1, SMT DEF TimePasses, Aged, PumpsAccount, InHand, Complete, TypeOK,
       EndsAccount
  <2>4. CloserAccount'
    BY <1>1, SMT DEF TimePasses, Aged, PumpsAccount, InHand, Complete, TypeOK,
       CloserAccount
  <2> QED
    BY <2>1, <2>2, <2>3, <2>4
<1>2. CASE StopTunnel
  <2>1. TypeOK'
    BY <1>2, SMT DEF StopTunnel, Cancel, TypeOK, PumpStates, Side
  <2>2. PumpsAccount'
    BY <1>2, <2>1, SMT DEF StopTunnel, Cancel, PumpsAccount, InHand, Complete,
       TypeOK, EndsAccount, CloserAccount
  <2>3. EndsAccount'
    BY <1>2, SMT DEF StopTunnel, Cancel, PumpsAccount, InHand, Complete,
       TypeOK, EndsAccount
  <2>4. CloserAccount'
    BY <1>2, SMT DEF StopTunnel, Cancel, PumpsAccount, InHand, Complete,
       TypeOK, CloserAccount
  <2> QED
    BY <2>1, <2>2, <2>3, <2>4
<1>3. CASE WatcherLooks
  <2>1. TypeOK'
    BY <1>3, SMT DEF WatcherLooks, TypeOK, PumpStates, Side
  <2>2. PumpsAccount'
    BY <1>3, <2>1, SMT DEF WatcherLooks, PumpsAccount, InHand, Complete,
       TypeOK, EndsAccount, CloserAccount
  <2>3. EndsAccount'
    BY <1>3, SMT DEF WatcherLooks, PumpsAccount, InHand, Complete, TypeOK,
       EndsAccount
  <2>4. CloserAccount'
    BY <1>3, SMT DEF WatcherLooks, PumpsAccount, InHand, Complete, TypeOK,
       CloserAccount
  <2> QED
    BY <2>1, <2>2, <2>3, <2>4
<1>4. CASE WatcherCuts
  <2>1. TypeOK'
    BY <1>4, SMT DEF WatcherCuts, Cancel, TypeOK, PumpStates, Side
  <2>2. PumpsAccount'
    BY <1>4, <2>1, SMT DEF WatcherCuts, Cancel, PumpsAccount, InHand,
       Complete, TypeOK, EndsAccount, CloserAccount
  <2>3. EndsAccount'
    BY <1>4, SMT DEF WatcherCuts, Cancel, PumpsAccount, InHand, Complete,
       TypeOK, EndsAccount
  <2>4. CloserAccount'
    BY <1>4, SMT DEF WatcherCuts, Cancel, PumpsAccount, InHand, Complete,
       TypeOK, CloserAccount
  <2> QED
    BY <2>1, <2>2, <2>3, <2>4
<1>5. CASE WatcherLeaves
  <2>1. TypeOK'
    BY <1>5, SMT DEF WatcherLeaves, TypeOK, PumpStates, Side
  <2>2. PumpsAccount'
    BY <1>5, <2>1, SMT DEF WatcherLeaves, PumpsAccount, InHand, Complete,
       TypeOK, EndsAccount, CloserAccount
  <2>3. EndsAccount'
    BY <1>5, SMT DEF WatcherLeaves, PumpsAccount, InHand, Complete, TypeOK,
       EndsAccount
  <2>4. CloserAccount'
    BY <1>5, SMT DEF WatcherLeaves, PumpsAccount, InHand, Complete, TypeOK,
       CloserAccount
  <2> QED
    BY <2>1, <2>2, <2>3, <2>4
<1>6. CASE CloserCloses
  <2>0. closed' \subseteq Side
    BY <1>6, SMT DEF CloserCloses, TypeOK
  <2>1. TypeOK'
    BY <1>6, <2>0, SMT DEF CloserCloses, TypeOK
  <2>2. PumpsAccount'
    BY <1>6, <2>1, SMT DEF CloserCloses, PumpsAccount, InHand, Complete,
       TypeOK, EndsAccount, CloserAccount
  <2>3. EndsAccount'
    BY <1>6, SMT DEF CloserCloses, PumpsAccount, InHand, Complete, TypeOK,
       EndsAccount
  <2>4. CloserAccount'
    BY <1>6, SMT DEF CloserCloses, PumpsAccount, InHand, Complete, TypeOK,
       CloserAccount
  <2> QED
    BY <2>1, <2>2, <2>3, <2>4
<1>7. CASE PumpsJoin
  <2>1. TypeOK'
    BY <1>7, SMT DEF PumpsJoin, TypeOK, PumpStates, Side
  <2>2. PumpsAccount'
    BY <1>7, <2>1, SMT DEF PumpsJoin, PumpsAccount, InHand, Complete, TypeOK,
       EndsAccount, CloserAccount
  <2>3. EndsAccount'
    BY <1>7, SMT DEF PumpsJoin, PumpsAccount, InHand, Complete, TypeOK,
       EndsAccount
  <2>4. CloserAccount'
    BY <1>7, SMT DEF PumpsJoin, PumpsAccount, InHand, Complete, TypeOK,
       CloserAccount
  <2> QED
    BY <2>1, <2>2, <2>3, <2>4
<1>8. CASE CloserJoins
  <2>1. TypeOK'
    BY <1>8, SMT DEF CloserJoins, TypeOK, PumpStates, Side
  <2>2. PumpsAccount'
    BY <1>8, <2>1, SMT DEF CloserJoins, PumpsAccount, InHand, Complete,
       TypeOK, EndsAccount, CloserAccount
  <2>3. EndsAccount'
    BY <1>8, SMT DEF CloserJoins, PumpsAccount, InHand, Complete, TypeOK,
       EndsAccount
  <2>4. CloserAccount'
    BY <1>8, SMT DEF CloserJoins, PumpsAccount, InHand, Complete, TypeOK,
       CloserAccount
  <2> QED
    BY <2>1, <2>2, <2>3, <2>4
<1>9. CASE Return
  <2>1. TypeOK'
    BY <1>9, SMT DEF Return, Cancel, TypeOK, PumpStates, Side
  <2>2. PumpsAccount'
    BY <1>9, <2>1, SMT DEF Return, Cancel, PumpsAccount, InHand, Complete,
       TypeOK, EndsAccount, CloserAccount
  <2>3. EndsAccount'
    BY <1>9, SMT DEF Return, Cancel, PumpsAccount, InHand, Complete, TypeOK,
       EndsAccount
  <2>4. CloserAccount'
    BY <1>9, SMT DEF Return, Cancel, PumpsAccount, InHand, Complete, TypeOK,
       CloserAccount
  <2> QED
    BY <2>1, <2>2, <2>3, <2>4
<1> QED
  BY <1>1, <1>2, <1>3, <1>4, <1>5, <1>6, <1>7, <1>8, <1>9 DEF WatcherStep,
     MainStep

(* The account of the session is inductive.                               *)
LEMMA StepSound == SessionInv /\ [Next]_vars => SessionInv'
<1> SUFFICES ASSUME SessionInv, [Next]_vars PROVE SessionInv'
  OBVIOUS
<1>1. CASE Next
  BY <1>1, PumpSound, PeerSound, ControlSound DEF Next
<1>2. CASE UNCHANGED vars
  BY <1>2, SMT DEF vars, SessionInv,
       TypeOK, PumpsAccount, InHand, Complete, EndsAccount, CloserAccount
<1> QED
  BY <1>1, <1>2

(* The state of a session, and the accounts of its pumps, hold always.     *)
THEOREM SessionAccounts == Spec => []SessionInv
<1> QED
  BY InitSound, StepSound, PTL DEF Spec

(* An end of stream without cancellation means that every chunk arrived:   *)
(* of copyWithActivity's two pumps, halfCloseWrite and the final closes.   *)
THEOREM CleanEndAlwaysComplete == Spec => []CleanEndIsComplete
<1>1. SessionInv => CleanEndIsComplete
  BY SMT DEF SessionInv, EndsAccount, CloserAccount, CleanEndIsComplete
<1> QED
  BY <1>1, SessionAccounts, PTL

-----------------------------------------------------------------------------
(* The activity clock.  Outside the gap between moving a chunk and storing *)
(* the time of it, the clock is not older than the last chunk.             *)
Unstamped == \E s \in Side : pc[s] \in {"seen", "wrote"}
ClockInv == ~Unstamped => idle <= quiet

LEMMA ClockSound ==
    ASSUME SessionInv, ClockInv, [Next]_vars
    PROVE  ClockInv'
<1> USE SideFacts DEF SessionInv
<1>1. ASSUME NEW s \in Side, PumpStep(s) PROVE ClockInv'
  <2>1. CASE ReadChunk(s)
    BY <2>1, SMT DEF ReadChunk, Goto, ClockInv, Unstamped, TypeOK
  <2>2. CASE WriteChunk(s)
    BY <2>2, SMT DEF WriteChunk, Goto, ClockInv, Unstamped, TypeOK
  <2>3. CASE StampRead(s) \/ StampWrite(s)
    <3>1. idle' = 0 /\ quiet' = quiet /\ quiet \in Nat
      BY <2>3, SMT DEF StampRead, StampWrite, TypeOK
    <3> QED
      BY <3>1, SMT DEF ClockInv
  <2>4. CASE CheckContext(s) \/ ReadEof(s) \/ ReadFails(s)
    BY <2>4, SMT DEF CheckContext, IfLive, ReadEof, ReadFails, Goto,
         ClockInv, Unstamped, TypeOK
  <2>5. CASE WriteFails(s) \/ PumpEndsClean(s) \/ PumpFails(s)
    BY <2>5, SMT DEF WriteFails, PumpEndsClean, PumpFails, Goto,
         ClockInv, Unstamped, TypeOK
  <2> QED
    BY <1>1, <2>1, <2>2, <2>3, <2>4, <2>5 DEF PumpStep
<1>2. CASE TimePasses
  BY <1>2, SMT DEF TimePasses, Aged, ClockInv, Unstamped, TypeOK
<1>3. ASSUME UNCHANGED <<pc, idle, quiet>> PROVE ClockInv'
  BY <1>3 DEF ClockInv, Unstamped
<1>4. ASSUME NEW s \in Side, PeerStep(s) PROVE ClockInv'
  BY <1>3, <1>4 DEF PeerStep, PeerSends, PeerReads, PeerFinishes, PeerVanishes
<1>5. CASE StopTunnel \/ WatcherStep \/ CloserCloses \/ MainStep
  BY <1>3, <1>5 DEF StopTunnel, WatcherStep, WatcherLooks, WatcherCuts,
       WatcherLeaves, CloserCloses, MainStep, PumpsJoin, CloserJoins, Return
<1>6. CASE UNCHANGED vars
  BY <1>3, <1>6 DEF vars
<1> QED
  BY <1>1, <1>2, <1>4, <1>5, <1>6 DEF Next

(* The watcher of an active session never decides to cut it: with data     *)
(* flowing in one direction only, too (helper.go:149).                     *)
THEOREM OnlyIdleSessionsAreCut == Spec => CutIsEarned
<1>1. Init => ClockInv
  BY TimeoutAssumption, SMT DEF Init, ClockInv
<1>2. ASSUME SessionInv, ClockInv, [Next]_vars,
             watch' = "cut", watch = "waiting"
      PROVE  quiet = Timeout \/ Unstamped
  <2>1. WatcherLooks
    BY <1>2, SMT DEF vars, Next, PumpStep, PeerStep, WatcherStep, MainStep,
         TimePasses, StopTunnel, WatcherCuts, WatcherLeaves, CloserCloses,
         PumpsJoin, CloserJoins, Return, PeerSends, PeerReads, PeerFinishes,
         PeerVanishes, CheckContext, ReadChunk, ReadEof, ReadFails, StampRead,
         WriteChunk, WriteFails, StampWrite, PumpEndsClean, PumpFails
  <2>2. idle >= Timeout
    BY <2>1, <1>2 DEF WatcherLooks
  <2> QED
    BY <1>2, <2>2, SMT DEF SessionInv, TypeOK, ClockInv
<1>3. SessionInv /\ ClockInv /\ [Next]_vars =>
        [watch' = "cut" /\ watch = "waiting" =>
           quiet = Timeout \/ \E s \in Side : pc[s] \in {"seen", "wrote"}]_vars
  BY <1>2 DEF Unstamped
<1>4. Spec => []ClockInv
  BY <1>1, ClockSound, SessionAccounts, PTL DEF Spec
<1> QED
  BY <1>3, <1>4, SessionAccounts, PTL DEF Spec, CutIsEarned

=============================================================================
