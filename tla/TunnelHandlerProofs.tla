------------------------- MODULE TunnelHandlerProofs -------------------------
(***************************************************************************)
(* Proofs about TunnelHandler, for every set of connections and ports, any *)
(* capacities, either mode and either transport.                           *)
(***************************************************************************)
EXTENDS TunnelHandler, FiniteSetTheorems, TLAPS

(* How far a worker is, as far as its slot and its connections tell: a     *)
(* slot is marked released only from the proxy on, the dialled connection  *)
(* is open only between the dial and the deferred Close, and the client's  *)
(* connection is closed before the session is forgotten.                   *)
OpenStates ==
    IF Mode = "iran"
        THEN {"dialed", "handshaking", "ready", "proxying", "unwinding"}
        ELSE {"ready", "proxying", "unwinding"}

Stages ==
    \A c \in Conn :
        /\ c \in released => pc[c] \in {"proxying", "unwinding", "releasing",
                                        "leaving", "closing", "gone"}
        /\ remote[c] = "open" => pc[c] \in OpenStates
        /\ pc[c] \in {"closing", "gone", "refused"} => c \in closed

IInv ==
    /\ TypeOK
    /\ Stages
    /\ SlotsAccounted
    /\ BoundedWorkers
    /\ StopReachesEveryConn

-----------------------------------------------------------------------------

LEMMA InitIInv == Init => IInv
<1> SUFFICES ASSUME Init PROVE IInv
    OBVIOUS
<1> USE SlotsAssumption, MaxSessionsAssumption DEF Init, NewConnPool
<1>1. IsFiniteSet({}) /\ Cardinality({}) = 0
    BY FS_EmptySet
<1>2. TypeOK
    <2>1. PoolTypeOK
        <3>1. IsFiniteSet(sessions)
            BY <1>1, Zenon
        <3>2. sem \in 0..Slots
            BY SMT
        <3>3. stopped \in BOOLEAN
            BY Zenon
        <3>4. QED
            BY <3>1, <3>2, <3>3, Zenon DEF PoolTypeOK
    <2>2. pc \in [Conn -> PcStates] /\ phase \in Phases
        BY DEF PcStates, Phases
    <2>3. QED
        BY <2>1, <2>2 DEF TypeOK
<1>3. Stages
    BY DEF Stages
<1>4. Holders = {}
    BY DEF Holders, AfterGrant
<1>5. SlotsAccounted
    BY <1>1, <1>4 DEF SlotsAccounted
<1>6. BoundedWorkers
    BY <1>1 DEF BoundedWorkers, WorkerStates, AfterGrant
<1>7. StopReachesEveryConn
    BY DEF StopReachesEveryConn
<1>8. QED
    BY <1>2, <1>3, <1>5, <1>6, <1>7 DEF IInv

-----------------------------------------------------------------------------

LEMMA TypeStep == TypeOK /\ [Next]_vars => TypeOK'
<1> SUFFICES ASSUME TypeOK, [Next]_vars PROVE TypeOK'
    OBVIOUS
<1> USE SlotsAssumption DEF TypeOK, PoolTypeOK, poolVars, handlerVars, workerVars
<1>1. CASE UNCHANGED vars
    BY <1>1 DEF vars
<1>2. CASE HandlerStep
    BY <1>2 DEF HandlerStep, BeginStart, BindPort, BindFails, StartReturns,
        StopCancels, StopClosesPool, StopClosesListeners, CloseAll, Phases
<1>3. ASSUME NEW p \in Port, NEW c \in Conn, RunAdmits(p, c) PROVE TypeOK'
    <2>1. IsFiniteSet(sessions')
        BY <1>3, FS_AddElement DEF RunAdmits, Admit
    <2>2. QED
        BY <1>3, <2>1 DEF RunAdmits, Admit, Goto, PcStates, WorkerStates
<1>4. ASSUME NEW p \in Port, LoopStep(p) PROVE TypeOK'
    BY <1>3, <1>4 DEF LoopStep, LoopExits, Accept, RunRefuses, Refuse, Goto,
        PcStates, WorkerStates
<1>5. ASSUME NEW c \in Conn, SetupStep(c) PROVE TypeOK'
    BY <1>5 DEF SetupStep, LocalStep, AcquireBegins, AcquireGrants, AcquireGivesUp,
        AcquireBacksOut, AcquireReturns, DialSucceeds, ArmAfterFunc,
        HandshakeSucceeds, SetupFails, Establish, TakeSlot, Release, Goto,
        PcStates, WorkerStates, AfterGrant
<1>6. ASSUME NEW c \in Conn, UnwindForget(c) PROVE TypeOK'
    <2>1. IsFiniteSet(sessions')
        BY <1>6, FS_RemoveElement DEF UnwindForget, Forget
    <2>2. QED
        BY <1>6, <2>1 DEF UnwindForget, Forget, Goto, PcStates
<1>7. ASSUME NEW c \in Conn, WorkerStep(c) PROVE TypeOK'
    BY <1>5, <1>6, <1>7 DEF WorkerStep, AcquireExpires, AfterFuncCloses,
        ProxyEnds, UnwindStep, UnwindRemote, UnwindRelease, UnwindClose,
        CloseConn, Release, Goto, PcStates, WorkerStates, AfterGrant
<1>8. QED
    BY <1>1, <1>2, <1>4, <1>7 DEF Next

LEMMA StagesStep == TypeOK /\ Stages /\ [Next]_vars => Stages'
<1> SUFFICES ASSUME TypeOK, Stages, [Next]_vars PROVE Stages'
    OBVIOUS
<1> USE ModeAssumption
    DEF TypeOK, Stages, OpenStates, poolVars, handlerVars, workerVars
<1>1. CASE UNCHANGED vars
    BY <1>1 DEF vars
<1>2. CASE HandlerStep
    BY <1>2 DEF HandlerStep, BeginStart, BindPort, BindFails, StartReturns,
        StopCancels, StopClosesPool, StopClosesListeners, CloseAll
<1>3. ASSUME NEW p \in Port, LoopStep(p) PROVE Stages'
    BY <1>3 DEF LoopStep, LoopExits, Accept, RunRefuses, RunAdmits,
        Refuse, Admit, Goto
<1>4. ASSUME NEW c \in Conn, SetupStep(c) PROVE Stages'
    BY <1>4 DEF SetupStep, LocalStep, AcquireBegins, AcquireGrants, AcquireGivesUp,
        AcquireBacksOut, AcquireReturns, DialSucceeds, ArmAfterFunc,
        HandshakeSucceeds, SetupFails, Establish, TakeSlot, Release, Goto
<1>5. ASSUME NEW c \in Conn, WorkerStep(c) PROVE Stages'
    BY <1>4, <1>5 DEF WorkerStep, AcquireExpires, AfterFuncCloses, Guarded,
        ProxyEnds, UnwindStep, UnwindRemote, UnwindRelease, UnwindClose,
        UnwindForget, CloseConn, Release, Forget, Goto
<1>6. QED
    BY <1>1, <1>2, <1>3, <1>5 DEF Next

-----------------------------------------------------------------------------

LEMMA HoldersFinite ==
    TypeOK /\ BoundedWorkers =>
        IsFiniteSet(Holders) /\ Cardinality(Holders) \in Nat
<1> SUFFICES ASSUME TypeOK, BoundedWorkers
             PROVE  IsFiniteSet(Holders) /\ Cardinality(Holders) \in Nat
    OBVIOUS
<1>1. Holders \subseteq sessions
    BY DEF Holders, BoundedWorkers, WorkerStates
<1>2. QED
    BY <1>1, FS_Subset, FS_CardinalityType DEF TypeOK, PoolTypeOK

(* A worker that starts to hold a slot, and one that stops holding it. *)
LEMMA SlotTaken ==
    ASSUME TypeOK, BoundedWorkers, SlotsAccounted, NEW c \in Conn,
           c \notin Holders, Holders' = Holders \cup {c}, TakeSlot
    PROVE  SlotsAccounted'
BY HoldersFinite, FS_AddElement DEF SlotsAccounted, TakeSlot

LEMMA SlotReturned ==
    ASSUME TypeOK, BoundedWorkers, SlotsAccounted, NEW c \in Conn,
           c \in Holders, Holders' = Holders \ {c}, Release
    PROVE  SlotsAccounted'
BY HoldersFinite, FS_RemoveElement DEF SlotsAccounted, Release

LEMMA SlotsStep == IInv /\ [Next]_vars => SlotsAccounted'
<1> SUFFICES ASSUME IInv, [Next]_vars PROVE SlotsAccounted'
    OBVIOUS
<1> USE DEF IInv
<1>1. ASSUME Holders' = Holders, sem' = sem PROVE SlotsAccounted'
    BY <1>1 DEF SlotsAccounted
<1> USE DEF TypeOK, poolVars, handlerVars, workerVars, Holders, AfterGrant
<1>2. CASE UNCHANGED vars
    BY <1>1, <1>2 DEF vars
<1>3. CASE HandlerStep
    BY <1>1, <1>3 DEF HandlerStep, BeginStart, BindPort, BindFails,
        StartReturns, StopCancels, StopClosesPool, StopClosesListeners, CloseAll
<1>4. ASSUME NEW p \in Port, LoopStep(p) PROVE SlotsAccounted'
    BY <1>1, <1>4 DEF LoopStep, LoopExits, Accept, RunRefuses, RunAdmits,
        Refuse, Admit, Goto
<1>5. ASSUME NEW c \in Conn, WorkerStep(c) PROVE SlotsAccounted'
    <2>1. CASE AcquireGrants(c)
        <3>1. c \notin Holders /\ Holders' = Holders \cup {c}
            BY <2>1 DEF AcquireGrants, Goto, Stages
        <3>2. QED
            BY <2>1, <3>1, SlotTaken DEF AcquireGrants
    <2>2. CASE AcquireBacksOut(c)
        <3>1. c \in Holders /\ Holders' = Holders \ {c}
            BY <2>2 DEF AcquireBacksOut, Goto, Stages
        <3>2. QED
            BY <2>2, <3>1, SlotReturned DEF AcquireBacksOut
    <2>3. CASE Establish(c)
        <3>1. c \in Holders /\ Holders' = Holders \ {c}
            BY <2>3 DEF Establish, Goto, Stages
        <3>2. QED
            BY <2>3, <3>1, SlotReturned DEF Establish
    <2>4. CASE UnwindRelease(c) /\ c \notin released
        <3>1. c \in Holders /\ Holders' = Holders \ {c}
            BY <2>4 DEF UnwindRelease, Goto
        <3>2. QED
            BY <2>4, <3>1, SlotReturned DEF UnwindRelease
    <2>5. CASE UnwindRelease(c) /\ c \in released
        BY <1>1, <2>5 DEF UnwindRelease, Goto
    <2>6. CASE AcquireBegins(c) \/ AcquireGivesUp(c) \/ AcquireExpires(c)
        BY <1>1, <2>6 DEF AcquireBegins, AcquireGivesUp, AcquireExpires, Goto
    <2>7. CASE AcquireReturns(c) \/ DialSucceeds(c) \/ ArmAfterFunc(c)
                 \/ HandshakeSucceeds(c) \/ SetupFails(c)
        BY <1>1, <2>7 DEF AcquireReturns, DialSucceeds, ArmAfterFunc,
            HandshakeSucceeds, SetupFails, Goto
    <2>8. CASE AfterFuncCloses(c) \/ ProxyEnds(c) \/ UnwindRemote(c)
                 \/ UnwindClose(c) \/ UnwindForget(c)
        BY <1>1, <2>8 DEF AfterFuncCloses, ProxyEnds, UnwindRemote,
            UnwindClose, UnwindForget, CloseConn, Forget, Goto
    <2>9. QED
        BY <1>5, <2>1, <2>2, <2>3, <2>4, <2>5, <2>6, <2>7, <2>8
           DEF WorkerStep, SetupStep, LocalStep, UnwindStep
<1>6. QED
    BY <1>2, <1>3, <1>4, <1>5 DEF Next

-----------------------------------------------------------------------------

(* One element more or less, in numbers. *)
LEMMA AddOne ==
    ASSUME NEW S, IsFiniteSet(S), NEW x
    PROVE  Cardinality(S \cup {x}) <= Cardinality(S) + 1
<1>1. Cardinality(S) \in Nat
    BY FS_CardinalityType
<1>2. Cardinality(S \cup {x}) = IF x \in S THEN Cardinality(S)
                                          ELSE Cardinality(S) + 1
    BY FS_AddElement
<1>3. QED
    BY <1>1, <1>2

LEMMA RemoveOne ==
    ASSUME NEW S, IsFiniteSet(S), NEW x
    PROVE  Cardinality(S \ {x}) <= Cardinality(S)
<1>1. Cardinality(S) \in Nat
    BY FS_CardinalityType
<1>2. Cardinality(S \ {x}) = IF x \in S THEN Cardinality(S) - 1
                                       ELSE Cardinality(S)
    BY FS_RemoveElement
<1>3. QED
    BY <1>1, <1>2

LEMMA WorkersStep == TypeOK /\ BoundedWorkers /\ [Next]_vars => BoundedWorkers'
<1> SUFFICES ASSUME TypeOK, BoundedWorkers, [Next]_vars PROVE BoundedWorkers'
    OBVIOUS
<1> USE MaxSessionsAssumption
    DEF TypeOK, PoolTypeOK, poolVars, handlerVars, workerVars
<1>0. IsFiniteSet(sessions) /\ Cardinality(sessions) \in Nat
    BY FS_CardinalityType
<1>1. ASSUME sessions' = sessions,
             \A c \in Conn : pc'[c] \in WorkerStates <=> pc[c] \in WorkerStates
      PROVE  BoundedWorkers'
    BY <1>1 DEF BoundedWorkers
<1>2. CASE UNCHANGED vars
    BY <1>1, <1>2 DEF vars
<1>3. CASE HandlerStep
    BY <1>1, <1>3 DEF HandlerStep, BeginStart, BindPort, BindFails,
        StartReturns, StopCancels, StopClosesPool, StopClosesListeners, CloseAll
<1>4. ASSUME NEW p \in Port, NEW c \in Conn, RunAdmits(p, c)
      PROVE  BoundedWorkers'
    <2>1. Cardinality(sessions) + 1 <= MaxSessions
        BY <1>0, <1>4 DEF RunAdmits, Admit, Full
    <2>2. Cardinality(sessions \cup {c}) <= MaxSessions
        <3>1. Cardinality(sessions \cup {c}) <= Cardinality(sessions) + 1
            BY <1>0, AddOne
        <3>2. Cardinality(sessions \cup {c}) \in Nat
            BY <1>0, FS_AddElement, FS_CardinalityType
        <3>3. QED
            BY <1>0, <2>1, <3>1, <3>2
    <2>3. QED
        BY <1>4, <2>2 DEF RunAdmits, Admit, Goto, BoundedWorkers,
            WorkerStates, AfterGrant
<1>5. ASSUME NEW p \in Port, LoopStep(p) PROVE BoundedWorkers'
    BY <1>1, <1>4, <1>5 DEF LoopStep, LoopExits, Accept, RunRefuses, Refuse,
        Goto, WorkerStates, AfterGrant
<1>6. ASSUME NEW c \in Conn, UnwindForget(c) PROVE BoundedWorkers'
    <2>1. Cardinality(sessions \ {c}) <= Cardinality(sessions)
        BY <1>0, RemoveOne
    <2>2. Cardinality(sessions \ {c}) <= MaxSessions
        <3>1. Cardinality(sessions \ {c}) \in Nat
            BY <1>0, FS_RemoveElement, FS_CardinalityType
        <3>2. QED
            BY <1>0, <2>1, <3>1 DEF BoundedWorkers
    <2>3. QED
        BY <1>6, <2>2 DEF UnwindForget, Forget, Goto, BoundedWorkers,
            WorkerStates, AfterGrant
<1>7. ASSUME NEW c \in Conn, SetupStep(c) PROVE BoundedWorkers'
    BY <1>1, <1>7 DEF SetupStep, LocalStep, AcquireBegins, AcquireGrants, AcquireGivesUp,
        AcquireBacksOut, AcquireReturns, DialSucceeds, ArmAfterFunc,
        HandshakeSucceeds, SetupFails, Establish, TakeSlot, Release, Goto,
        WorkerStates, AfterGrant
<1>8. ASSUME NEW c \in Conn, WorkerStep(c) PROVE BoundedWorkers'
    BY <1>1, <1>6, <1>7, <1>8 DEF WorkerStep, AcquireExpires, AfterFuncCloses,
        ProxyEnds, UnwindStep, UnwindRemote, UnwindRelease, UnwindClose,
        CloseConn, Release, Goto, WorkerStates, AfterGrant
<1>9. QED
    BY <1>2, <1>3, <1>5, <1>8 DEF Next

LEMMA StopStep ==
    StopReachesEveryConn /\ [Next]_vars =>
        /\ StopReachesEveryConn'
        /\ stopped => sessions' \subseteq sessions
<1> SUFFICES ASSUME StopReachesEveryConn, [Next]_vars
             PROVE  /\ StopReachesEveryConn'
                    /\ stopped => sessions' \subseteq sessions
    OBVIOUS
<1> USE DEF StopReachesEveryConn, poolVars, handlerVars, workerVars
<1>1. CASE UNCHANGED vars
    BY <1>1 DEF vars
<1>2. CASE HandlerStep
    BY <1>2 DEF HandlerStep, BeginStart, BindPort, BindFails, StartReturns,
        StopCancels, StopClosesPool, StopClosesListeners, CloseAll
<1>3. CASE \E p \in Port : LoopStep(p)
    BY <1>3 DEF LoopStep, LoopExits, Accept, RunRefuses, RunAdmits, Refuse,
        Admit, Full
<1>4. CASE \E c \in Conn : SetupStep(c)
    BY <1>4 DEF SetupStep, LocalStep, AcquireBegins, AcquireGrants, AcquireGivesUp,
        AcquireBacksOut, AcquireReturns, DialSucceeds, ArmAfterFunc,
        HandshakeSucceeds, SetupFails, Establish, TakeSlot, Release
<1>5. CASE \E c \in Conn : WorkerStep(c)
    BY <1>4, <1>5 DEF WorkerStep, AcquireExpires, AfterFuncCloses, ProxyEnds,
        UnwindStep, UnwindRemote, UnwindRelease, UnwindClose, UnwindForget,
        CloseConn, Release, Forget
<1>6. QED
    BY <1>1, <1>2, <1>3, <1>5 DEF Next

-----------------------------------------------------------------------------

LEMMA IInvStep == IInv /\ [Next]_vars => IInv'
BY TypeStep, StagesStep, SlotsStep, WorkersStep, StopStep DEF IInv

LEMMA Inductive == Spec => []IInv
<1>1. Init => IInv
    BY InitIInv
<1>2. IInv /\ [Next]_vars => IInv'
    BY IInvStep
<1>3. QED
    BY <1>1, <1>2, PTL DEF Spec

(* Every variable of the handler and of its pool keeps its type; the       *)
(* session map stays finite and the channel stays within its capacity.     *)
THEOREM TypeCorrect == Spec => []TypeOK
<1>1. IInv => TypeOK
    BY DEF IInv
<1>2. QED
    BY <1>1, Inductive, PTL

(* The channel counts exactly the workers in setup, for any number of      *)
(* connections: no path of a worker leaks its slot or frees it twice.      *)
THEOREM SlotsAlwaysAccounted == Spec => []SlotsAccounted
<1>1. IInv => SlotsAccounted
    BY DEF IInv
<1>2. QED
    BY <1>1, Inductive, PTL

(* Workers are registered sessions, and never more than MaxSessions.       *)
THEOREM WorkersAlwaysBounded == Spec => []BoundedWorkers
<1>1. IInv => BoundedWorkers
    BY DEF IInv
<1>2. QED
    BY <1>1, Inductive, PTL

(* Stop closes every connection a worker may be blocked on. *)
THEOREM StopAlwaysReachesEveryConn == Spec => []StopReachesEveryConn
<1>1. IInv => StopReachesEveryConn
    BY DEF IInv
<1>2. QED
    BY <1>1, Inductive, PTL

(* No worker leaves a connection open behind it. *)
THEOREM NothingEverLeftOpen == Spec => []NothingLeftOpen
<1>1. IInv => NothingLeftOpen
    BY ModeAssumption
       DEF IInv, Stages, NothingLeftOpen, OpenStates, AfterGrant
<1>2. QED
    BY <1>1, Inductive, PTL

(* A stopped pool admits no session, in whatever order the accept loops,   *)
(* Run and Stop interleave.                                                *)
THEOREM NeverAdmitsAfterStop == Spec => NoAdmissionAfterStop
<1>1. IInv /\ [Next]_vars => [stopped => sessions' \subseteq sessions]_vars
    BY StopStep DEF IInv
<1>2. QED
    BY <1>1, Inductive, PTL DEF Spec, NoAdmissionAfterStop

-----------------------------------------------------------------------------
(* Refinement: one abstract step, or none, for each step of the handler.   *)

(* The instance has a Cardinality of its own, with the same definition. *)
LEMMA SameCardinality ==
    ASSUME NEW S PROVE Limit!Cardinality(S) = Cardinality(S)
BY DEF Cardinality, Limit!Cardinality

LEMMA LimitStep == IInv /\ [Next]_vars => [Limit!Next]_Limit!vars
<1> SUFFICES ASSUME IInv, [Next]_vars PROVE [Limit!Next]_Limit!vars
    OBVIOUS
<1> USE DEF IInv, TypeOK, poolVars, handlerVars, workerVars,
        Holders, AfterGrant, Limit!vars
<1>1. ASSUME Holders' = Holders, sessions' = sessions, stopped' = stopped
      PROVE  [Limit!Next]_Limit!vars
    BY <1>1
<1>2. CASE UNCHANGED vars
    BY <1>1, <1>2 DEF vars
<1>3. CASE StopClosesPool
    <2>1. stopped' = TRUE /\ sessions' = sessions /\ Holders' = Holders
        BY <1>3 DEF StopClosesPool, CloseAll
    <2>2. CASE stopped
        BY <1>1, <2>1, <2>2 DEF PoolTypeOK
    <2>3. CASE ~stopped
        BY <2>1, <2>3 DEF Limit!Next, Limit!Close
    <2>4. QED
        BY <2>2, <2>3
<1>4. CASE HandlerStep /\ ~StopClosesPool
    BY <1>1, <1>4 DEF HandlerStep, BeginStart, BindPort, BindFails,
        StartReturns, StopCancels, StopClosesListeners
<1>5. ASSUME NEW p \in Port, NEW c \in Conn, RunAdmits(p, c)
      PROVE  [Limit!Next]_Limit!vars
    <2>1. c \notin sessions /\ Holders' = Holders
        BY <1>5 DEF RunAdmits, Goto, BoundedWorkers, WorkerStates
    <2>2. Cardinality(sessions) < MaxSessions
        BY <1>5, FS_CardinalityType, MaxSessionsAssumption
           DEF RunAdmits, Admit, Full, PoolTypeOK
    <2>3. Limit!Enter(c)
        <3>1. ~stopped /\ ~stopped' /\ sessions' = sessions \cup {c}
            BY <1>5 DEF RunAdmits, Admit, Full
        <3> HIDE DEF Holders, AfterGrant, IInv, TypeOK
        <3>2. QED
            BY <2>1, <2>2, <3>1, SameCardinality, Zenon DEF Limit!Enter
    <2>4. QED
        BY <2>3 DEF Limit!Next
<1>6. ASSUME NEW p \in Port, LoopStep(p) PROVE [Limit!Next]_Limit!vars
    <2>1. CASE \E c \in Conn : RunAdmits(p, c)
        BY <1>5, <2>1
    <2>2. CASE LoopExits(p) \/ \E c \in Conn : Accept(p, c) \/ RunRefuses(p, c)
        BY <1>1, <2>2 DEF LoopExits, Accept, RunRefuses, Refuse, Goto
    <2>3. QED
        BY <1>6, <2>1, <2>2 DEF LoopStep
<1>7. ASSUME NEW c \in Conn, Holders' = Holders \ {c}, c \in Holders,
             sessions' = sessions, stopped' = stopped
      PROVE  [Limit!Next]_Limit!vars
    BY <1>7 DEF Limit!Next, Limit!EndSetup
<1>8. ASSUME NEW c \in Conn, WorkerStep(c) PROVE [Limit!Next]_Limit!vars
    <2>1. CASE AcquireGrants(c)
        <3>1. /\ c \in sessions \ Holders
              /\ Holders' = Holders \cup {c}
              /\ sessions' = sessions /\ stopped' = stopped
            BY <2>1 DEF AcquireGrants, TakeSlot, Goto, Stages, BoundedWorkers,
                WorkerStates
        <3>2. Cardinality(Holders) < Slots
            BY <2>1 DEF AcquireGrants, TakeSlot, SlotsAccounted
        <3>3. Limit!BeginSetup(c)
            <4> HIDE DEF Holders, AfterGrant, IInv, TypeOK
            <4>1. QED
                BY <3>1, <3>2, SameCardinality, Zenon DEF Limit!BeginSetup
        <3>4. QED
            BY <3>3 DEF Limit!Next
    <2>2. CASE AcquireBacksOut(c)
        BY <1>7, <2>2 DEF AcquireBacksOut, Release, Goto, Stages
    <2>3. CASE Establish(c)
        BY <1>7, <2>3 DEF Establish, Release, Goto, Stages
    <2>4. CASE UnwindRelease(c) /\ c \notin released
        BY <1>7, <2>4 DEF UnwindRelease, Release, Goto
    <2>5. CASE UnwindRelease(c) /\ c \in released
        BY <1>1, <2>5 DEF UnwindRelease, Goto
    <2>6. CASE UnwindForget(c)
        <3>1. /\ c \in sessions \ Holders
              /\ Holders' = Holders
              /\ sessions' = sessions \ {c} /\ stopped' = stopped
            BY <2>6 DEF UnwindForget, Forget, Goto, BoundedWorkers, WorkerStates
        <3>2. Limit!Leave(c)
            BY <3>1 DEF Limit!Leave
        <3>3. QED
            BY <3>2 DEF Limit!Next
    <2>7. CASE AcquireBegins(c) \/ AcquireGivesUp(c) \/ AcquireExpires(c)
        BY <1>1, <2>7 DEF AcquireBegins, AcquireGivesUp, AcquireExpires, Goto
    <2>8. CASE AcquireReturns(c) \/ DialSucceeds(c) \/ ArmAfterFunc(c)
                 \/ HandshakeSucceeds(c) \/ SetupFails(c)
        BY <1>1, <2>8 DEF AcquireReturns, DialSucceeds, ArmAfterFunc,
            HandshakeSucceeds, SetupFails, Goto
    <2>9. CASE AfterFuncCloses(c) \/ ProxyEnds(c) \/ UnwindRemote(c)
                 \/ UnwindClose(c)
        BY <1>1, <2>9 DEF AfterFuncCloses, ProxyEnds, UnwindRemote,
            UnwindClose, CloseConn, Goto
    <2>10. QED
        BY <1>8, <2>1, <2>2, <2>3, <2>4, <2>5, <2>6, <2>7, <2>8, <2>9
           DEF WorkerStep, SetupStep, LocalStep, UnwindStep
<1>9. QED
    BY <1>2, <1>3, <1>4, <1>6, <1>8 DEF Next

(* The handler implements the abstract session limit, for any number of    *)
(* connections and ports and any capacities.                               *)
THEOREM HandlerImplementsLimit == Spec => ImplementsLimit
<1>1. Init => Limit!Init
    BY DEF Init, NewConnPool, Limit!Init, Holders, AfterGrant
<1>2. IInv /\ [Next]_vars => [Limit!Next]_Limit!vars
    BY LimitStep
<1>3. QED
    BY <1>1, <1>2, Inductive, PTL DEF Spec, ImplementsLimit, Limit!Spec

=============================================================================
