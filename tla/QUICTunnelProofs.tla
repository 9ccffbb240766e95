--------------------------- MODULE QUICTunnelProofs ---------------------------
(***************************************************************************)
(* Proofs about QUICTunnel, for any number of workers, links and network   *)
(* failures and any caps: one shared connection, none left by Stop, and    *)
(* the overseas side's books.                                              *)
(***************************************************************************)
EXTENDS QUICTunnel, FiniteSetTheorems, TLAPS

USE DEF iranVars, overseasVars, linkVars, netVars
USE NoLinkAssumption, MaxLinksAssumption, MaxStreamsAssumption,
    MaxFaultsAssumption, PskAssumption

LEMMA InitSound == Init => LinkInv
<1> SUFFICES ASSUME Init PROVE LinkInv
  OBVIOUS
<1>1. TypeOK
  BY SMT DEF Init, TypeOK, EndStates, Side
<1>2. IsFiniteSet(serverConns) /\ Cardinality(serverConns) = 0
  BY FS_EmptySet DEF Init
<1>3. OneSharedLink /\ DialsExclude /\ UnusedIsUntouched
  BY SMT DEF Init, OneSharedLink, DialsExclude, DialMuFree, UnusedIsUntouched
<1>4. ServedLinksAreListed
  BY <1>2, SMT DEF Init, ServedLinksAreListed
<1> QED
  BY <1>1, <1>2, <1>3, <1>4 DEF LinkInv

LEMMA WorkerSound ==
    ASSUME LinkInv, NEW w \in Worker,
           WorkerStep(w) \/ AdmitClient(w) \/ ProxyEnds(w)
    PROVE  LinkInv'
<1> USE DEF LinkInv
<1>1. CASE AdmitClient(w)
  <2>1. TypeOK'
    BY <1>1, SMT DEF AdmitClient, Goto, TypeOK, EndStates, Side
  <2>2. IsFiniteSet(serverConns')
    BY <1>1, SMT DEF AdmitClient, Goto
  <2>3. OneSharedLink' /\ DialsExclude'
    BY <1>1, SMT DEF AdmitClient, Goto, OneSharedLink, DialsExclude,
       DialMuFree, LinkUsable, IranDone, TypeOK
  <2>4. UnusedIsUntouched'
    BY <1>1, SMT DEF AdmitClient, Goto, UnusedIsUntouched, TypeOK
  <2>5. ServedLinksAreListed'
    BY <1>1, SMT DEF AdmitClient, Goto, ServedLinksAreListed,
       UnusedIsUntouched, OverseasDone, TypeOK
  <2> QED
    BY <2>1, <2>2, <2>3, <2>4, <2>5
<1>2. CASE AcquireSucceeds(w)
  <2>1. TypeOK'
    BY <1>2, SMT DEF AcquireSucceeds, Goto, TypeOK, EndStates, Side
  <2>2. IsFiniteSet(serverConns')
    BY <1>2, SMT DEF AcquireSucceeds, Goto
  <2>3. OneSharedLink' /\ DialsExclude'
    BY <1>2, SMT DEF AcquireSucceeds, Goto, OneSharedLink, DialsExclude,
       DialMuFree, LinkUsable, IranDone, TypeOK
  <2>4. UnusedIsUntouched'
    BY <1>2, SMT DEF AcquireSucceeds, Goto, UnusedIsUntouched, TypeOK
  <2>5. ServedLinksAreListed'
    BY <1>2, SMT DEF AcquireSucceeds, Goto, ServedLinksAreListed,
       UnusedIsUntouched, OverseasDone, TypeOK
  <2> QED
    BY <2>1, <2>2, <2>3, <2>4, <2>5
<1>3. CASE AcquireFails(w)
  <2>1. TypeOK'
    BY <1>3, SMT DEF AcquireFails, Goto, TypeOK, EndStates, Side
  <2>2. IsFiniteSet(serverConns')
    BY <1>3, SMT DEF AcquireFails, Goto
  <2>3. OneSharedLink' /\ DialsExclude'
    BY <1>3, SMT DEF AcquireFails, Goto, OneSharedLink, DialsExclude,
       DialMuFree, LinkUsable, IranDone, TypeOK
  <2>4. UnusedIsUntouched'
    BY <1>3, SMT DEF AcquireFails, Goto, UnusedIsUntouched, TypeOK
  <2>5. ServedLinksAreListed'
    BY <1>3, SMT DEF AcquireFails, Goto, ServedLinksAreListed,
       UnusedIsUntouched, OverseasDone, TypeOK
  <2> QED
    BY <2>1, <2>2, <2>3, <2>4, <2>5
<1>4. CASE ShareLink(w)
  <2>1. TypeOK'
    BY <1>4, SMT DEF ShareLink, Goto, TypeOK, EndStates, Side
  <2>2. IsFiniteSet(serverConns')
    BY <1>4, SMT DEF ShareLink, Goto
  <2>3. OneSharedLink' /\ DialsExclude'
    BY <1>4, SMT DEF ShareLink, Goto, OneSharedLink, DialsExclude, DialMuFree,
       LinkUsable, IranDone, TypeOK
  <2>4. UnusedIsUntouched'
    BY <1>4, SMT DEF ShareLink, Goto, UnusedIsUntouched, TypeOK
  <2>5. ServedLinksAreListed'
    BY <1>4, SMT DEF ShareLink, Goto, ServedLinksAreListed, UnusedIsUntouched,
       OverseasDone, TypeOK
  <2> QED
    BY <2>1, <2>2, <2>3, <2>4, <2>5
<1>5. CASE BeginDial(w)
  <2>1. TypeOK'
    BY <1>5, SMT DEF BeginDial, Goto, TypeOK, EndStates, Side
  <2>2. IsFiniteSet(serverConns')
    BY <1>5, SMT DEF BeginDial, Goto
  <2>3. OneSharedLink' /\ DialsExclude'
    BY <1>5, SMT DEF BeginDial, Goto, OneSharedLink, DialsExclude, DialMuFree,
       LinkUsable, IranDone, TypeOK
  <2>4. UnusedIsUntouched'
    BY <1>5, SMT DEF BeginDial, Goto, UnusedIsUntouched, TypeOK
  <2>5. ServedLinksAreListed'
    BY <1>5, SMT DEF BeginDial, Goto, ServedLinksAreListed, UnusedIsUntouched,
       OverseasDone, TypeOK
  <2> QED
    BY <2>1, <2>2, <2>3, <2>4, <2>5
<1>6. CASE DialFails(w)
  <2>1. TypeOK'
    BY <1>6, SMT DEF DialFails, Goto, TypeOK, EndStates, Side
  <2>2. IsFiniteSet(serverConns')
    BY <1>6, SMT DEF DialFails, Goto
  <2>3. OneSharedLink' /\ DialsExclude'
    BY <1>6, SMT DEF DialFails, Goto, OneSharedLink, DialsExclude, DialMuFree,
       LinkUsable, IranDone, TypeOK
  <2>4. UnusedIsUntouched'
    BY <1>6, SMT DEF DialFails, Goto, UnusedIsUntouched, TypeOK
  <2>5. ServedLinksAreListed'
    BY <1>6, SMT DEF DialFails, Goto, ServedLinksAreListed, UnusedIsUntouched,
       OverseasDone, TypeOK
  <2> QED
    BY <2>1, <2>2, <2>3, <2>4, <2>5
<1>7. CASE OpenStream(w)
  <2>1. TypeOK'
    BY <1>7, SMT DEF OpenStream, Goto, Serve, TypeOK, EndStates, Side
  <2>2. IsFiniteSet(serverConns')
    BY <1>7, SMT DEF OpenStream, Goto, Serve
  <2>3. OneSharedLink' /\ DialsExclude'
    BY <1>7, SMT DEF OpenStream, Goto, Serve, OneSharedLink, DialsExclude,
       DialMuFree, LinkUsable, IranDone, TypeOK
  <2>4. UnusedIsUntouched'
    BY <1>7, SMT DEF OpenStream, Goto, Serve, UnusedIsUntouched, TypeOK
  <2>5. ServedLinksAreListed'
    BY <1>7, SMT DEF OpenStream, Goto, Serve, ServedLinksAreListed,
       UnusedIsUntouched, OverseasDone, TypeOK
  <2> QED
    BY <2>1, <2>2, <2>3, <2>4, <2>5
<1>8. CASE OpenFails(w)
  <2>1. TypeOK'
    BY <1>8, SMT DEF OpenFails, Goto, TypeOK, EndStates, Side
  <2>2. IsFiniteSet(serverConns')
    BY <1>8, SMT DEF OpenFails, Goto
  <2>3. OneSharedLink' /\ DialsExclude'
    BY <1>8, SMT DEF OpenFails, Goto, OneSharedLink, DialsExclude, DialMuFree,
       LinkUsable, IranDone, TypeOK
  <2>4. UnusedIsUntouched'
    BY <1>8, SMT DEF OpenFails, Goto, UnusedIsUntouched, TypeOK
  <2>5. ServedLinksAreListed'
    BY <1>8, SMT DEF OpenFails, Goto, ServedLinksAreListed, UnusedIsUntouched,
       OverseasDone, TypeOK
  <2> QED
    BY <2>1, <2>2, <2>3, <2>4, <2>5
<1>9. CASE ProxyEnds(w)
  <2>1. TypeOK'
    BY <1>9, SMT DEF ProxyEnds, Goto, TypeOK, EndStates, Side
  <2>2. IsFiniteSet(serverConns')
    BY <1>9, SMT DEF ProxyEnds, Goto
  <2>3. OneSharedLink' /\ DialsExclude'
    BY <1>9, SMT DEF ProxyEnds, Goto, OneSharedLink, DialsExclude, DialMuFree,
       LinkUsable, IranDone, TypeOK
  <2>4. UnusedIsUntouched'
    BY <1>9, SMT DEF ProxyEnds, Goto, UnusedIsUntouched, TypeOK
  <2>5. ServedLinksAreListed'
    BY <1>9, SMT DEF ProxyEnds, Goto, ServedLinksAreListed, UnusedIsUntouched,
       OverseasDone, TypeOK
  <2> QED
    BY <2>1, <2>2, <2>3, <2>4, <2>5
<1>10. CASE \E l \in Link : DialSucceeds(w, l)
  <2>1. TypeOK'
    BY <1>10, SMT DEF DialSucceeds, Goto, TypeOK, EndStates, Side
  <2>2. IsFiniteSet(serverConns')
    BY <1>10, SMT DEF DialSucceeds, Goto
  <2>3. OneSharedLink' /\ DialsExclude'
    BY <1>10, SMT DEF DialSucceeds, Goto, OneSharedLink, DialsExclude,
       DialMuFree, LinkUsable, IranDone, TypeOK
  <2>4. UnusedIsUntouched'
    BY <1>10, SMT DEF DialSucceeds, Goto, UnusedIsUntouched,
       HandshakePasses, VerifiesPeer, DeriveQUICCert, TypeOK
  <2>5. ServedLinksAreListed'
    BY <1>10, SMT DEF DialSucceeds, Goto, ServedLinksAreListed,
       UnusedIsUntouched, OverseasDone, TypeOK
  <2> QED
    BY <2>1, <2>2, <2>3, <2>4, <2>5
<1> QED
  BY <1>1, <1>2, <1>3, <1>4, <1>5, <1>6, <1>7, <1>8, <1>9,
   <1>10 DEF WorkerStep

LEMMA SessionSound ==
    ASSUME LinkInv, NEW w \in Worker, SessionStep(w) \/ SessionEnds(w)
    PROVE  LinkInv'
<1> USE DEF LinkInv
<1>1. CASE AcceptStream(w)
  <2>1. TypeOK'
    BY <1>1, SMT DEF AcceptStream, Serve, TypeOK, EndStates, Side
  <2>2. IsFiniteSet(serverConns')
    BY <1>1, SMT DEF AcceptStream, Serve
  <2>3. OneSharedLink' /\ DialsExclude'
    BY <1>1, SMT DEF AcceptStream, Serve, OneSharedLink, DialsExclude,
       DialMuFree, LinkUsable, IranDone, TypeOK
  <2>4. UnusedIsUntouched'
    BY <1>1, SMT DEF AcceptStream, Serve, UnusedIsUntouched, TypeOK
  <2>5. ServedLinksAreListed'
    BY <1>1, SMT DEF AcceptStream, Serve, ServedLinksAreListed,
       UnusedIsUntouched, OverseasDone, TypeOK
  <2> QED
    BY <2>1, <2>2, <2>3, <2>4, <2>5
<1>2. CASE RunSession(w)
  <2>1. TypeOK'
    BY <1>2, SMT DEF RunSession, Serve, TypeOK, EndStates, Side
  <2>2. IsFiniteSet(serverConns')
    BY <1>2, SMT DEF RunSession, Serve
  <2>3. OneSharedLink' /\ DialsExclude'
    BY <1>2, SMT DEF RunSession, Serve, OneSharedLink, DialsExclude,
       DialMuFree, LinkUsable, IranDone, TypeOK
  <2>4. UnusedIsUntouched'
    BY <1>2, SMT DEF RunSession, Serve, UnusedIsUntouched, TypeOK
  <2>5. ServedLinksAreListed'
    BY <1>2, SMT DEF RunSession, Serve, ServedLinksAreListed,
       UnusedIsUntouched, OverseasDone, TypeOK
  <2> QED
    BY <2>1, <2>2, <2>3, <2>4, <2>5
<1>3. CASE SetupSucceeds(w)
  <2>1. TypeOK'
    BY <1>3, SMT DEF SetupSucceeds, Serve, TypeOK, EndStates, Side
  <2>2. IsFiniteSet(serverConns')
    BY <1>3, SMT DEF SetupSucceeds, Serve
  <2>3. OneSharedLink' /\ DialsExclude'
    BY <1>3, SMT DEF SetupSucceeds, Serve, OneSharedLink, DialsExclude,
       DialMuFree, LinkUsable, IranDone, TypeOK
  <2>4. UnusedIsUntouched'
    BY <1>3, SMT DEF SetupSucceeds, Serve, UnusedIsUntouched, TypeOK
  <2>5. ServedLinksAreListed'
    BY <1>3, SMT DEF SetupSucceeds, Serve, ServedLinksAreListed,
       UnusedIsUntouched, OverseasDone, TypeOK
  <2> QED
    BY <2>1, <2>2, <2>3, <2>4, <2>5
<1>4. CASE SessionEnds(w)
  <2>1. TypeOK'
    BY <1>4, SMT DEF SessionEnds, Serve, TypeOK, EndStates, Side
  <2>2. IsFiniteSet(serverConns')
    BY <1>4, SMT DEF SessionEnds, Serve
  <2>3. OneSharedLink' /\ DialsExclude'
    BY <1>4, SMT DEF SessionEnds, Serve, OneSharedLink, DialsExclude,
       DialMuFree, LinkUsable, IranDone, TypeOK
  <2>4. UnusedIsUntouched'
    BY <1>4, SMT DEF SessionEnds, Serve, UnusedIsUntouched, TypeOK
  <2>5. ServedLinksAreListed'
    BY <1>4, SMT DEF SessionEnds, Serve, ServedLinksAreListed,
       UnusedIsUntouched, OverseasDone, TypeOK
  <2> QED
    BY <2>1, <2>2, <2>3, <2>4, <2>5
<1> QED
  BY <1>1, <1>2, <1>3, <1>4 DEF SessionStep

LEMMA LinkSound ==
    ASSUME LinkInv, NEW l \in Link, LinkStep(l) \/ LinkFails(l)
    PROVE  LinkInv'
<1> USE DEF LinkInv
<1>1. CASE ClientHears(l)
  <2>1. TypeOK'
    BY <1>1, SMT DEF ClientHears, TypeOK, EndStates, Side
  <2>2. IsFiniteSet(serverConns')
    BY <1>1, SMT DEF ClientHears
  <2>3. OneSharedLink' /\ DialsExclude'
    BY <1>1, SMT DEF ClientHears, OneSharedLink, DialsExclude, DialMuFree,
       LinkUsable, IranDone, TypeOK
  <2>4. UnusedIsUntouched'
    BY <1>1, SMT DEF ClientHears, UnusedIsUntouched, TypeOK
  <2>5. ServedLinksAreListed'
    BY <1>1, SMT DEF ClientHears, ServedLinksAreListed, UnusedIsUntouched,
       OverseasDone, TypeOK
  <2> QED
    BY <2>1, <2>2, <2>3, <2>4, <2>5
<1>2. CASE ServerHears(l)
  <2>1. TypeOK'
    BY <1>2, SMT DEF ServerHears, TypeOK, EndStates, Side
  <2>2. IsFiniteSet(serverConns')
    BY <1>2, SMT DEF ServerHears
  <2>3. OneSharedLink' /\ DialsExclude'
    BY <1>2, SMT DEF ServerHears, OneSharedLink, DialsExclude, DialMuFree,
       LinkUsable, IranDone, TypeOK
  <2>4. UnusedIsUntouched'
    BY <1>2, SMT DEF ServerHears, UnusedIsUntouched, TypeOK
  <2>5. ServedLinksAreListed'
    BY <1>2, SMT DEF ServerHears, ServedLinksAreListed, UnusedIsUntouched,
       OverseasDone, TypeOK
  <2> QED
    BY <2>1, <2>2, <2>3, <2>4, <2>5
<1>3. CASE LinkFails(l)
  <2>1. TypeOK'
    BY <1>3, SMT DEF LinkFails, TypeOK, EndStates, Side
  <2>2. IsFiniteSet(serverConns')
    BY <1>3, SMT DEF LinkFails
  <2>3. OneSharedLink' /\ DialsExclude'
    BY <1>3, SMT DEF LinkFails, OneSharedLink, DialsExclude, DialMuFree,
       LinkUsable, IranDone, TypeOK
  <2>4. UnusedIsUntouched'
    BY <1>3, SMT DEF LinkFails, UnusedIsUntouched, TypeOK
  <2>5. ServedLinksAreListed'
    BY <1>3, SMT DEF LinkFails, ServedLinksAreListed, UnusedIsUntouched,
       OverseasDone, TypeOK
  <2> QED
    BY <2>1, <2>2, <2>3, <2>4, <2>5
<1>4. CASE AcceptLink(l)
  <2>1. TypeOK'
    BY <1>4, SMT DEF AcceptLink, TypeOK, EndStates, Side
  <2>2. IsFiniteSet(serverConns')
    BY <1>4, SMT DEF AcceptLink
  <2>3. OneSharedLink' /\ DialsExclude'
    BY <1>4, SMT DEF AcceptLink, OneSharedLink, DialsExclude, DialMuFree,
       LinkUsable, IranDone, TypeOK
  <2>4. UnusedIsUntouched'
    BY <1>4, SMT DEF AcceptLink, UnusedIsUntouched, TypeOK
  <2>5. ServedLinksAreListed'
    BY <1>4, SMT DEF AcceptLink, ServedLinksAreListed, UnusedIsUntouched,
       OverseasDone, TypeOK
  <2> QED
    BY <2>1, <2>2, <2>3, <2>4, <2>5
<1>5. CASE RefuseLink(l)
  <2>1. TypeOK'
    BY <1>5, SMT DEF RefuseLink, TypeOK, EndStates, Side
  <2>2. IsFiniteSet(serverConns')
    BY <1>5, SMT DEF RefuseLink
  <2>3. OneSharedLink' /\ DialsExclude'
    BY <1>5, SMT DEF RefuseLink, OneSharedLink, DialsExclude, DialMuFree,
       LinkUsable, IranDone, TypeOK
  <2>4. UnusedIsUntouched'
    BY <1>5, SMT DEF RefuseLink, UnusedIsUntouched, TypeOK
  <2>5. ServedLinksAreListed'
    BY <1>5, SMT DEF RefuseLink, ServedLinksAreListed, UnusedIsUntouched,
       OverseasDone, TypeOK
  <2> QED
    BY <2>1, <2>2, <2>3, <2>4, <2>5
<1>6. CASE RegisterLink(l)
  <2>1. TypeOK'
    BY <1>6, SMT DEF RegisterLink, TypeOK, EndStates, Side
  <2>2. IsFiniteSet(serverConns')
    <3>1. IsFiniteSet(serverConns \cup {l})
      BY FS_AddElement
    <3> QED
      BY <1>6, <3>1 DEF RegisterLink
  <2>3. OneSharedLink' /\ DialsExclude'
    BY <1>6, SMT DEF RegisterLink, OneSharedLink, DialsExclude, DialMuFree,
       LinkUsable, IranDone, TypeOK
  <2>4. UnusedIsUntouched'
    BY <1>6, SMT DEF RegisterLink, UnusedIsUntouched, TypeOK
  <2>5. ServedLinksAreListed'
    <3>1. Cardinality(serverConns \cup {l}) <= Cardinality(serverConns) + 1
      <4>1. Cardinality(serverConns) \in Nat
        BY FS_CardinalityType
      <4>2. Cardinality(serverConns \cup {l}) =
              IF l \in serverConns THEN Cardinality(serverConns)
                                  ELSE Cardinality(serverConns) + 1
        BY FS_AddElement, Zenon
      <4> QED
        BY <4>1, <4>2, SMT
    <3>2. Cardinality(serverConns) < MaxLinks /\ Cardinality(serverConns) \in Nat
      BY <1>6, FS_CardinalityType, SMT DEF RegisterLink, Full
    <3>3. Cardinality(serverConns') <= MaxLinks
      <4>1. serverConns' = serverConns \cup {l}
        BY <1>6 DEF RegisterLink
      <4>2. Cardinality(serverConns \cup {l}) \in Nat
        BY FS_AddElement, FS_CardinalityType, Zenon
      <4> QED
        BY <3>1, <3>2, <4>1, <4>2, SMT
    <3> QED
      BY <1>6, <3>3, SMT DEF RegisterLink, Full, OverseasDone,
         ServedLinksAreListed, TypeOK
  <2> QED
    BY <2>1, <2>2, <2>3, <2>4, <2>5
<1>7. CASE ServingEnds(l)
  <2>1. TypeOK'
    BY <1>7, SMT DEF ServingEnds, TypeOK, EndStates, Side
  <2>2. IsFiniteSet(serverConns')
    BY <1>7, SMT DEF ServingEnds
  <2>3. OneSharedLink' /\ DialsExclude'
    BY <1>7, SMT DEF ServingEnds, OneSharedLink, DialsExclude, DialMuFree,
       LinkUsable, IranDone, TypeOK
  <2>4. UnusedIsUntouched'
    BY <1>7, SMT DEF ServingEnds, UnusedIsUntouched, TypeOK
  <2>5. ServedLinksAreListed'
    BY <1>7, SMT DEF ServingEnds, ServedLinksAreListed, UnusedIsUntouched,
       OverseasDone, TypeOK
  <2> QED
    BY <2>1, <2>2, <2>3, <2>4, <2>5
<1>8. CASE UnregisterLink(l)
  <2>1. TypeOK'
    BY <1>8, SMT DEF UnregisterLink, TypeOK, EndStates, Side
  <2>2. IsFiniteSet(serverConns')
    <3>1. IsFiniteSet(serverConns \ {l})
      BY FS_RemoveElement
    <3> QED
      BY <1>8, <3>1 DEF UnregisterLink
  <2>3. OneSharedLink' /\ DialsExclude'
    BY <1>8, SMT DEF UnregisterLink, OneSharedLink, DialsExclude, DialMuFree,
       LinkUsable, IranDone, TypeOK
  <2>4. UnusedIsUntouched'
    BY <1>8, SMT DEF UnregisterLink, UnusedIsUntouched, TypeOK
  <2>5. ServedLinksAreListed'
    <3>1. Cardinality(serverConns') <= MaxLinks
      <4>1. serverConns' = serverConns \ {l}
        BY <1>8 DEF UnregisterLink
      <4>2. Cardinality(serverConns \ {l}) =
              IF l \in serverConns THEN Cardinality(serverConns) - 1
                                  ELSE Cardinality(serverConns)
        BY FS_RemoveElement, Zenon
      <4>3. Cardinality(serverConns) \in Nat
        BY FS_CardinalityType
      <4> QED
        BY <4>1, <4>2, <4>3, SMT DEF ServedLinksAreListed
    <3> QED
      BY <1>8, <3>1, SMT DEF UnregisterLink, ServedLinksAreListed, TypeOK
  <2> QED
    BY <2>1, <2>2, <2>3, <2>4, <2>5
<1> QED
  BY <1>1, <1>2, <1>3, <1>4, <1>5, <1>6, <1>7, <1>8 DEF LinkStep

LEMMA StopSound ==
    ASSUME LinkInv, StopIran \/ StopClosesLink \/ StopOverseas \/ StopClosesLinks \/ LoopExits
    PROVE  LinkInv'
<1> USE DEF LinkInv
<1>1. CASE StopIran
  <2>1. TypeOK'
    BY <1>1, SMT DEF StopIran, TypeOK, EndStates, Side
  <2>2. IsFiniteSet(serverConns')
    BY <1>1, SMT DEF StopIran
  <2>3. OneSharedLink' /\ DialsExclude'
    BY <1>1, SMT DEF StopIran, OneSharedLink, DialsExclude, DialMuFree,
       LinkUsable, IranDone, TypeOK
  <2>4. UnusedIsUntouched'
    BY <1>1, SMT DEF StopIran, UnusedIsUntouched, TypeOK
  <2>5. ServedLinksAreListed'
    BY <1>1, SMT DEF StopIran, ServedLinksAreListed, UnusedIsUntouched,
       OverseasDone, TypeOK
  <2> QED
    BY <2>1, <2>2, <2>3, <2>4, <2>5
<1>2. CASE StopClosesLink
  <2>1. TypeOK'
    BY <1>2, SMT DEF StopClosesLink, TypeOK, EndStates, Side
  <2>2. IsFiniteSet(serverConns')
    BY <1>2, SMT DEF StopClosesLink
  <2>3. OneSharedLink' /\ DialsExclude'
    BY <1>2, SMT DEF StopClosesLink, OneSharedLink, DialsExclude, DialMuFree,
       LinkUsable, IranDone, TypeOK
  <2>4. UnusedIsUntouched'
    BY <1>2, SMT DEF StopClosesLink, UnusedIsUntouched, TypeOK
  <2>5. ServedLinksAreListed'
    BY <1>2, SMT DEF StopClosesLink, ServedLinksAreListed, UnusedIsUntouched,
       OverseasDone, TypeOK
  <2> QED
    BY <2>1, <2>2, <2>3, <2>4, <2>5
<1>3. CASE StopOverseas
  <2>1. TypeOK'
    BY <1>3, SMT DEF StopOverseas, TypeOK, EndStates, Side
  <2>2. IsFiniteSet(serverConns')
    BY <1>3, SMT DEF StopOverseas
  <2>3. OneSharedLink' /\ DialsExclude'
    BY <1>3, SMT DEF StopOverseas, OneSharedLink, DialsExclude, DialMuFree,
       LinkUsable, IranDone, TypeOK
  <2>4. UnusedIsUntouched'
    BY <1>3, SMT DEF StopOverseas, UnusedIsUntouched, TypeOK
  <2>5. ServedLinksAreListed'
    BY <1>3, SMT DEF StopOverseas, ServedLinksAreListed, UnusedIsUntouched,
       OverseasDone, TypeOK
  <2> QED
    BY <2>1, <2>2, <2>3, <2>4, <2>5
<1>4. CASE StopClosesLinks
  <2>1. TypeOK'
    BY <1>4, SMT DEF StopClosesLinks, TypeOK, EndStates, Side
  <2>2. IsFiniteSet(serverConns')
    BY <1>4, SMT DEF StopClosesLinks
  <2>3. OneSharedLink' /\ DialsExclude'
    BY <1>4, SMT DEF StopClosesLinks, OneSharedLink, DialsExclude, DialMuFree,
       LinkUsable, IranDone, TypeOK
  <2>4. UnusedIsUntouched'
    BY <1>4, SMT DEF StopClosesLinks, UnusedIsUntouched, TypeOK
  <2>5. ServedLinksAreListed'
    BY <1>4, SMT DEF StopClosesLinks, ServedLinksAreListed, UnusedIsUntouched,
       OverseasDone, TypeOK
  <2> QED
    BY <2>1, <2>2, <2>3, <2>4, <2>5
<1>5. CASE LoopExits
  <2>1. TypeOK'
    BY <1>5, SMT DEF LoopExits, TypeOK, EndStates, Side
  <2>2. IsFiniteSet(serverConns')
    BY <1>5, SMT DEF LoopExits
  <2>3. OneSharedLink' /\ DialsExclude'
    BY <1>5, SMT DEF LoopExits, OneSharedLink, DialsExclude, DialMuFree,
       LinkUsable, IranDone, TypeOK
  <2>4. UnusedIsUntouched'
    BY <1>5, SMT DEF LoopExits, UnusedIsUntouched, TypeOK
  <2>5. ServedLinksAreListed'
    BY <1>5, SMT DEF LoopExits, ServedLinksAreListed, UnusedIsUntouched,
       OverseasDone, TypeOK
  <2> QED
    BY <2>1, <2>2, <2>3, <2>4, <2>5
<1> QED
  BY <1>1, <1>2, <1>3, <1>4, <1>5

LEMMA StartSound ==
    ASSUME LinkInv, StartIran \/ StartIranEnds \/ StartOverseas
    PROVE  LinkInv'
<1> USE DEF LinkInv
<1>1. CASE StartIran
  <2>1. TypeOK'
    BY <1>1, SMT DEF StartIran, TypeOK, EndStates, Side
  <2>2. IsFiniteSet(serverConns')
    BY <1>1, SMT DEF StartIran
  <2>3. OneSharedLink' /\ DialsExclude'
    BY <1>1, SMT DEF StartIran, OneSharedLink, DialsExclude, DialMuFree,
       LinkUsable, IranDone, TypeOK
  <2>4. UnusedIsUntouched'
    BY <1>1, SMT DEF StartIran, UnusedIsUntouched, TypeOK
  <2>5. ServedLinksAreListed'
    BY <1>1, SMT DEF StartIran, ServedLinksAreListed, UnusedIsUntouched,
       OverseasDone, TypeOK
  <2> QED
    BY <2>1, <2>2, <2>3, <2>4, <2>5
<1>2. CASE StartIranEnds
  <2>1. TypeOK'
    BY <1>2, SMT DEF StartIranEnds, TypeOK, EndStates, Side
  <2>2. IsFiniteSet(serverConns')
    BY <1>2, SMT DEF StartIranEnds
  <2>3. OneSharedLink' /\ DialsExclude'
    BY <1>2, SMT DEF StartIranEnds, OneSharedLink, DialsExclude, DialMuFree,
       LinkUsable, IranDone, TypeOK
  <2>4. UnusedIsUntouched'
    BY <1>2, SMT DEF StartIranEnds, UnusedIsUntouched, TypeOK
  <2>5. ServedLinksAreListed'
    BY <1>2, SMT DEF StartIranEnds, ServedLinksAreListed, UnusedIsUntouched,
       OverseasDone, TypeOK
  <2> QED
    BY <2>1, <2>2, <2>3, <2>4, <2>5
<1>3. CASE StartOverseas
  <2>1. TypeOK'
    BY <1>3, SMT DEF StartOverseas, TypeOK, EndStates, Side
  <2>2. IsFiniteSet(serverConns')
    BY <1>3, SMT DEF StartOverseas
  <2>3. OneSharedLink' /\ DialsExclude'
    BY <1>3, SMT DEF StartOverseas, OneSharedLink, DialsExclude, DialMuFree,
       LinkUsable, IranDone, TypeOK
  <2>4. UnusedIsUntouched'
    BY <1>3, SMT DEF StartOverseas, UnusedIsUntouched, TypeOK
  <2>5. ServedLinksAreListed'
    BY <1>3, SMT DEF StartOverseas, ServedLinksAreListed, UnusedIsUntouched,
       OverseasDone, TypeOK
  <2> QED
    BY <2>1, <2>2, <2>3, <2>4, <2>5
<1> QED
  BY <1>1, <1>2, <1>3

(* The books of both ends are inductive.                                   *)
LEMMA StepSound == LinkInv /\ [Next]_vars => LinkInv'
<1> SUFFICES ASSUME LinkInv, [Next]_vars PROVE LinkInv'
  OBVIOUS
<1>1. CASE Next
  BY <1>1, StartSound, WorkerSound, SessionSound, LinkSound, StopSound DEF Next
<1>2. CASE UNCHANGED vars
  BY <1>2, SMT DEF vars, LinkInv, TypeOK, OneSharedLink, DialsExclude,
       DialMuFree, UnusedIsUntouched, ServedLinksAreListed, Side
<1> QED
  BY <1>1, <1>2

(* The state of both ends, and what dialMu and h.mu protect, hold always.  *)
THEOREM LinksAccounted == Spec => []LinkInv
<1> QED
  BY InitSound, StepSound, PTL DEF Spec

(* getSharedConn never leaves two live connections behind.                 *)
THEOREM AlwaysOneSharedLink == Spec => []OneSharedLink
<1>1. LinkInv => OneSharedLink
  BY DEF LinkInv
<1> QED
  BY <1>1, LinksAccounted, PTL

(* After Stop of the iran side no connection is open and none comes back.  *)
THEOREM StopAlwaysEndsTheLink == Spec => []StopEndsTheLink
<1>1. LinkInv => StopEndsTheLink
  BY SMT DEF LinkInv, TypeOK, OneSharedLink, DialsExclude, StopEndsTheLink
<1> QED
  BY <1>1, LinksAccounted, PTL

(* The overseas cap holds, and Stop closed every connection it had listed. *)
THEOREM ServedLinksAlwaysListed == Spec => []ServedLinksAreListed
<1>1. LinkInv => ServedLinksAreListed
  BY DEF LinkInv
<1> QED
  BY <1>1, LinksAccounted, PTL

=============================================================================
