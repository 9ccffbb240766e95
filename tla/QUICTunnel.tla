------------------------------ MODULE QUICTunnel ------------------------------
(***************************************************************************)
(* Both ends of a QUIC tunnel (internal/tunnel/quic.go): the iran handler  *)
(* whose workers share one connection, dialled on demand and again after   *)
(* it died, and the overseas handler that accepts connections, serves the  *)
(* streams on them and caps their number.  Either side may be stopped at   *)
(* any time; a connection may die at one end before the other notices.     *)
(*                                                                         *)
(* Connections are called links.  Worker w's stream and the overseas       *)
(* session that serves it bear the worker's name.  The pool's slots are    *)
(* those of TunnelHandler and not repeated: Acquire succeeds or not.       *)
(***************************************************************************)
EXTENDS Naturals, FiniteSets

CONSTANTS
    Worker,      \* clients of the iran side, one worker goroutine each
    Link,        \* identities for dialled connections: bounds the dials
    NoLink,      \* h.clientConn == nil
    MaxLinks,    \* the overseas cap, 32 in the code
    MaxStreams,  \* streams a link carries, maxSessionsPerTunnel in the code
    Psk,         \* values of encryption_key
    IranPsk,     \* the one the iran end is configured with; the overseas end
                 \* is configured apart from it
    MaxFaults    \* bound: ends that die of the network's doing

ASSUME NoLinkAssumption == NoLink \notin Link
ASSUME MaxLinksAssumption == MaxLinks \in Nat \ {0}
ASSUME MaxStreamsAssumption == MaxStreams \in Nat \ {0}
ASSUME PskAssumption == IranPsk \in Psk
ASSUME MaxFaultsAssumption == MaxFaults \in Nat

VARIABLES
    iran,         \* where Start or Stop of the iran handler is
    clientConn,   \* h.clientConn
    pc,           \* per worker: where its goroutine is
    via,          \* per worker: the link getSharedConn gave it
    client,       \* per link: its iran end
    overseas,     \* where Start or Stop of the overseas handler is
    server,       \* per link: its overseas end
    accept,       \* per link: what the overseas side did with it so far
    loop,         \* the overseas accept loop
    serverConns,  \* h.serverConns
    session,      \* per worker: the overseas end of its stream
    psk,          \* h.psk of each end
    faults

iranVars == <<iran, clientConn, pc, via>>
overseasVars == <<overseas, accept, loop, serverConns, session>>
netVars == <<psk, faults>>
linkVars == <<client, server, netVars>>
vars == <<iranVars, overseasVars, linkVars>>

Side == {"iran", "overseas"}
EndStates == {"unused", "up", "dead"}

TypeOK ==
    /\ iran \in {"new", "binding", "up",
                "cancelled", "poolClosed", "listenersClosed", "down"}
    /\ clientConn \in Link \cup {NoLink}
    /\ pc \in [Worker -> {"new", "admitted", "sharing", "dialing", "opening",
                          "proxying", "gone"}]
    /\ via \in [Worker -> Link \cup {NoLink}]
    /\ client \in [Link -> EndStates]
    /\ overseas \in {"new", "up", "cancelled", "poolClosed", "down"}
    /\ server \in [Link -> EndStates]
    /\ accept \in [Link -> {"none", "queued", "held", "serving", "ending", "done"}]
    /\ loop \in {"none", "looping", "exited"}
    /\ serverConns \subseteq Link
    /\ session \in [Worker -> {"none", "queued", "handed", "setup",
                               "proxying", "gone"}]
    /\ psk \in [Side -> Psk]
    /\ faults \in 0..MaxFaults

Init ==
    /\ iran = "new" /\ clientConn = NoLink
    /\ pc = [w \in Worker |-> "new"]
    /\ via = [w \in Worker |-> NoLink]
    /\ client = [l \in Link |-> "unused"]
    /\ overseas = "new"
    /\ server = [l \in Link |-> "unused"]
    /\ accept = [l \in Link |-> "none"]
    /\ loop = "none" /\ serverConns = {}
    /\ session = [w \in Worker |-> "none"]
    /\ psk \in [Side -> Psk] /\ psk["iran"] = IranPsk
    /\ faults = 0

Goto(w, from, to) == pc[w] = from /\ pc' = [pc EXCEPT ![w] = to]
Serve(w, from, to) == session[w] = from /\ session' = [session EXCEPT ![w] = to]

(* h.ctx of a handler is cancelled, or its Start never got anywhere.       *)
IranDone == iran \notin {"new", "binding", "up"}
OverseasDone == overseas \notin {"new", "up"}

(* The certificate is a function of the key, and its public key is the pin *)
(* that the end with that key wants to see in the peer's certificate.      *)
DeriveQUICCert(key) == [publicKey |-> key]

VerifiesPeer(side, cert) ==
    cert.publicKey = DeriveQUICCert(psk[side]).publicKey

(* Each end presents its certificate and checks the other's.               *)
HandshakePasses ==
    /\ VerifiesPeer("iran", DeriveQUICCert(psk["overseas"]))
    /\ VerifiesPeer("overseas", DeriveQUICCert(psk["iran"]))

-----------------------------------------------------------------------------
(* Start.                                                                  *)

(* Refused before anything is opened (the UDP option, an unknown mode, a   *)
(* list of ports that does not parse), or the first port is being bound.   *)
StartIran ==
    /\ iran = "new"
    /\ iran' \in {"binding", "down"}
    /\ UNCHANGED <<clientConn, pc, via, overseasVars, linkVars>>

(* Every port is bound, or one is not and the handler stops itself; the    *)
(* ports bound before it are being listened on by then.                    *)
StartIranEnds ==
    /\ iran = "binding"
    /\ iran' \in {"up", "cancelled"}
    /\ UNCHANGED <<clientConn, pc, via, overseasVars, linkVars>>

StartOverseas ==
    /\ overseas = "new"
    /\ \/ overseas' = "up" /\ loop' = "looping"
       \/ overseas' = "down" /\ UNCHANGED loop
    /\ UNCHANGED <<iranVars, accept, serverConns, session, linkVars>>

-----------------------------------------------------------------------------
(* The iran side: workers.                                                 *)

(* Accepted, and admitted by the pool, which CloseAll stops.               *)
AdmitClient(w) ==
    /\ iran \in {"binding", "up", "cancelled"}
    /\ Goto(w, "new", "admitted")
    /\ UNCHANGED <<iran, clientConn, via, overseasVars, linkVars>>

AcquireSucceeds(w) ==
    /\ ~IranDone
    /\ Goto(w, "admitted", "sharing")
    /\ UNCHANGED <<iran, clientConn, via, overseasVars, linkVars>>

(* The context is done, or no slot came free in time.                      *)
AcquireFails(w) ==
    /\ Goto(w, "admitted", "gone")
    /\ UNCHANGED <<iran, clientConn, via, overseasVars, linkVars>>

(* Mutant: the shared connection is dialled without holding the mutex. *)
NoDialMutex == TRUE

(* dialMu is held across a whole dial, and else for one step at a time.    *)
DialMuFree == \A w \in Worker : pc[w] # "dialing"

LinkUsable == clientConn # NoLink /\ client[clientConn] = "up"

(* getSharedConn returns the connection it has, which is alive when looked at. *)
ShareLink(w) ==
    /\ DialMuFree
    /\ LinkUsable
    /\ Goto(w, "sharing", "opening")
    /\ via' = [via EXCEPT ![w] = clientConn]
    /\ UNCHANGED <<iran, clientConn, overseasVars, linkVars>>

(* No connection, or a dead one: dial, which fails at once after Stop.     *)
BeginDial(w) ==
    /\ DialMuFree
    /\ ~LinkUsable
    /\ clientConn' = NoLink
    /\ Goto(w, "sharing", IF IranDone THEN "gone" ELSE "dialing")
    /\ UNCHANGED <<iran, via, overseasVars, linkVars>>

(* A dial begun before Stop may still succeed after it.                    *)
DialSucceeds(w, l) ==
    /\ client[l] = "unused"
    /\ overseas \notin {"new", "down"}
    /\ HandshakePasses
    /\ Goto(w, "dialing", "opening")
    /\ clientConn' = l
    /\ via' = [via EXCEPT ![w] = l]
    /\ client' = [client EXCEPT ![l] = "up"]
    /\ server' = [server EXCEPT ![l] = "up"]
    /\ accept' = [accept EXCEPT ![l] = "queued"]
    /\ UNCHANGED <<iran, overseas, loop, serverConns, session, netVars>>

(* Unreachable, refused credentials, 15 s, or Stop.                        *)
DialFails(w) ==
    /\ Goto(w, "dialing", "gone")
    /\ UNCHANGED <<iran, clientConn, via, overseasVars, linkVars>>

StreamsOn(l) == {w \in Worker : pc[w] = "proxying" /\ via[w] = l}

OpenStream(w) ==
    /\ Goto(w, "opening", "proxying")
    /\ client[via[w]] = "up"
    /\ Cardinality(StreamsOn(via[w])) < MaxStreams
    /\ Serve(w, "none", "queued")
    /\ UNCHANGED <<iran, clientConn, via, overseas, accept, loop, serverConns,
                   linkVars>>

(* The link died, it stayed full for 15 s, or Stop.                        *)
OpenFails(w) ==
    /\ Goto(w, "opening", "gone")
    /\ UNCHANGED <<iran, clientConn, via, overseasVars, linkVars>>

ProxyEnds(w) ==
    /\ Goto(w, "proxying", "gone")
    /\ UNCHANGED <<iran, clientConn, via, overseasVars, linkVars>>

-----------------------------------------------------------------------------
(* The iran side: Stop.                                                    *)

StopIran ==
    /\ \/ iran = "up" /\ iran' = "cancelled"
       \/ iran = "cancelled" /\ iran' = "poolClosed"
       \/ iran = "poolClosed" /\ iran' = "listenersClosed"
    /\ UNCHANGED <<clientConn, pc, via, overseasVars, linkVars>>

(* Mutant: Stop looks at h.clientConn before it has dialMu. *)
StopWithoutMutex ==
    /\ iran = "listenersClosed"
    /\ iran' = "down"
    /\ clientConn' = NoLink
    /\ client' = [l \in Link |->
                     IF l = clientConn THEN "dead" ELSE client[l]]
    /\ UNCHANGED <<pc, via, overseasVars, server, netVars>>

(* The last section of Stop, under dialMu.                                 *)
StopClosesLink ==
    /\ iran = "listenersClosed"
    /\ DialMuFree
    /\ iran' = "down"
    /\ clientConn' = NoLink
    /\ client' = [l \in Link |->
                     IF l = clientConn THEN "dead" ELSE client[l]]
    /\ UNCHANGED <<pc, via, overseasVars, server, netVars>>

-----------------------------------------------------------------------------
(* Links die.                                                              *)

(* One end hears of the other's end, or its keep-alive goes unanswered for *)
(* the idle timeout.                                                       *)
ClientHears(l) ==
    /\ client[l] = "up" /\ server[l] = "dead"
    /\ client' = [client EXCEPT ![l] = "dead"]
    /\ UNCHANGED <<iranVars, overseasVars, server, netVars>>

ServerHears(l) ==
    /\ server[l] = "up" /\ client[l] = "dead"
    /\ server' = [server EXCEPT ![l] = "dead"]
    /\ UNCHANGED <<iranVars, overseasVars, client, netVars>>

(* The network fails the two ends of a link, one of them first.            *)
LinkFails(l) ==
    /\ client[l] = "up" /\ server[l] = "up"
    /\ faults < MaxFaults
    /\ faults' = faults + 1
    /\ \/ client' = [client EXCEPT ![l] = "dead"] /\ UNCHANGED server
       \/ server' = [server EXCEPT ![l] = "dead"] /\ UNCHANGED client
    /\ UNCHANGED <<iranVars, overseasVars, psk>>

-----------------------------------------------------------------------------
(* The overseas side.                                                      *)

AcceptLink(l) ==
    /\ loop = "looping"
    /\ accept[l] = "queued" /\ \A k \in Link : accept[k] # "held"
    /\ accept' = [accept EXCEPT ![l] = "held"]
    /\ UNCHANGED <<iranVars, overseas, loop, serverConns, session, linkVars>>

LoopExits ==
    /\ loop = "looping" /\ OverseasDone
    /\ \A k \in Link : accept[k] # "held"
    /\ loop' = "exited"
    /\ UNCHANGED <<iranVars, overseas, accept, serverConns, session, linkVars>>

(* Mutants: the check under the lock forgets Stop, or the cap. *)
FullByCount == Cardinality(serverConns) >= MaxLinks

Full == OverseasDone \/ Cardinality(serverConns) >= MaxLinks

(* The section of the accept loop under h.mu, and what follows it.         *)
RefuseLink(l) ==
    /\ accept[l] = "held" /\ Full
    /\ accept' = [accept EXCEPT ![l] = "done"]
    /\ server' = [server EXCEPT ![l] = "dead"]
    /\ UNCHANGED <<iranVars, overseas, loop, serverConns, session, client, netVars>>

RegisterLink(l) ==
    /\ accept[l] = "held" /\ ~Full
    /\ accept' = [accept EXCEPT ![l] = "serving"]
    /\ serverConns' = serverConns \cup {l}
    /\ UNCHANGED <<iranVars, overseas, loop, session, linkVars>>

(* AcceptStream fails: closed, or Stop.  The deferred CloseWithError.      *)
ServingEnds(l) ==
    /\ accept[l] = "serving"
    /\ server[l] = "dead" \/ OverseasDone
    /\ accept' = [accept EXCEPT ![l] = "ending"]
    /\ server' = [server EXCEPT ![l] = "dead"]
    /\ UNCHANGED <<iranVars, overseas, loop, serverConns, session, client, netVars>>

(* Mutant: the entry of a finished connection stays. *)
ForgetsNothing(l) ==
    /\ accept[l] = "ending"
    /\ accept' = [accept EXCEPT ![l] = "done"]
    /\ UNCHANGED <<iranVars, overseas, loop, serverConns, session, linkVars>>

UnregisterLink(l) ==
    /\ accept[l] = "ending"
    /\ accept' = [accept EXCEPT ![l] = "done"]
    /\ serverConns' = serverConns \ {l}
    /\ UNCHANGED <<iranVars, overseas, loop, session, linkVars>>

AcceptStream(w) ==
    /\ via[w] # NoLink /\ accept[via[w]] = "serving" /\ server[via[w]] = "up"
    /\ Serve(w, "queued", "handed")
    /\ UNCHANGED <<iranVars, overseas, accept, loop, serverConns, linkVars>>

(* pool.Run: refused, and closed, once CloseAll ran.                       *)
RunSession(w) ==
    /\ Serve(w, "handed",
             IF overseas \in {"poolClosed", "down"} THEN "gone" ELSE "setup")
    /\ UNCHANGED <<iranVars, overseas, accept, loop, serverConns, linkVars>>

(* Acquire and the dial of the target, both under the link's context.      *)
SetupSucceeds(w) ==
    /\ Serve(w, "setup", "proxying")
    /\ server[via[w]] = "up"
    /\ UNCHANGED <<iranVars, overseas, accept, loop, serverConns, linkVars>>

SessionEnds(w) ==
    /\ Serve(w, "setup", "gone") \/ Serve(w, "proxying", "gone")
    /\ UNCHANGED <<iranVars, overseas, accept, loop, serverConns, linkVars>>

StopOverseas ==
    /\ \/ overseas = "up" /\ overseas' = "cancelled"
       \/ overseas = "cancelled" /\ overseas' = "poolClosed"
    /\ UNCHANGED <<iranVars, accept, loop, serverConns, session, linkVars>>

(* Mutant: Stop does not close the listener. *)
StopKeepsListener ==
    /\ overseas = "poolClosed"
    /\ overseas' = "down"
    /\ server' = [l \in Link |-> IF l \in serverConns THEN "dead" ELSE server[l]]
    /\ UNCHANGED <<iranVars, accept, loop, serverConns, session, client, netVars>>

(* The section of Stop under h.mu: every registered connection, and the    *)
(* listener, which refuses those it still holds.                           *)
StopClosesLinks ==
    /\ overseas = "poolClosed"
    /\ overseas' = "down"
    /\ server' = [l \in Link |->
                     IF l \in serverConns \/ accept[l] = "queued"
                        THEN "dead" ELSE server[l]]
    /\ accept' = [l \in Link |->
                     IF accept[l] = "queued" THEN "done" ELSE accept[l]]
    /\ UNCHANGED <<iranVars, loop, serverConns, session, client, netVars>>

-----------------------------------------------------------------------------

WorkerStep(w) ==
    \/ AcquireSucceeds(w) \/ AcquireFails(w) \/ ShareLink(w) \/ BeginDial(w)
    \/ DialFails(w) \/ OpenStream(w) \/ OpenFails(w)
    \/ \E l \in Link : DialSucceeds(w, l)

SessionStep(w) == AcceptStream(w) \/ RunSession(w) \/ SetupSucceeds(w)

LinkStep(l) ==
    \/ ClientHears(l) \/ ServerHears(l)
    \/ AcceptLink(l) \/ RefuseLink(l) \/ RegisterLink(l)
    \/ ServingEnds(l) \/ UnregisterLink(l)

Next ==
    \/ StartIran \/ StartIranEnds \/ StartOverseas
    \/ StopIran \/ StopClosesLink \/ StopOverseas \/ StopClosesLinks \/ LoopExits
    \/ \E w \in Worker : \/ AdmitClient(w) \/ WorkerStep(w) \/ ProxyEnds(w)
                         \/ SessionStep(w) \/ SessionEnds(w)
    \/ \E l \in Link : LinkStep(l) \/ LinkFails(l)

Spec == Init /\ [][Next]_vars

Lost(end, w) == via[w] # NoLink /\ end[via[w]] = "dead"

(* A Stop that was called runs on, goroutines run, deadlines pass, and an  *)
(* end hears of a dead link in the end.  A proxy session ends when its     *)
(* context or its stream does; nobody has to call Stop.                    *)
Fairness ==
    /\ WF_vars((IranDone /\ StopIran) \/ StopClosesLink)
    /\ WF_vars((OverseasDone /\ StopOverseas) \/ StopClosesLinks)
    /\ WF_vars(LoopExits)
    /\ \A w \in Worker :
         /\ WF_vars(\/ WorkerStep(w)
                    \/ (IranDone \/ Lost(client, w)) /\ ProxyEnds(w))
         /\ WF_vars(SessionStep(w) \/ (Lost(server, w) /\ SessionEnds(w)))
    /\ \A l \in Link : WF_vars(LinkStep(l))

FairSpec == Spec /\ Fairness

-----------------------------------------------------------------------------
(* Properties.                                                             *)

(* The workers share one connection: every live client end is the one in   *)
(* h.clientConn, so a redial, or two workers finding it dead at once,      *)
(* leaves no connection behind that nobody would ever close.               *)
OneSharedLink == \A l \in Link : client[l] = "up" => clientConn = l

(* Stop of the iran side leaves no connection, also none whose dial was    *)
(* under way, and none is dialled afterwards.                              *)
StopEndsTheLink ==
    iran = "down" =>
        clientConn = NoLink
        /\ \A l \in Link : client[l] # "up"

(* The overseas side serves at most MaxLinks connections, has an entry for *)
(* each of them, and its Stop closed every one that has an entry.          *)
ServedLinksAreListed ==
    /\ Cardinality(serverConns) <= MaxLinks
    /\ \A l \in Link :
         /\ accept[l] \in {"serving", "ending"} <=> l \in serverConns
         /\ overseas = "down" /\ l \in serverConns => server[l] = "dead"

(* Why: dialMu.  One worker dials at a time, only while no connection is   *)
(* live, and none does once Stop has taken the mutex.                      *)
DialsExclude ==
    /\ \A v, w \in Worker : pc[v] = "dialing" /\ pc[w] = "dialing" => v = w
    /\ (\E w \in Worker : pc[w] = "dialing") => clientConn = NoLink
    /\ iran = "down" => clientConn = NoLink /\ DialMuFree
    /\ iran = "new" => clientConn = NoLink /\ \A w \in Worker : pc[w] = "new"

UnusedIsUntouched ==
    \A l \in Link : client[l] = "unused" \/ overseas = "new" => accept[l] = "none"

LinkInv ==
    /\ TypeOK /\ IsFiniteSet(serverConns)
    /\ OneSharedLink /\ DialsExclude
    /\ UnusedIsUntouched /\ ServedLinksAreListed

Quiet == \A w \in Worker : pc[w] \in {"new", "gone"}
Served == \E w \in Worker : session[w] \in {"handed", "setup", "proxying"}

(* From some time on a side that was stopped has ended all its workers,    *)
(* sessions and connections.                                               *)
StopDrains ==
    <>[](/\ IranDone => iran = "down" /\ Quiet
         /\ OverseasDone => /\ overseas = "down" /\ serverConns = {} /\ ~Served
                            /\ \A l \in Link : server[l] # "up")

(* A connection that died at either end is forgotten by the overseas side, *)
(* so that connections nobody uses do not fill the cap for good.           *)
DeadLinksLeave ==
    <>[]\A l \in Link :
          "dead" \in {client[l], server[l]} =>
              l \notin serverConns /\ accept[l] # "held"
=============================================================================
