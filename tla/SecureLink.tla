------------------------------ MODULE SecureLink ------------------------------
(***************************************************************************)
(* A secure connection from its first byte: the handshake of both ends     *)
(* (Handshake), and one direction of the channel (SecureConn), which each  *)
(* end uses as soon as its own handshake is done, whatever the other's is. *)
(***************************************************************************)
EXTENDS Handshake, SecureConn

VARIABLE source   \* the end that writes in the direction that is modelled

linkVars == <<handshakeVars, source, vars>>

LinkInit ==
    /\ HandshakeInit
    /\ source \in End
    /\ Init

(* NewSecureConn at one of the ends.  It reads and writes the handshake's  *)
(* messages only: a frame sent right after msg2 stays on the connection.   *)
Handshaking == HandshakeStep /\ UNCHANGED <<source, vars>>

Channel(e, step) == Established(e) /\ step /\ UNCHANGED <<handshakeVars, source>>

Writing ==
    Channel(source, (\E w \in Writer : WriteStep(w)) \/ CloseWrite)

Reading == Channel(Peer(source), ReadStep)
StartsReading == Channel(Peer(source), BeginRead)
Closes(k) == Channel(Peer(source), CloseStep(k))
StartsClosing(k) == Channel(Peer(source), CallClose(k))

(* A handler whose handshake failed closes the connection as well. *)
Breaks == ConnLost /\ UNCHANGED <<handshakeVars, source>>

LinkNext ==
    \/ Handshaking \/ Writing \/ StartsReading \/ Reading \/ Breaks
    \/ \E k \in Closer : StartsClosing(k) \/ Closes(k)

LinkSpec == LinkInit /\ [][LinkNext]_linkVars

(* As in SecureConn: what runs inside Read and Close.  Nothing says that a *)
(* handshake ends well, or that anyone writes or reads.                    *)
LinkFairness ==
    /\ WF_linkVars(Reading)
    /\ \A k \in Closer : WF_linkVars(Closes(k))

FairLinkSpec == LinkSpec /\ LinkFairness

=============================================================================
