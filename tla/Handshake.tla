------------------------------ MODULE Handshake ------------------------------
(***************************************************************************)
(* The handshake that precedes a secure channel: NewSecureConn of          *)
(* internal/tunnel/crypto/crypto.go at both ends of one connection.        *)
(*                                                                         *)
(* Each end has the key its operator configured.  A message is its domain  *)
(* label and the key of its MAC; a reader waits for all of it, so a        *)
(* message that was cut short is one that does not come.  The ephemeral    *)
(* keys and the random values of a connection enter both MACs and both     *)
(* derivations, so what tells two derived keys of a connection apart is    *)
(* the configured key and which half of the derived material it is.        *)
(***************************************************************************)
EXTENDS Naturals

CONSTANT Psk   \* keys an operator may have configured

End == {"client", "server"}
Peer(e) == IF e = "client" THEN "server" ELSE "client"

VARIABLES
    psk,    \* per end: the configured key
    hs,     \* per end: where NewSecureConn is
    wire,   \* per end: the message it has sent and the peer has not read
    keys    \* per end: the keys of its two directions

handshakeVars == <<psk, hs, wire, keys>>

Finished == {"done", "failed"}
Steps == {"start", "await", "reply", "derive"} \cup Finished
Message == [domain : {"msg1", "msg2"}, mac : Psk]
Key == [psk : Psk, half : {1, 2}]

HandshakeTypeOK ==
    /\ psk \in [End -> Psk]
    /\ hs \in [End -> Steps]
    /\ wire \in [End -> SUBSET Message]
    /\ keys \in [End -> [tx : Key, rx : Key]]

Half(e, n) == [psk |-> psk[e], half |-> n]

HandshakeInit ==
    /\ psk \in [End -> Psk]
    /\ hs = [e \in End |-> IF e = "client" THEN "start" ELSE "await"]
    /\ wire = [e \in End |-> {}]
    /\ keys = [e \in End |-> [tx |-> Half(e, 1), rx |-> Half(e, 1)]]

Established(e) == hs[e] = "done"

Goto(e, step) == hs' = [hs EXCEPT ![e] = step]

Send(e, domain) ==
    wire' = [wire EXCEPT ![e] = @ \cup {[domain |-> domain, mac |-> psk[e]]}]

(* Mutant: the MAC is computed and not compared. *)
VerifiesAny(e, message, domain) == message.domain = domain

(* hmac.Equal, with the label of the message that is expected. *)
Verifies(e, message, domain) ==
    message.domain = domain /\ message.mac = psk[e]

(* The message of the peer is read, and refused unless its MAC verifies. *)
Receive(e, domain, next) ==
    /\ hs[e] = "await"
    /\ \E message \in wire[Peer(e)] :
          /\ wire' = [wire EXCEPT ![Peer(e)] = @ \ {message}]
          /\ Goto(e, IF Verifies(e, message, domain) THEN next ELSE "failed")
    /\ UNCHANGED <<psk, keys>>

(* performClientHandshake sends first .. *)
SendMsg1 ==
    /\ hs["client"] = "start"
    /\ Send("client", "msg1")
    /\ Goto("client", "await")
    /\ UNCHANGED <<psk, keys>>

ReceiveMsg1 == Receive("server", "msg1", "reply")

(* .. and performServerHandshake answers before it derives its keys. *)
SendMsg2 ==
    /\ hs["server"] = "reply"
    /\ Send("server", "msg2")
    /\ Goto("server", "derive")
    /\ UNCHANGED <<psk, keys>>

ReceiveMsg2 == Receive("client", "msg2", "derive")

(* k1, k2 at the client, k2, k1 at the server. *)
Halves(e) ==
    IF e = "client" THEN [tx |-> Half(e, 1), rx |-> Half(e, 2)]
                    ELSE [tx |-> Half(e, 2), rx |-> Half(e, 1)]

Derive(e) ==
    /\ hs[e] = "derive"
    /\ keys' = [keys EXCEPT ![e] = Halves(e)]
    /\ Goto(e, "done")
    /\ UNCHANGED <<psk, wire>>

(* The deadline the handlers set, a connection that is lost, or a source   *)
(* of randomness or a derivation that fails.                               *)
HandshakeFails(e) ==
    /\ hs[e] \notin Finished
    /\ Goto(e, "failed")
    /\ UNCHANGED <<psk, wire, keys>>

HandshakeStep ==
    \/ SendMsg1 \/ ReceiveMsg1 \/ SendMsg2 \/ ReceiveMsg2
    \/ \E e \in End : Derive(e) \/ HandshakeFails(e)

-----------------------------------------------------------------------------
(* An end has a channel only if the other was given the same key; the two  *)
(* directions never share a key, for their nonces are the same numbers;    *)
(* and if both ends have a channel, what one seals the other opens, even   *)
(* though either may be done while the other still waits, or fails after   *)
(* all (crypto.go:32, 278-281).                                            *)
KeysAgree ==
    \A e \in End : Established(e) =>
       /\ psk[e] = psk[Peer(e)]
       /\ keys[e].tx # keys[e].rx
       /\ Established(Peer(e)) => keys[e].tx = keys[Peer(e)].rx

(* Why: a message verifies only under its writer's key, the server sends   *)
(* only after the client's message verified, and keys follow the role.     *)
MessagesGenuine ==
    \A e \in End : \A message \in wire[e] :
       /\ message.mac = psk[e]
       /\ message.domain = IF e = "client" THEN "msg1" ELSE "msg2"

KeysFollowRole ==
    \A e \in End :
       /\ hs[e] \in {"reply", "derive", "done"} => psk[e] = psk[Peer(e)]
       /\ hs[e] = "done" => keys[e] = Halves(e)

HandshakeInv == HandshakeTypeOK /\ MessagesGenuine /\ KeysFollowRole

=============================================================================
