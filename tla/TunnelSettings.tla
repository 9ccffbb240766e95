--------------------------- MODULE TunnelSettings ---------------------------
(***************************************************************************)
(* What a save lets through and what a start makes of it: ParsePorts       *)
(* (internal/tunnel/helper.go), validateTunnel (internal/config/config.go) *)
(* the key masks of internal/api/handlers.go, and the conditions under     *)
(* which newHandler and Start refuse a tunnel for its settings.            *)
(*                                                                         *)
(* A port list is the sequence of its comma-separated parts; a single port *)
(* is a range of one.  Of a key its length is kept, and whether it has the *)
(* four asterisks of a mask where a mask has them.                         *)
(***************************************************************************)
EXTENDS Naturals, FiniteSets, SequencesExt

CONSTANTS
    PortList,  \* port lists that may be entered
    Form,      \* tunnels that may be posted
    Key,       \* keys that may be posted or stored
    TopPort,   \* 65535
    MaxPorts   \* MaxPortsPerTunnel

ASSUME SettingsConstants ==
    /\ TopPort \in Nat
    /\ MaxPorts \in Nat

minEncryptionKeyLength == 32

Blank == [kind |-> "blank"]
Junk == [kind |-> "junk"]
Ports(lo, hi) == [kind |-> "range", lo |-> lo, hi |-> hi]
Part == {Blank, Junk} \cup [kind : {"range"}, lo : Nat, hi : Nat]

ASSUME ListsOfParts == \A list \in PortList : list \in Seq(Part)

BadPart(part) ==
    \/ part.kind = "junk"
    \/ /\ part.kind = "range"
       /\ part.lo > part.hi \/ part.lo < 1 \/ part.hi > TopPort

(* The ports of a part, appended one by one. *)
Listed(part) ==
    IF part.kind = "range"
        THEN [i \in 1..(part.hi + 1 - part.lo) |-> part.lo + i - 1]
        ELSE <<>>

AllListed(list) ==
    LET upTo[n \in 0..Len(list)] ==
            IF n = 0 THEN <<>> ELSE upTo[n - 1] \o Listed(list[n])
    IN  upTo[Len(list)]

AddNew(unique, p) == IF p \in ToSet(unique) THEN unique ELSE Append(unique, p)

Unique(ports) ==
    LET upTo[n \in 0..Len(ports)] ==
            IF n = 0 THEN <<>> ELSE AddNew(upTo[n - 1], ports[n])
    IN  upTo[Len(ports)]

Fits(ports) == ports # <<>> /\ Len(ports) <= MaxPorts

(* Mutant: the cap is applied before duplicates are removed. *)
CappedTooEarly(list) ==
    IF (\E i \in DOMAIN list : BadPart(list[i])) \/ ~Fits(AllListed(list))
        THEN <<>>
        ELSE Unique(AllListed(list))

(* ParsePorts; the empty sequence stands for its errors. *)
ParsePorts(list) ==
    IF (\E i \in DOMAIN list : BadPart(list[i])) \/ ~Fits(Unique(AllListed(list)))
        THEN <<>>
        ELSE Unique(AllListed(list))

-----------------------------------------------------------------------------
NoKey == [length |-> 0, stars |-> FALSE]

maskKey(key) == [length |-> IF key.length <= 8 THEN 4 ELSE 12, stars |-> TRUE]

(* Mutant: only the mask of a short key is recognised. *)
isShortMask(key) == key.stars /\ key.length = 4

isMaskedKey(key) == key.stars /\ key.length \in {4, 12}

(* ensureEncryptionKey, of a new tunnel. *)
KeyOfNew(posted, generated) == IF posted = NoKey THEN generated ELSE posted

(* The key UpdateTunnel validates and stores: the handler takes an echoed  *)
(* mask for no key, and no key keeps the stored one.                       *)
KeyOfEdit(posted, stored) ==
    IF posted = NoKey \/ isMaskedKey(posted) THEN stored ELSE posted

ValidKey(key) == key.length >= minEncryptionKeyLength

(* validateTunnel, apart from the key. *)
ValidateTunnel(form) ==
    /\ form.mode \in {"iran", "overseas"}
    /\ form.protocol \in {"tcp", "kcp", "quic"}
    /\ form.status \in {"", "active", "inactive"}
    /\ form.remotePort \in 1..TopPort
    /\ form.mode = "iran" => form.remoteIP # ""
    /\ form.mode = "overseas" => form.targetPort \in 1..TopPort
    /\ form.protocol = "kcp" =>
          form.kcpMode \in {"", "normal", "fast", "fast2", "fast3"}

(* newHandler, and what Start refuses before it binds a port. *)
StartRefuses(form) ==
    \/ form.protocol \notin {"tcp", "kcp", "quic"}
    \/ form.protocol = "quic" /\ form.udp
    \/ form.mode \notin {"iran", "overseas"}
    \/ form.mode = "iran" /\ ParsePorts(form.ports) = <<>>

(* The ports Start binds: one per local port, or the tunnel's own. *)
PortsToBind(form) ==
    IF StartRefuses(form) THEN {}
    ELSE IF form.mode = "iran" THEN ToSet(ParsePorts(form.ports))
    ELSE {form.remotePort}

-----------------------------------------------------------------------------
Named(list) ==
    {p \in 1..TopPort : \E i \in DOMAIN list :
        list[i].kind = "range" /\ list[i].lo <= p /\ p <= list[i].hi}

WellFormed(list) ==
    \A i \in DOMAIN list :
        \/ list[i].kind = "blank"
        \/ /\ list[i].kind = "range"
           /\ {list[i].lo, list[i].hi} \subseteq 1..TopPort
           /\ list[i].lo <= list[i].hi

(* The ports a form names. *)
NamedBy(form) ==
    IF form.mode = "iran" THEN Named(form.ports) ELSE {form.remotePort}

ListsParsed ==
    \A list \in PortList :
        LET parsed == ParsePorts(list) IN
        /\ Len(parsed) = Cardinality(ToSet(parsed))
        /\ ToSet(parsed) =
              IF WellFormed(list) /\ Cardinality(Named(list)) \in 1..MaxPorts
                  THEN Named(list) ELSE {}

FormsUsable ==
    \A form \in Form : ValidateTunnel(form) /\ StartRefuses(form) =>
        \/ form.mode = "iran" /\ ParsePorts(form.ports) = <<>>
        \/ form.protocol = "quic" /\ form.udp

KeysKept ==
    \A stored \in Key : ValidKey(stored) =>
        /\ KeyOfEdit(NoKey, stored) = stored
        /\ KeyOfEdit(maskKey(stored), stored) = stored
        /\ \A other \in Key : ~ValidKey(KeyOfNew(maskKey(other), stored))

=============================================================================
