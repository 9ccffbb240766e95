-------------------------- MODULE MCTunnelLifecycle --------------------------
(* TunnelLifecycle for TLC: the forms of the panel, and the forms, port     *)
(* lists and keys the settings are checked for.                             *)
EXTENDS TunnelLifecycle

MCTopPort == 3

Parts == {Blank, Junk} \cup {Ports(lo, hi) : lo, hi \in 0..MCTopPort + 1}
MCPortList == UNION {[1..n -> Parts] : n \in 0..3}

MCKey == {NoKey} \cup [length : {4, 5, 8, 9, 12, 31, 32, 33}, stars : BOOLEAN]

MCForm == [mode : {"iran", "overseas", "other"},
           protocol : {"tcp", "kcp", "quic", "tls"}, udp : BOOLEAN,
           status : {"", "inactive", "active", "other"},
           ports : {<<>>, <<Junk>>, <<Ports(1, 1)>>, <<Ports(1, MCTopPort)>>},
           remoteIP : {"", "ip"}, remotePort : {0, 1, MCTopPort, MCTopPort + 1},
           targetPort : {0, 1, MCTopPort + 1}, kcpMode : {"", "fast3", "other"}]

(* A tunnel that binds port 1, one that cannot start, one that is refused. *)
Entry1 == [mode |-> "iran", protocol |-> "tcp", udp |-> FALSE, status |-> "",
           ports |-> <<Ports(1, 1)>>, remoteIP |-> "ip", remotePort |-> 1,
           targetPort |-> 1, kcpMode |-> ""]
PanelForms == {Entry1, [Entry1 EXCEPT !.ports = <<Junk>>],
               [Entry1 EXCEPT !.remoteIP = ""]}
=============================================================================
