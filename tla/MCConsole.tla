----------------------------- MODULE MCConsole -----------------------------
(* An instance of Console for TLC. *)
EXTENDS Console

MCDefaults ==
  [ip |-> 3, gateway |-> 3, netmask |-> 3, dns |-> 3, dhcp |-> 0, mode |-> "auto",
   mqtt |-> 1883, p2p |-> 4884, fallback |-> 1884, brokerIp |-> 3, enabled |-> 1]

(* Numbers that wrap to the MQTT port and to 0, and the fallback port. *)
MCPorts == {65536 + 1883, 65536, 1884}
MCFlags == {0, 1, 256}
MCIndices == {-1, 0, PEER_MAX}
MCPeerArguments == {<<>>, <<65536>>, <<65536, 0, 256>>}
=============================================================================
