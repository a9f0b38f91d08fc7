---------------------------- MODULE MCPeerSeeds ----------------------------
(* An instance of PeerSeeds for TLC. *)
EXTENDS PeerSeeds

Enabled(h) == [host |-> h, mqtt |-> 1, p2p |-> 1, enabled |-> 1]

(* Two addresses, a name, and a peer that is switched off. *)
MCOffered == {Enabled("a"), Enabled("b"), Enabled("n"),
              [Enabled("a") EXCEPT !.enabled = 0]}

(* Records that could not be saved today: without a host or without a port. *)
MCStored == {NoPeer, Enabled("a"), Enabled("n"), Enabled(""),
             [Enabled("a") EXCEPT !.mqtt = 0], [Enabled("b") EXCEPT !.p2p = 0]}
=============================================================================
