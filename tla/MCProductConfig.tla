-------------------------- MODULE MCProductConfig --------------------------
(* Instances of ProductConfig for TLC. *)
EXTENDS ProductConfig, TLC

Settings(text, port, tail) == [text |-> text, port |-> port, tail |-> tail]

(* 1883/1884 and 1884/1885 tear into 1884/1884; the third does not validate. *)
MCSettingsInputs == {Settings(1, 1884, 1885), Settings(1, 1883, 8080)}
MCPeerInputs == {Settings(1, 1, 1), Settings(0, 1, 1)}
MCManyPeerInputs == MCPeerInputs \cup {Settings(2, 1, 0)}
MCSmallDefaults == Settings(1, 1883, 1884)
MCLargeText == 1
MCOtherText == 2

Flash(s) == [k \in Keys |-> IF k = SETTINGS_KEY THEN s ELSE NoStored]

(* No settings, and peers that are enabled without a port.                 *)
OddPeer == [form |-> "v2", rec |-> Settings(1, 0, 1)]
OddPeers(s) == [k \in Keys |-> IF k = SETTINGS_KEY THEN s ELSE OddPeer]
MCOddFlash == {OddPeers(NoStored)}

(* An empty flash, a current record, settings and peers that do not         *)
(* validate, a version-1 record, and a version-1 record whose MQTT port is *)
(* the fallback port its conversion is given.                              *)
MCFlashes ==
  { Flash(NoStored),
    Flash([form |-> "v2", rec |-> Settings(1, 1884, 1885)]),
    OddPeers([form |-> "v2", rec |-> Settings(1, 1884, 1884)]),
    Flash([form |-> "v1", rec |-> Settings(1, 1883, 0)]),
    Flash([form |-> "v1", rec |-> Settings(1, 1884, 0)]) }

Symmetry == Permutations(Threads)
=============================================================================
