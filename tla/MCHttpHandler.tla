-------------------------- MODULE MCHttpHandler --------------------------
(* Requests for HttpHandler, chosen for what they store and for how they   *)
(* use the slots.                                                          *)
EXTENDS HttpHandler, TLC

Text(n) == [kind |-> "string", val |-> n]
Num(n)  == [kind |-> "number", val |-> n]
Word(w) == [kind |-> w, val |-> 0]

Piece(b) == [large |-> FALSE, body |-> b]
Full(b)  == [large |-> TRUE, body |-> b]

RequestTo(method, path, arg, pieces) ==
  [method |-> method, path |-> path, arg |-> arg, pieces |-> pieces]
GetOf(path)     == RequestTo("GET", path, Word("word"), << Piece(<<>>) >>)
PostOf(path, b) == RequestTo("POST", path, Word("word"), << Piece(b) >>)

TheFactory ==
  [settings |-> [name |-> 2, mode |-> "auto", port |-> 1883, on |-> 0],
   peers |-> [i \in 0 .. (PEER_MAX - 1) |->
                [host |-> 0, mqtt |-> 0, p2p |-> 0, on |-> 0]]]

(* Values at and beyond every limit: an empty name, one that just fits (3), *)
(* ports 0, 65535 and 65536, the fallback port, unknown words and modes.    *)
ConfigBodies ==
  { "device_name" :> Text(3) @@ "mqtt_port" :> Num(65535),
    "device_name" :> Text(0) @@ "mqtt_port" :> Num(1883),
    "mqtt_port" :> Num(65536),
    "mqtt_port" :> Num(1884),
    "mode" :> Num(1),
    "broker_enabled" :> Word("true") @@ "mode" :> Text(8),
    "broker_enabled" :> Text(4) @@ "mode" :> Text(4),
    "mode" :> Text(5),
    "broker_enabled" :> Num(2),
    "other" :> Num(1) }

PeerBodies ==
  { "enabled" :> Num(1),
    "enabled" :> Word("true") @@ "host" :> Text(5) @@ "mqtt_port" :> Num(1),
    "enabled" :> Word("false") @@ "p2p_port" :> Num(0) @@ "host" :> Text(1) }

StorageRequests ==
  { PostOf("/config", b) : b \in ConfigBodies }
  \cup { RequestTo("POST", "/peers/", arg, << Piece(b) >>) :
           arg \in {Word("word"), Num(0), Num(1)}, b \in PeerBodies }
  \cup { PostOf("/config/reset", <<>>),
         RequestTo("POST", "/config", Word("word"), << Piece(<<>>), Full(<<>>) >>) }

SlotRequests ==
  { GetOf("/"), GetOf("/status"), GetOf("/config"), GetOf("/none"),
    PostOf("/none", <<>>),
    PostOf("/reboot", <<>>),
    PostOf("/config", "broker_enabled" :> Word("true")),
    PostOf("/broker/control", "enabled" :> Num(1)),
    PostOf("/broker/control", "enabled" :> Num(2)),
    PostOf("/publish-test", "topic" :> Text(1) @@ "payload" :> Text(1)),
    PostOf("/publish-test", "topic" :> Text(1) @@ "payload" :> Text(1) @@ "qos" :> Num(3)),
    RequestTo("POST", "/config", Word("word"),
              << Piece(<<>>), Piece("mode" :> Text(3)) >>) }

(* A change worth saving, and a body that does not fit in one piece. *)
PortChange == { PostOf("/config", "mqtt_port" :> Num(1885)) }
TwoPieces  == { RequestTo("POST", "/config", Word("word"),
                          << Piece("device_name" :> Text(3)), Piece("mode" :> Text(3)) >>) }

Symmetry == Permutations(Clients)
=============================================================================
