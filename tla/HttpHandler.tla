---------------------------- MODULE HttpHandler ----------------------------
(***************************************************************************)
(* The provisioning HTTP server on Zephyr, app/src/provisioning_http.c:    *)
(* the handler the server's thread calls back, the buffer slots its        *)
(* answers are sent from, and what its JSON readers make of a body.        *)
(*                                                                         *)
(* The server hands a request body over in pieces as they arrive, and the  *)
(* last one as HTTP_SERVER_REQUEST_DATA_FINAL; it sends the answer after   *)
(* the handler has returned, out of the slot the answer was built in, and  *)
(* then reports the transaction complete.  A client that goes away is      *)
(* reported as an abort.  Callbacks of different clients interleave; one   *)
(* callback runs to its end, so it is one step here.  What other threads   *)
(* do to the configuration meanwhile is the subject of ProductConfig.      *)
(*                                                                         *)
(* A text is its length, a longer text beginning with the shorter one, so  *)
(* that "auto" is 4, "eth" 3 and "ethernet" 8.  A JSON value is what the   *)
(* readers see after the colon: a quoted string, a number or a bare word.  *)
(***************************************************************************)
EXTENDS Integers, Sequences, FiniteSets

CONSTANTS
  Clients,      \* client contexts of the server (CONFIG_HTTP_SERVER_MAX_CLIENTS)
  NoClient,     \* the NULL pointer
  SLOTS,        \* ZEPHYR_HTTP_BUFFER_SLOTS
  PEER_MAX,     \* FIELD_BRIDGE_PEER_MAX
  NAME_MAX,     \* FIELD_BRIDGE_NAME_MAX
  HOST_MAX,     \* FIELD_BRIDGE_HOST_MAX
  TEST_MAX,     \* the size of a test message's topic and payload
  FALLBACK,     \* the fallback port, which requests leave alone
  Requests,     \* requests the clients make
  Factory       \* the configuration a reset writes, and the flash at first

MODE_MAX == 16
P2P_PORT == 4884
PORT_MAX == 65535

Slots == 0 .. (SLOTS - 1)
NoSlot == SLOTS
Indices == 0 .. (PEER_MAX - 1)

Value == [kind : {"number"}, val : Int]
         \cup [kind : {"string", "true", "false", "word"}, val : Nat]
IsPiece(p) == p.large \in BOOLEAN /\ \A k \in DOMAIN p.body : p.body[k] \in Value

Port == 0 .. PORT_MAX
Settings == [name : 0 .. (NAME_MAX - 1), mode : {"auto", "eth"},
             port : Port, on : {0, 1}]
Peer == [host : 0 .. (HOST_MAX - 1), mqtt : Port, p2p : Port, on : {0, 1}]
Config == [settings : Settings, peers : [Indices -> Peer]]
Test == [topic : 0 .. (TEST_MAX - 1), payload : 0 .. (TEST_MAX - 1),
         qos : 0 .. 2, retain : {0, 1}]
NoTest == [topic |-> 0, payload |-> 0, qos |-> 0, retain |-> 0]

(* validate_settings and validate_peer, on what the requests can change. *)
ValidSettings(s) == s.name > 0 /\ s.port > 0 /\ s.port # FALLBACK
ValidPeer(p) == p.on = 1 => p.host > 0 /\ p.mqtt > 0 /\ p.p2p > 0

ASSUME SizeAssumption ==
  /\ SLOTS \in Nat \ {0} /\ PEER_MAX \in Nat \ {0}
  /\ NAME_MAX \in Nat \ {0} /\ HOST_MAX \in Nat \ {0} /\ TEST_MAX \in Nat \ {0}
ASSUME ClientAssumption == IsFiniteSet(Clients) /\ NoClient \notin Clients
ASSUME RequestAssumption ==
  \A r \in Requests :
    /\ Len(r.pieces) \in Nat \ {0} /\ r.arg \in Value
    /\ \A i \in DOMAIN r.pieces : IsPiece(r.pieces[i])
ASSUME FactoryAssumption ==
  /\ Factory \in Config /\ ValidSettings(Factory.settings)
  /\ \A i \in Indices : ValidPeer(Factory.peers[i])

VARIABLES
  conn,      \* each client: phase, request, pieces not yet handed over, answer
  slots,     \* zephyr_buffers: the owner and the answer built in it
  ram,       \* the configuration in RAM
  flash,     \* the configuration in flash
  broker,    \* the broker state this handler asked for last
  test,      \* last_publish
  rebooting  \* http_reboot_work is scheduled

vars == <<conn, slots, ram, flash, broker, test, rebooting>>

Texts == {"", "page", "status", "config", "peers", "peer-status",
          "reboot_required:true", "reboot_required:false", "ok", "requested",
          "recorded", "reset", "rebooting", "not found", "low memory",
          "request too large", "invalid config JSON", "invalid peer JSON",
          "invalid broker control", "invalid publish test", "reset failed"}
Reply == [status : {0, 200, 400, 404, 503}, text : Texts, slot : Slots \cup {NoSlot}]
NoReply == [status |-> 0, text |-> "", slot |-> NoSlot]
NoRequest == [method |-> "", path |-> "", arg |-> [kind |-> "word", val |-> 0],
              pieces |-> <<>>]
Idle == [phase |-> "idle", req |-> NoRequest, left |-> 0, reply |-> NoReply]
FreeSlot == [client |-> NoClient, response |-> ""]

TypeOK ==
  /\ conn \in [Clients -> [phase : {"idle", "receiving", "sending"},
                           req : Requests \cup {NoRequest}, left : Nat, reply : Reply]]
  /\ slots \in [Slots -> [client : Clients \cup {NoClient}, response : Texts]]
  /\ ram \in Config /\ flash \in Config
  /\ broker \in {"unset", "requested", "stopped"}
  /\ test \in Test
  /\ rebooting \in BOOLEAN

----------------------------------------------------------------------------
(* The JSON readers: "ok" says whether they return 0, "out" what they leave *)
(* in the caller's variable, which held "old".                              *)

Smaller(a, b) == IF a < b THEN a ELSE b

(* Mutant: the reader lets the text take up all of the buffer. *)
StringWide(b, k, cap, old) ==
  IF k \in DOMAIN b /\ b[k].kind = "string"
  THEN [ok |-> b[k].val <= cap, out |-> Smaller(b[k].val, cap)]
  ELSE [ok |-> FALSE, out |-> old]

(* json_get_string copies as it reads: a text that does not fit has        *)
(* overwritten the variable with its beginning when -1 is returned.        *)
StringOf(b, k, cap, old) ==
  IF k \in DOMAIN b /\ b[k].kind = "string"
  THEN [ok |-> b[k].val < cap, out |-> Smaller(b[k].val, cap - 1)]
  ELSE [ok |-> FALSE, out |-> old]

(* strtol: a quoted string or a word has no digits at its front. *)
Strtol(v) == IF v.kind = "number" THEN v.val ELSE 0

U16Of(b, k, old) ==
  IF k \in DOMAIN b /\ Strtol(b[k]) > 0 /\ Strtol(b[k]) <= PORT_MAX
  THEN [ok |-> TRUE, out |-> Strtol(b[k])]
  ELSE [ok |-> FALSE, out |-> old]

(* json_get_boolish: true, false, or a number that must be 0 or 1. *)
BoolOf(b, k, old) ==
  IF k \in DOMAIN b /\ b[k].kind = "true" THEN [ok |-> TRUE, out |-> 1]
  ELSE IF k \in DOMAIN b /\ Strtol(b[k]) \in {0, 1}
  THEN [ok |-> TRUE, out |-> Strtol(b[k])]
  ELSE [ok |-> FALSE, out |-> old]

ModeNames == [n \in {3, 4, 8} |-> IF n = 4 THEN "auto" ELSE "eth"]

(* apply_config_json: a mode that is not a name is an error, one that is    *)
(* not a string is passed over but counts as seen.                          *)
ModeOf(b, old) ==
  LET text == StringOf(b, "mode", MODE_MAX, 0) IN
  IF text.ok /\ text.out \in DOMAIN ModeNames THEN ModeNames[text.out] ELSE old

Unreadable(b) ==
  \/ LET text == StringOf(b, "mode", MODE_MAX, 0)
     IN  text.ok /\ text.out \notin DOMAIN ModeNames
  \/ /\ "mode" \notin DOMAIN b
     /\ ~StringOf(b, "device_name", NAME_MAX, 0).ok
     /\ ~U16Of(b, "mqtt_port", 0).ok
     /\ ~BoolOf(b, "broker_enabled", 0).ok

EditedSettings(s, b) ==
  [name |-> StringOf(b, "device_name", NAME_MAX, s.name).out,
   mode |-> ModeOf(b, s.mode),
   port |-> U16Of(b, "mqtt_port", s.port).out,
   on   |-> BoolOf(b, "broker_enabled", s.on).out]

(* apply_peer_json: fields it cannot read are left as they were. *)
EditedPeer(p, b) ==
  LET p2p == U16Of(b, "p2p_port", p.p2p).out IN
  [host |-> StringOf(b, "host", HOST_MAX, p.host).out,
   mqtt |-> U16Of(b, "mqtt_port", p.mqtt).out,
   p2p  |-> IF p2p = 0 THEN P2P_PORT ELSE p2p,
   on   |-> BoolOf(b, "enabled", p.on).out]

EditedTest(b) ==
  [topic   |-> StringOf(b, "topic", TEST_MAX, 0).out,
   payload |-> StringOf(b, "payload", TEST_MAX, 0).out,
   qos     |-> IF "qos" \notin DOMAIN b THEN 0
               ELSE IF Strtol(b["qos"]) \in 0 .. 2 THEN Strtol(b["qos"]) ELSE 3,
   retain  |-> BoolOf(b, "retain", 0).out]

ReadableTest(b) ==
  /\ StringOf(b, "topic", TEST_MAX, 0).ok /\ StringOf(b, "payload", TEST_MAX, 0).ok
  /\ EditedTest(b).topic > 0 /\ EditedTest(b).payload > 0
  /\ EditedTest(b).qos <= 2

----------------------------------------------------------------------------
(* Buffer slots and answers                                                *)

Owns(c, i) == slots[i].client = c
Free(i) == slots[i].client = NoClient

(* Mutants: the last slot is never looked at; slots are not kept apart.    *)
AcquiresButLast(c, i) ==
  /\ i < SLOTS - 1 \/ Owns(c, i)
  /\ Owns(c, i) \/ Free(i)

AcquiresAny(c, i) == i = 0

(* zephyr_acquire_buffers: the slot the client has, or else the first that *)
(* is free; a client owns one slot at most, so the order does not matter.  *)
Acquires(c, i) ==
  \/ Owns(c, i) /\ \A j \in Slots : j < i => ~Owns(c, j)
  \/ /\ \A j \in Slots : ~Owns(c, j)
     /\ Free(i) /\ \A j \in Slots : j < i => ~Free(j)

Answer(c, status, text, slot) ==
  conn' = [conn EXCEPT ![c] =
             [phase |-> "sending", req |-> NoRequest, left |-> 0,
              reply |-> [status |-> status, text |-> text, slot |-> slot]]]

(* The answer is a constant string, sent from where it is.  *)
AnswerConst(c, i, status, text) ==
  /\ slots' = [slots EXCEPT ![i] =
                 [client |-> c, response |-> IF Owns(c, i) THEN @.response ELSE ""]]
  /\ Answer(c, status, text, NoSlot)

(* The answer is built in slot i, from where the server will send it. *)
AnswerBuilt(c, i, text) ==
  /\ slots' = [slots EXCEPT ![i] = [client |-> c, response |-> text]]
  /\ Answer(c, 200, text, i)

Refuse(c, i, text) ==
  AnswerConst(c, i, 400, text) /\ UNCHANGED <<ram, flash, broker, test, rebooting>>

(* zephyr_release_buffers. *)
Released(c) == [i \in Slots |-> IF Owns(c, i) THEN FreeSlot ELSE slots[i]]

----------------------------------------------------------------------------
(* The requests, with b the body and i the client's slot                   *)

Getters == [path \in {"/status", "/config", "/peers", "/peer-status"} |->
              CASE path = "/status" -> "status"
                [] path = "/config" -> "config"
                [] path = "/peers"  -> "peers"
                [] path = "/peer-status" -> "peer-status"]

(* Each of the answers fits in the response buffer. *)
Get(c, i, r) ==
  /\ r.method = "GET" /\ r.path \in DOMAIN Getters
  /\ AnswerBuilt(c, i, Getters[r.path])
  /\ UNCHANGED <<ram, flash, broker, test, rebooting>>

(* Mutants: the result of the save is not looked at; a peer is saved before *)
(* it is validated.                                                         *)
PostConfigUnsaved(c, i, r, b) ==
  LET new == EditedSettings(ram.settings, b) IN
  /\ r.path = "/config" /\ ~Unreadable(b) /\ ValidSettings(new)
  /\ ram' = [ram EXCEPT !.settings = new]
  /\ flash' \in {flash, [flash EXCEPT !.settings = new]}
  /\ AnswerBuilt(c, i, "reboot_required:true")
  /\ UNCHANGED <<broker, test, rebooting>>

PostPeerUnchecked(c, i, r, b) ==
  LET n == Strtol(r.arg)
      new == EditedPeer(ram.peers[n], b) IN
  /\ r.path = "/peers/" /\ n \in Indices
  /\ flash' = [flash EXCEPT !.peers[n] = new]
  /\ AnswerConst(c, i, IF ValidPeer(new) THEN 200 ELSE 400,
                       IF ValidPeer(new) THEN "ok" ELSE "invalid peer JSON")
  /\ UNCHANGED <<ram, broker, test, rebooting>>

(* POST /config: nothing is saved when nothing changed; a save that fails   *)
(* leaves the new settings in RAM.                                          *)
PostConfig(c, i, r, b) ==
  LET new == EditedSettings(ram.settings, b) IN
  /\ r.path = "/config"
  /\ \/ /\ ~Unreadable(b) => new # ram.settings /\ ~ValidSettings(new)
        /\ Refuse(c, i, "invalid config JSON")
     \/ /\ ~Unreadable(b) /\ new = ram.settings
        /\ AnswerBuilt(c, i, "reboot_required:false")
        /\ UNCHANGED <<ram, flash, broker, test, rebooting>>
     \/ /\ ~Unreadable(b) /\ new # ram.settings /\ ValidSettings(new)
        /\ ram' = [ram EXCEPT !.settings = new]
        /\ \/ /\ flash' = [flash EXCEPT !.settings = new]
              /\ AnswerBuilt(c, i, "reboot_required:true")
           \/ /\ AnswerConst(c, i, 400, "invalid config JSON")
              /\ UNCHANGED flash
        /\ UNCHANGED <<broker, test, rebooting>>

(* POST /peers/<n>, with n read by atoi: no digits make it peer 0.  That the *)
(* seeds are applied next is in PeerSeeds.                                   *)
PostPeer(c, i, r, b) ==
  LET n == Strtol(r.arg)
      new == EditedPeer(ram.peers[n], b) IN
  /\ r.path = "/peers/"
  /\ \/ /\ n \in Indices => ~ValidPeer(new)
        /\ Refuse(c, i, "invalid peer JSON")
     \/ /\ n \in Indices /\ ValidPeer(new)
        /\ ram' = [ram EXCEPT !.peers[n] = new]
        /\ \/ /\ flash' = [flash EXCEPT !.peers[n] = new]
              /\ AnswerConst(c, i, 200, "ok")
           \/ /\ AnswerConst(c, i, 400, "invalid peer JSON")
              /\ UNCHANGED flash
        /\ UNCHANGED <<broker, test, rebooting>>

(* POST /broker/control: product_runtime_set_broker_enabled. *)
PostControl(c, i, r, b) ==
  LET enabled == BoolOf(b, "enabled", 0) IN
  /\ r.path = "/broker/control"
  /\ \/ ~enabled.ok /\ Refuse(c, i, "invalid broker control")
     \/ /\ enabled.ok
        /\ broker' = IF enabled.out = 1 THEN "requested" ELSE "stopped"
        /\ AnswerConst(c, i, 200, "requested")
        /\ UNCHANGED <<ram, flash, test, rebooting>>

(* POST /publish-test: product_runtime_record_publish_test. *)
PostTest(c, i, r, b) ==
  /\ r.path = "/publish-test"
  /\ \/ ~ReadableTest(b) /\ Refuse(c, i, "invalid publish test")
     \/ /\ ReadableTest(b)
        /\ test' = EditedTest(b)
        /\ AnswerConst(c, i, 200, "recorded")
        /\ UNCHANGED <<ram, flash, broker, rebooting>>

(* POST /config/reset: the peers are saved in order and then the settings;  *)
(* the first save that fails ends it, after n of them.                      *)
PostReset(c, i, r) ==
  /\ r.path = "/config/reset"
  /\ ram' = Factory
  /\ \/ flash' = Factory /\ AnswerConst(c, i, 200, "reset")
     \/ \E n \in 0 .. PEER_MAX :
          /\ flash' = [flash EXCEPT !.peers =
                [p \in Indices |-> IF p < n THEN Factory.peers[p] ELSE @[p]]]
          /\ AnswerConst(c, i, 400, "reset failed")
  /\ UNCHANGED <<broker, test, rebooting>>

PostReboot(c, i, r) ==
  /\ r.path = "/reboot"
  /\ rebooting' = TRUE
  /\ AnswerConst(c, i, 200, "rebooting")
  /\ UNCHANGED <<ram, flash, broker, test>>

Routes == {"/config", "/peers/", "/broker/control", "/publish-test",
           "/config/reset", "/reboot"}

(* The body is only looked at for a POST, whatever its path. *)
Post(c, i, r, piece) ==
  /\ r.method = "POST"
  /\ \/ piece.large /\ Refuse(c, i, "request too large")
     \/ /\ ~piece.large
        /\ \/ PostConfig(c, i, r, piece.body) \/ PostPeer(c, i, r, piece.body)
           \/ PostControl(c, i, r, piece.body) \/ PostTest(c, i, r, piece.body)
           \/ PostReset(c, i, r) \/ PostReboot(c, i, r)

NotFound(c, i, r, piece) ==
  /\ \/ r.method = "GET" /\ r.path \notin DOMAIN Getters
     \/ r.method = "POST" /\ ~piece.large /\ r.path \notin Routes
  /\ AnswerConst(c, i, 404, "not found")
  /\ UNCHANGED <<ram, flash, broker, test, rebooting>>

IsPage(r) == r.method = "GET" /\ r.path = "/"

----------------------------------------------------------------------------
(* The callbacks                                                           *)

(* A client sends the head of a request, keeping its connection or opening *)
(* one: Zephyr uses its context again.                                     *)
Request(c, r) ==
  /\ conn[c].phase = "idle"
  /\ conn' = [conn EXCEPT ![c] = [phase |-> "receiving", req |-> r,
                                  left |-> Len(r.pieces), reply |-> NoReply]]
  /\ UNCHANGED <<slots, ram, flash, broker, test, rebooting>>

(* A piece that is not the last: the handler returns without looking at it. *)
DataMore(c) ==
  /\ conn[c].phase = "receiving" /\ conn[c].left > 1
  /\ conn' = [conn EXCEPT ![c].left = @ - 1]
  /\ UNCHANGED <<slots, ram, flash, broker, test, rebooting>>

LastPiece(r) == r.pieces[Len(r.pieces)]

(* HTTP_SERVER_REQUEST_DATA_FINAL. *)
DataFinal(c) ==
  LET r == conn[c].req IN
  /\ conn[c].phase = "receiving" /\ conn[c].left = 1
  /\ \/ /\ IsPage(r)
        /\ Answer(c, 200, "page", NoSlot)
        /\ UNCHANGED <<slots, ram, flash, broker, test, rebooting>>
     \/ /\ ~IsPage(r) /\ \A i \in Slots : ~Acquires(c, i)
        /\ Answer(c, 503, "low memory", NoSlot)
        /\ UNCHANGED <<slots, ram, flash, broker, test, rebooting>>
     \/ \E i \in Slots :
          /\ ~IsPage(r) /\ Acquires(c, i)
          /\ \/ Get(c, i, r)
             \/ Post(c, i, r, LastPiece(r))
             \/ NotFound(c, i, r, LastPiece(r))

(* Mutant: a transaction that has ended keeps its slot. *)
KeepsSlot(c) ==
  /\ conn[c].phase # "idle"
  /\ conn' = [conn EXCEPT ![c] = Idle]
  /\ slots' = slots
  /\ UNCHANGED <<ram, flash, broker, test, rebooting>>

(* HTTP_SERVER_TRANSACTION_COMPLETE once the answer is sent, or             *)
(* HTTP_SERVER_TRANSACTION_ABORTED when the client goes away before.        *)
EndTransaction(c) ==
  /\ conn[c].phase # "idle"
  /\ conn' = [conn EXCEPT ![c] = Idle]
  /\ slots' = Released(c)
  /\ UNCHANGED <<ram, flash, broker, test, rebooting>>

(* The scheduled reboot, or the power: RAM is loaded from the flash and     *)
(* every connection is gone.                                                *)
Reboot ==
  /\ ram' = flash
  /\ conn' = [c \in Clients |-> Idle]
  /\ slots' = [i \in Slots |-> FreeSlot]
  /\ broker' = "unset" /\ test' = NoTest /\ rebooting' = FALSE
  /\ UNCHANGED flash

Init ==
  /\ conn = [c \in Clients |-> Idle]
  /\ slots = [i \in Slots |-> FreeSlot]
  /\ ram = Factory /\ flash = Factory
  /\ broker = "unset" /\ test = NoTest /\ rebooting = FALSE

Next ==
  \/ \E c \in Clients, r \in Requests : Request(c, r)
  \/ \E c \in Clients : DataMore(c) \/ DataFinal(c) \/ EndTransaction(c)
  \/ Reboot

Spec == Init /\ [][Next]_vars

----------------------------------------------------------------------------
(* Properties                                                              *)

Sending(c) == conn[c].phase = "sending"

(* What the server is sending to a client is what was built for it: its    *)
(* slot is still its own and holds its answer until it has left, whatever  *)
(* other clients ask, abort or are answered meanwhile.                     *)
ResponseIntact ==
  \A c \in Clients :
    LET reply == conn[c].reply IN
    Sending(c) /\ reply.slot # NoSlot
      => slots[reply.slot] = [client |-> c, response |-> reply.text]

(* Slots do not leak: a slot that is taken belongs to a client whose        *)
(* answer is on its way, and no client has two.                             *)
SlotsFollowAnswers ==
  \A i \in Slots : ~Free(i) =>
    /\ Sending(slots[i].client)
    /\ \A j \in Slots : slots[j].client = slots[i].client => j = i

(* With no more clients than slots, as prj.conf configures them, nobody is  *)
(* told "low memory".                                                       *)
NeverRefused ==
  Cardinality(Clients) <= SLOTS
    => \A c \in Clients : Sending(c) => conn[c].reply.status # 503

Answers(c, status) ==
  conn[c].phase = "receiving" /\ conn'[c].phase = "sending"
    /\ conn'[c].reply.status = status

(* A client is told "low memory" only while every slot holds an answer      *)
(* another client is still being sent.                                      *)
LowMemoryIsReal ==
  [][\A c \in Clients : Answers(c, 503) =>
       \A i \in Slots : ~Free(i) /\ slots[i].client # c /\ Sending(slots[i].client)]_vars

(* An answer that asks for a reboot means that what the reboot will load is *)
(* what the request left in RAM: it is not given when the save failed.      *)
RebootRequiredMeansSaved ==
  [][\A c \in Clients :
       Answers(c, 200) /\ conn'[c].reply.text = "reboot_required:true"
         => flash'.settings = ram'.settings]_vars

(* A request answered 400 has changed nothing that survives a reboot; only  *)
(* a reset that failed half way may have.                                   *)
RefusedLeavesFlash ==
  [][\A c \in Clients :
       Answers(c, 400) /\ conn'[c].reply.text # "reset failed" => flash' = flash]_vars

(* RAM differs from flash only where a save failed, and then both are       *)
(* records that validate: whichever a later request or reboot picks up, it  *)
(* starts from valid settings and peers.                                    *)
BothCopiesValid ==
  \A cfg \in {ram, flash} :
    /\ ValidSettings(cfg.settings)
    /\ \A i \in Indices : ValidPeer(cfg.peers[i])

----------------------------------------------------------------------------
(* What the answers say, provisioning_http.c:118 and 612                    *)

AnsweredConfig(c) ==
  Answers(c, 200) /\ conn[c].req.method = "POST" /\ conn[c].req.path = "/config"

(* "Save success": after a POST /config answered 200 the settings are in    *)
(* the flash.                                                               *)
SuccessMeansSaved ==
  [][\A c \in Clients : AnsweredConfig(c) => flash'.settings = ram'.settings]_vars

(* "request too large": a body the server could not hand over in one piece  *)
(* is refused, not applied from its last piece.                             *)
TooLargeIsRefused ==
  [][\A c \in Clients :
       conn[c].req.method = "POST" /\ Len(conn[c].req.pieces) > 1
         => ~Answers(c, 200)]_vars
=============================================================================
