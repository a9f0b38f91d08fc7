------------------------- MODULE HttpHandlerProofs -------------------------
(***************************************************************************)
(* Proofs about HttpHandler, for any number of clients and slots, any      *)
(* requests and any sizes of the buffers.                                  *)
(***************************************************************************)
EXTENDS HttpHandler, FiniteSetTheorems, WellFoundedInduction, TLAPS

----------------------------------------------------------------------------
(* What the readers leave in a variable has the variable's type.           *)

IsBody(b) == \A k \in DOMAIN b : b[k] \in Value

LEMMA StringFits ==
  ASSUME NEW b, IsBody(b), NEW k, NEW cap \in Nat \ {0}, NEW old \in 0 .. (cap - 1)
  PROVE  StringOf(b, k, cap, old).out \in 0 .. (cap - 1)
<1>1. CASE k \in DOMAIN b /\ b[k].kind = "string"
  <2>1. b[k].val \in Nat
    BY <1>1 DEF IsBody, Value
  <2>2. Smaller(b[k].val, cap - 1) \in 0 .. (cap - 1)
    BY <2>1 DEF Smaller
  <2>3. QED
    BY <1>1, <2>2 DEF StringOf
<1>2. CASE ~(k \in DOMAIN b /\ b[k].kind = "string")
  BY <1>2 DEF StringOf
<1>3. QED
  BY <1>1, <1>2

LEMMA U16Fits ==
  ASSUME NEW b, IsBody(b), NEW k, NEW old \in Port
  PROVE  U16Of(b, k, old).out \in Port
<1>1. ASSUME k \in DOMAIN b PROVE Strtol(b[k]) \in Int
  <2>1. b[k] \in Value
    BY <1>1 DEF IsBody
  <2>2. QED
    BY <2>1 DEF Value, Strtol
<1>2. CASE k \in DOMAIN b /\ Strtol(b[k]) > 0 /\ Strtol(b[k]) <= PORT_MAX
  <2>1. Strtol(b[k]) \in Port
    <3>1. PORT_MAX \in Int
      BY DEF PORT_MAX
    <3>2. QED
      BY <1>1, <1>2, <3>1 DEF Port
  <2>2. QED
    BY <1>2, <2>1 DEF U16Of
<1>3. CASE ~(k \in DOMAIN b /\ Strtol(b[k]) > 0 /\ Strtol(b[k]) <= PORT_MAX)
  BY <1>3 DEF U16Of
<1>4. QED
  BY <1>2, <1>3

LEMMA BoolFits ==
  ASSUME NEW b, NEW k, NEW old \in {0, 1}
  PROVE  BoolOf(b, k, old).out \in {0, 1}
BY DEF BoolOf

LEMMA ModeFits ==
  ASSUME NEW b, NEW old \in {"auto", "eth"}
  PROVE  ModeOf(b, old) \in {"auto", "eth"}
BY DEF ModeOf, ModeNames

LEMMA SettingsFit ==
  ASSUME NEW b, IsBody(b), NEW s \in Settings
  PROVE  EditedSettings(s, b) \in Settings
BY StringFits, U16Fits, BoolFits, ModeFits, SizeAssumption DEF EditedSettings, Settings

LEMMA PeerFits ==
  ASSUME NEW b, IsBody(b), NEW p \in Peer
  PROVE  EditedPeer(p, b) \in Peer
<1>1. P2P_PORT \in Port
  BY DEF P2P_PORT, Port, PORT_MAX
<1>2. QED
  BY <1>1, StringFits, U16Fits, BoolFits, SizeAssumption DEF EditedPeer, Peer

LEMMA TestFits ==
  ASSUME NEW b, IsBody(b), ReadableTest(b)
  PROVE  EditedTest(b) \in Test
<1> DEFINE text(k) == StringOf(b, k, TEST_MAX, 0).out
           qos == EditedTest(b).qos
<1>1. 0 \in 0 .. (TEST_MAX - 1) /\ TEST_MAX \in Nat \ {0}
  BY SizeAssumption
<1>2. text("topic") \in 0 .. (TEST_MAX - 1) /\ text("payload") \in 0 .. (TEST_MAX - 1)
  BY <1>1, StringFits
<1>3. qos \in 0 .. 2
  BY DEF ReadableTest, EditedTest
<1>4. BoolOf(b, "retain", 0).out \in {0, 1}
  BY BoolFits
<1>5. EditedTest(b) = [topic |-> text("topic"), payload |-> text("payload"),
                       qos |-> qos, retain |-> BoolOf(b, "retain", 0).out]
  BY DEF EditedTest
<1>6. QED
  BY <1>2, <1>3, <1>4, <1>5 DEF Test

(* The pieces of a request hold bodies. *)
LEMMA PieceFacts ==
  ASSUME NEW r \in Requests
  PROVE  IsBody(LastPiece(r).body)
<1>1. Len(r.pieces) > 0 /\ \A i \in DOMAIN r.pieces : IsPiece(r.pieces[i])
  BY RequestAssumption
<1>2. QED
  BY <1>1 DEF LastPiece, IsPiece, IsBody

----------------------------------------------------------------------------
(* What a handled request does, whatever its path.                         *)

Handled(c, i, r, p) == Get(c, i, r) \/ Post(c, i, r, p) \/ NotFound(c, i, r, p)

(* It is answered, from a constant or from its slot, and not with 503.     *)
LEMMA HandledIsAnswered ==
  ASSUME NEW c, NEW i, NEW r, NEW p, Handled(c, i, r, p)
  PROVE  \E status \in {200, 400, 404}, text \in Texts :
           AnswerConst(c, i, status, text) \/ AnswerBuilt(c, i, text)
<1> DEFINE Answered == \E status \in {200, 400, 404}, text \in Texts :
                         AnswerConst(c, i, status, text) \/ AnswerBuilt(c, i, text)
<1>1. \A text \in Texts : AnswerBuilt(c, i, text) => Answered
  OBVIOUS
<1>2. \A text \in Texts : AnswerConst(c, i, 200, text) => Answered
  OBVIOUS
<1>3. \A text \in Texts : AnswerConst(c, i, 400, text) => Answered
  OBVIOUS
<1>4. \A text \in Texts : AnswerConst(c, i, 404, text) => Answered
  OBVIOUS
<1>5. \A text \in Texts : Refuse(c, i, text) => Answered
  BY <1>3 DEF Refuse
<1> HIDE DEF Answered
<1> SUFFICES Answered
  BY DEF Answered
<1>6. CASE Get(c, i, r)
  BY <1>1, <1>6 DEF Get, Getters, Texts
<1>7. CASE NotFound(c, i, r, p)
  <2>1. AnswerConst(c, i, 404, "not found")
    BY <1>7 DEF NotFound
  <2>2. "not found" \in Texts
    BY DEF Texts
  <2>3. QED
    BY <1>4, <2>1, <2>2
<1>8. CASE Post(c, i, r, p)
  <2>1. CASE PostConfig(c, i, r, p.body)
    <3>1. \/ Refuse(c, i, "invalid config JSON")
          \/ AnswerBuilt(c, i, "reboot_required:false")
          \/ AnswerBuilt(c, i, "reboot_required:true")
          \/ AnswerConst(c, i, 400, "invalid config JSON")
      BY <2>1 DEF PostConfig
    <3>2. "invalid config JSON" \in Texts /\ "reboot_required:false" \in Texts /\ "reboot_required:true" \in Texts
      BY DEF Texts
    <3>3. Refuse(c, i, "invalid config JSON") => Answered
      BY <1>5, <3>2
    <3>4. AnswerBuilt(c, i, "reboot_required:false") => Answered
      BY <1>1, <3>2
    <3>5. AnswerBuilt(c, i, "reboot_required:true") => Answered
      BY <1>1, <3>2
    <3>6. AnswerConst(c, i, 400, "invalid config JSON") => Answered
      BY <1>3, <3>2
    <3>7. QED
      BY <3>1, <3>3, <3>4, <3>5, <3>6
  <2>2. CASE PostPeer(c, i, r, p.body)
    <3>1. \/ Refuse(c, i, "invalid peer JSON")
          \/ AnswerConst(c, i, 200, "ok")
          \/ AnswerConst(c, i, 400, "invalid peer JSON")
      BY <2>2 DEF PostPeer
    <3>2. "invalid peer JSON" \in Texts /\ "ok" \in Texts
      BY DEF Texts
    <3>3. Refuse(c, i, "invalid peer JSON") => Answered
      BY <1>5, <3>2
    <3>4. AnswerConst(c, i, 200, "ok") => Answered
      BY <1>2, <3>2
    <3>5. AnswerConst(c, i, 400, "invalid peer JSON") => Answered
      BY <1>3, <3>2
    <3>6. QED
      BY <3>1, <3>3, <3>4, <3>5
  <2>3. CASE PostControl(c, i, r, p.body)
    <3>1. \/ Refuse(c, i, "invalid broker control")
          \/ AnswerConst(c, i, 200, "requested")
      BY <2>3 DEF PostControl
    <3>2. "invalid broker control" \in Texts /\ "requested" \in Texts
      BY DEF Texts
    <3>3. Refuse(c, i, "invalid broker control") => Answered
      BY <1>5, <3>2
    <3>4. AnswerConst(c, i, 200, "requested") => Answered
      BY <1>2, <3>2
    <3>5. QED
      BY <3>1, <3>3, <3>4
  <2>4. CASE PostTest(c, i, r, p.body)
    <3>1. \/ Refuse(c, i, "invalid publish test")
          \/ AnswerConst(c, i, 200, "recorded")
      BY <2>4 DEF PostTest
    <3>2. "invalid publish test" \in Texts /\ "recorded" \in Texts
      BY DEF Texts
    <3>3. Refuse(c, i, "invalid publish test") => Answered
      BY <1>5, <3>2
    <3>4. AnswerConst(c, i, 200, "recorded") => Answered
      BY <1>2, <3>2
    <3>5. QED
      BY <3>1, <3>3, <3>4
  <2>5. CASE PostReset(c, i, r)
    <3>1. \/ AnswerConst(c, i, 200, "reset")
          \/ AnswerConst(c, i, 400, "reset failed")
      BY <2>5 DEF PostReset
    <3>2. "reset" \in Texts /\ "reset failed" \in Texts
      BY DEF Texts
    <3>3. AnswerConst(c, i, 200, "reset") => Answered
      BY <1>2, <3>2
    <3>4. AnswerConst(c, i, 400, "reset failed") => Answered
      BY <1>3, <3>2
    <3>5. QED
      BY <3>1, <3>3, <3>4
  <2>6. CASE PostReboot(c, i, r)
    <3>1. AnswerConst(c, i, 200, "rebooting")
      BY <2>6 DEF PostReboot
    <3>2. "rebooting" \in Texts
      BY DEF Texts
    <3>3. AnswerConst(c, i, 200, "rebooting") => Answered
      BY <1>2, <3>2
    <3>4. QED
      BY <3>1, <3>3
  <2>7. CASE Refuse(c, i, "request too large")
    <3>1. "request too large" \in Texts
      BY DEF Texts
    <3>2. QED
      BY <1>5, <2>7, <3>1
  <2>8. QED
    BY <1>8, <2>1, <2>2, <2>3, <2>4, <2>5, <2>6, <2>7 DEF Post
<1>9. QED
  BY <1>6, <1>7, <1>8 DEF Handled

(* The types of everything but the connections and slots.                  *)
DataOK ==
  /\ ram \in Config /\ flash \in Config
  /\ broker \in {"unset", "requested", "stopped"}
  /\ test \in Test
  /\ rebooting \in BOOLEAN

(* The configuration changes only into edits of itself that validate, and   *)
(* the flash only into what RAM receives or the defaults.                    *)
LEMMA HandledKeepsData ==
  ASSUME DataOK, BothCopiesValid, NEW c, NEW i, NEW r, NEW p, IsBody(p.body),
         Handled(c, i, r, p)
  PROVE  DataOK' /\ BothCopiesValid'
<1>1. CASE UNCHANGED <<ram, flash, broker, test, rebooting>>
  BY <1>1 DEF DataOK, BothCopiesValid
<1>2. CASE PostConfig(c, i, r, p.body) /\ ~UNCHANGED <<ram, flash, broker, test, rebooting>>
  <2> DEFINE new == EditedSettings(ram.settings, p.body)
  <2>1. ram.settings \in Settings
    BY DEF DataOK, Config
  <2>2. new \in Settings
    BY <2>1, SettingsFit
  <2>3. /\ ValidSettings(new)
        /\ ram' = [ram EXCEPT !.settings = new]
        /\ flash' = flash \/ flash' = [flash EXCEPT !.settings = new]
        /\ UNCHANGED <<broker, test, rebooting>>
    BY <1>2 DEF PostConfig, Refuse
  <2> HIDE DEF new
  <2>4. DataOK'
    BY <2>2, <2>3 DEF DataOK, Config
  <2>5. BothCopiesValid'
    BY <2>3 DEF BothCopiesValid, DataOK, Config
  <2>6. QED
    BY <2>4, <2>5
<1>3. CASE PostPeer(c, i, r, p.body) /\ ~UNCHANGED <<ram, flash, broker, test, rebooting>>
  <2> DEFINE n == Strtol(r.arg)
             new == EditedPeer(ram.peers[n], p.body)
  <2>1. n \in Indices /\ ValidPeer(new)
    BY <1>3 DEF PostPeer, Refuse
  <2>2. ram.peers[n] \in Peer
    BY <2>1 DEF DataOK, Config
  <2>3. new \in Peer
    BY <2>2, PeerFits
  <2>4. /\ ram' = [ram EXCEPT !.peers[n] = new]
        /\ flash' = flash \/ flash' = [flash EXCEPT !.peers[n] = new]
        /\ UNCHANGED <<broker, test, rebooting>>
    BY <1>3 DEF PostPeer, Refuse
  <2> HIDE DEF n, new
  <2>5. DataOK'
    BY <2>1, <2>3, <2>4 DEF DataOK, Config
  <2>6. BothCopiesValid'
    BY <2>1, <2>3, <2>4 DEF BothCopiesValid, DataOK, Config
  <2>7. QED
    BY <2>5, <2>6
<1>4. CASE PostControl(c, i, r, p.body)
  BY <1>4 DEF PostControl, Refuse, DataOK, BothCopiesValid
<1>5. CASE PostTest(c, i, r, p.body)
  BY <1>5, TestFits DEF PostTest, Refuse, DataOK, BothCopiesValid
<1>6. CASE PostReset(c, i, r)
  <2>1. \/ flash' = Factory
        \/ \E n \in 0 .. PEER_MAX : flash' = [flash EXCEPT !.peers =
              [q \in Indices |-> IF q < n THEN Factory.peers[q] ELSE @[q]]]
    BY <1>6 DEF PostReset
  <2>2. ram' = Factory /\ UNCHANGED <<broker, test, rebooting>>
    BY <1>6 DEF PostReset
  <2>3. DataOK'
    BY <2>1, <2>2, FactoryAssumption DEF DataOK, Config
  <2>4. BothCopiesValid'
    BY <2>1, <2>2, FactoryAssumption DEF DataOK, BothCopiesValid, Config
  <2>5. QED
    BY <2>3, <2>4
<1>7. CASE PostReboot(c, i, r)
  BY <1>7 DEF PostReboot, DataOK, BothCopiesValid
<1>8. QED
  BY <1>1, <1>2, <1>3, <1>4, <1>5, <1>6, <1>7
  DEF Handled, Get, NotFound, Post, Refuse

----------------------------------------------------------------------------
(* The types.                                                              *)

IInv ==
  /\ TypeOK
  /\ BothCopiesValid
  /\ ResponseIntact
  /\ SlotsFollowAnswers
  /\ NeverRefused

LEMMA ReplyFacts ==
  /\ NoReply \in Reply
  /\ \A status \in {200, 400, 404, 503}, text \in Texts, s \in Slots \cup {NoSlot} :
       [status |-> status, text |-> text, slot |-> s] \in Reply
  /\ NoSlot \notin Slots
<1>1. "" \in Texts /\ NoSlot \notin Slots
  BY SizeAssumption DEF Texts, Slots, NoSlot
<1>2. QED
  BY <1>1 DEF NoReply, Reply

(* An answer leaves connections and slots with their types. *)
LEMMA AnswerTypes ==
  ASSUME TypeOK, NEW c \in Clients, NEW status \in {200, 400, 404, 503},
         NEW text \in Texts, NEW s \in Slots \cup {NoSlot}, Answer(c, status, text, s)
  PROVE  conn' \in [Clients -> [phase : {"idle", "receiving", "sending"},
                      req : Requests \cup {NoRequest}, left : Nat, reply : Reply]]
<1>1. [status |-> status, text |-> text, slot |-> s] \in Reply
  BY ReplyFacts
<1>2. QED
  BY <1>1 DEF Answer, TypeOK

LEMMA SlotTypes ==
  ASSUME TypeOK, NEW c \in Clients, NEW i \in Slots, NEW status \in {200, 400, 404},
         NEW text \in Texts, AnswerConst(c, i, status, text) \/ AnswerBuilt(c, i, text)
  PROVE  /\ slots' \in [Slots -> [client : Clients \cup {NoClient}, response : Texts]]
         /\ \E s \in Slots \cup {NoSlot}, st \in {200, 400, 404} : Answer(c, st, text, s)
<1>1. "" \in Texts
  BY DEF Texts
<1>2. \E response \in Texts :
        slots' = [slots EXCEPT ![i] = [client |-> c, response |-> response]]
  <2>1. CASE AnswerConst(c, i, status, text)
    <3> DEFINE response == IF Owns(c, i) THEN slots[i].response ELSE ""
    <3>1. slots[i].response \in Texts
      BY DEF TypeOK
    <3>2. response \in Texts
      BY <1>1, <3>1
    <3>3. slots' = [slots EXCEPT ![i] = [client |-> c, response |-> response]]
      BY <2>1 DEF AnswerConst, TypeOK
    <3> HIDE DEF response
    <3>4. QED
      BY <3>2, <3>3
  <2>2. CASE AnswerBuilt(c, i, text)
    BY <2>2 DEF AnswerBuilt
  <2>3. QED
    BY <2>1, <2>2
<1>3. slots' \in [Slots -> [client : Clients \cup {NoClient}, response : Texts]]
  BY <1>2 DEF TypeOK
<1>4. Answer(c, status, text, NoSlot) \/ Answer(c, 200, text, i)
  BY DEF AnswerConst, AnswerBuilt
<1>5. QED
  BY <1>3, <1>4

----------------------------------------------------------------------------
(* The slots.                                                              *)

(* A client that is not being answered finds no slot only if none is free. *)
LEMMA NoneFree ==
  ASSUME SlotsFollowAnswers, TypeOK, NEW c \in Clients, ~Sending(c),
         \A i \in Slots : ~Acquires(c, i)
  PROVE  \A i \in Slots : ~Free(i)
<1>1. \A i \in Slots : ~Owns(c, i)
  BY ClientAssumption DEF SlotsFollowAnswers, Owns, Free
<1>2. SUFFICES ASSUME NEW i \in Slots, Free(i) PROVE FALSE
  OBVIOUS
<1> DEFINE T == {j \in Slots : Free(j)}
<1>3. T \subseteq Nat /\ T # {} /\ Slots \subseteq Nat
  BY <1>2, SizeAssumption DEF Slots
<1>4. PICK j \in T : \A k \in T : <<k, j>> \notin OpToRel(<, Nat)
  BY <1>3, NatLessThanWellFounded, WFMin
<1>5. \A k \in Slots : k < j => ~Free(k)
  BY <1>3, <1>4 DEF OpToRel
<1>6. Acquires(c, j)
  BY <1>1, <1>4, <1>5 DEF Acquires
<1>7. QED
  BY <1>4, <1>6

(* Then there are more clients than slots. *)
LEMMA MoreClients ==
  ASSUME SlotsFollowAnswers, TypeOK, NEW c \in Clients, ~Sending(c),
         \A i \in Slots : ~Free(i)
  PROVE  Cardinality(Clients) > SLOTS
<1> DEFINE Others == Clients \ {c}
           owner == [i \in Slots |-> slots[i].client]
<1>1. /\ IsFiniteSet(Others) /\ Cardinality(Others) = Cardinality(Clients) - 1
      /\ Cardinality(Clients) \in Nat
  BY ClientAssumption, FS_RemoveElement, FS_CardinalityType
<1>2. IsFiniteSet(Slots) /\ Cardinality(Slots) = SLOTS
  BY FS_Interval, SizeAssumption DEF Slots
<1>3. owner \in [Slots -> Others]
  BY DEF SlotsFollowAnswers, TypeOK, Free
<1>4. \A i, j \in Slots : owner[i] = owner[j] => i = j
  BY DEF SlotsFollowAnswers
<1> HIDE DEF Others, owner
<1>5. ~(Cardinality(Others) < Cardinality(Slots))
  BY <1>1, <1>2, <1>3, <1>4, FS_PigeonHole
<1>6. QED
  BY <1>1, <1>2, <1>5, SizeAssumption

(* A request answered in a slot it has just been given. *)
LEMMA AnswerKeepsSlots ==
  ASSUME IInv, NEW c \in Clients, conn[c].phase = "receiving",
         NEW i \in Slots, Acquires(c, i),
         NEW status \in {200, 400, 404}, NEW text \in Texts,
         AnswerConst(c, i, status, text) \/ AnswerBuilt(c, i, text)
  PROVE  ResponseIntact' /\ SlotsFollowAnswers' /\ NeverRefused'
<1>1. \A j \in Slots : slots[j].client # c
  BY ClientAssumption DEF IInv, SlotsFollowAnswers, Sending, Free
<1>2. slots[i].client = NoClient
  BY <1>1 DEF Acquires, Owns, Free
<1>3. /\ \A j \in Slots \ {i} : slots'[j] = slots[j]
      /\ slots'[i].client = c
      /\ AnswerBuilt(c, i, text) => slots'[i] = [client |-> c, response |-> text]
  <2>1. slots \in [Slots -> [client : Clients \cup {NoClient}, response : Texts]]
    BY DEF IInv, TypeOK
  <2>2. CASE AnswerConst(c, i, status, text)
    <3> DEFINE response == IF Owns(c, i) THEN slots[i].response ELSE ""
    <3>1. slots' = [slots EXCEPT ![i] = [client |-> c, response |-> response]]
      BY <2>1, <2>2 DEF AnswerConst
    <3> HIDE DEF response
    <3>2. slots'[i].client = c /\ \A j \in Slots \ {i} : slots'[j] = slots[j]
      BY <2>1, <3>1
    <3>3. AnswerBuilt(c, i, text) => slots'[i] = [client |-> c, response |-> text]
      BY <2>1 DEF AnswerBuilt
    <3>4. QED
      BY <3>2, <3>3
  <2>3. CASE AnswerBuilt(c, i, text)
    BY <2>1, <2>3 DEF AnswerBuilt
  <2>4. QED
    BY <2>2, <2>3
<1>4. /\ \A d \in Clients \ {c} : conn'[d] = conn[d]
      /\ conn'[c].phase = "sending"
      /\ conn'[c].reply.status # 503
      /\ \/ conn'[c].reply.slot = NoSlot
         \/ AnswerBuilt(c, i, text) /\ conn'[c].reply.slot = i /\ conn'[c].reply.text = text
  <2>1. \/ Answer(c, status, text, NoSlot)
        \/ AnswerBuilt(c, i, text) /\ Answer(c, 200, text, i)
    BY DEF AnswerConst, AnswerBuilt
  <2>2. ASSUME NEW st \in {200, 400, 404}, NEW s, Answer(c, st, text, s)
        PROVE  /\ \A d \in Clients \ {c} : conn'[d] = conn[d]
               /\ conn'[c].phase = "sending" /\ conn'[c].reply.status # 503
               /\ conn'[c].reply.slot = s /\ conn'[c].reply.text = text
    BY <2>2 DEF IInv, TypeOK, Answer
  <2>3. QED
    BY <2>1, <2>2
<1>5. ResponseIntact'
  <2>1. ASSUME NEW d \in Clients, Sending(d)', conn'[d].reply.slot # NoSlot
        PROVE  slots'[conn'[d].reply.slot] = [client |-> d, response |-> conn'[d].reply.text]
    <3>1. CASE d = c
      BY <1>3, <1>4, <2>1, <3>1
    <3>2. CASE d # c
      <4>1. conn'[d] = conn[d] /\ Sending(d)
        BY <1>4, <2>1, <3>2 DEF Sending
      <4>2. /\ conn[d].reply.slot \in Slots
            /\ slots[conn[d].reply.slot] = [client |-> d, response |-> conn[d].reply.text]
        BY <2>1, <4>1 DEF IInv, TypeOK, Reply, ResponseIntact
      <4>3. conn[d].reply.slot # i
        BY <1>2, <4>2, ClientAssumption
      <4>4. QED
        BY <1>3, <4>1, <4>2, <4>3
    <3>3. QED
      BY <3>1, <3>2
  <2>2. QED
    BY <2>1 DEF ResponseIntact
<1>6. SlotsFollowAnswers'
  <2>1. ASSUME NEW j \in Slots, slots'[j].client # NoClient
        PROVE  /\ conn'[slots'[j].client].phase = "sending"
               /\ \A k \in Slots : slots'[k].client = slots'[j].client => k = j
    <3>1. CASE j = i
      BY <1>1, <1>3, <1>4, <3>1
    <3>2. CASE j # i
      <4>1. slots'[j] = slots[j] /\ slots[j].client # c
        BY <1>1, <1>3, <3>2
      <4>2. slots[j].client \in Clients
        BY <2>1, <4>1 DEF IInv, TypeOK
      <4>3. /\ Sending(slots[j].client)
            /\ \A k \in Slots : slots[k].client = slots[j].client => k = j
        BY <2>1, <4>1 DEF IInv, SlotsFollowAnswers, Free
      <4>4. QED
        BY <1>3, <1>4, <4>1, <4>2, <4>3 DEF Sending
    <3>3. QED
      BY <3>1, <3>2
  <2>2. QED
    BY <2>1 DEF SlotsFollowAnswers, Free, Sending
<1>7. NeverRefused'
  BY <1>4 DEF IInv, NeverRefused, Sending
<1>8. QED
  BY <1>5, <1>6, <1>7

(* A transaction that ends takes its own slot with it and nothing else. *)
LEMMA EndKeepsSlots ==
  ASSUME IInv, NEW c \in Clients, EndTransaction(c)
  PROVE  ResponseIntact' /\ SlotsFollowAnswers' /\ NeverRefused'
<1>1. /\ \A d \in Clients \ {c} : conn'[d] = conn[d]
      /\ conn'[c].phase = "idle"
  BY DEF IInv, TypeOK, EndTransaction, Idle
<1>2. /\ \A i \in Slots : slots[i].client # c => slots'[i] = slots[i]
      /\ \A i \in Slots : slots[i].client = c => slots'[i].client = NoClient
  BY DEF EndTransaction, Released, Owns, FreeSlot
<1>3. ResponseIntact'
  <2>1. ASSUME NEW d \in Clients, Sending(d)', conn'[d].reply.slot # NoSlot
        PROVE  slots'[conn'[d].reply.slot] = [client |-> d, response |-> conn'[d].reply.text]
    <3>1. d # c
      BY <1>1, <2>1 DEF Sending
    <3>2. conn'[d] = conn[d] /\ Sending(d)
      BY <1>1, <2>1, <3>1 DEF Sending
    <3>3. /\ conn[d].reply.slot \in Slots
          /\ slots[conn[d].reply.slot] = [client |-> d, response |-> conn[d].reply.text]
      BY <2>1, <3>2 DEF IInv, TypeOK, Reply, ResponseIntact
    <3>4. QED
      BY <1>2, <3>1, <3>2, <3>3
  <2>2. QED
    BY <2>1 DEF ResponseIntact
<1>4. SlotsFollowAnswers'
  <2>1. ASSUME NEW i \in Slots, slots'[i].client # NoClient
        PROVE  /\ conn'[slots'[i].client].phase = "sending"
               /\ \A j \in Slots : slots'[j].client = slots'[i].client => j = i
    <3>1. slots'[i] = slots[i] /\ slots[i].client \in Clients \ {c}
      BY <1>2, <2>1 DEF IInv, TypeOK
    <3>2. /\ Sending(slots[i].client)
          /\ \A j \in Slots : slots[j].client = slots[i].client => j = i
      BY <2>1, <3>1 DEF IInv, SlotsFollowAnswers, Free
    <3>3. QED
      BY <1>1, <1>2, <2>1, <3>1, <3>2 DEF Sending
  <2>2. QED
    BY <2>1 DEF SlotsFollowAnswers, Free, Sending
<1>5. NeverRefused'
  BY <1>1 DEF IInv, NeverRefused, Sending
<1>6. QED
  BY <1>3, <1>4, <1>5

(* A client whose transaction does not touch the slots. *)
LEMMA OthersKeepSlots ==
  ASSUME IInv, NEW c \in Clients, conn[c].phase # "sending",
         \A d \in Clients \ {c} : conn'[d] = conn[d], UNCHANGED slots,
         conn'[c].reply.slot = NoSlot,
         conn'[c].phase = "sending" /\ conn'[c].reply.status = 503
           => Cardinality(Clients) > SLOTS
  PROVE  ResponseIntact' /\ SlotsFollowAnswers' /\ NeverRefused'
<1>1. ResponseIntact'
  BY DEF IInv, ResponseIntact, Sending
<1>2. SlotsFollowAnswers'
  BY DEF IInv, TypeOK, SlotsFollowAnswers, Sending, Free
<1>3. NeverRefused'
  <2>1. SUFFICES ASSUME Cardinality(Clients) <= SLOTS, NEW d \in Clients, Sending(d)'
                 PROVE  conn'[d].reply.status # 503
    BY DEF NeverRefused
  <2>2. CASE d = c
    <3>1. Cardinality(Clients) \in Nat
      BY ClientAssumption, FS_CardinalityType
    <3>2. QED
      BY <2>1, <2>2, <3>1, SizeAssumption DEF Sending
  <2>3. CASE d # c
    BY <2>1, <2>3 DEF IInv, NeverRefused, Sending
  <2>4. QED
    BY <2>2, <2>3
<1>4. QED
  BY <1>1, <1>2, <1>3

----------------------------------------------------------------------------
(* The steps.                                                              *)

(* Requests consist of pieces, so they have a length. *)
LEMMA LenOfPieces ==
  ASSUME NEW r \in Requests
  PROVE  Len(r.pieces) \in Nat
BY RequestAssumption

(* The final piece: the page, no slot, or a handled request. *)
LEMMA FinalCases ==
  ASSUME NEW c, DataFinal(c)
  PROVE  \/ /\ Answer(c, 200, "page", NoSlot)
            /\ UNCHANGED <<slots, ram, flash, broker, test, rebooting>>
         \/ /\ \A i \in Slots : ~Acquires(c, i)
            /\ Answer(c, 503, "low memory", NoSlot)
            /\ UNCHANGED <<slots, ram, flash, broker, test, rebooting>>
         \/ \E i \in Slots : /\ Acquires(c, i)
                             /\ Handled(c, i, conn[c].req, LastPiece(conn[c].req))
BY DEF DataFinal, Handled

(* It changes only its own client's connection. *)
LEMMA DataFinalIsOwn ==
  ASSUME TypeOK, NEW c \in Clients, NEW d \in Clients, DataFinal(d), c # d
  PROVE  conn'[c] = conn[c]
<1>1. ASSUME NEW status, NEW text, NEW s, Answer(d, status, text, s)
      PROVE  conn'[c] = conn[c]
  BY <1>1 DEF Answer, TypeOK
<1>2. ASSUME NEW i \in Slots, Handled(d, i, conn[d].req, LastPiece(conn[d].req))
      PROVE  conn'[c] = conn[c]
  <2>1. PICK status \in {200, 400, 404}, text \in Texts :
          AnswerConst(d, i, status, text) \/ AnswerBuilt(d, i, text)
    BY <1>2, HandledIsAnswered
  <2>2. Answer(d, status, text, NoSlot) \/ Answer(d, 200, text, i)
    BY <2>1 DEF AnswerConst, AnswerBuilt
  <2>3. QED
    BY <1>1, <2>2
<1>3. QED
  BY <1>1, <1>2, FinalCases

LEMMA InitInv == Init => IInv
<1> SUFFICES ASSUME Init PROVE IInv
  OBVIOUS
<1>1. TypeOK
  <2>1. Idle \in [phase : {"idle", "receiving", "sending"},
                  req : Requests \cup {NoRequest}, left : Nat, reply : Reply]
    BY ReplyFacts DEF Idle
  <2>2. FreeSlot \in [client : Clients \cup {NoClient}, response : Texts]
    BY DEF FreeSlot, Texts
  <2>3. NoTest \in Test
    BY SizeAssumption DEF NoTest, Test
  <2>4. QED
    BY <2>1, <2>2, <2>3, FactoryAssumption DEF Init, TypeOK
<1>2. BothCopiesValid
  BY FactoryAssumption DEF Init, BothCopiesValid
<1>3. ResponseIntact /\ SlotsFollowAnswers /\ NeverRefused
  BY DEF Init, ResponseIntact, SlotsFollowAnswers, NeverRefused, Idle, Sending, Free, FreeSlot
<1>4. QED
  BY <1>1, <1>2, <1>3 DEF IInv

LEMMA RequestInv ==
  ASSUME IInv, NEW c \in Clients, NEW r \in Requests, Request(c, r)
  PROVE  IInv'
<1> USE DEF Request
<1>1. TypeOK'
  <2>1. Len(r.pieces) \in Nat
    BY RequestAssumption, LenOfPieces
  <2>2. QED
    BY <2>1, ReplyFacts DEF IInv, TypeOK
<1>2. BothCopiesValid'
  BY DEF IInv, BothCopiesValid
<1>3. ResponseIntact' /\ SlotsFollowAnswers' /\ NeverRefused'
  <2>1. /\ \A d \in Clients \ {c} : conn'[d] = conn[d]
        /\ conn'[c].phase = "receiving" /\ conn'[c].reply.slot = NoSlot
    BY DEF IInv, TypeOK, NoReply
  <2>2. QED
    BY <2>1, OthersKeepSlots
<1>4. QED
  BY <1>1, <1>2, <1>3 DEF IInv

LEMMA DataMoreInv ==
  ASSUME IInv, NEW c \in Clients, DataMore(c)
  PROVE  IInv'
<1> USE DEF DataMore
<1>1. TypeOK'
  BY DEF IInv, TypeOK
<1>2. BothCopiesValid'
  BY DEF IInv, BothCopiesValid
<1>3. \A d \in Clients : /\ conn'[d].phase = conn[d].phase
                         /\ conn'[d].reply = conn[d].reply
  BY DEF IInv, TypeOK
<1>4. ResponseIntact'
  BY <1>3 DEF IInv, ResponseIntact, Sending
<1>5. SlotsFollowAnswers'
  BY <1>3 DEF IInv, TypeOK, SlotsFollowAnswers, Sending, Free
<1>6. NeverRefused'
  BY <1>3 DEF IInv, NeverRefused, Sending
<1>7. QED
  BY <1>1, <1>2, <1>4, <1>5, <1>6 DEF IInv

LEMMA EndInv ==
  ASSUME IInv, NEW c \in Clients, EndTransaction(c)
  PROVE  IInv'
<1>1. TypeOK'
  <2>1. Idle \in [phase : {"idle", "receiving", "sending"},
                  req : Requests \cup {NoRequest}, left : Nat, reply : Reply]
    BY ReplyFacts DEF Idle
  <2>2. conn' = [conn EXCEPT ![c] = Idle]
    BY DEF EndTransaction
  <2>3. FreeSlot \in [client : Clients \cup {NoClient}, response : Texts]
    BY DEF FreeSlot, Texts
  <2>4. slots' \in [Slots -> [client : Clients \cup {NoClient}, response : Texts]]
    BY <2>3 DEF IInv, TypeOK, EndTransaction, Released
  <2>5. QED
    BY <2>1, <2>2, <2>4 DEF IInv, TypeOK, EndTransaction
<1>2. BothCopiesValid'
  BY DEF IInv, BothCopiesValid, EndTransaction
<1>3. QED
  BY <1>1, <1>2, EndKeepsSlots DEF IInv

LEMMA RebootInv ==
  ASSUME IInv, Reboot
  PROVE  IInv'
<1>1. TypeOK'
  <2>1. NoTest \in Test
    BY SizeAssumption DEF NoTest, Test
  <2>2. Idle \in [phase : {"idle", "receiving", "sending"},
                  req : Requests \cup {NoRequest}, left : Nat, reply : Reply]
    BY ReplyFacts DEF Idle
  <2>3. FreeSlot \in [client : Clients \cup {NoClient}, response : Texts]
    BY DEF FreeSlot, Texts
  <2>4. QED
    BY <2>1, <2>2, <2>3 DEF IInv, TypeOK, Reboot
<1>2. BothCopiesValid'
  BY DEF IInv, BothCopiesValid, Reboot
<1>3. ResponseIntact' /\ SlotsFollowAnswers' /\ NeverRefused'
  BY DEF Reboot, ResponseIntact, SlotsFollowAnswers, NeverRefused, Idle, Sending, Free, FreeSlot
<1>4. QED
  BY <1>1, <1>2, <1>3 DEF IInv

(* An answer that needs no slot. *)
LEMMA PlainAnswerInv ==
  ASSUME IInv, NEW c \in Clients, conn[c].phase = "receiving",
         NEW reply \in Reply, reply.slot = NoSlot,
         conn' = [conn EXCEPT ![c] = [phase |-> "sending", req |-> NoRequest,
                                      left |-> 0, reply |-> reply]],
         UNCHANGED <<slots, ram, flash, broker, test, rebooting>>,
         reply.status = 503 => Cardinality(Clients) > SLOTS
  PROVE  IInv'
<1>1. conn \in [Clients -> [phase : {"idle", "receiving", "sending"},
                   req : Requests \cup {NoRequest}, left : Nat, reply : Reply]]
  BY DEF IInv, TypeOK
<1>2. TypeOK'
  <2>1. conn' \in [Clients -> [phase : {"idle", "receiving", "sending"},
                     req : Requests \cup {NoRequest}, left : Nat, reply : Reply]]
    BY <1>1
  <2>2. QED
    BY <2>1 DEF IInv, TypeOK
<1>3. BothCopiesValid'
  BY DEF IInv, BothCopiesValid
<1>4. (\A d \in Clients \ {c} : conn'[d] = conn[d]) /\ conn'[c].reply = reply
  BY <1>1
<1>5. ResponseIntact' /\ SlotsFollowAnswers' /\ NeverRefused'
  <2>1. conn[c].phase # "sending"
    OBVIOUS
  <2>2. conn'[c].phase = "sending" /\ conn'[c].reply.status = 503
          => Cardinality(Clients) > SLOTS
    BY <1>4
  <2>3. UNCHANGED slots
    OBVIOUS
  <2>4. QED
    BY <1>4, <2>1, <2>2, <2>3, OthersKeepSlots
<1>6. QED
  BY <1>2, <1>3, <1>5 DEF IInv

LEMMA DataFinalInv ==
  ASSUME IInv, NEW c \in Clients, DataFinal(c)
  PROVE  IInv'
<1> DEFINE r == conn[c].req
           p == LastPiece(r)
<1>1. conn[c].phase = "receiving" /\ ~Sending(c)
  BY DEF DataFinal, Sending
<1>2. ASSUME NEW i \in Slots, Acquires(c, i), Handled(c, i, r, p)
      PROVE  IInv'
  <2>1. r \in Requests
    <3>1. r.method = "GET" \/ r.method = "POST"
      BY <1>2 DEF Handled, Get, Post, NotFound
    <3>2. r \in Requests \cup {NoRequest}
      BY DEF IInv, TypeOK
    <3>3. NoRequest.method # "GET" /\ NoRequest.method # "POST"
      BY DEF NoRequest
    <3>4. QED
      BY <3>1, <3>2, <3>3
  <2>2. IsBody(p.body)
    BY <2>1, PieceFacts
  <2>3. PICK status \in {200, 400, 404}, text \in Texts :
          AnswerConst(c, i, status, text) \/ AnswerBuilt(c, i, text)
    BY <1>2, HandledIsAnswered
  <2>4. DataOK' /\ BothCopiesValid'
    BY <1>2, <2>2, HandledKeepsData DEF IInv, TypeOK, DataOK
  <2>5. TypeOK'
    BY <2>3, <2>4, SlotTypes, AnswerTypes DEF IInv, TypeOK, DataOK
  <2>6. ResponseIntact' /\ SlotsFollowAnswers' /\ NeverRefused'
    BY <1>1, <1>2, <2>3, AnswerKeepsSlots
  <2>7. QED
    BY <2>4, <2>5, <2>6 DEF IInv
<1>3. (\A i \in Slots : ~Acquires(c, i)) => Cardinality(Clients) > SLOTS
  BY <1>1, NoneFree, MoreClients DEF IInv
<1>4. "page" \in Texts /\ "low memory" \in Texts
  BY DEF Texts
<1>5. CASE /\ Answer(c, 200, "page", NoSlot)
           /\ UNCHANGED <<slots, ram, flash, broker, test, rebooting>>
  <2> DEFINE reply == [status |-> 200, text |-> "page", slot |-> NoSlot]
  <2>1. conn' = [conn EXCEPT ![c] = [phase |-> "sending", req |-> NoRequest,
                                     left |-> 0, reply |-> reply]]
    BY <1>5 DEF Answer
  <2>2. reply \in Reply /\ reply.slot = NoSlot
    BY <1>4 DEF Reply
  <2>3. reply.status = 503 => Cardinality(Clients) > SLOTS
    OBVIOUS
  <2> HIDE DEF reply
  <2>4. QED
    BY <1>1, <1>5, <2>1, <2>2, <2>3, PlainAnswerInv
<1>6. CASE /\ \A i \in Slots : ~Acquires(c, i)
           /\ Answer(c, 503, "low memory", NoSlot)
           /\ UNCHANGED <<slots, ram, flash, broker, test, rebooting>>
  <2> DEFINE reply == [status |-> 503, text |-> "low memory", slot |-> NoSlot]
  <2>1. conn' = [conn EXCEPT ![c] = [phase |-> "sending", req |-> NoRequest,
                                     left |-> 0, reply |-> reply]]
    BY <1>6 DEF Answer
  <2>2. reply \in Reply /\ reply.slot = NoSlot
    BY <1>4 DEF Reply
  <2>3. reply.status = 503 => Cardinality(Clients) > SLOTS
    BY <1>3, <1>6
  <2> HIDE DEF reply
  <2>4. QED
    BY <1>1, <1>6, <2>1, <2>2, <2>3, PlainAnswerInv
<1>7. QED
  BY <1>2, <1>5, <1>6, FinalCases

LEMMA StepInv == IInv /\ [Next]_vars => IInv'
<1> SUFFICES ASSUME IInv, [Next]_vars PROVE IInv'
  OBVIOUS
<1>1. CASE UNCHANGED vars
  BY <1>1 DEF vars, IInv, TypeOK, BothCopiesValid, ResponseIntact, SlotsFollowAnswers,
     NeverRefused, Sending, Free
<1>2. CASE Next
  BY <1>2, RequestInv, DataMoreInv, DataFinalInv, EndInv, RebootInv DEF Next
<1>3. QED
  BY <1>1, <1>2

LEMMA Invariant == Spec => []IInv
BY InitInv, StepInv, PTL DEF Spec

----------------------------------------------------------------------------
(* Results                                                                 *)

(* Every variable of the handler keeps its type, in particular no name or  *)
(* host outgrows its buffer and no port its 16 bits, whatever is sent.     *)
THEOREM HttpTypeCorrect == Spec => []TypeOK
<1>1. IInv => TypeOK
  BY DEF IInv
<1>2. QED
  BY <1>1, Invariant, PTL

(* A client is sent what was built for it, from a slot nobody else has, for *)
(* any number of clients and slots.                                         *)
THEOREM ResponseIntactTheorem == Spec => []ResponseIntact
<1>1. IInv => ResponseIntact
  BY DEF IInv
<1>2. QED
  BY <1>1, Invariant, PTL

(* A taken slot belongs to one client whose answer is on its way. *)
THEOREM SlotsFollowAnswersTheorem == Spec => []SlotsFollowAnswers
<1>1. IInv => SlotsFollowAnswers
  BY DEF IInv
<1>2. QED
  BY <1>1, Invariant, PTL

(* With as many slots as clients nobody is ever told "low memory". *)
THEOREM NeverRefusedTheorem == Spec => []NeverRefused
<1>1. IInv => NeverRefused
  BY DEF IInv
<1>2. QED
  BY <1>1, Invariant, PTL

(* What is in RAM and what is in flash validates, whatever is posted and     *)
(* whichever saves fail.                                                     *)
THEOREM BothCopiesValidTheorem == Spec => []BothCopiesValid
<1>1. IInv => BothCopiesValid
  BY DEF IInv
<1>2. QED
  BY <1>1, Invariant, PTL

(* A client is answered by the last piece of its own request. *)
LEMMA AnsweredByFinal ==
  ASSUME IInv, [Next]_vars, NEW c \in Clients, NEW status, Answers(c, status)
  PROVE  DataFinal(c)
<1>1. conn[c].phase = "receiving" /\ conn'[c].phase = "sending" /\ conn'[c] # conn[c]
  BY DEF Answers
<1>2. Next
  BY <1>1 DEF vars
<1>3. ASSUME NEW d \in Clients, NEW r \in Requests, Request(d, r) PROVE FALSE
  BY <1>1, <1>3 DEF Request, IInv, TypeOK
<1>4. ASSUME NEW d \in Clients, DataMore(d) PROVE FALSE
  BY <1>1, <1>4 DEF DataMore, IInv, TypeOK
<1>5. ASSUME NEW d \in Clients, EndTransaction(d) PROVE FALSE
  BY <1>1, <1>5 DEF EndTransaction, Idle, IInv, TypeOK
<1>6. ~Reboot
  BY <1>1 DEF Reboot, Idle
<1>7. PICK d \in Clients : DataFinal(d)
  BY <1>2, <1>3, <1>4, <1>5, <1>6 DEF Next
<1>8. d = c
  BY <1>1, <1>7, DataFinalIsOwn DEF IInv
<1>9. QED
  BY <1>7, <1>8

(* "low memory" is answered only while every slot holds an answer that      *)
(* another client is being sent.                                            *)
THEOREM LowMemoryIsRealTheorem == Spec => LowMemoryIsReal
<1>1. ASSUME IInv, [Next]_vars, NEW c \in Clients, Answers(c, 503), NEW i \in Slots
      PROVE  ~Free(i) /\ slots[i].client # c /\ Sending(slots[i].client)
  <2>1. ~Sending(c) /\ conn'[c] # conn[c]
    BY <1>1 DEF Answers, Sending
  <2>2. DataFinal(c)
    BY <1>1, AnsweredByFinal
  <2>3. \A j \in Slots : ~Acquires(c, j)
    <3>1. ASSUME NEW j \in Slots, Acquires(c, j),
                 Handled(c, j, conn[c].req, LastPiece(conn[c].req))
          PROVE  FALSE
      <4>1. PICK status \in {200, 400, 404}, text \in Texts :
              AnswerConst(c, j, status, text) \/ AnswerBuilt(c, j, text)
        BY <3>1, HandledIsAnswered
      <4>2. conn'[c].reply.status # 503
        <5>1. Answer(c, status, text, NoSlot) \/ Answer(c, 200, text, j)
          BY <4>1 DEF AnswerConst, AnswerBuilt
        <5>2. conn'[c].reply.status = status \/ conn'[c].reply.status = 200
          BY <1>1, <5>1 DEF IInv, TypeOK, Answer
        <5>3. QED
          BY <5>2
      <4>3. QED
        BY <1>1, <4>2 DEF Answers
    <3>2. ~Answer(c, 200, "page", NoSlot)
      BY <1>1 DEF Answer, Answers, IInv, TypeOK
    <3>3. QED
      BY <2>2, <3>1, <3>2, FinalCases
  <2>4. QED
    BY <1>1, <2>1, <2>3, NoneFree DEF IInv, SlotsFollowAnswers
<1>2. IInv /\ [Next]_vars
        => [\A c \in Clients : Answers(c, 503) =>
              \A i \in Slots : ~Free(i) /\ slots[i].client # c /\ Sending(slots[i].client)]_vars
  BY <1>1
<1>3. QED
  BY <1>2, Invariant, PTL DEF Spec, LowMemoryIsReal

LEMMA AnswerIs ==
  ASSUME IInv, NEW c \in Clients, NEW status, NEW text, NEW slot,
         Answer(c, status, text, slot)
  PROVE  conn'[c].reply.status = status /\ conn'[c].reply.text = text
BY DEF Answer, IInv, TypeOK

LEMMA ConstSays ==
  ASSUME IInv, NEW c \in Clients, NEW i, NEW status, NEW text,
         AnswerConst(c, i, status, text)
  PROVE  conn'[c].reply.status = status /\ conn'[c].reply.text = text
<1>1. Answer(c, status, text, NoSlot)
  BY DEF AnswerConst
<1>2. QED
  BY <1>1, AnswerIs

LEMMA BuiltSays ==
  ASSUME IInv, NEW c \in Clients, NEW i, NEW text, AnswerBuilt(c, i, text)
  PROVE  conn'[c].reply.status = 200 /\ conn'[c].reply.text = text
<1>1. Answer(c, 200, text, i)
  BY DEF AnswerBuilt
<1>2. QED
  BY <1>1, AnswerIs

(* What an answer tells about the flash: a refusal leaves it alone, and one *)
(* that asks for a reboot comes with settings that are saved.              *)
HalfReset == "reset failed"
SavedText == "reboot_required:true"

Truthful(c) ==
  /\ conn'[c].reply.status = 400 /\ conn'[c].reply.text # HalfReset => flash' = flash
  /\ conn'[c].reply.text = SavedText => flash'.settings = ram'.settings

LEMMA ConstIsTruthful ==
  ASSUME IInv, NEW c \in Clients, NEW i, NEW status, NEW text,
         AnswerConst(c, i, status, text), text # SavedText,
         status # 400 \/ text = HalfReset \/ flash' = flash
  PROVE  Truthful(c)
BY ConstSays DEF Truthful

(* An answer that refuses nothing. *)
LEMMA PlainIsTruthful ==
  ASSUME IInv, NEW c \in Clients, NEW i, NEW text, text # SavedText,
         \/ AnswerConst(c, i, 200, text)
         \/ Answer(c, 200, text, NoSlot)
  PROVE  Truthful(c)
<1>1. conn'[c].reply.status = 200 /\ conn'[c].reply.text = text
  BY ConstSays, AnswerIs
<1>2. QED
  BY <1>1 DEF Truthful

LEMMA MissingIsTruthful ==
  ASSUME IInv, NEW c \in Clients, NEW i, NEW text, text # SavedText,
         AnswerConst(c, i, 404, text)
  PROVE  Truthful(c)
BY ConstIsTruthful

LEMMA BusyIsTruthful ==
  ASSUME IInv, NEW c \in Clients, NEW text, text # SavedText,
         Answer(c, 503, text, NoSlot)
  PROVE  Truthful(c)
<1>1. conn'[c].reply.status = 503 /\ conn'[c].reply.text = text
  BY AnswerIs
<1>2. QED
  BY <1>1 DEF Truthful

LEMMA BuiltIsTruthful ==
  ASSUME IInv, NEW c \in Clients, NEW i, NEW text, AnswerBuilt(c, i, text),
         text = SavedText => flash'.settings = ram'.settings
  PROVE  Truthful(c)
<1>1. conn'[c].reply.status = 200 /\ conn'[c].reply.text = text
  BY BuiltSays
<1>2. QED
  BY <1>1 DEF Truthful

LEMMA RefusalIsTruthful ==
  ASSUME IInv, NEW c \in Clients, NEW i, NEW text, Refuse(c, i, text), text # SavedText
  PROVE  Truthful(c)
<1>1. AnswerConst(c, i, 400, text) /\ flash' = flash
  BY DEF Refuse
<1>2. QED
  BY <1>1, ConstIsTruthful

LEMMA TextsDiffer ==
  \A text \in {"status", "config", "peers", "peer-status", "reboot_required:false",
              "not found", "invalid config JSON", "invalid peer JSON", "ok",
                  "invalid broker control", "requested", "invalid publish test",
                  "recorded", "reset", "reset failed", "rebooting",
                  "request too large", "page", "low memory"} : text # SavedText
BY Zenon DEF SavedText

LEMMA HandledIsTruthful ==
  ASSUME IInv, NEW c \in Clients, NEW i, NEW r, NEW p, Handled(c, i, r, p)
  PROVE  Truthful(c)
<1>1. CASE Get(c, i, r)
  <2>1. AnswerBuilt(c, i, Getters[r.path])
    BY <1>1 DEF Get
  <2>2. Getters[r.path] \in {"status", "config", "peers", "peer-status"}
    BY <1>1 DEF Get, Getters
  <2>3. Getters[r.path] # SavedText
    BY <2>2, Zenon DEF SavedText
  <2>4. QED
    BY <2>1, <2>3, BuiltIsTruthful
<1>2. CASE NotFound(c, i, r, p)
  <2>1. AnswerConst(c, i, 404, "not found") /\ "not found" # SavedText
    BY <1>2, TextsDiffer, Zenon DEF NotFound
  <2>2. QED
    BY <2>1, MissingIsTruthful, Zenon
<1>3. CASE PostConfig(c, i, r, p.body)
  <2> DEFINE new == EditedSettings(ram.settings, p.body)
  <2>1. CASE Refuse(c, i, "invalid config JSON")
    BY <2>1, RefusalIsTruthful, TextsDiffer, Zenon
  <2>2. CASE AnswerBuilt(c, i, "reboot_required:false")
    BY <2>2, BuiltIsTruthful, TextsDiffer, Zenon
  <2>3. CASE /\ ram' = [ram EXCEPT !.settings = new]
             /\ flash' = [flash EXCEPT !.settings = new]
             /\ AnswerBuilt(c, i, "reboot_required:true")
    <3>1. ram \in Config /\ flash \in Config
      BY DEF IInv, TypeOK
    <3> HIDE DEF new
    <3>2. flash'.settings = ram'.settings
      BY <2>3, <3>1 DEF Config
    <3>3. QED
      BY <2>3, <3>2, BuiltIsTruthful
  <2>4. CASE AnswerConst(c, i, 400, "invalid config JSON") /\ UNCHANGED flash
    BY <2>4, ConstIsTruthful, TextsDiffer, Zenon
  <2>5. QED
    BY <1>3, <2>1, <2>2, <2>3, <2>4, Zenon DEF PostConfig
<1>4. CASE PostPeer(c, i, r, p.body)
  <2>1. CASE Refuse(c, i, "invalid peer JSON")
    BY <2>1, RefusalIsTruthful, TextsDiffer, Zenon
  <2>2. CASE AnswerConst(c, i, 200, "ok")
    BY <2>2, PlainIsTruthful, TextsDiffer, Zenon
  <2>3. CASE AnswerConst(c, i, 400, "invalid peer JSON") /\ UNCHANGED flash
    BY <2>3, ConstIsTruthful, TextsDiffer, Zenon
  <2>4. QED
    BY <1>4, <2>1, <2>2, <2>3, Zenon DEF PostPeer
<1>5. CASE PostControl(c, i, r, p.body)
  <2>1. Refuse(c, i, "invalid broker control") \/ AnswerConst(c, i, 200, "requested")
    BY <1>5, Zenon DEF PostControl
  <2>2. QED
    BY <2>1, RefusalIsTruthful, PlainIsTruthful, ConstIsTruthful, TextsDiffer, Zenon
<1>6. CASE PostTest(c, i, r, p.body)
  <2>1. Refuse(c, i, "invalid publish test") \/ AnswerConst(c, i, 200, "recorded")
    BY <1>6, Zenon DEF PostTest
  <2>2. QED
    BY <2>1, RefusalIsTruthful, PlainIsTruthful, ConstIsTruthful, TextsDiffer, Zenon
<1>7. CASE PostReset(c, i, r)
  <2>1. AnswerConst(c, i, 200, "reset") \/ AnswerConst(c, i, 400, "reset failed")
    BY <1>7, Zenon DEF PostReset
  <2>2. AnswerConst(c, i, 200, "reset") => Truthful(c)
    BY PlainIsTruthful, TextsDiffer, Zenon
  <2>3. "reset failed" = HalfReset /\ "reset failed" # SavedText
    BY TextsDiffer, Zenon DEF HalfReset
  <2>4. AnswerConst(c, i, 400, "reset failed") => Truthful(c)
    BY <2>3, ConstIsTruthful, Zenon
  <2>5. QED
    BY <2>1, <2>2, <2>4, Zenon
<1>8. CASE PostReboot(c, i, r)
  BY <1>8, PlainIsTruthful, TextsDiffer, Zenon DEF PostReboot
<1>9. CASE Refuse(c, i, "request too large")
  BY <1>9, RefusalIsTruthful, TextsDiffer, Zenon
<1>10. QED
  BY <1>1, <1>2, <1>3, <1>4, <1>5, <1>6, <1>7, <1>8, <1>9, Zenon DEF Handled, Post

LEMMA AnswersAreTruthful ==
  ASSUME IInv, [Next]_vars, NEW c \in Clients, NEW status, Answers(c, status)
  PROVE  Truthful(c)
<1>1. DataFinal(c)
  BY AnsweredByFinal
<1>2. ASSUME NEW i \in Slots, Handled(c, i, conn[c].req, LastPiece(conn[c].req))
      PROVE  Truthful(c)
  BY <1>2, HandledIsTruthful
<1>3. Answer(c, 200, "page", NoSlot) => Truthful(c)
  BY PlainIsTruthful, TextsDiffer, Zenon
<1>4. Answer(c, 503, "low memory", NoSlot) => Truthful(c)
  BY BusyIsTruthful, TextsDiffer, Zenon
<1>5. QED
  BY <1>1, <1>2, <1>3, <1>4, FinalCases, Zenon

(* "reboot_required:true" is answered only once the settings RAM holds are *)
(* the ones the reboot will load.                                          *)
THEOREM RebootRequiredTheorem == Spec => RebootRequiredMeansSaved
<1>1. IInv /\ [Next]_vars
        => [\A c \in Clients :
              Answers(c, 200) /\ conn'[c].reply.text = "reboot_required:true"
                => flash'.settings = ram'.settings]_vars
  BY AnswersAreTruthful DEF Truthful, SavedText
<1>2. QED
  BY <1>1, Invariant, PTL DEF Spec, RebootRequiredMeansSaved

(* A request answered 400 leaves the flash as it was, unless it is a reset *)
(* that failed half way.                                                   *)
THEOREM RefusedLeavesFlashTheorem == Spec => RefusedLeavesFlash
<1>1. ASSUME IInv, [Next]_vars, NEW c \in Clients, Answers(c, 400),
             conn'[c].reply.text # "reset failed"
      PROVE  flash' = flash
  <2>1. conn'[c].reply.status = 400
    BY <1>1 DEF Answers
  <2>2. QED
    BY <1>1, <2>1, AnswersAreTruthful, Zenon DEF Truthful, HalfReset
<1>2. IInv /\ [Next]_vars
        => [\A c \in Clients :
              Answers(c, 400) /\ conn'[c].reply.text # "reset failed"
                => flash' = flash]_vars
  BY <1>1
<1>3. QED
  BY <1>2, Invariant, PTL DEF Spec, RefusedLeavesFlash
=============================================================================
