--------------------------- MODULE ProductConfig ---------------------------
(***************************************************************************)
(* The configuration of the bridge, app/src/product_config.c: a copy in    *)
(* RAM (the globals "peers" and "settings") in front of a flash store that *)
(* keeps one record per key.                                               *)
(*                                                                         *)
(* The console thread, the HTTP server thread, the main thread and the     *)
(* system work queue all call these functions, and nothing locks the       *)
(* globals: a call is a sequence of field copies into RAM followed by a    *)
(* sequence of saves, and the steps of two calls interleave.  The power    *)
(* may fail between any two steps.                                         *)
(*                                                                         *)
(* A record is cut into the three pieces the copy can be interrupted       *)
(* between and the validity rules relate:                                  *)
(*   settings: text = the strings, port = mqtt_port, tail = fallback_port; *)
(*   peer:     text = the host,    port = its ports, tail = enabled.       *)
(* A text is a number too, 0 standing for the empty string.                *)
(***************************************************************************)
EXTENDS Integers, Sequences

CONSTANTS
  Threads,        \* the threads that call into product_config.c
  PEER_MAX,       \* FIELD_BRIDGE_PEER_MAX
  SettingsInputs, \* settings the callers pass to product_config_set_settings
  PeerInputs,     \* peers the callers pass to product_config_set_peer
  SmallDefaults,  \* what settings_defaults leaves in "settings"
  Profiles,       \* profiles the callers pass: "small", "large"
  LargeText,      \* the strings settings_large_defaults writes over them
  Flashes         \* what the store may hold when the device is first switched on

HTTP_PORT == 8080       \* the port of the provisioning server
LEGACY_FALLBACK == 1884 \* the fallback port given to a version-1 record

Val == 0 .. 65535
Record == [text : Val, port : Val, tail : Val]
ZeroRecord == [text |-> 0, port |-> 0, tail |-> 0]

PEER_KEY_BASE == 1
SETTINGS_KEY == 100
PeerKeys == PEER_KEY_BASE .. (PEER_KEY_BASE + PEER_MAX - 1)
Keys == PeerKeys \cup {SETTINGS_KEY}

Fields == {"text", "port", "tail"}
Write == [key : Keys, field : Fields, val : Val]
Stored == [form : {"none", "v1", "v2"}, rec : Record]
NoStored == [form |-> "none", rec |-> ZeroRecord]

(* validate_peer: an enabled peer has a host and non-zero ports. *)
ValidPeer(p) ==
  /\ p.tail \in {0, 1}
  /\ p.tail = 1 => p.text > 0 /\ p.port > 0

(* validate_settings: non-empty strings, non-zero ports, and a fallback    *)
(* port that is neither the MQTT port nor the HTTP port.                   *)
ValidSettings(s) ==
  /\ s.text > 0 /\ s.port > 0 /\ s.tail > 0
  /\ s.tail # s.port
  /\ s.tail # HTTP_PORT

Valid(k, r) == IF k = SETTINGS_KEY THEN ValidSettings(r) ELSE ValidPeer(r)

ASSUME PeerMaxAssumption == PEER_MAX \in 0 .. (SETTINGS_KEY - PEER_KEY_BASE)
ASSUME InputAssumption ==
  /\ SettingsInputs \subseteq Record
  /\ PeerInputs \subseteq Record
ASSUME DefaultsAssumption ==
  /\ SmallDefaults \in Record /\ ValidSettings(SmallDefaults)
  /\ LargeText \in Val \ {0}
(* The first flash may hold anything; only settings have an older format.  *)
ASSUME FlashAssumption ==
  \A f \in Flashes :
    f \in [Keys -> Stored] /\ \A k \in PeerKeys : f[k].form # "v1"

VARIABLES
  ram,    \* the globals: key -> record
  store,  \* the flash: key -> stored record
  op,     \* the call each thread is in: copies still to do, keys still to save
  loaded, \* settings_loaded_from_store
  stale,  \* keys whose last change in RAM was given up without a save
  torn    \* keys two calls were changing or saving at the same time

vars == <<ram, store, op, loaded, stale, torn>>

Idle == [writes |-> <<>>, saves |-> {}]

TypeOK ==
  /\ ram \in [Keys -> Record]
  /\ store \in [Keys -> Stored]
  /\ op \in [Threads -> [writes : Seq(Write), saves : SUBSET Keys]]
  /\ loaded \in BOOLEAN
  /\ stale \in SUBSET Keys
  /\ torn \in SUBSET Keys

----------------------------------------------------------------------------
(* Reading the store                                                       *)

PeerFrom(s) == IF s.form = "v2" THEN s.rec ELSE ZeroRecord

(* load_legacy_settings: the strings and ports of a version-1 record, with *)
(* the fallback port it did not have.                                      *)
LegacySettings(s) == [s.rec EXCEPT !.tail = LEGACY_FALLBACK]

(* Mutants: a record read from flash is trusted. *)
TrustsCurrent(s) == s.form = "v2"
TrustsLegacy(s) == s.form = "v1"

UsesCurrent(s) == s.form = "v2" /\ ValidSettings(s.rec)
UsesLegacy(s) == s.form = "v1" /\ ValidSettings(LegacySettings(s))

SettingsFrom(s) ==
  IF UsesCurrent(s) THEN s.rec
  ELSE IF UsesLegacy(s) THEN LegacySettings(s)
  ELSE SmallDefaults

(* What persist_load puts in RAM for key k when the flash holds f. *)
BootValue(k, f) ==
  IF k = SETTINGS_KEY THEN SettingsFrom(f[k]) ELSE PeerFrom(f[k])

(* The keys whose value in RAM the flash f does not hold after such a load. *)
Unsaved(f) == IF UsesCurrent(f[SETTINGS_KEY]) THEN {} ELSE {SETTINGS_KEY}

(* persist_load with a store that opens.  A version-1 record is converted  *)
(* and saved back; the result of that save is ignored.                     *)
LoadConfig ==
  LET s == store[SETTINGS_KEY] IN
  /\ ram' = [k \in Keys |-> BootValue(k, store)]
  /\ loaded' = (UsesCurrent(s) \/ UsesLegacy(s))
  /\ \/ /\ UsesLegacy(s)
        /\ store' = [store EXCEPT ![SETTINGS_KEY] =
                       [form |-> "v2", rec |-> LegacySettings(s)]]
     \/ UNCHANGED store
  /\ stale' = Unsaved(store')

(* dephy_config_store_init failed: defaults, and nothing was read. *)
LoadNothing ==
  /\ ram' = [k \in Keys |-> IF k = SETTINGS_KEY THEN SmallDefaults ELSE ZeroRecord]
  /\ loaded' = FALSE
  /\ stale' = Keys
  /\ UNCHANGED store

(* Power loss, reset button, watchdog or reboot command at any moment, then *)
(* product_config_init before any other thread runs.                        *)
Reboot ==
  /\ LoadConfig \/ LoadNothing
  /\ op' = [t \in Threads |-> Idle]
  /\ UNCHANGED torn

----------------------------------------------------------------------------
(* The calls that change the configuration                                 *)

Copy(k, r) == << [key |-> k, field |-> "text", val |-> r.text],
                 [key |-> k, field |-> "port", val |-> r.port],
                 [key |-> k, field |-> "tail", val |-> r.tail] >>

(* memset(peers, 0, sizeof(peers)). *)
ZeroPeers ==
  [i \in 1 .. 3 * PEER_MAX |->
     Copy(PEER_KEY_BASE + ((i - 1) \div 3), ZeroRecord)[1 + ((i - 1) % 3)]]

SettingsDefaults ==
  Copy(SETTINGS_KEY, ZeroRecord) \o Copy(SETTINGS_KEY, SmallDefaults)

SettingsLargeDefaults ==
  SettingsDefaults \o << [key |-> SETTINGS_KEY, field |-> "text", val |-> LargeText] >>

Begin(t, writes, saves) ==
  /\ op[t] = Idle
  /\ op' = [op EXCEPT ![t] = [writes |-> writes, saves |-> saves]]
  /\ UNCHANGED <<ram, store, loaded, stale, torn>>

(* Mutants: no validation; no check of the index; the settings, or the      *)
(* peers, are left out of the saves.                                       *)
SetSettingsUnchecked(t, s) == Begin(t, Copy(SETTINGS_KEY, s), {SETTINGS_KEY})

SetPeerAnywhere(t, i, p) ==
  /\ ValidPeer(p)
  /\ Begin(t, Copy(PEER_KEY_BASE + i, p), {PEER_KEY_BASE + i})

ResetAllPeersOnly(t) == Begin(t, ZeroPeers \o SettingsDefaults, PeerKeys)

ApplyDefaultsSettingsOnly(t, profile) ==
  LET defaults == IF profile = "large" THEN SettingsLargeDefaults
                                       ELSE SettingsDefaults
  IN  Begin(t, ZeroPeers \o defaults, {SETTINGS_KEY})

(* A settings record that does not validate is refused and changes nothing. *)
SetSettings(t, s) ==
  /\ ValidSettings(s)
  /\ Begin(t, Copy(SETTINGS_KEY, s), {SETTINGS_KEY})

SetPeer(t, i, p) ==
  /\ i \in 0 .. (PEER_MAX - 1)
  /\ ValidPeer(p)
  /\ Begin(t, Copy(PEER_KEY_BASE + i, p), {PEER_KEY_BASE + i})

ResetAll(t) == Begin(t, ZeroPeers \o SettingsDefaults, Keys)

(* The console passes one of the two profiles it knows by name. *)
ApplyDefaults(t, profile) ==
  LET defaults == IF profile = "large" THEN SettingsLargeDefaults
                                       ELSE SettingsDefaults
  IN  Begin(t, ZeroPeers \o defaults, Keys)

(* The record r with field f overwritten. *)
Put(r, f, v) ==
  CASE f = "text" -> [r EXCEPT !.text = v]
    [] f = "port" -> [r EXCEPT !.port = v]
    [] f = "tail" -> [r EXCEPT !.tail = v]

(* Thread u has still to write a field of key k. *)
Writing(u, k) == \E i \in 1 .. Len(op[u].writes) : op[u].writes[i].key = k

Overlap(t, k) == IF \E u \in Threads \ {t} : Writing(u, k) THEN {k} ELSE {}

(* The next field of the copy into RAM. *)
CopyField(t) ==
  LET w == Head(op[t].writes) IN
  /\ op[t].writes # <<>>
  /\ ram' = [ram EXCEPT ![w.key] = Put(@, w.field, w.val)]
  /\ op' = [op EXCEPT ![t].writes = Tail(@)]
  /\ torn' = torn \cup Overlap(t, w.key)
  /\ UNCHANGED <<store, loaded, stale>>

(* The key whose save is next: the peers in order, then the settings. *)
NextSave(t, k) ==
  /\ op[t].writes = <<>>
  /\ k \in op[t].saves
  /\ \A j \in op[t].saves : k <= j

(* persist_save / persist_save_settings: the store receives what RAM holds  *)
(* now.  The settings are always last, and their save sets the loaded flag. *)
SaveKey(t, k) ==
  /\ NextSave(t, k)
  /\ store' = [store EXCEPT ![k] = [form |-> "v2", rec |-> ram[k]]]
  /\ op' = [op EXCEPT ![t].saves = @ \ {k}]
  /\ stale' = stale \ {k}
  /\ torn' = torn \cup Overlap(t, k)
  /\ loaded' = (loaded \/ k = SETTINGS_KEY)
  /\ UNCHANGED ram

(* A save fails: the call returns -1 and the keys after it are not saved. *)
SaveFails(t) ==
  /\ op[t].writes = <<>> /\ op[t].saves # {}
  /\ op' = [op EXCEPT ![t] = Idle]
  /\ stale' = stale \cup op[t].saves
  /\ UNCHANGED <<ram, store, loaded, torn>>

----------------------------------------------------------------------------

Init ==
  /\ store \in Flashes
  /\ ram = [k \in Keys |-> BootValue(k, store)]
  /\ loaded = (UsesCurrent(store[SETTINGS_KEY]) \/ UsesLegacy(store[SETTINGS_KEY]))
  /\ op = [t \in Threads |-> Idle]
  /\ stale = Unsaved(store)
  /\ torn = {}

Call(t) ==
  \/ \E s \in SettingsInputs : SetSettings(t, s)
  \/ \E i \in -1 .. PEER_MAX, p \in PeerInputs : SetPeer(t, i, p)
  \/ ResetAll(t)
  \/ \E profile \in Profiles : ApplyDefaults(t, profile)

Next ==
  \/ \E t \in Threads : Call(t)
  \/ \E t \in Threads : CopyField(t)
  \/ \E t \in Threads, k \in Keys : SaveKey(t, k)
  \/ \E t \in Threads : SaveFails(t)
  \/ Reboot

Spec == Init /\ [][Next]_vars

----------------------------------------------------------------------------
(* Properties                                                              *)

(* The flash holds for key k exactly what RAM holds.  A peer key that was  *)
(* never written stands for the zero peer.                                 *)
InSync(k) ==
  IF k = SETTINGS_KEY
  THEN store[k] = [form |-> "v2", rec |-> ram[k]]
  ELSE PeerFrom(store[k]) = ram[k]

Owed(k) == \E t \in Threads : k \in op[t].saves

(* However calls interleave, RAM and flash differ on a key only while some *)
(* call has yet to save it, or after a save that failed or was never made: *)
(* product_config.c saves the global, never the caller's argument, so the  *)
(* last save of a key always stores the last copy.                         *)
Converged == \A k \in Keys : InSync(k) \/ Owed(k) \/ k \in stale

(* Copies come first: a call that still has to write a key in RAM has all  *)
(* of its saves of that key ahead of it.                                   *)
WritesAreOwed ==
  \A t \in Threads : \A i \in 1 .. Len(op[t].writes) :
    op[t].writes[i].key \in op[t].saves

(* A record the flash held when the device was first switched on.          *)
Original(k, r) == \E f \in Flashes : f[k].form = "v2" /\ f[k].rec = r

(* A record that does not validate can be in RAM between calls, or in      *)
(* flash, only if two calls changed or saved that key at the same time, or *)
(* if it was in flash from the first: persist_load checks the settings it  *)
(* loads, and no peer.                                                     *)
ValidUnlessTorn ==
  \A k \in Keys \ torn :
    /\ (\A t \in Threads : ~Writing(t, k)) =>
         Valid(k, ram[k]) \/ (k # SETTINGS_KEY /\ Original(k, ram[k]))
    /\ store[k].form = "v2" =>
         Valid(k, store[k].rec) \/ Original(k, store[k].rec)

(* Whatever record two overlapping calls and a power loss left in flash,   *)
(* the next start comes up with settings that validate.                    *)
BootsToValidSettings == ValidSettings(BootValue(SETTINGS_KEY, store))

(* What the user sees is what a reboot gives back: a key nobody is saving, *)
(* whose saves all worked and which no two calls tore, boots to the very   *)
(* value that get_settings and get_peer return.                            *)
RebootPreserves ==
  \A k \in Keys : ~Owed(k) /\ k \notin stale /\ k \notin torn
                    => BootValue(k, store) = ram[k]

----------------------------------------------------------------------------
UsableAtStart(k, r) == k = SETTINGS_KEY => ValidSettings(r)

(* The promise PersistentConfig makes, with "next" the value a start would *)
(* load from the flash now, and a key dirty while a call has still to save *)
(* it or after its save was given up.                                      *)
Promise == INSTANCE PersistentConfig WITH
  Key     <- Keys,
  Rec     <- Record,
  Default <- [k \in Keys |-> IF k = SETTINGS_KEY THEN SmallDefaults ELSE ZeroRecord],
  Usable  <- UsableAtStart,
  cur     <- ram,
  next    <- [k \in Keys |-> BootValue(k, store)],
  dirty   <- stale \cup {k \in Keys : Owed(k)}

(* Every interleaving of the calls, and every power loss, does nothing     *)
(* that PersistentConfig does not allow: flash never receives an argument  *)
(* some other call has already overwritten in RAM, a record is never left  *)
(* different from RAM without its key being dirty, and a conversion of an  *)
(* old record does not change what the next start uses.                    *)
KeepsPromise == Promise!Spec
=============================================================================
