------------------------------ MODULE Console ------------------------------
(***************************************************************************)
(* The UART console, app/src/product_console.c: one thread that handles    *)
(* one line at a time.  A line is a command, with or without values, or a  *)
(* number, which means something else in each of the seven menus.          *)
(*                                                                         *)
(* The commands work on the configuration through product_config.c: RAM    *)
(* changes first and the save may fail.  Here each call is one step; what  *)
(* other threads do in between is in ProductConfig and BrokerLifecycle.    *)
(*                                                                         *)
(* A text is its length, and a number is what atoi makes of it, so a text  *)
(* in the place of a number is 0.  Aliases of commands are left out.       *)
(***************************************************************************)
EXTENDS Integers, Sequences

CONSTANTS
  PEER_MAX,      \* FIELD_BRIDGE_PEER_MAX
  HOST_MAX,      \* FIELD_BRIDGE_HOST_MAX, the terminating zero included
  Defaults,      \* what settings_defaults leaves in the settings
  Texts,         \* addresses and hosts the user types
  Modes,         \* names of network modes the user types
  Ports,         \* numbers the user types for ports
  Flags,         \* numbers the user types for broker-state
  PeerIndices,   \* numbers the user types for a peer
  PeerArguments  \* what the user types after a peer's host, 0 to 3 numbers

Peers == 0 .. (PEER_MAX - 1)
SETTINGS == PEER_MAX \* the settings are saved after the peers
Keys == 0 .. SETTINGS

Text == 0 .. (HOST_MAX - 1)
Port == 0 .. 65535
Bool == {0, 1}
Settings == [ip : Text, gateway : Text, netmask : Text, dns : Text, dhcp : Bool,
             mode : {"auto", "eth"}, mqtt : Port, p2p : Port, fallback : Port,
             brokerIp : Text, enabled : Bool]
Peer == [host : Text, mqtt : Port, p2p : Port, enabled : Bool]
NoPeer == [host |-> 0, mqtt |-> 0, p2p |-> 0, enabled |-> 0]

Menus == {"main", "info", "settings", "device-network", "local-broker",
          "peer-bridge", "system"}

(* validate_peer. *)
ValidPeer(p) ==
  /\ p.enabled \in Bool
  /\ p.enabled = 1 => p.host > 0 /\ p.mqtt > 0 /\ p.p2p > 0

(* validate_settings. *)
ValidSettings(s) ==
  /\ \A f \in {"ip", "gateway", "netmask", "dns", "brokerIp"} : s[f] > 0
  /\ s.dhcp \in Bool /\ s.enabled \in Bool
  /\ s.mqtt > 0 /\ s.p2p > 0 /\ s.fallback > 0
  /\ s.fallback \notin {s.mqtt, s.p2p, 8080}

Valid(k, r) == IF k = SETTINGS THEN ValidSettings(r) ELSE ValidPeer(r)

ASSUME SizeAssumption == PEER_MAX \in Nat \ {0} /\ HOST_MAX \in Nat \ {0, 1}
ASSUME DefaultsAssumption ==
  Defaults \in Settings /\ ValidSettings(Defaults)
ASSUME InputAssumption ==
  /\ Texts \subseteq Nat \ {0}
  /\ Ports \subseteq Int /\ Flags \subseteq Int /\ PeerIndices \subseteq Int
  /\ \A a \in PeerArguments : a \in Seq(Int) /\ Len(a) <= 3

VARIABLES
  menu,      \* current_menu
  output,    \* what the last line put on the terminal
  ram,       \* the configuration in RAM: key -> record
  flash,     \* the configuration in the store
  requested, \* the command "broker-state 1" has set broker_state to "requested"
  failed     \* history: keys whose last command was answered with a failed save

config == <<ram, flash, failed>>
vars == <<menu, output, requested, config>>

TypeOK ==
  /\ menu \in Menus
  /\ output \in Menus \cup {"prompt", "page", "ok", "err"}
  /\ DOMAIN ram = Keys /\ DOMAIN flash = Keys
  /\ \A k \in Peers : ram[k] \in Peer /\ flash[k] \in Peer
  /\ ram[SETTINGS] \in Settings /\ flash[SETTINGS] \in Settings
  /\ requested \in BOOLEAN
  /\ failed \subseteq Keys

----------------------------------------------------------------------------
(* Answers and screens                                                     *)

(* One of the print_..._menu functions. *)
ShowMenu(m) ==
  /\ menu' = m /\ output' = m
  /\ UNCHANGED <<requested, config>>

(* A usage text, the help, or a page of values.  The menu stays the one    *)
(* shown last, although the page has cleared it from the terminal.         *)
ShowPage ==
  /\ output' = "page"
  /\ UNCHANGED <<menu, requested, config>>

(* The line is unknown, or an argument is missing or wrong. *)
Refuse ==
  /\ output' = "err"
  /\ UNCHANGED <<menu, requested, config>>

(* sys_reboot, or the power: the thread starts again without a menu. *)
Reboot ==
  /\ menu' = "main" /\ output' = "prompt"
  /\ requested' = FALSE
  /\ ram' = flash /\ failed' = {}
  /\ UNCHANGED flash

----------------------------------------------------------------------------
(* product_config.c, one call                                              *)

(* Mutants: a record that RAM already holds is not saved again; the record *)
(* is stored without being validated.                                      *)
SaveIfChanged(k, r) ==
  /\ Valid(k, r)
  /\ ram' = [ram EXCEPT ![k] = r]
  /\ \/ ram' # ram /\ UNCHANGED flash /\ output' = "err" /\ failed' = failed \cup {k}
     \/ /\ flash' = IF ram' = ram THEN flash ELSE [flash EXCEPT ![k] = r]
        /\ output' = "ok" /\ failed' = failed \ {k}

SaveUnchecked(k, r) ==
  /\ ram' = [ram EXCEPT ![k] = r]
  /\ flash' = [flash EXCEPT ![k] = r]
  /\ output' = "ok" /\ failed' = failed \ {k}

(* product_config_set_settings and product_config_set_peer, with the answer *)
(* their callers give.                                                     *)
Save(k, r) ==
  /\ Valid(k, r)
  /\ ram' = [ram EXCEPT ![k] = r]
  /\ \/ UNCHANGED flash /\ output' = "err" /\ failed' = failed \cup {k}
     \/ /\ flash' = [flash EXCEPT ![k] = r]
        /\ output' = "ok" /\ failed' = failed \ {k}

(* The command writes r, or is refused because r does not validate. *)
Store(k, r) ==
  /\ \/ Save(k, r)
     \/ ~Valid(k, r) /\ output' = "err" /\ UNCHANGED config
  /\ UNCHANGED menu

StoreSettings(s) == Store(SETTINGS, s) /\ UNCHANGED requested
StorePeer(i, p) == Store(i, p) /\ UNCHANGED requested

(* Mutant: the settings are saved before the peers. *)
SettingsFirst(saved) == IF saved = 0 THEN {} ELSE {SETTINGS} \cup 0 .. (saved - 2)

(* The keys whose saves came before the one that failed. *)
SavedFirst(saved) == 0 .. (saved - 1)

(* product_config_reset_all and product_config_apply_defaults: RAM, then    *)
(* one save per key, up to the first that fails.                           *)
Wipe ==
  LET fresh == [k \in Keys |-> IF k = SETTINGS THEN Defaults ELSE NoPeer] IN
  /\ ram' = fresh
  /\ \E saved \in 0 .. (SETTINGS + 1) :
       /\ flash' = [k \in Keys |-> IF k \in SavedFirst(saved) THEN fresh[k] ELSE flash[k]]
       /\ IF saved > SETTINGS THEN output' = "ok" /\ failed' = {}
                              ELSE output' = "err" /\ failed' = Keys
  /\ UNCHANGED <<menu, requested>>

----------------------------------------------------------------------------
(* Commands with values                                                    *)

(* Mutant: the text is copied whatever its length. *)
CopiedWhole(t) == t

(* copy_arg; casts to uint16_t and uint8_t. *)
Copied(t) == IF t < HOST_MAX THEN t ELSE HOST_MAX - 1
U16(n) == n % 65536
U8(n) == n % 256

settings == ram[SETTINGS]

(* gw and mask are 0 if they are not typed.  The settings in RAM validate, *)
(* so there always is a gateway, a netmask and a DNS to keep.              *)
CmdIp(ip, gw, mask) ==
  StoreSettings([settings EXCEPT !.ip = Copied(ip),
                                 !.gateway = IF gw = 0 THEN @ ELSE Copied(gw),
                                 !.dns = IF gw = 0 THEN @ ELSE Copied(gw),
                                 !.netmask = IF mask = 0 THEN @ ELSE Copied(mask),
                                 !.dhcp = 0])

CmdMode(name) ==
  IF name \in {"auto", "eth"} THEN StoreSettings([settings EXCEPT !.mode = name])
                              ELSE Refuse

CmdDhcp == StoreSettings([settings EXCEPT !.dhcp = 1])

CmdBrokerPort(n) == StoreSettings([settings EXCEPT !.mqtt = U16(n)])

CmdBrokerFallbackPort(n) == StoreSettings([settings EXCEPT !.fallback = U16(n)])

CmdBridgePort(n) == StoreSettings([settings EXCEPT !.p2p = U16(n)])

CmdBrokerIp(ip) == StoreSettings([settings EXCEPT !.brokerIp = Copied(ip)])

(* The older form; the address is 0 if it is not typed. *)
CmdBroker(mqtt, p2p, ip) ==
  StoreSettings([settings EXCEPT !.mqtt = U16(mqtt), !.p2p = U16(p2p),
                                 !.brokerIp = IF ip = 0 THEN @ ELSE Copied(ip)])

(* product_runtime_set_broker_enabled, only after a save that worked. *)
RequestIfSaved(value) == requested' = (requested \/ (value = 1 /\ output' = "ok"))

(* The value is checked before it is cast. *)
CmdBrokerState(value) ==
  \/ value \notin Bool /\ Refuse
  \/ /\ value \in Bool
     /\ Store(SETTINGS, [settings EXCEPT !.enabled = value])
     /\ RequestIfSaved(value)

(* The flag is cast without a check: 256 disables the peer.  Nothing of the *)
(* old peer is kept.                                                       *)
PeerFrom(host, args) ==
  [host |-> Copied(host),
   mqtt |-> IF Len(args) >= 1 THEN U16(args[1]) ELSE 1883,
   p2p |-> IF Len(args) >= 2 THEN U16(args[2]) ELSE 4884,
   enabled |-> IF Len(args) >= 3 THEN U8(args[3]) ELSE 1]

CmdPeer(i, host, args) ==
  IF i \in Peers THEN StorePeer(i, PeerFrom(host, args)) ELSE Refuse

(* The two profiles differ in names only, which are not modelled. *)
CmdDefaults(profile) == IF profile \in {"small", "large"} THEN Wipe ELSE Refuse

CmdReset == Wipe

----------------------------------------------------------------------------
(* Lines of one word                                                       *)

NeedsValues == {"mode", "ip", "broker", "broker-port", "broker-fallback-port",
                "broker-ip", "broker-state", "bridge-port", "peer", "defaults"}
Pages == {"help", "status", "summary", "show"}

(* product_console_handle_line.  A command that needs values has none; "" *)
(* stands for a word that is no command.                                   *)
Word(w) ==
  CASE w \in {"0", "back", "menu"}  -> ShowMenu("main")
    [] w \in Menus \ {"main"}       -> ShowMenu(w)
    [] w \in Pages                  -> ShowPage
    [] w = "dhcp"                   -> CmdDhcp
    [] w = "reset"                  -> CmdReset
    [] w = "reboot"                 -> Reboot
    [] w \in NeedsValues \cup {""}  -> Refuse

Words == {"0", "back", "menu", "dhcp", "reset", "reboot", ""}
         \cup (Menus \ {"main"}) \cup Pages \cup NeedsValues

(* What the menus print beside their numbers: the first word of each item. *)
Labels ==
  [m \in Menus |->
     CASE m = "main"           -> <<"info", "settings", "system">>
       [] m = "info"           -> <<"status", "summary", "show">>
       [] m = "settings"       -> <<"device-network", "local-broker", "peer-bridge">>
       [] m = "device-network" -> <<"mode", "ip", "dhcp">>
       [] m = "local-broker"   -> <<"broker-port", "broker-fallback-port",
                                    "broker-ip", "broker-state">>
       [] m = "peer-bridge"    -> <<"bridge-port", "peer", "defaults">>
       [] m = "system"         -> <<"reset", "reboot">>]

LastIndex == 4 \* the largest index of any menu

(* Mutant: the numbers of the system menu are exchanged. *)
SystemSwapped(i) == IF i = 1 THEN Reboot ELSE CmdReset

SystemIndex(i) == IF i = 1 THEN CmdReset ELSE Reboot

(* cmd_menu_index, for an index above 0.                                   *)
MenuIndex(i) ==
  CASE menu = "main" /\ i = 1            -> ShowMenu("info")
    [] menu = "main" /\ i = 2            -> ShowMenu("settings")
    [] menu = "main" /\ i = 3            -> ShowMenu("system")
    [] menu = "info" /\ i \in 1 .. 3     -> ShowPage
    [] menu = "settings" /\ i = 1        -> ShowMenu("device-network")
    [] menu = "settings" /\ i = 2        -> ShowMenu("local-broker")
    [] menu = "settings" /\ i = 3        -> ShowMenu("peer-bridge")
    [] menu = "device-network" /\ i \in 1 .. 2 -> ShowPage
    [] menu = "device-network" /\ i = 3  -> CmdDhcp
    [] menu = "local-broker" /\ i \in 1 .. 4 -> ShowPage
    [] menu = "peer-bridge" /\ i \in 1 .. 3  -> ShowPage
    [] menu = "system" /\ i \in 1 .. 2    -> SystemIndex(i)
    [] OTHER                             -> Refuse

OVERLONG == -1 \* stands for a word of too many digits

(* numeric_menu_command: the value of the digits, unless they are more     *)
(* than an int holds.  The overflow is undefined; what comes out may be an *)
(* index of the menu, one above the last, or (for 0 and below) no index.   *)
Indices(digits) == IF digits = OVERLONG THEN 0 .. (LastIndex + 1) ELSE {digits}

Number(digits) ==
  \E i \in Indices(digits) : IF i > 0 THEN MenuIndex(i) ELSE Refuse

----------------------------------------------------------------------------

(* console_thread starts with what product_config_init loaded. *)
Init ==
  /\ menu = "main" /\ output = "prompt" /\ requested = FALSE
  /\ ram = [k \in Keys |-> IF k = SETTINGS THEN Defaults ELSE NoPeer]
  /\ flash = ram /\ failed = {}

Optional(S) == S \cup {0}

Command ==
  \/ \E ip \in Texts, gw, mask \in Optional(Texts) : CmdIp(ip, gw, mask)
  \/ \E name \in Modes : CmdMode(name)
  \/ \E n \in Ports : CmdBrokerPort(n) \/ CmdBrokerFallbackPort(n) \/ CmdBridgePort(n)
  \/ \E ip \in Texts : CmdBrokerIp(ip)
  \/ \E mqtt, p2p \in Ports, ip \in Optional(Texts) : CmdBroker(mqtt, p2p, ip)
  \/ \E value \in Flags : CmdBrokerState(value)
  \/ \E i \in PeerIndices, host \in Texts, args \in PeerArguments : CmdPeer(i, host, args)
  \/ \E profile \in {"small", "other"} : CmdDefaults(profile)

Next ==
  \/ Command
  \/ \E w \in Words : Word(w)
  \/ \E digits \in 1 .. (LastIndex + 1) \cup {OVERLONG} : Number(digits)
  \/ Reboot

Spec == Init /\ [][Next]_vars

----------------------------------------------------------------------------
(* Properties                                                              *)

(* Whatever numbers are typed, wrapped by the casts or not, and whichever  *)
(* saves fail: RAM and flash hold records that validate.  A port or a flag *)
(* is cast before it is validated, so what is stored is what was checked.  *)
BothCopiesValid == \A k \in Keys : Valid(k, ram[k]) /\ Valid(k, flash[k])

(* "show" prints RAM under the title "Saved config".  Where RAM and flash  *)
(* differ, the last command about that record was answered with an error:  *)
(* a command repeated after a failed save is never answered OK unsaved.    *)
UnsavedIsKnown == \A k \in Keys : ram[k] # flash[k] => k \in failed

(* A number does what the command printed beside it does, or, if that      *)
(* command needs values, shows its usage and changes nothing; a number     *)
(* without an item changes nothing.  Two tables of the code say this.      *)
NumbersFollowLabels ==
  [][\A i \in 1 .. (LastIndex + 1) : MenuIndex(i) =>
       LET label == Labels[menu][i] IN
       IF i \notin DOMAIN Labels[menu] THEN Refuse
       ELSE Word(label) \/ (label \in NeedsValues /\ ShowPage)]_vars

(* A line answered with an error, a wipe that stopped half way included,   *)
(* leaves the settings that the next start will load, and the broker is    *)
(* requested only once the flash says that it is enabled.                  *)
ErrorKeepsSettings ==
  [][/\ output' = "err" => flash'[SETTINGS] = flash[SETTINGS]
     /\ requested' /\ ~requested => flash'[SETTINGS].enabled = 1]_vars
=============================================================================
