--------------------------- MODULE ConsoleProofs ---------------------------
(***************************************************************************)
(* Proofs about Console, for any sizes, any texts and any numbers typed.   *)
(*                                                                         *)
(* A line changes the configuration in one of three ways only, whatever    *)
(* the command: it stores one record (Store), it wipes all of them (Wipe), *)
(* or the device restarts.  The lemmas say what a command hands to Store;  *)
(* the invariant is then proved once for each way.                         *)
(***************************************************************************)
EXTENDS Console, TLAPS

(* What key k may hold. *)
Typed(k) == IF k = SETTINGS THEN Settings ELSE Peer

LEMMA KeyFacts ==
  /\ SETTINGS \in Keys /\ SETTINGS \notin Peers
  /\ Keys = Peers \cup {SETTINGS}
BY SizeAssumption DEF Keys, Peers, SETTINGS

(* A text that is cut fits; a number that is cast fits. *)
LEMMA CopiedFits ==
  ASSUME NEW t \in Nat PROVE Copied(t) \in Text
BY SizeAssumption DEF Copied, Text

LEMMA U16Fits ==
  ASSUME NEW n \in Int PROVE U16(n) \in Port
BY DEF U16, Port

LEMMA U8Fits ==
  ASSUME NEW n \in Int PROVE U8(n) \in 0 .. 255
BY DEF U8

(* A cleared peer and the defaults are records that validate. *)
LEMMA FreshFacts ==
  ASSUME NEW k \in Keys
  PROVE  /\ (IF k = SETTINGS THEN Defaults ELSE NoPeer) \in Typed(k)
         /\ Valid(k, IF k = SETTINGS THEN Defaults ELSE NoPeer)
<1>1. 0 \in Text
  BY SizeAssumption DEF Text
<1>2. NoPeer \in Peer /\ ValidPeer(NoPeer)
  BY <1>1 DEF NoPeer, Peer, Port, Bool, ValidPeer
<1>3. QED
  BY <1>2, DefaultsAssumption DEF Typed, Valid

----------------------------------------------------------------------------
(* What the commands store                                                 *)

(* A record that validates has its flags in range, so after the casts only *)
(* the flag of a peer needs the check to be typed.                         *)
LEMMA PeerFromType ==
  ASSUME NEW host \in Nat, NEW args \in Seq(Int), ValidPeer(PeerFrom(host, args))
  PROVE  PeerFrom(host, args) \in Peer
<1>1. 1883 \in Port /\ 4884 \in Port
  BY DEF Port
<1>2. Len(args) >= 1 => args[1] \in Int
  OBVIOUS
<1>3. Len(args) >= 2 => args[2] \in Int
  OBVIOUS
<1>4. QED
  BY <1>1, <1>2, <1>3, CopiedFits, U16Fits DEF PeerFrom, Peer, ValidPeer

(* One line stores record r under key k. *)
StoresTyped == \E k \in Keys : \E r \in Typed(k) : Save(k, r)

(* The ways in which a line can change the configuration. *)
Changes == StoresTyped \/ Wipe \/ Reboot \/ UNCHANGED config

(* What a line may show, and that it leaves a flag behind. *)
Answers ==
  /\ menu' \in Menus
  /\ output' \in Menus \cup {"prompt", "page", "ok", "err"}
  /\ requested' \in BOOLEAN

Effect == Changes /\ Answers

(* A record that is typed wherever it validates has that effect. *)
LEMMA StoreEffect ==
  ASSUME TypeOK, NEW k \in Keys, NEW r, Valid(k, r) => r \in Typed(k),
         Store(k, r), requested' \in BOOLEAN
  PROVE  Effect
<1>1. output' \in {"ok", "err"}
  BY DEF Store, Save
<1>2. menu' = menu
  BY DEF Store
<1>3. Answers
  BY <1>1, <1>2 DEF Answers, TypeOK
<1>4. CASE Save(k, r)
  <2>1. r \in Typed(k)
    BY <1>4 DEF Save
  <2>2. StoresTyped
    BY <1>4, <2>1 DEF StoresTyped
  <2>3. QED
    BY <1>3, <2>2 DEF Effect, Changes
<1>5. CASE UNCHANGED config
  BY <1>3, <1>5 DEF Effect, Changes
<1>6. QED
  BY <1>4, <1>5 DEF Store

LEMMA SettingsEffect ==
  ASSUME TypeOK, NEW s, ValidSettings(s) => s \in Settings, StoreSettings(s)
  PROVE  Effect
<1>1. Valid(SETTINGS, s) => s \in Typed(SETTINGS)
  BY DEF Valid, Typed
<1>2. Store(SETTINGS, s) /\ requested' \in BOOLEAN
  BY DEF StoreSettings, TypeOK
<1>3. QED
  BY <1>1, <1>2, KeyFacts, StoreEffect

(* Lines that change nothing but what is shown. *)
LEMMA ShowEffect ==
  ASSUME TypeOK, (\E m \in Menus : ShowMenu(m)) \/ ShowPage \/ Refuse
  PROVE  Effect
<1>1. UNCHANGED <<requested, config>>
  BY DEF ShowMenu, ShowPage, Refuse
<1>2. Answers
  BY DEF Answers, TypeOK, ShowMenu, ShowPage, Refuse
<1>3. QED
  BY <1>1, <1>2 DEF Effect, Changes

LEMMA WipeEffect ==
  ASSUME TypeOK, Wipe PROVE Effect
<1>1. menu' = menu /\ requested' = requested /\ output' \in {"ok", "err"}
  BY DEF Wipe
<1>2. QED
  BY <1>1 DEF Effect, Changes, Answers, TypeOK

LEMMA RebootEffect ==
  ASSUME Reboot PROVE Effect
BY DEF Reboot, Effect, Changes, Answers, Menus

----------------------------------------------------------------------------
(* The lines                                                               *)

LEMMA NetworkEffect ==
  ASSUME TypeOK,
         \/ \E ip \in Texts, gw, mask \in Optional(Texts) : CmdIp(ip, gw, mask)
         \/ \E name \in Modes : CmdMode(name)
         \/ CmdDhcp
  PROVE  Effect
<1>1. settings \in Settings
  BY DEF TypeOK, settings
<1>2. ASSUME NEW ip \in Texts, NEW gw \in Optional(Texts), NEW mask \in Optional(Texts),
             CmdIp(ip, gw, mask)
      PROVE  Effect
  <2>1. Copied(ip) \in Text /\ Copied(gw) \in Text /\ Copied(mask) \in Text
    BY CopiedFits, InputAssumption DEF Optional
  <2> DEFINE s == [settings EXCEPT !.ip = Copied(ip),
                                   !.gateway = IF gw = 0 THEN @ ELSE Copied(gw),
                                   !.dns = IF gw = 0 THEN @ ELSE Copied(gw),
                                   !.netmask = IF mask = 0 THEN @ ELSE Copied(mask),
                                   !.dhcp = 0]
  <2>2. s \in Settings
    BY <1>1, <2>1 DEF Settings, Bool
  <2>3. StoreSettings(s)
    BY <1>2 DEF CmdIp
  <2>4. QED
    BY <2>2, <2>3, SettingsEffect
<1>3. ASSUME NEW name \in Modes, CmdMode(name) PROVE Effect
  <2>1. CASE name \in {"auto", "eth"}
    <3>1. [settings EXCEPT !.mode = name] \in Settings
      BY <1>1, <2>1 DEF Settings
    <3>2. StoreSettings([settings EXCEPT !.mode = name])
      BY <1>3, <2>1 DEF CmdMode
    <3>3. QED
      BY <3>1, <3>2, SettingsEffect
  <2>2. CASE name \notin {"auto", "eth"}
    BY <1>3, <2>2, ShowEffect DEF CmdMode
  <2>3. QED
    BY <2>1, <2>2
<1>4. CASE CmdDhcp
  <2>1. [settings EXCEPT !.dhcp = 1] \in Settings
    BY <1>1 DEF Settings, Bool
  <2>2. QED
    BY <1>4, <2>1, SettingsEffect DEF CmdDhcp
<1>5. QED
  BY <1>2, <1>3, <1>4

LEMMA PortEffect ==
  ASSUME TypeOK, NEW n \in Ports,
         CmdBrokerPort(n) \/ CmdBrokerFallbackPort(n) \/ CmdBridgePort(n)
  PROVE  Effect
<1>1. settings \in Settings /\ U16(n) \in Port
  BY U16Fits, InputAssumption DEF TypeOK, settings
<1>2. /\ [settings EXCEPT !.mqtt = U16(n)] \in Settings
      /\ [settings EXCEPT !.fallback = U16(n)] \in Settings
      /\ [settings EXCEPT !.p2p = U16(n)] \in Settings
  BY <1>1 DEF Settings
<1>3. QED
  BY <1>2, SettingsEffect DEF CmdBrokerPort, CmdBrokerFallbackPort, CmdBridgePort

LEMMA BrokerEffect ==
  ASSUME TypeOK,
         \/ \E ip \in Texts : CmdBrokerIp(ip)
         \/ \E mqtt, p2p \in Ports, ip \in Optional(Texts) : CmdBroker(mqtt, p2p, ip)
  PROVE  Effect
<1>1. settings \in Settings
  BY DEF TypeOK, settings
<1>2. ASSUME NEW ip \in Texts, CmdBrokerIp(ip) PROVE Effect
  <2>1. Copied(ip) \in Text
    BY CopiedFits, InputAssumption
  <2>2. [settings EXCEPT !.brokerIp = Copied(ip)] \in Settings
    BY <1>1, <2>1 DEF Settings
  <2>3. QED
    BY <1>2, <2>2, SettingsEffect DEF CmdBrokerIp
<1>3. ASSUME NEW mqtt \in Ports, NEW p2p \in Ports, NEW ip \in Optional(Texts),
             CmdBroker(mqtt, p2p, ip)
      PROVE  Effect
  <2>1. U16(mqtt) \in Port /\ U16(p2p) \in Port /\ Copied(ip) \in Text
    BY CopiedFits, U16Fits, InputAssumption DEF Optional
  <2> DEFINE s == [settings EXCEPT !.mqtt = U16(mqtt), !.p2p = U16(p2p),
                                   !.brokerIp = IF ip = 0 THEN @ ELSE Copied(ip)]
  <2>2. s \in Settings
    BY <1>1, <2>1 DEF Settings
  <2>3. StoreSettings(s)
    BY <1>3 DEF CmdBroker
  <2>4. QED
    BY <2>2, <2>3, SettingsEffect
<1>4. QED
  BY <1>2, <1>3

LEMMA BrokerStateEffect ==
  ASSUME TypeOK, NEW value \in Flags, CmdBrokerState(value)
  PROVE  Effect
<1>1. CASE Refuse
  BY <1>1, ShowEffect
<1>2. CASE ~Refuse
  <2> DEFINE s == [settings EXCEPT !.enabled = value]
  <2>1. value \in Bool /\ Store(SETTINGS, s) /\ requested' \in BOOLEAN
    BY <1>2 DEF CmdBrokerState, RequestIfSaved
  <2>2. s \in Settings
    BY <2>1 DEF Settings, settings, TypeOK
  <2>3. Valid(SETTINGS, s) => s \in Typed(SETTINGS)
    BY <2>2 DEF Typed
  <2>4. QED
    BY <2>1, <2>3, KeyFacts, StoreEffect
<1>3. QED
  BY <1>1, <1>2

LEMMA PeerEffect ==
  ASSUME TypeOK, NEW i \in PeerIndices, NEW host \in Texts, NEW args \in PeerArguments,
         CmdPeer(i, host, args)
  PROVE  Effect
<1> DEFINE p == PeerFrom(host, args)
<1>1. CASE i \in Peers
  <2>1. host \in Nat /\ args \in Seq(Int)
    BY InputAssumption
  <2>2. i \in Keys /\ i # SETTINGS
    BY <1>1, KeyFacts
  <2>3. Valid(i, p) => p \in Typed(i)
    BY <2>1, <2>2, PeerFromType DEF Valid, Typed
  <2>4. Store(i, p) /\ requested' \in BOOLEAN
    BY <1>1 DEF CmdPeer, StorePeer, TypeOK
  <2>5. QED
    BY <2>2, <2>3, <2>4, StoreEffect
<1>2. CASE i \notin Peers
  BY <1>2, ShowEffect DEF CmdPeer
<1>3. QED
  BY <1>1, <1>2

LEMMA CommandEffect ==
  ASSUME TypeOK, Command PROVE Effect
<1>1. ASSUME NEW profile, CmdDefaults(profile) PROVE Effect
  BY <1>1, WipeEffect, ShowEffect DEF CmdDefaults
<1>2. QED
  BY <1>1, NetworkEffect, PortEffect, BrokerEffect, BrokerStateEffect, PeerEffect
  DEF Command

LEMMA WordEffect ==
  ASSUME TypeOK, NEW w \in Words, Word(w) PROVE Effect
<1>1. CASE w \in {"0", "back", "menu"}
  BY <1>1, ShowEffect DEF Word, Menus, Pages, NeedsValues
<1>2. CASE w \in Menus \ {"main"}
  BY <1>2, ShowEffect DEF Word, Menus, Pages, NeedsValues
<1>3. CASE w \in Pages
  BY <1>3, ShowEffect DEF Word, Menus, Pages, NeedsValues
<1>4. CASE w = "dhcp"
  BY <1>4, NetworkEffect DEF Word, Menus, Pages, NeedsValues
<1>5. CASE w = "reset"
  BY <1>5, WipeEffect DEF Word, Menus, Pages, NeedsValues, CmdReset
<1>6. CASE w = "reboot"
  BY <1>6, RebootEffect DEF Word, Menus, Pages, NeedsValues
<1>7. CASE w \in NeedsValues \cup {""}
  BY <1>7, ShowEffect DEF Word, Menus, Pages, NeedsValues
<1>8. QED
  BY <1>1, <1>2, <1>3, <1>4, <1>5, <1>6, <1>7 DEF Words

LEMMA NumberEffect ==
  ASSUME TypeOK, NEW digits, Number(digits) PROVE Effect
<1>1. PICK i \in Indices(digits) : IF i > 0 THEN MenuIndex(i) ELSE Refuse
  BY DEF Number
<1>2. CASE Refuse
  BY <1>2, ShowEffect
<1>3. CASE MenuIndex(i)
  <2>1. \/ (\E m \in Menus : ShowMenu(m)) \/ ShowPage \/ Refuse
        \/ CmdDhcp \/ SystemIndex(i)
    BY <1>3 DEF MenuIndex, Menus
  <2>2. QED
    BY <2>1, ShowEffect, NetworkEffect, WipeEffect, RebootEffect DEF SystemIndex, CmdReset
<1>4. QED
  BY <1>1, <1>2, <1>3

(* Every step of the console has one of these effects. *)
LEMMA NextEffect == TypeOK /\ Next => Effect
BY CommandEffect, WordEffect, NumberEffect, RebootEffect DEF Next

----------------------------------------------------------------------------
(* The inductive invariant                                                 *)

IInv == TypeOK /\ BothCopiesValid /\ UnsavedIsKnown

(* TypeOK of the configuration, key by key. *)
LEMMA TypedConfig ==
  TypeOK => \A k \in Keys : ram[k] \in Typed(k) /\ flash[k] \in Typed(k)
BY KeyFacts DEF TypeOK, Typed

LEMMA ConfigType ==
  ASSUME Answers, DOMAIN ram' = Keys, DOMAIN flash' = Keys, failed' \subseteq Keys,
         \A k \in Keys : ram'[k] \in Typed(k) /\ flash'[k] \in Typed(k)
  PROVE  TypeOK'
<1>1. \A k \in Peers : ram'[k] \in Peer /\ flash'[k] \in Peer
  BY KeyFacts DEF Typed
<1>2. ram'[SETTINGS] \in Settings /\ flash'[SETTINGS] \in Settings
  BY KeyFacts DEF Typed
<1>3. QED
  BY <1>1, <1>2 DEF TypeOK, Answers

LEMMA InitInv == Init => IInv
<1> SUFFICES ASSUME Init PROVE IInv
  OBVIOUS
<1>1. \A k \in Keys : ram[k] = (IF k = SETTINGS THEN Defaults ELSE NoPeer)
  BY DEF Init
<1>2. flash = ram
  BY DEF Init
<1>3. \A k \in Keys : ram[k] \in Typed(k) /\ Valid(k, ram[k])
  BY <1>1, FreshFacts
<1>4. \A k \in Peers : ram[k] \in Peer
  BY <1>3, KeyFacts DEF Typed
<1>5. ram[SETTINGS] \in Settings
  BY <1>3, KeyFacts DEF Typed
<1>6. TypeOK
  BY <1>2, <1>4, <1>5 DEF Init, TypeOK, Menus
<1>7. QED
  BY <1>2, <1>3, <1>6 DEF IInv, BothCopiesValid, UnsavedIsKnown

(* A save puts one valid record in RAM, and in flash or else on the list    *)
(* of the keys whose failure was shown.                                    *)
LEMMA SaveInv ==
  ASSUME IInv, Answers, NEW k \in Keys, NEW r \in Typed(k), Save(k, r)
  PROVE  IInv'
<1>1. Valid(k, r) /\ ram' = [ram EXCEPT ![k] = r]
  BY DEF Save
<1>2. DOMAIN ram = Keys /\ DOMAIN flash = Keys /\ failed \subseteq Keys
  BY DEF IInv, TypeOK
<1>3. /\ DOMAIN ram' = Keys
      /\ \A j \in Keys : ram'[j] = IF j = k THEN r ELSE ram[j]
  BY <1>1, <1>2
<1>4. /\ DOMAIN flash' = Keys
      /\ \/ flash' = flash /\ failed' = failed \cup {k}
         \/ /\ \A j \in Keys : flash'[j] = IF j = k THEN r ELSE flash[j]
            /\ failed' = failed \ {k}
  BY <1>2 DEF Save
<1>5. TypeOK'
  <2>1. \A j \in Keys : ram'[j] \in Typed(j) /\ flash'[j] \in Typed(j)
    BY <1>3, <1>4, TypedConfig DEF IInv
  <2>2. failed' \subseteq Keys
    BY <1>2, <1>4
  <2>3. QED
    BY <1>3, <1>4, <2>1, <2>2, ConfigType
<1>6. BothCopiesValid'
  BY <1>1, <1>3, <1>4 DEF IInv, BothCopiesValid, Valid
<1>7. UnsavedIsKnown'
  BY <1>3, <1>4 DEF IInv, UnsavedIsKnown
<1>8. QED
  BY <1>5, <1>6, <1>7 DEF IInv

(* A wipe leaves valid records, old or new, under every key of the flash;   *)
(* where it stopped half way every key counts as failed.                   *)
LEMMA WipeInv ==
  ASSUME IInv, Answers, Wipe PROVE IInv'
<1> DEFINE fresh == [k \in Keys |-> IF k = SETTINGS THEN Defaults ELSE NoPeer]
<1>1. PICK saved \in 0 .. (SETTINGS + 1) :
        /\ flash' = [k \in Keys |-> IF k \in SavedFirst(saved) THEN fresh[k] ELSE flash[k]]
        /\ IF saved > SETTINGS THEN output' = "ok" /\ failed' = {}
                               ELSE output' = "err" /\ failed' = Keys
  BY DEF Wipe
<1>2. ram' = fresh
  BY DEF Wipe
<1>3. \A k \in Keys : fresh[k] \in Typed(k) /\ Valid(k, fresh[k])
  BY FreshFacts
<1>4. \A k \in Keys : flash'[k] = fresh[k] \/ flash'[k] = flash[k]
  BY <1>1
<1>5. DOMAIN ram' = Keys /\ DOMAIN flash' = Keys
  BY <1>1, <1>2
<1>6. TypeOK'
  <2>1. \A k \in Keys : ram'[k] \in Typed(k) /\ flash'[k] \in Typed(k)
    BY <1>2, <1>3, <1>4, TypedConfig DEF IInv
  <2>2. failed' \subseteq Keys
    BY <1>1
  <2>3. QED
    BY <1>5, <2>1, <2>2, ConfigType
<1>7. BothCopiesValid'
  <2>1. \A k \in Keys : Valid(k, flash[k])
    BY DEF IInv, BothCopiesValid
  <2>2. \A k \in Keys : Valid(k, ram'[k]) /\ Valid(k, flash'[k])
    BY <1>2, <1>3, <1>4, <2>1
  <2>3. QED
    BY <2>2 DEF BothCopiesValid, Valid
<1>8. UnsavedIsKnown'
  <2>1. CASE saved > SETTINGS
    <3>1. Keys \subseteq SavedFirst(saved)
      BY <2>1, SizeAssumption DEF Keys, SavedFirst, SETTINGS
    <3>2. \A k \in Keys : flash'[k] = ram'[k]
      BY <1>1, <1>2, <3>1
    <3>3. QED
      BY <3>2 DEF UnsavedIsKnown
  <2>2. CASE ~(saved > SETTINGS)
    BY <1>1, <2>2 DEF UnsavedIsKnown
  <2>3. QED
    BY <2>1, <2>2
<1>9. QED
  BY <1>6, <1>7, <1>8 DEF IInv

(* A start loads what the flash holds. *)
LEMMA RebootInv ==
  ASSUME IInv, Answers, Reboot PROVE IInv'
<1>1. ram' = flash /\ flash' = flash /\ failed' = {}
  BY DEF Reboot
<1>2. TypeOK'
  BY <1>1, TypedConfig, ConfigType DEF IInv, TypeOK
<1>3. BothCopiesValid' /\ UnsavedIsKnown'
  BY <1>1 DEF IInv, BothCopiesValid, UnsavedIsKnown, Valid
<1>4. QED
  BY <1>2, <1>3 DEF IInv

LEMMA KeptInv ==
  ASSUME IInv, Answers, UNCHANGED config PROVE IInv'
<1>1. ram' = ram /\ flash' = flash /\ failed' = failed
  BY DEF config
<1>2. TypeOK'
  BY <1>1 DEF IInv, TypeOK, Answers
<1>3. BothCopiesValid' /\ UnsavedIsKnown'
  BY <1>1 DEF IInv, BothCopiesValid, UnsavedIsKnown, Valid
<1>4. QED
  BY <1>2, <1>3 DEF IInv

LEMMA StepInv == IInv /\ [Next]_vars => IInv'
<1> SUFFICES ASSUME IInv, [Next]_vars PROVE IInv'
  OBVIOUS
<1>1. CASE Next
  <2>1. Changes /\ Answers
    BY <1>1, NextEffect DEF IInv, Effect
  <2>2. QED
    BY <2>1, SaveInv, WipeInv, RebootInv, KeptInv DEF Changes, StoresTyped
<1>2. CASE UNCHANGED vars
  <2>1. Answers /\ UNCHANGED config
    BY <1>2 DEF vars, Answers, IInv, TypeOK
  <2>2. QED
    BY <2>1, KeptInv
<1>3. QED
  BY <1>1, <1>2

THEOREM ConsoleInvariant == Spec => []IInv
BY InitInv, StepInv, PTL DEF Spec

(* Whatever is typed, every variable keeps its type: no text outgrows its   *)
(* field and no port its 16 bits.                                          *)
THEOREM ConsoleTypeCorrect == Spec => []TypeOK
BY ConsoleInvariant, PTL DEF IInv

(* RAM and flash hold records that validate after any sequence of lines,    *)
(* failed saves and restarts.                                              *)
THEOREM BothCopiesValidTheorem == Spec => []BothCopiesValid
BY ConsoleInvariant, PTL DEF IInv

(* RAM and flash differ only where the last command was answered with a     *)
(* failed save.                                                            *)
THEOREM UnsavedIsKnownTheorem == Spec => []UnsavedIsKnown
BY ConsoleInvariant, PTL DEF IInv

----------------------------------------------------------------------------
(* Action properties                                                       *)

(* A line answered with an error keeps the settings in flash. *)
LEMMA ErrorStep ==
  ASSUME IInv, Next, output' = "err"
  PROVE  flash'[SETTINGS] = flash[SETTINGS]
<1>1. Changes
  BY NextEffect DEF IInv, Effect
<1>2. CASE StoresTyped
  BY <1>2 DEF StoresTyped, Save
<1>3. CASE Wipe
  <2>1. PICK saved \in 0 .. (SETTINGS + 1) :
          /\ flash' = [k \in Keys |-> IF k \in SavedFirst(saved)
                                      THEN (IF k = SETTINGS THEN Defaults ELSE NoPeer)
                                      ELSE flash[k]]
          /\ IF saved > SETTINGS THEN output' = "ok" ELSE output' = "err"
    BY <1>3 DEF Wipe
  <2>2. ~(saved > SETTINGS)
    BY <2>1
  <2>3. SETTINGS \notin SavedFirst(saved)
    BY <2>2, SizeAssumption DEF SavedFirst, SETTINGS
  <2>4. QED
    BY <2>1, <2>3, KeyFacts
<1>4. CASE Reboot
  BY <1>4 DEF Reboot
<1>5. CASE UNCHANGED config
  BY <1>5 DEF config
<1>6. QED
  BY <1>1, <1>2, <1>3, <1>4, <1>5 DEF Changes

(* Only broker-state asks for the broker, and only once the flash has it.   *)
LEMMA RequestStep ==
  ASSUME IInv, Next, requested', ~requested
  PROVE  flash'[SETTINGS].enabled = 1
<1>1. ASSUME NEW value \in Flags, CmdBrokerState(value)
      PROVE  flash'[SETTINGS].enabled = 1
  <2> DEFINE s == [settings EXCEPT !.enabled = value]
  <2>1. ~Refuse
    BY DEF Refuse
  <2>2. /\ Store(SETTINGS, s)
        /\ value = 1 /\ output' = "ok"
    BY <1>1, <2>1 DEF CmdBrokerState, RequestIfSaved
  <2>3. flash' = [flash EXCEPT ![SETTINGS] = s]
    BY <2>2 DEF Store, Save
  <2>4. flash'[SETTINGS] = s
    BY <2>3, KeyFacts DEF IInv, TypeOK
  <2>5. settings \in Settings
    BY DEF IInv, TypeOK, settings
  <2>6. QED
    BY <2>2, <2>4, <2>5 DEF Settings
<1>2. ~Refuse /\ ~ShowPage /\ ~Wipe /\ ~Reboot /\ \A m : ~ShowMenu(m)
  BY DEF Refuse, ShowPage, Wipe, Reboot, ShowMenu
<1>3. \A s : ~StoreSettings(s)
  BY DEF StoreSettings
<1>4. \A i, p : ~StorePeer(i, p)
  BY DEF StorePeer
<1>5. ~CmdDhcp
  BY <1>3 DEF CmdDhcp
<1>6. \A w \in Words : ~Word(w)
  BY <1>2, <1>5 DEF Word, Words, CmdReset
<1>7. \A d : ~Number(d)
  BY <1>2, <1>5 DEF Number, MenuIndex, SystemIndex, CmdReset
<1>8. PICK value \in Flags : CmdBrokerState(value)
  BY <1>2, <1>3, <1>4, <1>6, <1>7
  DEF Next, Command, CmdIp, CmdMode, CmdBrokerPort, CmdBrokerFallbackPort,
      CmdBridgePort, CmdBrokerIp, CmdBroker, CmdPeer, CmdDefaults
<1>9. QED
  BY <1>1, <1>8

(* A line answered with an error leaves the settings of the next start, and *)
(* the broker is requested only once they say that it is enabled.          *)
THEOREM ErrorKeepsSettingsTheorem == Spec => ErrorKeepsSettings
<1>1. IInv /\ [Next]_vars =>
        [/\ output' = "err" => flash'[SETTINGS] = flash[SETTINGS]
         /\ requested' /\ ~requested => flash'[SETTINGS].enabled = 1]_vars
  BY ErrorStep, RequestStep
<1>2. QED
  BY <1>1, ConsoleInvariant, PTL DEF Spec, ErrorKeepsSettings

(* What the words printed in the menus do. *)
LEMMA WordFacts ==
  /\ \A m \in Menus \ {"main"} : ShowMenu(m) => Word(m)
  /\ \A w \in Pages : ShowPage => Word(w)
  /\ CmdDhcp => Word("dhcp")
  /\ CmdReset => Word("reset")
  /\ Reboot => Word("reboot")
<1> USE DEF Menus, Pages, NeedsValues
<1>1. \A m \in Menus \ {"main"} : ShowMenu(m) => Word(m)
  BY DEF Word
<1>2. \A w \in Pages : ShowPage => Word(w)
  BY DEF Word
<1>3. CmdDhcp => Word("dhcp")
  BY DEF Word
<1>4. CmdReset => Word("reset")
  BY DEF Word
<1>5. Reboot => Word("reboot")
  BY DEF Word
<1>6. QED
  BY <1>1, <1>2, <1>3, <1>4, <1>5

(* What NumbersFollowLabels says of number i where the menu prints labels. *)
Follows(labels, i) ==
  IF i \notin DOMAIN labels THEN Refuse
  ELSE Word(labels[i]) \/ (labels[i] \in NeedsValues /\ ShowPage)

(* In each menu, each number does what is printed beside it. *)
LEMMA IndexFollowsLabel ==
  ASSUME menu \in Menus, NEW i \in 1 .. (LastIndex + 1), MenuIndex(i)
  PROVE  Follows(Labels[menu], i)
<1> USE WordFacts DEF LastIndex, Follows
<1>1. CASE menu = "main"
  <2>1. Labels[menu] = <<"info", "settings", "system">>
    BY <1>1 DEF Labels, Menus
  <2>2. QED
    BY <1>1, <2>1 DEF MenuIndex, Menus, Pages, NeedsValues
<1>2. CASE menu = "info"
  <2>1. Labels[menu] = <<"status", "summary", "show">>
    BY <1>2 DEF Labels, Menus
  <2>2. QED
    BY <1>2, <2>1 DEF MenuIndex, Menus, Pages, NeedsValues
<1>3. CASE menu = "settings"
  <2>1. Labels[menu] = <<"device-network", "local-broker", "peer-bridge">>
    BY <1>3 DEF Labels, Menus
  <2>2. QED
    BY <1>3, <2>1 DEF MenuIndex, Menus, Pages, NeedsValues
<1>4. CASE menu = "device-network"
  <2>1. Labels[menu] = <<"mode", "ip", "dhcp">>
    BY <1>4 DEF Labels, Menus
  <2>2. QED
    BY <1>4, <2>1 DEF MenuIndex, Menus, Pages, NeedsValues
<1>5. CASE menu = "local-broker"
  <2>1. Labels[menu] = <<"broker-port", "broker-fallback-port", "broker-ip",
                         "broker-state">>
    BY <1>5 DEF Labels, Menus
  <2>2. QED
    BY <1>5, <2>1 DEF MenuIndex, Menus, Pages, NeedsValues
<1>6. CASE menu = "peer-bridge"
  <2>1. Labels[menu] = <<"bridge-port", "peer", "defaults">>
    BY <1>6 DEF Labels, Menus
  <2>2. QED
    BY <1>6, <2>1 DEF MenuIndex, Menus, Pages, NeedsValues
<1>7. CASE menu = "system"
  <2>1. Labels[menu] = <<"reset", "reboot">>
    BY <1>7 DEF Labels, Menus
  <2>2. QED
    BY <1>7, <2>1 DEF MenuIndex, SystemIndex, Menus, Pages, NeedsValues
<1>8. QED
  BY <1>1, <1>2, <1>3, <1>4, <1>5, <1>6, <1>7 DEF Menus

(* A number does what the command printed beside it does, or shows its      *)
(* usage, or is refused where nothing is printed beside it.                *)
THEOREM NumbersFollowLabelsTheorem == Spec => NumbersFollowLabels
<1>1. IInv /\ [Next]_vars =>
        [\A i \in 1 .. (LastIndex + 1) : MenuIndex(i) =>
           LET label == Labels[menu][i] IN
           IF i \notin DOMAIN Labels[menu] THEN Refuse
           ELSE Word(label) \/ (label \in NeedsValues /\ ShowPage)]_vars
  BY IndexFollowsLabel DEF IInv, TypeOK, Follows
<1>2. QED
  BY <1>1, ConsoleInvariant, PTL DEF Spec, NumbersFollowLabels
============================================================================
