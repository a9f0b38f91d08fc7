------------------------ MODULE ProductConfigProofs ------------------------
(***************************************************************************)
(* Proofs about ProductConfig, for any set of threads, any number of peers *)
(* and any inputs.                                                         *)
(***************************************************************************)
EXTENDS ProductConfig, SequenceTheorems, TLAPS

(* The keys are natural numbers and the settings key is not a peer key. *)
LEMMA KeyFacts ==
  /\ Keys \subseteq Nat
  /\ SETTINGS_KEY \in Keys
  /\ PeerKeys \subseteq Keys
  /\ SETTINGS_KEY \notin PeerKeys
BY PeerMaxAssumption DEF Keys, PeerKeys, SETTINGS_KEY, PEER_KEY_BASE

LEMMA ValFacts == 0 \in Val /\ LEGACY_FALLBACK \in Val
BY DEF Val, LEGACY_FALLBACK

(* The records the code builds are records. *)
LEMMA RecordFacts ==
  /\ ZeroRecord \in Record
  /\ SmallDefaults \in Record
  /\ LargeText \in Val
<1>1. ZeroRecord \in Record
  BY ValFacts DEF ZeroRecord, Record
<1>2. QED
  BY <1>1, DefaultsAssumption

(* Loading any flash yields a record for every key. *)
LEMMA BootValueType ==
  ASSUME NEW f \in [Keys -> Stored], NEW k \in Keys
  PROVE  BootValue(k, f) \in Record
<1>1. /\ f[k] \in Stored
      /\ f[k].rec \in Record
  BY DEF Stored
<1>2. LegacySettings(f[k]) \in Record
  BY <1>1, ValFacts DEF LegacySettings, Record
<1>3. QED
  BY <1>1, <1>2, RecordFacts
  DEF BootValue, SettingsFrom, PeerFrom

(* Overwriting a field of a record with a value yields a record. *)
LEMMA PutType ==
  ASSUME NEW r \in Record, NEW f \in Fields, NEW v \in Val
  PROVE  Put(r, f, v) \in Record
BY DEF Put, Record, Fields

(* A record copy is three writes of its key. *)
LEMMA CopyFacts ==
  ASSUME NEW k \in Keys, NEW r \in Record
  PROVE  /\ Copy(k, r) \in Seq(Write)
         /\ Len(Copy(k, r)) = 3
         /\ \A i \in 1 .. 3 : Copy(k, r)[i].key = k /\ Copy(k, r)[i] \in Write
<1>1. /\ [key |-> k, field |-> "text", val |-> r.text] \in Write
      /\ [key |-> k, field |-> "port", val |-> r.port] \in Write
      /\ [key |-> k, field |-> "tail", val |-> r.tail] \in Write
  BY DEF Write, Fields, Record
<1>2. QED
  BY <1>1 DEF Copy

(* What every call hands to Begin: well-formed writes, each of a key that  *)
(* the call goes on to save.                                               *)
Planned(writes, saves) ==
  /\ writes \in Seq(Write)
  /\ saves \in SUBSET Keys
  /\ \A i \in 1 .. Len(writes) : writes[i].key \in saves

LEMMA CopyPlanned ==
  ASSUME NEW k \in Keys, NEW r \in Record, NEW saves \in SUBSET Keys, k \in saves
  PROVE  Planned(Copy(k, r), saves)
BY CopyFacts DEF Planned

(* Appending two plans for the same saves is a plan. *)
LEMMA PlannedConcat ==
  ASSUME NEW w1, NEW w2, NEW saves, Planned(w1, saves), Planned(w2, saves)
  PROVE  Planned(w1 \o w2, saves)
<1>1. w1 \o w2 \in Seq(Write)
  BY ConcatProperties DEF Planned
<1>2. ASSUME NEW i \in 1 .. Len(w1 \o w2)
      PROVE  (w1 \o w2)[i].key \in saves
  <2>1. CASE i <= Len(w1)
    BY <2>1, ConcatProperties DEF Planned
  <2>2. CASE i > Len(w1)
    <3>1. i - Len(w1) \in 1 .. Len(w2)
      BY <2>2, ConcatProperties, LenProperties DEF Planned
    <3>2. (w1 \o w2)[i] = w2[i - Len(w1)]
      BY <2>2, ConcatProperties, LenProperties DEF Planned
    <3>3. QED
      BY <3>1, <3>2 DEF Planned
  <2>3. QED
    BY <2>1, <2>2, ConcatProperties, LenProperties DEF Planned
<1>3. QED
  BY <1>1, <1>2 DEF Planned

(* Zeroing the peers writes peer keys only. *)
LEMMA ZeroPeersPlanned == Planned(ZeroPeers, Keys)
<1>1. PEER_MAX \in Nat
  BY PeerMaxAssumption DEF SETTINGS_KEY, PEER_KEY_BASE
<1>2. ASSUME NEW i \in 1 .. 3 * PEER_MAX
      PROVE  /\ ZeroPeers[i] \in Write
             /\ ZeroPeers[i].key \in Keys
  <2>1. /\ PEER_KEY_BASE + ((i - 1) \div 3) \in PeerKeys
        /\ 1 + ((i - 1) % 3) \in 1 .. 3
    BY <1>1 DEF PEER_KEY_BASE, PeerKeys
  <2> DEFINE k == PEER_KEY_BASE + ((i - 1) \div 3)
             j == 1 + ((i - 1) % 3)
  <2>2. ZeroPeers[i] = Copy(k, ZeroRecord)[j]
    BY DEF ZeroPeers
  <2>3. k \in Keys /\ j \in 1 .. 3
    BY <2>1, KeyFacts
  <2> HIDE DEF k, j
  <2>4. Copy(k, ZeroRecord)[j].key = k /\ Copy(k, ZeroRecord)[j] \in Write
    BY <2>3, CopyFacts, RecordFacts
  <2>5. QED
    BY <2>2, <2>3, <2>4
<1>3. /\ ZeroPeers \in Seq(Write)
      /\ Len(ZeroPeers) = 3 * PEER_MAX
  BY <1>1, <1>2 DEF ZeroPeers
<1>4. QED
  BY <1>2, <1>3 DEF Planned

LEMMA ResetPlanned ==
  /\ Planned(ZeroPeers \o SettingsDefaults, Keys)
  /\ Planned(ZeroPeers \o SettingsLargeDefaults, Keys)
<1>1. Planned(SettingsDefaults, Keys)
  BY CopyPlanned, PlannedConcat, RecordFacts, KeyFacts DEF SettingsDefaults
<1>2. Planned(<< [key |-> SETTINGS_KEY, field |-> "text", val |-> LargeText] >>, Keys)
  <2>1. [key |-> SETTINGS_KEY, field |-> "text", val |-> LargeText] \in Write
    BY RecordFacts, KeyFacts DEF Write, Fields
  <2>2. QED
    BY <2>1, KeyFacts DEF Planned
<1>3. Planned(SettingsLargeDefaults, Keys)
  BY <1>1, <1>2, PlannedConcat DEF SettingsLargeDefaults
<1>4. QED
  BY <1>1, <1>3, ZeroPeersPlanned, PlannedConcat

----------------------------------------------------------------------------
(* The inductive invariant                                                 *)

IInv == TypeOK /\ WritesAreOwed /\ Converged

(* A call that only begins leaves RAM and flash alone. *)
LEMMA BeginStep ==
  ASSUME IInv, NEW t \in Threads, NEW w, NEW s, Planned(w, s), Begin(t, w, s)
  PROVE  IInv'
<1>1. TypeOK'
  BY DEF IInv, TypeOK, Begin, Planned
<1>2. WritesAreOwed'
  BY DEF IInv, TypeOK, WritesAreOwed, Begin, Planned
<1>3. Converged'
  <2>1. ASSUME NEW k \in Keys, Owed(k) PROVE Owed(k)'
    BY <2>1 DEF IInv, TypeOK, Owed, Begin, Idle
  <2>2. ASSUME NEW k \in Keys PROVE InSync(k)' = InSync(k)
    BY DEF InSync, Begin
  <2>3. QED
    BY <2>1, <2>2 DEF IInv, Converged, Begin
<1>4. QED
  BY <1>1, <1>2, <1>3 DEF IInv

LEMMA CallStep ==
  ASSUME IInv, NEW t \in Threads, Call(t)
  PROVE  IInv'
<1>1. ASSUME NEW s \in SettingsInputs, SetSettings(t, s) PROVE IInv'
  <2>1. Planned(Copy(SETTINGS_KEY, s), {SETTINGS_KEY})
    BY CopyPlanned, KeyFacts, InputAssumption
  <2>2. QED
    BY <1>1, <2>1, BeginStep DEF SetSettings
<1>2. ASSUME NEW i \in -1 .. PEER_MAX, NEW p \in PeerInputs, SetPeer(t, i, p)
      PROVE  IInv'
  <2>1. PEER_KEY_BASE + i \in Keys
    BY <1>2, PeerMaxAssumption DEF SetPeer, Keys, PeerKeys, PEER_KEY_BASE, SETTINGS_KEY
  <2>2. Planned(Copy(PEER_KEY_BASE + i, p), {PEER_KEY_BASE + i})
    BY <2>1, CopyPlanned, InputAssumption
  <2>3. QED
    BY <1>2, <2>2, BeginStep DEF SetPeer
<1>3. CASE ResetAll(t)
  BY <1>3, BeginStep, ResetPlanned DEF ResetAll
<1>4. ASSUME NEW profile \in Profiles, ApplyDefaults(t, profile) PROVE IInv'
  BY <1>4, BeginStep, ResetPlanned DEF ApplyDefaults
<1>5. QED
  BY <1>1, <1>2, <1>3, <1>4 DEF Call

(* A field copy changes RAM for a key the call still has to save. *)
LEMMA CopyFieldStep ==
  ASSUME IInv, NEW t \in Threads, CopyField(t)
  PROVE  IInv'
<1> DEFINE ws == op[t].writes
           w == Head(ws)
<1>1. /\ ws \in Seq(Write) /\ ws # <<>>
      /\ w = ws[1] /\ w \in Write
      /\ 1 \in 1 .. Len(ws)
  BY HeadTailProperties DEF IInv, TypeOK, CopyField
<1>2. /\ Tail(ws) \in Seq(Write)
      /\ Len(Tail(ws)) = Len(ws) - 1
      /\ \A i \in 1 .. Len(Tail(ws)) : Tail(ws)[i] = ws[i + 1]
  BY <1>1, HeadTailProperties
<1>3. w.key \in Keys /\ w.field \in Fields /\ w.val \in Val
  BY <1>1 DEF Write
<1>4. op' = [op EXCEPT ![t].writes = Tail(ws)]
  BY DEF CopyField
<1>5. ram' = [ram EXCEPT ![w.key] = Put(ram[w.key], w.field, w.val)]
  BY DEF CopyField
<1>6. Owed(w.key)
  BY <1>1 DEF IInv, WritesAreOwed, Owed
<1>7. \A u \in Threads : op'[u].saves = op[u].saves
  BY <1>4 DEF IInv, TypeOK
<1> HIDE DEF ws, w
<1>8. TypeOK'
  <2>1. ram' \in [Keys -> Record]
    BY <1>3, <1>5, PutType DEF IInv, TypeOK
  <2>2. op' \in [Threads -> [writes : Seq(Write), saves : SUBSET Keys]]
    BY <1>2, <1>4 DEF IInv, TypeOK
  <2>3. torn' \in SUBSET Keys
    BY <1>3 DEF IInv, TypeOK, CopyField, Overlap, w, ws
  <2>4. QED
    BY <2>1, <2>2, <2>3 DEF IInv, TypeOK, CopyField
<1>9. WritesAreOwed'
  <2> SUFFICES ASSUME NEW u \in Threads, NEW i \in 1 .. Len(op'[u].writes)
               PROVE  op'[u].writes[i].key \in op'[u].saves
    BY DEF WritesAreOwed
  <2>1. CASE u = t
    <3>1. op'[u].writes = Tail(ws)
      BY <2>1, <1>4 DEF IInv, TypeOK
    <3>2. /\ i + 1 \in 1 .. Len(ws)
          /\ op'[u].writes[i] = ws[i + 1]
      BY <3>1, <1>1, <1>2, LenProperties
    <3>3. ws[i + 1].key \in op[t].saves
      BY <3>2 DEF IInv, WritesAreOwed, ws
    <3>4. QED
      BY <2>1, <3>2, <3>3, <1>7
  <2>2. CASE u # t
    BY <2>2, <1>4 DEF IInv, TypeOK, WritesAreOwed
  <2>3. QED
    BY <2>1, <2>2
<1>10. Converged'
  <2> SUFFICES ASSUME NEW k \in Keys
               PROVE  InSync(k)' \/ Owed(k)' \/ k \in stale'
    BY DEF Converged
  <2>1. Owed(k) => Owed(k)'
    BY <1>7 DEF Owed
  <2>2. CASE k = w.key
    BY <2>1, <2>2, <1>6
  <2>3. CASE k # w.key
    <3>1. ram'[k] = ram[k] /\ store'[k] = store[k] /\ stale' = stale
      BY <2>3, <1>5 DEF IInv, TypeOK, CopyField
    <3>2. InSync(k) => InSync(k)'
      BY <3>1 DEF InSync
    <3>3. QED
      BY <2>1, <3>1, <3>2 DEF IInv, Converged
  <2>4. QED
    BY <2>2, <2>3
<1>11. QED
  BY <1>8, <1>9, <1>10 DEF IInv

(* A save stores what RAM holds at that moment, whoever put it there. *)
LEMMA SaveKeyStep ==
  ASSUME IInv, NEW t \in Threads, NEW k \in Keys, SaveKey(t, k)
  PROVE  IInv'
<1>1. /\ op[t].writes = <<>>
      /\ op' = [op EXCEPT ![t].saves = op[t].saves \ {k}]
      /\ store' = [store EXCEPT ![k] = [form |-> "v2", rec |-> ram[k]]]
      /\ ram' = ram
      /\ stale' = stale \ {k}
  BY DEF SaveKey, NextSave
<1>2. \A u \in Threads : /\ op'[u].writes = op[u].writes
                         /\ op'[u].saves = IF u = t THEN op[u].saves \ {k} ELSE op[u].saves
  BY <1>1 DEF IInv, TypeOK
<1>3. TypeOK'
  <2>1. [form |-> "v2", rec |-> ram[k]] \in Stored
    BY DEF IInv, TypeOK, Stored
  <2>2. store' \in [Keys -> Stored]
    BY <1>1, <2>1 DEF IInv, TypeOK
  <2>3. op' \in [Threads -> [writes : Seq(Write), saves : SUBSET Keys]]
    BY <1>1 DEF IInv, TypeOK
  <2>4. loaded' \in BOOLEAN
    BY DEF SaveKey
  <2>5. QED
    BY <1>1, <2>2, <2>3, <2>4 DEF IInv, TypeOK, SaveKey, Overlap
<1>4. WritesAreOwed'
  <2> SUFFICES ASSUME NEW u \in Threads, NEW i \in 1 .. Len(op'[u].writes)
               PROVE  op'[u].writes[i].key \in op'[u].saves
    BY DEF WritesAreOwed
  <2>1. u # t
    BY <1>1, <1>2
  <2>2. QED
    BY <1>2, <2>1 DEF IInv, WritesAreOwed
<1>5. Converged'
  <2> SUFFICES ASSUME NEW j \in Keys
               PROVE  InSync(j)' \/ Owed(j)' \/ j \in stale'
    BY DEF Converged
  <2>1. CASE j = k
    BY <2>1, <1>1 DEF IInv, TypeOK, InSync, PeerFrom
  <2>2. CASE j # k
    <3>1. store'[j] = store[j]
      BY <2>2, <1>1 DEF IInv, TypeOK
    <3>2. InSync(j) => InSync(j)'
      BY <1>1, <3>1 DEF InSync
    <3>3. Owed(j) => Owed(j)'
      BY <1>2, <2>2 DEF Owed
    <3>4. QED
      BY <1>1, <2>2, <3>2, <3>3 DEF IInv, Converged
  <2>3. QED
    BY <2>1, <2>2
<1>6. QED
  BY <1>3, <1>4, <1>5 DEF IInv

(* A failed save gives up on its key and on the keys after it. *)
LEMMA SaveFailsStep ==
  ASSUME IInv, NEW t \in Threads, SaveFails(t)
  PROVE  IInv'
<1>1. /\ op' = [op EXCEPT ![t] = Idle]
      /\ stale' = stale \cup op[t].saves
      /\ UNCHANGED <<ram, store, loaded, torn>>
  BY DEF SaveFails
<1>2. \A u \in Threads : op'[u] = IF u = t THEN Idle ELSE op[u]
  BY <1>1 DEF IInv, TypeOK
<1>3. TypeOK'
  BY <1>1 DEF IInv, TypeOK, Idle
<1>4. WritesAreOwed'
  BY <1>2 DEF IInv, WritesAreOwed, Idle
<1>5. Converged'
  <2>1. ASSUME NEW k \in Keys PROVE InSync(k)' = InSync(k)
    BY <1>1 DEF InSync
  <2>2. ASSUME NEW k \in Keys, Owed(k) PROVE Owed(k)' \/ k \in stale'
    BY <1>1, <1>2, <2>2 DEF Owed
  <2>3. QED
    BY <1>1, <2>1, <2>2 DEF IInv, Converged
<1>6. QED
  BY <1>3, <1>4, <1>5 DEF IInv

(* A key the load does not mark as unsaved has the same value in RAM and   *)
(* in the flash it was read from.                                          *)
LEMMA LoadInSync ==
  ASSUME NEW f \in [Keys -> Stored], NEW k \in Keys, k \notin Unsaved(f)
  PROVE  IF k = SETTINGS_KEY
         THEN f[k] = [form |-> "v2", rec |-> BootValue(k, f)]
         ELSE PeerFrom(f[k]) = BootValue(k, f)
BY KeyFacts DEF Unsaved, BootValue, SettingsFrom, UsesCurrent, Stored

LEMMA RebootStep ==
  ASSUME IInv, Reboot
  PROVE  IInv'
<1> DEFINE s == store[SETTINGS_KEY]
<1>1. /\ op' = [t \in Threads |-> Idle]
      /\ torn' = torn
  BY DEF Reboot
<1>2. /\ store \in [Keys -> Stored]
      /\ s \in Stored
  BY KeyFacts DEF IInv, TypeOK
<1>3. op' \in [Threads -> [writes : Seq(Write), saves : SUBSET Keys]]
  BY <1>1 DEF Idle
<1>4. WritesAreOwed'
  BY <1>1 DEF WritesAreOwed, Idle
<1>5. CASE LoadConfig
  <2>1. /\ ram' = [k \in Keys |-> BootValue(k, store)]
        /\ loaded' \in BOOLEAN
        /\ stale' = Unsaved(store')
    BY <1>5 DEF LoadConfig, UsesCurrent, UsesLegacy
  <2>2. CASE store' = store
    <3>1. TypeOK'
      BY <1>1, <1>2, <1>3, <2>1, <2>2, BootValueType, KeyFacts DEF IInv, TypeOK, Unsaved
    <3>2. Converged'
      BY <1>2, <2>1, <2>2, LoadInSync DEF Converged, InSync
    <3>3. QED
      BY <3>1, <3>2, <1>4 DEF IInv
  <2>3. CASE /\ UsesLegacy(s)
             /\ store' = [store EXCEPT ![SETTINGS_KEY] =
                            [form |-> "v2", rec |-> LegacySettings(s)]]
    <3>1. ~UsesCurrent(s) /\ BootValue(SETTINGS_KEY, store) = LegacySettings(s)
      BY <2>3 DEF UsesLegacy, UsesCurrent, BootValue, SettingsFrom
    <3>2. [form |-> "v2", rec |-> LegacySettings(s)] \in Stored
      BY <1>2, <3>1, BootValueType, KeyFacts DEF Stored
    <3>3. store' \in [Keys -> Stored]
      BY <1>2, <2>3, <3>2
    <3>4. TypeOK'
      BY <1>1, <1>2, <1>3, <2>1, <3>3, BootValueType, KeyFacts DEF IInv, TypeOK, Unsaved
    <3>5. ASSUME NEW k \in Keys PROVE InSync(k)'
      <4>1. CASE k = SETTINGS_KEY
        BY <1>2, <2>1, <2>3, <3>1, <4>1 DEF InSync
      <4>2. CASE k # SETTINGS_KEY
        BY <1>2, <2>1, <2>3, <4>2 DEF InSync, BootValue
      <4>3. QED
        BY <4>1, <4>2
    <3>6. QED
      BY <3>4, <3>5, <1>4 DEF IInv, Converged
  <2>4. QED
    BY <1>5, <2>2, <2>3 DEF LoadConfig
<1>6. CASE LoadNothing
  <2>1. TypeOK'
    BY <1>1, <1>3, <1>6, RecordFacts DEF IInv, TypeOK, LoadNothing
  <2>2. Converged'
    BY <1>6 DEF Converged, LoadNothing
  <2>3. QED
    BY <2>1, <2>2, <1>4 DEF IInv
<1>7. QED
  BY <1>5, <1>6 DEF Reboot

----------------------------------------------------------------------------
(* The theorems                                                            *)

LEMMA InitIInv == Init => IInv
<1> SUFFICES ASSUME Init PROVE IInv
  OBVIOUS
<1>1. store \in [Keys -> Stored]
  BY FlashAssumption DEF Init
<1>2. TypeOK
  BY <1>1, BootValueType, KeyFacts DEF Init, TypeOK, Idle, Unsaved, UsesCurrent, UsesLegacy
<1>3. WritesAreOwed
  BY DEF Init, WritesAreOwed, Idle
<1>4. Converged
  BY <1>1, LoadInSync DEF Init, Converged, InSync
<1>5. QED
  BY <1>2, <1>3, <1>4 DEF IInv

LEMMA NextIInv == IInv /\ [Next]_vars => IInv'
<1> SUFFICES ASSUME IInv, [Next]_vars PROVE IInv'
  OBVIOUS
<1>1. CASE UNCHANGED vars
  BY <1>1 DEF vars, IInv, TypeOK, WritesAreOwed, Converged, InSync, Owed
<1>2. CASE Next
  BY <1>2, CallStep, CopyFieldStep, SaveKeyStep, SaveFailsStep, RebootStep DEF Next
<1>3. QED
  BY <1>1, <1>2

(* The variables keep their types: in particular a call never saves a key  *)
(* outside the store's range, for any number of peers.                     *)
THEOREM TypeCorrect == Spec => []TypeOK
<1>1. IInv => TypeOK
  BY DEF IInv
<1>2. QED
  BY <1>1, InitIInv, NextIInv, PTL DEF Spec

(* RAM and flash agree on every key that no call has still to save and     *)
(* whose last save did not fail, whatever the interleaving of the callers  *)
(* and wherever the power failed.                                          *)
THEOREM ConvergedTheorem == Spec => []Converged
<1>1. IInv => Converged
  BY DEF IInv
<1>2. QED
  BY <1>1, InitIInv, NextIInv, PTL DEF Spec

(* Any flash content at all boots into settings that validate. *)
LEMMA BootValid ==
  ASSUME NEW f \in [Keys -> Stored]
  PROVE  ValidSettings(BootValue(SETTINGS_KEY, f))
BY DefaultsAssumption DEF BootValue, SettingsFrom, UsesCurrent, UsesLegacy

(* Whatever was left in flash, the device restarts with valid settings. *)
THEOREM BootsToValidSettingsTheorem == Spec => []BootsToValidSettings
<1>1. IInv => BootsToValidSettings
  BY BootValid DEF IInv, TypeOK, BootsToValidSettings
<1>2. QED
  BY <1>1, InitIInv, NextIInv, PTL DEF Spec

----------------------------------------------------------------------------
(* ProductConfig implements PersistentConfig                               *)

NextValues == [k \in Keys |-> BootValue(k, store)]
DirtyKeys == stale \cup {k \in Keys : Owed(k)}
DefaultValues == [k \in Keys |-> IF k = SETTINGS_KEY THEN SmallDefaults ELSE ZeroRecord]

(* A start ignores whether the conversion of an old record was saved. *)
LEMMA ConversionInvisible ==
  ASSUME NEW f \in [Keys -> Stored], UsesLegacy(f[SETTINGS_KEY]),
         NEW g, g = [f EXCEPT ![SETTINGS_KEY] =
                       [form |-> "v2", rec |-> LegacySettings(f[SETTINGS_KEY])]],
         NEW k \in Keys
  PROVE  BootValue(k, g) = BootValue(k, f)
<1>1. CASE k = SETTINGS_KEY
  BY <1>1, KeyFacts DEF BootValue, SettingsFrom, UsesCurrent, UsesLegacy
<1>2. CASE k # SETTINGS_KEY
  BY <1>2, KeyFacts DEF BootValue
<1>3. QED
  BY <1>1, <1>2

LEMMA InitPromise == Init => Promise!Init
<1> SUFFICES ASSUME Init PROVE Promise!Init
  OBVIOUS
<1>1. IInv
  BY InitIInv
<1>2. ram \in [Keys -> Record] /\ ram = NextValues
  BY <1>1 DEF IInv, TypeOK, Init, NextValues
<1>3. DirtyKeys \in SUBSET Keys
  BY <1>1 DEF IInv, TypeOK, DirtyKeys
<1>4. QED
  BY <1>2, <1>3 DEF Promise!Init, NextValues, DirtyKeys

(* A step that leaves RAM and flash alone and adds dirty keys is a Mark. *)
LEMMA MarkStep ==
  ASSUME UNCHANGED <<ram, store>>, DirtyKeys \subseteq DirtyKeys'
  PROVE  Promise!Next
<1>1. NextValues' = NextValues
  BY DEF NextValues, BootValue
<1>2. Promise!Mark
  BY <1>1 DEF Promise!Mark, NextValues, DirtyKeys
<1>3. QED
  BY <1>2 DEF Promise!Next

LEMMA BeginPromise ==
  ASSUME IInv, NEW t \in Threads, NEW w, NEW s, Begin(t, w, s)
  PROVE  Promise!Next
<1>1. ASSUME NEW k \in Keys, Owed(k) PROVE Owed(k)'
  BY <1>1 DEF IInv, TypeOK, Owed, Begin, Idle
<1>2. DirtyKeys \subseteq DirtyKeys'
  BY <1>1 DEF DirtyKeys, Begin
<1>3. QED
  BY <1>2, MarkStep DEF Begin

LEMMA CallPromise ==
  ASSUME IInv, NEW t \in Threads, Call(t)
  PROVE  Promise!Next
BY BeginPromise DEF Call, SetSettings, SetPeer, ResetAll, ApplyDefaults

LEMMA CopyFieldPromise ==
  ASSUME IInv, NEW t \in Threads, CopyField(t)
  PROVE  Promise!Next
<1> DEFINE w == Head(op[t].writes)
<1>1. w.key \in Keys /\ Owed(w.key)
  <2>1. op[t].writes \in Seq(Write) /\ op[t].writes # <<>>
    BY DEF IInv, TypeOK, CopyField
  <2>2. w = op[t].writes[1] /\ w \in Write /\ 1 \in 1 .. Len(op[t].writes)
    BY <2>1, HeadTailProperties
  <2>3. QED
    BY <2>2 DEF IInv, WritesAreOwed, Owed, Write
<1>2. \A u \in Threads : op'[u].saves = op[u].saves
  BY DEF IInv, TypeOK, CopyField
<1>3. \A k \in Keys : Owed(k)' <=> Owed(k)
  BY <1>2 DEF Owed
<1>4. DirtyKeys' = DirtyKeys
  BY <1>3 DEF DirtyKeys, CopyField
<1>5. NextValues' = NextValues
  BY DEF NextValues, BootValue, CopyField
<1>6. \A j \in Keys \ {w.key} : ram'[j] = ram[j]
  BY DEF IInv, TypeOK, CopyField
<1>7. w.key \in DirtyKeys
  BY <1>1 DEF DirtyKeys
<1> HIDE DEF w
<1>8. Promise!Change(w.key)
  BY <1>4, <1>5, <1>6, <1>7 DEF Promise!Change, DirtyKeys, NextValues
<1>9. QED
  BY <1>1, <1>8 DEF Promise!Next

LEMMA SaveKeyPromise ==
  ASSUME IInv, NEW t \in Threads, NEW k \in Keys, SaveKey(t, k)
  PROVE  Promise!Next
<1>1. /\ op' = [op EXCEPT ![t].saves = op[t].saves \ {k}]
      /\ store' = [store EXCEPT ![k] = [form |-> "v2", rec |-> ram[k]]]
      /\ ram' = ram
      /\ stale' = stale \ {k}
  BY DEF SaveKey
<1>2. \A u \in Threads : op'[u].saves = IF u = t THEN op[u].saves \ {k} ELSE op[u].saves
  BY <1>1 DEF IInv, TypeOK
<1>3. \A j \in Keys \ {k} : Owed(j)' <=> Owed(j)
  BY <1>2 DEF Owed
<1>4. Owed(k)
  BY DEF SaveKey, NextSave, Owed
<1>5. DirtyKeys' \in {DirtyKeys, DirtyKeys \ {k}}
  <2>1. CASE Owed(k)'
    BY <1>1, <1>3, <1>4, <2>1 DEF DirtyKeys
  <2>2. CASE ~Owed(k)'
    BY <1>1, <1>3, <2>2 DEF DirtyKeys
  <2>3. QED
    BY <2>1, <2>2
<1>6. NextValues' = [NextValues EXCEPT ![k] =
                       IF UsableAtStart(k, ram[k]) THEN ram[k] ELSE DefaultValues[k]]
  <2>1. store \in [Keys -> Stored]
    BY DEF IInv, TypeOK
  <2>2. ASSUME NEW j \in Keys, j # k PROVE BootValue(j, store') = BootValue(j, store)
    BY <1>1, <2>1, <2>2, KeyFacts DEF BootValue
  <2>3. BootValue(k, store') = IF UsableAtStart(k, ram[k]) THEN ram[k] ELSE DefaultValues[k]
    <3>1. store'[k] = [form |-> "v2", rec |-> ram[k]]
      BY <1>1, <2>1
    <3>2. CASE k = SETTINGS_KEY
      BY <3>1, <3>2 DEF BootValue, SettingsFrom, UsesCurrent, UsesLegacy,
                        UsableAtStart, DefaultValues
    <3>3. CASE k # SETTINGS_KEY
      BY <3>1, <3>3 DEF BootValue, PeerFrom, UsableAtStart
    <3>4. QED
      BY <3>2, <3>3
  <2>4. QED
    BY <2>2, <2>3 DEF NextValues
<1>7. Promise!Flush(k)
  BY <1>1, <1>5, <1>6 DEF Promise!Flush, NextValues, DirtyKeys, DefaultValues
<1>8. QED
  BY <1>7 DEF Promise!Next

LEMMA SaveFailsPromise ==
  ASSUME IInv, NEW t \in Threads, SaveFails(t)
  PROVE  Promise!Next
<1>1. /\ op' = [op EXCEPT ![t] = Idle]
      /\ stale' = stale \cup op[t].saves
      /\ UNCHANGED <<ram, store>>
  BY DEF SaveFails
<1>2. \A u \in Threads : op'[u] = IF u = t THEN Idle ELSE op[u]
  BY <1>1 DEF IInv, TypeOK
<1>3. ASSUME NEW k \in Keys, Owed(k) PROVE Owed(k)' \/ k \in stale'
  BY <1>1, <1>2, <1>3 DEF Owed
<1>4. DirtyKeys \subseteq DirtyKeys'
  BY <1>1, <1>3 DEF DirtyKeys
<1>5. QED
  BY <1>1, <1>4, MarkStep

LEMMA RebootPromise ==
  ASSUME IInv, Reboot
  PROVE  Promise!Next
<1>1. store \in [Keys -> Stored]
  BY DEF IInv, TypeOK
<1>2. \A k \in Keys : ~Owed(k)'
  BY DEF Reboot, Owed, Idle
<1>3. CASE LoadConfig
  <2>1. ram' = NextValues
    BY <1>3 DEF LoadConfig, NextValues
  <2>2. NextValues' = NextValues
    <3>1. CASE store' = store
      BY <3>1 DEF NextValues, BootValue
    <3>2. CASE store' # store
      BY <1>1, <1>3, <3>2, ConversionInvisible DEF LoadConfig, NextValues
    <3>3. QED
      BY <3>1, <3>2
  <2>3. Promise!Restart
    BY <2>1, <2>2 DEF Promise!Restart, NextValues
  <2>4. QED
    BY <2>3 DEF Promise!Next
<1>4. CASE LoadNothing
  <2>1. ram' = DefaultValues /\ DirtyKeys' = Keys /\ NextValues' = NextValues
    BY <1>2, <1>4 DEF LoadNothing, DefaultValues, DirtyKeys, NextValues, BootValue
  <2>2. Promise!Restart
    BY <2>1 DEF Promise!Restart, DefaultValues, DirtyKeys, NextValues
  <2>3. QED
    BY <2>2 DEF Promise!Next
<1>5. QED
  BY <1>3, <1>4 DEF Reboot

(* The multi-step calls, interleaved in any way, cut by any power loss and *)
(* with any save failing, implement the promise.                           *)
THEOREM Implements == Spec => KeepsPromise
<1>1. IInv /\ [Next]_vars => [Promise!Next]_Promise!vars
  <2> SUFFICES ASSUME IInv, [Next]_vars PROVE [Promise!Next]_Promise!vars
    OBVIOUS
  <2>1. CASE UNCHANGED vars
    <3>1. NextValues' = NextValues /\ DirtyKeys' = DirtyKeys /\ ram' = ram
      BY <2>1 DEF vars, NextValues, DirtyKeys, Owed, BootValue
    <3>2. QED
      BY <3>1 DEF Promise!vars, NextValues, DirtyKeys
  <2>2. CASE Next
    BY <2>2, CallPromise, CopyFieldPromise, SaveKeyPromise, SaveFailsPromise,
       RebootPromise DEF Next
  <2>3. QED
    BY <2>1, <2>2
<1>2. QED
  BY <1>1, InitIInv, NextIInv, InitPromise, PTL DEF Spec, KeepsPromise, Promise!Spec

----------------------------------------------------------------------------
(* A call on its own ends in a record that validates                       *)

IsTo(w, k, f) == w.key = k /\ w.field = f

(* The writes ws leave v in field f of key k. *)
LastSets(ws, k, f, v) ==
  \E i \in 1 .. Len(ws) :
    IsTo(ws[i], k, f) /\ \A j \in i .. Len(ws) : IsTo(ws[j], k, f) => ws[j].val = v

Untouched(ws, k, f) == \A i \in 1 .. Len(ws) : ~IsTo(ws[i], k, f)

(* The writes ws turn the record old of key k into r. *)
Yields(ws, k, old, r) ==
  \A f \in Fields : \/ LastSets(ws, k, f, r[f])
                    \/ Untouched(ws, k, f) /\ old[f] = r[f]

(* They turn every record of key k into r. *)
Leaves(ws, k, r) == \A f \in Fields : LastSets(ws, k, f, r[f])

(* The rest of a call's copy completes a record that validates, and nobody *)
(* has overwritten the part that is done.                                  *)
Settled ==
  \A k \in Keys \ torn : \A t \in Threads :
    Writing(t, k) => \E r \in Record : Valid(k, r) /\ Yields(op[t].writes, k, ram[k], r)

(* What ValidUnlessTorn says of one record. *)
FitsRam(k, r) == Valid(k, r) \/ (k # SETTINGS_KEY /\ Original(k, r))
FitsFlash(k, r) == Valid(k, r) \/ Original(k, r)

LEMMA RamFitsFlash == \A k, r : FitsRam(k, r) => FitsFlash(k, r)
BY DEF FitsRam, FitsFlash

VInv == IInv /\ Settled /\ ValidUnlessTorn

LEMMA ConcatIndex ==
  ASSUME NEW w1 \in Seq(Write), NEW w2 \in Seq(Write)
  PROVE  /\ w1 \o w2 \in Seq(Write)
         /\ Len(w1) \in Nat /\ Len(w2) \in Nat /\ Len(w1 \o w2) = Len(w1) + Len(w2)
         /\ \A i \in 1 .. Len(w1) : (w1 \o w2)[i] = w1[i]
         /\ \A i \in 1 .. Len(w2) : (w1 \o w2)[Len(w1) + i] = w2[i]
         /\ \A i \in 1 .. Len(w1 \o w2) : i > Len(w1) =>
              i - Len(w1) \in 1 .. Len(w2) /\ (w1 \o w2)[i] = w2[i - Len(w1)]
BY ConcatProperties, LenProperties

(* The second of two sequences of writes decides. *)
LEMMA LastOfSecond ==
  ASSUME NEW w1 \in Seq(Write), NEW w2 \in Seq(Write), NEW k, NEW f, NEW v,
         LastSets(w2, k, f, v)
  PROVE  LastSets(w1 \o w2, k, f, v)
<1> DEFINE ws == w1 \o w2
           n == Len(w1)
<1>1. PICK i \in 1 .. Len(w2) :
        IsTo(w2[i], k, f) /\ \A j \in i .. Len(w2) : IsTo(w2[j], k, f) => w2[j].val = v
  BY DEF LastSets
<1>2. n + i \in 1 .. Len(ws) /\ IsTo(ws[n + i], k, f)
  BY <1>1, ConcatIndex
<1>3. ASSUME NEW j \in (n + i) .. Len(ws), IsTo(ws[j], k, f) PROVE ws[j].val = v
  <2>1. j > n /\ j \in 1 .. Len(ws) /\ n \in Nat
    BY ConcatIndex
  <2>2. j - n \in 1 .. Len(w2) /\ ws[j] = w2[j - n]
    BY <2>1, ConcatIndex
  <2>3. j - n \in i .. Len(w2)
    BY <2>1, <2>2
  <2> QED BY <1>1, <1>3, <2>2, <2>3
<1> HIDE DEF ws, n
<1>4. LastSets(ws, k, f, v)
  BY <1>2, <1>3 DEF LastSets
<1> QED BY <1>4 DEF ws

(* Where it writes nothing, the first does. *)
LEMMA LastOfFirst ==
  ASSUME NEW w1 \in Seq(Write), NEW w2 \in Seq(Write), NEW k, NEW f, NEW v,
         LastSets(w1, k, f, v), Untouched(w2, k, f)
  PROVE  LastSets(w1 \o w2, k, f, v)
<1> DEFINE ws == w1 \o w2
           n == Len(w1)
<1>1. PICK i \in 1 .. n :
        IsTo(w1[i], k, f) /\ \A j \in i .. n : IsTo(w1[j], k, f) => w1[j].val = v
  BY DEF LastSets
<1>2. i \in 1 .. Len(ws) /\ IsTo(ws[i], k, f)
  BY <1>1, ConcatIndex
<1>3. ASSUME NEW j \in i .. Len(ws), IsTo(ws[j], k, f) PROVE ws[j].val = v
  <2>1. j \in 1 .. Len(ws) /\ n \in Nat
    BY ConcatIndex
  <2>2. ~(j > n)
    BY <1>3, <2>1, ConcatIndex DEF Untouched
  <2>3. j \in i .. n /\ ws[j] = w1[j]
    BY <2>1, <2>2, ConcatIndex
  <2> QED BY <1>1, <1>3, <2>3
<1> HIDE DEF ws, n
<1>4. LastSets(ws, k, f, v)
  BY <1>2, <1>3 DEF LastSets
<1> QED BY <1>4 DEF ws

(* What the first field copy leaves of a copy that is under way. *)
LEMMA RestYields ==
  ASSUME NEW ws \in Seq(Write), ws # <<>>, NEW k, NEW old \in Record, NEW r \in Record,
         Yields(ws, k, old, r), NEW new \in Record,
         new = IF Head(ws).key = k THEN Put(old, Head(ws).field, Head(ws).val) ELSE old
  PROVE  Yields(Tail(ws), k, new, r)
<1> DEFINE tl == Tail(ws)
<1>1. /\ tl \in Seq(Write) /\ Len(ws) \in Nat /\ Len(tl) = Len(ws) - 1
      /\ \A i \in 1 .. Len(tl) : i + 1 \in 1 .. Len(ws) /\ tl[i] = ws[i + 1]
      /\ \A i \in 2 .. Len(ws) : i - 1 \in 1 .. Len(tl) /\ tl[i - 1] = ws[i]
      /\ Head(ws) = ws[1] /\ ws[1] \in Write /\ 1 \in 1 .. Len(ws)
  BY HeadTailProperties, LenProperties
<1> HIDE DEF tl
<1> SUFFICES ASSUME NEW f \in Fields
             PROVE  \/ LastSets(tl, k, f, r[f])
                    \/ Untouched(tl, k, f) /\ new[f] = r[f]
  BY DEF Yields, tl
<1>2. IsTo(ws[1], k, f) => new[f] = ws[1].val
  BY <1>1 DEF IsTo, Put, Fields, Record
<1>3. ~IsTo(ws[1], k, f) => new[f] = old[f]
  BY <1>1 DEF IsTo, Put, Fields, Record, Write
<1>4. CASE LastSets(ws, k, f, r[f])
  <2>1. PICK i \in 1 .. Len(ws) :
          IsTo(ws[i], k, f) /\ \A j \in i .. Len(ws) : IsTo(ws[j], k, f) => ws[j].val = r[f]
    BY <1>4 DEF LastSets
  <2>2. ASSUME NEW m \in 2 .. Len(ws), m >= i, IsTo(ws[m], k, f)
        PROVE  LastSets(tl, k, f, r[f])
    <3>1. m - 1 \in 1 .. Len(tl) /\ IsTo(tl[m - 1], k, f)
      BY <1>1, <2>2
    <3>2. ASSUME NEW j \in (m - 1) .. Len(tl), IsTo(tl[j], k, f) PROVE tl[j].val = r[f]
      <4>1. j \in 1 .. Len(tl)
        BY <1>1
      <4>2. j + 1 \in i .. Len(ws)
        BY <1>1, <2>2, <4>1
      <4> QED BY <1>1, <2>1, <3>2, <4>1, <4>2
    <3> QED BY <3>1, <3>2 DEF LastSets
  <2>3. CASE i # 1
    BY <1>1, <2>1, <2>2, <2>3
  <2>4. CASE i = 1 /\ ~Untouched(tl, k, f)
    <3>1. PICK j \in 1 .. Len(tl) : IsTo(tl[j], k, f)
      BY <2>4 DEF Untouched
    <3>2. j + 1 \in 2 .. Len(ws) /\ j + 1 >= i /\ IsTo(ws[j + 1], k, f)
      BY <1>1, <2>4, <3>1
    <3> QED BY <2>2, <3>2
  <2>5. CASE i = 1 /\ Untouched(tl, k, f)
    <3>1. ws[1].val = r[f]
      BY <1>1, <2>1, <2>5
    <3> QED BY <1>2, <2>1, <2>5, <3>1
  <2> QED BY <2>3, <2>4, <2>5
<1>5. CASE Untouched(ws, k, f) /\ old[f] = r[f]
  BY <1>1, <1>3, <1>5 DEF Untouched
<1> QED BY <1>4, <1>5 DEF Yields

LEMMA CopyLeaves ==
  ASSUME NEW k \in Keys, NEW r \in Record
  PROVE  Leaves(Copy(k, r), k, r)
<1> DEFINE c == Copy(k, r)
<1>1. /\ Len(c) = 3
      /\ c[1] = [key |-> k, field |-> "text", val |-> r.text]
      /\ c[2] = [key |-> k, field |-> "port", val |-> r.port]
      /\ c[3] = [key |-> k, field |-> "tail", val |-> r.tail]
  BY DEF Copy
<1> HIDE DEF c
<1>2. /\ c[1].key = k /\ c[1].field = "text" /\ c[1].val = r["text"]
      /\ c[2].key = k /\ c[2].field = "port" /\ c[2].val = r["port"]
      /\ c[3].key = k /\ c[3].field = "tail" /\ c[3].val = r["tail"]
  BY <1>1
<1>3. \A i \in 1 .. 3, f \in Fields : IsTo(c[i], k, f) => c[i].val = r[f]
  <2> SUFFICES ASSUME NEW i \in 1 .. 3, NEW f \in Fields, IsTo(c[i], k, f)
               PROVE  c[i].val = r[f]
    OBVIOUS
  <2>1. i = 1 \/ i = 2 \/ i = 3
    OBVIOUS
  <2> QED BY <1>2, <2>1 DEF IsTo, Fields
<1>4. \A f \in Fields : \E i \in 1 .. 3 : IsTo(c[i], k, f)
  BY <1>2 DEF IsTo, Fields
<1>5. ASSUME NEW f \in Fields PROVE LastSets(c, k, f, r[f])
  <2>1. PICK i \in 1 .. 3 : IsTo(c[i], k, f)
    BY <1>4
  <2>2. \A j \in i .. 3 : j \in 1 .. 3
    OBVIOUS
  <2> QED BY <1>1, <1>3, <2>1, <2>2 DEF LastSets
<1> QED BY <1>5 DEF Leaves, c

LEMMA LeavesConcat ==
  ASSUME NEW w1 \in Seq(Write), NEW w2 \in Seq(Write), NEW k, NEW r
  PROVE  /\ Leaves(w2, k, r) => Leaves(w1 \o w2, k, r)
         /\ Leaves(w1, k, r) /\ (\A f \in Fields : Untouched(w2, k, f))
              => Leaves(w1 \o w2, k, r)
BY LastOfSecond, LastOfFirst DEF Leaves

(* memset leaves every peer zero. *)
LEMMA ZeroPeersLeaves ==
  ASSUME NEW k \in PeerKeys
  PROVE  Leaves(ZeroPeers, k, ZeroRecord)
<1> DEFINE z == ZeroPeers
<1>1. PEER_MAX \in Nat /\ k \in Nat /\ k >= 1 /\ k <= PEER_MAX
  BY PeerMaxAssumption DEF PeerKeys, SETTINGS_KEY, PEER_KEY_BASE
<1>2. Len(z) = 3 * PEER_MAX
  BY <1>1 DEF ZeroPeers
<1>3. ASSUME NEW i \in 1 .. 3 * PEER_MAX
      PROVE  /\ z[i].key = 1 + ((i - 1) \div 3)
             /\ z[i].field = <<"text", "port", "tail">>[1 + ((i - 1) % 3)]
             /\ z[i].val = 0
  <2> DEFINE a == PEER_KEY_BASE + ((i - 1) \div 3)
             j == 1 + ((i - 1) % 3)
  <2>1. z[i] = Copy(a, ZeroRecord)[j] /\ j \in 1 .. 3 /\ a = 1 + ((i - 1) \div 3)
    BY <1>1 DEF ZeroPeers, PEER_KEY_BASE
  <2> HIDE DEF a, j
  <2>2. j = 1 \/ j = 2 \/ j = 3
    BY <2>1
  <2>3. /\ z[i].key = a /\ z[i].val = 0
        /\ z[i].field = <<"text", "port", "tail">>[j]
    BY <2>1, <2>2 DEF Copy, ZeroRecord
  <2> QED BY <2>1, <2>3 DEF j
<1> HIDE DEF z
<1>4. ASSUME NEW j \in 1 .. 3
      PROVE  \E i \in 1 .. Len(z) :
               z[i].key = k /\ z[i].field = <<"text", "port", "tail">>[j]
  <2> DEFINE i == 3 * (k - 1) + j
  <2>1. i \in 1 .. 3 * PEER_MAX /\ (i - 1) \div 3 = k - 1 /\ (i - 1) % 3 = j - 1
    BY <1>1
  <2> HIDE DEF i
  <2>2. 1 + ((i - 1) \div 3) = k /\ 1 + ((i - 1) % 3) = j
    BY <1>1, <2>1
  <2>3. z[i].key = k /\ z[i].field = <<"text", "port", "tail">>[j]
    BY <1>3, <2>1, <2>2
  <2> QED BY <1>2, <2>1, <2>3
<1>5. \A f \in Fields : \E j \in 1 .. 3 : f = <<"text", "port", "tail">>[j]
  BY DEF Fields
<1>6. \A f \in Fields : ZeroRecord[f] = 0
  BY DEF Fields, ZeroRecord
<1>7. ASSUME NEW f \in Fields PROVE LastSets(z, k, f, ZeroRecord[f])
  <2>1. PICK i \in 1 .. Len(z) : IsTo(z[i], k, f)
    BY <1>4, <1>5 DEF IsTo
  <2>2. \A m \in i .. Len(z) : m \in 1 .. 3 * PEER_MAX
    BY <1>1, <1>2
  <2> QED BY <1>2, <1>3, <1>6, <2>1, <2>2 DEF LastSets
<1> QED BY <1>7 DEF Leaves, z

(* A plan that ends every record it touches in one that validates. *)
Sound(ws) ==
  /\ ws \in Seq(Write)
  /\ \A k \in Keys : (\E i \in 1 .. Len(ws) : ws[i].key = k)
                       => \E r \in Record : Valid(k, r) /\ Leaves(ws, k, r)

LEMMA CopySound ==
  ASSUME NEW k \in Keys, NEW r \in Record, Valid(k, r)
  PROVE  Sound(Copy(k, r))
BY CopyFacts, CopyLeaves DEF Sound

LEMMA ZeroPeerValid == \A k \in PeerKeys : Valid(k, ZeroRecord)
BY KeyFacts DEF Valid, ValidPeer, ZeroRecord

(* Defaults, on top of zeroed peers, are sound if they end in settings that *)
(* validate and touch nothing else.                                        *)
LEMMA DefaultsSound ==
  ASSUME NEW d \in Seq(Write), \A i \in 1 .. Len(d) : d[i].key = SETTINGS_KEY,
         NEW r \in Record, ValidSettings(r), Leaves(d, SETTINGS_KEY, r)
  PROVE  Sound(ZeroPeers \o d)
<1>1. ZeroPeers \in Seq(Write)
  BY ZeroPeersPlanned DEF Planned
<1>2. ZeroPeers \o d \in Seq(Write)
  BY <1>1, ConcatIndex
<1>3. ASSUME NEW k \in Keys
      PROVE  \E q \in Record : Valid(k, q) /\ Leaves(ZeroPeers \o d, k, q)
  <2>1. CASE k = SETTINGS_KEY
    <3>1. Leaves(ZeroPeers \o d, k, r) /\ Valid(k, r)
      BY <1>1, <2>1, LeavesConcat DEF Valid
    <3> QED BY <3>1
  <2>2. CASE k # SETTINGS_KEY
    <3>1. k \in PeerKeys
      BY <2>2 DEF Keys
    <3>2. \A f \in Fields : Untouched(d, k, f)
      BY <2>2 DEF Untouched, IsTo
    <3>3. Leaves(ZeroPeers \o d, k, ZeroRecord)
      BY <1>1, <3>1, <3>2, ZeroPeersLeaves, LeavesConcat
    <3> QED BY <3>1, <3>3, ZeroPeerValid, RecordFacts
  <2> QED BY <2>1, <2>2
<1> QED BY <1>2, <1>3 DEF Sound

LEMMA ResetSound ==
  /\ Sound(ZeroPeers \o SettingsDefaults)
  /\ Sound(ZeroPeers \o SettingsLargeDefaults)
<1> DEFINE c1 == Copy(SETTINGS_KEY, ZeroRecord)
           c2 == Copy(SETTINGS_KEY, SmallDefaults)
           d == SettingsDefaults
           large == [key |-> SETTINGS_KEY, field |-> "text", val |-> LargeText]
           e == <<large>>
           l == SettingsLargeDefaults
           r == [SmallDefaults EXCEPT !.text = LargeText]
<1>1. /\ c1 \in Seq(Write) /\ c2 \in Seq(Write) /\ d = c1 \o c2
      /\ \A i \in 1 .. Len(c1) : c1[i].key = SETTINGS_KEY
      /\ \A i \in 1 .. Len(c2) : c2[i].key = SETTINGS_KEY
      /\ Leaves(c2, SETTINGS_KEY, SmallDefaults)
  BY CopyFacts, CopyLeaves, RecordFacts, KeyFacts DEF SettingsDefaults
<1>2. /\ large \in Write /\ e \in Seq(Write) /\ Len(e) = 1 /\ e[1] = large
      /\ l = d \o e /\ large.key = SETTINGS_KEY
  BY RecordFacts, KeyFacts DEF Write, Fields, SettingsLargeDefaults
<1> HIDE DEF c1, c2, d, e, l
<1>3. d \in Seq(Write) /\ Leaves(d, SETTINGS_KEY, SmallDefaults)
  BY <1>1, ConcatIndex, LeavesConcat
<1>4. ASSUME NEW i \in 1 .. Len(d) PROVE d[i].key = SETTINGS_KEY
  <2>1. CASE i > Len(c1)
    <3>1. i - Len(c1) \in 1 .. Len(c2) /\ d[i] = c2[i - Len(c1)]
      BY <1>1, <2>1, ConcatIndex
    <3> QED BY <1>1, <3>1
  <2>2. CASE ~(i > Len(c1))
    <3>1. i \in 1 .. Len(c1) /\ d[i] = c1[i]
      BY <1>1, <2>2, ConcatIndex
    <3> QED BY <1>1, <3>1
  <2> QED BY <2>1, <2>2
<1>5. l \in Seq(Write)
  BY <1>2, <1>3, ConcatIndex
<1>6. ASSUME NEW i \in 1 .. Len(l) PROVE l[i].key = SETTINGS_KEY
  <2>1. CASE i > Len(d)
    <3>1. i - Len(d) \in 1 .. Len(e) /\ l[i] = e[i - Len(d)]
      BY <1>2, <1>3, <2>1, ConcatIndex
    <3>2. i - Len(d) = 1
      BY <1>2, <3>1
    <3> QED BY <1>2, <3>1, <3>2
  <2>2. CASE ~(i > Len(d))
    <3>1. i \in 1 .. Len(d) /\ l[i] = d[i]
      BY <1>2, <1>3, <2>2, ConcatIndex
    <3> QED BY <1>4, <3>1
  <2> QED BY <2>1, <2>2
<1>7. r \in Record /\ ValidSettings(r)
  <2>1. SmallDefaults \in Record /\ LargeText \in Val /\ LargeText > 0
    BY DefaultsAssumption DEF Val
  <2>2. r \in Record
    BY <2>1 DEF Record
  <2>3. r.text = LargeText /\ r.port = SmallDefaults.port /\ r.tail = SmallDefaults.tail
    BY <2>1 DEF Record
  <2> HIDE DEF r
  <2> QED BY <2>1, <2>2, <2>3, DefaultsAssumption DEF ValidSettings
<1>8. ASSUME NEW f \in Fields PROVE LastSets(l, SETTINGS_KEY, f, r[f])
  <2>1. CASE f = "text"
    <3>1. IsTo(e[1], SETTINGS_KEY, f) /\ e[1].val = LargeText /\ r[f] = LargeText
      BY <1>2, <2>1, DefaultsAssumption DEF IsTo, Record
    <3>2. LastSets(e, SETTINGS_KEY, f, r[f])
      BY <1>2, <3>1 DEF LastSets
    <3> QED BY <1>2, <1>3, <3>2, LastOfSecond
  <2>2. CASE f # "text"
    <3>1. Untouched(e, SETTINGS_KEY, f)
      BY <1>2, <2>2 DEF Untouched, IsTo
    <3>2. r[f] = SmallDefaults[f]
      BY <2>2, DefaultsAssumption DEF Fields, Record
    <3>3. LastSets(d, SETTINGS_KEY, f, r[f])
      BY <1>3, <3>2 DEF Leaves
    <3> QED BY <1>2, <1>3, <3>1, <3>3, LastOfFirst
  <2> QED BY <2>1, <2>2
<1> HIDE DEF r
<1>9. Leaves(l, SETTINGS_KEY, r)
  BY <1>8 DEF Leaves
<1>10. Sound(ZeroPeers \o d)
  BY <1>3, <1>4, DefaultsSound, RecordFacts, DefaultsAssumption
<1>11. Sound(ZeroPeers \o l)
  BY <1>5, <1>6, <1>7, <1>9, DefaultsSound
<1> QED BY <1>10, <1>11 DEF d, l

(* A record every field of which a finished copy has set is the one meant. *)
LEMMA NothingLeft ==
  ASSUME NEW ws \in Seq(Write), NEW k, NEW old \in Record, NEW r \in Record,
         Yields(ws, k, old, r), \A i \in 1 .. Len(ws) : ws[i].key # k
  PROVE  old = r
<1>1. \A f \in Fields : old[f] = r[f]
  BY DEF Yields, LastSets, IsTo
<1>2. old["text"] = r["text"] /\ old["port"] = r["port"] /\ old["tail"] = r["tail"]
  BY <1>1 DEF Fields
<1> QED BY <1>2 DEF Record

LEMMA BeginValid ==
  ASSUME VInv, NEW t \in Threads, NEW w, NEW s, Planned(w, s), Sound(w), Begin(t, w, s)
  PROVE  VInv'
<1>1. /\ op' = [op EXCEPT ![t] = [writes |-> w, saves |-> s]]
      /\ op[t] = Idle
      /\ UNCHANGED <<ram, store, stale, torn>>
  BY DEF Begin
<1>2. \A u \in Threads : op'[u] = IF u = t THEN [writes |-> w, saves |-> s] ELSE op[u]
  BY <1>1 DEF VInv, IInv, TypeOK
<1>3. \A k \in Keys : ~Writing(t, k)
  BY <1>1 DEF Writing, Idle
<1>4. IInv'
  BY BeginStep DEF VInv
<1>5. Settled'
  <2> SUFFICES ASSUME NEW k \in Keys \ torn, NEW u \in Threads, Writing(u, k)'
               PROVE  \E r \in Record : Valid(k, r) /\ Yields(op'[u].writes, k, ram[k], r)
    BY <1>1 DEF Settled
  <2>1. CASE u = t
    <3>1. op'[u].writes = w
      BY <1>2, <2>1
    <3>2. PICK r \in Record : Valid(k, r) /\ Leaves(w, k, r)
      BY <3>1 DEF Sound, Writing
    <3> QED BY <3>1, <3>2 DEF Leaves, Yields
  <2>2. CASE u # t
    BY <1>2, <2>2 DEF VInv, Settled, Writing
  <2> QED BY <2>1, <2>2
<1>6. ValidUnlessTorn'
  <2>1. ASSUME NEW k \in Keys, \A u \in Threads : ~Writing(u, k)'
        PROVE  \A u \in Threads : ~Writing(u, k)
    BY <1>2, <1>3, <2>1 DEF Writing
  <2> QED BY <1>1, <2>1 DEF VInv, ValidUnlessTorn
<1> QED BY <1>4, <1>5, <1>6 DEF VInv

LEMMA CallValid ==
  ASSUME VInv, NEW t \in Threads, Call(t)
  PROVE  VInv'
<1>1. ASSUME NEW s \in SettingsInputs, SetSettings(t, s) PROVE VInv'
  <2> DEFINE c == Copy(SETTINGS_KEY, s)
  <2>1. s \in Record /\ Valid(SETTINGS_KEY, s)
    BY <1>1, InputAssumption DEF SetSettings, Valid
  <2>2. Planned(c, {SETTINGS_KEY}) /\ Sound(c)
    BY <2>1, CopyPlanned, CopySound, KeyFacts
  <2>3. Begin(t, c, {SETTINGS_KEY})
    BY <1>1 DEF SetSettings
  <2> HIDE DEF c
  <2> QED BY <2>2, <2>3, BeginValid
<1>2. ASSUME NEW i \in -1 .. PEER_MAX, NEW p \in PeerInputs, SetPeer(t, i, p)
      PROVE  VInv'
  <2> DEFINE k == PEER_KEY_BASE + i
             c == Copy(k, p)
  <2>1. k \in PeerKeys
    BY <1>2, PeerMaxAssumption DEF SetPeer, PeerKeys, PEER_KEY_BASE, SETTINGS_KEY
  <2>2. Begin(t, c, {k}) /\ ValidPeer(p) /\ p \in Record
    BY <1>2, InputAssumption DEF SetPeer
  <2> HIDE DEF k
  <2>3. k \in Keys /\ Valid(k, p)
    BY <2>1, <2>2, KeyFacts DEF Valid
  <2>4. Planned(c, {k}) /\ Sound(c)
    BY <2>2, <2>3, CopyPlanned, CopySound
  <2> HIDE DEF c
  <2> QED BY <2>2, <2>4, BeginValid
<1>3. CASE ResetAll(t)
  BY <1>3, BeginValid, ResetPlanned, ResetSound DEF ResetAll
<1>4. ASSUME NEW profile \in Profiles, ApplyDefaults(t, profile) PROVE VInv'
  BY <1>4, BeginValid, ResetPlanned, ResetSound DEF ApplyDefaults
<1> QED BY <1>1, <1>2, <1>3, <1>4 DEF Call

(* A field copy by the only call that writes its key brings it nearer to   *)
(* the record meant; with a second one the key counts as torn.             *)
LEMMA CopyFieldValid ==
  ASSUME VInv, NEW t \in Threads, CopyField(t)
  PROVE  VInv'
<1> DEFINE ws == op[t].writes
           w == Head(ws)
<1>1. /\ ws \in Seq(Write) /\ ws # <<>>
      /\ Len(ws) \in Nat /\ w = ws[1] /\ w \in Write /\ 1 \in 1 .. Len(ws)
      /\ Tail(ws) \in Seq(Write) /\ Len(Tail(ws)) = Len(ws) - 1
      /\ \A i \in 1 .. Len(Tail(ws)) : i + 1 \in 1 .. Len(ws) /\ Tail(ws)[i] = ws[i + 1]
      /\ \A i \in 2 .. Len(ws) : i - 1 \in 1 .. Len(Tail(ws)) /\ Tail(ws)[i - 1] = ws[i]
  BY HeadTailProperties, LenProperties DEF VInv, IInv, TypeOK, CopyField
<1>2. w.key \in Keys /\ w.field \in Fields /\ w.val \in Val
  BY <1>1 DEF Write
<1>3. /\ op' = [op EXCEPT ![t].writes = Tail(ws)]
      /\ ram' = [ram EXCEPT ![w.key] = Put(ram[w.key], w.field, w.val)]
      /\ torn' = torn \cup Overlap(t, w.key)
      /\ UNCHANGED <<store, loaded, stale>>
  BY DEF CopyField
<1>4. \A u \in Threads : op'[u].writes = IF u = t THEN Tail(ws) ELSE op[u].writes
  BY <1>3 DEF VInv, IInv, TypeOK
<1>5. IInv'
  BY CopyFieldStep DEF VInv
<1>6. \A u \in Threads \ {t}, k \in Keys : Writing(u, k)' <=> Writing(u, k)
  BY <1>4 DEF Writing
<1>7. Writing(t, w.key)
  BY <1>1 DEF Writing
<1> HIDE DEF w, ws
<1>8. ASSUME NEW k \in Keys, k # w.key PROVE Writing(t, k)' <=> Writing(t, k)
  <2>1. op'[t].writes = Tail(ws)
    BY <1>4
  <2>2. ASSUME NEW i \in 1 .. Len(ws), ws[i].key = k PROVE Writing(t, k)'
    <3>1. i \in 2 .. Len(ws)
      BY <1>1, <1>8, <2>2
    <3>2. i - 1 \in 1 .. Len(Tail(ws)) /\ Tail(ws)[i - 1].key = k
      BY <1>1, <2>2, <3>1
    <3> QED BY <2>1, <3>2 DEF Writing
  <2>3. ASSUME NEW i \in 1 .. Len(Tail(ws)), Tail(ws)[i].key = k PROVE Writing(t, k)
    BY <1>1, <2>3 DEF Writing, ws
  <2> QED BY <2>1, <2>2, <2>3 DEF Writing, ws
<1>9. \A k \in Keys : ram[k] \in Record /\ ram'[k] \in Record
  BY <1>5 DEF VInv, IInv, TypeOK
<1>10. \A k \in Keys : ram'[k] = IF w.key = k THEN Put(ram[k], w.field, w.val) ELSE ram[k]
  BY <1>3 DEF VInv, IInv, TypeOK
<1>11. w.key \notin torn' => \A u \in Threads \ {t} : ~Writing(u, w.key)
  BY <1>3 DEF Overlap
(* What thread t was completing before, it is completing still.            *)
<1>12. ASSUME NEW k \in Keys, NEW r \in Record, Yields(ws, k, ram[k], r)
       PROVE  Yields(op'[t].writes, k, ram'[k], r)
  <2>1. Yields(Tail(ws), k, ram'[k], r)
    BY <1>1, <1>9, <1>10, <1>12, RestYields DEF w
  <2> QED BY <1>4, <2>1
<1>13. \A k \in Keys \ torn' : k \in Keys \ torn
  BY <1>3
<1>14. Settled'
  <2> SUFFICES ASSUME NEW k \in Keys \ torn', NEW u \in Threads, Writing(u, k)'
               PROVE  \E r \in Record : Valid(k, r) /\ Yields(op'[u].writes, k, ram'[k], r)
    BY DEF Settled
  <2>1. CASE u = t
    <3>1. Writing(t, k)
      BY <1>7, <1>8, <2>1
    <3>2. PICK r \in Record : Valid(k, r) /\ Yields(ws, k, ram[k], r)
      BY <1>13, <3>1 DEF VInv, Settled, ws
    <3> QED BY <1>12, <2>1, <3>2
  <2>2. CASE u # t
    <3>1. Writing(u, k)
      BY <1>6, <2>2
    <3>2. k # w.key
      BY <1>11, <2>2, <3>1
    <3>3. ram'[k] = ram[k] /\ op'[u].writes = op[u].writes
      BY <1>4, <1>10, <2>2, <3>2
    <3> QED BY <1>13, <3>1, <3>3 DEF VInv, Settled
  <2> QED BY <2>1, <2>2
<1>15. ValidUnlessTorn'
  <2> SUFFICES ASSUME NEW k \in Keys \ torn'
               PROVE  /\ (\A u \in Threads : ~Writing(u, k)') => FitsRam(k, ram'[k])
                      /\ store[k].form = "v2" => FitsFlash(k, store[k].rec)
    BY <1>3 DEF ValidUnlessTorn, FitsRam, FitsFlash
  <2>1. store[k].form = "v2" => FitsFlash(k, store[k].rec)
    BY <1>13 DEF VInv, ValidUnlessTorn, FitsRam, FitsFlash
  <2>2. ASSUME \A u \in Threads : ~Writing(u, k)' PROVE FitsRam(k, ram'[k])
    <3>1. CASE k = w.key
      <4>1. PICK r \in Record : Valid(k, r) /\ Yields(ws, k, ram[k], r)
        BY <1>7, <1>13, <3>1 DEF VInv, Settled, ws
      <4>2. Yields(Tail(ws), k, ram'[k], r)
        BY <1>4, <1>12, <4>1
      <4>3. \A i \in 1 .. Len(Tail(ws)) : Tail(ws)[i].key # k
        BY <1>4, <2>2 DEF Writing
      <4>4. ram'[k] = r
        BY <1>1, <1>9, <4>2, <4>3, NothingLeft
      <4> QED BY <4>1, <4>4 DEF FitsRam
    <3>2. CASE k # w.key
      <4>1. \A u \in Threads : ~Writing(u, k)
        BY <1>6, <1>8, <2>2, <3>2
      <4>2. ram'[k] = ram[k]
        BY <1>10, <3>2
      <4> QED BY <1>13, <4>1, <4>2 DEF VInv, ValidUnlessTorn, FitsRam, FitsFlash
    <3> QED BY <3>1, <3>2
  <2> QED BY <2>1, <2>2
<1> QED BY <1>5, <1>14, <1>15 DEF VInv

LEMMA SaveKeyValid ==
  ASSUME VInv, NEW t \in Threads, NEW k \in Keys, SaveKey(t, k)
  PROVE  VInv'
<1>1. /\ op[t].writes = <<>>
      /\ op' = [op EXCEPT ![t].saves = op[t].saves \ {k}]
      /\ store' = [store EXCEPT ![k] = [form |-> "v2", rec |-> ram[k]]]
      /\ ram' = ram
      /\ torn' = torn \cup Overlap(t, k)
  BY DEF SaveKey, NextSave
<1>2. \A u \in Threads : op'[u].writes = op[u].writes
  BY <1>1 DEF VInv, IInv, TypeOK
<1>3. IInv'
  BY SaveKeyStep DEF VInv
<1>4. \A u \in Threads, j \in Keys : Writing(u, j)' <=> Writing(u, j)
  BY <1>2 DEF Writing
<1>5. Settled'
  BY <1>1, <1>2, <1>4 DEF VInv, Settled
<1>6. k \notin torn' => FitsRam(k, ram[k])
  <2>1. \A j \in Keys : ~Writing(t, j)
    BY <1>1 DEF Writing
  <2>2. k \notin torn' => \A u \in Threads : ~Writing(u, k)
    BY <1>1, <2>1 DEF Overlap
  <2> QED BY <1>1, <2>2 DEF VInv, ValidUnlessTorn, FitsRam, FitsFlash
<1>7. \A j \in Keys : store'[j] = IF j = k THEN [form |-> "v2", rec |-> ram[k]] ELSE store[j]
  BY <1>1 DEF VInv, IInv, TypeOK
<1>8. ValidUnlessTorn'
  <2> SUFFICES ASSUME NEW j \in Keys \ torn'
               PROVE  /\ (\A u \in Threads : ~Writing(u, j)) => FitsRam(j, ram[j])
                      /\ store'[j].form = "v2" => FitsFlash(j, store'[j].rec)
    BY <1>1, <1>4 DEF ValidUnlessTorn, FitsRam, FitsFlash
  <2>1. j \in Keys \ torn
    BY <1>1
  <2> QED BY <1>6, <1>7, <2>1, RamFitsFlash DEF VInv, ValidUnlessTorn, FitsRam, FitsFlash
<1> QED BY <1>3, <1>5, <1>8 DEF VInv

LEMMA SaveFailsValid ==
  ASSUME VInv, NEW t \in Threads, SaveFails(t)
  PROVE  VInv'
<1>1. /\ op[t].writes = <<>> /\ op' = [op EXCEPT ![t] = Idle]
      /\ UNCHANGED <<ram, store, torn>>
  BY DEF SaveFails
<1>2. \A u \in Threads : op'[u].writes = op[u].writes
  BY <1>1 DEF VInv, IInv, TypeOK, Idle
<1>3. IInv'
  BY SaveFailsStep DEF VInv
<1>4. \A u \in Threads, j \in Keys : Writing(u, j)' <=> Writing(u, j)
  BY <1>2 DEF Writing
<1> QED BY <1>1, <1>2, <1>3, <1>4 DEF VInv, Settled, ValidUnlessTorn

(* Loading replaces what does not validate. *)
LEMMA RebootValid ==
  ASSUME VInv, Reboot
  PROVE  VInv'
<1>1. op' = [t \in Threads |-> Idle] /\ torn' = torn
  BY DEF Reboot
<1>2. IInv'
  BY RebootStep DEF VInv
<1>3. \A u \in Threads, k \in Keys : ~Writing(u, k)'
  BY <1>1 DEF Writing, Idle
<1>4. Settled'
  BY <1>3 DEF Settled
<1>5. store \in [Keys -> Stored]
  BY DEF VInv, IInv, TypeOK
<1>6. ASSUME NEW k \in Keys \ torn PROVE FitsRam(k, ram'[k])
  <2>1. CASE LoadNothing
    BY <2>1, DefaultsAssumption, ZeroPeerValid DEF LoadNothing, Keys, Valid, FitsRam
  <2>2. CASE LoadConfig
    <3>1. ram'[k] = BootValue(k, store)
      BY <2>2 DEF LoadConfig
    <3>2. CASE k = SETTINGS_KEY
      BY <1>5, <3>1, <3>2, BootValid DEF Valid, FitsRam
    <3>3. CASE k # SETTINGS_KEY
      <4>1. k \in PeerKeys
        BY <3>3 DEF Keys
      <4>2. ram'[k] = PeerFrom(store[k])
        BY <3>1, <3>3 DEF BootValue
      <4> QED BY <3>3, <4>1, <4>2, ZeroPeerValid
              DEF VInv, ValidUnlessTorn, PeerFrom, FitsRam, FitsFlash
    <3> QED BY <3>2, <3>3
  <2> QED BY <2>1, <2>2 DEF Reboot
<1>7. ASSUME NEW k \in Keys \ torn, store'[k].form = "v2"
      PROVE  FitsFlash(k, store'[k].rec)
  <2>1. CASE store'[k] = store[k]
    BY <1>7, <2>1 DEF VInv, ValidUnlessTorn, FitsRam, FitsFlash
  <2>2. CASE store'[k] # store[k]
    <3> DEFINE s == store[SETTINGS_KEY]
    <3>1. /\ UsesLegacy(s) /\ k = SETTINGS_KEY
          /\ store'[k] = [form |-> "v2", rec |-> LegacySettings(s)]
      BY <1>5, <2>2 DEF Reboot, LoadNothing, LoadConfig
    <3> QED BY <3>1 DEF UsesLegacy, Valid, FitsFlash
  <2> QED BY <2>1, <2>2
<1>8. ValidUnlessTorn'
  BY <1>1, <1>6, <1>7 DEF ValidUnlessTorn, FitsRam, FitsFlash
<1> QED BY <1>2, <1>4, <1>8 DEF VInv

LEMMA InitVInv == Init => VInv
<1> SUFFICES ASSUME Init PROVE VInv
  OBVIOUS
<1>1. IInv
  BY InitIInv
<1>2. \A u \in Threads, k \in Keys : ~Writing(u, k)
  BY DEF Init, Writing, Idle
<1>3. Settled
  BY <1>2 DEF Settled
<1>4. store \in [Keys -> Stored] /\ store \in Flashes
  BY FlashAssumption DEF Init
<1>5. ASSUME NEW k \in Keys PROVE FitsRam(k, ram[k])
  <2>1. ram[k] = BootValue(k, store)
    BY DEF Init
  <2>2. CASE k = SETTINGS_KEY
    BY <1>4, <2>1, <2>2, BootValid DEF Valid, FitsRam
  <2>3. CASE k # SETTINGS_KEY
    <3>1. k \in PeerKeys /\ ram[k] = PeerFrom(store[k])
      BY <2>1, <2>3 DEF Keys, BootValue
    <3> QED BY <1>4, <2>3, <3>1, ZeroPeerValid DEF PeerFrom, FitsRam, Original
  <2> QED BY <2>2, <2>3
<1>6. ASSUME NEW k \in Keys, store[k].form = "v2" PROVE FitsFlash(k, store[k].rec)
  BY <1>4, <1>6 DEF FitsFlash, Original
<1> QED BY <1>1, <1>3, <1>5, <1>6 DEF VInv, ValidUnlessTorn, FitsRam, FitsFlash

LEMMA NextVInv == VInv /\ [Next]_vars => VInv'
<1> SUFFICES ASSUME VInv, [Next]_vars PROVE VInv'
  OBVIOUS
<1>1. CASE UNCHANGED vars
  <2>1. IInv'
    BY <1>1, NextIInv DEF VInv
  <2> QED BY <1>1, <2>1 DEF vars, VInv, Settled, ValidUnlessTorn, Writing
<1>2. CASE Next
  BY <1>2, CallValid, CopyFieldValid, SaveKeyValid, SaveFailsValid, RebootValid DEF Next
<1> QED BY <1>1, <1>2

(* A record that does not validate reaches RAM or flash only through two   *)
(* calls at the same time: one call alone, cut by a power loss or a failed  *)
(* save anywhere, never leaves one.                                        *)
THEOREM ValidUnlessTornTheorem == Spec => []ValidUnlessTorn
<1>1. VInv => ValidUnlessTorn
  BY DEF VInv
<1> QED BY <1>1, InitVInv, NextVInv, PTL DEF Spec

(* A key at rest boots to the value get_settings or get_peer returns now.  *)
THEOREM RebootPreservesTheorem == Spec => []RebootPreserves
<1>1. ASSUME VInv, NEW k \in Keys, ~Owed(k), k \notin stale, k \notin torn
      PROVE  BootValue(k, store) = ram[k]
  <2>1. InSync(k)
    BY <1>1 DEF VInv, IInv, Converged
  <2>2. CASE k = SETTINGS_KEY
    <3>1. store[k] = [form |-> "v2", rec |-> ram[k]] /\ store[k].rec = ram[k]
      BY <2>1, <2>2 DEF InSync
    <3>2. \A t \in Threads : ~Writing(t, k)
      BY <1>1 DEF VInv, IInv, WritesAreOwed, Writing, Owed
    <3>3. ValidSettings(ram[k])
      BY <1>1, <2>2, <3>2 DEF VInv, ValidUnlessTorn, FitsRam, Valid
    <3>4. ValidSettings(store[k].rec)
      BY <3>1, <3>3
    <3> QED BY <2>2, <3>1, <3>4 DEF BootValue, SettingsFrom, UsesCurrent
  <2>3. CASE k # SETTINGS_KEY
    BY <2>1, <2>3 DEF InSync, BootValue
  <2> QED BY <2>2, <2>3
<1>2. VInv => RebootPreserves
  BY <1>1 DEF RebootPreserves
<1> QED BY <1>2, InitVInv, NextVInv, PTL DEF Spec
=============================================================================
