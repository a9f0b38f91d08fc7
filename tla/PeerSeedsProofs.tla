-------------------------- MODULE PeerSeedsProofs --------------------------
(***************************************************************************)
(* Proofs about PeerSeeds, for any number of peers, any hosts and any      *)
(* flash content.                                                          *)
(*                                                                         *)
(* The argument for SeedsMatch.  Nothing foreign: a caller holds a peer that *)
(* was eligible when it was read, and every change moves the addresses it  *)
(* takes away to gone, which is forgotten only when nobody can hold one.   *)
(* Nothing missing: of the callers at work one leads, the one that emptied *)
(* the table last.  Everything before the peer it looks at is in the table. *)
(* If nobody else filled the table when it was emptied, there is room for  *)
(* the rest; if somebody did, the table may run full.                      *)
(***************************************************************************)
EXTENDS PeerSeeds, TLAPS

(* A peer that is being added was eligible when it was read. *)
HeldIsSeed == \A t \in Callers : at[t] = "adding" => held[t].host \in Addresses

(* What is in the table, or on its way there, is wanted or was taken away. *)
OnlyWanted == Range(seeds) \subseteq Wanted \cup gone
HeldFits == \A t \in Callers : at[t] = "adding" => held[t].host \in Wanted \cup gone

(* A caller that found the bridge enabled goes on when it is switched off.  *)
BridgeFits ==
  \A t \in Callers : at[t] \in {"peers", "adding"} /\ bridge = 0 => Listed \subseteq gone

(* Unless it was emptied under another caller, one caller fills the table. *)
AtMostOne == shared \/ ~Filling("main") \/ ~Filling("http")

(* The index before which caller t is done. *)
Done(t) == IF at[t] = "adding" THEN next[t] - 1 ELSE next[t]

(* Peer i is in the table, or two callers have used it up. *)
InOrFull(i) == peers[i].host \in Range(seeds) \/ (shared /\ Len(seeds) = P2P_PEER_MAX)

(* No eligible peer below n that stood still is missing. *)
In(n) == \A i \in Indices \ changed : i < n /\ Eligible(peers[i]) => InOrFull(i)

Complete == bridge = 1 => In(PEER_MAX)

(* A leader still works with the peer of the configuration if it stood still. *)
HeldIsCurrent(t) ==
  /\ next[t] >= 1
  /\ next[t] - 1 \notin changed => held[t] = peers[next[t] - 1]

Leads(t) ==
  \/ at[t] = "settings" /\ next[t] = 0 /\ (shared \/ seeds = <<>>)
  \/ /\ at[t] \in {"peers", "adding"}
     /\ In(Done(t))
     /\ shared \/ Len(seeds) <= Done(t)
     /\ at[t] = "adding" => HeldIsCurrent(t)

SomeoneLeads == Complete \/ \E t \in Callers : Leads(t)

(* A peer saved over HTTP waits for its own handler, if for anybody. *)
SavedIsCalled == saved /\ changed # {} => at["http"] = "called"

IInv ==
  /\ TypeOK /\ HeldIsSeed
  /\ OnlyWanted /\ HeldFits /\ BridgeFits
  /\ AtMostOne /\ SomeoneLeads /\ SavedIsCalled

----------------------------------------------------------------------------
(* The table as a sequence                                                 *)

LEMMA Appended ==
  ASSUME NEW S, NEW s \in Seq(S), NEW e \in S
  PROVE  /\ Append(s, e) \in Seq(S)
         /\ Len(Append(s, e)) = Len(s) + 1
         /\ Range(Append(s, e)) = Range(s) \cup {e}
<1> DEFINE a == Append(s, e)
<1>1. /\ a \in Seq(S) /\ Len(a) = Len(s) + 1 /\ DOMAIN a = 1 .. (Len(s) + 1)
      /\ DOMAIN s = 1 .. Len(s) /\ a[Len(s) + 1] = e
      /\ \A i \in 1 .. Len(s) : a[i] = s[i]
  OBVIOUS
<1>2. ASSUME NEW x \in Range(a) PROVE x \in Range(s) \cup {e}
  <2>1. PICK i \in 1 .. (Len(s) + 1) : a[i] = x
    BY <1>1, <1>2 DEF Range
  <2>2. i \in 1 .. Len(s) \/ i = Len(s) + 1
    BY <2>1
  <2> QED BY <1>1, <2>1, <2>2 DEF Range
<1>3. ASSUME NEW x \in Range(s) PROVE x \in Range(a)
  <2>1. PICK i \in 1 .. Len(s) : s[i] = x
    BY <1>1, <1>3 DEF Range
  <2>2. i \in 1 .. (Len(s) + 1) /\ a[i] = x
    BY <1>1, <2>1
  <2> QED BY <1>1, <2>2 DEF Range
<1>4. e \in Range(a)
  <2>1. Len(s) + 1 \in 1 .. (Len(s) + 1)
    OBVIOUS
  <2> QED BY <1>1, <2>1 DEF Range
<1>5. Range(a) = Range(s) \cup {e}
  BY <1>2, <1>3, <1>4
<1> QED BY <1>1, <1>5

LEMMA Found ==
  ASSUME NEW S, NEW s \in Seq(S), NEW e, Contains(s, e)
  PROVE  e \in Range(s)
<1>1. PICK i \in 1 .. Len(s) : s[i] = e
  BY DEF Contains
<1>2. DOMAIN s = 1 .. Len(s)
  OBVIOUS
<1> QED BY <1>1, <1>2 DEF Range

LEMMA EmptyRange == Range(<<>>) = {}
BY DEF Range

----------------------------------------------------------------------------
(* The invariant                                                           *)

LEMMA Sizes ==
  /\ PEER_MAX \in Nat /\ PEER_MAX >= 1 /\ P2P_PEER_MAX \in Nat
  /\ P2P_PEER_MAX >= PEER_MAX
BY SizeAssumption

LEMMA NoPeerFits == NoPeer \in Peer /\ ~Eligible(NoPeer)
BY DEF NoPeer, Peer, Hosts, Eligible

LEMMA InitIInv == Init => IInv
<1> SUFFICES ASSUME Init PROVE IInv
  OBVIOUS
<1>1. TypeOK
  <2>1. peers \in [Indices -> Peer]
    BY PeerAssumption DEF Init
  <2>2. held \in [Callers -> Peer]
    BY NoPeerFits DEF Init
  <2>3. seeds \in Seq(Addresses) /\ Len(seeds) <= P2P_PEER_MAX
    BY Sizes DEF Init
  <2>4. next \in [Callers -> 0 .. PEER_MAX]
    BY Sizes DEF Init
  <2>5. at \in [Callers -> {"idle", "called", "settings", "peers", "adding"}]
    BY DEF Init
  <2> QED BY <2>1, <2>2, <2>3, <2>4, <2>5 DEF Init, TypeOK
<1>2. \A t \in Callers : at[t] = "idle"
  BY DEF Init
<1>3. HeldIsSeed /\ HeldFits /\ BridgeFits /\ AtMostOne
  BY <1>2 DEF HeldIsSeed, HeldFits, BridgeFits, AtMostOne, Filling, Callers
<1>4. OnlyWanted
  BY EmptyRange DEF Init, OnlyWanted
<1>5. SomeoneLeads /\ SavedIsCalled
  BY DEF Init, SomeoneLeads, Complete, In, SavedIsCalled
<1> QED BY <1>1, <1>3, <1>4, <1>5 DEF IInv

(* A step that leaves the configuration, the table and its history alone   *)
(* leaves every statement about the table alone.                           *)
LEMMA TableStands ==
  ASSUME UNCHANGED <<peers, bridge, seeds, changed, gone, shared>>
  PROVE  /\ \A n \in Nat : In(n)' = In(n)
         /\ Complete' = Complete /\ OnlyWanted' = OnlyWanted
         /\ Wanted' = Wanted /\ Listed' = Listed
<1>1. \A i : InOrFull(i)' = InOrFull(i)
  BY DEF InOrFull
<1> QED BY <1>1 DEF In, Complete, OnlyWanted, Wanted, Listed

(* Every change of the configuration: the table is no longer owed to the   *)
(* peers in S, and addresses it takes away are remembered.                 *)
LEMMA ChangeStep ==
  ASSUME IInv, NEW S \in SUBSET Indices, Changed(S),
         peers' \in [Indices -> Peer], bridge' \in {0, 1}, saved' \in BOOLEAN,
         \A i \in Indices \ S : peers'[i] = peers[i] /\ bridge' = bridge,
         bridge' = bridge \/ S = Indices,
         UNCHANGED <<seeds, next, held, stage>>,
         \/ UNCHANGED at /\ saved' = FALSE
         \/ at' = [at EXCEPT !["http"] = "called"] /\ at["http"] = "idle"
  PROVE  IInv'
<1>0. /\ changed' = changed \cup S /\ shared' = shared
      /\ gone' = gone \cup ((Listed \cup Listed') \ Wanted')
      /\ TypeOK
  BY DEF Changed, IInv
<1>a. Listed \subseteq Addresses /\ Listed' \subseteq Addresses
  BY DEF Listed, Eligible
<1>1. TypeOK'
  <2>1. changed' \subseteq Indices /\ gone' \subseteq Addresses
    BY <1>0, <1>a DEF TypeOK
  <2>2. at' \in [Callers -> {"idle", "called", "settings", "peers", "adding"}]
    BY <1>0 DEF TypeOK
  <2> QED BY <1>0, <2>1, <2>2 DEF TypeOK
<1>2. \A t \in Callers :
        /\ at'[t] \in {"settings", "peers", "adding"} => at'[t] = at[t]
        /\ at[t] \in {"settings", "peers", "adding"} => at'[t] = at[t]
  BY <1>0 DEF TypeOK, Callers
<1>3. HeldIsSeed'
  BY <1>2 DEF IInv, HeldIsSeed
<1>4. Wanted \cup gone \subseteq Wanted' \cup gone'
  BY <1>0 DEF Wanted
<1>5. OnlyWanted' /\ HeldFits'
  BY <1>2, <1>4 DEF IInv, OnlyWanted, HeldFits
<1>6. BridgeFits'
  BY <1>0 DEF BridgeFits, Wanted
<1>7. AtMostOne'
  BY <1>0, <1>2 DEF IInv, AtMostOne, Filling, Callers
<1>8. SavedIsCalled'
  BY <1>0 DEF SavedIsCalled, TypeOK, Callers
<1>9. \A i \in Indices \ changed' :
        i \in Indices \ changed /\ peers'[i] = peers[i] /\ InOrFull(i)' = InOrFull(i)
  BY <1>0 DEF InOrFull
<1>10. \A n \in 0 .. PEER_MAX : In(n) => In(n)'
  BY <1>9 DEF In
<1>11. Complete => Complete'
  <2>1. CASE bridge' = bridge
    BY <1>10, <2>1, Sizes DEF Complete
  <2>2. CASE S = Indices
    BY <1>0, <2>2 DEF Complete, In
  <2> QED BY <2>1, <2>2
<1>12. ASSUME NEW t \in Callers, Leads(t) PROVE Leads(t)'
  <2>1. CASE at[t] = "settings"
    BY <1>0, <1>2, <1>12, <2>1 DEF Leads
  <2>2. CASE at[t] \in {"peers", "adding"}
    <3>1. at'[t] = at[t] /\ Done(t)' = Done(t)
      BY <1>2, <2>2 DEF Done
    <3>2. /\ In(Done(t)) /\ (shared \/ Len(seeds) <= Done(t))
          /\ at[t] = "adding" => HeldIsCurrent(t)
      BY <1>12, <2>2 DEF Leads
    <3>3. Done(t) \in 0 .. PEER_MAX
      BY <1>0, <3>2, Sizes DEF TypeOK, Done, HeldIsCurrent
    <3>4. In(Done(t))'
      BY <1>10, <3>1, <3>2, <3>3
    <3>5. at[t] = "adding" => HeldIsCurrent(t)'
      <4> SUFFICES ASSUME at[t] = "adding", next[t] - 1 \notin changed'
                   PROVE  held[t] = peers'[next[t] - 1]
        BY <3>2 DEF HeldIsCurrent
      <4>1. next[t] - 1 \in Indices
        BY <1>0, <3>2, Sizes DEF TypeOK, HeldIsCurrent, Indices
      <4> QED BY <1>9, <3>2, <4>1 DEF HeldIsCurrent
    <3> QED BY <1>0, <2>2, <3>1, <3>2, <3>4, <3>5 DEF Leads
  <2> QED BY <1>12, <2>1, <2>2 DEF Leads
<1>13. SomeoneLeads'
  BY <1>11, <1>12 DEF IInv, SomeoneLeads
<1> QED BY <1>1, <1>3, <1>5, <1>6, <1>7, <1>8, <1>13 DEF IInv

LEMMA OfferedFits == Offered \subseteq Peer
BY PeerAssumption

LEMMA SetPeerFits ==
  ASSUME IInv, NEW i \in Indices, NEW p \in Offered, SetPeer(i, p)
  PROVE  /\ peers' \in [Indices -> Peer] /\ bridge' \in {0, 1} /\ bridge' = bridge
         /\ \A j \in Indices \ {i} : peers'[j] = peers[j]
BY OfferedFits DEF IInv, TypeOK, SetPeer

LEMMA ChangesKeep ==
  ASSUME IInv
  PROVE  /\ \A i \in Indices, p \in Offered : PostPeer(i, p) => IInv'
         /\ \A i \in Indices, p \in Offered : ConsolePeer(i, p) => IInv'
         /\ \A b \in {0, 1} : PostBridge(b) => IInv'
         /\ ResetAll => IInv'
<1>1. ASSUME NEW i \in Indices, NEW p \in Offered, PostPeer(i, p) PROVE IInv'
  <2>1. /\ peers' \in [Indices -> Peer] /\ bridge' \in {0, 1} /\ bridge' = bridge
        /\ \A j \in Indices \ {i} : peers'[j] = peers[j]
    BY <1>1, SetPeerFits DEF PostPeer
  <2> QED BY <1>1, <2>1, ChangeStep DEF PostPeer, CallApply
<1>2. ASSUME NEW i \in Indices, NEW p \in Offered, ConsolePeer(i, p) PROVE IInv'
  <2>1. /\ peers' \in [Indices -> Peer] /\ bridge' \in {0, 1} /\ bridge' = bridge
        /\ \A j \in Indices \ {i} : peers'[j] = peers[j]
    BY <1>2, SetPeerFits DEF ConsolePeer
  <2> QED BY <1>2, <2>1, ChangeStep DEF ConsolePeer
<1>3. ASSUME NEW b \in {0, 1}, PostBridge(b) PROVE IInv'
  <2>1. peers' \in [Indices -> Peer] /\ bridge' \in {0, 1}
    BY <1>3 DEF PostBridge, IInv, TypeOK
  <2> QED BY <1>3, <2>1, ChangeStep DEF PostBridge
<1>4. ASSUME ResetAll PROVE IInv'
  <2>1. peers' \in [Indices -> Peer] /\ bridge' \in {0, 1}
    BY <1>4, NoPeerFits DEF ResetAll
  <2> QED BY <1>4, <2>1, ChangeStep DEF ResetAll
<1> QED BY <1>1, <1>2, <1>3, <1>4

LEMMA CallsKeep ==
  ASSUME IInv, BootCalls \/ StartCalls
  PROVE  IInv'
<1>0. /\ UNCHANGED <<peers, bridge, seeds, next, held, changed, gone, shared, saved>>
      /\ stage' \in {"none", "boot", "start"}
      /\ at["main"] = "idle" /\ at' = [at EXCEPT !["main"] = "called"]
      /\ TypeOK
  BY DEF BootCalls, StartCalls, IInv, history
<1>1. /\ at'["http"] = at["http"] /\ at'["main"] = "called"
  BY <1>0 DEF TypeOK, Callers
<1>2. TypeOK'
  BY <1>0 DEF TypeOK
<1>3. /\ Complete' = Complete /\ OnlyWanted' = OnlyWanted
      /\ Wanted' = Wanted /\ Listed' = Listed
  BY <1>0, TableStands
<1>4. HeldIsSeed' /\ HeldFits' /\ BridgeFits' /\ OnlyWanted'
  BY <1>0, <1>1, <1>3 DEF IInv, HeldIsSeed, HeldFits, BridgeFits, Callers
<1>5. AtMostOne' /\ SavedIsCalled'
  BY <1>0, <1>1 DEF IInv, AtMostOne, SavedIsCalled, Filling
<1>6. ~Leads("main")
  BY <1>0 DEF Leads
<1>7. Leads("http") => Leads("http")'
  BY <1>0, <1>1 DEF Leads, In, InOrFull, Done, HeldIsCurrent
<1>8. SomeoneLeads'
  BY <1>3, <1>6, <1>7 DEF IInv, SomeoneLeads, Callers
<1> QED BY <1>2, <1>4, <1>5, <1>8 DEF IInv

LEMMA BeginKeeps ==
  ASSUME IInv, NEW t \in Callers, Begin(t)
  PROVE  IInv'
<1>0. /\ UNCHANGED <<peers, bridge, held, stage, saved>>
      /\ at[t] = "called" /\ at' = [at EXCEPT ![t] = "settings"]
      /\ next' = [next EXCEPT ![t] = 0] /\ seeds' = <<>> /\ changed' = {}
      /\ shared' = \E u \in Callers \ {t} : Filling(u)
      /\ gone' = IF shared' THEN gone ELSE {}
      /\ TypeOK
  BY DEF Begin, IInv
<1>1. /\ at'[t] = "settings" /\ next'[t] = 0
      /\ \A u \in Callers \ {t} : at'[u] = at[u] /\ next'[u] = next[u] /\ held'[u] = held[u]
  BY <1>0 DEF TypeOK, Callers
<1>2. TypeOK'
  <2>1. seeds' \in Seq(Addresses) /\ Len(seeds') <= P2P_PEER_MAX
    BY <1>0, Sizes
  <2>2. next' \in [Callers -> 0 .. PEER_MAX]
    BY <1>0, Sizes DEF TypeOK
  <2>3. at' \in [Callers -> {"idle", "called", "settings", "peers", "adding"}]
    BY <1>0 DEF TypeOK
  <2>4. shared' \in BOOLEAN /\ gone' \subseteq Addresses /\ changed' \subseteq Indices
    BY <1>0 DEF TypeOK
  <2> QED BY <1>0, <2>1, <2>2, <2>3, <2>4 DEF TypeOK
<1>3. HeldIsSeed'
  BY <1>0, <1>1 DEF IInv, HeldIsSeed
<1>4. OnlyWanted'
  BY <1>0, EmptyRange DEF OnlyWanted
(* What was taken away is forgotten only if nobody else is filling.        *)
<1>5. \A u \in Callers : at'[u] \in {"peers", "adding"} =>
        at[u] = at'[u] /\ held'[u] = held[u] /\ gone' = gone
  BY <1>0, <1>1 DEF Filling
<1>6. Wanted' = Wanted /\ Listed' = Listed
  BY <1>0 DEF Wanted, Listed
<1>7. HeldFits' /\ BridgeFits'
  BY <1>0, <1>5, <1>6 DEF IInv, HeldFits, BridgeFits
<1>8. AtMostOne'
  BY <1>0, <1>1 DEF AtMostOne, Filling, Callers
<1>9. SavedIsCalled'
  BY <1>0 DEF SavedIsCalled
<1>10. SomeoneLeads'
  BY <1>0, <1>1 DEF SomeoneLeads, Leads
<1> QED BY <1>2, <1>3, <1>4, <1>7, <1>8, <1>9, <1>10 DEF IInv

LEMMA CheckBridgeKeeps ==
  ASSUME IInv, NEW t \in Callers, CheckBridge(t)
  PROVE  IInv'
<1>0. /\ UNCHANGED <<peers, bridge, seeds, next, held, stage, changed, gone, shared, saved>>
      /\ at[t] = "settings"
      /\ at' = [at EXCEPT ![t] = IF bridge = 1 THEN "peers" ELSE "idle"]
      /\ TypeOK
  BY DEF CheckBridge, IInv, history
<1>1. /\ at'[t] = IF bridge = 1 THEN "peers" ELSE "idle"
      /\ \A u \in Callers \ {t} : at'[u] = at[u]
  BY <1>0 DEF TypeOK
<1>2. TypeOK'
  BY <1>0 DEF TypeOK
<1>3. /\ Complete' = Complete /\ OnlyWanted' = OnlyWanted
      /\ Wanted' = Wanted /\ Listed' = Listed
  BY <1>0, TableStands
<1>4. HeldIsSeed' /\ HeldFits' /\ OnlyWanted'
  BY <1>0, <1>1, <1>3 DEF IInv, HeldIsSeed, HeldFits
<1>5. BridgeFits'
  BY <1>0, <1>1, <1>3 DEF IInv, BridgeFits
<1>6. AtMostOne'
  BY <1>0, <1>1 DEF IInv, AtMostOne, Filling, Callers
<1>7. SavedIsCalled'
  BY <1>0, <1>1 DEF IInv, SavedIsCalled, Callers
(* The caller that leads has nothing done, and an empty table if it is      *)
(* alone.                                                                  *)
<1>8. ASSUME Leads(t) PROVE IF bridge = 1 THEN Leads(t)' ELSE Complete'
  <2>1. next[t] = 0 /\ (shared \/ seeds = <<>>)
    BY <1>0, <1>8 DEF Leads
  <2>2. CASE bridge = 1
    <3>1. at'[t] = "peers" /\ Done(t)' = 0 /\ (shared' \/ Len(seeds') = 0)
      BY <1>0, <1>1, <2>1, <2>2 DEF Done
    <3>2. In(Done(t))'
      BY <3>1 DEF In, Indices
    <3> QED BY <3>1, <3>2, <2>2 DEF Leads
  <2>3. CASE bridge # 1
    BY <1>0, <2>3 DEF Complete
  <2> QED BY <2>2, <2>3
<1>9. ASSUME NEW u \in Callers \ {t}, Leads(u) PROVE Leads(u)'
  BY <1>0, <1>1, <1>9 DEF Leads, In, InOrFull, Done, HeldIsCurrent
<1>10. SomeoneLeads'
  BY <1>3, <1>8, <1>9 DEF IInv, SomeoneLeads
<1> QED BY <1>2, <1>4, <1>5, <1>6, <1>7, <1>10 DEF IInv

LEMMA ReturnKeeps ==
  ASSUME IInv, NEW t \in Callers, Return(t)
  PROVE  IInv'
<1>0. /\ UNCHANGED <<peers, bridge, seeds, held, stage, changed, gone, shared, saved>>
      /\ at[t] = "peers" /\ next[t] = PEER_MAX
      /\ at' = [at EXCEPT ![t] = "idle"] /\ next' = [next EXCEPT ![t] = 0]
      /\ TypeOK
  BY DEF Return, IInv, history
<1>1. /\ at'[t] = "idle"
      /\ \A u \in Callers \ {t} : at'[u] = at[u] /\ next'[u] = next[u]
  BY <1>0 DEF TypeOK
<1>2. TypeOK'
  <2>1. next' \in [Callers -> 0 .. PEER_MAX]
    BY <1>0, Sizes DEF TypeOK
  <2> QED BY <1>0, <2>1 DEF TypeOK
<1>3. /\ Complete' = Complete /\ OnlyWanted' = OnlyWanted
      /\ Wanted' = Wanted /\ Listed' = Listed
  BY <1>0, TableStands
<1>4. HeldIsSeed' /\ HeldFits' /\ BridgeFits' /\ OnlyWanted'
  BY <1>0, <1>1, <1>3 DEF IInv, HeldIsSeed, HeldFits, BridgeFits
<1>5. AtMostOne' /\ SavedIsCalled'
  BY <1>0, <1>1 DEF IInv, AtMostOne, SavedIsCalled, Filling, Callers
<1>6. Leads(t) => Complete
  BY <1>0 DEF Leads, Done, Complete
<1>7. ASSUME NEW u \in Callers \ {t}, Leads(u) PROVE Leads(u)'
  BY <1>0, <1>1, <1>7 DEF Leads, In, InOrFull, Done, HeldIsCurrent
<1>8. SomeoneLeads'
  BY <1>3, <1>6, <1>7 DEF IInv, SomeoneLeads
<1> QED BY <1>2, <1>4, <1>5, <1>8 DEF IInv

LEMMA ReadPeerKeeps ==
  ASSUME IInv, NEW t \in Callers, ReadPeer(t)
  PROVE  IInv'
<1>0. /\ UNCHANGED <<peers, bridge, seeds, stage, changed, gone, shared, saved>>
      /\ at[t] = "peers" /\ next[t] < PEER_MAX
      /\ at' = [at EXCEPT ![t] = AfterRead(t)]
      /\ next' = [next EXCEPT ![t] = next[t] + 1]
      /\ held' = [held EXCEPT ![t] = IF at'[t] = "adding" THEN peers[next[t]] ELSE NoPeer]
      /\ TypeOK
  BY DEF ReadPeer, IInv, history
<1>1. /\ at'[t] = IF Eligible(peers[next[t]]) THEN "adding" ELSE "peers"
      /\ next'[t] = next[t] + 1
      /\ at'[t] = "adding" => held'[t] = peers[next[t]]
      /\ \A u \in Callers \ {t} : at'[u] = at[u] /\ next'[u] = next[u] /\ held'[u] = held[u]
  BY <1>0 DEF TypeOK, AfterRead
<1>2. next[t] \in Indices /\ next[t] \in Nat
  BY <1>0, Sizes DEF TypeOK, Indices
<1>3. TypeOK'
  <2>1. at' \in [Callers -> {"idle", "called", "settings", "peers", "adding"}]
    BY <1>0 DEF TypeOK, AfterRead
  <2>2. next' \in [Callers -> 0 .. PEER_MAX]
    BY <1>0, Sizes DEF TypeOK
  <2>3. held' \in [Callers -> Peer]
    BY <1>0, <1>2, NoPeerFits DEF TypeOK
  <2> QED BY <1>0, <2>1, <2>2, <2>3 DEF TypeOK
<1>4. HeldIsSeed'
  BY <1>0, <1>1 DEF IInv, HeldIsSeed, Eligible
<1>5. /\ Complete' = Complete /\ OnlyWanted' = OnlyWanted
      /\ Wanted' = Wanted /\ Listed' = Listed
  BY <1>0, TableStands
(* The peer is wanted, or the bridge was switched off behind the caller.   *)
<1>6. at'[t] = "adding" => held'[t].host \in Wanted \cup gone
  <2> SUFFICES ASSUME at'[t] = "adding" PROVE held'[t].host \in Wanted \cup gone
    OBVIOUS
  <2>1. held'[t].host \in Listed
    BY <1>1, <1>2 DEF Listed
  <2>2. bridge = 0 => Listed \subseteq gone
    BY <1>0 DEF IInv, BridgeFits
  <2> QED BY <2>1, <2>2 DEF Wanted
<1>7. HeldFits'
  BY <1>0, <1>1, <1>5, <1>6 DEF IInv, HeldFits
<1>8. BridgeFits' /\ OnlyWanted'
  BY <1>0, <1>1, <1>5 DEF IInv, BridgeFits
<1>9. AtMostOne' /\ SavedIsCalled'
  BY <1>0, <1>1 DEF IInv, AtMostOne, SavedIsCalled, Filling, Callers
(* A peer that is skipped is one the table does not want.                  *)
<1>10. ASSUME Leads(t) PROVE Leads(t)'
  <2>1. In(next[t]) /\ (shared \/ Len(seeds) <= next[t])
    BY <1>0, <1>10 DEF Leads, Done
  <2>2. CASE Eligible(peers[next[t]])
    <3>1. at'[t] = "adding" /\ Done(t)' = next[t]
      BY <1>1, <1>2, <2>2 DEF Done
    <3>2. In(Done(t))'
      BY <1>0, <2>1, <3>1 DEF In, InOrFull
    <3>3. next'[t] >= 1 /\ next'[t] - 1 = next[t]
      BY <1>1, <1>2
    <3>4. HeldIsCurrent(t)'
      BY <1>0, <1>1, <3>1, <3>3 DEF HeldIsCurrent
    <3> QED BY <1>0, <2>1, <3>1, <3>2, <3>4 DEF Leads
  <2>3. CASE ~Eligible(peers[next[t]])
    <3>1. at'[t] = "peers" /\ Done(t)' = next[t] + 1
      BY <1>1, <2>3 DEF Done
    <3>2. ASSUME NEW i \in Indices \ changed, i < next[t] + 1, Eligible(peers[i])
          PROVE  InOrFull(i)
      <4>1. i < next[t]
        BY <1>2, <2>3, <3>2 DEF Indices
      <4> QED BY <2>1, <3>2, <4>1 DEF In
    <3>3. In(Done(t))'
      BY <1>0, <3>1, <3>2 DEF In, InOrFull, Eligible
    <3>4. Len(seeds) \in Nat
      BY <1>0 DEF TypeOK
    <3>5. Len(seeds) <= next[t] => Len(seeds) <= next[t] + 1
      BY <1>2, <3>4
    <3> QED BY <1>0, <2>1, <3>1, <3>3, <3>5 DEF Leads
  <2> QED BY <2>2, <2>3
<1>11. ASSUME NEW u \in Callers \ {t}, Leads(u) PROVE Leads(u)'
  BY <1>0, <1>1, <1>11 DEF Leads, In, InOrFull, Done, HeldIsCurrent
<1>12. SomeoneLeads'
  BY <1>5, <1>10, <1>11 DEF IInv, SomeoneLeads
<1> QED BY <1>3, <1>4, <1>7, <1>8, <1>9, <1>12 DEF IInv

LEMMA AddSeedKeeps ==
  ASSUME IInv, NEW t \in Callers, AddSeed(t)
  PROVE  IInv'
<1> DEFINE h == held[t].host
<1>0. /\ UNCHANGED <<peers, bridge, next, stage, changed, gone, shared, saved>>
      /\ at[t] = "adding" /\ at' = [at EXCEPT ![t] = "peers"]
      /\ held' = [held EXCEPT ![t] = NoPeer]
      /\ TypeOK
  BY DEF AddSeed, IInv, history
<1>1. /\ at'[t] = "peers"
      /\ \A u \in Callers \ {t} : at'[u] = at[u] /\ held'[u] = held[u]
  BY <1>0 DEF TypeOK
<1>2. h \in Addresses /\ seeds \in Seq(Addresses) /\ Len(seeds) \in Nat
  BY <1>0 DEF IInv, HeldIsSeed, TypeOK
<1>3. /\ seeds' \in Seq(Addresses) /\ Len(seeds') <= P2P_PEER_MAX
      /\ Len(seeds') <= Len(seeds) + 1
      /\ Len(seeds') >= Len(seeds)
      /\ Range(seeds) \subseteq Range(seeds')
      /\ Range(seeds') \subseteq Range(seeds) \cup {h}
      /\ h \in Range(seeds') \/ Len(seeds') = P2P_PEER_MAX
      /\ Len(seeds) < P2P_PEER_MAX => h \in Range(seeds')
  <2>1. CASE Len(seeds) < P2P_PEER_MAX /\ seeds' = Append(seeds, h)
    BY <1>2, <2>1, Appended, Sizes
  <2>2. CASE (Len(seeds) >= P2P_PEER_MAX \/ Contains(seeds, h)) /\ UNCHANGED seeds
    <3>1. h \in Range(seeds) \/ Len(seeds) >= P2P_PEER_MAX
      BY <1>2, <2>2, Found
    <3>2. Len(seeds) <= P2P_PEER_MAX
      BY <1>0 DEF TypeOK
    <3>3. Len(seeds) >= P2P_PEER_MAX => Len(seeds) = P2P_PEER_MAX
      BY <1>2, <3>2, Sizes
    <3>4. Len(seeds) < P2P_PEER_MAX => ~(Len(seeds) >= P2P_PEER_MAX)
      BY <1>2, Sizes
    <3> QED BY <1>2, <2>2, <3>1, <3>2, <3>3, <3>4
  <2> QED BY <2>1, <2>2 DEF AddSeed
<1> HIDE DEF h
<1>4. TypeOK'
  <2>1. at' \in [Callers -> {"idle", "called", "settings", "peers", "adding"}]
    BY <1>0 DEF TypeOK
  <2>2. held' \in [Callers -> Peer]
    BY <1>0, NoPeerFits DEF TypeOK
  <2> QED BY <1>0, <1>3, <2>1, <2>2 DEF TypeOK
<1>5. HeldIsSeed'
  BY <1>0, <1>1 DEF IInv, HeldIsSeed
<1>6. Wanted' = Wanted /\ Listed' = Listed
  BY <1>0 DEF Wanted, Listed
<1>7. HeldFits' /\ BridgeFits'
  BY <1>0, <1>1, <1>6 DEF IInv, HeldFits, BridgeFits
<1>8. OnlyWanted'
  <2>1. h \in Wanted \cup gone
    BY <1>0 DEF IInv, HeldFits, h
  <2> QED BY <1>0, <1>3, <1>6, <2>1 DEF IInv, OnlyWanted
<1>9. AtMostOne' /\ SavedIsCalled'
  BY <1>0, <1>1 DEF IInv, AtMostOne, SavedIsCalled, Filling, Callers
(* What is in the table, or finds it full, stays so.                       *)
<1>10. \A i : InOrFull(i) => InOrFull(i)'
  <2>1. Len(seeds) = P2P_PEER_MAX => Len(seeds') = P2P_PEER_MAX
    <3>1. Len(seeds') \in Nat
      BY <1>3
    <3> QED BY <1>2, <1>3, <3>1, Sizes
  <2> QED BY <1>0, <1>3, <2>1 DEF InOrFull
<1>11. \A n : In(n) => In(n)'
  BY <1>0, <1>10 DEF In
<1>12. Complete => Complete'
  BY <1>0, <1>11 DEF Complete
(* The table of the caller that leads alone has room for one more.         *)
<1>13. ASSUME Leads(t) PROVE Leads(t)'
  <2>1. /\ In(next[t] - 1) /\ HeldIsCurrent(t)
        /\ shared \/ Len(seeds) <= next[t] - 1
    BY <1>0, <1>13 DEF Leads, Done
  <2>2. next[t] \in Nat /\ next[t] <= PEER_MAX /\ next[t] >= 1
    BY <1>0, <2>1, Sizes DEF TypeOK, HeldIsCurrent
  <2>3. Len(seeds) <= next[t] - 1 => Len(seeds) < P2P_PEER_MAX
    BY <1>2, <2>2, Sizes
  <2>4. h \in Range(seeds') \/ (shared /\ Len(seeds') = P2P_PEER_MAX)
    BY <1>3, <2>1, <2>3
  <2>5. ASSUME NEW i \in Indices \ changed, i < next[t], Eligible(peers[i])
        PROVE  InOrFull(i)'
    <3>1. i < next[t] - 1 \/ i = next[t] - 1
      BY <2>2, <2>5 DEF Indices
    <3>2. CASE i < next[t] - 1
      BY <1>10, <2>1, <2>5, <3>2 DEF In
    <3>3. CASE i = next[t] - 1
      <4>1. held[t] = peers[i]
        BY <2>1, <3>3 DEF HeldIsCurrent
      <4> QED BY <1>0, <2>4, <4>1 DEF h, InOrFull
    <3> QED BY <3>1, <3>2, <3>3
  <2>6. at'[t] = "peers" /\ Done(t)' = next[t]
    BY <1>0, <1>1 DEF Done
  <2>7. In(Done(t))'
    BY <1>0, <2>5, <2>6 DEF In
  <2>8. Len(seeds) <= next[t] - 1 => Len(seeds') <= next[t]
    <3>1. Len(seeds') \in Nat
      BY <1>3
    <3> QED BY <1>2, <1>3, <2>2, <3>1
  <2> QED BY <1>0, <2>1, <2>6, <2>7, <2>8 DEF Leads
(* If another caller leads, two are at work.                               *)
<1>14. ASSUME NEW u \in Callers \ {t}, Leads(u) PROVE Leads(u)'
  <2>1. at'[u] = at[u] /\ Done(u)' = Done(u)
    BY <1>0, <1>1 DEF Done
  <2>2. shared
    BY <1>0, <1>14 DEF IInv, AtMostOne, Filling, Leads, Callers
  <2>3. In(Done(u)) => In(Done(u))'
    BY <1>0, <1>10, <2>1 DEF In
  <2>4. HeldIsCurrent(u) => HeldIsCurrent(u)'
    BY <1>0, <1>1 DEF HeldIsCurrent
  <2> QED BY <1>0, <1>14, <2>1, <2>2, <2>3, <2>4 DEF Leads
<1>15. SomeoneLeads'
  BY <1>12, <1>13, <1>14 DEF IInv, SomeoneLeads
<1> QED BY <1>4, <1>5, <1>7, <1>8, <1>9, <1>15 DEF IInv

----------------------------------------------------------------------------
(* The theorems                                                            *)

(* Every step of main, the HTTP thread, the console and the button keeps   *)
(* the invariant of bridge_control_apply_peers.                            *)
THEOREM PeerSeedsInvariant == Spec => []IInv
<1>1. IInv /\ [Next]_vars => IInv'
  <2> SUFFICES ASSUME IInv, [Next]_vars PROVE IInv'
    OBVIOUS
  <2>1. CASE BootCalls \/ StartCalls
    BY <2>1, CallsKeep
  <2>2. ASSUME NEW t \in Callers, Apply(t) PROVE IInv'
    BY <2>2, BeginKeeps, CheckBridgeKeeps, ReadPeerKeeps, AddSeedKeeps, ReturnKeeps
       DEF Apply
  <2>3. ASSUME NEW i \in Indices, NEW p \in Offered, PostPeer(i, p) \/ ConsolePeer(i, p)
        PROVE  IInv'
    BY <2>3, ChangesKeep
  <2>4. ASSUME NEW b \in {0, 1}, PostBridge(b) PROVE IInv'
    BY <2>4, ChangesKeep
  <2>5. CASE ResetAll
    BY <2>5, ChangesKeep
  <2>6. CASE UNCHANGED vars
    <3>1. UNCHANGED <<peers, bridge, seeds, at, next, held>>
      BY <2>6 DEF vars
    <3>2. UNCHANGED <<stage, changed, gone, shared, saved>>
      BY <2>6 DEF vars
    <3>3. TypeOK' /\ HeldIsSeed' /\ AtMostOne' /\ SavedIsCalled'
      BY <3>1, <3>2 DEF IInv, TypeOK, HeldIsSeed, AtMostOne, Filling, SavedIsCalled
    <3>4. OnlyWanted' /\ HeldFits' /\ BridgeFits'
      BY <3>1, <3>2 DEF IInv, OnlyWanted, HeldFits, BridgeFits, Wanted, Listed
    <3>5. SomeoneLeads'
      BY <3>1, <3>2 DEF IInv, SomeoneLeads, Complete, Leads, In, InOrFull, Done,
         HeldIsCurrent
    <3> QED BY <3>3, <3>4, <3>5 DEF IInv
  <2> QED BY <2>1, <2>2, <2>3, <2>4, <2>5, <2>6 DEF Next
<1> QED BY <1>1, InitIInv, PTL DEF Spec

(* The table holds addresses only and never more than the library's        *)
(* capacity, and the variables keep their types.                           *)
THEOREM PeerSeedsTypeCorrect == Spec => []TypeOK
<1>1. IInv => TypeOK
  BY DEF IInv
<1> QED BY <1>1, PeerSeedsInvariant, PTL

(* Whoever interrupts whom, main's and the HTTP thread's calls of           *)
(* bridge_control_apply_peers and the changes: the table holds nothing but *)
(* wanted peers and addresses just taken away, and once nobody fills it no *)
(* eligible peer that stood still is missing, unless both filled it and    *)
(* used it up.                                                             *)
THEOREM SeedsMatchTheorem == Spec => []SeedsMatch
<1>1. IInv => SeedsMatch
  <2> SUFFICES ASSUME IInv PROVE SeedsMatch
    OBVIOUS
  <2>1. Range(seeds) \subseteq Wanted \cup gone
    BY DEF IInv, OnlyWanted
  <2>2. Quiet => Complete
    BY DEF IInv, SomeoneLeads, Leads, Quiet
  <2>3. ASSUME Quiet, bridge = 1, NEW i \in Indices \ changed, Eligible(peers[i])
        PROVE  peers[i].host \in Range(seeds) \/ (shared /\ Len(seeds) = P2P_PEER_MAX)
    <3>1. i < PEER_MAX
      BY Sizes DEF Indices
    <3> QED BY <2>2, <2>3, <3>1 DEF Complete, In, InOrFull
  <2> QED BY <2>1, <2>3 DEF SeedsMatch
<1> QED BY <1>1, PeerSeedsInvariant, PTL

(* The handler of POST /peers/<i> does not return before the table was     *)
(* emptied after its change.                                               *)
THEOREM SavedPeerAppliedTheorem == Spec => []SavedPeerApplied
<1>1. IInv => SavedPeerApplied
  BY DEF IInv, TypeOK, SavedIsCalled, SavedPeerApplied, Quiet, Callers
<1> QED BY <1>1, PeerSeedsInvariant, PTL

(* The report of GET /peer-status and bridge_control agree on every peer   *)
(* the configuration can hold, validated or not.                           *)
THEOREM SeededIsReportedTheorem == Spec => []SeededIsReported
<1>1. ASSUME NEW p \in Peer, NEW c \in SUBSET Addresses, NEW r \in BOOLEAN
      PROVE  LET reported == PeerState(p, c, r) \notin {"disabled", "unknown"} IN
             /\ Eligible(p) => reported
             /\ ValidPeer(p) /\ reported => Eligible(p)
  <2>1. p.enabled \in {0, 1} /\ p.p2p \in {0, 1}
    BY DEF Peer
  <2>2. CASE p.enabled = 0
    BY <2>2 DEF PeerState, Eligible
  <2>3. CASE p.enabled = 1 /\ (p.host \notin Addresses \/ p.p2p = 0)
    BY <2>3 DEF PeerState, Eligible
  <2>4. CASE p.enabled = 1 /\ p.host \in Addresses /\ p.p2p # 0
    <3>1. PeerState(p, c, r) \notin {"disabled", "unknown"}
      BY <2>4 DEF PeerState
    <3> QED BY <2>4, <3>1 DEF Eligible, ValidPeer
  <2> QED BY <2>1, <2>2, <2>3, <2>4
<1>2. TypeOK => SeededIsReported
  BY <1>1 DEF TypeOK, SeededIsReported
<1> QED BY <1>2, PeerSeedsTypeCorrect, PTL
============================================================================
