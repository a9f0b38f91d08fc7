----------------------------- MODULE PeerSeeds -----------------------------
(***************************************************************************)
(* From configured peers to the static seed table of the p2p library,      *)
(* app/src/bridge_control.c, and everything that changes what it reads.    *)
(*                                                                         *)
(* bridge_control_apply_peers empties the table and fills it again from    *)
(* the configuration, one peer at a time and without a lock.  It is called *)
(* by the main thread (while booting and when it starts the broker) and by *)
(* the HTTP server thread (after POST /peers/<i>).  The console, the reset *)
(* commands and the button change the configuration without calling it.    *)
(* The repository sets no priority for the HTTP server, so nothing is      *)
(* assumed of the scheduler: between any two steps of one thread any other *)
(* may run, and the two callers may fill the table at the same time.       *)
(*                                                                         *)
(* Peers read from flash are not validated, so bridge_control checks them  *)
(* again, and so does the report of GET /peer-status (product_runtime.c).  *)
(* A port is 0 or 1: whether it is zero.                                   *)
(***************************************************************************)
EXTENDS Naturals, Sequences, SequencesExt

CONSTANTS
  PEER_MAX,     \* FIELD_BRIDGE_PEER_MAX
  P2P_PEER_MAX, \* capacity of the seed table
  Addresses,    \* hosts that are IPv4 addresses
  Names,        \* hosts that are not
  Stored,       \* peers the flash may hold, validated or not
  Offered       \* peers that users ask for

ASSUME SizeAssumption ==
  /\ PEER_MAX \in Nat \ {0} /\ P2P_PEER_MAX \in Nat
  /\ P2P_PEER_MAX >= PEER_MAX
ASSUME HostAssumption == Addresses \cap Names = {} /\ "" \notin Addresses \cup Names

Indices == 0 .. (PEER_MAX - 1)
Hosts == Addresses \cup Names \cup {""}
Peer == [host : Hosts, mqtt : {0, 1}, p2p : {0, 1}, enabled : {0, 1}]
NoPeer == [host |-> "", mqtt |-> 0, p2p |-> 0, enabled |-> 0]
ValidPeer(p) == p.enabled = 1 => p.host # "" /\ p.mqtt # 0 /\ p.p2p # 0

ASSUME PeerAssumption == Stored \subseteq Peer /\ Offered \subseteq Peer

Callers == {"main", "http"}

VARIABLES
  peers,   \* the peers in RAM
  bridge,  \* broker.bridge_enabled in RAM
  seeds,   \* the seed table
  at,      \* where each caller is in bridge_control_apply_peers
  next,    \* the index each caller looks at next
  held,    \* the peer each caller has read and not yet added, or NoPeer
  stage,   \* main has called for "none", for "boot" or for the broker's "start"
  changed, \* history: the indices that changed since the table was last emptied
  gone,    \* history: addresses a change made unwanted that a caller may still hold
  shared,  \* history: the table was last emptied while another caller filled it
  saved    \* history: the last change was a POST /peers/<i> that was saved

history == <<changed, gone, shared, saved>>
vars == <<peers, bridge, seeds, at, next, held, stage, changed, gone, shared, saved>>

TypeOK ==
  /\ peers \in [Indices -> Peer]
  /\ bridge \in {0, 1}
  /\ seeds \in Seq(Addresses) /\ Len(seeds) <= P2P_PEER_MAX
  /\ at \in [Callers -> {"idle", "called", "settings", "peers", "adding"}]
  /\ next \in [Callers -> 0 .. PEER_MAX]
  /\ held \in [Callers -> Peer]
  /\ stage \in {"none", "boot", "start"}
  /\ changed \subseteq Indices /\ gone \subseteq Addresses
  /\ shared \in BOOLEAN /\ saved \in BOOLEAN

(* Caller t is reading the configuration or filling the table. *)
Filling(t) == at[t] \in {"settings", "peers", "adding"}

(* Mutants: what is stored is trusted; the ports are not checked. *)
EligibleByName(p) == p.enabled = 1
EligibleByHost(p) == p.enabled = 1 /\ p.host \in Addresses

(* What the table is meant to hold. *)
Eligible(p) ==
  p.enabled = 1 /\ p.host \in Addresses /\ p.mqtt # 0 /\ p.p2p # 0
Listed == {peers[i].host : i \in {j \in Indices : Eligible(peers[j])}}
Wanted == IF bridge = 0 THEN {} ELSE Listed

----------------------------------------------------------------------------
(* bridge_control_apply_peers                                              *)

(* main calls it from bridge_control_init, once the network is up, ...     *)
BootCalls ==
  /\ at["main"] = "idle" /\ stage = "none"
  /\ stage' = "boot"
  /\ at' = [at EXCEPT !["main"] = "called"]
  /\ UNCHANGED <<peers, bridge, seeds, next, held, history>>

(* ... and once more before it creates the broker's thread, after the      *)
(* address and the port were accepted.                                     *)
StartCalls ==
  /\ at["main"] = "idle" /\ stage = "boot"
  /\ stage' = "start"
  /\ at' = [at EXCEPT !["main"] = "called"]
  /\ UNCHANGED <<peers, bridge, seeds, next, held, history>>

(* p2p_static_seed_clear, and the history that starts with it. *)
Begin(t) ==
  /\ at[t] = "called"
  /\ seeds' = <<>>
  /\ at' = [at EXCEPT ![t] = "settings"]
  /\ next' = [next EXCEPT ![t] = 0]
  /\ shared' = (\E u \in Callers \ {t} : Filling(u))
  /\ changed' = {}
  /\ gone' = IF shared' THEN gone ELSE {}
  /\ UNCHANGED <<peers, bridge, held, stage, saved>>

(* A disabled bridge leaves the table empty. *)
CheckBridge(t) ==
  /\ at[t] = "settings"
  /\ at' = [at EXCEPT ![t] = IF bridge = 1 THEN "peers" ELSE "idle"]
  /\ UNCHANGED <<peers, bridge, seeds, next, held, stage, history>>

(* Mutant: the loop ends at the first peer it cannot use. *)
StopAtUnusable(t) ==
  IF Eligible(peers[next[t]]) THEN "adding" ELSE "idle"

(* The peer is copied; one that is disabled, whose host is empty or a name, *)
(* or that lacks a port, is skipped.                                       *)
AfterRead(t) == IF Eligible(peers[next[t]]) THEN "adding" ELSE "peers"

ReadPeer(t) ==
  /\ at[t] = "peers" /\ next[t] < PEER_MAX
  /\ at' = [at EXCEPT ![t] = AfterRead(t)]
  /\ held' = [held EXCEPT ![t] = IF at'[t] = "adding" THEN peers[next[t]] ELSE NoPeer]
  /\ next' = [next EXCEPT ![t] = @ + 1]
  /\ UNCHANGED <<peers, bridge, seeds, stage, history>>

(* p2p_static_seed_add: a full table refuses the seed and the loop goes on. *)
(* Whether a seed that is in the table is added again is the library's     *)
(* choice.                                                                 *)
AddSeed(t) ==
  /\ at[t] = "adding"
  /\ \/ /\ Len(seeds) < P2P_PEER_MAX
        /\ seeds' = Append(seeds, held[t].host)
     \/ /\ Len(seeds) >= P2P_PEER_MAX \/ Contains(seeds, held[t].host)
        /\ UNCHANGED seeds
  /\ at' = [at EXCEPT ![t] = "peers"]
  /\ held' = [held EXCEPT ![t] = NoPeer]
  /\ UNCHANGED <<peers, bridge, next, stage, history>>

Return(t) ==
  /\ at[t] = "peers" /\ next[t] = PEER_MAX
  /\ at' = [at EXCEPT ![t] = "idle"]
  /\ next' = [next EXCEPT ![t] = 0]
  /\ UNCHANGED <<peers, bridge, seeds, held, stage, history>>

----------------------------------------------------------------------------
(* Changes of the configuration                                            *)

(* History of a change of the peers in S, or of bridge_enabled.             *)
Changed(S) ==
  /\ changed' = changed \cup S
  /\ gone' = gone \cup ((Listed \cup Listed') \ Wanted')
  /\ UNCHANGED shared

SetPeer(i, p) ==
  /\ ValidPeer(p)
  /\ peers' = [peers EXCEPT ![i] = p]
  /\ UNCHANGED bridge

(* Mutant: the saved peer is left for the next boot. *)
LeaveForBoot(t) == UNCHANGED at

CallApply(t) == at' = [at EXCEPT ![t] = "called"]

(* POST /peers/<i>, apply_peer_json: the peers are applied only if the save *)
(* worked, but RAM has changed either way.                                  *)
PostPeer(i, p) ==
  /\ at["http"] = "idle"
  /\ SetPeer(i, p)
  /\ \/ CallApply("http") /\ saved' = TRUE
     \/ UNCHANGED at /\ saved' = FALSE
  /\ Changed({i})
  /\ UNCHANGED <<seeds, next, held, stage>>

(* "peer" on the console saves the peer and does not apply it. *)
ConsolePeer(i, p) ==
  /\ SetPeer(i, p)
  /\ Changed({i}) /\ saved' = FALSE
  /\ UNCHANGED <<seeds, at, next, held, stage>>

(* bridge_enabled of POST /config.  It does not apply the peers either. *)
PostBridge(b) ==
  /\ at["http"] = "idle"
  /\ bridge' = b
  /\ UNCHANGED <<peers, seeds, at, next, held, stage>>
  /\ Changed(Indices) /\ saved' = FALSE

(* The button, or a reset command: no peers, bridge enabled.                *)
ResetAll ==
  /\ peers' = [i \in Indices |-> NoPeer]
  /\ bridge' = 1
  /\ Changed(Indices) /\ saved' = FALSE
  /\ UNCHANGED <<seeds, at, next, held, stage>>

----------------------------------------------------------------------------
(* GET /peer-status                                                        *)

(* What product_runtime_get_peer_statuses says of a peer.  connected: the  *)
(* addresses of the library's snapshot, with the port of the peer;         *)
(* requested: broker_state.                                                *)
PeerState(p, connected, requested) ==
  CASE p.enabled = 0                               -> "disabled"
    [] p.enabled = 1 /\ (p.host \notin Addresses \/ p.p2p = 0) -> "unknown"
    [] p.enabled = 1 /\ p.host \in Addresses /\ p.p2p # 0 ->
         IF p.host \in connected THEN "connected"
         ELSE IF requested THEN "connecting" ELSE "disconnected"

----------------------------------------------------------------------------

Init ==
  /\ peers \in [Indices -> Stored]
  /\ bridge \in {0, 1}
  /\ seeds = <<>>
  /\ at = [t \in Callers |-> "idle"]
  /\ next = [t \in Callers |-> 0]
  /\ held = [t \in Callers |-> NoPeer]
  /\ stage = "none"
  /\ changed = Indices /\ gone = {} /\ shared = FALSE /\ saved = FALSE

Apply(t) == Begin(t) \/ CheckBridge(t) \/ ReadPeer(t) \/ AddSeed(t) \/ Return(t)

Next ==
  \/ BootCalls \/ StartCalls
  \/ \E t \in Callers : Apply(t)
  \/ \E i \in Indices, p \in Offered : PostPeer(i, p) \/ ConsolePeer(i, p)
  \/ \E b \in {0, 1} : PostBridge(b)
  \/ ResetAll

Spec == Init /\ [][Next]_vars

----------------------------------------------------------------------------
(* Properties                                                              *)

Quiet == \A t \in Callers : at[t] = "idle"

(* Whatever the callers and the changes do to each other: at every moment  *)
(* the table holds only the eligible peers of an enabled bridge, and        *)
(* addresses that a change took away since the table was emptied, or while *)
(* a caller that is still filling it ran.  When nobody fills the table,    *)
(* every eligible peer that has not changed since it was emptied is in it, *)
(* even if another change came in between or main and the HTTP thread       *)
(* filled it at the same time; only in that last case may their two copies *)
(* of one peer use up the table and leave another peer out.                *)
SeedsMatch ==
  /\ Range(seeds) \subseteq Wanted \cup gone
  /\ Quiet /\ bridge = 1 =>
       \A i \in Indices \ changed :
         Eligible(peers[i]) =>
           \/ peers[i].host \in Range(seeds)
           \/ shared /\ Len(seeds) = P2P_PEER_MAX

(* A peer saved over HTTP is in the table, or out of it, without a reboot: *)
(* once its handler has returned, the table was emptied after the change.  *)
SavedPeerApplied == Quiet /\ saved => changed = {}

(* The two halves of the firmware judge a peer on their own: one that is   *)
(* handed to the library is never reported as disabled or unknown, whatever *)
(* the flash held, and a peer that validates is handed over exactly if its *)
(* report is one of the three about its connection.                        *)
SeededIsReported ==
  \A i \in Indices, connected \in SUBSET Addresses, requested \in BOOLEAN :
    LET reported ==
          PeerState(peers[i], connected, requested) \notin {"disabled", "unknown"} IN
    /\ Eligible(peers[i]) => reported
    /\ ValidPeer(peers[i]) /\ reported => Eligible(peers[i])
=============================================================================
