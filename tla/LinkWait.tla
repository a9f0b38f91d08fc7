------------------------------ MODULE LinkWait ------------------------------
(***************************************************************************)
(* The wait for the link of the W5500, wait_for_w5500_link_stable of       *)
(* app/src/main.c: the link is sampled every 250 ms until it was up in a    *)
(* number of samples in a row, or the time is over.                        *)
(*                                                                         *)
(* BrokerLifecycle runs it inside the boot.  The samples are kept as they  *)
(* come, so that what the wait decides can be compared with what it saw.   *)
(***************************************************************************)
EXTENDS Naturals, Sequences

CONSTANTS
  LINK_SAMPLES, \* W5500_LINK_TIMEOUT_MS / W5500_LINK_SAMPLE_MS
  LINK_STABLE   \* W5500_LINK_STABLE_SAMPLES

ASSUME LinkAssumption ==
  /\ LINK_SAMPLES \in Nat \ {0} /\ LINK_STABLE \in Nat \ {0}
  /\ LINK_STABLE <= LINK_SAMPLES

VARIABLES
  samples, \* what product_ethernet_link_ready returned, one per round; its
           \* length is elapsed_ms
  stable   \* stable_samples

linkVars == <<samples, stable>>

LinkTypeOK ==
  /\ samples \in Seq(BOOLEAN) /\ Len(samples) \in 0 .. LINK_SAMPLES
  /\ stable \in 0 .. LINK_STABLE

NoSamples == samples = <<>> /\ stable = 0

(* The locals of the wait do not outlive it. *)
ForgetSamples == samples' = <<>> /\ stable' = 0

(* Mutant: a miss does not start the count again. *)
CountMisses(up) == IF up THEN stable + 1 ELSE stable

Counted(up) == IF up THEN stable + 1 ELSE 0
IsStable == stable >= LINK_STABLE

Waiting == ~IsStable /\ Len(samples) < LINK_SAMPLES
TimedOut == ~IsStable /\ Len(samples) >= LINK_SAMPLES

(* One round of the loop. *)
Sample(up) ==
  /\ Waiting
  /\ samples' = Append(samples, up)
  /\ stable' = Counted(up)

(* The link was up in each of the LINK_STABLE samples of s that end here.   *)
UpUntil(s, last) ==
  LINK_STABLE <= last /\ \A i \in (last - LINK_STABLE + 1) .. last : s[i]
=============================================================================
