--------------------------- MODULE LinkWaitProofs ---------------------------
(***************************************************************************)
(* What the count of LinkWait says about the samples, for every timeout    *)
(* and every number of samples that must be up in a row.                   *)
(***************************************************************************)
EXTENDS LinkWait, TLAPS

(* stable is the number of samples at the end in which the link was up, and *)
(* before that the wait was not over.                                       *)
LinkInv ==
  /\ LinkTypeOK
  /\ stable <= Len(samples)
  /\ \A i \in (Len(samples) - stable + 1) .. Len(samples) : samples[i]
  /\ stable < Len(samples) => ~samples[Len(samples) - stable]
  /\ \A last \in 1 .. Len(samples) :
       UpUntil(samples, last) => last = Len(samples) /\ IsStable

LEMMA NoSamplesInv == NoSamples => LinkInv
BY LinkAssumption DEF NoSamples, LinkInv, LinkTypeOK

LEMMA ForgetInv == ForgetSamples => LinkInv'
BY LinkAssumption DEF ForgetSamples, LinkInv, LinkTypeOK

LEMMA StutterInv == LinkInv /\ UNCHANGED linkVars => LinkInv'
BY DEF LinkInv, LinkTypeOK, UpUntil, IsStable, linkVars

LEMMA SampleInv ==
  ASSUME LinkInv, NEW up \in BOOLEAN, Sample(up)
  PROVE  LinkInv'
<1> DEFINE n == Len(samples)
<1>1. /\ samples \in Seq(BOOLEAN) /\ n \in Nat /\ n < LINK_SAMPLES
      /\ stable \in Nat /\ stable < LINK_STABLE /\ stable <= n
  BY LinkAssumption DEF LinkInv, LinkTypeOK, Sample, Waiting, IsStable
<1>2. /\ samples' \in Seq(BOOLEAN) /\ Len(samples') = n + 1
      /\ \A i \in 1 .. n : samples'[i] = samples[i]
      /\ samples'[n + 1] = up
  BY <1>1 DEF Sample
<1>3. stable' = IF up THEN stable + 1 ELSE 0
  BY DEF Sample, Counted
<1>4. LinkTypeOK'
  BY <1>1, <1>2, <1>3, LinkAssumption DEF LinkTypeOK
<1>5. stable' <= n + 1
  BY <1>1, <1>3
<1>6. ASSUME NEW i \in ((n + 1) - stable' + 1) .. (n + 1) PROVE samples'[i]
  <2>1. up /\ stable' = stable + 1
    BY <1>1, <1>3
  <2>2. CASE i = n + 1
    BY <1>2, <2>1, <2>2
  <2>3. CASE i # n + 1
    <3>1. i \in 1 .. n /\ i \in (n - stable + 1) .. n
      BY <1>1, <2>1, <2>3
    <3>2. samples[i]
      BY <3>1 DEF LinkInv
    <3>3. QED
      BY <1>2, <3>1, <3>2
  <2>4. QED
    BY <2>2, <2>3
<1>7. ASSUME stable' < n + 1 PROVE ~samples'[(n + 1) - stable']
  <2>1. CASE up
    <3>1. stable < n /\ n - stable \in 1 .. n /\ (n + 1) - stable' = n - stable
      BY <1>1, <1>3, <1>7, <2>1
    <3>2. ~samples[n - stable]
      BY <3>1 DEF LinkInv
    <3>3. samples'[n - stable] = samples[n - stable]
      BY <1>2, <3>1
    <3>4. QED
      BY <3>1, <3>2, <3>3
  <2>2. CASE ~up
    <3>1. (n + 1) - stable' = n + 1
      BY <1>1, <1>3, <2>2
    <3>2. QED
      BY <1>2, <2>2, <3>1
  <2>3. QED
    BY <2>1, <2>2
<1>8. ASSUME NEW last \in 1 .. n PROVE ~UpUntil(samples', last)
  <2>1. ~UpUntil(samples, last)
    BY <1>1, LinkAssumption DEF LinkInv, IsStable
  <2>2. QED
    BY <1>1, <1>2, <2>1, LinkAssumption DEF UpUntil
<1>9. ASSUME UpUntil(samples', n + 1) PROVE stable' >= LINK_STABLE
  <2>1. LINK_STABLE <= n + 1 /\ \A i \in ((n + 1) - LINK_STABLE + 1) .. (n + 1) : samples'[i]
    BY <1>9 DEF UpUntil
  <2>2. up
    BY <1>1, <1>2, <2>1, LinkAssumption
  <2>3. SUFFICES ASSUME stable + 1 < LINK_STABLE PROVE FALSE
    BY <1>1, <1>3, <2>2, LinkAssumption
  <2>4. stable < n /\ ~samples[n - stable]
    BY <1>1, <2>1, <2>3, LinkAssumption DEF LinkInv
  <2>5. n - stable \in 1 .. n /\ n - stable \in ((n + 1) - LINK_STABLE + 1) .. (n + 1)
    BY <1>1, <2>3, <2>4, LinkAssumption
  <2>6. QED
    BY <1>2, <2>1, <2>4, <2>5
<1>10. ASSUME NEW last \in 1 .. (n + 1), UpUntil(samples', last)
       PROVE  last = n + 1 /\ stable' >= LINK_STABLE
  BY <1>1, <1>8, <1>9, <1>10
<1>11. QED
  BY <1>2, <1>4, <1>5, <1>6, <1>7, <1>10 DEF LinkInv, IsStable

(* The wait that counts enough samples has seen them. *)
LEMMA StableWasUp ==
  ASSUME LinkInv, IsStable
  PROVE  UpUntil(samples, Len(samples))
<1>1. stable = LINK_STABLE /\ stable <= Len(samples) /\ Len(samples) \in Nat
  BY LinkAssumption DEF LinkInv, LinkTypeOK, IsStable
<1>2. \A i \in (Len(samples) - stable + 1) .. Len(samples) : samples[i]
  BY DEF LinkInv
<1>3. QED
  BY <1>1, <1>2 DEF UpUntil

(* A wait that has not counted enough samples has seen no such samples. *)
LEMMA UnstableWasNotUp ==
  ASSUME LinkInv, ~IsStable, NEW last \in 1 .. Len(samples)
  PROVE  ~UpUntil(samples, last)
BY DEF LinkInv

(* A wait that has, has seen them last. *)
LEMMA StableIsLast ==
  ASSUME LinkInv, NEW last \in 1 .. Len(samples), UpUntil(samples, last)
  PROVE  last = Len(samples)
BY DEF LinkInv
=============================================================================
