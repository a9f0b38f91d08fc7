------------------------ MODULE StatusButtonProofs ------------------------
(***************************************************************************)
(* Proofs about StatusButton and the LED of StatusLed, for any lengths of  *)
(* the intervals in ticks.                                                 *)
(*                                                                         *)
(* The LED: what counts is the time to the next toggle, which the interval *)
(* and the period of the work item bound; the LED may stay as it is for    *)
(* one toggle, if activity_led_on disagrees with it, and not for two.      *)
(*                                                                         *)
(* The button: a press that follows a long release finds the work item     *)
(* idle, so the clock of the handler starts with the press, and every      *)
(* sample without a reset found the time not up or the LED not RUNNING.    *)
(***************************************************************************)
EXTENDS StatusButton, TLAPS

----------------------------------------------------------------------------
(* The inductive invariant                                                 *)

(* The work item turns a stopped LED off when it runs next.                *)
DarkSoon == led = "stopped" /\ setting = "no" /\ pin => still + period <= PERIOD

(* Within so many ticks the work item toggles.                             *)
ToToggle(l, s, p) == IF s >= Blink(l) THEN p ELSE Blink(l) - s + PERIOD - 1

Phase(l) == Blink(l) + PERIOD - 1

BlinkSoon ==
  led # "stopped" /\ setting = "no" =>
    still + ToToggle(led, since, period) <= IF on = pin THEN 2 * Phase(led) ELSE Phase(led)

(* A button that is up is sampled within a period, and forgotten then.     *)
UpIsSampled ==
  ~level => IF timer = NONE THEN held = NONE ELSE up + timer <= POLL

DownIsSampled == level => timer # NONE

(* The clock of the handler does not run ahead of the press.               *)
HeldBehind == held # NONE => held <= hold

ResetIsReported ==
  /\ resets <= 1
  /\ level /\ resets = 1 => reported /\ held # NONE

RunningIsLed == led # "running" => running = 0

(* The press the history calls seen is seen at once.                       *)
SeenIsTimed ==
  seen /\ level => \/ held = NONE /\ timer = 0 /\ down = 0 /\ resets = 0
                   \/ held # NONE /\ held = down

(* Nothing is reported before a reset.                                     *)
NotReported == seen /\ level /\ held # NONE /\ resets = 0 => ~reported

(* The last sample found the time not up or the LED not running.           *)
NotDue ==
  seen /\ level /\ held # NONE /\ resets = 0 =>
    held < HOLD + (POLL - timer) \/ running <= POLL - timer

LedInv == LedTypeOK /\ DarkSoon /\ BlinkSoon

ButtonInv ==
  /\ UpIsSampled /\ DownIsSampled /\ HeldBehind /\ ResetIsReported
  /\ RunningIsLed /\ SeenIsTimed /\ NotReported /\ NotDue

IInv == TypeOK /\ LedInv /\ ButtonInv

----------------------------------------------------------------------------
(* The LED                                                                 *)

LEMMA Intervals ==
  /\ PERIOD \in Nat /\ PERIOD > 0 /\ SLOW \in Nat /\ LongestPhase \in Nat
  /\ LongestPhase = 2 * SLOW + 2 * PERIOD
  /\ \A l : Blink(l) \in Nat /\ Blink(l) > 0 /\ Blink(l) <= SLOW
BY BlinkAssumption DEF Blink, LongestPhase

LEMMA StatusWorkKeeps ==
  ASSUME LedInv, StatusWork
  PROVE  LedInv'
<1> DEFINE B == Blink(led)
<1>0. /\ period = 0 /\ period' = PERIOD /\ UNCHANGED <<led, setting, lit>> /\ LedTypeOK
      /\ B \in Nat /\ B > 0 /\ B <= SLOW
      /\ PERIOD \in Nat /\ PERIOD > 0 /\ SLOW \in Nat /\ LongestPhase \in Nat
  BY Intervals DEF StatusWork, LedInv
<1> HIDE DEF B
<1>1. CASE led = "stopped" /\ KeepDark
  <2>1. LedTypeOK'
    <3>1. pin' = FALSE /\ on' = FALSE /\ since' = since /\ still' \in {still, 0}
      BY <1>1 DEF KeepDark, StillAfter
    <3>2. still' \in 0 .. LongestPhase /\ since' \in 0 .. SLOW /\ period' \in 0 .. PERIOD
      BY <1>0, <3>1 DEF LedTypeOK
    <3>3. /\ led' \in States /\ pin' \in BOOLEAN /\ on' \in BOOLEAN
          /\ lit' \in BOOLEAN /\ setting' \in {"no", "state", "flag"}
      BY <1>0, <3>1 DEF LedTypeOK
    <3> QED BY <3>2, <3>3 DEF LedTypeOK
  <2> QED BY <1>0, <1>1, <2>1 DEF LedInv, DarkSoon, BlinkSoon, KeepDark
<1>2. CASE led # "stopped" /\ since >= B /\ Toggle
  <2>1. /\ on' = ~on /\ pin' = ~on /\ since' = 0
        /\ still' = IF (~on) = pin THEN still ELSE 0
    BY <1>2 DEF Toggle, StillAfter
  <2>2. LedTypeOK'
    BY <1>0, <2>1 DEF LedTypeOK
  <2>3. ToToggle(led, since, period)' = Phase(led)
    BY <1>0, <2>1 DEF ToToggle, Phase, B
  <2>4. ToToggle(led, since, period) = 0
    BY <1>0, <1>2 DEF ToToggle, B
  <2>5. setting = "no" => still + 0 <= IF on = pin THEN 2 * Phase(led) ELSE Phase(led)
    BY <1>2, <2>4 DEF LedInv, BlinkSoon
  <2>6. still \in Nat /\ Phase(led) \in Nat /\ Phase(led)' = Phase(led)
    BY <1>0 DEF LedTypeOK, Phase, B
  <2>7. on' = pin'
    BY <2>1
  <2>8. setting = "no" => still' + Phase(led) <= 2 * Phase(led)
    <3>1. CASE on = pin
      <4>1. still' = 0
        BY <1>0, <2>1, <3>1 DEF LedTypeOK
      <4> QED BY <2>6, <4>1
    <3>2. CASE on # pin
      <4>1. still' = still
        BY <1>0, <2>1, <3>2 DEF LedTypeOK
      <4> QED BY <2>5, <2>6, <3>2, <4>1
    <3> QED BY <3>1, <3>2
  <2>9. BlinkSoon'
    BY <1>0, <2>3, <2>6, <2>7, <2>8 DEF BlinkSoon
  <2> QED BY <1>0, <1>2, <2>2, <2>9 DEF LedInv, DarkSoon
<1>3. CASE led # "stopped" /\ since < B /\ UNCHANGED <<pin, on, since, still>>
  <2>1. LedTypeOK'
    BY <1>0, <1>3 DEF LedTypeOK
  <2>2. ToToggle(led, since, period)' = ToToggle(led, since, period)
    BY <1>0, <1>3 DEF ToToggle, B, LedTypeOK
  <2> QED BY <1>0, <1>3, <2>1, <2>2 DEF LedInv, DarkSoon, BlinkSoon, Phase
<1> QED BY <1>1, <1>2, <1>3 DEF StatusWork, B

LEMMA SetKeeps ==
  ASSUME LedInv
  PROVE  /\ \A s \in States : BeginSet(s) => LedInv'
         /\ SetFlag => LedInv'
         /\ EndSet => LedInv'
<1>1. ASSUME NEW s \in States, BeginSet(s) PROVE LedInv'
  BY <1>1 DEF BeginSet, LedInv, LedTypeOK, DarkSoon, BlinkSoon
<1>2. ASSUME SetFlag PROVE LedInv'
  BY <1>2 DEF SetFlag, LedInv, LedTypeOK, DarkSoon, BlinkSoon
<1>3. ASSUME EndSet PROVE LedInv'
  <2>0. /\ since' = 0 /\ still' = 0 /\ UNCHANGED <<led, period>>
        /\ period \in 0 .. PERIOD
    BY <1>3 DEF EndSet, LedInv, LedTypeOK
  <2>1. LedTypeOK'
    <3>1. /\ pin' = lit /\ lit' = FALSE /\ on' = on /\ setting' = "no"
          /\ pin' \in BOOLEAN /\ on' \in BOOLEAN /\ led \in States
      BY <1>3 DEF EndSet, LedInv, LedTypeOK
    <3>2. since' \in 0 .. SLOW /\ still' \in 0 .. LongestPhase
      BY <2>0, Intervals
    <3> QED BY <2>0, <3>1, <3>2 DEF LedTypeOK
  <2>2. DarkSoon'
    BY <2>0, Intervals DEF DarkSoon
  <2>3. ToToggle(led, since, period)' = Phase(led) /\ Phase(led) \in Nat
        /\ Phase(led)' = Phase(led)
    BY <2>0, Intervals DEF ToToggle, Phase
  <2>4. BlinkSoon'
    BY <2>0, <2>3 DEF BlinkSoon
  <2> QED BY <2>1, <2>2, <2>4 DEF LedInv
<1> QED BY <1>1, <1>2, <1>3

LEMMA StopLedKeeps ==
  ASSUME LedInv, StopLed
  PROVE  LedInv'
<1>1. /\ led' = "stopped" /\ pin' = FALSE /\ on' = FALSE /\ since' = 0 /\ still' = 0
      /\ UNCHANGED <<period, setting, lit>> /\ LedTypeOK
  BY DEF StopLed, LedInv
<1>2. since' \in 0 .. SLOW /\ still' \in 0 .. LongestPhase
  BY <1>1, Intervals
<1>3. LedTypeOK'
  BY <1>1, <1>2 DEF LedTypeOK, States
<1> QED BY <1>1, <1>3 DEF LedInv, DarkSoon, BlinkSoon

(* A clock that goes on by one at most while a countdown goes on by one.   *)
LEMMA ClockAndCountdown ==
  ASSUME NEW n \in Int, NEW m \in Int, NEW c \in Int, NEW d \in Int, NEW bound \in Int,
         m <= n + 1, d = c - 1, n + c <= bound
  PROVE  m + d <= bound
OBVIOUS

LEMMA LedTickKeeps ==
  ASSUME LedInv, LedTick
  PROVE  LedInv'
<1> DEFINE B == Blink(led)
<1>0. /\ period > 0 /\ period' = period - 1
      /\ since' = IF since < SLOW THEN since + 1 ELSE since
      /\ UNCHANGED <<led, pin, on, setting, lit>> /\ LedTypeOK
      /\ still \in Nat /\ still' \in Nat /\ still' <= still + 1
      /\ since \in 0 .. SLOW /\ period \in 0 .. PERIOD
      /\ B \in Nat /\ B > 0 /\ B <= SLOW
      /\ PERIOD \in Nat /\ PERIOD > 0 /\ SLOW \in Nat /\ LongestPhase \in Nat
  BY Intervals DEF LedTick, LedInv, LedTypeOK
<1>1. LedTypeOK'
  BY <1>0 DEF LedTick, LedTypeOK
<1>2. DarkSoon'
  <2>1. /\ period' = period - 1 /\ still' <= still + 1
        /\ still \in Int /\ still' \in Int /\ period \in Int /\ period' \in Int
        /\ PERIOD \in Int
    BY <1>0
  <2>2. still + period <= PERIOD => still' + period' <= PERIOD
    BY <2>1, ClockAndCountdown
  <2> QED BY <1>0, <2>2 DEF LedInv, DarkSoon
<1>3. /\ ToToggle(led, since, period)' <= ToToggle(led, since, period) - 1
      /\ ToToggle(led, since, period) \in Int /\ ToToggle(led, since, period)' \in Int
  <2> HIDE DEF B
  <2>1. ToToggle(led, since, period)' = IF since' >= B THEN period' ELSE B - since' + PERIOD - 1
    BY <1>0 DEF ToToggle, B
  <2>2. ToToggle(led, since, period) = IF since >= B THEN period ELSE B - since + PERIOD - 1
    BY DEF ToToggle, B
  <2>3. CASE since >= B
    <3>1. since' >= B
      BY <1>0, <2>3
    <3> QED BY <1>0, <2>1, <2>2, <2>3, <3>1
  <2>4. CASE since < B
    <3>1. since' = since + 1
      BY <1>0, <2>4
    <3> QED BY <1>0, <2>1, <2>2, <2>4, <3>1
  <2> QED BY <1>0, <2>3, <2>4
<1>4. BlinkSoon'
  <2>1. Phase(led)' = Phase(led) /\ Phase(led) \in Int
    BY <1>0 DEF Phase
  <2> QED BY <1>0, <1>3, <2>1 DEF LedInv, BlinkSoon
<1> QED BY <1>1, <1>2, <1>4 DEF LedInv

----------------------------------------------------------------------------
(* The button                                                              *)

LEMMA Times ==
  /\ POLL \in Nat /\ POLL > 0 /\ HOLD \in Nat /\ HOLD > POLL /\ HOLD > 0
  /\ Limit \in Nat /\ Limit = HOLD + POLL
BY TimeAssumption DEF Limit

(* The clocks count alike and stop alike.                                  *)
LEMMA TickedFacts ==
  /\ \A n \in 0 .. Limit : Ticked(n) \in 0 .. Limit /\ Ticked(n) <= n + 1
  /\ \A n \in 0 .. Limit, m \in 0 .. Limit : n <= m => Ticked(n) <= Ticked(m)
BY Times DEF Ticked

LEMMA PressKeeps ==
  ASSUME IInv, Press
  PROVE  IInv'
<1>0. /\ level = FALSE /\ level' = TRUE /\ down' = 0 /\ resets' = 0
      /\ timer' = IF timer = NONE THEN 0 ELSE timer
      /\ seen' = (up > POLL) /\ hold' = IF up > POLL THEN 0 ELSE hold
      /\ UNCHANGED <<held, reported, ledVars, up, running>>
      /\ TypeOK
  BY DEF Press, Schedule, IInv, TypeOK
<1>1. UNCHANGED <<led, pin, on, since, period, setting, lit, still>>
  BY <1>0 DEF ledVars
<1>2. /\ timer \in NONE .. POLL /\ up \in 0 .. Limit /\ hold \in 0 .. Limit
      /\ held \in NONE .. Limit
  BY <1>0 DEF TypeOK
(* A long release has been sampled.                                        *)
<1>3. up > POLL => timer = NONE /\ held = NONE
  BY <1>0, <1>2, Times DEF IInv, ButtonInv, UpIsSampled, NONE
<1>4. LedInv' /\ LedTypeOK'
  BY <1>1 DEF IInv, LedInv, LedTypeOK, DarkSoon, BlinkSoon, ToToggle, Phase
<1>5. TypeOK'
  <2>1. timer' \in NONE .. POLL /\ down' \in 0 .. Limit /\ hold' \in 0 .. Limit
        /\ resets' \in 0 .. 2
    BY <1>0, <1>2, Times DEF NONE
  <2>2. seen' \in BOOLEAN
    BY <1>0
  <2> QED BY <1>0, <1>4, <2>1, <2>2 DEF TypeOK
<1>6. timer' # NONE
  BY <1>0 DEF NONE
<1>7. HeldBehind'
  BY <1>0, <1>3 DEF IInv, ButtonInv, HeldBehind
<1>8. SeenIsTimed'
  BY <1>0, <1>3 DEF SeenIsTimed
<1>9. NotReported' /\ NotDue'
  BY <1>0, <1>3 DEF NotReported, NotDue
<1>10. UpIsSampled' /\ DownIsSampled' /\ ResetIsReported' /\ RunningIsLed'
  BY <1>0, <1>1, <1>6 DEF UpIsSampled, DownIsSampled, ResetIsReported, RunningIsLed,
     IInv, ButtonInv
<1> QED BY <1>4, <1>5, <1>7, <1>8, <1>9, <1>10 DEF IInv, ButtonInv

LEMMA ReleaseKeeps ==
  ASSUME IInv, Release
  PROVE  IInv'
<1>0. /\ level /\ level' = FALSE /\ up' = 0
      /\ timer' = IF timer = NONE THEN 0 ELSE timer
      /\ UNCHANGED <<held, reported, ledVars, down, hold, seen, running, resets>>
      /\ TypeOK
  BY DEF Release, Schedule, IInv
<1>1. UNCHANGED <<led, pin, on, since, period, setting, lit, still>>
  BY <1>0 DEF ledVars
<1>2. LedInv' /\ LedTypeOK'
  BY <1>1 DEF IInv, LedInv, LedTypeOK, DarkSoon, BlinkSoon, ToToggle, Phase
<1>3. timer' \in 0 .. POLL
  BY <1>0, Times DEF TypeOK, NONE
<1>4. TypeOK'
  <2>1. timer' \in NONE .. POLL /\ up' \in 0 .. Limit
    BY <1>0, <1>3, Times DEF NONE
  <2> QED BY <1>0, <1>2, <2>1 DEF TypeOK
<1>5. UpIsSampled'
  BY <1>0, <1>3, Times DEF UpIsSampled, NONE
<1> QED BY <1>0, <1>1, <1>2, <1>4, <1>5 DEF IInv, ButtonInv, DownIsSampled, HeldBehind,
           ResetIsReported, RunningIsLed, SeenIsTimed, NotReported, NotDue

LEMMA SampleUpKeeps ==
  ASSUME IInv, SampleUp
  PROVE  IInv'
<1>0. /\ timer = 0 /\ level = FALSE /\ timer' = NONE /\ held' = NONE /\ reported' = FALSE
      /\ UNCHANGED <<level, down, up, hold, seen, running, resets>>
      /\ UNCHANGED <<led, pin, on, since, period, setting, lit, still>>
      /\ TypeOK
  BY DEF SampleUp, ForgetPress, ledVars, history, IInv, TypeOK
<1>1. LedInv' /\ LedTypeOK'
  BY <1>0 DEF IInv, LedInv, LedTypeOK, DarkSoon, BlinkSoon, ToToggle, Phase
<1>2. TypeOK'
  <2>1. timer' \in NONE .. POLL /\ held' \in NONE .. Limit
    BY <1>0, Times DEF NONE
  <2> QED BY <1>0, <1>1, <2>1 DEF TypeOK
<1> QED BY <1>0, <1>1, <1>2 DEF IInv, ButtonInv, UpIsSampled, DownIsSampled, HeldBehind,
           ResetIsReported, RunningIsLed, SeenIsTimed, NotReported, NotDue


(* A sample of a button that is down: every part of the invariant that does *)
(* not depend on whether the reset is called.                              *)
LEMMA SampleDownCases ==
  ASSUME IInv, SampleDown
  PROVE  /\ timer = 0 /\ level = TRUE /\ timer' = POLL
         /\ held' = IF held = NONE THEN 0 ELSE held
         /\ UNCHANGED <<level, down, up, hold, seen>>
         /\ \/ /\ led = "running" /\ ~reported /\ held # NONE /\ held >= HOLD
               /\ reported' = TRUE
               /\ resets' = IF resets < 2 THEN resets + 1 ELSE 2
               /\ (StopLed /\ running' = 0) \/ UNCHANGED <<ledVars, running>>
            \/ /\ led # "running" \/ reported \/ held = NONE \/ held < HOLD
               /\ reported' = IF held = NONE THEN FALSE ELSE reported
               /\ UNCHANGED <<ledVars, running, resets>>
<1> DEFINE h == IF held = NONE THEN 0 ELSE held
<1>1. held \in Int /\ HOLD \in Nat /\ HOLD > 0
  BY Times DEF IInv, TypeOK, NONE
<1>2. ResetDue(h) <=> led = "running" /\ ~reported /\ h >= HOLD
  BY DEF ResetDue
<1>3. h >= HOLD <=> held # NONE /\ held >= HOLD
  BY <1>1 DEF NONE
<1>4. h >= HOLD \/ held = NONE \/ held < HOLD
  BY <1>1, <1>3
<1>5. timer = 0 /\ level = TRUE /\ timer' = POLL /\ held' = h
      /\ UNCHANGED <<level, down, up, hold, seen>>
  BY DEF SampleDown, SampleAgain, IInv, TypeOK
<1>6. \/ /\ ResetDue(h)
         /\ reported' = TRUE
         /\ resets' = IF resets < 2 THEN resets + 1 ELSE 2
         /\ (StopLed /\ running' = 0) \/ UNCHANGED <<ledVars, running>>
      \/ /\ ~ResetDue(h)
         /\ reported' = IF held = NONE THEN FALSE ELSE reported
         /\ UNCHANGED <<ledVars, running, resets>>
  BY DEF SampleDown
<1> HIDE DEF h
<1> QED BY <1>2, <1>3, <1>4, <1>5, <1>6, Zenon DEF h

LEMMA SampleDownKeeps ==
  ASSUME IInv, SampleDown
  PROVE  IInv'
<1>0. /\ timer = 0 /\ level = TRUE /\ timer' = POLL
      /\ held' = IF held = NONE THEN 0 ELSE held
      /\ UNCHANGED <<level, down, up, hold, seen>>
      /\ TypeOK
  BY SampleDownCases DEF IInv
<1>1. /\ held \in NONE .. Limit /\ hold \in 0 .. Limit /\ down \in 0 .. Limit
      /\ POLL \in Nat /\ POLL > 0 /\ HOLD \in Nat /\ HOLD > 0
      /\ held' \in 0 .. Limit /\ held' # NONE /\ timer' # NONE /\ timer' \in NONE .. POLL
  BY <1>0, Times DEF TypeOK, NONE
<1>2. UpIsSampled' /\ DownIsSampled'
  BY <1>0, <1>1 DEF UpIsSampled, DownIsSampled
<1>3. HeldBehind'
  BY <1>0, <1>1 DEF IInv, ButtonInv, HeldBehind
<1>4. CASE /\ led = "running" /\ ~reported /\ held # NONE /\ held >= HOLD
           /\ reported' = TRUE
           /\ resets' = IF resets < 2 THEN resets + 1 ELSE 2
           /\ (StopLed /\ running' = 0) \/ UNCHANGED <<ledVars, running>>
  <2>1. resets = 0
    BY <1>0, <1>4 DEF IInv, ButtonInv, ResetIsReported, TypeOK
  <2>2. resets' = 1
    BY <1>4, <2>1
  <2>3. LedInv'
    <3>1. CASE StopLed
      BY <3>1, StopLedKeeps DEF IInv
    <3>2. CASE UNCHANGED ledVars
      BY <3>2 DEF ledVars, IInv, LedInv, LedTypeOK, DarkSoon, BlinkSoon, ToToggle, Phase
    <3> QED BY <1>4, <3>1, <3>2
  <2>4. RunningIsLed' /\ running' \in 0 .. Limit
    BY <1>4, Times DEF ledVars, IInv, ButtonInv, RunningIsLed, TypeOK
  <2>5. TypeOK'
    <3>1. LedTypeOK'
      BY <2>3 DEF LedInv
    <3>2. resets' \in 0 .. 2 /\ held' \in NONE .. Limit
      BY <1>1, <2>2 DEF NONE
    <3> QED BY <1>0, <1>1, <1>4, <2>4, <3>1, <3>2 DEF TypeOK
  <2>6. ResetIsReported' /\ NotReported' /\ NotDue'
    <3>1. resets' <= 1 /\ resets' # 0 /\ reported' /\ held' # NONE
      BY <1>1, <1>4, <2>2
    <3> QED BY <3>1 DEF ResetIsReported, NotReported, NotDue
  <2>7. SeenIsTimed'
    BY <1>0, <1>4 DEF IInv, ButtonInv, SeenIsTimed
  <2> QED BY <1>2, <1>3, <2>3, <2>4, <2>5, <2>6, <2>7 DEF IInv, ButtonInv
<1>5. CASE /\ led # "running" \/ reported \/ held = NONE \/ held < HOLD
           /\ reported' = IF held = NONE THEN FALSE ELSE reported
           /\ UNCHANGED <<ledVars, running, resets>>
  <2>1. LedInv' /\ LedTypeOK'
    BY <1>5 DEF ledVars, IInv, LedInv, LedTypeOK, DarkSoon, BlinkSoon, ToToggle, Phase
  <2>2. TypeOK'
    <3>1. held' \in NONE .. Limit
      BY <1>1 DEF NONE
    <3>2. reported' \in BOOLEAN
      BY <1>0, <1>5 DEF TypeOK
    <3> QED BY <1>0, <1>1, <1>5, <2>1, <3>1, <3>2 DEF TypeOK
  <2>3. ResetIsReported' /\ RunningIsLed'
    BY <1>0, <1>1, <1>5 DEF ledVars, IInv, ButtonInv, ResetIsReported, RunningIsLed
  <2>4. SeenIsTimed'
    BY <1>0, <1>1, <1>5 DEF IInv, ButtonInv, SeenIsTimed
  <2>5. NotReported'
    BY <1>0, <1>5 DEF IInv, ButtonInv, NotReported
  (* The sample has just found the time not up or the LED not running.     *)
  <2>6. NotDue'
    <3> SUFFICES ASSUME seen, resets = 0
                 PROVE  held' < HOLD + (POLL - POLL) \/ running <= POLL - POLL
      BY <1>0, <1>5 DEF NotDue
    <3>1. CASE held = NONE
      BY <1>0, <1>1, <3>1
    <3>2. CASE held # NONE
      <4>1. ~reported
        BY <1>0, <3>2 DEF IInv, ButtonInv, NotReported
      <4>2. held < HOLD \/ running = 0
        BY <1>5, <3>2, <4>1 DEF IInv, ButtonInv, RunningIsLed
      <4> QED BY <1>0, <1>1, <3>2, <4>2
    <3> QED BY <3>1, <3>2
  <2> QED BY <1>2, <1>3, <2>1, <2>2, <2>3, <2>4, <2>5, <2>6 DEF IInv, ButtonInv
<1> QED BY <1>4, <1>5, SampleDownCases

LEMMA LedStepKeeps ==
  ASSUME IInv, Led
  PROVE  IInv'
<1>0. /\ UNCHANGED <<level, timer, held, reported, down, up, hold, seen, resets>>
      /\ running' = IF led' = led THEN running ELSE 0
      /\ TypeOK /\ LedStep
  BY DEF Led, button, IInv
<1>1. LedInv' /\ LedTypeOK'
  <2>1. LedInv'
    BY <1>0, StatusWorkKeeps, SetKeeps DEF LedStep, IInv
  <2> QED BY <2>1 DEF LedInv
<1>2. running \in 0 .. Limit /\ running' \in 0 .. Limit
  BY <1>0, Times DEF TypeOK
<1>3. TypeOK'
  BY <1>0, <1>1, <1>2 DEF TypeOK
<1>4. RunningIsLed'
  BY <1>0 DEF IInv, ButtonInv, RunningIsLed
<1>5. NotDue'
  <2>1. timer \in NONE .. POLL /\ POLL \in Nat /\ running' <= running
    BY <1>0, <1>2, Times DEF TypeOK
  <2>2. running <= POLL - timer => running' <= POLL - timer
    BY <1>2, <2>1 DEF NONE
  <2> QED BY <1>0, <2>2 DEF IInv, ButtonInv, NotDue
<1> QED BY <1>0, <1>1, <1>3, <1>4, <1>5 DEF IInv, ButtonInv, UpIsSampled, DownIsSampled,
           HeldBehind, ResetIsReported, SeenIsTimed, NotReported

LEMMA TickKeeps ==
  ASSUME IInv, Tick
  PROVE  IInv'
<1>0. /\ timer # 0 /\ LedTick
      /\ timer' = IF timer = NONE THEN NONE ELSE timer - 1
      /\ held' = IF held = NONE THEN NONE ELSE Ticked(held)
      /\ down' = IF level THEN Ticked(down) ELSE down
      /\ up' = IF level THEN up ELSE Ticked(up)
      /\ hold' = Ticked(hold)
      /\ running' = IF led = "running" THEN Ticked(running) ELSE 0
      /\ UNCHANGED <<level, reported, seen, resets>>
      /\ TypeOK
  BY DEF Tick, IInv
<1>1. /\ timer \in NONE .. POLL /\ held \in NONE .. Limit /\ down \in 0 .. Limit
      /\ up \in 0 .. Limit /\ hold \in 0 .. Limit /\ running \in 0 .. Limit
      /\ level \in BOOLEAN
      /\ POLL \in Nat /\ HOLD \in Nat /\ Limit \in Nat
  BY <1>0, Times DEF TypeOK
<1>2. LedInv' /\ LedTypeOK'
  <2>1. LedInv'
    BY <1>0, LedTickKeeps DEF IInv
  <2> QED BY <2>1 DEF LedInv
<1>3. led' = led
  BY <1>0 DEF LedTick
<1>4. held # NONE => held \in 0 .. Limit
  BY <1>1 DEF NONE
<1>5. held' = NONE <=> held = NONE
  <2>1. held # NONE => Ticked(held) # NONE
    BY <1>1, <1>4, TickedFacts DEF NONE
  <2> QED BY <1>0, <2>1
<1>6. timer' = NONE <=> timer = NONE
  BY <1>0, <1>1 DEF NONE
<1>7. TypeOK'
  <2>1. timer' \in NONE .. POLL
    BY <1>0, <1>1 DEF NONE
  <2>2. held' \in NONE .. Limit
    <3>1. held # NONE => Ticked(held) \in NONE .. Limit
      BY <1>1, <1>4, TickedFacts DEF NONE
    <3> QED BY <1>0, <1>1, <3>1 DEF NONE
  <2>3. /\ down' \in 0 .. Limit /\ up' \in 0 .. Limit /\ hold' \in 0 .. Limit
        /\ running' \in 0 .. Limit
    BY <1>0, <1>1, TickedFacts
  <2> QED BY <1>0, <1>2, <2>1, <2>2, <2>3 DEF TypeOK
<1>8. UpIsSampled'
  <2>1. timer # NONE => timer' = timer - 1 /\ timer' \in Int
    BY <1>0, <1>1 DEF NONE
  <2>2. ~level => up' <= up + 1 /\ up' \in Int
    BY <1>0, <1>1, TickedFacts
  <2>3. timer # NONE /\ ~level /\ up + timer <= POLL => up' + timer' <= POLL
    BY <1>1, <2>1, <2>2, ClockAndCountdown DEF NONE
  <2> QED BY <1>0, <1>5, <1>6, <2>3 DEF IInv, ButtonInv, UpIsSampled
<1>9. DownIsSampled' /\ ResetIsReported' /\ NotReported'
  BY <1>0, <1>5, <1>6 DEF IInv, ButtonInv, DownIsSampled, ResetIsReported, NotReported
<1>10. HeldBehind'
  <2>1. held # NONE => Ticked(held) <= Ticked(hold)
    BY <1>1, <1>4, TickedFacts DEF IInv, ButtonInv, HeldBehind
  <2> QED BY <1>0, <1>5, <2>1 DEF HeldBehind
<1>11. RunningIsLed'
  BY <1>0, <1>3 DEF RunningIsLed
<1>12. SeenIsTimed'
  BY <1>0, <1>5 DEF IInv, ButtonInv, SeenIsTimed
<1>13. NotDue'
  <2>1. level => timer # NONE
    BY DEF IInv, ButtonInv, DownIsSampled
  <2>2. timer # NONE => POLL - timer' = (POLL - timer) + 1 /\ POLL - timer \in Int
    BY <1>0, <1>1 DEF NONE
  <2>3. held # NONE => held' <= held + 1 /\ held' \in Int /\ held \in Int
    BY <1>0, <1>1, <1>4, TickedFacts
  <2>4. running' <= running + 1 /\ running' \in Int /\ running \in Int
    BY <1>0, <1>1, TickedFacts
  <2>5. timer # NONE /\ held # NONE /\ held < HOLD + (POLL - timer)
          => held' < HOLD + (POLL - timer')
    <3> DEFINE d == POLL - timer
               e == POLL - timer'
    <3>1. timer # NONE => e = d + 1 /\ d \in Int /\ e \in Int
      BY <2>2
    <3> HIDE DEF d, e
    <3>2. timer # NONE /\ held # NONE /\ held < HOLD + d => held' < HOLD + e
      BY <1>1, <2>3, <3>1
    <3> QED BY <3>2 DEF d, e
  <2>6. timer # NONE /\ running <= POLL - timer => running' <= POLL - timer'
    <3> DEFINE d == POLL - timer
               e == POLL - timer'
    <3>1. timer # NONE => e = d + 1 /\ d \in Int /\ e \in Int
      BY <2>2
    <3> HIDE DEF d, e
    <3>2. timer # NONE /\ running <= d => running' <= e
      BY <2>4, <3>1
    <3> QED BY <3>2 DEF d, e
  <2> QED BY <1>0, <1>5, <2>1, <2>5, <2>6 DEF IInv, ButtonInv, NotDue
<1> QED BY <1>2, <1>7, <1>8, <1>9, <1>10, <1>11, <1>12, <1>13 DEF IInv, ButtonInv

----------------------------------------------------------------------------
(* The theorems                                                            *)

LEMMA InitIInv == Init => IInv
<1> SUFFICES ASSUME Init PROVE IInv
  OBVIOUS
<1>0. /\ level = FALSE /\ timer = NONE /\ held = NONE /\ reported = FALSE
      /\ down = 0 /\ up = POLL + 1 /\ hold = 0 /\ seen = TRUE /\ running = 0 /\ resets = 0
      /\ led = "booting" /\ pin = TRUE /\ on = FALSE
      /\ since = 0 /\ period = 0 /\ setting = "no" /\ lit = FALSE /\ still = 0
  BY DEF Init, LedInit
<1>1. LedTypeOK
  <2>1. since \in 0 .. SLOW /\ period \in 0 .. PERIOD /\ still \in 0 .. LongestPhase
    BY <1>0, Intervals
  <2> QED BY <1>0, <2>1 DEF LedTypeOK, States
<1>2. TypeOK
  <2>1. /\ timer \in NONE .. POLL /\ held \in NONE .. Limit
        /\ down \in 0 .. Limit /\ up \in 0 .. Limit /\ hold \in 0 .. Limit
        /\ running \in 0 .. Limit /\ resets \in 0 .. 2
    BY <1>0, Times DEF NONE
  <2> QED BY <1>0, <1>1, <2>1 DEF TypeOK
<1>3. BlinkSoon
  <2>1. ToToggle(led, since, period) = Phase(led) /\ Phase(led) \in Nat
    BY <1>0, Intervals DEF ToToggle, Phase
  <2>2. still + ToToggle(led, since, period) = Phase(led)
    BY <1>0, <2>1
  <2>3. Phase(led) <= Phase(led) /\ Phase(led) <= 2 * Phase(led)
    BY <2>1
  <2>4. still + ToToggle(led, since, period)
          <= IF on = pin THEN 2 * Phase(led) ELSE Phase(led)
    BY <2>2, <2>3, Zenon
  <2> QED BY <2>4 DEF BlinkSoon
<1>4. LedInv
  BY <1>0, <1>1, <1>3 DEF LedInv, DarkSoon
<1>5. ButtonInv
  BY <1>0 DEF ButtonInv, UpIsSampled, DownIsSampled, HeldBehind, ResetIsReported,
     RunningIsLed, SeenIsTimed, NotReported, NotDue
<1> QED BY <1>2, <1>4, <1>5 DEF IInv

(* Every edge, sample, tick and step of the LED keeps the invariant.       *)
THEOREM StatusButtonInvariant == Spec => []IInv
<1>1. IInv /\ [Next]_vars => IInv'
  <2> SUFFICES ASSUME IInv, [Next]_vars PROVE IInv'
    OBVIOUS
  <2>1. CASE UNCHANGED vars
    BY <2>1 DEF vars, button, ledVars, history, IInv, TypeOK, LedTypeOK, LedInv, DarkSoon,
       BlinkSoon, ToToggle, Phase, ButtonInv, UpIsSampled, DownIsSampled, HeldBehind,
       ResetIsReported, RunningIsLed, SeenIsTimed, NotReported, NotDue
  <2>2. CASE Next
    BY <2>2, PressKeeps, ReleaseKeeps, SampleUpKeeps, SampleDownKeeps, TickKeeps,
       LedStepKeeps DEF Next
  <2> QED BY <2>1, <2>2
<1> QED BY <1>1, InitIInv, PTL DEF Spec

(* The variables of the button and of the LED keep their types.            *)
THEOREM StatusButtonTypeCorrect == Spec => []TypeOK
<1>1. IInv => TypeOK
  BY DEF IInv
<1> QED BY <1>1, StatusButtonInvariant, PTL

(* One press calls the reset at most once.                                 *)
THEOREM OneResetPerHoldTheorem == Spec => []OneResetPerHold
<1>1. IInv => OneResetPerHold
  BY DEF IInv, ButtonInv, ResetIsReported, OneResetPerHold
<1> QED BY <1>1, StatusButtonInvariant, PTL

(* A press the handler cannot mistake for an earlier one calls the reset   *)
(* within a sampling period of the time being up.                          *)
THEOREM HeldLongEnoughTheorem == Spec => []HeldLongEnough
<1>1. IInv => HeldLongEnough
  <2> SUFFICES ASSUME IInv, seen, level, down >= Limit, running > POLL, resets = 0
               PROVE  FALSE
    BY DEF HeldLongEnough, IInv, TypeOK
  <2>1. held # NONE /\ held = down
    BY Times DEF IInv, ButtonInv, SeenIsTimed
  <2>2. held < HOLD + (POLL - timer) \/ running <= POLL - timer
    BY <2>1 DEF IInv, ButtonInv, NotDue
  <2>3. timer \in 0 .. POLL /\ held \in Nat /\ running \in Nat
    BY <2>1 DEF IInv, ButtonInv, DownIsSampled, TypeOK, NONE
  <2> QED BY <2>1, <2>2, <2>3, Times
<1> QED BY <1>1, StatusButtonInvariant, PTL

(* The reset is called only HOLD ticks or more after the press, with the    *)
(* LED state RUNNING.                                                      *)
THEOREM NoEarlyResetTheorem == Spec => NoEarlyReset
<1>1. ASSUME IInv, [Next]_vars, resets' > resets PROVE led = "running" /\ hold >= HOLD
  <2>1. resets \in 0 .. 2
    BY <1>1 DEF IInv, TypeOK
  <2>2. ~(resets' = resets) /\ ~(resets' = 0)
    BY <1>1, <2>1
  <2>3. SampleDown
    BY <1>1, <2>2 DEF Next, Press, Release, SampleUp, Tick, Led, vars, history
  <2>4. led = "running" /\ held # NONE /\ held >= HOLD
    BY <1>1, <2>2, <2>3, SampleDownCases
  <2>5. held \in Int /\ hold \in Int /\ HOLD \in Int /\ held <= hold
    BY <1>1, <2>4, Times DEF IInv, ButtonInv, HeldBehind, TypeOK, NONE
  <2> QED BY <2>4, <2>5
<1>2. IInv /\ [Next]_vars => [resets' > resets => led = "running" /\ hold >= HOLD]_vars
  BY <1>1
<1> QED BY <1>2, StatusButtonInvariant, PTL DEF Spec, NoEarlyReset

(* The LED of a stopped broker is dark within one period of the work item. *)
THEOREM StoppedIsDarkTheorem == Spec => []StoppedIsDark
<1>1. IInv => StoppedIsDark
  <2>1. TypeOK => (still + period <= PERIOD => still <= PERIOD)
    BY Intervals DEF TypeOK, LedTypeOK
  <2> QED BY <2>1 DEF IInv, LedInv, DarkSoon, StoppedIsDark
<1> QED BY <1>1, StatusButtonInvariant, PTL

(* In every other state the LED changes within two intervals.              *)
THEOREM KeepsBlinkingTheorem == Spec => []KeepsBlinking
<1>1. IInv => KeepsBlinking
  <2> SUFFICES ASSUME IInv, led # "stopped", setting = "no"
               PROVE  still < 2 * (Blink(led) + PERIOD)
    BY DEF KeepsBlinking
  <2> DEFINE B == Blink(led)
             toToggle == ToToggle(led, since, period)
  <2>1. B \in Nat /\ B > 0 /\ PERIOD \in Nat /\ PERIOD > 0
    BY Intervals
  <2>2. still \in Nat /\ since \in Nat /\ period \in Nat
    BY DEF IInv, TypeOK, LedTypeOK
  <2>3. still + toToggle <= IF on = pin THEN 2 * Phase(led) ELSE Phase(led)
    BY DEF IInv, LedInv, BlinkSoon
  <2>4. Phase(led) = B + PERIOD - 1
    BY DEF Phase
  <2>5. toToggle = IF since >= B THEN period ELSE B - since + PERIOD - 1
    BY DEF ToToggle
  <2> HIDE DEF B, toToggle
  <2>6. toToggle \in Int /\ toToggle >= 0
    BY <2>1, <2>2, <2>5
  <2>7. still + toToggle <= 2 * (B + PERIOD - 1)
    <3>1. still + toToggle <= 2 * Phase(led) \/ still + toToggle <= Phase(led)
      BY <2>3, Zenon
    <3> QED BY <2>1, <2>2, <2>4, <2>6, <3>1
  <2>8. still < 2 * (B + PERIOD)
    BY <2>1, <2>2, <2>6, <2>7
  <2> QED BY <2>8 DEF B
<1> QED BY <1>1, StatusButtonInvariant, PTL
===========================================================================
