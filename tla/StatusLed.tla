----------------------------- MODULE StatusLed -----------------------------
(***************************************************************************)
(* The status LED, app/src/product_status_io.c: a work item runs every     *)
(* 100 ms and blinks the LED as status_state asks, while main and the      *)
(* broker thread set that state, the LED and the clock of the blinking.    *)
(*                                                                         *)
(* The system work queue is not preempted by those threads, but runs        *)
(* between any two of their steps; no two of them set the state at once.    *)
(* StatusButton is the rest of the file and moves the clock of both.       *)
(***************************************************************************)
EXTENDS Integers

CONSTANTS
  PERIOD, \* ticks of STATUS_PERIOD_MS
  FAST,   \* ticks of BOOT_BLINK_MS and ERROR_BLINK_MS
  SLOW    \* ticks of RUN_BLINK_MS

ASSUME BlinkAssumption ==
  PERIOD \in Nat \ {0} /\ FAST \in Nat \ {0} /\ SLOW \in Nat \ {0} /\ FAST <= SLOW

NONE == -1
States == {"booting", "stopped", "running", "error"}
LongestPhase == 2 * (SLOW + PERIOD) \* bound of the clock "still"

VARIABLES
  led,     \* status_state
  pin,     \* the LED is lit
  on,      \* activity_led_on
  since,   \* now - last_toggle_ms, up to SLOW
  period,  \* ticks until the work item runs
  setting, \* how far a thread is in setting the state
  lit,     \* whether that call lights the LED
  still    \* history: ticks since the LED changed or such a call ended

ledVars == <<led, pin, on, since, period, setting, lit, still>>

LedTypeOK ==
  /\ led \in States
  /\ pin \in BOOLEAN /\ on \in BOOLEAN /\ lit \in BOOLEAN
  /\ since \in 0 .. SLOW
  /\ period \in 0 .. PERIOD
  /\ setting \in {"no", "state", "flag"}
  /\ still \in 0 .. LongestPhase

Blink(s) == IF s = "running" THEN SLOW ELSE FAST

StillAfter(p) == still' = IF p = pin THEN still ELSE 0

----------------------------------------------------------------------------
(* The work item                                                           *)

(* Mutants: the LED of a stopped broker is left as it is; the LED is lit    *)
(* again instead of toggled.                                               *)
LeaveStopped == UNCHANGED <<pin, on, since, still>>
LightAgain ==
  /\ on' = TRUE /\ pin' = TRUE
  /\ since' = 0
  /\ StillAfter(TRUE)

KeepDark ==
  /\ pin' = FALSE /\ on' = FALSE
  /\ StillAfter(FALSE)
  /\ UNCHANGED since

Toggle ==
  /\ on' = ~on /\ pin' = ~on
  /\ since' = 0
  /\ StillAfter(~on)

(* status_work_handler. *)
StatusWork ==
  /\ period = 0
  /\ \/ led = "stopped" /\ KeepDark
     \/ led # "stopped" /\ since >= Blink(led) /\ Toggle
     \/ led # "stopped" /\ since < Blink(led) /\ UNCHANGED <<pin, on, since, still>>
  /\ period' = PERIOD
  /\ UNCHANGED <<led, setting, lit>>

----------------------------------------------------------------------------
(* product_status_io_set_running and product_status_io_set_error           *)

(* The state is set first... *)
BeginSet(s) ==
  /\ setting = "no" /\ setting' = "state"
  /\ led' = s /\ lit' = (s # "stopped")
  /\ UNCHANGED <<pin, on, since, period, still>>

(* ...then activity_led_on... *)
SetFlag ==
  /\ setting = "state" /\ setting' = "flag"
  /\ on' = lit
  /\ UNCHANGED <<led, pin, since, period, lit, still>>

(* ...then the clock and the LED.  The work item is scheduled already. *)
EndSet ==
  /\ setting = "flag" /\ setting' = "no"
  /\ since' = 0 /\ pin' = lit /\ still' = 0
  /\ lit' = FALSE
  /\ UNCHANGED <<led, on, period>>

(* product_status_io_set_running(0) on the work queue, in one go. *)
StopLed ==
  /\ led' = "stopped"
  /\ on' = FALSE /\ pin' = FALSE /\ since' = 0
  /\ still' = 0
  /\ UNCHANGED <<period, setting, lit>>

(* One tick passes; the item that is due runs first. *)
LedTick ==
  /\ period > 0 /\ period' = period - 1
  /\ since' = IF since < SLOW THEN since + 1 ELSE since
  /\ still' = IF still < LongestPhase THEN still + 1 ELSE still
  /\ UNCHANGED <<led, pin, on, setting, lit>>

(* product_status_io_init lights the LED but not activity_led_on. *)
LedInit ==
  /\ led = "booting" /\ pin = TRUE /\ on = FALSE
  /\ since = 0 /\ period = 0
  /\ setting = "no" /\ lit = FALSE /\ still = 0

LedStep ==
  \/ StatusWork \/ SetFlag \/ EndSet
  \/ \E s \in States \ {"booting"} : BeginSet(s)

----------------------------------------------------------------------------
(* Properties                                                              *)

(* A stopped broker never shows a lit LED for longer than one period, even  *)
(* if the button stopped it in the middle of a call that lights the LED.    *)
StoppedIsDark ==
  led = "stopped" /\ setting = "no" /\ pin => still <= PERIOD

(* In every other state the LED keeps blinking, fast for booting and error, *)
(* slowly for running.  A phase may last two intervals: after the start,    *)
(* and after a call in which the work item ran, the LED and activity_led_on *)
(* disagree, and the first toggle changes nothing that can be seen.         *)
KeepsBlinking ==
  led # "stopped" /\ setting = "no" => still < 2 * (Blink(led) + PERIOD)
=============================================================================
