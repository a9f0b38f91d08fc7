---------------------------- MODULE StatusButton ----------------------------
(***************************************************************************)
(* The configuration button, app/src/product_status_io.c: an interrupt on  *)
(* both edges schedules a work item that samples the button, samples it    *)
(* again every 100 ms while it is down, and calls the reset once the button *)
(* has been down for 10 s while the LED state is RUNNING.                  *)
(*                                                                         *)
(* k_work_schedule does nothing while the item is already scheduled, so an  *)
(* edge between two samples is not seen: what the handler believes and     *)
(* what the finger does can differ.                                        *)
(*                                                                         *)
(* Time advances in ticks, several to a sampling period; a work item that  *)
(* is due runs before time goes on.  StatusLed is the other item of the     *)
(* same work queue.                                                        *)
(***************************************************************************)
EXTENDS Integers, StatusLed

CONSTANTS
  POLL, \* ticks from one sample to the next, 100 ms
  HOLD  \* ticks of CONFIG_RESET_PRESS_MS

ASSUME TimeAssumption == POLL \in Nat \ {0} /\ HOLD \in Nat /\ HOLD > POLL

Limit == HOLD + POLL \* the clocks below stop here
Ticked(n) == IF n < Limit THEN n + 1 ELSE n

VARIABLES
  level,    \* the button is down
  timer,    \* ticks until the work item runs, NONE if it is not scheduled
  held,     \* now - button_pressed_ms, NONE if button_pressed_ms is 0
  reported, \* config_reset_reported
  down,     \* history: ticks the button has been down without a break
  up,       \* history: ticks it has been up
  hold,     \* history: ticks since the last press after a release that every
            \* sampling sees, one longer than POLL
  seen,     \* history: the last press is that one
  running,  \* history: ticks the LED state has been RUNNING
  resets    \* history: resets called during the current press, 0 to 2

button == <<timer, held, reported>>
history == <<down, up, hold, seen, running, resets>>
vars == <<level, button, ledVars, history>>

TypeOK ==
  /\ LedTypeOK
  /\ level \in BOOLEAN
  /\ timer \in NONE .. POLL
  /\ held \in NONE .. Limit
  /\ reported \in BOOLEAN
  /\ down \in 0 .. Limit /\ up \in 0 .. Limit /\ hold \in 0 .. Limit
  /\ seen \in BOOLEAN
  /\ running \in 0 .. Limit
  /\ resets \in 0 .. 2

----------------------------------------------------------------------------

(* k_work_schedule: no effect on an item that is scheduled. *)
Schedule(delay) == timer' = IF timer = NONE THEN delay ELSE timer

Press ==
  /\ ~level /\ level' = TRUE
  /\ Schedule(0)
  /\ down' = 0
  /\ seen' = (up > POLL)
  /\ hold' = IF up > POLL THEN 0 ELSE hold
  /\ resets' = 0
  /\ UNCHANGED <<held, reported, ledVars, up, running>>

Release ==
  /\ level /\ level' = FALSE
  /\ Schedule(0)
  /\ up' = 0
  /\ UNCHANGED <<held, reported, ledVars, down, hold, seen, running,
                 resets>>

(* Mutant: the release does not forget when the button was pressed. *)
KeepPress == UNCHANGED held

ForgetPress == held' = NONE

(* The sample finds the button up. *)
SampleUp ==
  /\ timer = 0 /\ ~level
  /\ timer' = NONE
  /\ ForgetPress
  /\ reported' = FALSE
  /\ UNCHANGED <<level, ledVars, history>>

(* Mutants: a reset is called at every sample once the time is up; the time *)
(* is up one sample too late.                                               *)
DueAgain(h) == led = "running" /\ h >= HOLD
DueLate(h) == led = "running" /\ ~reported /\ h >= HOLD + POLL

(* h: how long the button has been down, as far as the handler knows. *)
ResetDue(h) ==
  /\ led = "running"
  /\ ~reported
  /\ h >= HOLD

(* Mutant: the next sample is ten periods away. *)
SampleRarely == timer' = 10 * POLL

SampleAgain == timer' = POLL

(* The sample finds the button down.  The first one starts the clock.  The  *)
(* reset stops the LED if its saves worked, and is reported either way.     *)
SampleDown ==
  LET h == IF held = NONE THEN 0 ELSE held IN
  /\ timer = 0 /\ level
  /\ SampleAgain
  /\ held' = h
  /\ \/ /\ ResetDue(h)
        /\ reported' = TRUE
        /\ resets' = IF resets < 2 THEN resets + 1 ELSE 2
        /\ \/ StopLed /\ running' = 0
           \/ UNCHANGED <<ledVars, running>>
     \/ /\ ~ResetDue(h)
        /\ reported' = IF held = NONE THEN FALSE ELSE reported
        /\ UNCHANGED <<ledVars, running, resets>>
  /\ UNCHANGED <<level, down, up, hold, seen>>

(* The LED's own work item, and the calls of main and the broker thread.    *)
Led ==
  /\ LedStep
  /\ running' = IF led' = led THEN running ELSE 0
  /\ UNCHANGED <<level, button, down, up, hold, seen, resets>>

Tick ==
  /\ timer # 0 /\ LedTick
  /\ timer' = IF timer = NONE THEN NONE ELSE timer - 1
  /\ held' = IF held = NONE THEN NONE ELSE Ticked(held)
  /\ down' = IF level THEN Ticked(down) ELSE down
  /\ up' = IF level THEN up ELSE Ticked(up)
  /\ hold' = Ticked(hold)
  /\ running' = IF led = "running" THEN Ticked(running) ELSE 0
  /\ UNCHANGED <<level, reported, seen, resets>>

----------------------------------------------------------------------------

(* The button is up when its interrupt is configured. *)
Init ==
  /\ level = FALSE /\ timer = NONE /\ held = NONE /\ reported = FALSE
  /\ LedInit
  /\ down = 0 /\ up = POLL + 1 /\ hold = 0 /\ seen = TRUE /\ running = 0 /\ resets = 0

Next ==
  \/ Press \/ Release \/ SampleUp \/ SampleDown \/ Tick
  \/ Led

Spec == Init /\ [][Next]_vars

----------------------------------------------------------------------------
(* Properties                                                              *)

(* The reset is called only while the LED shows a running broker, and only *)
(* HOLD ticks or more after a press since which the button was never up    *)
(* for more than a sampling period: presses apart do not add up.               *)
NoEarlyReset == [][resets' > resets => led = "running" /\ hold >= HOLD]_vars

(* One press calls the reset at most once, however long it lasts and       *)
(* whatever the LED state does meanwhile.                                  *)
OneResetPerHold == resets <= 1

(* A button held without a break, pressed after a release that lasted long *)
(* enough to be sampled, calls the reset no later than one sampling period *)
(* after the time is up, if the broker has been running for that period.   *)
HeldLongEnough ==
  seen /\ level /\ down >= Limit /\ running > POLL => resets >= 1
=============================================================================
