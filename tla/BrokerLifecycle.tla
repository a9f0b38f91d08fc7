-------------------------- MODULE BrokerLifecycle --------------------------
(***************************************************************************)
(* One device from power-on to a serving broker, app/src/main.c with the   *)
(* parts of product_runtime.c and product_status_io.c it drives.           *)
(*                                                                         *)
(* Five things run beside each other: the main thread (boot, then a        *)
(* supervision loop every 10 s), the broker thread it creates, the console *)
(* thread, the HTTP server thread, and the system work queue (the button   *)
(* and the delayed reboots).  They share the settings, the broker state    *)
(* reported by /status, and the LED state, all without a lock.             *)
(*                                                                         *)
(* Settings are cut down to the two fields the start of the broker depends *)
(* on: broker_enabled, and whether the broker accepts broker_ip as its     *)
(* bind address ("bind").  Their copies and saves are single steps here;   *)
(* ProductConfig takes them apart.                                         *)
(***************************************************************************)
EXTENDS Naturals, LinkWait

CONSTANTS
  Flashes,    \* settings the flash may hold when the device is first switched on
  Flags,      \* values of broker_enabled a user may ask for, valid or not
  MaxRestarts \* bound on the restarts users, power and link cause in a behaviour

Settings == [enabled : {0, 1}, bind : {"good", "bad"}]
Defaults == [enabled |-> 1, bind |-> "good"] \* settings_defaults
None == [enabled |-> 0, bind |-> "none"]     \* no copy held
Users == {"console", "http"}

ASSUME ConstantAssumption ==
  /\ Flashes \subseteq Settings
  /\ Flags \subseteq Nat
  /\ MaxRestarts \in Nat

VARIABLES
  flash,   \* the settings record in the store
  ram,     \* "settings" of product_config.c
  main,    \* where the main thread is
  snap,    \* main's local copy of the settings, until its last use
  copy,    \* the copy a user's command has read and has not yet written back
  http,    \* the provisioning server is up
  broker,  \* where the broker thread is
  started, \* broker_thread_started
  state,   \* runtime_status.broker_state
  led,     \* status_state of product_status_io.c
  pending, \* a delayed reboot is scheduled
  left,    \* restarts the environment may still cause
  bootFlag, \* history: broker_enabled as this boot loaded it
  wiped,   \* history: a button reset stands, see ButtonReset
  forced   \* history: main has enabled the broker in flash, see EnableBroker

vars == <<flash, ram, main, linkVars, snap, copy, http, broker, started, state,
          led, pending, left, bootFlag, wiped, forced>>

config == <<flash, ram>>
mainVars == <<linkVars, snap>>
brokerVars == <<broker, started>>
userVars == <<copy, pending, left, bootFlag>>

Serving == broker \in {"announced", "run"}

TypeOK ==
  /\ LinkTypeOK
  /\ flash \in Settings /\ ram \in Settings
  /\ main \in {"init", "ethernet", "link_lost", "network", "enable", "bridge",
               "supervise", "create"}
  /\ snap \in Settings \cup {None}
  /\ copy \in [Users -> Settings \cup {None}]
  /\ broker \in {"none", "init", "listening", "announced", "run", "failed"}
  /\ state \in {"stopped", "requested", "running", "error"}
  /\ led \in {"booting", "stopped", "running", "error"}
  /\ http \in BOOLEAN /\ started \in BOOLEAN /\ pending \in BOOLEAN
  /\ left \in 0 .. MaxRestarts
  /\ bootFlag \in {0, 1}
  /\ wiped \in {"no", "quiet", "racing"}
  /\ forced \in BOOLEAN

----------------------------------------------------------------------------
(* Reporting                                                               *)

(* Mutant: an error is only logged. *)
ReportNothing == UNCHANGED <<state, led>>

(* product_runtime_broker_failed and product_status_io_set_error. *)
ReportFailure == state' = "error" /\ led' = "error"

(* Mutant: the start is not reported, so an earlier error stays. *)
KeepReport == UNCHANGED state

(* product_runtime_broker_started. *)
ReportRunning == state' = "running"

(* product_runtime_get_status asks the p2p library for its peers; in any    *)
(* other state it reports none.                                            *)
PeersCounted == state \in {"running", "requested"}

----------------------------------------------------------------------------
(* Saving                                                                  *)

(* product_config_set_settings with a record that validates: RAM always    *)
(* changes, the flash only if the save works.                              *)
SaveSettings(s, saved) ==
  /\ ram' = s
  /\ flash' = IF saved THEN s ELSE flash

(* product_config_reset_all. *)
ResetAll(saved) == SaveSettings(Defaults, saved)

----------------------------------------------------------------------------
(* The main thread                                                         *)

(* product_config_init, product_runtime_init, product_status_io_init and   *)
(* product_console_start, then main's own copy of the settings.  A store   *)
(* that does not open leaves the defaults in RAM.                          *)
Boot ==
  /\ main = "init" /\ main' = "ethernet"
  /\ \E loaded \in {flash, Defaults} :
       ram' = loaded /\ snap' = loaded /\ bootFlag' = loaded.enabled
  /\ UNCHANGED <<linkVars, flash, copy, http, brokerVars, state, led,
                 pending, left, wiped, forced>>

(* The link is sampled once more.  Bound: a wait that fails costs a restart *)
(* of the environment, so with none left the link is up.                   *)
SampleLink ==
  /\ main = "ethernet"
  /\ \E up \in BOOLEAN : (up \/ left > 0) /\ Sample(up)
  /\ UNCHANGED <<config, main, snap, http, brokerVars, state, led, userVars,
                 wiped, forced>>

(* The link became stable.  The server is started; a failure is only logged. *)
LinkUp ==
  /\ main = "ethernet" /\ main' = "network"
  /\ IsStable /\ ForgetSamples
  /\ http' \in BOOLEAN
  /\ UNCHANGED <<config, snap, brokerVars, state, led, userVars, wiped, forced>>

(* Ethernet did not start, or its link was not stable for 15 s. *)
LinkLost ==
  /\ main = "ethernet" /\ main' = "link_lost"
  /\ NoSamples \/ TimedOut
  /\ ForgetSamples
  /\ left > 0 /\ left' = left - 1
  /\ ReportFailure
  /\ UNCHANGED <<config, snap, copy, http, brokerVars, pending, bootFlag,
                 wiped, forced>>

(* start_broker_network and runtime_settings: with DHCP, or a wildcard     *)
(* broker_ip, main's copy gets the address of the interface.               *)
NetworkUp ==
  /\ main = "network" /\ main' = "enable"
  /\ \E b \in {snap.bind, "good"} : snap' = [snap EXCEPT !.bind = b]
  /\ UNCHANGED <<linkVars, config, http, brokerVars, state, led, userVars,
                 wiped, forced>>

(* Mutant: main writes back what it read at boot, without enabling it.     *)
WriteBackAsLoaded ==
  /\ main = "enable" /\ main' = "bridge"
  /\ \/ /\ snap.enabled = 0
        /\ \E saved \in BOOLEAN :
             SaveSettings(snap, saved) /\ forced' = (forced \/ saved)
     \/ snap.enabled # 0 /\ UNCHANGED <<config, forced>>
  /\ snap' = None
  /\ UNCHANGED <<linkVars, http, brokerVars, state, led, userVars, wiped>>

(* A disabled broker is enabled for this power-on, in RAM and in flash; the *)
(* result of the save is ignored.  What is written is the copy of the boot, *)
(* so that whatever was saved since is lost.  "forced" records that this    *)
(* write is in flash, until a command saves broker_enabled = 0 again.      *)
EnableBroker ==
  /\ main = "enable" /\ main' = "bridge"
  /\ \/ /\ snap.enabled = 0
        /\ \E saved \in BOOLEAN :
             /\ SaveSettings([snap EXCEPT !.enabled = 1], saved)
             /\ forced' = (forced \/ saved)
     \/ snap.enabled # 0 /\ UNCHANGED <<config, forced>>
  /\ snap' = None
  /\ UNCHANGED <<linkVars, http, brokerVars, state, led, userVars, wiped>>

(* bridge_control_init and the staged delays before the loop. *)
StageBroker ==
  /\ main = "bridge" /\ main' = "supervise"
  /\ UNCHANGED <<config, mainVars, http, brokerVars, state, led, userVars,
                 wiped, forced>>

(* Mutants: the loop starts the thread in every round; it honours           *)
(* broker_enabled.                                                          *)
StartAlways == TRUE
StartIfEnabled == ~started /\ ram.enabled = 1

(* broker_thread_started is all that start_broker_service looks at. *)
MayStart == ~started

(* One round of the loop while the thread is not started: it reads the      *)
(* settings afresh and asks the broker to bind.  Once the thread is started *)
(* start_broker_service returns at once, whatever was requested.            *)
StartBroker ==
  /\ main = "supervise"
  /\ MayStart
  /\ \/ /\ ram.bind # "good"
        /\ ReportFailure
        /\ UNCHANGED main
     \/ /\ ram.bind = "good"
        /\ led' = "running" /\ main' = "create"
        /\ UNCHANGED state
  /\ UNCHANGED <<config, mainVars, http, brokerVars, userVars, wiped, forced>>

(* The thread is created: its priority is below main's, so it first runs   *)
(* after broker_thread_started is set.                                     *)
CreateBroker ==
  /\ main = "create" /\ main' = "supervise"
  /\ broker' = "init" /\ started' = TRUE
  /\ UNCHANGED <<config, mainVars, http, state, led, userVars, wiped, forced>>

----------------------------------------------------------------------------
(* The broker thread, broker_service_entry                                 *)

(* Mutant: the thread reports the broker as running before it serves. *)
InitReported ==
  /\ broker = "init" /\ broker' = "listening"
  /\ state' = "running"
  /\ UNCHANGED <<config, main, mainVars, http, started, led, userVars, wiped, forced>>

InitBroker ==
  /\ broker = "init" /\ broker' = "listening"
  /\ UNCHANGED <<config, main, mainVars, http, started, state, led, userVars,
                 wiped, forced>>

(* broker_init failed: the thread ends, and broker_thread_started stays set. *)
InitFails ==
  /\ broker = "init" /\ broker' = "failed"
  /\ ReportFailure
  /\ UNCHANGED <<config, main, mainVars, http, started, userVars, wiped, forced>>

(* The fallback listener is tried, then the broker is reported as running. *)
AnnounceBroker ==
  /\ broker = "listening" /\ broker' = "announced"
  /\ ReportRunning
  /\ UNCHANGED <<config, main, mainVars, http, started, led, userVars, wiped, forced>>

(* A second later p2p is started and the broker loops for ever. *)
RunBroker ==
  /\ broker = "announced" /\ broker' = "run"
  /\ UNCHANGED <<config, main, mainVars, http, started, state, led, userVars,
                 wiped, forced>>

----------------------------------------------------------------------------
(* The console and the HTTP server                                         *)

CanAct(u) == IF u = "http" THEN http ELSE main # "init"

(* A command that changes settings reads them all first... *)
ReadSettings(u) ==
  /\ CanAct(u) /\ copy[u] = None
  /\ copy' = [copy EXCEPT ![u] = ram]
  /\ wiped' = "no"
  /\ UNCHANGED <<config, main, mainVars, http, brokerVars, state, led,
                 pending, left, bootFlag, forced>>

Edits(s) == {[s EXCEPT !.enabled = e] : e \in Flags} \cup
            {[s EXCEPT !.bind = b] : b \in {"good", "bad"}}

(* Mutant: broker_enabled is not checked to be 0 or 1. *)
AnyFlag(s) == TRUE

(* valid_bool in validate_settings. *)
ValidFlag(s) == s.enabled \in {0, 1}

(* ...changes one of them and writes all of them back.  Only "broker-state  *)
(* 1" of the console goes on to request a start, and only if the save       *)
(* worked.                                                                  *)
WriteSettings(u) ==
  /\ copy[u] # None
  /\ \E s \in Edits(copy[u]), saved \in BOOLEAN :
       /\ ValidFlag(s)
       /\ SaveSettings(s, saved)
       /\ forced' = (forced /\ ~(saved /\ s.enabled = 0))
       /\ \/ UNCHANGED state
          \/ u = "console" /\ saved /\ s.enabled = 1 /\ state' = "requested"
  /\ copy' = [copy EXCEPT ![u] = None]
  /\ UNCHANGED <<main, mainVars, http, brokerVars, led, pending, left,
                 bootFlag, wiped>>

(* The command was refused, or POST /config would change nothing.          *)
RefuseSettings(u) ==
  /\ copy[u] # None
  /\ copy' = [copy EXCEPT ![u] = None]
  /\ UNCHANGED <<config, main, mainVars, http, brokerVars, state, led,
                 pending, left, bootFlag, wiped, forced>>

(* "reset" or "defaults" on the console, POST /config/reset. *)
UserReset(u) ==
  /\ CanAct(u) /\ copy[u] = None
  /\ \E saved \in BOOLEAN : ResetAll(saved)
  /\ wiped' = "no"
  /\ UNCHANGED <<main, mainVars, http, brokerVars, state, led, userVars, forced>>

(* POST /broker/control changes what is reported, and nothing else. *)
ControlBroker ==
  /\ CanAct("http") /\ copy["http"] = None
  /\ state' \in {"requested", "stopped"}
  /\ UNCHANGED <<config, main, mainVars, http, brokerVars, led, userVars,
                 wiped, forced>>

----------------------------------------------------------------------------
(* The button and the restarts                                             *)

(* Mutant: a long press is honoured in any LED state. *)
ArmedAlways == TRUE

ButtonArmed == led = "running"

(* The button was held for 10 s while the LED state is RUNNING: the defaults *)
(* are restored and a reboot follows half a second later.  If a save fails   *)
(* nothing else happens.  "wiped" records whether some command was between   *)
(* its read and its write at that moment, until the next command begins.     *)
ButtonReset ==
  /\ ButtonArmed
  /\ \/ /\ left > 0
        /\ ResetAll(TRUE)
        /\ led' = "stopped" /\ state' = "stopped"
        /\ pending' = TRUE /\ left' = left - 1
        /\ wiped' = IF \A u \in Users : copy[u] = None THEN "quiet" ELSE "racing"
     \/ ResetAll(FALSE) /\ UNCHANGED <<led, state, pending, left, wiped>>
  /\ UNCHANGED <<main, mainVars, copy, http, brokerVars, bootFlag, forced>>

(* POST /reboot: a reboot 250 ms later. *)
HttpReboot ==
  /\ CanAct("http") /\ copy["http"] = None
  /\ left > 0
  /\ pending' = TRUE /\ left' = left - 1
  /\ UNCHANGED <<config, main, mainVars, copy, http, brokerVars, state, led,
                 bootFlag, wiped, forced>>

(* What a reset of the processor leaves: the flash. *)
Restart ==
  /\ main' = "init" /\ ForgetSamples
  /\ snap' = None /\ copy' = [u \in Users |-> None]
  /\ http' = FALSE /\ broker' = "none" /\ started' = FALSE
  /\ state' = "stopped" /\ led' = "booting" /\ pending' = FALSE
  /\ UNCHANGED <<config, bootFlag, wiped, forced>>

(* sys_reboot from the main thread, 10 s after the link was given up. *)
RetryLink == main = "link_lost" /\ Restart /\ UNCHANGED left

(* The delayed work of the button or of POST /reboot. *)
DelayedReboot == pending /\ Restart /\ UNCHANGED left

(* Power fails, or the console's "reboot". *)
PowerCycle == left > 0 /\ left' = left - 1 /\ Restart

----------------------------------------------------------------------------

Init ==
  /\ flash \in Flashes
  /\ ram = Defaults /\ main = "init" /\ NoSamples /\ snap = None
  /\ copy = [u \in Users |-> None]
  /\ http = FALSE /\ broker = "none" /\ started = FALSE
  /\ state = "stopped" /\ led = "booting" /\ pending = FALSE
  /\ left = MaxRestarts /\ bootFlag = 1 /\ wiped = "no" /\ forced = FALSE

MainStep ==
  \/ Boot \/ SampleLink \/ LinkUp \/ LinkLost \/ NetworkUp \/ EnableBroker
  \/ StageBroker \/ StartBroker \/ CreateBroker \/ RetryLink

BrokerStep == InitBroker \/ InitFails \/ AnnounceBroker \/ RunBroker

UserStep ==
  \/ \E u \in Users :
       ReadSettings(u) \/ WriteSettings(u) \/ RefuseSettings(u) \/ UserReset(u)
  \/ ControlBroker \/ HttpReboot

Next ==
  \/ MainStep \/ BrokerStep \/ UserStep
  \/ ButtonReset \/ DelayedReboot \/ PowerCycle

Spec == Init /\ [][Next]_vars

(* The scheduler runs every ready thread, and delayed work is executed.     *)
(* Nothing makes a user act or the power fail.                              *)
FairSpec == Spec /\ WF_vars(MainStep) /\ WF_vars(BrokerStep) /\ WF_vars(DelayedReboot)

----------------------------------------------------------------------------
(* Properties                                                              *)

(* /status says "running" only while the broker serves, whatever the users  *)
(* and the button do between broker_init and the report.                    *)
RunningIsReal == state = "running" => Serving

(* Once the broker serves, neither /status nor the LED shows an error, not  *)
(* even one left over from an attempt that failed before.  If broker_init   *)
(* failed the device never serves in this boot, and whatever requests come  *)
(* after that, which do change what /status says, the LED shows it.         *)
ErrorIsReal ==
  /\ Serving => state # "error" /\ led # "error"
  /\ broker = "failed" => led = "error"

(* While the broker serves, /status starts to report no peers, although the *)
(* library has them, only when somebody asks for a stop: by POST            *)
(* /broker/control or with the button.                                     *)
PeersHiddenOnRequest ==
  [][Serving' /\ ~PeersCounted' =>
       (Serving /\ ~PeersCounted) \/ ControlBroker \/ ButtonReset]_vars

(* The broker thread is created once per boot: its stack and its control    *)
(* block are static, so creating it again would overwrite a live thread.    *)
CreatedOncePerBoot == [][broker' = "init" => broker \in {"none", "init"}]_vars

(* A factory reset by the button with no command between its read and its   *)
(* write stands until somebody begins another command: main's own late      *)
(* write of the settings it read at boot cannot undo it.                    *)
QuietResetStands == wiped = "quiet" => flash = Defaults

(* The boot goes on exactly when the link was up in the last LINK_STABLE    *)
(* samples, and not before; it gives up only if it never was, whatever the  *)
(* link did in between.                                                     *)
LinkDecided ==
  [][main = "ethernet" =>
       /\ main' = "network" => UpUntil(samples, Len(samples))
       /\ main' \in {"ethernet", "network", "link_lost"} =>
            \A last \in 1 .. Len(samples) :
              UpUntil(samples, last) =>
                last = Len(samples) /\ main' = "network"]_<<main, samples>>

(* A boot that loads broker_enabled = 0 writes its copy of the settings     *)
(* back after the network is up, and commands and resets saved since it was *)
(* read are lost.  This happens once: as long as no command saves           *)
(* broker_enabled = 0 again, no later boot writes anything, so what is      *)
(* saved during a later boot stands, whatever was saved or reset meanwhile. *)
LateWriteOnce ==
  [][forced /\ main = "enable" /\ main' = "bridge" => UNCHANGED config]_vars

(* With the link up sooner or later and an address the broker can bind, the *)
(* device ends up serving, or with broker_init failed, whatever the saved   *)
(* broker_enabled says and whatever failed before.                          *)
BrokerComesUp == <>[](ram.bind = "good") => <>[](broker \in {"run", "failed"})

(* A start requested before the thread has run to its end is answered: the  *)
(* reported state moves on to running, error or stopped.                    *)
RequestAnswered ==
  (state = "requested" /\ ~Serving /\ broker # "failed") ~> state # "requested"

(* docs/todo.yaml:350-351: "Holding IO0 for at least 10 seconds while the   *)
(* broker is running restores default config".  With a command between its  *)
(* read and its write at that moment, the configuration it read comes back. *)
ResetStands == wiped # "no" => flash = Defaults

(* product_console.c:117 and :421: "disable/enable broker on next boot".    *)
(* A boot that loads broker_enabled = 0 does not start the broker.          *)
DisabledStaysDown == bootFlag = 0 => ~started
=============================================================================
