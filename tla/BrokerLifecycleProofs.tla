----------------------- MODULE BrokerLifecycleProofs -----------------------
(***************************************************************************)
(* The safety properties of BrokerLifecycle, for every flash content,      *)
(* every set of flags and any number of restarts.                          *)
(***************************************************************************)
EXTENDS BrokerLifecycle, LinkWaitProofs, TLAPS

(* The broker thread exists exactly when broker_thread_started is set, and *)
(* only the supervision loop has it created.                               *)
ThreadFollowsMain ==
  /\ started <=> broker # "none"
  /\ main # "supervise" => ~started

(* The LED says RUNNING only from the loop on, so the button cannot fire   *)
(* while main still holds the settings it read at boot.                    *)
LedFollowsMain == led = "running" => main \in {"supervise", "create"}

(* From the attempt to start the broker until it serves, no error is shown. *)
NoErrorWhileStarting ==
  main = "create" \/ broker \in {"init", "listening"} => led # "error"

(* Once main's late write is in flash, every boot loads broker_enabled = 1.  *)
ForcedStands ==
  forced =>
    /\ flash.enabled = 1
    /\ main \in {"ethernet", "network", "enable"} => snap.enabled = 1

(* main holds its copy of the settings from its read to its last use, and   *)
(* its broker_enabled stays what this boot loaded.                          *)
CopyHeld ==
  main \in {"ethernet", "network", "enable"} =>
    snap \in Settings /\ snap.enabled = bootFlag

(* After a quiet reset nobody holds an older copy, and the copy main takes  *)
(* at the next boot has nothing to enable.                                  *)
NoOlderCopy ==
  wiped = "quiet" =>
    /\ flash = Defaults
    /\ \A u \in Users : copy[u] = None
    /\ main \in {"ethernet", "network", "enable"} => snap.enabled = 1

IInv ==
  /\ TypeOK
  /\ LinkInv
  /\ ThreadFollowsMain
  /\ LedFollowsMain
  /\ RunningIsReal
  /\ ErrorIsReal
  /\ NoErrorWhileStarting
  /\ CopyHeld
  /\ NoOlderCopy
  /\ ForcedStands

LEMMA DefaultsType == Defaults \in Settings
BY DEF Defaults, Settings

(* The wait for the link is the business of main alone. *)
LEMMA LinkStep == IInv /\ Next => LinkInv' /\ LinkTypeOK'
<1> SUFFICES ASSUME IInv, Next PROVE LinkInv'
  BY DEF LinkInv
<1>1. CASE SampleLink
  <2>1. PICK up \in BOOLEAN : Sample(up)
    BY <1>1 DEF SampleLink
  <2>2. QED
    BY <2>1, SampleInv DEF IInv
<1>2. CASE LinkUp \/ LinkLost \/ RetryLink \/ DelayedReboot \/ PowerCycle
  BY <1>2, ForgetInv DEF LinkUp, LinkLost, RetryLink, DelayedReboot, PowerCycle, Restart
<1>3. CASE Boot \/ NetworkUp \/ EnableBroker \/ StageBroker \/ StartBroker \/ CreateBroker
  <2>1. UNCHANGED linkVars
    BY <1>3 DEF Boot, NetworkUp, EnableBroker, StageBroker, StartBroker, CreateBroker,
                mainVars
  <2>2. QED
    BY <2>1, StutterInv DEF IInv
<1>4. CASE BrokerStep \/ UserStep \/ ButtonReset
  <2>1. UNCHANGED linkVars
    BY <1>4 DEF BrokerStep, InitBroker, InitFails, AnnounceBroker, RunBroker, UserStep,
                ReadSettings, WriteSettings, RefuseSettings, UserReset, ControlBroker,
                HttpReboot, ButtonReset, mainVars
  <2>2. QED
    BY <2>1, StutterInv DEF IInv
<1>5. QED
  BY <1>1, <1>2, <1>3, <1>4 DEF Next, MainStep

LEMMA InitInv == Init => IInv
<1> SUFFICES ASSUME Init PROVE IInv
  OBVIOUS
<1>1. TypeOK
  <2>1. left \in 0 .. MaxRestarts
    BY ConstantAssumption DEF Init
  <2>2. flash \in Settings /\ ram \in Settings
    BY ConstantAssumption, DefaultsType DEF Init
  <2>3. copy \in [Users -> Settings \cup {None}] /\ snap \in Settings \cup {None}
    BY DEF Init
  <2>4. /\ http \in BOOLEAN /\ started \in BOOLEAN /\ pending \in BOOLEAN
        /\ bootFlag \in {0, 1} /\ forced \in BOOLEAN
    BY DEF Init
  <2>5. LinkTypeOK
    BY NoSamplesInv DEF Init, LinkInv
  <2>6. QED
    BY <2>1, <2>2, <2>3, <2>4, <2>5 DEF Init, TypeOK
<1>2. QED
  BY <1>1, NoSamplesInv
  DEF Init, IInv, ThreadFollowsMain, LedFollowsMain, RunningIsReal, ErrorIsReal,
      NoErrorWhileStarting, CopyHeld, ForcedStands, NoOlderCopy, Serving

(* What saving does to RAM and flash. *)
LEMMA SaveType ==
  ASSUME NEW s \in Settings, NEW saved \in BOOLEAN, flash \in Settings,
         SaveSettings(s, saved)
  PROVE  ram' \in Settings /\ flash' \in Settings
BY DEF SaveSettings

LEMMA MainInv == IInv /\ MainStep => IInv'
<1> SUFFICES ASSUME IInv, MainStep PROVE IInv'
  OBVIOUS
<1>0. LinkInv' /\ LinkTypeOK'
  BY LinkStep DEF Next
<1> USE <1>0
<1> USE DEF IInv, ThreadFollowsMain, LedFollowsMain, RunningIsReal, ErrorIsReal,
            NoErrorWhileStarting, CopyHeld, ForcedStands, NoOlderCopy,
            Serving, mainVars
<1>1. CASE Boot
  <2>1. TypeOK'
    BY <1>1, DefaultsType DEF Boot, TypeOK, Settings, brokerVars
  <2>2. QED
    BY <1>1, <2>1 DEF Boot, TypeOK, brokerVars, Defaults
<1>2. CASE LinkUp
  BY <1>2 DEF LinkUp, TypeOK, config, brokerVars, userVars
<1>3. CASE LinkLost
  BY <1>3, ConstantAssumption DEF LinkLost, ReportFailure, TypeOK, config, brokerVars
<1>4. CASE NetworkUp
  <2>1. PICK b \in {snap.bind, "good"} : snap' = [snap EXCEPT !.bind = b]
    BY <1>4 DEF NetworkUp
  <2>2. snap' \in Settings /\ snap'.enabled = snap.enabled
    BY <1>4, <2>1 DEF NetworkUp, Settings
  <2>3. QED
    BY <1>4, <2>2 DEF NetworkUp, TypeOK, config, brokerVars, userVars
<1>5. CASE EnableBroker
  <2>1. ram' \in Settings /\ flash' \in Settings
    BY <1>5 DEF EnableBroker, SaveSettings, TypeOK, Settings, config
  <2>2. TypeOK'
    BY <1>5, <2>1 DEF EnableBroker, TypeOK, brokerVars, userVars
  <2>3. wiped = "quiet" => flash' = flash
    BY <1>5 DEF EnableBroker, config
  <2>4. ForcedStands'
    <3>1. main' = "bridge"
      BY <1>5 DEF EnableBroker
    <3>2. CASE snap.enabled = 0
      <4>1. ~forced
        BY <1>5, <3>2 DEF EnableBroker
      <4>2. PICK saved \in BOOLEAN :
              SaveSettings([snap EXCEPT !.enabled = 1], saved) /\ forced' = (forced \/ saved)
        BY <1>5, <3>2 DEF EnableBroker
      <4>3. snap \in Settings
        BY <1>5 DEF EnableBroker
      <4>4. forced' => flash'.enabled = 1
        BY <4>1, <4>2, <4>3 DEF SaveSettings, Settings
      <4> QED BY <3>1, <4>4
    <3>3. CASE snap.enabled # 0
      BY <1>5, <3>1, <3>3 DEF EnableBroker, config
    <3> QED BY <3>2, <3>3
  <2> HIDE DEF ForcedStands
  <2>5. QED
    BY <1>5, <2>2, <2>3, <2>4 DEF EnableBroker, TypeOK, brokerVars, userVars
<1>6. CASE StageBroker
  BY <1>6 DEF StageBroker, TypeOK, config, brokerVars, userVars
<1>7. CASE StartBroker
  BY <1>7 DEF StartBroker, MayStart, ReportFailure, TypeOK, config, brokerVars, userVars
<1>8. CASE CreateBroker
  BY <1>8 DEF CreateBroker, TypeOK, config, userVars
<1>9. CASE RetryLink
  BY <1>9 DEF RetryLink, Restart, TypeOK, config, Users
<1>10. CASE SampleLink
  BY <1>10 DEF SampleLink, TypeOK, config, brokerVars, userVars
<1>11. QED
  BY <1>1, <1>2, <1>3, <1>4, <1>5, <1>6, <1>7, <1>8, <1>9, <1>10 DEF MainStep

LEMMA BrokerInv == IInv /\ BrokerStep => IInv'
<1> SUFFICES ASSUME IInv, BrokerStep PROVE IInv'
  OBVIOUS
<1>0. LinkInv' /\ LinkTypeOK'
  BY LinkStep DEF Next
<1> USE <1>0
<1> USE DEF IInv, TypeOK, ThreadFollowsMain, LedFollowsMain, RunningIsReal, ErrorIsReal,
            NoErrorWhileStarting, CopyHeld, ForcedStands, NoOlderCopy,
            Serving, config, userVars, mainVars
<1>1. CASE InitBroker
  BY <1>1 DEF InitBroker
<1>2. CASE InitFails
  BY <1>2 DEF InitFails, ReportFailure
<1>3. CASE AnnounceBroker
  BY <1>3 DEF AnnounceBroker, ReportRunning
<1>4. CASE RunBroker
  BY <1>4 DEF RunBroker
<1>5. QED
  BY <1>1, <1>2, <1>3, <1>4 DEF BrokerStep

LEMMA UserInv == IInv /\ UserStep => IInv'
<1> SUFFICES ASSUME IInv, UserStep PROVE IInv'
  OBVIOUS
<1>0. LinkInv' /\ LinkTypeOK'
  BY LinkStep DEF Next
<1> USE <1>0
<1> USE DEF IInv, ThreadFollowsMain, LedFollowsMain, RunningIsReal, ErrorIsReal,
            NoErrorWhileStarting, CopyHeld, ForcedStands, NoOlderCopy,
            Serving, brokerVars, mainVars
<1>1. ASSUME NEW u \in Users, ReadSettings(u) PROVE IInv'
  BY <1>1 DEF ReadSettings, TypeOK, config
<1>2. ASSUME NEW u \in Users, WriteSettings(u) PROVE IInv'
  <2>1. PICK s \in Edits(copy[u]), saved \in BOOLEAN :
          /\ ValidFlag(s)
          /\ SaveSettings(s, saved)
          /\ forced' = (forced /\ ~(saved /\ s.enabled = 0))
          /\ UNCHANGED state \/ state' = "requested"
    BY <1>2 DEF WriteSettings
  <2>2. s \in Settings
    BY <1>2, <2>1 DEF WriteSettings, Edits, ValidFlag, TypeOK, Settings
  <2>3. TypeOK'
    <3>1. forced' \in BOOLEAN
      BY <2>1, Zenon DEF TypeOK
    <3> QED BY <1>2, <2>1, <2>2, <3>1, SaveType DEF WriteSettings, TypeOK
  <2>4. ForcedStands'
    <3>1. forced' => forced
      BY <2>1
    <3>2. forced' => flash'.enabled = 1
      BY <2>1, <2>2 DEF SaveSettings, Settings, ValidFlag
    <3>3. UNCHANGED <<main, snap>>
      BY <1>2 DEF WriteSettings
    <3> QED BY <3>1, <3>2, <3>3
  <2> HIDE DEF ForcedStands
  <2>5. QED
    BY <1>2, <2>1, <2>3, <2>4 DEF WriteSettings, TypeOK
<1>3. ASSUME NEW u \in Users, RefuseSettings(u) PROVE IInv'
  BY <1>3 DEF RefuseSettings, TypeOK, config
<1>4. ASSUME NEW u \in Users, UserReset(u) PROVE IInv'
  <2>1. PICK saved \in BOOLEAN : SaveSettings(Defaults, saved)
    BY <1>4 DEF UserReset, ResetAll
  <2>2. ram' \in Settings /\ flash' \in Settings
    BY <2>1, SaveType, DefaultsType DEF TypeOK
  <2>3. ForcedStands'
    BY <1>4, <2>1 DEF UserReset, SaveSettings, Defaults, userVars
  <2> HIDE DEF ForcedStands
  <2>4. QED
    BY <1>4, <2>2, <2>3 DEF UserReset, TypeOK, userVars
<1>5. CASE ControlBroker
  BY <1>5 DEF ControlBroker, TypeOK, config, userVars
<1>6. CASE HttpReboot
  BY <1>6, ConstantAssumption DEF HttpReboot, TypeOK, config
<1>7. QED
  BY <1>1, <1>2, <1>3, <1>4, <1>5, <1>6 DEF UserStep

LEMMA ButtonInv == IInv /\ ButtonReset => IInv'
<1> SUFFICES ASSUME IInv, ButtonReset PROVE IInv'
  OBVIOUS
<1>0. LinkInv' /\ LinkTypeOK'
  BY LinkStep DEF Next
<1> USE <1>0
<1> USE DEF IInv, ThreadFollowsMain, LedFollowsMain, RunningIsReal, ErrorIsReal,
            NoErrorWhileStarting, CopyHeld, ForcedStands, NoOlderCopy,
            Serving, brokerVars, mainVars,
            ButtonReset, ButtonArmed, ResetAll
<1>1. ram' \in Settings /\ flash' \in Settings
  BY SaveType, DefaultsType DEF TypeOK
<1>2. TypeOK'
  <2>1. left' \in 0 .. MaxRestarts
    <3>1. left' = left \/ (left > 0 /\ left' = left - 1)
      BY Zenon
    <3>2. QED
      BY <3>1, ConstantAssumption DEF TypeOK
  <2>2. wiped' \in {"no", "quiet", "racing"}
    BY DEF TypeOK
  <2>3. /\ led' \in {"booting", "stopped", "running", "error"}
        /\ state' \in {"stopped", "requested", "running", "error"}
        /\ pending' \in BOOLEAN
    BY DEF TypeOK
  <2>4. QED
    BY <1>1, <2>1, <2>2, <2>3 DEF TypeOK
<1>3. wiped' = "quiet" => flash' = Defaults /\ \A u \in Users : copy[u] = None
  BY DEF SaveSettings
<1>4. ForcedStands'
  BY DEF SaveSettings, Defaults
<1>5. QED
  <2> HIDE DEF ForcedStands
  <2> QED BY <1>2, <1>3, <1>4 DEF TypeOK

LEMMA RestartInv == IInv /\ (DelayedReboot \/ PowerCycle) => IInv'
<1> SUFFICES ASSUME IInv, DelayedReboot \/ PowerCycle PROVE IInv'
  OBVIOUS
<1>0. LinkInv' /\ LinkTypeOK'
  BY LinkStep DEF Next
<1> USE <1>0
<1>1. Restart
  BY DEF DelayedReboot, PowerCycle
<1>2. left' \in 0 .. MaxRestarts
  BY ConstantAssumption DEF DelayedReboot, PowerCycle, IInv, TypeOK
<1>3. TypeOK'
  BY <1>1, <1>2 DEF Restart, IInv, TypeOK, config
<1>4. QED
  BY <1>1, <1>3 DEF Restart, IInv, ThreadFollowsMain, LedFollowsMain, RunningIsReal,
                    ErrorIsReal, NoErrorWhileStarting, CopyHeld, ForcedStands,
                    NoOlderCopy, Serving, config

LEMMA StepInv == IInv /\ [Next]_vars => IInv'
<1>1. IInv /\ UNCHANGED vars => IInv'
  BY StutterInv
  DEF vars, linkVars, LinkTypeOK, config, brokerVars, userVars, IInv, TypeOK,
      ThreadFollowsMain, LedFollowsMain, RunningIsReal, ErrorIsReal,
      NoErrorWhileStarting, CopyHeld, ForcedStands, NoOlderCopy, Serving
<1>2. QED
  BY <1>1, MainInv, BrokerInv, UserInv, ButtonInv, RestartInv DEF Next

LEMMA Invariance == Spec => []IInv
BY InitInv, StepInv, PTL DEF Spec

(* Every variable keeps its type. *)
THEOREM LifecycleTypeCorrect == Spec => []TypeOK
<1>1. IInv => TypeOK
  BY DEF IInv
<1>2. QED
  BY <1>1, Invariance, PTL

(* /status says "running" only while the broker serves. *)
THEOREM RunningIsRealTheorem == Spec => []RunningIsReal
<1>1. IInv => RunningIsReal
  BY DEF IInv
<1>2. QED
  BY <1>1, Invariance, PTL

(* No error is shown while the broker serves, and the LED shows a failed     *)
(* broker_init until the device restarts.                                  *)
THEOREM ErrorIsRealTheorem == Spec => []ErrorIsReal
<1>1. IInv => ErrorIsReal
  BY DEF IInv
<1>2. QED
  BY <1>1, Invariance, PTL

(* A factory reset by the button that met no command half done stands until *)
(* the next command, across the reboot and main's write during it.          *)
THEOREM QuietResetStandsTheorem == Spec => []QuietResetStands
<1>1. IInv => QuietResetStands
  BY DEF IInv, NoOlderCopy, QuietResetStands
<1>2. QED
  BY <1>1, Invariance, PTL

(* Only a step of main out of "create" starts the thread, and the thread is *)
(* not there then.                                                          *)
LEMMA StepCreatesOnce ==
  IInv /\ [Next]_vars => [broker' = "init" => broker \in {"none", "init"}]_vars
<1> SUFFICES ASSUME IInv, Next, broker' = "init" PROVE broker \in {"none", "init"}
  BY DEF vars
<1>1. CASE MainStep
  BY <1>1 DEF MainStep, Boot, SampleLink, LinkUp, LinkLost, NetworkUp, EnableBroker,
              StageBroker, StartBroker, CreateBroker, RetryLink, Restart, brokerVars,
              IInv, ThreadFollowsMain
<1>2. CASE BrokerStep
  BY <1>2 DEF BrokerStep, InitBroker, InitFails, AnnounceBroker, RunBroker
<1>3. CASE UserStep
  BY <1>3 DEF UserStep, ReadSettings, WriteSettings, RefuseSettings, UserReset,
              ControlBroker, HttpReboot, brokerVars
<1>4. CASE ButtonReset \/ DelayedReboot \/ PowerCycle
  BY <1>4 DEF ButtonReset, DelayedReboot, PowerCycle, Restart, brokerVars
<1>5. QED
  BY <1>1, <1>2, <1>3, <1>4 DEF Next

(* The broker thread is created at most once per boot. *)
THEOREM CreatedOnceTheorem == Spec => CreatedOncePerBoot
BY Invariance, StepCreatesOnce, PTL DEF Spec, CreatedOncePerBoot

(* With the late write in flash, the copy of a boot has nothing to enable.  *)
LEMMA StepWritesOnce ==
  IInv /\ [Next]_vars =>
    [forced /\ main = "enable" /\ main' = "bridge" => UNCHANGED config]_vars
<1> SUFFICES ASSUME IInv, Next, forced, main = "enable", main' = "bridge"
             PROVE  UNCHANGED config
  BY DEF vars
<1>1. CASE EnableBroker
  <2>1. snap.enabled = 1
    BY <1>1 DEF EnableBroker, IInv, ForcedStands
  <2>2. snap.enabled # 0
    BY <2>1
  <2> QED BY <1>1, <2>2 DEF EnableBroker
<1>2. CASE MainStep /\ ~EnableBroker
  BY <1>2 DEF MainStep, Boot, SampleLink, LinkUp, LinkLost, NetworkUp, StageBroker,
              StartBroker, CreateBroker, RetryLink, Restart
<1>3. CASE BrokerStep
  BY <1>3 DEF BrokerStep, InitBroker, InitFails, AnnounceBroker, RunBroker
<1>4. CASE UserStep
  BY <1>4 DEF UserStep, ReadSettings, WriteSettings, RefuseSettings, UserReset,
              ControlBroker, HttpReboot
<1>5. CASE ButtonReset \/ DelayedReboot \/ PowerCycle
  BY <1>5 DEF ButtonReset, DelayedReboot, PowerCycle, Restart
<1>6. QED
  BY <1>1, <1>2, <1>3, <1>4, <1>5 DEF Next

(* main overwrites the settings with the copy of a boot at most once, until *)
(* a command saves broker_enabled = 0 again.                                *)
THEOREM LateWriteOnceTheorem == Spec => LateWriteOnce
BY Invariance, StepWritesOnce, PTL DEF Spec, LateWriteOnce

(* The step that ends the wait for the link, and each that goes on with it. *)
Decided ==
  main = "ethernet" =>
    /\ main' = "network" => UpUntil(samples, Len(samples))
    /\ main' \in {"ethernet", "network", "link_lost"} =>
         \A last \in 1 .. Len(samples) :
           UpUntil(samples, last) => last = Len(samples) /\ main' = "network"

LEMMA StepDecides == IInv /\ [Next]_vars => [Decided]_<<main, samples>>
<1> SUFFICES ASSUME IInv, Next, main = "ethernet", UNCHANGED <<main, samples>> => FALSE
             PROVE  Decided
  BY DEF vars, linkVars, Decided
<1>1. CASE SampleLink
  <2>1. ~IsStable /\ main' = "ethernet"
    BY <1>1 DEF SampleLink, Sample, Waiting
  <2>2. QED
    BY <2>1, UnstableWasNotUp DEF Decided, IInv
<1>2. CASE LinkUp
  <2>1. IsStable /\ main' = "network"
    BY <1>2 DEF LinkUp
  <2>2. QED
    BY <2>1, StableWasUp, StableIsLast DEF Decided, IInv
<1>3. CASE LinkLost
  <2>1. main' = "link_lost"
    BY <1>3 DEF LinkLost
  <2>2. CASE NoSamples
    BY <2>1, <2>2 DEF Decided, NoSamples
  <2>3. CASE TimedOut
    BY <2>1, <2>3, UnstableWasNotUp DEF Decided, IInv, TimedOut
  <2>4. QED
    BY <1>3, <2>2, <2>3 DEF LinkLost
<1>4. CASE Boot \/ NetworkUp \/ EnableBroker \/ StageBroker \/ StartBroker \/ CreateBroker
           \/ RetryLink
  BY <1>4 DEF Boot, NetworkUp, EnableBroker, StageBroker, StartBroker, CreateBroker,
              RetryLink
<1>5. CASE BrokerStep \/ UserStep \/ ButtonReset
  BY <1>5 DEF BrokerStep, InitBroker, InitFails, AnnounceBroker, RunBroker, UserStep,
              ReadSettings, WriteSettings, RefuseSettings, UserReset, ControlBroker,
              HttpReboot, ButtonReset, mainVars, linkVars
<1>6. CASE DelayedReboot \/ PowerCycle
  BY <1>6 DEF DelayedReboot, PowerCycle, Restart, Decided
<1>7. QED
  BY <1>1, <1>2, <1>3, <1>4, <1>5, <1>6 DEF Next, MainStep

(* The boot goes on exactly when the link was stable. *)
THEOREM LinkDecidedTheorem == Spec => LinkDecided
BY Invariance, StepDecides, PTL DEF Spec, LinkDecided, Decided

(* A serving broker is reported without its peers only from a request on.  *)
LEMMA StepHidesOnRequest ==
  IInv /\ [Next]_vars =>
    [Serving' /\ ~PeersCounted' =>
       (Serving /\ ~PeersCounted) \/ ControlBroker \/ ButtonReset]_vars
<1> SUFFICES ASSUME IInv, Next, Serving', ~PeersCounted', ~ControlBroker, ~ButtonReset
             PROVE  Serving /\ ~PeersCounted
  BY DEF vars
<1> USE DEF Serving, PeersCounted
<1>1. CASE MainStep
  <2>1. Serving
    BY <1>1 DEF MainStep, Boot, SampleLink, LinkUp, LinkLost, NetworkUp, EnableBroker,
                StageBroker, StartBroker, CreateBroker, RetryLink, Restart, brokerVars
  <2>2. started /\ main = "supervise"
    BY <2>1 DEF IInv, ThreadFollowsMain
  <2>3. UNCHANGED state
    BY <1>1, <2>2 DEF MainStep, Boot, SampleLink, LinkUp, LinkLost, NetworkUp,
                      EnableBroker, StageBroker, StartBroker, MayStart, CreateBroker,
                      RetryLink
  <2>4. QED
    BY <2>1, <2>3
<1>2. CASE BrokerStep
  BY <1>2 DEF BrokerStep, InitBroker, InitFails, AnnounceBroker, RunBroker, ReportRunning
<1>3. CASE UserStep
  BY <1>3 DEF UserStep, ReadSettings, WriteSettings, RefuseSettings, UserReset, HttpReboot,
              brokerVars
<1>4. CASE DelayedReboot \/ PowerCycle
  BY <1>4 DEF DelayedReboot, PowerCycle, Restart
<1>5. QED
  BY <1>1, <1>2, <1>3, <1>4 DEF Next

(* A serving broker is reported without its peers only after a request.    *)
THEOREM PeersHiddenOnRequestTheorem == Spec => PeersHiddenOnRequest
BY Invariance, StepHidesOnRequest, PTL DEF Spec, PeersHiddenOnRequest
=============================================================================
