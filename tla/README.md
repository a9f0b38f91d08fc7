# TLA+ models of the MQTT field bridge

Models, model-checking runs and machine-checked proofs about `app/src`, the
firmware of an ESP32 with a W5500 Ethernet chip that runs an MQTT broker and
bridges it to other brokers. The models follow the Zephyr build
(`CONFIG_ETH_W5500=y`, two peers, two HTTP clients, one core). All paths below
are relative to the repository.

## The system

| Component | State | Operations | Shared with |
| --- | --- | --- | --- |
| Configuration (`product_config.c`) | `settings` and `peers` in RAM, one flash record per key, `settings_loaded_from_store` | init/load, get, set, reset all, apply a default profile | everybody, no lock |
| Boot and supervision (`main.c`) | local copy of the settings, `broker_thread_started` | link wait, HTTP start, forced `broker_enabled`, staged start, 10 s loop, delayed reboot | configuration, status, LED, seeds |
| Broker thread (`main.c:69-105`) | the broker library | `broker_init`, fallback listener, report, p2p start, run | status, LED |
| Runtime status (`product_runtime.c`) | `broker_state`, network state, last error, last publish test | started/failed/enabled, two status reports | everybody, no lock |
| LED and button (`product_status_io.c`) | LED state, press time, reported flag, two work items | set running/error, sample the button, blink | main, broker thread, work queue |
| Peer seeds (`bridge_control.c`) | the seed table of the p2p library | empty and refill from the configuration | main, HTTP thread |
| HTTP server (`provisioning_http.c`) | two buffer slots | status, config, peers, control, reset, reboot | configuration, status, seeds |
| Console (`product_console.c`) | current menu | about 20 commands, numbered menus | configuration, status |
| Ethernet bring-up (`product_ethernet.c`) | the network interface | start, link ready | main |
| Topic helpers, digital I/O bridge | none | string builders; a stub outside the build | - |

Threads: the system work queue (cooperative: button, LED, delayed reboots), main
(priority 0), broker (6), console (9) and the HTTP server, whose priority is
Zephyr's choice and set nowhere in the repository: no order is assumed between
it and the others. Nothing in `app/src` takes a lock, so what is hard here is:

* read-modify-write of the settings by three threads, with a factory reset on
  the work queue in between;
* copies that another call interrupts, saves that fail, power that fails
  between the saves of one call;
* one status word and one LED state written by five actors;
* a button sampled every 100 ms whose interrupt is ignored while a sample is
  scheduled;
* a seed table emptied and refilled by two threads;
* an LED whose work item runs between the steps of the threads that set it;
* a console in which a number means something else after every menu, and whose
  numbers are cast before they are checked.

What makes each component correct is stated by the properties below.
`PROJECT.json` lists the hazards with their lines, and which property covers
which.

## Modules

| Module | Models | Built on |
| --- | --- | --- |
| `ProductConfig`, `PersistentConfig` | the configuration store, and what a user may expect of it | - |
| `BrokerLifecycle` | boot, supervision, broker thread, status, commands, button reset, restarts | `LinkWait` |
| `LinkWait` | the wait for a stable link | - |
| `PeerSeeds` | seed table and peer report | - |
| `StatusButton` | button, and the clock of both work items | `StatusLed` |
| `StatusLed` | LED states and blinking | - |
| `HttpHandler` | HTTP callbacks, slots, routes | - |
| `Console` | commands and numbered menus | - |
| `Topics` | the topic builders | - |
| `...Proofs` | the theorems of the module before the word | that module |
| `MC...` | constants for TLC | that module |

### ProductConfig, PersistentConfig

`ProductConfig` is `product_config.c`. `ram` is the globals, `store` the flash,
`op[t]` the call thread `t` is in: the field copies it has still to do and the
keys it has still to save. `SetSettings`, `SetPeer`, `ResetAll` and
`ApplyDefaults` start a call, `CopyField` does one copy, `SaveKey` one save,
`SaveFails` is a save that returns an error (the call returns, later keys are
not saved), and `Reboot` is power loss or reset followed by
`product_config_init`, with a store that opens (`LoadConfig`, with the
conversion of a version-1 record) or does not (`LoadNothing`).

A record has three pieces, the ones a copy can be interrupted between and the
validity rules relate: `text` (the strings), `port` (`mqtt_port`, standing for
`p2p_port` too) and `tail` (`fallback_port`; `enabled` for a peer).
`mqtt_port` and `fallback_port` lie in different words of the record, so an
interrupted copy can mix them. The first flash may hold anything:
`persist_load` checks the settings it loads and takes every peer as it is
(`Original` names the records that were there from the first). `stale` and `torn` are history variables: keys
whose save was given up, and keys two calls touched at once.

`PersistentConfig` is what a user may expect: a current value per key, the
value the next start will use, and a set of dirty keys for which the two may
differ. `ProductConfig` implements it (`KeepsPromise`), with `next` mapped to
what a boot would load from the flash now.

Assumption about `dephy_config_store`, which is outside the repository: one
save is atomic with respect to power loss, and it reads the caller's buffer at
one moment of the save.

### BrokerLifecycle

Power-on to a serving broker. `main` is the point main has reached, `snap` its
copy of the settings, `broker` the point of the broker thread, `copy[u]` the
settings a console or HTTP command has read and not written back. The actions
are named for the steps of `main.c`; `ReadSettings`/`WriteSettings` stand for
every command that changes settings, `ControlBroker` for `/broker/control`,
`ButtonReset` for the long press, `RetryLink`, `DelayedReboot` and `PowerCycle`
for the ways the processor restarts. Settings have two fields: `enabled`, and
`bind`, whether the broker accepts `broker_ip`. DHCP and wildcard addresses
appear as the choice in `NetworkUp`.

The boot contains `LinkWait`: `SampleLink` is one round of
`wait_for_w5500_link_stable`, `LinkUp` goes on when enough samples in a row were
up, `LinkLost` gives up when the time is over or the Ethernet did not start.
`samples` keeps what was seen, so that the counter `stable_samples` can be
compared with it. `PeersCounted` is the condition under which
`product_runtime_get_status` asks the library for peers.

Merged into single steps: a save (ProductConfig has its parts); the report of a
failure to status and LED, two stores in a row by one thread; and
`broker-state 1` with the request it makes. Branches no state can reach are left
out: a network mode other than AUTO and ETH, `network not ready`, and a
`get_settings` that fails.

### PeerSeeds

`bridge_control_apply_peers` step by step: empty the table, look at
`bridge_enabled`, then read a peer, and add it. Main calls it twice, during the
boot (`BootCalls`) and before it creates the broker's thread (`StartCalls`;
`stage` says which came last), the HTTP thread after every POST /peers/<i> that
was saved. Between any two steps of one caller the other may run, whole calls of
it included, and the console, the button and POST /config may change what both
read. Whether the library stores an address twice is left open.

Four history variables say what may be asked of the table: `changed`, the peers
that changed since it was last emptied; `gone`, the addresses a change took away
that are in the table or that a caller may still hold; `shared`, whether another
caller was filling the table when it was last emptied; and `saved`, whether the
last change was a POST that was saved.

`persist_load` validates the settings but not the peers, so the table starts
from peers of `Stored` that need not validate. `Eligible` is what
`bridge_control.c` checks before it hands a peer to the library, `PeerState`
what `product_runtime_get_peer_statuses` says of the same peer. A port is zero
or not.

### StatusButton, StatusLed

`StatusLed` is the LED: `StatusWork` is the work item, `BeginSet`, `SetFlag` and
`EndSet` the three steps in which `product_status_io_set_running` and
`set_error` change the state, `activity_led_on` and the LED with its clock.
Those threads are preempted by the work queue and never by each other in such a
call, so at most one is in it. `StopLed` is the same call made on the work queue
after a reset by the button, and happens at once. Whoever lights the LED without
`activity_led_on`, as the start does, makes the first toggle invisible: a phase
may then last two intervals, and `KeepsBlinking` allows that.

`StatusButton` extends it with the button and moves one clock for both. The interrupt, the work item and the handler, with time in ticks, `POLL` ticks
to a sample. `timer` is the delay of the work item, `held` is
`now - button_pressed_ms`. `down`, `up`, `hold`, `seen`, `running` and `resets`
are history variables that measure what the finger really did.

### Console

`product_console_handle_line`, one line a step. `menu` is `current_menu`,
`output` what was answered, `ram` and `flash` the configuration, one record per
key. `Word` is a line of one word, `MenuIndex` a number in the menu shown last,
the `Cmd...` operators the commands with values, with the casts (`U16`, `U8`)
and the cut of a text (`Copied`). `Store` validates and saves, and the save may
fail; `Wipe` saves key by key up to the first failure. `Labels` is what the menus
print beside their numbers, which another function of the source says again.
A number of too many digits overflows an `int`, so `Indices` lets it become any
index. `Reboot` is the command or the power.

### Topics

The builders of `product_topics.c` on sequences of characters. They keep no
state, so the module has theorems and no run. The firmware calls
`product_topic_build` for `GET /status`; `product_topic_matches_prefix` is only
called by the tests.

### HttpHandler

The Zephyr handler of `provisioning_http.c`. `conn[c]` is what client context
`c` is doing: sending a request whose body comes in `left` more pieces, or being
sent an answer; `slots` is `zephyr_buffers`. `Request` is the head of a request,
`DataMore` a piece that is not the last (the handler ignores it), `DataFinal`
the last, on which everything happens: `Acquires` a slot, then `Get`, one of the
`Post...` operators, or `NotFound`. `EndTransaction` is the server's completion
or abort callback. Callbacks run on one thread, so each is one step, and they
interleave per client. Zephyr may allow fewer interleavings than that; none is
excluded here. A failed save is a disjunct of the operators that save, and
`Reboot` is the scheduled reboot or the power. Other threads' writes are left to
`ProductConfig`.

A text is its length, so a text cut off is a smaller number; the JSON readers
(`StringOf`, `U16Of`, `BoolOf`) say for each value whether they succeed and
what they leave in the caller's variable, since a failing `json_get_string` does
write to it. Of the settings the module has one text, the mode, the MQTT port
and one flag; of a peer the host, both ports and the flag. The other fields are
read by the same readers. A request's values are texts of any length,
any integers, and words.

## Runs

| Run | Question | Bounds |
| --- | --- | --- |
| `config_two_threads` | Do two overlapping calls, failed saves and power loss keep RAM and flash consistent, and does every start have valid settings? | two threads, one peer, which does not validate in the first flash, two settings whose mix is invalid and one invalid input set; symmetric threads |
| `config_migration` | Does the conversion of old records, and each default profile, survive a reboot unchanged? | one thread, two peers, five flash contents (none, current, current with settings and peers that do not validate, version 1, version 1 with a port clash) |
| `lifecycle` | Is what status and LED say true, is the thread created once, does a quiet reset stand, does main overwrite what commands saved once at most, is the link judged by its samples, does the device come up, and is an early request answered? | all four settings in flash, two restarts, five samples of which three in a row are needed |
| `broker_state_on_boot` | finding: the help of `broker-state` | violated |
| `reset_against_command` | finding: a reset undone by a command | violated |
| `peer_seeds` | Does the table match the configuration whatever interrupts the calls that fill it, and does the peer report agree with it? | two peers and room for two seeds, two addresses and one host name, peers in flash with every field that validation would refuse, main's two calls and any number of the HTTP thread's, also both at once |
| `status_button` | Does the long press behave, wherever the edges fall, and does the LED show the state? | 2 ticks to a sample and to an LED period, 5 to the hold, 3 and 4 to a toggle |
| `console` | Do numbers, words and failed saves leave valid records, honest answers and the right item done? | two peers, texts and ports at and beyond every limit (0, 8080, 65535, 65536 and more) |
| `http_storage` | Does what requests store fit, validate and survive when the answer says so? | two clients and two slots as in `prj.conf`, one peer, fields of up to 3 characters, 21 requests at and beyond every limit; symmetric clients |
| `http_slots` | Do slots and answers stay together? | three clients and two slots, one request per route and outcome; symmetric clients |
| `http_retry_after_failed_save`, `http_body_in_pieces` | findings: two ways a POST answered 200 did not store what was sent | violated |

Why the bounds are enough. Two threads are the least that overlap, and the
hazard of a copy needs no third; two peers exercise the order of the saves. The
inputs are chosen so that their mix breaks a rule neither of them breaks. Two
restarts let a reset, its reboot and one more power loss happen in one
behaviour. With five samples and three in a row needed, the link can come up at
once, at the last moment, one sample too late, or after a run that was broken.
In the button, `POLL` and `HOLD` have no common factor, so the time
is up between two samples, and a release can be shorter than, equal to and
longer than a sampling period. `FAST` is not a multiple of `PERIOD`, so a toggle
is late by part of a period. `LongestPhase` bounds the clock of the LED above
every value the properties compare it with.

The third HTTP client is one more than the configuration has, so that the slots
run out at all; with two, `NeverRefused` says they do not. Bodies in
`http_storage` hold at most three fields, enough for one that is kept, one that
is refused and one that marks the body as readable.

`MaxRestarts` bounds the restarts users, power failures and lost links cause;
`stage` lets main call `bridge_control_apply_peers` as often as it really does in
a boot, twice. Nothing else counts up
without end. No run switches the deadlock check off.

The small definitions marked "Mutant" in the modules are not part of the
models. Each is a plausible slip in the definition below it, and replacing that
definition by it makes a property of a run fail, which shows the property can
fail.

### Fairness

`FairSpec` assumes that main's steps, the broker thread's steps and a scheduled
reboot are eventually taken: each thread is runnable or sleeping for a bounded
time and the Zephyr scheduler runs it. Nothing is assumed of users, the button,
the power, or of the link coming up: each lost link costs one of the
`MaxRestarts`, so the property speaks of behaviours in which it is lost
finitely often. With no restart left `SampleLink` finds the link up, for the
same reason: a bound of the model, not of the code.

### What the runs show

* A record that does not validate can be in RAM or flash only if two calls
  changed or saved the same key at once, or if it was in flash from the first
  (`ValidUnlessTorn`). The next start rejects such settings and uses defaults
  (`BootsToValidSettings`); such a peer it keeps, and `bridge_control.c` and
  `product_runtime.c` check it again (see `PeerSeeds`).
* Since a save stores the global and not the argument, RAM and flash agree
  once nobody is saving, unless a save failed (`Converged`).
* `/status` never says running without a serving broker, and no error outlives
  the start (`RunningIsReal`, `ErrorIsReal`). A `broker_init` that failed is shown
  by the LED until the restart, whatever later requests make of `/status`;
  `BrokerComesUp` counts it as an end of the boot, since main does not try again.
* `RequestAnswered` stops where the code does: a request made once the broker
  serves, or after `broker_init` failed, is never answered, because
  `start_broker_service` returns at once.
* `QuietResetStands` needs the button to be armed by RUNNING only: before that,
  main could write back the settings it read at boot. A boot that loads
  `broker_enabled` 0 does so, and what commands or a reset saved since main
  read them is lost. It happens once: until a command saves `broker_enabled` 0
  again, no later boot writes anything (`LateWriteOnce`).
* With main and the HTTP thread filling the seed table at once, nothing gets
  into it that no caller had reason to add, and no eligible peer that stood still
  is missing when both are done, with one exception: a peer both added twice may
  use up the table and leave another one out (`SeedsMatch`). What the console,
  a reset or POST /config changes is not applied until the next call: such
  peers are in `changed` or `gone`, and the property says nothing of them.
* The link is accepted exactly when the last samples were all up, and given up
  only if no such run occurred at all (`LinkDecided`).
* `/status` hides the peers of a serving broker after a request to stop, and for
  no other reason (`PeersHiddenOnRequest`).
* Every peer handed to the library is reported with a state of its connection,
  even one that came unvalidated from flash; for peers that validate the two
  judge alike (`SeededIsReported`).
* A stopped broker's LED is dark within one period and every other state keeps
  blinking, although the work item runs in the middle of the calls that set it
  (`StoppedIsDark`, `KeepsBlinking`).
* On the console a menu number does what is printed beside it
  (`NumbersFollowLabels`), a repeated command is saved again, so an OK is always
  true (`UnsavedIsKnown`; POST /config differs, see the findings), and a number
  that wraps still has to validate (`BothCopiesValid`).
* Two slots suffice for two clients (`NeverRefused`), an answer is never built
  over one that is still being sent (`ResponseIntact`), and a slot never
  outlives its transaction (`SlotsFollowAnswers`).
* Requests can leave RAM and flash different, after a save that failed, but
  both always validate (`BothCopiesValid`), and a refused request has changed
  nothing a reboot would load (`RefusedLeavesFlash`).
* A text too long for its field is stored cut off, never beyond its buffer
  (`TypeOK`): `json_get_string` writes before it fails.

### Findings

* `broker-state <0|1>` is documented as "disable/enable broker on next boot"
  (`app/src/product_console.c:117`), and `main.c:337-341` enables it again at
  every boot.
* A factory reset by the button is undone when a command had read the settings
  before it and writes them after it, within the 500 ms before the reboot.
* The page shows "Save success" for every 200 (`provisioning_http.c:118`), and a
  POST /config is answered 200 although nothing was saved when it repeats one
  whose save failed: RAM already has the new settings, so nothing seems to
  change (`provisioning_http.c:447`).
* A body that arrives in two pieces is not refused as "request too large" but
  applied from its last piece (`provisioning_http.c:572`). The buffers of the
  server and of the handler have the same 768 bytes.

## Proofs

Proved by TLAPS for all values of the constants that satisfy the modules'
`ASSUME`s, which say what inputs, flash contents and sizes can be.

`ProductConfigProofs`: `IInv` is `TypeOK`, `Converged` and `WritesAreOwed`.
`Converged` alone is not inductive: a copy changes RAM, and only because the
call still owes the save (`WritesAreOwed`) may RAM then differ from flash. Each
action has a lemma. `Planned` collects what a call hands to `Begin`, so the four
calls share one argument. `Implements` follows from `IInv`: a call's start marks
keys dirty, a copy of a dirty key is a `Change`, a save is a `Flush`, a reboot a
`Restart`, anything else a stutter. `BootsToValidSettings` needs no invariant
beyond the type and the assumption that the defaults validate.

`ValidUnlessTorn` and `RebootPreserves` follow from `VInv`, which
adds `Settled` to `IInv`: for a key no two calls touched, the rest of a call's
copy completes a record that validates. What a list of field copies makes of a
record is said without recursion, by its last write to each field (`LastSets`,
`Yields`). Every plan a call starts with ends each record it touches in a valid
one, whatever it finds there (`Sound`), and one copy leaves the outcome of the
rest alone (`RestYields`). Peers that were in flash from the first need not
validate, and a boot only moves them between flash and RAM (`FitsFlash`,
`FitsRam`). For `RebootPreserves`, settings that validate and any peer are what
`LoadConfig` uses.

`LinkWaitProofs` has the lemmas on the wait for the link: `LinkInv` says the
counter is the number of samples at the end of `samples` that were up, and that
no run of `LINK_STABLE` ended before the last one. `BrokerLifecycleProofs` uses
it for `LinkDecided`.

`Topics` proves its theorems with `TopicParts`: a topic is prefix, slash, stream.

`BrokerLifecycleProofs`: `IInv` adds to the properties how the variables move
together: the thread exists exactly when `started` is set and only the loop
creates it (`ThreadFollowsMain`), the LED says running only from the loop on
(`LedFollowsMain`), no error is shown from the attempt to start until the
broker serves (`NoErrorWhileStarting`, without which `ErrorIsReal` is not
preserved by `AnnounceBroker`), main holds a copy exactly while it needs one and
its flag is the one loaded (`CopyHeld`), after main's late write the flash and every later
copy main loads from it have the broker enabled (`ForcedStands`, for
`LateWriteOnce`), and after a quiet reset nobody holds an older copy
(`NoOlderCopy`).

`HttpHandlerProofs`: `IInv` joins `TypeOK`, `BothCopiesValid`, `ResponseIntact`,
`SlotsFollowAnswers` and `NeverRefused`. The first half rests on what the
readers leave in a variable (`StringFits`, `U16Fits`, `BoolFits`) and on
`HandledKeepsData`: every route edits the configuration into one that validates
or leaves it. The slots need `SlotsFollowAnswers`: a client that is not being
answered owns no slot, so it is given a free one and nobody's answer is
overwritten. `NeverRefused` is a counting argument (`MoreClients`): if no slot is
free, each belongs to a different client other than the one asking, so there
are more clients than slots. It is proved for any number of both.

An answer is made in one step (`AnsweredByFinal`), which gives the two action
properties: `Truthful` says of an answer to `c` that a 400 left the flash alone,
the half-done reset excepted, and that "reboot required" was said with RAM and
flash equal; `HandledIsTruthful` shows it for every route.

`ConsoleProofs`: a line changes the configuration in one of three ways, by storing
one record (`Store`), by wiping it (`Wipe`) or by a restart (`Reboot`), and
otherwise not at all. `NextEffect` shows that of every command, word and number,
with the types of what is stored; here the lemmas on the casts are needed
(`U16Fits`, `CopiedFits`). `IInv` is `TypeOK`, `BothCopiesValid` and
`UnsavedIsKnown`, and is preserved by each of the three. `ErrorKeepsSettings`
follows from the same case split. `NumbersFollowLabels` compares two tables, one
menu after the other.

`PeerSeedsProofs`: `SeedsMatch` says nothing of calls on their way, so `IInv` has to.
The argument is about who emptied the table last: that caller leads (`Leads`),
and every eligible peer it has looked at is in the table (`In`), or the table is
full and both had been filling it (`InOrFull`). If nobody leads, the table is
complete (`Complete`), and that is `SomeoneLeads`. Alone, the leader has added at
most one seed for each peer it looked at (`AtMostOne`), so there is room for the
rest; with another caller at work there need not be. The other caller can add
to the table but not take away. `HeldIsCurrent` says that the copy a caller
works with is still the peer in the configuration, unless that changed.
`OnlyWanted` says that the table, and `HeldFits` and `BridgeFits` that what a
caller is about to add, is wanted or in `gone`; without `gone` a caller could add
a peer read before a reset. `SavedIsCalled`: after a POST that was saved, the
HTTP thread still has to empty the table or has done so.
`SeededIsReported` needs the types only: it compares two functions of a
peer.

`StatusButtonProofs`: the LED's properties bound a clock, so `IInv` bounds what is
left of it: the LED has changed no longer ago than a phase less the time to the
next toggle (`BlinkSoon`), and a stopped LED is dark after at most what is left
of the period (`DarkSoon`). The button needs more. The interrupt of a press that
`seen` calls seen finds no sample scheduled, so the handler's clock starts with
the press (`SeenIsTimed`) and never runs ahead of it (`HeldBehind`). Nothing
counts as reported before a reset (`NotReported`), so each sample without one
found the time not up or the LED not RUNNING (`NotDue`), and that is
`HeldLongEnough`.

Only model-checked: `BrokerComesUp` and `RequestAnswered`, liveness under
`FairSpec`, which the prover cannot do, and the properties of the four runs with
findings, which do not hold. Every other property of a run is a theorem.

## Not modelled

The MQTT broker, the p2p library, the configuration store and the Ethernet
driver are not in this repository; the models have what `app/src` uses of
them. The Linux build, on which the host tests run, is left out: the second half
of `main.c` and the socket server of `provisioning_http.c:719-911`, whose
routes repeat those of the Zephyr handler. So are the timer of `main.c:385-405`, which only
writes to the log, the texts of JSON, logs, menus and errors, and the
`network_state` of the status, which nothing reads back. The digital I/O stub is
not in the build; the scripts and the load test drivers run outside the device.

No property says that the MQTT, p2p and HTTP ports differ from each other:
`validate_settings` checks the fallback port only, and nothing in the repository
says what should happen when two of the others are equal.

## Plan

Every safety and action property of the runs is proved. What is worth doing next:

1. An abstract specification of the seed table (empty it, then fill it, as one
   step) that `PeerSeeds` implements when nobody changes the configuration
   meanwhile, and one of the HTTP slots (a set of clients being answered).
2. `LinkDecided` and `QuietResetStands` across more than one wait: the samples
   and the reset are forgotten when the processor restarts.
3. A part of `BrokerComesUp` that is a safety property: from each point of main's
   boot, what a step can lead to.
