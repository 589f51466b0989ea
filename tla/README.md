# TLA+ models of the OpenTrickler firmware

OpenTrickler is a powder dispenser: two stepper motors (a coarse and a fine
trickler tube) drop powder through a servo gate into a cup on a scale, under the
control of a Raspberry Pi Pico W that runs FreeRTOS on both cores. This directory
holds models of the firmware's tasks and of how they meet, the configurations
that check them with TLC, and theorems about them checked with TLAPS.

Paths below are those of the repository; the firmware is in `src/` of it.
Commands are run in this directory:

    tlc -workers 2 -config charge_all.cfg ChargeMode
    tlapm ChargeModeProofs.tla

Contents: [the system](#the-system) · [what is hard](#what-is-hard-to-test) ·
[modules](#modules) · [runs](#runs) · [disagreements](#where-the-code-and-its-words-disagree) ·
[proofs](#proofs) · [limits](#what-is-not-modelled) · [plan](#plan)

## The system

### Tasks

| Task | Code | State it keeps | What it waits for |
|---|---|---|---|
| menu task | `menu.c`, and the mode it runs: `charge_mode.cpp`, `cleanup_mode.cpp`, `pid_autotune.cpp` | `exit_state`, `charge_mode_config.charge_mode_state`, the flags of the charge | the event queue, the scale, timers |
| motor tasks (two) | `motors.c` | speed, direction | a queue of two speeds each |
| gate task | `servo_gate.c` | ratio, `gate_state` | a queue of one ratio |
| scale task | `scale.c`, one driver | last measurement | the UART |
| TCP/IP thread | `http_rest.c` and the handlers of every component | none of its own | requests |
| update worker | `ota_client.c` | `g_status` | a queue of commands |
| apply task | `ota_update.c` | `g_ota_apply_params` | 750 ms, once |
| wireless task | `wireless.c` | connection state | a queue, timers |
| render and LED tasks | `display.c`, `neopixel_led.c` | what is shown | timers, a queue |
| interrupts | `mini_12864_module.cpp` | debounce times | edges |

### Components, their operations and what makes them correct

**Charge mode** (`charge_mode.cpp`, `menu.c`). `charge_mode_menu` is a switch on
`charge_mode_state`; each state is a function that loops until it writes the next
state: `wait_for_zero`, `wait_for_complete` (which dispenses, with a PID controller,
a predictive "adaptive" one, or a timed AI sample), `stabilize` (with the salvage of
an undercharge), `wait_for_cup_removal` (which records the charge) and
`wait_for_cup_return`. Every loop polls the event queue; the reset button leaves
through `emergency_exit` while dispensing and by writing `EXIT` elsewhere. Correct
means: no motor runs unless a loop is there to stop it, powder goes only through an
open gate, an abort ends the charge, a charge is recorded as what it was, and never
is a second charge put on the same cup.

**The event queue** (`mini_12864_module.cpp`, `button.c`). Five events from the
interrupts and the REST handlers; who finds it full drops the event or waits for a
bounded time. It is how every other task reaches the menu task.

**The REST handlers** run in the TCP/IP thread, on either core, beside the menu
task: `charge_mode_state` writes the state the menu task is switching on, sets
`exit_state`, and sends `RST` or `OVERRIDE`; the AI tuning handlers open and cancel a
session. No lock is held. Correct means: a request is honoured, and none leaves
the state claiming what nobody does.

**Motors** (`motors.c`). `motor_set_speed` sends to a queue of two and waits for
room; the control task ramps and toggles the direction pin when the sign changes;
`motor_enable(.., false)` drops the pin and sends speed zero. Correct means: a motor
settles at the last speed sent, in the direction of its sign, and does not turn when
disabled.

**Servo gate** (`servo_gate.c`). `servo_gate_set_ratio` empties a binary semaphore,
overwrites a queue of one and may wait for the semaphore, which the control task
gives after each move. Correct means: the last command holds and a waiting caller is
always released.

**Firmware update** (`ota_update.c`, `ota_client.c`). Begin, chunks, finalize, abort
and apply write a staging area in flash; metadata in a sector of its own vouches for
the staged image; apply checks it, waits 750 ms in a new task and copies it over the
running image. The client takes commands from a queue of two, reads a manifest,
cuts the download into chunks and keeps a status that its REST handlers test and
write too. Correct means: metadata vouches only for what is in flash, what the device
boots is a whole image, and the status is true.

**The modes of the menu** (`menu.c`, `cleanup_mode.cpp`, `pid_autotune.cpp`).
`menu_task` shows a form, and when `exit_state` says so runs a mode to its end; each
mode reads the one event queue in its own way. REST handlers ask for a mode by
writing `exit_state` and sending `OVERRIDE`. Correct means: a request that waits is
let go, an abort stops what it is meant to stop.

**AI tuning** (`ai_tuning.c`, `rest_ai_tuning.c`, `flash_storage.c`). A session of
samples the charge mode takes one by one, a model fitted to them for each profile, a
history of models in a block of flash that is erased and programmed whole. Every
function holds a mutex; the session's life spans many of them, in two tasks. Correct
means: a sample counts for the motor and a model for the profile it was measured on,
and what is saved is what is in memory.

**Profiles and charge settings** (`profile.c`, the table of `charge_mode.cpp`,
`learn_from_throws.c`). The selected profile, the working copy of its charge settings,
the table of all settings, and the thresholds learned for each, in memory and in the
EEPROM, written by REST handlers, the menu's list, the charge and PID autotune.
Correct means: settings stay with their profile, and a charge uses those of the
profile it is said to use.

**Configuration store** (`common.c`, `eeprom.c`, `cat24c256_eeprom.c`). Records with a
revision and a CRC, loaded at start-up and saved page by page under a mutex; others
without a CRC; an erase of everything. Correct means: what is read is a configuration
that was saved, or the defaults, and a completed save is found again.

**HTTP server** (`http_rest.c`). A state for each connection, callbacks from lwIP under
its core lock: accept, receive, sent, poll, error. A request is collected in parts, its
handler leaves a pointer and a length, and the answer goes to TCP as room comes; the
server then closes. Correct means: the client gets the answer to its request and all of
it, a second request on the connection does nothing, and nobody holds one of the few
connections for ever.

**Others**: scales (frame parsers of a dozen makes), wireless (station, access point,
DHCP, DNS), error log, LED and display. `PROJECT.json` has one line on each, with what
is missing.

### How they interact

    buttons --> event queue --> menu task --> motor queues --> motor tasks
                    ^               |   \---> gate queue ----> gate task --> semaphore --+
    browser --> REST handlers ------+   <-----------------------------------------------+
                    |   (charge_mode_state, exit_state, AI session, selected profile,
                    |    working settings)  --> configuration store --> EEPROM
                    |                       --> AI history --> flash block
                    +--> command queue --> update worker --> staging area
                    +--> staging area                     apply task --> boot slot, reset

## What is hard to test

`PROJECT.json` lists every hazard at its line, with the properties that watch it.
They are of seven kinds.

1. *Two writers of one state.* The TCP/IP thread and the menu task both write
   `charge_mode_state`, and the menu task writes it last at the end of each phase:
   an `EXIT` can be overwritten, a `ZERO` can resurrect a charge that was aborted.
   `apply_state` and `exit_state` are written by two tasks in the same way.
2. *A bounded queue between tasks.* An event can find the queue full, or be taken
   by a loop that does something else with it.
3. *Many ways out of a loop.* `wait_for_complete` has some sixty returns and breaks.
   Each has to leave the motors, the gate, the flags and the AI session consistent.
4. *A signal without an owner.* The gate's semaphore does not say whose move ended;
   an AI sample does not say whose session it belongs to.
5. *Check, wait, use.* The update is verified 750 ms before it is copied; between
   any two flash operations the power may go.
6. *Two copies that must agree.* The selected profile and the loaded settings, the
   history in memory and in flash, the configuration, its copy and its CRC.
7. *Torn writes.* A record of many pages, a history of many pages, an image of many
   sectors, with the power gone in the middle.

## Modules

| Module | Models | Abstract or composed |
|---|---|---|
| `ChargeMode` | menu task in charge mode, motors and gate as commanded, REST handlers, event queue, AI session as on or off | implements `ChargeCycle` |
| `ChargeCycle` | what a charging cycle promises | abstract |
| `MenuModes` | menu task through all its modes, event queue, REST handlers that ask for a mode | the modes `ChargeMode` details |
| `AiSession` | AI session, models, flash block, charge mode as far as it serves a session | |
| `Profiles` | selection, settings, learners, PID result, in memory and saved | |
| `ConfigStore` | records on the EEPROM, start-up, save, erase | implements `RecordStore` |
| `RecordStore` | what a record with a CRC promises | abstract |
| `OtaStaging` | staging session, metadata, apply task, reset | the REST handlers or the update worker as writer |
| `UpdateClient` | REST handlers, command queue, status, worker, manifest, download buffer | extends `OtaStaging`: its steps are the staging area's, joined to the client's; implements `FirmwareUpdate` |
| `FirmwareUpdate` | what an update promises of the firmware the device boots | abstract |
| `HttpServer` | connections, requests, answers in shared buffers, TCP as lwIP presents it | |
| `ServoGate` | callers, queue, semaphore, control task | |
| `Motors` | menu mode, REST handlers, queues, control tasks | |
| `MC...` | sizes and values for TLC | |
| `...Proofs` | theorems about the module of that name; `ActuatorProofs` is about `ServoGate` and `Motors`, `UpdateClientProofs` also about `OtaStaging` | |

### ChargeMode

One action per loop iteration and half: the poll of the event queue is one step and
what the iteration decides from the scale is the next, so that a REST handler or an
interrupt can fall in between. `pc` names the loop the menu task is in, and `after`
the place a helper with a wait of its own (`wait_for_settled_measurement`, the two
reverses) goes back to. The labels are grouped by the function they stand for; the
table gives the groups.

| Actions | Code |
|---|---|
| `MenuForm` `Dispatch` `Leave` | `menu_task` |
| `Enter` `Loop` `Quit` | `charge_mode_menu` |
| `ZeroPoll` `ZeroSample` | `charge_mode_wait_for_zero` |
| `Begin` `Finish` `PrechargeEnd` `Finished` `CoarseReverseWait` `FineReverseWait` `Settle` | prologue, end and helpers of `charge_mode_wait_for_complete` |
| `Pid...` `Pulse...` `Manual...` | its PID controller, pulsed finish, manual finish |
| `Adaptive...` `Bulk...` `Coarse...` `Trim...` `Fine...` `Dose...` `Glide` `MarginSettled` `TailWatch` | its adaptive controller |
| `Ai...` | its AI samples, and the tare between two |
| `Stabilize...` `SalvagePoll` `Stabilized` | `charge_mode_stabilize`, `charge_mode_salvage_undercharge` |
| `Record` `Removal...` `Return...` | `charge_mode_wait_for_cup_removal`, `..._return` |
| `Rest...` | `http_rest_charge_mode_state`, start and cancel of AI tuning |
| `Press` | interrupts, and the button handler of `http_rest.c` |

A weight is not a number: where the code compares a reading, the action is a
disjunction of what can follow. So every property holds for any readings, and no
property can rest on a reading being plausible. Motor and gate commands take effect
when issued; `Motors` and `ServoGate` say what their tasks do with them. The history
variable `abort` is `"set"` once `emergency_exit` has run in this entry of charge mode,
and `"lost"` once the `EXIT` it wrote was passed over (`DoseReserve`, the one wait of the
recovery that no test follows) or a REST handler has written another state over it.

`ChargeCycle` is the promise in ten lines: zero, dispense, settle, removal, return,
with motors running only in the phases that dispense, and an exit from anywhere.
`CyclePhase` maps the labels onto it; at the switch of `charge_mode_menu` the phase is
that of `charge_mode_state`.

### OtaStaging

Flash holds chunks of images, not bytes: a chunk is `"blank"`, `"bad"` or cut from an
image, and a CRC identifies an image. Erases take whole sectors; programming what is not
blank gives `"bad"`. Each flash operation is a step and may fail; `PowerFails` may happen
between any two, keeps the flash and loses the RAM. In the middle of the copy it leaves
the device dead; before its first operation and after its last the slot is whole, and
after the last it is the new image's, with the metadata still there. `Writer` says who
stages: `"rest"`, in any order of requests, or `"client"`, the worker in the order of its
download. `ota_update.h` asks for one writer at a time, and two at once are not modelled.

### UpdateClient

`UpdateClient` extends `OtaStaging` with `Writer = "client"` and joins its actions: the
worker begins, flushes a chunk, finalizes and applies through them, and
`StagingWorks` and `StagingFails` are the staging area's own steps while the worker is
in its hands (`job = "apply"`). The download is counted in half pages, four to a chunk:
`Read(n)` is a piece of the body of any length that fits, `FlushDue` the test of
`ota_client_apply_body_cb`, and `Acceptable` what `ota_stage_write` takes. A manifest
writes each field it has over the last one's (`Parsed`). `NoteCheck` and `NoteApply`
are the writes of a status that come after the send to the queue; `overtaken`
remembers the commands that were over by then. `HandshakeOutlastsDelay` is an assumption
about the network that no code enforces: the first byte of an update, which comes after two
TLS handshakes, comes later than the 750 ms an earlier apply waits. With it `Answer` waits
for the copy; with the constant `FALSE` it does not, and TLC finds `RunsWholeImage` and
`KeepsUpdatePromise` violated.

`FirmwareUpdate` is the promise, in three variables: what the device boots, the staged
image that is approved, and the target of an installation. What boots changes only to the
target; the target was approved when it was scheduled; nothing is approved from then until
the installation has ended; and there is nothing to boot only while the slot is
overwritten. `Boots` maps the slot and the progress of the copy to the first, the metadata
is the second, and the parameters of the apply task are the third (`Target`) from its
creation on. The download, the sessions and most flash operations are stutters.

### MenuModes

`menu` is where `menu_task` is: in its form, on its way (`exit_state` is read at
`"leave"`), or in a mode. Charge mode is seen from outside: busy until a reset or a
written `EXIT`. Cleanup mode reads the queue and leaves on reset. PID tuning climbs its
ladder of throws and settles; `check_abort` is one action, which each loop must have
run (`polled`) before it may end, since the code calls it in every iteration. `rest` is
the TCP/IP thread: between requests, in a send that gives up, or in one that does not
(`portMAX_DELAY`, the cleanup handler).

### AiSession

A function of `ai_tuning.c` holds the mutex from its first line to its last and is one
action. A sample is a turn through `charge`: begin (is a session active?), plan (which
motor?), dispense, record. Budgets and fits are choices. A model has the facts the
properties need: valid, calibrated, the operator's kernel weight, whose profile, and
whether a sample of the wrong motor went in. The flash block is two pages a model;
`save` counts a save through its erase and its pages, so that `PowerCycle` can tear it.

### Profiles

Settings are the profile they were made for and one threshold. A task's request is the
list of steps it still has to take (`op[t].steps`): select, copy, mark, edit, index, slot,
write; so the two tasks interleave at the places where the code has a call, and a save
reads `loaded_profile_idx` (`Index`) before it copies the working settings into that slot
(`Slot`). `clash` notes that one task ran into the other in one of two windows: between the
copy of the settings and the note of whose they are, or between `Index` and `Slot`.

### ConfigStore

A record is cells: a revision, fields, a CRC, and a page is `PageSize` of them. A CRC is
the list of fields it was computed over. A task's save is `Sum`, `Copy`, `Take` and a
`WriteChunk` for each page, one of them empty when the length is a multiple of the page
size, as in `cat24c256_write`. Any page may meet a bus error, the power may be cut
anywhere, the erase goes on beside a save. Start-up loads the records in order and saves
those it had to replace. `RecordStore` is the promise: a load gives the defaults or a
configuration some save has begun with; `reads` maps to what a load would make of the
cells now. A record of the older format (revision "legacy") is accepted without a CRC,
as the code does, and is left out of the promise.

### HttpServer

One action per callback, for the configuration the firmware is built with (no keep-alive,
POST, SSI or dynamic headers; requests are queued in parts). A request is incomplete, bad
or whole; a whole one runs its handler, which writes a new run into its endpoint's buffer
(`content`) unless it answers with a page in flash. `HttpSend` hands on as many pieces as
the send buffer, the limit of one write and the heap allow, and closes after the last;
TCP has copied those, and reads the rest from the buffer later. `acked` is what the client
has; `pcb = "retry"` is a close that TCP had no memory for. The history variables hold the
run and length of the answer, how the connection ended, and `overrun`: that the buffer was
written again before TCP had it all.

### ServoGate and Motors

The calls of FreeRTOS are the steps. In `ServoGate` a call is the take of the
semaphore, the overwrite and the wait; the history variables `lastRatio` and `done` hold
the last command and whether the awaited move was made. In `Motors`, `mode` is the
menu task that enables, drives and disables; `sends` is what a blocked
`motor_set_speed` has still to send. `RestOps` says which REST handlers are used.

## Runs

Passing runs, with the bounds that matter:

| Run | Shows | Bounds |
|---|---|---|
| `charge_pid` | gate closed behind every charge; no charge claimed that nobody runs; a queued reset leaves charge mode | PID, REST exit, precharge; no reverse, no manual finish |
| `charge_cycle` | `ChargeCycle` is implemented | both controllers, REST exit, reverses, manual finish |
| `charge_all` | types; no motion outside the loops; open gate; records; an abort holds until charge mode is left; motors enabled in every charge but after a lost abort | everything but REST exit (the other charge runs have it) |
| `modes` | an abort stops the PID tuning within a throw; a handler that waits for ever for the queue is let go | every request, 6 requests and presses, queue of 2 |
| `ai_session` | samples, models and profiles do not mix; the flash is what memory is; a charge becomes a sample only when asked | 2 profiles, 2 samples a stage, one counted for the calibration |
| `profiles` | settings stay in their slot; a charge uses the selected profile; what was learned is saved; switching the learner on changes nothing | 2 profiles, 4 requests |
| `config_store` | `RecordStore` is implemented; a completed save is what the next start loads | 2 records, one with a CRC and a full last page, one without and a partial last page; one edit, one bus error or power cut |
| `update_client` | a download reaches the staging area whole; metadata vouches for flash; boot slot whole; `FirmwareUpdate` is implemented; the status is true; a manifest is of one release | 2 images that end inside a page and are alike but for their names (symmetry), a UF2 file that ends a chunk |
| `http` | an answer reaches its client whole and in order; one request a connection; no connection is held for ever | 2 connections, 2 endpoints with one buffer and a page, answers up to 3 pieces with room for 2, closed at the third poll (4 in the code), 3 requests |
| `gate_commands` | last command holds, no lost wake-up, a blocking call returns | menu task (blocking) and REST, 3 ratios |
| `motors` | last speed, disabled is still, direction, no caller blocked for ever | one motor, speeds -1, 0, 1, REST speed and direction |

**Why the bounds are enough.** The event queue is 2 long in the charge runs and in
`modes`: full, empty and "one reset behind one other event" occur, and no code looks
further into the queue than its head. Six requests are enough to fill the queue, ask for
a mode, abort and restart it, and ask again; `MaxLate` only stops a counter past the
value that the property forbids. The failure limit is 2 for the code's 10 to 35: one
failure that is retried and one that gives up. In `update_client` one image ends inside
its second chunk, so that a short upload over a long one leaves the other's tail; with
a container a wrong file is possible too, and the half pages make a chunk end before,
at and inside a page. Two callers of the gate are enough for one to empty the semaphore
the other waits for, at any moment of its move. Speeds have a sign or are zero, and
nothing else of them decides anything; the motors share no state, and that a REST call
goes on to the second one adds nothing (the proofs are for any set of motors). Two
profiles are one that is selected and one that is loaded. In `ai_session` a session of
two samples has a first and a last, and one page of a model can be there without the
other. In `config_store` two fields and a page of two cells put the revision and the
first field, or the last field and the CRC, on different pages; the faults are counted
because each restart makes start-up write again, and one fault meets every step of
every save. In `http` an answer of three pieces is longer than one write and than the
send buffer, so that it is under way while the other connection's request is handled; the
number of requests is bounded because the runs of the handlers are numbered.

**Fairness.** `ChargeMode`: the menu task keeps running (`WF` of its steps), a
handler that was started ends (`WF`), and a wait with a deadline comes to it
(`SF` of the exits by timeout): the deadlines are compared with the tick count in
every iteration of those loops. Buttons and requests are not fair: nobody has to
press one. `MenuModes`: the scheduler runs both threads (`WF` of `MenuStep` and of the
handler that is under way). `ServoGate`: the control task runs, a caller's overwrite
runs, and `SF` for the take of the semaphore: FreeRTOS moves the waiting task to the
ready list within the give, and another caller's emptying of the semaphore must come
first every single time to starve it. `Motors`: the ramps end, and `SF` for a sender
waiting for room, which FreeRTOS serves by priority and in order. `HttpServer`: TCP's
slow timer polls every connection (`WF` of `Poll`); clients are not fair. The other modules
state no liveness: what they wait for is a user, a network or a bus.

**History variables.** Where a property has an exception, a variable that no action reads
remembers it, so that the property says what the code does and where it stops: `raced` (an
edit between CRC and copy), `clash` (two tasks in one load or save), `skewed` (a direction
change at the wrong moment), `overtaken` (a command over before its start was noted),
`overrun` (an answer's buffer rewritten), `orphan` and `left` (a session replaced, or left
open), `abort` when it is `"lost"` (an emergency exit passed over or overwritten),
`author` (who sent the last speed). Each of these exceptions is a hazard of `PROJECT.json`
at its line.

`charge_pid` has no reverse configured because with one `StopHonoured` fails: the waits
of the reverses take a reset from the queue and end only themselves
(`charge_mode.cpp:1509`). It leaves the manual finish and the adaptive controller out
because a charge they end can leave the gate open in the menu; and it takes only REST
exits, because a REST enter whose `OVERRIDE` is lost makes `NoPhantomCharge` fail. What
holds of an abort under both controllers and any REST write is in `charge_all`.

## Where the code and its words disagree

One run checks a property that TLC finds violated; `PROJECT.json` quotes the line that
promises it.

| Run | Behaviour |
|---|---|
| `ota_rest_apply` | begin and chunks in the 750 ms before the copy: the boot slot gets the chunks of two images |

More were met while modelling. No run keeps them, but each can be seen by changing one
line of a `.cfg` as the last column says:

| Behaviour | Code | To see it |
|---|---|---|
| reset pressed in the 700 ms wait before a recovery dose: `emergency_exit` runs, nobody tests `EXIT` after the wait, and the end of the charge writes `STABILIZING` over it | `charge_mode.cpp:3285` | `AbortEndsCharge` without `LoseAbort` in `DoseReserve` |
| a REST enter just after `emergency_exit` starts the cycle again, with the motor drivers off: the charge then runs for ever | `charge_mode.cpp:4494` | `ChargesWithMotorsEnabled` without its second disjunct |
| a REST enter whose `OVERRIDE` finds the queue full leaves the state claiming a charge | `charge_mode.cpp:4499` | `NoPhantomCharge` with `"enter"` |
| a REST exit during the reverse of a tube ends only the reverse, and the state written next to it is overwritten | `charge_mode.cpp:1509` | `ExitRequestHonoured` with a reverse |
| a profile picked in the menu's list is selected and not loaded; a PID tuning then gives its gains to that profile and its coarse stop to the one still loaded (`pid_autotune.h:134` says the selected one) | `pid_autotune.cpp:596` | `FitInOneProfile` in `profiles` |
| an AI request on one connection rewrites the buffer from which another's long answer is still being sent | `rest_ai_tuning.c:22` | `AnswerOfOneRun` in `http` |
| the 404 answer gives 13 as its length, which is that of its body, so the client gets `HTTP/1.1 404 ` and no more | `rest_endpoints.c:43` | not in a model: wording and lengths are data |
| a blocking gate call returns when an earlier caller's move ends | `servo_gate.c:82` | `ReturnsAfterMove` in `gate_commands` |
| applying a session replaces the saved model whole, and with it the kernel weight the operator has set (`ai_tuning.h` says only 0 clears it) | `ai_tuning.c:626` | `OverrideStands` in `ai_session` |
| a REST enter that passed the test for PID tuning just before the tuning began leaves the claim that the comment at the line means to avoid | `charge_mode.cpp:4484` | `ChargeClaimIsTrue` in `modes` |

## Proofs

All theorems are for every value of the constants that the ASSUMEs allow; those whose
statement has a hypothesis on the constants are marked with it.

| Module | Theorem | Property |
|---|---|---|
| `ChargeModeProofs` | `TypeCorrect` | `TypeOK` |
| | `MotorsStopped` | `NoMotionOutsideDispensing` |
| | `GateOpenWhileFeeding` | `FeedsThroughOpenGate` |
| | `RecordsFresh`, `RecordsCorrect` | `NoStaleRecord`, `RecordsMatchController` |
| | `AbortsEnd`, `MotorsEnabledInCharge` | `AbortEndsCharge`, `ChargesWithMotorsEnabled` |
| | `GateShutAtIdle` | `GateClosedAtIdle`, if `GateSettings` |
| | `ChargesAreReal` | `NoPhantomCharge`, if `RestOnlyExits` |
| | `CycleKept` | `KeepsCycle` (refinement of `ChargeCycle`), if `RestOnlyExits` |
| `UpdateClientProofs` | `TypeCorrect`, `StagedVerified` | `TypeOK`, `StagedIsVerified` of `OtaStaging`, either writer |
| | `ClientTypesCorrect` | `ClientTypeOK` of `UpdateClient`; these if the client writes, as its module is meant |
| | `ClientStagesVerified` | `StagedIsVerified` |
| | `ClientRunsWhole` | `RunsWholeImage`, if `HandshakeOutlastsDelay` |
| | `DownloadsFit` | `DownloadFitsStaging` |
| | `ManifestsWhole`, `StatusTrue` | `ManifestIsWhole`, `StatusIsTrue` |
| | `UpdateKeepsPromise` | `KeepsUpdatePromise` (refinement of `FirmwareUpdate`), if `HandshakeOutlastsDelay` |
| | `ClientInstallsApproved` | `InstallsApproved` of `FirmwareUpdate`, inherited, if `HandshakeOutlastsDelay` |
| `MenuModesProofs` | `TypeCorrect` | `TypeOK` |
| | `AbortStops` | `AbortStopsLadder` |
| `ProfilesProofs` | `TypeCorrect` | `TypeOK` |
| | `SlotsKept` | `SlotsKeepOwner` |
| | `ChargeUsesItsProfile` | `ChargeUsesSelected` |
| | `LearnedSaved` | `LearnedIsSaved` |
| | `SwitchOnKeeps` | `SwitchOnKeepsStop` |
| `ActuatorProofs` | `GateTypeCorrect` | `GateTypeOK` of `ServoGate` |
| | `CommandsHold`, `WakeupsComing` | `LastCommandHolds`, `NoLostWakeup` |
| | `TypeCorrect` | `TypeOK` of `Motors` |
| | `SpeedsHold`, `DirectionsHold` | `LastSpeedHolds`, `DirectionFollowsSign` |
| | `DisabledStopped` | `DisabledMeansStopped` |
| `AiSessionProofs` | `TypeCorrect` | `TypeOK` |
| | `SamplesTheirs`, `SamplesAsked` | `SamplesFromTheirMotor`, `SampleWasAsked` |
| | `ModelsTheirs` | `ModelsBelongToProfile` |
| | `FlashKept` | `StoredIsSaved` |
| `ConfigStoreProofs` | `TypeCorrect`, `NeverMixed` | `TypeOK`, `NeverAMixture` |
| | `PromiseKept` | `KeepsPromise` |
| | `SavesHold` | `CompletedSaveHolds` |
| `HttpServerProofs` | `AnswersWhole` | `AnswerIsWhole` |
| | `ActsOnce` | `ActedOnOnce` |

**Charge mode, for all settings.** The inductive invariant `IInv` is `FlagsOK /\ DataOK /\
DriveInv /\ GateInv /\ RecordInv /\ AbortInv`. `NoMotionOutsideDispensing` is not
inductive: that a loop ends with the motors stopped depends on what ran before it in the
charge, so `DriveInv` says for each label which motors may be commanded, and, through
`after`, which a helper with a wait finds when it returns. `GateInv` says at which labels
an enabled motor may feed; it needs `DriveInv` for the labels where it does not hold and
nothing moves. `RecordInv` ties the record flags to the controller and to the labels
between the end of a charge and its record. `AbortInv` says where an abort that is not
lost can be: at the switch, on its way out, or in and just behind the waits of the
adaptive controller to which `emergency_exit` returns; that there everything is off and
the state is `EXIT`; and that after any abort the drivers stay off until charge mode is
left. With it the theorem covers every test of `EXIT` that the adaptive controller makes
after a wait, and names the one it does not make. There is a lemma for each group of
actions and each part of the invariant. The REST commands are not restricted: these
theorems hold with raw writes of the state at any moment.

**Charge mode, for some settings.** The three other theorems of the module have a
hypothesis on the constants, and need it: TLC breaks each property without it, and the end
of [runs](#runs) and the [disagreements](#where-the-code-and-its-words-disagree) say how.
`PidOnly` says that ordinary charges run under the PID controller, `RestOnlyExits` that
REST clients send exits and cancels only, `GateSettings` that no charge is finished by
hand and, under the adaptive controller, nobody writes `EXIT` from outside or opens an AI
session. Within them reverses, precharge, salvage, queue length and failure limit are as
free as before, so the theorems cover many more settings than `charge_pid` runs. The
invariants say what a hypothesis buys. `ReachInv`: the labels of a controller that is off
are not reached. `QuietInv`: without a REST start there is no session. `MenuInv`: with
exits only, the menu task alone writes a state other than `EXIT`, and it is `EXIT` again
when charge mode is left. `ShutInv`: the gate is open only
at labels of a charge; the adaptive controller leaves a charge without closing it wherever
it finds `EXIT` after a wait, which is harmless because only `emergency_exit`, which has
closed it, can have written that. `CycleKept` maps each action, under these invariants, to
a step of `ChargeCycle` or to a stutter; `MenuInv` is what makes the phase at the switch
of `charge_mode_menu` the one that the last loop left.

**Update, the staging area.** `WritingInv` ties the session to what is in flash while a
handler is at work; `StagingInv` says that metadata is erased before the staging area is
touched, and written only for what was just verified. `StagedIsVerified` follows for
either writer. `RunsWholeImage` needs in addition that what the apply task copies stays
in the staging area, and that the copied prefix is the image's (`PrimaryInv`). The first is
not true of REST writers, as `ota_rest_apply` shows, so the theorem assumes
`Writer = "client"`.

**Update, the worker.** The worker is not done once an apply is scheduled: it returns to
its queue and may begin a second update in the 750 ms before the copy. `ClientIsWriter` is
the bridge: a step of the worker and its handlers is a step of the staging area or a stutter
of it, except for that return. With it the lemmas about the staging area are used again,
and only the return is proved anew. `QueueInv` says that while the apply task waits nothing
of a second download has been flushed, which with `CopyInv` (what is to be copied is staged)
keeps the image in place for the copy; that the copy stops the other core, so that the worker
cannot go on during it, is in the model's guards. `QueueInv` is the one place where
`HandshakeOutlastsDelay` is used, and the theorems that rest on it (`SlotInv`) name it as
a hypothesis; the others (`ClientInv`) hold whenever the answer comes.
`ReleaseInv` ties the open session to the manifest. `BufferInv` is the account of the
download: what was got is what was written and what the buffer holds, less than a chunk
while it is filled, a whole chunk or the end of the file while it is flushed.
`DownloadFitsStaging` is then arithmetic on pages and chunks, for images of any length.
`PhaseInv` says where the worker is in its own code and in the staging area's.
`StatusIsTrue` is inductive with it and the types.

**Update, the promise.** `UpdateKeepsPromise` maps each step of the staging area to a step
of `FirmwareUpdate` or to a stutter (`StagingKeepsPromise`), and `ClientIsWriter` carries
that over to the worker. Three facts are needed besides the invariants above. That there
is one image in the slot, so that `Boots` is a function of it: two images would share the
first chunk (`OneImage`). That the metadata is `None` whenever it is about to be written,
which `StagingInv` has. And `PromiseInv`: at the creation of the apply task the
parameters are still what the metadata says, and while the task waits the worker is never
at the metadata's two operations, though it may have begun a second update. The end of a copy
has two steps that map to `Install`: the reset, which follows the erase of the metadata,
and a power failure just before that erase. `ClientInstallsApproved` is proved of the
abstract specification alone and inherited through the refinement.

**Menu.** That the queue never holds more than its length is inductive with the types:
every send tests for room or waits for it. `AbortStopsLadder` is not inductive: `LateInv`
adds that the one throw begun since the abort is the one under way and has not looked
for the abort yet (`~polled`). Such a throw cannot end, since a loop ends after it has
looked, and its first look finds the request, which only that look or the next run clears.
This holds for any queue, any requests and any moment of the abort.

**Profiles.** What a task does between two of its steps depends on the steps it has left,
so the base is that `op[t].steps` is always one of the lists the handlers are made of.
`Shape` says what may stand next to what: a mark follows its copy, a slot follows its
index, a begin follows an enter or a mark, a change of a learner is followed by a save;
`ScriptOK` adds who may run which. They survive a step because a tail of such a list is
one (`ShapeTail`) and a request only joins lists end to end. `SlotInv`: without a clash,
every slot has its owner's settings, and the working copy is that of the profile that is
marked as loaded, or of the one a task is about to mark. `CalmInv` follows a charge that
no request disturbs from its entry to its record, through a load if there is one.
`LearnedIsSaved` is inductive with the lists, since a change of a learner always has its
save behind it. `StopsAssumption` says that a threshold outside the learner's range can
only come from an edit: the default, the limit itself and what was learned are inside it.

**Gate.** `CommandInv` follows a command from the queue to the position. The
assumption is that at most one caller blocks, which the menu task is
(`BlockingAssumption`).

**Motors.** `SpeedInv` says that the last element of the queue, or else the target, or
else the velocity, is the last speed sent. `DirectionInv` ties the pin to the sign of
the recorded velocity, toggled between `Turn` and `Arrive`, and to `skewed`, the parity
of the REST changes that landed while the motor turned or started backwards: the
theorem says that those are all the ways to a wrong pin. `DisabledMeansStopped` follows
from where the stop is, when the last speed came from the menu task.

**AI session.** `IInv` is `TypeOK`, `StoredIsSaved` and six parts. `StageInv` bounds the
sample index and the counters of each stage; `PlanInv` says that a sample being dispensed
is on the motor of the stage its session is in, unless the session was replaced
(`orphan`); `SampleInv`, that only a charge under way is a sample, and `AskInv`, that an
open session is on its way to charge mode, in a run that was asked for, or left by an
earlier one (`left`); `DataInv`, that every model, working, saved or stored, is of the
profile it is kept for and holds samples of the right motors; `BlockInv`, that the flash
block is written from the front, so that a torn block is a prefix.

**Configuration store.** `CrcInv`: a CRC in the EEPROM was computed over a configuration
some save began with. A record whose fields are another mixture then fails the check,
which is all of `NeverAMixture`, and the reason why `KeepsPromise` holds wherever the
power goes. `SaveInv` ties the sum and the copy a save holds to the configurations known
to `RecordStore`; `BootInv` says that start-up and the tasks never overlap. For
`CompletedSaveHolds`, `MutexInv` says that one task writes, and `PageInv` that the pages an
undisturbed save has written so far are in the cells. `NamesAssumption` says that an
erased cell reads as no configuration.

**HTTP server.** `ConnInv` has for each connection that what TCP has is a prefix of the
answer (`Whole`), and while the answer is under way that the buffer still holds its run
and `pos + left` is its length (`Answering`), or that nothing was sent (`Waiting`);
`FlashInv`, that no handler writes a page. `SendKeeps` is the lemma about `http_send` that
the request, the acknowledgement and the poll share.

**Only model-checked**: everything under fairness (`StopHonoured`, `RequestAnswered`,
`BlockedCallReturns`, `SendReturns`, `ConnectionEnds`), which is beyond the prover; and
`RunsWholeImage` with REST writers, which does not hold. Every invariant and action
property of the passing runs, and each of the three refinements, is also a theorem.
`TypeOK` of `OtaStaging`, `Motors`, `AiSession`, `ConfigStore` and `Profiles`,
`GateTypeOK` and `ClientTypeOK` are proved and not run again. The history variables that
make an exception of a property (`clash`, `overtaken`, `orphan`, `left`, `skewed`,
`raced`, `overrun`) are in the theorems as they are in the runs. The invariants were first
checked with TLC on the runs' instances. No module uses a recursive operator.

## What is not modelled

- Numbers: weights, margins, doses, PID gains, the statistics of AI tuning and of the
  throw learner, ramp times. A decision that depends on them is a choice.
- Time: a deadline is a choice that fairness forces; durations are not compared. The
  recovery bounds of `README.md:140` (eight pulses, 15 s) and the wrap of the 32-bit
  timer in the ramps (`motors.c:446`, `servo_gate.c:134`) are therefore out of sight.
- The configuration of the charge mode is fixed in a run of `ChargeMode`; its changes
  are the subject of `Profiles`.
- Two writers of the staging area at once, which `ota_update.h` rules out.
- What the network answers in detail: TLS, redirects, headers.
- Memory-order effects between the cores: a write is seen by the next step.
- Interrupt debouncing, drivers, rendering, request parsing and answers.
- Scales, wireless with its two servers, error log, LED and display: one task each that
  shares no state whose order matters with the rest, or parsing and output only. More of
  them could be transcribed, but there is no property that a unit test would not reach.
- Start-up, except for the configuration store: every module starts where its init
  function leaves it.

## Plan

Done: the modules and theorems above. What a next step would take up, in this order:

1. `SpeedRamp`: the 32-bit timer of the ramps, as an algorithm against its definition.
2. A clock in the adaptive controller for the bounds of the recovery.
