# device_reminder in TLA+

`device_reminder` watches a door. A PIR sensor reports a person, the program
looks for that person's phone by Bluetooth, and while the phone is not found it
sounds a buzzer and scans again. It runs as four processes that `App::run`
forks: main, human, bluetooth and buzzer. This directory holds TLA+ models of
the program, the TLC configurations that check them, and proofs that the most
important of their properties hold for every value of the constants.

The source is under `src/src` and `src/include`; paths below leave out
`src/src/`. The repository has no design document: the models are translated
from the code, and the tests are read as statements about it. The tests under
`tests/integration` were written for earlier classes (`MainTask`,
`BluetoothTask`, `ProcessBase`) and are disabled in `CMakeLists.txt:87`.

## 1. Inventory

| Component | State | Operations | Interacts with | Hard behaviour | What makes it correct |
|---|---|---|---|---|---|
| Timer service `infra/timer_service` | `running_`, `cancel_`, `message_`, `worker_future_`, the worker thread | `start`, `stop`, destructor, worker | its owner's receiver thread; the owner's queue | the owner races the worker on `running_` and `cancel_`; worker exceptions; blocking `get()` | one worker at a time; nothing after `stop()`; an armed message is delivered or dropped by the owner; calls return |
| Main task `core/main_task` | `state_` (4 states) | `dispatch`, 5 handler methods | sends to bluetooth, human, buzzer; one timer for two purposes | stale timeouts and answers; states without a timer | every wait is timed; the buzzer is told start and stop in turns; the retry ends |
| Human task `core/human_task` | `state_` (Detecting, Stopped) | `dispatch`, `get_detect`, `start_detect` | sends to main; timer; PIR driver | `start_detect` blocks the receiver thread on the sensor | main and human never wait for each other; detection resumes |
| Bluetooth task `core/bluetooth_task` | `state_` (Ready, Cooldown) | `dispatch`, `scan` | sends to main; Bluetooth driver | the cooldown is never left | every request is answered (it is not, see 4) |
| Buzzer task `core/buzzer_task` | none; the buzzer itself | `dispatch`, start/stop handlers | timer; buzzer driver | several starts, stops and stale timeouts; partial failures | a sounding buzzer is timed and falls silent |
| Process, receiver, queue `infra/process`, `infra/message` | two `running_` flags, the receiver thread, the queue | `run`, `stop`, `push`, `pop` | the dispatcher; any pushing thread | `stop` racing `run` and the receiver's loop; a poison pill; exceptions | no dispatch after `stop`; FIFO; `stop` returns and ends `run` |
| Inbox, process sender, codec `infra/message` | none | `on_recv`, `send`, `encode`, `decode` | bytes between processes | length arithmetic; damaged frames; the sender drops what it encoded | decode inverts encode; damage it does not notice moves only a message's end |
| PIR driver, GPIO reader | `monitoring_`, `interrupt_`, the GPIO line | `run`, `stop`, `read`, `poll_edge` | the human task; libgpiod | `stop` racing `run`; exceptions; a line released and not requested again; edges missed | a later `run` is let in and not ended by an old `stop`; a person who moves is seen |
| Buzzer driver, GPIO setter | the GPIO line, PWM file | `on`, `off`, `buzz_start`, `buzz_stop` | buzzer task; file loader; libgpiod | failing half way; a file edited between calls | what the caller is told is what the buzzer does; it sounds only as configured |
| Bluetooth driver | `running_`, `scanner_`, `pairer_` | `run`, `stop` | scanner, pairer | `stop` resets what `run` is using, without waiting for it | only a `stop` makes a search end unpaired; `stop` ends it and comes back |
| Watchdog | a timer | `start`, `stop`, `kick` | timer service, whose `stop` waits for the worker's sleep | a kick as the timer runs out | a dog kicked in time is quiet; a hang is reported |
| App, AppBuilder | the four processes | `run`, `build`, `Process::spawn` | `fork` | a spawn failing half way; a child that returns into the parent's loop | each task is started once, in order |
| File loader | none | `load_value`, `load_string`, `load_int`, `load_string_list` | buzzer driver, handlers | missing and repeated keys | the first line with the key counts |
| Logger, message, message dispatcher | none | | | | |

`PROJECT.json` lists all of them with what is modelled, and under `hazards` the
behaviours that are hard to test, each with the properties that guard it.

How they interact. Inside a process every message goes through one
`MessageQueue`; its receiver thread pops a message and runs the dispatcher and
the handler to the end before it pops the next. Timer workers push to the queue
of their own process. Between processes a handler calls
`IProcessSender::send(endpoint, message)` and `MessageInbox::on_recv` pushes
what arrives.

## 2. Modules

| Module | Models | Abstract of / composed from |
|---|---|---|
| `Timer` | what `ITimerService` promises: a one-shot timer | |
| `TimerService` | `timer_service.cpp`, each atomic access a step | implements `Timer` |
| `TimerServiceProofs` | theorems about `TimerService` | extends it |
| `Mailbox` | what queue and receiver promise: messages in order, one at a time, until closed | |
| `TaskProcess` | `Process`, `MessageReceiver`, `MessageQueue` of one process | implements `Mailbox` |
| `TaskProcessProofs` | theorems about `TaskProcess` | extends it |
| `TaskRuntime` | what the four processes share: queue, receiver, timer, endpoint | uses the timer as `Timer` describes it, and a `Mailbox` per task |
| `MainTask`, `HumanTask`, `BluetoothTask`, `BuzzerTask` | a dispatcher and its handler each | extend `TaskRuntime` |
| `DeviceReminder` | the four tasks together | the four task modules |
| `DetectionCycle` | main, human and buzzer with a peer that answers every scan | extends `DeviceReminder` |
| `DeviceReminderProofs` | theorems about `DeviceReminder` and `DetectionCycle` | extends the latter |
| `PirDriver` | `PIRDriver` on `GPIOReader` | what `Sensed` of `HumanTask` stands for |
| `Buzzer` | what `IBuzzerDriver` promises | what `BuzzerTask` relies on |
| `FileLoader` | the lookup of a key in a file | |
| `BuzzerDriver`, `BuzzerDriverProofs` | `BuzzerDriver` on `GPIOSetter`, and theorems | implements `Buzzer`, uses `FileLoader` |
| `BluetoothDriver` | `run` and `stop` on two threads | |
| `RunStopProofs` | theorems about `PirDriver` and `BluetoothDriver` | extends both |
| `WatchDog`, `WatchDogProofs` | the watchdog on its timer, in time, and theorems | the timer is `TimerService` reduced to its waiting |
| `AppStart`, `AppStartProofs` | `App::run` with `Process::spawn`, and theorems | each child is a `TaskProcess` |
| `MessageCodec` | `encode`, `decode`, `crc32` as operators on bytes | |
| `MessageTransfer` | a frame from `send` to `on_recv` | uses `MessageCodec` |
| `MessageTransferProofs` | theorems about `MessageTransfer` and the checksum | extends it |
| `MC*` | constants for TLC | |

**TimerService.** `pc` is the owner's position in `start()` or `stop()`, `wpc`
the position of each worker. `running`, `cancel`, `message` and `future` are the
members of the same names. There is one owner: the receiver thread of a task is
the only caller of its handler, and the destructor runs when it has gone. A
worker sleeps, wakes and reads `cancel_` in one step (nothing happens at the end
of the sleep), pushes, clears `running_`. The `future` destructor that
`worker_future_ = std::async(...)` runs waits for a worker that has nothing left
to do but return, and is not a step. Durations are left out: a worker may wake
at any time, so every property holds for every duration, the zero of
`main_handler.cpp:48` included.

**TaskProcess.** `runner`, `stopper` and `receiver` are the positions of
`Process::run`, `Process::stop` and the receiver thread. Messages are the
numbers of their pushes; 0 is the `None` message of `MessageReceiver::stop`.
As a `Mailbox` the process is closed from the store that clears `running_` in
`MessageReceiver::stop`, or from the end of the receiver thread; a message that is
popped counts as pending until `running_` has been tested again, because the
receiver may still drop it.

**TaskRuntime and the task modules.** A `case` of a dispatcher is one action: it
pops the message and leaves the handler's calls, in program order, in `todo`.
Each call is a step of its own: `DoSend`, `DoStartTimer`, `DoStopTimer`, the
sensor, the scan, the buzzer driver. So timers fire, messages arrive and other
tasks run between any two calls. `state_` is assigned after the last call, as in
the dispatchers, so a call that throws (`HandlerThrows`) leaves the old state
and ends the receiver. Messages no case handles are consumed (`Ignore`). A timer
call is one step here: the only other thread that could interfere with it is the
timer's own worker, and `ServiceImplementsTimer` says that what the worker can
do is what `TimerFires` does between the owner's steps. A worker whose push
throws (`Timer!Lose`, out of memory) is left out of the compositions: a lost
timeout is one no task recovers from.

Two readings of the source need saying.

* `message_type.hpp:28-30` makes `BuzzTimeout`, `CooldownTimeout` and
  `ProcessingTimeout` aliases of one value. With that, the two `case` labels of
  `main_dispatcher.cpp:63,69` are duplicates and do not compile;
  `main_dispatcher.cpp` is not among the sources `CMakeLists.txt:28-47` builds.
  The models keep the three apart, as the dispatchers are written.
* `ProcessSender::send` encodes the message and drops the bytes: there is no
  transport in the repository. The models use a reliable FIFO per endpoint with
  arbitrary delay, which is what the senders and `MessageInbox` presuppose. It
  is marked external, like whoever pushes `HumanDetected` when the sensor fires.

**DetectionCycle** exists because the bluetooth task of the source answers one
request and never another. With it alone the retry states are hardly reached;
the peer here answers each request, or fails to, at any time. The module extends
`DeviceReminder`, takes the bluetooth task out and puts the peer in:
`CycleNext`, `CycleSpec` and `FairCycleSpec` are its next-state relation and
specifications.

**PirDriver.** `runner` is the position of each thread in `run()`, `stopper` that
of `stop()`; `monitoring` and `interrupt` are the atomics, each access a step;
`line` is what the GPIO line is requested for. `poll_edge` releases and requests
the line twice, and a failure in between leaves it `released`. The sensor's level
changes at any time; an edge is recorded only while edges are requested
(external, as libgpiod does it). `detected` and `stopped` are history: what this
`run()` has seen, and whether a `stop()` overlapped it.

**BuzzerDriver.** `on()` and `off()` come one after the other, as from the
receiver thread. `pc` is the place in the call, down to the single file and line
operations, any of which may fail. Between calls somebody may put another
content into `buzzer.conf`. A file is the sequence of its lines as `load_value`
sees them, an entry or no entry; taking comments and blanks off is abstracted.
`StoI` is `std::stoi` as a constant function. Opening the PWM file for writing
empties it, and what is written may be dropped or cut, because the code does not
look at the stream's state; then it reads the file back, and only that counts.
Setting the line, up or down, may be without effect (`"stuck"` in `Failures`).
`buzz_stop()` notices, because it reads the level back; `buzz_start()` does not,
so `on()` can return with the buzzer silent. `Buzzer` has `MayDisobey` for that:
an `on()` that returns sounds, unless the hardware may disobey; an `off()` that
returns is always silent. In `BuzzerTask` likewise the driver's `on()` may leave the
buzzer as it was and return.

**BluetoothDriver.** What `PirDriver` has too is named with `Search` here, so that
a module can extend both. `run()` reads `scanner_` and
`pairer_` twice each, to test and to call them, and `stop()` resets them
meanwhile. Calling a reset pointer is the state `crashed`, from which the process
does nothing more; the data race on the `unique_ptr` has no worse outcome that the
model could tell apart. Scanner and pairer have no source in the repository and
are external: a scan may go on until the scanner is stopped, and `wait_for_stop()`
waits for it.

**WatchDog.** Time is a number of ticks; `left` is what the worker still sleeps,
`age` the time since the last call. Threads that can run do so before time goes
on, so the bounds of `CallsLastADuration` and `HangIsReported` are those the
code adds to the scheduler's delays. `todo` holds the timer calls left in
`kick()` (`stop`, then `start`), each of which cancels the sleeping worker and
then waits for its whole sleep. `fed` is history: the worker's dog was kicked or
stopped while time was left. `age` stops counting at `LongAgo`.

**AppStart.** `procs` is the sequence of processes; `fork` appends a copy of the
caller, its place in the loop included. A child runs, returns or throws at any
time.

**MessageTransfer.** Frames are sequences of bytes with the exact CRC-32; a word
of the checksum is the set of its one bits. The constants' assumption
`CrcCheckValue` compares with the published check value. The transport is
external: it may alter one byte, cut the frame, and put bytes after it. `Changes`
says what may be added to which byte.
`altered`, `lost` and `followed` are history, what it has done to this frame.
`MaxPayloadAssumption` says that the limit fits the length field. The length
field is added in integers without a width, as a 64-bit `size_t` does it.
The instance has the messages, changes and tails that together pass the checksum as
another message: a payload that is the checksum of the bytes before it, with the
length altered from 4 to 0; the length altered from 0 to 4 with a tail that fits;
and the end of another frame for one that is cut. A change of 128 is left out,
because in the length's first byte it makes a number that TLC's integers cannot hold. The codec takes payloads as
bytes, `message.hpp` declares them as strings; the model follows the codec.

## 3. Properties and runs

| Run | Question | Bounds | States |
|---|---|---|---|
| `TimerService` | does the service keep its invariant, implement `Timer`, and come back? | 2 messages, 3 starts, pushes and thread creation may fail | 3.7 k |
| `TaskProcess` | does a process stop cleanly, and is it a mailbox? | 3 pushes, exceptions | 600 |
| `DeviceReminder` | do the four tasks wait only for what comes, and do they go on, when any call may throw? | 2 sensor reports | 633 k |
| `DetectionCycle` | is the buzzer timed, told in turns, and silent without a retry? | 2 sensor reports | 2.8 M |
| `DetectionCycleLive` | do the wait for an answer and the retry end? | 1 sensor report | 12 k |
| `UntimedCooldown` | a violation, see 4 | 1 sensor report | |
| `PirDriver` | is the next `run` let in, and for a reason ended? | 1 runner, any libgpiod call fails | 524 |
| `BuzzerDriver` | does the driver implement the buzzer, at the right frequency? | 9 configurations, anything fails | 1.2 k |
| `BluetoothDriver` | what can a `stop` beside a `run` do? | scans of up to 2 devices, calls may throw | 629 |
| `WatchDog` | when does the dog bark, what does its waiting cost? | a duration of 3 ticks, any call fails | 217 |
| `AppStart` | is every task started once? | 4 tasks, any fork fails | 281 |
| `MessageTransfer` | does what was sent arrive, and what else can? | 3 types, 7 payloads around the limit, one damage and a tail | 16 k |

Timer: `OwnerWorkerInv` (the inductive invariant, see 5), `AtMostOneWorker`,
`QuietAfterStop`, `WorkerExceptionSurfaces` (an exception of the worker is not
lost), `ImplementsTimer`, `CallsReturn`, `ArmedSettles`. Process:
`StoppedIsQuiet`, `DispatchedInOrder`, `ImplementsMailbox`, `StopReturns`,
`StopEndsRun`, `PushedIsDispatched`. Tasks: `DetectionIsTimed` (main's first wait
always has its timeout ahead), `NoMutualWait` (main and human never wait for each
other), `BuzzIsTimed`, `BuzzOrdersAlternate`, `SilentUnlessRetrying` (the buzzer
does not sound on when main has stopped retrying and told it so), `FirstWaitEnds`,
`HumanResumes`, `BuzzerFallsSilent`, `RetryEnds`. PIR driver: `NeverLockedOut`,
`UnseenOnlyIfStopped`, `LineHeldAfterRun`, `MovingPersonIsSeen`. Buzzer driver:
`RisesOnVerifiedFrequency`, `ImplementsBuzzer`. Bluetooth driver:
`UnpairedOnlyIfStopped`, `StopEndsSearch`, `StopComesBack`. Watchdog:
`KickedInTimeIsQuiet`, `HangIsReported`, `KickLeavesGuarded`. Start:
`OnlyAppSpawns`, `ChildrenArePrefix`. Codec: `IntactArrives`, `DamageIsRejected`,
`DamageMovesOnlyTheEnd` (what passes the checksum differs from what was sent only
in where it ends, lost bytes apart). Each is stated with its code in a comment above
it.

A type invariant and the auxiliary invariants that TLAPS proves outright
(`TypeOK` of all modules but `DeviceReminder`, `PipelineInv`,
`CallsLastADuration`) are not checked again by a run. `BuzzIsTimed` and
`SilentUnlessRetrying` are proved of both compositions and checked in
`DetectionCycle` only, where the buzzer is told more.

Why the bounds are enough. Three workers give a start over a running worker, a
start over a finished or failed one whose future was not collected, and one
more after either. Two sensor reports give a detection, and a second report in
every position of it: during it, after the cooldown, and beginning a second
detection while a timeout of the first is still armed. `DetectionCycle` adds
any number of answers to one detection, so starts, stops and stale `BuzzTimeout`s
of the buzzer meet in every order that two detections produce. The queues have
no bound of their own; the reports bound them. The PIR driver has no bound at
all: its state is finite. A duration of three ticks has a first, an inner and a
last instant of the sleep; four tasks are what `App::run` starts. The scans of
`BluetoothDriver` have devices near and far, before and after each other. The
configurations of `BuzzerDriver` have the key missing, twice, and with values that
are no number, no positive number, and a number with text after it. The payloads
of `MessageTransfer` are empty, at the limit and beyond it, contain the frame's
own first bytes and a checksum, and every byte of every frame is altered.

Deadlock is not checked where the system may stop: a destroyed timer, a stopped
process, tasks that wait for a sensor that reports no more, and an application
whose processes have all come to an end.

Fairness. `WF` of the owner's steps and of each worker in `TimerService`, and of
`run`, `stop` and the receiver in `TaskProcess`: the scheduler runs every thread
that can run, and a sleep ends. The compositions need less: while any receiver
thread, timer worker or endpoint has something to do, one of them does it. Nobody
is obliged to call a timer, to call `run` or `stop`, to push, or to walk past the
sensor: `Sensed` and `SensorFires` have no fairness, so a human task may wait in
`start_detect` for ever, and so may everything that waits for it. In
`DetectionCycle` the peer takes every request but need not answer it. In
`PirDriver` each thread in `run()` and a `stop()` under way go on; that the
sensor's level changes for ever is a premise of `MovingPersonIsSeen`, and nothing
the specification assumes. In `BluetoothDriver` the same, and a scan ends once the
scanner has been stopped, which is what `wait_for_stop()` presupposes. The other
modules have safety properties only.

Mutants, the plausible bugs each property is tried on, stand before the
definition they change and are named in `PROJECT.json`. They are part of no
specification.

## 4. Where code and tests disagree

Run `UntimedCooldown` checks what two tests say together, and TLC shows a behaviour
of the code that breaks it. For the first negative answer
`test_main_handler.cpp:102-104` expects the cooldown's timer to be started and the
state to be `ScanCooldown`. For the second one 288-292 expects the same state; of
the timer it says nothing. That the state is timed whichever way it is entered is
read from the two together. In the code a second negative answer enters the
cooldown with `send_bt_request()`, which starts no timer. Answers are ignored in
that state, so the main task stays there unless an old timeout is still queued. It
takes a peer that answers a second request, which the bluetooth task of the source
does not do. `RetryEnds` is therefore stated up to being `Stranded`.

Other disagreements are visible in the models without a run of their own.

* The bluetooth dispatcher enters `Cooldown` with the first scan and no path
  leaves it, so no later request is scanned. An earlier test expects the task to
  wait for requests again, `test_bluetooth_handler.cpp:69`.
* An earlier test expects the detection timer to be stopped when the device
  answers, `test_main_handler.cpp:79`. `end_device_first_detect` does not stop it,
  so a timeout of a finished detection can end the next one.
* `BuzzOrdersAlternate` is a property of the code that tests of the earlier main task
  do not share. They expect `buz_start` again on the end of a cooldown and on the
  second negative answer (`test_main_handler.cpp:124`, 290), two starts with no stop
  between them; and `buz_stop` when the first answer is positive (78, 231), a stop
  with no start before it. The code sends a start only in `retry_device_detect` and
  a stop only in `end_device_retry_detect`. That the last order tells whether main
  retries is so in the tests as well.
* `Process::run` sets `running_` when it starts, and overwrites the `false` of a
  `stop()` that came first. `StopEndsRun` holds when `stop()` is called with
  `run()` in its loop, or after `run()` has thrown; with `EarlyStop = TRUE` in
  `TaskProcess.cfg` TLC refutes it.
* `PIRDriver::stop` clears `monitoring_` without waiting for the `run()` it
  interrupts, so a second one is let in while the first still waits in
  `poll_edge`, and the two share the GPIO line; `test_pir_driver.cpp:65` has it do
  nothing. The program has one thread that calls `run()`, and run `PirDriver` is
  about that one.
* `decode` throws on a bad frame, for which
  `tests/integration/infra/message/test_message_codec.cpp:79` expects `nullptr`.
  The model follows the code.

Two more hazards have no test to quote. `GPIOSetter::buzz_start` does not read the
line back, as `buzz_stop` does, so the buzzer task may take a silent buzzer for a
sounding one. And when `load_int` or the timer throws after the buzzer was switched
on, the buzzer task's receiver ends and the buzzer stays on.
`BuzzIsTimed` is stated for a live receiver for that reason.

## 5. What is proved

Eight modules hold theorems, each about one component, or two of a kind, for every
value of their constants. What they assume is the named `ASSUME`s of the
component: the sets of failing calls are subsets of those the code has, counts are
natural numbers, a duration is positive, null is no message. TLC evaluates the
same assumptions on the runs' instances.

### TimerServiceProofs

`TypeCorrect`, `OwnerAndWorkerAgree` (`OwnerWorkerInv`), `OneWorkerAtATime`
(`AtMostOneWorker`), `NothingAfterStop` (`QuietAfterStop`), `ExceptionSurfaces`
(`WorkerExceptionSurfaces`, an action property) and `ServiceImplementsTimer`
(`Spec => T!Spec`, the refinement of `Timer`).

That two workers never meet, and that `stop()` leaves none, is not inductive:
`running_` is cleared by the owner or by the worker, whichever comes first, so
the value the owner read in `start_check` says nothing a step later. What
carries is `OwnerWorkerInv`: a live worker (one that still has a push or a store
ahead) is the one `worker_future_` refers to, `running_` is true as long as it
lives, and the owner is then not past the point where it collects it
(`LiveWorkerIsOwned`); `cancel_` is true before a live worker only while the
owner waits for it (`CancelledWorkerIsAwaited`); `message_` is set whenever a
worker may read it (`MessageIsSet`); a worker is launched with both flags in
order (`LaunchIsPrepared`); and a future that holds an exception is still the
running timer's, at no point of `start()` past the one that collects it
(`FailureIsHeld`). From the last follows `ExceptionSurfaces`: the steps that give
up a future are the collecting ones, and they throw what it holds.

The refinement maps `armed` to `message_` while some worker sleeps or is about to
push, and `call` to the call the owner is in. Waking up cancelled is `Discard`,
which the abstract timer allows only during a call, and that is
`CancelledWorkerIsAwaited`; a push is `Fire`; `StartLaunch` is `Arm`, which needs
nothing armed, and that is `LiveWorkerIsOwned`.

### DeviceReminderProofs

`TypeCorrect`, `DetectionStaysTimed` (`DetectionIsTimed`), `BuzzStaysTimed`
(`BuzzIsTimed`), `NeverBothWaiting` (`NoMutualWait`), `OrdersAlternate`
(`BuzzOrdersAlternate`) and `SilentWhenNotRetrying` (`SilentUnlessRetrying`), for
any number of sensor reports and with any calls throwing; and each of the six
again for `DetectionCycle`, under the same name with `InCycle`. Every step of
either composition is a step of `AnyNext`, the four tasks and the peer together,
and the invariants are shown to survive that.

All of them rest on where a dispatch can be. `PointsInv` says that what a task has
left to do is one of the suffixes of its handlers' calls (`MainPoints`,
`HumanPoints` and so on), and `Typed` adds the types of the data. A task's own
invariant then needs only its own points: main comes to wait for an answer only
from `Begins3`, where the timer's start is the last call; the buzzer sounds
between `Buzzes1` and the timer's start, and `BuzzInv` adds that it is silent in
`Silences2`, where only the timer is left to stop.

`NoMutualWait` is about two tasks and the messages between them, and is not
inductive. What carries is `WakeInv`: when main waits for a person, or has only
the buzzer left to tell before it does (`Homeward`), every `StopHumanDetection`
on its way to the human task has a `StartHumanDetection` behind it
(`StopsAreUndone`), and a human task that is stopped is going to be woken
(`IsWoken`). Main comes home by sending the start (`ComesHome`), and sends the
human task nothing more until it leaves (`HomewardIsSilent`); from there on
deliveries, timeouts and sensor reports keep the start behind the stop
(`StopsStayUndone`), and the human task stops either by taking a stop, with the
start behind it, or by reporting a person, with its own timer armed
(`WokenNext`).

`BuzzOrdersAlternate` is about the orders in the buzzer task's queue and on their
way to it. `TurnsInv` adds what decides the next one: among the messages the buzzer
has yet to take, any two orders of one kind have the other kind between them
(`TakeTurns`), and the last order is to sound exactly when main retries, or has
sent the order and has only its timer left to start (`LastOrder` with
`ToldToSound`). `MainPlaces` ties the points of main's handlers to `state_`, so
that an order is only sent by a main task whose last order was the other one.

`SilentUnlessRetrying` rests on that: it speaks of a buzzer that is idle and has
no order left to take, and a step before that it may sound, or be told to.
`SilentInv` says that with no order coming, and main's last word not to sound
(`~ToldToSound`), the buzzer is silent (`Silenced`), or has its `off()` as the next
call, and is not about to switch on. That taking a `StartBuzzing` does not break
it is `TurnsInv` again: a start that was the last order to come is main's last
word (`LastWordTaken`). That main does not go home without the order behind it
is `WordIsComing`.

### TaskProcessProofs

`TypeCorrect`, and for a process whose `stop()` does not come before `run()` has
reached its loop (`~EarlyStop`):
`PipelineKept`, `DispatchInPushOrder`, `NothingAfterStop` and `MailboxImplemented`
(`ImplementsMailbox`, the refinement of `Mailbox`). The order of the
dispatches is not inductive alone, because it says nothing of what is queued:
`PipelineInv` states that the dispatched, the one in hand and the queued messages
are the pushes in order, none missing and none twice. `NothingAfterStop` needs
that the receiver is joined, and that no second one is started.

The refinement maps `pending` to the popped message that is not yet past the
second test of `running_`, before the queue, and `phase` to what `stop()` and the
receiver have done. The pop is no step of the mailbox, and the second test is
`Dispatch`. That what is being dispatched is a pushed message and never the pill
(`RealMessage`) follows from `PipelineInv`, which knows the message in hand while
the mailbox is open: the pill is queued after its closing. That it is opened
once, and not after it was closed, is `StartedBeforeStopped`.

### RunStopProofs

The two drivers whose `run()` one thread is in while another calls `stop()`.

Of `PirDriver`: `TypeCorrect`, `NextRunIsLetIn` (`NeverLockedOut`) and
`ReturnsForAReason` (`UnseenOnlyIfStopped`) for any number of threads in `run()`;
`LineHeld` for one thread, `Runner = {only}`, because two of them can release each
other's line.

Of `BluetoothDriver`: `SearchTypeCorrect`, and `SearchEndsForAReason`
(`UnpairedOnlyIfStopped`), for any scans and failing calls. The property speaks of
the end of `run()` only; `TakenByStop` adds that a `run()` in its loop without
`running_`, or about to call a pointer that is reset, is overlapped by a `stop()`,
and that a `stop()` under way overlaps whatever `run()` there is.

### BuzzerDriverProofs

`TypeCorrect`, `SoundsAsConfigured` (`RisesOnVerifiedFrequency`) and
`DriverImplementsBuzzer` (the refinement of `Buzzer`), for any configurations,
any `std::stoi` and any failures. The refinement says that an `on()` that returns has
the line up if the line obeys, an `off()` that returns has it down whatever the line
does, and an exception leaves the buzzer alone or silent. The invariant says which call is under way at
which place (`CallInv`), and that the frequency in hand is the configured one and,
when the line is about to rise, the one in the PWM file (`FrequencyInv`). That
the first line with the key exists is the least-element principle of the
library.

### WatchDogProofs

`TypeCorrect`, `FedDogIsQuiet`, `CallsAreBounded`, `ReportIsBounded` and
`KickRearms`, for every duration. The invariant relates the worker's remaining
sleep to the time since the last call (`Times`): a call under way waits only for
what is left of a sleep that began before it, so `age + left` stays within a
duration, and within two for a worker that the call itself has started.
`FedIsCancelled`: a fed dog's worker is cancelled, or about to be with time left.

### AppStartProofs

`TypeCorrect`, `NoChildSpawns` (`OnlyAppSpawns`) and `ChildrenInOrder`
(`ChildrenArePrefix`), for any number of tasks.

### MessageTransferProofs

`TypeCorrect`, `IntactFramesArrive` (`IntactArrives`), `DamagedFramesAreRejected`
(`DamageIsRejected`), `DamageKeepsTheRest` (`DamageMovesOnlyTheEnd`) and
`OtherMessagesNeedLength`, for any messages, any limit that fits the length field,
any change of a byte and any bytes that follow.

The checksum comes first. One step of `crc32` over a bit is one-to-one, because
the polynomial has bit 31 set and a shifted word has not: the result tells
whether the polynomial was added (`CrcBitOneToOne`). So is the step over a
byte, in the word and in the byte (`CrcByteOneToOne`). `OneByteChangesCrc`
follows, for data of any length: the words before the altered byte are equal,
those after it differ, and no later byte brings them together again. Both are
inductions over the data, which are done without the library's induction
theorem: the set of positions where the claim fails has a least element, and the
step before it contradicts that. That `CrcAfter` is defined by its recursion at all
is shown the same way (`CrcDefined`).

Then the layout: every field is read where it was written, with the value it had
(`IntactIsAccepted`), an altered byte outside the length makes a test of `decode`
fail, before the length is read or at the checksum (`AlteredIsRejected`), and so
does a frame that is shorter than its length says (`ShortIsRejected`). What is
accepted has the frame's bytes wherever it still has them (`AcceptedKeeps`).
The properties say nothing of the bytes on their way and are not inductive;
`Travels` says how these differ from the frame that was sent.

That nothing but the message that was sent is ever queued would be false: an altered
length can end the frame inside a payload that holds the checksum of what comes before
it, or behind it in bytes that follow; and bytes that follow a cut frame can complete
another one. Run `MessageTransfer` reaches all three. `OtherMessagesNeedLength` says
that these are the only ways, and `DamageMovesOnlyTheEnd` how far they go.

### Only model-checked

Every liveness property: fairness and `ENABLED` are out of the prover's reach.

## 6. Not modelled

* Durations and priorities (but for `WatchDog`), the text of log messages, null
  collaborators, which the handlers skip and which leave the program without
  function.
* `GPIOSetter::write`, `BuzzerHandler::stop_buzzing` and
  `FileLoader::load_string_list`, which nothing calls; `load_int` is a call that
  may throw where it is called.
* Constructors that fail and destructors of the GPIO classes: the models begin
  with constructed objects.
* `AppBuilder` and the injector. `AppBuilder::build` only asks the injector for
  objects. `src/di/app_injector.hpp` binds the classes that dispatchers and
  handlers have replaced, includes headers that are gone, and passes null to
  `ProcessSender` and `BluetoothDriver`: there is no wiring to model yet. Likewise
  `BluetoothHandler::scan` calls `driver_->scan()`, which `IBluetoothDriver`
  (`run`, `stop`) does not have, so `BluetoothTask` and `BluetoothDriver` are not
  composed.
* `MessageDispatcher` and the logger, which only log.
* A build with a 32-bit `size_t`, where the sum of `message_codec.cpp:131` could
  wrap.
* The number of the scan an answer belongs to: the code has none. A late answer
  of an earlier detection is taken for the current one's, and the models do the
  same.

## 7. What is left

Every component with behaviour of its own has a module, and every safety property a
run checks is a theorem. What could follow, when the repository has the code: the
wiring of the injector, a transport in `ProcessSender`, and a composition of
`BluetoothTask` with `BluetoothDriver`.

Two refinements are not stated. A task of `DeviceReminder` uses its mailbox as
`Mailbox` allows, but takes a message that no case handles in one step, where the
mailbox has two, and the buzzer task switches its driver in one step where
`Buzzer` has the switching and the return: both would need steps that change
nothing in the tasks.
