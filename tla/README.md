# Formal models of the CanSat ground control station

TLA+ specifications of `cansat-gcs`, kept beside the code. Paths below are
relative to the repository: `server-radio`, `server-uslp`, `server-tun` and the
antenna control live in `src/rpi/`, the bus tools in `src/zmq/`, the topics are
described in `doc/topics.md`. `PROJECT.json` maps every definition to the lines
it models and lists runs, mutants, hazards, findings and theorems.

## 1. The system

The station is a set of processes on a ZMQ publish/subscribe bus. Everybody
publishes to the broker and subscribes at the broker; messages of one publisher
keep their order, nobody acknowledges anything.

```
 clients --uslp.uplink_sdu_request--> server-uslp --radio.uplink_frame--> server-radio --> air
 clients <--uslp.uplink_sdu_event---- server-uslp <--radio.uplink_state-- server-radio
 clients --radio.pa_power_request----------------------------------------> server-radio
 clients <--uslp.downlink_sdu-------- server-uslp <--radio.downlink_frame- server-radio <-- air
```

| Component | State it keeps | Operations | What is hard | What makes it correct |
|---|---|---|---|---|
| server-radio (`server.c`) | RX timeout count, TX buffer, four cookies, power request, chip mode | RX/TX loop, bus served inside both wait loops, state reports, reset and retry | messages arrive while the chip works; errors restart the loop; watchdogs, chip timeouts | no frame lost or mixed up, what is published is true, one transmission per silence, everything ends |
| its bus side (`server-zmq.c`) | sockets | receive and parse multipart messages, publish | malformed messages | a bad message changes nothing |
| board (`sx126x_board_rpi.c`) | GPIO lines, SPI, event fd | reset, busy wait, antenna mode, commands | partial failures | never both antenna switches on |
| server-uslp (`dispatcher.cpp`) | CCSDS stacks, followed frames, next cookie | one message per poll, timeout queue, decision to send | outcomes against timeouts, stale reports, restarts | one true outcome per SDU part, radio never overrun |
| its bus side (`bus_io.cpp`) | sockets | receive, parse, publish | exceptions | a bad message does not stop the service |
| server-tun | TUN device, SDU cookie | packets to SDUs and back, EPP header | bad flags, sizes, exceptions half-way through a message | packets intact or dropped |
| broker and log (`broker.py`, `its_logfile.py`) | log file | forward and record | crash between forwarding, writing and flushing | log is a prefix of the traffic |
| antenna control (Python) | two axes, limits, coordinate system, mode | commands, drives, aiming | order of commands, limits | books match the motors |
| imitator (`imitator_radio.py`) | like server-radio | the same topics | drift from the real server | the same contract |
| SDR, laptop applications | displays, flow graphs | draw telemetry | - | - |

Server-radio and server-uslp carry the concurrent protocol state, and the
uplink is where they depend on each other: the models start there. Around it are
the receivers of the bus, the life of the radio's device, the antenna and the
broker's log, each a module of its own because they share no state beyond the
messages.

## 2. Modules

| Module | Models |
|---|---|
| `FrameLifecycle` | the contract of the uplink topics: each frame goes once, forwards, through new, waiting, on air, and one of sent, dropped, superseded |
| `RadioServer` | `server.c`, uplink half, with its environment (senders, signals) |
| `UslpDispatcher` | `dispatcher.cpp` with the CCSDS stack as a FIFO of SDU parts |
| `UplinkPath` | both servers joined by the two topics, and their crashes |
| `RadioDevice` | the server-radio process and its SPI device, GPIO lines and chip, from `main` to its end |
| `MessageIntake` | what a process promises about the messages it receives |
| `BusReceive` | the three receivers of multipart messages, part by part |
| `BusLog` | the broker, its log file, and the reader of a log |
| `AntennaControl` | the antenna's drives, their books, operator commands and fixes of the target |
| `RadioServerProofs`, `UslpDispatcherProofs`, `RadioDeviceProofs`, `AntennaControlProofs`, `BusReceiveProofs`, `BusLogProofs` | theorems about the module they are named after, and their proofs |
| `UplinkPathProofs`, `UplinkWindowProofs` | the same about `UplinkPath`; the second holds what only `FollowsFew` needs |
| `MC...` | instances for TLC (symmetry, values a cfg can't write) |

`UplinkPath` instantiates `RadioServer` and `UslpDispatcher` over one set of
variables. `RadioServer` is shown to implement `FrameLifecycle`, and
`BusReceive` to implement `MessageIntake`. `RadioDevice` surrounds `RadioServer`:
what is one phase there, `loop`, is all of `RadioServer`'s loop, and what is one
action here, `ConfigureOk` or `ConfigureFail`, is a sequence of steps there.

### RadioServer

`pc` names the places where the thread can be seen from outside:

| `pc` | code |
|---|---|
| `again` | `server_serve`, before `_radio_configure` |
| `begin_rx` | the label in `_server_loop` |
| `jobs` | `_do_periodic_jobs`, before the bus is looked at |
| `report` | the same, before the state report |
| `poll` | waiting for the chip's interrupt in `_wait_for_rx` or `_wait_for_tx` (`op` says which) |
| `decide` | after an RX operation, before the channel is judged |
| `stopped` | `server_serve` returned |
| `dead` | `_radio_configure` failed once: it destroyed the driver and the lines, and the retry that `server_serve` then makes uses them (`server.c:163`, `872`). `RadioDevice` shows the steps of that |

One action is one atomic piece of that thread: `LoadFrame`, `LoadPower` and
`LoadJunk` are the whole of `_load_tx` for the three kinds of messages,
`RxPacket`, `RxTimeout`, `RxError`, `TxDone`, `TxTimedOut`, `TxError` the ends of
the wait loops, `BeginTx` and `BeginTxFail` are `_go_tx` with what the loop does
with its result. `uplink_state` is the last message published. A cookie stands
for its frame's payload: `tx_buffer` and `chip_payload` hold a cookie or `Zeros`,
so the wiping `memset` and the copying are visible. The counter of RX timeouts
stops at `Zabey + 1`, beyond which the code does not distinguish values. Time is
abstracted: a report period or a watchdog may be over at any poll. A malformed
message leaves the results of `zserver_recv_tx_packet` unset; `LoadJunk` lets
them be anything the declared sets allow.

History variables (`offered`, `all_sent`, `all_dropped`, `superseded`,
`radiated`, `tx_since_rx`, `last_pa`, `garbled`) are written and never read by
the server's actions.

Left out: the packets received (`_fetch_rx`), RSSI and statistics.

### UslpDispatcher

One `Poll` is one call of `dispatcher::poll` with at most one message:
`AcceptSdu`, `RejectSdu`, `PollOther`, `PollState`, `PollTimeout`. `PollState`
does what `_decide_next_uplink_frame` does in its order: clear late frames,
update the followed ones, decide, send. The environment may publish any report
in which the four buffers hold different frames. That restriction is what
`RadioServer` guarantees (`FrameAccounting`, and the refinement of
`FrameLifecycle`) for frames with different cookies; for the two servers
together, crashes of the radio included, `DispatcherIsServed` proves it. Parts carry their number
and whether they are final; the CCSDS stack cuts an SDU into any number of
parts up to `MaxParts` and packs any prefix of its queue into a frame.
`frames_in_wait` is a set: nothing the dispatcher does depends on the order of
its deque, and a frame may become late before an older one.

### UplinkPath

`RadioReports` publishes and delivers the report in one step, `UslpSends` is a
poll that hands a frame over; everything else interleaves. `UslpRestart` and
`RadioCrash` lose the memory of one process and keep the other's and the
messages of the bus. A radio that died by itself (`pc = "dead"`) is started
again by `RadioCrash` too, and is one of the `MaxFailures` like a kill. Frames
of different server-uslp processes may carry the same cookie, so the model keeps
them apart with the incarnation that sent them and shows server-uslp the number
only.

### RadioDevice

`phase` is where the process is: `off`, then the constructor (`spi`, `gpio`),
`signals`, `serve`, the configuration (`again`, `reset_high`, `configure`), its
undoing (`undo`), the loop, and inside it the three writes of an antenna switch
(`rxen_off`, `txen_off`, `switch_on`). `held` is the set of GPIO lines the
process has requested, `level` what the outputs are at: when nobody holds a
line it may be anything. `RequestLine` follows the order of `_gpio_init`;
`GpioFails` releases what was requested and, since `sx126x_brd_ctor` ignores the
result, goes on without lines; `UsesNullLine` is where that ends the process.
`Destroy` is `_radio_dtor`. `Signal` serves SIGINT and SIGTERM once each
(`SA_RESETHAND`), the second of a kind kills. `Serve` forgets a stop request that came before it. `Start` is
systemd's `Restart=always`. The sx126x driver is a submodule whose sources are
not here; what it does to the board is modelled from the functions the board
gives it.

### BusReceive and MessageIntake

A behaviour is about one receiver: `zserver_recv_tx_packet` (`RadioPart`),
`bus_io::recv_message` (`UslpTopic`, `UslpMetadata`, `UslpPayload`) or
server-tun's `recv_downlink_packet` with the loop in `main` that catches its
exceptions (`TunHead`, `TunPayload`). Each step takes one part of a multipart
message and decides as the code does. Messages have any number of parts up to
`MaxParts`; metadata are those of the topic, the same with a bad flag, another
JSON object, no JSON, or nothing; topics include those that pass because a
subscription is a prefix. The abstract `MessageIntake` takes whole messages and
makes of each what `MeaningOf` says; only a `HarmfulMessage` may end it. The
refinement maps its inbox to `socket`, from which a message goes when its last
part is taken.

`HarmfulMessage` lists what is left when the receivers are right: messages that
`doc/topics.md` does not allow, on which server-uslp or server-tun die with an
exception or an assertion. That `header.read` of the CCSDS library refuses an
empty buffer is assumed (`TunPacket`), because server-tun has read the first byte
of it by then. Neither has a systemd service in the repository:
whoever started it has to do so again, as `UslpRestart` does in `UplinkPath`.

### BusLog

`Forward`, `Write` and `Flush` are the three parts of one turn of the broker's
loop, between any of which it may be killed (`Crash`) or interrupted
(`Interrupt`). `stream` is what was written to the Python stream, `files` what
of it reached the kernel: any prefix that only grows. A byte is a pair of its
message and its piece (head, sizes, parts; two bytes each), so a log may be cut
inside a piece, between pieces or between messages; a message of empty parts
has no third piece. The reader takes a finished log piece by piece
(`ReadPiece`), as `LogfileReader` does, and ends with the end of the log or
with an error (`ReadEnds`). `last_log_flush_timepoint` is not set again, so once
the first second is over every message is flushed: `late` stays up.

Assumed: the clock doesn't go backwards (a log is named after its second and
opened for writing, systemd waits a second), CPython closes a stream when its
last reference goes, processes crash and the power does not.

### AntennaControl

Angles are integers, multiples of a motor step. `elevation_axis` is where the
antenna is, which the process does not see; `vertical_position` and
`horizontal_position` are the books of the drive (`drive_control.py`),
`azimuth`, `elevation` and the deltas the books of the interface
(`control_interface.py`). A rotation that meets a limit switch stops and
corrects the drive's book (`VerticalRotation`). Every command of the bus is an
action: soft and hard manual control, zero of the elevation, target to north,
mode, motors, coordinate system, GPS filter. A fix brings the direction of the
target (`FixTaken`). `FixSwallowed` and `FixKills` are the velocity filter,
whose first answer nobody can use. `Crash` and `Restart` lose the books and
leave the antenna where it is, `MovedByHand` moves the antenna and leaves the
books. `homed` (a switch was met since) and `shifted` (a hard rotation of the
elevation was the last) are history.

## 3. Checks

All runs finish within three minutes on two workers.

| Run | Distinct states | Shows |
|---|---|---|
| `radio_shared` | 14,250,530 | three frames, two powers and a negative one, a malformed message, every failure: `FrameAccounting`, `NoForeignPayload`, `OneTxPerSilence`, `PowerHonoured` |
| `radio_frames` | 6,968 | frames only: `SentMeansRadiated`, `ReportUpToDate`, `OutcomesReported`, the refinement `ImplementsLifecycle`, and the liveness properties `TransmissionEnds`, `StopHonoured` whatever the air does, `OutcomePublished` and `WaitingEnds` under the assumptions they name |
| `uslp_outcomes` | 112,576 | `OneOutcome`, `PartsAccounted`, `Settles` against any consistent radio |
| `uplink_path` | 5,498,142 | `TrueUntilRestart`, `LossIsTold` with a crash, timeouts at any time and power requests among the frames |
| `uplink_window` | 982,636 | `FollowsFew`: the deque of followed frames is short without help of the timeout |
| `uplink_live` | 74,826 | `SduSettles`: outcomes come whatever crashes |
| `bus_receive` | 459,207 | `ReadsWholeMessages` (the refinement of `MessageIntake`) and `EveryMessageRead`, at each receiver, for messages malformed in every way the parsers tell apart |
| `antenna_control` | 177,383 | `BooksTrueOnceHomed`, `AzimuthKept`, `ElevationKept`, `AimsTheShortestWay`, `ZeroIsFound`, `AimSettles` through any commands, fixes, restarts and moves by hand |
| `radio_device` | 4,527 | `OneSwitch`, `WorksWhenReady`, `ComesBack` with failing calls, signals and kills anywhere |
| `bus_log` | 124,785 | `LogFollowsBus`, `ReadsWholeMessages`, `LosesOneAtMost`, `InterruptKeepsLog` with the broker dying anywhere |
| `radio_power_wipes_frame` | - | finding: zeros are published as sent |
| `uplink_restart` | - | finding: a restarted server-uslp believes an old outcome |

Deadlock is checked in every passing run; where a system is over it stutters
explicitly (`Ended`, `Quiet`, `Done`). Each property has a mutant: an operator
that changes the model the way a plausible bug would, and which TLC must catch.

### Bounds and why they are enough

- Frames: three in `radio_shared`, which is one waiting, one on the air and one
  more in the socket or superseded; the server has two places, so a fourth frame
  meets nothing new. Cookies are symmetric there. The theorems hold for any
  number.
- `Left = 1`, `Zabey = 2` instead of 6 and 126: below, at, between and above the
  limits all occur. The theorems hold for any `Left <= Zabey`.
- `MaxQueue`, `MaxInbox` bound the sockets (the code has libzmq's 1000). A full
  queue blocks the publisher in the models; real PUB sockets drop. A lost
  report is like a report that never came, which `uslp_outcomes` covers.
- In `uplink_path` one power request is in the socket at a time, before or behind
  the frames; otherwise two of them could fill it and, as a full queue blocks
  here, stop both servers.
- `MaxCookie = 2` in `uslp_outcomes` makes the cookie wrap around. In
  `UplinkPath` it is large enough never to wrap: a wrap after 2^64 frames is
  not interesting there.
- `MaxFailures = 1`: one crash of one of the servers, at any moment, the radio's
  own death included.
- `MaxJunk = 1` malformed message.
- `MaxParts = 4` in `bus_receive`: one more than any message has, so the loops
  that flush the rest run, and `MaxMessages = 2`: what is left of a message
  shows in the next one.
- `MaxTrouble = 4` in `radio_device`: a signal, a kill, a failure while
  constructing and one while running, in any order.
- `antenna_control`: `Half = 4`, limits at 2 and -2, `MinRotation = 2`, rotations
  by -5, 0 and 3, three targets: below the least rotation, above half a turn,
  beyond both limits and across the back of the circle. `MaxCommands = 4`
  commands, crashes or moves by hand; fixes are not bounded. The theorems hold
  for all limits and angles.
- `bus_log`: four messages of which one is hollow, two runs of the broker.

### Fairness

- The thread of server-radio never blocks for good: `zmq_poll` has timeout 0 and
  `poll` 1 ms, so weak fairness of `Server`.
- Both wait loops have a watchdog of 5 s (`server.c:591`, `700`): an operation
  ends again and again, so strong fairness of `RxEnds` and of `TxEnds`.
- That is all `TransmissionEnds` and `StopHonoured` need: they hold also when
  packets keep coming, when every operation ends in an error and when the mode
  switch always fails. Nothing is assumed of the configuration either: when it
  fails the process dies.
- Two properties have an assumption of their own, which is their premise and not
  part of the specification. `OutcomePublished` needs mode switches that do not
  fail for ever (`ChipKeepsWorking`), because reports are made in the wait loop
  after them. `WaitingEnds` needs besides that packets stop for good and RX
  operations end in timeouts again and again (`SilentAir`): the code waits
  without limit otherwise.
- server-uslp's poll wakes up every second (`dispatcher.cpp:14`): weak fairness
  of `Poll`. Time passes: fairness of `TimePasses`. When a frame's 5 s are over
  relative to the messages under way, and in which order, is left open.
- In `uplink_live` the radio reports again and again, because of
  `tx_state_report_period_ms` (`server.c:477`): strong fairness of
  `RadioReports`; systemd starts a dead radio: weak fairness of `RadioCrash`
  when `pc = "dead"`.
- `BusReceive`: a receiver is called when its socket has something: weak
  fairness of `Receive`.
- `RadioDevice`: no call blocks for ever, systemd restarts: weak fairness of
  `Steps`. None of the faults is fair, and the model bounds their number: the
  property is about what happens after the last one.
- `AntennaControl`: the target keeps sending its position and systemd restarts:
  weak fairness of `FixAgain` and `Restart`.
- `BusLog` has safety properties only.

## 4. Proofs

Checked by TLAPS for all values of the constants that satisfy the named
assumptions of each module.

`RadioServerProofs`:

| Theorem | States | Assumes besides |
|---|---|---|
| `TypeCorrect` | `Spec => []TypeOK` | |
| `EveryFrameAccounted` | `Spec => []FrameAccounting` | |
| `OwnPayload` | `Spec => []NoForeignPayload` | |
| `SpeaksOnce` | `Spec => OneTxPerSilence` | |
| `PowerKept` | `Spec => PowerHonoured` | |
| `SentWasRadiated` | `[]SentMeansRadiated` | no power requests, nothing malformed |
| `ReportsTrue` | `Spec => []ReportUpToDate` | no power requests |
| `NoOutcomeLost` | `Spec => OutcomesReported` | no power requests |
| `Refinement` | `ImplementsLifecycle` | nothing malformed |

The assumptions about powers are necessary: `radio_power_wipes_frame` shows one
case, the deviations of section 5 the others. The inductive invariants, each
checked by TLC before it was proved:

- `TypeInv`: types, and the in-progress slot is taken exactly while
  `_wait_for_tx` runs. Without the second part a done transmission could put
  `NoCookie` into `all_sent`.
- `SilenceInv`: since the server last spoke the count is at least `Left`, and
  past it when the channel is judged. This is why the equality in the window
  rule can't hold twice.
- `BufferInv`: the buffer holds the waiting frame's payload or zeros. `SentInv`
  is its exact form when nothing wipes the buffer.
- `PowerInv`: the last request, unless negative, is either still pending or in
  the configuration,
  and while the chip is in use (not in `again`, `stopped`, `dead`) it has what
  the configuration has.
- `ReportInv`: while the flag is down the last report is true; it is down
  whenever the radio is polled.
- `AccountInv`: the accounting and that a frame is in the socket once.

The refinement proof maps each step to a step of `FrameLifecycle` or to none:
`LoadFrame` to `Accept`, `BeginTx` to `Transmit`, `BeginTxFail` to `Drop`,
`TxDone` to `Radiate`, the other ends of a transmission to `Drop`.

`UslpDispatcherProofs`: `TypeCorrect`, `OutcomeOnce` (`OneOutcome`) and
`AllAccounted` (`PartsAccounted`). The inductive invariant `DispatcherInv` adds to
them `PartsInv` (stack, followed frames and told outcomes are disjoint, frames
carry disjoint parts, every part belongs to an accepted SDU, which is all there)
and `AskedOnce` (a request in the inbox is for an SDU that was neither accepted
nor rejected, and is there once). Nothing is assumed of the reports' order or
age, so the theorems hold whatever the radio does.

`RadioDeviceProofs`: `TypeCorrect`, `SwitchSafe` (`OneSwitch`) and `LoopReady`
(`WorksWhenReady`). `DeviceInv` adds `SwitchInv` (which pins are low between the
writes of a switch), `WholeInv` (who holds the lines has the SPI device and a
live driver: lines and driver are destroyed together) and `ConfigureInv` (what
each step of the configuration has reached). That the loop can't be reached on a
destroyed driver rests on `held = Lines` being the guard of every step past the
null line.

`AntennaControlProofs`: `TypeCorrect`, `BooksTrue` (`BooksTrueOnceHomed`),
`AzimuthTrue`, `ElevationTrue`, `ZeroTrue` (`ZeroIsFound`) and `AimTrue`
(`AimsTheShortestWay`). The conjunction of the invariants is inductive as it
stands. The work is in the lemmas about `RecountAngle`: that it normalises any
angle, that it is the angle itself within half a turn, and that it does not
change with full turns, each from the definition of integer division.

`UplinkPathProofs` (assumptions: `PathAssumption`; the least cookie width is two
values, because a poll that sends is told from one that doesn't by
`next_cookie`; the code has 2^64 - 1):

| Theorem | States |
|---|---|
| `RadiatedIsTrueUntilRestart` | `Spec => []TrueUntilRestart` |
| `LossIsAlwaysTold` | `Spec => []LossIsTold` |
| `DispatcherIsServed` | `Spec /\ [](incarnation = 1) => Uslp!Spec`: server-uslp in the path implements `UslpDispatcher` |

They follow from `PathInv`, which says of the first server-uslp, in three parts:

- `RadioInv`: frames wait in the socket in the order of their cookies, the
  waiting frame came before all of them, and no frame that left the waiting
  place (`Gone`) is before it (`InLine`).
- `InboxInv`: a report under way is old but not wrong. What it shows as sent or
  dropped stays so, what it shows on the air never waits again.
- `BooksInv`: a cookie is given out once until they begin anew, a frame's cargo
  is what its entry says, and a frame that may still be superseded is followed
  or given up; of two such frames the older is given up.

The third is what `LossIsTold` needs: server-uslp sends a frame only when no
followed frame may be in the waiting place, so the one that is superseded had
been given up. `DispatcherIsServed` needs `FatesInv` besides (a frame has one
outcome, and none while it is on the air): with it each report the radio
publishes is in `UslpDispatcher`'s `UplinkStates`, so `OneOutcome` and
`PartsAccounted`, proved there for any radio that keeps to them, are properties
of the path.

`UplinkWindowProofs`: `FollowsFewAlways`, `Spec => []FollowsFew` when
`PaPowers = {}`. The assumption is the property's own: a power request clears the
flag that asks for a report (`server.c:199`), so an outcome may be overwritten
before it was published. `WindowInv` names the frames whose outcome a crash lost
(`lost`, one for each crash at most). Of any other followed frame that was on the
air the outcome is in the radio, in its last report or under way (`Coming`), and
it is read before another frame is shown on the air (`Before`). So there is one
such frame at most, and one more that was sent after it.

`BusReceiveProofs`: `ReceiveTypeInvariant` (`TypeOK`) and
`ReceiversTakeWholeMessages` (`Spec => ReadsWholeMessages`, the refinement of
`MessageIntake`), for any length of the messages. `IntakeInv` says for each phase
of each receiver which parts it has taken and what it made of them (`RadioAt`,
`UslpAt`, `TunAt`). A step that takes a part which is not the last maps to a
stutter, one that takes the last to the abstract step with the whole message's
meaning; the three `...Reading` operators are the reference. No message belongs
to two receivers, because their topics are disjoint.

`BusLogProofs`:

| Theorem | States |
|---|---|
| `LogTypeInvariant` | `Spec => []TypeOK` |
| `LogsFollowTheBus` | `Spec => []LogFollowsBus` |
| `ReaderGivesWholeMessages` | `Spec => []ReadsWholeMessages` |
| `AFlushedRunLosesOne` | `Spec => []LosesOneAtMost` |
| `AnInterruptedRunIsWhole` | `Spec => []InterruptKeepsLog` |

The log that ought to be is not built by a fold but described byte by byte:
`End(messages, i)` is where the record of message `i` ends, by counting the
hollow ones before it, and `BeginsLogOf` says which byte is where. The lemmas
`EndStep`, `EndGrows` and `EndKept` are all the arithmetic there is. `LogInv` adds
to the properties that the stream is what was written of what was forwarded
(`StreamInv`), that the runs to come have no log, how far a log reaches once it
was flushed (`FlushInv`) or interrupted (`InterruptInv`), and that the reader is
at the end of a record plus whole pieces of the next (`Between`). A log that is
over does not change (`OverKept`), which is why the reader need not care what the
broker does meanwhile.

Only model-checked is liveness (`TransmissionEnds`, `WaitingEnds`,
`OutcomePublished`, `StopHonoured`, `Settles`, `SduSettles`, `EveryMessageRead`,
`AimSettles`, `ComesBack`): fairness and ENABLED are beyond the prover. Every
safety property of a passing run is a theorem. `FollowsFew`, `SentMeansRadiated`,
`ReportUpToDate` and `OutcomesReported` are theorems about a station without
power requests, `SentMeansRadiated` and the refinement of `FrameLifecycle` about
well-formed messages, as in the runs. The proofs about `UplinkPath` are about the
first server-uslp only: `uplink_restart` shows why.

## 5. Findings

1. `server.c:177` (`radio_power_wipes_frame`): `_load_tx` wipes the TX buffer for
   any message. A power request while a frame waits makes zeros go out under its
   cookie.
2. `dispatcher.hpp:76` (`uplink_restart`): after a restart cookies repeat, and the
   radio's sticky `cookie_sent` is believed.

`PROJECT.json` quotes what the documentation or a comment says in each case.

Known deviations that no run is spent on, and that properties or theorems name
as assumptions:

- `server.c:199`: a power request clears the flag that asks for a report, so a
  change is published up to a period late (`doc/topics.md:122`).
  `ReportUpToDate`, `OutcomesReported` and `FollowsFew` are therefore about a
  station without power requests; that `TrueUntilRestart` and `LossIsTold`
  survive them is checked in `uplink_path` and proved.
- `server.c:609`: negative powers, allowed by the schema (`doc/topics.md:376`), are
  ignored, and take back a request that is still pending. `PowerHonoured` says
  so, and `radio_shared` has such a request.
- `server-zmq.c:129`: metadata of a frame must be an object with the one field
  `cookie`, three tokens for the parser; the example in `doc/topics.md:43-49`, which
  has the time too, is rejected. In the models metadata that "fit" are those the
  code takes.
- `dispatcher.hpp:83`: the timeout of 5 s is shorter than the wait of a frame in
  the radio, so clients hear of failures that did not happen
  (`bus_messages.hpp:134`).
- `server.c:163`: a failed configuration kills the process instead of being
  retried; systemd makes up for it (`ComesBack`).
- the velocity filter of the antenna control kills the process at a fix
  (`FixKills`), and a hard rotation of the elevation shifts what is shown until
  the next rotation (`shifted`).
- `broker.py:67`: the flush period ends once and for all.

## 6. Plan

Done: `FrameLifecycle`, `RadioServer`, `UslpDispatcher`, `UplinkPath`,
`BusReceive`, `RadioDevice`, `BusLog`, `AntennaControl`, with proofs as listed.

Left:

1. The downlink half of server-radio (`_fetch_rx`, `rx_cookie`,
   `radio.downlink_frame`) and failing PUB sockets in `UslpDispatcher`.
2. The EPP header's sizes as functions against a reference.
3. The imitator as another implementation of `FrameLifecycle`.
4. Theorems: what still holds of `UplinkPath` after a restart of server-uslp
   (outcomes of the frames the new one sent once the old cookies are gone), and
   the life of a frame across crashes of the radio.

## 7. Not modelled

Laptop applications and SDR flow graphs (displays, generated code), log
converters, sensor drivers and vendored libraries (no protocol state: they are
most of the repository's lines, the magnetic model's tables alone more than half
of them), the trigonometry of the antenna (real arithmetic), its aiming period
(never in force), the enable line of the azimuth's motor (that axis has no
switch, and the model does not place it), motor timeouts and state messages, the CCSDS and sx126x
libraries (not in the repository; modelled from their use), the player and the
concatenation of logs (loops over the reader), version 0 of the log format, and
the TUN device of server-tun, which passes packets through. `PROJECT.json`
says for each component what of it is left out.
