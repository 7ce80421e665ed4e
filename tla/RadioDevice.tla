---------------------------- MODULE RadioDevice ----------------------------
(***************************************************************************)
(* The life of the server-radio process and of what it holds: the SPI      *)
(* device, the GPIO lines and the chip behind them                         *)
(* (src/rpi/server-radio/src/main.c, server.c, sx126x_board_rpi.c).  Any   *)
(* call may fail, signals come at any time, systemd starts the process     *)
(* again.  RadioServer looks inside of "loop".                             *)
(*                                                                         *)
(* The sx126x driver is a library; it is modelled by the board functions   *)
(* it must call.  A line pointer is null unless the line is held, and      *)
(* libgpiod does not survive a null line.                                  *)
(***************************************************************************)
EXTENDS Integers

CONSTANT MaxTrouble   \* bound on failing calls, signals and kills

ASSUME DeviceAssumption == MaxTrouble \in Nat

VARIABLES
  phase,           \* where the process is
  spi,             \* the SPI device is open
  held,            \* the GPIO lines requested
  level,           \* the levels of the output lines
  configured,      \* the chip was configured since its last reset
  driver,          \* "none", "live" or "destroyed"
  mode,            \* the antenna mode being set
  handlers,        \* the signals whose stop handler is installed
  stop_requested,
  trouble

vars == <<phase, spi, held, level, configured, driver, mode, handlers,
          stop_requested, trouble>>

Outputs == {"nrst", "rxen", "txen"}
StopSignals == {"SIGINT", "SIGTERM"}
Lines   == Outputs \cup {"busy", "dio1"}
Modes   == {"off", "rx", "tx"}

\* The order of _gpio_init, and the levels it requests the outputs with.
Before == [nrst |-> {}, rxen |-> {"nrst"}, txen |-> {"nrst", "rxen"},
           busy |-> Outputs, dio1 |-> Outputs \cup {"busy"}]

Requested == [nrst |-> 1, rxen |-> 0, txen |-> 0]

Levels == [Outputs -> {0, 1}]

Init ==
  /\ phase = "off"
  /\ spi = FALSE
  /\ held = {}
  /\ level \in Levels
  /\ configured = FALSE
  /\ driver = "none"
  /\ mode = "off"
  /\ handlers = {}
  /\ stop_requested = FALSE
  /\ trouble = 0

-----------------------------------------------------------------------------

Trouble == trouble < MaxTrouble /\ trouble' = trouble + 1

Goto(from, to) == phase = from /\ phase' = to

board  == <<spi, held, level>>
device == <<board, configured, driver>>
signal == <<handlers, stop_requested>>

\* The kernel closes what the process held.  Nobody drives the lines then.
Ends ==
  /\ phase' = "off"
  /\ spi' = FALSE
  /\ held' = {}
  /\ level' \in Levels
  /\ driver' = "none"
  /\ handlers' = {}
  /\ stop_requested' = FALSE
  /\ configured' \in {configured, FALSE}
  /\ UNCHANGED mode

\* Restart=always.
Start ==
  /\ Goto("off", "spi")
  /\ UNCHANGED <<device, mode, signal, trouble>>

Kill == phase # "off" /\ Trouble /\ Ends

\* SA_RESETHAND: the handler serves each signal once.
Signal(s) ==
  /\ phase # "off"
  /\ Trouble
  /\ \/ /\ s \in handlers
        /\ handlers' = handlers \ {s}
        /\ stop_requested' = TRUE
        /\ UNCHANGED <<phase, device, mode>>
     \/ s \notin handlers /\ Ends

-----------------------------------------------------------------------------
(* server_ctor: sx126x_brd_ctor and what follows.                          *)

OpenSpi ==
  /\ Goto("spi", "gpio")
  /\ spi' = TRUE
  /\ UNCHANGED <<held, level, configured, driver, mode, signal, trouble>>

\* server_ctor fails, main returns.
OpenSpiFails == phase = "spi" /\ Trouble /\ Ends

RequestLine(l) ==
  /\ phase = "gpio"
  /\ held = Before[l]
  /\ held' = held \cup {l}
  /\ level' = IF l \in Outputs THEN [level EXCEPT ![l] = Requested[l]]
              ELSE level
  /\ UNCHANGED <<phase, spi, configured, driver, mode, signal, trouble>>

Constructed ==
  /\ Goto("gpio", "signals")
  /\ held = Lines
  /\ driver' = "live"
  /\ UNCHANGED <<board, configured, mode, signal, trouble>>

\* Mutant: what was requested stays requested.
GpioFailsKeeps ==
  /\ Goto("gpio", "signals")
  /\ held # Lines
  /\ Trouble
  /\ driver' = "live"
  /\ UNCHANGED <<board, configured, mode, signal>>

\* The chip can't be opened or a line can't be requested: what was requested
\* is released.  sx126x_brd_ctor does not look at rc.
GpioFails ==
  /\ Goto("gpio", "signals")
  /\ held # Lines
  /\ Trouble
  /\ held' = {}
  /\ level' \in Levels
  /\ driver' = "live"
  /\ UNCHANGED <<spi, configured, mode, signal>>

\* gpiod_chip_get_lines fails: _gpio_deinit asks a null line if it is free.
GetLinesFails == phase = "gpio" /\ held = {} /\ Trouble /\ Ends

\* A signal between the two calls of sigaction is like one before or after.
InstallHandlers ==
  /\ Goto("signals", "serve")
  /\ handlers' = StopSignals
  /\ UNCHANGED <<device, mode, stop_requested, trouble>>

\* The first line of server_serve forgets a signal that has already come.
Serve ==
  /\ Goto("serve", "again")
  /\ stop_requested' = FALSE
  /\ UNCHANGED <<device, mode, handlers, trouble>>

-----------------------------------------------------------------------------
(* _radio_configure.                                                       *)

Write(pin, value) ==
  /\ level' = [level EXCEPT ![pin] = value]
  /\ UNCHANGED <<spi, held>>

\* Mutant: the board checks its lines and reports an error.
UsesNullLineChecked ==
  /\ Goto("again", "undo")
  /\ held = {}
  /\ UNCHANGED <<device, mode, signal, trouble>>

\* The driver talks to the chip through a null line.
UsesNullLine == phase = "again" /\ held = {} /\ Ends /\ UNCHANGED trouble

ResetLow ==
  /\ Goto("again", "reset_high")
  /\ ~stop_requested
  /\ held = Lines
  /\ Write("nrst", 0)
  /\ configured' = FALSE
  /\ UNCHANGED <<driver, mode, signal, trouble>>

ResetHigh ==
  /\ Goto("reset_high", "configure")
  /\ Write("nrst", 1)
  /\ UNCHANGED <<configured, driver, mode, signal, trouble>>

Configure ==
  /\ Goto("configure", "loop")
  /\ configured' = TRUE
  /\ UNCHANGED <<board, driver, mode, signal, trouble>>

\* Mutant: the result of the reset is not looked at.
ConfigureFailsIgnored ==
  /\ \/ Goto("again", "undo") /\ held = Lines /\ ~stop_requested
     \/ Goto("reset_high", "configure")
     \/ Goto("configure", "undo")
  /\ Trouble
  /\ UNCHANGED <<device, mode, signal>>

ConfigureFails ==
  /\ \/ Goto("again", "undo") /\ held = Lines /\ ~stop_requested
     \/ Goto("reset_high", "undo")
     \/ Goto("configure", "undo")
  /\ Trouble
  /\ UNCHANGED <<device, mode, signal>>

\* _radio_dtor: a last reset, whatever comes of it, and everything is given
\* back.  The driver that is left is used again.
Destroy ==
  /\ spi' = FALSE
  /\ held' = {}
  /\ level' \in Levels
  /\ configured' \in {configured, FALSE}
  /\ driver' = "destroyed"

Undo ==
  /\ Goto("undo", "again")
  /\ Destroy
  /\ UNCHANGED <<mode, signal, trouble>>

-----------------------------------------------------------------------------
(* _server_loop, as far as the board sees it: the driver switches the      *)
(* antenna with each mode of the chip.                                     *)

SetAntenna(m) ==
  /\ Goto("loop", "rxen_off")
  /\ ~stop_requested
  /\ mode' = m
  /\ UNCHANGED <<device, signal, trouble>>

RxenOff ==
  /\ Goto("rxen_off", "txen_off")
  /\ Write("rxen", 0)
  /\ UNCHANGED <<configured, driver, mode, signal, trouble>>

TxenOff ==
  /\ Goto("txen_off", "switch_on")
  /\ Write("txen", 0)
  /\ UNCHANGED <<configured, driver, mode, signal, trouble>>

SwitchOn ==
  /\ Goto("switch_on", "loop")
  /\ \/ mode = "off" /\ UNCHANGED board
     \/ mode = "rx" /\ Write("rxen", 1)
     \/ mode = "tx" /\ Write("txen", 1)
  /\ UNCHANGED <<configured, driver, mode, signal, trouble>>

Switching == {"rxen_off", "txen_off", "switch_on"}

\* Mutant: a pin that can't be switched off is passed over.
SwitchFailsPassed ==
  /\ \/ Goto("rxen_off", "txen_off")
     \/ Goto("txen_off", "switch_on")
     \/ Goto("switch_on", "again")
  /\ Trouble
  /\ UNCHANGED <<device, mode, signal>>

\* The driver's mode switch fails: the loop ends with an error.
SwitchFails ==
  /\ phase \in Switching
  /\ phase' = "again"
  /\ Trouble
  /\ UNCHANGED <<device, mode, signal>>

\* Any other error of the loop.
LoopFails ==
  /\ Goto("loop", "again")
  /\ Trouble
  /\ UNCHANGED <<device, mode, signal>>

\* server_dtor, with the driver it still has; without one the null line ends
\* the process here too.
Leave ==
  /\ phase \in {"again", "loop"}
  /\ stop_requested
  /\ held = Lines
  /\ Ends
  /\ UNCHANGED trouble

-----------------------------------------------------------------------------

Board ==
  \/ ResetLow \/ ResetHigh \/ RxenOff \/ TxenOff \/ SwitchOn
  \/ \E l \in Lines : RequestLine(l)

Steps ==
  \/ Start \/ OpenSpi \/ Constructed \/ InstallHandlers \/ Serve
  \/ Board \/ UsesNullLine \/ Configure \/ Undo \/ Leave
  \/ \E m \in Modes : SetAntenna(m)

Faults ==
  \/ Kill \/ OpenSpiFails \/ GpioFails \/ GetLinesFails
  \/ \E s \in StopSignals : Signal(s)
  \/ ConfigureFails \/ SwitchFails \/ LoopFails

Next == Steps \/ Faults

Spec == Init /\ [][Next]_vars

\* No call blocks for ever (the driver's waits have timeouts, 294), and
\* systemd restarts the process.
FairSpec == Spec /\ WF_vars(Steps)

-----------------------------------------------------------------------------
(* Properties.                                                             *)

Phases == {"off", "spi", "gpio", "signals", "serve", "again", "reset_high",
           "configure", "undo", "loop"} \cup Switching

\* Every variable holds a value of its kind; once constructed, the board has
\* all of its lines or none.
TypeOK ==
  /\ phase \in Phases
  /\ spi \in BOOLEAN
  /\ held \in SUBSET Lines
  /\ level \in Levels
  /\ configured \in BOOLEAN
  /\ driver \in {"none", "live", "destroyed"}
  /\ mode \in Modes
  /\ handlers \subseteq StopSignals
  /\ stop_requested \in BOOLEAN
  /\ trouble \in 0 .. MaxTrouble
  /\ phase \notin {"off", "spi", "gpio"} => held \in {{}, Lines}

\* The receiver is never switched to the antenna together with the transmitter
\* while the process holds the lines, whatever failed and whichever process
\* died in the middle of a switch (sx126x_board_rpi.c:108-116, 303-339).
OneSwitch ==
  {"rxen", "txen"} \subseteq held => level.rxen = 0 \/ level.txen = 0

\* The loop runs on a whole device only: all lines, a driver that was not
\* destroyed, a chip out of reset and configured since, though the constructor
\* ignores missing lines and the retry a destroyed driver
\* (sx126x_board_rpi.c:199, server.c:136-164, 872-881).
WorksWhenReady ==
  phase \in {"loop"} \cup Switching =>
    /\ spi
    /\ held = Lines
    /\ level.nrst = 1
    /\ configured
    /\ driver = "live"

\* Whatever failed, after the last failure the server gets back to its loop:
\* by dying and being started again where the retry can't help
\* (server.c:871-881, its-server-radio.service:7).
ComesBack == []<>(phase = "loop")

=============================================================================
