-------------------------- MODULE RadioDeviceProofs --------------------------
(***************************************************************************)
(* Proofs about RadioDevice, for every number of failures, signals and     *)
(* kills.                                                                  *)
(***************************************************************************)
EXTENDS RadioDevice, TLAPS

\* Half way through a switch the pins passed so far are low.
SwitchInv ==
  /\ phase = "txen_off" => level["rxen"] = 0
  /\ phase = "switch_on" => level["rxen"] = 0 /\ level["txen"] = 0

\* A process that has its lines has the rest of the device: the driver is
\* destroyed together with the lines only.
WholeInv ==
  /\ phase \notin {"off", "spi"} /\ held = Lines => spi
  /\ phase \notin {"off", "spi", "gpio"} /\ held = Lines => driver = "live"
  /\ phase = "gpio" => spi

\* What the configuration has reached.
ConfigureInv ==
  /\ phase \in {"reset_high", "configure"} => held = Lines
  /\ phase = "configure" => level["nrst"] = 1

DeviceInv ==
  /\ TypeOK
  /\ OneSwitch
  /\ WorksWhenReady
  /\ SwitchInv
  /\ WholeInv
  /\ ConfigureInv

-----------------------------------------------------------------------------

\* What writing a pin does to the levels.
LEMMA WritePin ==
  ASSUME level \in Levels,
         NEW pin \in Outputs, NEW value \in {0, 1}, Write(pin, value)
  PROVE  /\ level' \in Levels
         /\ level'[pin] = value
         /\ \A other \in Outputs \ {pin} : level'[other] = level[other]
         /\ spi' = spi
         /\ held' = held
BY DEF Write, Levels

LEMMA DeviceInit == Init => DeviceInv
<1> SUFFICES ASSUME Init PROVE DeviceInv
  OBVIOUS
<1>1. TypeOK
  <2>1. trouble \in 0 .. MaxTrouble
    BY DeviceAssumption DEF Init
  <2> QED
    BY <2>1 DEF Init, TypeOK, Phases, Modes
<1>2. OneSwitch
  BY DEF Init, OneSwitch
<1>3. WorksWhenReady /\ SwitchInv /\ WholeInv /\ ConfigureInv
  BY DEF Init, WorksWhenReady, SwitchInv, WholeInv, ConfigureInv, Switching
<1> QED
  BY <1>1, <1>2, <1>3 DEF DeviceInv

\* The end of a process, wherever it was.
LEMMA EndsKeeps ==
  ASSUME DeviceInv, Ends, trouble' \in 0 .. MaxTrouble
  PROVE  DeviceInv'
BY DEF DeviceInv, TypeOK, OneSwitch, WorksWhenReady, SwitchInv, WholeInv,
       ConfigureInv, Ends, Phases, Switching, Lines, Outputs

LEMMA TroubleCounts ==
  ASSUME TypeOK, Trouble
  PROVE  trouble' \in 0 .. MaxTrouble
BY DeviceAssumption DEF TypeOK, Trouble

\* Requesting the lines one after the other.
LEMMA RequestKeeps ==
  ASSUME DeviceInv, NEW l \in Lines, RequestLine(l)
  PROVE  DeviceInv'
<1>1. held' \in SUBSET Lines
  BY DEF RequestLine, DeviceInv, TypeOK
<1>2. level' \in Levels
  <2>1. CASE l \in Outputs
    <3>1. Requested[l] \in {0, 1}
      BY <2>1 DEF Requested, Outputs
    <3> QED
      BY <2>1, <3>1 DEF RequestLine, DeviceInv, TypeOK, Levels
  <2>2. CASE l \notin Outputs
    BY <2>2 DEF RequestLine, DeviceInv, TypeOK
  <2> QED
    BY <2>1, <2>2
<1>3. OneSwitch'
  <2> SUFFICES ASSUME "rxen" \in held', "txen" \in held'
               PROVE  level'["rxen"] = 0 \/ level'["txen"] = 0
    BY DEF OneSwitch
  <2>1. CASE l = "rxen"
    BY <2>1 DEF RequestLine, Requested, Outputs, DeviceInv, TypeOK, Levels
  <2>2. CASE l = "txen"
    BY <2>2 DEF RequestLine, Requested, Outputs, DeviceInv, TypeOK, Levels
  <2>3. CASE l = "nrst"
    BY <2>3 DEF RequestLine, Before
  <2>4. CASE l \in {"busy", "dio1"}
    <3>1. level' = level
      BY <2>4 DEF RequestLine, Outputs
    <3>2. "rxen" \in held /\ "txen" \in held
      BY <2>4 DEF RequestLine
    <3> QED
      BY <3>1, <3>2 DEF DeviceInv, OneSwitch
  <2> QED
    BY <2>1, <2>2, <2>3, <2>4 DEF Lines, Outputs
<1>4. phase' = "gpio" /\ phase = "gpio"
  BY DEF RequestLine
<1> QED
  BY <1>1, <1>2, <1>3, <1>4
  DEF RequestLine, DeviceInv, TypeOK, WorksWhenReady, SwitchInv, WholeInv,
      ConfigureInv, Phases, Switching, signal

\* One step per action.
LEMMA DeviceStep == DeviceInv /\ [Next]_vars => DeviceInv'
<1> SUFFICES ASSUME DeviceInv, [Next]_vars PROVE DeviceInv'
  OBVIOUS
<1> USE DEF Phases, Switching, Goto, board, device, signal
<1>1. CASE Start
  BY <1>1
  DEF Start, DeviceInv, TypeOK, OneSwitch, WorksWhenReady, SwitchInv, WholeInv,
      ConfigureInv
<1>2. CASE OpenSpi
  BY <1>2
  DEF OpenSpi, DeviceInv, TypeOK, OneSwitch, WorksWhenReady, SwitchInv,
      WholeInv, ConfigureInv
<1>3. CASE Constructed
  BY <1>3
  DEF Constructed, Lines, Outputs, DeviceInv, TypeOK, OneSwitch,
      WorksWhenReady, SwitchInv, WholeInv, ConfigureInv
<1>4. CASE InstallHandlers
  BY <1>4
  DEF InstallHandlers, DeviceInv, TypeOK, OneSwitch, WorksWhenReady, SwitchInv,
      WholeInv, ConfigureInv
<1>5. CASE Serve
  BY <1>5
  DEF Serve, DeviceInv, TypeOK, OneSwitch, WorksWhenReady, SwitchInv, WholeInv,
      ConfigureInv
<1>6. CASE Configure
  BY <1>6
  DEF Configure, DeviceInv, TypeOK, OneSwitch, WorksWhenReady, SwitchInv,
      WholeInv, ConfigureInv
<1>7. CASE Undo
  BY <1>7
  DEF Undo, Destroy, Lines, Outputs, DeviceInv, TypeOK, OneSwitch,
      WorksWhenReady, SwitchInv, WholeInv, ConfigureInv
<1>8. CASE ResetLow
  <2>1. Write("nrst", 0)
    BY <1>8 DEF ResetLow
  <2>2. "nrst" \in Outputs /\ 0 \in {0, 1}
    BY DEF Outputs
  <2>3. /\ level' \in Levels
        /\ level'["nrst"] = 0
        /\ \A other \in Outputs \ {"nrst"} : level'[other] = level[other]
        /\ spi' = spi
        /\ held' = held
    BY <2>1, <2>2, WritePin DEF DeviceInv, TypeOK
  <2> QED
    BY <1>8, <2>3
    DEF ResetLow, Outputs, DeviceInv, TypeOK, OneSwitch, WorksWhenReady,
        SwitchInv, WholeInv, ConfigureInv
<1>9. CASE ResetHigh
  <2>1. Write("nrst", 1)
    BY <1>9 DEF ResetHigh
  <2>2. "nrst" \in Outputs /\ 1 \in {0, 1}
    BY DEF Outputs
  <2>3. /\ level' \in Levels
        /\ level'["nrst"] = 1
        /\ \A other \in Outputs \ {"nrst"} : level'[other] = level[other]
        /\ spi' = spi
        /\ held' = held
    BY <2>1, <2>2, WritePin DEF DeviceInv, TypeOK
  <2> QED
    BY <1>9, <2>3
    DEF ResetHigh, Outputs, DeviceInv, TypeOK, OneSwitch, WorksWhenReady,
        SwitchInv, WholeInv, ConfigureInv
<1>10. CASE RxenOff
  <2>1. Write("rxen", 0)
    BY <1>10 DEF RxenOff
  <2>2. "rxen" \in Outputs /\ 0 \in {0, 1}
    BY DEF Outputs
  <2>3. /\ level' \in Levels
        /\ level'["rxen"] = 0
        /\ \A other \in Outputs \ {"rxen"} : level'[other] = level[other]
        /\ spi' = spi
        /\ held' = held
    BY <2>1, <2>2, WritePin DEF DeviceInv, TypeOK
  <2> QED
    BY <1>10, <2>3
    DEF RxenOff, Outputs, DeviceInv, TypeOK, OneSwitch, WorksWhenReady,
        SwitchInv, WholeInv, ConfigureInv
<1>11. CASE TxenOff
  <2>1. Write("txen", 0)
    BY <1>11 DEF TxenOff
  <2>2. "txen" \in Outputs /\ 0 \in {0, 1}
    BY DEF Outputs
  <2>3. /\ level' \in Levels
        /\ level'["txen"] = 0
        /\ \A other \in Outputs \ {"txen"} : level'[other] = level[other]
        /\ spi' = spi
        /\ held' = held
    BY <2>1, <2>2, WritePin DEF DeviceInv, TypeOK
  <2> QED
    BY <1>11, <2>3
    DEF TxenOff, Outputs, DeviceInv, TypeOK, OneSwitch, WorksWhenReady,
        SwitchInv, WholeInv, ConfigureInv
<1>12. CASE SwitchOn
  <2>1. CASE mode = "off"
    BY <1>12, <2>1
    DEF SwitchOn, DeviceInv, TypeOK, OneSwitch, WorksWhenReady, SwitchInv,
        WholeInv, ConfigureInv
  <2>2. CASE mode = "rx"
    <3>1. Write("rxen", 1)
      BY <1>12, <2>2 DEF SwitchOn
    <3>2. "rxen" \in Outputs /\ 1 \in {0, 1}
      BY DEF Outputs
    <3>3. /\ level' \in Levels
          /\ \A other \in Outputs \ {"rxen"} : level'[other] = level[other]
          /\ spi' = spi
          /\ held' = held
      BY <3>1, <3>2, WritePin DEF DeviceInv, TypeOK
    <3> QED
      BY <1>12, <3>3
      DEF SwitchOn, Outputs, DeviceInv, TypeOK, OneSwitch, WorksWhenReady,
          SwitchInv, WholeInv, ConfigureInv
  <2>3. CASE mode = "tx"
    <3>1. Write("txen", 1)
      BY <1>12, <2>3 DEF SwitchOn
    <3>2. "txen" \in Outputs /\ 1 \in {0, 1}
      BY DEF Outputs
    <3>3. /\ level' \in Levels
          /\ \A other \in Outputs \ {"txen"} : level'[other] = level[other]
          /\ spi' = spi
          /\ held' = held
      BY <3>1, <3>2, WritePin DEF DeviceInv, TypeOK
    <3> QED
      BY <1>12, <3>3
      DEF SwitchOn, Outputs, DeviceInv, TypeOK, OneSwitch, WorksWhenReady,
          SwitchInv, WholeInv, ConfigureInv
  <2> QED
    BY <2>1, <2>2, <2>3 DEF DeviceInv, TypeOK, Modes
<1>13. CASE \E l \in Lines : RequestLine(l)
  BY <1>13, RequestKeeps
<1>14. CASE \E m \in Modes : SetAntenna(m)
  BY <1>14
  DEF SetAntenna, DeviceInv, TypeOK, OneSwitch, WorksWhenReady, SwitchInv,
      WholeInv, ConfigureInv
<1>15. CASE UsesNullLine
  <2>1. Ends /\ trouble' \in 0 .. MaxTrouble
    BY <1>15 DEF UsesNullLine, DeviceInv, TypeOK
  <2> QED
    BY <2>1, EndsKeeps
<1>16. CASE Leave
  <2>1. Ends /\ trouble' \in 0 .. MaxTrouble
    BY <1>16 DEF Leave, DeviceInv, TypeOK
  <2> QED
    BY <2>1, EndsKeeps
<1>17. CASE Kill
  <2>1. Ends /\ Trouble
    BY <1>17 DEF Kill
  <2> QED
    BY <2>1, EndsKeeps, TroubleCounts DEF DeviceInv
<1>18. CASE OpenSpiFails
  <2>1. Ends /\ Trouble
    BY <1>18 DEF OpenSpiFails
  <2> QED
    BY <2>1, EndsKeeps, TroubleCounts DEF DeviceInv
<1>19. CASE GetLinesFails
  <2>1. Ends /\ Trouble
    BY <1>19 DEF GetLinesFails
  <2> QED
    BY <2>1, EndsKeeps, TroubleCounts DEF DeviceInv
<1>20. CASE \E s \in StopSignals : Signal(s)
  <2> PICK s \in StopSignals : Signal(s)
    BY <1>20
  <2>1. trouble' \in 0 .. MaxTrouble
    BY TroubleCounts DEF Signal, DeviceInv
  <2>2. CASE handlers' = handlers \ {s} /\ stop_requested' = TRUE
             /\ UNCHANGED <<phase, device, mode>>
    BY <2>1, <2>2
    DEF DeviceInv, TypeOK, OneSwitch, WorksWhenReady, SwitchInv, WholeInv,
        ConfigureInv
  <2>3. CASE Ends
    BY <2>1, <2>3, EndsKeeps
  <2> QED
    BY <2>2, <2>3 DEF Signal
<1>21. CASE GpioFails
  <2>1. trouble' \in 0 .. MaxTrouble
    BY <1>21, TroubleCounts DEF GpioFails, DeviceInv
  <2> QED
    BY <1>21, <2>1
    DEF GpioFails, Lines, Outputs, DeviceInv, TypeOK, OneSwitch,
        WorksWhenReady, SwitchInv, WholeInv, ConfigureInv
<1>22. CASE ConfigureFails
  <2>1. trouble' \in 0 .. MaxTrouble
    BY <1>22, TroubleCounts DEF ConfigureFails, DeviceInv
  <2> QED
    BY <1>22, <2>1
    DEF ConfigureFails, DeviceInv, TypeOK, OneSwitch, WorksWhenReady,
        SwitchInv, WholeInv, ConfigureInv
<1>23. CASE SwitchFails
  <2>1. trouble' \in 0 .. MaxTrouble
    BY <1>23, TroubleCounts DEF SwitchFails, DeviceInv
  <2> QED
    BY <1>23, <2>1
    DEF SwitchFails, DeviceInv, TypeOK, OneSwitch, WorksWhenReady, SwitchInv,
        WholeInv, ConfigureInv
<1>24. CASE LoopFails
  <2>1. trouble' \in 0 .. MaxTrouble
    BY <1>24, TroubleCounts DEF LoopFails, DeviceInv
  <2> QED
    BY <1>24, <2>1
    DEF LoopFails, DeviceInv, TypeOK, OneSwitch, WorksWhenReady, SwitchInv,
        WholeInv, ConfigureInv
<1>25. CASE UNCHANGED vars
  BY <1>25
  DEF vars, DeviceInv, TypeOK, OneSwitch, WorksWhenReady, SwitchInv, WholeInv,
      ConfigureInv
<1> QED
  BY <1>1, <1>2, <1>3, <1>4, <1>5, <1>6, <1>7, <1>8, <1>9, <1>10, <1>11,
     <1>12, <1>13, <1>14, <1>15, <1>16, <1>17, <1>18, <1>19, <1>20, <1>21,
     <1>22, <1>23, <1>24, <1>25
  DEF Next, Steps, Faults, Board

\* The board has all of its lines or none, and every variable a value of its
\* kind (sx126x_board_rpi.c:56-134).
THEOREM TypeCorrect == Spec => []TypeOK
<1>1. DeviceInv => TypeOK
  BY DEF DeviceInv
<1> QED
  BY DeviceInit, DeviceStep, <1>1, PTL DEF Spec

\* Receiver and transmitter are never both switched to the antenna
\* (sx126x_board_rpi.c:303-339).
THEOREM SwitchSafe == Spec => []OneSwitch
<1>1. DeviceInv => OneSwitch
  BY DEF DeviceInv
<1> QED
  BY DeviceInit, DeviceStep, <1>1, PTL DEF Spec

\* The loop runs on a whole and configured device only
\* (server.c:136-164, 872-881).
THEOREM LoopReady == Spec => []WorksWhenReady
<1>1. DeviceInv => WorksWhenReady
  BY DEF DeviceInv
<1> QED
  BY DeviceInit, DeviceStep, <1>1, PTL DEF Spec

=============================================================================
