------------------------- MODULE RadioServerProofs --------------------------
(***************************************************************************)
(* Proofs about RadioServer, for every set of cookies, every set of powers *)
(* and every setting of the limits.                                        *)
(***************************************************************************)
EXTENDS RadioServer, TLAPS

\* The in_progress slot is taken exactly while _wait_for_tx runs.
InFlight == OnAir <=> tx_cookie_in_progress # NoCookie

TypeInv == TypeOK /\ InFlight

\* Since the server last spoke, the count never fell below Left; when the air
\* is being judged it is already past the window.
SilenceInv ==
  tx_since_rx =>
    /\ rx_timeout_count >= Left
    /\ pc = "decide" => rx_timeout_count > Left

\* The waiting cookie and the buffer agree, and the chip got what the buffer
\* held when the cookie moved to in_progress.
BufferInv ==
  /\ tx_cookie_wait # NoCookie => tx_buffer \in {tx_cookie_wait, Zeros}
  /\ NoForeignPayload

\* Without power requests and malformed messages the agreement is exact, and
\* outcomes are copied from it.
SentInv ==
  garbled = 0 =>
    /\ tx_cookie_wait # NoCookie => tx_buffer = tx_cookie_wait
    /\ OnAir => chip_payload = tx_cookie_in_progress
    /\ tx_cookie_sent \in radiated \cup {NoCookie}
    /\ SentMeansRadiated

\* Where the last power request is, and when the chip has the power.
PowerInv ==
  /\ garbled = 0 =>
       /\ PowerPending => pa_request = last_pa
       /\ ~PowerPending /\ last_pa >= 0 => pa_power = last_pa
  /\ pc \notin {"again", "stopped", "dead"} => chip_pa = pa_power

\* As long as the flag is down, the last report holds; it is always down when
\* the radio is looked at.
ReportInv ==
  /\ ~tx_cookies_updated => uplink_state = TxFields
  /\ pc \in {"poll", "decide"} => ~tx_cookies_updated

\* A frame is in the socket once.
QueuedOnce ==
  \A i, j \in DOMAIN sub_socket :
    /\ sub_socket[i] = sub_socket[j]
    /\ sub_socket[i] \in {FrameMsg(c) : c \in Cookies}
    => i = j

AccountInv == FrameAccounting /\ (garbled = 0 => QueuedOnce)

-----------------------------------------------------------------------------
(* Type correctness.                                                       *)

UplinkStates == [wait : AnyCookie, in_progress : AnyCookie, sent : AnyCookie,
                 dropped : AnyCookie]

LEMMA FieldsType ==
  ASSUME tx_cookie_wait \in AnyCookie, tx_cookie_in_progress \in AnyCookie,
         tx_cookie_sent \in AnyCookie, tx_cookie_dropped \in AnyCookie
  PROVE  TxFields \in UplinkStates
BY DEF TxFields, UplinkStates

LEMMA TypeInit == Init => TypeInv
<1> SUFFICES ASSUME Init PROVE TypeInv
  OBVIOUS
<1>1. TxFields \in UplinkStates
  BY FieldsType DEF Init, AnyCookie
<1>2. rx_timeout_count \in 0 .. Zabey + 1
  BY RadioAssumption DEF Init
<1>3. sub_socket \in Seq(Messages)
  BY DEF Init
<1> QED
  BY <1>1, <1>2, <1>3 DEF Init, TypeInv, TypeOK, InFlight, OnAir, States,
     AnyCookie, Zeros, NoRequest, UplinkStates

\* What the messages carry is what the server may store.
LEMMA ReceivedTypes ==
  ASSUME TypeOK, sub_socket # <<>>
  PROVE  /\ Head(sub_socket) \in Messages
         /\ Tail(sub_socket) \in Seq(Messages)
BY DEF TypeOK

LEMMA TypeStep == TypeInv /\ [Next]_vars => TypeInv'
<1> SUFFICES ASSUME TypeInv, [Next]_vars PROVE TypeInv'
  OBVIOUS
<1> USE RadioAssumption DEF TypeInv, TypeOK, InFlight, OnAir, States
<1>1. ASSUME NEW m \in Messages, Deliver(m), offered' \subseteq Cookies
      PROVE  TypeInv'
  BY <1>1 DEF Deliver, cookieVars, paVars, chipVars, fateVars, seenVars
<1>2. CASE \E c \in Cookies : OfferFrame(c)
  BY <1>1, <1>2 DEF OfferFrame, Messages
<1>3. CASE \E p \in PaPowers : RequestPower(p)
  BY <1>1, <1>3 DEF RequestPower, Messages
<1>4. CASE SendJunk
  BY <1>1, <1>4 DEF SendJunk, Messages
<1>5. CASE RequestStop
  BY <1>5 DEF RequestStop, cookieVars, paVars, chipVars, busVars, fateVars,
     seenVars
<1> USE DEF quiet, cookieVars, paVars, chipVars, busVars, fateVars, seenVars
<1>6. CASE Stop
  BY <1>6 DEF Stop
<1>7. CASE ConfigureOk \/ ConfigureFail
  BY <1>7 DEF ConfigureOk, ConfigureFail, Zeros, AnyCookie
<1>8. CASE BeginRx \/ BeginRxFail
  BY <1>8 DEF BeginRx, BeginRxFail
<1>9. CASE LoadTx
  <2>1. CASE NoMessage
    BY <2>1 DEF NoMessage
  <2>2. ASSUME NEW c \in Cookies, LoadFrame(c) PROVE TypeInv'
    BY <2>2, ReceivedTypes
    DEF LoadFrame, Receive, TakeFrame, idle, Waiting, AnyCookie
  <2>3. ASSUME NEW p \in PaPowers, LoadPower(p) PROVE TypeInv'
    <3>1. sub_socket' \in Seq(Messages) /\ Zeros \in AnyCookie
      BY <2>3, ReceivedTypes DEF LoadPower, Receive, Zeros, AnyCookie
    <3> QED BY <2>3, <3>1 DEF LoadPower, Receive, TakePower, idle
  <2>4. CASE LoadJunk
    <3>1. /\ sub_socket' \in Seq(Messages)
          /\ Zeros \in AnyCookie
          /\ garbled' \in Nat
      BY <2>4, ReceivedTypes DEF LoadJunk, Receive, Zeros, AnyCookie
    <3>2. Waiting(tx_cookie_wait) \subseteq Cookies
      BY DEF Waiting, AnyCookie
    <3> QED
      BY <2>4, <3>1, <3>2 DEF LoadJunk, Receive, TakeFrame, TakePower, idle
  <2> QED BY <1>9, <2>1, <2>2, <2>3, <2>4 DEF LoadTx
<1>10. CASE ReportTxState \/ SkipReport
  BY <1>10, FieldsType DEF ReportTxState, SkipReport, reported, UplinkStates
<1>11. CASE PollNothing \/ RxPacket \/ RxTimeout \/ RxError
  <2>1. rx_timeout_count' \in 0 .. Zabey + 1
    BY <1>11 DEF PollNothing, RxPacket, RxTimeout, RxError, NextTimeoutCount
  <2> QED BY <1>11, <2>1 DEF PollNothing, RxPacket, RxTimeout, RxError
<1>12. CASE NothingToSend
  BY <1>12 DEF NothingToSend
<1>13. CASE BeginTx \/ BeginTxFail
  <2>1. /\ NextPower \in PaPowers \cup {PaDefault}
        /\ NoRequest \in PaPowers \cup {NoRequest}
    BY DEF NextPower, PowerPending, NoRequest
  <2>2. tx_cookie_wait \in Cookies /\ NoCookie \in AnyCookie
    BY <1>13 DEF BeginTx, BeginTxFail, ReadyToSend, AnyCookie
  <2>3. CASE BeginTx
    BY <2>1, <2>2, <2>3 DEF BeginTx, ReadyToSend, ApplyPower
  <2>4. CASE BeginTxFail
    BY <2>1, <2>2, <2>4 DEF BeginTxFail, ReadyToSend, ApplyPower
  <2> QED BY <1>13, <2>3, <2>4
<1>14. CASE TxEnds
  BY <1>14 DEF TxEnds, TxDone, TxTimedOut, TxError, DropInProgress, sending,
     AnyCookie
<1>15. CASE UNCHANGED vars
  BY <1>15 DEF vars
<1> QED
  BY <1>2, <1>3, <1>4, <1>5, <1>6, <1>7, <1>8, <1>9, <1>10, <1>11, <1>12,
     <1>13, <1>14, <1>15
  DEF Next, Server, Work, Environment, RxEnds, Stopped

LEMMA TypeInvariant == Spec => []TypeInv
BY TypeInit, TypeStep, PTL DEF Spec

\* Every variable keeps to its kind for any set of cookies and any limits
\* (server.h:34-64, server.c:712-830).
THEOREM TypeCorrect == Spec => []TypeOK
<1>1. TypeInv => TypeOK
  BY DEF TypeInv
<1> QED BY <1>1, TypeInvariant, PTL

-----------------------------------------------------------------------------
(* One transmission per silence.                                           *)

\* Only BeginTx puts a frame on the air.
LEMMA OnlyBeginTx ==
  ASSUME [Next]_vars, TransmissionBegins
  PROVE  BeginTx
<1> USE DEF TransmissionBegins, cookieVars, quiet, idle, reported, sending
<1>1. ~Environment
  BY DEF Environment, OfferFrame, RequestPower, SendJunk, RequestStop, Deliver
<1>2. ~(Stop \/ ConfigureOk \/ ConfigureFail \/ BeginRx \/ BeginRxFail)
  BY DEF Stop, ConfigureOk, ConfigureFail, BeginRx, BeginRxFail
<1>3. ~(LoadTx \/ ReportTxState \/ SkipReport)
  BY DEF LoadTx, NoMessage, LoadFrame, LoadPower, LoadJunk, Receive,
     ReportTxState, SkipReport
<1>4. ~(PollNothing \/ RxEnds \/ NothingToSend)
  BY DEF PollNothing, RxEnds, RxPacket, RxTimeout, RxError, NothingToSend
<1>5. ~(BeginTxFail \/ TxEnds)
  BY DEF BeginTxFail, TxEnds, TxDone, TxTimedOut, TxError, DropInProgress
<1>6. ~(Stopped \/ UNCHANGED vars)
  BY DEF Stopped, vars
<1> QED BY <1>1, <1>2, <1>3, <1>4, <1>5, <1>6 DEF Next, Server, Work

LEMMA SilenceStep == TypeInv /\ SilenceInv /\ [Next]_vars => SilenceInv'
<1> SUFFICES ASSUME TypeInv, SilenceInv, [Next]_vars PROVE SilenceInv'
  OBVIOUS
<1> USE DEF SilenceInv
<1>1. /\ rx_timeout_count \in Int
      /\ Left \in Int /\ Zabey \in Int /\ Left <= Zabey
  BY RadioAssumption DEF TypeInv, TypeOK
<1>2. CASE RxPacket
  BY <1>2 DEF RxPacket
<1>3. CASE RxTimeout
  BY <1>1, <1>3 DEF RxTimeout, NextTimeoutCount, quiet, seenVars
<1>4. CASE BeginTx
  BY <1>1, <1>4 DEF BeginTx, ReadyToSend, ChannelFree
<1>5. CASE ~(RxPacket \/ RxTimeout \/ BeginTx)
  <2>1. /\ rx_timeout_count' = rx_timeout_count
        /\ tx_since_rx' = tx_since_rx
        /\ pc' = "decide" => pc = "decide"
    <3> USE DEF quiet, seenVars
    <3>1. CASE Environment
      BY <3>1 DEF Environment, OfferFrame, RequestPower, SendJunk, RequestStop,
         Deliver
    <3>2. CASE Stop \/ ConfigureOk \/ ConfigureFail \/ BeginRx \/ BeginRxFail
      BY <3>2 DEF Stop, ConfigureOk, ConfigureFail, BeginRx, BeginRxFail
    <3>3. CASE LoadTx \/ ReportTxState \/ SkipReport
      BY <3>3 DEF LoadTx, NoMessage, LoadFrame, LoadPower, LoadJunk, Receive,
         idle, ReportTxState, SkipReport, reported
    <3>4. CASE PollNothing \/ RxError \/ NothingToSend
      BY <3>4 DEF PollNothing, RxError, NothingToSend
    <3>5. CASE BeginTxFail \/ TxEnds
      BY <3>5 DEF BeginTxFail, TxEnds, TxDone, TxTimedOut, TxError,
         DropInProgress, sending
    <3>6. CASE Stopped \/ UNCHANGED vars
      BY <3>6 DEF Stopped, vars
    <3> QED
      BY <1>5, <3>1, <3>2, <3>3, <3>4, <3>5, <3>6 DEF Next, Server, Work, RxEnds
  <2> QED BY <2>1
<1> QED BY <1>2, <1>3, <1>4, <1>5

\* A second transmission without a packet heard in between comes only after
\* more than Zabey RX timeouts in a row (server.c:755-771).
THEOREM SpeaksOnce == Spec => OneTxPerSilence
<1>1. Init => SilenceInv
  BY DEF Init, SilenceInv
<1>2. TypeInv /\ SilenceInv /\ [Next]_vars
        => [TransmissionBegins => ~tx_since_rx \/ rx_timeout_count > Zabey]_vars
  <2> SUFFICES ASSUME TypeInv, SilenceInv, [Next]_vars, TransmissionBegins
               PROVE  ~tx_since_rx \/ rx_timeout_count > Zabey
    OBVIOUS
  <2>1. BeginTx
    BY OnlyBeginTx
  <2> QED
    BY <2>1, RadioAssumption
    DEF SilenceInv, BeginTx, ReadyToSend, ChannelFree, TypeInv, TypeOK
<1> QED
  BY <1>1, <1>2, SilenceStep, TypeInvariant, PTL DEF Spec, OneTxPerSilence

-----------------------------------------------------------------------------
(* Whose payload is radiated.                                              *)

LEMMA BufferStep == TypeInv /\ BufferInv /\ [Next]_vars => BufferInv'
<1> SUFFICES ASSUME TypeInv, BufferInv, [Next]_vars PROVE BufferInv'
  OBVIOUS
<1> USE DEF BufferInv, NoForeignPayload, OnAir, cookieVars, chipVars
<1>1. CASE Environment
  BY <1>1 DEF Environment, OfferFrame, RequestPower, SendJunk, RequestStop,
     Deliver
<1>2. CASE Stop \/ ConfigureOk \/ ConfigureFail \/ BeginRx \/ BeginRxFail
  BY <1>2 DEF Stop, ConfigureOk, ConfigureFail, BeginRx, BeginRxFail, quiet
<1>3. CASE LoadTx
  BY <1>3 DEF LoadTx, NoMessage, LoadFrame, LoadPower, LoadJunk, Receive,
     TakeFrame, idle, quiet
<1>4. CASE ReportTxState \/ SkipReport
  BY <1>4 DEF ReportTxState, SkipReport, reported
<1>5. CASE PollNothing \/ RxEnds \/ NothingToSend
  BY <1>5 DEF PollNothing, RxEnds, RxPacket, RxTimeout, RxError,
     NothingToSend, quiet
<1>6. CASE BeginTx \/ BeginTxFail
  BY <1>6 DEF BeginTx, BeginTxFail, ReadyToSend
<1>7. CASE TxEnds
  BY <1>7 DEF TxEnds, TxDone, TxTimedOut, TxError, DropInProgress, sending
<1>8. CASE Stopped \/ UNCHANGED vars
  BY <1>8 DEF Stopped, vars
<1> QED
  BY <1>1, <1>2, <1>3, <1>4, <1>5, <1>6, <1>7, <1>8 DEF Next, Server, Work

\* While a frame's cookie is in progress the chip holds that frame's payload
\* or zeros, never another frame's (server.c:177, 191-196, 624, 794).
THEOREM OwnPayload == Spec => []NoForeignPayload
<1>1. Init => BufferInv
  BY DEF Init, BufferInv, NoForeignPayload, OnAir
<1>2. BufferInv => NoForeignPayload
  BY DEF BufferInv
<1> QED BY <1>1, <1>2, BufferStep, TypeInvariant, PTL DEF Spec

LEMMA SentStep ==
  PaPowers = {} /\ TypeInv /\ SentInv /\ [Next]_vars => SentInv'
<1> SUFFICES ASSUME PaPowers = {}, TypeInv, SentInv, [Next]_vars
             PROVE  SentInv'
  OBVIOUS
<1> USE DEF SentInv, SentMeansRadiated, OnAir, cookieVars, chipVars, fateVars,
            seenVars
<1>1. CASE Environment
  BY <1>1 DEF Environment, OfferFrame, RequestPower, SendJunk, RequestStop,
     Deliver
<1>2. CASE Stop \/ ConfigureOk \/ ConfigureFail \/ BeginRx \/ BeginRxFail
  BY <1>2 DEF Stop, ConfigureOk, ConfigureFail, BeginRx, BeginRxFail, quiet
<1>3. CASE NoMessage \/ \E c \in Cookies : LoadFrame(c)
  BY <1>3 DEF NoMessage, LoadFrame, Receive, TakeFrame, idle, quiet
<1>4. CASE LoadJunk
  <2>1. garbled' # 0
    BY <1>4 DEF LoadJunk, TypeInv, TypeOK
  <2> QED BY <2>1
<1>5. CASE ReportTxState \/ SkipReport
  BY <1>5 DEF ReportTxState, SkipReport, reported, TxFields
<1>6. CASE PollNothing \/ RxEnds \/ NothingToSend
  BY <1>6 DEF PollNothing, RxEnds, RxPacket, RxTimeout, RxError,
     NothingToSend, quiet
<1>7. CASE BeginTx \/ BeginTxFail
  BY <1>7 DEF BeginTx, BeginTxFail, ReadyToSend
<1>8. CASE TxEnds
  BY <1>8 DEF TxEnds, TxDone, TxTimedOut, TxError, DropInProgress, sending
<1>9. CASE Stopped \/ UNCHANGED vars
  BY <1>9 DEF Stopped, vars
<1> QED
  BY <1>1, <1>2, <1>3, <1>4, <1>5, <1>6, <1>7, <1>8, <1>9
  DEF Next, Server, Work, LoadTx

\* Without power requests and malformed messages, what is published as sent
\* was radiated as itself (server.c:177-196, 624, 814); run
\* radio_power_wipes_frame is why the assumption is needed.
THEOREM SentWasRadiated ==
  ASSUME PaPowers = {}
  PROVE  Spec /\ [](garbled = 0) => []SentMeansRadiated
<1>1. Init => SentInv
  BY DEF Init, SentInv, SentMeansRadiated, OnAir, TxFields
<1>2. TypeInv /\ SentInv /\ [Next]_vars => SentInv'
  BY SentStep
<1>3. SentInv /\ garbled = 0 => SentMeansRadiated
  BY DEF SentInv
<1> QED BY <1>1, <1>2, <1>3, TypeInvariant, PTL DEF Spec

-----------------------------------------------------------------------------
(* The power of a transmission.                                            *)

LEMMA PowerStep ==
  TypeInv /\ PowerInv /\ [Next]_vars => PowerInv'
<1> SUFFICES ASSUME TypeInv, PowerInv, [Next]_vars
             PROVE  PowerInv'
  OBVIOUS
<1> USE DEF PowerInv, PowerPending, paVars, chipVars, seenVars
<1>1. CASE Environment
  BY <1>1 DEF Environment, OfferFrame, RequestPower, SendJunk, RequestStop,
     Deliver
<1>2. CASE Stop \/ ConfigureOk \/ ConfigureFail \/ BeginRx \/ BeginRxFail
  BY <1>2 DEF Stop, ConfigureOk, ConfigureFail, BeginRx, BeginRxFail, quiet
<1>3. CASE LoadTx
  <2>1. CASE NoMessage \/ \E c \in Cookies : LoadFrame(c)
    BY <2>1 DEF NoMessage, LoadFrame, Receive, idle, quiet
  <2>2. ASSUME NEW p \in PaPowers, LoadPower(p) PROVE PowerInv'
    <3>1. p \in Int
      BY RadioAssumption
    <3> QED BY <2>2, <3>1 DEF LoadPower, Receive, TakePower, idle
  <2>3. CASE LoadJunk
    <3>1. garbled' # 0
      BY <2>3 DEF LoadJunk, TypeInv, TypeOK
    <3> QED BY <2>3, <3>1 DEF LoadJunk, Receive, idle
  <2> QED BY <1>3, <2>1, <2>2, <2>3 DEF LoadTx
<1>4. CASE ReportTxState \/ SkipReport
  BY <1>4 DEF ReportTxState, SkipReport, reported
<1>5. CASE PollNothing \/ RxEnds \/ NothingToSend
  BY <1>5 DEF PollNothing, RxEnds, RxPacket, RxTimeout, RxError,
     NothingToSend, quiet
<1>6. CASE BeginTx \/ BeginTxFail
  BY <1>6 DEF BeginTx, BeginTxFail, ReadyToSend, ApplyPower, NextPower,
     NoRequest
<1>7. CASE TxEnds
  BY <1>7 DEF TxEnds, TxDone, TxTimedOut, TxError, DropInProgress, sending
<1>8. CASE Stopped \/ UNCHANGED vars
  BY <1>8 DEF Stopped, vars
<1> QED
  BY <1>1, <1>2, <1>3, <1>4, <1>5, <1>6, <1>7, <1>8 DEF Next, Server, Work

\* A transmission begins with the power requested last, across errors and
\* restarts of the loop, unless that was negative (server.c:609-622).
THEOREM PowerKept == Spec => PowerHonoured
<1>1. Init => PowerInv
  BY DEF Init, PowerInv, PowerPending, NoRequest
<1>2. TypeInv /\ PowerInv /\ [Next]_vars => PowerInv'
  BY PowerStep
<1>3. TypeInv /\ PowerInv /\ [Next]_vars
        => [TransmissionBegins /\ garbled = 0 =>
              chip_pa' = IF last_pa >= 0 THEN last_pa ELSE pa_power]_vars
  <2> SUFFICES ASSUME TypeInv, PowerInv, [Next]_vars, TransmissionBegins,
                      garbled = 0
               PROVE  chip_pa' = IF last_pa >= 0 THEN last_pa ELSE pa_power
    OBVIOUS
  <2>1. BeginTx
    BY OnlyBeginTx
  <2> QED
    BY <2>1 DEF PowerInv, PowerPending, BeginTx, ReadyToSend, NextPower
<1> QED
  BY <1>1, <1>2, <1>3, TypeInvariant, PTL DEF Spec, PowerHonoured

-----------------------------------------------------------------------------
(* What the bus is told, when no power requests clear the flag.            *)

LEMMA ReportStep == PaPowers = {} /\ ReportInv /\ [Next]_vars => ReportInv'
<1> SUFFICES ASSUME PaPowers = {}, ReportInv, [Next]_vars PROVE ReportInv'
  OBVIOUS
<1> USE DEF ReportInv, TxFields, cookieVars
<1>1. CASE Environment
  BY <1>1 DEF Environment, OfferFrame, RequestPower, SendJunk, RequestStop,
     Deliver
<1>2. CASE Stop \/ ConfigureOk \/ ConfigureFail \/ BeginRx \/ BeginRxFail
  BY <1>2 DEF Stop, ConfigureOk, ConfigureFail, BeginRx, BeginRxFail, quiet
<1>3. CASE LoadTx
  BY <1>3 DEF LoadTx, NoMessage, LoadFrame, LoadPower, LoadJunk, Receive,
     TakeFrame, idle, quiet
<1>4. CASE ReportTxState \/ SkipReport
  BY <1>4 DEF ReportTxState, SkipReport, reported
<1>5. CASE PollNothing \/ RxEnds \/ NothingToSend
  BY <1>5 DEF PollNothing, RxEnds, RxPacket, RxTimeout, RxError,
     NothingToSend, quiet
<1>6. CASE BeginTx \/ BeginTxFail
  BY <1>6 DEF BeginTx, BeginTxFail
<1>7. CASE TxEnds
  BY <1>7 DEF TxEnds, TxDone, TxTimedOut, TxError, DropInProgress
<1>8. CASE Stopped \/ UNCHANGED vars
  BY <1>8 DEF Stopped, vars
<1> QED
  BY <1>1, <1>2, <1>3, <1>4, <1>5, <1>6, <1>7, <1>8 DEF Next, Server, Work

LEMMA ReportInvariant ==
  ASSUME PaPowers = {}
  PROVE  Spec => []ReportInv
<1>1. Init => ReportInv
  BY DEF Init, ReportInv
<1>2. ReportInv /\ [Next]_vars => ReportInv'
  BY ReportStep
<1> QED BY <1>1, <1>2, PTL DEF Spec

\* Without power requests the last report tells the truth whenever the radio
\* is looked at (server.c:476-481).  With them it is false: a power request
\* takes down the flag that an outcome has just set.
THEOREM ReportsTrue ==
  ASSUME PaPowers = {}
  PROVE  Spec => []ReportUpToDate
<1>1. ReportInv => ReportUpToDate
  BY DEF ReportInv, ReportUpToDate
<1> QED BY <1>1, ReportInvariant, PTL

\* Without power requests no outcome is overwritten before it was published
\* (server.c:785-824 against 476-481).
THEOREM NoOutcomeLost ==
  ASSUME PaPowers = {}
  PROVE  Spec => OutcomesReported
<1> DEFINE Told ==
      /\ tx_cookie_sent' # tx_cookie_sent
            => uplink_state.sent = tx_cookie_sent
      /\ tx_cookie_dropped' # tx_cookie_dropped
            => uplink_state.dropped = tx_cookie_dropped
<1>1. ReportInv /\ [Next]_vars => [Told]_vars
  <2> SUFFICES ASSUME ReportInv, [Next]_vars PROVE Told
    OBVIOUS
  <2>1. CASE pc \in {"poll", "decide"}
    BY <2>1 DEF ReportInv, TxFields
  <2>2. CASE pc \notin {"poll", "decide"}
    <3>1. UNCHANGED <<tx_cookie_sent, tx_cookie_dropped>>
      <4> USE <2>2 DEF cookieVars
      <4>1. CASE Environment
        BY <4>1 DEF Environment, OfferFrame, RequestPower, SendJunk,
           RequestStop, Deliver
      <4>2. CASE Stop \/ ConfigureOk \/ ConfigureFail \/ BeginRx \/ BeginRxFail
        BY <4>2 DEF Stop, ConfigureOk, ConfigureFail, BeginRx, BeginRxFail,
           quiet
      <4>3. CASE LoadTx \/ ReportTxState \/ SkipReport
        BY <4>3 DEF LoadTx, NoMessage, LoadFrame, LoadPower, LoadJunk, Receive,
           idle, quiet, ReportTxState, SkipReport, reported
      <4>4. ~(PollNothing \/ RxEnds \/ NothingToSend)
        BY DEF PollNothing, RxEnds, RxPacket, RxTimeout, RxError,
           NothingToSend
      <4>5. ~(BeginTx \/ BeginTxFail \/ TxEnds)
        BY DEF BeginTx, BeginTxFail, ReadyToSend, TxEnds, TxDone, TxTimedOut,
           TxError, DropInProgress
      <4>6. CASE Stopped \/ UNCHANGED vars
        BY <4>6 DEF Stopped, vars
      <4> QED
        BY <4>1, <4>2, <4>3, <4>4, <4>5, <4>6 DEF Next, Server, Work
    <3> QED BY <3>1
  <2> QED BY <2>1, <2>2
<1> QED
  BY <1>1, ReportInvariant, PTL DEF Spec, OutcomesReported

-----------------------------------------------------------------------------
(* Every offered frame is in exactly one place.                            *)

FrameMsgs == {FrameMsg(c) : c \in Cookies}

\* Whose frame a message is.
CarriedBy(m) == {c \in Cookies : m = FrameMsg(c)}

LEMMA MessageKinds ==
  /\ \A c, d : FrameMsg(c) = FrameMsg(d) => c = d
  /\ \A c, p : FrameMsg(c) # PowerMsg(p)
  /\ \A c : FrameMsg(c) # JunkMsg
<1>1. /\ \A c : FrameMsg(c).kind = "frame" /\ FrameMsg(c).cookie = c
      /\ \A p : PowerMsg(p).kind = "pa"
      /\ JunkMsg.kind = "junk"
  BY DEF FrameMsg, PowerMsg, JunkMsg
<1> QED BY <1>1

LEMMA QueueAppend ==
  ASSUME sub_socket \in Seq(Messages), NEW m \in Messages,
         sub_socket' = Append(sub_socket, m)
  PROVE  /\ Queued' = Queued \cup CarriedBy(m)
         /\ QueuedOnce /\ CarriedBy(m) \cap Queued = {} => QueuedOnce'
<1>1. /\ DOMAIN sub_socket' = 1 .. Len(sub_socket) + 1
      /\ DOMAIN sub_socket = 1 .. Len(sub_socket)
      /\ Len(sub_socket) \in Nat
      /\ \A i \in DOMAIN sub_socket : sub_socket'[i] = sub_socket[i]
      /\ sub_socket'[Len(sub_socket) + 1] = m
  OBVIOUS
<1>2. \A i \in DOMAIN sub_socket' :
         i \in DOMAIN sub_socket \/ i = Len(sub_socket) + 1
  BY <1>1
<1>3. /\ DOMAIN sub_socket \subseteq DOMAIN sub_socket'
      /\ Len(sub_socket) + 1 \in DOMAIN sub_socket'
  BY <1>1
<1>4. Queued' = Queued \cup CarriedBy(m)
  <2>1. ASSUME NEW c \in Cookies
        PROVE  (\E i \in DOMAIN sub_socket' : sub_socket'[i] = FrameMsg(c))
               <=> (\E i \in DOMAIN sub_socket : sub_socket[i] = FrameMsg(c))
                   \/ m = FrameMsg(c)
    BY <1>1, <1>2, <1>3
  <2> QED BY <2>1 DEF Queued, CarriedBy
<1>5. ASSUME QueuedOnce, CarriedBy(m) \cap Queued = {} PROVE QueuedOnce'
  <2> SUFFICES ASSUME NEW i \in DOMAIN sub_socket', NEW j \in DOMAIN sub_socket',
                      sub_socket'[i] = sub_socket'[j],
                      NEW c \in Cookies, sub_socket'[i] = FrameMsg(c)
               PROVE  i = j
    BY DEF QueuedOnce
  <2>1. CASE i \in DOMAIN sub_socket /\ j \in DOMAIN sub_socket
    BY <1>1, <1>5, <2>1 DEF QueuedOnce
  <2>2. CASE c \in CarriedBy(m)
    BY <1>1, <1>2, <1>5, <2>2 DEF CarriedBy, Queued
  <2>3. CASE c \notin CarriedBy(m)
    BY <1>1, <1>2, <2>1, <2>3 DEF CarriedBy
  <2> QED BY <2>2, <2>3
<1> QED BY <1>4, <1>5

LEMMA QueueTail ==
  ASSUME sub_socket \in Seq(Messages), sub_socket # <<>>,
         sub_socket' = Tail(sub_socket)
  PROVE  /\ Queued = Queued' \cup CarriedBy(Head(sub_socket))
         /\ QueuedOnce => /\ QueuedOnce'
                          /\ CarriedBy(Head(sub_socket)) \cap Queued' = {}
<1>1. /\ DOMAIN sub_socket = 1 .. Len(sub_socket)
      /\ Len(sub_socket) \in Nat /\ Len(sub_socket) # 0
      /\ DOMAIN sub_socket' = 1 .. Len(sub_socket) - 1
      /\ \A i \in DOMAIN sub_socket' : sub_socket'[i] = sub_socket[i + 1]
      /\ Head(sub_socket) = sub_socket[1]
  OBVIOUS
<1>2. \A i \in DOMAIN sub_socket : i = 1 \/ i - 1 \in DOMAIN sub_socket'
  BY <1>1
<1>3. \A i \in DOMAIN sub_socket' :
         i \in Int /\ i + 1 \in DOMAIN sub_socket /\ i + 1 # 1
  BY <1>1
<1>4. \A i \in DOMAIN sub_socket : i # 1 => sub_socket[i] = sub_socket'[i - 1]
  BY <1>1, <1>2
<1>5. 1 \in DOMAIN sub_socket
  BY <1>1
<1>6. ASSUME NEW c \in Cookies
      PROVE  (\E i \in DOMAIN sub_socket : sub_socket[i] = FrameMsg(c))
             <=> (\E i \in DOMAIN sub_socket' : sub_socket'[i] = FrameMsg(c))
                 \/ Head(sub_socket) = FrameMsg(c)
  <2>1. ASSUME NEW i \in DOMAIN sub_socket, sub_socket[i] = FrameMsg(c)
        PROVE  (\E k \in DOMAIN sub_socket' : sub_socket'[k] = FrameMsg(c))
               \/ Head(sub_socket) = FrameMsg(c)
    BY <1>1, <1>2, <1>4, <2>1
  <2>2. ASSUME NEW i \in DOMAIN sub_socket', sub_socket'[i] = FrameMsg(c)
        PROVE  \E k \in DOMAIN sub_socket : sub_socket[k] = FrameMsg(c)
    BY <1>1, <1>3, <2>2
  <2> QED BY <2>1, <2>2, <1>1, <1>5
<1>7. Queued = Queued' \cup CarriedBy(Head(sub_socket))
  BY <1>6 DEF Queued, CarriedBy
<1>8. ASSUME QueuedOnce
      PROVE  /\ QueuedOnce'
             /\ CarriedBy(Head(sub_socket)) \cap Queued' = {}
  <2>1. ASSUME NEW i \in DOMAIN sub_socket', NEW j \in DOMAIN sub_socket',
               sub_socket'[i] = sub_socket'[j],
               NEW c \in Cookies, sub_socket'[i] = FrameMsg(c)
        PROVE  i = j
    <3>1. i + 1 = j + 1
      BY <1>1, <1>3, <1>8, <2>1 DEF QueuedOnce
    <3> QED BY <1>3, <3>1
  <2>2. ASSUME NEW c \in Cookies, Head(sub_socket) = FrameMsg(c),
               NEW i \in DOMAIN sub_socket', sub_socket'[i] = FrameMsg(c)
        PROVE  FALSE
    BY <1>1, <1>3, <1>5, <1>8, <2>2 DEF QueuedOnce
  <2> QED BY <2>1, <2>2 DEF QueuedOnce, Queued, CarriedBy
<1> QED BY <1>7, <1>8

\* Steps that move no frame.
LEMMA AccountKept ==
  ASSUME AccountInv, UNCHANGED <<sub_socket, offered, tx_cookie_wait,
           tx_cookie_in_progress, all_sent, all_dropped, superseded>>,
         garbled' = garbled
  PROVE  AccountInv'
BY DEF AccountInv, FrameAccounting, Queued, QueuedOnce, Fated, Waiting

LEMMA AccountDeliver ==
  ASSUME TypeInv, AccountInv, NEW m \in Messages, Deliver(m),
         CarriedBy(m) \cap offered = {}, offered' = offered \cup CarriedBy(m)
  PROVE  AccountInv'
<1>1. /\ Queued' = Queued \cup CarriedBy(m)
      /\ QueuedOnce /\ CarriedBy(m) \cap Queued = {} => QueuedOnce'
  BY QueueAppend DEF Deliver, TypeInv, TypeOK
<1>2. UNCHANGED <<tx_cookie_wait, tx_cookie_in_progress, all_sent, all_dropped,
                  superseded, garbled>>
  BY DEF Deliver, cookieVars, fateVars, seenVars
<1> QED
  BY <1>1, <1>2 DEF AccountInv, FrameAccounting, Fated, Waiting

LEMMA CarriedByKinds ==
  /\ \A c \in Cookies : CarriedBy(FrameMsg(c)) = {c}
  /\ \A p : CarriedBy(PowerMsg(p)) = {}
  /\ CarriedBy(JunkMsg) = {}
BY MessageKinds DEF CarriedBy

LEMMA AccountStep == TypeInv /\ AccountInv /\ [Next]_vars => AccountInv'
<1> SUFFICES ASSUME TypeInv, AccountInv, [Next]_vars PROVE AccountInv'
  OBVIOUS
<1> USE DEF cookieVars, busVars, fateVars, seenVars
<1>1. ASSUME NEW c \in Cookies, OfferFrame(c) PROVE AccountInv'
  BY <1>1, AccountDeliver, CarriedByKinds DEF OfferFrame, Messages
<1>2. ASSUME NEW p \in PaPowers, RequestPower(p) PROVE AccountInv'
  BY <1>2, AccountDeliver, CarriedByKinds DEF RequestPower, Messages
<1>3. CASE SendJunk
  BY <1>3, AccountDeliver, CarriedByKinds DEF SendJunk, Messages
<1>4. CASE RequestStop
  BY <1>4, AccountKept DEF RequestStop
<1>5. CASE Stop \/ ConfigureOk \/ ConfigureFail \/ BeginRx \/ BeginRxFail
  BY <1>5, AccountKept
  DEF Stop, ConfigureOk, ConfigureFail, BeginRx, BeginRxFail, quiet
<1>6. CASE NoMessage
  BY <1>6, AccountKept DEF NoMessage, quiet
<1>7. ASSUME NEW c \in Cookies, LoadFrame(c) PROVE AccountInv'
  <2>1. /\ Queued = Queued' \cup {c}
        /\ QueuedOnce => QueuedOnce' /\ c \notin Queued'
    BY <1>7, QueueTail, CarriedByKinds
    DEF LoadFrame, Receive, TypeInv, TypeOK
  <2>2. /\ tx_cookie_wait' = c
        /\ superseded' = superseded \cup Waiting(tx_cookie_wait)
        /\ UNCHANGED <<offered, tx_cookie_in_progress, all_sent, all_dropped,
                       garbled>>
    BY <1>7 DEF LoadFrame, Receive, TakeFrame, idle
  <2> QED
    BY <2>1, <2>2, RadioAssumption
    DEF AccountInv, FrameAccounting, Fated, Waiting
<1>8. ASSUME NEW p \in PaPowers, LoadPower(p) PROVE AccountInv'
  <2>1. /\ Queued = Queued'
        /\ QueuedOnce => QueuedOnce'
    BY <1>8, QueueTail, CarriedByKinds
    DEF LoadPower, Receive, TypeInv, TypeOK
  <2>2. UNCHANGED <<offered, tx_cookie_wait, tx_cookie_in_progress, all_sent,
                    all_dropped, superseded, garbled>>
    BY <1>8 DEF LoadPower, Receive, idle
  <2> QED
    BY <2>1, <2>2 DEF AccountInv, FrameAccounting, Fated, Waiting
<1>9. CASE LoadJunk
  <2>1. garbled' # 0
    BY <1>9 DEF LoadJunk, TypeInv, TypeOK
  <2> QED BY <2>1 DEF AccountInv, FrameAccounting
<1>10. CASE ReportTxState \/ SkipReport
  BY <1>10, AccountKept DEF ReportTxState, SkipReport, reported
<1>11. CASE PollNothing \/ RxEnds \/ NothingToSend
  BY <1>11, AccountKept DEF PollNothing, RxEnds, RxPacket, RxTimeout, RxError,
     NothingToSend, quiet
<1>12. CASE BeginTx
  <2>1. /\ tx_cookie_in_progress' = tx_cookie_wait
        /\ tx_cookie_wait' = NoCookie
        /\ UNCHANGED <<sub_socket, offered, all_sent, all_dropped, superseded,
                       garbled>>
    BY <1>12 DEF BeginTx
  <2>2. Queued' = Queued /\ QueuedOnce' = QueuedOnce
    BY <2>1 DEF Queued, QueuedOnce
  <2>3. tx_cookie_in_progress = NoCookie
    BY <1>12 DEF BeginTx, ReadyToSend, TypeInv, InFlight, OnAir
  <2> QED
    BY <2>1, <2>2, <2>3 DEF AccountInv, FrameAccounting, Fated, Waiting
<1>13. CASE BeginTxFail
  <2>1. /\ all_dropped' = all_dropped \cup {tx_cookie_wait}
        /\ tx_cookie_wait' = NoCookie /\ tx_cookie_wait # NoCookie
        /\ UNCHANGED <<sub_socket, offered, tx_cookie_in_progress, all_sent,
                       superseded, garbled>>
    BY <1>13 DEF BeginTxFail, ReadyToSend
  <2>2. Queued' = Queued /\ QueuedOnce' = QueuedOnce
    BY <2>1 DEF Queued, QueuedOnce
  <2> QED
    BY <2>1, <2>2 DEF AccountInv, FrameAccounting, Fated, Waiting
<1>14. CASE TxEnds
  <2>1. tx_cookie_in_progress # NoCookie
    BY <1>14 DEF TxEnds, TxDone, TxTimedOut, TxError, DropInProgress, TypeInv,
       InFlight, OnAir
  <2>2. /\ UNCHANGED <<sub_socket, offered, tx_cookie_wait, superseded, garbled>>
        /\ tx_cookie_in_progress' = NoCookie
        /\ \/ /\ all_sent' = all_sent \cup {tx_cookie_in_progress}
              /\ all_dropped' = all_dropped
           \/ /\ all_dropped' = all_dropped \cup {tx_cookie_in_progress}
              /\ all_sent' = all_sent
    BY <1>14 DEF TxEnds, TxDone, TxTimedOut, TxError, DropInProgress, sending
  <2>3. Queued' = Queued /\ QueuedOnce' = QueuedOnce
    BY <2>2 DEF Queued, QueuedOnce
  <2> QED
    BY <2>1, <2>2, <2>3 DEF AccountInv, FrameAccounting, Fated, Waiting
<1>15. CASE Stopped \/ UNCHANGED vars
  BY <1>15, AccountKept DEF Stopped, vars
<1> QED
  BY <1>1, <1>2, <1>3, <1>4, <1>5, <1>6, <1>7, <1>8, <1>9, <1>10, <1>11,
     <1>12, <1>13, <1>14, <1>15 DEF Next, Server, Work, Environment, LoadTx

LEMMA AccountInvariant == Spec => []AccountInv
<1>1. Init => AccountInv
  BY DEF Init, AccountInv, FrameAccounting, QueuedOnce, Queued, Fated, Waiting
<1> QED BY <1>1, AccountStep, TypeInvariant, PTL DEF Spec

\* Every offered frame is in exactly one place, for any number of frames and
\* any length of the queue (server.c:191-196, 785-826).
THEOREM EveryFrameAccounted == Spec => []FrameAccounting
<1>1. AccountInv => FrameAccounting
  BY DEF AccountInv
<1> QED BY <1>1, AccountInvariant, PTL

-----------------------------------------------------------------------------
(* The server implements the contract of the uplink topics.                *)

Fate == [c \in Cookies |-> FateOf(c)]

LEMMA FateKept ==
  ASSUME UNCHANGED <<tx_cookie_wait, tx_cookie_in_progress, all_sent,
                     all_dropped, superseded>>
  PROVE  Fate' = Fate
BY DEF Fate, FateOf

LEMMA LifecycleInit == Init => Lifecycle!Init
BY RadioAssumption DEF Init, Lifecycle!Init, FateOf

LEMMA AcceptStep ==
  ASSUME TypeInv, AccountInv, garbled = 0, NEW c \in Cookies, LoadFrame(c)
  PROVE  Lifecycle!Accept(c)
<1>1. c \in Queued
  BY QueueTail, CarriedByKinds DEF LoadFrame, Receive, TypeInv, TypeOK
<1>2. /\ tx_cookie_wait' = c
      /\ superseded' = superseded \cup Waiting(tx_cookie_wait)
      /\ UNCHANGED <<tx_cookie_in_progress, all_sent, all_dropped>>
  BY DEF LoadFrame, Receive, TakeFrame, idle
<1>3. FateOf(c) = "new"
  BY <1>1, RadioAssumption DEF AccountInv, FrameAccounting, FateOf, Fated
<1>4. ASSUME NEW g \in Cookies
      PROVE  FateOf(g)' = IF g = c THEN "waiting"
                          ELSE IF FateOf(g) = "waiting" THEN "superseded"
                          ELSE FateOf(g)
  <2>1. CASE g = c
    BY <1>2, <2>1 DEF FateOf
  <2>2. CASE g # c /\ g = tx_cookie_wait
    BY <1>2, <2>2, RadioAssumption
    DEF AccountInv, FrameAccounting, FateOf, Fated, Waiting
  <2>3. CASE g # c /\ g # tx_cookie_wait
    BY <1>2, <2>3 DEF FateOf, Waiting
  <2> QED BY <2>1, <2>2, <2>3
<1> QED BY <1>3, <1>4 DEF Lifecycle!Accept

LEMMA TransmitStep ==
  ASSUME TypeInv, BeginTx
  PROVE  Lifecycle!Transmit(tx_cookie_wait)
<1>1. /\ tx_cookie_wait \in Cookies
      /\ tx_cookie_in_progress = NoCookie
  BY DEF BeginTx, ReadyToSend, TypeInv, TypeOK, InFlight, OnAir, AnyCookie
<1>2. /\ tx_cookie_in_progress' = tx_cookie_wait
      /\ tx_cookie_wait' = NoCookie
      /\ UNCHANGED <<all_sent, all_dropped, superseded>>
  BY DEF BeginTx, fateVars
<1>3. \A g \in Cookies :
        /\ FateOf(g) # "on_air"
        /\ FateOf(g)' = IF g = tx_cookie_wait THEN "on_air" ELSE FateOf(g)
  BY <1>1, <1>2, RadioAssumption DEF FateOf
<1>4. FateOf(tx_cookie_wait) = "waiting"
  BY DEF FateOf
<1> QED BY <1>1, <1>3, <1>4 DEF Lifecycle!Transmit

LEMMA FailStep ==
  ASSUME TypeInv, AccountInv, garbled = 0, BeginTxFail
  PROVE  Lifecycle!Drop(tx_cookie_wait)
<1>1. /\ tx_cookie_wait \in Cookies
      /\ tx_cookie_in_progress = NoCookie
      /\ tx_cookie_wait \notin all_sent
  BY DEF BeginTxFail, ReadyToSend, TypeInv, TypeOK, InFlight, OnAir, AnyCookie,
     AccountInv, FrameAccounting, Fated
<1>2. /\ tx_cookie_wait' = NoCookie
      /\ all_dropped' = all_dropped \cup {tx_cookie_wait}
      /\ UNCHANGED <<tx_cookie_in_progress, all_sent, superseded>>
  BY DEF BeginTxFail
<1>3. \A g \in Cookies :
        FateOf(g)' = IF g = tx_cookie_wait THEN "dropped" ELSE FateOf(g)
  BY <1>1, <1>2, RadioAssumption DEF FateOf
<1>4. FateOf(tx_cookie_wait) = "waiting"
  BY DEF FateOf
<1> QED BY <1>1, <1>3, <1>4 DEF Lifecycle!Drop

LEMMA EndStep ==
  ASSUME TypeInv, AccountInv, garbled = 0, TxEnds
  PROVE  \/ Lifecycle!Radiate(tx_cookie_in_progress)
         \/ Lifecycle!Drop(tx_cookie_in_progress)
<1> DEFINE f == tx_cookie_in_progress
<1>1. /\ f \in Cookies
      /\ f # tx_cookie_wait
      /\ f \notin all_sent
  BY DEF TxEnds, TxDone, TxTimedOut, TxError, DropInProgress, TypeInv, TypeOK,
     InFlight, OnAir, AnyCookie, AccountInv, FrameAccounting, Fated
<1>2. /\ UNCHANGED <<tx_cookie_wait, superseded>>
      /\ tx_cookie_in_progress' = NoCookie
  BY DEF TxEnds, TxDone, TxTimedOut, TxError, DropInProgress, sending
<1>3. FateOf(f) = "on_air"
  BY <1>1 DEF FateOf
<1>4. CASE TxDone
  <2>1. \A g \in Cookies : FateOf(g)' = IF g = f THEN "sent" ELSE FateOf(g)
    BY <1>1, <1>2, <1>4, RadioAssumption DEF TxDone, FateOf
  <2> QED BY <1>1, <1>3, <2>1 DEF Lifecycle!Radiate
<1>5. CASE DropInProgress
  <2>1. \A g \in Cookies : FateOf(g)' = IF g = f THEN "dropped" ELSE FateOf(g)
    BY <1>1, <1>2, <1>5, RadioAssumption DEF DropInProgress, FateOf
  <2> QED BY <1>1, <1>3, <2>1 DEF Lifecycle!Drop
<1> QED BY <1>4, <1>5 DEF TxEnds, TxTimedOut, TxError

LEMMA LifecycleStep ==
  ASSUME TypeInv, AccountInv, garbled = 0, garbled' = 0, [Next]_vars
  PROVE  Lifecycle!Next \/ Fate' = Fate
<1> USE DEF cookieVars, fateVars
<1>1. CASE Environment
  BY <1>1, FateKept DEF Environment, OfferFrame, RequestPower, SendJunk,
     RequestStop, Deliver
<1>2. CASE Stop \/ ConfigureOk \/ ConfigureFail \/ BeginRx \/ BeginRxFail
  BY <1>2, FateKept
  DEF Stop, ConfigureOk, ConfigureFail, BeginRx, BeginRxFail, quiet
<1>3. CASE \E c \in Cookies : LoadFrame(c)
  BY <1>3, AcceptStep DEF Lifecycle!Next
<1>4. CASE NoMessage \/ \E p \in PaPowers : LoadPower(p)
  BY <1>4, FateKept DEF NoMessage, quiet, LoadPower, Receive, idle
<1>5. ~LoadJunk
  BY DEF LoadJunk
<1>6. CASE ReportTxState \/ SkipReport
  BY <1>6, FateKept DEF ReportTxState, SkipReport, reported
<1>7. CASE PollNothing \/ RxEnds \/ NothingToSend
  BY <1>7, FateKept DEF PollNothing, RxEnds, RxPacket, RxTimeout, RxError,
     NothingToSend, quiet
<1>8. CASE BeginTx
  <2>1. tx_cookie_wait \in Cookies
    BY <1>8 DEF BeginTx, ReadyToSend, TypeInv, TypeOK, AnyCookie
  <2> QED BY <1>8, <2>1, TransmitStep DEF Lifecycle!Next
<1>9. CASE BeginTxFail
  <2>1. tx_cookie_wait \in Cookies
    BY <1>9 DEF BeginTxFail, ReadyToSend, TypeInv, TypeOK, AnyCookie
  <2> QED BY <1>9, <2>1, FailStep DEF Lifecycle!Next
<1>10. CASE TxEnds
  <2>1. tx_cookie_in_progress \in Cookies
    BY <1>10 DEF TxEnds, TxDone, TxTimedOut, TxError, DropInProgress, TypeInv,
       TypeOK, InFlight, OnAir, AnyCookie
  <2> QED BY <1>10, <2>1, EndStep DEF Lifecycle!Next
<1>11. CASE Stopped \/ UNCHANGED vars
  BY <1>11, FateKept DEF Stopped, vars
<1> QED
  BY <1>1, <1>2, <1>3, <1>4, <1>5, <1>6, <1>7, <1>8, <1>9, <1>10, <1>11
  DEF Next, Server, Work, LoadTx

\* As long as every message received was well formed, each step of the server
\* is a step of the frame life cycle the bus topics promise, or none at all.
THEOREM Refinement == Spec /\ [](garbled = 0) => ImplementsLifecycle
<1>1. TypeInv /\ AccountInv /\ garbled = 0 /\ (garbled = 0)' /\ [Next]_vars
        => [Lifecycle!Next]_Fate
  BY LifecycleStep
<1> QED
  BY <1>1, LifecycleInit, TypeInvariant, AccountInvariant, PTL
  DEF Spec, ImplementsLifecycle, Lifecycle!Spec, Fate

=============================================================================
