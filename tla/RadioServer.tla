---------------------------- MODULE RadioServer -----------------------------
(***************************************************************************)
(* The uplink half of server-radio (src/rpi/server-radio/src/server.c):    *)
(* one thread that alternates between RX and TX operations of an sx126x    *)
(* chip and, inside both wait loops, serves the message bus.  A frame      *)
(* taken from the bus waits in tx_buffer until the air has been silent     *)
(* for the right number of RX timeouts.  Four cookies say where frames     *)
(* are and are published as radio.uplink_state.                            *)
(*                                                                         *)
(* A cookie stands for the frame's payload too: a buffer holds the payload *)
(* of a cookie, or Zeros.  Time is abstracted: a period or a watchdog may  *)
(* expire at any poll.                                                     *)
(***************************************************************************)
EXTENDS Integers, Sequences

CONSTANTS
  Cookies,    \* cookies of the frames senders may offer, each used once
  NoCookie,   \* the 0 of the code: no frame
  PaPowers,   \* the transmitter powers clients may request
  PaDefault,  \* config.radio_modem_cfg.pa_power at start
  Left,       \* config.rx_timeout_limit_left
  Zabey,      \* config.rx_timeout_limit_zabey
  MaxQueue,   \* bound on the messages waiting in the SUB socket
  MaxJunk     \* bound: no malformed message is sent after so many arrived

ASSUME RadioAssumption ==
  /\ NoCookie \notin Cookies
  /\ PaPowers \subseteq Int
  /\ PaDefault \in Int
  /\ Left \in Nat
  /\ Zabey \in Nat
  /\ Left <= Zabey
  /\ MaxQueue \in Nat
  /\ MaxJunk \in Nat

VARIABLES
  pc,                     \* where the thread is
  op,                     \* "rx" or "tx": which wait loop it runs
  stop_requested,
  rx_timeout_count,       \* counts no further than Zabey + 1
  tx_cookie_wait, tx_cookie_in_progress, tx_cookie_sent, tx_cookie_dropped,
  tx_cookies_updated,
  tx_buffer,              \* whose payload the buffer holds
  pa_request, pa_power,   \* pa_request, config.radio_modem_cfg.pa_power
  chip_payload, chip_pa,  \* what was last written to the chip
  sub_socket,             \* messages not yet received
  uplink_state            \* the last radio.uplink_state published

\* History only: no action of the server reads these.
VARIABLES
  offered,                \* cookies handed to the bus so far
  all_sent, all_dropped,  \* every cookie that ever became "sent", "dropped"
  superseded,             \* waiting frames replaced by a fresher one
  radiated,               \* payloads whose transmission the chip completed
  tx_since_rx,            \* a transmission began since the last packet heard
  last_pa,                \* the last power request received
  garbled                 \* how many malformed messages were received

cookieVars == <<tx_cookie_wait, tx_cookie_in_progress, tx_cookie_sent,
                tx_cookie_dropped>>
chipVars == <<chip_payload, chip_pa>>
paVars   == <<pa_request, pa_power>>
busVars  == <<sub_socket, offered>>
fateVars == <<all_sent, all_dropped, superseded, radiated>>
seenVars == <<tx_since_rx, last_pa, garbled>>

vars == <<pc, op, stop_requested, rx_timeout_count, cookieVars,
          tx_cookies_updated, tx_buffer, paVars, chipVars, busVars,
          uplink_state, fateVars, seenVars>>

Zeros     == NoCookie
NoRequest == -1

FrameMsg(c) == [kind |-> "frame", cookie |-> c]
PowerMsg(p) == [kind |-> "pa", power |-> p]
JunkMsg     == [kind |-> "junk"]

Messages == {FrameMsg(c) : c \in Cookies} \cup {PowerMsg(p) : p \in PaPowers}
            \cup {JunkMsg}

AnyCookie == Cookies \cup {NoCookie}

TxFields == [wait |-> tx_cookie_wait, in_progress |-> tx_cookie_in_progress,
             sent |-> tx_cookie_sent, dropped |-> tx_cookie_dropped]

Waiting(c) == {c} \ {NoCookie}

-----------------------------------------------------------------------------
(* server_ctor: the structure is zeroed, there is no power request.        *)

Init ==
  /\ pc = "again"
  /\ op = "rx"
  /\ stop_requested = FALSE
  /\ rx_timeout_count = 0
  /\ tx_cookie_wait = NoCookie
  /\ tx_cookie_in_progress = NoCookie
  /\ tx_cookie_sent = NoCookie
  /\ tx_cookie_dropped = NoCookie
  /\ tx_cookies_updated = FALSE
  /\ tx_buffer = Zeros
  /\ pa_request = NoRequest
  /\ pa_power = PaDefault
  /\ chip_payload = Zeros
  /\ chip_pa = PaDefault
  /\ sub_socket = <<>>
  /\ uplink_state = TxFields
  /\ offered = {}
  /\ all_sent = {}
  /\ all_dropped = {}
  /\ superseded = {}
  /\ radiated = {}
  /\ tx_since_rx = FALSE
  /\ last_pa = PaDefault
  /\ garbled = 0

-----------------------------------------------------------------------------
(* The rest of the system: senders on the bus, and the signal handler.     *)

Deliver(m) ==
  /\ Len(sub_socket) < MaxQueue
  /\ sub_socket' = Append(sub_socket, m)
  /\ UNCHANGED <<pc, op, stop_requested, rx_timeout_count, cookieVars,
                 tx_cookies_updated, tx_buffer, paVars, chipVars,
                 uplink_state, fateVars, seenVars>>

OfferFrame(c) ==
  /\ c \notin offered
  /\ offered' = offered \cup {c}
  /\ Deliver(FrameMsg(c))

RequestPower(p) == Deliver(PowerMsg(p)) /\ UNCHANGED offered

\* A message on a subscribed topic whose metadata or parts do not parse.
SendJunk == garbled < MaxJunk /\ Deliver(JunkMsg) /\ UNCHANGED offered

RequestStop ==
  /\ ~stop_requested
  /\ stop_requested' = TRUE
  /\ UNCHANGED <<pc, op, rx_timeout_count, cookieVars, tx_cookies_updated,
                 tx_buffer, paVars, chipVars, busVars, uplink_state,
                 fateVars, seenVars>>

-----------------------------------------------------------------------------
(* server_serve: configure the radio, run the loop, start over on errors.  *)

quiet == <<stop_requested, cookieVars, tx_cookies_updated, tx_buffer, paVars,
           busVars, uplink_state, fateVars, seenVars>>

Stop ==
  /\ pc \in {"again", "begin_rx"}
  /\ stop_requested
  /\ pc' = "stopped"
  /\ UNCHANGED <<quiet, op, rx_timeout_count, chipVars>>

\* The reset loses what the chip held, the configuration sets its power.
ConfigureOk ==
  /\ pc = "again"
  /\ ~stop_requested
  /\ pc' = "begin_rx"
  /\ chip_payload' = Zeros
  /\ chip_pa' = pa_power
  /\ UNCHANGED <<quiet, op, rx_timeout_count>>

\* _radio_configure destroys the driver when it fails.  server_serve "will
\* retry" after a second, and so does server_dtor after a stop request: both
\* reset a chip whose lines are gone, and the process dies (see RadioDevice).
ConfigureFail ==
  /\ pc = "again"
  /\ ~stop_requested
  /\ pc' = "dead"
  /\ \E p \in {chip_pa, pa_power} : chip_pa' = p
  /\ chip_payload' = Zeros
  /\ UNCHANGED <<quiet, op, rx_timeout_count>>

\* Mutant: a stop request is honoured only after an error.
BeginRxUnguarded ==
  /\ pc = "begin_rx"
  /\ pc' = "jobs"
  /\ op' = "rx"
  /\ UNCHANGED <<quiet, rx_timeout_count, chipVars>>

BeginRx ==
  /\ pc = "begin_rx"
  /\ ~stop_requested
  /\ pc' = "jobs"
  /\ op' = "rx"
  /\ UNCHANGED <<quiet, rx_timeout_count, chipVars>>

\* sx126x_drv_mode_rx fails.
BeginRxFail ==
  /\ pc = "begin_rx"
  /\ ~stop_requested
  /\ pc' = "again"
  /\ UNCHANGED <<quiet, op, rx_timeout_count, chipVars>>

-----------------------------------------------------------------------------
(* _do_periodic_jobs: at most one bus message, then the state report.      *)

idle == <<op, stop_requested, rx_timeout_count, tx_cookie_in_progress,
          tx_cookie_sent, tx_cookie_dropped, chipVars, pa_power>>

NoMessage ==
  /\ pc = "jobs"
  /\ sub_socket = <<>>
  /\ pc' = "report"
  /\ UNCHANGED <<quiet, op, rx_timeout_count, chipVars>>

Receive(m) ==
  /\ pc = "jobs"
  /\ sub_socket # <<>>
  /\ m = Head(sub_socket)
  /\ sub_socket' = Tail(sub_socket)
  /\ pc' = "report"
  /\ UNCHANGED <<idle, offered, uplink_state, all_sent, all_dropped, radiated,
                 tx_since_rx>>

\* Mutant: the older frame keeps its place, its payload does not.
TakeFrameKeepsOld(c) ==
  /\ tx_cookie_wait' = IF tx_cookie_wait = NoCookie THEN c ELSE tx_cookie_wait
  /\ superseded' = superseded \cup (IF tx_cookie_wait = NoCookie
                                    THEN {} ELSE Waiting(c))
  /\ tx_cookies_updated' = TRUE

\* Mutant: the change is left to the next periodic report.
TakeFrameUnflagged(c) ==
  /\ tx_cookie_wait' = c
  /\ superseded' = superseded \cup Waiting(tx_cookie_wait)
  /\ UNCHANGED tx_cookies_updated

\* tx_cookie_wait takes a new value, whatever it held.
TakeFrame(c) ==
  /\ tx_cookie_wait' = c
  /\ superseded' = superseded \cup Waiting(tx_cookie_wait)
  /\ tx_cookies_updated' = TRUE

TakePower(p) ==
  /\ pa_request' = p
  /\ last_pa' = p
  /\ tx_cookies_updated' = FALSE

LoadFrame(c) ==
  /\ Receive(FrameMsg(c))
  /\ tx_buffer' = c
  /\ TakeFrame(c)
  /\ UNCHANGED <<pa_request, last_pa, garbled>>

\* tx_buffer is wiped before the message is known not to be a frame.
LoadPower(p) ==
  /\ Receive(PowerMsg(p))
  /\ tx_buffer' = Zeros
  /\ TakePower(p)
  /\ UNCHANGED <<tx_cookie_wait, superseded, garbled>>

\* zserver_recv_tx_packet returns 0 and sets none of its results: _load_tx
\* goes on with whatever its uninitialised locals hold.
LoadJunk ==
  /\ Receive(JunkMsg)
  /\ tx_buffer' = Zeros
  /\ garbled' = garbled + 1
  /\ \/ /\ \E c \in AnyCookie : TakeFrame(c)
        /\ UNCHANGED <<pa_request, last_pa>>
     \/ /\ \E p \in PaPowers : TakePower(p)
        /\ UNCHANGED <<tx_cookie_wait, superseded>>
     \/ UNCHANGED <<tx_cookie_wait, superseded, tx_cookies_updated,
                    pa_request, last_pa>>

LoadTx ==
  \/ NoMessage
  \/ \E c \in Cookies : LoadFrame(c)
  \/ \E p \in PaPowers : LoadPower(p)
  \/ LoadJunk

reported == <<op, stop_requested, rx_timeout_count, cookieVars, tx_buffer,
              paVars, chipVars, busVars, fateVars, seenVars>>

\* Because a field changed, or because tx_state_report_period_ms is over.
ReportTxState ==
  /\ pc = "report"
  /\ pc' = "poll"
  /\ uplink_state' = TxFields
  /\ tx_cookies_updated' = FALSE
  /\ UNCHANGED reported

\* Mutant: only the period makes the server report.
SkipReportAlways ==
  /\ pc = "report"
  /\ pc' = "poll"
  /\ UNCHANGED <<reported, uplink_state, tx_cookies_updated>>

SkipReport ==
  /\ pc = "report"
  /\ ~tx_cookies_updated
  /\ pc' = "poll"
  /\ UNCHANGED <<reported, uplink_state, tx_cookies_updated>>

-----------------------------------------------------------------------------
(* _wait_for_rx and what _server_loop does with its result.                *)

PollNothing ==
  /\ pc = "poll"
  /\ pc' = "jobs"
  /\ UNCHANGED <<quiet, op, rx_timeout_count, chipVars>>

RxPacket ==
  /\ pc = "poll"
  /\ op = "rx"
  /\ pc' = "decide"
  /\ rx_timeout_count' = 0
  /\ tx_since_rx' = FALSE
  /\ UNCHANGED <<op, stop_requested, cookieVars, tx_cookies_updated,
                 tx_buffer, paVars, chipVars, busVars, uplink_state,
                 fateVars, last_pa, garbled>>

\* Counts above Zabey are alike to the server: the model stops there.
NextTimeoutCount ==
  IF rx_timeout_count > Zabey THEN rx_timeout_count ELSE rx_timeout_count + 1

RxTimeout ==
  /\ pc = "poll"
  /\ op = "rx"
  /\ pc' = "decide"
  /\ rx_timeout_count' = NextTimeoutCount
  /\ UNCHANGED <<quiet, op, chipVars>>

\* poll or driver error, an unexpected event, or the RX watchdog.
RxError ==
  /\ pc = "poll"
  /\ op = "rx"
  /\ pc' = "again"
  /\ UNCHANGED <<quiet, op, rx_timeout_count, chipVars>>

\* Mutant: any silence longer than the window will do.
ChannelFreeFromLeft == rx_timeout_count >= Left

\* Mutant: the window at Left is the only chance.
ChannelFreeWindowOnly == rx_timeout_count = Left

ChannelFree == rx_timeout_count > Zabey \/ rx_timeout_count = Left

NothingToSend ==
  /\ pc = "decide"
  /\ ~ChannelFree \/ tx_cookie_wait = NoCookie
  /\ pc' = "begin_rx"
  /\ UNCHANGED <<quiet, op, rx_timeout_count, chipVars>>

-----------------------------------------------------------------------------
(* _go_tx, _wait_for_tx and what _server_loop does with their results.     *)

ReadyToSend == pc = "decide" /\ ChannelFree /\ tx_cookie_wait # NoCookie

PowerPending == pa_request >= 0

NextPower == IF PowerPending THEN pa_request ELSE pa_power

\* Mutant: the configuration kept for later resets is not changed.
ApplyPowerForgets ==
  /\ pa_power' = pa_power
  /\ pa_request' = IF PowerPending THEN NoRequest ELSE pa_request

\* Mutant: the request is cleared as the cookies are, with a zero.
ApplyPowerClearsToZero ==
  /\ pa_power' = NextPower
  /\ pa_request' = IF PowerPending THEN 0 ELSE pa_request

ApplyPower ==
  /\ pa_power' = NextPower
  /\ pa_request' = IF PowerPending THEN NoRequest ELSE pa_request

BeginTx ==
  /\ ReadyToSend
  /\ ApplyPower
  /\ chip_pa' = IF PowerPending THEN NextPower ELSE chip_pa
  /\ chip_payload' = tx_buffer
  /\ tx_cookie_in_progress' = tx_cookie_wait
  /\ tx_cookie_wait' = NoCookie
  /\ tx_cookies_updated' = TRUE
  /\ pc' = "jobs"
  /\ op' = "tx"
  /\ tx_since_rx' = TRUE
  /\ UNCHANGED <<stop_requested, rx_timeout_count, tx_cookie_sent,
                 tx_cookie_dropped, tx_buffer, busVars, uplink_state,
                 fateVars, last_pa, garbled>>

\* The reconfiguration, the payload write or the mode switch fails.
BeginTxFail ==
  /\ ReadyToSend
  /\ ApplyPower
  /\ \E p \in {chip_pa, NextPower} : chip_pa' = p
  /\ \E b \in {chip_payload, tx_buffer} : chip_payload' = b
  /\ tx_cookie_dropped' = tx_cookie_wait
  /\ all_dropped' = all_dropped \cup {tx_cookie_wait}
  /\ tx_cookie_wait' = NoCookie
  /\ tx_cookies_updated' = TRUE
  /\ pc' = "again"
  /\ UNCHANGED <<op, stop_requested, rx_timeout_count, tx_cookie_in_progress,
                 tx_cookie_sent, tx_buffer, busVars, uplink_state, all_sent,
                 superseded, radiated, seenVars>>

sending == <<op, stop_requested, rx_timeout_count, tx_cookie_wait, tx_buffer,
             paVars, chipVars, busVars, uplink_state, superseded, seenVars>>

TxDone ==
  /\ pc = "poll"
  /\ op = "tx"
  /\ tx_cookie_sent' = tx_cookie_in_progress
  /\ all_sent' = all_sent \cup {tx_cookie_in_progress}
  /\ radiated' = radiated \cup {chip_payload}
  /\ tx_cookie_in_progress' = NoCookie
  /\ tx_cookies_updated' = TRUE
  /\ pc' = "begin_rx"
  /\ UNCHANGED <<sending, tx_cookie_dropped, all_dropped>>

\* Mutant: the slot is cleared before it is copied.
DropInProgressLost ==
  /\ pc = "poll"
  /\ op = "tx"
  /\ tx_cookie_in_progress' = NoCookie
  /\ tx_cookies_updated' = TRUE
  /\ UNCHANGED <<sending, tx_cookie_sent, tx_cookie_dropped, all_sent,
                 all_dropped, radiated>>

\* Mutant: the drop does not ask for a report.
DropInProgressUnflagged ==
  /\ pc = "poll"
  /\ op = "tx"
  /\ tx_cookie_dropped' = tx_cookie_in_progress
  /\ all_dropped' = all_dropped \cup {tx_cookie_in_progress}
  /\ tx_cookie_in_progress' = NoCookie
  /\ UNCHANGED <<sending, tx_cookie_sent, all_sent, radiated,
                 tx_cookies_updated>>

DropInProgress ==
  /\ pc = "poll"
  /\ op = "tx"
  /\ tx_cookie_dropped' = tx_cookie_in_progress
  /\ all_dropped' = all_dropped \cup {tx_cookie_in_progress}
  /\ tx_cookie_in_progress' = NoCookie
  /\ tx_cookies_updated' = TRUE
  /\ UNCHANGED <<sending, tx_cookie_sent, all_sent, radiated>>

\* Mutant: event.arg.tx_done.timed_out is not looked at.
TxTimedOutUnnoticed ==
  /\ pc = "poll"
  /\ op = "tx"
  /\ tx_cookie_sent' = tx_cookie_in_progress
  /\ all_sent' = all_sent \cup {tx_cookie_in_progress}
  /\ tx_cookie_in_progress' = NoCookie
  /\ tx_cookies_updated' = TRUE
  /\ pc' = "begin_rx"
  /\ UNCHANGED <<sending, tx_cookie_dropped, all_dropped, radiated>>

\* Mutant: the frame gets another try.
TxTimedOutRetried ==
  /\ pc = "poll"
  /\ op = "tx"
  /\ tx_cookie_wait' = tx_cookie_in_progress
  /\ tx_cookie_in_progress' = NoCookie
  /\ tx_cookies_updated' = TRUE
  /\ pc' = "begin_rx"
  /\ UNCHANGED <<op, stop_requested, rx_timeout_count, tx_cookie_sent,
                 tx_cookie_dropped, tx_buffer, paVars, chipVars, busVars,
                 uplink_state, fateVars, seenVars>>

\* The chip gave up by itself: the radio is fine, go on receiving.
TxTimedOut == DropInProgress /\ pc' = "begin_rx"

\* poll or driver error, an unexpected event, or the TX watchdog.
TxError == DropInProgress /\ pc' = "again"

Ended == pc \in {"stopped", "dead"}

Stopped == Ended /\ UNCHANGED vars

-----------------------------------------------------------------------------

RxEnds == RxPacket \/ RxTimeout \/ RxError
TxEnds == TxDone \/ TxTimedOut \/ TxError

\* All the thread does but publish its state.
Work ==
  \/ Stop \/ ConfigureOk \/ ConfigureFail \/ BeginRx \/ BeginRxFail
  \/ LoadTx \/ SkipReport
  \/ PollNothing \/ RxEnds \/ NothingToSend
  \/ BeginTx \/ BeginTxFail \/ TxEnds

Server == Work \/ ReportTxState

Environment ==
  \/ \E c \in Cookies : OfferFrame(c)
  \/ \E p \in PaPowers : RequestPower(p)
  \/ SendJunk
  \/ RequestStop

Next == Server \/ Environment \/ Stopped

Spec == Init /\ [][Next]_vars

\* The thread never stops by itself, and a watchdog of 5 s ends every wait.
Fairness == WF_vars(Server) /\ SF_vars(RxEnds) /\ SF_vars(TxEnds)

FairSpec == Spec /\ Fairness

\* Assumptions of single properties.  Mode switches do not fail for ever:
ChipKeepsWorking == SF_vars(BeginRx)

\* and the far end falls silent: no packets come any more, and RX operations
\* do not all end in errors.
SilentAir == <>[][~RxPacket]_vars /\ SF_vars(RxTimeout)

-----------------------------------------------------------------------------
(* Properties.                                                             *)

States == {"again", "begin_rx", "jobs", "report", "poll", "decide", "stopped",
           "dead"}

\* Every variable holds a value of its kind.
TypeOK ==
  /\ pc \in States
  /\ op \in {"rx", "tx"}
  /\ stop_requested \in BOOLEAN
  /\ rx_timeout_count \in 0 .. Zabey + 1
  /\ tx_cookie_wait \in AnyCookie
  /\ tx_cookie_in_progress \in AnyCookie
  /\ tx_cookie_sent \in AnyCookie
  /\ tx_cookie_dropped \in AnyCookie
  /\ tx_cookies_updated \in BOOLEAN
  /\ tx_buffer \in AnyCookie
  /\ pa_request \in PaPowers \cup {NoRequest}
  /\ pa_power \in PaPowers \cup {PaDefault}
  /\ chip_payload \in AnyCookie
  /\ chip_pa \in PaPowers \cup {PaDefault}
  /\ sub_socket \in Seq(Messages)
  /\ uplink_state \in [wait : AnyCookie, in_progress : AnyCookie,
                       sent : AnyCookie, dropped : AnyCookie]
  /\ offered \subseteq Cookies
  /\ all_sent \subseteq Cookies
  /\ all_dropped \subseteq Cookies
  /\ superseded \subseteq Cookies
  /\ radiated \subseteq AnyCookie
  /\ tx_since_rx \in BOOLEAN
  /\ last_pa \in PaPowers \cup {PaDefault}
  /\ garbled \in Nat

\* Whether the thread is inside a TX operation.
OnAir == op = "tx" /\ pc \in {"jobs", "report", "poll"}

Queued == {c \in Cookies : \E i \in DOMAIN sub_socket :
                               sub_socket[i] = FrameMsg(c)}

Fated == all_sent \cup all_dropped \cup superseded

\* No frame is lost or counted twice (server.c:191-196, 785-826): as long as
\* every message parsed, each offered frame is in exactly one place - the
\* socket, the waiting slot, the chip, or one of the three ends.
FrameAccounting ==
  garbled = 0 =>
    /\ offered = Queued \cup Waiting(tx_cookie_wait)
                 \cup Waiting(tx_cookie_in_progress) \cup Fated
    /\ tx_cookie_wait # NoCookie =>
         tx_cookie_wait \notin Queued \cup {tx_cookie_in_progress} \cup Fated
    /\ tx_cookie_in_progress # NoCookie =>
         tx_cookie_in_progress \notin Queued \cup Fated
    /\ Queued \cap Fated = {}
    /\ all_sent \cap all_dropped = {}
    /\ all_sent \cap superseded = {}
    /\ all_dropped \cap superseded = {}

\* Whatever arrives on the bus while a frame waits or flies, the chip never
\* radiates one frame's payload under another frame's cookie (server.c:177,
\* 624, 794): at worst the payload is all zeros.
NoForeignPayload == OnAir => chip_payload \in {tx_cookie_in_progress, Zeros}

\* A cookie published as sent is the cookie of a frame whose own payload the
\* chip transmitted (server.c:177-196, 624, 814).
SentMeansRadiated == uplink_state.sent \in radiated \cup {NoCookie}

\* What the last report says of the buffers is what they hold whenever the
\* thread has done its periodic jobs (server.c:476-481).
ReportUpToDate == pc \in {"poll", "decide"} => uplink_state = TxFields

\* An outcome is overwritten by the next one only after the bus has been told
\* of it (server.c:785-824 against 476-481): senders learn it from the report.
OutcomesReported ==
  [][/\ tx_cookie_sent' # tx_cookie_sent
          => uplink_state.sent = tx_cookie_sent
     /\ tx_cookie_dropped' # tx_cookie_dropped
          => uplink_state.dropped = tx_cookie_dropped]_vars

TransmissionBegins ==
  tx_cookie_in_progress = NoCookie /\ tx_cookie_in_progress' # NoCookie

\* While the vehicle may still be answering, the server speaks once: a second
\* transmission without a packet heard in between needs more than Zabey RX
\* timeouts in a row (server.c:755-771), whatever errors restart the loop.
OneTxPerSilence ==
  [][TransmissionBegins => ~tx_since_rx \/ rx_timeout_count > Zabey]_vars

\* A transmission begins with the power that was asked for last, whatever
\* failed since the request came (server.c:197-203, 609-622, 87, 141-156).  A
\* request for a negative power takes back one that is still pending and leaves
\* the power as it is: the code's sign of "no request" is any negative number.
PowerHonoured ==
  [][TransmissionBegins /\ garbled = 0 =>
       chip_pa' = IF last_pa >= 0 THEN last_pa ELSE pa_power]_vars

\* The life of a frame as the server's buffers and history show it.
FateOf(c) ==
  IF c = tx_cookie_wait THEN "waiting"
  ELSE IF c = tx_cookie_in_progress THEN "on_air"
  ELSE IF c \in all_sent THEN "sent"
  ELSE IF c \in all_dropped THEN "dropped"
  ELSE IF c \in superseded THEN "superseded"
  ELSE "new"

Lifecycle == INSTANCE FrameLifecycle
               WITH Frames <- Cookies, fate <- [c \in Cookies |-> FateOf(c)]

\* The server implements the contract of the uplink topics.
ImplementsLifecycle == Lifecycle!Spec

\* A frame on the air is settled, whatever the chip does and however many
\* packets come (server.c:700-704, 801-826).
TransmissionEnds ==
  \A c \in Cookies :
    tx_cookie_in_progress = c ~> c \in all_sent \cup all_dropped

\* When the far end falls silent and the chip keeps working, a waiting frame
\* gets its turn even if the window at Left is missed (server.c:755-780),
\* unless the server ends first.
WaitingEnds ==
  SilentAir /\ ChipKeepsWorking =>
    \A c \in Cookies :
      tx_cookie_wait = c ~> tx_cookie_wait # c \/ Ended

\* Every settled transmission is published, unless the server ends first: the
\* report is made in the next wait loop, also when errors and restarts of the
\* loop come before it (server.c:476-481, 872-889).  That there is a next wait
\* loop takes a chip whose mode switch does not fail for ever.
OutcomePublished ==
  ChipKeepsWorking =>
    \A c \in Cookies :
      /\ tx_cookie_sent = c ~> uplink_state.sent = c \/ Ended
      /\ tx_cookie_dropped = c ~> uplink_state.dropped = c \/ Ended

\* A stop request ends the process, also when packets keep coming, when every
\* operation ends in an error and when the radio can't be set to receive
\* (server.c:720-721, 872-873).
StopHonoured == stop_requested ~> Ended

=============================================================================
