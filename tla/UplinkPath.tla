----------------------------- MODULE UplinkPath -----------------------------
(***************************************************************************)
(* The whole way of an uplink SDU: server-uslp (UslpDispatcher) and        *)
(* server-radio (RadioServer) joined by the two topics radio.uplink_frame  *)
(* and radio.uplink_state of the bus, which keeps the order of one         *)
(* publisher's messages.                                                   *)
(*                                                                         *)
(* The radio treats cookies as opaque.  To tell a frame from another one   *)
(* with the same cookie, its cookies are here pairs of the incarnation of  *)
(* server-uslp that sent the frame and the number seen on the bus.         *)
(***************************************************************************)
EXTENDS Integers, Sequences, FiniteSets

CONSTANTS
  Sdus, MaxParts, MaxCookie, MaxInbox,          \* see UslpDispatcher
  PaPowers, PaDefault, Left, Zabey, MaxQueue,   \* see RadioServer
  MaxFailures,  \* bound on the restarts of server-uslp and server-radio
  Timeouts      \* whether a followed frame may become late

\* A poll that sends a frame is told from one that doesn't by next_cookie, which
\* therefore must have two values at least (it has 2^64 - 1).
ASSUME PathAssumption ==
  /\ MaxParts \in Nat \ {0}
  /\ MaxCookie \in Nat \ {0, 1}
  /\ MaxInbox \in Nat
  /\ MaxFailures \in Nat
  /\ Timeouts \in BOOLEAN

Cookies  == (1 .. MaxFailures + 1) \X (1 .. MaxCookie)
NoCookie == <<0, 0>>
MaxJunk  == 0

OnBus(c) == c[2]

\* The variables of RadioServer, of UslpDispatcher, and history.
VARIABLES
  pc, op, stop_requested, rx_timeout_count,
  tx_cookie_wait, tx_cookie_in_progress, tx_cookie_sent, tx_cookie_dropped,
  tx_cookies_updated, tx_buffer, pa_request, pa_power, chip_payload, chip_pa,
  sub_socket, uplink_state,
  offered, all_sent, all_dropped, superseded, radiated,
  tx_since_rx, last_pa, garbled

VARIABLES
  inbox, stack, next_cookie, frames_in_wait, accepted, rejected,
  told_radiated, told_failed, retold

VARIABLES
  incarnation,    \* which server-uslp this is
  crashes,        \* how often server-radio crashed
  cargo           \* which parts each frame carries

Radio == INSTANCE RadioServer
Uslp  == INSTANCE UslpDispatcher

radioVars ==
  <<pc, op, stop_requested, rx_timeout_count, tx_cookie_wait,
    tx_cookie_in_progress, tx_cookie_sent, tx_cookie_dropped,
    tx_cookies_updated, tx_buffer, pa_request, pa_power, chip_payload, chip_pa,
    sub_socket, uplink_state, offered, all_sent, all_dropped, superseded,
    radiated, tx_since_rx, last_pa, garbled>>

uslpVars == <<inbox, stack, next_cookie, frames_in_wait, accepted, rejected,
              told_radiated, told_failed, retold>>

vars == <<radioVars, uslpVars, incarnation, crashes, cargo>>

Init ==
  /\ Radio!Init
  /\ Uslp!Init
  /\ incarnation = 1
  /\ crashes = 0
  /\ cargo = {}

-----------------------------------------------------------------------------

RequestSdu(s) ==
  /\ Uslp!RequestSdu(s)
  /\ UNCHANGED <<radioVars, incarnation, crashes, cargo>>

\* Bound: one power request is in the socket at a time, among the frames.
RequestPower(p) ==
  /\ \A i \in DOMAIN sub_socket : sub_socket[i].kind # "pa"
  /\ Radio!RequestPower(p)
  /\ UNCHANGED <<uslpVars, incarnation, crashes, cargo>>

Failures == incarnation - 1 + crashes

\* A process that dies by itself is one of the failures.
RadioWorks ==
  /\ Radio!Work
  /\ pc' = "dead" => Failures < MaxFailures
  /\ UNCHANGED <<uslpVars, incarnation, crashes, cargo>>

\* radio.uplink_state, from the one server to the other.
RadioReports ==
  /\ Radio!ReportTxState
  /\ LET fields == Radio!TxFields IN
       Uslp!ReportState([f \in DOMAIN fields |-> OnBus(fields[f])])
  /\ UNCHANGED <<incarnation, crashes, cargo>>

\* A poll that hands a frame to the radio (radio.uplink_frame).
UslpSends ==
  /\ Uslp!PollState
  /\ \E e \in frames_in_wait' :
       /\ e.cookie = next_cookie
       /\ e.parts \subseteq Uslp!Stacked
       /\ cargo' = cargo \cup
            {[frame |-> <<incarnation, e.cookie>>, parts |-> e.parts]}
  /\ Radio!OfferFrame(<<incarnation, next_cookie>>)
  /\ UNCHANGED <<incarnation, crashes>>

UslpPolls ==
  /\ Uslp!Poll
  /\ next_cookie' = next_cookie
  /\ UNCHANGED <<radioVars, incarnation, crashes, cargo>>

\* A frame's 5 s are over (_frame_done_timeout), whatever is under way then.
TimePasses ==
  /\ Timeouts
  /\ Uslp!TimePasses
  /\ UNCHANGED <<radioVars, incarnation, crashes, cargo>>

UslpRestart ==
  /\ pc # "dead"
  /\ Failures < MaxFailures
  /\ incarnation' = incarnation + 1
  /\ Uslp!Restart
  /\ UNCHANGED <<radioVars, crashes, cargo>>

\* server-radio is killed, or has died, and systemd starts it again.  What the
\* history knows stays.
RadioCrash ==
  /\ Failures < MaxFailures
  /\ crashes' = crashes + 1
  /\ pc' = "again"
  /\ op' = "rx"
  /\ stop_requested' = FALSE
  /\ rx_timeout_count' = 0
  /\ tx_cookie_wait' = NoCookie
  /\ tx_cookie_in_progress' = NoCookie
  /\ tx_cookie_sent' = NoCookie
  /\ tx_cookie_dropped' = NoCookie
  /\ tx_cookies_updated' = FALSE
  /\ tx_buffer' = NoCookie
  /\ pa_request' = Radio!NoRequest
  /\ pa_power' = PaDefault
  /\ last_pa' = PaDefault
  /\ tx_since_rx' = FALSE
  /\ sub_socket' = <<>>
  /\ UNCHANGED <<chip_payload, chip_pa, uplink_state, offered, all_sent,
                 all_dropped, superseded, radiated, garbled, uslpVars,
                 incarnation, cargo>>

Next ==
  \/ \E s \in Sdus : RequestSdu(s)
  \/ \E p \in PaPowers : RequestPower(p)
  \/ RadioWorks
  \/ RadioReports
  \/ UslpSends
  \/ UslpPolls
  \/ TimePasses
  \/ UslpRestart
  \/ RadioCrash

Spec == Init /\ [][Next]_vars

WithBusIdle(A) == A /\ UNCHANGED <<uslpVars, incarnation, crashes, cargo>>

\* Both threads go on, time too, and the radio reports every 500 ms even if
\* nothing changed (server.c:476-477); the far end is silent for good at some
\* time and the radio's mode switches do not fail for ever (SilentAir
\* and ChipKeepsWorking of RadioServer).
Fairness ==
  /\ WF_vars(RadioWorks \/ RadioReports)
  /\ WF_vars(pc = "dead" /\ RadioCrash)
  /\ SF_vars(RadioReports)
  /\ SF_vars(WithBusIdle(Radio!RxEnds))
  /\ SF_vars(WithBusIdle(Radio!TxEnds))
  /\ WF_vars(UslpSends \/ UslpPolls)
  /\ SF_vars(TimePasses)
  /\ <>[][~Radio!RxPacket]_vars
  /\ SF_vars(WithBusIdle(Radio!RxTimeout))
  /\ SF_vars(WithBusIdle(Radio!BeginRx))

FairSpec == Spec /\ Fairness

-----------------------------------------------------------------------------
(* Properties.                                                             *)

FrameOf(p) == {x.frame : x \in {y \in cargo : p \in y.parts}}

\* Clients hear "sdu_radiated" only of parts whose frame the radio has sent.
RadiatedIsTrue ==
  \A p \in told_radiated : FrameOf(p) \subseteq all_sent

\* So it is until server-uslp is restarted, whatever happens to the radio and
\* however late its reports come (dispatcher.cpp:271-290, server.c:814).
TrueUntilRestart == incarnation = 1 => RadiatedIsTrue

\* No frame is lost unnoticed to a fresher one: when the radio replaces a
\* waiting frame, its clients have been told that it failed
\* (dispatcher.cpp:336-363 against server.c:191-196).
LossIsTold ==
  incarnation = 1 =>
    \A p \in Uslp!Parts :
      FrameOf(p) \cap superseded # {} => p \in told_failed

\* Without power requests, server-uslp follows one frame on the air and one
\* before it, and one more for each crash that lost a frame: each outcome
\* reaches it before the next one replaces it in the radio's report
\* (dispatcher.cpp:336-363 against server.c:797, 814-824, 476-481).
FollowsFew ==
  incarnation = 1 => Cardinality(frames_in_wait) <= 2 + crashes

Pending(s) ==
  \E p \in Uslp!Stacked \cup Uslp!PartsOf(frames_in_wait) : p.sdu = s

\* Every part the stack cut the SDU into has an outcome.
Settled(s) ==
  \E n \in 1 .. MaxParts :
    {Uslp!Split(s, n)[i] : i \in 1 .. n}
      \subseteq told_radiated \cup told_failed

\* Clients of a pending SDU hear of all of it, part by part, even if the radio
\* crashes with some of it, unless server-uslp itself is restarted
\* (dispatcher.cpp:214-404, server.c:712-830).
SduSettles ==
  \A s \in Sdus, i \in 1 .. MaxFailures + 1 :
    incarnation = i /\ Pending(s) ~> Settled(s) \/ incarnation # i

=============================================================================
