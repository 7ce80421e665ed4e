--------------------------- MODULE UslpDispatcher ---------------------------
(***************************************************************************)
(* The uplink half of server-uslp (src/rpi/server-uslp/src/dispatcher.cpp):*)
(* one thread that takes one bus message per poll.  SDU requests feed the  *)
(* CCSDS output stack; every report of the radio's buffers moves the       *)
(* frames being followed and, when the radio has room, sends the next one. *)
(* Clients are told what became of each part of their SDUs.                *)
(*                                                                         *)
(* The CCSDS stack is a library: here it is a FIFO of SDU parts that packs *)
(* one or more of them into a frame.  Time is abstracted: a followed frame *)
(* becomes late (older than _frame_done_timeout) at some moment.           *)
(***************************************************************************)
EXTENDS Integers, Sequences, FiniteSets

CONSTANTS
  Sdus,       \* cookies of the SDUs clients ask to send, each used once
  MaxParts,   \* bound on the parts the stack cuts an SDU into
  MaxCookie,  \* the largest radio cookie, 2^64 - 1 in the code
  MaxInbox    \* bound on the messages waiting in the SUB socket

ASSUME UslpAssumption ==
  /\ MaxParts \in Nat \ {0}
  /\ MaxCookie \in Nat \ {0}
  /\ MaxInbox \in Nat

VARIABLES
  inbox,            \* bus messages not yet received
  stack,            \* parts waiting in the CCSDS output stack
  next_cookie,      \* _next_rf_uplink_frame_cookie
  frames_in_wait,   \* _frames_in_wait: the frames being followed
  accepted,         \* SDUs answered with sdu_accepted
  rejected,         \* SDUs answered with sdu_rejected
  told_radiated,    \* parts announced with sdu_radiated
  told_failed,      \* parts announced with sdu_radiation_failed
  retold            \* history: parts announced more than once

toldVars == <<told_radiated, told_failed, retold>>
vars == <<inbox, stack, next_cookie, frames_in_wait, accepted, rejected,
          toldVars>>

Null == 0

Parts == {[sdu |-> s, part_no |-> i, final |-> b] :
            s \in Sdus, i \in 0 .. MaxParts - 1, b \in BOOLEAN}

FrameStates == {"sent_to_radio", "in_wait", "in_progress"}

Entries == [cookie : 1 .. MaxCookie, parts : SUBSET Parts,
            state : FrameStates, late : BOOLEAN]

\* The states of its four buffers a radio server may report.  A frame is in
\* one buffer only: RadioServer's FrameAccounting, and the refinement of
\* FrameLifecycle, promise that for frames with different cookies.
UplinkStates ==
  {r \in [wait : 0 .. MaxCookie, in_progress : 0 .. MaxCookie,
          sent : 0 .. MaxCookie, dropped : 0 .. MaxCookie] :
     \A f, g \in DOMAIN r : f # g /\ r[f] # Null => r[f] # r[g]}

SduMsg(s)   == [kind |-> "sdu_uplink_request", sdu |-> s]
StateMsg(r) == [kind |-> "radio_uplink_state", fields |-> r]
OtherMsg    == [kind |-> "other"]

Init ==
  /\ inbox = <<>>
  /\ stack = <<>>
  /\ next_cookie = 1
  /\ frames_in_wait = {}
  /\ accepted = {}
  /\ rejected = {}
  /\ told_radiated = {}
  /\ told_failed = {}
  /\ retold = {}

-----------------------------------------------------------------------------
(* The bus, and time.                                                      *)

Publish(m) ==
  /\ Len(inbox) < MaxInbox
  /\ inbox' = Append(inbox, m)
  /\ UNCHANGED <<stack, next_cookie, frames_in_wait, accepted, rejected,
                 toldVars>>

Requested == accepted \cup rejected
             \cup {s \in Sdus : \E i \in DOMAIN inbox : inbox[i] = SduMsg(s)}

RequestSdu(s) == s \notin Requested /\ Publish(SduMsg(s))

ReportState(r) == Publish(StateMsg(r))

\* Frames received by the radio, and whatever recv_message returns as null.
PublishOther == Publish(OtherMsg)

\* _frame_done_timeout is over for a frame.  Send times put frames in an order,
\* the 64-bit cookies do until they wrap around; nothing here depends on it, so
\* any frame may be the next.
BecomesLate(e) ==
  /\ ~e.late
  /\ frames_in_wait' = (frames_in_wait \ {e}) \cup {[e EXCEPT !.late = TRUE]}
  /\ UNCHANGED <<inbox, stack, next_cookie, accepted, rejected, toldVars>>

-----------------------------------------------------------------------------
(* dispatcher::poll: one message at most, then _clear_frames_queue.        *)

PartsOf(entries) == UNION {e.parts : e \in entries}

\* Mutant: only frames the radio has shown in its reports can be late.
LateIfSeen == {e \in frames_in_wait : e.late /\ e.state # "sent_to_radio"}

Late == {e \in frames_in_wait : e.late}

\* One sdu_uplink_event per part, of these two kinds.
Tell(radiated, failed) ==
  /\ told_radiated' = told_radiated \cup radiated
  /\ told_failed' = told_failed \cup failed
  /\ retold' = retold \cup (radiated \cap failed)
               \cup ((radiated \cup failed)
                     \cap (told_radiated \cup told_failed))

\* Mutant: the client is told, the frame is still followed.
ClearFramesQueueTold ==
  /\ UNCHANGED frames_in_wait
  /\ Tell({}, PartsOf(Late))

\* Mutant: the frame is forgotten, the client is not told.
ClearFramesQueueSilent ==
  /\ frames_in_wait' = frames_in_wait \ Late
  /\ UNCHANGED toldVars

\* Mutant: time is not looked at.
ClearFramesQueueNever == UNCHANGED <<frames_in_wait, toldVars>>

ClearFramesQueue ==
  /\ frames_in_wait' = frames_in_wait \ Late
  /\ Tell({}, PartsOf(Late))

Receive(m) == inbox # <<>> /\ m = Head(inbox) /\ inbox' = Tail(inbox)

PollTimeout ==
  /\ inbox = <<>>
  /\ ClearFramesQueue
  /\ UNCHANGED <<inbox, stack, next_cookie, accepted, rejected>>

PollOther ==
  /\ Receive(OtherMsg)
  /\ ClearFramesQueue
  /\ UNCHANGED <<stack, next_cookie, accepted, rejected>>

\* How the stack cuts an SDU into n parts.
Split(s, n) ==
  [i \in 1 .. n |-> [sdu |-> s, part_no |-> i - 1, final |-> i = n]]

AcceptSdu(s) ==
  /\ Receive(SduMsg(s))
  /\ \E n \in 1 .. MaxParts : stack' = stack \o Split(s, n)
  /\ accepted' = accepted \cup {s}
  /\ ClearFramesQueue
  /\ UNCHANGED <<next_cookie, rejected>>

\* There is no such map channel, or push_sdu throws.
RejectSdu(s) ==
  /\ Receive(SduMsg(s))
  /\ rejected' = rejected \cup {s}
  /\ ClearFramesQueue
  /\ UNCHANGED <<stack, next_cookie, accepted>>

\* Mutant: the counter wraps around to the forbidden value.
NextCookieWraps == IF next_cookie = MaxCookie THEN 0 ELSE next_cookie + 1

\* ++ on 64 bits, and zero is skipped.
NextCookie == IF next_cookie = MaxCookie THEN 1 ELSE next_cookie + 1

NewState(e, r) ==
  IF r.in_progress = e.cookie THEN "in_progress"
  ELSE IF r.wait = e.cookie THEN "in_wait"
  ELSE e.state

\* Mutant: the report is read as "all frames up to this one".
RadiatedUpTo(entries, r) == {e \in entries : r.sent >= e.cookie}

Radiated(entries, r) == {e \in entries : r.sent = e.cookie}
Failed(entries, r)   == {e \in entries : r.dropped = e.cookie}

Followed(entries, r) ==
  {[e EXCEPT !.state = NewState(e, r)] :
     e \in entries \ (Radiated(entries, r) \cup Failed(entries, r))}

\* Mutant: only the report is believed, frames on their way are forgotten.
RadioHasRoomNow(entries, r) == r.wait = Null

\* The radio's waiting place is free, and no frame is on its way there.
RadioHasRoom(entries, r) ==
  /\ r.wait = Null
  /\ \A e \in entries : e.state \notin {"sent_to_radio", "in_wait"}

SendFrame(entries) ==
  \E k \in 1 .. Len(stack) :
    /\ frames_in_wait' = entries \cup
         {[cookie |-> next_cookie,
           parts |-> {stack[i] : i \in 1 .. k},
           state |-> "sent_to_radio",
           late |-> FALSE]}
    /\ stack' = SubSeq(stack, k + 1, Len(stack))
    /\ next_cookie' = NextCookie

SendNothing(entries) ==
  /\ frames_in_wait' = entries
  /\ UNCHANGED <<stack, next_cookie>>

\* _clear_frames_queue, _update_frames_queue, then the decision.  poll's own
\* _clear_frames_queue finds nothing more to clear.
PollState ==
  LET r        == Head(inbox).fields
      fresh    == frames_in_wait \ Late
      followed == Followed(fresh, r)
      ready    == RadioHasRoom(followed, r) /\ stack # <<>>
  IN
  /\ inbox # <<>>
  /\ Head(inbox).kind = "radio_uplink_state"
  /\ inbox' = Tail(inbox)
  /\ Tell(PartsOf(Radiated(fresh, r)), PartsOf(Late \cup Failed(fresh, r)))
  /\ \/ ready /\ SendFrame(followed)
     \/ ~ready /\ SendNothing(followed)
  /\ UNCHANGED <<accepted, rejected>>

\* The process dies and is started again: an exception that leaves poll, or
\* the operator's way to cancel what is queued.  SDUs are not asked for again.
Restart ==
  /\ inbox' = <<>>
  /\ stack' = <<>>
  /\ next_cookie' = 1
  /\ frames_in_wait' = {}
  /\ UNCHANGED <<accepted, rejected, toldVars>>

Poll ==
  \/ PollTimeout
  \/ PollOther
  \/ \E s \in Sdus : AcceptSdu(s) \/ RejectSdu(s)
  \/ PollState

TimePasses == \E e \in frames_in_wait : BecomesLate(e)

Environment ==
  \/ \E s \in Sdus : RequestSdu(s)
  \/ \E r \in UplinkStates : ReportState(r)
  \/ PublishOther
  \/ TimePasses

Next == Poll \/ Environment

Spec == Init /\ [][Next]_vars

\* The poll wakes up every second at the latest, and time goes on.
Fairness == WF_vars(Poll) /\ WF_vars(TimePasses)

FairSpec == Spec /\ Fairness

-----------------------------------------------------------------------------
(* Properties.                                                             *)

\* Every variable holds a value of its kind; no followed frame has cookie 0.
TypeOK ==
  /\ inbox \in Seq({SduMsg(s) : s \in Sdus} \cup {OtherMsg}
                   \cup {StateMsg(r) : r \in UplinkStates})
  /\ stack \in Seq(Parts)
  /\ next_cookie \in 1 .. MaxCookie
  /\ frames_in_wait \subseteq Entries
  /\ accepted \subseteq Sdus
  /\ rejected \subseteq Sdus
  /\ told_radiated \subseteq Parts
  /\ told_failed \subseteq Parts
  /\ retold \subseteq Parts

\* A client hears one outcome of each part, whatever the radio reports about
\* the frame and whenever its time runs out (dispatcher.cpp:214-325).
OneOutcome == retold = {}

Stacked == {stack[i] : i \in DOMAIN stack}

\* No part of an accepted SDU is forgotten or carried twice: it waits in the
\* stack, or one followed frame carries it, or its outcome has been told
\* (dispatcher.cpp:140-143, 229-245, 313-318, 383-401).
PartsAccounted ==
  LET told == told_radiated \cup told_failed IN
  /\ \A s \in accepted :
       \E n \in 1 .. MaxParts :
         {Split(s, n)[i] : i \in 1 .. n}
           = {p \in Stacked \cup PartsOf(frames_in_wait) \cup told : p.sdu = s}
  /\ Cardinality(Stacked) = Len(stack)
  /\ Stacked \cap (PartsOf(frames_in_wait) \cup told) = {}
  /\ PartsOf(frames_in_wait) \cap told = {}
  /\ \A e, f \in frames_in_wait : e # f => e.parts \cap f.parts = {}

\* Every part handed to the radio gets an outcome, also when the radio falls
\* silent or never hears of the frame (dispatcher.cpp:214-247).
Settles ==
  \A p \in Parts :
    p \in PartsOf(frames_in_wait) ~> p \in told_radiated \cup told_failed

=============================================================================
