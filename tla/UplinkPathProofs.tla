-------------------------- MODULE UplinkPathProofs --------------------------
(***************************************************************************)
(* Proofs about UplinkPath, for every set of SDUs and powers, every number *)
(* of parts, crashes and restarts, every width of the cookies and every    *)
(* length of the queues.                                                   *)
(***************************************************************************)
EXTENDS UplinkPath, FiniteSetTheorems, SequenceTheorems, TLAPS

-----------------------------------------------------------------------------
(* The radio, while the first server-uslp runs.                            *)

FrameMsg(c) == Radio!FrameMsg(c)

RadioMessages == {FrameMsg(c) : c \in Cookies}
                 \cup {Radio!PowerMsg(p) : p \in PaPowers}

Queued == Radio!Queued

\* Frames that may still be superseded.
InLine == Queued \cup Radio!Waiting(tx_cookie_wait)

\* Frames that left the waiting place, and NoCookie.
Gone == all_sent \cup all_dropped \cup superseded \cup {tx_cookie_in_progress}

\* A bus that keeps the order of one publisher's messages.
InOrder ==
  \A i, j \in DOMAIN sub_socket, c, d \in Cookies :
    /\ i < j
    /\ sub_socket[i] = FrameMsg(c)
    /\ sub_socket[j] = FrameMsg(d)
    => OnBus(c) < OnBus(d)

RadioType ==
  /\ sub_socket \in Seq(RadioMessages)
  /\ tx_cookie_wait \in Cookies \cup {NoCookie}
  /\ tx_cookie_in_progress \in offered \cup {NoCookie}

\* A frame waits, or it was waiting once and never will again; the outcomes
\* shown are outcomes.
RadioInv ==
  /\ RadioType
  /\ InOrder
  /\ \A c \in Queued :
       tx_cookie_wait # NoCookie => OnBus(tx_cookie_wait) < OnBus(c)
  /\ InLine \subseteq offered
  /\ Gone \subseteq offered \cup {NoCookie}
  /\ InLine \cap Gone = {}
  /\ tx_cookie_sent \in all_sent \cup {NoCookie}
  /\ tx_cookie_dropped \in all_dropped \cup {NoCookie}

\* Cookies are given out in order, until they would begin anew.
OfferedInv ==
  /\ next_cookie \in 1 .. MaxCookie
  /\ offered \subseteq {1} \X (1 .. MaxCookie)
  /\ \/ offered = {1} \X (1 .. next_cookie - 1)
     \/ <<1, next_cookie>> \in offered

-----------------------------------------------------------------------------
(* The reports under way.                                                  *)

Reports == [wait : 0 .. MaxCookie, in_progress : 0 .. MaxCookie,
            sent : 0 .. MaxCookie, dropped : 0 .. MaxCookie]

UslpMessages == {Uslp!SduMsg(s) : s \in Sdus}
                \cup {Uslp!StateMsg(r) : r \in Reports}

IsReport(m) == m.kind = "radio_uplink_state"

\* What a report says stays true, however late it is read.
Truthful(r) ==
  /\ r \in Reports
  /\ r.sent # 0 => <<1, r.sent>> \in all_sent
  /\ r.dropped # 0 => <<1, r.dropped>> \in all_dropped
  /\ r.in_progress # 0 => <<1, r.in_progress>> \in offered \ InLine

InboxInv ==
  /\ inbox \in Seq(UslpMessages)
  /\ \A i \in DOMAIN inbox : IsReport(inbox[i]) => Truthful(inbox[i].fields)
  /\ \A i \in DOMAIN inbox, s \in Sdus : inbox[i] = Uslp!SduMsg(s) =>
       /\ s \notin accepted
       /\ \A j \in DOMAIN inbox : inbox[j] = Uslp!SduMsg(s) => i = j

-----------------------------------------------------------------------------
(* Parts and frames.                                                       *)

Distinct(seq) == \A i, j \in DOMAIN seq : seq[i] = seq[j] => i = j

StackInv ==
  /\ accepted \subseteq Sdus
  /\ stack \in Seq(Uslp!Parts)
  /\ Distinct(stack)
  /\ \A p \in Uslp!Stacked : p.sdu \in accepted

\* A part goes into one frame, and a cookie stands for one frame.
CargoInv ==
  /\ \A x \in cargo :
       /\ x.frame \in offered
       /\ \A p \in x.parts : p.sdu \in accepted /\ p \notin Uslp!Stacked
  /\ \A x, y \in cargo : x.frame = y.frame => x = y
  /\ \A x, y \in cargo : x.parts \cap y.parts # {} => x = y

Frame(e) == [frame |-> <<1, e.cookie>>, parts |-> e.parts]

\* What server-uslp believes of the frames it follows, over the changes a poll
\* makes to them.
EntriesInv(entries) ==
  /\ entries \subseteq Uslp!Entries
  /\ \A e \in entries :
       /\ Frame(e) \in cargo
       /\ e.state = "in_progress" => <<1, e.cookie>> \notin InLine
  /\ \A e, f \in entries : e.cookie = f.cookie => e = f

\* A frame that may still be superseded is followed, or given up.
LossInv(entries, failed) ==
  \A x \in cargo :
    x.frame \in InLine =>
      x.parts \subseteq failed \/ \E e \in entries : Frame(e) = x

\* Of the frames in the radio's hands all but the last are given up.
NewestInv ==
  \A x \in cargo, c \in InLine :
    x.frame \in InLine /\ OnBus(x.frame) < OnBus(c) =>
      x.parts \subseteq told_failed

SupersededInv ==
  \A x \in cargo : x.frame \in superseded => x.parts \subseteq told_failed

\* What was told of was sent.
ToldInv ==
  /\ RadiatedIsTrue
  /\ \A p \in told_radiated : \E x \in cargo : p \in x.parts

\* What server-uslp and the cargo it sent are known to be, but the inbox.
BooksInv ==
  /\ OfferedInv
  /\ StackInv
  /\ CargoInv
  /\ EntriesInv(frames_in_wait)
  /\ LossInv(frames_in_wait, told_failed)
  /\ NewestInv
  /\ SupersededInv
  /\ ToldInv

FirstInv == RadioInv /\ InboxInv /\ BooksInv

PathInv ==
  /\ incarnation \in Nat \ {0}
  /\ incarnation = 1 => FirstInv

-----------------------------------------------------------------------------
(* Messages, cookies and queues.                                           *)

LEMMA CookieFacts ==
  /\ NoCookie \notin Cookies
  /\ \A c \in Cookies : OnBus(c) \in 1 .. MaxCookie /\ OnBus(c) # 0
  /\ OnBus(NoCookie) = 0
  /\ {1} \X (1 .. MaxCookie) \subseteq Cookies
  /\ \A c \in {1} \X (1 .. MaxCookie) : c = <<1, OnBus(c)>>
BY PathAssumption DEF Cookies, NoCookie, OnBus

LEMMA RadioMessageKinds ==
  /\ \A c, d : FrameMsg(c) = FrameMsg(d) => c = d
  /\ \A c, p : FrameMsg(c) # Radio!PowerMsg(p)
  /\ \A c : FrameMsg(c) # Radio!JunkMsg
  /\ \A p : Radio!PowerMsg(p) # Radio!JunkMsg
<1>1. \A c : FrameMsg(c).kind = "frame" /\ FrameMsg(c).cookie = c
  BY DEF FrameMsg, Radio!FrameMsg
<1>2. \A p : Radio!PowerMsg(p).kind = "pa"
  BY DEF Radio!PowerMsg
<1>3. Radio!JunkMsg.kind = "junk"
  BY DEF Radio!JunkMsg
<1> QED
  BY <1>1, <1>2, <1>3

LEMMA UslpMessageKinds ==
  /\ \A s : ~IsReport(Uslp!SduMsg(s))
  /\ \A r : IsReport(Uslp!StateMsg(r)) /\ Uslp!StateMsg(r).fields = r
  /\ \A s, t : Uslp!SduMsg(s) = Uslp!SduMsg(t) => s = t
  /\ \A s, r : Uslp!SduMsg(s) # Uslp!StateMsg(r)
<1>1. \A s : /\ Uslp!SduMsg(s).kind = "sdu_uplink_request"
             /\ Uslp!SduMsg(s).sdu = s
  BY DEF Uslp!SduMsg
<1>2. \A r : /\ Uslp!StateMsg(r).kind = "radio_uplink_state"
             /\ Uslp!StateMsg(r).fields = r
  BY DEF Uslp!StateMsg
<1> QED
  BY <1>1, <1>2 DEF IsReport

\* What taking the first element does to a sequence, and adding one.
LEMMA TailFacts ==
  ASSUME NEW S, NEW seq \in Seq(S), seq # <<>>
  PROVE  /\ Tail(seq) \in Seq(S)
         /\ Head(seq) = seq[1] /\ Head(seq) \in S /\ 1 \in DOMAIN seq
         /\ DOMAIN seq \subseteq Nat \ {0}
         /\ \A i \in DOMAIN Tail(seq) :
              i \in Nat \ {0} /\ i + 1 \in DOMAIN seq /\ Tail(seq)[i] = seq[i + 1]
         /\ \A i \in DOMAIN seq :
              i # 1 => i - 1 \in DOMAIN Tail(seq) /\ Tail(seq)[i - 1] = seq[i]
<1>1. /\ Tail(seq) \in Seq(S)
      /\ Len(seq) \in Nat /\ Len(seq) # 0
      /\ DOMAIN seq = 1 .. Len(seq)
      /\ Len(Tail(seq)) = Len(seq) - 1
      /\ \A i \in 1 .. Len(seq) - 1 : Tail(seq)[i] = seq[i + 1]
      /\ Head(seq) = seq[1]
  OBVIOUS
<1>2. DOMAIN Tail(seq) = 1 .. Len(seq) - 1
  BY <1>1
<1>3. 1 \in DOMAIN seq /\ Head(seq) \in S
  BY <1>1
<1>4. \A i \in DOMAIN Tail(seq) :
        i \in Nat \ {0} /\ i + 1 \in DOMAIN seq /\ Tail(seq)[i] = seq[i + 1]
  BY <1>1, <1>2
<1>5. \A i \in DOMAIN seq : i # 1 =>
        i - 1 \in 1 .. Len(seq) - 1 /\ (i - 1) + 1 = i
  BY <1>1
<1> QED
  BY <1>1, <1>2, <1>3, <1>4, <1>5

LEMMA AppendFacts ==
  ASSUME NEW S, NEW seq \in Seq(S), NEW m \in S
  PROVE  /\ Append(seq, m) \in Seq(S)
         /\ DOMAIN seq \subseteq DOMAIN Append(seq, m)
         /\ DOMAIN seq \subseteq Nat \ {0}
         /\ Len(seq) + 1 \in DOMAIN Append(seq, m)
         /\ Append(seq, m)[Len(seq) + 1] = m
         /\ \A i \in DOMAIN seq :
              i < Len(seq) + 1 /\ Append(seq, m)[i] = seq[i]
         /\ \A i \in DOMAIN Append(seq, m) :
              i \in DOMAIN seq \/ i = Len(seq) + 1
<1>1. /\ Append(seq, m) \in Seq(S)
      /\ Len(seq) \in Nat
      /\ DOMAIN seq = 1 .. Len(seq)
      /\ DOMAIN Append(seq, m) = 1 .. Len(seq) + 1
      /\ \A i \in 1 .. Len(seq) : Append(seq, m)[i] = seq[i]
      /\ Append(seq, m)[Len(seq) + 1] = m
  OBVIOUS
<1> QED
  BY <1>1

LEMMA QueueTail ==
  ASSUME sub_socket \in Seq(RadioMessages), InOrder, sub_socket # <<>>,
         sub_socket' = Tail(sub_socket)
  PROVE  /\ sub_socket' \in Seq(RadioMessages)
         /\ InOrder'
         /\ Queued' \subseteq Queued
         /\ Head(sub_socket) \in RadioMessages
         /\ \A c \in Cookies : Head(sub_socket) = FrameMsg(c) =>
              c \in Queued /\ \A d \in Queued' : OnBus(c) < OnBus(d)
<1>1. /\ sub_socket' \in Seq(RadioMessages)
      /\ Head(sub_socket) = sub_socket[1]
      /\ Head(sub_socket) \in RadioMessages
      /\ 1 \in DOMAIN sub_socket
      /\ \A i \in DOMAIN sub_socket' :
           /\ i \in Nat \ {0} /\ i + 1 \in DOMAIN sub_socket
           /\ sub_socket'[i] = sub_socket[i + 1]
  BY TailFacts
<1>2. InOrder'
  <2> SUFFICES ASSUME NEW i \in DOMAIN sub_socket', NEW j \in DOMAIN sub_socket',
                      NEW c \in Cookies, NEW d \in Cookies,
                      i < j, sub_socket'[i] = FrameMsg(c),
                      sub_socket'[j] = FrameMsg(d)
               PROVE  OnBus(c) < OnBus(d)
    BY DEF InOrder
  <2>1. i + 1 < j + 1
    BY <1>1
  <2> QED
    BY <1>1, <2>1 DEF InOrder
<1>3. Queued' \subseteq Queued
  BY <1>1 DEF Queued, Radio!Queued
<1>4. ASSUME NEW c \in Cookies, Head(sub_socket) = FrameMsg(c)
      PROVE  c \in Queued /\ \A d \in Queued' : OnBus(c) < OnBus(d)
  <2>1. c \in Queued
    BY <1>1, <1>4 DEF Queued, Radio!Queued, FrameMsg
  <2>2. ASSUME NEW d \in Queued'
        PROVE  OnBus(c) < OnBus(d)
    <3>1. PICK i \in DOMAIN sub_socket' : sub_socket'[i] = FrameMsg(d)
      BY DEF Queued, Radio!Queued, FrameMsg
    <3>2. d \in Cookies
      BY DEF Queued, Radio!Queued
    <3>3. 1 < i + 1
      BY <1>1
    <3> QED
      BY <1>1, <1>4, <3>1, <3>2, <3>3 DEF InOrder
  <2> QED
    BY <2>1, <2>2
<1> QED
  BY <1>1, <1>2, <1>3, <1>4

LEMMA QueueAppend ==
  ASSUME sub_socket \in Seq(RadioMessages), InOrder,
         NEW m \in RadioMessages, sub_socket' = Append(sub_socket, m),
         \A c \in Queued, d \in Cookies : m = FrameMsg(d) => OnBus(c) < OnBus(d)
  PROVE  /\ sub_socket' \in Seq(RadioMessages)
         /\ InOrder'
         /\ Queued' = Queued \cup {c \in Cookies : m = FrameMsg(c)}
<1> DEFINE l == Len(sub_socket) + 1
<1>1. /\ sub_socket' \in Seq(RadioMessages)
      /\ DOMAIN sub_socket \subseteq DOMAIN sub_socket'
      /\ DOMAIN sub_socket \subseteq Nat \ {0}
      /\ l \in DOMAIN sub_socket'
      /\ sub_socket'[l] = m
      /\ \A i \in DOMAIN sub_socket : i < l /\ sub_socket'[i] = sub_socket[i]
      /\ \A i \in DOMAIN sub_socket' : i \in DOMAIN sub_socket \/ i = l
  BY AppendFacts
<1>2. l \in Nat
  OBVIOUS
<1> HIDE DEF l
<1>3. InOrder'
  <2> SUFFICES ASSUME NEW i \in DOMAIN sub_socket', NEW j \in DOMAIN sub_socket',
                      NEW c \in Cookies, NEW d \in Cookies,
                      i < j, sub_socket'[i] = FrameMsg(c),
                      sub_socket'[j] = FrameMsg(d)
               PROVE  OnBus(c) < OnBus(d)
    BY DEF InOrder
  <2>1. i \in DOMAIN sub_socket
    BY <1>1, <1>2
  <2>2. CASE j \in DOMAIN sub_socket
    BY <1>1, <2>1, <2>2 DEF InOrder
  <2>3. CASE j = l
    <3>1. c \in Queued
      BY <1>1, <2>1 DEF Queued, Radio!Queued, FrameMsg
    <3> QED
      BY <1>1, <2>3, <3>1
  <2> QED
    BY <1>1, <2>2, <2>3
<1>4. ASSUME NEW c \in Cookies
      PROVE  (\E i \in DOMAIN sub_socket' : sub_socket'[i] = FrameMsg(c))
             <=> (\E i \in DOMAIN sub_socket : sub_socket[i] = FrameMsg(c))
                 \/ m = FrameMsg(c)
  BY <1>1
<1>5. Queued' = Queued \cup {c \in Cookies : m = FrameMsg(c)}
  BY <1>4 DEF Queued, Radio!Queued, FrameMsg
<1> QED
  BY <1>1, <1>3, <1>5

-----------------------------------------------------------------------------
(* What the radio does by itself.                                          *)

heldVars == <<sub_socket, offered, tx_cookie_wait, tx_cookie_in_progress,
              tx_cookie_sent, tx_cookie_dropped, all_sent, all_dropped,
              superseded>>

\* Nothing is offered, nothing that left the line comes back, outcomes stay,
\* and a frame is superseded by one with a later cookie.
RadioMoves ==
  /\ offered' = offered
  /\ InLine' \subseteq InLine
  /\ all_sent \subseteq all_sent'
  /\ all_dropped \subseteq all_dropped'
  /\ \A w \in superseded' \ superseded :
       w \in InLine /\ \E c \in InLine : OnBus(w) < OnBus(c)

LEMMA HeldStill ==
  ASSUME RadioInv, UNCHANGED heldVars
  PROVE  RadioInv' /\ RadioMoves
<1>1. RadioMoves
  BY DEF RadioMoves, heldVars, InLine, Queued, Radio!Queued, Radio!Waiting
<1>2. InOrder' <=> InOrder
  BY DEF InOrder, heldVars
<1>3. RadioType' <=> RadioType
  BY DEF RadioType, heldVars
<1>4. Queued' = Queued /\ InLine' = InLine /\ Gone' = Gone
  BY DEF heldVars, InLine, Gone, Queued, Radio!Queued, Radio!Waiting
<1> QED
  BY <1>1, <1>2, <1>3, <1>4 DEF RadioInv, heldVars

LEMMA LoadFrameMoves ==
  ASSUME RadioInv, NEW c \in Cookies, Radio!LoadFrame(c)
  PROVE  RadioInv' /\ RadioMoves
<1>1. /\ sub_socket # <<>> /\ sub_socket' = Tail(sub_socket)
      /\ Head(sub_socket) = FrameMsg(c)
      /\ tx_cookie_wait' = c
      /\ superseded' = superseded \cup Radio!Waiting(tx_cookie_wait)
      /\ UNCHANGED <<offered, tx_cookie_in_progress, tx_cookie_sent,
                     tx_cookie_dropped, all_sent, all_dropped>>
  BY DEF Radio!LoadFrame, Radio!Receive, Radio!TakeFrame, Radio!idle,
         FrameMsg
<1>2. /\ sub_socket' \in Seq(RadioMessages)
      /\ InOrder'
      /\ Queued' \subseteq Queued
      /\ c \in Queued
      /\ \A d \in Queued' : OnBus(c) < OnBus(d)
  BY <1>1, QueueTail DEF RadioInv, RadioType
<1>3. c # NoCookie /\ NoCookie \notin Cookies
  BY CookieFacts
<1>4. c \notin Queued'
  BY <1>2, CookieFacts
<1>5. InLine' \subseteq InLine
  BY <1>1, <1>2 DEF InLine, Radio!Waiting
<1>6. tx_cookie_wait # NoCookie =>
        /\ tx_cookie_wait \in InLine /\ c \in InLine
        /\ OnBus(tx_cookie_wait) < OnBus(c)
  BY <1>2 DEF RadioInv, InLine, Radio!Waiting
<1>7. RadioMoves
  BY <1>1, <1>5, <1>6 DEF RadioMoves, Radio!Waiting
<1>8. tx_cookie_wait # NoCookie => tx_cookie_wait \notin InLine'
  <2> SUFFICES ASSUME tx_cookie_wait # NoCookie
               PROVE  tx_cookie_wait \notin Queued' /\ tx_cookie_wait # c
    BY <1>1 DEF InLine, Radio!Waiting
  <2>1. \A d \in Queued : OnBus(tx_cookie_wait) < OnBus(d)
    BY DEF RadioInv
  <2>2. tx_cookie_wait \in Cookies
    BY DEF RadioInv, RadioType
  <2> QED
    BY <1>2, <2>1, <2>2, CookieFacts
<1>9. InLine' \cap Gone' = {}
  BY <1>1, <1>5, <1>8 DEF RadioInv, Gone, Radio!Waiting
<1>10. Gone' \subseteq offered' \cup {NoCookie}
  BY <1>1 DEF RadioInv, Gone, InLine, Radio!Waiting
<1>11. RadioType'
  BY <1>1, <1>2 DEF RadioInv, RadioType
<1> QED
  BY <1>1, <1>2, <1>5, <1>7, <1>9, <1>10, <1>11 DEF RadioInv

LEMMA LoadPowerMoves ==
  ASSUME RadioInv, NEW p \in PaPowers, Radio!LoadPower(p)
  PROVE  RadioInv' /\ RadioMoves
<1>1. /\ sub_socket # <<>> /\ sub_socket' = Tail(sub_socket)
      /\ UNCHANGED <<offered, tx_cookie_wait, tx_cookie_in_progress,
                     tx_cookie_sent, tx_cookie_dropped, all_sent,
                     all_dropped, superseded>>
  BY DEF Radio!LoadPower, Radio!Receive, Radio!idle
<1>2. /\ sub_socket' \in Seq(RadioMessages)
      /\ InOrder'
      /\ Queued' \subseteq Queued
  BY <1>1, QueueTail DEF RadioInv, RadioType
<1>3. InLine' \subseteq InLine
  BY <1>1, <1>2 DEF InLine, Radio!Waiting
<1>4. Gone' = Gone
  BY <1>1 DEF Gone
<1>5. RadioMoves
  BY <1>1, <1>3 DEF RadioMoves
<1> QED
  BY <1>1, <1>2, <1>3, <1>4, <1>5 DEF RadioInv, RadioType

\* No publisher of the system sends a malformed message.
LEMMA NoJunk ==
  ASSUME RadioInv
  PROVE  ~Radio!LoadJunk
<1> SUFFICES ASSUME Radio!LoadJunk PROVE FALSE
  OBVIOUS
<1>1. sub_socket # <<>> /\ Head(sub_socket) = Radio!JunkMsg
  BY DEF Radio!LoadJunk, Radio!Receive
<1>2. Head(sub_socket) \in RadioMessages
  BY <1>1, TailFacts DEF RadioInv, RadioType
<1> QED
  BY <1>1, <1>2, RadioMessageKinds DEF RadioMessages

\* A transmission begins, or fails to: the waiting place is left.
LEMMA LeavesWaiting ==
  ASSUME RadioInv, tx_cookie_wait # NoCookie, tx_cookie_wait' = NoCookie,
         UNCHANGED <<sub_socket, offered, tx_cookie_sent, all_sent, superseded>>,
         \/ /\ tx_cookie_in_progress' = tx_cookie_wait
            /\ UNCHANGED <<tx_cookie_dropped, all_dropped>>
         \/ /\ tx_cookie_dropped' = tx_cookie_wait
            /\ all_dropped' = all_dropped \cup {tx_cookie_wait}
            /\ UNCHANGED tx_cookie_in_progress
  PROVE  RadioInv' /\ RadioMoves
<1>1. Queued' = Queued /\ InOrder' /\ sub_socket' \in Seq(RadioMessages)
  BY DEF RadioInv, RadioType, Queued, Radio!Queued, InOrder
<1>2. InLine' = Queued /\ InLine' \subseteq InLine
  BY <1>1 DEF InLine, Radio!Waiting
<1>3. tx_cookie_wait \in InLine /\ tx_cookie_wait \in offered
  BY DEF RadioInv, InLine, Radio!Waiting
<1>4. tx_cookie_wait \notin Queued
  <2>1. \A d \in Queued : OnBus(tx_cookie_wait) < OnBus(d)
    BY DEF RadioInv
  <2> QED
    BY <2>1, CookieFacts DEF RadioInv, RadioType
<1>5. Gone' \subseteq Gone \cup {tx_cookie_wait}
  BY DEF Gone
<1>6. RadioMoves
  BY <1>2 DEF RadioMoves
<1>7. RadioType'
  BY <1>1, <1>3 DEF RadioInv, RadioType
<1> QED
  BY <1>1, <1>2, <1>3, <1>4, <1>5, <1>6, <1>7 DEF RadioInv

\* A transmission ends.
LEMMA LeavesAir ==
  ASSUME RadioInv, tx_cookie_in_progress' = NoCookie,
         UNCHANGED <<sub_socket, offered, tx_cookie_wait, superseded>>,
         \/ /\ tx_cookie_sent' = tx_cookie_in_progress
            /\ all_sent' = all_sent \cup {tx_cookie_in_progress}
            /\ UNCHANGED <<tx_cookie_dropped, all_dropped>>
         \/ /\ tx_cookie_dropped' = tx_cookie_in_progress
            /\ all_dropped' = all_dropped \cup {tx_cookie_in_progress}
            /\ UNCHANGED <<tx_cookie_sent, all_sent>>
  PROVE  RadioInv' /\ RadioMoves
<1>1. Queued' = Queued /\ InOrder' /\ InLine' = InLine
  BY DEF RadioInv, InLine, Queued, Radio!Queued, Radio!Waiting, InOrder
<1>2. Gone' \subseteq Gone \cup {NoCookie}
  BY DEF Gone
<1>3. NoCookie \notin InLine
  BY CookieFacts DEF InLine, Queued, Radio!Queued, Radio!Waiting
<1>4. RadioMoves
  BY <1>1 DEF RadioMoves
<1>5. RadioType'
  BY DEF RadioInv, RadioType
<1> QED
  BY <1>1, <1>2, <1>3, <1>4, <1>5 DEF RadioInv

LEMMA WorkMoves ==
  ASSUME RadioInv, Radio!Work
  PROVE  RadioInv' /\ RadioMoves
<1>1. CASE UNCHANGED heldVars
  BY <1>1, HeldStill
<1>2. CASE Radio!Stop \/ Radio!ConfigureOk \/ Radio!ConfigureFail
           \/ Radio!BeginRx \/ Radio!BeginRxFail
  BY <1>1, <1>2
     DEF Radio!Stop, Radio!ConfigureOk, Radio!ConfigureFail, Radio!BeginRx,
         Radio!BeginRxFail, Radio!quiet, heldVars, Radio!cookieVars,
         Radio!busVars, Radio!fateVars
<1>3. CASE Radio!SkipReport \/ Radio!PollNothing \/ Radio!RxEnds
           \/ Radio!NothingToSend
  BY <1>1, <1>3
     DEF Radio!SkipReport, Radio!PollNothing, Radio!RxEnds, Radio!RxPacket,
         Radio!RxTimeout, Radio!RxError, Radio!NothingToSend, Radio!quiet,
         Radio!reported, heldVars, Radio!cookieVars, Radio!busVars,
         Radio!fateVars
<1>4. CASE Radio!LoadTx
  <2>1. CASE Radio!NoMessage
    BY <1>1, <2>1
       DEF Radio!NoMessage, Radio!quiet, heldVars, Radio!cookieVars,
           Radio!busVars, Radio!fateVars
  <2>2. CASE \E c \in Cookies : Radio!LoadFrame(c)
    BY <2>2, LoadFrameMoves
  <2>3. CASE \E p \in PaPowers : Radio!LoadPower(p)
    BY <2>3, LoadPowerMoves
  <2> QED
    BY <1>4, <2>1, <2>2, <2>3, NoJunk DEF Radio!LoadTx
<1>5. CASE Radio!BeginTx \/ Radio!BeginTxFail
  <2>1. /\ tx_cookie_wait # NoCookie /\ tx_cookie_wait' = NoCookie
        /\ UNCHANGED <<sub_socket, offered, tx_cookie_sent, all_sent,
                       superseded>>
        /\ \/ /\ tx_cookie_in_progress' = tx_cookie_wait
              /\ UNCHANGED <<tx_cookie_dropped, all_dropped>>
           \/ /\ tx_cookie_dropped' = tx_cookie_wait
              /\ all_dropped' = all_dropped \cup {tx_cookie_wait}
              /\ UNCHANGED tx_cookie_in_progress
    BY <1>5 DEF Radio!BeginTx, Radio!BeginTxFail, Radio!ReadyToSend,
                Radio!busVars, Radio!fateVars
  <2> QED
    BY <2>1, LeavesWaiting
<1>6. CASE Radio!TxEnds
  <2>1. Radio!TxDone \/ Radio!DropInProgress
    BY <1>6 DEF Radio!TxEnds, Radio!TxTimedOut, Radio!TxError
  <2>2. /\ tx_cookie_in_progress' = NoCookie
        /\ UNCHANGED <<sub_socket, offered, tx_cookie_wait, superseded>>
        /\ \/ /\ tx_cookie_sent' = tx_cookie_in_progress
              /\ all_sent' = all_sent \cup {tx_cookie_in_progress}
              /\ UNCHANGED <<tx_cookie_dropped, all_dropped>>
           \/ /\ tx_cookie_dropped' = tx_cookie_in_progress
              /\ all_dropped' = all_dropped \cup {tx_cookie_in_progress}
              /\ UNCHANGED <<tx_cookie_sent, all_sent>>
    BY <2>1 DEF Radio!TxDone, Radio!DropInProgress, Radio!sending,
                Radio!busVars
  <2> QED
    BY <2>2, LeavesAir
<1> QED
  BY <1>2, <1>3, <1>4, <1>5, <1>6 DEF Radio!Work

LEMMA RequestPowerMoves ==
  ASSUME RadioInv, NEW p \in PaPowers, Radio!RequestPower(p)
  PROVE  RadioInv' /\ RadioMoves
<1> DEFINE m == Radio!PowerMsg(p)
<1>1. /\ sub_socket' = Append(sub_socket, m)
      /\ UNCHANGED <<offered, tx_cookie_wait, tx_cookie_in_progress,
                     tx_cookie_sent, tx_cookie_dropped, all_sent,
                     all_dropped, superseded>>
  BY DEF Radio!RequestPower, Radio!Deliver, Radio!cookieVars, Radio!fateVars
<1>2. m \in RadioMessages /\ \A d \in Cookies : m # FrameMsg(d)
  BY RadioMessageKinds DEF RadioMessages
<1> HIDE DEF m
<1>3. /\ sub_socket' \in Seq(RadioMessages)
      /\ InOrder'
      /\ Queued' = Queued
  BY <1>1, <1>2, QueueAppend DEF RadioInv, RadioType
<1>4. InLine' = InLine /\ Gone' = Gone
  BY <1>1, <1>3 DEF InLine, Gone, Radio!Waiting
<1> QED
  BY <1>1, <1>3, <1>4 DEF RadioInv, RadioType, RadioMoves

\* The history knows what became of the frames a crash loses.
LEMMA RadioCrashMoves ==
  ASSUME RadioInv, RadioCrash
  PROVE  RadioInv' /\ RadioMoves
<1>1. /\ sub_socket' = <<>>
      /\ tx_cookie_wait' = NoCookie /\ tx_cookie_in_progress' = NoCookie
      /\ tx_cookie_sent' = NoCookie /\ tx_cookie_dropped' = NoCookie
      /\ UNCHANGED <<offered, all_sent, all_dropped, superseded>>
  BY DEF RadioCrash
<1>2. Queued' = {} /\ InOrder' /\ sub_socket' \in Seq(RadioMessages)
  BY <1>1 DEF Queued, Radio!Queued, InOrder
<1>3. InLine' = {} /\ Gone' \subseteq Gone \cup {NoCookie}
  BY <1>1, <1>2 DEF InLine, Gone, Radio!Waiting
<1> QED
  BY <1>1, <1>2, <1>3 DEF RadioInv, RadioType, RadioMoves

-----------------------------------------------------------------------------
(* What server-uslp knows stays true while the radio works.                *)

\* No frame comes back into the line, and outcomes stay.
NothingReturns ==
  /\ offered \subseteq offered'
  /\ InLine' \cap offered \subseteq InLine
  /\ all_sent \subseteq all_sent'
  /\ all_dropped \subseteq all_dropped'

LEMMA MovesReturnNothing == RadioMoves => NothingReturns
BY DEF RadioMoves, NothingReturns

LEMMA TruthStays ==
  ASSUME NothingReturns
  PROVE  \A r : Truthful(r) => Truthful(r)'
BY DEF NothingReturns, Truthful

LEMMA InboxStays ==
  ASSUME InboxInv, NothingReturns, UNCHANGED <<inbox, accepted>>
  PROVE  InboxInv'
<1>1. ASSUME NEW i \in DOMAIN inbox', IsReport(inbox'[i])
      PROVE  Truthful(inbox[i].fields)'
  <2>1. Truthful(inbox[i].fields) /\ inbox' = inbox
    BY <1>1 DEF InboxInv, IsReport
  <2> QED
    BY <2>1 DEF NothingReturns, Truthful
<1>2. UNCHANGED inbox /\ UNCHANGED accepted
  OBVIOUS
<1> QED
  BY <1>1, <1>2 DEF InboxInv, IsReport

LEMMA BooksStay ==
  ASSUME BooksInv, RadioMoves,
         UNCHANGED <<stack, next_cookie, frames_in_wait, accepted,
                     told_radiated, told_failed, cargo>>
  PROVE  BooksInv'
<1>1. OfferedInv'
  BY DEF BooksInv, OfferedInv, RadioMoves
<1>2. StackInv'
  BY DEF BooksInv, StackInv, Uslp!Stacked, Distinct
<1>3. CargoInv'
  BY DEF BooksInv, CargoInv, Uslp!Stacked, RadioMoves
<1>4. EntriesInv(frames_in_wait)'
  BY DEF BooksInv, EntriesInv, RadioMoves
<1>5. LossInv(frames_in_wait, told_failed)'
  BY DEF BooksInv, LossInv, RadioMoves
<1>6. NewestInv'
  BY DEF BooksInv, NewestInv, RadioMoves
<1>7. SupersededInv'
  <2> SUFFICES ASSUME NEW x \in cargo, x.frame \in superseded'
               PROVE  x.parts \subseteq told_failed
    BY DEF SupersededInv
  <2>1. CASE x.frame \in superseded
    BY <2>1 DEF BooksInv, SupersededInv
  <2>2. CASE x.frame \notin superseded
    BY <2>2 DEF BooksInv, NewestInv, RadioMoves
  <2> QED
    BY <2>1, <2>2
<1>8. ToldInv'
  BY DEF BooksInv, ToldInv, RadiatedIsTrue, FrameOf, RadioMoves
<1> QED
  BY <1>1, <1>2, <1>3, <1>4, <1>5, <1>6, <1>7, <1>8 DEF BooksInv

\* Adding a message to the inbox, and taking one.
LEMMA InboxAppend ==
  ASSUME InboxInv, NothingReturns, UNCHANGED accepted,
         NEW m \in UslpMessages, inbox' = Append(inbox, m),
         IsReport(m) => Truthful(m.fields)',
         \A s \in Sdus : m = Uslp!SduMsg(s) =>
           s \notin accepted /\ \A i \in DOMAIN inbox : inbox[i] # m
  PROVE  InboxInv'
<1> DEFINE l == Len(inbox) + 1
<1>1. /\ inbox' \in Seq(UslpMessages)
      /\ l \in DOMAIN inbox'
      /\ inbox'[l] = m
      /\ \A i \in DOMAIN inbox : inbox'[i] = inbox[i]
      /\ \A i \in DOMAIN inbox' : i \in DOMAIN inbox \/ i = l
  BY AppendFacts DEF InboxInv
<1> HIDE DEF l
<1>2. ASSUME NEW i \in DOMAIN inbox', IsReport(inbox'[i])
      PROVE  Truthful(inbox[i].fields)'
  <2>1. CASE i \in DOMAIN inbox
    <3>1. Truthful(inbox[i].fields) /\ inbox'[i] = inbox[i]
      BY <1>1, <1>2, <2>1 DEF InboxInv
    <3> QED
      BY <3>1 DEF NothingReturns, Truthful
  <2>2. CASE i = l
    BY <1>1, <1>2, <2>2 DEF Truthful
  <2> QED
    BY <1>1, <2>1, <2>2
<1>3. ASSUME NEW i \in DOMAIN inbox', NEW s \in Sdus,
             inbox'[i] = Uslp!SduMsg(s)
      PROVE  s \notin accepted'
             /\ \A j \in DOMAIN inbox' : inbox'[j] = Uslp!SduMsg(s) => i = j
  BY <1>1, <1>3 DEF InboxInv
<1> QED
  BY <1>1, <1>2, <1>3 DEF InboxInv, IsReport

Fields == [f \in DOMAIN Radio!TxFields |-> OnBus(Radio!TxFields[f])]

LEMMA FieldsFacts ==
  ASSUME RadioInv, OfferedInv
  PROVE  /\ Fields \in Reports
         /\ Fields.wait = OnBus(tx_cookie_wait)
         /\ Fields.in_progress = OnBus(tx_cookie_in_progress)
         /\ Fields.sent = OnBus(tx_cookie_sent)
         /\ Fields.dropped = OnBus(tx_cookie_dropped)
         /\ Truthful(Fields)
<1>1. Fields = [wait |-> OnBus(tx_cookie_wait),
                in_progress |-> OnBus(tx_cookie_in_progress),
                sent |-> OnBus(tx_cookie_sent),
                dropped |-> OnBus(tx_cookie_dropped)]
  BY DEF Fields, Radio!TxFields
<1>2. /\ offered \subseteq {1} \X (1 .. MaxCookie)
      /\ tx_cookie_wait \in offered \cup {NoCookie}
      /\ tx_cookie_in_progress \in offered \cup {NoCookie}
      /\ tx_cookie_in_progress \notin InLine
      /\ tx_cookie_sent \in all_sent \cup {NoCookie}
      /\ tx_cookie_dropped \in all_dropped \cup {NoCookie}
      /\ all_sent \cup all_dropped \subseteq offered \cup {NoCookie}
  BY DEF RadioInv, RadioType, OfferedInv, InLine, Gone, Radio!Waiting
<1>3. \A c \in offered : OnBus(c) \in 1 .. MaxCookie /\ c = <<1, OnBus(c)>>
  BY <1>2, CookieFacts
<1>4. \A c \in offered \cup {NoCookie} : OnBus(c) \in 0 .. MaxCookie
  BY <1>3, CookieFacts, PathAssumption
<1>5. Fields \in Reports
  BY <1>1, <1>2, <1>4 DEF Reports
<1>6. \A c \in offered \cup {NoCookie} :
        OnBus(c) # 0 => c \in offered /\ c = <<1, OnBus(c)>>
  BY <1>3, CookieFacts
<1>7. /\ OnBus(tx_cookie_sent) # 0 => <<1, OnBus(tx_cookie_sent)>> \in all_sent
      /\ OnBus(tx_cookie_dropped) # 0 =>
           <<1, OnBus(tx_cookie_dropped)>> \in all_dropped
      /\ OnBus(tx_cookie_in_progress) # 0 =>
           <<1, OnBus(tx_cookie_in_progress)>> \in offered \ InLine
  BY <1>2, <1>6, CookieFacts
<1>8. /\ Fields.in_progress = OnBus(tx_cookie_in_progress)
      /\ Fields.sent = OnBus(tx_cookie_sent)
      /\ Fields.dropped = OnBus(tx_cookie_dropped)
  BY <1>1
<1>9. Truthful(Fields)
  BY <1>5, <1>7, <1>8 DEF Truthful
<1> QED
  BY <1>1, <1>5, <1>9

LEMMA InboxTail ==
  ASSUME InboxInv, NothingReturns, inbox # <<>>, inbox' = Tail(inbox),
         accepted' \subseteq
           accepted \cup {s \in Sdus : Head(inbox) = Uslp!SduMsg(s)}
  PROVE  /\ InboxInv'
         /\ Head(inbox) \in UslpMessages
         /\ IsReport(Head(inbox)) => Truthful(Head(inbox).fields)
         /\ \A s \in Sdus : Head(inbox) = Uslp!SduMsg(s) => s \notin accepted
<1>1. /\ inbox' \in Seq(UslpMessages)
      /\ Head(inbox) = inbox[1]
      /\ Head(inbox) \in UslpMessages
      /\ 1 \in DOMAIN inbox
      /\ \A i \in DOMAIN inbox' :
           /\ i \in Nat \ {0} /\ i + 1 \in DOMAIN inbox
           /\ inbox'[i] = inbox[i + 1]
  BY TailFacts DEF InboxInv
<1>2. ASSUME NEW i \in DOMAIN inbox', IsReport(inbox'[i])
      PROVE  Truthful(inbox[i].fields)'
  <2>1. Truthful(inbox[i + 1].fields) /\ inbox'[i] = inbox[i + 1]
    BY <1>1, <1>2 DEF InboxInv
  <2> QED
    BY <2>1 DEF NothingReturns, Truthful
<1>3. ASSUME NEW i \in DOMAIN inbox', NEW s \in Sdus,
             inbox'[i] = Uslp!SduMsg(s)
      PROVE  s \notin accepted'
             /\ \A j \in DOMAIN inbox' : inbox'[j] = Uslp!SduMsg(s) => i = j
  <2>1. /\ i \in Nat \ {0} /\ i + 1 \in DOMAIN inbox
        /\ inbox[i + 1] = Uslp!SduMsg(s)
    BY <1>1, <1>3
  <2>2. /\ s \notin accepted
        /\ \A j \in DOMAIN inbox : inbox[j] = Uslp!SduMsg(s) => i + 1 = j
    BY <2>1 DEF InboxInv
  <2>3. Head(inbox) # Uslp!SduMsg(s)
    BY <1>1, <2>1, <2>2
  <2>4. s \notin accepted'
    BY <2>2, <2>3
  <2>5. ASSUME NEW j \in DOMAIN inbox', inbox'[j] = Uslp!SduMsg(s)
        PROVE  i = j
    <3>1. j \in Nat /\ j + 1 \in DOMAIN inbox /\ inbox[j + 1] = Uslp!SduMsg(s)
      BY <1>1, <2>5
    <3>2. i + 1 = j + 1
      BY <2>2, <3>1
    <3> QED
      BY <2>1, <3>1, <3>2
  <2> QED
    BY <2>4, <2>5
<1> QED
  BY <1>1, <1>2, <1>3 DEF InboxInv, IsReport

-----------------------------------------------------------------------------
(* A step of server-radio.                                                 *)

LEMMA RadioStep ==
  ASSUME FirstInv, RadioInv', RadioMoves, UNCHANGED <<uslpVars, cargo>>
  PROVE  FirstInv'
<1>1. InboxInv'
  BY InboxStays, MovesReturnNothing DEF FirstInv, uslpVars
<1>2. BooksInv'
  BY BooksStay DEF FirstInv, uslpVars
<1> QED
  BY <1>1, <1>2 DEF FirstInv

LEMMA RadioReportsKeeps ==
  ASSUME FirstInv, RadioReports
  PROVE  FirstInv'
<1>1. UNCHANGED heldVars
  BY DEF RadioReports, Radio!ReportTxState, Radio!reported, heldVars,
         Radio!cookieVars, Radio!busVars, Radio!fateVars
<1>2. RadioInv' /\ RadioMoves /\ NothingReturns
  BY <1>1, HeldStill, MovesReturnNothing DEF FirstInv
<1>3. /\ inbox' = Append(inbox, Uslp!StateMsg(Fields))
      /\ UNCHANGED <<stack, next_cookie, frames_in_wait, accepted,
                     told_radiated, told_failed, cargo>>
  BY DEF RadioReports, Uslp!ReportState, Uslp!Publish, Uslp!toldVars, Fields
<1>4. BooksInv'
  BY <1>2, <1>3, BooksStay DEF FirstInv
<1>5. Fields \in Reports /\ Truthful(Fields)
  BY FieldsFacts DEF FirstInv, BooksInv
<1>6. PICK m \in UslpMessages : m = Uslp!StateMsg(Fields)
  BY <1>5 DEF UslpMessages
<1>7. Truthful(m.fields)'
  BY <1>2, <1>5, <1>6, TruthStays, UslpMessageKinds
<1>8. \A s \in Sdus : m # Uslp!SduMsg(s)
  BY <1>6, UslpMessageKinds
<1>9. InboxInv'
  BY <1>2, <1>3, <1>6, <1>7, <1>8, InboxAppend DEF FirstInv
<1> QED
  BY <1>2, <1>4, <1>9 DEF FirstInv

-----------------------------------------------------------------------------
(* A step of server-uslp that leaves the radio alone.                      *)

LEMMA RequestSduKeeps ==
  ASSUME FirstInv, NEW s \in Sdus, RequestSdu(s)
  PROVE  FirstInv'
<1>1. UNCHANGED heldVars
  BY DEF RequestSdu, radioVars, heldVars
<1>2. RadioInv' /\ RadioMoves /\ NothingReturns
  BY <1>1, HeldStill, MovesReturnNothing DEF FirstInv
<1>3. /\ inbox' = Append(inbox, Uslp!SduMsg(s))
      /\ s \notin Uslp!Requested
      /\ UNCHANGED <<stack, next_cookie, frames_in_wait, accepted,
                     told_radiated, told_failed, cargo>>
  BY DEF RequestSdu, Uslp!RequestSdu, Uslp!Publish, Uslp!toldVars
<1>4. BooksInv'
  BY <1>2, <1>3, BooksStay DEF FirstInv
<1> DEFINE m == Uslp!SduMsg(s)
<1>5. m \in UslpMessages /\ ~IsReport(m)
  BY UslpMessageKinds DEF UslpMessages
<1>6. \A t \in Sdus : m = Uslp!SduMsg(t) =>
        t \notin accepted /\ \A i \in DOMAIN inbox : inbox[i] # m
  BY <1>3, UslpMessageKinds DEF Uslp!Requested
<1>7. inbox' = Append(inbox, m) /\ UNCHANGED accepted
  BY <1>3
<1> HIDE DEF m
<1>8. InboxInv'
  BY <1>2, <1>5, <1>6, <1>7, InboxAppend DEF FirstInv
<1> QED
  BY <1>2, <1>4, <1>8 DEF FirstInv

LEMMA EntryType ==
  ASSUME NEW e \in Uslp!Entries
  PROVE  /\ e.cookie \in 1 .. MaxCookie /\ e.cookie # 0
         /\ e.parts \subseteq Uslp!Parts
         /\ e.state \in {"sent_to_radio", "in_wait", "in_progress"}
         /\ e.late \in BOOLEAN
BY PathAssumption DEF Uslp!Entries, Uslp!FrameStates

LEMMA TimePassesKeeps ==
  ASSUME FirstInv, TimePasses
  PROVE  FirstInv'
<1>1. UNCHANGED heldVars
  BY DEF TimePasses, radioVars, heldVars
<1>2. RadioInv' /\ RadioMoves /\ NothingReturns
  BY <1>1, HeldStill, MovesReturnNothing DEF FirstInv
<1>3. PICK e \in frames_in_wait : Uslp!BecomesLate(e)
  BY DEF TimePasses, Uslp!TimePasses
<1> DEFINE l == [e EXCEPT !.late = TRUE]
<1>4. /\ frames_in_wait' = (frames_in_wait \ {e}) \cup {l}
      /\ UNCHANGED <<inbox, stack, next_cookie, accepted, told_radiated,
                     told_failed>>
  BY <1>3 DEF Uslp!BecomesLate, Uslp!toldVars
<1>5. UNCHANGED cargo
  BY DEF TimePasses
<1>6. /\ e \in Uslp!Entries /\ l \in Uslp!Entries
      /\ l.cookie = e.cookie /\ l.parts = e.parts /\ l.state = e.state
  BY DEF FirstInv, BooksInv, EntriesInv, Uslp!Entries
<1>7. Frame(l) = Frame(e)
  BY <1>6 DEF Frame
<1> HIDE DEF l
<1>8. EntriesInv(frames_in_wait)'
  <2>1. EntriesInv(frames_in_wait)
    BY DEF FirstInv, BooksInv
  <2>2. frames_in_wait' \subseteq Uslp!Entries
    BY <1>4, <1>6, <2>1 DEF EntriesInv
  <2>3. ASSUME NEW g \in frames_in_wait'
        PROVE  /\ Frame(g) \in cargo'
               /\ g.state = "in_progress" => <<1, g.cookie>> \notin InLine'
    <3>1. CASE g = l
      BY <1>2, <1>5, <1>6, <1>7, <2>1, <3>1 DEF EntriesInv, RadioMoves
    <3>2. CASE g \in frames_in_wait
      BY <1>2, <1>5, <2>1, <3>2 DEF EntriesInv, RadioMoves
    <3> QED
      BY <1>4, <3>1, <3>2
  <2>4. \A g, h \in frames_in_wait' : g.cookie = h.cookie => g = h
    BY <1>4, <1>6, <2>1 DEF EntriesInv
  <2> QED
    BY <2>2, <2>3, <2>4 DEF EntriesInv
<1>9. LossInv(frames_in_wait, told_failed)'
  BY <1>2, <1>4, <1>5, <1>7
     DEF FirstInv, BooksInv, LossInv, RadioMoves
<1>10. OfferedInv' /\ StackInv' /\ CargoInv'
  BY <1>2, <1>4, <1>5
     DEF FirstInv, BooksInv, OfferedInv, StackInv, CargoInv, Distinct,
         Uslp!Stacked, RadioMoves
<1>11. NewestInv' /\ SupersededInv' /\ ToldInv'
  BY <1>1, <1>2, <1>4, <1>5
     DEF FirstInv, BooksInv, NewestInv, SupersededInv, ToldInv, heldVars,
         RadiatedIsTrue, FrameOf, RadioMoves
<1>12. InboxInv'
  BY <1>2, <1>4, InboxStays DEF FirstInv
<1> QED
  BY <1>2, <1>8, <1>9, <1>10, <1>11, <1>12 DEF FirstInv, BooksInv

\* Late frames are given up.
LEMMA ClearKeeps ==
  ASSUME CargoInv, EntriesInv(frames_in_wait),
         LossInv(frames_in_wait, told_failed), NewestInv, SupersededInv,
         ToldInv, Uslp!ClearFramesQueue, UNCHANGED <<heldVars, cargo>>
  PROVE  /\ EntriesInv(frames_in_wait)'
         /\ LossInv(frames_in_wait, told_failed)'
         /\ NewestInv' /\ SupersededInv' /\ ToldInv'
<1>1. /\ frames_in_wait' = frames_in_wait \ Uslp!Late
      /\ told_radiated' = told_radiated
      /\ told_failed' = told_failed \cup Uslp!PartsOf(Uslp!Late)
  BY DEF Uslp!ClearFramesQueue, Uslp!Tell
<1>2. /\ InLine' = InLine /\ superseded' = superseded /\ all_sent' = all_sent
      /\ cargo' = cargo
  BY DEF heldVars, InLine, Queued, Radio!Queued, Radio!Waiting
<1>3. EntriesInv(frames_in_wait)'
  BY <1>1, <1>2 DEF EntriesInv
<1>4. LossInv(frames_in_wait, told_failed)'
  <2> SUFFICES ASSUME NEW x \in cargo, x.frame \in InLine,
                      ~(x.parts \subseteq told_failed')
               PROVE  \E e \in frames_in_wait' : Frame(e) = x
    BY <1>2 DEF LossInv
  <2>1. PICK e \in frames_in_wait : Frame(e) = x
    BY <1>1 DEF LossInv
  <2>2. x.parts = e.parts
    BY <2>1 DEF Frame
  <2>3. e \notin Uslp!Late
    BY <1>1, <2>2 DEF Uslp!PartsOf
  <2> QED
    BY <1>1, <2>1, <2>3
<1>5. NewestInv' /\ SupersededInv'
  BY <1>1, <1>2 DEF NewestInv, SupersededInv
<1>6. ToldInv'
  BY <1>1, <1>2 DEF ToldInv, RadiatedIsTrue, FrameOf
<1> QED
  BY <1>3, <1>4, <1>5, <1>6

\* A poll that clears late frames and leaves the stack alone.
LEMMA ClearOnly ==
  ASSUME FirstInv, Uslp!ClearFramesQueue, InboxInv',
         UNCHANGED <<radioVars, stack, next_cookie, accepted, cargo>>
  PROVE  FirstInv'
<1>1. UNCHANGED heldVars
  BY DEF radioVars, heldVars
<1>2. RadioInv' /\ RadioMoves
  BY <1>1, HeldStill DEF FirstInv
<1>3. OfferedInv' /\ StackInv' /\ CargoInv'
  BY <1>2
     DEF FirstInv, BooksInv, OfferedInv, StackInv, CargoInv, Distinct,
         Uslp!Stacked, RadioMoves
<1> QED
  BY <1>1, <1>2, <1>3, ClearKeeps DEF FirstInv, BooksInv

LEMMA SplitFacts ==
  ASSUME NEW s \in Sdus, NEW n \in 1 .. MaxParts
  PROVE  /\ Uslp!Split(s, n) \in Seq(Uslp!Parts)
         /\ Distinct(Uslp!Split(s, n))
         /\ \A i \in DOMAIN Uslp!Split(s, n) : Uslp!Split(s, n)[i].sdu = s
<1>1. n \in Nat /\ n <= MaxParts
  BY PathAssumption
<1>2. \A i \in 1 .. n :
        [sdu |-> s, part_no |-> i - 1, final |-> i = n] \in Uslp!Parts
  <2> TAKE i \in 1 .. n
  <2>1. i - 1 \in 0 .. MaxParts - 1
    BY PathAssumption
  <2>2. (i = n) \in BOOLEAN
    OBVIOUS
  <2>3. \A q \in 0 .. MaxParts - 1, b \in BOOLEAN :
          [sdu |-> s, part_no |-> q, final |-> b] \in Uslp!Parts
    BY DEF Uslp!Parts
  <2> QED
    BY <2>1, <2>2, <2>3, Zenon
<1>3. Uslp!Split(s, n) \in [1 .. n -> Uslp!Parts]
  BY <1>2 DEF Uslp!Split
<1>4. Uslp!Split(s, n) \in Seq(Uslp!Parts)
  BY <1>1, <1>3
<1>5. \A i \in 1 .. n : /\ Uslp!Split(s, n)[i].sdu = s
                        /\ Uslp!Split(s, n)[i].part_no = i - 1
  BY DEF Uslp!Split
<1>6. DOMAIN Uslp!Split(s, n) = 1 .. n
  BY DEF Uslp!Split
<1>7. \A i, j \in 1 .. n : i - 1 = j - 1 => i = j
  BY <1>1
<1>8. Distinct(Uslp!Split(s, n))
  BY <1>5, <1>6, <1>7 DEF Distinct
<1> QED
  BY <1>4, <1>5, <1>6, <1>8

\* Two sequences without a common element stay distinct when joined.
LEMMA DistinctConcat ==
  ASSUME NEW S, NEW a \in Seq(S), NEW b \in Seq(S), Distinct(a), Distinct(b),
         \A i \in DOMAIN a, j \in DOMAIN b : a[i] # b[j]
  PROVE  /\ a \o b \in Seq(S)
         /\ Distinct(a \o b)
         /\ \A i \in DOMAIN (a \o b) :
              \/ \E j \in DOMAIN a : (a \o b)[i] = a[j]
              \/ \E j \in DOMAIN b : (a \o b)[i] = b[j]
<1>1. /\ a \o b \in Seq(S)
      /\ Len(a) \in Nat /\ Len(b) \in Nat
      /\ DOMAIN a = 1 .. Len(a) /\ DOMAIN b = 1 .. Len(b)
      /\ DOMAIN (a \o b) = 1 .. Len(a) + Len(b)
      /\ \A i \in 1 .. Len(a) + Len(b) :
           (a \o b)[i] = IF i <= Len(a) THEN a[i] ELSE b[i - Len(a)]
  OBVIOUS
<1>2. \A i \in 1 .. Len(a) + Len(b) :
        IF i <= Len(a) THEN i \in DOMAIN a
        ELSE i - Len(a) \in DOMAIN b
  BY <1>1
<1>3. \A i \in DOMAIN (a \o b) :
        \/ \E j \in DOMAIN a : (a \o b)[i] = a[j]
        \/ \E j \in DOMAIN b : (a \o b)[i] = b[j]
  BY <1>1, <1>2
<1>4. Distinct(a \o b)
  <2> SUFFICES ASSUME NEW i \in 1 .. Len(a) + Len(b),
                      NEW j \in 1 .. Len(a) + Len(b),
                      (a \o b)[i] = (a \o b)[j]
               PROVE  i = j
    BY <1>1 DEF Distinct
  <2>1. CASE i <= Len(a) /\ j <= Len(a)
    BY <1>1, <1>2, <2>1 DEF Distinct
  <2>2. CASE ~(i <= Len(a)) /\ ~(j <= Len(a))
    <3>1. i - Len(a) = j - Len(a)
      BY <1>1, <1>2, <2>2 DEF Distinct
    <3> QED
      BY <1>1, <3>1
  <2>3. CASE i <= Len(a) /\ ~(j <= Len(a))
    BY <1>1, <1>2, <2>3
  <2>4. CASE ~(i <= Len(a)) /\ j <= Len(a)
    BY <1>1, <1>2, <2>4
  <2> QED
    BY <2>1, <2>2, <2>3, <2>4
<1> QED
  BY <1>1, <1>3, <1>4

LEMMA AcceptSduKeeps ==
  ASSUME FirstInv, NEW s \in Sdus, Uslp!AcceptSdu(s),
         UNCHANGED <<radioVars, cargo>>
  PROVE  FirstInv'
<1>1. PICK n \in 1 .. MaxParts : stack' = stack \o Uslp!Split(s, n)
  BY DEF Uslp!AcceptSdu
<1>2. /\ inbox # <<>> /\ inbox' = Tail(inbox) /\ Head(inbox) = Uslp!SduMsg(s)
      /\ accepted' = accepted \cup {s}
      /\ Uslp!ClearFramesQueue
      /\ UNCHANGED next_cookie
  BY DEF Uslp!AcceptSdu, Uslp!Receive
<1>3. UNCHANGED heldVars
  BY DEF radioVars, heldVars
<1>4. RadioInv' /\ RadioMoves /\ NothingReturns
  BY <1>3, HeldStill, MovesReturnNothing DEF FirstInv
<1>5. InboxInv' /\ s \notin accepted
  BY <1>2, <1>4, InboxTail DEF FirstInv
<1> DEFINE S == Uslp!Split(s, n)
<1>6. /\ S \in Seq(Uslp!Parts) /\ Distinct(S)
      /\ \A i \in DOMAIN S : S[i].sdu = s
  BY SplitFacts
<1>7. stack' = stack \o S
  BY <1>1
<1> HIDE DEF S
<1>8. stack \in Seq(Uslp!Parts) /\ Distinct(stack)
      /\ \A i \in DOMAIN stack : stack[i].sdu \in accepted
  BY DEF FirstInv, BooksInv, StackInv, Uslp!Stacked
<1>9. \A i \in DOMAIN stack, j \in DOMAIN S : stack[i] # S[j]
  BY <1>5, <1>6, <1>8
<1>10. /\ stack' \in Seq(Uslp!Parts)
       /\ Distinct(stack')
       /\ \A i \in DOMAIN stack' :
            \/ \E j \in DOMAIN stack : stack'[i] = stack[j]
            \/ \E j \in DOMAIN S : stack'[i] = S[j]
  BY <1>6, <1>7, <1>8, <1>9, DistinctConcat
<1>11. \A p \in Uslp!Stacked' : p \in Uslp!Stacked \/ p.sdu = s
  BY <1>6, <1>10 DEF Uslp!Stacked
<1>12. StackInv'
  <2>1. accepted' \subseteq Sdus
    BY <1>2 DEF FirstInv, BooksInv, StackInv
  <2>2. \A p \in Uslp!Stacked' : p.sdu \in accepted'
    BY <1>2, <1>11 DEF FirstInv, BooksInv, StackInv
  <2>3. Distinct(stack)'
    BY <1>10 DEF Distinct
  <2> QED
    BY <1>10, <2>1, <2>2, <2>3 DEF StackInv
<1>13. CargoInv'
  BY <1>2, <1>4, <1>5, <1>11 DEF FirstInv, BooksInv, CargoInv, RadioMoves
<1>14. OfferedInv'
  BY <1>2, <1>4 DEF FirstInv, BooksInv, OfferedInv, RadioMoves
<1> QED
  BY <1>2, <1>3, <1>4, <1>5, <1>12, <1>13, <1>14, ClearKeeps
     DEF FirstInv, BooksInv

\* Any poll but one that reads a report.
LEMMA QuietPollKeeps ==
  ASSUME FirstInv, UNCHANGED <<radioVars, cargo>>,
         \/ Uslp!PollTimeout \/ Uslp!PollOther
         \/ \E s \in Sdus : Uslp!AcceptSdu(s) \/ Uslp!RejectSdu(s)
  PROVE  FirstInv'
<1>1. UNCHANGED heldVars
  BY DEF radioVars, heldVars
<1>2. NothingReturns
  BY <1>1, HeldStill, MovesReturnNothing DEF FirstInv
<1>3. CASE Uslp!PollTimeout
  <2>1. Uslp!ClearFramesQueue
        /\ UNCHANGED <<inbox, stack, next_cookie, accepted>>
    BY <1>3 DEF Uslp!PollTimeout
  <2>2. InboxInv'
    BY <1>2, <2>1, InboxStays DEF FirstInv
  <2> QED
    BY <2>1, <2>2, ClearOnly
<1>4. CASE Uslp!PollOther \/ \E s \in Sdus : Uslp!RejectSdu(s)
  <2>1. /\ Uslp!ClearFramesQueue
        /\ inbox # <<>> /\ inbox' = Tail(inbox)
        /\ UNCHANGED <<stack, next_cookie, accepted>>
    BY <1>4 DEF Uslp!PollOther, Uslp!RejectSdu, Uslp!Receive
  <2>2. InboxInv'
    BY <1>2, <2>1, InboxTail DEF FirstInv
  <2> QED
    BY <2>1, <2>2, ClearOnly
<1>5. CASE \E s \in Sdus : Uslp!AcceptSdu(s)
  BY <1>5, AcceptSduKeeps
<1> QED
  BY <1>3, <1>4, <1>5

-----------------------------------------------------------------------------
(* Reading a report.                                                       *)

\* What the poll knows of the frames: the fresh ones, those it goes on
\* following, what it tells.
Fresh       == frames_in_wait \ Uslp!Late
Read        == Head(inbox).fields
FollowedNow == Uslp!Followed(Fresh, Read)
RadiatedNow == told_radiated \cup Uslp!PartsOf(Uslp!Radiated(Fresh, Read))
FailedNow   ==
  told_failed \cup Uslp!PartsOf(Uslp!Late \cup Uslp!Failed(Fresh, Read))

LEMMA FollowedFacts ==
  ASSUME frames_in_wait \subseteq Uslp!Entries, Read \in Reports
  PROVE  \A g \in FollowedNow :
           /\ g \in Uslp!Entries
           /\ \E e \in Fresh :
                /\ g = [e EXCEPT !.state = Uslp!NewState(e, Read)]
                /\ g.cookie = e.cookie /\ g.parts = e.parts
                /\ Frame(g) = Frame(e)
                /\ g.state = "in_progress" =>
                     e.state = "in_progress" \/ Read.in_progress = e.cookie
                /\ Read.sent # e.cookie /\ Read.dropped # e.cookie
<1> SUFFICES ASSUME NEW e \in Fresh,
                    e \notin Uslp!Radiated(Fresh, Read)
                             \cup Uslp!Failed(Fresh, Read),
                    NEW g,
                    g = [e EXCEPT !.state = Uslp!NewState(e, Read)]
             PROVE  /\ g \in Uslp!Entries
                    /\ g.cookie = e.cookie /\ g.parts = e.parts
                    /\ Frame(g) = Frame(e)
                    /\ g.state = "in_progress" =>
                         e.state = "in_progress" \/ Read.in_progress = e.cookie
                    /\ Read.sent # e.cookie /\ Read.dropped # e.cookie
  BY DEF FollowedNow, Uslp!Followed
<1>1. e \in Uslp!Entries
  BY DEF Fresh
<1>2. Uslp!NewState(e, Read) \in Uslp!FrameStates
  BY <1>1 DEF Uslp!NewState, Uslp!FrameStates, Uslp!Entries
<1>3. /\ g \in Uslp!Entries
      /\ g.cookie = e.cookie /\ g.parts = e.parts
      /\ g.state = Uslp!NewState(e, Read)
  BY <1>1, <1>2 DEF Uslp!Entries
<1>4. g.state = "in_progress" =>
        e.state = "in_progress" \/ Read.in_progress = e.cookie
  BY <1>3 DEF Uslp!NewState
<1>5. Read.sent # e.cookie /\ Read.dropped # e.cookie
  BY DEF Uslp!Radiated, Uslp!Failed
<1> QED
  BY <1>3, <1>4, <1>5 DEF Frame

\* Of the cargo, the frames found in a report are those it names.
LEMMA FrameOfEntry ==
  ASSUME CargoInv, NEW e, Frame(e) \in cargo, NEW p \in e.parts
  PROVE  FrameOf(p) = {<<1, e.cookie>>}
<1>1. Frame(e).frame = <<1, e.cookie>> /\ p \in Frame(e).parts
  BY DEF Frame
<1>2. \A y \in cargo : p \in y.parts => y = Frame(e)
  BY <1>1 DEF CargoInv
<1> QED
  BY <1>1, <1>2 DEF FrameOf

LEMMA FollowKeeps ==
  ASSUME RadioInv, CargoInv, EntriesInv(frames_in_wait),
         LossInv(frames_in_wait, told_failed), ToldInv, Truthful(Read)
  PROVE  /\ EntriesInv(FollowedNow)
         /\ LossInv(FollowedNow, FailedNow)
         /\ \A p \in RadiatedNow :
              /\ FrameOf(p) \subseteq all_sent
              /\ \E x \in cargo : p \in x.parts
<1>1. /\ frames_in_wait \subseteq Uslp!Entries
      /\ \A e \in frames_in_wait : Frame(e) \in cargo
      /\ \A e \in frames_in_wait : e.cookie # 0
  BY EntryType DEF EntriesInv
<1>2. \A g \in FollowedNow :
        /\ g \in Uslp!Entries
        /\ \E e \in Fresh :
             /\ g = [e EXCEPT !.state = Uslp!NewState(e, Read)]
             /\ g.cookie = e.cookie /\ g.parts = e.parts
             /\ Frame(g) = Frame(e)
             /\ g.state = "in_progress" =>
                  e.state = "in_progress" \/ Read.in_progress = e.cookie
             /\ Read.sent # e.cookie /\ Read.dropped # e.cookie
  BY <1>1, FollowedFacts DEF Truthful
<1>3. Fresh \subseteq frames_in_wait
  BY DEF Fresh
<1>4. EntriesInv(FollowedNow)
  <2>1. FollowedNow \subseteq Uslp!Entries
    BY <1>2
  <2>2. ASSUME NEW g \in FollowedNow
        PROVE  /\ Frame(g) \in cargo
               /\ g.state = "in_progress" => <<1, g.cookie>> \notin InLine
    <3>1. PICK e \in Fresh :
            /\ g.cookie = e.cookie /\ Frame(g) = Frame(e)
            /\ g.state = "in_progress" =>
                 e.state = "in_progress" \/ Read.in_progress = e.cookie
      BY <1>2
    <3>2. e.state = "in_progress" => <<1, e.cookie>> \notin InLine
      BY <1>3 DEF EntriesInv
    <3>3. Read.in_progress = e.cookie => <<1, e.cookie>> \notin InLine
      BY <1>1, <1>3 DEF Truthful
    <3> QED
      BY <1>1, <1>3, <3>1, <3>2, <3>3
  <2>3. ASSUME NEW g \in FollowedNow, NEW h \in FollowedNow,
               g.cookie = h.cookie
        PROVE  g = h
    <3>1. PICK e \in Fresh :
            /\ g = [e EXCEPT !.state = Uslp!NewState(e, Read)]
            /\ g.cookie = e.cookie
      BY <1>2
    <3>2. PICK f \in Fresh :
            /\ h = [f EXCEPT !.state = Uslp!NewState(f, Read)]
            /\ h.cookie = f.cookie
      BY <1>2
    <3>3. e = f
      BY <1>3, <2>3, <3>1, <3>2 DEF EntriesInv
    <3> QED
      BY <3>1, <3>2, <3>3
  <2> QED
    BY <2>1, <2>2, <2>3 DEF EntriesInv
<1>5. LossInv(FollowedNow, FailedNow)
  <2> SUFFICES ASSUME NEW x \in cargo, x.frame \in InLine,
                      ~(x.parts \subseteq FailedNow)
               PROVE  \E g \in FollowedNow : Frame(g) = x
    BY DEF LossInv
  <2>1. PICK e \in frames_in_wait : Frame(e) = x
    BY DEF LossInv, FailedNow
  <2>2. x.parts = e.parts /\ x.frame = <<1, e.cookie>>
    BY <2>1 DEF Frame
  <2>3. e \in Fresh /\ e \notin Uslp!Failed(Fresh, Read)
    BY <2>2 DEF FailedNow, Uslp!PartsOf, Fresh
  <2>4. e \notin Uslp!Radiated(Fresh, Read)
    <3>1. Read.sent # e.cookie
      BY <1>1, <2>2 DEF Truthful, RadioInv, Gone
    <3> QED
      BY <3>1 DEF Uslp!Radiated
  <2> DEFINE g == [e EXCEPT !.state = Uslp!NewState(e, Read)]
  <2>5. g \in FollowedNow
    BY <2>3, <2>4 DEF FollowedNow, Uslp!Followed
  <2>6. Frame(g) = Frame(e)
    BY <1>1 DEF Frame, Uslp!Entries
  <2> QED
    BY <2>1, <2>5, <2>6
<1>6. ASSUME NEW p \in RadiatedNow
      PROVE  /\ FrameOf(p) \subseteq all_sent
             /\ \E x \in cargo : p \in x.parts
  <2>1. CASE p \in told_radiated
    BY <2>1 DEF ToldInv, RadiatedIsTrue
  <2>2. CASE p \notin told_radiated
    <3>1. PICK e \in Fresh : Read.sent = e.cookie /\ p \in e.parts
      BY <2>2 DEF RadiatedNow, Uslp!PartsOf, Uslp!Radiated
    <3>2. <<1, e.cookie>> \in all_sent /\ Frame(e) \in cargo
      BY <1>1, <1>3, <3>1 DEF Truthful
    <3>3. FrameOf(p) = {<<1, e.cookie>>}
      BY <3>1, <3>2, FrameOfEntry
    <3>4. Frame(e).parts = e.parts
      BY DEF Frame
    <3> QED
      BY <3>1, <3>2, <3>3, <3>4
  <2> QED
    BY <2>1, <2>2
<1> QED
  BY <1>4, <1>5, <1>6

LEMMA PollStateFacts ==
  ASSUME Uslp!PollState
  PROVE  /\ inbox # <<>> /\ inbox' = Tail(inbox)
         /\ IsReport(Head(inbox))
         /\ told_radiated' = RadiatedNow
         /\ told_failed' = FailedNow
         /\ UNCHANGED accepted
         /\ \/ Uslp!SendNothing(FollowedNow)
            \/ /\ Uslp!RadioHasRoom(FollowedNow, Read)
               /\ Uslp!SendFrame(FollowedNow)
BY DEF Uslp!PollState, Uslp!Tell, IsReport, Fresh, Read, FollowedNow,
       RadiatedNow, FailedNow

LEMMA NextCookieMoves ==
  ASSUME next_cookie \in 1 .. MaxCookie
  PROVE  /\ Uslp!NextCookie \in 1 .. MaxCookie
         /\ Uslp!NextCookie # next_cookie
         /\ \/ Uslp!NextCookie = 1
            \/ Uslp!NextCookie = next_cookie + 1
BY PathAssumption DEF Uslp!NextCookie

\* A poll that reads a report and sends nothing.
LEMMA ReadOnlyKeeps ==
  ASSUME FirstInv, Uslp!PollState, next_cookie' = next_cookie,
         UNCHANGED <<radioVars, cargo>>
  PROVE  FirstInv'
<1>1. UNCHANGED heldVars
  BY DEF radioVars, heldVars
<1>2. RadioInv' /\ RadioMoves /\ NothingReturns
  BY <1>1, HeldStill, MovesReturnNothing DEF FirstInv
<1>3. /\ inbox # <<>> /\ inbox' = Tail(inbox)
      /\ IsReport(Head(inbox))
      /\ told_radiated' = RadiatedNow
      /\ told_failed' = FailedNow
      /\ UNCHANGED accepted
  BY PollStateFacts
<1>4. frames_in_wait' = FollowedNow /\ UNCHANGED stack
  <2>1. ~Uslp!SendFrame(FollowedNow)
    BY NextCookieMoves
       DEF Uslp!SendFrame, FirstInv, BooksInv, OfferedInv
  <2> QED
    BY <2>1, PollStateFacts DEF Uslp!SendNothing
<1>5. InboxInv' /\ Truthful(Read)
  BY <1>2, <1>3, InboxTail DEF FirstInv, Read
<1>6. /\ EntriesInv(FollowedNow)
      /\ LossInv(FollowedNow, FailedNow)
      /\ \A p \in RadiatedNow :
           /\ FrameOf(p) \subseteq all_sent
           /\ \E x \in cargo : p \in x.parts
  BY <1>5, FollowKeeps DEF FirstInv, BooksInv
<1>7. InLine' = InLine /\ superseded' = superseded /\ all_sent' = all_sent
      /\ cargo' = cargo /\ offered' = offered
  BY <1>1 DEF heldVars, InLine, Queued, Radio!Queued, Radio!Waiting
<1>8. EntriesInv(frames_in_wait)'
  BY <1>4, <1>6, <1>7 DEF EntriesInv
<1>9. LossInv(frames_in_wait, told_failed)'
  BY <1>3, <1>4, <1>6, <1>7 DEF LossInv
<1>10. NewestInv' /\ SupersededInv'
  BY <1>3, <1>7
     DEF FirstInv, BooksInv, NewestInv, SupersededInv, FailedNow
<1>11. ToldInv'
  BY <1>3, <1>6, <1>7 DEF ToldInv, RadiatedIsTrue, FrameOf
<1>12. OfferedInv' /\ StackInv' /\ CargoInv'
  BY <1>3, <1>4, <1>7
     DEF FirstInv, BooksInv, OfferedInv, StackInv, CargoInv, Distinct,
         Uslp!Stacked
<1> QED
  BY <1>2, <1>5, <1>8, <1>9, <1>10, <1>11, <1>12 DEF FirstInv, BooksInv

LEMMA UslpPollsKeeps ==
  ASSUME FirstInv, UslpPolls
  PROVE  FirstInv'
<1>1. Uslp!Poll /\ next_cookie' = next_cookie /\ UNCHANGED <<radioVars, cargo>>
  BY DEF UslpPolls
<1>2. CASE Uslp!PollState
  BY <1>1, <1>2, ReadOnlyKeeps
<1>3. CASE \/ Uslp!PollTimeout \/ Uslp!PollOther
           \/ \E s \in Sdus : Uslp!AcceptSdu(s) \/ Uslp!RejectSdu(s)
  BY <1>1, <1>3, QuietPollKeeps
<1> QED
  BY <1>1, <1>2, <1>3 DEF Uslp!Poll

-----------------------------------------------------------------------------
(* Handing a frame to the radio.                                           *)

\* A sequence without repetitions, cut in two.
LEMMA DistinctCut ==
  ASSUME NEW S, NEW seq \in Seq(S), Distinct(seq), NEW k \in 1 .. Len(seq)
  PROVE  LET rest == SubSeq(seq, k + 1, Len(seq)) IN
         /\ rest \in Seq(S)
         /\ Distinct(rest)
         /\ \A i \in DOMAIN rest :
              \E j \in DOMAIN seq : j > k /\ rest[i] = seq[j]
         /\ \A i \in 1 .. k : i \in DOMAIN seq
         /\ \A i \in 1 .. k, j \in DOMAIN rest : seq[i] # rest[j]
<1> DEFINE rest == SubSeq(seq, k + 1, Len(seq))
<1>1. /\ Len(seq) \in Nat /\ k \in Nat /\ DOMAIN seq = 1 .. Len(seq)
      /\ rest \in Seq(S)
      /\ DOMAIN rest = 1 .. Len(seq) - k
      /\ \A i \in 1 .. Len(seq) - k : rest[i] = seq[k + i]
  OBVIOUS
<1>2. \A i \in 1 .. Len(seq) - k : k + i \in DOMAIN seq /\ k + i > k
  BY <1>1
<1>3. \A i \in 1 .. k : i \in DOMAIN seq
  BY <1>1
<1> HIDE DEF rest
<1>4. Distinct(rest)
  <2> SUFFICES ASSUME NEW i \in 1 .. Len(seq) - k, NEW j \in 1 .. Len(seq) - k,
                      rest[i] = rest[j]
               PROVE  i = j
    BY <1>1 DEF Distinct
  <2>1. k + i = k + j
    BY <1>1, <1>2 DEF Distinct
  <2> QED
    BY <1>1, <2>1
<1>5. \A i \in DOMAIN rest :
        \E j \in DOMAIN seq : j > k /\ rest[i] = seq[j]
  BY <1>1, <1>2
<1>6. ASSUME NEW i \in 1 .. k, NEW j \in DOMAIN rest
      PROVE  seq[i] # rest[j]
  <2>1. PICK l \in DOMAIN seq : l > k /\ rest[j] = seq[l]
    BY <1>5
  <2>2. i # l
    BY <1>1, <2>1
  <2> QED
    BY <1>3, <2>1, <2>2 DEF Distinct
<1> QED
  BY <1>1, <1>3, <1>4, <1>5, <1>6 DEF rest

\* What the poll that sends a frame does.
LEMMA UslpSendsFacts ==
  ASSUME FirstInv, incarnation = 1, UslpSends
  PROVE  \E e \in frames_in_wait', k \in 1 .. Len(stack) :
           /\ e = [cookie |-> next_cookie,
                   parts |-> {stack[i] : i \in 1 .. k},
                   state |-> "sent_to_radio", late |-> FALSE]
           /\ Frame(e) = [frame |-> <<1, next_cookie>>,
                          parts |-> {stack[i] : i \in 1 .. k}]
           /\ frames_in_wait' = FollowedNow \cup {e}
           /\ stack' = SubSeq(stack, k + 1, Len(stack))
           /\ next_cookie' = Uslp!NextCookie
           /\ Uslp!RadioHasRoom(FollowedNow, Read)
           /\ cargo' = cargo \cup {Frame(e)}
           /\ EntriesInv(FollowedNow)
           /\ LossInv(FollowedNow, FailedNow)
           /\ \A p \in RadiatedNow :
                /\ FrameOf(p) \subseteq all_sent
                /\ \E x \in cargo : p \in x.parts
<1>1. /\ inbox # <<>> /\ inbox' = Tail(inbox)
      /\ IsReport(Head(inbox))
      /\ \/ Uslp!SendNothing(FollowedNow)
         \/ /\ Uslp!RadioHasRoom(FollowedNow, Read)
            /\ Uslp!SendFrame(FollowedNow)
  BY PollStateFacts DEF UslpSends
<1>2. Head(inbox) \in UslpMessages /\ Truthful(Read)
  <2>1. /\ 1 \in DOMAIN inbox /\ Head(inbox) = inbox[1]
        /\ Head(inbox) \in UslpMessages
    BY <1>1, TailFacts DEF FirstInv, InboxInv
  <2> QED
    BY <1>1, <2>1 DEF FirstInv, InboxInv, Read
<1>3. /\ EntriesInv(FollowedNow)
      /\ LossInv(FollowedNow, FailedNow)
      /\ \A p \in RadiatedNow :
           /\ FrameOf(p) \subseteq all_sent
           /\ \E x \in cargo : p \in x.parts
  BY <1>2, FollowKeeps DEF FirstInv, BooksInv
<1>4. PICK e \in frames_in_wait' :
        /\ e.cookie = next_cookie
        /\ cargo' = cargo \cup {[frame |-> <<1, e.cookie>>, parts |-> e.parts]}
  BY DEF UslpSends
<1>5. <<1, next_cookie>> \notin offered
  BY DEF UslpSends, Radio!OfferFrame
<1>6. e \notin FollowedNow
  <2>1. Frame(e).frame = <<1, e.cookie>>
    BY DEF Frame
  <2> QED
    BY <1>3, <1>4, <1>5, <2>1
       DEF EntriesInv, FirstInv, BooksInv, CargoInv
<1>7. /\ Uslp!RadioHasRoom(FollowedNow, Read)
      /\ Uslp!SendFrame(FollowedNow)
  BY <1>1, <1>6 DEF Uslp!SendNothing
<1>8. PICK k \in 1 .. Len(stack) :
        /\ frames_in_wait' = FollowedNow \cup
             {[cookie |-> next_cookie,
               parts |-> {stack[i] : i \in 1 .. k},
               state |-> "sent_to_radio", late |-> FALSE]}
        /\ stack' = SubSeq(stack, k + 1, Len(stack))
        /\ next_cookie' = Uslp!NextCookie
  BY <1>7 DEF Uslp!SendFrame
<1>9. e = [cookie |-> next_cookie,
           parts |-> {stack[i] : i \in 1 .. k},
           state |-> "sent_to_radio", late |-> FALSE]
  BY <1>6, <1>8
<1>10. Frame(e) = [frame |-> <<1, next_cookie>>,
                   parts |-> {stack[i] : i \in 1 .. k}]
  BY <1>9 DEF Frame
<1>11. frames_in_wait' = FollowedNow \cup {e}
  BY <1>8, <1>9
<1>12. cargo' = cargo \cup {Frame(e)}
  BY <1>4 DEF Frame
<1> QED
  BY <1>3, <1>7, <1>8, <1>9, <1>10, <1>11, <1>12

\* What it does to the radio's queue.
LEMMA OfferKeeps ==
  ASSUME RadioInv, OfferedInv,
         Radio!OfferFrame(<<1, next_cookie>>),
         next_cookie' = Uslp!NextCookie
  PROVE  LET c == <<1, next_cookie>> IN
         /\ RadioInv' /\ OfferedInv' /\ NothingReturns
         /\ c \notin offered
         /\ offered' = offered \cup {c}
         /\ InLine' = InLine \cup {c}
         /\ \A d \in InLine : OnBus(d) < OnBus(c)
         /\ UNCHANGED <<all_sent, superseded>>
<1> DEFINE c == <<1, next_cookie>>
           m == FrameMsg(c)
<1>1. /\ c \notin offered
      /\ offered' = offered \cup {c}
      /\ sub_socket' = Append(sub_socket, m)
      /\ UNCHANGED <<tx_cookie_wait, tx_cookie_in_progress, tx_cookie_sent,
                     tx_cookie_dropped, all_sent, all_dropped, superseded>>
  BY DEF Radio!OfferFrame, Radio!Deliver, Radio!cookieVars, Radio!fateVars,
         FrameMsg
<1>2. /\ next_cookie \in 1 .. MaxCookie
      /\ offered = {1} \X (1 .. next_cookie - 1)
  BY <1>1 DEF OfferedInv
<1>3. /\ c \in {1} \X (1 .. MaxCookie)
      /\ c \in Cookies /\ c # NoCookie /\ OnBus(c) = next_cookie
  BY <1>2, CookieFacts DEF OnBus
<1>4. \A d \in offered : OnBus(d) \in 1 .. MaxCookie /\ OnBus(d) < OnBus(c)
  <2>1. \A d \in offered : OnBus(d) \in 1 .. next_cookie - 1
    BY <1>2 DEF OnBus
  <2>2. next_cookie \in Nat /\ next_cookie <= MaxCookie /\ MaxCookie \in Nat
    BY <1>2, PathAssumption
  <2> HIDE DEF c
  <2> QED
    BY <1>3, <2>1, <2>2
<1>5. OfferedInv'
  <2>1. next_cookie' \in 1 .. MaxCookie
        /\ (next_cookie' = 1 \/ next_cookie' = next_cookie + 1)
    BY <1>2, NextCookieMoves
  <2>2. offered' \subseteq {1} \X (1 .. MaxCookie)
    BY <1>1, <1>3 DEF OfferedInv
  <2>3. CASE next_cookie' = 1
    <3>1. <<1, 1>> \in offered'
      BY <1>1, <1>2
    <3> QED
      BY <2>1, <2>2, <2>3, <3>1 DEF OfferedInv
  <2>4. CASE next_cookie' = next_cookie + 1
    <3>1. offered' = {1} \X (1 .. next_cookie' - 1)
      BY <1>1, <1>2, <2>4
    <3> QED
      BY <2>1, <2>2, <3>1 DEF OfferedInv
  <2> QED
    BY <2>1, <2>3, <2>4
<1>6. m \in RadioMessages /\ \A d \in Cookies : m = FrameMsg(d) <=> c = d
  BY <1>3, RadioMessageKinds DEF RadioMessages
<1>7. Queued \subseteq offered
  BY DEF RadioInv, InLine
<1> HIDE DEF m
<1>8. /\ sub_socket' \in Seq(RadioMessages)
      /\ InOrder'
      /\ Queued' = Queued \cup {d \in Cookies : m = FrameMsg(d)}
  <2>1. \A b \in Queued, d \in Cookies : m = FrameMsg(d) => OnBus(b) < OnBus(d)
    BY <1>4, <1>6, <1>7
  <2> QED
    BY <1>1, <1>6, <2>1, QueueAppend DEF RadioInv, RadioType
<1>9. Queued' = Queued \cup {c}
  BY <1>3, <1>6, <1>8
<1> HIDE DEF c
<1>10. InLine' = InLine \cup {c} /\ InLine \subseteq offered
  BY <1>1, <1>9 DEF InLine, Radio!Waiting, RadioInv
<1>11. \A d \in InLine : OnBus(d) < OnBus(c)
  BY <1>4, <1>10
<1>12. Gone' = Gone
  BY <1>1 DEF Gone
<1>13. tx_cookie_wait # NoCookie => tx_cookie_wait \in InLine
  BY DEF InLine, Radio!Waiting
<1>14. \A d \in Queued' :
         tx_cookie_wait' # NoCookie => OnBus(tx_cookie_wait') < OnBus(d)
  BY <1>1, <1>9, <1>11, <1>13 DEF RadioInv
<1>15. RadioType'
  BY <1>1, <1>8 DEF RadioInv, RadioType
<1>16. /\ InLine' \subseteq offered'
       /\ Gone' \subseteq offered' \cup {NoCookie}
       /\ InLine' \cap Gone' = {}
  BY <1>1, <1>3, <1>10, <1>12 DEF RadioInv
<1>17. RadioInv'
  BY <1>1, <1>8, <1>14, <1>15, <1>16 DEF RadioInv
<1>18. NothingReturns
  BY <1>1, <1>10 DEF NothingReturns
<1> QED
  BY <1>1, <1>5, <1>10, <1>11, <1>17, <1>18 DEF c

LEMMA UslpSendsKeeps ==
  ASSUME FirstInv, incarnation = 1, UslpSends
  PROVE  FirstInv'
<1> DEFINE c == <<1, next_cookie>>
<1>1. PICK e \in frames_in_wait', k \in 1 .. Len(stack) :
        /\ e = [cookie |-> next_cookie,
                parts |-> {stack[i] : i \in 1 .. k},
                state |-> "sent_to_radio", late |-> FALSE]
        /\ Frame(e) = [frame |-> <<1, next_cookie>>,
                       parts |-> {stack[i] : i \in 1 .. k}]
        /\ frames_in_wait' = FollowedNow \cup {e}
        /\ stack' = SubSeq(stack, k + 1, Len(stack))
        /\ next_cookie' = Uslp!NextCookie
        /\ Uslp!RadioHasRoom(FollowedNow, Read)
        /\ cargo' = cargo \cup {Frame(e)}
        /\ EntriesInv(FollowedNow)
        /\ LossInv(FollowedNow, FailedNow)
        /\ \A p \in RadiatedNow :
             /\ FrameOf(p) \subseteq all_sent
             /\ \E x \in cargo : p \in x.parts
  BY UslpSendsFacts
<1>2. /\ inbox # <<>> /\ inbox' = Tail(inbox)
      /\ IsReport(Head(inbox))
      /\ told_radiated' = RadiatedNow
      /\ told_failed' = FailedNow
      /\ UNCHANGED accepted
  BY PollStateFacts DEF UslpSends
<1>3. /\ RadioInv' /\ OfferedInv' /\ NothingReturns
      /\ c \notin offered
      /\ offered' = offered \cup {c}
      /\ InLine' = InLine \cup {c}
      /\ \A d \in InLine : OnBus(d) < OnBus(c)
      /\ UNCHANGED <<all_sent, superseded>>
  <2>1. Radio!OfferFrame(<<1, next_cookie>>)
    BY DEF UslpSends
  <2> QED
    BY <1>1, <2>1, OfferKeeps DEF FirstInv, BooksInv
<1>4. InboxInv'
  BY <1>2, <1>3, InboxTail DEF FirstInv
<1> DEFINE taken == {stack[i] : i \in 1 .. k}
<1>5. /\ stack' \in Seq(Uslp!Parts)
      /\ Distinct(stack')
      /\ Uslp!Stacked' \subseteq Uslp!Stacked
      /\ taken \subseteq Uslp!Stacked
      /\ taken \cap Uslp!Stacked' = {}
  <2>1. stack \in Seq(Uslp!Parts) /\ Distinct(stack)
    BY DEF FirstInv, BooksInv, StackInv
  <2>2. /\ stack' \in Seq(Uslp!Parts)
        /\ Distinct(stack')
        /\ \A i \in DOMAIN stack' :
             \E j \in DOMAIN stack : j > k /\ stack'[i] = stack[j]
        /\ \A i \in 1 .. k : i \in DOMAIN stack
        /\ \A i \in 1 .. k, j \in DOMAIN stack' : stack[i] # stack'[j]
    BY <1>1, <2>1, DistinctCut
  <2> QED
    BY <2>2 DEF Uslp!Stacked
<1>6. /\ Frame(e).frame = c /\ Frame(e).parts = taken
      /\ e.parts = taken /\ e.cookie = next_cookie
      /\ e.state = "sent_to_radio" /\ e.late = FALSE
  <2>1. /\ e = [cookie |-> next_cookie, parts |-> taken,
                state |-> "sent_to_radio", late |-> FALSE]
        /\ Frame(e) = [frame |-> c, parts |-> taken]
    BY <1>1
  <2> HIDE DEF taken, c
  <2> QED
    BY <2>1
<1>7. e \in Uslp!Entries
  <2>1. taken \subseteq Uslp!Parts
    <3>1. \A i \in DOMAIN stack : stack[i] \in Uslp!Parts
      BY DEF FirstInv, BooksInv, StackInv
    <3> QED
      BY <1>5, <3>1 DEF Uslp!Stacked
  <2>2. next_cookie \in 1 .. MaxCookie
    BY DEF FirstInv, BooksInv, OfferedInv
  <2> QED
    BY <1>1, <2>1, <2>2 DEF Uslp!Entries, Uslp!FrameStates
<1> HIDE DEF taken, c
<1>8. StackInv'
  <2>1. Distinct(stack)'
    BY <1>5 DEF Distinct
  <2> QED
    BY <1>2, <1>5, <2>1 DEF FirstInv, BooksInv, StackInv
<1>9. CargoInv'
  <2>1. CargoInv /\ \A p \in Uslp!Stacked : p.sdu \in accepted
    BY DEF FirstInv, BooksInv, StackInv
  <2>2. ASSUME NEW x \in cargo'
        PROVE  /\ x.frame \in offered'
               /\ \A p \in x.parts : p.sdu \in accepted' /\ p \notin Uslp!Stacked'
    <3>1. CASE x \in cargo
      BY <1>2, <1>3, <1>5, <2>1, <3>1 DEF CargoInv
    <3>2. CASE x = Frame(e)
      BY <1>2, <1>3, <1>5, <1>6, <2>1, <3>2
    <3> QED
      BY <1>1, <3>1, <3>2
  <2>3. \A x \in cargo : x.frame # c /\ x.parts \cap taken = {}
    BY <1>3, <1>5, <2>1 DEF CargoInv
  <2>4. \A x, y \in cargo' : x.frame = y.frame => x = y
    BY <1>1, <1>6, <2>1, <2>3 DEF CargoInv
  <2>5. \A x, y \in cargo' : x.parts \cap y.parts # {} => x = y
    BY <1>1, <1>6, <2>1, <2>3 DEF CargoInv
  <2> QED
    BY <2>2, <2>4, <2>5 DEF CargoInv
<1>10. \A g \in FollowedNow :
         /\ Frame(g) \in cargo
         /\ <<1, g.cookie>> \in offered
         /\ g.state = "in_progress"
         /\ <<1, g.cookie>> \notin InLine
  <2> TAKE g \in FollowedNow
  <2>1. Frame(g) \in cargo /\ Frame(g).frame = <<1, g.cookie>>
    BY <1>1 DEF EntriesInv, Frame
  <2>2. <<1, g.cookie>> \in offered
    BY <2>1 DEF FirstInv, BooksInv, CargoInv
  <2>3. g.state = "in_progress"
    BY <1>1, EntryType DEF EntriesInv, Uslp!RadioHasRoom
  <2>4. <<1, g.cookie>> \notin InLine
    BY <1>1, <2>3 DEF EntriesInv
  <2> QED
    BY <2>1, <2>2, <2>3, <2>4
<1>11. EntriesInv(frames_in_wait)'
  <2>1. frames_in_wait' \subseteq Uslp!Entries
    BY <1>1, <1>7 DEF EntriesInv
  <2>2. ASSUME NEW g \in frames_in_wait'
        PROVE  /\ Frame(g) \in cargo'
               /\ g.state = "in_progress" => <<1, g.cookie>> \notin InLine'
    <3>1. CASE g = e
      BY <1>1, <1>6, <3>1
    <3>2. CASE g \in FollowedNow
      BY <1>1, <1>3, <1>10, <3>2
    <3> QED
      BY <1>1, <3>1, <3>2
  <2>3. \A g \in FollowedNow : g.cookie # e.cookie
    BY <1>3, <1>6, <1>10 DEF c
  <2>4. \A g, h \in frames_in_wait' : g.cookie = h.cookie => g = h
    BY <1>1, <2>3 DEF EntriesInv
  <2> QED
    BY <2>1, <2>2, <2>4 DEF EntriesInv
<1>12. \A x \in cargo : x.frame \in InLine' => x.frame \in InLine
  BY <1>3 DEF FirstInv, BooksInv, CargoInv
<1>13. LossInv(frames_in_wait, told_failed)'
  BY <1>1, <1>2, <1>12 DEF LossInv
<1>14. NewestInv'
  <2> SUFFICES ASSUME NEW x \in cargo', NEW d \in InLine', x.frame \in InLine',
                      OnBus(x.frame) < OnBus(d)
               PROVE  x.parts \subseteq FailedNow
    BY <1>2 DEF NewestInv
  <2>1. x # Frame(e)
    <3>1. OnBus(c) \in Int /\ \A b \in InLine : OnBus(b) \in Int
      BY <1>3, CookieFacts
         DEF c, OnBus, FirstInv, BooksInv, OfferedInv, RadioInv
    <3> QED
      BY <1>3, <1>6, <3>1
  <2>2. x \in cargo /\ x.frame \in InLine
    BY <1>1, <1>12, <2>1
  <2>3. \A g \in FollowedNow : Frame(g) # x
    <3>1. \A g \in FollowedNow : Frame(g).frame = <<1, g.cookie>>
      BY DEF Frame
    <3> QED
      BY <1>10, <2>2, <3>1
  <2> QED
    BY <1>1, <2>2, <2>3 DEF LossInv
<1>15. SupersededInv'
  <2>1. c \notin superseded
    BY <1>3, CookieFacts DEF FirstInv, RadioInv, Gone, c, NoCookie
  <2> QED
    BY <1>1, <1>2, <1>3, <1>6, <2>1
       DEF FirstInv, BooksInv, SupersededInv, FailedNow
<1>16. ToldInv'
  <2>1. ASSUME NEW p \in RadiatedNow
        PROVE  FrameOf(p)' = FrameOf(p) /\ \E x \in cargo' : p \in x.parts
    <3>1. PICK x \in cargo : p \in x.parts
      BY <1>1
    <3>2. p \notin Frame(e).parts
      BY <1>5, <1>6, <3>1 DEF FirstInv, BooksInv, CargoInv
    <3> QED
      BY <1>1, <3>1, <3>2 DEF FrameOf
  <2> QED
    BY <1>1, <1>2, <1>3, <2>1 DEF ToldInv, RadiatedIsTrue
<1> QED
  BY <1>3, <1>4, <1>8, <1>9, <1>11, <1>13, <1>14, <1>15, <1>16
     DEF FirstInv, BooksInv

-----------------------------------------------------------------------------
(* Until server-uslp is restarted.                                         *)

LEMMA PathInit == Init => PathInv
<1> SUFFICES ASSUME Init PROVE FirstInv
  BY DEF Init, PathInv
<1>1. Radio!Init /\ Uslp!Init /\ cargo = {}
  BY DEF Init
<1>2. /\ sub_socket = <<>> /\ offered = {} /\ all_sent = {}
      /\ all_dropped = {} /\ superseded = {}
      /\ tx_cookie_wait = NoCookie /\ tx_cookie_in_progress = NoCookie
      /\ tx_cookie_sent = NoCookie /\ tx_cookie_dropped = NoCookie
  BY <1>1 DEF Radio!Init
<1>3. /\ inbox = <<>> /\ stack = <<>> /\ next_cookie = 1
      /\ frames_in_wait = {} /\ accepted = {} /\ told_radiated = {}
  BY <1>1 DEF Uslp!Init
<1>4. Queued = {} /\ InLine = {} /\ Gone = {NoCookie} /\ InOrder
  BY <1>2
     DEF Queued, Radio!Queued, InLine, Radio!Waiting, Gone, InOrder
<1>5. RadioInv
  BY <1>2, <1>4 DEF RadioInv, RadioType
<1>6. InboxInv
  BY <1>3 DEF InboxInv
<1>7. OfferedInv
  BY <1>2, <1>3, PathAssumption DEF OfferedInv
<1>8. StackInv
  BY <1>3 DEF StackInv, Distinct, Uslp!Stacked
<1>9. CargoInv /\ LossInv(frames_in_wait, told_failed) /\ NewestInv
      /\ SupersededInv
  BY <1>1 DEF CargoInv, LossInv, NewestInv, SupersededInv
<1>10. EntriesInv(frames_in_wait) /\ ToldInv
  BY <1>3 DEF EntriesInv, ToldInv, RadiatedIsTrue
<1> QED
  BY <1>5, <1>6, <1>7, <1>8, <1>9, <1>10 DEF FirstInv, BooksInv

LEMMA PathNext == PathInv /\ [Next]_vars => PathInv'
<1> SUFFICES ASSUME PathInv, [Next]_vars PROVE PathInv'
  OBVIOUS
<1>1. incarnation \in Nat \ {0}
  BY DEF PathInv
<1>2. CASE UslpRestart
  <2>1. incarnation' = incarnation + 1
    BY <1>2 DEF UslpRestart
  <2> QED
    BY <1>1, <2>1 DEF PathInv
<1>3. CASE UNCHANGED incarnation /\ incarnation # 1
  BY <1>3 DEF PathInv
<1>4. CASE UNCHANGED incarnation /\ incarnation = 1
  <2> SUFFICES FirstInv'
    BY <1>4 DEF PathInv
  <2>1. FirstInv
    BY <1>4 DEF PathInv
  <2>2. RadioInv
    BY <2>1 DEF FirstInv
  <2>3. CASE \E s \in Sdus : RequestSdu(s)
    BY <2>1, <2>3, RequestSduKeeps
  <2>4. CASE \E p \in PaPowers : RequestPower(p)
    BY <2>1, <2>2, <2>4, RequestPowerMoves, RadioStep DEF RequestPower
  <2>5. CASE RadioWorks
    BY <2>1, <2>2, <2>5, WorkMoves, RadioStep DEF RadioWorks
  <2>6. CASE RadioReports
    BY <2>1, <2>6, RadioReportsKeeps
  <2>7. CASE UslpSends
    BY <1>4, <2>1, <2>7, UslpSendsKeeps
  <2>8. CASE UslpPolls
    BY <2>1, <2>8, UslpPollsKeeps
  <2>9. CASE TimePasses
    BY <2>1, <2>9, TimePassesKeeps
  <2>10. CASE RadioCrash
    <3>1. UNCHANGED <<uslpVars, cargo>>
      BY <2>10 DEF RadioCrash
    <3> QED
      BY <2>1, <2>2, <2>10, <3>1, RadioCrashMoves, RadioStep
  <2>11. CASE UNCHANGED vars
    <3>1. UNCHANGED <<heldVars, uslpVars, cargo>>
      BY <2>11 DEF vars, radioVars, heldVars
    <3> QED
      BY <2>1, <2>2, <3>1, HeldStill, RadioStep
  <2>12. CASE UslpRestart
    BY <1>1, <1>4, <2>12 DEF UslpRestart
  <2> QED
    BY <2>3, <2>4, <2>5, <2>6, <2>7, <2>8, <2>9, <2>10, <2>11, <2>12
       DEF Next
<1>5. UslpRestart \/ UNCHANGED incarnation
  BY DEF Next, RequestSdu, RequestPower, RadioWorks, RadioReports, UslpSends,
         UslpPolls, TimePasses, RadioCrash, vars
<1> QED
  BY <1>2, <1>3, <1>4, <1>5

\* The books of the first server-uslp, the frames in the radio's hands and the
\* reports under way agree in every reachable state.
THEOREM PathInvariant == Spec => []PathInv
<1>1. Init => PathInv
  BY PathInit
<1>2. PathInv /\ [Next]_vars => PathInv'
  BY PathNext
<1> QED
  BY <1>1, <1>2, PTL DEF Spec

\* Until server-uslp is restarted, clients hear "sdu_radiated" only of parts
\* the radio has sent, however late its reports come and however often the
\* radio crashes (dispatcher.cpp:271-290, server.c:814).
THEOREM RadiatedIsTrueUntilRestart == Spec => []TrueUntilRestart
<1>1. PathInv => TrueUntilRestart
  BY DEF PathInv, FirstInv, BooksInv, ToldInv, TrueUntilRestart
<1> QED
  BY <1>1, PathInvariant, PTL

\* Until server-uslp is restarted, no frame is superseded in the radio before
\* its clients were told that it failed (dispatcher.cpp:336-363,
\* server.c:191-196).
THEOREM LossIsAlwaysTold == Spec => []LossIsTold
<1>1. ASSUME PathInv PROVE LossIsTold
  <2> SUFFICES ASSUME incarnation = 1, NEW p \in Uslp!Parts,
                      FrameOf(p) \cap superseded # {}
               PROVE  p \in told_failed
    BY DEF LossIsTold
  <2>1. SupersededInv
    BY <1>1 DEF PathInv, FirstInv, BooksInv
  <2>2. PICK x \in cargo : p \in x.parts /\ x.frame \in superseded
    BY DEF FrameOf
  <2> QED
    BY <2>1, <2>2 DEF SupersededInv
<1> QED
  BY <1>1, PathInvariant, PTL

-----------------------------------------------------------------------------
(* What server-uslp may rely on: a frame is in one of the four buffers.    *)

\* A frame has one outcome, which it does not have while it is on the air.
FatesInv ==
  /\ tx_cookie_in_progress \in all_sent \cup all_dropped =>
       tx_cookie_in_progress = NoCookie
  /\ all_sent \cap all_dropped \subseteq {NoCookie}

\* How a frame moves on.
FateMoves ==
  \/ UNCHANGED <<tx_cookie_in_progress, all_sent, all_dropped>>
  \/ /\ tx_cookie_in_progress' = NoCookie
     /\ UNCHANGED <<all_sent, all_dropped>>
  \/ /\ tx_cookie_wait # NoCookie
     /\ tx_cookie_in_progress' = tx_cookie_wait
     /\ UNCHANGED <<all_sent, all_dropped>>
  \/ /\ tx_cookie_wait # NoCookie
     /\ all_dropped' = all_dropped \cup {tx_cookie_wait}
     /\ UNCHANGED <<tx_cookie_in_progress, all_sent>>
  \/ /\ tx_cookie_in_progress' = NoCookie
     /\ \/ /\ all_sent' = all_sent \cup {tx_cookie_in_progress}
           /\ UNCHANGED all_dropped
        \/ /\ all_dropped' = all_dropped \cup {tx_cookie_in_progress}
           /\ UNCHANGED all_sent

LEMMA WorkMovesFates ==
  ASSUME RadioInv, Radio!Work
  PROVE  FateMoves
<1>1. CASE Radio!Stop \/ Radio!ConfigureOk \/ Radio!ConfigureFail
           \/ Radio!BeginRx \/ Radio!BeginRxFail
  BY <1>1
     DEF Radio!Stop, Radio!ConfigureOk, Radio!ConfigureFail, Radio!BeginRx,
         Radio!BeginRxFail, Radio!quiet, Radio!cookieVars, Radio!fateVars,
         FateMoves
<1>2. CASE Radio!SkipReport \/ Radio!PollNothing \/ Radio!RxEnds
           \/ Radio!NothingToSend
  BY <1>2
     DEF Radio!SkipReport, Radio!PollNothing, Radio!RxEnds, Radio!RxPacket,
         Radio!RxTimeout, Radio!RxError, Radio!NothingToSend, Radio!quiet,
         Radio!reported, Radio!cookieVars, Radio!fateVars, FateMoves
<1>3. CASE Radio!LoadTx
  BY <1>3, NoJunk
     DEF Radio!LoadTx, Radio!NoMessage, Radio!LoadFrame, Radio!LoadPower,
         Radio!Receive, Radio!TakeFrame, Radio!idle, Radio!quiet,
         Radio!cookieVars, Radio!fateVars, FateMoves
<1>4. CASE Radio!BeginTx \/ Radio!BeginTxFail
  BY <1>4
     DEF Radio!BeginTx, Radio!BeginTxFail, Radio!ReadyToSend, Radio!fateVars,
         FateMoves
<1>5. CASE Radio!TxEnds
  BY <1>5
     DEF Radio!TxEnds, Radio!TxTimedOut, Radio!TxError, Radio!TxDone,
         Radio!DropInProgress, FateMoves
<1> QED
  BY <1>1, <1>2, <1>3, <1>4, <1>5 DEF Radio!Work

LEMMA FatesKept ==
  ASSUME RadioInv, FatesInv, FateMoves
  PROVE  FatesInv'
<1>1. tx_cookie_wait # NoCookie =>
        tx_cookie_wait \notin all_sent \cup all_dropped
                                \cup {tx_cookie_in_progress}
  BY DEF RadioInv, InLine, Gone, Radio!Waiting
<1> QED
  BY <1>1 DEF FatesInv, FateMoves

LEMMA FatesInvariant == Spec => [](incarnation = 1 => FatesInv)
<1>1. Init => FatesInv
  BY DEF Init, Radio!Init, FatesInv
<1>2. ASSUME PathInv, incarnation = 1 => FatesInv, [Next]_vars
      PROVE  (incarnation = 1 => FatesInv)'
  <2>1. CASE UslpRestart
    BY <1>2, <2>1 DEF UslpRestart, PathInv
  <2>2. SUFFICES ASSUME ~UslpRestart, incarnation' = 1 PROVE FatesInv'
    BY <2>1
  <2>3. incarnation = 1
    BY <1>2, <2>2
       DEF Next, RequestSdu, RequestPower, RadioWorks, RadioReports,
           UslpSends, UslpPolls, TimePasses, RadioCrash, vars
  <2>4. RadioInv /\ FatesInv
    BY <1>2, <2>3 DEF PathInv, FirstInv
  <2>5. FateMoves
    <3>1. CASE RadioWorks
      BY <2>4, <3>1, WorkMovesFates DEF RadioWorks
    <3>2. CASE RadioCrash
      BY <3>2 DEF RadioCrash, FateMoves
    <3>3. CASE RadioReports
      BY <3>3
         DEF RadioReports, Radio!ReportTxState, Radio!reported,
             Radio!cookieVars, Radio!fateVars, FateMoves
    <3>4. CASE UslpSends \/ \E p \in PaPowers : RequestPower(p)
      BY <3>4
         DEF UslpSends, RequestPower, Radio!OfferFrame, Radio!RequestPower,
             Radio!Deliver, Radio!cookieVars, Radio!fateVars, FateMoves
    <3>5. CASE UNCHANGED radioVars
      BY <3>5 DEF radioVars, FateMoves
    <3> QED
      BY <1>2, <2>2, <3>1, <3>2, <3>3, <3>4, <3>5
         DEF Next, RequestSdu, UslpPolls, TimePasses, vars
  <2> QED
    BY <2>4, <2>5, FatesKept
<1> QED
  BY <1>1, <1>2, PathInvariant, PTL DEF Spec

\* The report the radio sends is one of those server-uslp was written for.
LEMMA ReportIsExpected ==
  ASSUME FirstInv, FatesInv
  PROVE  Fields \in Uslp!UplinkStates
<1>1. /\ Fields \in Reports
      /\ Fields.wait = OnBus(tx_cookie_wait)
      /\ Fields.in_progress = OnBus(tx_cookie_in_progress)
      /\ Fields.sent = OnBus(tx_cookie_sent)
      /\ Fields.dropped = OnBus(tx_cookie_dropped)
  BY FieldsFacts DEF FirstInv, BooksInv
<1> DEFINE held == offered \cup {NoCookie}
<1>2. /\ tx_cookie_wait \in held /\ tx_cookie_in_progress \in held
      /\ tx_cookie_sent \in held /\ tx_cookie_dropped \in held
  BY DEF FirstInv, RadioInv, RadioType, InLine, Gone, Radio!Waiting
<1>3. \A c, d \in held : OnBus(c) = OnBus(d) => c = d
  <2>1. offered \subseteq {1} \X (1 .. MaxCookie)
    BY DEF FirstInv, BooksInv, OfferedInv
  <2>2. \A c \in offered : OnBus(c) \in 1 .. MaxCookie /\ c = <<1, OnBus(c)>>
    BY <2>1, CookieFacts
  <2>3. OnBus(NoCookie) = 0
    BY CookieFacts
  <2> QED
    BY <2>2, <2>3
<1>4. OnBus(NoCookie) = 0
  BY CookieFacts
<1>5. /\ tx_cookie_wait # NoCookie =>
           tx_cookie_wait \notin {tx_cookie_in_progress, tx_cookie_sent,
                                  tx_cookie_dropped}
      /\ tx_cookie_in_progress # NoCookie =>
           tx_cookie_in_progress \notin {tx_cookie_sent, tx_cookie_dropped}
      /\ tx_cookie_sent # NoCookie => tx_cookie_sent # tx_cookie_dropped
  BY DEF FirstInv, FatesInv, RadioInv, InLine, Gone, Radio!Waiting
<1> HIDE DEF held
<1>6. \A f, g \in {"wait", "in_progress", "sent", "dropped"} :
        f # g /\ Fields[f] # 0 => Fields[f] # Fields[g]
  BY <1>1, <1>2, <1>3, <1>4, <1>5
<1>7. DOMAIN Fields = {"wait", "in_progress", "sent", "dropped"}
  BY <1>1 DEF Reports
<1> QED
  BY <1>1, <1>6, <1>7 DEF Uslp!UplinkStates, Uslp!Null, Reports

\* What UslpDispatcher assumes of the radio's reports is what the radio sends:
\* until it is restarted, server-uslp beside server-radio, which may crash,
\* behaves as UslpDispatcher says, and what is proved of that is true of it
\* (dispatcher.cpp:271-325 against server.c:191-196, 785-826).
THEOREM DispatcherIsServed == Spec /\ [](incarnation = 1) => Uslp!Spec
<1>1. Init => Uslp!Init
  BY DEF Init
<1>2. PathInv /\ incarnation = 1 /\ FatesInv /\ (incarnation = 1)'
        /\ [Next]_vars => [Uslp!Next]_(Uslp!vars)
  <2> SUFFICES ASSUME PathInv, incarnation = 1, FatesInv, incarnation' = 1,
                      [Next]_vars
               PROVE  [Uslp!Next]_(Uslp!vars)
    OBVIOUS
  <2>1. FirstInv
    BY DEF PathInv
  <2>2. CASE \E s \in Sdus : RequestSdu(s)
    BY <2>2 DEF RequestSdu, Uslp!Next, Uslp!Environment
  <2>3. CASE RadioReports
    <3>1. Uslp!ReportState(Fields)
      BY <2>3 DEF RadioReports, Fields
    <3> QED
      BY <2>1, <3>1, ReportIsExpected DEF Uslp!Next, Uslp!Environment
  <2>4. CASE UslpSends
    BY <2>4 DEF UslpSends, Uslp!Next, Uslp!Poll
  <2>5. CASE UslpPolls
    BY <2>5 DEF UslpPolls, Uslp!Next
  <2>6. CASE TimePasses
    BY <2>6 DEF TimePasses, Uslp!Next, Uslp!Environment
  <2>7. CASE UNCHANGED uslpVars
    BY <2>7 DEF uslpVars, Uslp!vars, Uslp!toldVars
  <2>8. ~UslpRestart
    BY DEF UslpRestart, PathInv
  <2> QED
    BY <2>2, <2>3, <2>4, <2>5, <2>6, <2>7, <2>8
       DEF Next, RequestPower, RadioWorks, RadioCrash, vars
<1> QED
  BY <1>1, <1>2, PathInvariant, FatesInvariant, PTL DEF Spec, Uslp!Spec

=============================================================================
