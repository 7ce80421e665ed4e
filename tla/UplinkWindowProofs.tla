------------------------- MODULE UplinkWindowProofs -------------------------
(***************************************************************************)
(* The proof that server-uslp follows few frames: without power requests,  *)
(* each outcome is under way to server-uslp before the radio forgets it.   *)
(***************************************************************************)
EXTENDS UplinkPathProofs

-----------------------------------------------------------------------------
(* The invariant.                                                          *)

Settles(r, n) == r.sent = n \/ r.dropped = n

Outcomes(s, d) == /\ tx_cookie_sent \in {NoCookie, s}
                  /\ tx_cookie_dropped \in {NoCookie, d}

\* The server decides an outcome only when it has published the last one.
FreshInv ==
  /\ tx_cookies_updated \in BOOLEAN
  /\ (tx_cookie_in_progress # NoCookie) <=>
       (op = "tx" /\ pc \in {"jobs", "report", "poll"})
  /\ pc \in {"poll", "decide"} => ~tx_cookies_updated
  /\ ~tx_cookies_updated \/ tx_cookie_in_progress # NoCookie =>
       Outcomes(uplink_state.sent, uplink_state.dropped)
  /\ \/ tx_cookie_sent \in {NoCookie, uplink_state.sent}
     \/ tx_cookie_dropped \in {NoCookie, uplink_state.dropped}
  /\ uplink_state.sent \in all_sent \cup {NoCookie}
  /\ uplink_state.dropped \in all_dropped \cup {NoCookie}

\* No report shows a frame waiting that an earlier one showed on the air.
WaitInv ==
  /\ \A i, j \in DOMAIN inbox :
       /\ i < j /\ IsReport(inbox[i]) /\ IsReport(inbox[j])
       /\ inbox[i].fields.in_progress # 0
       => inbox[j].fields.wait # inbox[i].fields.in_progress
  /\ \A e \in frames_in_wait, i \in DOMAIN inbox :
       e.state = "in_progress" /\ IsReport(inbox[i]) =>
         inbox[i].fields.wait # e.cookie

UnderWay(n) ==
  \E i \in DOMAIN inbox : IsReport(inbox[i]) /\ Settles(inbox[i].fields, n)

\* server-uslp has seen it on the air, or will.
Shown(e) ==
  \/ e.state = "in_progress"
  \/ \E i \in DOMAIN inbox :
       IsReport(inbox[i]) /\ inbox[i].fields.in_progress = e.cookie

LastReported(e) ==
  OnBus(uplink_state.sent) = e.cookie \/ OnBus(uplink_state.dropped) = e.cookie
    => UnderWay(e.cookie)

Newest(e) ==
  e.state # "in_progress" => \A c \in offered : OnBus(c) <= e.cookie

\* Its outcome has been decided and will be told, or is not decided.
Coming(e) ==
  Shown(e) =>
    \/ UnderWay(e.cookie)
    \/ OnBus(tx_cookie_sent) = e.cookie
    \/ OnBus(tx_cookie_dropped) = e.cookie
    \/ OnBus(tx_cookie_in_progress) = e.cookie

\* Its outcome is told before another frame is shown on the air.
Before(e) ==
  e.state = "in_progress" =>
    \A i \in DOMAIN inbox :
      IsReport(inbox[i]) /\ inbox[i].fields.in_progress > e.cookie =>
        \E j \in DOMAIN inbox :
          j <= i /\ IsReport(inbox[j]) /\ Settles(inbox[j].fields, e.cookie)

\* Crashes lost the outcomes of the frames in lost.
WindowOf(lost) ==
  /\ \A e \in frames_in_wait :
       /\ LastReported(e)
       /\ Newest(e)
       /\ e.cookie \notin lost => Coming(e) /\ Before(e)
  /\ \A e, f \in frames_in_wait :
       /\ e.state = "in_progress" /\ e.cookie \notin lost
       /\ f.state = "in_progress" /\ f.cookie \notin lost
       => e = f

WindowInv ==
  /\ crashes \in Nat
  /\ incarnation = 1 =>
       /\ FreshInv
       /\ WaitInv
       /\ \E lost \in SUBSET (0 .. MaxCookie) :
            Cardinality(lost) <= crashes /\ WindowOf(lost)

-----------------------------------------------------------------------------
(* Each outcome is published before the next one.                          *)

\* What happens to the outcomes and the frame on the air while the server
\* publishes nothing: what is overwritten was published.
OutcomeMoves ==
  /\ UNCHANGED uplink_state
  /\ \/ UNCHANGED <<tx_cookie_in_progress, tx_cookie_sent, tx_cookie_dropped>>
     \/ /\ tx_cookie_in_progress = NoCookie
        /\ UNCHANGED <<tx_cookie_sent, tx_cookie_dropped>>
     \/ /\ tx_cookie_dropped \in {NoCookie, uplink_state.dropped}
        /\ UNCHANGED <<tx_cookie_in_progress, tx_cookie_sent>>
     \/ /\ tx_cookie_sent \in {NoCookie, uplink_state.sent}
        /\ tx_cookie_sent' = tx_cookie_in_progress
        /\ UNCHANGED tx_cookie_dropped
     \/ /\ tx_cookie_dropped \in {NoCookie, uplink_state.dropped}
        /\ tx_cookie_dropped' = tx_cookie_in_progress
        /\ UNCHANGED tx_cookie_sent

LEMMA FreshStill ==
  ASSUME FreshInv,
         UNCHANGED <<tx_cookies_updated, tx_cookie_in_progress, tx_cookie_sent,
                     tx_cookie_dropped, uplink_state, all_sent, all_dropped>>,
         \/ UNCHANGED <<pc, op>>
         \/ /\ op' = "tx" /\ pc' \in {"jobs", "report", "poll"}
               <=> op = "tx" /\ pc \in {"jobs", "report", "poll"}
            /\ pc' \in {"poll", "decide"} => ~tx_cookies_updated
  PROVE  FreshInv' /\ OutcomeMoves
BY DEF FreshInv, Outcomes, OutcomeMoves

LEMMA FreshWork ==
  ASSUME RadioInv, FreshInv, PaPowers = {}, Radio!Work
  PROVE  FreshInv' /\ OutcomeMoves
<1>1. CASE Radio!Stop \/ Radio!ConfigureOk \/ Radio!ConfigureFail
           \/ Radio!BeginRx \/ Radio!BeginRxFail \/ Radio!NoMessage
  <2>1. UNCHANGED <<tx_cookies_updated, tx_cookie_in_progress, tx_cookie_sent,
                    tx_cookie_dropped, uplink_state, all_sent, all_dropped>>
    BY <1>1
       DEF Radio!Stop, Radio!ConfigureOk, Radio!ConfigureFail, Radio!BeginRx,
           Radio!BeginRxFail, Radio!NoMessage, Radio!quiet,
           Radio!cookieVars, Radio!fateVars
  <2>2. /\ op' = "tx" /\ pc' \in {"jobs", "report", "poll"}
           <=> op = "tx" /\ pc \in {"jobs", "report", "poll"}
        /\ pc' \notin {"poll", "decide"}
    BY <1>1
       DEF Radio!Stop, Radio!ConfigureOk, Radio!ConfigureFail, Radio!BeginRx,
           Radio!BeginRxFail, Radio!NoMessage
  <2> QED
    BY <2>1, <2>2, FreshStill
<1>2. CASE Radio!SkipReport \/ Radio!PollNothing \/ Radio!RxEnds
           \/ Radio!NothingToSend
  <2>1. UNCHANGED <<tx_cookies_updated, tx_cookie_in_progress, tx_cookie_sent,
                    tx_cookie_dropped, uplink_state, all_sent, all_dropped>>
    BY <1>2
       DEF Radio!SkipReport, Radio!PollNothing, Radio!RxEnds, Radio!RxPacket,
           Radio!RxTimeout, Radio!RxError, Radio!NothingToSend, Radio!quiet,
           Radio!reported, Radio!cookieVars, Radio!fateVars
  <2>2. /\ op' = "tx" /\ pc' \in {"jobs", "report", "poll"}
           <=> op = "tx" /\ pc \in {"jobs", "report", "poll"}
        /\ pc' \in {"poll", "decide"} => ~tx_cookies_updated
    BY <1>2
       DEF FreshInv, Radio!SkipReport, Radio!PollNothing, Radio!RxEnds,
           Radio!RxPacket, Radio!RxTimeout, Radio!RxError,
           Radio!NothingToSend, Radio!quiet, Radio!reported
  <2> QED
    BY <2>1, <2>2, FreshStill
<1>3. ASSUME NEW c \in Cookies, Radio!LoadFrame(c)
      PROVE  FreshInv' /\ OutcomeMoves
  <2>1. /\ pc = "jobs" /\ pc' = "report" /\ tx_cookies_updated' = TRUE
        /\ UNCHANGED <<op, tx_cookie_in_progress, tx_cookie_sent,
                       tx_cookie_dropped, uplink_state, all_sent,
                       all_dropped>>
    BY <1>3 DEF Radio!LoadFrame, Radio!Receive, Radio!TakeFrame, Radio!idle
  <2> QED
    BY <2>1 DEF FreshInv, Outcomes, OutcomeMoves
<1>4. CASE Radio!BeginTx
  <2>1. /\ pc = "decide" /\ pc' = "jobs" /\ op' = "tx"
        /\ tx_cookies_updated' = TRUE
        /\ tx_cookie_wait # NoCookie
        /\ tx_cookie_in_progress' = tx_cookie_wait
        /\ UNCHANGED <<tx_cookie_sent, tx_cookie_dropped, uplink_state,
                       all_sent, all_dropped>>
    BY <1>4 DEF Radio!BeginTx, Radio!ReadyToSend, Radio!fateVars
  <2> QED
    BY <2>1 DEF FreshInv, Outcomes, OutcomeMoves
<1>5. CASE Radio!BeginTxFail
  <2>1. /\ pc = "decide" /\ pc' = "again"
        /\ tx_cookies_updated' = TRUE
        /\ all_dropped \subseteq all_dropped'
        /\ UNCHANGED <<tx_cookie_in_progress, tx_cookie_sent, uplink_state,
                       all_sent>>
    BY <1>5 DEF Radio!BeginTxFail, Radio!ReadyToSend
  <2> QED
    BY <2>1 DEF FreshInv, Outcomes, OutcomeMoves
<1>6. CASE Radio!TxEnds
  <2>1. /\ pc = "poll" /\ pc' \in {"begin_rx", "again"}
        /\ tx_cookies_updated' = TRUE
        /\ tx_cookie_in_progress' = NoCookie
        /\ all_sent \subseteq all_sent' /\ all_dropped \subseteq all_dropped'
        /\ UNCHANGED uplink_state
        /\ \/ /\ tx_cookie_sent' = tx_cookie_in_progress
              /\ UNCHANGED tx_cookie_dropped
           \/ /\ tx_cookie_dropped' = tx_cookie_in_progress
              /\ UNCHANGED tx_cookie_sent
    BY <1>6
       DEF Radio!TxEnds, Radio!TxDone, Radio!TxTimedOut, Radio!TxError,
           Radio!DropInProgress, Radio!sending
  <2> QED
    BY <2>1 DEF FreshInv, Outcomes, OutcomeMoves
<1> QED
  BY <1>1, <1>2, <1>3, <1>4, <1>5, <1>6, NoJunk
     DEF Radio!Work, Radio!LoadTx

LEMMA FreshReport ==
  ASSUME RadioInv, FreshInv, Radio!ReportTxState
  PROVE  /\ FreshInv'
         /\ UNCHANGED <<tx_cookie_in_progress, tx_cookie_sent,
                        tx_cookie_dropped>>
         /\ uplink_state'.sent = tx_cookie_sent
         /\ uplink_state'.dropped = tx_cookie_dropped
<1>1. /\ pc = "report" /\ pc' = "poll" /\ tx_cookies_updated' = FALSE
      /\ uplink_state' = [wait |-> tx_cookie_wait,
                          in_progress |-> tx_cookie_in_progress,
                          sent |-> tx_cookie_sent,
                          dropped |-> tx_cookie_dropped]
      /\ UNCHANGED <<op, tx_cookie_in_progress, tx_cookie_sent,
                     tx_cookie_dropped, all_sent, all_dropped>>
  BY DEF Radio!ReportTxState, Radio!TxFields, Radio!reported,
         Radio!cookieVars, Radio!fateVars
<1>2. /\ uplink_state'.sent = tx_cookie_sent
      /\ uplink_state'.dropped = tx_cookie_dropped
  BY <1>1
<1>3. /\ tx_cookie_sent \in all_sent \cup {NoCookie}
      /\ tx_cookie_dropped \in all_dropped \cup {NoCookie}
  BY DEF RadioInv
<1> QED
  BY <1>1, <1>2, <1>3 DEF FreshInv, Outcomes

LEMMA FreshCrash ==
  ASSUME FreshInv, RadioCrash
  PROVE  FreshInv'
<1>1. /\ pc' = "again" /\ tx_cookies_updated' = FALSE
      /\ tx_cookie_in_progress' = NoCookie
      /\ tx_cookie_sent' = NoCookie /\ tx_cookie_dropped' = NoCookie
      /\ UNCHANGED <<uplink_state, all_sent, all_dropped>>
  BY DEF RadioCrash
<1> QED
  BY <1>1 DEF FreshInv, Outcomes

-----------------------------------------------------------------------------
(* The window while server-uslp works.                                     *)

\* server-uslp takes d messages, and no report comes.
ReportsShift(d) ==
  /\ \A i \in DOMAIN inbox' : IsReport(inbox'[i]) =>
       i \in Nat \ {0} /\ i + d \in DOMAIN inbox /\ inbox[i + d] = inbox'[i]
  /\ \A i \in DOMAIN inbox : IsReport(inbox[i]) =>
       /\ i \in Nat \ {0}
       /\ i > d => i - d \in DOMAIN inbox' /\ inbox'[i - d] = inbox[i]

Reads(d) == d = 1 /\ 1 \in DOMAIN inbox /\ IsReport(inbox[1])

\* The followed frame e goes on as g.
Continues(d, g, e) ==
  /\ g.cookie = e.cookie
  /\ e.state = "in_progress" => g.state = "in_progress"
  /\ Reads(d) => ~Settles(inbox[1].fields, e.cookie)
  /\ g.state = "in_progress" =>
       \/ e.state = "in_progress"
       \/ Reads(d) /\ inbox[1].fields.in_progress = e.cookie

LEMMA ShiftSame ==
  ASSUME InboxInv, UNCHANGED inbox
  PROVE  ReportsShift(0)
<1>1. DOMAIN inbox \subseteq Nat \ {0}
  BY DEF InboxInv
<1>2. \A i \in DOMAIN inbox : i + 0 = i /\ i - 0 = i
  BY <1>1
<1> QED
  BY <1>1, <1>2 DEF ReportsShift

LEMMA ShiftAppend ==
  ASSUME InboxInv, NEW m \in UslpMessages, ~IsReport(m),
         inbox' = Append(inbox, m)
  PROVE  ReportsShift(0)
<1> DEFINE l == Len(inbox) + 1
<1>1. /\ DOMAIN inbox \subseteq Nat \ {0}
      /\ DOMAIN inbox \subseteq DOMAIN inbox'
      /\ inbox'[l] = m
      /\ \A i \in DOMAIN inbox : inbox'[i] = inbox[i]
      /\ \A i \in DOMAIN inbox' : i \in DOMAIN inbox \/ i = l
  BY AppendFacts DEF InboxInv
<1> HIDE DEF l
<1>2. \A i \in DOMAIN inbox : i + 0 = i /\ i - 0 = i
  BY <1>1
<1> QED
  BY <1>1, <1>2 DEF ReportsShift

LEMMA ShiftTail ==
  ASSUME InboxInv, inbox # <<>>, inbox' = Tail(inbox)
  PROVE  ReportsShift(1) /\ Head(inbox) = inbox[1] /\ 1 \in DOMAIN inbox
<1>1. /\ Head(inbox) = inbox[1] /\ 1 \in DOMAIN inbox
      /\ DOMAIN inbox \subseteq Nat \ {0}
      /\ \A i \in DOMAIN inbox' :
           i \in Nat \ {0} /\ i + 1 \in DOMAIN inbox /\ inbox'[i] = inbox[i + 1]
      /\ \A i \in DOMAIN inbox :
           i # 1 => i - 1 \in DOMAIN inbox' /\ inbox'[i - 1] = inbox[i]
  BY TailFacts DEF InboxInv
<1> QED
  BY <1>1 DEF ReportsShift

\* Reports are about frames of this server-uslp.
LEMMA ReportFacts ==
  ASSUME FirstInv, NEW i \in DOMAIN inbox, IsReport(inbox[i])
  PROVE  LET r == inbox[i].fields IN
         /\ r.in_progress \in 0 .. MaxCookie /\ r.wait \in 0 .. MaxCookie
         /\ r.sent # 0 => <<1, r.sent>> \in offered
         /\ r.dropped # 0 => <<1, r.dropped>> \in offered
         /\ r.in_progress # 0 => <<1, r.in_progress>> \in offered
<1>1. Truthful(inbox[i].fields)
  BY DEF FirstInv, InboxInv
<1>2. \A c \in all_sent \cup all_dropped : c \in offered \/ c = NoCookie
  BY DEF FirstInv, RadioInv, Gone
<1>3. \A n : <<1, n>> # NoCookie
  BY DEF NoCookie
<1> QED
  BY <1>1, <1>2, <1>3 DEF Truthful, Reports

LEMMA UnderWayStays ==
  ASSUME NEW d \in {0, 1}, ReportsShift(d), NEW n,
         Reads(d) => ~Settles(inbox[1].fields, n), UnderWay(n)
  PROVE  UnderWay(n)'
<1>1. PICK i \in DOMAIN inbox : IsReport(inbox[i]) /\ Settles(inbox[i].fields, n)
  BY DEF UnderWay
<1>2. i \in Nat \ {0}
  BY <1>1 DEF ReportsShift
<1>3. i > d
  BY <1>1, <1>2 DEF Reads
<1>4. i - d \in DOMAIN inbox' /\ inbox'[i - d] = inbox[i]
  BY <1>1, <1>3 DEF ReportsShift
<1> QED
  BY <1>1, <1>4 DEF UnderWay, IsReport, Settles

LEMMA ContinuesShown ==
  ASSUME NEW d \in {0, 1}, ReportsShift(d), NEW e, NEW g, Continues(d, g, e),
         Shown(g)'
  PROVE  Shown(e)
<1>1. CASE g.state = "in_progress"
  BY <1>1 DEF Continues, Reads, Shown
<1>2. CASE g.state # "in_progress"
  <2>1. PICK i \in DOMAIN inbox' :
          IsReport(inbox'[i]) /\ inbox'[i].fields.in_progress = g.cookie
    BY <1>2 DEF Shown, IsReport
  <2>2. i + d \in DOMAIN inbox /\ inbox[i + d] = inbox'[i]
    BY <2>1 DEF ReportsShift
  <2> QED
    BY <2>1, <2>2 DEF Continues, Shown
<1> QED
  BY <1>1, <1>2

LEMMA BeforeStays ==
  ASSUME FirstInv, NEW d \in {0, 1}, ReportsShift(d),
         NEW e \in frames_in_wait, NEW g, Continues(d, g, e),
         Newest(e), Before(e)
  PROVE  Before(g)'
<1> SUFFICES ASSUME g.state = "in_progress", NEW i \in DOMAIN inbox',
                    IsReport(inbox'[i]),
                    inbox'[i].fields.in_progress > e.cookie
             PROVE  \E j \in DOMAIN inbox' :
                      /\ j <= i /\ IsReport(inbox'[j])
                      /\ Settles(inbox'[j].fields, e.cookie)
  BY DEF Before, Continues, IsReport, Settles
<1>1. /\ i \in Nat \ {0} /\ i + d \in DOMAIN inbox
      /\ inbox[i + d] = inbox'[i]
  BY DEF ReportsShift
<1>2. e.cookie \in 1 .. MaxCookie
  BY EntryType DEF FirstInv, BooksInv, EntriesInv
<1>3. e.state = "in_progress"
  <2> SUFFICES ASSUME e.state # "in_progress" PROVE FALSE
    OBVIOUS
  <2>1. \A c \in offered : OnBus(c) <= e.cookie
    BY DEF Newest
  <2> DEFINE n == inbox[i + d].fields.in_progress
  <2>2. n \in 0 .. MaxCookie /\ n > e.cookie
    BY <1>1, ReportFacts
  <2>3. n # 0
    BY <1>2, <2>2
  <2>4. <<1, n>> \in offered
    BY <1>1, <2>3, ReportFacts
  <2> HIDE DEF n
  <2>5. n <= e.cookie
    BY <2>1, <2>4 DEF OnBus
  <2> QED
    BY <1>2, <2>2, <2>5
<1>4. PICK j \in DOMAIN inbox :
        /\ j <= i + d /\ IsReport(inbox[j])
        /\ Settles(inbox[j].fields, e.cookie)
  BY <1>1, <1>3 DEF Before
<1>5. j \in Nat \ {0}
  BY <1>4 DEF ReportsShift
<1>6. j > d
  BY <1>4, <1>5 DEF Continues, Reads
<1>7. j - d \in DOMAIN inbox' /\ inbox'[j - d] = inbox[j]
  BY <1>4, <1>6 DEF ReportsShift
<1>8. j - d <= i
  BY <1>1, <1>4, <1>5
<1> QED
  BY <1>4, <1>7, <1>8

\* Two frames cannot be on the air for server-uslp, unless a crash lost one.
LEMMA OneInProgress ==
  ASSUME FirstInv, NEW d \in {0, 1}, ReportsShift(d),
         NEW e \in frames_in_wait, NEW f \in frames_in_wait,
         NEW g, NEW h, Continues(d, g, e), Continues(d, h, f),
         g.state = "in_progress", h.state = "in_progress",
         Before(e), Before(f), Newest(e), Newest(f),
         e.state = "in_progress" /\ f.state = "in_progress" => e = f
  PROVE  e.cookie = f.cookie
<1>1. ASSUME NEW a \in frames_in_wait, NEW b \in frames_in_wait,
             a.state = "in_progress", Before(a),
             b.state # "in_progress", Newest(b), Reads(d),
             inbox[1].fields.in_progress = b.cookie,
             ~Settles(inbox[1].fields, a.cookie)
      PROVE  a.cookie = b.cookie
  <2>1. a.cookie \in 1 .. MaxCookie /\ b.cookie \in 1 .. MaxCookie
    BY EntryType DEF FirstInv, BooksInv, EntriesInv
  <2>2. <<1, a.cookie>> \in offered
    BY DEF FirstInv, BooksInv, EntriesInv, CargoInv, Frame
  <2>3. a.cookie <= b.cookie
    BY <1>1, <2>2 DEF Newest, OnBus
  <2>4. ~(b.cookie > a.cookie)
    <3> SUFFICES ASSUME b.cookie > a.cookie PROVE FALSE
      OBVIOUS
    <3>1. PICK j \in DOMAIN inbox :
            /\ j <= 1 /\ IsReport(inbox[j])
            /\ Settles(inbox[j].fields, a.cookie)
      BY <1>1 DEF Before, Reads
    <3>2. j = 1
      BY <3>1 DEF ReportsShift
    <3> QED
      BY <1>1, <3>1, <3>2
  <2> QED
    BY <2>1, <2>3, <2>4
<1>2. CASE e.state = "in_progress" /\ f.state = "in_progress"
  BY <1>2
<1>3. CASE e.state = "in_progress" /\ f.state # "in_progress"
  BY <1>1, <1>3 DEF Continues
<1>4. CASE e.state # "in_progress" /\ f.state = "in_progress"
  <2>1. f.cookie = e.cookie
    BY <1>1, <1>4 DEF Continues
  <2> QED
    BY <2>1
<1>5. CASE e.state # "in_progress" /\ f.state # "in_progress"
  BY <1>5 DEF Continues
<1> QED
  BY <1>2, <1>3, <1>4, <1>5

\* A frame just handed to the radio.
Joins(g) ==
  /\ g.cookie = next_cookie
  /\ g.state = "sent_to_radio"
  /\ <<1, next_cookie>> \notin offered
  /\ \A c \in offered' : OnBus(c) <= next_cookie

LEMMA JoinsFacts ==
  ASSUME FirstInv, FreshInv, NEW d \in {0, 1}, ReportsShift(d),
         UNCHANGED uplink_state, NEW g, Joins(g)
  PROVE  LastReported(g)' /\ Newest(g)' /\ ~Shown(g)'
<1>1. next_cookie \in 1 .. MaxCookie /\ next_cookie # 0
      /\ offered \subseteq {1} \X (1 .. MaxCookie)
  BY PathAssumption DEF FirstInv, BooksInv, OfferedInv
<1>2. \A c \in offered \cup {NoCookie} : OnBus(c) # next_cookie
  <2>1. \A c \in offered : c = <<1, OnBus(c)>>
    BY <1>1, CookieFacts
  <2> QED
    BY <1>1, <2>1, CookieFacts DEF Joins
<1>3. /\ uplink_state.sent \in offered \cup {NoCookie}
      /\ uplink_state.dropped \in offered \cup {NoCookie}
  BY DEF FreshInv, FirstInv, RadioInv, Gone
<1>4. LastReported(g)'
  BY <1>2, <1>3 DEF LastReported, Joins
<1>5. Newest(g)'
  BY DEF Newest, Joins
<1>6. ~Shown(g)'
  <2> SUFFICES ASSUME NEW i \in DOMAIN inbox', IsReport(inbox'[i]),
                      inbox'[i].fields.in_progress = next_cookie
               PROVE  FALSE
    BY DEF Shown, Joins, IsReport
  <2>1. i + d \in DOMAIN inbox /\ inbox[i + d] = inbox'[i]
    BY DEF ReportsShift
  <2> QED
    BY <1>1, <2>1, ReportFacts DEF Joins
<1> QED
  BY <1>4, <1>5, <1>6

LEMMA UslpWindow ==
  ASSUME FirstInv, EntriesInv(frames_in_wait)', FreshInv, WaitInv,
         NEW d \in {0, 1}, ReportsShift(d),
         NEW lost, WindowOf(lost),
         UNCHANGED <<tx_cookie_in_progress, tx_cookie_sent, tx_cookie_dropped,
                     uplink_state>>,
         \A g \in frames_in_wait' :
           \/ /\ \E e \in frames_in_wait : Continues(d, g, e)
              /\ UNCHANGED offered \/ g.state = "in_progress"
           \/ Joins(g)
  PROVE  WaitInv' /\ WindowOf(lost)'
<1>1. ASSUME NEW g \in frames_in_wait', NEW e \in frames_in_wait,
             Continues(d, g, e), UNCHANGED offered \/ g.state = "in_progress"
      PROVE  /\ LastReported(g)'
             /\ Newest(g)'
             /\ g.cookie \notin lost => Coming(g)' /\ Before(g)'
  <2>1. g.cookie = e.cookie
    BY <1>1 DEF Continues
  <2>2. UnderWay(e.cookie) => UnderWay(e.cookie)'
    BY <1>1, UnderWayStays DEF Continues
  <2>3. LastReported(e) /\ Newest(e)
        /\ (e.cookie \notin lost => Coming(e) /\ Before(e))
    BY DEF WindowOf
  <2>4. LastReported(g)'
    BY <2>1, <2>2, <2>3 DEF LastReported, UnderWay
  <2>5. Newest(g)'
    BY <1>1, <2>3 DEF Newest, Continues
  <2>6. Coming(e) => Coming(g)'
    <3> SUFFICES ASSUME Coming(e), Shown(g)'
                 PROVE  \/ UnderWay(e.cookie)'
                        \/ OnBus(tx_cookie_sent) = e.cookie
                        \/ OnBus(tx_cookie_dropped) = e.cookie
                        \/ OnBus(tx_cookie_in_progress) = e.cookie
      BY <2>1 DEF Coming, UnderWay
    <3>1. Shown(e)
      BY <1>1, ContinuesShown
    <3> QED
      BY <2>2, <3>1 DEF Coming
  <2>7. Before(e) => Before(g)'
    BY <1>1, <2>3, BeforeStays
  <2> QED
    BY <2>1, <2>3, <2>4, <2>5, <2>6, <2>7
<1>2. ASSUME NEW g \in frames_in_wait', Joins(g)
      PROVE  /\ LastReported(g)'
             /\ Newest(g)'
             /\ Coming(g)' /\ Before(g)'
  <2>1. LastReported(g)' /\ Newest(g)' /\ ~Shown(g)'
    BY <1>2, JoinsFacts
  <2>2. g.state # "in_progress"
    BY <1>2 DEF Joins
  <2> QED
    BY <2>1, <2>2 DEF Coming, Before
<1>3. ASSUME NEW g \in frames_in_wait', NEW h \in frames_in_wait',
             g.state = "in_progress", g.cookie \notin lost,
             h.state = "in_progress", h.cookie \notin lost
      PROVE  g = h
  <2>1. PICK e \in frames_in_wait : Continues(d, g, e)
    BY <1>3 DEF Joins
  <2>2. PICK f \in frames_in_wait : Continues(d, h, f)
    BY <1>3 DEF Joins
  <2>3. g.cookie = e.cookie /\ h.cookie = f.cookie
    BY <2>1, <2>2 DEF Continues
  <2>4. /\ Before(e) /\ Before(f) /\ Newest(e) /\ Newest(f)
        /\ e.state = "in_progress" /\ f.state = "in_progress" => e = f
    BY <1>3, <2>3 DEF WindowOf
  <2>5. e.cookie = f.cookie
    BY <1>3, <2>1, <2>2, <2>4, OneInProgress
  <2> QED
    BY <2>3, <2>5 DEF EntriesInv
<1>4. WindowOf(lost)'
  BY <1>1, <1>2, <1>3 DEF WindowOf
<1>5. ASSUME NEW i \in DOMAIN inbox', NEW j \in DOMAIN inbox', i < j,
             IsReport(inbox'[i]), IsReport(inbox'[j]),
             inbox'[i].fields.in_progress # 0
      PROVE  inbox'[j].fields.wait # inbox'[i].fields.in_progress
  <2>1. /\ i + d \in DOMAIN inbox /\ inbox[i + d] = inbox'[i]
        /\ j + d \in DOMAIN inbox /\ inbox[j + d] = inbox'[j]
        /\ i \in Nat /\ j \in Nat
    BY <1>5 DEF ReportsShift
  <2>2. i + d < j + d
    BY <1>5, <2>1
  <2> QED
    BY <1>5, <2>1, <2>2 DEF WaitInv
<1>6. ASSUME NEW g \in frames_in_wait', NEW i \in DOMAIN inbox',
             g.state = "in_progress", IsReport(inbox'[i])
      PROVE  inbox'[i].fields.wait # g.cookie
  <2>1. PICK e \in frames_in_wait : Continues(d, g, e)
    BY <1>6 DEF Joins
  <2>2. /\ i + d \in DOMAIN inbox /\ inbox[i + d] = inbox'[i]
        /\ i \in Nat \ {0}
    BY <1>6 DEF ReportsShift
  <2>3. CASE e.state = "in_progress"
    BY <1>6, <2>1, <2>2, <2>3 DEF WaitInv, Continues
  <2>4. CASE e.state # "in_progress"
    <3>1. /\ d = 1 /\ 1 \in DOMAIN inbox /\ IsReport(inbox[1])
          /\ inbox[1].fields.in_progress = e.cookie
      BY <1>6, <2>1, <2>4 DEF Continues, Reads
    <3>2. 1 < i + d
      BY <2>2, <3>1
    <3>3. e.cookie # 0 /\ e.cookie = g.cookie
      BY <2>1, EntryType DEF FirstInv, BooksInv, EntriesInv, Continues
    <3> QED
      BY <1>6, <2>2, <3>1, <3>2, <3>3 DEF WaitInv
  <2> QED
    BY <2>3, <2>4
<1>7. WaitInv'
  BY <1>5, <1>6 DEF WaitInv, IsReport
<1> QED
  BY <1>4, <1>7

-----------------------------------------------------------------------------
(* The window while the radio works, reports and crashes.                  *)

LEMMA WorkWindow ==
  ASSUME FirstInv, OutcomeMoves, WaitInv, NEW lost, WindowOf(lost),
         UNCHANGED <<inbox, frames_in_wait, offered>>
  PROVE  WaitInv' /\ WindowOf(lost)'
<1>1. WaitInv'
  BY DEF WaitInv
<1>2. ASSUME NEW e \in frames_in_wait
      PROVE  /\ LastReported(e)' <=> LastReported(e)
             /\ Newest(e)' <=> Newest(e)
             /\ Before(e)' <=> Before(e)
             /\ Shown(e)' <=> Shown(e)
             /\ UnderWay(e.cookie)' <=> UnderWay(e.cookie)
  BY DEF OutcomeMoves, LastReported, Newest, Before, Shown, UnderWay
<1>3. ASSUME NEW e \in frames_in_wait, Coming(e), LastReported(e)
      PROVE  Coming(e)'
  <2>1. OnBus(NoCookie) # e.cookie
    BY EntryType, CookieFacts DEF FirstInv, BooksInv, EntriesInv
  <2> SUFFICES ASSUME Shown(e), ~UnderWay(e.cookie)
               PROVE  \/ OnBus(tx_cookie_sent') = e.cookie
                      \/ OnBus(tx_cookie_dropped') = e.cookie
                      \/ OnBus(tx_cookie_in_progress') = e.cookie
    BY <1>2 DEF Coming
  <2>2. /\ OnBus(uplink_state.sent) # e.cookie
        /\ OnBus(uplink_state.dropped) # e.cookie
    BY <1>3 DEF LastReported
  <2>3. \/ OnBus(tx_cookie_sent) = e.cookie
        \/ OnBus(tx_cookie_dropped) = e.cookie
        \/ OnBus(tx_cookie_in_progress) = e.cookie
    BY <1>3 DEF Coming
  <2> QED
    BY <2>1, <2>2, <2>3 DEF OutcomeMoves
<1>4. WindowOf(lost)'
  BY <1>2, <1>3 DEF WindowOf
<1> QED
  BY <1>1, <1>4

LEMMA ReportWindow ==
  ASSUME FirstInv, WaitInv, NEW lost, WindowOf(lost),
         NEW m \in UslpMessages, m = Uslp!StateMsg(Fields),
         inbox' = Append(inbox, m),
         uplink_state'.sent = tx_cookie_sent,
         uplink_state'.dropped = tx_cookie_dropped,
         UNCHANGED <<tx_cookie_in_progress, tx_cookie_sent, tx_cookie_dropped,
                     frames_in_wait, offered>>
  PROVE  WaitInv' /\ WindowOf(lost)'
<1> DEFINE l == Len(inbox) + 1
<1>1. /\ DOMAIN inbox \subseteq DOMAIN inbox'
      /\ DOMAIN inbox \subseteq Nat \ {0}
      /\ l \in DOMAIN inbox'
      /\ inbox'[l] = m
      /\ \A i \in DOMAIN inbox : i < l /\ inbox'[i] = inbox[i]
      /\ \A i \in DOMAIN inbox' : i \in DOMAIN inbox \/ i = l
  BY AppendFacts DEF FirstInv, InboxInv
<1>2. l \in Nat
  BY DEF FirstInv, InboxInv
<1> HIDE DEF l
<1>3. IsReport(m) /\ m.fields = Fields
  BY UslpMessageKinds
<1>4. /\ Fields.wait = OnBus(tx_cookie_wait)
      /\ Fields.in_progress = OnBus(tx_cookie_in_progress)
      /\ Fields.sent = OnBus(tx_cookie_sent)
      /\ Fields.dropped = OnBus(tx_cookie_dropped)
  BY FieldsFacts DEF FirstInv, BooksInv
<1>5. \A n : UnderWay(n) \/ OnBus(tx_cookie_sent) = n
               \/ OnBus(tx_cookie_dropped) = n => UnderWay(n)'
  BY <1>1, <1>3, <1>4 DEF UnderWay, Settles, IsReport
<1>6. \A n : n # 0 /\ Fields.wait = n => <<1, n>> \in InLine
  <2>1. tx_cookie_wait # NoCookie =>
          /\ tx_cookie_wait \in InLine
          /\ tx_cookie_wait = <<1, OnBus(tx_cookie_wait)>>
    BY CookieFacts
       DEF FirstInv, RadioInv, BooksInv, OfferedInv, InLine, Radio!Waiting
  <2> QED
    BY <1>4, <2>1, CookieFacts
<1>7. ASSUME NEW e \in frames_in_wait
      PROVE  /\ LastReported(e)'
             /\ Newest(e)' <=> Newest(e)
             /\ Coming(e) => Coming(e)' /\ (Before(e) => Before(e)')
  <2>1. LastReported(e)'
    BY <1>5 DEF LastReported
  <2>2. Newest(e)' <=> Newest(e)
    BY DEF Newest
  <2>3. ASSUME Coming(e)
        PROVE  Coming(e)'
    <3> SUFFICES ASSUME Shown(e)', ~UnderWay(e.cookie)'
                 PROVE  OnBus(tx_cookie_in_progress) = e.cookie
      BY DEF Coming
    <3>1. Shown(e) \/ OnBus(tx_cookie_in_progress) = e.cookie
      BY <1>1, <1>3, <1>4 DEF Shown, IsReport
    <3> QED
      BY <1>5, <2>3, <3>1 DEF Coming
  <2>4. ASSUME Coming(e), Before(e)
        PROVE  Before(e)'
    <3> SUFFICES ASSUME e.state = "in_progress",
                        NEW i \in DOMAIN inbox', IsReport(inbox'[i]),
                        inbox'[i].fields.in_progress > e.cookie
                 PROVE  \E j \in DOMAIN inbox' :
                          /\ j <= i /\ IsReport(inbox'[j])
                          /\ Settles(inbox'[j].fields, e.cookie)
      BY DEF Before, IsReport, Settles
    <3>1. CASE i \in DOMAIN inbox
      <4>1. PICK j \in DOMAIN inbox :
              /\ j <= i /\ IsReport(inbox[j])
              /\ Settles(inbox[j].fields, e.cookie)
        BY <1>1, <2>4, <3>1 DEF Before
      <4> QED
        BY <1>1, <4>1
    <3>2. CASE i = l
      <4>1. e.cookie \in 1 .. MaxCookie
        BY EntryType DEF FirstInv, BooksInv, EntriesInv
      <4>2. OnBus(tx_cookie_in_progress) # e.cookie
        BY <1>1, <1>3, <1>4, <3>2, <4>1
      <4>3. \/ UnderWay(e.cookie)
            \/ OnBus(tx_cookie_sent) = e.cookie
            \/ OnBus(tx_cookie_dropped) = e.cookie
        BY <2>4, <4>2 DEF Coming, Shown
      <4>4. CASE UnderWay(e.cookie)
        <5>1. PICK j \in DOMAIN inbox :
                IsReport(inbox[j]) /\ Settles(inbox[j].fields, e.cookie)
          BY <4>4 DEF UnderWay
        <5> QED
          BY <1>1, <1>2, <3>2, <5>1
      <4>5. CASE Settles(Fields, e.cookie)
        BY <1>1, <1>2, <1>3, <3>2, <4>5
      <4> QED
        BY <1>4, <4>3, <4>4, <4>5 DEF Settles
    <3> QED
      BY <1>1, <3>1, <3>2
  <2> QED
    BY <2>1, <2>2, <2>3, <2>4
<1>8. WindowOf(lost)'
  BY <1>7 DEF WindowOf
<1>9. ASSUME NEW i \in DOMAIN inbox', NEW j \in DOMAIN inbox', i < j,
             IsReport(inbox'[i]), IsReport(inbox'[j]),
             inbox'[i].fields.in_progress # 0
      PROVE  inbox'[j].fields.wait # inbox'[i].fields.in_progress
  <2>1. i \in DOMAIN inbox
    BY <1>1, <1>2, <1>9
  <2>2. CASE j \in DOMAIN inbox
    BY <1>1, <1>9, <2>1, <2>2 DEF WaitInv
  <2>3. CASE j = l
    <3>1. Truthful(inbox[i].fields)
      BY <1>1, <1>9, <2>1 DEF FirstInv, InboxInv
    <3>2. <<1, inbox[i].fields.in_progress>> \notin InLine
      BY <1>1, <1>9, <2>1, <3>1 DEF Truthful
    <3> QED
      BY <1>1, <1>3, <1>6, <1>9, <2>1, <2>3, <3>2
  <2> QED
    BY <1>1, <2>2, <2>3
<1>10. ASSUME NEW e \in frames_in_wait, NEW i \in DOMAIN inbox',
              e.state = "in_progress", IsReport(inbox'[i])
       PROVE  inbox'[i].fields.wait # e.cookie
  <2>1. CASE i \in DOMAIN inbox
    BY <1>1, <1>10, <2>1 DEF WaitInv
  <2>2. CASE i = l
    <3>1. e.cookie # 0 /\ <<1, e.cookie>> \notin InLine
      BY <1>10, EntryType DEF FirstInv, BooksInv, EntriesInv
    <3> QED
      BY <1>1, <1>3, <1>6, <2>2, <3>1
  <2> QED
    BY <1>1, <2>1, <2>2
<1>11. WaitInv'
  BY <1>9, <1>10 DEF WaitInv, IsReport
<1> QED
  BY <1>8, <1>11

\* A crash takes at most one outcome nobody has heard of: on the air, sent or
\* dropped and not published.
LEMMA CrashWindow ==
  ASSUME FirstInv, FreshInv, WaitInv, RadioCrash,
         NEW lost \in SUBSET (0 .. MaxCookie), WindowOf(lost)
  PROVE  /\ WaitInv'
         /\ \E n \in 0 .. MaxCookie : WindowOf(lost \cup {n})'
<1>1. /\ tx_cookie_in_progress' = NoCookie
      /\ tx_cookie_sent' = NoCookie /\ tx_cookie_dropped' = NoCookie
      /\ UNCHANGED <<uplink_state, offered, inbox, frames_in_wait>>
  BY DEF RadioCrash, uslpVars
<1>2. WaitInv'
  BY <1>1 DEF WaitInv
<1>3. /\ OnBus(tx_cookie_sent) \in 0 .. MaxCookie
      /\ OnBus(tx_cookie_dropped) \in 0 .. MaxCookie
      /\ OnBus(tx_cookie_in_progress) \in 0 .. MaxCookie
  BY FieldsFacts DEF FirstInv, BooksInv, Reports
<1>4. \E n \in 0 .. MaxCookie :
        \A e \in frames_in_wait :
          /\ LastReported(e) /\ ~UnderWay(e.cookie)
          /\ \/ OnBus(tx_cookie_sent) = e.cookie
             \/ OnBus(tx_cookie_dropped) = e.cookie
             \/ OnBus(tx_cookie_in_progress) = e.cookie
          => e.cookie = n
  <2>1. \A e \in frames_in_wait : e.cookie # 0
    BY EntryType DEF FirstInv, BooksInv, EntriesInv
  <2>2. ASSUME NEW e \in frames_in_wait, LastReported(e), ~UnderWay(e.cookie)
        PROVE  /\ tx_cookie_sent \in {NoCookie, uplink_state.sent} =>
                    OnBus(tx_cookie_sent) # e.cookie
               /\ tx_cookie_dropped \in {NoCookie, uplink_state.dropped} =>
                    OnBus(tx_cookie_dropped) # e.cookie
               /\ tx_cookie_in_progress = NoCookie =>
                    OnBus(tx_cookie_in_progress) # e.cookie
    BY <2>1, <2>2, CookieFacts DEF LastReported
  <2>3. CASE tx_cookie_sent \notin {NoCookie, uplink_state.sent}
    BY <1>3, <2>2, <2>3 DEF FreshInv, Outcomes
  <2>4. CASE tx_cookie_dropped \notin {NoCookie, uplink_state.dropped}
    BY <1>3, <2>2, <2>4 DEF FreshInv, Outcomes
  <2>5. CASE Outcomes(uplink_state.sent, uplink_state.dropped)
    BY <1>3, <2>2, <2>5 DEF Outcomes
  <2> QED
    BY <2>3, <2>4, <2>5 DEF Outcomes
<1>5. PICK n \in 0 .. MaxCookie :
        \A e \in frames_in_wait :
          /\ LastReported(e) /\ ~UnderWay(e.cookie)
          /\ \/ OnBus(tx_cookie_sent) = e.cookie
             \/ OnBus(tx_cookie_dropped) = e.cookie
             \/ OnBus(tx_cookie_in_progress) = e.cookie
          => e.cookie = n
  BY <1>4
<1>6. ASSUME NEW e \in frames_in_wait
      PROVE  /\ LastReported(e)'
             /\ Newest(e)'
             /\ e.cookie \notin lost \cup {n} => Coming(e)' /\ Before(e)'
  <2>1. /\ LastReported(e)' <=> LastReported(e)
        /\ Newest(e)' <=> Newest(e)
        /\ Before(e)' <=> Before(e)
        /\ Shown(e)' <=> Shown(e)
        /\ UnderWay(e.cookie)' <=> UnderWay(e.cookie)
    BY <1>1 DEF LastReported, Newest, Before, Shown, UnderWay
  <2>2. LastReported(e) /\ Newest(e)
        /\ (e.cookie \notin lost => Coming(e) /\ Before(e))
    BY DEF WindowOf
  <2>3. ASSUME e.cookie \notin lost \cup {n}
        PROVE  Coming(e)'
    BY <1>5, <2>1, <2>2, <2>3 DEF Coming
  <2> QED
    BY <2>1, <2>2, <2>3
<1>7. WindowOf(lost \cup {n})'
  BY <1>1, <1>6 DEF WindowOf
<1> QED
  BY <1>2, <1>7

LEMMA QuietUslpWindow ==
  ASSUME FirstInv, FirstInv', FreshInv, WaitInv, NEW lost, WindowOf(lost),
         UNCHANGED radioVars, NEW d \in {0, 1}, ReportsShift(d), ~Reads(d),
         \A g \in frames_in_wait' : \E e \in frames_in_wait :
           g.cookie = e.cookie /\ g.state = e.state
  PROVE  WaitInv' /\ WindowOf(lost)'
<1>1. \A g \in frames_in_wait' : \E e \in frames_in_wait : Continues(d, g, e)
  BY DEF Continues
<1>2. UNCHANGED <<tx_cookie_in_progress, tx_cookie_sent, tx_cookie_dropped,
                  uplink_state, offered>>
  BY DEF radioVars
<1>3. EntriesInv(frames_in_wait)'
  BY DEF FirstInv, BooksInv
<1> QED
  BY <1>1, <1>2, <1>3, UslpWindow

LEMMA RequestSduWindow ==
  ASSUME FirstInv, FirstInv', FreshInv, WaitInv, NEW lost, WindowOf(lost),
         NEW s \in Sdus, RequestSdu(s)
  PROVE  WaitInv' /\ WindowOf(lost)'
<1>1. /\ inbox' = Append(inbox, Uslp!SduMsg(s))
      /\ UNCHANGED <<radioVars, frames_in_wait>>
  BY DEF RequestSdu, Uslp!RequestSdu, Uslp!Publish
<1>2. Uslp!SduMsg(s) \in UslpMessages /\ ~IsReport(Uslp!SduMsg(s))
  BY UslpMessageKinds DEF UslpMessages
<1>3. ReportsShift(0)
  BY <1>1, <1>2, ShiftAppend DEF FirstInv
<1>4. ~Reads(0)
  BY DEF Reads
<1> QED
  BY <1>1, <1>3, <1>4, QuietUslpWindow

LEMMA TimePassesWindow ==
  ASSUME FirstInv, FirstInv', FreshInv, WaitInv, NEW lost, WindowOf(lost),
         TimePasses
  PROVE  WaitInv' /\ WindowOf(lost)'
<1>1. PICK e \in frames_in_wait : Uslp!BecomesLate(e)
  BY DEF TimePasses, Uslp!TimePasses
<1>2. /\ frames_in_wait' =
           (frames_in_wait \ {e}) \cup {[e EXCEPT !.late = TRUE]}
      /\ UNCHANGED <<inbox, radioVars>>
  BY <1>1 DEF Uslp!BecomesLate, TimePasses
<1>3. ReportsShift(0) /\ ~Reads(0)
  BY <1>2, ShiftSame DEF FirstInv, Reads
<1>4. /\ [e EXCEPT !.late = TRUE].cookie = e.cookie
      /\ [e EXCEPT !.late = TRUE].state = e.state
  BY DEF FirstInv, BooksInv, EntriesInv, Uslp!Entries
<1>5. \A g \in frames_in_wait' : \E f \in frames_in_wait :
        g.cookie = f.cookie /\ g.state = f.state
  BY <1>2, <1>4
<1> QED
  BY <1>2, <1>3, <1>5, QuietUslpWindow

LEMMA QuietPollWindow ==
  ASSUME FirstInv, FirstInv', FreshInv, WaitInv, NEW lost, WindowOf(lost),
         UNCHANGED radioVars,
         \/ Uslp!PollTimeout \/ Uslp!PollOther
         \/ \E s \in Sdus : Uslp!AcceptSdu(s) \/ Uslp!RejectSdu(s)
  PROVE  WaitInv' /\ WindowOf(lost)'
<1>1. Uslp!ClearFramesQueue
  BY DEF Uslp!PollTimeout, Uslp!PollOther, Uslp!AcceptSdu, Uslp!RejectSdu
<1>2. \A g \in frames_in_wait' : \E e \in frames_in_wait :
        g.cookie = e.cookie /\ g.state = e.state
  BY <1>1 DEF Uslp!ClearFramesQueue
<1>3. CASE Uslp!PollTimeout
  <2>1. ReportsShift(0) /\ ~Reads(0)
    BY <1>3, ShiftSame DEF FirstInv, Reads, Uslp!PollTimeout
  <2> QED
    BY <1>2, <2>1, QuietUslpWindow
<1>4. CASE \/ Uslp!PollOther
           \/ \E s \in Sdus : Uslp!AcceptSdu(s) \/ Uslp!RejectSdu(s)
  <2>1. /\ inbox # <<>> /\ inbox' = Tail(inbox)
        /\ \/ Head(inbox) = Uslp!OtherMsg
           \/ \E s \in Sdus : Head(inbox) = Uslp!SduMsg(s)
    BY <1>4 DEF Uslp!PollOther, Uslp!AcceptSdu, Uslp!RejectSdu, Uslp!Receive
  <2>2. ~IsReport(Head(inbox))
    BY <2>1, UslpMessageKinds DEF IsReport, Uslp!OtherMsg
  <2>3. ReportsShift(1) /\ ~Reads(1)
    BY <2>1, <2>2, ShiftTail DEF FirstInv, Reads
  <2> QED
    BY <1>2, <2>3, QuietUslpWindow
<1> QED
  BY <1>3, <1>4

\* What goes on being followed after a report is read.
LEMMA FollowedContinues ==
  ASSUME FirstInv, WaitInv, Uslp!PollState
  PROVE  /\ ReportsShift(1)
         /\ \A g \in FollowedNow :
              \E e \in frames_in_wait : Continues(1, g, e)
<1>1. /\ inbox # <<>> /\ inbox' = Tail(inbox)
      /\ IsReport(Head(inbox))
  BY PollStateFacts
<1>2. /\ ReportsShift(1)
      /\ Head(inbox) = inbox[1] /\ 1 \in DOMAIN inbox
  BY <1>1, ShiftTail DEF FirstInv
<1>3. Truthful(Read) /\ Read = inbox[1].fields /\ IsReport(inbox[1])
  BY <1>1, <1>2 DEF FirstInv, InboxInv, Read
<1>4. frames_in_wait \subseteq Uslp!Entries
  BY DEF FirstInv, BooksInv, EntriesInv
<1>5. ASSUME NEW g \in FollowedNow
      PROVE  \E e \in frames_in_wait : Continues(1, g, e)
  <2>1. PICK e \in Fresh :
          /\ g = [e EXCEPT !.state = Uslp!NewState(e, Read)]
          /\ g.cookie = e.cookie
          /\ g.state = "in_progress" =>
               e.state = "in_progress" \/ Read.in_progress = e.cookie
          /\ Read.sent # e.cookie /\ Read.dropped # e.cookie
    BY <1>3, <1>4, FollowedFacts DEF Truthful
  <2>2. e \in frames_in_wait
    BY DEF Fresh
  <2>3. g.state = Uslp!NewState(e, Read)
    BY <1>4, <2>1, <2>2 DEF Uslp!Entries
  <2>4. e.state = "in_progress" => Read.wait # e.cookie
    BY <1>2, <1>3, <2>2 DEF WaitInv
  <2>5. e.state = "in_progress" => g.state = "in_progress"
    BY <2>3, <2>4 DEF Uslp!NewState
  <2>6. Continues(1, g, e)
    BY <1>2, <1>3, <2>1, <2>5 DEF Continues, Reads, Settles
  <2> QED
    BY <2>2, <2>6
<1> QED
  BY <1>2, <1>5

LEMMA UslpPollsWindow ==
  ASSUME FirstInv, FirstInv', FreshInv, WaitInv, NEW lost, WindowOf(lost),
         UslpPolls
  PROVE  WaitInv' /\ WindowOf(lost)'
<1>1. Uslp!Poll /\ next_cookie' = next_cookie /\ UNCHANGED radioVars
  BY DEF UslpPolls
<1>2. CASE Uslp!PollState
  <2>1. ~Uslp!SendFrame(FollowedNow)
    BY <1>1, NextCookieMoves
       DEF Uslp!SendFrame, FirstInv, BooksInv, OfferedInv
  <2>2. frames_in_wait' = FollowedNow
    BY <1>2, <2>1, PollStateFacts DEF Uslp!SendNothing
  <2>3. UNCHANGED <<tx_cookie_in_progress, tx_cookie_sent, tx_cookie_dropped,
                    uplink_state, offered>>
    BY <1>1 DEF radioVars
  <2>4. EntriesInv(frames_in_wait)'
    BY DEF FirstInv, BooksInv
  <2> QED
    BY <1>2, <2>2, <2>3, <2>4, FollowedContinues, UslpWindow
<1>3. CASE \/ Uslp!PollTimeout \/ Uslp!PollOther
           \/ \E s \in Sdus : Uslp!AcceptSdu(s) \/ Uslp!RejectSdu(s)
  BY <1>1, <1>3, QuietPollWindow
<1> QED
  BY <1>1, <1>2, <1>3 DEF Uslp!Poll

LEMMA UslpSendsWindow ==
  ASSUME FirstInv, FirstInv', FreshInv, WaitInv, NEW lost, WindowOf(lost),
         incarnation = 1, UslpSends
  PROVE  WaitInv' /\ WindowOf(lost)'
<1> DEFINE c == <<1, next_cookie>>
<1>1. PICK e \in frames_in_wait' :
        /\ e.cookie = next_cookie /\ e.state = "sent_to_radio"
        /\ frames_in_wait' = FollowedNow \cup {e}
        /\ Uslp!RadioHasRoom(FollowedNow, Read)
        /\ EntriesInv(FollowedNow)
  <2>1. PICK e \in frames_in_wait', k \in 1 .. Len(stack) :
          /\ e = [cookie |-> next_cookie,
                  parts |-> {stack[i] : i \in 1 .. k},
                  state |-> "sent_to_radio", late |-> FALSE]
          /\ frames_in_wait' = FollowedNow \cup {e}
          /\ Uslp!RadioHasRoom(FollowedNow, Read)
          /\ EntriesInv(FollowedNow)
    BY UslpSendsFacts
  <2> DEFINE taken == {stack[i] : i \in 1 .. k}
  <2>2. e = [cookie |-> next_cookie, parts |-> taken,
             state |-> "sent_to_radio", late |-> FALSE]
    BY <2>1
  <2> HIDE DEF taken
  <2>3. e.cookie = next_cookie /\ e.state = "sent_to_radio"
    BY <2>2
  <2> QED
    BY <2>1, <2>3
<1>2. /\ c \notin offered /\ offered' = offered \cup {c}
      /\ UNCHANGED <<tx_cookie_in_progress, tx_cookie_sent, tx_cookie_dropped,
                     uplink_state>>
  BY DEF UslpSends, Radio!OfferFrame, Radio!Deliver, Radio!cookieVars
<1>3. \A b \in offered' : OnBus(b) <= next_cookie
  <2>1. next_cookie \in 1 .. MaxCookie
        /\ offered = {1} \X (1 .. next_cookie - 1)
    BY <1>2 DEF FirstInv, BooksInv, OfferedInv
  <2>2. \A b \in offered : OnBus(b) \in 1 .. next_cookie - 1
    BY <2>1 DEF OnBus
  <2>3. OnBus(c) = next_cookie /\ next_cookie \in Nat
    BY <2>1, PathAssumption DEF OnBus
  <2> HIDE DEF c
  <2> QED
    BY <1>2, <2>2, <2>3
<1>4. Joins(e)
  BY <1>1, <1>2, <1>3 DEF Joins
<1>5. \A g \in FollowedNow : g.state = "in_progress"
  BY <1>1, EntryType DEF EntriesInv, Uslp!RadioHasRoom
<1>6. /\ ReportsShift(1)
      /\ \A g \in FollowedNow :
           \E f \in frames_in_wait : Continues(1, g, f)
  BY FollowedContinues DEF UslpSends
<1>7. EntriesInv(frames_in_wait)'
  BY DEF FirstInv, BooksInv
<1> QED
  BY <1>1, <1>2, <1>4, <1>5, <1>6, <1>7, UslpWindow

-----------------------------------------------------------------------------
(* The bound.                                                              *)

LEMMA WindowInit == Init => WindowInv
<1> SUFFICES ASSUME Init PROVE WindowInv
  OBVIOUS
<1>1. Radio!Init /\ Uslp!Init /\ crashes = 0
  BY DEF Init
<1>2. FreshInv
  <2>1. /\ pc = "again" /\ tx_cookies_updated = FALSE
        /\ tx_cookie_in_progress = NoCookie
        /\ tx_cookie_sent = NoCookie /\ tx_cookie_dropped = NoCookie
        /\ uplink_state = [wait |-> tx_cookie_wait,
                           in_progress |-> tx_cookie_in_progress,
                           sent |-> tx_cookie_sent,
                           dropped |-> tx_cookie_dropped]
    BY <1>1 DEF Radio!Init, Radio!TxFields
  <2>2. uplink_state.sent = NoCookie /\ uplink_state.dropped = NoCookie
    BY <2>1
  <2> QED
    BY <2>1, <2>2 DEF FreshInv, Outcomes
<1>3. inbox = <<>> /\ frames_in_wait = {}
  BY <1>1 DEF Uslp!Init
<1>4. WaitInv /\ WindowOf({})
  BY <1>3 DEF WaitInv, WindowOf
<1>5. Cardinality({}) <= crashes
  BY <1>1, FS_EmptySet
<1> QED
  BY <1>1, <1>2, <1>4, <1>5 DEF WindowInv

\* Losing one more outcome.
LEMMA OneMore ==
  ASSUME NEW S, IsFiniteSet(S), NEW x
  PROVE  /\ IsFiniteSet(S \cup {x})
         /\ Cardinality(S) \in Nat
         /\ Cardinality(S \cup {x}) \in Nat
         /\ Cardinality(S \cup {x}) <= Cardinality(S) + 1
<1>1. Cardinality(S) \in Nat
  BY FS_CardinalityType
<1>2. /\ IsFiniteSet(S \cup {x})
      /\ Cardinality(S \cup {x})
           = IF x \in S THEN Cardinality(S) ELSE Cardinality(S) + 1
  BY FS_AddElement
<1> QED
  BY <1>1, <1>2

LEMMA LostIsFinite ==
  ASSUME NEW lost \in SUBSET (0 .. MaxCookie)
  PROVE  IsFiniteSet(lost) /\ Cardinality(lost) \in Nat
<1>1. 0 \in Int /\ MaxCookie \in Int
  BY PathAssumption
<1>2. IsFiniteSet(0 .. MaxCookie)
  BY <1>1, FS_Interval
<1>3. IsFiniteSet(lost)
  BY <1>2, FS_Subset
<1> QED
  BY <1>3, FS_CardinalityType

LEMMA WindowNext ==
  ASSUME PaPowers = {}, PathInv, PathInv', WindowInv, [Next]_vars
  PROVE  WindowInv'
<1>1. CASE UslpRestart
  <2>1. incarnation' = incarnation + 1 /\ crashes' = crashes
    BY <1>1 DEF UslpRestart
  <2> QED
    BY <2>1 DEF WindowInv, PathInv
<1>2. CASE RadioCrash
  <2>1. UNCHANGED incarnation /\ crashes' = crashes + 1
    BY <1>2 DEF RadioCrash
  <2>2. crashes \in Nat
    BY DEF WindowInv
  <2> SUFFICES ASSUME incarnation = 1
               PROVE  /\ FreshInv' /\ WaitInv'
                      /\ \E all \in SUBSET (0 .. MaxCookie) :
                           Cardinality(all) <= crashes' /\ WindowOf(all)'
    BY <2>1, <2>2 DEF WindowInv
  <2>3. FirstInv /\ FreshInv /\ WaitInv
    BY DEF PathInv, WindowInv
  <2>4. PICK lost \in SUBSET (0 .. MaxCookie) :
          Cardinality(lost) <= crashes /\ WindowOf(lost)
    BY DEF WindowInv
  <2>5. WaitInv' /\ \E n \in 0 .. MaxCookie : WindowOf(lost \cup {n})'
    BY <1>2, <2>3, <2>4, CrashWindow
  <2>6. PICK n \in 0 .. MaxCookie : WindowOf(lost \cup {n})'
    BY <2>5
  <2>7. IsFiniteSet(lost)
    BY LostIsFinite
  <2>8. /\ Cardinality(lost) \in Nat
        /\ Cardinality(lost \cup {n}) \in Nat
        /\ Cardinality(lost \cup {n}) <= Cardinality(lost) + 1
    BY <2>7, OneMore
  <2>9. Cardinality(lost \cup {n}) <= crashes'
    BY <2>1, <2>2, <2>4, <2>8
  <2>10. lost \cup {n} \in SUBSET (0 .. MaxCookie)
    OBVIOUS
  <2> QED
    BY <1>2, <2>3, <2>5, <2>6, <2>9, <2>10, FreshCrash
<1>3. CASE UNCHANGED <<incarnation, crashes>>
  <2> SUFFICES ASSUME incarnation = 1, NEW lost, WindowOf(lost)
               PROVE  FreshInv' /\ WaitInv' /\ WindowOf(lost)'
    BY <1>3 DEF WindowInv
  <2>1. FirstInv /\ FirstInv' /\ FreshInv /\ WaitInv /\ RadioInv
    BY <1>3 DEF PathInv, WindowInv, FirstInv
  <2>2. UNCHANGED <<tx_cookies_updated, tx_cookie_in_progress, tx_cookie_sent,
                    tx_cookie_dropped, uplink_state, all_sent, all_dropped,
                    pc, op>> => FreshInv'
    BY <2>1, FreshStill
  <2>3. CASE \E s \in Sdus : RequestSdu(s)
    BY <2>1, <2>2, <2>3, RequestSduWindow DEF RequestSdu, radioVars
  <2>4. CASE \E p \in PaPowers : RequestPower(p)
    BY <2>4
  <2>5. CASE RadioWorks
    <3>1. Radio!Work /\ UNCHANGED <<inbox, frames_in_wait>>
      BY <2>5 DEF RadioWorks, uslpVars
    <3>2. FreshInv' /\ OutcomeMoves /\ UNCHANGED offered
      BY <2>1, <3>1, FreshWork, WorkMoves DEF RadioMoves
    <3> QED
      BY <2>1, <3>1, <3>2, WorkWindow
  <2>6. CASE RadioReports
    <3>1. Radio!ReportTxState
      BY <2>6 DEF RadioReports
    <3>2. /\ FreshInv'
          /\ uplink_state'.sent = tx_cookie_sent
          /\ uplink_state'.dropped = tx_cookie_dropped
          /\ UNCHANGED <<tx_cookie_in_progress, tx_cookie_sent,
                         tx_cookie_dropped>>
      BY <2>1, <3>1, FreshReport
    <3>3. UNCHANGED offered
      BY <3>1 DEF Radio!ReportTxState, Radio!reported, Radio!busVars
    <3>4. /\ inbox' = Append(inbox, Uslp!StateMsg(Fields))
          /\ UNCHANGED frames_in_wait
      BY <2>6 DEF RadioReports, Uslp!ReportState, Uslp!Publish, Fields
    <3>5. Uslp!StateMsg(Fields) \in UslpMessages
      BY <2>1, FieldsFacts DEF FirstInv, BooksInv, UslpMessages
    <3> QED
      BY <2>1, <3>2, <3>3, <3>4, <3>5, ReportWindow
  <2>7. CASE UslpSends
    <3>1. FreshInv'
      BY <2>2, <2>7
         DEF UslpSends, Radio!OfferFrame, Radio!Deliver, Radio!cookieVars,
             Radio!fateVars
    <3> QED
      BY <2>1, <2>7, <3>1, UslpSendsWindow
  <2>8. CASE UslpPolls
    BY <2>1, <2>2, <2>8, UslpPollsWindow DEF UslpPolls, radioVars
  <2>9. CASE TimePasses
    BY <2>1, <2>2, <2>9, TimePassesWindow DEF TimePasses, radioVars
  <2>10. CASE UNCHANGED vars
    <3>1. UNCHANGED <<radioVars, inbox, frames_in_wait>>
      BY <2>10 DEF vars, uslpVars
    <3>2. ReportsShift(0) /\ ~Reads(0)
      BY <2>1, <3>1, ShiftSame DEF FirstInv, Reads
    <3>3. FreshInv'
      BY <2>2, <3>1 DEF radioVars
    <3> QED
      BY <2>1, <3>1, <3>2, <3>3, QuietUslpWindow
  <2>11. CASE RadioCrash
    BY <1>3, <2>11 DEF RadioCrash, WindowInv
  <2>12. CASE UslpRestart
    BY <1>3, <2>12 DEF UslpRestart, PathInv
  <2> QED
    BY <2>3, <2>4, <2>5, <2>6, <2>7, <2>8, <2>9, <2>10, <2>11, <2>12
       DEF Next
<1>4. UslpRestart \/ RadioCrash \/ UNCHANGED <<incarnation, crashes>>
  BY DEF Next, RequestSdu, RequestPower, RadioWorks, RadioReports, UslpSends,
         UslpPolls, TimePasses, vars
<1> QED
  BY <1>1, <1>2, <1>3, <1>4

\* Two frames at most, and those whose outcomes crashes took.
LEMMA WindowBound ==
  ASSUME FirstInv, NEW lost \in SUBSET (0 .. MaxCookie), WindowOf(lost)
  PROVE  /\ Cardinality(frames_in_wait) \in Nat
         /\ Cardinality(frames_in_wait) <= Cardinality(lost) + 2
<1>1. /\ \A e \in frames_in_wait : e.cookie \in 1 .. MaxCookie
      /\ \A e \in frames_in_wait : <<1, e.cookie>> \in offered
      /\ \A e, f \in frames_in_wait : e.cookie = f.cookie => e = f
  BY EntryType DEF FirstInv, BooksInv, EntriesInv, CargoInv, Frame
<1>2. \E a : \A e \in frames_in_wait : e.state # "in_progress" => e.cookie = a
  <2>1. ASSUME NEW e \in frames_in_wait, NEW f \in frames_in_wait,
               e.state # "in_progress", f.state # "in_progress"
        PROVE  e.cookie = f.cookie
    <3>1. \A c \in offered : OnBus(c) <= e.cookie /\ OnBus(c) <= f.cookie
      BY <2>1 DEF WindowOf, Newest
    <3>2. f.cookie <= e.cookie /\ e.cookie <= f.cookie
      BY <1>1, <3>1 DEF OnBus
    <3> QED
      BY <1>1, <3>2
  <2> QED
    BY <2>1
<1>3. \E b : \A e \in frames_in_wait :
        e.state = "in_progress" /\ e.cookie \notin lost => e.cookie = b
  BY DEF WindowOf
<1>4. PICK a : \A e \in frames_in_wait :
        e.state # "in_progress" => e.cookie = a
  BY <1>2
<1>5. PICK b : \A e \in frames_in_wait :
        e.state = "in_progress" /\ e.cookie \notin lost => e.cookie = b
  BY <1>3
<1> DEFINE T == (lost \cup {a}) \cup {b}
           f == [e \in frames_in_wait |-> e.cookie]
<1>6. /\ IsFiniteSet(T) /\ Cardinality(T) <= Cardinality(lost) + 2
      /\ Cardinality(T) \in Nat
  <2>1. /\ Cardinality(lost) \in Nat
        /\ IsFiniteSet(lost \cup {a})
        /\ Cardinality(lost \cup {a}) \in Nat
        /\ Cardinality(lost \cup {a}) <= Cardinality(lost) + 1
    BY LostIsFinite, OneMore
  <2>2. /\ IsFiniteSet(T)
        /\ Cardinality(T) \in Nat
        /\ Cardinality(T) <= Cardinality(lost \cup {a}) + 1
    BY <2>1, OneMore
  <2> QED
    BY <2>1, <2>2
<1>7. f \in Injection(frames_in_wait, T)
  <2>1. \A e \in frames_in_wait : e.cookie \in T
    BY <1>4, <1>5
  <2> HIDE DEF T
  <2>2. f \in [frames_in_wait -> T]
    BY <2>1
  <2>3. IsInjective(f)
    BY <1>1 DEF IsInjective
  <2> QED
    BY <2>2, <2>3 DEF Injection
<1> HIDE DEF f, T
<1>8. IsFiniteSet(frames_in_wait) /\ Cardinality(frames_in_wait) <= Cardinality(T)
  BY <1>6, <1>7, FS_Injection
<1>9. Cardinality(frames_in_wait) \in Nat /\ Cardinality(lost) \in Nat
  BY <1>8, FS_CardinalityType, LostIsFinite
<1> QED
  BY <1>6, <1>8, <1>9

\* Without power requests, until server-uslp is restarted, it follows two
\* frames at most, and one more for each crash of the radio: the list it walks
\* through and the outcomes it waits for stay few (dispatcher.cpp:336-363,
\* server.c:476-481, 797, 814-824).
THEOREM FollowsFewAlways ==
  ASSUME PaPowers = {}
  PROVE  Spec => []FollowsFew
<1>1. Init => PathInv /\ WindowInv
  BY PathInit, WindowInit
<1>2. (PathInv /\ WindowInv) /\ [Next]_vars => (PathInv /\ WindowInv)'
  BY PathNext, WindowNext
<1>3. ASSUME PathInv, WindowInv PROVE FollowsFew
  <2> SUFFICES ASSUME incarnation = 1
               PROVE  Cardinality(frames_in_wait) <= 2 + crashes
    BY DEF FollowsFew
  <2>1. PICK lost \in SUBSET (0 .. MaxCookie) :
          Cardinality(lost) <= crashes /\ WindowOf(lost)
    BY <1>3 DEF WindowInv
  <2>2. /\ Cardinality(frames_in_wait) \in Nat
        /\ Cardinality(frames_in_wait) <= Cardinality(lost) + 2
    BY <1>3, <2>1, WindowBound DEF PathInv
  <2>3. Cardinality(lost) \in Nat /\ crashes \in Nat
    BY <1>3, LostIsFinite DEF WindowInv
  <2> QED
    BY <2>1, <2>2, <2>3
<1> QED
  BY <1>1, <1>2, <1>3, PTL DEF Spec

=============================================================================
