-------------------------- MODULE BusReceiveProofs --------------------------
(***************************************************************************)
(* The proof that the three receivers implement MessageIntake, whatever    *)
(* the length of the messages and the number of them.                      *)
(***************************************************************************)
EXTENDS BusReceive, SequenceTheorems, TLAPS

-----------------------------------------------------------------------------
(* Where a receiver is when it took k parts of a message m: p is its phase, *)
(* t its topic, d its metadata and g what it got.                          *)

\* No part is worth returning, whatever follows.
RadioSkips(m, k) ==
  \/ k >= 1 /\ m[1] \notin {"uplink_frame", "pa_power"}
  \/ k >= 2 /\ ~Fits(m[2])

FirstFrame(m, i) ==
  /\ i \in 3 .. Len(m)
  /\ m[i] # "empty"
  /\ \A j \in 3 .. i - 1 : m[j] = "empty"

\* The reading is known, whatever follows.
RadioKnows(m, k, g) ==
  \/ RadioSkips(m, k) /\ g = Nothing
  \/ /\ m[1] = "pa_power" /\ k >= 2 /\ Fits(m[2])
     /\ g = Message("pa_power", NoPayload)
  \/ /\ m[1] = "uplink_frame" /\ k >= 2 /\ Fits(m[2])
     /\ \E i \in 3 .. k :
          FirstFrame(m, i) /\ g = Message("uplink_frame", m[i])

RadioAt(m, k, p, g) ==
  /\ p = "topic" => k = 0 /\ g = Nothing
  /\ p = "cookie" => k = 1 /\ m[1] = "uplink_frame" /\ g = Nothing
  /\ p = "pa_power" => k = 1 /\ m[1] = "pa_power" /\ g = Nothing
  /\ p = "frame" =>
       /\ k >= 2 /\ m[1] = "uplink_frame" /\ Fits(m[2]) /\ g = Nothing
       /\ \A j \in 3 .. k : m[j] = "empty"
  /\ p = "flush" => RadioKnows(m, k, g)

UslpAt(m, k, p, t, d, g) ==
  /\ p = "topic" => k = 0
  /\ p = "metadata" => k = 1 /\ t = m[1]
  /\ p = "payload" => k = 2 /\ t = m[1] /\ d = m[2]
  /\ p = "flush" => k >= 3 /\ t = m[1] /\ d = m[2] /\ g = m[3]

TunAt(m, k, p, d, g) ==
  /\ p = "topic" => k = 0
  /\ p = "metadata" => k = 1
  /\ p = "payload" => k = 2 /\ d = m[2]
  /\ p = "flush" => k >= 3 /\ d = m[2] /\ g = m[3]

\* While it is in service, a receiver knows the parts it took for what they
\* are: the part it takes next is the one it thinks comes next.
InStep ==
  up /\ ~derailed =>
    IF taken = 0 THEN phase = "topic" /\ got = Nothing
    ELSE /\ receiver = "radio" => RadioAt(socket[1], taken, phase, got)
         /\ receiver = "uslp" =>
              UslpAt(socket[1], taken, phase, topic, metadata, got)
         /\ receiver = "tun" => TunAt(socket[1], taken, phase, metadata, got)

IntakeInv == TypeOK /\ InStep

-----------------------------------------------------------------------------
(* Messages.                                                               *)

LEMMA ReceiverKinds ==
  ASSUME TypeOK
  PROVE  receiver \in {"radio", "uslp", "tun"}
BY ReceiveAssumption DEF TypeOK

\* The parts of a message, one by one.
LEMMA MessageParts ==
  ASSUME NEW r \in {"radio", "uslp", "tun"}, NEW m \in MessagesOf(r)
  PROVE  /\ Len(m) \in 1 .. MaxParts
         /\ m[1] \in TopicsOf(r)
         /\ Len(m) >= 2 => m[2] \in Metadata
         /\ \A i \in 3 .. Len(m) : m[i] \in Payloads
<1> DEFINE Rests == UNION {[1 .. n -> Payloads] : n \in 0 .. MaxParts - 2}
           Join(t, meta, rest) == <<t, meta>> \o rest
           Short == {<<t>> : t \in TopicsOf(r)}
           Longer == {Join(t, meta, rest) :
                        t \in TopicsOf(r), meta \in Metadata, rest \in Rests}
<1>1. MessagesOf(r) = Short \cup Longer
  BY DEF MessagesOf
<1> HIDE DEF Join
<1>2. CASE m \in Short
  <2>1. PICK t \in TopicsOf(r) : m = <<t>>
    BY <1>2
  <2> QED BY <2>1, ReceiveAssumption
<1>3. CASE m \in Longer
  <2>1. PICK t \in TopicsOf(r), meta \in Metadata, rest \in Rests :
               m = Join(t, meta, rest)
    BY <1>3
  <2>2. PICK n \in 0 .. MaxParts - 2 : rest \in [1 .. n -> Payloads]
    OBVIOUS
  <2> HIDE DEF Rests
  <2> DEFINE Parts == TopicsOf(r) \cup Metadata \cup Payloads
  <2>3. <<t, meta>> \in Seq(Parts) /\ rest \in Seq(Parts) /\ Len(rest) = n
    BY <2>2, ReceiveAssumption
  <2> HIDE DEF Parts
  <2>4. /\ Len(m) = 2 + n
        /\ \A i \in 1 .. 2 + n :
             m[i] = IF i <= 2 THEN <<t, meta>>[i] ELSE rest[i - 2]
    BY <2>1, <2>3, ConcatProperties DEF Join
  <2>5. \A i \in 3 .. Len(m) : i - 2 \in 1 .. n
    BY <2>4, ReceiveAssumption
  <2>6. m[1] = t /\ m[2] = meta /\ \A i \in 3 .. Len(m) : m[i] \in Payloads
    BY <2>1, <2>2, <2>4, <2>5, ReceiveAssumption
  <2> QED BY <2>4, <2>6, ReceiveAssumption
<1> QED BY <1>1, <1>2, <1>3

\* No two receivers share a topic: a message means what its receiver makes
\* of it.
LEMMA MeaningIsOwn ==
  ASSUME NEW r \in {"radio", "uslp", "tun"}, NEW m \in MessagesOf(r)
  PROVE  /\ r = "radio" => MeaningOf(m) = RadioReading(m)
         /\ r = "uslp" => MeaningOf(m) = UslpReading(m)
         /\ r = "tun" => MeaningOf(m) = TunReading(m)
         /\ \A q \in {"radio", "uslp", "tun"} : To(m, q) <=> q = r
<1>1. m[1] \in TopicsOf(r)
  BY MessageParts
<1>2. \A q \in {"radio", "uslp", "tun"} : To(m, q) <=> q = r
  BY <1>1 DEF To, TopicsOf
<1> QED BY <1>2 DEF MeaningOf

\* The message at the head of the socket.
LEMMA FirstMessage ==
  ASSUME TypeOK, socket # <<>>
  PROVE  /\ socket[1] \in MessagesOf(receiver)
         /\ Head(socket) = socket[1]
         /\ Tail(socket) \in Seq(MessagesOf(receiver))
         /\ Len(socket[1]) \in 1 .. MaxParts
         /\ taken \in 0 .. Len(socket[1]) - 1
         /\ More \in BOOLEAN
         /\ More <=> taken + 1 < Len(socket[1])
<1>1. /\ socket[1] \in MessagesOf(receiver)
      /\ Head(socket) = socket[1]
      /\ Tail(socket) \in Seq(MessagesOf(receiver))
  BY EmptySeq, ElementOfSeq, HeadTailProperties DEF TypeOK
<1>2. Len(socket[1]) \in 1 .. MaxParts
  BY <1>1, MessageParts, ReceiverKinds
<1> QED BY <1>1, <1>2, ReceiveAssumption DEF TypeOK, More

-----------------------------------------------------------------------------
(* The kinds of the variables.                                             *)

\* After a part was taken, the message at the head has more, or the next
\* message is at the head.
LEMMA TakePartType ==
  ASSUME TypeOK, TakePart
  PROVE  /\ socket' \in Seq(MessagesOf(receiver))
         /\ taken' \in 0 .. MaxParts - 1
         /\ socket' = <<>> => taken' = 0
         /\ socket' # <<>> => taken' < Len(socket'[1])
         /\ receiver' = receiver /\ sent' = sent
         /\ up /\ socket # <<>>
<1>1. /\ up /\ socket # <<>>
      /\ taken' = IF More THEN taken + 1 ELSE 0
      /\ socket' = IF More THEN socket ELSE Tail(socket)
      /\ receiver' = receiver /\ sent' = sent
  BY DEF TakePart
<1>2. /\ Tail(socket) \in Seq(MessagesOf(receiver))
      /\ Len(socket[1]) \in 1 .. MaxParts
      /\ taken \in 0 .. Len(socket[1]) - 1
      /\ More <=> taken + 1 < Len(socket[1])
  BY <1>1, FirstMessage
<1>3. CASE More
  BY <1>1, <1>2, <1>3, ReceiveAssumption DEF TypeOK
<1>4. CASE ~More
  <2>1. socket' \in Seq(MessagesOf(receiver)) /\ taken' = 0
    BY <1>1, <1>2, <1>4
  <2>2. ASSUME socket' # <<>> PROVE Len(socket'[1]) >= 1
    <3>1. socket'[1] \in MessagesOf(receiver)
      BY <2>1, <2>2, EmptySeq, ElementOfSeq
    <3> QED BY <3>1, MessageParts, ReceiverKinds
  <2> QED BY <1>1, <2>1, <2>2, ReceiveAssumption
<1> QED BY <1>3, <1>4

LEMMA ArriveType ==
  ASSUME TypeOK, NEW m \in MessagesOf(receiver), Arrive(m)
  PROVE  /\ TypeOK'
         /\ socket # <<>> => socket' # <<>> /\ socket'[1] = socket[1]
<1>1. /\ socket' \in Seq(MessagesOf(receiver))
      /\ socket' # <<>>
      /\ Len(socket') = Len(socket) + 1
      /\ \A i \in 1 .. Len(socket) : socket'[i] = socket[i]
      /\ socket'[Len(socket) + 1] = m
  BY AppendProperties DEF Arrive, TypeOK
<1>2. /\ receiver' = receiver /\ taken' = taken /\ phase' = phase
      /\ metadata' = metadata /\ up' = up /\ derailed' = derailed
      /\ sent' \in 0 .. MaxMessages
  BY ReceiveAssumption DEF Arrive, TypeOK
<1>3. /\ socket # <<>> => socket'[1] = socket[1]
      /\ taken' < Len(socket'[1])
  <2>1. CASE socket = <<>>
    <3>1. socket'[1] = m /\ taken' = 0
      BY <1>1, <1>2, <2>1, EmptySeq DEF TypeOK
    <3> QED BY <2>1, <3>1, MessageParts, ReceiverKinds, ReceiveAssumption
  <2>2. CASE socket # <<>>
    <3>1. Len(socket) \in Nat \ {0}
      BY <2>2, EmptySeq DEF TypeOK
    <3>2. socket'[1] = socket[1]
      BY <1>1, <3>1
    <3> QED BY <1>2, <2>2, <3>2 DEF TypeOK
  <2> QED BY <2>1, <2>2
<1> QED BY <1>1, <1>2, <1>3 DEF TypeOK

LEMMA TypeOKInvariance ==
  TypeOK /\ [Next]_vars => TypeOK'
<1> SUFFICES ASSUME TypeOK, [Next]_vars PROVE TypeOK'
  OBVIOUS
<1>1. CASE UNCHANGED vars \/ Quiet
  BY <1>1 DEF Quiet, vars, TypeOK
<1>2. ASSUME NEW m \in MessagesOf(receiver), Arrive(m) PROVE TypeOK'
  BY <1>2, ArriveType
<1>3. CASE RadioPart
  <2>1. TakePart BY <1>3 DEF RadioPart
  <2> QED BY <1>3, <2>1, TakePartType
          DEF RadioPart, TypeOK, Continue, Return, RadioPhase, PhasesOf
<1>4. CASE UslpTopic
  <2>1. TakePart BY <1>4 DEF UslpTopic
  <2> QED BY <1>4, <2>1, TakePartType
          DEF UslpTopic, TypeOK, Continue, Die, PhasesOf
<1>5. CASE UslpMetadata
  <2>1. TakePart BY <1>5 DEF UslpMetadata
  <2> QED BY <1>5, <2>1, TakePartType
          DEF UslpMetadata, TypeOK, Continue, Return, Die, PhasesOf
<1>6. CASE UslpPayload
  <2>1. TakePart BY <1>6 DEF UslpPayload
  <2> QED BY <1>6, <2>1, TakePartType
          DEF UslpPayload, TypeOK, Continue, Return, PhasesOf
<1>7. CASE TunHead
  <2>1. TakePart BY <1>7 DEF TunHead
  <2> QED BY <1>7, <2>1, TakePartType
          DEF TunHead, TypeOK, Continue, Return, PhasesOf
<1>8. CASE TunPayload
  <2>1. TakePart BY <1>8 DEF TunPayload
  <2> QED BY <1>8, <2>1, TakePartType
          DEF TunPayload, TypeOK, Continue, Return, Die, PhasesOf
<1> QED BY <1>1, <1>2, <1>3, <1>4, <1>5, <1>6, <1>7, <1>8 DEF Next, Receive

LEMMA InitTyped ==
  Init => TypeOK
<1>1. <<>> \in Seq(MessagesOf(receiver))
  BY EmptySeq
<1>2. Init => 0 \in 0 .. MaxParts - 1 /\ 0 \in 0 .. MaxMessages
  BY ReceiveAssumption
<1>3. Init => phase \in PhasesOf(receiver) /\ phase \notin {"payload", "flush"}
  BY DEF Init, PhasesOf
<1> QED BY <1>1, <1>2, <1>3 DEF Init, TypeOK

\* Every variable holds a value of its kind, a part is left of a message that
\* was begun, and server-uslp has JSON when it takes a payload, for messages
\* of any length (server-zmq.c:339-487, bus_io.cpp:303-398).
THEOREM ReceiveTypeInvariant == Spec => []TypeOK
BY InitTyped, TypeOKInvariance, PTL DEF Spec

-----------------------------------------------------------------------------
(* What each receiver makes of the next part.                              *)

LEMMA RadioReads ==
  ASSUME NEW m \in MessagesOf("radio"), NEW k \in 0 .. Len(m) - 1,
         phase \in PhasesOf("radio"), RadioAt(m, k, phase, got)
  PROVE  /\ RadioAt(m, k + 1, RadioPhase(m[k + 1]), RadioGot(m[k + 1]))
         /\ RadioPhase(m[k + 1]) # "topic"
<1>1. /\ Len(m) \in Nat /\ k \in Nat /\ k + 1 \in 1 .. Len(m)
      /\ m[1] \in TopicsOf("radio")
  BY MessageParts, ReceiveAssumption
<1>2. CASE phase = "topic"
  BY <1>1, <1>2 DEF RadioAt, RadioPhase, RadioGot, RadioKnows, RadioSkips
<1>3. CASE phase = "cookie"
  BY <1>1, <1>3 DEF RadioAt, RadioPhase, RadioGot, RadioKnows, RadioSkips
<1>4. CASE phase = "pa_power"
  BY <1>1, <1>4 DEF RadioAt, RadioPhase, RadioGot, RadioKnows, RadioSkips
<1>5. CASE phase = "frame"
  <2>1. /\ k >= 2 /\ m[1] = "uplink_frame" /\ Fits(m[2]) /\ got = Nothing
        /\ \A j \in 3 .. k : m[j] = "empty"
    BY <1>5 DEF RadioAt
  <2>2. CASE m[k + 1] = "empty"
    BY <1>1, <1>5, <2>1, <2>2 DEF RadioAt, RadioPhase, RadioGot
  <2>3. CASE m[k + 1] # "empty"
    <3>1. FirstFrame(m, k + 1) /\ k + 1 \in 3 .. k + 1
      BY <1>1, <2>1, <2>3 DEF FirstFrame
    <3>2. /\ RadioPhase(m[k + 1]) = "flush"
          /\ RadioGot(m[k + 1]) = Message("uplink_frame", m[k + 1])
      BY <1>5, <2>3 DEF RadioPhase, RadioGot
    <3> QED BY <1>1, <2>1, <3>1, <3>2 DEF RadioAt, RadioKnows
  <2> QED BY <2>2, <2>3
<1>6. CASE phase = "flush"
  <2>1. RadioPhase(m[k + 1]) = "flush" /\ RadioGot(m[k + 1]) = got
    BY <1>6 DEF RadioPhase, RadioGot
  <2>2. RadioKnows(m, k, got)
    BY <1>6 DEF RadioAt
  <2>3. RadioKnows(m, k + 1, got)
    <3>1. RadioSkips(m, k) => RadioSkips(m, k + 1)
      BY <1>1 DEF RadioSkips
    <3>2. \A i \in 3 .. k : i \in 3 .. k + 1
      BY <1>1
    <3> QED BY <1>1, <2>2, <3>1, <3>2 DEF RadioKnows
  <2> QED BY <2>1, <2>3 DEF RadioAt
<1> QED BY <1>2, <1>3, <1>4, <1>5, <1>6 DEF PhasesOf

LEMMA FirstIsChosen ==
  ASSUME NEW m \in MessagesOf("radio"), NEW i, FirstFrame(m, i)
  PROVE  /\ Frames(m) # {}
         /\ (CHOOSE n \in Frames(m) : \A j \in Frames(m) : n <= j) = i
<1>1. /\ Len(m) \in Nat
      /\ Frames(m) \subseteq Nat
      /\ i \in Frames(m)
      /\ \A j \in Frames(m) : i <= j
  BY MessageParts, ReceiveAssumption DEF FirstFrame, Frames
<1>2. \A n \in Frames(m) : (\A j \in Frames(m) : n <= j) => n = i
  BY <1>1
<1> QED BY <1>1, <1>2

\* At the end of a message the parts were read as the whole is.
LEMMA RadioEnds ==
  ASSUME NEW m \in MessagesOf("radio"), NEW p, NEW g,
         p \in PhasesOf("radio"), p # "topic", RadioAt(m, Len(m), p, g)
  PROVE  RadioReading(m) = IF g = Nothing THEN Unset ELSE g
<1>1. Len(m) \in Nat /\ Len(m) >= 1
  BY MessageParts, ReceiveAssumption
<1>2. CASE p \in {"cookie", "pa_power"}
  BY <1>1, <1>2 DEF RadioAt, RadioReading
<1>3. CASE p = "frame"
  <2>1. Frames(m) = {} /\ m[1] = "uplink_frame" /\ g = Nothing
    BY <1>1, <1>3 DEF RadioAt, Frames
  <2> QED BY <2>1 DEF RadioReading
<1>4. CASE p = "flush"
  <2>1. RadioKnows(m, Len(m), g)
    BY <1>4 DEF RadioAt
  <2>2. CASE RadioSkips(m, Len(m)) /\ g = Nothing
    BY <1>1, <2>2 DEF RadioSkips, RadioReading
  <2>3. CASE /\ m[1] = "pa_power" /\ Len(m) >= 2 /\ Fits(m[2])
             /\ g = Message("pa_power", NoPayload)
    BY <2>3 DEF RadioReading, Message, Nothing
  <2>4. ASSUME m[1] = "uplink_frame", Len(m) >= 2, Fits(m[2]),
               NEW i \in 3 .. Len(m), FirstFrame(m, i),
               g = Message("uplink_frame", m[i])
        PROVE  RadioReading(m) = IF g = Nothing THEN Unset ELSE g
    <3>1. RadioReading(m) = g
      BY <2>4, FirstIsChosen DEF RadioReading
    <3>2. g # Nothing
      BY <2>4 DEF Message, Nothing
    <3> QED BY <3>1, <3>2
  <2> QED BY <2>1, <2>2, <2>3, <2>4 DEF RadioKnows
<1> QED BY <1>2, <1>3, <1>4 DEF PhasesOf

-----------------------------------------------------------------------------
(* Steps of a receiver in service, as MessageIntake knows them.            *)

InService == up /\ ~derailed

\* Nothing of the step is seen outside of the receiver.
Hidden == UNCHANGED <<socket, readings, up, derailed>>

Kept ==
  /\ InStep'
  /\ \/ Hidden
     \/ Intake!Read
     \/ Intake!Break

LEMMA PartOfMessage ==
  ASSUME IntakeInv, InService, TakePart
  PROVE  /\ socket # <<>>
         /\ socket[1] \in MessagesOf(receiver)
         /\ Len(socket[1]) \in Nat
         /\ taken \in 0 .. Len(socket[1]) - 1
         /\ receiver' = receiver
         /\ More => /\ socket' = socket
                    /\ taken' = taken + 1
                    /\ taken + 1 < Len(socket[1])
         /\ ~More => /\ socket' = Tail(socket)
                     /\ taken' = 0
                     /\ taken + 1 = Len(socket[1])
<1>1. /\ TypeOK /\ socket # <<>> /\ receiver' = receiver
      /\ taken' = IF More THEN taken + 1 ELSE 0
      /\ socket' = IF More THEN socket ELSE Tail(socket)
  BY DEF IntakeInv, TakePart
<1>2. /\ socket[1] \in MessagesOf(receiver)
      /\ Len(socket[1]) \in 1 .. MaxParts
      /\ taken \in 0 .. Len(socket[1]) - 1
      /\ More <=> taken + 1 < Len(socket[1])
  BY <1>1, FirstMessage
<1> QED BY <1>1, <1>2, ReceiveAssumption

\* A part that is not the last.
LEMMA PartIsHidden ==
  ASSUME IntakeInv, InService, TakePart, More,
         UNCHANGED <<readings, up, derailed>>
  PROVE  Hidden /\ InService'
BY PartOfMessage DEF Hidden, InService

\* The function returns what the message means, at its end.
LEMMA ReturnIsRead ==
  ASSUME IntakeInv, InService, TakePart, ~More,
         Return(MeaningOf(socket[1]))
  PROVE  Kept
<1>1. /\ socket # <<>> /\ socket' = Tail(socket) /\ taken' = 0
      /\ Head(socket) = socket[1]
  BY PartOfMessage, FirstMessage DEF IntakeInv
<1>2. /\ phase' = "topic" /\ got' = Nothing /\ UNCHANGED up
      /\ readings' = Add(MeaningOf(socket[1]))
      /\ derailed' = (derailed \/ taken' # 0)
  BY DEF Return
<1>3. derailed' = derailed
  BY <1>1, <1>2 DEF IntakeInv, TypeOK
<1>4. InStep'
  BY <1>1, <1>2 DEF InStep
<1>5. Intake!Read
  BY <1>1, <1>2, <1>3 DEF Intake!Read, Intake!Add, Add
<1> QED BY <1>4, <1>5 DEF Kept

\* The receiver does not survive a harmful message.
LEMMA HarmIsBreak ==
  ASSUME IntakeInv, InService, TakePart, HarmfulMessage(socket[1]),
         ~InService'
  PROVE  Kept
<1>1. socket # <<>> /\ Head(socket) = socket[1]
  BY PartOfMessage, FirstMessage DEF IntakeInv
<1>2. InStep'
  BY DEF InStep, InService
<1>3. Intake!Break
  BY <1>1 DEF Intake!Break, InService
<1> QED BY <1>2, <1>3 DEF Kept

LEMMA RadioStep ==
  ASSUME IntakeInv, InService, RadioPart
  PROVE  Kept
<1>1. PICK m : m = socket[1]
  OBVIOUS
<1>2. PICK k : k = taken
  OBVIOUS
<1>3. receiver = "radio" /\ TakePart /\ Part = m[k + 1]
  BY <1>1, <1>2 DEF RadioPart, Part
<1>4. /\ m \in MessagesOf("radio") /\ Len(m) \in Nat
      /\ k \in 0 .. Len(m) - 1
  BY <1>1, <1>2, <1>3, PartOfMessage
<1>5. phase \in PhasesOf("radio")
  BY <1>3 DEF IntakeInv, TypeOK
<1>6. RadioAt(m, k, phase, got)
  BY <1>1, <1>2, <1>3 DEF IntakeInv, InStep, InService, RadioAt
<1>7. /\ RadioAt(m, k + 1, RadioPhase(Part), RadioGot(Part))
      /\ RadioPhase(Part) # "topic"
      /\ RadioPhase(Part) \in PhasesOf("radio")
  <2>1. RadioPhase(Part) \in PhasesOf("radio")
    BY DEF RadioPhase, PhasesOf
  <2> QED BY <1>3, <1>4, <1>5, <1>6, <2>1, RadioReads
<1>8. CASE More
  <2>1. /\ phase' = RadioPhase(Part) /\ got' = RadioGot(Part)
        /\ UNCHANGED <<readings, up, derailed>>
    BY <1>8 DEF RadioPart, RadioGoesOn, Continue
  <2>2. /\ socket' = socket /\ taken' = k + 1 /\ taken' # 0
        /\ receiver' = "radio"
    BY <1>2, <1>3, <1>4, <1>8, PartOfMessage
  <2>3. InStep'
    BY <1>1, <1>7, <2>1, <2>2 DEF InStep
  <2> QED BY <1>3, <1>8, <2>1, <2>3, PartIsHidden DEF Kept
<1>9. CASE ~More
  <2>1. Return(IF RadioGot(Part) = Nothing THEN Unset ELSE RadioGot(Part))
    BY <1>9 DEF RadioPart, RadioGoesOn
  <2>2. k + 1 = Len(m)
    BY <1>1, <1>2, <1>3, <1>9, PartOfMessage
  <2>3. RadioReading(m)
          = IF RadioGot(Part) = Nothing THEN Unset ELSE RadioGot(Part)
    BY <1>4, <1>7, <2>2, RadioEnds
  <2>4. MeaningOf(m) = RadioReading(m)
    BY <1>4, MeaningIsOwn
  <2> QED BY <1>1, <1>3, <1>9, <2>1, <2>3, <2>4, ReturnIsRead
<1> QED BY <1>8, <1>9

LEMMA UslpTopicStep ==
  ASSUME IntakeInv, InService, UslpTopic
  PROVE  Kept
<1>1. PICK m : m = socket[1]
  OBVIOUS
<1>2. receiver = "uslp" /\ TakePart /\ phase = "topic" /\ taken = 0
  BY DEF UslpTopic, IntakeInv, InStep, InService, UslpAt
<1>3. m \in MessagesOf("uslp") /\ Part = m[1]
  BY <1>1, <1>2, PartOfMessage DEF Part
<1>4. CASE More
  <2>1. /\ phase' = "metadata" /\ topic' = m[1]
        /\ UNCHANGED <<readings, up, derailed>>
    BY <1>3, <1>4 DEF UslpTopic, Continue
  <2>2. socket' = socket /\ taken' = 1 /\ receiver' = "uslp"
    BY <1>2, <1>4, PartOfMessage
  <2>3. InStep'
    BY <1>1, <2>1, <2>2 DEF InStep, UslpAt
  <2> QED BY <1>2, <1>4, <2>1, <2>3, PartIsHidden DEF Kept
<1>5. CASE ~More
  <2>1. ~InService'
    BY <1>5 DEF UslpTopic, Die, InService
  <2>2. Len(m) = 1
    BY <1>1, <1>2, <1>5, PartOfMessage
  <2>3. HarmfulMessage(m)
    BY <1>3, <2>2, MeaningIsOwn DEF HarmfulMessage
  <2> QED BY <1>1, <1>2, <2>1, <2>3, HarmIsBreak
<1> QED BY <1>4, <1>5

\* What the message means is known with its third part.
LEMMA UslpMeaning ==
  ASSUME NEW m \in MessagesOf("uslp"), Len(m) >= 2, IsJson(m[2])
  PROVE  MeaningOf(m) = UslpParsed(m[1], m[2],
                          IF Len(m) >= 3 THEN m[3] ELSE NoPayload)
<1>1. m[2] # "empty"
  BY DEF IsJson
<1> QED BY <1>1, MeaningIsOwn DEF UslpReading, Third

LEMMA UslpMetadataStep ==
  ASSUME IntakeInv, InService, UslpMetadata
  PROVE  Kept
<1>1. PICK m : m = socket[1]
  OBVIOUS
<1>2. receiver = "uslp" /\ TakePart /\ phase = "metadata"
  BY DEF UslpMetadata
<1>3. taken = 1 /\ topic = m[1]
  BY <1>1, <1>2 DEF IntakeInv, InStep, InService, UslpAt
<1>4. /\ m \in MessagesOf("uslp") /\ Part = m[2] /\ Len(m) \in Nat
      /\ Len(m) >= 2
  BY <1>1, <1>2, <1>3, PartOfMessage DEF Part
<1>5. CASE IsJson(Part) /\ More
  <2>1. /\ phase' = "payload" /\ metadata' = m[2] /\ topic' = topic
        /\ UNCHANGED <<readings, up, derailed>>
    BY <1>4, <1>5 DEF UslpMetadata, Continue, IsJson
  <2>2. socket' = socket /\ taken' = 2 /\ receiver' = "uslp"
    BY <1>2, <1>3, <1>5, PartOfMessage
  <2>3. InStep'
    BY <1>1, <1>3, <2>1, <2>2 DEF InStep, UslpAt
  <2> QED BY <1>2, <1>5, <2>1, <2>3, PartIsHidden DEF Kept
<1>6. CASE IsJson(Part) /\ ~More
  <2>1. Len(m) = 2
    BY <1>1, <1>2, <1>3, <1>6, PartOfMessage
  <2>2. MeaningOf(m) = UslpParsed(topic, Part, NoPayload)
    BY <1>3, <1>4, <1>6, <2>1, UslpMeaning
  <2>3. Return(MeaningOf(m))
    BY <1>6, <2>2 DEF UslpMetadata, IsJson
  <2> QED BY <1>1, <1>2, <1>6, <2>3, ReturnIsRead
<1>7. CASE Part = "empty" /\ ~More
  <2>1. MeaningOf(m) = Nothing
    BY <1>4, <1>7, MeaningIsOwn DEF UslpReading
  <2>2. Return(MeaningOf(m))
    BY <1>7, <2>1 DEF UslpMetadata, IsJson
  <2> QED BY <1>1, <1>2, <1>7, <2>2, ReturnIsRead
<1>8. CASE ~IsJson(Part) /\ (Part = "empty" => More)
  <2>1. HarmfulMessage(m)
    BY <1>4, <1>8, MeaningIsOwn DEF HarmfulMessage
  <2>2. ~InService'
    <3>1. CASE Part = "empty"
      <4>1. taken' # 0
        BY <1>2, <1>3, <1>8, <3>1, PartOfMessage
      <4> QED BY <3>1, <4>1 DEF UslpMetadata, IsJson, Return, Die, InService
    <3>2. CASE Part # "empty"
      BY <1>8, <3>2 DEF UslpMetadata, Die, InService
    <3> QED BY <3>1, <3>2
  <2> QED BY <1>1, <1>2, <2>1, <2>2, HarmIsBreak
<1> QED BY <1>5, <1>6, <1>7, <1>8

LEMMA UslpPayloadStep ==
  ASSUME IntakeInv, InService, UslpPayload
  PROVE  Kept
<1>1. PICK m : m = socket[1]
  OBVIOUS
<1>2. PICK payload : payload = IF phase = "payload" THEN Part ELSE got
  OBVIOUS
<1>3. receiver = "uslp" /\ TakePart /\ phase \in {"payload", "flush"}
  BY DEF UslpPayload
<1>4. /\ taken >= 2 /\ topic = m[1] /\ metadata = m[2] /\ IsJson(m[2])
      /\ phase = "payload" => taken = 2
      /\ phase = "flush" => got = m[3]
  BY <1>1, <1>3 DEF IntakeInv, TypeOK, InStep, InService, UslpAt
<1>5. /\ m \in MessagesOf("uslp") /\ Len(m) \in Nat /\ Len(m) >= 3
      /\ taken \in Nat /\ payload = m[3]
  BY <1>1, <1>2, <1>3, <1>4, PartOfMessage DEF Part
<1>6. CASE More
  <2>1. /\ phase' = "flush" /\ got' = m[3]
        /\ topic' = topic /\ metadata' = metadata
        /\ UNCHANGED <<readings, up, derailed>>
    BY <1>2, <1>5, <1>6 DEF UslpPayload, Continue
  <2>2. socket' = socket /\ taken' = taken + 1 /\ receiver' = "uslp"
    BY <1>3, <1>6, PartOfMessage
  <2>3. InStep'
    BY <1>1, <1>4, <1>5, <2>1, <2>2 DEF InStep, UslpAt
  <2> QED BY <1>3, <1>6, <2>1, <2>3, PartIsHidden DEF Kept
<1>7. CASE ~More
  <2>1. Return(UslpParsed(topic, metadata, payload))
    BY <1>2, <1>7 DEF UslpPayload
  <2>2. MeaningOf(m) = UslpParsed(topic, metadata, payload)
    BY <1>4, <1>5, UslpMeaning
  <2> QED BY <1>1, <1>3, <1>7, <2>1, <2>2, ReturnIsRead
<1> QED BY <1>6, <1>7

LEMMA TunHeadStep ==
  ASSUME IntakeInv, InService, TunHead
  PROVE  Kept
<1>1. PICK m : m = socket[1]
  OBVIOUS
<1>2. receiver = "tun" /\ TakePart /\ phase \in {"topic", "metadata"}
  BY DEF TunHead
<1>3. taken = IF phase = "topic" THEN 0 ELSE 1
  BY <1>2 DEF IntakeInv, InStep, InService, TunAt
<1>4. m \in MessagesOf("tun") /\ Len(m) \in Nat /\ Part = m[taken + 1]
  BY <1>1, <1>2, PartOfMessage DEF Part
<1>5. CASE More
  <2>1. /\ phase' = IF phase = "topic" THEN "metadata" ELSE "payload"
        /\ metadata' = m[taken + 1]
        /\ UNCHANGED <<readings, up, derailed>>
    BY <1>4, <1>5 DEF TunHead, Continue
  <2>2. socket' = socket /\ taken' = taken + 1 /\ receiver' = "tun"
    BY <1>2, <1>5, PartOfMessage
  <2>3. InStep'
    BY <1>1, <1>2, <1>3, <2>1, <2>2 DEF InStep, TunAt
  <2> QED BY <1>2, <1>5, <2>1, <2>3, PartIsHidden DEF Kept
<1>6. CASE ~More
  <2>1. Return(Nothing)
    BY <1>6 DEF TunHead
  <2>2. Len(m) <= 2
    BY <1>1, <1>2, <1>3, <1>6, PartOfMessage
  <2>3. MeaningOf(m) = Nothing
    BY <1>4, <2>2, MeaningIsOwn DEF TunReading
  <2> QED BY <1>1, <1>2, <1>6, <2>1, <2>3, ReturnIsRead
<1> QED BY <1>5, <1>6

LEMMA TunPayloadStep ==
  ASSUME IntakeInv, InService, TunPayload
  PROVE  Kept
<1>1. PICK m : m = socket[1]
  OBVIOUS
<1>2. PICK payload : payload = IF phase = "payload" THEN Part ELSE got
  OBVIOUS
<1>3. receiver = "tun" /\ TakePart /\ phase \in {"payload", "flush"}
  BY DEF TunPayload
<1>4. /\ taken >= 2 /\ metadata = m[2]
      /\ phase = "payload" => taken = 2
      /\ phase = "flush" => got = m[3]
  BY <1>1, <1>3, ReceiveAssumption
     DEF IntakeInv, TypeOK, InStep, InService, TunAt
<1>5. /\ m \in MessagesOf("tun") /\ Len(m) \in Nat /\ Len(m) >= 3
      /\ taken \in Nat /\ payload = m[3]
  BY <1>1, <1>2, <1>3, <1>4, PartOfMessage DEF Part
<1>6. CASE More
  <2>1. /\ phase' = "flush" /\ got' = m[3] /\ metadata' = metadata
        /\ UNCHANGED <<readings, up, derailed>>
    BY <1>2, <1>5, <1>6 DEF TunPayload, Continue
  <2>2. socket' = socket /\ taken' = taken + 1 /\ receiver' = "tun"
    BY <1>3, <1>6, PartOfMessage
  <2>3. InStep'
    BY <1>1, <1>4, <1>5, <2>1, <2>2 DEF InStep, TunAt
  <2> QED BY <1>3, <1>6, <2>1, <2>3, PartIsHidden DEF Kept
<1>7. CASE ~More /\ metadata # "object"
  <2>1. Return(TunPacket(metadata, payload))
    BY <1>2, <1>7 DEF TunPayload
  <2>2. MeaningOf(m) = TunPacket(metadata, payload)
    BY <1>4, <1>5, MeaningIsOwn DEF TunReading
  <2> QED BY <1>1, <1>3, <1>7, <2>1, <2>2, ReturnIsRead
<1>8. CASE ~More /\ metadata = "object"
  <2>1. ~InService'
    BY <1>8 DEF TunPayload, Die, InService
  <2>2. HarmfulMessage(m)
    BY <1>4, <1>5, <1>8, MeaningIsOwn DEF HarmfulMessage
  <2> QED BY <1>1, <1>3, <2>1, <2>2, HarmIsBreak
<1> QED BY <1>6, <1>7, <1>8

-----------------------------------------------------------------------------
(* The invariant, and the steps of MessageIntake.                          *)

LEMMA ReceiveStep ==
  ASSUME IntakeInv, InService, Receive
  PROVE  Kept
BY RadioStep, UslpTopicStep, UslpMetadataStep, UslpPayloadStep, TunHeadStep,
   TunPayloadStep DEF Receive

\* The service once lost does not come back.
LEMMA ServiceEnds ==
  ASSUME IntakeInv, ~InService, [Next]_vars
  PROVE  ~InService'
<1>1. \/ derailed' = derailed /\ up' = up
      \/ up' = FALSE
      \/ derailed' = (derailed \/ taken' # 0) /\ up' = up
  BY DEF Next, Receive, RadioPart, UslpTopic, UslpMetadata, UslpPayload,
         TunHead, TunPayload, Return, Die, Continue, Quiet, Arrive, vars
<1> QED BY <1>1 DEF IntakeInv, TypeOK, InService

LEMMA ArriveStep ==
  ASSUME IntakeInv, NEW m \in MessagesOf(receiver), Arrive(m)
  PROVE  InStep' /\ Intake!Arrive(m) /\ m \in AllMessages
<1>1. InStep'
  <2>1. /\ taken' = taken /\ phase' = phase /\ got' = got
        /\ topic' = topic /\ metadata' = metadata
        /\ receiver' = receiver /\ up' = up /\ derailed' = derailed
    BY DEF Arrive
  <2>2. taken # 0 => socket'[1] = socket[1]
    BY ArriveType DEF IntakeInv, TypeOK
  <2> QED BY <2>1, <2>2 DEF InStep, IntakeInv
<1>2. Intake!Arrive(m)
  BY DEF Arrive, Intake!Arrive
<1>3. m \in AllMessages
  BY DEF AllMessages, IntakeInv, TypeOK
<1> QED BY <1>1, <1>2, <1>3

LEMMA InStepInvariance ==
  ASSUME IntakeInv, [Next]_vars
  PROVE  IntakeInv'
<1>1. TypeOK'
  BY TypeOKInvariance DEF IntakeInv
<1>2. CASE ~InService
  BY <1>1, <1>2, ServiceEnds DEF IntakeInv, InStep, InService
<1>3. CASE InService
  <2>1. CASE Receive
    BY <1>1, <1>3, <2>1, ReceiveStep DEF Kept, IntakeInv
  <2>2. CASE \E m \in MessagesOf(receiver) : Arrive(m)
    BY <1>1, <2>2, ArriveStep DEF IntakeInv
  <2>3. CASE UNCHANGED vars
    BY <1>1, <2>3 DEF IntakeInv, InStep, vars
  <2> QED BY <2>1, <2>2, <2>3 DEF Next, Quiet
<1> QED BY <1>2, <1>3

THEOREM IntakeInvariant == Spec => []IntakeInv
<1>1. Init => IntakeInv
  <2>1. Init => TypeOK
    BY InitTyped
  <2> QED BY <2>1 DEF Init, IntakeInv, InStep
<1> QED BY <1>1, InStepInvariance, PTL DEF Spec

LEMMA IntakeStep ==
  ASSUME IntakeInv, [Next]_vars
  PROVE  [Intake!Next]_<<socket, readings, up /\ ~derailed>>
<1>1. CASE InService
  <2>1. CASE Receive
    <3>1. CASE Hidden
      BY <3>1 DEF Hidden
    <3>2. CASE Intake!Read \/ Intake!Break
      BY <1>1, <3>2 DEF Intake!Next, InService
    <3> QED BY <1>1, <2>1, <3>1, <3>2, ReceiveStep DEF Kept
  <2>2. CASE \E m \in MessagesOf(receiver) : Arrive(m)
    BY <1>1, <2>2, ArriveStep DEF Intake!Next, InService
  <2>3. CASE UNCHANGED vars
    BY <2>3 DEF vars
  <2> QED BY <2>1, <2>2, <2>3 DEF Next, Quiet
<1>2. CASE ~InService
  BY <1>2, ServiceEnds DEF Intake!Next, InService
<1> QED BY <1>1, <1>2

\* Each receiver takes whole messages and makes of each what it means, for
\* messages of any length (server-zmq.c:339-487, bus_io.cpp:303-398,
\* zmq_server.cpp:152-262).
THEOREM ReceiversTakeWholeMessages == Spec => ReadsWholeMessages
<1>1. Init => Intake!Init
  BY DEF Init, Intake!Init
<1> QED BY <1>1, IntakeInvariant, IntakeStep, PTL
        DEF Spec, ReadsWholeMessages, Intake!Spec

=============================================================================
