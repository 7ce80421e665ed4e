----------------------------- MODULE BusReceive -----------------------------
(***************************************************************************)
(* The three receivers of multipart bus messages written for this station, *)
(* part by part:                                                           *)
(*   radio  zserver_recv_tx_packet (server-radio/src/server-zmq.c)         *)
(*   uslp   bus_io::recv_message (server-uslp/src/bus_io.cpp)              *)
(*   tun    zmq_server::recv_downlink_packet (server-tun/src) and the      *)
(*          loop that catches its exceptions                               *)
(* A behaviour is about one of them.  A socket gives whole messages, so    *)
(* once the first part is there the others are.  What must not happen is   *)
(* that a receiver stops in the middle of a message and takes the rest of  *)
(* it for the next one.                                                    *)
(***************************************************************************)
EXTENDS Integers, Sequences

CONSTANTS
  Receivers,    \* the receivers to look at
  MaxParts,     \* bound on the parts of a message
  MaxMessages   \* bound on the messages sent

ASSUME ReceiveAssumption ==
  /\ Receivers \subseteq {"radio", "uslp", "tun"}
  /\ MaxParts \in Nat /\ MaxParts >= 2
  /\ MaxMessages \in Nat

VARIABLES
  receiver,     \* which one this behaviour is about
  socket,       \* messages not yet wholly received
  taken,        \* how many parts of the first of them are
  phase,        \* which part the receiver thinks comes next
  topic,        \* what it knows of the message so far
  metadata,
  got,          \* what it will return, if it returned now
  readings,     \* what it returned so far, except Nothing
  sent,         \* how many messages were sent
  up,           \* the process runs
  derailed      \* history: it returned in the middle of a message

vars == <<receiver, socket, taken, phase, topic, metadata, got, readings,
          sent, up, derailed>>

\* Topics that pass the receiver's subscriptions.  A subscription is a prefix:
\* the last one of each set is longer than what was subscribed to.
TopicsOf(r) ==
  CASE r = "radio" -> {"uplink_frame", "pa_power", "pa_power_more"}
    [] r = "uslp"  -> {"sdu_request", "downlink_frame", "uplink_state",
                       "uplink_state_more"}
    [] r = "tun"   -> {"downlink_sdu_1", "downlink_sdu_10"}

\* Metadata that fit the topic, the same with one of the flags of a broken
\* SDU, a JSON object without the topic's fields, any other bytes, no bytes.
Metadata == {"fits", "flagged", "object", "bytes", "empty"}

\* A payload, or a part too much: a packet with an EPP header, other bytes,
\* no bytes.
Payloads == {"packet", "bytes", "empty"}

IsJson(v) == v \in {"fits", "flagged", "object"}
Fits(v)   == v \in {"fits", "flagged"}

MessagesOf(r) ==
  {<<t>> : t \in TopicsOf(r)} \cup
  {<<t, meta>> \o rest :
     t \in TopicsOf(r), meta \in Metadata,
     rest \in UNION {[1 .. n -> Payloads] : n \in 0 .. MaxParts - 2}}

\* What a receiver makes of a message.
Message(kind, payload) == <<kind, payload>>

Nothing == <<>>
Unset   == <<"unset">> \* zserver_recv_tx_packet returned, its results did not

NoPayload == "empty"
NoPart    == "none"    \* the part has not come

Init ==
  /\ receiver \in Receivers
  /\ socket = <<>>
  /\ taken = 0
  /\ phase = "topic"
  /\ topic = NoPart
  /\ metadata = NoPart
  /\ got = Nothing
  /\ readings = <<>>
  /\ sent = 0
  /\ up = TRUE
  /\ derailed = FALSE

Arrive(m) ==
  /\ sent < MaxMessages
  /\ sent' = sent + 1
  /\ socket' = Append(socket, m)
  /\ UNCHANGED <<receiver, taken, phase, topic, metadata, got, readings, up,
                 derailed>>

-----------------------------------------------------------------------------
(* Taking a part, and what follows.                                        *)

Part == socket[1][taken + 1]

\* zmq_msg_more and message_t::more.
More == taken + 1 < Len(socket[1])

TakePart ==
  /\ up
  /\ socket # <<>>
  /\ taken' = IF More THEN taken + 1 ELSE 0
  /\ socket' = IF More THEN socket ELSE Tail(socket)
  /\ UNCHANGED <<receiver, sent>>

Continue(p) == phase' = p /\ UNCHANGED <<readings, up, derailed>>

Add(r) == IF r = Nothing THEN readings ELSE Append(readings, r)

\* The function returns r; the process is called again for the next message.
Return(r) ==
  /\ phase' = "topic"
  /\ topic' = NoPart
  /\ metadata' = NoPart
  /\ got' = Nothing
  /\ readings' = Add(r)
  /\ derailed' = (derailed \/ taken' # 0)
  /\ UNCHANGED up

\* An exception that nobody catches, or an assertion.
Die ==
  /\ up' = FALSE
  /\ derailed' = (derailed \/ taken' # 0)
  /\ UNCHANGED <<phase, topic, metadata, got, readings>>

-----------------------------------------------------------------------------
(* server-radio: a state per part, left when there is no more.             *)

RadioPhase(v) ==
  CASE phase = "topic" -> IF v = "uplink_frame" THEN "cookie"
                          ELSE IF v = "pa_power" THEN "pa_power" ELSE "flush"
    [] phase = "cookie" -> IF Fits(v) THEN "frame" ELSE "flush"
    [] phase = "frame" -> IF v = "empty" THEN "frame" ELSE "flush"
    [] OTHER -> "flush"

RadioGot(v) ==
  CASE phase = "pa_power" /\ Fits(v) -> Message("pa_power", NoPayload)
    [] phase = "frame" /\ v # "empty" -> Message("uplink_frame", v)
    [] OTHER -> got

\* Mutant: nothing is flushed, the function returns when it is done.
RadioGoesOnUntilDone == More /\ RadioPhase(Part) # "flush"

RadioGoesOn == More

RadioPart ==
  /\ receiver = "radio"
  /\ TakePart
  /\ \/ /\ RadioGoesOn
        /\ Continue(RadioPhase(Part))
        /\ got' = RadioGot(Part)
        /\ UNCHANGED <<topic, metadata>>
     \/ /\ ~RadioGoesOn
        /\ Return(IF RadioGot(Part) = Nothing THEN Unset ELSE RadioGot(Part))

-----------------------------------------------------------------------------
(* server-uslp.                                                            *)

\* The parsers throw when a field is missing, except the one of the radio's
\* state, which reads a missing field as no frame.
UslpParsed(t, meta, payload) ==
  IF t \in {"sdu_request", "downlink_frame"} /\ Fits(meta)
  THEN Message(t, payload)
  ELSE IF t = "uplink_state" THEN Message(t, NoPayload) ELSE Nothing

\* A message of one part throws out of dispatcher::poll.  The answer to an empty
\* topic (bus_io.cpp:306-311) is left out: a topic comes in only if it begins
\* with one of the three subscriptions, none of which is empty.
UslpTopic ==
  /\ receiver = "uslp"
  /\ phase = "topic"
  /\ TakePart
  /\ \/ /\ More
        /\ Continue("metadata")
        /\ topic' = Part
        /\ UNCHANGED <<metadata, got>>
     \/ ~More /\ Die

\* Mutant: what is no JSON is logged, as the parsers' exceptions are.
UslpMetadataLogged ==
  /\ receiver = "uslp"
  /\ phase = "metadata"
  /\ TakePart
  /\ \/ Part = "empty" /\ Return(Nothing)
     \/ /\ Part # "empty" /\ More
        /\ Continue("payload")
        /\ metadata' = Part
        /\ UNCHANGED <<topic, got>>
     \/ Part # "empty" /\ ~More /\ Return(UslpParsed(topic, Part, NoPayload))

\* json::parse throws; an empty part is answered with a null pointer.
UslpMetadata ==
  /\ receiver = "uslp"
  /\ phase = "metadata"
  /\ TakePart
  /\ \/ Part = "empty" /\ Return(Nothing)
     \/ Part # "empty" /\ ~IsJson(Part) /\ Die
     \/ /\ IsJson(Part) /\ More
        /\ Continue("payload")
        /\ metadata' = Part
        /\ UNCHANGED <<topic, got>>
     \/ /\ IsJson(Part) /\ ~More
        /\ Return(UslpParsed(topic, Part, NoPayload))

\* Mutant: the flushing loop asks the same part whether there is more.
UslpPayloadForEver ==
  /\ receiver = "uslp"
  /\ phase \in {"payload", "flush"}
  /\ TakePart
  /\ LET payload == IF phase = "payload" THEN Part ELSE got IN
     \/ /\ More \/ phase = "flush"
        /\ Continue("flush")
        /\ got' = payload
        /\ UNCHANGED <<topic, metadata>>
     \/ /\ ~More /\ phase = "payload"
        /\ Return(UslpParsed(topic, metadata, payload))

\* The payload, then whatever more there is; the message is parsed last.
UslpPayload ==
  /\ receiver = "uslp"
  /\ phase \in {"payload", "flush"}
  /\ TakePart
  /\ LET payload == IF phase = "payload" THEN Part ELSE got IN
     \/ /\ More
        /\ Continue("flush")
        /\ got' = payload
        /\ UNCHANGED <<topic, metadata>>
     \/ ~More /\ Return(UslpParsed(topic, metadata, payload))

-----------------------------------------------------------------------------
(* server-tun: the loop in main catches every exception.                   *)

\* Any topic that came is trusted.  A missing "flags" is an assertion of the
\* JSON library; a flag of a broken SDU, or no EPP header, and the packet is
\* bad.  Of an empty payload a byte is read that is not there: assumed of
\* header.read (external) is that it throws when it gets no bytes, so that there
\* is no packet, whatever the byte was.
TunPacket(meta, payload) ==
  IF meta = "fits" /\ payload = "packet" THEN Message("packet", payload)
  ELSE Nothing

TunHead ==
  /\ receiver = "tun"
  /\ phase \in {"topic", "metadata"}
  /\ TakePart
  /\ \/ /\ More
        /\ Continue(IF phase = "topic" THEN "metadata" ELSE "payload")
        /\ metadata' = Part
        /\ UNCHANGED <<topic, got>>
     \/ ~More /\ Return(Nothing)

TunPayload ==
  /\ receiver = "tun"
  /\ phase \in {"payload", "flush"}
  /\ TakePart
  /\ LET payload == IF phase = "payload" THEN Part ELSE got IN
     \/ /\ More
        /\ Continue("flush")
        /\ got' = payload
        /\ UNCHANGED <<topic, metadata>>
     \/ ~More /\ metadata = "object" /\ Die
     \/ ~More /\ metadata # "object" /\ Return(TunPacket(metadata, payload))

-----------------------------------------------------------------------------

Receive == RadioPart \/ UslpTopic \/ UslpMetadata \/ UslpPayload
           \/ TunHead \/ TunPayload

\* All messages are read, or nobody is there to read them.
Quiet ==
  /\ sent = MaxMessages
  /\ socket = <<>> \/ ~up
  /\ UNCHANGED vars

Next == Receive \/ Quiet \/ \E m \in MessagesOf(receiver) : Arrive(m)

Spec == Init /\ [][Next]_vars

\* A receiver is called whenever its socket has something for it.
FairSpec == Spec /\ WF_vars(Receive)

-----------------------------------------------------------------------------
(* Properties.                                                             *)

PhasesOf(r) == IF r = "radio"
               THEN {"topic", "cookie", "pa_power", "frame", "flush"}
               ELSE {"topic", "metadata", "payload", "flush"}

\* Every variable holds a value of its kind, a part is left to take of a
\* message that was begun, and server-uslp has JSON when it takes a payload.
TypeOK ==
  /\ receiver \in Receivers
  /\ socket \in Seq(MessagesOf(receiver))
  /\ taken \in 0 .. MaxParts - 1
  /\ socket = <<>> => taken = 0
  /\ socket # <<>> => taken < Len(socket[1])
  /\ phase \in PhasesOf(receiver)
  /\ receiver = "uslp" /\ phase \in {"payload", "flush"} => IsJson(metadata)
  /\ sent \in 0 .. MaxMessages
  /\ up \in BOOLEAN
  /\ derailed \in BOOLEAN

\* What a whole message means: the reference for the part by part reading.
Third(m) == IF Len(m) >= 3 THEN m[3] ELSE NoPayload

Frames(m) == {i \in 3 .. Len(m) : m[i] # "empty"}

RadioReading(m) ==
  IF Len(m) >= 2 /\ m[1] = "pa_power" /\ Fits(m[2])
  THEN Message("pa_power", NoPayload)
  ELSE IF Len(m) >= 2 /\ m[1] = "uplink_frame" /\ Fits(m[2]) /\ Frames(m) # {}
  THEN Message("uplink_frame",
               m[CHOOSE i \in Frames(m) : \A j \in Frames(m) : i <= j])
  ELSE Unset

UslpReading(m) ==
  IF Len(m) >= 2 /\ m[2] # "empty" THEN UslpParsed(m[1], m[2], Third(m))
  ELSE Nothing

TunReading(m) ==
  IF Len(m) >= 3 THEN TunPacket(m[2], m[3]) ELSE Nothing

To(m, r) == m[1] \in TopicsOf(r)

MeaningOf(m) ==
  CASE To(m, "radio") -> RadioReading(m)
    [] To(m, "uslp")  -> UslpReading(m)
    [] To(m, "tun")   -> TunReading(m)

\* Messages outside of doc/topics.md that a receiver does not survive: for
\* server-uslp a single part, metadata that are no JSON, or empty ones with
\* a payload; for server-tun an SDU without flags.  server-radio survives all.
HarmfulMessage(m) ==
  \/ To(m, "uslp") /\ (Len(m) = 1 \/ ~IsJson(m[2]))
  \/ To(m, "tun") /\ Len(m) >= 3 /\ m[2] = "object"

AllMessages == UNION {MessagesOf(r) : r \in Receivers}

Intake == INSTANCE MessageIntake WITH
  Messages <- AllMessages,
  Reading <- MeaningOf,
  Harmful <- HarmfulMessage,
  inbox <- socket,
  in_service <- up /\ ~derailed

\* Each receiver takes whole messages and makes of each what it means, however
\* the parts are malformed, missing, empty or too many
\* (server-zmq.c:339-487, bus_io.cpp:303-398, zmq_server.cpp:152-262).
ReadsWholeMessages == Intake!Spec

\* Every message is read to its end and the receiver is back for the next one,
\* unless it was one that server-uslp or server-tun does not survive
\* (server-zmq.c:478-481, bus_io.cpp:357-362, zmq_server.cpp:166-174).
EveryMessageRead == socket # <<>> ~> (socket = <<>> /\ phase = "topic") \/ ~up

=============================================================================
