------------------------------- MODULE BusLog -------------------------------
(***************************************************************************)
(* The bus broker and its log (src/zmq/broker.py, its_logfile.py): it      *)
(* forwards what it receives, appends it to the log of this run, dies or   *)
(* is interrupted anywhere, and is started again by systemd with a new     *)
(* log.  A reader opens the log of a run that is over.                     *)
(*                                                                         *)
(* Messages are numbered in the order they are published.  A log is a      *)
(* sequence of bytes, where a byte is known by its message and its piece;  *)
(* two bytes make a piece, so that one can be cut.                         *)
(***************************************************************************)
EXTENDS Integers, Sequences, FiniteSets

CONSTANTS
  MaxMessages,   \* bound on the messages published
  MaxRuns,       \* bound on the runs of the broker
  Hollow         \* the messages all of whose parts are empty

ASSUME LogAssumption ==
  /\ MaxMessages \in Nat
  /\ MaxRuns \in Nat \ {0}
  /\ Hollow \subseteq 1 .. MaxMessages

VARIABLES
  phase,        \* what the broker does next
  run,          \* which run this is: its log is named after the time it began
  published,    \* how many messages were published
  inbox,        \* messages at the SUB socket
  hand,         \* the message just forwarded, 0 for none
  forwarded,    \* the messages forwarded by each run
  stream,       \* the bytes this run wrote
  files,        \* of these, what the kernel has: the logs of all runs
  late,         \* LOGFILE_FLUSH_PERIOD is over
  flushed,      \* history: the runs that flushed their log
  interrupted,  \* history: the runs that were interrupted
  reader        \* the log being read, how far, and what was read

vars == <<phase, run, published, inbox, hand, forwarded, stream, files, late,
          flushed, interrupted, reader>>

Runs == 1 .. MaxRuns
Ids  == 1 .. MaxMessages

Piece(m, name) == <<<<m, name>>, <<m, name>>>>

PieceSize == 2

\* _write_file_header.
Header == Piece(0, "magic")

\* _pack_v1: time and number of parts, their sizes, the parts.
Pack(m) == Piece(m, "head") \o Piece(m, "sizes")
           \o (IF m \in Hollow THEN <<>> ELSE Piece(m, "parts"))

Bytes == ({0} \cup Ids) \X {"magic", "head", "sizes", "parts"}

NoReader == [log |-> 0, position |-> 0, record |-> <<>>, records |-> <<>>,
             status |-> "closed"]

\* The log is created, its header stays in the buffer.
Init ==
  /\ phase = "poll"
  /\ run = 1
  /\ published = 0
  /\ inbox = <<>>
  /\ hand = 0
  /\ forwarded = [r \in Runs |-> <<>>]
  /\ stream = Header
  /\ files = [r \in Runs |-> <<>>]
  /\ late = FALSE
  /\ flushed = {}
  /\ interrupted = {}
  /\ reader = NoReader

-----------------------------------------------------------------------------
(* The bus.                                                                *)

\* What is published while the broker is down reaches nobody.
Publish ==
  /\ published < MaxMessages
  /\ published' = published + 1
  /\ inbox' = IF phase = "down" THEN inbox ELSE Append(inbox, published + 1)
  /\ UNCHANGED <<phase, run, hand, forwarded, stream, files, late, flushed,
                 interrupted, reader>>

SecondPasses ==
  /\ phase # "down"
  /\ ~late
  /\ late' = TRUE
  /\ UNCHANGED <<phase, run, published, inbox, hand, forwarded, stream, files,
                 flushed, interrupted, reader>>

-----------------------------------------------------------------------------
(* main of broker.py.                                                      *)

\* Mutant: the message is logged first and forwarded when that is done.
ForwardLater ==
  /\ phase = "poll"
  /\ inbox # <<>>
  /\ hand' = Head(inbox)
  /\ inbox' = Tail(inbox)
  /\ phase' = "write"
  /\ UNCHANGED <<run, published, forwarded, stream, files, late, flushed,
                 interrupted, reader>>

Forward ==
  /\ phase = "poll"
  /\ inbox # <<>>
  /\ hand' = Head(inbox)
  /\ inbox' = Tail(inbox)
  /\ forwarded' = [forwarded EXCEPT ![run] = Append(@, Head(inbox))]
  /\ phase' = "write"
  /\ UNCHANGED <<run, published, stream, files, late, flushed, interrupted,
                 reader>>

\* The stream's buffer gives the kernel as much as it likes.
Write ==
  /\ phase = "write"
  /\ stream' = stream \o Pack(hand)
  /\ \E n \in Len(files[run]) .. Len(stream') :
       files' = [files EXCEPT ![run] = SubSeq(stream', 1, n)]
  /\ hand' = 0
  /\ phase' = "flush"
  /\ UNCHANGED <<run, published, inbox, forwarded, late, flushed, interrupted,
                 reader>>

\* Mutant: the period starts again with each flush, as its name says.
FlushEachPeriod ==
  /\ phase = "flush"
  /\ phase' = "poll"
  /\ late' = FALSE
  /\ \/ /\ late
        /\ files' = [files EXCEPT ![run] = stream]
        /\ flushed' = flushed \cup {run}
     \/ ~late /\ UNCHANGED <<files, flushed>>
  /\ UNCHANGED <<run, published, inbox, hand, forwarded, stream, interrupted,
                 reader>>

\* last_log_flush_timepoint is never set again: after the first second each
\* message is flushed.
Flush ==
  /\ phase = "flush"
  /\ phase' = "poll"
  /\ \/ /\ late
        /\ files' = [files EXCEPT ![run] = stream]
        /\ flushed' = flushed \cup {run}
     \/ ~late /\ UNCHANGED <<files, flushed>>
  /\ UNCHANGED <<run, published, inbox, hand, forwarded, stream, late,
                 interrupted, reader>>

Gone ==
  /\ phase' = "down"
  /\ inbox' = <<>>
  /\ hand' = 0
  /\ stream' = <<>>
  /\ late' = FALSE
  /\ UNCHANGED <<run, published, forwarded, flushed, reader>>

\* Mutant: the stream is neither closed nor given back.
InterruptLeaks ==
  /\ phase # "down"
  /\ Gone
  /\ interrupted' = interrupted \cup {run}
  /\ UNCHANGED files

\* KeyboardInterrupt: close() leaves the stream open, but it was the last to
\* know it, so the stream is flushed.
Interrupt ==
  /\ phase # "down"
  /\ Gone
  /\ files' = [files EXCEPT ![run] = stream]
  /\ interrupted' = interrupted \cup {run}

\* Killed, by systemd too, which sends another signal.
Crash ==
  /\ phase # "down"
  /\ Gone
  /\ UNCHANGED <<files, interrupted>>

\* Mutant: started again within the second its log is named after, and the
\* log opened to be appended to.
RestartAppends ==
  /\ phase = "down"
  /\ phase' = "poll"
  /\ stream' = Header
  /\ UNCHANGED <<run, published, inbox, hand, forwarded, files, late, flushed,
                 interrupted, reader>>

\* RestartSec=1: the next log has another name.
Restart ==
  /\ phase = "down"
  /\ run < MaxRuns
  /\ run' = run + 1
  /\ phase' = "poll"
  /\ stream' = Header
  /\ UNCHANGED <<published, inbox, hand, forwarded, files, late, flushed,
                 interrupted, reader>>

-----------------------------------------------------------------------------
(* LogfileReader, on the log of a run that is over.                        *)

Over(r) == r < run \/ (r = run /\ phase = "down")

OpenLog(r) ==
  /\ reader.status # "reading"
  /\ Over(r)
  /\ reader' = [log |-> r, position |-> PieceSize, record |-> <<>>,
                records |-> <<>>,
                status |-> IF Len(files[r]) < PieceSize THEN "no log"
                           ELSE "reading"]
  /\ UNCHANGED <<phase, run, published, inbox, hand, forwarded, stream, files,
                 late, flushed, interrupted>>

\* The bytes stream.read returns, one piece being asked for.
Got ==
  LET file == files[reader.log] IN
  SubSeq(file, reader.position + 1,
         IF reader.position + PieceSize <= Len(file)
         THEN reader.position + PieceSize ELSE Len(file))

\* Mutant: a piece that is short is taken for what it is.
AcceptsShort == Got # <<>>

Accepts == Len(Got) = PieceSize

\* The last piece asked for: the sizes say whether there are parts.
Complete(record) ==
  LET pieces == (Len(record) + PieceSize - 1) \div PieceSize IN
  pieces = 3 \/ (pieces = 2 /\ record[1][1] \in Hollow)

ReadPiece ==
  /\ reader.status = "reading"
  /\ Accepts
  /\ LET record == reader.record \o Got
         passed == [reader EXCEPT !.position = @ + Len(Got)] IN
     reader' = IF Complete(record)
               THEN [passed EXCEPT !.record = <<>>,
                                   !.records = Append(@, record)]
               ELSE [passed EXCEPT !.record = record]
  /\ UNCHANGED <<phase, run, published, inbox, hand, forwarded, stream, files,
                 late, flushed, interrupted>>

\* None where a record would begin, ValueError anywhere else.
ReadEnds ==
  /\ reader.status = "reading"
  /\ ~Accepts
  /\ reader' = [reader EXCEPT
                  !.status = IF Got = <<>> /\ reader.record = <<>> THEN "end"
                             ELSE "cut"]
  /\ UNCHANGED <<phase, run, published, inbox, hand, forwarded, stream, files,
                 late, flushed, interrupted>>

-----------------------------------------------------------------------------

Broker == Forward \/ Write \/ Flush

Read == ReadPiece \/ ReadEnds

\* All runs are over and all messages published.
Done ==
  /\ published = MaxMessages
  /\ run = MaxRuns
  /\ phase = "down"
  /\ UNCHANGED vars

Next ==
  \/ Publish \/ SecondPasses
  \/ Broker \/ Interrupt \/ Crash \/ Restart
  \/ Read \/ \E r \in Runs : OpenLog(r)
  \/ Done

Spec == Init /\ [][Next]_vars

-----------------------------------------------------------------------------
(* Properties.                                                             *)

Phases == {"poll", "write", "flush", "down"}

Statuses == {"closed", "no log", "reading", "end", "cut"}

Begins(s, t) == Len(s) <= Len(t) /\ \A i \in DOMAIN s : s[i] = t[i]

\* Every variable holds a value of its kind; a message is in hand until it is
\* written, and what the kernel has of a log was written to it.
TypeOK ==
  /\ phase \in Phases
  /\ run \in Runs
  /\ published \in 0 .. MaxMessages
  /\ inbox \in Seq(Ids)
  /\ hand \in {0} \cup Ids
  /\ (phase = "write") = (hand # 0)
  /\ forwarded \in [Runs -> Seq(Ids)]
  /\ stream \in Seq(Bytes)
  /\ files \in [Runs -> Seq(Bytes)]
  /\ phase # "down" => Begins(files[run], stream)
  /\ late \in BOOLEAN
  /\ flushed \in SUBSET Runs
  /\ interrupted \in SUBSET Runs
  /\ reader \in [log : 0 .. MaxRuns, position : Nat, record : Seq(Bytes),
                 records : Seq(Seq(Bytes)), status : Statuses]

\* Where the record of message i ends in the log of messages: a hollow one
\* has no third piece.
End(messages, i) ==
  PieceSize * (1 + 3 * i
               - Cardinality({j \in 1 .. i : messages[j] \in Hollow}))

\* What was written is the header and the records, one after the other.
BeginsLogOf(log, messages) ==
  /\ Len(log) <= End(messages, Len(messages))
  /\ \A k \in DOMAIN log : k <= PieceSize => log[k] = Header[k]
  /\ \A i \in DOMAIN messages :
       \A k \in DOMAIN Pack(messages[i]) :
         End(messages, i - 1) + k \in DOMAIN log =>
           log[End(messages, i - 1) + k] = Pack(messages[i])[k]

\* Each log is the beginning of the log of what its run forwarded: nothing
\* is logged that was not forwarded, twice or out of order, whenever the
\* broker dies (broker.py:67-89).
LogFollowsBus ==
  \A r \in Runs : BeginsLogOf(files[r], forwarded[r])

\* Whatever was cut off a log, a reader gets whole messages, those its run
\* forwarded first, and no more (its_logfile.py:271-299).
ReadsWholeMessages ==
  reader.log # 0 =>
    /\ Len(reader.records) <= Len(forwarded[reader.log])
    /\ \A i \in DOMAIN reader.records :
         reader.records[i] = Pack(forwarded[reader.log][i])

Finished(r) == reader.log = r /\ reader.status \in {"end", "cut", "no log"}

\* The messages of the run that its log does not give back.
Lost(r) == Len(forwarded[r]) - Len(reader.records)

\* A run that flushed its log once loses one message at most, however it ends
\* and whatever arrives after (broker.py:67, 75-80).
LosesOneAtMost ==
  \A r \in flushed : Finished(r) => Lost(r) <= 1

\* An interrupted run loses the message in hand at most, and its log is whole
\* (broker.py:82-89, its_logfile.py:183-200).
InterruptKeepsLog ==
  \A r \in interrupted : Finished(r) => Lost(r) <= 1 /\ reader.status = "end"

=============================================================================
