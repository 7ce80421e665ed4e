---------------------------- MODULE BusLogProofs ----------------------------
(***************************************************************************)
(* Proofs about the log of the bus and its reader, for any number of       *)
(* messages and runs, and whichever messages have only empty parts.        *)
(***************************************************************************)
EXTENDS BusLog, FiniteSetTheorems, SequenceTheorems, TLAPS

-----------------------------------------------------------------------------
(* The invariant.                                                          *)

\* The messages of this run whose records the stream was given.
Written == IF phase = "write" THEN Len(forwarded[run]) - 1
           ELSE Len(forwarded[run])

\* The stream is the log of what was written, and the message in hand is the
\* last that was forwarded.
StreamInv ==
  /\ phase # "down" => /\ BeginsLogOf(stream, forwarded[run])
                       /\ Len(stream) = End(forwarded[run], Written)
  /\ phase = "write" => /\ forwarded[run] # <<>>
                        /\ hand = forwarded[run][Len(forwarded[run])]

NotBegun(r) ==
  /\ files[r] = <<>> /\ forwarded[r] = <<>>
  /\ r \notin flushed /\ r \notin interrupted

RunsInv == \A r \in Runs : r > run => NotBegun(r)

\* The log lacks the last n messages of its run.
Lacks(r, n) ==
  /\ Len(forwarded[r]) >= n
  /\ Len(files[r]) = End(forwarded[r], Len(forwarded[r]) - n)

\* After the first flush each message is flushed.
FlushInv ==
  /\ phase # "down" /\ run \in flushed => late
  /\ phase = "poll" /\ run \in flushed => Len(files[run]) = Len(stream)
  /\ \A r \in flushed :
       forwarded[r] # <<>> =>
         Len(files[r]) >= End(forwarded[r], Len(forwarded[r]) - 1)

InterruptInv ==
  \A r \in interrupted : Over(r) /\ (Lacks(r, 0) \/ Lacks(r, 1))

BrokerInv == StreamInv /\ RunsInv /\ LogFollowsBus /\ FlushInv /\ InterruptInv

\* The reader is after n records of the log of f and c bytes of the next.
Between(f, n, c) ==
  /\ reader.position = End(f, n) + c
  /\ reader.position <= Len(files[reader.log])
  /\ c \in {0, 2, 4}
  /\ c # 0 => /\ n < Len(f)
              /\ c < Len(Pack(f[n + 1]))
              /\ \A k \in 1 .. c : reader.record[k] = Pack(f[n + 1])[k]

Stopped(c) ==
  /\ Len(files[reader.log]) < reader.position + PieceSize
  /\ (reader.status = "end") <=>
       (c = 0 /\ reader.position = Len(files[reader.log]))

\* A log is read only when its run is over, and the reader is where the
\* records it gave end.
ReaderInv ==
  /\ reader.log = 0 => reader.status = "closed"
  /\ reader.log # 0 =>
       /\ Over(reader.log)
       /\ ReadsWholeMessages
       /\ reader.status \in {"no log", "reading", "end", "cut"}
       /\ reader.status = "no log" =>
            Len(files[reader.log]) < PieceSize /\ reader.records = <<>>
       /\ reader.status # "no log" =>
            Between(forwarded[reader.log], Len(reader.records),
                    Len(reader.record))
       /\ reader.status \in {"end", "cut"} => Stopped(Len(reader.record))

LogInv == TypeOK /\ BrokerInv /\ ReaderInv

-----------------------------------------------------------------------------
(* Where records end.                                                      *)

HollowIn(s, i) == {j \in 1 .. i : s[j] \in Hollow}

LEMMA HollowCount ==
  ASSUME NEW s, NEW i \in Nat
  PROVE  /\ IsFiniteSet(HollowIn(s, i))
         /\ Cardinality(HollowIn(s, i)) \in Nat
<1>1. HollowIn(s, i) \subseteq 1 .. i
  BY DEF HollowIn
<1>2. IsFiniteSet(1 .. i)
  BY FS_Interval
<1>3. IsFiniteSet(HollowIn(s, i))
  BY <1>1, <1>2, FS_Subset
<1> QED BY <1>3, FS_CardinalityType

LEMMA HollowStep ==
  ASSUME NEW s, NEW i \in Nat
  PROVE  Cardinality(HollowIn(s, i + 1))
           = Cardinality(HollowIn(s, i))
             + (IF s[i + 1] \in Hollow THEN 1 ELSE 0)
<1>1. CASE s[i + 1] \in Hollow
  <2>1. /\ HollowIn(s, i + 1) = HollowIn(s, i) \cup {i + 1}
        /\ i + 1 \notin HollowIn(s, i)
    BY <1>1 DEF HollowIn
  <2>2. Cardinality(HollowIn(s, i) \cup {i + 1})
          = Cardinality(HollowIn(s, i)) + 1
    BY <2>1, HollowCount, FS_AddElement
  <2> QED BY <1>1, <2>1, <2>2
<1>2. CASE s[i + 1] \notin Hollow
  <2>1. HollowIn(s, i + 1) = HollowIn(s, i)
    BY <1>2 DEF HollowIn
  <2> QED BY <1>2, <2>1, HollowCount
<1> QED BY <1>1, <1>2

LEMMA HollowGrows ==
  ASSUME NEW s, NEW i \in Nat, NEW j \in Nat, i <= j
  PROVE  Cardinality(HollowIn(s, j)) <= Cardinality(HollowIn(s, i)) + (j - i)
<1> DEFINE old == HollowIn(s, i)
           new == i + 1 .. j
<1>1. HollowIn(s, j) \subseteq old \cup new
  BY DEF HollowIn
<1>2. IsFiniteSet(old) /\ Cardinality(old) \in Nat
  BY HollowCount
<1>3. IsFiniteSet(new) /\ Cardinality(new) = j - i
  <2>1. i + 1 \in Int /\ j \in Int
    OBVIOUS
  <2>2. /\ IsFiniteSet(new)
        /\ Cardinality(new) = IF i + 1 > j THEN 0 ELSE j - (i + 1) + 1
    BY <2>1, FS_Interval
  <2> QED BY <2>2
<1> HIDE DEF old, new
<1>4. /\ IsFiniteSet(old \cup new)
      /\ Cardinality(old \cup new)
           = Cardinality(old) + Cardinality(new) - Cardinality(old \cap new)
  BY <1>2, <1>3, FS_Union
<1>5. Cardinality(old \cap new) \in Nat
  BY <1>2, FS_Intersection, FS_CardinalityType
<1>6. Cardinality(HollowIn(s, j)) <= Cardinality(old \cup new)
  BY <1>1, <1>4, FS_Subset
<1>7. Cardinality(HollowIn(s, j)) \in Nat
  BY HollowCount
<1>8. Cardinality(HollowIn(s, j)) <= Cardinality(old) + (j - i)
  BY <1>2, <1>3, <1>4, <1>5, <1>6, <1>7
<1> QED BY <1>8 DEF old

LEMMA EndIs ==
  ASSUME NEW s, NEW i \in Nat
  PROVE  /\ End(s, i) = 2 * (1 + 3 * i - Cardinality(HollowIn(s, i)))
         /\ End(s, i) \in Nat
         /\ End(s, i) >= 2
<1>1. End(s, i) = 2 * (1 + 3 * i - Cardinality(HollowIn(s, i)))
  BY DEF End, PieceSize, HollowIn
<1>2. Cardinality(HollowIn(s, i)) <= i
  <2>1. HollowIn(s, 0) = {}
    BY DEF HollowIn
  <2>2. Cardinality(HollowIn(s, 0)) = 0
    BY <2>1, FS_EmptySet
  <2> QED BY <2>2, HollowGrows
<1> QED BY <1>1, <1>2, HollowCount

LEMMA EndOfNone ==
  ASSUME NEW s
  PROVE  End(s, 0) = 2
<1>1. HollowIn(s, 0) = {}
  BY DEF HollowIn
<1>2. Cardinality(HollowIn(s, 0)) = 0
  BY <1>1, FS_EmptySet
<1> QED BY <1>2, EndIs

\* Each record takes its length.
LEMMA EndStep ==
  ASSUME NEW s, NEW i \in Nat
  PROVE  End(s, i + 1) = End(s, i) + (IF s[i + 1] \in Hollow THEN 4 ELSE 6)
<1>1. Cardinality(HollowIn(s, i + 1))
        = Cardinality(HollowIn(s, i))
          + (IF s[i + 1] \in Hollow THEN 1 ELSE 0)
  BY HollowStep
<1>2. Cardinality(HollowIn(s, i)) \in Nat /\ i + 1 \in Nat
  BY HollowCount
<1>3. /\ End(s, i) = 2 * (1 + 3 * i - Cardinality(HollowIn(s, i)))
      /\ End(s, i + 1)
           = 2 * (1 + 3 * (i + 1) - Cardinality(HollowIn(s, i + 1)))
  BY <1>2, EndIs
<1> QED BY <1>1, <1>2, <1>3

LEMMA EndGrows ==
  ASSUME NEW s, NEW i \in Nat, NEW j \in Nat, i <= j
  PROVE  End(s, i) + 4 * (j - i) <= End(s, j)
<1>1. /\ End(s, i) = 2 * (1 + 3 * i - Cardinality(HollowIn(s, i)))
      /\ End(s, j) = 2 * (1 + 3 * j - Cardinality(HollowIn(s, j)))
  BY EndIs
<1>2. /\ Cardinality(HollowIn(s, i)) \in Nat
      /\ Cardinality(HollowIn(s, j)) \in Nat
      /\ Cardinality(HollowIn(s, j)) <= Cardinality(HollowIn(s, i)) + (j - i)
  BY HollowCount, HollowGrows
<1> QED BY <1>1, <1>2

\* What follows does not move a record.
LEMMA EndKept ==
  ASSUME NEW s, NEW t, NEW i \in Nat, \A j \in 1 .. i : s[j] = t[j]
  PROVE  End(s, i) = End(t, i)
<1>1. HollowIn(s, i) = HollowIn(t, i)
  BY DEF HollowIn
<1> QED BY <1>1, EndIs

LEMMA Joined ==
  ASSUME NEW S, NEW s \in Seq(S), NEW t \in Seq(S), Len(s) >= 1
  PROVE  /\ s \o t \in Seq(S)
         /\ Len(s \o t) = Len(s) + Len(t)
         /\ (s \o t)[1] = s[1]
<1>1. /\ s \o t \in Seq(S)
      /\ Len(s \o t) = Len(s) + Len(t)
      /\ \A i \in 1 .. Len(s) + Len(t) :
           (s \o t)[i] = IF i <= Len(s) THEN s[i] ELSE t[i - Len(s)]
  BY ConcatProperties
<1>2. 1 \in 1 .. Len(s) + Len(t)
  BY LenProperties
<1> QED BY <1>1, <1>2

LEMMA PiecesJoined ==
  ASSUME NEW S, NEW a \in Seq(S), NEW b \in Seq(S), NEW c \in Seq(S),
         Len(a) = 2, Len(b) = 2
  PROVE  /\ (a \o b) \o c \in Seq(S)
         /\ Len((a \o b) \o c) = 4 + Len(c)
         /\ ((a \o b) \o c)[1] = a[1]
<1>1. /\ a \o b \in Seq(S) /\ Len(a \o b) = Len(a) + Len(b)
      /\ (a \o b)[1] = a[1]
  <2>1. Len(a) >= 1
    OBVIOUS
  <2> QED BY <2>1, Joined, Zenon
<1>2. PICK d : d = a \o b
  OBVIOUS
<1>3. d \in Seq(S) /\ Len(d) = 4 /\ d[1] = a[1]
  BY <1>1, <1>2
<1>4. /\ d \o c \in Seq(S) /\ Len(d \o c) = Len(d) + Len(c)
      /\ (d \o c)[1] = d[1]
  <2>1. Len(d) >= 1
    BY <1>3
  <2>2. d \in Seq(S)
    BY <1>3
  <2> QED BY <2>1, <2>2, Joined, Zenon
<1> QED BY <1>2, <1>3, <1>4

LEMMA PackIs ==
  ASSUME NEW m \in Ids
  PROVE  /\ Pack(m) \in Seq(Bytes)
         /\ Len(Pack(m)) = IF m \in Hollow THEN 4 ELSE 6
         /\ Pack(m)[1] = <<m, "head">>
<1> DEFINE head == Piece(m, "head")
           sizes == Piece(m, "sizes")
           parts == IF m \in Hollow THEN <<>> ELSE Piece(m, "parts")
<1>1. /\ \A name \in {"head", "sizes", "parts"} : <<m, name>> \in Bytes
      /\ head \in Seq(Bytes) /\ Len(head) = 2 /\ head[1] = <<m, "head">>
      /\ sizes \in Seq(Bytes) /\ Len(sizes) = 2
      /\ Piece(m, "parts") \in Seq(Bytes) /\ Len(Piece(m, "parts")) = 2
  <2>1. \A name \in {"head", "sizes", "parts"} : <<m, name>> \in Bytes
    BY DEF Bytes
  <2>2. \A b \in Bytes : <<b, b>> \in Seq(Bytes) /\ Len(<<b, b>>) = 2
                         /\ <<b, b>>[1] = b
    OBVIOUS
  <2> QED BY <2>1, <2>2 DEF Piece
<1>2. parts \in Seq(Bytes) /\ Len(parts) = IF m \in Hollow THEN 0 ELSE 2
  BY <1>1, EmptySeq
<1>3. Pack(m) = (head \o sizes) \o parts
  BY DEF Pack
<1> HIDE DEF head, sizes, parts
<1>4. /\ (head \o sizes) \o parts \in Seq(Bytes)
      /\ Len((head \o sizes) \o parts) = 4 + Len(parts)
      /\ ((head \o sizes) \o parts)[1] = head[1]
  BY <1>1, <1>2, PiecesJoined, Zenon
<1> QED BY <1>1, <1>2, <1>3, <1>4

LEMMA HeaderIs ==
  Header \in Seq(Bytes) /\ Len(Header) = 2
<1>1. <<0, "magic">> \in Bytes
  BY DEF Bytes
<1>2. \A b \in Bytes : <<b, b>> \in Seq(Bytes) /\ Len(<<b, b>>) = 2
  OBVIOUS
<1> QED BY <1>1, <1>2 DEF Header, Piece

-----------------------------------------------------------------------------
(* Logs.                                                                   *)

LEMMA EmptyLog ==
  ASSUME NEW s \in Seq(Ids)
  PROVE  BeginsLogOf(<<>>, s)
<1>1. End(s, Len(s)) \in Nat
  BY LenProperties, EndIs
<1>2. Len(<<>>) = 0 /\ DOMAIN <<>> = {}
  OBVIOUS
<1> QED BY <1>1, <1>2 DEF BeginsLogOf

LEMMA HeaderLog ==
  BeginsLogOf(Header, <<>>) /\ Len(Header) = End(<<>>, 0)
<1>1. End(<<>>, 0) = 2 /\ Len(Header) = 2 /\ Len(<<>>) = 0
  BY EndOfNone, HeaderIs
<1>2. DOMAIN <<>> = {}
  OBVIOUS
<1> QED BY <1>1, <1>2 DEF BeginsLogOf

\* What the kernel has of a log is the beginning of one.
LEMMA CutLog ==
  ASSUME NEW s \in Seq(Ids), NEW log \in Seq(Bytes), NEW cut \in Seq(Bytes),
         BeginsLogOf(log, s), Begins(cut, log)
  PROVE  BeginsLogOf(cut, s)
<1>1. /\ Len(cut) <= Len(log) /\ Len(cut) \in Nat /\ Len(log) \in Nat
      /\ DOMAIN cut = 1 .. Len(cut) /\ DOMAIN log = 1 .. Len(log)
      /\ \A k \in DOMAIN cut : cut[k] = log[k] /\ k \in DOMAIN log
  BY LenProperties DEF Begins
<1>2. End(s, Len(s)) \in Nat
  BY LenProperties, EndIs
<1> QED BY <1>1, <1>2 DEF BeginsLogOf

LEMMA AppendedIds ==
  ASSUME NEW s \in Seq(Ids), NEW m \in Ids
  PROVE  /\ Append(s, m) \in Seq(Ids)
         /\ Append(s, m) # <<>>
         /\ Len(Append(s, m)) = Len(s) + 1
         /\ DOMAIN Append(s, m) = 1 .. Len(s) + 1
         /\ Append(s, m)[Len(s) + 1] = m
         /\ \A i \in 1 .. Len(s) : Append(s, m)[i] = s[i]
         /\ \A i \in 0 .. Len(s) : End(Append(s, m), i) = End(s, i)
<1>1. /\ Append(s, m) \in Seq(Ids)
      /\ Append(s, m) # <<>>
      /\ Len(Append(s, m)) = Len(s) + 1
      /\ Append(s, m)[Len(s) + 1] = m
      /\ \A i \in 1 .. Len(s) : Append(s, m)[i] = s[i]
  BY AppendProperties
<1>2. DOMAIN Append(s, m) = 1 .. Len(s) + 1
  BY <1>1, LenProperties
<1>3. ASSUME NEW i \in 0 .. Len(s)
      PROVE  End(Append(s, m), i) = End(s, i)
  <2>1. i \in Nat /\ \A j \in 1 .. i : j \in 1 .. Len(s)
    BY LenProperties
  <2>2. \A j \in 1 .. i : Append(s, m)[j] = s[j]
    BY <1>1, <2>1
  <2> QED BY <2>1, <2>2, EndKept
<1> QED BY <1>1, <1>2, <1>3

\* The log of a run is one of all that it forwards later too.
LEMMA LongerLog ==
  ASSUME NEW s \in Seq(Ids), NEW m \in Ids, NEW log \in Seq(Bytes),
         BeginsLogOf(log, s)
  PROVE  BeginsLogOf(log, Append(s, m))
<1> DEFINE t == Append(s, m)
<1>1. /\ Len(t) = Len(s) + 1 /\ DOMAIN t = 1 .. Len(s) + 1
      /\ \A i \in 1 .. Len(s) : t[i] = s[i]
      /\ \A i \in 0 .. Len(s) : End(t, i) = End(s, i)
      /\ Len(s) \in Nat /\ DOMAIN s = 1 .. Len(s)
      /\ Len(log) \in Nat /\ DOMAIN log = 1 .. Len(log)
  BY AppendedIds, LenProperties
<1> HIDE DEF t
<1>2. Len(log) <= End(s, Len(s)) /\ End(s, Len(s)) = End(t, Len(s))
  BY <1>1 DEF BeginsLogOf
<1>3. /\ End(t, Len(s)) \in Nat /\ End(t, Len(t)) \in Nat
      /\ End(t, Len(s)) <= End(t, Len(t))
  <2>1. Len(t) \in Nat /\ Len(s) <= Len(t)
    BY <1>1
  <2>2. End(t, Len(s)) + 4 * (Len(t) - Len(s)) <= End(t, Len(t))
    BY <1>1, <2>1, EndGrows
  <2>3. End(t, Len(s)) \in Nat /\ End(t, Len(t)) \in Nat
    BY <1>1, <2>1, EndIs
  <2> QED BY <1>1, <2>1, <2>2, <2>3
<1>4. ASSUME NEW i \in DOMAIN t, NEW k \in DOMAIN Pack(t[i]),
             End(t, i - 1) + k \in DOMAIN log
      PROVE  log[End(t, i - 1) + k] = Pack(t[i])[k]
  <2>1. CASE i \in 1 .. Len(s)
    <3>1. t[i] = s[i] /\ End(t, i - 1) = End(s, i - 1) /\ i \in DOMAIN s
      BY <1>1, <2>1
    <3> QED BY <1>4, <3>1 DEF BeginsLogOf
  <2>2. CASE i = Len(s) + 1
    <3>1. k >= 1 /\ k \in Nat
      <4>1. t[i] \in Ids
        BY AppendedIds, <2>2 DEF t
      <4> QED BY <4>1, PackIs, LenProperties
    <3>2. End(t, i - 1) + k > Len(log)
      BY <1>1, <1>2, <1>3, <2>2, <3>1
    <3> QED BY <1>1, <1>4, <3>2
  <2> QED BY <1>1, <2>1, <2>2
<1> QED BY <1>1, <1>2, <1>3, <1>4 DEF BeginsLogOf, t

\* The record that is written is the next one of the log.
LEMMA WrittenLog ==
  ASSUME NEW s \in Seq(Ids), NEW log \in Seq(Bytes), s # <<>>,
         BeginsLogOf(log, s), Len(log) = End(s, Len(s) - 1)
  PROVE  LET longer == log \o Pack(s[Len(s)]) IN
         /\ longer \in Seq(Bytes)
         /\ BeginsLogOf(longer, s)
         /\ Len(longer) = End(s, Len(s))
         /\ Begins(log, longer)
<1> DEFINE n == Len(s)
           pack == Pack(s[n])
           longer == log \o pack
<1>1. /\ n \in Nat /\ n >= 1 /\ DOMAIN s = 1 .. n /\ s[n] \in Ids
      /\ Len(log) \in Nat /\ DOMAIN log = 1 .. Len(log)
  BY EmptySeq, LenProperties, ElementOfSeq
<1>2. /\ pack \in Seq(Bytes)
      /\ Len(pack) = IF s[n] \in Hollow THEN 4 ELSE 6
      /\ DOMAIN pack = 1 .. Len(pack)
  BY <1>1, PackIs, LenProperties
<1>3. End(s, n) = End(s, n - 1) + Len(pack)
  <2>1. n - 1 \in Nat /\ (n - 1) + 1 = n
    BY <1>1
  <2> QED BY <1>2, <2>1, EndStep
<1> HIDE DEF pack
<1>4. /\ longer \in Seq(Bytes)
      /\ Len(longer) = Len(log) + Len(pack)
      /\ \A i \in 1 .. Len(log) + Len(pack) :
           longer[i] = IF i <= Len(log) THEN log[i] ELSE pack[i - Len(log)]
  BY <1>1, <1>2, ConcatProperties
<1>5. DOMAIN longer = 1 .. Len(longer) /\ Len(longer) \in Nat
  BY <1>4, LenProperties
<1> HIDE DEF longer
<1>6. Len(longer) = End(s, n)
  BY <1>3, <1>4
<1>7. Begins(log, longer)
  BY <1>1, <1>2, <1>4 DEF Begins
<1>8. ASSUME NEW i \in DOMAIN s, NEW k \in DOMAIN Pack(s[i]),
             End(s, i - 1) + k \in DOMAIN longer
      PROVE  longer[End(s, i - 1) + k] = Pack(s[i])[k]
  <2>1. CASE i = n
    <3>1. k \in 1 .. Len(pack)
      BY <1>2, <2>1 DEF pack
    <3>2. longer[Len(log) + k] = pack[k]
      BY <1>1, <1>2, <1>4, <3>1
    <3> QED BY <2>1, <3>2 DEF pack
  <2>2. CASE i \in 1 .. n - 1
    <3>1. /\ s[i] \in Ids /\ k \in Nat /\ k >= 1
          /\ k <= IF s[i] \in Hollow THEN 4 ELSE 6
      <4>1. s[i] \in Ids
        BY <1>1, ElementOfSeq
      <4> QED BY <4>1, PackIs, LenProperties
    <3>2. End(s, i - 1) + k <= End(s, i) /\ End(s, i - 1) \in Nat
      <4>1. i - 1 \in Nat /\ (i - 1) + 1 = i
        BY <1>1, <2>2
      <4>2. End(s, i - 1) \in Nat
        BY <4>1, EndIs
      <4>3. End(s, (i - 1) + 1) = End(s, i - 1)
              + (IF s[(i - 1) + 1] \in Hollow THEN 4 ELSE 6)
        BY <4>1, EndStep
      <4> QED BY <3>1, <4>1, <4>2, <4>3
    <3>3. End(s, i) <= End(s, n - 1) /\ End(s, i) \in Nat
      <4>1. i \in Nat /\ n - 1 \in Nat /\ i <= n - 1
        BY <1>1, <2>2
      <4>2. End(s, i) + 4 * ((n - 1) - i) <= End(s, n - 1)
        BY <4>1, EndGrows
      <4> QED BY <4>1, <4>2, EndIs
    <3>4. End(s, i - 1) + k \in DOMAIN log
      BY <1>1, <3>1, <3>2, <3>3
    <3>5. log[End(s, i - 1) + k] = Pack(s[i])[k]
      BY <3>4 DEF BeginsLogOf
    <3> QED BY <1>1, <1>7, <3>4, <3>5 DEF Begins
  <2> QED BY <1>1, <2>1, <2>2
<1>9. ASSUME NEW k \in DOMAIN longer, k <= PieceSize
      PROVE  longer[k] = Header[k]
  <2>1. 2 <= Len(log)
    <3>1. n - 1 \in Nat
      BY <1>1
    <3> QED BY <3>1, EndIs
  <2>2. k \in DOMAIN log
    BY <1>1, <1>5, <1>9, <2>1 DEF PieceSize
  <2> QED BY <1>7, <1>9, <2>2 DEF Begins, BeginsLogOf
<1>10. BeginsLogOf(longer, s)
  <2>1. End(s, n) \in Nat
    BY <1>1, EndIs
  <2> QED BY <1>6, <1>8, <1>9, <2>1 DEF BeginsLogOf
<1> QED BY <1>4, <1>6, <1>7, <1>10 DEF longer, pack

-----------------------------------------------------------------------------
(* The broker's part and the reader's part of a state.                     *)

ReaderType ==
  reader \in [log : 0 .. MaxRuns, position : Nat, record : Seq(Bytes),
              records : Seq(Seq(Bytes)), status : Statuses]

BrokerType ==
  /\ phase \in Phases
  /\ run \in Runs
  /\ published \in 0 .. MaxMessages
  /\ inbox \in Seq(Ids)
  /\ hand \in {0} \cup Ids
  /\ phase = "write" <=> hand # 0
  /\ forwarded \in [Runs -> Seq(Ids)]
  /\ stream \in Seq(Bytes)
  /\ files \in [Runs -> Seq(Bytes)]
  /\ phase # "down" => Begins(files[run], stream)
  /\ late \in BOOLEAN
  /\ flushed \in SUBSET Runs
  /\ interrupted \in SUBSET Runs

LEMMA TypeParts ==
  /\ TypeOK <=> BrokerType /\ ReaderType
  /\ TypeOK' <=> BrokerType' /\ ReaderType'
BY DEF TypeOK, BrokerType, ReaderType

\* A log that is over is left alone.
OverKept ==
  \A r \in Runs : Over(r) =>
    Over(r)' /\ files'[r] = files[r] /\ forwarded'[r] = forwarded[r]

BrokerStep == BrokerType' /\ BrokerInv' /\ OverKept

LEMMA RunFacts ==
  ASSUME BrokerType, BrokerInv
  PROVE  /\ run \in Nat /\ run >= 1
         /\ forwarded[run] \in Seq(Ids) /\ files[run] \in Seq(Bytes)
         /\ Len(forwarded[run]) \in Nat
         /\ Len(files[run]) \in Nat /\ Len(stream) \in Nat
         /\ End(forwarded[run], Len(forwarded[run])) \in Nat
         /\ phase = "write" => Len(forwarded[run]) >= 1
<1>1. /\ run \in Nat /\ run >= 1
      /\ forwarded[run] \in Seq(Ids) /\ files[run] \in Seq(Bytes)
  BY LogAssumption DEF BrokerType, Runs
<1>2. /\ Len(forwarded[run]) \in Nat
      /\ Len(files[run]) \in Nat /\ Len(stream) \in Nat
  BY <1>1, LenProperties DEF BrokerType
<1>3. phase = "write" => Len(forwarded[run]) >= 1
  BY <1>1, <1>2, EmptySeq DEF BrokerInv, StreamInv
<1> QED BY <1>1, <1>2, <1>3, EndIs

LEMMA BeginsItself ==
  ASSUME NEW s \in Seq(Bytes)
  PROVE  Begins(s, s) /\ Begins(<<>>, s)
<1>1. Len(s) \in Nat /\ Len(<<>>) = 0 /\ DOMAIN <<>> = {}
  BY LenProperties
<1> QED BY <1>1 DEF Begins

LEMMA FirstBytes ==
  ASSUME NEW s \in Seq(Bytes), NEW n \in 0 .. Len(s)
  PROVE  /\ SubSeq(s, 1, n) \in Seq(Bytes)
         /\ Len(SubSeq(s, 1, n)) = n
         /\ Begins(SubSeq(s, 1, n), s)
<1>1. /\ Len(s) \in Nat /\ n \in Int
      /\ \A i \in 1 .. n : s[i] \in Bytes
  BY LenProperties, ElementOfSeq
<1>2. /\ SubSeq(s, 1, n) \in Seq(Bytes)
      /\ Len(SubSeq(s, 1, n)) = IF 1 <= n THEN n - 1 + 1 ELSE 0
      /\ \A i \in 1 .. n - 1 + 1 : SubSeq(s, 1, n)[i] = s[1 + i - 1]
  BY <1>1, SubSeqProperties
<1>3. Len(SubSeq(s, 1, n)) = n /\ \A i \in 1 .. n : SubSeq(s, 1, n)[i] = s[i]
  BY <1>1, <1>2
<1>4. DOMAIN SubSeq(s, 1, n) = 1 .. n
  BY <1>2, <1>3, LenProperties
<1> QED BY <1>1, <1>2, <1>3, <1>4 DEF Begins

LEMMA BusStep ==
  ASSUME BrokerType, BrokerInv, Publish \/ SecondPasses
  PROVE  BrokerStep
<1>1. CASE Publish
  <2>1. /\ published + 1 \in Ids
        /\ published' \in 0 .. MaxMessages
    BY <1>1, LogAssumption DEF Publish, BrokerType, Ids
  <2>2. inbox' \in Seq(Ids)
    BY <1>1, <2>1, AppendProperties DEF Publish, BrokerType
  <2>3. UNCHANGED <<phase, run, hand, forwarded, stream, files, late, flushed,
                    interrupted>>
    BY <1>1 DEF Publish
  <2>4. BrokerType'
    BY <2>1, <2>2, <2>3 DEF BrokerType
  <2>5. BrokerInv'
    BY <2>3 DEF BrokerInv, StreamInv, RunsInv, NotBegun, LogFollowsBus,
                FlushInv, InterruptInv, Lacks, Over, Written
  <2> QED BY <2>3, <2>4, <2>5 DEF BrokerStep, OverKept, Over
<1>2. CASE SecondPasses
  <2>1. /\ UNCHANGED <<phase, run, published, inbox, hand, forwarded, stream,
                       files, flushed, interrupted>>
        /\ late' = TRUE
    BY <1>2 DEF SecondPasses
  <2>2. BrokerType'
    BY <2>1 DEF BrokerType
  <2>3. BrokerInv'
    BY <2>1 DEF BrokerInv, StreamInv, RunsInv, NotBegun, LogFollowsBus,
                FlushInv, InterruptInv, Lacks, Over, Written
  <2> QED BY <2>1, <2>2, <2>3 DEF BrokerStep, OverKept, Over
<1> QED BY <1>1, <1>2

LEMMA ForwardStep ==
  ASSUME BrokerType, BrokerInv, Forward
  PROVE  BrokerStep
<1> DEFINE f == forwarded[run]
           m == Head(inbox)
           g == Append(f, m)
<1>1. /\ phase = "poll" /\ inbox # <<>> /\ hand' = m
      /\ inbox' = Tail(inbox) /\ phase' = "write"
      /\ forwarded' = [forwarded EXCEPT ![run] = g]
      /\ UNCHANGED <<run, published, stream, files, late, flushed,
                     interrupted>>
  BY DEF Forward
<1>2. m \in Ids /\ Tail(inbox) \in Seq(Ids) /\ run \in Runs
  BY <1>1, HeadTailProperties DEF BrokerType
<1>3. f \in Seq(Ids) /\ Len(f) \in Nat /\ forwarded \in [Runs -> Seq(Ids)]
  BY RunFacts DEF BrokerType
<1>4. /\ g \in Seq(Ids) /\ g # <<>> /\ Len(g) = Len(f) + 1
      /\ g[Len(g)] = m /\ End(g, Len(f)) = End(f, Len(f))
  BY <1>2, <1>3, AppendedIds
<1>5. /\ forwarded' \in [Runs -> Seq(Ids)] /\ forwarded'[run] = g
      /\ \A r \in Runs : r # run => forwarded'[r] = forwarded[r]
  BY <1>1, <1>2, <1>3, <1>4
<1>6. /\ BeginsLogOf(stream, f) /\ Len(stream) = End(f, Len(f))
      /\ BeginsLogOf(files[run], f)
  BY <1>1, <1>2 DEF BrokerInv, StreamInv, LogFollowsBus, Written
<1>7. BeginsLogOf(stream, g) /\ BeginsLogOf(files[run], g)
  BY <1>2, <1>3, <1>6, RunFacts, LongerLog DEF BrokerType
<1> HIDE DEF f, m, g
<1>8. BrokerType'
  <2>1. m # 0
    BY <1>2, LogAssumption DEF Ids
  <2> QED BY <1>1, <1>2, <1>5, <2>1 DEF BrokerType, Phases
<1>9. StreamInv'
  BY <1>1, <1>3, <1>4, <1>5, <1>6, <1>7 DEF StreamInv, Written
<1>10. RunsInv'
  BY <1>1, <1>2, <1>5, LogAssumption DEF BrokerInv, RunsInv, NotBegun, Runs
<1>11. LogFollowsBus'
  BY <1>1, <1>5, <1>7 DEF BrokerInv, LogFollowsBus
<1>12. FlushInv'
  <2>1. run \in flushed => Len(files[run]) = End(g, Len(g) - 1)
    BY <1>1, <1>3, <1>4, <1>6 DEF BrokerInv, FlushInv
  <2>2. run \in flushed => End(g, Len(g) - 1) \in Nat
    BY <1>3, <1>4, EndIs
  <2>3. run \in flushed => Len(files[run]) >= End(g, Len(g) - 1)
    BY <2>1, <2>2
  <2> QED BY <1>1, <1>5, <2>3 DEF BrokerInv, FlushInv, BrokerType
<1>13. OverKept
  BY <1>1, <1>2, <1>5, LogAssumption DEF OverKept, Over, Runs
<1>14. InterruptInv'
  BY <1>1, <1>13
     DEF BrokerInv, InterruptInv, BrokerType, OverKept, Lacks
<1> QED BY <1>8, <1>9, <1>10, <1>11, <1>12, <1>13, <1>14
        DEF BrokerStep, BrokerInv

LEMMA WriteStep ==
  ASSUME BrokerType, BrokerInv, Write
  PROVE  BrokerStep
<1> DEFINE f == forwarded[run]
<1>1. /\ phase = "write" /\ phase' = "flush" /\ hand' = 0
      /\ stream' = stream \o Pack(hand)
      /\ UNCHANGED <<run, published, inbox, forwarded, late, flushed,
                     interrupted>>
  BY DEF Write
<1>2. PICK n \in Len(files[run]) .. Len(stream') :
        files' = [files EXCEPT ![run] = SubSeq(stream', 1, n)]
  BY DEF Write
<1>3. /\ f \in Seq(Ids) /\ f # <<>> /\ hand = f[Len(f)]
      /\ BeginsLogOf(stream, f) /\ Len(stream) = End(f, Len(f) - 1)
      /\ stream \in Seq(Bytes) /\ run \in Runs
      /\ files \in [Runs -> Seq(Bytes)]
  BY <1>1, RunFacts DEF BrokerInv, StreamInv, Written, BrokerType
<1>4. /\ stream' \in Seq(Bytes)
      /\ BeginsLogOf(stream', f)
      /\ Len(stream') = End(f, Len(f))
  <2>1. stream' = stream \o Pack(f[Len(f)])
    BY <1>1, <1>3
  <2> HIDE DEF f
  <2> QED BY <1>3, <2>1, WrittenLog
<1>5. PICK new : new = SubSeq(stream', 1, n)
  OBVIOUS
<1>6. /\ new \in Seq(Bytes) /\ Len(new) = n /\ Begins(new, stream')
      /\ Len(files[run]) <= Len(new)
  <2>1. n \in 0 .. Len(stream') /\ Len(files[run]) <= n
    BY <1>2, <1>4, RunFacts, LenProperties
  <2> QED BY <1>4, <1>5, <2>1, FirstBytes
<1>7. /\ files' \in [Runs -> Seq(Bytes)] /\ files'[run] = new
      /\ \A r \in Runs : r # run => files'[r] = files[r]
  BY <1>2, <1>3, <1>5, <1>6
<1>8. BeginsLogOf(new, f)
  <2> HIDE DEF f
  <2> QED BY <1>3, <1>4, <1>6, CutLog
<1> HIDE DEF f
<1>9. BrokerType'
  BY <1>1, <1>4, <1>6, <1>7 DEF BrokerType, Phases
<1>10. StreamInv'
  BY <1>1, <1>4 DEF StreamInv, Written, f
<1>11. RunsInv'
  BY <1>1, <1>3, <1>7, LogAssumption DEF BrokerInv, RunsInv, NotBegun, Runs
<1>12. LogFollowsBus'
  BY <1>1, <1>7, <1>8 DEF BrokerInv, LogFollowsBus, f
<1>13. FlushInv'
  <2>1. run \in flushed => Len(files[run]) >= End(f, Len(f) - 1)
    BY <1>3 DEF BrokerInv, FlushInv, f
  <2>2. /\ Len(files[run]) \in Nat /\ Len(new) \in Nat
        /\ End(f, Len(f) - 1) \in Nat
    <3>1. Len(f) - 1 \in Nat
      BY <1>3, EmptySeq
    <3> QED BY <1>6, <3>1, RunFacts, LenProperties, EndIs
  <2>3. run \in flushed => Len(new) >= End(f, Len(f) - 1)
    BY <1>6, <2>1, <2>2
  <2>4. \A r \in flushed : forwarded'[r] # <<>> =>
          Len(files'[r]) >= End(forwarded'[r], Len(forwarded'[r]) - 1)
    BY <1>1, <1>7, <2>3 DEF BrokerInv, FlushInv, BrokerType, f
  <2>5. phase' # "down" /\ run' \in flushed' => late'
    BY <1>1 DEF BrokerInv, FlushInv
  <2> QED BY <1>1, <2>4, <2>5 DEF FlushInv
<1>14. OverKept
  BY <1>1, <1>3, <1>7, LogAssumption DEF OverKept, Over, Runs
<1>15. InterruptInv'
  BY <1>1, <1>14
     DEF BrokerInv, InterruptInv, BrokerType, OverKept, Lacks
<1> QED BY <1>9, <1>10, <1>11, <1>12, <1>13, <1>14, <1>15
        DEF BrokerStep, BrokerInv

\* All but the message in hand is in the stream.
LEMMA StreamLacksOne ==
  ASSUME BrokerType, BrokerInv, phase # "down", forwarded[run] # <<>>
  PROVE  Len(stream) >= End(forwarded[run], Len(forwarded[run]) - 1)
<1> DEFINE f == forwarded[run]
<1>1. Len(f) \in Nat /\ Len(f) >= 1
  BY RunFacts, EmptySeq
<1>2. Len(stream) = End(f, Len(f)) \/ Len(stream) = End(f, Len(f) - 1)
  BY DEF BrokerInv, StreamInv, Written
<1> HIDE DEF f
<1>3. /\ End(f, Len(f)) \in Nat /\ End(f, Len(f) - 1) \in Nat
      /\ End(f, Len(f) - 1) <= End(f, Len(f))
  <2>1. Len(f) - 1 \in Nat /\ Len(f) - 1 <= Len(f)
    BY <1>1
  <2>2. End(f, Len(f)) \in Nat /\ End(f, Len(f) - 1) \in Nat
    BY <1>1, <2>1, EndIs
  <2>3. End(f, Len(f) - 1) + 4 * (Len(f) - (Len(f) - 1)) <= End(f, Len(f))
    BY <1>1, <2>1, EndGrows
  <2> QED BY <1>1, <2>2, <2>3
<1> QED BY <1>2, <1>3 DEF f

LEMMA FlushStep ==
  ASSUME BrokerType, BrokerInv, Flush
  PROVE  BrokerStep
<1> DEFINE f == forwarded[run]
<1>1. /\ phase = "flush" /\ phase' = "poll"
      /\ UNCHANGED <<run, published, inbox, hand, forwarded, stream, late,
                     interrupted>>
      /\ run \in Runs
  BY DEF Flush, BrokerType
<1>2. BeginsLogOf(stream, f) /\ Len(stream) = End(f, Len(f))
  BY <1>1 DEF BrokerInv, StreamInv, Written
<1>3. CASE ~late
  <2>1. UNCHANGED <<files, flushed>> /\ run \notin flushed
    BY <1>1, <1>3 DEF Flush, BrokerInv, FlushInv
  <2>2. BrokerType'
    BY <1>1, <2>1 DEF BrokerType, Phases
  <2>3. BrokerInv'
    BY <1>1, <2>1 DEF BrokerInv, StreamInv, RunsInv, NotBegun, LogFollowsBus,
                      FlushInv, InterruptInv, Lacks, Over, Written
  <2> QED BY <1>1, <2>1, <2>2, <2>3 DEF BrokerStep, OverKept, Over
<1>4. CASE late
  <2>1. /\ files' = [files EXCEPT ![run] = stream]
        /\ flushed' = flushed \cup {run}
    BY <1>4 DEF Flush
  <2>2. /\ files' \in [Runs -> Seq(Bytes)] /\ files'[run] = stream
        /\ \A r \in Runs : r # run => files'[r] = files[r]
    BY <1>1, <2>1 DEF BrokerType
  <2>3. BrokerType'
    BY <1>1, <2>1, <2>2, BeginsItself DEF BrokerType, Phases
  <2>4. StreamInv'
    BY <1>1, <1>2 DEF StreamInv, Written
  <2>5. RunsInv'
    BY <1>1, <2>1, <2>2, LogAssumption DEF BrokerInv, RunsInv, NotBegun, Runs
  <2>6. LogFollowsBus'
    BY <1>1, <1>2, <2>2 DEF BrokerInv, LogFollowsBus
  <2>7. FlushInv'
    <3>1. f # <<>> => Len(stream) >= End(f, Len(f) - 1)
      BY <1>1, StreamLacksOne
    <3> QED BY <1>1, <1>4, <2>1, <2>2, <3>1
            DEF BrokerInv, FlushInv, BrokerType
  <2>8. OverKept
    BY <1>1, <2>2, LogAssumption DEF OverKept, Over, Runs
  <2>9. InterruptInv'
    BY <1>1, <2>8
       DEF BrokerInv, InterruptInv, BrokerType, OverKept, Lacks
  <2> QED BY <2>3, <2>4, <2>5, <2>6, <2>7, <2>8, <2>9
          DEF BrokerStep, BrokerInv
<1> QED BY <1>3, <1>4

LEMMA GoneType ==
  ASSUME BrokerType, Gone, files' \in [Runs -> Seq(Bytes)],
         interrupted' \in SUBSET Runs
  PROVE  BrokerType'
<1>1. <<>> \in Seq(Ids) /\ <<>> \in Seq(Bytes)
  BY EmptySeq
<1> QED BY <1>1 DEF Gone, BrokerType, Phases

LEMMA InterruptStep ==
  ASSUME BrokerType, BrokerInv, Interrupt
  PROVE  BrokerStep
<1> DEFINE f == forwarded[run]
<1>1. /\ phase # "down" /\ phase' = "down"
      /\ files' = [files EXCEPT ![run] = stream]
      /\ interrupted' = interrupted \cup {run}
      /\ UNCHANGED <<run, published, forwarded, flushed>>
      /\ run \in Runs
  BY DEF Interrupt, Gone, BrokerType
<1>2. BeginsLogOf(stream, f)
  BY <1>1 DEF BrokerInv, StreamInv
<1>3. /\ files' \in [Runs -> Seq(Bytes)] /\ files'[run] = stream
      /\ \A r \in Runs : r # run => files'[r] = files[r]
  BY <1>1 DEF BrokerType
<1>4. BrokerType'
  BY <1>1, <1>3, GoneType DEF Interrupt, BrokerType
<1>5. StreamInv'
  BY <1>1 DEF StreamInv
<1>6. RunsInv'
  BY <1>1, <1>3, LogAssumption DEF BrokerInv, RunsInv, NotBegun, Runs
<1>7. LogFollowsBus'
  BY <1>1, <1>2, <1>3 DEF BrokerInv, LogFollowsBus
<1>8. FlushInv'
  <2>1. f # <<>> => Len(stream) >= End(f, Len(f) - 1)
    BY <1>1, StreamLacksOne
  <2> QED BY <1>1, <1>3, <2>1 DEF BrokerInv, FlushInv, BrokerType
<1>9. OverKept
  BY <1>1, <1>3, LogAssumption DEF OverKept, Over, Runs
<1>10. Over(run)' /\ (Lacks(run, 0) \/ Lacks(run, 1))'
  <2>1. Over(run)'
    BY <1>1 DEF Over
  <2>2. /\ Len(f) \in Nat /\ phase = "write" => Len(f) >= 1
        /\ Len(stream) = End(f, IF phase = "write" THEN Len(f) - 1 ELSE Len(f))
    BY <1>1, RunFacts DEF BrokerInv, StreamInv, Written
  <2>3. forwarded'[run'] = f /\ files'[run'] = stream
    BY <1>1, <1>3
  <2>4. Len(f) - 0 = Len(f) /\ Len(f) >= 0
    BY <2>2
  <2>5. (Lacks(run, 0) \/ Lacks(run, 1))'
    BY <2>2, <2>3, <2>4 DEF Lacks
  <2> QED BY <2>1, <2>5
<1>11. InterruptInv'
  BY <1>1, <1>9, <1>10
     DEF BrokerInv, InterruptInv, BrokerType, OverKept, Lacks
<1> QED BY <1>4, <1>5, <1>6, <1>7, <1>8, <1>9, <1>11
        DEF BrokerStep, BrokerInv

LEMMA CrashStep ==
  ASSUME BrokerType, BrokerInv, Crash
  PROVE  BrokerStep
<1>1. /\ phase # "down" /\ phase' = "down"
      /\ UNCHANGED <<run, published, forwarded, flushed, files, interrupted>>
  BY DEF Crash, Gone
<1>2. BrokerType'
  BY <1>1, GoneType DEF Crash, BrokerType
<1>3. BrokerInv'
  BY <1>1 DEF BrokerInv, StreamInv, RunsInv, NotBegun, LogFollowsBus,
              FlushInv, InterruptInv, Lacks, Over
<1> QED BY <1>1, <1>2, <1>3 DEF BrokerStep, OverKept, Over

LEMMA RestartStep ==
  ASSUME BrokerType, BrokerInv, Restart
  PROVE  BrokerStep
<1>1. /\ phase = "down" /\ run < MaxRuns /\ run' = run + 1
      /\ phase' = "poll" /\ stream' = Header
      /\ UNCHANGED <<published, inbox, hand, forwarded, files, late, flushed,
                     interrupted>>
  BY DEF Restart
<1>2. run \in Nat /\ run + 1 \in Runs /\ run + 1 > run /\ run \in Runs
  BY <1>1, LogAssumption DEF BrokerType, Runs
<1>3. NotBegun(run + 1)
  BY <1>2 DEF BrokerInv, RunsInv
<1>4. BrokerType'
  BY <1>1, <1>2, <1>3, HeaderIs, BeginsItself
     DEF BrokerType, Phases, NotBegun
<1>5. StreamInv'
  <2>1. forwarded'[run'] = <<>> /\ Len(<<>>) = 0
    BY <1>1, <1>3 DEF NotBegun
  <2>2. Written' = 0
    BY <1>1, <2>1 DEF Written
  <2> QED BY <1>1, <2>1, <2>2, HeaderLog DEF StreamInv
<1>6. RunsInv'
  BY <1>1, <1>2, LogAssumption DEF BrokerInv, RunsInv, NotBegun, Runs
<1>7. LogFollowsBus'
  BY <1>1 DEF BrokerInv, LogFollowsBus
<1>8. FlushInv'
  BY <1>1, <1>3 DEF BrokerInv, FlushInv, NotBegun
<1>9. OverKept
  BY <1>1, <1>2, LogAssumption DEF OverKept, Over, Runs
<1>10. InterruptInv'
  BY <1>1, <1>9
     DEF BrokerInv, InterruptInv, BrokerType, OverKept, Lacks
<1> QED BY <1>4, <1>5, <1>6, <1>7, <1>8, <1>9, <1>10 DEF BrokerStep, BrokerInv

-----------------------------------------------------------------------------
(* The reader.                                                             *)

ReaderStep == ReaderType' /\ ReaderInv'

LEMMA ReaderKept ==
  ASSUME ReaderType, ReaderInv, OverKept, reader' = reader
  PROVE  ReaderStep
<1>1. ReaderType'
  BY DEF ReaderType
<1>2. CASE reader.log = 0
  BY <1>1, <1>2 DEF ReaderStep, ReaderInv
<1>3. CASE reader.log # 0
  <2>a. reader.log \in Runs
    BY <1>3, LogAssumption DEF ReaderType, Runs
  <2>b. Over(reader.log)
    BY <1>3 DEF ReaderInv
  <2>1. reader.log \in Runs /\ Over(reader.log)
    BY <2>a, <2>b
  <2>2. PICK r : r = reader.log
    OBVIOUS
  <2>3. /\ Over(r)' /\ files'[r] = files[r] /\ forwarded'[r] = forwarded[r]
        /\ reader'.log = r
    BY <2>1, <2>2 DEF OverKept
  <2>4. ReaderInv'
    BY <1>3, <2>2, <2>3
       DEF ReaderInv, ReadsWholeMessages, Between, Stopped
  <2> QED BY <1>1, <2>4 DEF ReaderStep
<1> QED BY <1>2, <1>3

\* The log being read.
LEMMA ReaderFacts ==
  ASSUME BrokerType, LogFollowsBus, ReaderType, ReaderInv, reader.log # 0
  PROVE  /\ reader.log \in Runs
         /\ forwarded[reader.log] \in Seq(Ids)
         /\ files[reader.log] \in Seq(Bytes)
         /\ Len(forwarded[reader.log]) \in Nat
         /\ Len(files[reader.log]) \in Nat
         /\ BeginsLogOf(files[reader.log], forwarded[reader.log])
         /\ reader.records \in Seq(Seq(Bytes)) /\ Len(reader.records) \in Nat
         /\ Len(reader.records) <= Len(forwarded[reader.log])
         /\ reader.record \in Seq(Bytes) /\ Len(reader.record) \in Nat
         /\ reader.position \in Nat
<1>1. reader.log \in Runs
  BY LogAssumption DEF ReaderType, Runs
<1>2. /\ forwarded[reader.log] \in Seq(Ids)
      /\ files[reader.log] \in Seq(Bytes)
      /\ reader.records \in Seq(Seq(Bytes))
      /\ reader.record \in Seq(Bytes)
      /\ reader.position \in Nat
  BY <1>1 DEF BrokerType, ReaderType
<1> QED BY <1>1, <1>2, LenProperties
        DEF LogFollowsBus, ReaderInv, ReadsWholeMessages

LEMMA OpenLogStep ==
  ASSUME BrokerType, LogFollowsBus, NEW r \in Runs, OpenLog(r)
  PROVE  ReaderStep
<1>1. /\ Over(r)
      /\ reader' = [log |-> r, position |-> PieceSize, record |-> <<>>,
                    records |-> <<>>,
                    status |-> IF Len(files[r]) < PieceSize THEN "no log"
                               ELSE "reading"]
      /\ UNCHANGED <<phase, run, forwarded, files>>
  BY DEF OpenLog
<1>2. /\ reader'.log = r /\ reader'.position = PieceSize
      /\ reader'.record = <<>> /\ reader'.records = <<>>
      /\ reader'.status = IF Len(files[r]) < PieceSize THEN "no log"
                          ELSE "reading"
  BY <1>1
<1>3. r \in 0 .. MaxRuns /\ r # 0 /\ PieceSize \in Nat /\ PieceSize = 2
  BY LogAssumption DEF Runs, PieceSize
<1>4. /\ <<>> \in Seq(Bytes) /\ <<>> \in Seq(Seq(Bytes))
      /\ Len(<<>>) = 0 /\ DOMAIN <<>> = {}
  BY EmptySeq
<1>5. ReaderType'
  BY <1>1, <1>3, <1>4 DEF ReaderType, Statuses
<1>6. /\ forwarded[r] \in Seq(Ids) /\ Len(forwarded[r]) \in Nat
      /\ Len(files[r]) \in Nat
  BY LenProperties DEF BrokerType
<1>7. Over(r)' /\ files'[r] = files[r] /\ forwarded'[r] = forwarded[r]
  BY <1>1 DEF Over
<1>a. /\ forwarded'[reader'.log] = forwarded[r]
      /\ files'[reader'.log] = files[r]
      /\ Over(reader.log)'
      /\ Len(reader'.records) = 0 /\ DOMAIN reader'.records = {}
      /\ Len(reader'.record) = 0
  BY <1>2, <1>4, <1>7 DEF Over
<1>8. ReadsWholeMessages'
  BY <1>6, <1>a DEF ReadsWholeMessages
<1>9. Len(files[r]) >= PieceSize =>
        Between(forwarded[reader.log], Len(reader.records),
                Len(reader.record))'
  <2>1. End(forwarded'[reader'.log], Len(reader'.records)) = 2
    BY <1>a, EndOfNone
  <2>a. reader'.position = PieceSize
    BY <1>2
  <2>2. reader'.position = 2 /\ 0 \in {0, 2, 4} /\ 2 = 2 + 0
    BY <1>3, <2>a
  <2>3. Len(files[r]) >= PieceSize => 2 <= Len(files[r])
    BY <1>3, <1>6
  <2> QED BY <1>a, <2>1, <2>2, <2>3 DEF Between
<1>10. ReaderInv'
  <2>1. reader'.log # 0
    BY <1>2, <1>3
  <2>2. CASE Len(files[r]) < PieceSize
    <3>1. reader'.status = "no log"
      BY <1>2, <2>2
    <3> QED BY <1>2, <1>8, <1>a, <2>1, <2>2, <3>1 DEF ReaderInv
  <2>3. CASE Len(files[r]) >= PieceSize
    <3>1. ~(Len(files[r]) < PieceSize)
      BY <1>3, <1>6, <2>3
    <3>2. reader'.status = "reading"
      BY <1>2, <3>1
    <3> QED BY <1>8, <1>9, <1>a, <2>1, <2>3, <3>2 DEF ReaderInv
  <2> QED BY <1>3, <1>6, <2>2, <2>3
<1> QED BY <1>5, <1>10 DEF ReaderStep

\* What is left of the log in the place of the next piece.
LEMMA GotIs ==
  ASSUME BrokerType, LogFollowsBus, ReaderType, ReaderInv,
         reader.status = "reading"
  PROVE  /\ reader.log # 0
         /\ Got \in Seq(Bytes)
         /\ Accepts <=> reader.position + 2 <= Len(files[reader.log])
         /\ Accepts => /\ Len(Got) = 2
                       /\ \A k \in 1 .. 2 :
                            Got[k] = files[reader.log][reader.position + k]
         /\ Got = <<>> <=> reader.position = Len(files[reader.log])
<1>1. reader.log # 0
  BY DEF ReaderInv
<1> DEFINE file == files[reader.log]
           at == reader.position
           last == IF at + PieceSize <= Len(file) THEN at + PieceSize
                   ELSE Len(file)
<1>2. /\ file \in Seq(Bytes) /\ Len(file) \in Nat /\ at \in Nat
      /\ at <= Len(file) /\ PieceSize = 2
  BY <1>1, ReaderFacts DEF ReaderInv, Between, PieceSize
<1>3. Got = SubSeq(file, at + 1, last)
  BY DEF Got
<1> HIDE DEF file, at
<1>4. /\ at + 1 \in Int /\ last \in Int /\ last <= Len(file) /\ last >= at
      /\ \A i \in at + 1 .. last : file[i] \in Bytes
  BY <1>2, ElementOfSeq
<1>5. /\ Got \in Seq(Bytes)
      /\ Len(Got) = IF at + 1 <= last THEN last - (at + 1) + 1 ELSE 0
      /\ \A k \in 1 .. last - (at + 1) + 1 : Got[k] = file[at + 1 + k - 1]
  BY <1>3, <1>4, SubSeqProperties
<1>6. Len(Got) = last - at /\ \A k \in 1 .. last - at : Got[k] = file[at + k]
  <2> HIDE DEF last
  <2>1. Len(Got) = last - at
    BY <1>2, <1>4, <1>5
  <2>2. ASSUME NEW k \in 1 .. last - at PROVE Got[k] = file[at + k]
    <3>1. k \in 1 .. last - (at + 1) + 1 /\ at + 1 + k - 1 = at + k
      BY <1>2, <1>4
    <3>2. Got[k] = file[at + 1 + k - 1]
      BY <1>5, <3>1
    <3> QED BY <3>1, <3>2
  <2> QED BY <2>1, <2>2
<1>7. Accepts <=> at + 2 <= Len(file)
  BY <1>2, <1>6 DEF Accepts
<1>8. Accepts => Len(Got) = 2 /\ \A k \in 1 .. 2 : Got[k] = file[at + k]
  BY <1>2, <1>6, <1>7
<1>9. Got = <<>> <=> at = Len(file)
  <2>1. Got = <<>> <=> Len(Got) = 0
    BY <1>5, EmptySeq
  <2> QED BY <1>2, <1>6, <2>1
<1> QED BY <1>1, <1>5, <1>7, <1>8, <1>9 DEF file, at

LEMMA ReadEndsStep ==
  ASSUME BrokerType, LogFollowsBus, ReaderType, ReaderInv, ReadEnds
  PROVE  ReaderStep
<1>1. /\ reader.status = "reading" /\ ~Accepts
      /\ reader' = [reader EXCEPT
                      !.status = IF Got = <<>> /\ reader.record = <<>>
                                 THEN "end" ELSE "cut"]
      /\ UNCHANGED <<phase, run, forwarded, files>>
  BY DEF ReadEnds
<1>2. /\ reader'.log = reader.log /\ reader'.position = reader.position
      /\ reader'.record = reader.record /\ reader'.records = reader.records
      /\ reader'.status = IF Got = <<>> /\ reader.record = <<>> THEN "end"
                          ELSE "cut"
  BY <1>1 DEF ReaderType
<1>3. ReaderType'
  BY <1>1 DEF ReaderType, Statuses
<1>4. /\ reader.log # 0
      /\ reader.position + 2 > Len(files[reader.log])
      /\ Got = <<>> <=> reader.position = Len(files[reader.log])
      /\ reader.record = <<>> <=> Len(reader.record) = 0
  <2>1. /\ reader.log # 0
        /\ ~(reader.position + 2 <= Len(files[reader.log]))
        /\ Got = <<>> <=> reader.position = Len(files[reader.log])
    BY <1>1, GotIs
  <2>2. reader.position \in Nat /\ Len(files[reader.log]) \in Nat
    BY <2>1, ReaderFacts
  <2>3. reader.record = <<>> <=> Len(reader.record) = 0
    BY <2>1, ReaderFacts, EmptySeq
  <2> QED BY <2>1, <2>2, <2>3
<1>5. PICK r : r = reader.log
  OBVIOUS
<1>6. /\ Over(r)' /\ files'[r] = files[r] /\ forwarded'[r] = forwarded[r]
      /\ reader'.log = r
  BY <1>1, <1>2, <1>4, <1>5 DEF Over, ReaderInv
<1>7. ReadsWholeMessages'
  BY <1>2, <1>4, <1>5, <1>6 DEF ReaderInv, ReadsWholeMessages
<1>8. Between(forwarded[reader.log], Len(reader.records),
              Len(reader.record))'
  BY <1>1, <1>2, <1>4, <1>5, <1>6 DEF ReaderInv, Between
<1>9. Stopped(Len(reader.record))'
  BY <1>2, <1>4, <1>5, <1>6 DEF Stopped, PieceSize
<1>10. reader'.status \in {"end", "cut"}
  BY <1>2
<1>11. ReaderInv'
  <2>1. reader'.log # 0 /\ Over(reader.log)'
    BY <1>2, <1>4, <1>5, <1>6
  <2> QED BY <1>7, <1>8, <1>9, <1>10, <2>1 DEF ReaderInv
<1> QED BY <1>3, <1>11 DEF ReaderStep

\* A record so far and one more piece.
LEMMA PieceAdded ==
  ASSUME NEW record \in Seq(Bytes), NEW got \in Seq(Bytes)
  PROVE  /\ record \o got \in Seq(Bytes)
         /\ Len(record \o got) = Len(record) + Len(got)
         /\ \A k \in 1 .. Len(record) : (record \o got)[k] = record[k]
         /\ \A k \in 1 .. Len(got) :
              (record \o got)[Len(record) + k] = got[k]
<1>1. /\ record \o got \in Seq(Bytes)
      /\ Len(record \o got) = Len(record) + Len(got)
      /\ \A k \in 1 .. Len(record) + Len(got) :
           (record \o got)[k]
             = IF k <= Len(record) THEN record[k] ELSE got[k - Len(record)]
  BY ConcatProperties
<1>2. Len(record) \in Nat /\ Len(got) \in Nat
  BY LenProperties
<1> DEFINE longer == record \o got
<1> HIDE DEF longer
<1>3. \A k \in 1 .. Len(record) + Len(got) :
        longer[k] = IF k <= Len(record) THEN record[k]
                    ELSE got[k - Len(record)]
  BY <1>1 DEF longer
<1>4. \A k \in 1 .. Len(record) : longer[k] = record[k]
  BY <1>2, <1>3
<1>5. ASSUME NEW k \in 1 .. Len(got)
      PROVE  longer[Len(record) + k] = got[k]
  <2>1. /\ Len(record) + k \in 1 .. Len(record) + Len(got)
        /\ ~(Len(record) + k <= Len(record))
        /\ Len(record) + k - Len(record) = k
    BY <1>2
  <2> QED BY <1>3, <2>1
<1> QED BY <1>1, <1>4, <1>5 DEF longer

\* The reader is after n records of the log of f and c bytes of the next,
\* which with one more piece are longer.
PieceAfter(f, file, n, c, longer) ==
  /\ f \in Seq(Ids) /\ file \in Seq(Bytes) /\ BeginsLogOf(file, f)
  /\ n \in Nat /\ n <= Len(f) /\ c \in {0, 2, 4}
  /\ End(f, n) + c + 2 <= Len(file)
  /\ longer \in Seq(Bytes) /\ Len(longer) = c + 2
  /\ c # 0 => /\ c < Len(Pack(f[n + 1]))
              /\ \A k \in 1 .. c : longer[k] = Pack(f[n + 1])[k]
  /\ \A k \in 1 .. 2 : longer[c + k] = file[End(f, n) + c + k]

\* They are the record of f[n + 1] as far as they go.
BeginsRecord(f, n, c, longer) ==
  /\ n < Len(f) /\ f[n + 1] \in Ids
  /\ c + 2 <= Len(Pack(f[n + 1]))
  /\ \A k \in 1 .. c + 2 : longer[k] = Pack(f[n + 1])[k]
  /\ Complete(longer) <=> c + 2 = Len(Pack(f[n + 1]))

LEMMA BeforeTheEnd ==
  ASSUME NEW f, NEW many \in Nat, NEW size \in Nat, NEW n \in Nat, n <= many,
         NEW c \in {0, 2, 4}, End(f, n) + c + 2 <= size, size <= End(f, many)
  PROVE  n < many
<1>1. End(f, n) \in Nat
  BY EndIs
<1>2. n # many
  BY <1>1
<1> QED BY <1>2

LEMMA PieceFits ==
  ASSUME NEW f, NEW file, NEW n, NEW c, NEW longer,
         PieceAfter(f, file, n, c, longer)
  PROVE  BeginsRecord(f, n, c, longer)
<1> DEFINE m == f[n + 1]
           pack == Pack(m)
           end == End(f, n)
<1>1. /\ f \in Seq(Ids) /\ file \in Seq(Bytes) /\ BeginsLogOf(file, f)
      /\ n \in Nat /\ n <= Len(f) /\ c \in {0, 2, 4}
      /\ end + c + 2 <= Len(file)
      /\ Len(longer) = c + 2
      /\ c # 0 => c < Len(pack)
  BY DEF PieceAfter
<1>2. /\ \A k \in 1 .. c : longer[k] = pack[k]
      /\ \A k \in 1 .. 2 : longer[c + k] = file[end + c + k]
  BY <1>1 DEF PieceAfter
<1>3. /\ Len(f) \in Nat /\ DOMAIN f = 1 .. Len(f)
      /\ Len(file) \in Nat /\ DOMAIN file = 1 .. Len(file)
      /\ end \in Nat
  BY <1>1, LenProperties, EndIs
<1>4. n < Len(f)
  <2>1. Len(file) <= End(f, Len(f))
    BY <1>1 DEF BeginsLogOf
  <2> QED BY <1>1, <1>3, <2>1, BeforeTheEnd
<1>5. n + 1 \in DOMAIN f /\ (n + 1) - 1 = n
  BY <1>1, <1>3, <1>4
<1>6. m \in Ids
  BY <1>1, <1>3, <1>5, ElementOfSeq
<1>7. /\ DOMAIN pack = 1 .. Len(pack)
      /\ Len(pack) = IF m \in Hollow THEN 4 ELSE 6
      /\ pack[1] = <<m, "head">>
  BY <1>6, PackIs, LenProperties
<1>8. \A k \in DOMAIN pack : end + k \in DOMAIN file => file[end + k] = pack[k]
  BY <1>1, <1>5 DEF BeginsLogOf
<1> HIDE DEF m, pack, end
<1>9. Len(pack) \in Nat /\ c + 2 <= Len(pack)
  BY <1>1, <1>7
<1>10. ASSUME NEW k \in 1 .. c + 2 PROVE longer[k] = pack[k]
  <2>1. CASE k <= c
    BY <1>1, <1>2, <2>1
  <2>2. CASE k > c
    <3>1. k - c \in 1 .. 2 /\ c + (k - c) = k /\ end + c + (k - c) = end + k
      BY <1>1, <1>3, <2>2
    <3>2. longer[k] = file[end + k]
      BY <1>2, <3>1
    <3>3. k \in DOMAIN pack
      BY <1>1, <1>7, <1>9
    <3>4. end + k \in DOMAIN file
      BY <1>1, <1>3
    <3> QED BY <1>8, <3>2, <3>3, <3>4
  <2> QED BY <1>1, <2>1, <2>2
<1>11. Complete(longer) <=> c + 2 = Len(pack)
  <2>1. longer[1] = <<m, "head">>
    BY <1>1, <1>7, <1>10
  <2>2. longer[1][1] = m
    BY <2>1
  <2>3. (Len(longer) + PieceSize - 1) \div PieceSize
          = IF c = 0 THEN 1 ELSE IF c = 2 THEN 2 ELSE 3
    BY <1>1 DEF PieceSize
  <2> QED BY <1>1, <1>7, <1>9, <2>2, <2>3 DEF Complete
<1> QED BY <1>4, <1>6, <1>9, <1>10, <1>11 DEF BeginsRecord, m, pack

LEMMA ReadPieceStep ==
  ASSUME BrokerType, LogFollowsBus, ReaderType, ReaderInv, ReadPiece
  PROVE  ReaderStep
<1>1. PICK f, file, n, c, longer :
        /\ f = forwarded[reader.log] /\ file = files[reader.log]
        /\ n = Len(reader.records) /\ c = Len(reader.record)
        /\ longer = reader.record \o Got
  OBVIOUS
<1>2. /\ reader.status = "reading" /\ Accepts
      /\ UNCHANGED <<phase, run, forwarded, files>>
  BY DEF ReadPiece
<1>3. /\ reader.log # 0 /\ Got \in Seq(Bytes) /\ Len(Got) = 2
      /\ reader.position + 2 <= Len(file)
      /\ \A k \in 1 .. 2 : Got[k] = file[reader.position + k]
  BY <1>1, <1>2, GotIs
<1>4. /\ f \in Seq(Ids) /\ file \in Seq(Bytes) /\ BeginsLogOf(file, f)
      /\ n \in Nat /\ n <= Len(f) /\ Len(f) \in Nat
      /\ reader.record \in Seq(Bytes) /\ reader.position \in Nat
      /\ reader.records \in Seq(Seq(Bytes))
  BY <1>1, <1>3, ReaderFacts
<1>5. /\ reader.position = End(f, n) + c /\ c \in {0, 2, 4}
      /\ c # 0 => /\ c < Len(Pack(f[n + 1]))
                  /\ \A k \in 1 .. c : reader.record[k] = Pack(f[n + 1])[k]
  BY <1>1, <1>2, <1>3 DEF ReaderInv, Between
<1>6. /\ n < Len(f) /\ f[n + 1] \in Ids
      /\ longer \in Seq(Bytes) /\ Len(longer) = c + 2
      /\ c + 2 <= Len(Pack(f[n + 1]))
      /\ \A k \in 1 .. c + 2 : longer[k] = Pack(f[n + 1])[k]
      /\ Complete(longer) <=> c + 2 = Len(Pack(f[n + 1]))
  <2>1. PICK record, got : record = reader.record /\ got = Got
    OBVIOUS
  <2>2. /\ record \in Seq(Bytes) /\ Len(record) = c
        /\ got \in Seq(Bytes) /\ Len(got) = 2
        /\ longer = record \o got
    BY <1>1, <1>3, <1>4, <2>1
  <2>3. /\ longer \in Seq(Bytes) /\ Len(longer) = Len(record) + Len(got)
        /\ \A k \in 1 .. Len(record) : longer[k] = record[k]
        /\ \A k \in 1 .. Len(got) : longer[Len(record) + k] = got[k]
    BY <2>2, PieceAdded, Zenon
  <2>4. /\ Len(longer) = c + 2
        /\ \A k \in 1 .. c : longer[k] = reader.record[k]
        /\ \A k \in 1 .. 2 : longer[c + k] = file[End(f, n) + c + k]
    <3>1. /\ Len(longer) = c + 2
          /\ \A k \in 1 .. c : longer[k] = record[k]
          /\ \A k \in 1 .. 2 : longer[c + k] = got[k]
      BY <2>2, <2>3, Zenon
    <3>2. \A k \in 1 .. 2 : got[k] = file[End(f, n) + c + k]
      BY <1>3, <1>5, <2>1
    <3> QED BY <2>1, <3>1, <3>2, Zenon
  <2>5. c # 0 => /\ c < Len(Pack(f[n + 1]))
                 /\ \A k \in 1 .. c : longer[k] = Pack(f[n + 1])[k]
    BY <1>5, <2>4, Zenon
  <2>6. /\ f \in Seq(Ids) /\ file \in Seq(Bytes) /\ BeginsLogOf(file, f)
        /\ n \in Nat /\ n <= Len(f) /\ c \in {0, 2, 4}
    BY <1>4, <1>5
  <2>7. End(f, n) + c + 2 <= Len(file)
    BY <1>3, <1>5
  <2>8. longer \in Seq(Bytes) /\ Len(longer) = c + 2
    BY <2>3, <2>4, Zenon
  <2>9. \A k \in 1 .. 2 : longer[c + k] = file[End(f, n) + c + k]
    BY <2>4, Zenon
  <2>10. /\ n < Len(f) /\ f[n + 1] \in Ids
         /\ c + 2 <= Len(Pack(f[n + 1]))
         /\ \A k \in 1 .. c + 2 : longer[k] = Pack(f[n + 1])[k]
         /\ Complete(longer) <=> c + 2 = Len(Pack(f[n + 1]))
    <3>1. PieceAfter(f, file, n, c, longer)
      BY <2>5, <2>6, <2>7, <2>8, <2>9 DEF PieceAfter
    <3>2. BeginsRecord(f, n, c, longer)
      BY <3>1, PieceFits, Zenon
    <3> QED BY <3>2, Zenon DEF BeginsRecord
  <2> QED BY <2>8, <2>10, Zenon
<1>7. /\ reader'.log = reader.log /\ reader'.status = "reading"
      /\ reader'.position = reader.position + 2
      /\ Complete(longer) =>
           /\ reader'.record = <<>>
           /\ reader'.records = Append(reader.records, longer)
      /\ ~Complete(longer) =>
           reader'.record = longer /\ reader'.records = reader.records
      /\ reader' \in [log : {reader.log}, position : {reader'.position},
                      record : {reader'.record}, records : {reader'.records},
                      status : {"reading"}]
  BY <1>1, <1>2, <1>3 DEF ReadPiece, ReaderType
<1>8. /\ Over(reader.log)'
      /\ files'[reader'.log] = file /\ forwarded'[reader'.log] = f
  BY <1>1, <1>2, <1>3, <1>7 DEF ReaderInv, Over
<1>9. Len(file) \in Nat /\ End(f, n) \in Nat
  BY <1>4, LenProperties, EndIs
<1>10. CASE ~Complete(longer)
  <2>1. c + 2 \in {0, 2, 4} /\ c + 2 < Len(Pack(f[n + 1]))
    BY <1>5, <1>6, <1>10, PackIs
  <2>2. /\ Len(reader'.records) = n /\ Len(reader'.record) = c + 2
        /\ reader'.record = longer /\ reader'.records = reader.records
    BY <1>1, <1>6, <1>7, <1>10
  <2>3. Between(forwarded[reader.log], Len(reader.records),
                Len(reader.record))'
    <3>1. /\ reader'.position = End(f, n) + (c + 2)
          /\ reader'.position <= Len(file)
      BY <1>3, <1>5, <1>7, <1>9
    <3> QED BY <1>6, <1>8, <2>1, <2>2, <3>1 DEF Between
  <2>4. ReadsWholeMessages'
    <3>1. PICK records : records = reader.records
      OBVIOUS
    <3>2. /\ Len(records) <= Len(f)
          /\ \A i \in DOMAIN records : records[i] = Pack(f[i])
      BY <1>1, <1>3, <3>1 DEF ReadsWholeMessages, ReaderInv
    <3>3. reader'.records = records
      BY <2>2, <3>1
    <3> QED BY <1>8, <3>2, <3>3 DEF ReadsWholeMessages
  <2>5. ReaderType'
    <3>1. reader'.position \in Nat
      BY <1>4, <1>7
    <3> QED BY <1>4, <1>6, <1>7, <2>2, <3>1 DEF ReaderType, Statuses
  <2> QED BY <1>3, <1>7, <1>8, <2>3, <2>4, <2>5 DEF ReaderStep, ReaderInv
<1>11. CASE Complete(longer)
  <2>1. longer = Pack(f[n + 1])
    <3>1. /\ Pack(f[n + 1]) \in Seq(Bytes)
          /\ Len(Pack(f[n + 1])) = c + 2
      BY <1>6, <1>11, PackIs
    <3> QED BY <1>6, <3>1, SeqEqual
  <2>2. /\ reader'.records \in Seq(Seq(Bytes))
        /\ Len(reader'.records) = n + 1
        /\ \A i \in 1 .. n : reader'.records[i] = reader.records[i]
        /\ reader'.records[n + 1] = Pack(f[n + 1])
    <3>1. PICK records : records = reader.records
      OBVIOUS
    <3>2. records \in Seq(Seq(Bytes)) /\ Len(records) = n
      BY <1>1, <1>4, <3>1
    <3>3. /\ Append(records, longer) \in Seq(Seq(Bytes))
          /\ Len(Append(records, longer)) = Len(records) + 1
          /\ \A i \in 1 .. Len(records) :
               Append(records, longer)[i] = records[i]
          /\ Append(records, longer)[Len(records) + 1] = longer
      BY <1>6, <3>2, AppendProperties
    <3>4. reader'.records = Append(records, longer)
      BY <1>7, <1>11, <3>1
    <3> QED BY <2>1, <3>1, <3>2, <3>3, <3>4
  <2>3. reader'.record = <<>> /\ Len(<<>>) = 0 /\ Len(reader'.record) = 0
    BY <1>7, <1>11
  <2>4. End(f, n + 1) = End(f, n) + (c + 2)
    <3>1. c + 2 = IF f[n + 1] \in Hollow THEN 4 ELSE 6
      BY <1>6, <1>11, PackIs
    <3> QED BY <1>4, <3>1, EndStep
  <2>5. Between(forwarded[reader.log], Len(reader.records),
                Len(reader.record))'
    <3>1. reader'.position = End(f, n + 1) + 0 /\ reader'.position <= Len(file)
      BY <1>3, <1>5, <1>7, <1>9, <2>4
    <3> QED BY <1>8, <2>2, <2>3, <3>1 DEF Between
  <2>6. ReadsWholeMessages'
    <3>1. \A i \in 1 .. n : reader.records[i] = Pack(f[i])
      <4>1. DOMAIN reader.records = 1 .. n
        BY <1>1, <1>4, LenProperties
      <4> QED BY <1>1, <1>3, <4>1 DEF ReaderInv, ReadsWholeMessages
    <3>2. DOMAIN reader'.records = 1 .. n + 1
      BY <2>2, LenProperties
    <3>3. ASSUME NEW i \in 1 .. n + 1
          PROVE  reader'.records[i] = Pack(f[i])
      <4>1. i \in 1 .. n \/ i = n + 1
        BY <1>4
      <4> QED BY <2>2, <3>1, <4>1
    <3>4. n + 1 <= Len(f)
      BY <1>4, <1>6
    <3> QED BY <1>8, <2>2, <3>2, <3>3, <3>4 DEF ReadsWholeMessages
  <2>7. ReaderType'
    <3>1. reader'.position \in Nat /\ reader'.record \in Seq(Bytes)
      BY <1>4, <1>7, <2>3, EmptySeq
    <3>2. reader.log \in 0 .. MaxRuns
      BY DEF ReaderType
    <3> QED BY <1>7, <2>2, <3>1, <3>2 DEF ReaderType, Statuses
  <2> QED BY <1>3, <1>7, <1>8, <2>5, <2>6, <2>7 DEF ReaderStep, ReaderInv
<1> QED BY <1>10, <1>11

-----------------------------------------------------------------------------
(* The invariant is one.                                                   *)

LEMMA InitInv == Init => LogInv
<1> SUFFICES ASSUME Init PROVE LogInv
  OBVIOUS
<1> USE DEF Init
<1>1. /\ Header \in Seq(Bytes) /\ Len(Header) = 2
      /\ BeginsLogOf(Header, <<>>) /\ Len(Header) = End(<<>>, 0)
  BY HeaderIs, HeaderLog
<1>2. /\ 1 \in Runs /\ forwarded[1] = <<>> /\ files[1] = <<>>
      /\ \A r \in Runs : forwarded[r] = <<>> /\ files[r] = <<>>
  BY LogAssumption DEF Runs
<1>3. BrokerType
  <2>1. /\ forwarded \in [Runs -> Seq(Ids)] /\ files \in [Runs -> Seq(Bytes)]
        /\ inbox \in Seq(Ids)
    BY EmptySeq
  <2>2. Begins(files[run], stream)
    BY <1>1, <1>2 DEF Begins
  <2>3. 0 \in 0 .. MaxMessages
    BY LogAssumption
  <2> QED BY <1>1, <1>2, <2>1, <2>2, <2>3 DEF BrokerType, Phases
<1>4. ReaderType
  <2>1. 0 \in 0 .. MaxRuns /\ <<>> \in Seq(Bytes) /\ <<>> \in Seq(Seq(Bytes))
    BY LogAssumption, EmptySeq
  <2> QED BY <2>1 DEF ReaderType, NoReader, Statuses
<1>5. StreamInv
  <2>1. Written = 0 /\ forwarded[run] = <<>> /\ phase # "write"
    BY <1>2 DEF Written
  <2> QED BY <1>1, <2>1 DEF StreamInv
<1>6. RunsInv
  BY <1>2 DEF RunsInv, NotBegun
<1>7. LogFollowsBus
  <2>1. <<>> \in Seq(Ids)
    BY EmptySeq
  <2>2. BeginsLogOf(<<>>, <<>>)
    BY <2>1, EmptyLog
  <2> QED BY <1>2, <2>2 DEF LogFollowsBus
<1>8. FlushInv /\ InterruptInv
  BY DEF FlushInv, InterruptInv
<1>9. ReaderInv
  BY DEF ReaderInv, NoReader
<1> QED BY <1>3, <1>4, <1>5, <1>6, <1>7, <1>8, <1>9, TypeParts
        DEF LogInv, BrokerInv

\* A reader changes nothing of the broker.
LEMMA BrokerKept ==
  ASSUME BrokerType, BrokerInv,
         UNCHANGED <<phase, run, published, inbox, hand, forwarded, stream,
                     files, late, flushed, interrupted>>
  PROVE  BrokerType' /\ BrokerInv'
<1>1. BrokerType'
  BY DEF BrokerType, Begins
<1>2. StreamInv' /\ RunsInv' /\ LogFollowsBus'
  BY DEF BrokerInv, StreamInv, RunsInv, NotBegun, LogFollowsBus, Written
<1>3. FlushInv' /\ InterruptInv'
  BY DEF BrokerInv, FlushInv, InterruptInv, Over, Lacks
<1> QED BY <1>1, <1>2, <1>3 DEF BrokerInv

LEMMA Invariance == LogInv /\ [Next]_vars => LogInv'
<1> SUFFICES ASSUME LogInv, [Next]_vars PROVE LogInv'
  OBVIOUS
<1>1. BrokerType /\ BrokerInv /\ ReaderType /\ ReaderInv /\ LogFollowsBus
  BY TypeParts DEF LogInv, BrokerInv
<1>2. ASSUME BrokerStep, reader' = reader PROVE LogInv'
  <2>1. OverKept
    BY <1>2 DEF BrokerStep
  <2>2. ReaderStep
    BY <1>1, <1>2, <2>1, ReaderKept
  <2> QED BY <1>2, <2>2, TypeParts DEF BrokerStep, ReaderStep, LogInv
<1>3. ASSUME ReaderStep,
             UNCHANGED <<phase, run, published, inbox, hand, forwarded,
                         stream, files, late, flushed, interrupted>>
      PROVE  LogInv'
  <2>1. BrokerType' /\ BrokerInv'
    BY <1>1, <1>3, BrokerKept
  <2> QED BY <1>3, <2>1, TypeParts DEF ReaderStep, LogInv
<1>4. CASE Publish \/ SecondPasses
  <2>1. BrokerStep
    BY <1>1, <1>4, BusStep
  <2> QED BY <1>2, <1>4, <2>1 DEF Publish, SecondPasses
<1>5. CASE Forward
  <2>1. BrokerStep
    BY <1>1, <1>5, ForwardStep
  <2> QED BY <1>2, <1>5, <2>1 DEF Forward
<1>6. CASE Write
  <2>1. BrokerStep
    BY <1>1, <1>6, WriteStep
  <2> QED BY <1>2, <1>6, <2>1 DEF Write
<1>7. CASE Flush
  <2>1. BrokerStep
    BY <1>1, <1>7, FlushStep
  <2> QED BY <1>2, <1>7, <2>1 DEF Flush
<1>8. CASE Interrupt
  <2>1. BrokerStep
    BY <1>1, <1>8, InterruptStep
  <2> QED BY <1>2, <1>8, <2>1 DEF Interrupt, Gone
<1>9. CASE Crash
  <2>1. BrokerStep
    BY <1>1, <1>9, CrashStep
  <2> QED BY <1>2, <1>9, <2>1 DEF Crash, Gone
<1>10. CASE Restart
  <2>1. BrokerStep
    BY <1>1, <1>10, RestartStep
  <2> QED BY <1>2, <1>10, <2>1 DEF Restart
<1>11. CASE ReadPiece
  <2>1. ReaderStep
    BY <1>1, <1>11, ReadPieceStep
  <2> QED BY <1>3, <1>11, <2>1 DEF ReadPiece
<1>12. CASE ReadEnds
  <2>1. ReaderStep
    BY <1>1, <1>12, ReadEndsStep
  <2> QED BY <1>3, <1>12, <2>1 DEF ReadEnds
<1>13. ASSUME NEW r \in Runs, OpenLog(r) PROVE LogInv'
  <2>1. ReaderStep
    BY <1>1, <1>13, OpenLogStep
  <2> QED BY <1>3, <1>13, <2>1 DEF OpenLog
<1>14. CASE UNCHANGED vars
  <2>1. BrokerType' /\ BrokerInv'
    BY <1>1, <1>14, BrokerKept DEF vars
  <2>2. ReaderType' /\ ReaderInv'
    BY <1>1, <1>14 DEF vars, ReaderType, ReaderInv, Over, ReadsWholeMessages,
                       Between, Stopped
  <2> QED BY <2>1, <2>2, TypeParts DEF LogInv
<1>15. CASE Done
  BY <1>14, <1>15 DEF Done
<1> QED BY <1>4, <1>5, <1>6, <1>7, <1>8, <1>9, <1>10, <1>11, <1>12, <1>13,
           <1>14, <1>15 DEF Next, Broker, Read

\* Whenever the broker dies or is interrupted and whoever reads, the log of a
\* run is the beginning of what it forwarded, and the reader is where the
\* records it gave end (broker.py:67-89, its_logfile.py:271-299).
THEOREM LogInvariant == Spec => []LogInv
BY InitInv, Invariance, PTL DEF Spec

\* Every variable of the broker, its logs and the reader has a value of its
\* kind at all times.
THEOREM LogTypeInvariant == Spec => []TypeOK
<1>1. LogInv => TypeOK
  BY DEF LogInv
<1> QED BY <1>1, LogInvariant, PTL

\* Nothing is logged that was not forwarded, twice or out of order, whatever
\* part of the stream's buffer the kernel had when the broker died.
THEOREM LogsFollowTheBus == Spec => []LogFollowsBus
<1>1. LogInv => LogFollowsBus
  BY DEF LogInv, BrokerInv
<1> QED BY <1>1, LogInvariant, PTL

\* However a log was cut, a reader gives whole messages, the first its run
\* forwarded, and no more.
THEOREM ReaderGivesWholeMessages == Spec => []ReadsWholeMessages
<1>1. LogInv => ReadsWholeMessages
  BY DEF LogInv, ReaderInv, ReadsWholeMessages
<1> QED BY <1>1, LogInvariant, PTL

-----------------------------------------------------------------------------
(* What a log gives back.                                                  *)

\* The piece that would be next is within the record that is next.
LEMMA NextPiece ==
  ASSUME NEW f \in Seq(Ids), NEW n \in Nat, n < Len(f), NEW c \in {0, 2, 4},
         c # 0 => c < Len(Pack(f[n + 1]))
  PROVE  End(f, n) + c + 2 <= End(f, n + 1)
<1>1. f[n + 1] \in Ids
  <2>1. Len(f) \in Nat /\ n + 1 \in 1 .. Len(f)
    BY LenProperties
  <2> QED BY <2>1, ElementOfSeq
<1>2. Len(Pack(f[n + 1])) = IF f[n + 1] \in Hollow THEN 4 ELSE 6
  BY <1>1, PackIs
<1>3. End(f, n + 1) = End(f, n) + (IF f[n + 1] \in Hollow THEN 4 ELSE 6)
  BY EndStep
<1>4. End(f, n) \in Nat
  BY EndIs
<1>5. c + 2 <= IF f[n + 1] \in Hollow THEN 4 ELSE 6
  BY <1>2
<1> QED BY <1>3, <1>4, <1>5

\* A reader that stopped had less than a piece left.
LEMMA Rest ==
  ASSUME BrokerType, LogFollowsBus, ReaderType, ReaderInv, reader.log # 0,
         reader.status \in {"end", "cut"}
  PROVE  \E n \in Nat, c \in {0, 2, 4} :
           /\ n = Len(reader.records) /\ n <= Len(forwarded[reader.log])
           /\ End(forwarded[reader.log], n) + c <= Len(files[reader.log])
           /\ n < Len(forwarded[reader.log]) =>
                Len(files[reader.log]) < End(forwarded[reader.log], n + 1)
           /\ (reader.status = "end")
                <=> (c = 0 /\ End(forwarded[reader.log], n)
                                = Len(files[reader.log]))
<1>1. PICK f, file, n, c :
        /\ f = forwarded[reader.log] /\ file = files[reader.log]
        /\ n = Len(reader.records) /\ c = Len(reader.record)
  OBVIOUS
<1>2. /\ f \in Seq(Ids) /\ Len(f) \in Nat /\ Len(file) \in Nat
      /\ n \in Nat /\ n <= Len(f) /\ reader.position \in Nat
  BY <1>1, ReaderFacts
<1>3. /\ reader.position = End(f, n) + c /\ reader.position <= Len(file)
      /\ c \in {0, 2, 4} /\ (c # 0 => c < Len(Pack(f[n + 1])))
  BY <1>1 DEF ReaderInv, Between
<1>4. /\ Len(file) < reader.position + 2
      /\ reader.status = "end" <=> c = 0 /\ reader.position = Len(file)
  BY <1>1 DEF ReaderInv, Stopped, PieceSize
<1>5. ASSUME n < Len(f) PROVE Len(file) < End(f, n + 1)
  <2>1. End(f, n) + c + 2 <= End(f, n + 1)
    BY <1>2, <1>3, <1>5, NextPiece
  <2>2. End(f, n) \in Nat /\ End(f, n + 1) \in Nat
    BY <1>2, EndIs
  <2> QED BY <1>2, <1>3, <1>4, <2>1, <2>2
<1>6. End(f, n) \in Nat
  BY <1>2, EndIs
<1>7. /\ End(f, n) + c <= Len(file)
      /\ reader.status = "end" <=> c = 0 /\ End(f, n) = Len(file)
  BY <1>3, <1>4, <1>6
<1> QED BY <1>1, <1>2, <1>3, <1>5, <1>7

LEMMA EndMonotone ==
  ASSUME NEW s, NEW i \in Nat, NEW j \in Nat, i <= j
  PROVE  End(s, i) <= End(s, j)
<1>1. End(s, i) + 4 * (j - i) <= End(s, j)
  BY EndGrows
<1>2. End(s, i) \in Nat /\ End(s, j) \in Nat
  BY EndIs
<1> QED BY <1>1, <1>2

\* A log that goes beyond its last record but one gives all but one of them.
LEMMA AllButOne ==
  ASSUME NEW f, NEW many \in Nat, NEW size \in Nat,
         NEW n \in Nat, n <= many,
         many # 0 => size >= End(f, many - 1),
         n < many => size < End(f, n + 1)
  PROVE  many - n <= 1
<1>1. SUFFICES ASSUME many - n > 1 PROVE FALSE
  OBVIOUS
<1>2. n + 1 \in Nat /\ many - 1 \in Nat /\ n + 1 <= many - 1
  BY <1>1
<1>3. End(f, n + 1) <= End(f, many - 1)
  BY <1>2, EndMonotone
<1>4. End(f, n + 1) \in Nat /\ End(f, many - 1) \in Nat
  BY <1>2, EndIs
<1>5. n < many /\ many # 0
  BY <1>1
<1> QED BY <1>3, <1>4, <1>5

\* A log that ends where a record does gives the records up to there.
LEMMA AllOfThem ==
  ASSUME NEW f, NEW many \in Nat, NEW last \in Nat, last <= many,
         NEW n \in Nat, n <= many, NEW c \in {0, 2, 4},
         End(f, n) + c <= End(f, last),
         n < many => End(f, last) < End(f, n + 1)
  PROVE  n = last /\ c = 0
<1>1. End(f, last) \in Nat /\ End(f, n) \in Nat /\ End(f, n + 1) \in Nat
  BY EndIs
<1>2. ASSUME last < n PROVE FALSE
  <2>1. End(f, last) + 4 * (n - last) <= End(f, n)
    BY <1>2, EndGrows
  <2> QED BY <1>1, <1>2, <2>1
<1>3. ASSUME n < last PROVE FALSE
  <2>1. n + 1 \in Nat /\ n + 1 <= last /\ n < many
    BY <1>3
  <2>2. End(f, n + 1) <= End(f, last)
    BY <2>1, EndMonotone
  <2> QED BY <1>1, <2>1, <2>2
<1>4. n = last
  BY <1>2, <1>3
<1> QED BY <1>1, <1>4

\* What a reader that finished the log of r was given.
LEMMA FinishedFacts ==
  ASSUME BrokerType, BrokerInv, ReaderType, ReaderInv,
         NEW r \in Runs, Finished(r)
  PROVE  /\ r = reader.log /\ reader.log # 0
         /\ forwarded[r] \in Seq(Ids) /\ Len(forwarded[r]) \in Nat
         /\ Len(files[r]) \in Nat /\ Len(reader.records) \in Nat
         /\ Len(reader.records) <= Len(forwarded[r])
         /\ forwarded[r] = <<>> <=> Len(forwarded[r]) = 0
         /\ reader.status = "no log" => Len(files[r]) < 2
         /\ reader.status # "no log" => reader.status \in {"end", "cut"}
<1>1. r = reader.log /\ reader.log # 0
  <2>1. r # 0
    BY LogAssumption DEF Runs
  <2>2. r = reader.log
    BY DEF Finished
  <2> QED BY <2>1, <2>2
<1>2. LogFollowsBus
  BY DEF BrokerInv
<1>3. /\ forwarded[r] \in Seq(Ids) /\ Len(forwarded[r]) \in Nat
      /\ Len(files[r]) \in Nat /\ Len(reader.records) \in Nat
      /\ Len(reader.records) <= Len(forwarded[r])
  BY <1>1, <1>2, ReaderFacts
<1>4. forwarded[r] = <<>> <=> Len(forwarded[r]) = 0
  BY <1>3, EmptySeq
<1>5. reader.status = "no log" => Len(files[r]) < 2
  BY <1>1 DEF ReaderInv, PieceSize
<1>6. reader.status # "no log" => reader.status \in {"end", "cut"}
  BY DEF Finished
<1> QED BY <1>1, <1>3, <1>4, <1>5, <1>6

LEMMA OneIsLost ==
  ASSUME BrokerType, BrokerInv, ReaderType, ReaderInv,
         NEW r \in Runs, r \in flushed, Finished(r)
  PROVE  Lost(r) <= 1
<1>1. PICK f, many, size, n :
        /\ f = forwarded[r] /\ many = Len(forwarded[r])
        /\ size = Len(files[r]) /\ n = Len(reader.records)
  OBVIOUS
<1>2. /\ r = reader.log /\ reader.log # 0
      /\ many \in Nat /\ size \in Nat /\ n \in Nat /\ n <= many
      /\ f = <<>> <=> many = 0
  BY <1>1, FinishedFacts
<1>3. many # 0 => size >= End(f, many - 1)
  BY <1>1, <1>2 DEF BrokerInv, FlushInv
<1>4. Lost(r) = many - n
  BY <1>1 DEF Lost
<1>5. CASE reader.status = "no log"
  <2>1. size < 2
    BY <1>1, <1>5, FinishedFacts
  <2>2. ASSUME many # 0 PROVE FALSE
    <3>1. many - 1 \in Nat
      BY <1>2, <2>2
    <3>2. End(f, many - 1) \in Nat /\ End(f, many - 1) >= 2
      BY <3>1, EndIs
    <3> QED BY <1>2, <1>3, <2>1, <2>2, <3>2
  <2> QED BY <1>2, <1>4, <2>2
<1>6. CASE reader.status # "no log"
  <2>1. reader.status \in {"end", "cut"} /\ LogFollowsBus
    BY <1>6, FinishedFacts DEF BrokerInv
  <2>2. n < many => size < End(f, n + 1)
    BY <1>1, <1>2, <2>1, Rest
  <2> QED BY <1>2, <1>3, <1>4, <2>2, AllButOne
<1> QED BY <1>5, <1>6

LEMMA NothingIsCut ==
  ASSUME BrokerType, BrokerInv, ReaderType, ReaderInv,
         NEW r \in Runs, r \in interrupted, Finished(r)
  PROVE  Lost(r) <= 1 /\ reader.status = "end"
<1>1. PICK f, many, size, n :
        /\ f = forwarded[r] /\ many = Len(forwarded[r])
        /\ size = Len(files[r]) /\ n = Len(reader.records)
  OBVIOUS
<1>2. /\ r = reader.log /\ reader.log # 0
      /\ many \in Nat /\ size \in Nat /\ n \in Nat /\ n <= many
  BY <1>1, FinishedFacts
<1>3. PICK last \in Nat : last <= many /\ many - last <= 1
                          /\ size = End(f, last)
  <2>1. Lacks(r, 0) \/ Lacks(r, 1)
    BY DEF BrokerInv, InterruptInv
  <2>2. CASE Lacks(r, 0)
    <3>1. size = End(f, many - 0) /\ many - 0 \in Nat
      BY <1>1, <1>2, <2>2 DEF Lacks
    <3> QED BY <1>2, <3>1
  <2>3. CASE Lacks(r, 1)
    <3>1. size = End(f, many - 1) /\ many - 1 \in Nat
      BY <1>1, <1>2, <2>3 DEF Lacks
    <3> QED BY <1>2, <3>1
  <2> QED BY <2>1, <2>2, <2>3
<1>4. reader.status # "no log"
  <2>1. End(f, last) \in Nat /\ End(f, last) >= 2
    BY EndIs
  <2>2. reader.status = "no log" => size < 2
    BY <1>1, FinishedFacts
  <2>3. ~(size < 2)
    BY <1>2, <1>3, <2>1
  <2> QED BY <2>2, <2>3
<1>5. reader.status \in {"end", "cut"} /\ LogFollowsBus
  BY <1>4, FinishedFacts DEF BrokerInv
<1>6. PICK c \in {0, 2, 4} :
        /\ End(f, n) + c <= size
        /\ n < many => size < End(f, n + 1)
        /\ (reader.status = "end") <=> (c = 0 /\ End(f, n) = size)
  BY <1>1, <1>2, <1>5, Rest
<1>7. n = last /\ c = 0
  BY <1>2, <1>3, <1>6, AllOfThem
<1>8. Lost(r) = many - n
  BY <1>1 DEF Lost
<1>9. reader.status = "end"
  BY <1>3, <1>6, <1>7
<1> QED BY <1>3, <1>7, <1>8, <1>9

\* A run that flushed its log once loses one message at most, however it
\* ends: no flush period begins after the first (broker.py:67, 75-80).
THEOREM AFlushedRunLosesOne == Spec => []LosesOneAtMost
<1>1. LogInv => LosesOneAtMost
  BY TypeParts, OneIsLost DEF LogInv, LosesOneAtMost, BrokerType
<1> QED BY <1>1, LogInvariant, PTL

\* An interrupted run loses the message in hand at most, and a reader comes
\* to the end of its log (broker.py:82-89, its_logfile.py:183-200).
THEOREM AnInterruptedRunIsWhole == Spec => []InterruptKeepsLog
<1>1. LogInv => InterruptKeepsLog
  BY TypeParts, NothingIsCut DEF LogInv, InterruptKeepsLog, BrokerType
<1> QED BY <1>1, LogInvariant, PTL

=============================================================================
