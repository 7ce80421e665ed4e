------------------------ MODULE UslpDispatcherProofs ------------------------
(***************************************************************************)
(* Proofs about UslpDispatcher, for every set of SDUs, every number of     *)
(* parts, every width of the radio's cookies and every length of the inbox.*)
(***************************************************************************)
EXTENDS UslpDispatcher, FiniteSetTheorems, FunctionTheorems,
        SequenceTheorems, TLAPS

Told == told_radiated \cup told_failed

\* Everything the dispatcher knows of.
Carried == Stacked \cup PartsOf(frames_in_wait) \cup Told

\* All parts of an SDU cut into n.
Pieces(s, n) == {Split(s, n)[i] : i \in 1 .. n}

Separate(entries) ==
  \A e, f \in entries : e # f => e.parts \cap f.parts = {}

StackedOnce == \A i, j \in DOMAIN stack : stack[i] = stack[j] => i = j

\* A part is in one place; the parts of accepted SDUs are all there, and no
\* others.
PartsInv ==
  /\ \A s \in accepted : \E n \in 1 .. MaxParts :
       Pieces(s, n) = {p \in Carried : p.sdu = s}
  /\ \A p \in Carried : p.sdu \in accepted
  /\ StackedOnce
  /\ Stacked \cap (PartsOf(frames_in_wait) \cup Told) = {}
  /\ PartsOf(frames_in_wait) \cap Told = {}
  /\ Separate(frames_in_wait)

\* A request in the inbox is the only one of its SDU.
AskedOnce ==
  \A i \in DOMAIN inbox, s \in Sdus : inbox[i] = SduMsg(s) =>
    /\ s \notin accepted \cup rejected
    /\ \A j \in DOMAIN inbox : inbox[j] = SduMsg(s) => i = j

DispatcherInv == TypeOK /\ OneOutcome /\ PartsInv /\ AskedOnce

Messages == {SduMsg(s) : s \in Sdus} \cup {OtherMsg}
            \cup {StateMsg(r) : r \in UplinkStates}

ToldType ==
  told_radiated \subseteq Parts /\ told_failed \subseteq Parts
  /\ retold \subseteq Parts

-----------------------------------------------------------------------------
(* The inbox.                                                              *)

LEMMA PublishKeeps ==
  ASSUME inbox \in Seq(Messages), AskedOnce, NEW m \in Messages, Publish(m),
         \A s \in Sdus : m = SduMsg(s) => s \notin Requested
  PROVE  inbox' \in Seq(Messages) /\ AskedOnce'
<1>1. /\ inbox' = Append(inbox, m)
      /\ UNCHANGED <<accepted, rejected>>
  BY DEF Publish
<1>2. /\ inbox' \in Seq(Messages)
      /\ DOMAIN inbox = 1 .. Len(inbox)
      /\ DOMAIN inbox' = 1 .. Len(inbox) + 1
      /\ \A i \in DOMAIN inbox' :
           inbox'[i] = IF i \in DOMAIN inbox THEN inbox[i] ELSE m
      /\ \A i, j \in DOMAIN inbox' :
           i \notin DOMAIN inbox /\ j \notin DOMAIN inbox => i = j
  BY <1>1
<1>3. AskedOnce'
  BY <1>1, <1>2 DEF AskedOnce, Requested
<1> QED
  BY <1>2, <1>3

\* Receiving a message may decide about the SDU it asks for, and no other.
LEMMA ReceiveKeeps ==
  ASSUME inbox \in Seq(Messages), AskedOnce,
         inbox # <<>>, inbox' = Tail(inbox),
         accepted' \cup rejected' \subseteq
           accepted \cup rejected \cup {s \in Sdus : Head(inbox) = SduMsg(s)}
  PROVE  inbox' \in Seq(Messages) /\ Head(inbox) \in Messages /\ AskedOnce'
<1>1. /\ inbox' \in Seq(Messages)
      /\ Head(inbox) \in Messages
      /\ Head(inbox) = inbox[1]
      /\ 1 \in DOMAIN inbox
      /\ \A i \in DOMAIN inbox' :
           /\ i + 1 \in DOMAIN inbox
           /\ i + 1 # 1
           /\ inbox'[i] = inbox[i + 1]
      /\ \A i, j \in DOMAIN inbox' : i + 1 = j + 1 => i = j
  OBVIOUS
<1>2. ASSUME NEW i \in DOMAIN inbox', NEW s \in Sdus, inbox'[i] = SduMsg(s)
      PROVE  /\ s \notin accepted' \cup rejected'
             /\ \A j \in DOMAIN inbox' : inbox'[j] = SduMsg(s) => i = j
  <2>1. inbox[i + 1] = SduMsg(s) /\ i + 1 \in DOMAIN inbox /\ i + 1 # 1
    BY <1>1, <1>2
  <2>2. /\ s \notin accepted \cup rejected
        /\ \A j \in DOMAIN inbox : inbox[j] = SduMsg(s) => i + 1 = j
    BY <2>1 DEF AskedOnce
  <2>3. Head(inbox) # SduMsg(s)
    BY <1>1, <2>1, <2>2
  <2>4. s \notin {q \in Sdus : Head(inbox) = SduMsg(q)}
    BY <2>3
  <2>5. s \notin accepted' \cup rejected'
    BY <2>2, <2>4
  <2>6. ASSUME NEW j \in DOMAIN inbox', inbox'[j] = SduMsg(s)
        PROVE  i = j
    BY <1>1, <2>2, <2>6
  <2> QED
    BY <2>5, <2>6
<1>3. AskedOnce'
  BY <1>2 DEF AskedOnce
<1> QED
  BY <1>1, <1>3

-----------------------------------------------------------------------------
(* Frames and outcomes.                                                    *)

LEMMA EntryType ==
  ASSUME NEW e \in Entries
  PROVE  /\ e.cookie \in 1 .. MaxCookie
         /\ e.parts \subseteq Parts
         /\ e.state \in FrameStates
         /\ e.late \in BOOLEAN
BY DEF Entries

LEMMA PartsOfType ==
  ASSUME NEW entries, entries \subseteq Entries
  PROVE  PartsOf(entries) \subseteq Parts
BY EntryType DEF PartsOf

\* Telling the outcomes of the frames in two sets moves their parts and
\* repeats none.
LEMMA TellKeeps ==
  ASSUME OneOutcome, ToldType, frames_in_wait \subseteq Entries,
         Separate(frames_in_wait),
         PartsOf(frames_in_wait) \cap Told = {},
         NEW good \in SUBSET frames_in_wait,
         NEW bad \in SUBSET frames_in_wait,
         good \cap bad = {},
         Tell(PartsOf(good), PartsOf(bad))
  PROVE  LET kept == frames_in_wait \ (good \cup bad) IN
         /\ ToldType'
         /\ OneOutcome'
         /\ Separate(kept)
         /\ PartsOf(kept) \cap Told' = {}
         /\ PartsOf(kept) \cup Told' = PartsOf(frames_in_wait) \cup Told
<1> DEFINE kept == frames_in_wait \ (good \cup bad)
<1>1. /\ PartsOf(good) \subseteq PartsOf(frames_in_wait)
      /\ PartsOf(bad) \subseteq PartsOf(frames_in_wait)
      /\ PartsOf(frames_in_wait)
           = PartsOf(kept) \cup PartsOf(good) \cup PartsOf(bad)
  BY DEF PartsOf
<1>2. /\ PartsOf(good) \cap PartsOf(bad) = {}
      /\ PartsOf(kept) \cap PartsOf(good) = {}
      /\ PartsOf(kept) \cap PartsOf(bad) = {}
  BY DEF PartsOf, Separate
<1>3. Separate(kept)
  BY DEF Separate
<1>4. Told' = Told \cup PartsOf(good) \cup PartsOf(bad)
  BY DEF Told, Tell
<1>5. retold' = {}
  BY <1>1, <1>2 DEF Tell, OneOutcome, Told
<1>6. PartsOf(frames_in_wait) \subseteq Parts
  BY PartsOfType
<1>7. ToldType'
  BY <1>1, <1>5, <1>6 DEF ToldType, Tell
<1> HIDE DEF kept
<1>8. PartsOf(kept) \cap Told' = {}
      /\ PartsOf(kept) \cup Told' = PartsOf(frames_in_wait) \cup Told
  BY <1>1, <1>2, <1>4
<1> QED
  BY <1>3, <1>5, <1>7, <1>8 DEF kept, OneOutcome

\* The frames too old to wait for are given up.
LEMMA ClearKeeps ==
  ASSUME OneOutcome, ToldType, frames_in_wait \subseteq Entries,
         Separate(frames_in_wait),
         PartsOf(frames_in_wait) \cap Told = {},
         ClearFramesQueue
  PROVE  /\ ToldType'
         /\ OneOutcome'
         /\ frames_in_wait' \subseteq Entries
         /\ Separate(frames_in_wait')
         /\ PartsOf(frames_in_wait') \cap Told' = {}
         /\ PartsOf(frames_in_wait') \cup Told'
              = PartsOf(frames_in_wait) \cup Told
<1>1. Late \in SUBSET frames_in_wait /\ {} \in SUBSET frames_in_wait
      /\ {} \cap Late = {}
  BY DEF Late
<1>2. PartsOf({}) = {}
  BY DEF PartsOf
<1>3. Tell(PartsOf({}), PartsOf(Late))
  BY <1>2 DEF ClearFramesQueue
<1>4. frames_in_wait' = frames_in_wait \ ({} \cup Late)
  BY DEF ClearFramesQueue
<1> QED
  BY <1>1, <1>3, <1>4, TellKeeps

\* Following a frame changes what is believed of it, not what it carries.
LEMMA FollowedKeeps ==
  ASSUME NEW entries, entries \subseteq Entries, Separate(entries),
         NEW r \in UplinkStates
  PROVE  LET kept == entries \ (Radiated(entries, r) \cup Failed(entries, r))
         IN
         /\ Followed(entries, r) \subseteq Entries
         /\ PartsOf(Followed(entries, r)) = PartsOf(kept)
         /\ Separate(Followed(entries, r))
<1> DEFINE kept   == entries \ (Radiated(entries, r) \cup Failed(entries, r))
           New(e) == [e EXCEPT !.state = NewState(e, r)]
<1>1. ASSUME NEW e \in kept
      PROVE  New(e) \in Entries /\ New(e).parts = e.parts
  <2>1. e \in Entries
    OBVIOUS
  <2>2. NewState(e, r) \in FrameStates
    BY <2>1 DEF NewState, Entries, FrameStates
  <2> QED
    BY <2>1, <2>2 DEF Entries
<1>2. Followed(entries, r) = {New(e) : e \in kept}
  BY DEF Followed
<1> HIDE DEF New
<1>3. Followed(entries, r) \subseteq Entries
  BY <1>1, <1>2
<1>4. PartsOf(Followed(entries, r)) = PartsOf(kept)
  BY <1>1, <1>2 DEF PartsOf
<1>5. Separate(Followed(entries, r))
  BY <1>1, <1>2 DEF Separate
<1> QED
  BY <1>3, <1>4, <1>5

\* A frame is not reported as sent and dropped at once.
LEMMA SentOrDropped ==
  ASSUME NEW entries, entries \subseteq Entries, NEW r \in UplinkStates
  PROVE  Radiated(entries, r) \cap Failed(entries, r) = {}
<1> SUFFICES ASSUME NEW e \in entries, r.sent = e.cookie, r.dropped = e.cookie
             PROVE  FALSE
  BY DEF Radiated, Failed
<1>1. e.cookie # Null
  BY EntryType DEF Null
<1>2. DOMAIN r = {"wait", "in_progress", "sent", "dropped"}
  BY DEF UplinkStates
<1>3. \A f, g \in DOMAIN r : f # g /\ r[f] # Null => r[f] # r[g]
  BY DEF UplinkStates
<1> QED
  BY <1>1, <1>2, <1>3

-----------------------------------------------------------------------------
(* The stack.                                                              *)

LEMMA SplitType ==
  ASSUME NEW s \in Sdus, NEW n \in 1 .. MaxParts
  PROVE  /\ Split(s, n) \in Seq(Parts)
         /\ Len(Split(s, n)) = n
         /\ \A i \in 1 .. n : Split(s, n)[i].sdu = s
         /\ \A i, j \in 1 .. n : Split(s, n)[i] = Split(s, n)[j] => i = j
<1>1. n \in Nat
  BY UslpAssumption
<1>2. \A i \in 1 .. n :
        [sdu |-> s, part_no |-> i - 1, final |-> i = n] \in Parts
  <2> TAKE i \in 1 .. n
  <2>1. i - 1 \in 0 .. MaxParts - 1
    BY UslpAssumption
  <2>2. (i = n) \in BOOLEAN
    OBVIOUS
  <2>3. \A q \in 0 .. MaxParts - 1, b \in BOOLEAN :
          [sdu |-> s, part_no |-> q, final |-> b] \in Parts
    BY DEF Parts
  <2> QED
    BY <2>1, <2>2, <2>3, Zenon
<1>3. Split(s, n) \in [1 .. n -> Parts]
  BY <1>2 DEF Split
<1>4. Split(s, n) \in Seq(Parts) /\ Len(Split(s, n)) = n
  BY <1>1, <1>3
<1>5. \A i \in 1 .. n :
        Split(s, n)[i].sdu = s /\ Split(s, n)[i].part_no = i - 1
  BY DEF Split
<1>6. \A i, j \in 1 .. n : i - 1 = j - 1 => i = j
  BY <1>1
<1> QED
  BY <1>4, <1>5, <1>6

\* An SDU whose parts are new to the stack is put behind it.
LEMMA StackGrows ==
  ASSUME stack \in Seq(Parts), StackedOnce,
         NEW s \in Sdus, NEW n \in 1 .. MaxParts,
         stack' = stack \o Split(s, n),
         \A q \in Stacked : q.sdu # s
  PROVE  /\ stack' \in Seq(Parts)
         /\ StackedOnce'
         /\ Stacked' = Stacked \cup Pieces(s, n)
<1> DEFINE new == Split(s, n)
           l   == Len(stack)
<1>1. /\ new \in Seq(Parts)
      /\ Len(new) = n
      /\ \A i \in 1 .. n : new[i].sdu = s
      /\ \A i, j \in 1 .. n : new[i] = new[j] => i = j
  BY SplitType
<1>2. n \in Nat /\ l \in Nat
  BY UslpAssumption
<1> HIDE DEF new
<1>3. /\ stack' \in Seq(Parts)
      /\ DOMAIN stack = 1 .. l
      /\ DOMAIN stack' = 1 .. l + n
      /\ \A i \in 1 .. l : stack'[i] = stack[i]
      /\ \A i \in l + 1 .. l + n : stack'[i] = new[i - l]
  <2>1. stack' = stack \o new
    BY DEF new
  <2>2. /\ stack' \in Seq(Parts)
        /\ Len(stack') = l + n
        /\ \A i \in 1 .. l + n :
             stack'[i] = IF i <= l THEN stack[i] ELSE new[i - l]
    BY <1>1, <2>1, ConcatProperties
  <2>3. DOMAIN stack = 1 .. l /\ DOMAIN stack' = 1 .. l + n
    BY <2>2
  <2> HIDE DEF l
  <2>4. \A i \in 1 .. l : i \in 1 .. l + n /\ i <= l
    BY <1>2
  <2>5. \A i \in l + 1 .. l + n : i \in 1 .. l + n /\ ~(i <= l)
    BY <1>2
  <2> QED
    BY <2>2, <2>3, <2>4, <2>5
<1>4. \A i \in l + 1 .. l + n : i - l \in 1 .. n
  BY <1>2
<1>5. \A i \in 1 .. n : l + i \in l + 1 .. l + n /\ (l + i) - l = i
  BY <1>2
<1>6. \A i \in 1 .. l + n : i \in 1 .. l \/ i \in l + 1 .. l + n
  BY <1>2
<1>7. StackedOnce'
  <2> SUFFICES ASSUME NEW i \in 1 .. l + n, NEW j \in 1 .. l + n,
                      stack'[i] = stack'[j]
               PROVE  i = j
    BY <1>3 DEF StackedOnce
  <2>1. CASE i \in 1 .. l /\ j \in 1 .. l
    BY <1>3, <2>1 DEF StackedOnce
  <2>2. CASE i \in l + 1 .. l + n /\ j \in l + 1 .. l + n
    <3>1. i - l = j - l
      BY <1>1, <1>3, <1>4, <2>2
    <3> QED
      BY <1>2, <2>2, <3>1
  <2>3. ASSUME NEW a \in 1 .. l, NEW b \in l + 1 .. l + n
        PROVE  stack'[a] # stack'[b]
    <3>1. stack'[a] \in Stacked
      BY <1>3 DEF Stacked
    <3>2. stack'[b] = new[b - l] /\ b - l \in 1 .. n
      BY <1>3, <1>4
    <3>3. stack'[b].sdu = s
      BY <1>1, <3>2
    <3> QED
      BY <3>1, <3>3
  <2> QED
    BY <1>6, <2>1, <2>2, <2>3
<1>8. Stacked' = Stacked \cup Pieces(s, n)
  <2>1. Pieces(s, n) = {new[i] : i \in 1 .. n}
    BY DEF Pieces, new
  <2>2. \A i \in 1 .. n : l + i \in DOMAIN stack' /\ stack'[l + i] = new[i]
    <3> TAKE i \in 1 .. n
    <3>1. l + i \in l + 1 .. l + n /\ (l + i) - l = i
      BY <1>5
    <3>2. stack'[l + i] = new[(l + i) - l]
      BY <1>3, <3>1
    <3>3. l + i \in 1 .. l + n
      BY <1>2
    <3> QED
      BY <1>3, <3>1, <3>2, <3>3
  <2>3. \A i \in 1 .. l : i \in DOMAIN stack'
    BY <1>2, <1>3
  <2>4. Stacked' \subseteq Stacked \cup Pieces(s, n)
    BY <1>3, <1>4, <1>6, <2>1 DEF Stacked
  <2>5. Stacked \subseteq Stacked'
    BY <1>3, <2>3 DEF Stacked
  <2>6. Pieces(s, n) \subseteq Stacked'
    BY <2>1, <2>2 DEF Stacked
  <2> QED
    BY <2>4, <2>5, <2>6
<1> QED
  BY <1>3, <1>7, <1>8

Front(k) == {stack[i] : i \in 1 .. k}

\* The first k parts are packed into a frame.
LEMMA StackShrinks ==
  ASSUME stack \in Seq(Parts), StackedOnce, NEW k \in 1 .. Len(stack),
         stack' = SubSeq(stack, k + 1, Len(stack))
  PROVE  /\ stack' \in Seq(Parts)
         /\ StackedOnce'
         /\ Stacked = Stacked' \cup Front(k)
         /\ Stacked' \cap Front(k) = {}
<1> DEFINE l == Len(stack)
<1>1. l \in Nat /\ k \in Nat /\ k <= l
  OBVIOUS
<1>2. /\ stack' \in Seq(Parts)
      /\ DOMAIN stack = 1 .. l
      /\ DOMAIN stack' = 1 .. l - k
      /\ \A i \in 1 .. l - k : stack'[i] = stack[k + i]
  OBVIOUS
<1>3. /\ \A i \in 1 .. l - k : k + i \in 1 .. l /\ k + i \notin 1 .. k
      /\ \A i \in 1 .. l : i \in 1 .. k \/ (i - k \in 1 .. l - k /\ k + (i - k) = i)
      /\ \A i, j \in 1 .. l - k : k + i = k + j => i = j
      /\ 1 .. k \subseteq 1 .. l
  BY <1>1
<1> HIDE DEF l
<1>4. StackedOnce'
  <2> SUFFICES ASSUME NEW i \in 1 .. l - k, NEW j \in 1 .. l - k,
                      stack'[i] = stack'[j]
               PROVE  i = j
    BY <1>2 DEF StackedOnce
  <2>1. stack[k + i] = stack[k + j]
    BY <1>2
  <2>2. k + i = k + j
    BY <1>2, <1>3, <2>1 DEF StackedOnce
  <2> QED
    BY <1>3, <2>2
<1>5. Stacked' \cap Front(k) = {}
  <2> SUFFICES ASSUME NEW i \in 1 .. l - k, NEW j \in 1 .. k,
                      stack'[i] = stack[j]
               PROVE  FALSE
    BY <1>2 DEF Stacked, Front
  <2>1. stack[k + i] = stack[j] /\ k + i \in 1 .. l /\ j \in 1 .. l
    BY <1>2, <1>3
  <2>2. k + i = j
    BY <1>2, <2>1 DEF StackedOnce
  <2> QED
    BY <1>3, <2>2
<1>6. Stacked' \cup Front(k) \subseteq Stacked
  <2>1. Front(k) \subseteq Stacked
    BY <1>2, <1>3 DEF Stacked, Front
  <2>2. ASSUME NEW i \in 1 .. l - k
        PROVE  stack'[i] \in Stacked
    <3>1. stack'[i] = stack[k + i] /\ k + i \in DOMAIN stack
      BY <1>2, <1>3
    <3> QED
      BY <3>1 DEF Stacked
  <2>3. Stacked' \subseteq Stacked
    BY <1>2, <2>2 DEF Stacked
  <2> QED
    BY <2>1, <2>3
<1>7. Stacked \subseteq Stacked' \cup Front(k)
  <2> SUFFICES ASSUME NEW i \in 1 .. l, i \notin 1 .. k
               PROVE  stack[i] \in Stacked'
    BY <1>2 DEF Stacked, Front
  <2>1. i - k \in DOMAIN stack' /\ stack'[i - k] = stack[i]
    BY <1>2, <1>3
  <2> QED
    BY <2>1 DEF Stacked
<1> QED
  BY <1>2, <1>4, <1>5, <1>6, <1>7

\* Each part is in the stack once, so there are as many as it is long.
LEMMA StackedCount ==
  ASSUME stack \in Seq(Parts), StackedOnce
  PROVE  Cardinality(Stacked) = Len(stack)
<1>1. DOMAIN stack = 1 .. Len(stack) /\ Len(stack) \in Nat
  OBVIOUS
<1>2. stack \in Bijection(1 .. Len(stack), Stacked)
  <2>1. stack \in [1 .. Len(stack) -> Stacked]
    BY <1>1 DEF Stacked
  <2>2. \A a, b \in 1 .. Len(stack) : stack[a] = stack[b] => a = b
    BY <1>1 DEF StackedOnce
  <2>3. \A q \in Stacked : \E a \in 1 .. Len(stack) : stack[a] = q
    BY <1>1 DEF Stacked
  <2> QED
    BY <2>1, <2>2, <2>3 DEF Bijection, Injection, Surjection, IsInjective
<1>3. ExistsBijection(1 .. Len(stack), Stacked)
  BY <1>2 DEF ExistsBijection
<1> QED
  BY <1>1, <1>3, FS_CountingElements

-----------------------------------------------------------------------------
(* The steps.                                                              *)

\* TypeOK with the messages named.
LEMMA TypeParts ==
  TypeOK <=>
    /\ inbox \in Seq(Messages)
    /\ stack \in Seq(Parts)
    /\ next_cookie \in 1 .. MaxCookie
    /\ frames_in_wait \subseteq Entries
    /\ accepted \subseteq Sdus
    /\ rejected \subseteq Sdus
    /\ ToldType
BY DEF TypeOK, Messages, ToldType

\* The primed form.
LEMMA TypePartsNext ==
  /\ inbox' \in Seq(Messages)
  /\ stack' \in Seq(Parts)
  /\ next_cookie' \in 1 .. MaxCookie
  /\ frames_in_wait' \subseteq Entries
  /\ accepted' \subseteq Sdus
  /\ rejected' \subseteq Sdus
  /\ ToldType'
  => TypeOK'
BY DEF TypeOK, Messages, ToldType

LEMMA DispatcherInit == Init => DispatcherInv
<1> SUFFICES ASSUME Init PROVE DispatcherInv
  OBVIOUS
<1>1. TypeOK
  BY UslpAssumption DEF Init, TypeOK
<1>2. Carried = {} /\ Stacked = {} /\ Told = {} /\ PartsOf(frames_in_wait) = {}
  BY DEF Init, Carried, Stacked, Told, PartsOf
<1>3. PartsInv
  BY <1>2 DEF Init, PartsInv, StackedOnce, Separate
<1>4. OneOutcome /\ AskedOnce
  BY DEF Init, OneOutcome, AskedOnce
<1> QED
  BY <1>1, <1>3, <1>4 DEF DispatcherInv

\* As long as no part appears or disappears, and each is in one place.
LEMMA PartsStay ==
  ASSUME PartsInv, accepted' = accepted, Carried' = Carried, StackedOnce',
         Stacked' \cap (PartsOf(frames_in_wait') \cup Told') = {},
         PartsOf(frames_in_wait') \cap Told' = {},
         Separate(frames_in_wait')
  PROVE  PartsInv'
BY DEF PartsInv, Pieces, Split, Separate, PartsOf

\* The outcomes of frames are told, the stack is left alone.
LEMMA PartsStayStacked ==
  ASSUME PartsInv, accepted' = accepted, stack' = stack,
         PartsOf(frames_in_wait') \cup Told'
           = PartsOf(frames_in_wait) \cup Told,
         PartsOf(frames_in_wait') \cap Told' = {},
         Separate(frames_in_wait')
  PROVE  PartsInv'
<1>1. Stacked' = Stacked /\ StackedOnce'
  BY DEF Stacked, StackedOnce, PartsInv
<1>2. Carried' = Stacked' \cup (PartsOf(frames_in_wait') \cup Told')
  BY DEF Carried, PartsOf
<1>3. Carried' = Carried
  BY <1>1, <1>2 DEF Carried
<1> QED
  BY <1>1, <1>3, PartsStay DEF PartsInv

LEMMA PublishStep ==
  ASSUME DispatcherInv, NEW m \in Messages, Publish(m),
         \A s \in Sdus : m = SduMsg(s) => s \notin Requested
  PROVE  DispatcherInv'
<1>1. inbox' \in Seq(Messages) /\ AskedOnce'
  BY PublishKeeps, TypeParts DEF DispatcherInv
<1>2. UNCHANGED <<stack, next_cookie, frames_in_wait, accepted, rejected,
                  told_radiated, told_failed, retold>>
  BY DEF Publish, toldVars
<1>3. TypeOK'
  BY <1>1, <1>2, TypeParts, TypePartsNext DEF DispatcherInv, ToldType
<1>4. OneOutcome' /\ PartsInv'
  BY <1>2
  DEF DispatcherInv, OneOutcome, PartsInv, Carried, Stacked, StackedOnce,
      Told, PartsOf, Pieces, Split, Separate
<1> QED
  BY <1>1, <1>3, <1>4 DEF DispatcherInv

LEMMA BecomesLateStep ==
  ASSUME DispatcherInv, NEW e \in frames_in_wait, BecomesLate(e)
  PROVE  DispatcherInv'
<1> DEFINE late == [e EXCEPT !.late = TRUE]
<1>1. frames_in_wait \subseteq Entries /\ e \in Entries
  BY TypeParts DEF DispatcherInv
<1>2. late \in Entries /\ late.parts = e.parts
  BY <1>1 DEF Entries
<1>3. /\ frames_in_wait' = (frames_in_wait \ {e}) \cup {late}
      /\ UNCHANGED <<inbox, stack, next_cookie, accepted, rejected,
                     told_radiated, told_failed, retold>>
  BY DEF BecomesLate, toldVars
<1> HIDE DEF late
<1>4. frames_in_wait' \subseteq Entries
  BY <1>1, <1>2, <1>3
<1>5. PartsOf(frames_in_wait') = PartsOf(frames_in_wait)
  BY <1>2, <1>3 DEF PartsOf
<1>6. Separate(frames_in_wait')
  BY <1>2, <1>3 DEF DispatcherInv, PartsInv, Separate
<1>7. Told' = Told /\ ToldType'
  BY <1>3, TypeParts DEF Told, ToldType, DispatcherInv
<1>8. TypeOK'
  BY <1>3, <1>4, <1>7, TypeParts, TypePartsNext DEF DispatcherInv
<1>9. PartsInv'
  BY <1>3, <1>5, <1>6, <1>7, PartsStayStacked DEF DispatcherInv, PartsInv
<1>10. OneOutcome' /\ AskedOnce'
  BY <1>3 DEF DispatcherInv, OneOutcome, AskedOnce
<1> QED
  BY <1>8, <1>9, <1>10 DEF DispatcherInv

\* What every poll but that of a report does to the frames.
LEMMA ClearStep ==
  ASSUME DispatcherInv, ClearFramesQueue
  PROVE  /\ ToldType'
         /\ OneOutcome'
         /\ frames_in_wait' \subseteq Entries
         /\ Separate(frames_in_wait')
         /\ PartsOf(frames_in_wait') \cap Told' = {}
         /\ PartsOf(frames_in_wait') \cup Told'
              = PartsOf(frames_in_wait) \cup Told
BY ClearKeeps, TypeParts DEF DispatcherInv, PartsInv

LEMMA QuietPollStep ==
  ASSUME DispatcherInv, PollTimeout \/ PollOther \/ \E s \in Sdus : RejectSdu(s)
  PROVE  DispatcherInv'
<1>1. ClearFramesQueue
      /\ UNCHANGED <<stack, next_cookie, accepted>>
  BY DEF PollTimeout, PollOther, RejectSdu
<1>2. inbox' \in Seq(Messages) /\ AskedOnce' /\ rejected' \subseteq Sdus
  <2>1. CASE PollTimeout
    BY <2>1, TypeParts DEF PollTimeout, DispatcherInv, AskedOnce
  <2>2. CASE PollOther
    <3>1. inbox # <<>> /\ inbox' = Tail(inbox) /\ rejected' = rejected
      BY <2>2 DEF PollOther, Receive
    <3> QED
      BY <1>1, <3>1, ReceiveKeeps, TypeParts DEF DispatcherInv
  <2>3. ASSUME NEW s \in Sdus, RejectSdu(s)
        PROVE  /\ inbox' \in Seq(Messages)
               /\ AskedOnce'
               /\ rejected' \subseteq Sdus
    <3>1. /\ inbox # <<>>
          /\ inbox' = Tail(inbox)
          /\ Head(inbox) = SduMsg(s)
          /\ rejected' = rejected \cup {s}
      BY <2>3 DEF RejectSdu, Receive
    <3>2. accepted' \cup rejected' \subseteq
            accepted \cup rejected \cup {q \in Sdus : Head(inbox) = SduMsg(q)}
      BY <1>1, <3>1
    <3> QED
      BY <3>1, <3>2, ReceiveKeeps, TypeParts DEF DispatcherInv
  <2> QED
    BY <2>1, <2>2, <2>3
<1>3. TypeOK'
  BY <1>1, <1>2, ClearStep, TypeParts, TypePartsNext DEF DispatcherInv
<1>4. PartsInv'
  BY <1>1, ClearStep, PartsStayStacked DEF DispatcherInv
<1> QED
  BY <1>1, <1>2, <1>3, <1>4, ClearStep DEF DispatcherInv

LEMMA AcceptStep ==
  ASSUME DispatcherInv, NEW s \in Sdus, AcceptSdu(s)
  PROVE  DispatcherInv'
<1>1. /\ inbox # <<>>
      /\ inbox' = Tail(inbox)
      /\ Head(inbox) = SduMsg(s)
      /\ accepted' = accepted \cup {s}
      /\ UNCHANGED <<next_cookie, rejected>>
      /\ ClearFramesQueue
  BY DEF AcceptSdu, Receive
<1>2. PICK n \in 1 .. MaxParts : stack' = stack \o Split(s, n)
  BY DEF AcceptSdu
<1>3. accepted' \cup rejected' \subseteq
        accepted \cup rejected \cup {q \in Sdus : Head(inbox) = SduMsg(q)}
  BY <1>1
<1>4. inbox' \in Seq(Messages) /\ AskedOnce'
  BY <1>1, <1>3, ReceiveKeeps, TypeParts DEF DispatcherInv
<1>5. s \notin accepted
  <2>1. 1 \in DOMAIN inbox /\ inbox[1] = SduMsg(s)
    BY <1>1, TypeParts DEF DispatcherInv
  <2> QED
    BY <2>1 DEF DispatcherInv, AskedOnce
<1>6. \A p \in Carried : p.sdu # s
  BY <1>5 DEF DispatcherInv, PartsInv
<1>7. /\ stack' \in Seq(Parts)
      /\ StackedOnce'
      /\ Stacked' = Stacked \cup Pieces(s, n)
  BY <1>2, <1>6, StackGrows, TypeParts DEF DispatcherInv, PartsInv, Carried
<1>8. TypeOK'
  BY <1>1, <1>4, <1>7, ClearStep, TypeParts, TypePartsNext DEF DispatcherInv
<1>9. \A p \in Pieces(s, n) : p.sdu = s
  BY SplitType DEF Pieces
<1>10. Carried' = Carried \cup Pieces(s, n)
  <2>1. Carried' = Stacked' \cup (PartsOf(frames_in_wait') \cup Told')
    BY DEF Carried, PartsOf
  <2> QED
    BY <1>1, <1>7, <2>1, ClearStep DEF Carried
<1>11. PartsInv'
  <2>1. ASSUME NEW q \in accepted'
        PROVE  \E l \in 1 .. MaxParts :
                 Pieces(q, l) = {p \in Carried' : p.sdu = q}
    <3>1. CASE q = s
      <4>1. Pieces(q, n) = {p \in Carried' : p.sdu = q}
        BY <1>6, <1>9, <1>10, <3>1
      <4> QED
        BY <4>1
    <3>2. CASE q # s
      <4>1. q \in accepted
        BY <1>1, <3>2
      <4>2. PICK l \in 1 .. MaxParts :
              Pieces(q, l) = {p \in Carried : p.sdu = q}
        BY <4>1 DEF DispatcherInv, PartsInv
      <4>3. {p \in Carried' : p.sdu = q} = {p \in Carried : p.sdu = q}
        BY <1>9, <1>10, <3>2
      <4> QED
        BY <4>2, <4>3
    <3> QED
      BY <3>1, <3>2
  <2>2. \A p \in Carried' : p.sdu \in accepted'
    BY <1>1, <1>9, <1>10 DEF DispatcherInv, PartsInv
  <2>3. Stacked' \cap (PartsOf(frames_in_wait') \cup Told') = {}
    <3>1. Stacked \cap (PartsOf(frames_in_wait) \cup Told) = {}
      BY DEF DispatcherInv, PartsInv
    <3>2. Pieces(s, n) \cap (PartsOf(frames_in_wait) \cup Told) = {}
      BY <1>6, <1>9 DEF Carried
    <3> QED
      BY <1>1, <1>7, <3>1, <3>2, ClearStep
  <2> QED
    BY <1>1, <1>7, <2>1, <2>2, <2>3, ClearStep
    DEF PartsInv, Pieces, Split, PartsOf, Separate
<1> QED
  BY <1>1, <1>4, <1>8, <1>11, ClearStep DEF DispatcherInv

LEMMA StateStep ==
  ASSUME DispatcherInv, PollState
  PROVE  DispatcherInv'
<1> DEFINE r        == Head(inbox).fields
           fresh    == frames_in_wait \ Late
           good     == Radiated(fresh, r)
           bad      == Late \cup Failed(fresh, r)
           kept     == frames_in_wait \ (good \cup bad)
           followed == Followed(fresh, r)
<1>1. /\ inbox # <<>>
      /\ inbox' = Tail(inbox)
      /\ Head(inbox).kind = "radio_uplink_state"
      /\ UNCHANGED <<accepted, rejected>>
      /\ Tell(PartsOf(good), PartsOf(bad))
      /\ SendFrame(followed) \/ SendNothing(followed)
  BY DEF PollState
<1>2. inbox' \in Seq(Messages) /\ Head(inbox) \in Messages /\ AskedOnce'
  BY <1>1, ReceiveKeeps, TypeParts DEF DispatcherInv
<1>3. r \in UplinkStates
  BY <1>1, <1>2 DEF Messages, SduMsg, OtherMsg, StateMsg
<1>4. frames_in_wait \subseteq Entries /\ fresh \subseteq Entries
  BY TypeParts DEF DispatcherInv
<1>5. /\ good \in SUBSET frames_in_wait
      /\ bad \in SUBSET frames_in_wait
      /\ kept = fresh \ (Radiated(fresh, r) \cup Failed(fresh, r))
  BY DEF Radiated, Failed, Late
<1>6. good \cap bad = {}
  BY <1>3, <1>4, SentOrDropped DEF Radiated
<1>7. Separate(fresh)
  BY DEF DispatcherInv, PartsInv, Separate
<1>8. /\ followed \subseteq Entries
      /\ PartsOf(followed) = PartsOf(kept)
      /\ Separate(followed)
  BY <1>3, <1>4, <1>5, <1>7, FollowedKeeps
<1> HIDE DEF r, fresh, good, bad, kept, followed
<1>9. /\ ToldType'
      /\ OneOutcome'
      /\ PartsOf(kept) \cap Told' = {}
      /\ PartsOf(kept) \cup Told' = PartsOf(frames_in_wait) \cup Told
  BY <1>1, <1>4, <1>5, <1>6, TellKeeps, TypeParts
  DEF DispatcherInv, PartsInv, kept
<1>10. CASE SendNothing(followed)
  <2>1. frames_in_wait' = followed /\ UNCHANGED <<stack, next_cookie>>
    BY <1>10 DEF SendNothing
  <2>2. TypeOK'
    BY <1>1, <1>2, <1>8, <1>9, <2>1, TypeParts, TypePartsNext
    DEF DispatcherInv
  <2>3. PartsInv'
    BY <1>1, <1>8, <1>9, <2>1, PartsStayStacked DEF DispatcherInv
  <2> QED
    BY <1>2, <1>9, <2>2, <2>3 DEF DispatcherInv
<1>11. CASE SendFrame(followed)
  <2>1. PICK k \in 1 .. Len(stack) :
          /\ frames_in_wait' = followed \cup
               {[cookie |-> next_cookie, parts |-> Front(k),
                 state |-> "sent_to_radio", late |-> FALSE]}
          /\ stack' = SubSeq(stack, k + 1, Len(stack))
          /\ next_cookie' = NextCookie
    BY <1>11 DEF SendFrame, Front
  <2> DEFINE frame == [cookie |-> next_cookie, parts |-> Front(k),
                       state |-> "sent_to_radio", late |-> FALSE]
  <2>2. /\ stack' \in Seq(Parts)
        /\ StackedOnce'
        /\ Stacked = Stacked' \cup Front(k)
        /\ Stacked' \cap Front(k) = {}
    BY <2>1, StackShrinks, TypeParts DEF DispatcherInv, PartsInv
  <2>3. Front(k) \subseteq Parts
    <3>1. \A i \in 1 .. k : stack[i] \in Parts
      BY TypeParts DEF DispatcherInv
    <3> QED
      BY <3>1 DEF Front
  <2>4. frame \in Entries /\ frame.parts = Front(k)
    BY <2>3, TypeParts DEF DispatcherInv, Entries, FrameStates
  <2>5. next_cookie' \in 1 .. MaxCookie
    BY <2>1, UslpAssumption, TypeParts DEF NextCookie, DispatcherInv
  <2> HIDE DEF frame
  <2>6. frames_in_wait' = followed \cup {frame}
    BY <2>1 DEF frame
  <2>7. TypeOK'
    BY <1>1, <1>2, <1>8, <1>9, <2>2, <2>4, <2>5, <2>6, TypeParts,
       TypePartsNext DEF DispatcherInv
  <2>8. PartsOf(frames_in_wait') = PartsOf(kept) \cup Front(k)
    <3>1. PartsOf(frames_in_wait') = PartsOf(followed) \cup frame.parts
      BY <2>6 DEF PartsOf
    <3> QED
      BY <1>8, <2>4, <3>1
  <2>9. Stacked \cap (PartsOf(kept) \cup Told') = {}
    BY <1>9 DEF DispatcherInv, PartsInv
  <2>10. Carried' = Carried
    <3>1. Carried' = Stacked' \cup PartsOf(frames_in_wait') \cup Told'
      BY DEF Carried, PartsOf
    <3> QED
      BY <1>9, <2>2, <2>8, <3>1 DEF Carried
  <2>11. Stacked' \cap (PartsOf(frames_in_wait') \cup Told') = {}
    BY <2>2, <2>8, <2>9
  <2>12. PartsOf(frames_in_wait') \cap Told' = {}
    BY <1>9, <2>2, <2>8, <2>9
  <2>13. Separate(frames_in_wait')
    <3>1. \A e \in followed : e.parts \cap frame.parts = {}
      BY <1>8, <2>2, <2>4, <2>9 DEF PartsOf
    <3> QED
      BY <1>8, <2>6, <3>1 DEF Separate
  <2>14. PartsInv'
    BY <1>1, <2>2, <2>10, <2>11, <2>12, <2>13, PartsStay DEF DispatcherInv
  <2> QED
    BY <1>2, <1>9, <2>7, <2>14 DEF DispatcherInv
<1> QED
  BY <1>1, <1>10, <1>11

LEMMA DispatcherStep == DispatcherInv /\ [Next]_vars => DispatcherInv'
<1> SUFFICES ASSUME DispatcherInv, [Next]_vars PROVE DispatcherInv'
  OBVIOUS
<1>1. CASE PollTimeout \/ PollOther \/ \E s \in Sdus : RejectSdu(s)
  BY <1>1, QuietPollStep
<1>2. CASE \E s \in Sdus : AcceptSdu(s)
  BY <1>2, AcceptStep
<1>3. CASE PollState
  BY <1>3, StateStep
<1>4. ASSUME NEW s \in Sdus, RequestSdu(s) PROVE DispatcherInv'
  <2>1. SduMsg(s) \in Messages /\ Publish(SduMsg(s)) /\ s \notin Requested
    BY <1>4 DEF RequestSdu, Messages
  <2>2. \A q \in Sdus : SduMsg(s) = SduMsg(q) => s = q
    BY DEF SduMsg
  <2> QED
    BY <2>1, <2>2, PublishStep
<1>5. ASSUME NEW r \in UplinkStates, ReportState(r) PROVE DispatcherInv'
  <2>1. StateMsg(r) \in Messages /\ Publish(StateMsg(r))
    BY <1>5 DEF ReportState, Messages
  <2>2. \A q \in Sdus : StateMsg(r) # SduMsg(q)
    BY DEF StateMsg, SduMsg
  <2> QED
    BY <2>1, <2>2, PublishStep
<1>6. CASE PublishOther
  <2>1. OtherMsg \in Messages /\ Publish(OtherMsg)
    BY <1>6 DEF PublishOther, Messages
  <2>2. \A q \in Sdus : OtherMsg # SduMsg(q)
    BY DEF OtherMsg, SduMsg
  <2> QED
    BY <2>1, <2>2, PublishStep
<1>7. CASE TimePasses
  BY <1>7, BecomesLateStep DEF TimePasses
<1>8. CASE UNCHANGED vars
  BY <1>8
  DEF vars, toldVars, DispatcherInv, TypeOK, OneOutcome, PartsInv, Carried,
      Stacked, StackedOnce, Told, PartsOf, Pieces, Split, Separate, AskedOnce
<1> QED
  BY <1>1, <1>2, <1>3, <1>4, <1>5, <1>6, <1>7, <1>8
  DEF Next, Poll, Environment

-----------------------------------------------------------------------------
(* Theorems.                                                               *)

\* Every variable keeps to its kind; no frame is sent with the cookie that
\* means none, though the counter wraps around (dispatcher.cpp:391-392).
THEOREM TypeCorrect == Spec => []TypeOK
<1>1. DispatcherInv => TypeOK
  BY DEF DispatcherInv
<1> QED
  BY DispatcherInit, DispatcherStep, <1>1, PTL DEF Spec

\* A client hears one outcome of each part (dispatcher.cpp:214-325).
THEOREM OutcomeOnce == Spec => []OneOutcome
<1>1. DispatcherInv => OneOutcome
  BY DEF DispatcherInv
<1> QED
  BY DispatcherInit, DispatcherStep, <1>1, PTL DEF Spec

\* No part of an accepted SDU is forgotten or carried twice
\* (dispatcher.cpp:140-143, 229-245, 313-318, 383-401).
THEOREM AllAccounted == Spec => []PartsAccounted
<1>1. DispatcherInv => PartsAccounted
  <2> SUFFICES ASSUME DispatcherInv PROVE PartsAccounted
    OBVIOUS
  <2>1. Cardinality(Stacked) = Len(stack)
    BY StackedCount, TypeParts DEF DispatcherInv, PartsInv
  <2> QED
    BY <2>1
    DEF DispatcherInv, PartsInv, PartsAccounted, Carried, Told, Pieces,
        Separate
<1> QED
  BY DispatcherInit, DispatcherStep, <1>1, PTL DEF Spec

=============================================================================
