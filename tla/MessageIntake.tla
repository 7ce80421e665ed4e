--------------------------- MODULE MessageIntake ----------------------------
(***************************************************************************)
(* What a process of the station promises about the messages it receives   *)
(* from the bus: it takes whole messages, in order, and makes of each one  *)
(* of its Readings and nothing else.  A message that is Harmful may end    *)
(* the promise, nothing else may.  BusReceive is shown to implement this.  *)
(***************************************************************************)
EXTENDS Sequences

CONSTANTS
  Messages,     \* what may arrive
  Reading(_),   \* what a message means to the receiver
  Harmful(_),   \* whether a message may end the service
  Nothing       \* the reading of a message that is thrown away

VARIABLES
  inbox,        \* messages received by the socket and not yet read
  readings,     \* what was made of the messages read
  in_service

Init ==
  /\ inbox = <<>>
  /\ readings = <<>>
  /\ in_service = TRUE

Arrive(m) ==
  /\ inbox' = Append(inbox, m)
  /\ UNCHANGED <<readings, in_service>>

Add(r) == IF r = Nothing THEN readings ELSE Append(readings, r)

Read ==
  /\ inbox # <<>>
  /\ readings' = Add(Reading(Head(inbox)))
  /\ inbox' = Tail(inbox)
  /\ UNCHANGED in_service

Break ==
  /\ inbox # <<>>
  /\ Harmful(Head(inbox))
  /\ in_service' = FALSE

Next ==
  \/ in_service /\ (Read \/ Break \/ \E m \in Messages : Arrive(m))
  \/ ~in_service /\ ~in_service'

Spec == Init /\ [][Next]_<<inbox, readings, in_service>>

=============================================================================
