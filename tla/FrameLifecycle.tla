--------------------------- MODULE FrameLifecycle ---------------------------
(***************************************************************************)
(* What a radio server promises to whoever hands it uplink frames (the     *)
(* contract of the bus topics radio.uplink_frame and radio.uplink_state):  *)
(* every frame moves once, forwards, through                               *)
(*                                                                         *)
(*    new -> waiting -> on_air -> sent                                     *)
(*              |          \----> dropped                                  *)
(*              |---------------> dropped                                  *)
(*              \---------------> superseded   (the freshest frame wins)   *)
(*                                                                         *)
(* one frame waits at most and one is on the air at most.  RadioServer is  *)
(* shown to implement this module.                                         *)
(***************************************************************************)

CONSTANT Frames

VARIABLE fate

Fates == {"new", "waiting", "on_air", "sent", "dropped", "superseded"}

Settled == {"sent", "dropped", "superseded"}

LifecycleTypeOK == fate \in [Frames -> Fates]

Init == fate = [f \in Frames |-> "new"]

\* The freshest frame takes the only waiting place.
Accept(f) ==
  /\ fate[f] = "new"
  /\ fate' = [g \in Frames |-> IF g = f THEN "waiting"
                               ELSE IF fate[g] = "waiting" THEN "superseded"
                               ELSE fate[g]]

Transmit(f) ==
  /\ fate[f] = "waiting"
  /\ \A g \in Frames : fate[g] # "on_air"
  /\ fate' = [fate EXCEPT ![f] = "on_air"]

Radiate(f) ==
  /\ fate[f] = "on_air"
  /\ fate' = [fate EXCEPT ![f] = "sent"]

Drop(f) ==
  /\ fate[f] \in {"waiting", "on_air"}
  /\ fate' = [fate EXCEPT ![f] = "dropped"]

Next == \E f \in Frames : Accept(f) \/ Transmit(f) \/ Radiate(f) \/ Drop(f)

Spec == Init /\ [][Next]_fate

=============================================================================
