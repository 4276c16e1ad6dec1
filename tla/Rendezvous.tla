----------------------------- MODULE Rendezvous -----------------------------
(***************************************************************************)
(* What one round of a barrier promises to its callers, with no semaphore  *)
(* in sight: a member leaves only when all the members have arrived.       *)
(***************************************************************************)
CONSTANT Members
VARIABLES arrived, left

Init == arrived = {} /\ left = {}

Arrive(m) ==
  /\ m \in Members \ arrived
  /\ arrived' = arrived \cup {m}
  /\ UNCHANGED left

Leave(m) ==
  /\ arrived = Members
  /\ m \in Members \ left
  /\ left' = left \cup {m}
  /\ UNCHANGED arrived

Next == \E m \in Members : Arrive(m) \/ Leave(m)

Spec == Init /\ [][Next]_<<arrived, left>>
=============================================================================
