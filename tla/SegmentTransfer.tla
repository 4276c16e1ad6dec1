-------------------------- MODULE SegmentTransfer ---------------------------
(***************************************************************************)
(* What Alice and Bob promise together: the segments Alice takes from her  *)
(* input come out at Bob's side once each and in order, and Alice takes    *)
(* the next one only when the last one is out.                             *)
(***************************************************************************)
EXTENDS Sequences

CONSTANT Segment
VARIABLES taken, output

Init == taken = <<>> /\ output = <<>>

Take ==
  /\ output = taken
  /\ \E s \in Segment : taken' = Append(taken, s)
  /\ UNCHANGED output

Deliver ==
  /\ output # taken
  /\ output' = taken
  /\ UNCHANGED taken

Next == Take \/ Deliver

Spec == Init /\ [][Next]_<<taken, output>>
=============================================================================
