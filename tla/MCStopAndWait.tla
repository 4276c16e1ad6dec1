---------------------------- MODULE MCStopAndWait ---------------------------
(***************************************************************************)
(* Inputs of Alice for TLC: lines shorter than, equal to and longer than a *)
(* segment, and one with the separator in it.                              *)
(***************************************************************************)
EXTENDS StopAndWait
CONSTANTS a, b, c

PlainLines == << <<a, b, c>>, <<b>>, <<a, b>> >>
MCChar == {a, b, c, Bar}
=============================================================================
