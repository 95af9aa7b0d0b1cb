------------------------------- MODULE MCStrokes -------------------------------
(* The instance of Strokes for TLC: one touch, on a line of two points. *)
EXTENDS Strokes
=============================================================================
