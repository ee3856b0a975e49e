------------------------------- MODULE MCGesture -------------------------------
(* Three levels of the angle and a threshold that drifts over two of them.   *)
(* Eleven frames of a gesture's span in a window of sixteen: enough for four *)
(* legs, for a rest between two of them, and for the span to cut a fifth off. *)
EXTENDS Gesture
=============================================================================
