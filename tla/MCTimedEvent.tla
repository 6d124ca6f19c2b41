---------------------------- MODULE MCTimedEvent ----------------------------
(* TimedEvent with two events on a timer of 2 ticks for 3 units of time,  *)
(* so that both conversions round.                                         *)
EXTENDS TimedEvent
=============================================================================
