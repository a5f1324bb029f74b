-------------------------- MODULE MCStreamTimeline --------------------------
(* Bounds of the timeline: two events per direction, so that a third frame  *)
(* is merged and a terminal can be refused; a delay limit the clock passes; *)
(* a factor that exceeds the total delay with one recorded within it.       *)
EXTENDS StreamTimeline

MCModes == {Immediate, RecordedMode, [num |-> 1, den |-> 2], [num |-> 6, den |-> 1]}
=============================================================================
