---------------------------- MODULE MCTrackpoint ----------------------------
(* The instance of Trackpoint that TLC checks: a range that starts at pin  *)
(* 2 stands for the one that starts at pin 3, so that five pins have two   *)
(* below the range, two in it and one beyond it.  Sticks have all kinds of *)
(* data, some, or none.                                                    *)
EXTENDS Trackpoint

MCStick == {<<Kind, {"rel", "gestures"}>>, <<{"gestures"}, {}, {"abs", "rel"}>>}

(* A pin that is not valid does not exist, or is no input; touchpads where *)
(* some pins are the one and some the other add nothing to these.          *)
MCInit == TrackpointInit /\ (present = Pins \/ inputs = Pins)

MCSpec == MCInit /\ [][TrackpointNext]_trackpointVars
=============================================================================
