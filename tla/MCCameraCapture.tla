--------------------------- MODULE MCCameraCapture ---------------------------
(* Pictures of a sale with one retry each, a queue that is full with one   *)
(* of them, one prewarming and one stop of the activity.                   *)
EXTENDS CameraCapture
=============================================================================
