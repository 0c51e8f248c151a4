--------------------------- MODULE MCFrameDelivery ---------------------------
(* The instance of FrameDelivery that TLC checks.                           *)
EXTENDS FrameDelivery

MCThreeFrames == 1..3
\* Frame 3 is of the second camera; the key of all frames of a camera is the same
MCCamOf == [f \in Frames |-> IF f = 3 THEN "c2" ELSE "c1"]
MCSig == [f \in Frames |-> 1]
=============================================================================
