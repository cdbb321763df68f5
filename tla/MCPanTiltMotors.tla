--------------------------- MODULE MCPanTiltMotors --------------------------
(* Instances of PanTiltMotors for TLC; the .cfg files give the bounds.     *)
EXTENDS PanTiltMotors
=============================================================================
