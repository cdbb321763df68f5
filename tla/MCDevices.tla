------------------------------ MODULE MCDevices -----------------------------
(***************************************************************************)
(* Instances of PanTiltMotors, Encoder and HdmiCapture for TLC.            *)
(*                                                                         *)
(* The three drive devices and share nothing: a behaviour is one of one of *)
(* them, device, while the variables of the others keep a first value.     *)
(***************************************************************************)
EXTENDS PanTiltMotors

CONSTANTS MaxTurns, FreeShaft, MaxCalls

VARIABLES
  device,                                              \* whose behaviour it is
  turns, phase, heading, bouncing, pc, loaded,         \* of Encoder
  increment, states, lastGpio, encoderCounter, zero,
  at, call, stop, plugged, owner, streaming, slot      \* of HdmiCapture

E == INSTANCE Encoder WITH counter <- encoderCounter
H == INSTANCE HdmiCapture

encoderVars == <<turns, phase, heading, bouncing, pc, loaded, increment,
                 states, lastGpio, encoderCounter, zero>>
hdmiVars    == <<at, call, stop, plugged, owner, streaming, slot>>
AllVars     == <<device, vars, encoderVars, hdmiVars>>

\* The first values of the variables that no device's initial state fixes.
MotorsFixed  == stby = 1 /\ \A m \in Motors : in1[m] = 0 /\ in2[m] = 0
EncoderFixed == heading = 1
HdmiFixed    == stop = FALSE /\ plugged = TRUE

DevicesInit ==
  /\ device \in {"motors", "encoder", "hdmi"}
  /\ Init /\ E!Init /\ H!Init
  /\ device # "motors"  => MotorsFixed
  /\ device # "encoder" => EncoderFixed
  /\ device # "hdmi"    => HdmiFixed

OfMotors  == device = "motors"  /\ UNCHANGED <<device, encoderVars, hdmiVars>>
OfEncoder == device = "encoder" /\ UNCHANGED <<device, vars, hdmiVars>>
OfHdmi    == device = "hdmi"    /\ UNCHANGED <<device, vars, encoderVars>>

DevicesNext ==
  \/ OfMotors /\ Next
  \/ OfEncoder /\ E!Next
  \/ OfHdmi /\ H!Next

\* Of a device that is not driven no step that is fair is ever enabled.
DevicesSpec ==
  DevicesInit /\ [][DevicesNext]_AllVars /\ Fairness /\ H!Fairness

-----------------------------------------------------------------------------
(* The variables of Encoder keep their types, and states_ keeps up with    *)
(* the contacts: Encoder's TypeOK.                                         *)
EncoderTypeOK == E!TypeOK

(* Encoder's counter is the number of turns since the last reset: see      *)
(* there.                                                                  *)
CounterIsPosition == E!CounterIsPosition

(* HdmiCapture: the program and the driver agree on whose buffer 0 is: see *)
(* there.                                                                  *)
BufferAlternates == H!BufferAlternates

(* HdmiCapture: stopHdmiCapture ends a capture that has entered its loop:  *)
(* see there.                                                              *)
StopEnds == H!StopEnds

=============================================================================
