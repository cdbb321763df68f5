------------------------------ MODULE Tb6612fng -----------------------------
(***************************************************************************)
(* tracker/Tb6612fng: the double H-bridge, one GPIO write at a time.       *)
(*                                                                         *)
(* What the program does to the bridge is a sequence of writes, each of    *)
(* which may fail; the motors turn between any two of them. What the       *)
(* levels make of a motor is the table in Tb6612fng.hpp.                   *)
(***************************************************************************)
EXTENDS Integers, Sequences

VARIABLES
  in1, in2, duty,   \* the inputs of each motor: 0 or 1, 0 or 1, 0..100
  stby              \* 0 in standby

bridgeVars == <<in1, in2, duty, stby>>

PAN  == "PAN"
TILT == "TILT"
Motors == {PAN, TILT}

CCW == 0
CW  == 1
Directions == {CCW, CW}

(* The constructor makes outputs of the pins and writes none: their levels, *)
(* and that of stby, are those the last program left. That the PWM is off   *)
(* is assumed.                                                              *)
BridgeInit ==
  /\ in1 \in [Motors -> {0, 1}]
  /\ in2 \in [Motors -> {0, 1}]
  /\ duty = [m \in Motors |-> 0]
  /\ stby \in {0, 1}

-----------------------------------------------------------------------------
(* The writes: what is written to which pin of which motor. *)

Write(pin, motor, value) == [do |-> pin, motor |-> motor, value |-> value]

Pins == {"in1", "in2", "pwm", "stby"}

(* The level is not taken modulo 2. *)
SetDirectionUnwrapped(motor, direction) ==
  << Write("in1", motor, direction), Write("in2", motor, direction + 1) >>

(* Both inputs get the same level. *)
SetDirectionSame(motor, direction) ==
  << Write("in1", motor, direction), Write("in2", motor, direction) >>

SetDirection(motor, direction) ==
  << Write("in1", motor, direction),
     Write("in2", motor, (direction + 1) % 2) >>

SetDuty(motor, percent) == << Write("pwm", motor, percent) >>

(* The motor runs before it has its direction. *)
TurningDutyFirst(m, direction, percent) ==
  SetDuty(m, percent) \o SetDirection(m, direction)

(* How PanTiltMotors::pan and tilt turn a motor. *)
Turning(m, direction, percent) ==
  SetDirection(m, direction) \o SetDuty(m, percent)

WriteDone(w) ==
  /\ in1'  = IF w.do = "in1" THEN [in1 EXCEPT ![w.motor] = w.value] ELSE in1
  /\ in2'  = IF w.do = "in2" THEN [in2 EXCEPT ![w.motor] = w.value] ELSE in2
  /\ duty' = IF w.do = "pwm" THEN [duty EXCEPT ![w.motor] = w.value] ELSE duty
  /\ stby' = IF w.do = "stby" THEN w.value ELSE stby

-----------------------------------------------------------------------------
(* The table of modes: a motor turns when its inputs differ, its duty is   *)
(* not zero and the bridge is not in standby. It counts up clockwise.      *)

Settled(m) == in1[m] # in2[m]

(* The way the motor would turn, 1 clockwise. *)
Way(m) == IF in1[m] = 1 THEN 1 ELSE -1

IsDriven(m) == Settled(m) /\ duty[m] > 0

IsTurning(m) == IsDriven(m) /\ stby = 1

BridgeTypeOK ==
  /\ in1 \in [Motors -> {0, 1}]
  /\ in2 \in [Motors -> {0, 1}]
  /\ duty \in [Motors -> 0..100]
  /\ stby \in {0, 1}

=============================================================================
