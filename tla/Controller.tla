----------------------------- MODULE Controller -----------------------------
(***************************************************************************)
(* tracker/Controller with its Joystick and Mcp3008: what the tracker does *)
(* to the motors, statement by statement.                                  *)
(*                                                                         *)
(* The constructors set up the pins and the SPI; run plays a script of     *)
(* four motions, and then lets the joystick drive the motors, a second at  *)
(* a time, until it is pressed. A GPIO write or an SPI transfer may fail   *)
(* at every step: an exception that leaves run, and what is driven stays   *)
(* driven. The position that run logs, and the encoders, are in            *)
(* PanTiltMotors.                                                          *)
(***************************************************************************)
EXTENDS Tb6612fng

CONSTANT Readings   \* what the ADC may read: 0..1023, or some of it

ASSUME ReadingsAssumption == Readings \subseteq 0..1023

VARIABLES
  stage,     \* of the controller: constructed so far, in run, or over
  todo,      \* the statements run has still to execute
  spi,       \* the SPI is open
  seen       \* the last reading of the joystick for each motor

controllerVars == <<bridgeVars, stage, todo, spi, seen>>

maxValue == 1024
neutralValue == maxValue \div 2

(* A statement of run has the form of a write. *)
Sleep         == << Write("sleep", PAN, 0) >>
Glance        == << Write("glance", PAN, 0) >>    \* reads for the log
Steer(m)      == << Write("steer", m, 0) >>       \* pan(xValue()), tilt(yValue())
Check         == << Write("check", PAN, 0) >>     \* isPressed()
drive         == << Write("stby", PAN, 1) >>
standby       == << Write("stby", PAN, 0) >>

(* pan and tilt of an int. *)
TurnBy(m, percent) ==
  Turning(m, IF percent < 0 THEN CCW ELSE CW,
          IF percent < 0 THEN -percent ELSE percent)

Stop(m) == TurnBy(m, 0)

(* Each motion of the script: half of the speed for a while. *)
Motion(m, direction) == Turning(m, direction, 50) \o Sleep \o Stop(m)

Script ==
  drive \o Stop(PAN) \o Stop(PAN)
  \o Motion(PAN, CCW) \o Motion(PAN, CW) \o Motion(TILT, CCW) \o Motion(TILT, CW)

(* Only the motor that pans is stopped. *)
RoundWithoutTilt ==
  Glance \o Steer(PAN) \o Steer(TILT) \o Sleep \o Stop(PAN) \o Check

(* One turn of the loop. *)
Round ==
  Glance \o Steer(PAN) \o Steer(TILT) \o Sleep \o Stop(PAN) \o Stop(TILT)
  \o Check

-----------------------------------------------------------------------------
(* The joystick: the deflection it makes of a reading, in steps of 5% of   *)
(* the way to the end, rounded half away from zero; in the middle, none.   *)

Rounded(n, d) == IF n < 0 THEN -((2 * (-n) + d) \div (2 * d))
                 ELSE (2 * n + d) \div (2 * d)

(* A reading of the whole way, not of its halves. *)
directionValueUncentred(reading) == Rounded(reading * 20, maxValue)

directionValue(reading) ==
  LET value == Rounded((reading - neutralValue) * 20, neutralValue)
  IN  IF value <= -5 \/ value >= 5 THEN value ELSE 0

(* Mcp3008::read asserts that the channel is one of eight, and makes the   *)
(* reading of two bytes: the first has two bits of it and others, and the  *)
(* second, a char, the rest. A char is unsigned where pigpio runs, on ARM. *)
IsChannel(channel) == channel \in 0..7

Transferred(reading) == <<248 + reading \div 256, reading % 256>>

read(reading) ==
  LET bytes == Transferred(reading)
  IN  (bytes[1] % 4) * 256 + bytes[2]

-----------------------------------------------------------------------------
ControllerInit ==
  /\ BridgeInit
  /\ stage = "none"
  /\ todo = <<>>
  /\ spi = FALSE
  /\ seen = [m \in Motors |-> neutralValue]

(* PanTiltMotors's constructor: modes of the pins, and the encoders. *)
ConstructMotors ==
  /\ stage = "none"
  /\ stage' = "motors"
  /\ UNCHANGED <<bridgeVars, todo, spi, seen>>

(* Mcp3008's constructor. *)
OpenSpi ==
  /\ stage = "motors"
  /\ spi' = TRUE
  /\ stage' = "joystick"
  /\ UNCHANGED <<bridgeVars, todo, seen>>

(* Joystick's constructor reads all channels, a dozen times, and then run  *)
(* is called.                                                              *)
ReadChannels(channels) ==
  /\ stage = "joystick"
  /\ \A c \in channels : IsChannel(c)
  /\ todo' = Script \o Round
  /\ stage' = "run"
  /\ UNCHANGED <<bridgeVars, spi, seen>>

Proceed(rest) == todo' = rest \o Tail(todo)

(* A GPIO write. That of standby is not checked: it may do nothing. *)
WriteStep ==
  /\ stage = "run" /\ todo # <<>>
  /\ Head(todo).do \in Pins
  /\ \/ WriteDone(Head(todo))
     \/ Head(todo).do = "stby" /\ UNCHANGED bridgeVars
  /\ Proceed(<<>>)
  /\ UNCHANGED <<stage, spi, seen>>

Waits ==
  /\ stage = "run" /\ todo # <<>>
  /\ Head(todo).do \in {"sleep", "glance"}
  /\ Proceed(<<>>)
  /\ UNCHANGED <<bridgeVars, stage, spi, seen>>

Steers ==
  /\ stage = "run" /\ todo # <<>>
  /\ Head(todo).do = "steer"
  /\ \E reading \in Readings :
       /\ seen' = [seen EXCEPT ![Head(todo).motor] = reading]
       /\ Proceed(TurnBy(Head(todo).motor, directionValue(read(reading))))
  /\ UNCHANGED <<bridgeVars, stage, spi>>

(* isPressed: the switch pulls the channel to 0 exactly. *)
Checks ==
  /\ stage = "run" /\ todo # <<>>
  /\ Head(todo).do = "check"
  /\ seen' = [m \in Motors |-> neutralValue]   \* forgotten
  /\ \E reading \in Readings :
       Proceed(IF read(reading) = 0 THEN standby ELSE Round)
  /\ UNCHANGED <<bridgeVars, stage, spi>>

Returns ==
  /\ stage = "run" /\ todo = <<>>
  /\ stage' = "returned"
  /\ UNCHANGED <<bridgeVars, todo, spi, seen>>

(* Every statement but sleep and standby may throw, and so may the         *)
(* constructors. The rest is not executed; the message about spiOpen and   *)
(* the others differ in the kind of exception alone.                       *)
Throws ==
  /\ \/ stage \in {"none", "motors", "joystick"}
     \/ stage = "run" /\ todo # <<>> /\ Head(todo).do \notin {"stby", "sleep"}
  /\ stage' = "thrown"
  /\ todo' = <<>>
  /\ UNCHANGED <<bridgeVars, spi, seen>>

ControllerStep(channels) ==
  \/ ConstructMotors \/ OpenSpi \/ ReadChannels(channels)
  \/ WriteStep \/ Waits \/ Steers \/ Checks \/ Returns

(* The destructors: of the joystick's ADC, which closes the SPI, and of    *)
(* the motors, which leaves the bridge alone.                              *)
Destroys ==
  /\ stage \in {"returned", "thrown"}
  /\ spi' = FALSE
  /\ stage' = "over"
  /\ UNCHANGED <<bridgeVars, todo, seen>>

-----------------------------------------------------------------------------
ControllerTypeOK ==
  /\ BridgeTypeOK
  /\ stage \in {"none", "motors", "joystick", "run", "returned", "thrown", "over"}
  /\ todo \in Seq([do : Pins \cup {"sleep", "glance", "steer", "check"},
                   motor : Motors, value : 0..100])
  /\ spi \in BOOLEAN
  /\ seen \in [Motors -> Readings \cup {neutralValue}]

(* How far from the middle the stick was held, in units of the ADC. *)
Deflection(m) == seen[m] - neutralValue

(* Controller::run: while it sleeps, the motors do what they are told,     *)
(* whatever happened before. In the loop, each motor turns the way its     *)
(* stick was held, or stands still when it was held within 116 units of the*)
(* middle; and in the script one motor turns at a time, at half of the     *)
(* speed. The duty in the loop is 5 to 20, which is a step in 5% and not   *)
(* the percentage that Joystick.hpp promises (DutyIsPercentage).           *)
InLoop == todo # <<>> /\ todo[Len(todo)].do = "check" /\ Len(todo) <= Len(Round)

MovesAsTold ==
  stage = "run" /\ todo # <<>> /\ Head(todo).do = "sleep" =>
    IF InLoop
    THEN \A m \in Motors :
           IF Deflection(m) \in -115..115 THEN duty[m] = 0
           ELSE /\ IsDriven(m) /\ duty[m] \in 5..20
                /\ Way(m) * Deflection(m) > 0
    ELSE \E m \in Motors :
           IsDriven(m) /\ duty[m] = 50 /\ \A n \in Motors \ {m} : duty[n] = 0

(* Joystick.hpp:42, "returns a percentage of X motion (value in [-100,     *)
(* +100]", and :55, "converts the ABC value into a directional percentage":*)
(* in the loop, each motor turns at the percentage of the way to the end at*)
(* which its stick was held, give or take 5%.                              *)
DutyIsPercentage ==
  stage = "run" /\ todo # <<>> /\ Head(todo).do = "sleep" /\ InLoop =>
    \A m \in Motors :
      Way(m) * duty[m] * neutralValue - 100 * Deflection(m)
        \in (-5 * neutralValue)..(5 * neutralValue)

=============================================================================
