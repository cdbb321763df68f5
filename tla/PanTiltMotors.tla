---------------------------- MODULE PanTiltMotors ---------------------------
(***************************************************************************)
(* tracker/PanTiltMotors: two motors on one bridge, each with an encoder.  *)
(*                                                                         *)
(* The main thread (Controller::run) calls the operations; the alert       *)
(* thread of pigpio runs Encoder::interrupt for every count of an encoder, *)
(* and the callback gotoPosition installed in it, which stops the motor.   *)
(* Neither waits for the other: an operation is a sequence of steps on     *)
(* GPIOs, callbacks and counters, and the steps of both interleave.        *)
(*                                                                         *)
(* A motor turns as the bridge drives it, also while the alert thread is   *)
(* busy or late: lag is what it has turned and has not been reported yet.  *)
(* A duty is 0 or 1 here. That the encoder counts turns is Encoder's part. *)
(***************************************************************************)
EXTENDS Tb6612fng, FiniteSets

CONSTANTS
  MaxPosition,   \* bound: how far the motors turn either way
  MaxLag,        \* bound: how many counts wait to be reported
  Careful        \* the main thread lets a motion end before it starts another

ASSUME MaxPositionAssumption == MaxPosition \in Nat \ {0}
ASSUME MaxLagAssumption == MaxLag \in Nat \ {0}
ASSUME CarefulAssumption == Careful \in BOOLEAN

VARIABLES
  counter,     \* counter_ of each encoder
  lag,         \* increments, 1 or -1, on their way to the alert thread
  callback,    \* callback_ of each encoder: {its finalPosition_} or {}
  calling,     \* {the motor whose callback the alert thread is in}, or {}
  todo,        \* the steps each thread has still to take
  alive,       \* the program runs
  commanded    \* what the last operation asked of each motor

vars == <<bridgeVars, counter, lag, callback, calling, todo, alive, commanded>>

Positions == -MaxPosition..MaxPosition

(* What was asked of a motor: to turn (1, clockwise, -1 or not at all), or *)
(* to go to a position, from where it was then.                            *)
ToTurn(way)      == [is |-> "turn", arg |-> way, from |-> 0]
ToGo(goal, from) == [is |-> "goto", arg |-> goal, from |-> from]

Init ==
  /\ BridgeInit
  /\ counter = [m \in Motors |-> 0]
  /\ lag = [m \in Motors |-> <<>>]
  /\ callback = [m \in Motors |-> {}]
  /\ calling = {}
  /\ todo = [thread \in {"main", "alert"} |-> <<>>]
  /\ alive = TRUE
  /\ commanded = [m \in Motors |-> ToTurn(0)]

MainIdle  == todo["main"] = <<>>
AlertIdle == todo["alert"] = <<>> /\ calling = {}

(* The motor stands still and its encoder has reported everything. Nothing *)
(* in the code waits for that: it is what a Careful caller would.          *)
AtRest(m) == duty[m] = 0 /\ lag[m] = <<>> /\ AlertIdle

-----------------------------------------------------------------------------
(* The operations, called by the main thread. *)

Call(steps) ==
  /\ alive /\ MainIdle
  /\ todo' = [todo EXCEPT !["main"] = steps]
  /\ UNCHANGED <<bridgeVars, counter, lag, callback, calling, alive>>

(* pan and tilt: of an int, whose sign is the direction; 0 is clockwise.   *)
(* Of a direction and a duty they do the same.                             *)
Turn(m, d) ==
  /\ Careful /\ d # 0 => callback[m] = {} /\ calling = {}
  /\ Call(Turning(m, IF d < 0 THEN CCW ELSE CW, IF d = 0 THEN 0 ELSE 1))
  /\ commanded' = [commanded EXCEPT ![m] = ToTurn(d)]

(* The motor is started the wrong way round. *)
DirectionSwapped(m, goal) == IF goal > counter[m] THEN CCW ELSE CW

DirectionTo(m, goal) == IF goal < counter[m] THEN CCW ELSE CW

(* The motors are started before the callbacks are there. *)
GotoStepsLate(pan, tilt) ==
  Turning(PAN, DirectionTo(PAN, pan), 1)
  \o Turning(TILT, DirectionTo(TILT, tilt), 1)
  \o << Write("callback", PAN, pan), Write("callback", TILT, tilt) >>

GotoSteps(pan, tilt) ==
  << Write("callback", PAN, pan), Write("callback", TILT, tilt) >>
  \o Turning(PAN, DirectionTo(PAN, pan), 1)
  \o Turning(TILT, DirectionTo(TILT, tilt), 1)

gotoPosition(pan, tilt) ==
  /\ Careful => \A m \in Motors : AtRest(m)
  /\ Call(GotoSteps(pan, tilt))
  /\ commanded' = [commanded EXCEPT ![PAN]  = ToGo(pan, counter[PAN]),
                                    ![TILT] = ToGo(tilt, counter[TILT])]

setZero ==
  /\ Careful => \A m \in Motors : AtRest(m)
  /\ Call(<< Write("counter", PAN, 0), Write("counter", TILT, 0) >>)
  /\ UNCHANGED commanded

drive   == Call(<< Write("stby", PAN, 1) >>) /\ UNCHANGED commanded
standby == Call(<< Write("stby", PAN, 0) >>) /\ UNCHANGED commanded

Operation ==
  \/ \E m \in Motors, d \in {-1, 0, 1} : Turn(m, d)
  \/ \E pan, tilt \in Positions : gotoPosition(pan, tilt)
  \/ setZero
  \/ drive
  \/ standby

-----------------------------------------------------------------------------
(* A step of either thread. *)

Pop(thread) == todo' = [todo EXCEPT ![thread] = Tail(@)]

(* A GPIO is written. The last write of a stop ends the callback. *)
WriteStep(thread) ==
  /\ alive /\ todo[thread] # <<>>
  /\ Head(todo[thread]).do \in Pins
  /\ WriteDone(Head(todo[thread]))
  /\ Pop(thread)
  /\ calling' = IF thread = "alert" /\ Len(todo["alert"]) = 1 THEN {}
                ELSE calling
  /\ UNCHANGED <<counter, lag, callback, alive, commanded>>

(* setCallback by gotoPosition. It takes no mutex: the alert thread may be *)
(* in the callback that is replaced, and crash (Ends).                     *)
InstallStep ==
  /\ alive /\ todo["main"] # <<>>
  /\ Head(todo["main"]).do = "callback"
  /\ LET w == Head(todo["main"])
     IN  /\ callback' = [callback EXCEPT ![w.motor] = {w.value}]
  /\ Pop("main")
  /\ UNCHANGED <<bridgeVars, counter, lag, calling, alive, commanded>>

ResetStep ==
  /\ alive /\ todo["main"] # <<>>
  /\ Head(todo["main"]).do = "counter"
  /\ counter' = [counter EXCEPT ![Head(todo["main"]).motor] = 0]
  /\ Pop("main")
  /\ UNCHANGED <<bridgeVars, lag, callback, calling, alive, commanded>>

MainStep == WriteStep("main") \/ InstallStep \/ ResetStep

(* The end of the program, which leaves the bridge as it is and nothing    *)
(* else: a GPIO write fails, an exception that ends Controller::run, or on *)
(* the alert thread, in a C function, the program at once; the joystick    *)
(* fails; or it is pressed, between two operations.                        *)
Ends ==
  /\ alive
  /\ alive' = FALSE
  /\ counter' = [m \in Motors |-> 0]
  /\ lag' = [m \in Motors |-> <<>>]
  /\ callback' = [m \in Motors |-> {}]
  /\ calling' = {}
  /\ todo' = [thread \in DOMAIN todo |-> <<>>]
  /\ UNCHANGED <<bridgeVars, commanded>>

-----------------------------------------------------------------------------
(* The motors and the alert thread. *)

Moves(m) ==
  /\ alive /\ IsTurning(m)
  /\ Len(lag[m]) < MaxLag
  /\ counter[m] + Way(m) \in Positions
  /\ lag' = [lag EXCEPT ![m] = Append(@, Way(m))]
  /\ UNCHANGED <<bridgeVars, counter, callback, calling, todo, alive,
                 commanded>>

(* interrupt counts, and calls the callback if there is one. *)
Interrupt(m) ==
  /\ alive /\ AlertIdle
  /\ lag[m] # <<>>
  /\ counter' = [counter EXCEPT ![m] = @ + Head(lag[m])]
  /\ lag' = [lag EXCEPT ![m] = Tail(@)]
  /\ calling' = IF callback[m] = {} THEN {} ELSE {m}
  /\ UNCHANGED <<bridgeVars, callback, todo, alive, commanded>>

InCallback(m) == alive /\ calling = {m} /\ todo["alert"] = <<>>

(* GotoMonitor::callback, elsewhere than at the final position. *)
PassesBy(m) ==
  /\ InCallback(m)
  /\ counter[m] \notin callback[m]
  /\ calling' = {}
  /\ UNCHANGED <<bridgeVars, counter, lag, callback, todo, alive, commanded>>

(* At it. setCallback(nullptr) destroys the std::function that is running, *)
(* and the GotoMonitor bound in it, whose stop_ is called next: it may     *)
(* still be there, or crash (Ends).                                        *)
Arrives(m) ==
  /\ InCallback(m)
  /\ counter[m] \in callback[m]
  /\ callback' = [callback EXCEPT ![m] = {}]
  /\ todo' = [todo EXCEPT !["alert"] = Turning(m, CW, 0)]
  /\ UNCHANGED <<bridgeVars, counter, lag, calling, alive, commanded>>

AlertStep ==
  \/ WriteStep("alert")
  \/ \E m \in Motors : Interrupt(m) \/ PassesBy(m) \/ Arrives(m)

-----------------------------------------------------------------------------
Next ==
  \/ Operation
  \/ MainStep
  \/ AlertStep
  \/ Ends
  \/ \E m \in Motors : Moves(m)

Spec == Init /\ [][Next]_vars

(* Both threads run, and a motor that is driven turns. *)
Fairness ==
  /\ WF_vars(MainStep)
  /\ WF_vars(AlertStep)
  /\ \A m \in Motors : WF_vars(Moves(m)) /\ WF_vars(Interrupt(m))

FairSpec == Spec /\ Fairness

-----------------------------------------------------------------------------
(* The variables keep their types. *)
Steps == [do : Pins \union {"callback", "counter"}, motor : Motors, value : Int]

TypeOK ==
  /\ BridgeTypeOK
  /\ counter \in [Motors -> Int]
  /\ lag \in [Motors -> Seq({1, -1})]
  /\ callback \in [Motors -> SUBSET Int]
  /\ \A m \in Motors : Cardinality(callback[m]) <= 1
  /\ calling \subseteq Motors /\ Cardinality(calling) <= 1
  /\ todo \in [{"main", "alert"} -> Seq(Steps)]
  /\ alive \in BOOLEAN
  /\ commanded \in [Motors -> [is : {"turn", "goto"}, arg : Int, from : Int]]

Quiet == alive /\ MainIdle /\ AlertIdle

IsToward(m, goal) == (goal - counter[m]) * Way(m) > 0

(* Sent to where it is: gotoPosition starts the motor all the same.        *)
IsSentNowhere(m) == commanded[m].is = "goto" /\ commanded[m].from = commanded[m].arg

(* Once both threads are done, a motor that was sent to another position   *)
(* than its own is driven towards it with a callback to stop it there, or  *)
(* stands still without one. When Careful, no count slips between the      *)
(* callbacks, the directions and the duties that gotoPosition writes one   *)
(* after the other. A motor sent to where it is already runs away from     *)
(* there, clockwise, and its callback waits for ever.                      *)
GotoIsObeyed ==
  Quiet => \A m \in Motors : commanded[m].is = "goto" =>
    LET goal == commanded[m].arg IN
    IF IsSentNowhere(m)
    THEN /\ callback[m] = {goal}
         /\ IsDriven(m) /\ Way(m) = 1 /\ counter[m] >= goal
    ELSE \/ callback[m] = {goal} /\ IsDriven(m) /\ IsToward(m, goal)
         \/ callback[m] = {} /\ duty[m] = 0

(* PanTiltMotors.hpp:77, "go to the specidied absolute position": a motor  *)
(* that was sent to a position is not left running away from it.           *)
NeverAway ==
  Quiet => \A m \in Motors : commanded[m].is = "goto" /\ IsDriven(m) =>
    (commanded[m].arg - counter[m]) * Way(m) >= 0

(* pan and tilt: whatever a callback was stopping meanwhile, once both     *)
(* threads are done the motor does what the last call asked, and its two   *)
(* inputs are not left at the same level.                                  *)
TurnIsObeyed ==
  Quiet => \A m \in Motors : commanded[m].is = "turn" =>
    IF commanded[m].arg = 0 THEN duty[m] = 0
    ELSE IsDriven(m) /\ Way(m) = commanded[m].arg

(* At no time does a motor turn a way nobody asked for, unless a write of  *)
(* its duty, or the callback that stops it, is still to come: pan(0) turns *)
(* a motor that goes anticlockwise the other way before it stops it, but   *)
(* no interleaving leaves it at that. A motor sent to where it is turns    *)
(* clockwise, which nobody asked for either.                               *)
NeverAstray ==
  alive => \A m \in Motors : IsTurning(m) =>
    \/ commanded[m] = ToTurn(Way(m))
    \/ commanded[m].is = "goto" /\ IsToward(m, commanded[m].arg)
    \/ IsSentNowhere(m) /\ Way(m) = 1
    \/ calling = {m}
    \/ \E thread \in DOMAIN todo : \E i \in DOMAIN todo[thread] :
         todo[thread][i].do = "pwm" /\ todo[thread][i].motor = m

(* gotoPosition ends, unless it was to where the motor is: the motor stops,*)
(* unless something else is asked of it, the bridge is put in standby or   *)
(* the program ends.                                                       *)
IsGoing(m) == commanded[m].is = "goto" /\ ~IsSentNowhere(m) /\ MainIdle

GotoEnds ==
  \A m \in Motors :
    IsGoing(m) ~> (~alive \/ ~IsGoing(m) \/ stby = 0 \/ duty[m] = 0)

=============================================================================
